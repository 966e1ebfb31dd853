------------------------- MODULE ConfigurationProofs -------------------------
(***************************************************************************)
(* What load_settings lets through, for every environment and any number   *)
(* of edits and restarts.                                                  *)
(***************************************************************************)
EXTENDS Configuration, TLAPS

(* The settings as functions of an environment, to compare two of them.     *)

IntIn(e, v, default, minimum) ==
  IF e[v].is = "integer" /\ e[v].n >= minimum THEN e[v].n ELSE default

PortIn(e, k) ==
  LET own == IntIn(e, PortVariable[k], 0, 1)
      legacy == IF k = "sonarr" THEN IntIn(e, "PROXY_PORT", 0, 1) ELSE 0
  IN  IF own # 0 THEN own ELSE IF legacy # 0 THEN legacy ELSE default_port[k]

MeaningIn(e, k) ==
  [english |-> e[Urls[k][1]], anime |-> e[Urls[k][2]],
   offset |-> IntIn(e, "ANIME_ID_OFFSET", DEFAULT_ID_OFFSET, 1)]

-----------------------------------------------------------------------------
(* The inductive invariant.                                                 *)

\* While it serves, the container runs on its present environment, accepted.
OnItsEnvironment ==
  process = "serving" =>
    /\ Accepted
    /\ settings = load_settings
    /\ \A k \in ServedKinds : Port(k) <= MaxPort

\* What Seerr has stored is what the environment of that time stood for.
StoredAsSeen ==
  /\ stored = [k \in Kinds |-> stored[k]]
  /\ \A k \in Kinds : stored[k] # Nothing =>
       /\ stored[k].meaning = MeaningIn(stored[k].env, k)
       /\ stored[k].port = PortIn(stored[k].env, k)
       /\ stored[k].port \in 1 .. MaxPort

IInv ==
  /\ IsEnvironment(env)
  /\ written \subseteq DOMAIN Choices
  /\ process \in {"starting", "serving", "exited"}
  /\ OnItsEnvironment
  /\ StoredAsSeen

-----------------------------------------------------------------------------
(* What a setting can be.                                                   *)

\* A number that is set is at least its minimum; anything else is the default.
LEMMA IntEnvBound ==
  ASSUME IsEnvironment(env), NEW v \in NumberVariables, NEW d \in Int, NEW m \in Int
  PROVE  /\ IntEnv(v, d, m) \in Int
         /\ IntEnv(v, d, m) = d \/ IntEnv(v, d, m) >= m
         /\ IntEnv(v, d, m) = IntIn(env, v, d, m)
<1>1. env[v].n \in Int
  BY DEF IsEnvironment, Value
<1> QED
  BY <1>1 DEF IntEnv, IntIn

LEMMA Defaults ==
  /\ DEFAULT_ID_OFFSET \in Int /\ DEFAULT_ID_OFFSET >= 1
  /\ DEFAULT_MAX_BODY_BYTES \in Int /\ DEFAULT_MAX_BODY_BYTES >= 1024
  /\ MaxPort \in Int
BY SMT DEF DEFAULT_ID_OFFSET, DEFAULT_MAX_BODY_BYTES, MaxPort

\* Every port is positive.
LEMMA PortBound ==
  ASSUME IsEnvironment(env), NEW k \in Kinds
  PROVE  Port(k) \in Int /\ Port(k) >= 1 /\ Port(k) = PortIn(env, k)
<1>1. /\ PortVariable[k] \in NumberVariables /\ "PROXY_PORT" \in NumberVariables
      /\ default_port[k] \in Int /\ default_port[k] >= 1
  BY DEF Kinds, PortVariable, NumberVariables, default_port
<1> DEFINE own == IntEnv(PortVariable[k], 0, 1)
           legacy == IntEnv("PROXY_PORT", 0, 1)
<1>2. own \in Int /\ (own = 0 \/ own >= 1) /\ own = IntIn(env, PortVariable[k], 0, 1)
  BY <1>1, IntEnvBound
<1>3. legacy \in Int /\ (legacy = 0 \/ legacy >= 1) /\ legacy = IntIn(env, "PROXY_PORT", 0, 1)
  BY <1>1, IntEnvBound
<1>4. /\ Port(k) = IF own # 0 THEN own
                   ELSE IF k = "sonarr" /\ legacy # 0 THEN legacy ELSE default_port[k]
      /\ PortIn(env, k) = Port(k)
  BY <1>2, <1>3 DEF Port, PortIn
<1> HIDE DEF own, legacy
<1> QED
  BY <1>1, <1>2, <1>3, <1>4

\* What the service of k is while it is served.
LEMMA ServedSettings ==
  ASSUME IInv, process = "serving"
  PROVE  /\ settings.loaded
         /\ DOMAIN settings.services = ServedKinds /\ ServedKinds \subseteq Kinds
         /\ \A k \in ServedKinds :
              /\ settings.services[k].english = env[Urls[k][1]]
              /\ settings.services[k].anime = env[Urls[k][2]]
              /\ settings.services[k].port = Port(k)
         /\ settings.id_offset = IntEnv("ANIME_ID_OFFSET", DEFAULT_ID_OFFSET, 1)
<1>1. settings = load_settings
  BY DEF IInv, OnItsEnvironment
<1>2. /\ settings.loaded
      /\ settings.services = [k \in ServedKinds |-> Service(k)]
      /\ settings.id_offset = IntEnv("ANIME_ID_OFFSET", DEFAULT_ID_OFFSET, 1)
  BY <1>1 DEF load_settings
<1>3. ServedKinds \subseteq Kinds
  BY DEF ServedKinds
<1> QED
  BY <1>2, <1>3 DEF Service

\* What the IDs of k and its port stand for depends on the environment alone.
LEMMA MeaningOfEnvironment ==
  ASSUME IInv, process = "serving", NEW k \in ServedKinds
  PROVE  /\ Meaning(k) = MeaningIn(env, k)
         /\ settings.services[k].port = PortIn(env, k)
         /\ settings.services[k].port \in 1 .. MaxPort
<1>1. k \in Kinds
  BY DEF ServedKinds
<1>2. Port(k) \in Int /\ Port(k) >= 1 /\ Port(k) = PortIn(env, k)
  BY <1>1, PortBound DEF IInv
<1>3. Port(k) <= MaxPort
  BY DEF IInv, OnItsEnvironment
<1>4. settings.id_offset = IntIn(env, "ANIME_ID_OFFSET", DEFAULT_ID_OFFSET, 1)
  BY ServedSettings DEF IntEnv, IntIn
<1> QED
  BY <1>2, <1>3, <1>4, ServedSettings, Defaults DEF Meaning, MeaningIn

-----------------------------------------------------------------------------
LEMMA IInvInit == Init => IInv
<1> SUFFICES ASSUME Init PROVE IInv
  OBVIOUS
<1>1. IsEnvironment(env) /\ written \subseteq DOMAIN Choices
  BY EnvironmentsAssumption DEF Init
<1>2. OnItsEnvironment
  BY DEF Init, OnItsEnvironment
<1>3. StoredAsSeen
  BY DEF Init, StoredAsSeen
<1> QED
  BY <1>1, <1>2, <1>3 DEF Init, IInv

LEMMA IInvNext == IInv /\ [Next]_vars => IInv'
<1> SUFFICES ASSUME IInv, [Next]_vars PROVE IInv'
  OBVIOUS
<1>1. CASE Start
  <2>1. env' = env /\ written' = written /\ stored' = stored
    BY <1>1 DEF Start
  <2>2. IsEnvironment(env)' /\ StoredAsSeen'
    BY <2>1 DEF IInv, IsEnvironment, StoredAsSeen
  <2>3. process' = "serving" =>
          /\ Accepted
          /\ settings' = load_settings
          /\ \A k \in ServedKinds : Port(k) <= MaxPort
    BY <1>1 DEF Start
  <2>4. /\ Accepted' = Accepted /\ load_settings' = load_settings
        /\ ServedKinds' = ServedKinds /\ \A k \in Kinds : Port(k)' = Port(k)
    BY <2>1
    DEF Accepted, load_settings, ServedKinds, IsServed, PairComplete, PortsDiffer, Port,
        HasKey, IntEnv, Service
  <2>5. OnItsEnvironment'
    BY <2>3, <2>4 DEF OnItsEnvironment, ServedKinds
  <2> QED
    BY <1>1, <2>1, <2>2, <2>5 DEF IInv, Start
<1>2. CASE Restart
  <2>1. IsEnvironment(env)' /\ StoredAsSeen'
    BY <1>2 DEF Restart, IInv, IsEnvironment, StoredAsSeen
  <2> QED
    BY <1>2, <2>1 DEF IInv, Restart, OnItsEnvironment
<1>3. ASSUME NEW v \in DOMAIN Choices, NEW value \in Choices[v], Edit(v, value) PROVE IInv'
  <2>1. /\ env' = [env EXCEPT ![v] = value] /\ written' = written \cup {v}
        /\ process' = "starting" /\ stored' = stored
    BY <1>3 DEF Edit
  <2>2. IsEnvironment(env)'
    BY <2>1, EnvironmentsAssumption DEF IInv, IsEnvironment
  <2>3. StoredAsSeen'
    BY <2>1 DEF IInv, StoredAsSeen
  <2> QED
    BY <2>1, <2>2, <2>3 DEF IInv, OnItsEnvironment
<1>4. ASSUME NEW k \in Kinds, Use(k) PROVE IInv'
  <2>1. /\ process = "serving" /\ k \in ServedKinds
        /\ env' = env /\ written' = written /\ process' = process /\ settings' = settings
    BY <1>4, ServedSettings DEF Use
  <2>2. stored' = [stored EXCEPT ![k] =
          [used |-> TRUE, env |-> env, meaning |-> MeaningIn(env, k), port |-> PortIn(env, k)]]
    BY <1>4, <2>1, MeaningOfEnvironment DEF Use
  <2>3. PortIn(env, k) \in 1 .. MaxPort
    BY <2>1, MeaningOfEnvironment
  <2>4. StoredAsSeen'
    BY <2>2, <2>3 DEF IInv, StoredAsSeen
  <2>5. /\ Accepted' = Accepted /\ load_settings' = load_settings
        /\ ServedKinds' = ServedKinds /\ \A j \in Kinds : Port(j)' = Port(j)
    BY <2>1
    DEF Accepted, load_settings, ServedKinds, IsServed, PairComplete, PortsDiffer, Port,
        HasKey, IntEnv, Service
  <2>6. OnItsEnvironment'
    BY <2>1, <2>5 DEF IInv, OnItsEnvironment, ServedKinds
  <2> QED
    BY <2>1, <2>4, <2>6 DEF IInv, IsEnvironment
<1>5. CASE UNCHANGED vars
  <2>1. /\ env' = env /\ written' = written /\ process' = process
        /\ settings' = settings /\ stored' = stored
    BY <1>5 DEF vars
  <2>2. /\ Accepted' = Accepted /\ load_settings' = load_settings
        /\ ServedKinds' = ServedKinds /\ \A j \in Kinds : Port(j)' = Port(j)
    BY <2>1
    DEF Accepted, load_settings, ServedKinds, IsServed, PairComplete, PortsDiffer, Port,
        HasKey, IntEnv, Service
  <2>3. OnItsEnvironment'
    BY <2>1, <2>2 DEF IInv, OnItsEnvironment, ServedKinds
  <2>4. StoredAsSeen'
    BY <2>1 DEF IInv, StoredAsSeen
  <2> QED
    BY <2>1, <2>3, <2>4 DEF IInv, IsEnvironment
<1> QED
  BY <1>1, <1>2, <1>3, <1>4, <1>5 DEF Next

LEMMA Inductive == Spec => []IInv
  BY IInvInit, IInvNext, PTL DEF Spec

-----------------------------------------------------------------------------
LEMMA IInvType == IInv => TypeOK
<1> SUFFICES ASSUME IInv PROVE TypeOK
  OBVIOUS
<1>1. process = "serving" => settings.loaded /\ DOMAIN settings.services \subseteq Kinds
  BY ServedSettings
<1> QED
  BY <1>1 DEF IInv, StoredAsSeen, TypeOK

\* The state has the shape the module declares.
THEOREM TypeCorrect == Spec => []TypeOK
  BY Inductive, IInvType, PTL

LEMMA IInvUsable == IInv => UsableSettings
<1> SUFFICES ASSUME IInv, process = "serving" PROVE
      /\ settings.id_offset >= 1
      /\ settings.connect_timeout \in 1 .. settings.timeout
      /\ settings.max_body_bytes >= 1024
      /\ DOMAIN settings.services # {}
      /\ \A j, k \in DOMAIN settings.services :
           j # k => settings.services[j].port # settings.services[k].port
  BY DEF UsableSettings
<1>0. IsEnvironment(env) /\ Accepted /\ settings = load_settings
  BY DEF IInv, OnItsEnvironment
<1> DEFINE connect == IntEnv("UPSTREAM_CONNECT_TIMEOUT", 5, 1)
           read == IntEnv("UPSTREAM_TIMEOUT", 20, 1)
           offset == IntEnv("ANIME_ID_OFFSET", DEFAULT_ID_OFFSET, 1)
           size == IntEnv("MAX_BODY_BYTES", DEFAULT_MAX_BODY_BYTES, 1024)
<1>1. connect \in Int /\ (connect = 5 \/ connect >= 1)
  BY <1>0, IntEnvBound, Defaults DEF NumberVariables
<1>2. read \in Int /\ (read = 20 \/ read >= 1)
  BY <1>0, IntEnvBound, Defaults DEF NumberVariables
<1>3. offset \in Int /\ (offset = DEFAULT_ID_OFFSET \/ offset >= 1)
  BY <1>0, IntEnvBound, Defaults DEF NumberVariables
<1>4. size \in Int /\ (size = DEFAULT_MAX_BODY_BYTES \/ size >= 1024)
  BY <1>0, IntEnvBound, Defaults DEF NumberVariables
<1>5. /\ settings.id_offset = offset /\ settings.max_body_bytes = size
      /\ settings.timeout = read /\ settings.connect_timeout = Lesser(connect, read)
  BY <1>0 DEF load_settings
<1> HIDE DEF connect, read, offset, size
<1>6. settings.connect_timeout \in 1 .. settings.timeout
  BY <1>1, <1>2, <1>5 DEF Lesser
<1>7. settings.id_offset >= 1 /\ settings.max_body_bytes >= 1024
  BY <1>3, <1>4, <1>5, Defaults
<1>8. DOMAIN settings.services # {}
  BY <1>0, ServedSettings DEF Accepted
<1>9. \A j, k \in DOMAIN settings.services :
        j # k => settings.services[j].port # settings.services[k].port
  BY <1>0, ServedSettings DEF Accepted, PortsDiffer
<1> QED
  BY <1>6, <1>7, <1>8, <1>9

\* Whatever is typed into the variables, what is served runs on settings the rest
\* of the proxy can rely on: a positive offset, timeouts that are positive and in
\* order, ports that differ (config.py:48-53, 194-199, 224-231).
THEOREM SettingsAreUsable == Spec => []UsableSettings
  BY Inductive, IInvUsable, PTL

LEMMA IInvWhole == IInv => NothingHalfConfigured
<1> SUFFICES ASSUME IInv, process = "serving" PROVE
      /\ \A k \in Kinds :
           \/ k \notin DOMAIN settings.services /\ \A v \in Pair(k) : env[v] = "blank"
           \/ /\ k \in DOMAIN settings.services
              /\ {settings.services[k].english, settings.services[k].anime}
                   \cap {"blank", "not_http"} = {}
              /\ \A i \in 1 .. 2 : env[ApiKeys[k][i]] # "blank"
      /\ settings.has_key \/ settings.allow_anonymous
  BY DEF NothingHalfConfigured
<1>0. Accepted /\ settings = load_settings
  BY DEF IInv, OnItsEnvironment
<1>1. settings.has_key \/ settings.allow_anonymous
  BY <1>0 DEF Accepted, load_settings
<1>2. ASSUME NEW k \in Kinds, k \notin ServedKinds
      PROVE  k \notin DOMAIN settings.services /\ \A v \in Pair(k) : env[v] = "blank"
  BY <1>2, ServedSettings DEF ServedKinds, IsServed
<1>3. ASSUME NEW k \in ServedKinds
      PROVE  /\ k \in DOMAIN settings.services
             /\ {settings.services[k].english, settings.services[k].anime}
                  \cap {"blank", "not_http"} = {}
             /\ \A i \in 1 .. 2 : env[ApiKeys[k][i]] # "blank"
  <2>1. PairComplete(k)
    BY <1>0 DEF Accepted
  <2>2. /\ \A i \in 1 .. 2 : Urls[k][i] \in Pair(k) /\ ApiKeys[k][i] \in Pair(k)
    BY DEF Pair
  <2>3. /\ \A i \in 1 .. 2 : env[Urls[k][i]] \notin {"blank", "not_http"}
        /\ \A i \in 1 .. 2 : env[ApiKeys[k][i]] # "blank"
    BY <2>1, <2>2 DEF PairComplete
  <2> QED
    BY <2>3, ServedSettings
<1> QED
  BY <1>1, <1>2, <1>3

\* A service has both its instances with their keys or is not there, and the
\* proxy has a key of its own unless it was told to do without (config.py:145-158).
THEOREM NothingIsHalfConfigured == Spec => []NothingHalfConfigured
  BY Inductive, IInvWhole, PTL

-----------------------------------------------------------------------------
\* An environment that agrees on the variables of k's IDs exposes the same IDs.
LEMMA SameMeaning ==
  ASSUME NEW e, NEW f, NEW k \in Kinds, \A v \in IdVariables(k) : e[v] = f[v]
  PROVE  MeaningIn(e, k) = MeaningIn(f, k)
  BY DEF MeaningIn, IntIn, IdVariables

\* And one that agrees on the variables of its port listens where it did.
LEMMA SamePort ==
  ASSUME NEW e, NEW f, NEW k \in Kinds, \A v \in PortVariables(k) : e[v] = f[v]
  PROVE  PortIn(e, k) = PortIn(f, k)
<1>1. e[PortVariable[k]] = f[PortVariable[k]]
  BY DEF PortVariables
<1>2. k = "sonarr" => e["PROXY_PORT"] = f["PROXY_PORT"]
  BY DEF PortVariables
<1> QED
  BY <1>1, <1>2 DEF PortIn, IntIn

LEMMA IInvStored == IInv => StoredStaysTrue
<1> SUFFICES ASSUME IInv, NEW k \in Kinds, process = "serving", stored[k] # Nothing,
                    k \in DOMAIN settings.services
             PROVE  /\ (\A v \in IdVariables(k) : env[v] = stored[k].env[v])
                         => Meaning(k) = stored[k].meaning
                    /\ (\A v \in PortVariables(k) : env[v] = stored[k].env[v])
                         => settings.services[k].port = stored[k].port
  BY DEF StoredStaysTrue
<1>1. /\ stored[k].meaning = MeaningIn(stored[k].env, k)
      /\ stored[k].port = PortIn(stored[k].env, k)
  BY DEF IInv, StoredAsSeen
<1>2. Meaning(k) = MeaningIn(env, k) /\ settings.services[k].port = PortIn(env, k)
  BY ServedSettings, MeaningOfEnvironment
<1>3. ASSUME \A v \in IdVariables(k) : env[v] = stored[k].env[v]
      PROVE  Meaning(k) = stored[k].meaning
  BY <1>1, <1>2, <1>3, SameMeaning
<1>4. ASSUME \A v \in PortVariables(k) : env[v] = stored[k].env[v]
      PROVE  settings.services[k].port = stored[k].port
  BY <1>1, <1>2, <1>4, SamePort
<1> QED
  BY <1>3, <1>4

\* However often the container is edited and started again, an ID or a port that
\* Seerr stored keeps its meaning as long as the variables it comes from are left
\* alone: a second service, a key or a timeout never moves it (README.md:303-306).
THEOREM StoredIdsStayTrue == Spec => []StoredStaysTrue
  BY Inductive, IInvStored, PTL
==============================================================================
