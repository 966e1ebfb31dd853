---------------------------- MODULE Configuration ----------------------------
(***************************************************************************)
(* load_settings (proxyseerr/config.py) and the container it configures:   *)
(* the operator edits environment variables, the container is recreated,   *)
(* main() serves or exits, and Docker starts it again.  Seerr meanwhile    *)
(* stores the IDs it was shown, and the port it reached the service on.    *)
(*                                                                         *)
(* A text is one of a few words; a number is blank, junk or an integer.    *)
(***************************************************************************)
EXTENDS Integers, FiniteSets

CONSTANTS
  InitEnvs,   \* environments a container may first be created with
  Choices,    \* Choices[v]: what the operator may set variable v to
  MaxEdits    \* bound on the edits

VARIABLES
  env,        \* the container's environment
  written,    \* variables the operator has written
  process,    \* "starting", "serving" or "exited"
  settings,   \* what load_settings returned, or NoSettings
  stored      \* stored[k]: what Seerr has of service k, and the environment then

vars == <<env, written, process, settings, stored>>

Kinds == {"sonarr", "radarr"}
Blank == [is |-> "blank", n |-> 0]
Junk == [is |-> "junk", n |-> 0]
Number(n) == [is |-> "integer", n |-> n]
NoSettings == [loaded |-> FALSE]
Nothing == [used |-> FALSE]

\* A number as it is typed, and the variables that hold one.
Value == [is : {"blank", "junk", "integer"}, n : Int]
NumberVariables ==
  {"PROXY_PORT", "SONARR_PROXY_PORT", "RADARR_PROXY_PORT", "UPSTREAM_TIMEOUT",
   "UPSTREAM_CONNECT_TIMEOUT", "ANIME_ID_OFFSET", "MAX_BODY_BYTES"}
IsEnvironment(e) ==
  /\ e = [v \in DOMAIN Choices |-> e[v]]
  /\ \A v \in NumberVariables : e[v] \in Value

ASSUME EnvironmentsAssumption ==
  /\ NumberVariables \subseteq DOMAIN Choices
  /\ \A v \in NumberVariables : Choices[v] \subseteq Value
  /\ \A e \in InitEnvs : IsEnvironment(e)

\* The variables of each pair, and those that place its port.
Urls == [sonarr |-> <<"ENGLISH_SONARR_URL", "ANIME_SONARR_URL">>,
         radarr |-> <<"ENGLISH_RADARR_URL", "ANIME_RADARR_URL">>]
ApiKeys == [sonarr |-> <<"ENGLISH_SONARR_API_KEY", "ANIME_SONARR_API_KEY">>,
            radarr |-> <<"ENGLISH_RADARR_API_KEY", "ANIME_RADARR_API_KEY">>]
PortVariable == [sonarr |-> "SONARR_PROXY_PORT", radarr |-> "RADARR_PROXY_PORT"]
default_port == [sonarr |-> 5000, radarr |-> 5001]
MaxPort == 65535
DEFAULT_ID_OFFSET == 1000000000
DEFAULT_MAX_BODY_BYTES == 8388608

Pair(k) == {Urls[k][1], Urls[k][2], ApiKeys[k][1], ApiKeys[k][2]}
IdVariables(k) == {Urls[k][1], Urls[k][2], "ANIME_ID_OFFSET"}
PortVariables(k) ==
  {PortVariable[k]} \cup (IF k = "sonarr" THEN {"PROXY_PORT"} ELSE {})

Init ==
  /\ env \in InitEnvs
  /\ written = {}
  /\ process = "starting"
  /\ settings = NoSettings
  /\ stored = [k \in Kinds |-> Nothing]

-----------------------------------------------------------------------------
(* load_settings *)

\* Mutant: a number below the minimum is taken as it is.
IntEnvUnbounded(v, default, minimum) ==
  IF env[v].is = "integer" THEN env[v].n ELSE default

\* Anything that is not an integer of at least minimum counts as not set.
IntEnv(v, default, minimum) ==
  IF env[v].is = "integer" /\ env[v].n >= minimum THEN env[v].n ELSE default

IsServed(k) == \E v \in Pair(k) : env[v] # "blank"
ServedKinds == {k \in Kinds : IsServed(k)}

\* Mutant: one instance is enough.
PairCompleteInPart(k) == \E i \in 1 .. 2 :
  env[Urls[k][i]] \notin {"blank", "not_http"} /\ env[ApiKeys[k][i]] # "blank"

PairComplete(k) ==
  /\ \A v \in Pair(k) : env[v] # "blank"
  /\ \A i \in 1 .. 2 : env[Urls[k][i]] # "not_http"

\* Mutant: PROXY_PORT places both services.
PortForEither(k) ==
  LET own == IntEnv(PortVariable[k], 0, 1)
      legacy == IntEnv("PROXY_PORT", 0, 1)
  IN  IF own # 0 THEN own ELSE IF legacy # 0 THEN legacy ELSE default_port[k]

Port(k) ==
  LET own == IntEnv(PortVariable[k], 0, 1)
      legacy == IF k = "sonarr" THEN IntEnv("PROXY_PORT", 0, 1) ELSE 0
  IN  IF own # 0 THEN own ELSE IF legacy # 0 THEN legacy ELSE default_port[k]

PortsDiffer == \A j, k \in ServedKinds : j # k => Port(j) # Port(k)

HasKey == env["PROXY_API_KEY"] # "blank"

Accepted ==
  /\ ServedKinds # {}
  /\ \A k \in ServedKinds : PairComplete(k)
  /\ PortsDiffer
  /\ HasKey \/ env["PROXY_ALLOW_ANONYMOUS"] = "true"
  /\ env["PROXY_API_KEY"] # "short"
  /\ env["REQUEST_LOG"] # "unknown"

Lesser(a, b) == IF a < b THEN a ELSE b

Service(k) ==
  [english |-> env[Urls[k][1]], anime |-> env[Urls[k][2]], port |-> Port(k)]

load_settings ==
  LET timeout == IntEnv("UPSTREAM_TIMEOUT", 20, 1) IN
  [loaded |-> TRUE,
   services |-> [k \in ServedKinds |-> Service(k)],
   id_offset |-> IntEnv("ANIME_ID_OFFSET", DEFAULT_ID_OFFSET, 1),
   timeout |-> timeout,
   connect_timeout |-> Lesser(IntEnv("UPSTREAM_CONNECT_TIMEOUT", 5, 1), timeout),
   has_key |-> HasKey,
   allow_anonymous |-> env["PROXY_ALLOW_ANONYMOUS"] = "true",
   max_body_bytes |-> IntEnv("MAX_BODY_BYTES", DEFAULT_MAX_BODY_BYTES, 1024)]

-----------------------------------------------------------------------------
(* The container *)

\* Mutant: a port that cannot be bound is not noticed.
StartOnAnyPort ==
  /\ process = "starting"
  /\ IF Accepted
     THEN settings' = load_settings /\ process' = "serving"
     ELSE settings' = NoSettings /\ process' = "exited"
  /\ UNCHANGED <<env, written, stored>>

\* main(): a ConfigError and a port that cannot be bound both end the process.
Start ==
  /\ process = "starting"
  /\ IF Accepted
     THEN /\ settings' = load_settings
          /\ process' = IF \A k \in ServedKinds : Port(k) <= MaxPort
                        THEN "serving" ELSE "exited"
     ELSE settings' = NoSettings /\ process' = "exited"
  /\ UNCHANGED <<env, written, stored>>

\* Docker starts the container again after an exit, a crash or a reboot.
Restart ==
  /\ process # "starting"
  /\ process' = "starting"
  /\ settings' = NoSettings
  /\ UNCHANGED <<env, written, stored>>

Edit(v, value) ==
  /\ Cardinality(written) < MaxEdits \/ v \in written
  /\ value # env[v]
  /\ env' = [env EXCEPT ![v] = value]
  /\ written' = written \cup {v}
  /\ process' = "starting"
  /\ settings' = NoSettings
  /\ UNCHANGED stored

\* What an exposed ID and the port stand for while the container serves.
Meaning(k) == [english |-> settings.services[k].english,
               anime |-> settings.services[k].anime,
               offset |-> settings.id_offset]

\* Seerr is set up against the port, and stores the IDs it is shown.
Use(k) ==
  /\ process = "serving"
  /\ k \in DOMAIN settings.services
  /\ stored[k] = Nothing
  /\ stored' = [stored EXCEPT ![k] =
       [used |-> TRUE, env |-> env, meaning |-> Meaning(k),
        port |-> settings.services[k].port]]
  /\ UNCHANGED <<env, written, process, settings>>

Next ==
  \/ Start
  \/ Restart
  \/ \E v \in DOMAIN Choices : \E value \in Choices[v] : Edit(v, value)
  \/ \E k \in Kinds : Use(k)

Spec == Init /\ [][Next]_vars

-----------------------------------------------------------------------------
(* Properties. *)

TypeOK ==
  /\ written \subseteq DOMAIN Choices
  /\ process \in {"starting", "serving", "exited"}
  /\ process = "serving" =>
       /\ settings.loaded
       /\ DOMAIN settings.services \subseteq Kinds
  /\ \A k \in Kinds : stored[k] # Nothing => stored[k].port \in 1 .. MaxPort

\* What the other parts take for granted of the settings, whatever was typed: the
\* offset is positive, so that an anime ID is never shown as its own native number, a
\* connection times out before a read, no two services listen on one port, and a body
\* fits (config.py:48-53, 194-199, 224-231).  That the native IDs stay below the offset
\* no setting ensures: an offset of 1 is accepted, and nothing checks it (config.py:10-13).
UsableSettings ==
  process = "serving" =>
    /\ settings.id_offset >= 1
    /\ settings.connect_timeout \in 1 .. settings.timeout
    /\ settings.max_body_bytes >= 1024
    /\ DOMAIN settings.services # {}
    /\ \A j, k \in DOMAIN settings.services :
         j # k => settings.services[j].port # settings.services[k].port

\* A service is served with both its instances and their keys or not at all, and
\* without an API key only if that was asked for (config.py:145-158, 201-212).
NothingHalfConfigured ==
  process = "serving" =>
    /\ \A k \in Kinds :
         \/ k \notin DOMAIN settings.services /\ \A v \in Pair(k) : env[v] = "blank"
         \/ /\ k \in DOMAIN settings.services
            /\ {settings.services[k].english, settings.services[k].anime}
                 \cap {"blank", "not_http"} = {}
            /\ \A i \in 1 .. 2 : env[ApiKeys[k][i]] # "blank"
    /\ settings.has_key \/ settings.allow_anonymous

\* What Seerr has stored of a service stays true across restarts and across edits
\* of any variable but those of its own IDs and port: README.md:303-306, 325-328.
StoredStaysTrue ==
  \A k \in Kinds :
    process = "serving" /\ stored[k] # Nothing /\ k \in DOMAIN settings.services =>
      /\ (\A v \in IdVariables(k) : env[v] = stored[k].env[v])
           => Meaning(k) = stored[k].meaning
      /\ (\A v \in PortVariables(k) : env[v] = stored[k].env[v])
           => settings.services[k].port = stored[k].port
==============================================================================
