-------------------------- MODULE RouterCacheProofs --------------------------
(***************************************************************************)
(* The properties of RouterCache, for any number of threads, any cache     *)
(* keys, any CACHE_TTL_SECONDS and any bounds.                             *)
(***************************************************************************)
EXTENDS RouterCache, TLAPS

\* Every recorded time is in the past.
PastTimes ==
  /\ \A t \in Threads : now[t] <= clock
  /\ \A k \in Keys : publishedAt[k] <= clock
  /\ \A k \in Keys : \A v \in Versions : v < version[k] => ended[k][v] <= clock

\* An entry was the instance's list at the time it is stamped with, or later.
EntryHonest ==
  \A k \in Keys : cache[k] # NoEntry =>
    /\ cache[k].at <= clock
    /\ CurrentSince(k, cache[k].val, cache[k].at)

\* So was a reply that is about to be stored, at the time its call began.
ReplyHonest ==
  \A t \in Threads : pc[t] = "store" =>
    /\ got[t] \in Versions
    /\ CurrentSince(key[t], got[t], now[t])

\* A published version exists, and the lists before it ended before it.
PublishedHonest ==
  \A k \in Keys :
    /\ published[k] <= version[k]
    /\ \A v \in Versions : v < published[k] => ended[k][v] <= publishedAt[k]

CreatedExists ==
  \A t \in Threads : pc[t] = "created" =>
    /\ got[t] \in Versions
    /\ got[t] <= version[key[t]]

\* A reply older than a published version was in transit when it was published.
OldReplyRaces ==
  \A t \in Threads :
    pc[t] = "store" /\ got[t] < published[key[t]] => racing[key[t]]

IInv ==
  /\ TypeOK
  /\ PastTimes
  /\ EntryHonest
  /\ ReplyHonest
  /\ PublishedHonest
  /\ CreatedExists
  /\ OldReplyRaces
  /\ WithinTtl
  /\ FailureNotSticky
  /\ OnlyRacesHide

USE DEF Times, Versions, NoEntry, Unread

-----------------------------------------------------------------------------
\* The proxy starts with an empty cache and idle threads.
LEMMA InitIInv == Init => IInv
  <1> SUFFICES ASSUME Init PROVE IInv
    OBVIOUS
  <1>1. TypeOK
    BY BoundsAssumption DEF Init, TypeOK
  <1>2. PastTimes /\ PublishedHonest
    BY DEF Init, PastTimes, PublishedHonest
  <1>3. EntryHonest /\ OnlyRacesHide
    BY DEF Init, EntryHonest, OnlyRacesHide
  <1>4. ReplyHonest /\ CreatedExists /\ OldReplyRaces
    BY DEF Init, ReplyHonest, CreatedExists, OldReplyRaces
  <1>5. WithinTtl /\ FailureNotSticky
    BY DEF Init, WithinTtl, FailureNotSticky
  <1> QED
    BY <1>1, <1>2, <1>3, <1>4, <1>5 DEF IInv

-----------------------------------------------------------------------------
\* What TypeOK says of an entry that is there.
LEMMA EntryTypes ==
  ASSUME TypeOK, NEW k \in Keys, cache[k] # NoEntry
  PROVE  cache[k].at \in Int /\ cache[k].val \in Versions
  <1>1. cache[k] \in [at : Times, val : Versions]
    BY DEF TypeOK
  <1> QED
    BY <1>1, BoundsAssumption

\* A change of a list ends its current version now: nothing that was current
\* at or after some past moment stops being so, and older versions keep their
\* end (Supersede, the upstream side of the model).
LEMMA SupersedeKeeps ==
  ASSUME TypeOK, PastTimes, NEW k \in Keys, Supersede(k), UNCHANGED clock
  PROVE  /\ version' \in [Keys -> Versions]
         /\ ended' \in [Keys -> [Versions -> Times]]
         /\ \A j \in Keys : version[j] <= version'[j]
         /\ \A j \in Keys : \A v \in Versions :
              v < version[j] => ended'[j][v] = ended[j][v]
         /\ \A j \in Keys : \A v \in Versions :
              v < version'[j] => ended'[j][v] <= clock
         /\ \A j \in Keys : \A v \in Versions : \A s \in Int :
              s <= clock /\ CurrentSince(j, v, s) => CurrentSince(j, v, s)'
  <1> USE BoundsAssumption DEF TypeOK, Supersede
  <1>1. /\ version[k] \in Versions
        /\ version' = [version EXCEPT ![k] = version[k] + 1]
    OBVIOUS
  <1>2. version' \in [Keys -> Versions]
    BY <1>1
  <1>3. ended' \in [Keys -> [Versions -> Times]]
    OBVIOUS
  <1>4. \A j \in Keys : j # k => version'[j] = version[j] /\ ended'[j] = ended[j]
    BY <1>1
  <1>5. \A v \in Versions :
          ended'[k][v] = IF v = version[k] THEN clock ELSE ended[k][v]
    OBVIOUS
  <1>6. version'[k] = version[k] + 1
    BY <1>1
  <1>7. \A j \in Keys : version[j] <= version'[j]
    <2> TAKE j \in Keys
    <2>1. CASE j = k
      BY <1>1, <1>6, <2>1
    <2>2. CASE j # k
      BY <1>4, <2>2
    <2> QED
      BY <2>1, <2>2
  <1>8. \A j \in Keys : \A v \in Versions :
          v < version[j] => ended'[j][v] = ended[j][v]
    <2> TAKE j \in Keys
    <2> TAKE v \in Versions
    <2>1. CASE j = k
      BY ONLY <1>1, <1>5, <2>1, BoundsAssumption DEF Versions
    <2>2. CASE j # k
      BY ONLY <1>4, <2>2
    <2> QED
      BY ONLY <2>1, <2>2
  <1>9. \A j \in Keys : \A v \in Versions : v < version'[j] => ended'[j][v] <= clock
    <2> TAKE j \in Keys
    <2> TAKE v \in Versions
    <2>1. CASE j = k
      <3>1. v < version[k] => ended[k][v] <= clock
        BY ONLY PastTimes, k \in Keys, v \in Versions DEF PastTimes
      <3>2. clock \in Int
        BY DEF Times
      <3> QED
        BY ONLY <1>1, <1>5, <1>6, <2>1, <3>1, <3>2, v \in Versions, BoundsAssumption DEF Versions
    <2>2. CASE j # k
      BY <1>4, <2>2 DEF PastTimes
    <2> QED
      BY <2>1, <2>2
  <1>10. ASSUME NEW j \in Keys, NEW v \in Versions, NEW s \in Int,
                s <= clock, CurrentSince(j, v, s)
         PROVE  CurrentSince(j, v, s)'
    <2>1. CASE j # k
      BY <1>4, <1>10, <2>1 DEF CurrentSince
    <2>2. CASE j = k
      BY <1>5, <1>10, <2>2 DEF CurrentSince
    <2> QED
      BY <2>1, <2>2
  <1> QED
    BY <1>2, <1>3, <1>7, <1>8, <1>9, <1>10

\* When a creator is done with the cache, its version is the latest published
\* one, and every older reply in transit is accounted for in racing.
LEMMA PublishKeeps ==
  ASSUME IInv, NEW t \in Threads, Publish(t)
  PROVE  PastTimes' /\ PublishedHonest' /\ OldReplyRaces'
  <1> DEFINE k == key[t]
  <1> USE DEF IInv, TypeOK
  <1>1. k \in Keys /\ got[t] \in Versions /\ got[t] <= version[k]
    BY DEF Publish, CreatedExists
  <1>2. UNCHANGED <<clock, version, ended, key, now, got>>
    BY DEF Publish, upstream
  <1>3. \A u \in Threads : pc'[u] = "store" => pc[u] = "store"
    BY DEF Publish
  <1>4. CASE got[t] > published[k]
    <2>1. /\ published' = [published EXCEPT ![k] = got[t]]
          /\ publishedAt' = [publishedAt EXCEPT ![k] = clock]
      BY <1>4 DEF Publish
    <2>2. racing' = [racing EXCEPT ![k] =
            \E u \in Threads : pc[u] = "store" /\ key[u] = k /\ got[u] < got[t]]
      BY <1>4 DEF Publish
    <2>3. PastTimes'
      BY <1>1, <1>2, <2>1 DEF PastTimes
    <2>4. PublishedHonest'
      <3> SUFFICES ASSUME NEW j \in Keys
                   PROVE  /\ published'[j] <= version[j]
                          /\ \A v \in Versions :
                               v < published'[j] => ended[j][v] <= publishedAt'[j]
        BY <1>2 DEF PublishedHonest
      <3>1. CASE j = k
        BY <1>1, <2>1, <3>1 DEF PastTimes
      <3>2. CASE j # k
        BY <2>1, <3>2 DEF PublishedHonest
      <3> QED
        BY <3>1, <3>2
    <2>5. ASSUME NEW u \in Threads, pc[u] = "store", got[u] < published'[key[u]]
          PROVE  racing'[key[u]]
      <3>1. CASE key[u] = k
        BY <1>1, <2>1, <2>2, <2>5, <3>1
      <3>2. CASE key[u] # k
        <4>1. published'[key[u]] = published[key[u]] /\ racing'[key[u]] = racing[key[u]]
          BY <2>1, <2>2, <3>2
        <4> QED
          BY <2>5, <4>1 DEF OldReplyRaces
      <3> QED
        BY <3>1, <3>2
    <2>6. OldReplyRaces'
      BY <1>2, <1>3, <2>5 DEF OldReplyRaces
    <2> QED
      BY <2>3, <2>4, <2>6
  <1>5. CASE ~(got[t] > published[k])
    <2>1. UNCHANGED creation
      BY <1>5 DEF Publish
    <2>2. PastTimes' /\ PublishedHonest'
      BY <1>2, <2>1 DEF PastTimes, PublishedHonest, creation
    <2>3. OldReplyRaces'
      BY <1>2, <1>3, <2>1 DEF OldReplyRaces, creation
    <2> QED
      BY <2>2, <2>3
  <1> QED
    BY <1>4, <1>5

-----------------------------------------------------------------------------
\* TypeOK is kept; that a stored reply or a created version is a version comes
\* from the invariant, not from the types.
LEMMA TypeStep == IInv /\ [Next]_vars => TypeOK'
  <1> SUFFICES ASSUME IInv, [Next]_vars PROVE TypeOK'
    OBVIOUS
  <1> USE BoundsAssumption, KeysAssumption DEF IInv
  <1>1. ASSUME NEW t \in Threads, NEW k \in Keys, Call(t, k) PROVE TypeOK'
    BY <1>1 DEF Call, upstream, creation, TypeOK
  <1>2. ASSUME NEW t \in Threads, NEW k \in TagKeys, Create(t, k) PROVE TypeOK'
    <2>1. Supersede(k) /\ UNCHANGED clock
      BY <1>2 DEF Create
    <2>2. version' \in [Keys -> Versions] /\ ended' \in [Keys -> [Versions -> Times]]
      BY <2>1, SupersedeKeeps
    <2> QED
      BY <1>2, <2>2 DEF Create, creation, Supersede, TypeOK
  <1>3. ASSUME NEW t \in Threads, Hit(t) PROVE TypeOK'
    BY <1>3 DEF Hit, Fresh, upstream, creation, TypeOK
  <1>4. ASSUME NEW t \in Threads, Miss(t) PROVE TypeOK'
    BY <1>4 DEF Miss, upstream, creation, TypeOK
  <1>5. ASSUME NEW t \in Threads, Answer(t) PROVE TypeOK'
    BY <1>5 DEF Answer, upstream, creation, TypeOK
  <1>6. ASSUME NEW t \in Threads, LoadFails(t) PROVE TypeOK'
    BY <1>6 DEF LoadFails, Memoised, upstream, creation, TypeOK
  <1>7. ASSUME NEW t \in Threads, Store(t) PROVE TypeOK'
    BY <1>7 DEF Store, Memoised, upstream, creation, TypeOK, ReplyHonest
  <1>8. ASSUME NEW t \in Threads, invalidate(t) PROVE TypeOK'
    <2>1. got[t] \in Versions /\ key[t] \in Keys
      BY <1>8 DEF invalidate, Publish, CreatedExists, TypeOK
    <2>2. published' \in [Keys -> Versions] /\ publishedAt' \in [Keys -> Times]
      BY <1>8, <2>1 DEF invalidate, Publish, creation, TypeOK
    <2>3. racing' \in [Keys -> BOOLEAN]
      BY <1>8, <2>1 DEF invalidate, Publish, creation, TypeOK
    <2>4. cache' \in [Keys -> [at : Times, val : Versions] \cup {NoEntry}]
      BY <1>8, <2>1 DEF invalidate, TypeOK
    <2> QED
      BY <1>8, <2>2, <2>3, <2>4 DEF invalidate, Publish, upstream, TypeOK
  <1>9. ASSUME NEW t \in Threads, pop(t) PROVE TypeOK'
    <2>1. got[t] \in Versions /\ key[t] \in Keys
      BY <1>9 DEF pop, Publish, CreatedExists, TypeOK
    <2>2. published' \in [Keys -> Versions] /\ publishedAt' \in [Keys -> Times]
      BY <1>9, <2>1 DEF pop, Publish, creation, TypeOK
    <2>3. racing' \in [Keys -> BOOLEAN]
      BY <1>9, <2>1 DEF pop, Publish, creation, TypeOK
    <2>4. cache' \in [Keys -> [at : Times, val : Versions] \cup {NoEntry}]
      BY <1>9, <2>1 DEF pop, TypeOK
    <2> QED
      BY <1>9, <2>2, <2>3, <2>4 DEF pop, Publish, upstream, TypeOK
  <1>10. ASSUME NEW k \in Keys, UpstreamChange(k) PROVE TypeOK'
    <2>1. Supersede(k) /\ UNCHANGED clock
      BY <1>10 DEF UpstreamChange
    <2>2. version' \in [Keys -> Versions] /\ ended' \in [Keys -> [Versions -> Times]]
      BY <2>1, SupersedeKeeps
    <2> QED
      BY <1>10, <2>2 DEF UpstreamChange, local, creation, Supersede, TypeOK
  <1>11. ASSUME NEW k \in Keys, GoDown(k) PROVE TypeOK'
    BY <1>11 DEF GoDown, local, creation, TypeOK
  <1>12. ASSUME NEW k \in Keys, ComeBack(k) PROVE TypeOK'
    BY <1>12 DEF ComeBack, local, creation, TypeOK
  <1>13. ASSUME Tick PROVE TypeOK'
    BY <1>13 DEF Tick, upstream, local, creation, TypeOK
  <1>14. ASSUME Restart PROVE TypeOK'
    BY <1>14 DEF Restart, upstream, creation, TypeOK
  <1>15. ASSUME UNCHANGED vars PROVE TypeOK'
    BY <1>15 DEF vars, upstream, local, creation, TypeOK
  <1> QED
    BY <1>1, <1>2, <1>3, <1>4, <1>5, <1>6, <1>7, <1>8, <1>9, <1>10, <1>11, <1>12, <1>13, <1>14, <1>15 DEF Next

\* A list changes while the cache, the drops and the calls at hand stay: what was
\* current at its time was so, and nothing published comes after it.
LEMMA ChangeKeeps ==
  ASSUME IInv, TypeOK', NEW k \in Keys, Supersede(k), UNCHANGED <<clock, cache, creation>>,
         \A u \in Threads : pc'[u] \in {"store", "returned"} =>
           pc'[u] = pc[u] /\ key'[u] = key[u] /\ now'[u] = now[u] /\ got'[u] = got[u]
  PROVE  /\ EntryHonest' /\ ReplyHonest' /\ PublishedHonest' /\ OldReplyRaces'
         /\ WithinTtl' /\ FailureNotSticky' /\ OnlyRacesHide'
  <1> USE BoundsAssumption, KeysAssumption, TtlAssumption DEF IInv
  <1>k. /\ \A j \in Keys : version[j] <= version'[j]
        /\ \A j \in Keys : \A v \in Versions :
             v < version[j] => ended'[j][v] = ended[j][v]
        /\ \A j \in Keys : \A v \in Versions : \A s \in Int :
             s <= clock /\ CurrentSince(j, v, s) => CurrentSince(j, v, s)'
    BY SupersedeKeeps
  <1>1. EntryHonest'
    <2> SUFFICES ASSUME NEW j \in Keys, cache[j] # NoEntry
                 PROVE  cache[j].at <= clock /\ CurrentSince(j, cache[j].val, cache[j].at)'
      BY DEF EntryHonest, CurrentSince
    <2>1. cache[j].at <= clock /\ CurrentSince(j, cache[j].val, cache[j].at)
      BY DEF EntryHonest
    <2>2. cache[j].at \in Int /\ cache[j].val \in Versions
      BY EntryTypes
    <2>3. \A v \in Versions : \A s \in Int :
            s <= clock /\ CurrentSince(j, v, s)
              => v = version'[j] \/ (v \in Versions /\ ended'[j][v] >= s)
      BY <1>k DEF CurrentSince
    <2> QED
      BY <2>1, <2>2, <2>3 DEF CurrentSince
  <1>2. ReplyHonest'
    <2> SUFFICES ASSUME NEW u \in Threads, pc'[u] = "store"
                 PROVE  got'[u] \in Versions /\ CurrentSince(key[u], got[u], now[u])'
      BY DEF ReplyHonest
    <2>1. /\ key'[u] = key[u] /\ got'[u] = got[u] /\ now'[u] = now[u] /\ pc'[u] = pc[u]
          /\ key[u] \in Keys /\ now[u] \in Int /\ now[u] <= clock
      BY DEF PastTimes, TypeOK
    <2>2. got[u] \in Versions /\ CurrentSince(key[u], got[u], now[u])
      BY <2>1 DEF ReplyHonest
    <2>3. got[u] = version'[key[u]] \/ ended'[key[u]][got[u]] >= now[u]
      BY <1>k, <2>1, <2>2 DEF CurrentSince
    <2> QED
      BY <2>1, <2>2, <2>3 DEF CurrentSince
  <1>3. PublishedHonest'
    <2> SUFFICES ASSUME NEW j \in Keys
                 PROVE  /\ published[j] <= version'[j]
                        /\ \A v \in Versions :
                             v < published[j] => ended'[j][v] <= publishedAt[j]
      BY DEF PublishedHonest, creation
    <2>1. version[j] \in Int /\ version'[j] \in Int /\ published[j] \in Int
      BY DEF TypeOK
    <2>2. published[j] <= version[j] /\ version[j] <= version'[j]
      BY <1>k DEF PublishedHonest
    <2>3. ASSUME NEW v \in Versions, v < published[j]
          PROVE  ended'[j][v] <= publishedAt[j]
      <3>1. v < version[j]
        BY <2>1, <2>2, <2>3
      <3> QED
        BY <1>k, <2>3, <3>1 DEF PublishedHonest
    <2> QED
      BY <2>1, <2>2, <2>3
  <1>4. WithinTtl'
    <2> SUFFICES ASSUME NEW u \in Threads, pc'[u] = "returned", got'[u] # Unread
                 PROVE  CurrentSince(key[u], got[u], now[u] - Ttl + 1)'
      BY DEF WithinTtl
    <2>1. /\ key'[u] = key[u] /\ got'[u] = got[u] /\ now'[u] = now[u] /\ pc'[u] = pc[u]
          /\ key[u] \in Keys /\ now[u] \in Int /\ now[u] <= clock
          /\ got[u] \in Versions \cup {Unread} /\ clock \in Int
      BY DEF PastTimes, TypeOK
    <2>2. got[u] \in Versions /\ CurrentSince(key[u], got[u], now[u] - Ttl + 1)
      BY <2>1 DEF WithinTtl
    <2>3. now[u] - Ttl + 1 \in Int /\ now[u] - Ttl + 1 <= clock
      BY <2>1
    <2>4. got[u] = version'[key[u]] \/ ended'[key[u]][got[u]] >= now[u] - Ttl + 1
      BY <1>k, <2>1, <2>2, <2>3 DEF CurrentSince
    <2> QED
      BY <2>1, <2>2, <2>4 DEF CurrentSince
  <1>5. FailureNotSticky'
    BY DEF Supersede, FailureNotSticky
  <1>6. OldReplyRaces' /\ OnlyRacesHide'
    BY DEF creation, OldReplyRaces, OnlyRacesHide
  <1> QED
    BY <1>1, <1>2, <1>3, <1>4, <1>5, <1>6

\* Every other conjunct is kept.  A step that leaves the variables of a conjunct
\* alone leaves the conjunct alone; such conjuncts share one line.
LEMMA StepIInv == IInv /\ [Next]_vars => IInv'
  <1> SUFFICES ASSUME IInv, [Next]_vars PROVE IInv'
    OBVIOUS
  <1>0. TypeOK'
    BY TypeStep
  <1> USE BoundsAssumption, KeysAssumption, TtlAssumption DEF IInv
  <1>1. ASSUME NEW t \in Threads, NEW k \in Keys, Call(t, k) PROVE IInv'
    <2>1. EntryHonest' /\ PublishedHonest' /\ CreatedExists' /\ OnlyRacesHide'
      BY <1>1
      DEF Call, upstream, creation, CurrentSince, EntryHonest, PublishedHonest, CreatedExists, OnlyRacesHide
    <2>2. PastTimes'
      <3>1. UNCHANGED <<clock, version, ended, publishedAt>>
        BY <1>1 DEF Call, upstream, creation
      <3>2. \A u \in Threads : now'[u] <= clock
        BY <1>1 DEF Call, PastTimes, TypeOK
      <3> QED
        BY <3>1, <3>2 DEF PastTimes
    <2>3. ReplyHonest' /\ OldReplyRaces' /\ WithinTtl' /\ FailureNotSticky'
      BY <1>0, <1>1
      DEF Call, upstream, creation, CurrentSince, ReplyHonest, OldReplyRaces, WithinTtl, FailureNotSticky, TypeOK
    <2> QED
      BY <1>0, <2>1, <2>2, <2>3
  <1>2. ASSUME NEW t \in Threads, NEW k \in TagKeys, Create(t, k) PROVE IInv'
    <2>0. Supersede(k) /\ UNCHANGED clock /\ k \in Keys
      BY <1>2 DEF Create
    <2>k. /\ \A j \in Keys : version[j] <= version'[j]
          /\ \A j \in Keys : \A v \in Versions : v < version'[j] => ended'[j][v] <= clock
      BY <2>0, SupersedeKeeps
    <2>1. /\ EntryHonest' /\ ReplyHonest' /\ PublishedHonest' /\ OldReplyRaces'
          /\ WithinTtl' /\ FailureNotSticky' /\ OnlyRacesHide'
      <3>1. UNCHANGED <<clock, cache, creation>>
        BY <1>2 DEF Create
      <3>2. \A u \in Threads : pc'[u] \in {"store", "returned"} =>
              pc'[u] = pc[u] /\ key'[u] = key[u] /\ now'[u] = now[u] /\ got'[u] = got[u]
        BY <1>2 DEF Create, TypeOK
      <3> QED
        BY <1>0, <2>0, <3>1, <3>2, ChangeKeeps
    <2>2. PastTimes'
      <3>1. UNCHANGED <<clock, publishedAt>>
        BY <1>2 DEF Create, creation
      <3>2. \A u \in Threads : now'[u] <= clock
        BY <1>2 DEF Create, creation, PastTimes, TypeOK
      <3>3. \A j \in Keys : \A v \in Versions : v < version'[j] => ended'[j][v] <= clock
        BY <2>k
      <3> QED
        BY <3>1, <3>2, <3>3 DEF PastTimes
    <2>3. CreatedExists'
      <3>1. \A j \in Keys : version[j] \in Int /\ version'[j] \in Int
        BY <1>0 DEF TypeOK
      <3> SUFFICES ASSUME NEW u \in Threads, pc'[u] = "created"
                   PROVE  got'[u] \in Versions /\ got'[u] <= version'[key'[u]]
        BY DEF CreatedExists
      <3>2. CASE pc[u] = "created" /\ got'[u] = got[u] /\ key'[u] = key[u]
        <4>1. key[u] \in Keys /\ got[u] \in Versions /\ got[u] <= version[key[u]]
          BY <3>2 DEF CreatedExists, TypeOK
        <4> QED
          BY <2>k, <3>1, <3>2, <4>1
      <3>3. CASE got'[u] = version[k] + 1 /\ key'[u] = k
        BY <1>0, <2>0, <3>1, <3>3 DEF Supersede, TypeOK
      <3> QED
        BY <1>2, <3>2, <3>3 DEF Create, TypeOK
    <2> QED
      BY <1>0, <2>1, <2>2, <2>3
  <1>3. ASSUME NEW t \in Threads, Hit(t) PROVE IInv'
    <2>1. PastTimes' /\ EntryHonest' /\ PublishedHonest' /\ OnlyRacesHide'
      BY <1>3
      DEF Hit, upstream, creation, CurrentSince, PastTimes, EntryHonest, PublishedHonest, OnlyRacesHide
    <2>2. ReplyHonest' /\ CreatedExists' /\ OldReplyRaces'
      BY <1>0, <1>3
      DEF Hit, upstream, creation, CurrentSince, ReplyHonest, CreatedExists, OldReplyRaces, TypeOK
    <2>3. WithinTtl'
      <3> SUFFICES ASSUME NEW u \in Threads, pc'[u] = "returned", got'[u] # Unread
                   PROVE  CurrentSince(key[u], got'[u], now[u] - Ttl + 1)
        BY <1>3 DEF Hit, upstream, WithinTtl, CurrentSince
      <3>1. CASE u = t
        <4>1. /\ got'[t] = cache[key[t]].val
              /\ cache[key[t]] # NoEntry
              /\ now[t] - cache[key[t]].at < Ttl
          BY <1>3 DEF Hit, Fresh, TypeOK
        <4>2. CurrentSince(key[t], cache[key[t]].val, cache[key[t]].at)
          BY <4>1 DEF EntryHonest, TypeOK
        <4>3. cache[key[t]].at \in Int /\ cache[key[t]].val \in Versions /\ now[t] \in Int
          <5>1. key[t] \in Keys /\ now[t] \in Int
            BY DEF TypeOK
          <5> QED
            BY <4>1, <5>1, EntryTypes
        <4>4. \A v \in Versions : ended[key[t]][v] \in Int
          BY DEF TypeOK
        <4> QED
          BY <3>1, <4>1, <4>2, <4>3, <4>4 DEF CurrentSince
      <3>2. CASE u # t
        BY <1>3, <3>2 DEF Hit, WithinTtl, TypeOK
      <3> QED
        BY <3>1, <3>2
    <2>4. FailureNotSticky'
      <3>1. got'[t] # Unread
        <4>1. got'[t] = cache[key[t]].val /\ cache[key[t]] # NoEntry /\ key[t] \in Keys
          BY <1>3 DEF Hit, Fresh, TypeOK
        <4>2. cache[key[t]] \in [at : Times, val : Versions]
          BY <4>1 DEF TypeOK
        <4> QED
          BY <4>1, <4>2
      <3>2. \A u \in Threads : u # t => pc'[u] = pc[u] /\ got'[u] = got[u]
        BY <1>3 DEF Hit, TypeOK
      <3> QED
        BY <1>3, <3>1, <3>2 DEF Hit, upstream, FailureNotSticky
    <2> QED
      BY <1>0, <2>1, <2>2, <2>3, <2>4
  <1>4. ASSUME NEW t \in Threads, Miss(t) PROVE IInv'
    <2>1. PastTimes' /\ EntryHonest' /\ PublishedHonest' /\ OnlyRacesHide'
      BY <1>4
      DEF Miss, upstream, creation, CurrentSince, PastTimes, EntryHonest, PublishedHonest, OnlyRacesHide
    <2>2. ReplyHonest' /\ CreatedExists' /\ OldReplyRaces' /\ WithinTtl' /\ FailureNotSticky'
      BY <1>0, <1>4
      DEF Miss, upstream, creation, CurrentSince, ReplyHonest, CreatedExists, OldReplyRaces, WithinTtl, FailureNotSticky, TypeOK
    <2> QED
      BY <1>0, <2>1, <2>2
  <1>5. ASSUME NEW t \in Threads, Answer(t) PROVE IInv'
    <2>1. PastTimes' /\ EntryHonest' /\ PublishedHonest' /\ OnlyRacesHide'
      BY <1>5
      DEF Answer, upstream, creation, CurrentSince, PastTimes, EntryHonest, PublishedHonest, OnlyRacesHide
    <2>2. ReplyHonest' /\ CreatedExists' /\ WithinTtl' /\ FailureNotSticky'
      BY <1>0, <1>5
      DEF Answer, upstream, creation, CurrentSince, ReplyHonest, CreatedExists, WithinTtl, FailureNotSticky, TypeOK
    <2>3. OldReplyRaces'
      <3> SUFFICES ASSUME NEW u \in Threads, pc'[u] = "store", got'[u] < published[key[u]]
                   PROVE  racing[key[u]]
        BY <1>5 DEF Answer, creation, OldReplyRaces
      <3>1. CASE u = t
        <4>1. got'[u] = version[key[u]] /\ key[u] \in Keys
          BY <1>5, <3>1 DEF Answer, TypeOK
        <4>2. published[key[u]] <= version[key[u]]
          BY <4>1 DEF PublishedHonest
        <4>3. published[key[u]] \in Int /\ version[key[u]] \in Int
          BY <4>1 DEF TypeOK
        <4> QED
          BY <4>1, <4>2, <4>3
      <3>2. CASE u # t
        BY <1>5, <3>2 DEF Answer, OldReplyRaces, TypeOK
      <3> QED
        BY <3>1, <3>2
    <2> QED
      BY <1>0, <2>1, <2>2, <2>3
  <1>6. ASSUME NEW t \in Threads, LoadFails(t) PROVE IInv'
    <2>1. PastTimes' /\ EntryHonest' /\ PublishedHonest' /\ OnlyRacesHide'
      BY <1>6
      DEF LoadFails, Memoised, upstream, creation, CurrentSince, PastTimes, EntryHonest, PublishedHonest, OnlyRacesHide
    <2>2. ReplyHonest' /\ CreatedExists' /\ OldReplyRaces' /\ WithinTtl' /\ FailureNotSticky'
      BY <1>0, <1>6
      DEF LoadFails, Memoised, upstream, creation, CurrentSince, ReplyHonest, CreatedExists, OldReplyRaces, WithinTtl, FailureNotSticky, TypeOK
    <2> QED
      BY <1>0, <2>1, <2>2
  <1>7. ASSUME NEW t \in Threads, Store(t) PROVE IInv'
    <2>1. PastTimes' /\ PublishedHonest'
      BY <1>7
      DEF Store, Memoised, upstream, creation, CurrentSince, PastTimes, PublishedHonest
    <2>2. ReplyHonest' /\ CreatedExists' /\ OldReplyRaces' /\ FailureNotSticky'
      BY <1>0, <1>7
      DEF Store, Memoised, upstream, creation, CurrentSince, ReplyHonest, CreatedExists, OldReplyRaces, FailureNotSticky, TypeOK
    <2>3. EntryHonest'
      BY <1>0, <1>7 DEF Store, Memoised, upstream, creation, PastTimes, EntryHonest, ReplyHonest, CurrentSince, TypeOK
    <2>4. WithinTtl'
      <3> SUFFICES ASSUME NEW u \in Threads, pc'[u] = "returned", got[u] # Unread
                   PROVE  CurrentSince(key[u], got[u], now[u] - Ttl + 1)
        BY <1>7 DEF Store, upstream, WithinTtl, CurrentSince
      <3>1. CASE u = t
        <4>1. got[t] \in Versions /\ CurrentSince(key[t], got[t], now[t])
          BY <1>7 DEF Store, ReplyHonest
        <4>2. now[t] \in Int /\ ended[key[t]][got[t]] \in Int
          <5>1. now[t] \in Times /\ key[t] \in Keys /\ ended \in [Keys -> [Versions -> Times]]
            BY DEF TypeOK
          <5>2. ended[key[t]][got[t]] \in Times
            BY ONLY <4>1, <5>1
          <5> QED
            BY ONLY <5>1, <5>2, BoundsAssumption DEF Times
        <4> QED
          BY <3>1, <4>1, <4>2 DEF CurrentSince
      <3>2. CASE u # t
        BY <1>7, <3>2 DEF Store, WithinTtl, TypeOK
      <3> QED
        BY <3>1, <3>2
    <2>5. OnlyRacesHide'
      BY <1>0, <1>7 DEF Store, Memoised, upstream, creation, OldReplyRaces, OnlyRacesHide, TypeOK
    <2> QED
      BY <1>0, <2>1, <2>2, <2>3, <2>4, <2>5
  <1>8. ASSUME NEW t \in Threads, invalidate(t) PROVE IInv'
    <2>1. Publish(t)
      BY <1>8 DEF invalidate
    <2>2. PastTimes' /\ PublishedHonest' /\ OldReplyRaces'
      BY <2>1, PublishKeeps
    <2>3. EntryHonest' /\ ReplyHonest' /\ CreatedExists' /\ WithinTtl' /\ FailureNotSticky'
      BY <1>0, <1>8 DEF invalidate, Publish, upstream, EntryHonest, ReplyHonest, CreatedExists,
        WithinTtl, FailureNotSticky, CurrentSince, TypeOK
    <2>4. OnlyRacesHide'
      BY <1>0, <1>8 DEF invalidate, Publish, upstream, OldReplyRaces, OnlyRacesHide, TypeOK
    <2> QED
      BY <1>0, <2>2, <2>3, <2>4
  <1>9. ASSUME NEW t \in Threads, pop(t) PROVE IInv'
    <2>1. Publish(t)
      BY <1>9 DEF pop
    <2>2. PastTimes' /\ PublishedHonest' /\ OldReplyRaces'
      BY <2>1, PublishKeeps
    <2>3. EntryHonest' /\ ReplyHonest' /\ CreatedExists' /\ WithinTtl' /\ FailureNotSticky'
      BY <1>0, <1>9 DEF pop, Publish, upstream, EntryHonest, ReplyHonest, CreatedExists,
        WithinTtl, FailureNotSticky, CurrentSince, TypeOK
    <2>4. OnlyRacesHide'
      <3> SUFFICES ASSUME NEW j \in Keys, cache'[j] # NoEntry, cache'[j].val < published'[j]
                   PROVE  racing'[j]
        BY DEF OnlyRacesHide
      <3>1. j # key[t] /\ cache'[j] = cache[j]
        BY <1>9 DEF pop, TypeOK
      <3>2. published'[j] = published[j] /\ racing'[j] = racing[j]
        BY <1>9, <3>1 DEF pop, Publish, creation, TypeOK
      <3> QED
        BY <3>1, <3>2 DEF OnlyRacesHide
    <2> QED
      BY <1>0, <2>2, <2>3, <2>4
  <1>10. ASSUME NEW k \in Keys, UpstreamChange(k) PROVE IInv'
    <2>0. /\ Supersede(k) /\ UNCHANGED <<clock, cache, creation>>
          /\ UNCHANGED <<pc, key, now, got>>
      BY <1>10 DEF UpstreamChange, local
    <2>k. /\ \A j \in Keys : version[j] <= version'[j]
          /\ \A j \in Keys : \A v \in Versions : v < version'[j] => ended'[j][v] <= clock
      BY <2>0, SupersedeKeeps
    <2>1. /\ EntryHonest' /\ ReplyHonest' /\ PublishedHonest' /\ OldReplyRaces'
          /\ WithinTtl' /\ FailureNotSticky' /\ OnlyRacesHide'
      BY <1>0, <2>0, ChangeKeeps
    <2>2. PastTimes'
      BY <2>0, <2>k DEF creation, PastTimes
    <2>3. CreatedExists'
      <3> SUFFICES ASSUME NEW u \in Threads, pc[u] = "created"
                   PROVE  got[u] \in Versions /\ got[u] <= version'[key[u]]
        BY <2>0 DEF CreatedExists
      <3>1. key[u] \in Keys /\ got[u] \in Versions /\ got[u] <= version[key[u]]
        BY DEF CreatedExists, TypeOK
      <3>2. version[key[u]] \in Int /\ version'[key[u]] \in Int
        BY <1>0, <3>1 DEF TypeOK
      <3> QED
        BY <2>k, <3>1, <3>2
    <2> QED
      BY <1>0, <2>1, <2>2, <2>3
  <1>11. ASSUME NEW k \in Keys, GoDown(k) PROVE IInv'
    <2>1. PastTimes' /\ EntryHonest' /\ ReplyHonest' /\ PublishedHonest' /\ CreatedExists' /\ OldReplyRaces' /\ WithinTtl' /\ OnlyRacesHide'
      BY <1>11
      DEF GoDown, local, creation, CurrentSince, PastTimes, EntryHonest, ReplyHonest, PublishedHonest, CreatedExists, OldReplyRaces, WithinTtl, OnlyRacesHide
    <2>2. FailureNotSticky'
      BY <1>11 DEF GoDown, local, creation, CurrentSince, FailureNotSticky
    <2> QED
      BY <1>0, <2>1, <2>2
  <1>12. ASSUME NEW k \in Keys, ComeBack(k) PROVE IInv'
    <2>1. PastTimes' /\ EntryHonest' /\ ReplyHonest' /\ PublishedHonest' /\ CreatedExists' /\ OldReplyRaces' /\ WithinTtl' /\ OnlyRacesHide'
      BY <1>12
      DEF ComeBack, local, creation, CurrentSince, PastTimes, EntryHonest, ReplyHonest, PublishedHonest, CreatedExists, OldReplyRaces, WithinTtl, OnlyRacesHide
    <2>2. FailureNotSticky'
      BY <1>0, <1>12
      DEF ComeBack, local, creation, CurrentSince, FailureNotSticky, TypeOK, PastTimes
    <2> QED
      BY <1>0, <2>1, <2>2
  <1>13. ASSUME Tick PROVE IInv'
    <2>1. ReplyHonest' /\ PublishedHonest' /\ CreatedExists' /\ OldReplyRaces'
      BY <1>13
      DEF Tick, upstream, local, creation, CurrentSince, ReplyHonest, PublishedHonest, CreatedExists, OldReplyRaces
    <2>2. WithinTtl' /\ FailureNotSticky'
      BY <1>13
      DEF Tick, upstream, local, creation, CurrentSince, WithinTtl, FailureNotSticky
    <2>3. OnlyRacesHide'
      BY <1>13
      DEF Tick, upstream, local, creation, CurrentSince, OnlyRacesHide
    <2>4. PastTimes'
      BY <1>0, <1>13 DEF Tick, upstream, local, creation, PastTimes, TypeOK
    <2>5. EntryHonest'
      BY <1>0, <1>13 DEF Tick, upstream, local, creation, CurrentSince, EntryHonest, TypeOK
    <2> QED
      BY <1>0, <2>1, <2>2, <2>3, <2>4, <2>5
  <1>14. ASSUME Restart PROVE IInv'
    <2>1. PastTimes' /\ PublishedHonest'
      BY <1>14 DEF Restart, upstream, creation, CurrentSince, PastTimes, PublishedHonest
    <2>2. EntryHonest' /\ ReplyHonest' /\ CreatedExists' /\ OldReplyRaces' /\ WithinTtl' /\ FailureNotSticky' /\ OnlyRacesHide'
      BY <1>14
      DEF Restart, upstream, creation, CurrentSince, EntryHonest, ReplyHonest, CreatedExists, OldReplyRaces, WithinTtl, FailureNotSticky, OnlyRacesHide
    <2> QED
      BY <1>0, <2>1, <2>2
  <1>15. ASSUME UNCHANGED vars PROVE IInv'
    BY <1>0, <1>15 DEF vars, upstream, local, creation, PastTimes, EntryHonest, ReplyHonest,
      PublishedHonest, CreatedExists, OldReplyRaces, WithinTtl, FailureNotSticky, OnlyRacesHide,
      CurrentSince
  <1> QED
    BY <1>1, <1>2, <1>3, <1>4, <1>5, <1>6, <1>7, <1>8, <1>9, <1>10, <1>11, <1>12, <1>13, <1>14, <1>15 DEF Next

-----------------------------------------------------------------------------
\* The invariant holds in every state the proxy can reach.
LEMMA Inductive == Spec => []IInv
  BY InitIInv, StepIInv, PTL DEF Spec

\* Every variable of RouterCache keeps its type.
THEOREM TypeCorrect == Spec => []TypeOK
  <1>1. IInv => TypeOK
    BY DEF IInv
  <1> QED
    BY Inductive, <1>1, PTL

\* No call of _cached returns a list that was out of date for CACHE_TTL_SECONDS
\* when the call began, whatever the threads and the instances do.
THEOREM NeverStale == Spec => []WithinTtl
  <1>1. IInv => WithinTtl
    BY DEF IInv
  <1> QED
    BY Inductive, <1>1, PTL

\* A failed lookup is reported only to the call that made it (never cached).
THEOREM FailuresAreNotCached == Spec => []FailureNotSticky
  <1>1. IInv => FailureNotSticky
    BY DEF IInv
  <1> QED
    BY Inductive, <1>1, PTL

\* "Create, then drop the cache" leaves one way for an old list to be cached:
\* a reply that was in transit at that moment.
THEOREM OnlyRaces == Spec => []OnlyRacesHide
  <1>1. IInv => OnlyRacesHide
    BY DEF IInv
  <1> QED
    BY Inductive, <1>1, PTL

\* Even then a created tag is seen by every call that begins
\* CACHE_TTL_SECONDS after its creation was complete.
THEOREM CreatedBecomesVisible == Spec => []VisibleWithinTtl
  <1>1. IInv => VisibleWithinTtl
    <2> SUFFICES ASSUME IInv, NEW t \in Threads, pc[t] = "returned",
                        got[t] # Unread, got[t] < published[key[t]]
                 PROVE  now[t] - publishedAt[key[t]] < Ttl
      BY DEF VisibleWithinTtl
    <2>1. /\ key[t] \in Keys /\ got[t] \in Versions /\ now[t] \in Int
          /\ version[key[t]] \in Int /\ published[key[t]] \in Int
          /\ publishedAt[key[t]] \in Int /\ ended[key[t]][got[t]] \in Int
      BY BoundsAssumption DEF IInv, TypeOK
    <2>2. got[t] # version[key[t]] /\ ended[key[t]][got[t]] <= publishedAt[key[t]]
      BY <2>1 DEF IInv, PublishedHonest
    <2>3. ended[key[t]][got[t]] >= now[t] - Ttl + 1
      BY <2>1, <2>2 DEF IInv, WithinTtl, CurrentSince
    <2> QED
      BY <2>1, <2>2, <2>3, TtlAssumption
  <1> QED
    BY Inductive, <1>1, PTL

-----------------------------------------------------------------------------
(* RouterCache implements StaleRegister. *)

\* A thread that is not inside _cached has no call under way.
LEMMA NotReading ==
  ASSUME NEW t \in Threads, pc[t] \in {"idle", "returned"}
  PROVE  calls[t].state # "reading"
  BY DEF calls

LEMMA ReadingFields ==
  ASSUME NEW t \in Threads, pc[t] \in {"lookup", "load", "store"}
  PROVE  /\ calls[t].state = "reading"
         /\ calls[t].key = key[t]
         /\ calls[t].since = now[t]
<1>1. calls[t] = [state |-> "reading", key |-> key[t], since |-> now[t]]
  BY DEF calls
<1> QED
  BY <1>1

\* A step of one thread changes its call only.
LEMMA OneCallChanges ==
  ASSUME NEW t \in Threads, NEW c,
         \A u \in Threads \ {t} :
           pc'[u] = pc[u] /\ key'[u] = key[u] /\ now'[u] = now[u] /\ got'[u] = got[u],
         calls'[t] = c
  PROVE  calls' = [calls EXCEPT ![t] = c]
<1>1. calls = [u \in Threads |-> calls[u]] /\ calls' = [u \in Threads |-> calls'[u]]
  BY DEF calls
<1>2. \A u \in Threads \ {t} : calls'[u] = calls[u]
  BY DEF calls
<1> QED
  BY ONLY <1>1, <1>2, calls'[t] = c, t \in Threads

LEMMA CallsKept ==
  ASSUME UNCHANGED local
  PROVE  calls' = calls
  BY DEF calls, local

\* An answer of _cached that is a list is one the register may return, and an
\* answer that is none is one it may fail with: WithinTtl and FailureNotSticky.
LEMMA AnswerAllowed ==
  ASSUME IInv, IInv', UNCHANGED <<clock, upstream>>, NEW t \in Threads,
         pc[t] \in {"lookup", "load", "store"}, pc'[t] = "returned",
         key'[t] = key[t], now'[t] = now[t],
         \A u \in Threads \ {t} :
           pc'[u] = pc[u] /\ key'[u] = key[u] /\ now'[u] = now[u] /\ got'[u] = got[u]
  PROVE  Register!Next
<1>1. Register!Ends(t, got'[t])
  <2>1. calls'[t] = Register!Returned(key[t], now[t], got'[t])
    BY DEF calls, Register!Returned
  <2>2. calls' = [calls EXCEPT ![t] = Register!Returned(key[t], now[t], got'[t])]
    BY <2>1, OneCallChanges
  <2> QED
    BY <2>2, ReadingFields DEF Register!Ends
<1>2. CASE got'[t] = Unread
  <2>1. ~up'[key'[t]] \/ back'[key'[t]] >= now'[t]
    BY <1>2 DEF IInv, FailureNotSticky
  <2>2. Register!Fail(t)
    BY <1>1, <1>2, <2>1, ReadingFields DEF Register!Fail, Register!Unread, upstream
  <2> QED
    BY <2>2 DEF Register!Next, upstream
<1>3. CASE got'[t] # Unread
  <2>1. got'[t] \in Versions
    BY <1>3 DEF IInv, TypeOK
  <2>2. got'[t] = version'[key'[t]] \/ ended'[key'[t]][got'[t]] >= now'[t] - Ttl + 1
    BY <1>3 DEF IInv, WithinTtl, CurrentSince
  <2>3. now[t] \in Int /\ Ttl \in Int /\ ended[key[t]][got'[t]] \in Int
    <3>1. now[t] \in Times /\ key[t] \in Keys /\ ended \in [Keys -> [Versions -> Times]]
      BY DEF IInv, TypeOK
    <3>2. ended[key[t]][got'[t]] \in Times
      BY ONLY <2>1, <3>1
    <3> QED
      BY ONLY <3>1, <3>2, BoundsAssumption, TtlAssumption DEF Times
  <2>4. got'[t] = version[key[t]] \/ ended[key[t]][got'[t]] > now[t] - Ttl
    BY <2>2, <2>3 DEF upstream
  <2>5. Register!Return(t, got'[t])
    BY <1>1, <2>4, ReadingFields DEF Register!Return
  <2> QED
    BY <2>1, <2>5 DEF Register!Next, upstream
<1> QED
  BY <1>2, <1>3

\* Every step of the cache is a step of the register, or none.
LEMMA StepIsRegisterStep ==
  ASSUME IInv, IInv', [Next]_vars
  PROVE  [Register!Next]_(Register!vars)
<1> DEFINE Stutter == UNCHANGED Register!vars
<1>1. ASSUME NEW t \in Threads, NEW k \in Keys, Call(t, k) PROVE Register!Next
  <2>1. calls'[t] = Register!Reading(k, clock)
    BY <1>1 DEF Call, calls, Register!Reading, IInv, TypeOK
  <2>2. calls' = [calls EXCEPT ![t] = Register!Reading(k, clock)]
    BY <1>1, <2>1, OneCallChanges DEF Call, IInv, TypeOK
  <2>3. Register!Begin(t, k)
    BY <1>1, <2>2, NotReading DEF Call, Register!Begin
  <2> QED
    BY <1>1, <2>3 DEF Call, upstream, Register!Next
<1>2. ASSUME NEW t \in Threads, NEW k \in TagKeys, Create(t, k) PROVE Register!Next
  <2>0. k \in Keys
    BY KeysAssumption
  <2>1. calls'[t] = Register!NoCall
    BY <1>2 DEF Create, calls, Register!NoCall, IInv, TypeOK
  <2>2. calls' = [calls EXCEPT ![t] = Register!NoCall]
    BY <1>2, <2>1, OneCallChanges DEF Create, IInv, TypeOK
  <2>3. Register!Change(k)
    BY <1>2 DEF Create, Supersede, Register!Change
  <2>4. Register!ChangedBy(t, k)
    BY <1>2, <2>2, <2>3, NotReading DEF Create, Register!ChangedBy
  <2> QED
    BY <2>0, <2>4 DEF Register!Next
<1>3. ASSUME NEW t \in Threads, Hit(t) \/ LoadFails(t) \/ Store(t) PROVE Register!Next
  <2>1. /\ UNCHANGED <<clock, upstream>>
        /\ pc[t] \in {"lookup", "load", "store"}
        /\ pc' = [pc EXCEPT ![t] = "returned"]
        /\ key' = key /\ now' = now
        /\ got' = got \/ \E x : got' = [got EXCEPT ![t] = x]
    BY <1>3 DEF Hit, LoadFails, Store
  <2>2. \A u \in Threads \ {t} :
          pc'[u] = pc[u] /\ key'[u] = key[u] /\ now'[u] = now[u] /\ got'[u] = got[u]
    BY <2>1 DEF IInv, TypeOK
  <2>3. pc'[t] = "returned"
    BY <2>1 DEF IInv, TypeOK
  <2> QED
    BY <2>1, <2>2, <2>3, AnswerAllowed
<1>4. ASSUME NEW t \in Threads, Miss(t) \/ Answer(t) PROVE Stutter
  <2>1. calls' = calls
    BY <1>4 DEF Miss, Answer, calls, IInv, TypeOK
  <2> QED
    BY <1>4, <2>1 DEF Miss, Answer, upstream, Register!vars
<1>5. ASSUME NEW t \in Threads, invalidate(t) \/ pop(t) PROVE Stutter
  <2>1. calls' = calls
    BY <1>5 DEF invalidate, pop, Publish, calls, IInv, TypeOK
  <2> QED
    BY <1>5, <2>1 DEF invalidate, pop, Publish, upstream, Register!vars
<1>6. ASSUME NEW k \in Keys, UpstreamChange(k) PROVE Register!Next
  <2>1. Register!ChangedElsewhere(k)
    BY <1>6, CallsKept
    DEF UpstreamChange, Supersede, Register!ChangedElsewhere, Register!Change
  <2> QED
    BY <2>1 DEF Register!Next
<1>7. ASSUME NEW k \in Keys, GoDown(k) PROVE Register!Next
  <2>1. Register!GoDown(k)
    BY <1>7, CallsKept DEF GoDown, Register!GoDown
  <2> QED
    BY <2>1 DEF Register!Next
<1>8. ASSUME NEW k \in Keys, ComeBack(k) PROVE Register!Next
  <2>1. Register!ComeBack(k)
    BY <1>8, CallsKept DEF ComeBack, Register!ComeBack
  <2> QED
    BY <2>1 DEF Register!Next
<1>9. ASSUME Tick PROVE Register!Next
  <2>1. Register!Tick
    BY <1>9, CallsKept DEF Tick, upstream, Register!Tick
  <2> QED
    BY <2>1 DEF Register!Next
<1>10. ASSUME Restart PROVE Register!Next
  <2>1. calls' = [t \in Threads |-> Register!NoCall]
    BY <1>10 DEF Restart, calls, Register!NoCall
  <2>2. Register!Restart
    BY <2>1 DEF Register!Restart
  <2> QED
    BY <1>10, <2>2 DEF Restart, upstream, Register!Next
<1>11. ASSUME UNCHANGED vars PROVE Stutter
  BY <1>11, CallsKept DEF vars, upstream, Register!vars
<1> QED
  BY <1>1, <1>2, <1>3, <1>4, <1>5, <1>6, <1>7, <1>8, <1>9, <1>10, <1>11 DEF Next

\* For any number of threads and keys, and any CACHE_TTL_SECONDS: the cache is
\* a read that is stale by less than CACHE_TTL_SECONDS, or an honest failure.
THEOREM CacheIsStaleRegister == Spec => ImplementsStaleRegister
<1>1. Init => Register!Init
  <2> SUFFICES ASSUME Init PROVE Register!Init
    OBVIOUS
  <2>1. calls = [t \in Threads |-> Register!NoCall]
    BY DEF Init, calls, Register!NoCall
  <2> QED
    BY <2>1 DEF Init, Register!Init
<1> QED
  BY <1>1, Inductive, StepIsRegisterStep, PTL DEF Spec, ImplementsStaleRegister, Register!Spec
==============================================================================
