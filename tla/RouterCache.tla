----------------------------- MODULE RouterCache -----------------------------
(***************************************************************************)
(* Router._cached (proxyseerr/routing.py): the only memory of the proxy, a *)
(* 60-second cache of each instance's root folders and tags, shared by the *)
(* handler threads without a lock.  What a list contains is abstracted to  *)
(* a version number: version[k] counts the changes of list k upstream.     *)
(*                                                                         *)
(* A call of _cached is four steps, because other threads run in between:  *)
(* read the clock, look the entry up, let the instance answer, store.  The *)
(* threads that create a tag and then drop entries are here as well.       *)
(***************************************************************************)
EXTENDS Integers

CONSTANTS
  Threads,      \* handler threads
  Keys,         \* cache keys: rootfolders:<instance>, tags:<instance>
  TagKeys,      \* those of tags: the proxy itself adds to these lists
  Ttl,          \* CACHE_TTL_SECONDS
  MaxClock,     \* bound on the clock
  MaxVersion    \* bound on the changes of one list

ASSUME KeysAssumption == TagKeys \subseteq Keys
ASSUME TtlAssumption == Ttl \in Nat \ {0}
ASSUME BoundsAssumption == MaxClock \in Nat /\ MaxVersion \in Nat

VARIABLES
  clock,      \* time.monotonic()
  version,    \* version[k]: current version of list k on its instance
  ended,      \* ended[k][v]: when version v of list k was superseded (history)
  up,         \* up[k]: the instance that owns list k answers
  back,       \* back[k]: when that instance last came back (history)
  cache,      \* self._cache: [at, val] or NoEntry
  pc,         \* what each thread is doing
  key,        \* the key of the thread's call
  now,        \* local variable now of _cached
  got,        \* the list loaded or returned: a version, or Unread for None
  published,  \* published[k]: latest version whose creator dropped the cache
  publishedAt,\* publishedAt[k]: when it did (history)
  racing      \* racing[k]: a reply from before it was then in transit (history)

upstream == <<version, ended, up, back>>
local == <<pc, key, now, got>>
creation == <<published, publishedAt, racing>>
vars == <<clock, upstream, cache, local, creation>>

NoEntry == [at |-> -1, val |-> -1]
Unread == -1
Times == 0 .. MaxClock
Versions == 0 .. MaxVersion

TypeOK ==
  /\ clock \in Times
  /\ version \in [Keys -> Versions]
  /\ ended \in [Keys -> [Versions -> Times]]
  /\ up \in [Keys -> BOOLEAN]
  /\ back \in [Keys -> Times]
  /\ cache \in [Keys -> [at : Times, val : Versions] \cup {NoEntry}]
  /\ pc \in [Threads -> {"idle", "lookup", "load", "store", "returned", "created"}]
  /\ key \in [Threads -> Keys]
  /\ now \in [Threads -> Times]
  /\ got \in [Threads -> Versions \cup {Unread}]
  /\ published \in [Keys -> Versions]
  /\ publishedAt \in [Keys -> Times]
  /\ racing \in [Keys -> BOOLEAN]

Init ==
  /\ clock = 0
  /\ version = [k \in Keys |-> 0]
  /\ ended = [k \in Keys |-> [v \in Versions |-> 0]]
  /\ up \in [Keys -> BOOLEAN]
  /\ back = [k \in Keys |-> 0]
  /\ cache = [k \in Keys |-> NoEntry]
  /\ pc = [t \in Threads |-> "idle"]
  /\ key \in [Threads -> Keys]
  /\ now = [t \in Threads |-> 0]
  /\ got = [t \in Threads |-> Unread]
  /\ published = [k \in Keys |-> 0]
  /\ publishedAt = [k \in Keys |-> 0]
  /\ racing = [k \in Keys |-> FALSE]

-----------------------------------------------------------------------------
(* Router._cached, called by thread t for key k.                            *)

Call(t, k) ==
  /\ pc[t] \in {"idle", "returned"}
  /\ pc' = [pc EXCEPT ![t] = "lookup"]
  /\ key' = [key EXCEPT ![t] = k]
  /\ now' = [now EXCEPT ![t] = clock]
  /\ UNCHANGED <<clock, upstream, cache, got, creation>>

\* Mutant: an entry is still used when it is exactly Ttl old.
FreshOneLonger(t) ==
  /\ cache[key[t]] # NoEntry
  /\ now[t] - cache[key[t]].at <= Ttl

Fresh(t) ==
  /\ cache[key[t]] # NoEntry
  /\ now[t] - cache[key[t]].at < Ttl

\* Mutants: the entry is stamped when the reply arrives; a failure is cached.
MemoisedStampedLate(t, value, cacheable) ==
  IF cacheable THEN [cache EXCEPT ![key[t]] = [at |-> clock, val |-> value]] ELSE cache
MemoisedAlways(t, value, cacheable) ==
  [cache EXCEPT ![key[t]] = [at |-> now[t], val |-> value]]

\* The entry carries the time at which the call began, not the time it is stored.
Memoised(t, value, cacheable) ==
  IF cacheable THEN [cache EXCEPT ![key[t]] = [at |-> now[t], val |-> value]] ELSE cache

Hit(t) ==
  /\ pc[t] = "lookup"
  /\ Fresh(t)
  /\ got' = [got EXCEPT ![t] = cache[key[t]].val]
  /\ pc' = [pc EXCEPT ![t] = "returned"]
  /\ UNCHANGED <<clock, upstream, cache, key, now, creation>>

Miss(t) ==
  /\ pc[t] = "lookup"
  /\ ~Fresh(t)
  /\ pc' = [pc EXCEPT ![t] = "load"]
  /\ UNCHANGED <<clock, upstream, cache, key, now, got, creation>>

\* The instance takes its list; the reply is in transit until Store.
Answer(t) ==
  /\ pc[t] = "load"
  /\ up[key[t]]
  /\ got' = [got EXCEPT ![t] = version[key[t]]]
  /\ pc' = [pc EXCEPT ![t] = "store"]
  /\ UNCHANGED <<clock, upstream, cache, key, now, creation>>

\* loader() returned (None, False): nothing is cached.
LoadFails(t) ==
  /\ pc[t] = "load"
  /\ ~up[key[t]]
  /\ got' = [got EXCEPT ![t] = Unread]
  /\ cache' = Memoised(t, Unread, FALSE)
  /\ pc' = [pc EXCEPT ![t] = "returned"]
  /\ UNCHANGED <<clock, upstream, key, now, creation>>

Store(t) ==
  /\ pc[t] = "store"
  /\ cache' = Memoised(t, got[t], TRUE)
  /\ pc' = [pc EXCEPT ![t] = "returned"]
  /\ UNCHANGED <<clock, upstream, key, now, got, creation>>

-----------------------------------------------------------------------------
(* A thread that creates a tag: the create_tag handler, which then clears   *)
(* the cache, and _tag_id_for_label, which then pops one entry.             *)

Supersede(k) ==
  /\ version[k] < MaxVersion
  /\ version' = [version EXCEPT ![k] = @ + 1]
  /\ ended' = [ended EXCEPT ![k][version[k]] = clock]
  /\ UNCHANGED <<up, back>>

Create(t, k) ==
  /\ pc[t] \in {"idle", "returned"}
  /\ up[k]
  /\ Supersede(k)
  /\ key' = [key EXCEPT ![t] = k]
  /\ got' = [got EXCEPT ![t] = version[k] + 1]
  /\ now' = [now EXCEPT ![t] = clock]
  /\ pc' = [pc EXCEPT ![t] = "created"]
  /\ UNCHANGED <<clock, cache, creation>>

\* The handler is done with the cache: its tag is to be visible from here on.
Publish(t) ==
  LET k == key[t] IN
  /\ pc[t] = "created"
  /\ IF got[t] > published[k]
     THEN /\ published' = [published EXCEPT ![k] = got[t]]
          /\ publishedAt' = [publishedAt EXCEPT ![k] = clock]
          /\ racing' = [racing EXCEPT ![k] =
               \E u \in Threads : pc[u] = "store" /\ key[u] = k /\ got[u] < got[t]]
     ELSE UNCHANGED creation
  /\ pc' = [pc EXCEPT ![t] = "idle"]
  /\ UNCHANGED <<clock, upstream, key, now, got>>

\* Mutant: the other instance's entry is dropped, or none.
popNothing(t) ==
  /\ Publish(t)
  /\ UNCHANGED cache

invalidate(t) ==
  /\ Publish(t)
  /\ cache' = [k \in Keys |-> NoEntry]

pop(t) ==
  /\ Publish(t)
  /\ cache' = [cache EXCEPT ![key[t]] = NoEntry]

-----------------------------------------------------------------------------
(* The environment: time, changes the proxy does not see (made in the       *)
(* instance's own UI, or by a create whose reply was lost), outages, and a  *)
(* restart of the proxy.                                                    *)

Tick ==
  /\ clock < MaxClock
  /\ clock' = clock + 1
  /\ UNCHANGED <<upstream, cache, local, creation>>

UpstreamChange(k) ==
  /\ Supersede(k)
  /\ UNCHANGED <<clock, cache, local, creation>>

GoDown(k) ==
  /\ up[k]
  /\ up' = [up EXCEPT ![k] = FALSE]
  /\ UNCHANGED <<clock, version, ended, back, cache, local, creation>>

ComeBack(k) ==
  /\ ~up[k]
  /\ up' = [up EXCEPT ![k] = TRUE]
  /\ back' = [back EXCEPT ![k] = clock]
  /\ UNCHANGED <<clock, version, ended, cache, local, creation>>

Restart ==
  /\ cache' = [k \in Keys |-> NoEntry]
  /\ pc' = [t \in Threads |-> "idle"]
  /\ UNCHANGED <<clock, upstream, key, now, got, creation>>

Next ==
  \/ \E t \in Threads :
       \/ \E k \in Keys : Call(t, k)
       \/ \E k \in TagKeys : Create(t, k)
       \/ Hit(t) \/ Miss(t) \/ Answer(t) \/ LoadFails(t) \/ Store(t)
       \/ invalidate(t) \/ pop(t)
  \/ \E k \in Keys : UpstreamChange(k) \/ GoDown(k) \/ ComeBack(k)
  \/ Tick
  \/ Restart

Spec == Init /\ [][Next]_vars

-----------------------------------------------------------------------------
(* Properties. *)

\* A list v of key k that was superseded at or after time s, or is current.
CurrentSince(k, v, s) == v = version[k] \/ (v \in Versions /\ ended[k][v] >= s)

\* Whatever _cached returns was the instance's list at some moment less than
\* CACHE_TTL_SECONDS before the call began, however long the load that filled
\* the entry took and however late its store came (routing.py:34-41).
WithinTtl ==
  \A t \in Threads :
    pc[t] = "returned" /\ got[t] # Unread
      => CurrentSince(key[t], got[t], now[t] - Ttl + 1)

\* A call that answers "could not be read" saw the outage itself: one caller's
\* failure is never another caller's answer (routing.py:29-33, 39-40).
FailureNotSticky ==
  \A t \in Threads :
    pc[t] = "returned" /\ got[t] = Unread
      => ~up[key[t]] \/ back[key[t]] >= now[t]

\* A list without a tag whose creation is complete can only be in the cache
\* because its reply was in transit when the cache was dropped: dropping after
\* the create leaves that one window (app.py:330-334, routing.py:183-185).
OnlyRacesHide ==
  \A k \in Keys : cache[k] # NoEntry /\ cache[k].val < published[k] => racing[k]

\* Whatever the interleaving, a call that begins CACHE_TTL_SECONDS after a
\* creation was completed returns a list that has the tag.
VisibleWithinTtl ==
  \A t \in Threads :
    pc[t] = "returned" /\ got[t] # Unread /\ got[t] < published[key[t]]
      => now[t] - publishedAt[key[t]] < Ttl

\* What the comment at app.py:331 and test_flaws.py:87 take the order "create,
\* then drop" to ensure: once it is done, no list from before it is cached.
VisibleAtOnce ==
  \A k \in Keys : cache[k] # NoEntry => cache[k].val >= published[k]

-----------------------------------------------------------------------------
(* What the callers of _cached may rely on, without knowing of a cache. *)

\* The call of each thread as its caller sees it: made, or answered.
calls ==
  [t \in Threads |->
     IF pc[t] \in {"lookup", "load", "store"}
     THEN [state |-> "reading", key |-> key[t], since |-> now[t]]
     ELSE IF pc[t] = "returned"
     THEN [state |-> "returned", key |-> key[t], since |-> now[t], value |-> got[t]]
     ELSE [state |-> "none"]]

Register == INSTANCE StaleRegister WITH call <- calls

\* Threads that share the cache without a lock, drop it, fill it late and fill
\* it with each other's lists are together only a read that may be stale by
\* less than CACHE_TTL_SECONDS: whatever is in the cache, what a call returns
\* is explained by the instance's own history since then (routing.py:29-41).
ImplementsStaleRegister == Register!Spec
==============================================================================
