----------------------------- MODULE StaleRegister -----------------------------
(***************************************************************************)
(* What the callers of Router._cached rely on: lists that others change,   *)
(* read as they were less than Ttl before the call, or found unreadable.   *)
(* There is no cache here, and no reader knows of another.                 *)
(***************************************************************************)
EXTENDS Integers

CONSTANTS Threads, Keys, Ttl, Versions

VARIABLES
  clock,
  version,  \* version[k]: current version of list k
  ended,    \* ended[k][v]: when version v was superseded
  up,       \* up[k]: list k can be read
  back,     \* back[k]: since when, if it could not be read before
  call      \* call[t]: the latest call of thread t

vars == <<clock, version, ended, up, back, call>>

Unread == -1
NoCall == [state |-> "none"]
Reading(k, since) == [state |-> "reading", key |-> k, since |-> since]
Returned(k, since, v) == [state |-> "returned", key |-> k, since |-> since, value |-> v]

Init ==
  /\ clock = 0
  /\ version = [k \in Keys |-> 0]
  /\ ended = [k \in Keys |-> [v \in Versions |-> 0]]
  /\ up \in [Keys -> BOOLEAN]
  /\ back = [k \in Keys |-> 0]
  /\ call = [t \in Threads |-> NoCall]

Begin(t, k) ==
  /\ call[t].state # "reading"
  /\ call' = [call EXCEPT ![t] = Reading(k, clock)]

Ends(t, value) ==
  /\ call[t].state = "reading"
  /\ call' = [call EXCEPT ![t] = Returned(call[t].key, call[t].since, value)]

\* The list as it is, or was at some moment less than Ttl before the call.
Return(t, v) ==
  /\ Ends(t, v)
  /\ \/ v = version[call[t].key]
     \/ ended[call[t].key][v] > call[t].since - Ttl

\* Only a list that could not be read during the call is unreadable.
Fail(t) ==
  /\ Ends(t, Unread)
  /\ ~up[call[t].key] \/ back[call[t].key] >= call[t].since

Change(k) ==
  /\ version' = [version EXCEPT ![k] = @ + 1]
  /\ ended' = [ended EXCEPT ![k][version[k]] = clock]
  /\ UNCHANGED <<clock, up, back>>

\* A change made elsewhere, or by a thread between its calls.
ChangedElsewhere(k) == Change(k) /\ UNCHANGED call
ChangedBy(t, k) ==
  /\ call[t].state # "reading"
  /\ Change(k)
  /\ call' = [call EXCEPT ![t] = NoCall]

GoDown(k) ==
  /\ up' = [up EXCEPT ![k] = FALSE]
  /\ UNCHANGED <<clock, version, ended, back, call>>

ComeBack(k) ==
  /\ up' = [up EXCEPT ![k] = TRUE]
  /\ back' = [back EXCEPT ![k] = clock]
  /\ UNCHANGED <<clock, version, ended, call>>

Tick == clock' = clock + 1 /\ UNCHANGED <<version, ended, up, back, call>>

\* All calls are abandoned: the reader restarts.
Restart ==
  /\ call' = [t \in Threads |-> NoCall]

\* What the readers do leaves the list alone; a caller need not notice it.
Next ==
  \/ /\ UNCHANGED <<clock, version, ended, up, back>>
     /\ \/ UNCHANGED call
        \/ \E t \in Threads :
             \/ \E k \in Keys : Begin(t, k)
             \/ \E v \in Versions : Return(t, v)
             \/ Fail(t)
        \/ Restart
  \/ \E k \in Keys :
       \/ ChangedElsewhere(k) \/ GoDown(k) \/ ComeBack(k)
       \/ \E t \in Threads : ChangedBy(t, k)
  \/ Tick

Spec == Init /\ [][Next]_vars
==============================================================================
