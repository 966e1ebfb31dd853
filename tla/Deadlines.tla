------------------------------ MODULE Deadlines ------------------------------
(***************************************************************************)
(* How long Serving takes.  Its time-outs do more than make everything end *)
(* some day: they put a number of ticks on the start of the process, on a  *)
(* request's wait for a thread, on a run of healthcheck.py, and on the     *)
(* time that an outage is still felt after it is over.                     *)
(*                                                                         *)
(* A place and four clocks are added.  They record; no guard reads them.   *)
(***************************************************************************)
EXTENDS Serving

VARIABLES
  place,    \* place[r]: where r stood in the queue when it was put there
  waited,   \* waited[r]: ticks since then, while r is queued
  probing,  \* ticks since the process was started, while it probes
  checking, \* ticks since healthcheck.py was started, while it runs
  quiet     \* quiet[s]: ticks, up to Read, since the process listens and no instance of s is silent

clocks == <<place, waited, probing, checking, quiet>>

IsQueued(r) == request[r].state = "queued"
CheckRuns == check.state \in {"asking", "next"}
IsQuiet(s) == stage = "listening" /\ silent[s] = {}

DInit ==
  /\ Init
  /\ place = [r \in Requests |-> 0]
  /\ waited = [r \in Requests |-> 0]
  /\ probing = 0
  /\ checking = 0
  /\ quiet = [s \in Services |-> 0]

\* A step, or with ticks = 1 the passing of time, as the clocks see it.
Recorded(ticks) ==
  /\ place' = [r \in Requests |->
       IF ~IsQueued(r)' THEN 0
       ELSE IF IsQueued(r) THEN place[r]
       ELSE Len(queue'[request'[r].service])]
  /\ waited' = [r \in Requests |-> IF IsQueued(r) /\ IsQueued(r)' THEN waited[r] + ticks ELSE 0]
  /\ probing' = IF stage = "probing" /\ stage' = "probing" THEN probing + ticks ELSE 0
  /\ checking' = IF CheckRuns /\ CheckRuns' THEN checking + ticks ELSE 0
  /\ quiet' = [s \in Services |->
       IF ~IsQuiet(s) \/ ~IsQuiet(s)' THEN 0
       ELSE IF quiet[s] < Read THEN quiet[s] + ticks
       ELSE quiet[s]]

DNext ==
  \/ Step /\ Recorded(0)
  \/ Tick /\ Recorded(1)

DSpec == DInit /\ [][DNext]_<<vars, clocks>>

-----------------------------------------------------------------------------
(* Properties. *)

\* A request waits for a thread for at most as long as its port's threads can be
\* held by those before it: the first Threads in a queue for one MaxHold, the next
\* Threads for two, and so on (__main__.py:83, upstream.py:161-201).
WaitIsBounded ==
  \A r \in Requests : IsQueued(r) =>
    \A n \in 0 .. place[r] : place[r] <= n * Threads => waited[r] <= n * MaxHold

\* A process that is not killed listens after a connect and a read timeout for each
\* instance, at the latest (__main__.py:78-93).
StartIsBounded == stage = "probing" => probing <= Probes * (Connect + Read)

\* healthcheck.py is over after its own timeout for each port, at the latest, which
\* is what Docker allows it: HEALTHCHECK --timeout (healthcheck.py:22-31, Dockerfile:20).
CheckIsBounded == CheckRuns => checking <= Len(Order) * CheckTimeout

\* A request is held up, in its queue or by a call, only in an outage of its own
\* service and for less than a read timeout after it: Sonarr's outage is not Radarr's,
\* and what it left in the threads and the queue is gone in one read timeout
\* (__main__.py:80-93, upstream.py:161-201).
HeldUpByOwnOutage ==
  [][\A r \in Requests : Tick /\ IsOpen(r) => quiet[request[r].service] < Read]_<<vars, clocks>>

CheckFails == check # Done /\ check' = Done /\ streak' # 0

\* A check fails while the process does not listen yet, or in an outage of the service
\* it asks and for less than a read timeout after it (healthcheck.py:22-31).
FailureIsRecent ==
  [][CheckFails =>
       IF check.state = "asking" THEN quiet[Order[check.nth]] < Read
       ELSE stage = "probing"]_<<vars, clocks>>
==============================================================================
