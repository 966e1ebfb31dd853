------------------------------- MODULE Serving -------------------------------
(***************************************************************************)
(* The proxy as a process (proxyseerr/__main__.py): it asks every instance *)
(* once, then serves each service on a port and a thread pool of its own.  *)
(* A request holds its thread while its upstream calls run one after the   *)
(* other, each under a connect and a read timeout (upstream.py).  Docker   *)
(* runs healthcheck.py, which asks /proxy/health of each port in turn.     *)
(*                                                                         *)
(* What a reply says is left out: a call is answered, fails or times out.  *)
(* Time is a number of ticks; one passes only when no step is due.         *)
(***************************************************************************)
EXTENDS Integers, Sequences, SequencesExt, FiniteSets

CONSTANTS
  Order,         \* the services, in the order of KINDS
  Threads,       \* threads of one port
  Clients,       \* requests of Seerr that may be open at a time
  Checks,        \* requests of healthcheck.py that may be open at a time
  MaxCalls,      \* upstream calls of one request
  Connect, Read, \* UPSTREAM_CONNECT_TIMEOUT, UPSTREAM_TIMEOUT
  CheckTimeout,  \* the timeout of urlopen in healthcheck.py
  Retries        \* failed checks in a row that make a container unhealthy

ASSUME OrderAssumption == Order \in Seq(STRING) /\ Order # <<>> /\ IsInjective(Order)
ASSUME TimesAssumption ==
  /\ {Threads, MaxCalls, Connect, Read, CheckTimeout, Retries} \subseteq Nat \ {0}
  /\ Connect <= Read
  /\ MaxCalls >= 2   \* of health()
ASSUME SlotsAssumption == IsFiniteSet(Clients \cup Checks)

VARIABLES
  stage,    \* of the process: "dead", "probing" its instances, "listening"
  probed,   \* how many instances probe_instances is done with
  probe,    \* its upstream call
  silent,   \* silent[s]: instances of s that may leave a call without a reply
  request,  \* request[r]: free, queued, served by a thread, or answered
  queue,    \* queue[s]: requests waiting for a thread of service s
  check,    \* what healthcheck.py is doing
  streak,   \* its failures in a row, up to Retries
  trouble   \* since a check went well, an instance was silent or the process gone, or that
            \* check left requests open (history)

vars == <<stage, probed, probe, silent, request, queue, check, streak, trouble>>

Services == ToSet(Order)
Instances == {"english", "anime"}
Requests == Clients \cup Checks

\* The order in which health() and probe_instances ask the instances.
InTurn == <<"english", "anime">>

Call(i) == [instance |-> i, phase |-> "connect", age |-> 0]
Reading(c) == [instance |-> c.instance, phase |-> "read", age |-> 0]
OlderCall(c) == [c EXCEPT !.age = @ + 1]
NoCall == [instance |-> "none", phase |-> "none", age |-> 0]

\* A request is free to be made; one that ended becomes free with the next tick.
Free == [state |-> "free"]
Ended == [state |-> "ended"]
Queued(s, n) == [state |-> "queued", service |-> s, left |-> n]
Served(s, n, c, held, failed) ==
  [state |-> "served", service |-> s, left |-> n, call |-> c, held |-> held, failed |-> failed]
Replied(failed) == [state |-> "answered", failed |-> failed]
IsOpen(r) == request[r].state \in {"queued", "served"}

Idle == [state |-> "idle"]
Done == [state |-> "done"]
Asking(n, r, age) == [state |-> "asking", nth |-> n, of |-> r, age |-> age]

\* Mutant: all ports share one pool of threads.
BusyAnywhere(s) == {r \in Requests : request[r].state = "served"}
Busy(s) == {r \in Requests : request[r].state = "served" /\ request[r].service = s}

\* Mutant: one timeout for both phases, as in timeout=self.timeout.
OneBudget(c) == Read
Budget(c) == IF c.phase = "connect" THEN Connect ELSE Read
MaxHold == MaxCalls * (Connect + Read)

\* A call that an instance answers at once, or whose timeout has come, is due.
Prompt(c, s) == c.age = 0 /\ c.instance \notin silent[s]
IsDue(c, s) == Prompt(c, s) \/ c.age = Budget(c)

ProbedService == Order[(probed \div 2) + 1]
Probe(n) == Call(InTurn[(n % 2) + 1])
Probes == 2 * Len(Order)

TypeOK ==
  /\ stage \in {"dead", "probing", "listening"}
  /\ probed \in 0 .. Probes
  /\ stage = "probing" => probed < Probes /\ probe.age <= Budget(probe)
  /\ silent \in [Services -> SUBSET Instances]
  /\ streak \in 0 .. Retries
  /\ \A s \in Services :
       /\ Cardinality(Busy(s)) <= Threads
       /\ IsInjective(queue[s])
       /\ ToSet(queue[s]) =
            {r \in Requests : request[r].state = "queued" /\ request[r].service = s}
  /\ \A r \in Requests :
       request[r].state = "served" =>
         request[r].left \in 1 .. MaxCalls /\ request[r].call.age <= Budget(request[r].call)
  /\ check.state = "asking" => check.of \in Checks /\ check.age \in 0 .. CheckTimeout

Init ==
  /\ stage = "probing"
  /\ probed = 0
  /\ probe = Probe(0)
  /\ silent \in [Services -> SUBSET Instances]
  /\ request = [r \in Requests |-> Free]
  /\ queue = [s \in Services |-> <<>>]
  /\ check = Idle
  /\ streak = 0
  /\ trouble = TRUE

-----------------------------------------------------------------------------
(* probe_instances and main: nothing listens until the last instance has    *)
(* answered, failed or timed out.                                            *)

ProbeGoesOn ==
  /\ stage = "probing"
  /\ probe.phase = "connect"
  /\ probe' = Reading(probe)
  /\ UNCHANGED <<stage, probed, silent, request, queue, check, streak, trouble>>

ProbeEnds ==
  /\ stage = "probing"
  /\ probed' = probed + 1
  /\ IF probed + 1 < Probes
     THEN probe' = Probe(probed + 1) /\ UNCHANGED stage
     ELSE probe' = NoCall /\ stage' = "listening"
  /\ UNCHANGED <<silent, request, queue, check, streak, trouble>>

\* Mutant: an instance that does not answer is asked again.
ProbeAsksAgain ==
  \/ probe.phase = "connect" /\ probe.age = Budget(probe) /\ ProbeEnds
  \/ /\ stage = "probing"
     /\ probe.phase = "read" /\ probe.age = Budget(probe)
     /\ probe' = Call(probe.instance)
     /\ UNCHANGED <<stage, probed, silent, request, queue, check, streak, trouble>>

\* Mutant: no read timeout.
ProbeTimesOutConnecting == probe.phase = "connect" /\ probe.age = Budget(probe) /\ ProbeEnds

ProbeTimesOut == probe.age = Budget(probe) /\ ProbeEnds

-----------------------------------------------------------------------------
(* A request of Seerr, or of healthcheck.py, on the port of service s.       *)

Enqueue(r, s, n) ==
  /\ request' = [request EXCEPT ![r] = Queued(s, n)]
  /\ queue' = [queue EXCEPT ![s] = Append(@, r)]

Submit(r, s, n) ==
  /\ stage = "listening"
  /\ request[r] = Free
  /\ Enqueue(r, s, n)
  /\ UNCHANGED <<stage, probed, probe, silent, check, streak, trouble>>

\* health() asks both instances in turn; any other handler asks either.
Targets(r, n) == IF r \in Checks THEN {InTurn[3 - n]} ELSE Instances

\* Mutant: a thread takes a request on although all are busy.
TakeUnbounded(s) ==
  /\ queue[s] # <<>>
  /\ LET r == Head(queue[s]) IN
     \E i \in Targets(r, request[r].left) :
       request' = [request EXCEPT ![r] = Served(s, @.left, Call(i), 0, FALSE)]
  /\ queue' = [queue EXCEPT ![s] = Tail(@)]
  /\ UNCHANGED <<stage, probed, probe, silent, check, streak, trouble>>

Take(s) ==
  /\ queue[s] # <<>>
  /\ Cardinality(Busy(s)) < Threads
  /\ LET r == Head(queue[s]) IN
     \E i \in Targets(r, request[r].left) :
       request' = [request EXCEPT ![r] = Served(s, @.left, Call(i), 0, FALSE)]
  /\ queue' = [queue EXCEPT ![s] = Tail(@)]
  /\ UNCHANGED <<stage, probed, probe, silent, check, streak, trouble>>

\* What is left of a request when its handler returns.
Reply(r, failed) ==
  IF check.state = "asking" /\ check.of = r THEN Replied(failed) ELSE Ended

\* The upstream call of r returns or raises.  A handler makes its next call, or
\* gives up; health() reports a failed call and goes on.
Returns(r, ok) ==
  LET q == request[r]
      failed == q.failed \/ ~ok
  IN
  /\ q.state = "served"
  /\ \/ /\ q.left > 1
        /\ \E i \in Targets(r, q.left - 1) :
             request' = [request EXCEPT ![r] =
               Served(q.service, q.left - 1, Call(i), q.held, failed)]
     \/ /\ q.left = 1 \/ (~ok /\ r \notin Checks)
        /\ request' = [request EXCEPT ![r] = Reply(r, failed)]
  /\ UNCHANGED <<stage, probed, probe, silent, queue, check, streak, trouble>>

Connected(r) ==
  /\ request[r].state = "served"
  /\ request[r].call.phase = "connect"
  /\ request' = [request EXCEPT ![r].call = Reading(@)]
  /\ UNCHANGED <<stage, probed, probe, silent, queue, check, streak, trouble>>

\* The instance replies, or refuses or breaks the connection.
Replies(r) ==
  \/ Connected(r)
  \/ request[r].state = "served" /\ request[r].call.phase = "read" /\ Returns(r, TRUE)
  \/ Returns(r, FALSE)

RepliesAtOnce(r) ==
  /\ request[r].state = "served"
  /\ Prompt(request[r].call, request[r].service)
  /\ Replies(r)

\* Mutant: a call that timed out is made again, as with max_retries=1.
TimesOutRetried(r) ==
  LET q == request[r] IN
  /\ q.state = "served"
  /\ q.call.age = Budget(q.call)
  /\ \/ q.failed /\ Returns(r, FALSE)
     \/ /\ ~q.failed
        /\ request' = [request EXCEPT ![r] =
             Served(q.service, q.left, Call(q.call.instance), q.held, TRUE)]
        /\ UNCHANGED <<stage, probed, probe, silent, queue, check, streak, trouble>>

\* Mutant: no read timeout, as in timeout=(self.connect_timeout, None).
TimesOutConnecting(r) ==
  /\ request[r].state = "served"
  /\ request[r].call.phase = "connect"
  /\ request[r].call.age = Budget(request[r].call)
  /\ Returns(r, FALSE)

TimesOut(r) ==
  /\ request[r].state = "served"
  /\ request[r].call.age = Budget(request[r].call)
  /\ Returns(r, FALSE)

-----------------------------------------------------------------------------
(* healthcheck.py, started again and again by Docker.                        *)

CheckEnds(ok) ==
  /\ check' = Done
  /\ streak' = IF ok THEN 0 ELSE IF streak < Retries THEN streak + 1 ELSE streak
  /\ trouble' = IF ok
                THEN \/ \E s \in Services : silent[s] # {}
                     \/ \E r \in Requests : IsOpen(r)
                ELSE trouble

\* The nth port is asked, or refuses the connection.
AsksPort(n) ==
  \/ /\ stage = "listening"
     /\ \E r \in Checks :
          /\ request[r] = Free
          /\ Enqueue(r, Order[n], 2)
          /\ check' = Asking(n, r, 0)
     /\ UNCHANGED <<streak, trouble>>
  \/ /\ stage = "probing"
     /\ CheckEnds(FALSE)
     /\ UNCHANGED <<request, queue>>

\* Mutant: the loop does not come to the next port.
SamePort == IF check.state = "next" THEN check.nth ELSE 1
NextPort == IF check.state = "next" THEN check.nth + 1 ELSE 1

CheckAsks ==
  /\ check = Idle \/ check.state = "next"
  /\ AsksPort(NextPort)
  /\ UNCHANGED <<stage, probed, probe, silent>>

\* Mutant: a degraded service, HTTP 503, fails the check.
CheckAnsweredStrictly ==
  /\ check.state = "asking"
  /\ request[check.of].state = "answered"
  /\ request' = [request EXCEPT ![check.of] = Free]
  /\ IF check.nth < Len(Order) /\ ~request[check.of].failed
     THEN check' = [check EXCEPT !.state = "next"] /\ UNCHANGED <<streak, trouble>>
     ELSE CheckEnds(~request[check.of].failed)
  /\ UNCHANGED <<stage, probed, probe, silent, queue>>

\* Any HTTP status will do: 503 says that an instance is down, and is passed over.
CheckAnswered ==
  /\ check.state = "asking"
  /\ request[check.of].state = "answered"
  /\ request' = [request EXCEPT ![check.of] = Free]
  /\ IF check.nth < Len(Order)
     THEN check' = [check EXCEPT !.state = "next"] /\ UNCHANGED <<streak, trouble>>
     ELSE CheckEnds(TRUE)
  /\ UNCHANGED <<stage, probed, probe, silent, queue>>

\* The request it gave up on stays where it is, in the queue or in a thread.
CheckTimesOut ==
  /\ check.state = "asking"
  /\ check.age = CheckTimeout
  /\ CheckEnds(FALSE)
  /\ request' = IF request[check.of].state = "answered"
                THEN [request EXCEPT ![check.of] = Ended]
                ELSE request
  /\ UNCHANGED <<stage, probed, probe, silent, queue>>

-----------------------------------------------------------------------------
(* The environment: a crash, which Docker follows by a restart; time.        *)

\* The container and the check in it are gone; Docker counts afresh.
Crash ==
  /\ stage # "dead"
  /\ stage' = "dead"
  /\ probed' = 0
  /\ probe' = NoCall
  /\ request' = [r \in Requests |-> Ended]
  /\ queue' = [s \in Services |-> <<>>]
  /\ check' = Done
  /\ streak' = 0
  /\ trouble' = TRUE
  /\ UNCHANGED silent

NothingDue ==
  /\ stage = "probing" => ~IsDue(probe, ProbedService)
  /\ \A s \in Services : queue[s] = <<>> \/ Cardinality(Busy(s)) = Threads
  /\ \A r \in Requests :
       request[r].state = "served" => ~IsDue(request[r].call, request[r].service)
  /\ check.state # "next"
  /\ check.state = "asking" =>
       request[check.of].state # "answered" /\ check.age < CheckTimeout

Older(q) ==
  CASE q.state = "served" ->
         Served(q.service, q.left, OlderCall(q.call), q.held + 1, q.failed)
    [] q.state = "ended" -> Free
    [] OTHER -> q

Tick ==
  /\ NothingDue
  /\ request' = [r \in Requests |-> Older(request[r])]
  /\ check' = CASE check.state = "asking" -> [check EXCEPT !.age = @ + 1]
                [] check.state = "done" -> Idle
                [] OTHER -> check
  /\ stage' = IF stage = "dead" THEN "probing" ELSE stage
  /\ probe' = CASE stage = "dead" -> Probe(0)
                [] stage = "probing" -> OlderCall(probe)
                [] OTHER -> probe
  /\ silent' \in [Services -> SUBSET Instances]
  /\ trouble' = (trouble \/ \E s \in Services : silent'[s] # {})
  /\ UNCHANGED <<probed, queue, streak>>

Step ==
  \/ ProbeGoesOn \/ ProbeEnds \/ ProbeTimesOut
  \/ \E r \in Clients, s \in Services, n \in 1 .. MaxCalls : Submit(r, s, n)
  \/ \E s \in Services : Take(s)
  \/ \E r \in Requests : Replies(r) \/ TimesOut(r)
  \/ CheckAsks \/ CheckAnswered \/ CheckTimesOut
  \/ Crash

Next == Step \/ Tick

\* A thread runs, a timeout fires, an instance that is not silent replies at
\* once, Docker checks again, and time passes; nobody has to send a request.
Fairness ==
  /\ WF_vars(stage = "probing" /\ Prompt(probe, ProbedService) /\ (ProbeGoesOn \/ ProbeEnds))
  /\ WF_vars(ProbeTimesOut)
  /\ \A s \in Services : WF_vars(Take(s))
  /\ \A r \in Requests : WF_vars(RepliesAtOnce(r)) /\ WF_vars(TimesOut(r))
  /\ WF_vars(CheckAsks \/ CheckAnswered \/ CheckTimesOut)
  /\ WF_vars(Tick)

Spec == Init /\ [][Next]_vars /\ Fairness

-----------------------------------------------------------------------------
(* Properties. *)

\* Every request that was accepted ends: an instance that never replies, a full
\* pool and a long queue only delay it (upstream.py:182-201, __main__.py:83).
EveryRequestEnds ==
  \A r \in Requests : request[r].state = "queued" ~> ~IsOpen(r)

\* No request holds its thread for longer than its calls may take, each of them
\* one connect and one read timeout: nothing is tried twice (upstream.py:161-163).
HoldTime ==
  \A r \in Requests : request[r].state = "served" => request[r].held <= MaxHold

\* The health check fails only where, since a check that went well, an instance was
\* silent, the process was gone, or requests were left open by that check: instances
\* that are down but refuse or answer in time are no failure of the container
\* (healthcheck.py:3-6, 27-28).
FailureHasCause == streak > 0 => trouble

\* A started process listens, however many instances are silent (__main__.py:78-93).
Listens == <>[](stage # "dead") => <>[](stage = "listening")

\* Once the instances reply again, the health checks come to succeed: what they
\* left in the queues and the threads before does not last.
Recovers ==
  <>[](stage = "listening" /\ \A s \in Services : silent[s] = {}) => <>[](streak = 0)

\* What healthcheck.py:3-6 says: an upstream being down does not fail the check
\* of a proxy that is up on every port.
UpstreamNeverFailsCheck == [][streak' > streak => stage # "listening"]_vars
==============================================================================
