--------------------------- MODULE DeadlinesProofs ---------------------------
(***************************************************************************)
(* The deadlines of the process, for any number of requests, threads and   *)
(* services, and any time-outs.                                            *)
(***************************************************************************)
EXTENDS Deadlines, ServingProofs

(* The inductive invariant.                                                 *)

\* The time a call can have taken by now.
Used(c) == (IF c.phase = "read" THEN Connect ELSE 0) + c.age

\* The requests that threads of s took on less than d ticks ago.
Fresh(s, d) == {q \in Busy(s) : request[q].held < d}

\* A request that waited w ticks, past k times MaxHold, and is now the ith instead of
\* the pth: all threads gave k requests back, and some are at the next already.
Paid(s, p, w, i) ==
  \E k \in Nat :
    /\ w <= (k + 1) * MaxHold
    /\ k * Threads + Cardinality(Fresh(s, w - k * MaxHold)) <= p - i

Waits(r) ==
  IsQueued(r) =>
    \E i \in DOMAIN queue[request[r].service] :
      /\ queue[request[r].service][i] = r
      /\ Paid(request[r].service, place[r], waited[r], i)

Clocks ==
  /\ place \in [Requests -> Nat] /\ waited \in [Requests -> Nat]
  /\ probing \in Nat /\ checking \in Nat /\ quiet \in [Services -> Nat]

Starting == stage = "probing" => probing <= probed * (Connect + Read) + Used(probe)

Checked ==
  /\ check.state = "asking" => checking <= (check.nth - 1) * CheckTimeout + check.age
  /\ check.state = "next" => checking <= check.nth * CheckTimeout

\* healthcheck.py waits for the port that it asks.
Addressed ==
  check.state = "asking" /\ IsOpen(check.of) => request[check.of].service = Order[check.nth]

\* A call that has lasted began before its service was quiet, and so did a check.
Calm ==
  /\ \A s \in Services : quiet[s] > 0 => IsQuiet(s)
  /\ \A r \in Requests :
       request[r].state = "served" =>
         request[r].call.age = 0 \/ request[r].call.age > quiet[request[r].service]
  /\ check.state = "asking" => check.age = 0 \/ quiet[Order[check.nth]] < Read

DInv == IInv /\ Clocks /\ (\A r \in Requests : Waits(r)) /\ Starting /\ Checked
        /\ Addressed /\ Calm

-----------------------------------------------------------------------------
(* Sets of requests, and products.                                          *)

LEMMA Finite ==
  ASSUME NEW F \in SUBSET Requests
  PROVE  IsFiniteSet(F) /\ Cardinality(F) \in Nat
BY SlotsAssumption, FS_Subset, FS_CardinalityType DEF Requests

LEMMA Fewer ==
  ASSUME NEW F \in SUBSET Requests, NEW G \in SUBSET F
  PROVE  Cardinality(G) <= Cardinality(F)
BY Finite, FS_Subset

LEMMA OneMore ==
  ASSUME NEW F \in SUBSET Requests, NEW r, NEW G \in SUBSET (F \cup {r}), r \in Requests
  PROVE  Cardinality(G) <= Cardinality(F) + 1
<1>1. IsFiniteSet(F) /\ Cardinality(F) \in Nat /\ F \cup {r} \in SUBSET Requests
  BY Finite
<1>2. Cardinality(F \cup {r}) \in Nat /\ Cardinality(F \cup {r}) <= Cardinality(F) + 1
  <2>1. CASE r \in F
    <3>1. F \cup {r} = F
      BY <2>1
    <3> QED
      BY <1>1, <3>1
  <2>2. CASE r \notin F
    <3>1. Cardinality(F \cup {r}) = Cardinality(F) + 1
      BY <1>1, <2>2, FS_AddElement
    <3> QED
      BY <1>1, <3>1
  <2> QED
    BY <2>1, <2>2
<1>3. Cardinality(G) <= Cardinality(F \cup {r}) /\ Cardinality(G) \in Nat
  BY <1>1, Fewer, Finite
<1> QED
  BY <1>1, <1>2, <1>3

LEMMA Hold == MaxHold \in Nat
BY Times DEF MaxHold

\* The next multiple.
LEMMA NextTime ==
  ASSUME NEW n \in Nat, NEW d \in Nat
  PROVE  /\ n * d \in Nat /\ (n + 1) * d \in Nat
         /\ (n + 1) * d = n * d + d
OBVIOUS

-----------------------------------------------------------------------------
(* What a step does to the slots, the queues and the calls.                 *)

\* A request that is in no queue goes on, or ends.
Proceeds(r) ==
  /\ request[r].state # "queued" /\ request'[r].state # "queued"
  /\ request'[r].state = "served" =>
       /\ request[r].state = "served"
       /\ request'[r].service = request[r].service
       /\ request'[r].held = request[r].held
       /\ request'[r].call.age = 0

Onward ==
  /\ queue' = queue
  /\ \A r \in Requests : request'[r] = request[r] \/ Proceeds(r)

\* One slot changes.
LEMMA OnwardSlot ==
  ASSUME Slots, NEW r \in Requests, NEW x, request' = [request EXCEPT ![r] = x],
         queue' = queue, request[r].state # "queued", x.state # "queued",
         x.state = "served" => /\ request[r].state = "served"
                               /\ x.service = request[r].service
                               /\ x.held = request[r].held
                               /\ x.call.age = 0
  PROVE  Onward
<1>1. \A p \in Requests : request'[p] = IF p = r THEN x ELSE request[p]
  BY DEF Slots
<1>2. Proceeds(r)
  BY <1>1 DEF Proceeds
<1> QED
  BY <1>1, <1>2 DEF Onward

LEMMA ReturnsOnward ==
  ASSUME IInv, NEW r \in Requests, NEW ok \in BOOLEAN, Returns(r, ok)
  PROVE  Onward
<1>1. request[r].state = "served" /\ queue' = queue /\ Slots
  BY DEF Returns, IInv
<1>2. \/ \E i, failed : request' = [request EXCEPT ![r] =
           Served(request[r].service, request[r].left - 1, Call(i), request[r].held, failed)]
      \/ \E failed : request' = [request EXCEPT ![r] = Reply(r, failed)]
  BY Zenon DEF Returns
<1>3. ASSUME NEW i, NEW failed, request' = [request EXCEPT ![r] =
             Served(request[r].service, request[r].left - 1, Call(i), request[r].held, failed)]
      PROVE  Onward
  <2> DEFINE x == Served(request[r].service, request[r].left - 1, Call(i), request[r].held, failed)
  <2>1. /\ x.state = "served" /\ x.service = request[r].service
        /\ x.held = request[r].held /\ x.call = Call(i)
    BY DEF Served
  <2>2. x.call.age = 0
    BY <2>1, NewCall
  <2>3. request' = [request EXCEPT ![r] = x]
    BY <1>3
  <2> HIDE DEF x
  <2> QED
    BY <1>1, <2>1, <2>2, <2>3, OnwardSlot
<1>4. ASSUME NEW failed, request' = [request EXCEPT ![r] = Reply(r, failed)]
      PROVE  Onward
  <2> DEFINE x == Reply(r, failed)
  <2>1. x.state \in {"ended", "answered"}
    BY FineParts DEF Reply
  <2>2. request' = [request EXCEPT ![r] = x]
    BY <1>4
  <2> HIDE DEF x
  <2> QED
    BY <1>1, <2>1, <2>2, OnwardSlot
<1> QED
  BY <1>2, <1>3, <1>4

LEMMA ConnectedOnward ==
  ASSUME IInv, NEW r \in Requests, Connected(r)
  PROVE  Onward
<1> DEFINE x == [request[r] EXCEPT !.call = Reading(@)]
<1>1. /\ request[r].state = "served" /\ queue' = queue /\ Slots
      /\ request[r] = Served(request[r].service, request[r].left, request[r].call,
                             request[r].held, request[r].failed)
  BY DEF Connected, IInv, Slots, Fine, FineServed
<1>2. request' = [request EXCEPT ![r] = x]
  BY DEF Connected
<1>3. /\ x.state = "served" /\ x.service = request[r].service
      /\ x.held = request[r].held /\ x.call = Reading(request[r].call)
  BY <1>1 DEF Served
<1>4. x.call.age = 0
  BY <1>3 DEF Reading
<1> HIDE DEF x
<1> QED
  BY <1>1, <1>2, <1>3, <1>4, OnwardSlot

\* Every step lets a request proceed, puts one in a queue, takes one from a queue,
\* or ends them all.
LEMMA Steps ==
  ASSUME IInv, Step
  PROVE  \/ Onward
         \/ \E r \in Requests, s \in Services, n \in 1 .. MaxCalls :
              request[r] = Free /\ Enqueue(r, s, n)
         \/ \E s \in Services : Take(s)
         \/ Crash
<1>1. CASE ProbeGoesOn \/ ProbeEnds \/ ProbeTimesOut
  BY <1>1 DEF ProbeGoesOn, ProbeTimesOut, ProbeEnds, Onward
<1>2. ASSUME NEW r \in Clients, NEW s \in Services, NEW n \in 1 .. MaxCalls, Submit(r, s, n)
      PROVE  request[r] = Free /\ Enqueue(r, s, n) /\ r \in Requests
  BY <1>2 DEF Submit, Requests
<1>3. ASSUME NEW r \in Requests, Replies(r) \/ TimesOut(r) PROVE Onward
  <2>1. Connected(r) \/ Returns(r, TRUE) \/ Returns(r, FALSE)
    BY <1>3 DEF Replies, TimesOut
  <2> QED
    BY <2>1, ReturnsOnward, ConnectedOnward
<1>4. ASSUME NEW n \in 1 .. Len(Order), AsksPort(n)
      PROVE  \/ Onward
             \/ \E r \in Requests, s \in Services, m \in 1 .. MaxCalls :
                  request[r] = Free /\ Enqueue(r, s, m)
  <2>1. CASE stage = "probing" /\ CheckEnds(FALSE) /\ UNCHANGED <<request, queue>>
    BY <2>1 DEF Onward
  <2>2. ASSUME NEW r \in Checks, request[r] = Free, Enqueue(r, Order[n], 2)
        PROVE  r \in Requests /\ Order[n] \in Services /\ 2 \in 1 .. MaxCalls
    BY Ports, Times DEF Requests
  <2> QED
    BY <1>4, <2>1, <2>2 DEF AsksPort
<1>5. CASE CheckAsks
  BY <1>4, <1>5, AsksNext DEF CheckAsks
<1>6. CASE CheckAnswered \/ CheckTimesOut
  <2>1. queue' = queue /\ Slots /\ check.of \in Requests
    BY <1>6 DEF CheckAnswered, CheckTimesOut, IInv, Checking, Requests
  <2>2. \/ request' = request
        \/ /\ request[check.of].state = "answered"
           /\ \E x \in {Free, Ended} : request' = [request EXCEPT ![check.of] = x]
    BY <1>6 DEF CheckAnswered, CheckTimesOut
  <2>3. \A x \in {Free, Ended} : x.state # "queued" /\ x.state # "served"
    BY FineParts
  <2> QED
    BY <2>1, <2>2, <2>3, OnwardSlot DEF Onward
<1> QED
  BY <1>1, <1>2, <1>3, <1>5, <1>6 DEF Step

-----------------------------------------------------------------------------
(* Who waits, and for how long.                                             *)

\* The clocks of a request that stays in its queue.
LEMMA StillQueued ==
  ASSUME NEW ticks, Recorded(ticks), NEW r \in Requests, IsQueued(r), IsQueued(r)'
  PROVE  place'[r] = place[r] /\ waited'[r] = waited[r] + ticks
BY DEF Recorded

LEMMA NewlyQueued ==
  ASSUME NEW ticks, Recorded(ticks), NEW r \in Requests, ~IsQueued(r), IsQueued(r)'
  PROVE  place'[r] = Len(queue'[request'[r].service]) /\ waited'[r] = 0
BY DEF Recorded

\* A queued request is somewhere in the queue of its service.
LEMMA Somewhere ==
  ASSUME IInv, NEW r \in Requests, IsQueued(r)
  PROVE  /\ request[r].service \in Services
         /\ queue[request[r].service] # <<>>
         /\ queue[request[r].service] \in Seq(Requests)
         /\ DOMAIN queue[request[r].service] = 1 .. Len(queue[request[r].service])
         /\ Len(queue[request[r].service]) \in Nat
<1> DEFINE s == request[r].service
<1>1. s \in Services /\ queue[s] \in Seq(Requests)
  BY DEF IInv, Slots, Fine, Queues, IsQueued
<1>2. r \in ToSet(queue[s])
  BY <1>1 DEF IInv, Queues, Waiting, IsQueued
<1>3. queue[s] # <<>>
  BY <1>2 DEF ToSet
<1> QED
  BY <1>1, <1>3

\* What was paid for stays so, as long as no more are fresh than have moved on.
LEMMA StaysPaid ==
  ASSUME NEW s, NEW p \in Nat, NEW w \in Nat, NEW i \in Nat, Paid(s, p, w, i),
         \A d \in Int : Fresh(s, d)' \subseteq Fresh(s, d)
  PROVE  Paid(s, p, w, i)'
<1>1. PICK k \in Nat :
        /\ w <= (k + 1) * MaxHold
        /\ k * Threads + Cardinality(Fresh(s, w - k * MaxHold)) <= p - i
  BY DEF Paid
<1> DEFINE d == w - k * MaxHold
<1>2. d \in Int /\ k * Threads \in Nat
  BY Hold, Times, NextTime
<1> HIDE DEF d
<1>3. Fresh(s, d) \in SUBSET Requests /\ Fresh(s, d)' \in SUBSET Fresh(s, d)
      /\ Fresh(s, d)' \in SUBSET Requests
  BY <1>2 DEF Fresh, Busy
<1>4. /\ Cardinality(Fresh(s, d)') <= Cardinality(Fresh(s, d))
      /\ Cardinality(Fresh(s, d)') \in Nat /\ Cardinality(Fresh(s, d)) \in Nat
  BY <1>3, Fewer, Finite
<1>5. k * Threads + Cardinality(Fresh(s, d)') <= p - i
  BY <1>1, <1>2, <1>4 DEF d
<1> QED
  BY <1>1, <1>5 DEF Paid, d

\* Nobody in the queue moves.
LEMMA WaitsOn ==
  ASSUME IInv, Clocks, Recorded(0), NEW r \in Requests, Waits(r),
         IsQueued(r), IsQueued(r)', request'[r].service = request[r].service,
         \A i \in DOMAIN queue[request[r].service] :
           /\ i \in DOMAIN queue'[request[r].service]
           /\ queue'[request[r].service][i] = queue[request[r].service][i],
         \A q \in Requests :
           request'[q].state = "served" /\ request'[q].service = request[r].service =>
             /\ request[q].state = "served"
             /\ request'[q].service = request[q].service
             /\ request'[q].held = request[q].held
  PROVE  Waits(r)'
<1>1. PICK s \in Services, p \in Nat, w \in Nat :
        s = request[r].service /\ p = place[r] /\ w = waited[r]
  BY Somewhere DEF Clocks
<1>2. place'[r] = p /\ waited'[r] = w /\ request'[r].service = s
  BY <1>1, StillQueued
<1>3. PICK i \in DOMAIN queue[s] : queue[s][i] = r /\ Paid(s, p, w, i)
  BY <1>1 DEF Waits
<1>4. i \in Nat
  BY <1>1, <1>3, Somewhere
<1>5. \A d \in Int : Fresh(s, d)' \subseteq Fresh(s, d)
  BY <1>1 DEF Fresh, Busy
<1>6. Paid(s, p, w, i)'
  BY <1>3, <1>4, <1>5, StaysPaid
<1>7. i \in DOMAIN queue'[s] /\ queue'[s][i] = r
  BY <1>1, <1>3
<1> QED
  BY <1>2, <1>6, <1>7 DEF Waits

\* A request joins a queue: it owes nothing yet.
LEMMA JoinsQueue ==
  ASSUME IInv, IInv', Clocks, Recorded(0), \A r \in Requests : Waits(r),
         NEW p \in Requests, NEW s \in Services, NEW n \in 1 .. MaxCalls,
         request[p] = Free, Enqueue(p, s, n), NEW r \in Requests
  PROVE  Waits(r)'
<1>1. /\ request'[p] = Queued(s, n)
      /\ request'[p].state = "queued" /\ request'[p].service = s
      /\ request[p].state = "free"
      /\ \A q \in Requests : q # p => request'[q] = request[q]
  BY EnqueueKeeps, FineParts DEF IInv
<1>2. /\ \A t \in Services : t # s => queue'[t] = queue[t]
      /\ queue'[s] = Append(queue[s], p) /\ queue[s] \in Seq(Requests)
  BY DEF Enqueue, IInv, Queues
<1>3. /\ Len(queue'[s]) = Len(queue[s]) + 1 /\ Len(queue[s]) \in Nat
      /\ DOMAIN queue[s] = 1 .. Len(queue[s]) /\ DOMAIN queue'[s] = 1 .. Len(queue[s]) + 1
      /\ \A i \in 1 .. Len(queue[s]) : queue'[s][i] = queue[s][i]
      /\ queue'[s][Len(queue[s]) + 1] = p
  BY <1>2
<1>4. CASE r = p
  <2>1. place'[r] = Len(queue'[s]) /\ waited'[r] = 0
    BY <1>1, <1>4, NewlyQueued DEF IsQueued
  <2>2. PICK i \in Nat : i = Len(queue[s]) + 1
    BY <1>3
  <2>3. Paid(s, i, 0, i)'
    <3>1. Fresh(s, 0)' = {}
      BY DEF IInv, Slots, Fine, FineServed, Fresh, Busy
    <3>2. Cardinality(Fresh(s, 0)') = 0
      BY <3>1, FS_EmptySet
    <3>3. 0 <= (0 + 1) * MaxHold /\ 0 - 0 * MaxHold = 0 /\ 0 * Threads = 0
      BY Hold, Times
    <3>4. 0 * Threads + Cardinality(Fresh(s, 0 - 0 * MaxHold)') <= i - i
      BY <3>2, <3>3
    <3> QED
      BY <3>3, <3>4 DEF Paid
  <2> QED
    BY <1>1, <1>3, <1>4, <2>1, <2>2, <2>3 DEF Waits
<1>5. CASE r # p
  <2> SUFFICES ASSUME IsQueued(r)' PROVE Waits(r)'
    BY DEF Waits
  <2>1. request'[r] = request[r] /\ IsQueued(r) /\ request[r].service \in Services
    BY <1>1, <1>5, Somewhere DEF IsQueued
  <2>2. \A i \in DOMAIN queue[request[r].service] :
          /\ i \in DOMAIN queue'[request[r].service]
          /\ queue'[request[r].service][i] = queue[request[r].service][i]
    BY <1>2, <1>3, <2>1
  <2>3. \A q \in Requests :
          request'[q].state = "served" =>
            /\ request[q].state = "served"
            /\ request'[q].service = request[q].service
            /\ request'[q].held = request[q].held
    BY <1>1
  <2> QED
    BY <2>1, <2>2, <2>3, WaitsOn
<1> QED
  BY <1>4, <1>5

\* A thread takes the first off a queue: the others are one place further.
LEMMA LeavesQueue ==
  ASSUME IInv, Clocks, Recorded(0), \A r \in Requests : Waits(r),
         NEW s \in Services, Take(s), NEW r \in Requests
  PROVE  Waits(r)'
<1> SUFFICES ASSUME IsQueued(r)' PROVE Waits(r)'
  BY DEF Waits
<1> DEFINE h == Head(queue[s])
<1>1. /\ queue[s] # <<>> /\ queue[s] \in Seq(Requests) /\ h \in Requests
      /\ queue' = [queue EXCEPT ![s] = Tail(queue[s])]
  BY DEF Take, IInv, Queues
<1>2. /\ request'[h].state = "served" /\ request'[h].service = s
      /\ \A q \in Requests : q # h => request'[q] = request[q]
  <2>1. PICK i : request' = [request EXCEPT ![h] = Served(s, request[h].left, Call(i), 0, FALSE)]
    BY DEF Take
  <2> DEFINE x == Served(s, request[h].left, Call(i), 0, FALSE)
  <2>2. x.state = "served" /\ x.service = s /\ request' = [request EXCEPT ![h] = x]
    BY <2>1 DEF Served
  <2> HIDE DEF x, h
  <2> QED
    BY <1>1, <2>2 DEF IInv, Slots
<1>h. h = queue[s][1]
  BY <1>1
<1> HIDE DEF h
<1>3. r # h /\ request'[r] = request[r] /\ IsQueued(r)
  BY <1>2 DEF IsQueued
<1>4. request[r].service \in Services
  BY <1>3, Somewhere
<1>5. CASE request[r].service # s
  <2>1. queue'[request[r].service] = queue[request[r].service]
    BY <1>1, <1>4, <1>5 DEF IInv, Queues
  <2>2. \A q \in Requests :
          request'[q].state = "served" /\ request'[q].service = request[r].service =>
            request'[q] = request[q]
    BY <1>2, <1>5
  <2> QED
    BY <1>3, <2>1, <2>2, WaitsOn
<1>6. CASE request[r].service = s
  <2>1. PICK p \in Nat, w \in Nat : p = place[r] /\ w = waited[r]
    BY DEF Clocks
  <2>2. place'[r] = p /\ waited'[r] = w /\ request'[r].service = s
    BY <1>3, <1>6, <2>1, StillQueued
  <2>3. PICK i \in DOMAIN queue[s] : queue[s][i] = r /\ Paid(s, p, w, i)
    BY <1>3, <1>6, <2>1 DEF Waits
  <2>4. i \in 1 .. Len(queue[s]) /\ i # 1 /\ Len(queue[s]) \in Nat
    BY <1>1, <1>h, <1>3, <2>3
  <2>5. queue'[s] = Tail(queue[s])
    BY <1>1 DEF IInv, Queues
  <2>6. PICK j \in Nat : j = i - 1 /\ j \in DOMAIN queue'[s] /\ queue'[s][j] = r
    <3>1. i - 1 \in Nat /\ i - 1 \in 1 .. Len(queue[s]) - 1 /\ (i - 1) + 1 = i
      BY <2>4
    <3>2. /\ DOMAIN Tail(queue[s]) = 1 .. Len(queue[s]) - 1
          /\ \A m \in 1 .. Len(queue[s]) - 1 : Tail(queue[s])[m] = queue[s][m + 1]
      BY <1>1
    <3>3. Tail(queue[s])[i - 1] = r
      BY <2>3, <3>1, <3>2
    <3> QED
      BY <2>5, <3>1, <3>2, <3>3
  <2>7. PICK k \in Nat :
          /\ w <= (k + 1) * MaxHold
          /\ k * Threads + Cardinality(Fresh(s, w - k * MaxHold)) <= p - i
    BY <2>3 DEF Paid
  <2>8. PICK d \in Int : d = w - k * MaxHold
    BY Hold, NextTime
  <2>9. /\ Fresh(s, d) \in SUBSET Requests
        /\ Fresh(s, d)' \in SUBSET (Fresh(s, d) \cup {h})
        /\ Fresh(s, d)' \in SUBSET Requests
    BY <1>2 DEF Fresh, Busy
  <2>10. /\ Cardinality(Fresh(s, d)') <= Cardinality(Fresh(s, d)) + 1
         /\ Cardinality(Fresh(s, d)') \in Nat /\ Cardinality(Fresh(s, d)) \in Nat
    BY <2>9, OneMore, Finite
  <2>11. k * Threads + Cardinality(Fresh(s, d)') <= p - j
    <3>1. k * Threads \in Nat
      BY Times, NextTime
    <3>2. k * Threads + Cardinality(Fresh(s, d)) <= p - i /\ i \in Nat
      BY <2>4, <2>7, <2>8
    <3> QED
      BY <2>6, <2>10, <3>1, <3>2
  <2>12. Paid(s, p, w, j)'
    BY <2>7, <2>8, <2>11 DEF Paid
  <2> QED
    BY <2>2, <2>6, <2>12 DEF Waits
<1> QED
  BY <1>5, <1>6

\* A tick passes: all threads of the service are held, and none for too long.
LEMMA WaitsLonger ==
  ASSUME IInv, IInv', Clocks, Tick, Recorded(1), NEW r \in Requests, Waits(r)
  PROVE  Waits(r)'
<1> SUFFICES ASSUME IsQueued(r)' PROVE Waits(r)'
  BY DEF Waits
<1>1. \A q \in Requests :
        /\ request[q].state = "served" <=> request'[q].state = "served"
        /\ request[q].state = "served" =>
             /\ request'[q].service = request[q].service
             /\ request'[q].held = request[q].held + 1
             /\ request[q].held \in Nat /\ request'[q].held <= MaxHold
        /\ request[q].state # "served" /\ request'[q].state = "queued" =>
             request'[q] = request[q]
  <2> SUFFICES ASSUME NEW q \in Requests
               PROVE  /\ request[q].state = "served" <=> request'[q].state = "served"
                      /\ request[q].state = "served" =>
                           /\ request'[q].service = request[q].service
                           /\ request'[q].held = request[q].held + 1
                           /\ request[q].held \in Nat /\ request'[q].held <= MaxHold
                      /\ request[q].state # "served" /\ request'[q].state = "queued" =>
                           request'[q] = request[q]
    OBVIOUS
  <2>1. request'[q] = Older(request[q])
    BY TickParts
  <2>2. CASE request[q].state = "served"
    <3>1. request'[q] = Served(request[q].service, request[q].left, OlderCall(request[q].call),
                               request[q].held + 1, request[q].failed)
      BY <2>1, <2>2, Zenon DEF Older
    <3>2. /\ request'[q].state = "served" /\ request'[q].service = request[q].service
          /\ request'[q].held = request[q].held + 1
      BY <3>1, ServedParts
    <3>3. request[q].held \in Nat
      BY <2>2 DEF IInv, Slots, Fine, FineServed
    <3>4. FineServed(request'[q])
      BY <3>2 DEF IInv, Slots, Fine
    <3>5. request'[q].held <= MaxHold
      BY <3>4, SpentBound
    <3> QED
      BY <2>2, <3>2, <3>3, <3>5
  <2>3. CASE request[q].state = "ended"
    <3>1. request'[q] = Free
      BY <2>1, <2>3, Zenon DEF Older
    <3> QED
      BY <2>3, <3>1, FineParts
  <2>4. CASE request[q].state \notin {"served", "ended"}
    <3>1. request'[q] = request[q]
      BY <2>1, <2>4, Zenon DEF Older
    <3> QED
      BY <2>4, <3>1
  <2> QED
    BY <2>2, <2>3, <2>4
<1>2. IsQueued(r) /\ request'[r] = request[r]
  BY <1>1 DEF IsQueued
<1>3. PICK s \in Services, p \in Nat, w \in Nat :
        s = request[r].service /\ p = place[r] /\ w = waited[r]
  BY <1>2, Somewhere DEF Clocks
<1>4. place'[r] = p /\ waited'[r] = w + 1 /\ request'[r].service = s /\ queue' = queue
  BY <1>2, <1>3, StillQueued, TickParts
<1>5. PICK i \in DOMAIN queue[s] : queue[s][i] = r /\ Paid(s, p, w, i)
  BY <1>2, <1>3 DEF Waits
<1>6. i \in Nat /\ queue[s] # <<>>
  BY <1>2, <1>3, <1>5, Somewhere
<1>7. PICK k \in Nat :
        /\ w <= (k + 1) * MaxHold
        /\ k * Threads + Cardinality(Fresh(s, w - k * MaxHold)) <= p - i
  BY <1>5 DEF Paid
<1>8. /\ k * MaxHold \in Nat /\ (k + 1) * MaxHold \in Nat /\ (k + 1) * MaxHold = k * MaxHold + MaxHold
      /\ k * Threads \in Nat /\ (k + 1) * Threads = k * Threads + Threads
      /\ ((k + 1) + 1) * MaxHold = (k + 1) * MaxHold + MaxHold
      /\ MaxHold \in Nat /\ Threads \in Nat
  BY Hold, Times, NextTime
<1>9. CASE w < (k + 1) * MaxHold
  <2>1. PICK d \in Int, e \in Int : d = w - k * MaxHold /\ e = (w + 1) - k * MaxHold /\ e = d + 1
    BY <1>8
  <2>2. Fresh(s, e)' = Fresh(s, d)
    BY <1>1, <2>1 DEF Fresh, Busy
  <2>3. w + 1 <= (k + 1) * MaxHold
    BY <1>8, <1>9
  <2>4. k * Threads + Cardinality(Fresh(s, e)') <= p - i
    BY <1>7, <2>1, <2>2
  <2>5. Paid(s, p, w + 1, i)'
    BY <2>1, <2>3, <2>4 DEF Paid
  <2> QED
    BY <1>4, <1>5, <2>5 DEF Waits
<1>10. CASE w = (k + 1) * MaxHold
  <2>1. Cardinality(Busy(s)) = Threads
    BY <1>6, TickParts DEF NothingDue
  <2>2. Fresh(s, w - k * MaxHold) = Busy(s)
    <3>1. w - k * MaxHold = MaxHold
      BY <1>8, <1>10
    <3>2. \A q \in Busy(s) : request[q].held < MaxHold
      BY <1>1, <1>8 DEF Busy
    <3> QED
      BY <3>1, <3>2 DEF Fresh
  <2>3. (k + 1) * Threads <= p - i
    BY <1>7, <1>8, <2>1, <2>2
  <2>4. (w + 1) - (k + 1) * MaxHold = 1
    BY <1>8, <1>10
  <2>5. Fresh(s, 1)' = {}
    BY <1>1 DEF Fresh, Busy
  <2>6. Cardinality(Fresh(s, (w + 1) - (k + 1) * MaxHold)') = 0
    BY <2>4, <2>5, FS_EmptySet
  <2>7. w + 1 <= ((k + 1) + 1) * MaxHold
    <3>1. MaxHold >= 1
      BY Times DEF MaxHold
    <3> QED
      BY <1>8, <1>10, <3>1
  <2>8. PICK m \in Nat : m = k + 1
    OBVIOUS
  <2>9. m * Threads + Cardinality(Fresh(s, (w + 1) - m * MaxHold)') <= p - i
    BY <1>6, <1>8, <2>3, <2>6, <2>8
  <2>10. Paid(s, p, w + 1, i)'
    BY <2>7, <2>8, <2>9 DEF Paid
  <2> QED
    BY <1>4, <1>5, <2>10 DEF Waits
<1> QED
  BY <1>7, <1>8, <1>9, <1>10

LEMMA WaitsStep ==
  ASSUME IInv, IInv', Clocks, \A r \in Requests : Waits(r), Step, Recorded(0)
  PROVE  \A r \in Requests : Waits(r)'
<1> SUFFICES ASSUME NEW r \in Requests PROVE Waits(r)'
  OBVIOUS
<1>1. CASE Onward
  <2> SUFFICES ASSUME IsQueued(r)' PROVE Waits(r)'
    BY DEF Waits
  <2>1. request'[r] = request[r] /\ IsQueued(r)
    BY <1>1 DEF Onward, Proceeds, IsQueued
  <2>2. \A q \in Requests :
          request'[q].state = "served" =>
            /\ request[q].state = "served"
            /\ request'[q].service = request[q].service
            /\ request'[q].held = request[q].held
    BY <1>1 DEF Onward, Proceeds
  <2>3. queue' = queue
    BY <1>1 DEF Onward
  <2> QED
    BY <2>1, <2>2, <2>3, WaitsOn
<1>2. ASSUME NEW p \in Requests, NEW s \in Services, NEW n \in 1 .. MaxCalls,
             request[p] = Free, Enqueue(p, s, n)
      PROVE  Waits(r)'
  BY <1>2, JoinsQueue
<1>3. ASSUME NEW s \in Services, Take(s) PROVE Waits(r)'
  BY <1>3, LeavesQueue
<1>4. CASE Crash
  BY <1>4, FineParts DEF Crash, Waits, IsQueued
<1> QED
  BY <1>1, <1>2, <1>3, <1>4, Steps

-----------------------------------------------------------------------------
(* The clocks.                                                              *)

LEMMA ClocksStep ==
  ASSUME IInv', Clocks, NEW ticks \in Nat, Recorded(ticks)
  PROVE  Clocks'
<1>1. ASSUME NEW r \in Requests, IsQueued(r)' PROVE Len(queue'[request'[r].service]) \in Nat
  <2>1. request'[r].service \in Services
    BY <1>1 DEF IInv, Slots, Fine, IsQueued
  <2>2. queue'[request'[r].service] \in Seq(Requests)
    BY <2>1 DEF IInv, Queues
  <2> QED
    BY <2>2
<1>2. place' \in [Requests -> Nat]
  BY <1>1 DEF Recorded, Clocks
<1>3. waited' \in [Requests -> Nat]
  BY DEF Recorded, Clocks
<1>4. probing' \in Nat
  BY DEF Recorded, Clocks
<1>5. checking' \in Nat
  BY DEF Recorded, Clocks
<1>6. quiet' \in [Services -> Nat]
  BY DEF Recorded, Clocks
<1> QED
  BY <1>2, <1>3, <1>4, <1>5, <1>6 DEF Clocks

\* Only the probes, and a crash, change the stage.
LEMMA StageSteps ==
  ASSUME Step
  PROVE  ProbeGoesOn \/ ProbeEnds \/ stage' = "dead" \/ UNCHANGED <<stage, probed, probe>>
<1>1. ASSUME NEW r \in Requests, NEW ok \in BOOLEAN, Returns(r, ok)
      PROVE  UNCHANGED <<stage, probed, probe>>
  BY <1>1, Zenon DEF Returns
<1>2. ASSUME NEW r \in Requests, Replies(r) \/ TimesOut(r)
      PROVE  UNCHANGED <<stage, probed, probe>>
  BY <1>1, <1>2 DEF Replies, TimesOut, Connected
<1>3. CASE CheckAsks \/ CheckAnswered \/ CheckTimesOut
  BY <1>3 DEF CheckAsks, CheckAnswered, CheckTimesOut
<1>4. ASSUME NEW s \in Services, Take(s) PROVE UNCHANGED <<stage, probed, probe>>
  BY <1>4 DEF Take
<1>5. ASSUME NEW r \in Clients, NEW s \in Services, NEW n \in 1 .. MaxCalls, Submit(r, s, n)
      PROVE  UNCHANGED <<stage, probed, probe>>
  BY <1>5 DEF Submit
<1>6. CASE Crash
  BY <1>6 DEF Crash
<1> QED
  BY <1>2, <1>3, <1>4, <1>5, <1>6 DEF Step, ProbeTimesOut

LEMMA StartingStep ==
  ASSUME IInv, Clocks, Starting, Step, Recorded(0)
  PROVE  Starting'
<1> DEFINE D == Connect + Read
<1> SUFFICES ASSUME stage' = "probing" PROVE probing' <= probed' * D + Used(probe')
  BY DEF Starting, Used
<1>1. /\ stage = "probing" => probing' = probing /\ probing <= probed * D + Used(probe)
      /\ probing \in Nat /\ probed \in Nat /\ D \in Nat /\ Connect \in Nat /\ Read \in Nat
  BY Times, Ports DEF Recorded, Starting, Clocks, IInv, Stages
<1>2. CASE ProbeGoesOn
  <2>1. /\ stage = "probing" /\ probe.phase = "connect" /\ FineCall(probe)
        /\ probe' = Reading(probe) /\ probed' = probed
    BY <1>2 DEF ProbeGoesOn, IInv, Stages
  <2>2. Reading(probe).age = 0 /\ Reading(probe).phase = "read"
    BY <2>1, CallConnected
  <2>3. Used(probe) = probe.age /\ probe.age \in Nat /\ probe.age <= Connect
    BY <2>1 DEF Used, FineCall, Budget
  <2>4. Used(probe') = Connect
    BY <1>1, <2>1, <2>2 DEF Used
  <2>5. probed * D \in Nat
    BY <1>1
  <2> QED
    BY <1>1, <2>1, <2>3, <2>4, <2>5
<1>3. CASE ProbeEnds
  <2>1. /\ stage = "probing" /\ FineCall(probe) /\ probed' = probed + 1
        /\ probe' = Probe(probed + 1)
    BY <1>3 DEF ProbeEnds, IInv, Stages
  <2>2. probe'.age = 0 /\ probe'.phase = "connect"
    BY <2>1, NewCall DEF Probe
  <2>3. Used(probe) \in Nat /\ Used(probe) <= D
    BY <2>1, CallSpent DEF Used
  <2>4. Used(probe') = 0
    BY <2>2 DEF Used
  <2>5. probed * D \in Nat /\ (probed + 1) * D = probed * D + D
    BY <1>1, NextTime
  <2> QED
    BY <1>1, <2>1, <2>3, <2>4, <2>5
<1>4. CASE UNCHANGED <<stage, probed, probe>>
  BY <1>1, <1>4
<1> QED
  BY <1>2, <1>3, <1>4, StageSteps

LEMMA StartingTick ==
  ASSUME IInv, Clocks, Starting, Tick, Recorded(1)
  PROVE  Starting'
<1> DEFINE D == Connect + Read
<1> SUFFICES ASSUME stage' = "probing" PROVE probing' <= probed' * D + Used(probe')
  BY DEF Starting, Used
<1>1. /\ probing \in Nat /\ probed \in Nat /\ D \in Nat /\ Connect \in Nat
      /\ probed * D \in Nat /\ probed' = probed
  <2>1. probing \in Nat /\ probed \in Nat
    BY Ports DEF Clocks, IInv, Stages
  <2>2. D \in Nat /\ Connect \in Nat
    BY Times
  <2>3. probed * D \in Nat
    BY <2>1, <2>2, NextTime
  <2>4. probed' = probed
    BY TickParts
  <2> QED
    BY <2>1, <2>2, <2>3, <2>4
<1>2. CASE stage = "dead"
  <2>1. probe'.age = 0 /\ probe'.phase = "connect"
    BY <1>2, TickParts, NewCall DEF Probe
  <2>2. Used(probe') = 0
    BY <2>1 DEF Used
  <2>3. probing' = 0
    BY <1>2 DEF Recorded
  <2> QED
    BY <1>1, <2>2, <2>3
<1>3. CASE stage = "probing"
  <2>1. FineCall(probe) /\ probe.age # Budget(probe) /\ probe' = OlderCall(probe)
    BY <1>3, TickParts DEF IInv, Stages, NothingDue, IsDue
  <2>2. probe'.age = probe.age + 1 /\ probe'.phase = probe.phase /\ probe.age \in Nat
    BY <2>1, CallOlder DEF FineCall
  <2>3. Used(probe') = Used(probe) + 1 /\ Used(probe) \in Nat
    BY <1>1, <2>2 DEF Used
  <2>4. probing' = probing + 1 /\ probing <= probed * D + Used(probe)
    BY <1>3 DEF Recorded, Starting
  <2> QED
    BY <1>1, <2>3, <2>4
<1>4. stage # "listening"
  BY TickParts
<1> QED
  BY <1>2, <1>3, <1>4 DEF IInv, Stages

\* healthcheck.py asks its nth port.
Begins(n, r) == check' = Asking(n, r, 0) /\ request'[r].service = Order[n]

\* It begins with a port, goes on to the next, or ends.
LEMMA CheckSteps ==
  ASSUME IInv, Step
  PROVE  \/ check' = check
         \/ check.state = "idle" /\ \E r \in Checks : Begins(1, r)
         \/ check.state = "next" /\ \E r \in Checks : Begins(check.nth + 1, r)
         \/ check.state = "asking" /\ check' = [check EXCEPT !.state = "next"]
         \/ check' = Done
<1>1. ASSUME NEW r \in Requests, NEW ok \in BOOLEAN, Returns(r, ok)
      PROVE  check' = check
  BY <1>1, Zenon DEF Returns
<1>2. ASSUME NEW r \in Requests, Replies(r) \/ TimesOut(r)
      PROVE  check' = check
  BY <1>1, <1>2 DEF Replies, TimesOut, Connected
<1>3. ASSUME NEW n, AsksPort(n)
      PROVE  check' = Done \/ \E r \in Checks : Begins(n, r)
  <2>1. ASSUME NEW r \in Checks, Enqueue(r, Order[n], 2) PROVE request'[r].service = Order[n]
    <3>1. request'[r] = Queued(Order[n], 2)
      BY <2>1 DEF Enqueue, IInv, Slots, Requests
    <3> QED
      BY <3>1, FineParts
  <2> QED
    BY <1>3, <2>1 DEF AsksPort, CheckEnds, Begins
<1>4. CASE CheckAsks
  <2>1. check' = Done \/ \E r \in Checks : Begins(NextPort, r)
    BY <1>3, <1>4 DEF CheckAsks
  <2> QED
    BY <1>4, <2>1, AsksNext
<1>5. CASE CheckAnswered
  BY <1>5 DEF CheckAnswered, CheckEnds
<1>6. CASE CheckTimesOut \/ Crash
  BY <1>6 DEF CheckTimesOut, CheckEnds, Crash
<1>7. CASE ProbeGoesOn \/ ProbeEnds \/ ProbeTimesOut
  BY <1>7 DEF ProbeGoesOn, ProbeEnds, ProbeTimesOut
<1>8. ASSUME NEW s \in Services, Take(s) PROVE check' = check
  BY <1>8 DEF Take
<1>9. ASSUME NEW r \in Clients, NEW s \in Services, NEW n \in 1 .. MaxCalls, Submit(r, s, n)
      PROVE  check' = check
  BY <1>9 DEF Submit
<1> QED
  BY <1>2, <1>4, <1>5, <1>6, <1>7, <1>8, <1>9 DEF Step

LEMMA CheckedStep ==
  ASSUME IInv, Clocks, Checked, Step, Recorded(0)
  PROVE  Checked'
<1>1. /\ CheckRuns /\ CheckRuns' => checking' = checking
      /\ ~CheckRuns => checking' = 0
      /\ checking \in Nat /\ CheckTimeout \in Nat
  BY Times DEF Recorded, Clocks
<1>2. CASE check' = check
  BY <1>1, <1>2 DEF Checked, CheckRuns
<1>3. ASSUME NEW r \in Checks, check.state = "idle", Begins(1, r)
      PROVE  Checked'
  <2>1. check'.state = "asking" /\ check'.nth = 1 /\ check'.age = 0 /\ checking' = 0
    BY <1>1, <1>3 DEF Begins, Asking, CheckRuns
  <2> QED
    BY <1>1, <2>1 DEF Checked
<1>4. ASSUME NEW r \in Checks, check.state = "next", Begins(check.nth + 1, r)
      PROVE  Checked'
  <2>1. /\ check'.state = "asking" /\ check'.nth = check.nth + 1 /\ check'.age = 0
        /\ checking' = checking /\ check.nth \in Nat
    BY <1>1, <1>4, Ports DEF Begins, Asking, CheckRuns, IInv, Checking
  <2>2. checking <= check.nth * CheckTimeout /\ check.nth * CheckTimeout \in Nat
    BY <1>1, <1>4, <2>1, NextTime DEF Checked
  <2>3. check'.nth - 1 = check.nth
    BY <2>1
  <2> QED
    BY <2>1, <2>2, <2>3 DEF Checked
<1>5. CASE check.state = "asking" /\ check' = [check EXCEPT !.state = "next"]
  <2>1. /\ check'.state = "next" /\ check'.nth = check.nth /\ checking' = checking
        /\ check.nth \in Nat \ {0} /\ check.age \in Nat /\ check.age <= CheckTimeout
    BY <1>1, <1>5, Ports DEF Asking, CheckRuns, IInv, Checking
  <2>2. PICK m \in Nat : m = check.nth - 1 /\ check.nth = m + 1
    BY <2>1
  <2>3. m * CheckTimeout \in Nat /\ check.nth * CheckTimeout = m * CheckTimeout + CheckTimeout
    BY <1>1, <2>2, NextTime
  <2>4. checking <= m * CheckTimeout + check.age
    BY <1>5, <2>2 DEF Checked
  <2> QED
    BY <1>1, <2>1, <2>3, <2>4 DEF Checked
<1>6. CASE check' = Done
  BY <1>6 DEF Checked, Done
<1> QED
  BY <1>2, <1>3, <1>4, <1>5, <1>6, CheckSteps

LEMMA CheckedTick ==
  ASSUME IInv, Clocks, Checked, Tick, Recorded(1)
  PROVE  Checked'
<1>1. CASE check.state = "asking"
  <2>1. /\ check = Asking(check.nth, check.of, check.age) /\ check.age \in Nat
        /\ check' = [check EXCEPT !.age = @ + 1] /\ check.nth \in Nat \ {0}
    BY <1>1, TickParts, Times, Ports DEF IInv, Checking
  <2>2. check'.state = "asking" /\ check'.nth = check.nth /\ check'.age = check.age + 1
    BY <2>1 DEF Asking
  <2>3. checking' = checking + 1 /\ checking \in Nat
    BY <1>1, <2>2 DEF Recorded, CheckRuns, Clocks
  <2>4. PICK m \in Nat : m = check.nth - 1
    BY <2>1
  <2>5. m * CheckTimeout \in Nat /\ checking <= m * CheckTimeout + check.age
    BY <1>1, <2>4, Times, NextTime DEF Checked
  <2>6. checking' <= m * CheckTimeout + check'.age
    BY <2>1, <2>2, <2>3, <2>5
  <2> QED
    BY <2>2, <2>4, <2>6 DEF Checked
<1>2. CASE check.state = "done"
  BY <1>2, TickParts DEF Checked, Idle
<1>3. CASE check.state \notin {"asking", "done"}
  BY <1>3, TickParts DEF IInv, Checking, Checked, NothingDue
<1> QED
  BY <1>1, <1>2, <1>3

\* A step begins calls, and lets none grow older.
LEMMA CallSteps ==
  ASSUME IInv, Step, NEW r \in Requests, request'[r].state = "served"
  PROVE  request'[r].call.age = 0 \/ request'[r] = request[r]
<1>1. CASE Onward
  BY <1>1 DEF Onward, Proceeds
<1>2. ASSUME NEW p \in Requests, NEW s \in Services, NEW n \in 1 .. MaxCalls,
             request[p] = Free, Enqueue(p, s, n)
      PROVE  request'[r] = request[r]
  <2>1. /\ request'[p].state = "queued"
        /\ \A q \in Requests : q # p => request'[q] = request[q]
    BY <1>2, EnqueueKeeps, FineParts DEF IInv
  <2> QED
    BY <2>1
<1>3. ASSUME NEW s \in Services, Take(s)
      PROVE  request'[r].call.age = 0 \/ request'[r] = request[r]
  <2>1. PICK p \in Requests :
          /\ request'[p].call.age = 0
          /\ \A q \in Requests : q # p => request'[q] = request[q]
    BY <1>3, TakeKeeps DEF IInv
  <2> QED
    BY <2>1
<1>4. CASE Crash
  BY <1>4, FineParts DEF Crash
<1> QED
  BY <1>1, <1>2, <1>3, <1>4, Steps

\* A request that was made keeps its service while it is open.
LEMMA SameService ==
  ASSUME IInv, Step, NEW r \in Requests, request[r].state # "free", IsOpen(r)'
  PROVE  IsOpen(r) /\ request'[r].service = request[r].service
<1>1. CASE Onward
  BY <1>1 DEF Onward, Proceeds, IsOpen
<1>2. ASSUME NEW p \in Requests, NEW s \in Services, NEW n \in 1 .. MaxCalls,
             request[p] = Free, Enqueue(p, s, n)
      PROVE  request'[r] = request[r]
  <2>1. /\ request[p].state = "free"
        /\ \A q \in Requests : q # p => request'[q] = request[q]
    BY <1>2, EnqueueKeeps, FineParts DEF IInv
  <2> QED
    BY <2>1
<1>3. ASSUME NEW s \in Services, Take(s)
      PROVE  IsOpen(r) /\ request'[r].service = request[r].service
  <2>1. PICK p \in Requests :
          /\ request[p].state = "queued" /\ request'[p].service = request[p].service
          /\ \A q \in Requests : q # p => request'[q] = request[q]
    BY <1>3, TakeKeeps DEF IInv
  <2> QED
    BY <2>1 DEF IsOpen
<1>4. CASE Crash
  BY <1>4, FineParts DEF Crash, IsOpen
<1> QED
  BY <1>1, <1>2, <1>3, <1>4, Steps DEF IsOpen

LEMMA AddressedStep ==
  ASSUME IInv, Addressed, Step
  PROVE  Addressed'
<1>1. CASE check' = check
  <2> SUFFICES ASSUME check.state = "asking", IsOpen(check.of)'
               PROVE  request'[check.of].service = Order[check.nth]
    BY <1>1 DEF Addressed
  <2>1. check.of \in Requests /\ request[check.of].state # "free"
    BY DEF IInv, Checking, Requests
  <2> DEFINE r == check.of
  <2>2. IsOpen(r)' <=> request'[r].state \in {"queued", "served"}
    BY <1>1 DEF IsOpen
  <2>3. IsOpen(check.of) /\ request'[check.of].service = request[check.of].service
    BY <1>1, <2>1, SameService
  <2> QED
    BY <2>3 DEF Addressed
<1>2. ASSUME NEW n, NEW r \in Checks, Begins(n, r) PROVE Addressed'
  BY <1>2 DEF Begins, Asking, Addressed
<1>3. CASE check.state = "asking" /\ check' = [check EXCEPT !.state = "next"]
  BY <1>3 DEF Addressed, IInv, Checking, Asking
<1>4. CASE check' = Done
  BY <1>4 DEF Addressed, Done
<1> QED
  BY <1>1, <1>2, <1>3, <1>4, CheckSteps

LEMMA AddressedTick ==
  ASSUME IInv, Addressed, Tick
  PROVE  Addressed'
<1> SUFFICES ASSUME check'.state = "asking"
             PROVE  /\ check'.nth = check.nth /\ check'.of = check.of
                    /\ check.state = "asking" /\ IsOpen(check.of)
                    /\ request'[check.of].service = request[check.of].service
  BY DEF Addressed
<1>1. check.state = "asking"
  BY TickParts DEF Idle
<1>2. /\ check = Asking(check.nth, check.of, check.age) /\ check.of \in Requests
      /\ check' = [check EXCEPT !.age = @ + 1]
      /\ request[check.of].state \in {"queued", "served"}
  BY <1>1, TickParts DEF IInv, Checking, NothingDue, Requests
<1>3. check'.nth = check.nth /\ check'.of = check.of
  BY <1>2 DEF Asking
<1>4. request'[check.of].service = request[check.of].service
  BY <1>2, TickParts, OlderParts DEF IInv, Slots
<1> QED
  BY <1>1, <1>2, <1>3, <1>4 DEF IsOpen

\* The clock of a service that stays quiet goes on.
LEMMA QuietOn ==
  ASSUME Clocks, NEW ticks \in Nat, Recorded(ticks), NEW s \in Services
  PROVE  /\ quiet[s] \in Nat /\ quiet'[s] \in Nat
         /\ quiet'[s] \in {0, quiet[s], quiet[s] + ticks}
         /\ quiet'[s] > 0 => IsQuiet(s) /\ IsQuiet(s)'
<1>1. quiet'[s] = IF ~IsQuiet(s) \/ ~IsQuiet(s)' THEN 0
                  ELSE IF quiet[s] < Read THEN quiet[s] + ticks
                  ELSE quiet[s]
  BY DEF Recorded
<1>2. quiet[s] \in Nat
  BY DEF Clocks
<1> QED
  BY <1>1, <1>2

LEMMA CalmStep ==
  ASSUME IInv, Clocks, Calm, Step, Recorded(0)
  PROVE  Calm'
<1>1. \A s \in Services : /\ quiet[s] \in Nat /\ quiet'[s] \in {0, quiet[s]}
                          /\ quiet'[s] > 0 => IsQuiet(s)'
  BY QuietOn
<1>2. ASSUME NEW r \in Requests, request'[r].state = "served", request'[r].call.age # 0
      PROVE  request'[r].call.age > quiet'[request'[r].service]
  <2>1. request'[r] = request[r]
    BY <1>2, CallSteps
  <2>2. /\ request[r].call.age > quiet[request[r].service] /\ request[r].call.age \in Nat
        /\ request[r].service \in Services
    BY <1>2, <2>1 DEF Calm, IInv, Slots, Fine, FineServed, FineCall
  <2> QED
    BY <1>1, <2>1, <2>2
<1>3. ASSUME check'.state = "asking", check'.age # 0
      PROVE  quiet'[Order[check'.nth]] < Read
  <2>1. check' = check
    BY <1>3, CheckSteps DEF Begins, Asking, Done, IInv, Checking
  <2>2. quiet[Order[check.nth]] < Read /\ Order[check.nth] \in Services
    BY <1>3, <2>1, Ports DEF Calm, IInv, Checking
  <2> QED
    BY <1>1, <2>1, <2>2, Times
<1> QED
  BY <1>1, <1>2, <1>3 DEF Calm

\* A call that is open when a tick passes has been so for longer than its service
\* was quiet, if that is quiet at all.
LEMMA SlowCall ==
  ASSUME IInv, Clocks, Calm, Tick, NEW r \in Requests, request[r].state = "served"
  PROVE  /\ request[r].service \in Services
         /\ request[r].call.age \in Nat /\ request[r].call.age < Read
         /\ quiet[request[r].service] \in Nat
         /\ \/ ~IsQuiet(request[r].service) /\ quiet[request[r].service] = 0
            \/ quiet[request[r].service] < request[r].call.age
<1>1. /\ FineCall(request[r].call) /\ request[r].service \in Services
      /\ ~IsDue(request[r].call, request[r].service)
  BY TickParts DEF IInv, Slots, Fine, FineServed, NothingDue
<1> DEFINE s == request[r].service
<1>2. request[r].call.age \in Nat /\ request[r].call.age < Read
  BY <1>1, Times, TimesAssumption DEF FineCall, IsDue, Budget
<1>3. quiet[s] \in Nat
  BY <1>1 DEF Clocks
<1>4. CASE request[r].call.age = 0
  <2>1. ~IsQuiet(s)
    BY <1>1, <1>4 DEF IsDue, Prompt, IsQuiet
  <2>2. quiet[s] = 0
    BY <1>1, <1>3, <2>1 DEF Calm
  <2> QED
    BY <1>1, <1>2, <2>1, <2>2
<1>5. CASE request[r].call.age > quiet[s]
  BY <1>1, <1>2, <1>3, <1>5
<1> QED
  BY <1>4, <1>5 DEF Calm

LEMMA SlowCallOn ==
  ASSUME IInv, Clocks, Calm, Tick, Recorded(1), NEW r \in Requests, request[r].state = "served"
  PROVE  /\ quiet'[request[r].service] \in Nat
         /\ quiet'[request[r].service] <= request[r].call.age
<1> DEFINE s == request[r].service
<1>1. s \in Services
  BY SlowCall
<1>2. /\ quiet'[s] \in Nat /\ quiet'[s] \in {0, quiet[s], quiet[s] + 1}
      /\ quiet'[s] > 0 => IsQuiet(s)
  BY <1>1, QuietOn
<1> QED
  BY <1>2, SlowCall

\* A request that is open when a tick passes is held up by such a call of its service.
LEMMA HeldUp ==
  ASSUME IInv, Tick, NEW r \in Requests, IsOpen(r)
  PROVE  \E q \in Requests :
           request[q].state = "served" /\ request[q].service = request[r].service
<1>1. CASE request[r].state = "queued"
  <2>1. request[r].service \in Services /\ queue[request[r].service] # <<>>
    BY <1>1, Somewhere DEF IsQueued
  <2>2. Cardinality(Busy(request[r].service)) = Threads
    BY <2>1, TickParts DEF NothingDue
  <2>3. Busy(request[r].service) # {}
    BY <2>2, FS_EmptySet, Times
  <2> QED
    BY <2>3 DEF Busy
<1>2. CASE request[r].state = "served"
  BY <1>2
<1> QED
  BY <1>1, <1>2 DEF IsOpen

LEMMA CalmTick ==
  ASSUME IInv, Clocks, Addressed, Calm, Tick, Recorded(1)
  PROVE  Calm'
<1>1. \A s \in Services : quiet'[s] > 0 => IsQuiet(s)'
  BY QuietOn
<1>2. ASSUME NEW r \in Requests, request'[r].state = "served"
      PROVE  request'[r].call.age > quiet'[request'[r].service]
  <2>1. request[r].state = "served"
    BY <1>2, TickParts, OlderParts DEF IInv, Slots, Fine
  <2>2. request'[r] = Served(request[r].service, request[r].left, OlderCall(request[r].call),
                             request[r].held + 1, request[r].failed)
    BY <2>1, TickParts, Zenon DEF Older
  <2>3. FineCall(request[r].call) /\ request[r].call.age # Budget(request[r].call)
    BY <2>1, TickParts DEF IInv, Slots, Fine, FineServed
  <2>4. /\ request'[r].call.age = request[r].call.age + 1
        /\ request'[r].service = request[r].service
    BY <2>2, <2>3, ServedParts, CallOlder
  <2> QED
    BY <2>1, <2>4, SlowCall, SlowCallOn
<1>3. ASSUME check'.state = "asking" PROVE quiet'[Order[check'.nth]] < Read
  <2>1. check.state = "asking"
    BY <1>3, TickParts DEF Idle
  <2>2. /\ check.of \in Requests /\ IsOpen(check.of)
        /\ check = Asking(check.nth, check.of, check.age)
        /\ check' = [check EXCEPT !.age = @ + 1]
    BY <2>1, TickParts DEF IInv, Checking, NothingDue, Requests, IsOpen
  <2>3. check'.nth = check.nth /\ request[check.of].service = Order[check.nth]
    BY <2>1, <2>2 DEF Addressed, Asking
  <2>4. PICK q \in Requests :
          request[q].state = "served" /\ request[q].service = request[check.of].service
    BY <2>2, HeldUp
  <2> QED
    BY <2>3, <2>4, SlowCall, SlowCallOn, Times
<1> QED
  BY <1>1, <1>2, <1>3 DEF Calm

-----------------------------------------------------------------------------
(* What follows.                                                            *)

LEMMA DInvInit == DInit => DInv
<1> SUFFICES ASSUME DInit PROVE DInv
  OBVIOUS
<1>1. IInv
  BY IInvInit DEF DInit
<1>2. Clocks
  BY DEF DInit, Clocks
<1>3. \A r \in Requests : request[r].state = "free"
  BY FineParts DEF DInit, Init
<1>4. \A r \in Requests : Waits(r)
  BY <1>3 DEF Waits, IsQueued
<1>5. Starting
  <2>1. Used(Probe(0)) = 0
    BY NewCall DEF Used, Probe
  <2> QED
    BY <2>1, Times DEF DInit, Init, Starting
<1>6. Checked /\ Addressed /\ Calm
  BY <1>3 DEF DInit, Init, Idle, Checked, Addressed, Calm
<1> QED
  BY <1>1, <1>2, <1>4, <1>5, <1>6 DEF DInv

LEMMA DInvNext == DInv /\ [DNext]_<<vars, clocks>> => DInv'
<1> SUFFICES ASSUME DInv, [DNext]_<<vars, clocks>> PROVE DInv'
  OBVIOUS
<1>1. CASE Step /\ Recorded(0)
  <2>1. IInv'
    BY <1>1, IInvNext DEF DInv, Next
  <2> QED
    BY <1>1, <2>1, ClocksStep, WaitsStep, StartingStep, CheckedStep, AddressedStep,
       CalmStep DEF DInv
<1>2. CASE Tick /\ Recorded(1)
  <2>1. IInv'
    BY <1>2, IInvNext DEF DInv, Next
  <2>2. \A r \in Requests : Waits(r)'
    BY <1>2, <2>1, WaitsLonger DEF DInv
  <2> QED
    BY <1>2, <2>1, <2>2, ClocksStep, StartingTick, CheckedTick, AddressedTick,
       CalmTick DEF DInv
<1>3. CASE UNCHANGED <<vars, clocks>>
  <2>1. IInv'
    BY <1>3, IInvNext DEF DInv
  <2>2. UNCHANGED <<stage, probed, probe, silent, request, queue, check>>
        /\ UNCHANGED <<place, waited, probing, checking, quiet>>
    BY <1>3 DEF vars, clocks
  <2>3. Clocks' /\ Starting' /\ Checked' /\ Addressed' /\ Calm'
    BY <2>2 DEF DInv, Clocks, Starting, Checked, Addressed, IsOpen, Calm, IsQuiet
  <2>4. \A r \in Requests : Waits(r)'
    BY <2>2 DEF DInv, Waits, IsQueued, Paid, Fresh, Busy
  <2> QED
    BY <2>1, <2>3, <2>4 DEF DInv
<1> QED
  BY <1>1, <1>2, <1>3 DEF DNext

LEMMA DInductive == DSpec => []DInv
  BY DInvInit, DInvNext, PTL DEF DSpec

LEMMA PaidInTime ==
  ASSUME DInv, NEW r \in Requests, IsQueued(r),
         NEW n \in Nat, place[r] <= n * Threads
  PROVE  waited[r] <= n * MaxHold
<1>1. PICK s \in Services, p \in Nat, w \in Nat :
        s = request[r].service /\ p = place[r] /\ w = waited[r]
  BY Somewhere DEF DInv, Clocks
<1>2. PICK i \in DOMAIN queue[s] : queue[s][i] = r /\ Paid(s, p, w, i)
  BY <1>1 DEF DInv, Waits
<1>3. i \in Nat /\ i >= 1
  BY <1>1, <1>2, Somewhere DEF DInv
<1>4. PICK k \in Nat :
        /\ w <= (k + 1) * MaxHold
        /\ k * Threads + Cardinality(Fresh(s, w - k * MaxHold)) <= p - i
  BY <1>2 DEF Paid
<1>5. Cardinality(Fresh(s, w - k * MaxHold)) \in Nat
  <2>1. Fresh(s, w - k * MaxHold) \in SUBSET Requests
    BY DEF Fresh, Busy
  <2> QED
    BY <2>1, Finite
<1>6. k * Threads \in Nat /\ n * Threads \in Nat /\ Threads \in Nat /\ MaxHold \in Nat
  BY Hold, Times, NextTime
<1>7. k * Threads < n * Threads
  BY <1>1, <1>3, <1>4, <1>5, <1>6
<1>8. k + 1 <= n
  <2> SUFFICES ASSUME n <= k PROVE FALSE
    OBVIOUS
  <2>1. n * Threads <= k * Threads
    BY <1>6, MoreTimes
  <2> QED
    BY <1>6, <1>7, <2>1
<1>9. (k + 1) * MaxHold <= n * MaxHold
  BY <1>6, <1>8, MoreTimes
<1>10. (k + 1) * MaxHold \in Nat /\ n * MaxHold \in Nat
  BY <1>6, NextTime
<1> QED
  BY <1>1, <1>4, <1>9, <1>10

\* A request waits for a thread for at most one MaxHold for each Threads requests that
\* stand up to it in its queue, whatever the instances do (__main__.py:83,
\* upstream.py:161-201).
THEOREM WaitsAreBounded == DSpec => []WaitIsBounded
<1>1. DInv => WaitIsBounded
  <2> SUFFICES ASSUME DInv, NEW r \in Requests, IsQueued(r),
                      NEW n \in 0 .. place[r], place[r] <= n * Threads
               PROVE  waited[r] <= n * MaxHold
    BY DEF WaitIsBounded
  <2>1. n \in Nat
    BY DEF DInv, Clocks
  <2> QED
    BY <2>1, PaidInTime
<1> QED
  BY <1>1, DInductive, PTL

\* A process listens after a connect and a read timeout for each instance, however many
\* of them are silent (__main__.py:78-93).
THEOREM StartsAreBounded == DSpec => []StartIsBounded
<1>1. DInv => StartIsBounded
  <2> SUFFICES ASSUME DInv, stage = "probing"
               PROVE  probing <= Probes * (Connect + Read)
    BY DEF StartIsBounded
  <2> DEFINE D == Connect + Read
  <2>1. /\ probed \in Nat /\ probed + 1 <= Probes /\ Probes \in Nat /\ FineCall(probe)
        /\ D \in Nat /\ probing \in Nat
    BY Times, Ports DEF DInv, IInv, Stages, Clocks
  <2>2. Used(probe) \in Nat /\ Used(probe) <= D
    BY <2>1, CallSpent DEF Used
  <2>3. probed * D \in Nat /\ (probed + 1) * D = probed * D + D /\ Probes * D \in Nat
    BY <2>1, NextTime
  <2>4. (probed + 1) * D <= Probes * D
    BY <2>1, MoreTimes
  <2>5. probing <= probed * D + Used(probe)
    BY DEF DInv, Starting
  <2> HIDE DEF D
  <2>6. probing <= Probes * D
    BY <2>1, <2>2, <2>3, <2>4, <2>5
  <2> QED
    BY <2>6 DEF D
<1> QED
  BY <1>1, DInductive, PTL

\* A run of healthcheck.py is over after its timeout for each port, which is as long as
\* Docker lets it run (healthcheck.py:22-31, Dockerfile:20).
THEOREM ChecksAreBounded == DSpec => []CheckIsBounded
<1>1. DInv => CheckIsBounded
  <2> SUFFICES ASSUME DInv, CheckRuns
               PROVE  checking <= Len(Order) * CheckTimeout
    BY DEF CheckIsBounded
  <2>1. checking \in Nat /\ CheckTimeout \in Nat /\ Len(Order) \in Nat
    BY Times, Ports DEF DInv, Clocks
  <2>2. check.nth \in Nat \ {0} /\ check.nth <= Len(Order)
    BY <2>1 DEF DInv, IInv, Checking, CheckRuns
  <2>3. checking <= check.nth * CheckTimeout
    <3>1. CASE check.state = "asking"
      <4>1. check.age \in Nat /\ check.age <= CheckTimeout
        BY <2>1, <3>1 DEF DInv, IInv, Checking
      <4>2. PICK m \in Nat : m = check.nth - 1 /\ check.nth = m + 1
        BY <2>2
      <4>3. m * CheckTimeout \in Nat /\ check.nth * CheckTimeout = m * CheckTimeout + CheckTimeout
        BY <2>1, <4>2, NextTime
      <4>4. checking <= m * CheckTimeout + check.age
        BY <3>1, <4>2 DEF DInv, Checked
      <4> QED
        BY <2>1, <4>1, <4>3, <4>4
    <3>2. CASE check.state = "next"
      BY <3>2 DEF DInv, Checked
    <3> QED
      BY <3>1, <3>2 DEF CheckRuns
  <2>4. check.nth * CheckTimeout <= Len(Order) * CheckTimeout
    BY <2>1, <2>2, MoreTimes
  <2>5. check.nth * CheckTimeout \in Nat /\ Len(Order) * CheckTimeout \in Nat
    BY <2>1, <2>2, NextTime
  <2> QED
    BY <2>1, <2>3, <2>4, <2>5
<1> QED
  BY <1>1, DInductive, PTL

LEMMA FailsEarly ==
  ASSUME DInv, DNext, CheckFails
  PROVE  IF check.state = "asking" THEN quiet[Order[check.nth]] < Read ELSE stage = "probing"
<1> USE DEF CheckFails
<1>1. CASE CheckTimesOut
  <2>1. check.state = "asking" /\ check.age # 0
    BY <1>1, Times DEF CheckTimesOut
  <2> QED
    BY <2>1 DEF DInv, Calm
<1>2. ASSUME NEW n, AsksPort(n) PROVE stage = "probing"
  <2>1. (\E r \in Checks : check' = Asking(n, r, 0)) => check' # Done
    BY DEF Asking, Done
  <2> QED
    BY <1>2, <2>1 DEF AsksPort
<1>3. CASE CheckAsks
  <2>1. check.state # "asking" /\ stage = "probing"
    BY <1>2, <1>3 DEF CheckAsks, Idle
  <2> QED
    BY <2>1
<1>4. CASE CheckAnswered
  <2>1. check.state = "asking" /\ [check EXCEPT !.state = "next"] # Done
    BY <1>4 DEF CheckAnswered, DInv, IInv, Checking, Asking, Done
  <2>2. streak' = 0
    BY <1>4, <2>1 DEF CheckAnswered, CheckEnds
  <2> QED
    BY <2>2
<1>5. CASE Crash
  BY <1>5 DEF Crash
<1>6. ASSUME NEW r \in Requests, NEW ok \in BOOLEAN, Returns(r, ok) PROVE check' = check
  BY <1>6, Zenon DEF Returns
<1>7. ASSUME NEW r \in Requests, Replies(r) \/ TimesOut(r) PROVE check' = check
  BY <1>6, <1>7 DEF Replies, TimesOut, Connected
<1>8. CASE ProbeGoesOn \/ ProbeEnds \/ ProbeTimesOut
  BY <1>8 DEF ProbeGoesOn, ProbeEnds, ProbeTimesOut
<1>9. ASSUME NEW s \in Services, Take(s) PROVE check' = check
  BY <1>9 DEF Take
<1>10. ASSUME NEW r \in Clients, NEW s \in Services, NEW n \in 1 .. MaxCalls, Submit(r, s, n)
       PROVE  check' = check
  BY <1>10 DEF Submit
<1>11. ASSUME Tick PROVE FALSE
  <2>1. check.state # "done"
    BY <1>11, TickParts DEF DInv, Idle, Done
  <2>2. check.state # "asking" => check' = check
    BY <1>11, <2>1, TickParts DEF DInv
  <2>3. check.state = "asking" => check' = [check EXCEPT !.age = @ + 1]
                                  /\ check = Asking(check.nth, check.of, check.age)
    BY <1>11, TickParts DEF DInv, IInv, Checking
  <2>4. check.state = "asking" => check'.state = "asking"
    BY <2>3 DEF Asking
  <2> QED
    BY <2>2, <2>4 DEF Done
<1> QED
  BY <1>1, <1>3, <1>4, <1>5, <1>7, <1>8, <1>9, <1>10, <1>11 DEF DNext, Step

\* A check that fails does so while the process does not listen yet, or less than a read
\* timeout after an outage of the service that it asks: nothing that an outage left
\* behind lasts for longer, and no other service's counts (healthcheck.py:22-31,
\* upstream.py:161-201).
THEOREM FailuresAreRecent == DSpec => FailureIsRecent
<1>1. DInv /\ [DNext]_<<vars, clocks>> =>
        [CheckFails =>
           IF check.state = "asking" THEN quiet[Order[check.nth]] < Read
           ELSE stage = "probing"]_<<vars, clocks>>
  BY FailsEarly
<1> QED
  BY <1>1, DInductive, PTL DEF DSpec, FailureIsRecent

\* A request is held up, in a queue or by a call, in an outage of its own service and for
\* less than a read timeout after it, whatever the other services' instances do
\* (__main__.py:80-93, upstream.py:161-201).
THEOREM HeldUpByOwn == DSpec => HeldUpByOwnOutage
<1>1. ASSUME DInv, Tick, NEW r \in Requests, IsOpen(r)
      PROVE  quiet[request[r].service] < Read
  <2>1. PICK q \in Requests :
          request[q].state = "served" /\ request[q].service = request[r].service
    BY <1>1, HeldUp DEF DInv
  <2> QED
    BY <1>1, <2>1, SlowCall, Times DEF DInv
<1>2. DInv /\ [DNext]_<<vars, clocks>> =>
        [\A r \in Requests :
           Tick /\ IsOpen(r) => quiet[request[r].service] < Read]_<<vars, clocks>>
  BY <1>1
<1> QED
  BY <1>2, DInductive, PTL DEF DSpec, HeldUpByOwnOutage
==============================================================================
