---------------------------- MODULE ServingProofs ----------------------------
(***************************************************************************)
(* The proxy as a process, for any number of requests, threads, services   *)
(* and ticks: how long a thread is held, who waits for whom, and what a    *)
(* failed health check means.                                              *)
(***************************************************************************)
EXTENDS Serving, FiniteSetTheorems, TLAPS

(* The inductive invariant.                                                 *)

FineCall(c) ==
  /\ c = [instance |-> c.instance, phase |-> c.phase, age |-> c.age]
  /\ c.phase \in {"connect", "read"}
  /\ c.age \in Nat /\ c.age <= Budget(c)

\* The longest that request q can have held its thread by now.
Spent(q) ==
  (MaxCalls - q.left) * (Connect + Read)
    + (IF q.call.phase = "read" THEN Connect ELSE 0) + q.call.age

FineServed(q) ==
  /\ q = Served(q.service, q.left, q.call, q.held, q.failed)
  /\ q.service \in Services /\ q.left \in 1 .. MaxCalls
  /\ FineCall(q.call)
  /\ q.held \in Nat /\ q.held <= Spent(q)

Fine(q) ==
  /\ q.state \in {"free", "ended", "queued", "served", "answered"}
  /\ q.state = "queued" =>
       q = Queued(q.service, q.left) /\ q.service \in Services /\ q.left \in 1 .. MaxCalls
  /\ q.state = "served" => FineServed(q)

Slots ==
  /\ request = [r \in Requests |-> request[r]]
  /\ \A r \in Requests : Fine(request[r])

Waiting(s) == {r \in Requests : request[r].state = "queued" /\ request[r].service = s}

Queues ==
  /\ queue \in [Services -> Seq(Requests)]
  /\ \A s \in Services : IsInjective(queue[s]) /\ ToSet(queue[s]) = Waiting(s)

Pools == \A s \in Services : Cardinality(Busy(s)) <= Threads

Stages ==
  /\ stage \in {"dead", "probing", "listening"}
  /\ probed \in 0 .. Probes
  /\ stage = "dead" => probed = 0
  /\ stage = "probing" => probed < Probes /\ FineCall(probe)
  /\ silent \in [Services -> SUBSET Instances]
  /\ streak \in 0 .. Retries
  /\ trouble \in BOOLEAN

Checking ==
  /\ check.state \in {"idle", "done", "asking", "next"}
  /\ check.state = "asking" =>
       /\ check = Asking(check.nth, check.of, check.age)
       /\ check.nth \in 1 .. Len(Order) /\ check.of \in Checks
       /\ check.age \in 0 .. CheckTimeout
       /\ request[check.of].state \in {"queued", "served", "answered"}
       /\ stage = "listening"
  /\ check.state = "next" => check.nth \in 1 .. Len(Order) - 1 /\ stage = "listening"

\* With no trouble since the last good check, no call has taken any time.
Untroubled ==
  ~trouble =>
    /\ stage = "listening" /\ streak = 0
    /\ \A s \in Services : silent[s] = {}
    /\ \A r \in Requests : request[r].state = "served" => request[r].call.age = 0
    /\ check.state = "asking" => check.age = 0

IInv == Slots /\ Queues /\ Pools /\ Stages /\ Checking /\ Untroubled

-----------------------------------------------------------------------------
(* Arithmetic and sequences.                                                *)

LEMMA Times ==
  /\ Threads \in Nat \ {0} /\ MaxCalls \in Nat /\ MaxCalls >= 2
  /\ Connect \in Nat \ {0} /\ Read \in Nat \ {0}
  /\ CheckTimeout \in Nat \ {0} /\ Retries \in Nat \ {0}
BY TimesAssumption

LEMMA MoreTimes ==
  ASSUME NEW a \in Nat, NEW b \in Nat, NEW d \in Nat, a <= b
  PROVE  a * d <= b * d
<1>1. PICK k \in Nat : b = a + k
  <2>1. b - a \in Nat /\ b = a + (b - a)
    OBVIOUS
  <2> QED
    BY <2>1
<1>2. b * d = a * d + k * d
  BY <1>1
<1>3. k * d >= 0 /\ k * d \in Int /\ a * d \in Int
  BY <1>1
<1> QED
  BY <1>2, <1>3

LEMMA Ports ==
  /\ Len(Order) \in Nat \ {0} /\ Probes = 2 * Len(Order)
  /\ \A n \in 1 .. Len(Order) : Order[n] \in Services
BY OrderAssumption DEF Probes, Services, ToSet

LEMMA Appended ==
  ASSUME NEW S, NEW q \in Seq(S), NEW x \in S, IsInjective(q), x \notin ToSet(q)
  PROVE  /\ Append(q, x) \in Seq(S)
         /\ IsInjective(Append(q, x))
         /\ ToSet(Append(q, x)) = ToSet(q) \cup {x}
<1> DEFINE p == Append(q, x)
<1>1. /\ p \in Seq(S) /\ Len(p) = Len(q) + 1 /\ Len(q) \in Nat
      /\ DOMAIN p = 1 .. Len(q) + 1 /\ DOMAIN q = 1 .. Len(q)
      /\ \A i \in 1 .. Len(q) : p[i] = q[i]
      /\ p[Len(q) + 1] = x
  OBVIOUS
<1> HIDE DEF p
<1>2. IsInjective(p)
  BY <1>1 DEF IsInjective, ToSet
<1>3. ToSet(p) = ToSet(q) \cup {x}
  <2>1. \A y \in ToSet(p) : y \in ToSet(q) \cup {x}
    BY <1>1 DEF ToSet
  <2>2. \A y \in ToSet(q) : y \in ToSet(p)
    BY <1>1 DEF ToSet
  <2>3. x \in ToSet(p)
    BY <1>1 DEF ToSet
  <2> QED
    BY <2>1, <2>2, <2>3
<1> QED
  BY <1>1, <1>2, <1>3 DEF p

LEMMA Popped ==
  ASSUME NEW S, NEW q \in Seq(S), q # <<>>, IsInjective(q)
  PROVE  /\ Head(q) \in ToSet(q) /\ Head(q) \in S
         /\ Tail(q) \in Seq(S)
         /\ IsInjective(Tail(q))
         /\ ToSet(Tail(q)) = ToSet(q) \ {Head(q)}
<1> DEFINE t == Tail(q)
           n == Len(q)
<1>1. /\ n \in Nat \ {0} /\ t \in Seq(S) /\ Len(t) = n - 1
      /\ DOMAIN t = 1 .. n - 1 /\ DOMAIN q = 1 .. n
      /\ \A i \in 1 .. n - 1 : t[i] = q[i + 1]
      /\ Head(q) = q[1] /\ q[1] \in S
  OBVIOUS
<1> HIDE DEF t, n
<1>2. IsInjective(t)
  <2> SUFFICES ASSUME NEW a \in DOMAIN t, NEW b \in DOMAIN t, t[a] = t[b]
               PROVE  a = b
    BY DEF IsInjective
  <2>1. /\ a \in Int /\ b \in Int /\ a + 1 \in DOMAIN q /\ b + 1 \in DOMAIN q
        /\ t[a] = q[a + 1] /\ t[b] = q[b + 1]
    BY <1>1
  <2>2. a + 1 = b + 1
    BY <2>1 DEF IsInjective
  <2> QED
    BY <2>1, <2>2
<1>3. Head(q) \in ToSet(q)
  BY <1>1 DEF ToSet
<1>4. ASSUME NEW y \in ToSet(t)
      PROVE  y \in ToSet(q) /\ y # Head(q)
  <2>1. PICK i \in DOMAIN t : y = t[i]
    BY DEF ToSet
  <2>2. i \in 1 .. n - 1 /\ i + 1 \in DOMAIN q /\ 1 \in DOMAIN q /\ i + 1 # 1
    BY <1>1, <2>1
  <2>3. y = q[i + 1]
    BY <1>1, <2>1, <2>2
  <2>4. y \in ToSet(q)
    BY <2>2, <2>3 DEF ToSet
  <2>5. q[i + 1] # q[1]
    BY <2>2 DEF IsInjective
  <2> QED
    BY <1>1, <2>3, <2>4, <2>5
<1>5. ASSUME NEW y \in ToSet(q), y # Head(q)
      PROVE  y \in ToSet(t)
  <2>1. PICK i \in DOMAIN q : y = q[i]
    BY DEF ToSet
  <2>2. i - 1 \in 1 .. n - 1 /\ t[i - 1] = q[i]
    BY <1>1, <1>5, <2>1
  <2> QED
    BY <1>1, <2>1, <2>2 DEF ToSet
<1> QED
  BY <1>1, <1>2, <1>3, <1>4, <1>5 DEF t

-----------------------------------------------------------------------------
(* Calls and requests.                                                      *)

LEMMA NewCall ==
  ASSUME NEW i
  PROVE  FineCall(Call(i)) /\ Call(i).age = 0 /\ Call(i).phase = "connect"
BY Times DEF FineCall, Call, Budget

LEMMA CallConnected ==
  ASSUME NEW c, FineCall(c)
  PROVE  FineCall(Reading(c)) /\ Reading(c).age = 0 /\ Reading(c).phase = "read"
BY Times DEF FineCall, Budget, Reading

\* A call that is not due has not used its time up.
LEMMA CallOlder ==
  ASSUME NEW c, FineCall(c), c.age # Budget(c)
  PROVE  LET d == OlderCall(c)
         IN  FineCall(d) /\ d.age = c.age + 1 /\ d.age > 0 /\ d.phase = c.phase
BY Times DEF FineCall, Budget, OlderCall

\* No call takes longer than its two timeouts.
LEMMA CallSpent ==
  ASSUME NEW c, FineCall(c)
  PROVE  /\ (IF c.phase = "read" THEN Connect ELSE 0) + c.age \in Nat
         /\ (IF c.phase = "read" THEN Connect ELSE 0) + c.age <= Connect + Read
BY Times DEF FineCall, Budget

LEMMA FineParts ==
  /\ Fine(Free) /\ Free.state = "free"
  /\ Fine(Ended) /\ Ended.state = "ended"
  /\ \A failed : Fine(Replied(failed)) /\ Replied(failed).state = "answered"
  /\ \A s, n : Queued(s, n).state = "queued" /\ Queued(s, n).service = s
  /\ \A s \in Services, n \in 1 .. MaxCalls : Fine(Queued(s, n))
BY DEF Fine, Free, Ended, Replied, Queued

LEMMA ServedParts ==
  ASSUME NEW s, NEW n, NEW c, NEW held, NEW failed
  PROVE  LET q == Served(s, n, c, held, failed)
         IN  /\ q.state = "served" /\ q.service = s /\ q.left = n
             /\ q.call = c /\ q.held = held /\ q.failed = failed
BY DEF Served

\* How a served request is kept within its time.
LEMMA ServedFine ==
  ASSUME NEW q, q.state = "served",
         q = Served(q.service, q.left, q.call, q.held, q.failed),
         q.service \in Services, q.left \in 1 .. MaxCalls, FineCall(q.call), q.held \in Nat,
         q.held <= (MaxCalls - q.left) * (Connect + Read)
                     + (IF q.call.phase = "read" THEN Connect ELSE 0) + q.call.age
  PROVE  Fine(q)
BY DEF Fine, FineServed, Spent

\* A thread takes a request on.
LEMMA TakenFine ==
  ASSUME NEW s \in Services, NEW n \in 1 .. MaxCalls, NEW i
  PROVE  Fine(Served(s, n, Call(i), 0, FALSE))
<1> DEFINE q == Served(s, n, Call(i), 0, FALSE)
<1>1. (MaxCalls - n) * (Connect + Read) \in Nat
  BY Times
<1>2. FineCall(Call(i)) /\ Call(i).age = 0 /\ Call(i).phase = "connect"
  BY NewCall
<1>3. /\ q.state = "served" /\ q.service = s /\ q.left = n /\ q.call = Call(i) /\ q.held = 0
      /\ q = Served(q.service, q.left, q.call, q.held, q.failed)
  BY DEF Served
<1> HIDE DEF q
<1>4. q.held <= (MaxCalls - q.left) * (Connect + Read)
                  + (IF q.call.phase = "read" THEN Connect ELSE 0) + q.call.age
  BY <1>1, <1>2, <1>3
<1>5. Fine(q)
  BY <1>2, <1>3, <1>4, ServedFine
<1> QED
  BY <1>5 DEF q

\* Its handler goes on to the next call.
LEMMA NextCallFine ==
  ASSUME NEW q, FineServed(q), q.left > 1, NEW i, NEW failed
  PROVE  Fine(Served(q.service, q.left - 1, Call(i), q.held, failed))
<1> DEFINE D == Connect + Read
           now == (IF q.call.phase = "read" THEN Connect ELSE 0) + q.call.age
<1>1. /\ q.left \in 1 .. MaxCalls /\ q.left - 1 \in 1 .. MaxCalls
      /\ q.held \in Nat /\ q.service \in Services
  BY Times DEF FineServed
<1>2. now \in Nat /\ now <= D /\ D \in Nat
  BY CallSpent, Times DEF FineServed
<1>3. q.held <= (MaxCalls - q.left) * D + now
  <2>1. q.held <= Spent(q)
    BY DEF FineServed
  <2>2. q.call.age \in Nat /\ (MaxCalls - q.left) * D \in Nat
    BY <1>1, <1>2, Times DEF FineServed, FineCall
  <2> QED
    BY <2>1, <2>2, Times DEF Spent
<1> HIDE DEF D, now
<1>4. (MaxCalls - (q.left - 1)) * D = (MaxCalls - q.left) * D + D
      /\ (MaxCalls - q.left) * D \in Nat
  BY <1>1, <1>2, Times
<1>5. q.held <= (MaxCalls - (q.left - 1)) * D
  BY <1>1, <1>2, <1>3, <1>4
<1>6. FineCall(Call(i)) /\ Call(i).age = 0 /\ Call(i).phase = "connect"
  BY NewCall
<1>7. (MaxCalls - (q.left - 1)) * D \in Nat
  BY <1>2, <1>4
<1> DEFINE p == Served(q.service, q.left - 1, Call(i), q.held, failed)
<1>8. /\ p.state = "served" /\ p.service = q.service /\ p.left = q.left - 1
      /\ p.call = Call(i) /\ p.held = q.held
      /\ p = Served(p.service, p.left, p.call, p.held, p.failed)
  BY DEF Served
<1> HIDE DEF p
<1>9. p.held <= (MaxCalls - p.left) * D
                  + (IF p.call.phase = "read" THEN Connect ELSE 0) + p.call.age
  BY <1>5, <1>6, <1>7, <1>8
<1> QED
  BY <1>1, <1>6, <1>8, <1>9, ServedFine DEF D, p

\* Its call is connected.
LEMMA ConnectedFine ==
  ASSUME NEW q, FineServed(q), q.call.phase = "connect",
         NEW p, p = [q EXCEPT !.call = Reading(@)]
  PROVE  Fine(p) /\ p.state = "served" /\ p.service = q.service /\ p.call.age = 0
<1> DEFINE c == Reading(q.call)
<1>1. FineCall(c) /\ c.age = 0 /\ c.phase = "read"
  BY CallConnected DEF FineServed
<1> HIDE DEF c
<1>2. p = Served(q.service, q.left, c, q.held, q.failed)
  BY DEF FineServed, Served, c
<1>3. q.call.age \in Nat /\ q.call.age <= Connect
  BY DEF FineServed, FineCall, Budget
<1>4. /\ p.state = "served" /\ p.service = q.service /\ p.left = q.left
      /\ p.call = c /\ p.held = q.held
      /\ p = Served(p.service, p.left, p.call, p.held, p.failed)
  BY ONLY <1>2 DEF Served
<1>5. (MaxCalls - q.left) * (Connect + Read) \in Nat
  BY Times DEF FineServed
<1>6. q.held <= (MaxCalls - q.left) * (Connect + Read) + q.call.age
  BY <1>3, <1>5, Times DEF FineServed, Spent
<1>7. p.held <= (MaxCalls - p.left) * (Connect + Read)
                  + (IF p.call.phase = "read" THEN Connect ELSE 0) + p.call.age
  BY <1>1, <1>3, <1>4, <1>5, <1>6, Times DEF FineServed
<1> QED
  BY <1>1, <1>4, <1>7, ServedFine DEF FineServed

\* A tick passes.
LEMMA OlderFine ==
  ASSUME NEW q, FineServed(q), q.call.age # Budget(q.call),
         NEW p, p = Served(q.service, q.left, OlderCall(q.call), q.held + 1, q.failed)
  PROVE  Fine(p) /\ p.state = "served" /\ p.service = q.service /\ p.call.age > 0
<1> DEFINE c == OlderCall(q.call)
<1>1. FineCall(c) /\ c.age = q.call.age + 1 /\ c.age > 0 /\ c.phase = q.call.phase
  BY CallOlder DEF FineServed
<1> HIDE DEF c
<1>2. /\ p.state = "served" /\ p.service = q.service /\ p.left = q.left
      /\ p.call = c /\ p.held = q.held + 1
      /\ p = Served(p.service, p.left, p.call, p.held, p.failed)
  BY DEF Served, c
<1>3. q.call.age \in Nat /\ (MaxCalls - q.left) * (Connect + Read) \in Nat
  BY Times DEF FineServed, FineCall
<1>4. p.held <= (MaxCalls - p.left) * (Connect + Read)
                  + (IF p.call.phase = "read" THEN Connect ELSE 0) + p.call.age
  BY <1>1, <1>2, <1>3, Times DEF FineServed, Spent
<1>5. p.held \in Nat /\ p.left \in 1 .. MaxCalls /\ p.service \in Services
  BY <1>2 DEF FineServed
<1> QED
  BY <1>1, <1>2, <1>4, <1>5, ServedFine

\* What a served request has held its thread is within the bound.
LEMMA SpentBound ==
  ASSUME NEW q, FineServed(q)
  PROVE  q.held <= MaxHold
<1> DEFINE D == Connect + Read
           now == (IF q.call.phase = "read" THEN Connect ELSE 0) + q.call.age
<1>1. q.left \in 1 .. MaxCalls /\ q.held \in Nat /\ q.call.age \in Nat
  BY DEF FineServed, FineCall
<1>2. now \in Nat /\ now <= D /\ D \in Nat
  BY CallSpent, Times DEF FineServed
<1>3. (MaxCalls - q.left) * D \in Nat /\ (MaxCalls - q.left) * D <= (MaxCalls - 1) * D
  BY <1>1, <1>2, Times, MoreTimes
<1>4. q.held <= (MaxCalls - q.left) * D + now
  BY <1>1, <1>3, Times DEF FineServed, Spent
<1> HIDE DEF D, now
<1>5. (MaxCalls - 1) * D + D = MaxCalls * D /\ (MaxCalls - 1) * D \in Nat
  BY <1>2, Times
<1>6. q.held <= MaxCalls * D
  BY <1>1, <1>2, <1>3, <1>4, <1>5
<1> QED
  BY <1>6 DEF MaxHold, D

-----------------------------------------------------------------------------
(* Slots, queues and pools.                                                 *)

LEMMA FewerBusy ==
  ASSUME Pools, \A s \in Services : Busy(s)' \subseteq Busy(s)
  PROVE  Pools'
<1> SUFFICES ASSUME NEW s \in Services PROVE Cardinality(Busy(s)') <= Threads
  BY DEF Pools
<1>1. IsFiniteSet(Busy(s)) /\ Busy(s)' \in SUBSET Busy(s)
  <2>1. IsFiniteSet(Requests) /\ Busy(s) \in SUBSET Requests
    BY SlotsAssumption DEF Requests, Busy
  <2> QED
    BY <2>1, FS_Subset
<1>2. Cardinality(Busy(s)') <= Cardinality(Busy(s)) /\ Cardinality(Busy(s)) \in Nat
      /\ Cardinality(Busy(s)') \in Nat
  BY <1>1, FS_Subset, FS_CardinalityType
<1> QED
  BY <1>2, Times DEF Pools

\* A slot changes, and is queued neither before nor after.
LEMMA SlotKeeps ==
  ASSUME Slots, Queues, Pools, NEW r \in Requests, NEW x, Fine(x),
         request' = [request EXCEPT ![r] = x], queue' = queue,
         request[r].state # "queued", x.state # "queued",
         x.state = "served" => request[r].state = "served" /\ x.service = request[r].service
  PROVE  Slots' /\ Queues' /\ Pools'
<1>1. \A p \in Requests : request'[p] = IF p = r THEN x ELSE request[p]
  BY DEF Slots
<1>2. Slots'
  BY <1>1 DEF Slots
<1>3. \A s \in Services : Waiting(s)' = Waiting(s)
  BY <1>1 DEF Waiting
<1>4. Queues'
  BY <1>3 DEF Queues
<1>5. \A s \in Services : Busy(s)' \subseteq Busy(s)
  BY <1>1 DEF Busy
<1> QED
  BY <1>2, <1>4, <1>5, FewerBusy

\* A request is put in a queue.
LEMMA EnqueueKeeps ==
  ASSUME Slots, Queues, Pools, NEW r \in Requests, NEW s \in Services, NEW n \in 1 .. MaxCalls,
         request[r] = Free, Enqueue(r, s, n)
  PROVE  /\ Slots' /\ Queues' /\ Pools'
         /\ request'[r] = Queued(s, n)
         /\ \A p \in Requests : p # r => request'[p] = request[p]
<1>1. \A p \in Requests : request'[p] = IF p = r THEN Queued(s, n) ELSE request[p]
  BY DEF Slots, Enqueue
<1>2. Fine(Queued(s, n)) /\ Queued(s, n).state = "queued" /\ Queued(s, n).service = s
      /\ Free.state = "free"
  BY FineParts
<1>3. Slots'
  BY <1>1, <1>2 DEF Slots, Enqueue
<1>4. \A t \in Services : Waiting(t)' = IF t = s THEN Waiting(t) \cup {r} ELSE Waiting(t)
  BY <1>1, <1>2 DEF Waiting
<1>5. r \notin Waiting(s)
  BY <1>2 DEF Waiting
<1>6. /\ Append(queue[s], r) \in Seq(Requests) /\ IsInjective(Append(queue[s], r))
      /\ ToSet(Append(queue[s], r)) = Waiting(s) \cup {r}
  BY <1>5, Appended DEF Queues
<1>7. \A t \in Services : queue'[t] = IF t = s THEN Append(queue[s], r) ELSE queue[t]
  BY DEF Enqueue, Queues
<1>8. Queues'
  BY <1>4, <1>6, <1>7 DEF Queues, Enqueue
<1>9. \A t \in Services : Busy(t)' \subseteq Busy(t)
  BY <1>1, <1>2 DEF Busy
<1> QED
  BY <1>1, <1>3, <1>8, <1>9, FewerBusy

\* A thread takes a request off its queue.
LEMMA TakeKeeps ==
  ASSUME Slots, Queues, Pools, NEW s \in Services, Take(s)
  PROVE  /\ Slots' /\ Queues' /\ Pools'
         /\ \E r \in Requests :
              /\ request[r].state = "queued" /\ request'[r].state = "served"
              /\ request'[r].call.age = 0 /\ request'[r].service = request[r].service
              /\ \A p \in Requests : p # r => request'[p] = request[p]
<1> DEFINE r == Head(queue[s])
           t == Tail(queue[s])
<1>1. /\ r \in Waiting(s) /\ t \in Seq(Requests) /\ IsInjective(t)
      /\ ToSet(t) = Waiting(s) \ {r}
  <2>1. queue[s] \in Seq(Requests) /\ queue[s] # <<>> /\ IsInjective(queue[s])
        /\ ToSet(queue[s]) = Waiting(s)
    BY DEF Take, Queues
  <2> QED
    BY <2>1, Popped
<1> HIDE DEF r, t
<1>2. PICK i : /\ request' = [request EXCEPT ![r] = Served(s, request[r].left, Call(i), 0, FALSE)]
               /\ queue' = [queue EXCEPT ![s] = t]
               /\ Cardinality(Busy(s)) < Threads
  BY DEF Take, r, t
<1> DEFINE x == Served(s, request[r].left, Call(i), 0, FALSE)
<1>3. r \in Requests /\ request[r].state = "queued" /\ request[r].service = s
      /\ request[r].left \in 1 .. MaxCalls
  BY <1>1 DEF Waiting, Slots, Fine
<1>4. Fine(x) /\ x.state = "served" /\ x.service = s /\ x.call.age = 0
  <2>1. x.state = "served" /\ x.service = s /\ x.call = Call(i)
    BY DEF Served
  <2> QED
    BY <1>3, <2>1, TakenFine, NewCall
<1>5. request' = [request EXCEPT ![r] = x]
  BY <1>2
<1> HIDE DEF x
<1>6. \A p \in Requests : request'[p] = IF p = r THEN x ELSE request[p]
  BY <1>5 DEF Slots
<1>7. Slots'
  BY <1>4, <1>5, <1>6 DEF Slots
<1>8. \A k \in Services : Waiting(k)' = IF k = s THEN Waiting(k) \ {r} ELSE Waiting(k)
  BY <1>3, <1>4, <1>6 DEF Waiting
<1>9. \A k \in Services : queue'[k] = IF k = s THEN t ELSE queue[k]
  BY <1>2 DEF Queues
<1>10. Queues'
  BY <1>1, <1>2, <1>8, <1>9 DEF Queues
<1>11. \A k \in Services : Busy(k)' = IF k = s THEN Busy(k) \cup {r} ELSE Busy(k)
  BY <1>3, <1>4, <1>6 DEF Busy
<1>12. IsFiniteSet(Busy(s)) /\ r \notin Busy(s)
  <2>1. IsFiniteSet(Requests) /\ Busy(s) \in SUBSET Requests
    BY SlotsAssumption DEF Requests, Busy
  <2>2. r \notin Busy(s)
    BY <1>3 DEF Busy
  <2> QED
    BY <2>1, <2>2, FS_Subset
<1>13. Cardinality(Busy(s) \cup {r}) <= Threads
  <2>1. Cardinality(Busy(s) \cup {r}) = Cardinality(Busy(s)) + 1
    BY <1>12, FS_AddElement
  <2>2. Cardinality(Busy(s)) \in Nat /\ Cardinality(Busy(s)) < Threads /\ Threads \in Nat
    BY <1>2, <1>12, FS_CardinalityType, Times
  <2> QED
    BY <2>1, <2>2
<1>14. Pools'
  BY <1>11, <1>13 DEF Pools
<1> QED
  BY <1>3, <1>4, <1>6, <1>7, <1>10, <1>14

\* A call of a served request returns or raises.
LEMMA ReturnsKeeps ==
  ASSUME Slots, Queues, Pools, NEW r \in Requests, NEW ok \in BOOLEAN, Returns(r, ok)
  PROVE  /\ Slots' /\ Queues' /\ Pools'
         /\ request[r].state = "served"
         /\ \/ request'[r].state = "served" /\ request'[r].call.age = 0
            \/ /\ request'[r].state \in {"ended", "answered"}
               /\ check.state = "asking" /\ check.of = r => request'[r].state = "answered"
         /\ \A p \in Requests : p # r => request'[p] = request[p]
<1>1. request[r].state = "served" /\ FineServed(request[r]) /\ queue' = queue
  BY DEF Returns, Slots, Fine
<1>2. \/ /\ request[r].left > 1
         /\ \E i, failed : request' = [request EXCEPT ![r] =
              Served(request[r].service, request[r].left - 1, Call(i), request[r].held, failed)]
      \/ \E failed : request' = [request EXCEPT ![r] = Reply(r, failed)]
  BY Zenon DEF Returns
<1>3. ASSUME NEW i, NEW failed, request[r].left > 1,
             request' = [request EXCEPT ![r] =
               Served(request[r].service, request[r].left - 1, Call(i), request[r].held, failed)]
      PROVE  /\ Slots' /\ Queues' /\ Pools'
             /\ request'[r].state = "served" /\ request'[r].call.age = 0
             /\ \A p \in Requests : p # r => request'[p] = request[p]
  <2> DEFINE x == Served(request[r].service, request[r].left - 1, Call(i), request[r].held, failed)
  <2>1. Fine(x) /\ x.state = "served" /\ x.service = request[r].service /\ x.call.age = 0
    <3>1. x.state = "served" /\ x.service = request[r].service /\ x.call = Call(i)
      BY DEF Served
    <3> QED
      BY <1>1, <1>3, <3>1, NextCallFine, NewCall
  <2>2. request' = [request EXCEPT ![r] = x]
    BY <1>3
  <2> HIDE DEF x
  <2>3. \A p \in Requests : request'[p] = IF p = r THEN x ELSE request[p]
    BY <2>2 DEF Slots
  <2> QED
    BY <1>1, <2>1, <2>2, <2>3, SlotKeeps
<1>4. ASSUME NEW failed, request' = [request EXCEPT ![r] = Reply(r, failed)]
      PROVE  /\ Slots' /\ Queues' /\ Pools'
             /\ request'[r].state \in {"ended", "answered"}
             /\ check.state = "asking" /\ check.of = r => request'[r].state = "answered"
             /\ \A p \in Requests : p # r => request'[p] = request[p]
  <2> DEFINE x == Reply(r, failed)
  <2>1. /\ Fine(x) /\ x.state \in {"ended", "answered"}
        /\ check.state = "asking" /\ check.of = r => x.state = "answered"
    BY FineParts DEF Reply
  <2> HIDE DEF x
  <2>2. request' = [request EXCEPT ![r] = x]
    BY <1>4 DEF x
  <2>3. \A p \in Requests : request'[p] = IF p = r THEN x ELSE request[p]
    BY <2>2 DEF Slots
  <2> QED
    BY <1>1, <2>1, <2>2, <2>3, SlotKeeps
<1> QED
  BY <1>1, <1>2, <1>3, <1>4

-----------------------------------------------------------------------------
(* The steps.                                                               *)

LEMMA IInvInit == Init => IInv
<1> SUFFICES ASSUME Init PROVE IInv
  OBVIOUS
<1>1. Slots
  BY FineParts DEF Init, Slots
<1>2. \A r \in Requests : request[r].state = "free"
  BY DEF Init, Free
<1>3. Queues
  <2>1. <<>> \in Seq(Requests) /\ IsInjective(<<>>) /\ ToSet(<<>>) = {}
    BY DEF IsInjective, ToSet
  <2>2. \A s \in Services : Waiting(s) = {}
    BY <1>2 DEF Waiting
  <2> QED
    BY <2>1, <2>2 DEF Init, Queues
<1>4. Pools
  <2>1. \A s \in Services : Busy(s) = {}
    BY <1>2 DEF Busy
  <2> QED
    BY <2>1, FS_EmptySet, Times DEF Pools
<1>5. Stages
  BY NewCall, Ports, Times DEF Init, Stages, Probe
<1>6. Checking
  BY DEF Init, Checking, Idle
<1>7. Untroubled
  BY DEF Init, Untroubled
<1> QED
  BY <1>1, <1>3, <1>4, <1>5, <1>6, <1>7 DEF IInv

\* The process probes its instances: nobody is served yet.
LEMMA ProbingKeeps ==
  ASSUME IInv, stage = "probing", Stages', stage' \in {"probing", "listening"},
         UNCHANGED <<silent, request, queue, check, streak, trouble>>
  PROVE  IInv'
<1>1. Slots' /\ Queues' /\ Pools'
  BY FewerBusy DEF IInv, Slots, Queues, Waiting, Busy
<1>2. Checking'
  BY DEF IInv, Checking
<1>3. Untroubled'
  BY DEF IInv, Untroubled, Stages
<1> QED
  BY <1>1, <1>2, <1>3 DEF IInv

LEMMA ProbeKeeps ==
  ASSUME IInv, ProbeGoesOn \/ ProbeEnds
  PROVE  IInv'
<1>1. CASE ProbeGoesOn
  <2>1. Stages'
    BY <1>1, CallConnected DEF ProbeGoesOn, IInv, Stages
  <2> QED
    BY <1>1, <2>1, ProbingKeeps DEF ProbeGoesOn
<1>2. CASE ProbeEnds
  <2>1. /\ stage = "probing" /\ probed' = probed + 1 /\ probed < Probes
        /\ \/ probed + 1 < Probes /\ probe' = Probe(probed + 1) /\ stage' = stage
           \/ stage' = "listening"
        /\ UNCHANGED <<silent, request, queue, check, streak, trouble>>
    BY <1>2 DEF ProbeEnds, IInv, Stages
  <2>2. FineCall(Probe(probed + 1))
    BY NewCall DEF Probe
  <2>3. probed' \in 0 .. Probes
    BY <2>1, Ports DEF IInv, Stages
  <2>4. Stages'
    BY <2>1, <2>2, <2>3 DEF IInv, Stages
  <2> QED
    BY <2>1, <2>4, ProbingKeeps
<1> QED
  BY <1>1, <1>2

\* A handler's step, on a request that is and was no free one.
LEMMA HandlerKeeps ==
  ASSUME IInv, Slots', Queues', Pools', NEW r \in Requests,
         UNCHANGED <<stage, probed, probe, silent, check, streak, trouble>>,
         request[r].state \in {"free", "queued", "served"},
         request'[r].state = "served" => request'[r].call.age = 0,
         request[r].state # "free" /\ check.state = "asking" /\ check.of = r =>
           request'[r].state \in {"queued", "served", "answered"},
         \A p \in Requests : p # r => request'[p] = request[p]
  PROVE  IInv'
<1>1. Stages'
  BY DEF IInv, Stages
<1>2. Checking'
  <2>1. check.state = "asking" => request'[check.of].state \in {"queued", "served", "answered"}
    BY DEF IInv, Checking, Requests
  <2> QED
    BY <2>1 DEF IInv, Checking
<1>3. Untroubled'
  BY DEF IInv, Untroubled
<1> QED
  BY <1>1, <1>2, <1>3 DEF IInv

LEMMA RequestKeeps ==
  ASSUME IInv,
         \/ \E r \in Clients, s \in Services, n \in 1 .. MaxCalls : Submit(r, s, n)
         \/ \E s \in Services : Take(s)
         \/ \E r \in Requests : Replies(r) \/ TimesOut(r)
  PROVE  IInv'
<1>1. ASSUME NEW r \in Clients, NEW s \in Services, NEW n \in 1 .. MaxCalls, Submit(r, s, n)
      PROVE  IInv'
  <2>1. /\ request[r] = Free /\ Enqueue(r, s, n) /\ r \in Requests
        /\ UNCHANGED <<stage, probed, probe, silent, check, streak, trouble>>
    BY <1>1 DEF Submit, Requests
  <2>2. /\ Slots' /\ Queues' /\ Pools'
        /\ request'[r] = Queued(s, n)
        /\ \A p \in Requests : p # r => request'[p] = request[p]
    BY <2>1, EnqueueKeeps DEF IInv
  <2>3. request[r].state = "free" /\ request'[r].state = "queued"
    BY <2>1, <2>2, FineParts
  <2> QED
    BY <2>1, <2>2, <2>3, HandlerKeeps
<1>2. ASSUME NEW s \in Services, Take(s) PROVE IInv'
  <2>1. UNCHANGED <<stage, probed, probe, silent, check, streak, trouble>>
    BY <1>2 DEF Take
  <2>2. Slots' /\ Queues' /\ Pools'
    BY <1>2, TakeKeeps DEF IInv
  <2>3. PICK r \in Requests :
          /\ request[r].state = "queued" /\ request'[r].state = "served"
          /\ request'[r].call.age = 0
          /\ \A p \in Requests : p # r => request'[p] = request[p]
    BY <1>2, TakeKeeps DEF IInv
  <2> QED
    BY <2>1, <2>2, <2>3, HandlerKeeps
<1>3. ASSUME NEW r \in Requests, NEW ok \in BOOLEAN, Returns(r, ok) PROVE IInv'
  <2>1. UNCHANGED <<stage, probed, probe, silent, check, streak, trouble>>
    BY <1>3, Zenon DEF Returns
  <2>2. /\ Slots' /\ Queues' /\ Pools'
        /\ request[r].state = "served"
        /\ \/ request'[r].state = "served" /\ request'[r].call.age = 0
           \/ /\ request'[r].state \in {"ended", "answered"}
              /\ check.state = "asking" /\ check.of = r => request'[r].state = "answered"
        /\ \A p \in Requests : p # r => request'[p] = request[p]
    BY <1>3, ReturnsKeeps DEF IInv
  <2> QED
    BY <2>1, <2>2, HandlerKeeps
<1>4. ASSUME NEW r \in Requests, Connected(r) PROVE IInv'
  <2>1. /\ request[r].state = "served" /\ request[r].call.phase = "connect"
        /\ request' = [request EXCEPT ![r].call = Reading(@)] /\ queue' = queue
        /\ UNCHANGED <<stage, probed, probe, silent, check, streak, trouble>>
    BY <1>4 DEF Connected
  <2> DEFINE x == [request[r] EXCEPT !.call = Reading(@)]
  <2>2. request' = [request EXCEPT ![r] = x]
    BY <2>1
  <2>3. FineServed(request[r])
    BY <2>1 DEF IInv, Slots, Fine
  <2>4. Fine(x) /\ x.state = "served" /\ x.service = request[r].service /\ x.call.age = 0
    BY <2>1, <2>3, ConnectedFine
  <2> HIDE DEF x
  <2>5. Slots' /\ Queues' /\ Pools'
    BY <2>1, <2>2, <2>4, SlotKeeps DEF IInv
  <2>6. \A p \in Requests : request'[p] = IF p = r THEN x ELSE request[p]
    BY <2>2 DEF IInv, Slots
  <2> QED
    BY <2>1, <2>4, <2>5, <2>6, HandlerKeeps
<1>5. ASSUME NEW r \in Requests, Replies(r) \/ TimesOut(r) PROVE IInv'
  <2>1. Connected(r) \/ Returns(r, TRUE) \/ Returns(r, FALSE)
    BY <1>5 DEF Replies, TimesOut
  <2> QED
    BY <1>3, <1>4, <2>1
<1> QED
  BY <1>1, <1>2, <1>5

\* A failed check is counted only in trouble.
LEMMA CheckFailed ==
  ASSUME IInv, trouble, CheckEnds(FALSE), UNCHANGED <<stage, probed, probe, silent>>
  PROVE  Stages' /\ Checking' /\ Untroubled'
<1>1. check' = Done /\ streak' \in 0 .. Retries /\ trouble' = trouble
  BY Times DEF CheckEnds, IInv, Stages
<1>2. Stages'
  BY <1>1 DEF IInv, Stages
<1>3. Checking'
  BY <1>1 DEF Checking, Done
<1>4. Untroubled'
  BY <1>1 DEF Untroubled
<1> QED
  BY <1>2, <1>3, <1>4

\* The check asks a port, or finds none to ask.
LEMMA AsksKeeps ==
  ASSUME IInv, NEW n \in 1 .. Len(Order), check.state # "asking", AsksPort(n),
         UNCHANGED <<stage, probed, probe, silent>>
  PROVE  IInv'
<1>1. ASSUME NEW r \in Checks, stage = "listening", request[r] = Free,
             Enqueue(r, Order[n], 2), check' = Asking(n, r, 0), UNCHANGED <<streak, trouble>>
      PROVE  IInv'
  <2>1. Order[n] \in Services /\ 2 \in 1 .. MaxCalls /\ r \in Requests
    BY Ports, Times DEF Requests
  <2>2. /\ Slots' /\ Queues' /\ Pools'
        /\ request'[r] = Queued(Order[n], 2)
        /\ \A p \in Requests : p # r => request'[p] = request[p]
    BY <1>1, <2>1, EnqueueKeeps DEF IInv
  <2>3. request'[r].state = "queued"
    BY <2>2, FineParts
  <2>4. Stages'
    BY <1>1 DEF IInv, Stages
  <2>5. /\ check'.state = "asking" /\ check'.nth = n /\ check'.of = r /\ check'.age = 0
        /\ check' = Asking(check'.nth, check'.of, check'.age)
    BY <1>1 DEF Asking
  <2>6. Checking'
    BY <1>1, <2>3, <2>5, Times DEF Checking
  <2>7. Untroubled'
    BY <1>1, <2>2, <2>3, <2>5 DEF IInv, Untroubled
  <2> QED
    BY <2>2, <2>4, <2>6, <2>7 DEF IInv
<1>2. CASE stage = "probing" /\ CheckEnds(FALSE) /\ UNCHANGED <<request, queue>>
  <2>1. trouble
    BY <1>2 DEF IInv, Untroubled
  <2>2. Slots' /\ Queues' /\ Pools'
    BY <1>2, FewerBusy DEF IInv, Slots, Queues, Waiting, Busy
  <2> QED
    BY <1>2, <2>1, <2>2, CheckFailed DEF IInv
<1> QED
  BY <1>1, <1>2 DEF AsksPort

\* The slot of an answered check is given back.
LEMMA SlotBack ==
  ASSUME IInv, check.state = "asking", request[check.of].state = "answered",
         NEW x \in {Free, Ended}, request' = [request EXCEPT ![check.of] = x], queue' = queue
  PROVE  /\ Slots' /\ Queues' /\ Pools'
         /\ \A r \in Requests : request'[r].state = "served" => request'[r] = request[r]
<1>1. check.of \in Requests
  BY DEF IInv, Checking, Requests
<1>2. Fine(x) /\ x.state \in {"free", "ended"}
  BY FineParts
<1>3. Slots' /\ Queues' /\ Pools'
  BY <1>1, <1>2, SlotKeeps DEF IInv
<1>4. \A r \in Requests : request'[r] = IF r = check.of THEN x ELSE request[r]
  BY DEF IInv, Slots
<1> QED
  BY <1>2, <1>3, <1>4

\* The loop over the ports is at its first port, or at the one after the last asked.
LEMMA AsksNext ==
  ASSUME IInv, CheckAsks
  PROVE  /\ NextPort \in 1 .. Len(Order)
         /\ \/ check.state = "idle" /\ NextPort = 1
            \/ check.state = "next" /\ NextPort = check.nth + 1
<1>1. CASE check = Idle
  BY <1>1, Ports DEF NextPort, Idle
<1>2. CASE check.state = "next"
  BY <1>2, Ports DEF NextPort, IInv, Checking
<1> QED
  BY <1>1, <1>2 DEF CheckAsks

LEMMA CheckKeeps ==
  ASSUME IInv, CheckAsks \/ CheckAnswered \/ CheckTimesOut
  PROVE  IInv'
<1>1. CASE CheckAsks
  BY <1>1, AsksNext, AsksKeeps DEF CheckAsks
<1>2. CASE CheckAnswered
  <2>1. /\ check.state = "asking" /\ request[check.of].state = "answered"
        /\ request' = [request EXCEPT ![check.of] = Free] /\ queue' = queue
        /\ UNCHANGED <<stage, probed, probe, silent>>
    BY <1>2 DEF CheckAnswered
  <2>2. /\ Slots' /\ Queues' /\ Pools'
        /\ \A r \in Requests : request'[r].state = "served" => request'[r] = request[r]
    BY <2>1, SlotBack
  <2>3. /\ stage = "listening" /\ check.nth \in 1 .. Len(Order)
        /\ check = Asking(check.nth, check.of, check.age)
    BY <2>1 DEF IInv, Checking
  <2>4. CASE check.nth < Len(Order)
    <3>1. check' = [check EXCEPT !.state = "next"] /\ UNCHANGED <<streak, trouble>>
      BY <1>2, <2>4 DEF CheckAnswered
    <3>2. check'.state = "next" /\ check'.nth = check.nth
      BY <2>3, <3>1 DEF Asking
    <3>3. Stages'
      BY <2>1, <3>1 DEF IInv, Stages
    <3>4. Checking'
      BY <2>1, <2>3, <2>4, <3>2, Ports DEF Checking
    <3>5. Untroubled'
      BY <2>1, <2>2, <3>1, <3>2 DEF IInv, Untroubled
    <3> QED
      BY <2>2, <3>3, <3>4, <3>5 DEF IInv
  <2>5. CASE ~(check.nth < Len(Order))
    <3>1. CheckEnds(TRUE)
      BY <1>2, <2>5 DEF CheckAnswered
    <3>2. check' = Done /\ streak' = 0
      BY <3>1 DEF CheckEnds
    <3>3. trouble' = ((\E s \in Services : silent[s] # {}) \/ (\E r \in Requests : IsOpen(r)))
      BY <3>1, Zenon DEF CheckEnds
    <3>4. trouble' \in BOOLEAN
      BY <3>3, Zenon
    <3>5. Stages'
      BY <2>1, <3>2, <3>4, Times DEF IInv, Stages
    <3>6. Checking'
      BY <3>2 DEF Checking, Done
    <3>7. ~trouble' =>
            /\ \A s \in Services : silent[s] = {}
            /\ \A r \in Requests : request[r].state # "served"
      BY <3>3 DEF IsOpen
    <3>8. Untroubled'
      BY <2>1, <2>2, <2>3, <3>2, <3>7 DEF Untroubled, Done
    <3> QED
      BY <2>2, <3>5, <3>6, <3>8 DEF IInv
  <2> QED
    BY <2>4, <2>5
<1>3. CASE CheckTimesOut
  <2>1. /\ check.state = "asking" /\ check.age = CheckTimeout /\ CheckEnds(FALSE)
        /\ queue' = queue /\ UNCHANGED <<stage, probed, probe, silent>>
    BY <1>3 DEF CheckTimesOut
  <2>2. trouble
    BY <2>1, Times DEF IInv, Untroubled
  <2>3. Slots' /\ Queues' /\ Pools'
    <3>1. CASE request[check.of].state = "answered"
      BY <1>3, <2>1, <3>1, SlotBack DEF CheckTimesOut
    <3>2. CASE request[check.of].state # "answered"
      <4>1. request' = request /\ queue' = queue
        BY <1>3, <3>2 DEF CheckTimesOut
      <4> QED
        BY <4>1, FewerBusy DEF IInv, Slots, Queues, Waiting, Busy
    <3> QED
      BY <3>1, <3>2
  <2> QED
    BY <2>1, <2>2, <2>3, CheckFailed DEF IInv
<1> QED
  BY <1>1, <1>2, <1>3

LEMMA CrashKeeps ==
  ASSUME IInv, Crash
  PROVE  IInv'
<1>1. \A r \in Requests : request'[r] = Ended /\ request'[r].state = "ended"
  BY FineParts DEF Crash
<1>2. Slots'
  BY <1>1, FineParts DEF Crash, Slots
<1>3. Queues'
  <2>1. <<>> \in Seq(Requests) /\ IsInjective(<<>>) /\ ToSet(<<>>) = {}
    BY DEF IsInjective, ToSet
  <2>2. \A s \in Services : Waiting(s)' = {}
    BY <1>1 DEF Waiting
  <2> QED
    BY <2>1, <2>2 DEF Crash, Queues
<1>4. \A s \in Services : Busy(s)' \subseteq Busy(s)
  BY <1>1 DEF Busy
<1>5. Pools'
  BY <1>4, FewerBusy DEF IInv
<1>6. Stages'
  BY Ports, Times DEF Crash, IInv, Stages
<1>7. Checking'
  BY DEF Crash, Checking, Done
<1>8. Untroubled'
  BY DEF Crash, Untroubled
<1> QED
  BY <1>2, <1>3, <1>5, <1>6, <1>7, <1>8 DEF IInv

-----------------------------------------------------------------------------
(* Time passes.                                                             *)

LEMMA OlderParts ==
  ASSUME NEW q, Fine(q), q.state = "served" => q.call.age # Budget(q.call)
  PROVE  /\ Fine(Older(q))
         /\ q.state = "served" =>
              /\ Older(q).state = "served" /\ Older(q).service = q.service
              /\ Older(q).call.age > 0
         /\ q.state = "ended" => Older(q).state = "free"
         /\ q.state \notin {"served", "ended"} => Older(q) = q
<1>1. CASE q.state = "served"
  <2>1. Older(q) = Served(q.service, q.left, OlderCall(q.call), q.held + 1, q.failed)
    BY <1>1, Zenon DEF Older
  <2> QED
    BY <1>1, <2>1, OlderFine DEF Fine
<1>2. CASE q.state = "ended"
  <2>1. Older(q) = Free
    BY <1>2, Zenon DEF Older
  <2> QED
    BY <1>2, <2>1, FineParts
<1>3. CASE q.state \notin {"served", "ended"}
  <2>1. Older(q) = q
    BY <1>3, Zenon DEF Older
  <2> QED
    BY <1>3, <2>1
<1> QED
  BY <1>1, <1>2, <1>3

\* What a tick does to each part.
LEMMA TickParts ==
  ASSUME IInv, Tick
  PROVE  /\ NothingDue
         /\ \A r \in Requests :
              /\ request[r].state = "served" => request[r].call.age # Budget(request[r].call)
              /\ request'[r] = Older(request[r])
         /\ request' = [r \in Requests |-> request'[r]]
         /\ check.state = "asking" => check' = [check EXCEPT !.age = @ + 1]
         /\ check.state = "done" => check' = Idle
         /\ check.state \notin {"asking", "done"} => check' = check
         /\ stage = "dead" => stage' = "probing" /\ probe' = Probe(0)
         /\ stage = "probing" => stage' = "probing" /\ probe' = OlderCall(probe)
         /\ stage = "listening" => stage' = "listening"
         /\ silent' \in [Services -> SUBSET Instances]
         /\ trouble' = (trouble \/ \E s \in Services : silent'[s] # {})
         /\ UNCHANGED <<probed, queue, streak>>
<1>1. NothingDue /\ UNCHANGED <<probed, queue, streak>>
      /\ silent' \in [Services -> SUBSET Instances]
      /\ request' = [r \in Requests |-> Older(request[r])]
  BY Zenon DEF Tick
<1>2. trouble' = (trouble \/ \E s \in Services : silent'[s] # {})
  BY Zenon DEF Tick
<1>3. \A r \in Requests :
        request[r].state = "served" => request[r].call.age # Budget(request[r].call)
  BY <1>1 DEF NothingDue, IsDue
<1>4. /\ check.state = "asking" => check' = [check EXCEPT !.age = @ + 1]
      /\ check.state = "done" => check' = Idle
      /\ check.state \notin {"asking", "done"} => check' = check
  <2>1. CASE check.state = "asking"
    BY <2>1, Zenon DEF Tick
  <2>2. CASE check.state = "done"
    BY <2>2, Zenon DEF Tick
  <2>3. CASE check.state \notin {"asking", "done"}
    BY <2>3, Zenon DEF Tick
  <2> QED
    BY <2>1, <2>2, <2>3
<1>5. /\ stage = "dead" => stage' = "probing" /\ probe' = Probe(0)
      /\ stage = "probing" => stage' = "probing" /\ probe' = OlderCall(probe)
      /\ stage = "listening" => stage' = "listening"
  <2>1. CASE stage = "dead"
    BY <2>1, Zenon DEF Tick
  <2>2. CASE stage = "probing"
    BY <2>2, Zenon DEF Tick
  <2>3. CASE stage = "listening"
    BY <2>3, Zenon DEF Tick
  <2> QED
    BY <2>1, <2>2, <2>3
<1> QED
  BY <1>1, <1>2, <1>3, <1>4, <1>5

\* While no instance is silent, nothing lasts for a tick.
LEMMA NothingLasts ==
  ASSUME IInv, NothingDue, ~trouble
  PROVE  check.state # "asking" /\ \A r \in Requests : request[r].state # "served"
<1>1. \A r \in Requests : request[r].state # "served"
  <2> SUFFICES ASSUME NEW r \in Requests, request[r].state = "served" PROVE FALSE
    OBVIOUS
  <2>1. request[r].call.age = 0 /\ request[r].service \in Services
    BY DEF IInv, Untroubled, Slots, Fine, FineServed
  <2>2. silent[request[r].service] = {}
    BY <2>1 DEF IInv, Untroubled
  <2>3. IsDue(request[r].call, request[r].service)
    BY <2>1, <2>2 DEF IsDue, Prompt
  <2> QED
    BY <2>3 DEF NothingDue
<1>2. \A s \in Services : Busy(s) = {} /\ Cardinality(Busy(s)) = 0
  BY <1>1, FS_EmptySet DEF Busy
<1>3. \A s \in Services : queue[s] = <<>>
  BY <1>2, Times DEF NothingDue
<1>4. \A r \in Requests : request[r].state # "queued"
  <2> SUFFICES ASSUME NEW r \in Requests, request[r].state = "queued" PROVE FALSE
    OBVIOUS
  <2>1. request[r].service \in Services
    BY DEF IInv, Slots, Fine
  <2>2. r \in ToSet(queue[request[r].service])
    BY <2>1 DEF IInv, Queues, Waiting
  <2>3. ToSet(<<>>) = {}
    BY DEF ToSet
  <2> QED
    BY <1>3, <2>1, <2>2, <2>3
<1>5. check.state # "asking"
  BY <1>1, <1>4 DEF NothingDue, IInv, Checking, Requests
<1> QED
  BY <1>1, <1>5

LEMMA TickKeeps ==
  ASSUME IInv, Tick
  PROVE  IInv'
<1>1. \A r \in Requests :
        /\ Fine(request'[r])
        /\ request[r].state = "served" =>
             /\ request'[r].state = "served" /\ request'[r].service = request[r].service
        /\ request[r].state = "ended" => request'[r].state = "free"
        /\ request[r].state \notin {"served", "ended"} => request'[r] = request[r]
  BY TickParts, OlderParts DEF IInv, Slots
<1>2. Slots'
  BY <1>1, TickParts DEF Slots
<1>3. \A s \in Services : Waiting(s)' = Waiting(s)
  BY <1>1 DEF Waiting
<1>4. Queues'
  BY <1>3, TickParts DEF IInv, Queues
<1>5. \A s \in Services : Busy(s)' \subseteq Busy(s)
  BY <1>1 DEF Busy
<1>6. Pools'
  BY <1>5, FewerBusy DEF IInv
<1>7. trouble' \in BOOLEAN
  BY TickParts, Zenon
<1>8. Stages'
  <2>1. CASE stage = "dead"
    BY <1>7, <2>1, TickParts, NewCall, Ports DEF IInv, Stages, Probe
  <2>2. CASE stage = "probing"
    <3>1. FineCall(probe) /\ probe.age # Budget(probe)
      BY <2>2, TickParts DEF IInv, Stages, NothingDue, IsDue
    <3> QED
      BY <1>7, <2>2, <3>1, TickParts, CallOlder DEF IInv, Stages
  <2>3. CASE stage = "listening"
    BY <1>7, <2>3, TickParts DEF IInv, Stages
  <2> QED
    BY <2>1, <2>2, <2>3 DEF IInv, Stages
<1>9. Checking'
  <2>1. CASE check.state = "asking"
    <3>1. /\ check = Asking(check.nth, check.of, check.age) /\ check' = [check EXCEPT !.age = @ + 1]
          /\ check.age \in 0 .. CheckTimeout /\ check.age < CheckTimeout
          /\ stage' = "listening" /\ check.of \in Checks /\ check.nth \in 1 .. Len(Order)
          /\ request[check.of].state \in {"queued", "served"}
      BY <2>1, TickParts DEF IInv, Checking, NothingDue
    <3>2. /\ check' = Asking(check.nth, check.of, check.age + 1)
          /\ check'.state = "asking" /\ check'.nth = check.nth /\ check'.of = check.of
          /\ check'.age = check.age + 1
      BY <3>1 DEF Asking
    <3>3. request'[check.of].state \in {"queued", "served"}
      BY <1>1, <3>1 DEF Requests
    <3>4. check.age + 1 \in 0 .. CheckTimeout
      BY <3>1, Times
    <3>5. check' = Asking(check'.nth, check'.of, check'.age)
      BY ONLY <3>2
    <3>6. /\ check'.nth \in 1 .. Len(Order) /\ check'.of \in Checks
          /\ check'.age \in 0 .. CheckTimeout
          /\ request'[check'.of].state \in {"queued", "served", "answered"}
      BY ONLY <3>1, <3>2, <3>3, <3>4, Zenon
    <3>7. check'.state # "idle" /\ check'.state # "done" /\ check'.state # "next"
      BY ONLY <3>2
    <3> QED
      BY ONLY <3>1, <3>2, <3>5, <3>6, <3>7 DEF Checking
  <2>2. CASE check.state = "done"
    BY <2>2, TickParts DEF Checking, Idle
  <2>3. CASE check.state \notin {"asking", "done"}
    BY <2>3, TickParts DEF IInv, Checking, Stages, NothingDue
  <2> QED
    BY <2>1, <2>2, <2>3
<1>10. Untroubled'
  <2> SUFFICES ASSUME ~trouble' PROVE
        /\ stage' = "listening" /\ streak' = 0
        /\ \A s \in Services : silent'[s] = {}
        /\ \A r \in Requests : request'[r].state = "served" => request'[r].call.age = 0
        /\ check'.state = "asking" => check'.age = 0
    BY DEF Untroubled
  <2>1. ~trouble /\ \A s \in Services : silent'[s] = {}
    BY TickParts
  <2>2. check.state # "asking" /\ \A r \in Requests : request[r].state # "served"
    BY <2>1, TickParts, NothingLasts
  <2>3. \A r \in Requests : request'[r].state # "served"
    BY <1>1, <2>2 DEF IInv, Slots, Fine
  <2>4. check'.state # "asking"
    BY <2>2, TickParts DEF Idle
  <2> QED
    BY <2>1, <2>3, <2>4, TickParts DEF IInv, Untroubled
<1> QED
  BY <1>2, <1>4, <1>6, <1>8, <1>9, <1>10 DEF IInv

LEMMA IInvNext == IInv /\ [Next]_vars => IInv'
<1> SUFFICES ASSUME IInv, [Next]_vars PROVE IInv'
  OBVIOUS
<1>1. CASE UNCHANGED vars
  <2>1. /\ request' = request /\ queue' = queue /\ check' = check /\ streak' = streak
        /\ stage' = stage /\ probed' = probed /\ probe' = probe /\ silent' = silent
        /\ trouble' = trouble
    BY <1>1 DEF vars
  <2>2. Slots' /\ Queues' /\ Pools'
    BY <2>1, FewerBusy DEF IInv, Slots, Queues, Waiting, Busy
  <2>3. Stages' /\ Checking' /\ Untroubled'
    BY <2>1 DEF IInv, Stages, Checking, Untroubled
  <2> QED
    BY <2>2, <2>3 DEF IInv
<1>2. CASE Next
  <2>1. CASE ProbeGoesOn \/ ProbeEnds \/ ProbeTimesOut
    BY <2>1, ProbeKeeps DEF ProbeTimesOut
  <2>2. CASE \/ \E r \in Clients, s \in Services, n \in 1 .. MaxCalls : Submit(r, s, n)
             \/ \E s \in Services : Take(s)
             \/ \E r \in Requests : Replies(r) \/ TimesOut(r)
    BY <2>2, RequestKeeps
  <2>3. CASE CheckAsks \/ CheckAnswered \/ CheckTimesOut
    BY <2>3, CheckKeeps
  <2>4. CASE Crash
    BY <2>4, CrashKeeps
  <2>5. CASE Tick
    BY <2>5, TickKeeps
  <2> QED
    BY <1>2, <2>1, <2>2, <2>3, <2>4, <2>5 DEF Next, Step
<1> QED
  BY <1>1, <1>2

LEMMA Inductive == Spec => []IInv
  BY IInvInit, IInvNext, PTL DEF Spec

-----------------------------------------------------------------------------
(* What follows from it.                                                    *)

LEMMA IInvType == IInv => TypeOK
<1> SUFFICES ASSUME IInv PROVE TypeOK
  OBVIOUS
<1>1. /\ stage \in {"dead", "probing", "listening"}
      /\ probed \in 0 .. Probes
      /\ stage = "probing" => probed < Probes /\ probe.age <= Budget(probe)
      /\ silent \in [Services -> SUBSET Instances]
      /\ streak \in 0 .. Retries
  BY DEF IInv, Stages, FineCall
<1>2. \A s \in Services :
        /\ Cardinality(Busy(s)) <= Threads
        /\ IsInjective(queue[s])
        /\ ToSet(queue[s]) =
             {r \in Requests : request[r].state = "queued" /\ request[r].service = s}
  BY DEF IInv, Pools, Queues, Waiting
<1>3. \A r \in Requests :
        request[r].state = "served" =>
          request[r].left \in 1 .. MaxCalls /\ request[r].call.age <= Budget(request[r].call)
  BY DEF IInv, Slots, Fine, FineServed, FineCall
<1>4. check.state = "asking" => check.of \in Checks /\ check.age \in 0 .. CheckTimeout
  BY DEF IInv, Checking
<1> QED
  BY <1>1, <1>2, <1>3, <1>4 DEF TypeOK

\* A port never serves more requests than it has threads, its queue holds the
\* requests that wait for it and each once, and no upstream call outlives its
\* timeout, however steps of Seerr, the instances and Docker interleave
\* (__main__.py:80-93, upstream.py:161-201).
THEOREM TypeCorrect == Spec => []TypeOK
BY Inductive, IInvType, PTL

\* A thread is given back within MaxCalls connect and read timeouts, whatever
\* the instances do (upstream.py:161-201).
THEOREM HoldIsBounded == Spec => []HoldTime
<1>1. IInv => HoldTime
  BY SpentBound DEF IInv, Slots, Fine, HoldTime
<1> QED
  BY <1>1, Inductive, PTL

\* An unhealthy container had a silent instance or a process that was gone: down
\* instances that refuse or answer in time never fail the check (healthcheck.py:3-28).
THEOREM FailuresHaveCause == Spec => []FailureHasCause
<1>1. IInv => FailureHasCause
  BY DEF IInv, Untroubled, Stages, FailureHasCause
<1> QED
  BY <1>1, Inductive, PTL
==============================================================================
