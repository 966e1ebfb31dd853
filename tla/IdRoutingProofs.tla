---------------------------- MODULE IdRoutingProofs ----------------------------
(***************************************************************************)
(* Routing by ID for any offset, any IDs and any requests: the types, and, *)
(* if the requests are unambiguous, that the two instances behind the      *)
(* proxy are one server to Seerr.                                          *)
(***************************************************************************)
EXTENDS IdRouting, NamespaceProofs

-----------------------------------------------------------------------------
(* The ID space.                                                            *)

\* What an instance hands out here is what NamespaceProofs is about.
LEMMA NativeHandedOut ==
  ASSUME NEW i \in Instances, NEW n \in Native
  PROVE  n \in Nat \ {0} /\ n \notin NonIds /\ HandedOut(i, n)
  BY NativeAssumption, OffsetAssumption, NonIdsAssumption DEF HandedOut

\* Different objects are exposed under different IDs.
LEMMA OneOne ==
  ASSUME NEW i \in Instances, NEW j \in Instances, NEW n \in Native, NEW m \in Native,
         Exposed(i, n) = Exposed(j, m)
  PROVE  i = j /\ n = m
  BY NativeHandedOut, NoTwoShareAnId

\* An exposed ID is a natural number.
LEMMA ExposedNat ==
  ASSUME NEW i \in Instances, NEW n \in Native
  PROVE  Exposed(i, n) \in Nat
  BY NativeHandedOut, ExposedValue, OffsetAssumption

\* decode_id turns naturals into naturals and leaves the rest alone.
LEMMA DecodedValue ==
  ASSUME NEW v \in Value
  PROVE  /\ v \in NonIds => decode_id(v).id = v
         /\ v \notin NonIds => decode_id(v).id \in Nat
<1>1. CASE v \in NonIds
  BY <1>1 DEF decode_id
<1>2. CASE v \notin NonIds
  <2>1. v \in Nat /\ Offset \in Nat
    BY <1>2, OffsetAssumption DEF Value
  <2> QED
    BY <1>2, <2>1, DecodedAnime, DecodedEnglish
<1> QED
  BY <1>1, <1>2

\* A request always has a target, and what is sent is numbers or not an ID.
LEMMA TargetIsInstance ==
  ASSUME NEW r
  PROVE  Target(r) \in Instances
  BY DEF Target, AnyAnime, Instances

LEMMA SentIdsNat ==
  ASSUME NEW r \in Request
  PROVE  SentIds(r) \subseteq Nat
<1>1. r.path \cup r.query \cup r.seen \cup r.unseen \cup r.verbatim \subseteq Value
  BY DEF Request, Value
<1>2. Sent(r) \subseteq Value
  <2>1. Decoded(r) \subseteq Value /\ Undecoded(r) \subseteq Value
    BY <1>1 DEF Decoded, Undecoded
  <2>2. \A v \in Value : decode_id(v).id \in Value
    BY DecodedValue DEF Value
  <2> QED
    BY <1>1, <2>1, <2>2 DEF Sent
<1> QED
  BY <1>2 DEF SentIds, Value

\* An unambiguous request names exactly what the instance is sent.
LEMMA NamedIsSent ==
  ASSUME NEW r \in Request, Unambiguous(r), ~IsBroadcast(r)
  PROVE  /\ SentIds(r) \subseteq Native
         /\ Named(r) = {Exposed(Target(r), n) : n \in SentIds(r)}
<1> DEFINE V == Decoded(r) \cup Undecoded(r)
<1>1. V = r.path \cup r.query \cup r.seen \cup r.unseen \cup r.verbatim /\ V \subseteq Value
  BY DEF Request, Value, Decoded, Undecoded
<1>2. Named(r) = V \ NonIds
  BY <1>1 DEF Named
<1>3. SentIds(r) = ({decode_id(v).id : v \in Decoded(r)} \cup Undecoded(r)) \ NonIds
  BY DEF SentIds, Sent
<1>4. \A v \in V \ NonIds : \E n \in Native :
        v = Exposed(Target(r), n) /\ decode_id(v).id = n /\ n \notin NonIds
  <2> TAKE v \in V \ NonIds
  <2>1. PICK n \in Native : v = Exposed(Target(r), n)
    BY <1>2 DEF Unambiguous
  <2>2. n \in Nat /\ n \notin NonIds /\ HandedOut(Target(r), n)
    BY NativeHandedOut, TargetIsInstance
  <2>3. decode_id(v) = [owner |-> Target(r), id |-> n]
    BY <2>1, <2>2, TargetIsInstance, RoundTrip
  <2> QED
    BY <2>1, <2>2, <2>3
<1>5. \A v \in V \cap NonIds : decode_id(v).id \in NonIds
  BY <1>1, DecodedValue
\* An ID that goes out undecoded is English, and there is nothing to decode.
<1>5a. \A v \in Undecoded(r) \ NonIds : decode_id(v).id = v
  <2>1. CASE Target(r) = Anime
    BY <2>1 DEF Unambiguous
  <2>2. CASE Target(r) # Anime
    <3>1. \A n \in Native : Exposed(Target(r), n) = n
      BY <2>2, NativeHandedOut, ExposedValue, TargetIsInstance DEF Instances
    <3> QED
      BY <1>4, <3>1
  <2> QED
    BY <2>1, <2>2
<1> HIDE DEF V
<1>6. SentIds(r) = {decode_id(v).id : v \in V \ NonIds}
  <2>1. Decoded(r) \cup Undecoded(r) = V
    BY DEF V
  <2> QED
    BY ONLY <1>3, <1>4, <1>5, <1>5a, <2>1
<1>7. SentIds(r) \subseteq Native
  BY <1>4, <1>6
<1>8. Named(r) = {Exposed(Target(r), n) : n \in SentIds(r)}
  BY <1>2, <1>4, <1>6
<1> QED
  BY <1>7, <1>8

-----------------------------------------------------------------------------
(* Both instances seen as one.                                              *)

\* What an instance has of some IDs is what the one server has of them.
LEMMA HasInOne ==
  ASSUME NEW T \in [Instances -> SUBSET Native], NEW i \in Instances,
         NEW S \in SUBSET Native
  PROVE  {Exposed(i, n) : n \in S} \cap InOne(T) = {Exposed(i, n) : n \in S \cap T[i]}
<1>1. \A n \in S : Exposed(i, n) \in InOne(T) <=> n \in T[i]
  <2> TAKE n \in S
  <2>1. ASSUME NEW j \in Instances, NEW m \in T[j], Exposed(i, n) = Exposed(j, m)
        PROVE  n \in T[i]
    <3>1. m \in Native
      OBVIOUS
    <3> QED
      BY <2>1, <3>1, OneOne
  <2> QED
    BY <2>1 DEF InOne
<1> QED
  BY <1>1

\* Taking titles from one instance takes them from the one server.
LEMMA TakenFromOne ==
  ASSUME NEW T \in [Instances -> SUBSET Native], NEW i \in Instances,
         NEW S \in SUBSET Native
  PROVE  InOne([T EXCEPT ![i] = @ \ S]) = InOne(T) \ {Exposed(i, n) : n \in S}
<1> DEFINE U == [T EXCEPT ![i] = @ \ S]
<1>1. \A j \in Instances : U[j] = IF j = i THEN T[i] \ S ELSE T[j]
  OBVIOUS
<1>2. ASSUME NEW j \in Instances, NEW m \in U[j]
      PROVE  Exposed(j, m) \in InOne(T) \ {Exposed(i, n) : n \in S}
  <2>1. m \in T[j] /\ m \in Native /\ (j = i => m \notin S)
    BY <1>1, <1>2
  <2>2. \A n \in S : Exposed(j, m) # Exposed(i, n)
    BY <2>1, OneOne
  <2> QED
    BY <2>1, <2>2 DEF InOne
<1>3. ASSUME NEW j \in Instances, NEW m \in T[j],
             Exposed(j, m) \notin {Exposed(i, n) : n \in S}
      PROVE  m \in U[j]
  BY <1>1, <1>3
<1> HIDE DEF U
<1>4. InOne(U) = InOne(T) \ {Exposed(i, n) : n \in S}
  BY <1>2, <1>3 DEF InOne
<1> QED
  BY <1>4 DEF U

\* A title that appears on an instance appears on the one server.
LEMMA AddedToOne ==
  ASSUME NEW T \in [Instances -> SUBSET Native], NEW i \in Instances, NEW n \in Native
  PROVE  InOne([T EXCEPT ![i] = @ \cup {n}]) = InOne(T) \cup {Exposed(i, n)}
<1> DEFINE U == [T EXCEPT ![i] = @ \cup {n}]
<1>1. \A j \in Instances : U[j] = IF j = i THEN T[i] \cup {n} ELSE T[j]
  OBVIOUS
<1> HIDE DEF U
<1>2. InOne(U) = InOne(T) \cup {Exposed(i, n)}
  BY <1>1 DEF InOne
<1> QED
  BY <1>2 DEF U

\* The same for jobs: a job of an instance is a job of the one server, under an
\* ID of its own.
LEMMA JobsHaveIds ==
  ASSUME NEW J \in [Instances -> SUBSET Job], NEW i \in Instances, NEW n \in Native,
         NEW x \in JobsInOne(J), x.id = Exposed(i, n)
  PROVE  \E j \in J[i] : x = JobInOne(i, j) /\ j.id = n
<1>1. PICK k \in Instances : \E j \in J[k] : x = JobInOne(k, j)
  BY DEF JobsInOne
<1>2. PICK j \in J[k] : x = JobInOne(k, j)
  BY <1>1
<1>3. j.id \in Native /\ Exposed(k, j.id) = Exposed(i, n)
  BY <1>2 DEF JobInOne, Job
<1>4. k = i /\ j.id = n
  BY <1>3, OneOne
<1> QED
  BY <1>2, <1>4

LEMMA JobIsInOne ==
  ASSUME NEW J \in [Instances -> SUBSET Job], NEW i \in Instances, NEW j \in J[i]
  PROVE  JobInOne(i, j) \in JobsInOne(J) /\ JobInOne(i, j).id = Exposed(i, j.id)
<1>1. JobInOne(i, j) \in JobsInOne(J)
  BY DEF JobsInOne
<1>2. JobInOne(i, j).id = Exposed(i, j.id)
  BY DEF JobInOne
<1> QED
  BY <1>1, <1>2

LEMMA JobsFound ==
  ASSUME NEW J \in [Instances -> SUBSET Job], NEW i \in Instances,
         NEW S \in SUBSET Native
  PROVE  {Exposed(i, n) : n \in S} \cap {x.id : x \in JobsInOne(J)}
           = {Exposed(i, n) : n \in S \cap {j.id : j \in J[i]}}
<1>1. \A n \in S : Exposed(i, n) \in {x.id : x \in JobsInOne(J)}
                     <=> n \in {j.id : j \in J[i]}
  BY JobsHaveIds, JobIsInOne
<1> QED
  BY <1>1

LEMMA JobsCancelled ==
  ASSUME NEW J \in [Instances -> SUBSET Job], NEW i \in Instances,
         NEW S \in SUBSET Native
  PROVE  JobsInOne([J EXCEPT ![i] = {j \in @ : j.id \notin S}])
           = {x \in JobsInOne(J) : x.id \notin {Exposed(i, n) : n \in S}}
<1> DEFINE K == [J EXCEPT ![i] = {j \in @ : j.id \notin S}]
           Gone == {Exposed(i, n) : n \in S}
<1>1. \A k \in Instances : K[k] = IF k = i THEN {j \in J[i] : j.id \notin S} ELSE J[k]
  OBVIOUS
<1>2. ASSUME NEW k \in Instances, NEW j \in K[k]
      PROVE  JobInOne(k, j) \in JobsInOne(J) /\ JobInOne(k, j).id \notin Gone
  <2>1. j \in J[k] /\ j.id \in Native /\ (k = i => j.id \notin S)
    BY <1>1, <1>2 DEF Job
  <2>2. \A n \in S : Exposed(k, j.id) # Exposed(i, n)
    BY <2>1, OneOne
  <2> QED
    BY <2>1, <2>2, JobIsInOne
<1>3. ASSUME NEW k \in Instances, NEW j \in J[k], JobInOne(k, j).id \notin Gone
      PROVE  j \in K[k]
  BY <1>1, <1>3, JobIsInOne
<1> HIDE DEF K, Gone
<1>4. ASSUME NEW x \in JobsInOne(K)
      PROVE  x \in JobsInOne(J) /\ x.id \notin Gone
  BY <1>2, <1>4 DEF JobsInOne
<1>5. ASSUME NEW x \in JobsInOne(J), x.id \notin Gone
      PROVE  x \in JobsInOne(K)
  <2>1. PICK k \in Instances : \E j \in J[k] : x = JobInOne(k, j)
    BY <1>5 DEF JobsInOne
  <2>2. PICK j \in J[k] : x = JobInOne(k, j)
    BY <2>1
  <2> QED
    BY <1>3, <1>5, <2>2 DEF JobsInOne
<1>6. JobsInOne(K) = {x \in JobsInOne(J) : x.id \notin Gone}
  BY <1>4, <1>5
<1> QED
  BY <1>6 DEF K, Gone

LEMMA JobAdded ==
  ASSUME NEW J \in [Instances -> SUBSET Job], NEW i \in Instances, NEW j
  PROVE  JobsInOne([J EXCEPT ![i] = @ \cup {j}]) = JobsInOne(J) \cup {JobInOne(i, j)}
<1> DEFINE K == [J EXCEPT ![i] = @ \cup {j}]
<1>1. \A k \in Instances : K[k] = IF k = i THEN J[i] \cup {j} ELSE J[k]
  OBVIOUS
<1> HIDE DEF K
<1>2. JobsInOne(K) = JobsInOne(J) \cup {JobInOne(i, j)}
  BY <1>1 DEF JobsInOne
<1> QED
  BY <1>2 DEF K

LEMMA JobEnded ==
  ASSUME NEW J \in [Instances -> SUBSET Job], NEW i \in Instances, NEW j \in J[i],
         \A k \in J[i] : k.id = j.id => k = j
  PROVE  JobsInOne([J EXCEPT ![i] = @ \ {j}]) = JobsInOne(J) \ {JobInOne(i, j)}
<1> DEFINE K == [J EXCEPT ![i] = @ \ {j}]
<1>1. \A k \in Instances : K[k] = IF k = i THEN J[i] \ {j} ELSE J[k]
  OBVIOUS
<1>2. ASSUME NEW k \in Instances, NEW m \in K[k]
      PROVE  JobInOne(k, m) \in JobsInOne(J) /\ JobInOne(k, m) # JobInOne(i, j)
  <2>1. m \in J[k] /\ m.id \in Native /\ j.id \in Native /\ (k = i => m.id # j.id)
    BY <1>1, <1>2 DEF Job
  <2>2. Exposed(k, m.id) # Exposed(i, j.id)
    BY <2>1, OneOne
  <2> QED
    BY <2>1, <2>2, JobIsInOne
<1>3. ASSUME NEW k \in Instances, NEW m \in J[k], JobInOne(k, m) # JobInOne(i, j)
      PROVE  m \in K[k]
  BY <1>1, <1>3
<1> HIDE DEF K
<1>4. JobsInOne(K) = JobsInOne(J) \ {JobInOne(i, j)}
  BY <1>2, <1>3 DEF JobsInOne
<1> QED
  BY <1>4 DEF K

\* Pairs of an instance and an ID, as the one server's IDs.
LEMMA PairsOf ==
  ASSUME NEW i, NEW S
  PROVE  PairsInOne({<<i, n>> : n \in S}) = {Exposed(i, n) : n \in S}
<1> DEFINE Pairs == {<<i, n>> : n \in S}
<1>1. \A n \in S : <<i, n>> \in Pairs /\ <<i, n>>[1] = i /\ <<i, n>>[2] = n
  OBVIOUS
<1>2. \A p \in Pairs : \E n \in S : p[1] = i /\ p[2] = n
  OBVIOUS
<1> HIDE DEF Pairs
<1>3. PairsInOne(Pairs) = {Exposed(i, n) : n \in S}
  BY <1>1, <1>2 DEF PairsInOne
<1> QED
  BY <1>3 DEF Pairs

LEMMA PairAdded ==
  ASSUME NEW P, NEW i, NEW n
  PROVE  PairsInOne(P \cup {<<i, n>>}) = PairsInOne(P) \cup {Exposed(i, n)}
<1> DEFINE new == <<i, n>>
<1>1. new[1] = i /\ new[2] = n
  OBVIOUS
<1> HIDE DEF new
<1>2. PairsInOne(P \cup {new}) = PairsInOne(P) \cup {Exposed(new[1], new[2])}
  BY DEF PairsInOne
<1> QED
  BY <1>1, <1>2 DEF new

-----------------------------------------------------------------------------
(* Types.                                                                   *)

\* The answers of the handlers are answers.
LEMMA RepliesAreReplies ==
  ASSUME NEW code, NEW ids \in SUBSET Nat, NEW codes, code \in codes
  PROVE  IsReply(Reply(code, ids), codes)
  BY DEF IsReply, Reply

LEMMA ErrorsAreReplies ==
  ASSUME NEW code, NEW codes, code \in codes
  PROVE  IsReply(Error(code), codes)
  BY RepliesAreReplies DEF Error

\* An answer may be judged by more codes than it was known to be of.
LEMMA RepliesWiden ==
  ASSUME NEW a, NEW codes, NEW more, IsReply(a, codes), codes \subseteq more
  PROVE  IsReply(a, more)
  BY DEF IsReply

LEMMA NoRequestIsRequest == NoRequest \in Request
  BY DEF NoRequest, Request, Routes, Gates

\* A forwarded request leaves the handler's own variables typed.
LEMMA ForwardsTyped ==
  ASSUME TypeOK, NEW i \in Instances, NEW want, Forwards(i, want)
  PROVE  /\ pc' = "idle" /\ q' = q /\ q' \in Request
         /\ results' = results
         /\ calls' \in [Instances -> Nat]
  BY DEF TypeOK, Forwards, Asks

LEMMA BroadcastTyped ==
  ASSUME TypeOK, NEW i \in Instances, NEW reply, IsReply(reply, ResultCodes),
         Broadcast(i, reply)
  PROVE  /\ pc' \in {"idle", Anime} /\ q' = q /\ q' \in Request /\ q.gate = "open"
         /\ DOMAIN results' = Instances
         /\ \A k \in Instances : IsReply(results'[k], ResultCodes)
         /\ calls' \in [Instances -> Nat]
         /\ IsReply(answer', {0, 200, 201, 401, 404, 413, 500, 502})
         /\ touched' = touched
<1>1. pc = i /\ i \in {English, Anime} /\ i \notin {"idle", "gate"}
  BY DEF Broadcast, Instances, English, Anime
<1>2. pc' \in {"idle", Anime} /\ q' = q /\ q' \in Request /\ q.gate = "open" /\ touched' = touched
  BY <1>1 DEF TypeOK, Broadcast
<1>3. DOMAIN results' = Instances /\ \A k \in Instances : IsReply(results'[k], ResultCodes)
  BY DEF TypeOK, Broadcast
<1>4. calls' \in [Instances -> Nat]
  BY DEF TypeOK, Broadcast, Asks
<1>5. IsReply(answer', {0, 200, 201, 401, 404, 413, 500, 502})
  <2>1. CASE answer' = answer
    BY <2>1 DEF TypeOK
  <2>2. CASE answer' = BroadcastAnswer(results')
    <3>1. English \in Instances /\ Anime \in Instances
      BY DEF Instances
    <3>2. answer' = results'[English] \/ answer' = results'[Anime] \/ answer' = Error(502)
      BY <2>2 DEF BroadcastAnswer
    <3> QED
      BY <1>3, <3>1, <3>2, ErrorsAreReplies, RepliesWiden DEF ResultCodes, HttpErrors
  <2> QED
    BY <2>1, <2>2 DEF Broadcast
<1> QED
  BY <1>1, <1>2, <1>3, <1>4, <1>5

\* What is exposed to Seerr is a set of numbers.
LEMMA ExposedSet ==
  ASSUME NEW i \in Instances, NEW S \in SUBSET Native
  PROVE  {Exposed(i, n) : n \in S} \subseteq Nat
  BY ExposedNat

LEMMA TypeInit == Init => TypeOK
  BY NoRequestIsRequest, ErrorsAreReplies
     DEF Init, TypeOK, NoReply, ResultCodes

\* Each action keeps the types.
LEMMA TypeStep == TypeOK /\ [Next]_vars => TypeOK'
<1> SUFFICES ASSUME TypeOK, [Next]_vars PROVE TypeOK'
  OBVIOUS
<1> DEFINE Codes == {0, 200, 201, 401, 404, 413, 500, 502}
<1>1. ASSUME NEW r \in Requests, Receive(r) PROVE TypeOK'
  BY <1>1, ErrorsAreReplies, RequestsAssumption DEF TypeOK, Receive, NoReply, instances, ResultCodes
<1>2. CASE refused
  <2>1. GateCode[q.gate] \in Codes
    <3>1. q.gate \in Gates
      BY DEF TypeOK, Request
    <3> QED
      BY <1>2, <3>1 DEF refused, GateCode, Gates
  <2>2. IsReply(answer', Codes)
    BY <1>2, <2>1, ErrorsAreReplies DEF refused
  <2> QED
    BY <1>2, <2>2 DEF TypeOK, refused, instances, history
<1>3. CASE admitted
  BY <1>3 DEF TypeOK, admitted, instances, history, Instances
<1>4. ASSUME NEW i \in Instances, Handle(i) PROVE TypeOK'
  <2>1. SentIds(q) \subseteq Nat
    BY SentIdsNat DEF TypeOK
  <2>2. Hit(i) \in SUBSET Native /\ {<<i, n>> : n \in Hit(i)} \subseteq Instances \X Native
    <3>1. Hit(i) \in SUBSET Native
      BY DEF Hit, TypeOK
    <3> QED
      BY <3>1
  <2>3. {Exposed(i, n) : n \in Hit(i)} \subseteq Nat
    BY <2>2, ExposedSet
  <2>4. Native \subseteq Nat
    BY NativeHandedOut DEF Instances
  <2>5. \A a \in Replies({}) : IsReply(a, Codes)
    BY RepliesAreReplies, ErrorsAreReplies DEF Replies
  <2>6. CASE read_forwarded(i)
    <3>1. IsReply(answer', Codes)
      <4>1. Hit(i) \in SUBSET Nat /\ {Exposed(i, n) : n \in Hit(i)} \in SUBSET Nat
        BY <2>2, <2>3, <2>4
      <4>2. answer' = Reply(200, {Exposed(i, n) : n \in Hit(i)})
        BY <2>6 DEF read_forwarded, EncodedReply
      <4> QED
        BY <4>1, <4>2, RepliesAreReplies
    <3> QED
      BY <2>6, <3>1, ForwardsTyped DEF TypeOK, read_forwarded, instances
  <2>7. CASE delete_forwarded(i)
    BY <2>2, <2>5, <2>7, ForwardsTyped DEF TypeOK, delete_forwarded, Touches
  <2>8. CASE edit_forwarded(i)
    BY <2>2, <2>5, <2>8, ForwardsTyped DEF TypeOK, edit_forwarded, Touches, instances
  <2>9. CASE poll_forwarded(i)
    <3> DEFINE S == SentIds(q) \cap {j.id : j \in jobs[i]}
    <3>1. S \in SUBSET Native
      <4>1. \A j \in jobs[i] : j.id \in Native
        BY DEF TypeOK, Job
      <4> QED
        BY <4>1
    <3>2. IsReply(answer', Codes)
      <4>1. answer' = Reply(200, {Exposed(i, n) : n \in S})
        BY <2>9 DEF poll_forwarded, EncodedReply
      <4>2. {Exposed(i, n) : n \in S} \in SUBSET Nat
        BY <3>1, ExposedSet
      <4> HIDE DEF S
      <4> QED
        BY <4>1, <4>2, RepliesAreReplies
    <3> QED
      BY <2>9, <3>2, ForwardsTyped DEF TypeOK, poll_forwarded, instances
  <2>10. CASE cancel_forwarded(i)
    BY <2>5, <2>10, ForwardsTyped DEF TypeOK, cancel_forwarded
  <2>11. ASSUME NEW n \in Native, Begins(i, n)
         PROVE  /\ jobs' \in [Instances -> SUBSET Job]
                /\ started' \subseteq Instances \X Native
                /\ titles' = titles
    <3>1. [id |-> n, about |-> SentIds(q)] \in Job
      BY <2>1 DEF Job
    <3> QED
      BY <2>11, <3>1 DEF TypeOK, Begins
  <2>12. ASSUME NEW n \in Native, command_forwarded(i, n) PROVE TypeOK'
    <3>1. IsReply(answer', Codes)
      <4>1. {Exposed(i, n)} \subseteq Nat
        BY ExposedNat
      <4> QED
        BY <2>12, <4>1, RepliesAreReplies, ErrorsAreReplies DEF command_forwarded, Replies
    <3> QED
      BY <2>2, <2>11, <2>12, <3>1, ForwardsTyped DEF TypeOK, command_forwarded, Touches
  <2>13. ASSUME NEW n \in Native, broadcast_taken(i, n) PROVE TypeOK'
    <3>1. PICK reply \in {Reply(201, {Exposed(i, n)}), NoReply} : Broadcast(i, reply)
      BY <2>13 DEF broadcast_taken
    <3>2. IsReply(reply, ResultCodes)
      <4>1. {Exposed(i, n)} \subseteq Nat
        BY ExposedNat
      <4> QED
        BY <3>1, <4>1, RepliesAreReplies, ErrorsAreReplies DEF NoReply, ResultCodes
    <3> QED
      BY <2>11, <2>13, <3>1, <3>2, BroadcastTyped DEF TypeOK, broadcast_taken, Instances
  <2>14. CASE failed(i)
    BY <2>14, ForwardsTyped, ErrorsAreReplies DEF TypeOK, failed, instances
  <2>15. CASE broadcast_failed(i)
    <3>1. PICK reply \in {Error(code) : code \in HttpErrors} \cup {NoReply} : Broadcast(i, reply)
      BY <2>15 DEF broadcast_failed
    <3>2. IsReply(reply, ResultCodes)
      BY <3>1, ErrorsAreReplies DEF NoReply, HttpErrors, ResultCodes
    <3> QED
      BY <2>15, <3>1, <3>2, BroadcastTyped DEF TypeOK, broadcast_failed, instances, Instances
  <2> QED
    BY <1>4, <2>6, <2>7, <2>8, <2>9, <2>10, <2>12, <2>13, <2>14, <2>15 DEF Handle
<1>5. ASSUME NEW i \in Instances, Environment(i) PROVE TypeOK'
  BY <1>5 DEF TypeOK, Environment, UiAdd, UiRemove, JobEnds, history
<1>6. CASE Restart
  BY <1>6, ErrorsAreReplies DEF TypeOK, Restart, NoReply, instances, history
<1>7. CASE UNCHANGED vars
  BY <1>7 DEF TypeOK, vars, instances, history
<1> QED
  BY <1>1, <1>2, <1>3, <1>4, <1>5, <1>6, <1>7 DEF Next

\* Every variable keeps its type, whatever is asked and whatever fails.
THEOREM TypeCorrect == Spec => []TypeOK
  BY TypeInit, TypeStep, PTL DEF Spec

-----------------------------------------------------------------------------
(* The invariant of the refinement.                                         *)

\* Where the handler is tells what kind of request it has; it acts last.
Phases ==
  /\ q \in Requests \cup {NoRequest}
  /\ pc \in Instances => IsBroadcast(q)
  /\ pc = "forward" => ~IsBroadcast(q)
  /\ pc # "idle" => answer = NoReply /\ touched = {}

\* An instance gives every job an ID of its own.
DistinctJobs == \A i \in Instances : \A j, k \in jobs[i] : j.id = k.id => j = k

\* A reply to a broadcast names the job it started, or has no ID in it.
Honest(i, reply, done) ==
  \/ reply.code \in {0} \cup HttpErrors /\ reply.ids = {}
  \/ /\ reply.code = 201
     /\ \E n \in Native : <<i, n>> \in done /\ reply.ids = {Exposed(i, n)}

HonestResults == \A i \in Instances : Honest(i, results[i], started)

IInv == TypeOK /\ Phases /\ DistinctJobs /\ HonestResults

LEMMA HonestGrows ==
  ASSUME NEW i, NEW reply, NEW S, NEW T, S \subseteq T, Honest(i, reply, S)
  PROVE  Honest(i, reply, T)
BY DEF Honest

LEMMA HonestWithoutIds ==
  ASSUME NEW i, NEW reply, NEW S, reply.code \in {0} \cup HttpErrors, reply.ids = {}
  PROVE  Honest(i, reply, S)
BY DEF Honest

LEMMA IInvInit == Init => IInv
<1> SUFFICES ASSUME Init PROVE IInv
  OBVIOUS
<1>1. TypeOK
  BY TypeInit
<1>2. Phases
  BY DEF Init, Phases, Instances, English, Anime
<1>3. DistinctJobs /\ HonestResults
  BY DEF Init, DistinctJobs, HonestResults, Honest, NoReply, Error, Reply
<1> QED
  BY <1>1, <1>2, <1>3 DEF IInv

\* What a step of a broadcast does to the handler.
LEMMA BroadcastKeeps ==
  ASSUME IInv, NEW i \in Instances, NEW reply, Broadcast(i, reply)
  PROVE  Phases' /\ results' = [results EXCEPT ![i] = reply]
<1>1. pc = i /\ q' = q /\ IsBroadcast(q) /\ answer = NoReply /\ touched = {} /\ touched' = {}
  BY DEF IInv, Phases, Broadcast, Instances, English, Anime
<1>2. \/ pc' = Anime /\ answer' = answer
      \/ pc' = "idle"
  BY DEF Broadcast
<1> QED
  BY <1>1, <1>2
     DEF IInv, Phases, Broadcast, Instances, English, Anime

\* The end of a forwarded request.
LEMMA ForwardsKeeps ==
  ASSUME IInv, NEW i \in Instances, NEW want, Forwards(i, want), started \subseteq started'
  PROVE  Phases' /\ HonestResults'
<1>1. Phases'
  BY DEF IInv, Phases, Forwards, Instances, English, Anime
<1>2. HonestResults'
  <2>1. results' = results
    BY DEF Forwards
  <2> QED
    BY <2>1, HonestGrows DEF IInv, HonestResults
<1> QED
  BY <1>1, <1>2

LEMMA BeginsKeeps ==
  ASSUME IInv, NEW i \in Instances, NEW n \in Native, Begins(i, n)
  PROVE  DistinctJobs' /\ started \subseteq started' /\ <<i, n>> \in started'
<1>1. DistinctJobs'
  BY DEF IInv, TypeOK, DistinctJobs, Begins
<1>2. started \subseteq started' /\ <<i, n>> \in started'
  BY DEF Begins
<1> QED
  BY <1>1, <1>2

LEMMA IInvStep == IInv /\ [Next]_vars => IInv'
<1> SUFFICES ASSUME IInv, [Next]_vars PROVE IInv'
  OBVIOUS
<1>0. TypeOK'
  BY TypeStep DEF IInv
<1>1. ASSUME NEW r \in Requests, Receive(r) PROVE IInv'
  <2>1. Phases' /\ DistinctJobs'
    BY <1>1 DEF IInv, Phases, DistinctJobs, Receive, instances,
                Instances, English, Anime
  <2>2. HonestResults'
    BY <1>1 DEF HonestResults, Honest, Receive, NoReply, Error, Reply
  <2> QED
    BY <1>0, <2>1, <2>2 DEF IInv
<1>2. CASE refused
  <2>1. Phases'
    BY <1>2 DEF IInv, Phases, refused, history, Instances, English, Anime
  <2>2. results' = results /\ started' = started /\ jobs' = jobs
    BY <1>2 DEF refused, instances, history
  <2>3. DistinctJobs' /\ HonestResults'
    BY <2>2 DEF IInv, DistinctJobs, HonestResults
  <2> QED
    BY <1>0, <2>1, <2>3 DEF IInv
<1>3. CASE admitted
  <2>1. Phases'
    BY <1>3 DEF IInv, Phases, admitted, history, Instances, English, Anime
  <2>2. DistinctJobs' /\ HonestResults'
    BY <1>3 DEF IInv, DistinctJobs, HonestResults, admitted, instances, history
  <2> QED
    BY <1>0, <2>1, <2>2 DEF IInv
<1>4. ASSUME NEW i \in Instances, Handle(i) PROVE IInv'
  <2>1. CASE read_forwarded(i) \/ edit_forwarded(i) \/ delete_forwarded(i) \/ failed(i)
             \/ poll_forwarded(i)
    <3>1. started' = started /\ jobs' = jobs
      BY <2>1 DEF read_forwarded, edit_forwarded, delete_forwarded, failed, poll_forwarded, instances
    <3>2. \E want : Forwards(i, want)
      BY <2>1 DEF read_forwarded, edit_forwarded, delete_forwarded, failed, poll_forwarded
    <3>3. DistinctJobs'
      BY <3>1 DEF IInv, DistinctJobs
    <3> QED
      BY <1>0, <3>1, <3>2, <3>3, ForwardsKeeps DEF IInv
  <2>2. CASE cancel_forwarded(i)
    <3>1. DistinctJobs'
      BY <2>2 DEF IInv, TypeOK, DistinctJobs, cancel_forwarded
    <3> QED
      BY <1>0, <2>2, <3>1, ForwardsKeeps DEF IInv, cancel_forwarded
  <2>3. ASSUME NEW n \in Native, command_forwarded(i, n) PROVE IInv'
    BY <1>0, <2>3, BeginsKeeps, ForwardsKeeps DEF IInv, command_forwarded
  <2>4. ASSUME NEW n \in Native, broadcast_taken(i, n) PROVE IInv'
    <3>1. PICK reply \in {Reply(201, {Exposed(i, n)}), NoReply} : Broadcast(i, reply)
      BY <2>4 DEF broadcast_taken
    <3>2. DistinctJobs' /\ started \subseteq started' /\ <<i, n>> \in started'
      BY <2>4, BeginsKeeps DEF broadcast_taken
    <3>3. Phases' /\ results' = [results EXCEPT ![i] = reply]
      BY <3>1, BroadcastKeeps
    <3>4. \/ reply.code = 0 /\ reply.ids = {}
          \/ reply.code = 201 /\ reply.ids = {Exposed(i, n)}
      BY <3>1 DEF NoReply, Error, Reply
    <3>5. HonestResults'
      <4>1. Honest(i, reply, started')
        BY <3>2, <3>4 DEF Honest
      <4>2. \A k \in Instances : results'[k] = IF k = i THEN reply ELSE results[k]
        BY <3>3 DEF IInv, TypeOK
      <4> QED
        BY <3>2, <4>1, <4>2, HonestGrows DEF IInv, HonestResults
    <3> QED
      BY <1>0, <3>2, <3>3, <3>5 DEF IInv
  <2>5. CASE broadcast_failed(i)
    <3>1. PICK reply \in {Error(code) : code \in HttpErrors} \cup {NoReply} : Broadcast(i, reply)
      BY <2>5 DEF broadcast_failed
    <3>2. Phases' /\ results' = [results EXCEPT ![i] = reply]
      BY <3>1, BroadcastKeeps
    <3>3. reply.code \in {0} \cup HttpErrors /\ reply.ids = {}
      BY <3>1 DEF NoReply, Error, Reply
    <3>4. started' = started /\ jobs' = jobs
      BY <2>5 DEF broadcast_failed, instances
    <3>5. DistinctJobs'
      BY <3>4 DEF IInv, DistinctJobs
    <3>6. \A k \in Instances : results'[k] = IF k = i THEN reply ELSE results[k]
      BY <3>2 DEF IInv, TypeOK
    <3>7. HonestResults'
      <4>1. Honest(i, reply, started')
        BY <3>3, HonestWithoutIds
      <4> QED
        BY <3>4, <3>6, <4>1 DEF IInv, HonestResults
    <3> QED
      BY <1>0, <3>2, <3>5, <3>7 DEF IInv
  <2> QED
    BY <1>4, <2>1, <2>2, <2>3, <2>4, <2>5 DEF Handle
<1>5. ASSUME NEW i \in Instances, Environment(i) PROVE IInv'
  <2>1. Phases' /\ HonestResults'
    <3>1. /\ q' = q /\ pc' = pc /\ answer' = answer /\ touched' = touched
          /\ results' = results /\ started' = started
      BY <1>5 DEF Environment, UiAdd, UiRemove, JobEnds, history
    <3> QED
      BY <3>1 DEF IInv, Phases, HonestResults
  <2>2. DistinctJobs'
    BY <1>5 DEF IInv, TypeOK, DistinctJobs, Environment, UiAdd, UiRemove, JobEnds
  <2> QED
    BY <1>0, <2>1, <2>2 DEF IInv
<1>6. CASE Restart
  <2>1. Phases'
    BY <1>6 DEF IInv, Phases, Restart, history, Instances, English, Anime
  <2>2. DistinctJobs' /\ HonestResults'
    BY <1>6 DEF IInv, DistinctJobs, HonestResults, Restart, instances, history
  <2> QED
    BY <1>0, <2>1, <2>2 DEF IInv
<1>7. CASE UNCHANGED vars
  BY <1>0, <1>7 DEF IInv, Phases, DistinctJobs, HonestResults,
                    vars, instances, history
<1> QED
  BY <1>1, <1>2, <1>3, <1>4, <1>5, <1>6, <1>7 DEF Next

-----------------------------------------------------------------------------
(* Which instances a request asks.                                          *)

\* No instance is asked twice, or for a request that is refused.  While it is under
\* way, where the handler is tells whom it has asked.
Calls ==
  /\ \A i \in Instances : calls[i] <= 1
  /\ q.gate # "open" => \A i \in Instances : calls[i] = 0
  /\ pc \in {"gate", "forward", English} => \A i \in Instances : calls[i] = 0
  /\ pc = Anime => calls[English] = 1 /\ calls[Anime] = 0
  /\ pc = "idle" /\ answer.code # 0 /\ q.gate = "open" =>
       \A i \in Instances : calls[i] = IF IsBroadcast(q) \/ i = Target(q) THEN 1 ELSE 0

AskInv == IInv /\ Calls

LEMMA TwoInstances ==
  /\ Instances = {English, Anime} /\ English # Anime
  /\ English \in Instances /\ Anime \in Instances
  /\ English # "idle" /\ English # "gate" /\ English # "forward"
  /\ Anime # "idle" /\ Anime # "gate" /\ Anime # "forward"
BY DEF Instances, English, Anime

\* A request that is forwarded asks its target.
LEMMA ForwardsAsks ==
  ASSUME AskInv, NEW i \in Instances, NEW want, Forwards(i, want)
  PROVE  Calls'
<1>1. /\ pc = "forward" /\ pc' = "idle" /\ q' = q /\ i = Target(q)
      /\ ~IsBroadcast(q) /\ q.gate = "open"
  BY TwoInstances DEF Forwards, AskInv, IInv, TypeOK, Phases
<1>2. \A k \in Instances : calls[k] = 0 /\ calls'[k] = IF k = i THEN 1 ELSE 0
  BY <1>1 DEF Forwards, Asks, AskInv, Calls, IInv, TypeOK
<1>3. Target(q') = Target(q) /\ IsBroadcast(q') = IsBroadcast(q)
  BY <1>1
<1> QED
  BY <1>1, <1>2, <1>3, TwoInstances DEF Calls

\* A broadcast asks the English instance and then the anime one.
LEMMA BroadcastAsks ==
  ASSUME AskInv, NEW i \in Instances, NEW reply, Broadcast(i, reply)
  PROVE  Calls'
<1>1. /\ pc = i /\ q' = q /\ IsBroadcast(q) /\ q.gate = "open" /\ DOMAIN results = Instances
      /\ calls \in [Instances -> Nat]
  BY TwoInstances DEF Broadcast, AskInv, IInv, TypeOK, Phases, IsReply
<1>2. \A k \in Instances : calls'[k] = IF k = i THEN calls[k] + 1 ELSE calls[k]
  BY <1>1 DEF Broadcast, Asks
<1>3. Target(q') = Target(q) /\ IsBroadcast(q') = IsBroadcast(q)
  BY <1>1
<1>4. CASE i = English
  <2>1. pc' = Anime /\ \A k \in Instances : calls[k] = 0
    BY <1>1, <1>4 DEF Broadcast, AskInv, Calls
  <2>2. calls'[English] = 1 /\ calls'[Anime] = 0
    BY <1>2, <1>4, <2>1, TwoInstances
  <2> QED
    BY <1>1, <2>1, <2>2, TwoInstances DEF Calls
<1>5. CASE i = Anime
  <2>1. /\ pc' = "idle" /\ answer' = BroadcastAnswer(results')
        /\ calls[English] = 1 /\ calls[Anime] = 0
    BY <1>1, <1>5, TwoInstances DEF Broadcast, AskInv, Calls
  <2>2. \A k \in Instances : calls'[k] = 1
    BY <1>2, <1>5, <2>1, TwoInstances
  <2> QED
    BY <1>1, <1>3, <2>1, <2>2, TwoInstances DEF Calls
<1> QED
  BY <1>4, <1>5, TwoInstances

LEMMA AskInit == Init => AskInv
<1> SUFFICES ASSUME Init PROVE Calls
  BY IInvInit DEF AskInv
<1>1. pc = "idle" /\ answer.code = 0 /\ \A i \in Instances : calls[i] = 0
  BY DEF Init, NoReply, Error, Reply
<1> QED
  BY <1>1, TwoInstances DEF Calls

LEMMA AskStep == AskInv /\ [Next]_vars => AskInv'
<1> SUFFICES ASSUME AskInv, [Next]_vars PROVE Calls'
  BY IInvStep DEF AskInv
<1>1. ASSUME NEW r \in Requests, Receive(r) PROVE Calls'
  <2>1. pc' = "gate" /\ \A i \in Instances : calls'[i] = 0
    BY <1>1 DEF Receive
  <2> QED
    BY <2>1, TwoInstances DEF Calls
<1>2. CASE refused
  <2>1. /\ pc = "gate" /\ pc' = "idle" /\ q' = q /\ q.gate # "open" /\ calls' = calls
        /\ answer' = Error(GateCode[q.gate])
    BY <1>2 DEF refused, history
  <2>2. q.gate \in {"no_key", "unsafe_path", "too_large"}
    BY <2>1 DEF AskInv, IInv, TypeOK, Request, Gates
  <2>3. answer'.code \in {401, 404, 413}
    BY <2>1, <2>2 DEF Error, Reply, GateCode
  <2> QED
    BY <2>1, <2>3, TwoInstances DEF AskInv, Calls
<1>3. CASE admitted
  <2>1. /\ pc = "gate" /\ pc' \in {English, "forward"} /\ q' = q /\ calls' = calls
    BY <1>3 DEF admitted, history
  <2> QED
    BY <2>1, TwoInstances DEF AskInv, Calls
<1>4. ASSUME NEW i \in Instances, Handle(i) PROVE Calls'
  <2>1. CASE \E want : Forwards(i, want)
    BY <2>1, ForwardsAsks
  <2>2. ASSUME NEW n \in Native, broadcast_taken(i, n) PROVE Calls'
    BY <2>2, BroadcastAsks DEF broadcast_taken
  <2>3. CASE broadcast_failed(i)
    BY <2>3, BroadcastAsks DEF broadcast_failed
  <2>4. \/ \E want : Forwards(i, want)
        \/ \E n \in Native : broadcast_taken(i, n)
        \/ broadcast_failed(i)
    BY <1>4 DEF Handle, read_forwarded, edit_forwarded, delete_forwarded, failed,
                poll_forwarded, cancel_forwarded, command_forwarded
  <2> QED
    BY <2>1, <2>2, <2>3, <2>4
<1>5. ASSUME NEW i \in Instances, Environment(i) PROVE Calls'
  <2>1. q' = q /\ pc' = pc /\ answer' = answer /\ calls' = calls
    BY <1>5 DEF Environment, UiAdd, UiRemove, JobEnds, history
  <2> QED
    BY <2>1 DEF AskInv, Calls
<1>6. CASE Restart
  <2>1. pc' = "idle" /\ answer'.code = 0 /\ q' = q /\ calls' = calls
    BY <1>6 DEF Restart, NoReply, Error, Reply, history
  <2> QED
    BY <2>1, TwoInstances DEF AskInv, Calls
<1>7. CASE UNCHANGED vars
  BY <1>7 DEF AskInv, Calls, vars, history
<1> QED
  BY <1>1, <1>2, <1>3, <1>4, <1>5, <1>6, <1>7 DEF Next

LEMMA AskInductive == Spec => []AskInv
BY AskInit, AskStep, PTL DEF Spec

\* Whatever fails, is lost or restarts, no instance is asked twice for a request,
\* and one that got an answer was put to exactly the instances it is for
\* (upstream.py:186-199, app.py:385).
THEOREM NothingIsRetried == Spec => []AskedOnce
<1>1. AskInv => AskedOnce
  <2> SUFFICES ASSUME AskInv PROVE AskedOnce
    OBVIOUS
  <2>1. calls = [i \in Instances |-> calls[i]]
    BY DEF AskInv, IInv, TypeOK
  <2> QED
    BY <2>1 DEF AskInv, Calls, AskedOnce
<1> QED
  BY <1>1, AskInductive, PTL

-----------------------------------------------------------------------------
(* Every step is a step of the one server, or none.                         *)

LEMMA OkInOne ==
  ASSUME NEW code \in {200, 201}, NEW ids
  PROVE  AnswerInOne(Reply(code, ids)) = One!Ok(ids)
<1> DEFINE success == code \in 200 .. 299
<1>1. success = TRUE
  OBVIOUS
<1>2. AnswerInOne(Reply(code, ids)) = [ok |-> success, ids |-> ids]
  BY DEF AnswerInOne, Reply
<1> HIDE DEF success
<1> QED
  BY <1>1, <1>2 DEF One!Ok

LEMMA FailedInOne ==
  ASSUME NEW code \in {0, 401, 404, 413, 500, 502}
  PROVE  AnswerInOne(Error(code)) = One!Failed
<1> DEFINE success == code \in 200 .. 299
<1>1. success = FALSE
  OBVIOUS
<1>2. AnswerInOne(Error(code)) = [ok |-> success, ids |-> {}]
  BY DEF AnswerInOne, Error, Reply
<1> HIDE DEF success
<1> QED
  BY <1>1, <1>2 DEF One!Failed

LEMMA InitInOne == Init => One!Init
<1> SUFFICES ASSUME Init PROVE One!Init
  OBVIOUS
<1>1. InOne(titles) \subseteq ProxyIds
  BY DEF Init, InOne, ProxyIds
<1>2. JobsInOne(jobs) = {}
  BY DEF Init, JobsInOne
<1>3. Named(q) = {} /\ q.want = "read" /\ pc = "idle"
  BY DEF Init, NoRequest, Named
<1>4. PairsInOne(started) = {} /\ PairsInOne(touched) = {}
  BY DEF Init, PairsInOne
<1>5. AnswerInOne(answer) = One!Failed
  BY FailedInOne DEF Init, NoReply
<1> QED
  BY <1>1, <1>2, <1>3, <1>4, <1>5 DEF One!Init

\* A request with no ID in it is as good as an unambiguous one.
LEMMA NoRequestUnambiguous == Unambiguous(NoRequest) /\ ~IsBroadcast(NoRequest)
  BY DEF Unambiguous, NoRequest, IsBroadcast, Named, Target, AnyAnime, Consulted,
         Undecoded, English, Anime

\* What the one server is asked is among its IDs.
LEMMA NamedInOne ==
  ASSUME NEW r \in Request, Unambiguous(r)
  PROVE  Named(r) \in SUBSET (ProxyIds \cup ProxyIds) /\ r.want \in One!Wants
<1>1. r.want \in One!Wants
  BY DEF Request, One!Wants
<1>2. CASE IsBroadcast(r)
  BY <1>1, <1>2 DEF Unambiguous
<1>3. CASE ~IsBroadcast(r)
  <2>1. \A v \in Named(r) : v \in ProxyIds
    BY <1>3, TargetIsInstance DEF Unambiguous, ProxyIds
  <2> QED
    BY <1>1, <2>1
<1> QED
  BY <1>2, <1>3

\* A forwarded request, seen from the one server.
LEMMA ForwardsInOne ==
  ASSUME \A r \in Requests : Unambiguous(r), IInv,
         NEW i \in Instances, NEW want, Forwards(i, want)
  PROVE  /\ pc # "idle" /\ pc' = "idle" /\ q' = q /\ q.want = want
         /\ SentIds(q) \in SUBSET Native
         /\ Named(q) = {Exposed(i, n) : n \in SentIds(q)}
         /\ Hit(i) \in SUBSET Native
         /\ {Exposed(i, n) : n \in Hit(i)} = Named(q) \cap InOne(titles)
<1>1. pc = "forward" /\ i = Target(q) /\ pc' = "idle" /\ q' = q /\ q.want = want
  BY DEF Forwards
<1>2. Unambiguous(q) /\ ~IsBroadcast(q) /\ q \in Request
  BY <1>1, NoRequestUnambiguous DEF IInv, Phases, TypeOK
<1>3. SentIds(q) \in SUBSET Native /\ Named(q) = {Exposed(i, n) : n \in SentIds(q)}
  BY <1>1, <1>2, NamedIsSent
<1>4. titles \in [Instances -> SUBSET Native]
  BY DEF IInv, TypeOK
<1>5. {Exposed(i, n) : n \in Hit(i)} = Named(q) \cap InOne(titles)
  BY <1>3, <1>4, HasInOne DEF Hit
<1> QED
  BY <1>1, <1>3, <1>5 DEF Hit

\* A command that an instance takes on is a new job of the one server.
LEMMA BeginsInOne ==
  ASSUME IInv, NEW i \in Instances, NEW n \in Native, Begins(i, n),
         Named(q) = {Exposed(i, m) : m \in SentIds(q)}
  PROVE  /\ \A x \in JobsInOne(jobs) : x.id # Exposed(i, n)
         /\ JobsInOne(jobs') = JobsInOne(jobs) \cup {[id |-> Exposed(i, n), about |-> Named(q)]}
         /\ PairsInOne(started') = PairsInOne(started) \cup {Exposed(i, n)}
         /\ titles' = titles
<1> DEFINE new == [id |-> n, about |-> SentIds(q)]
<1>1. jobs \in [Instances -> SUBSET Job]
  BY DEF IInv, TypeOK
<1>2. \A x \in JobsInOne(jobs) : x.id # Exposed(i, n)
  BY <1>1, JobsHaveIds DEF Begins
<1>3. JobInOne(i, new) = [id |-> Exposed(i, n), about |-> Named(q)]
  BY DEF JobInOne
<1>4. jobs' = [jobs EXCEPT ![i] = @ \cup {new}] /\ started' = started \cup {<<i, n>>} /\ titles' = titles
  BY DEF Begins
<1> HIDE DEF new
<1>5. JobsInOne(jobs') = JobsInOne(jobs) \cup {JobInOne(i, new)}
  BY <1>1, <1>4, JobAdded
<1>6. PairsInOne(started') = PairsInOne(started) \cup {Exposed(i, n)}
  BY <1>4, PairAdded
<1> QED
  BY <1>2, <1>3, <1>4, <1>5, <1>6

\* The handler's actions on a forwarded request.
LEMMA ForwardedSimulates ==
  ASSUME \A r \in Requests : Unambiguous(r), IInv, NEW i \in Instances,
         \/ read_forwarded(i) \/ delete_forwarded(i) \/ edit_forwarded(i)
         \/ poll_forwarded(i) \/ cancel_forwarded(i)
         \/ \E n \in Native : command_forwarded(i, n)
         \/ failed(i)
  PROVE  One!Next
<1> DEFINE Asked == [want |-> q.want, ids |-> Named(q)]
<1>0. titles \in [Instances -> SUBSET Native] /\ jobs \in [Instances -> SUBSET Job]
  BY DEF IInv, TypeOK
<1>1. CASE read_forwarded(i)
  <2>1. Forwards(i, "read") /\ titles' = titles /\ jobs' = jobs /\ started' = started
        /\ touched' = touched /\ answer' = EncodedReply(i, Hit(i))
    BY <1>1 DEF read_forwarded, instances
  <2>2. AnswerInOne(answer') = One!Ok(Named(q) \cap InOne(titles))
    <3>1. answer' = Reply(200, Named(q) \cap InOne(titles))
      BY <2>1, ForwardsInOne DEF EncodedReply
    <3> QED
      BY <3>1, OkInOne
  <2>3. One!Serves("read")
    BY <2>1, ForwardsInOne DEF One!Serves
  <2>4. One!Read
    BY <2>1, <2>2, <2>3 DEF One!Read
  <2> QED
    BY <2>4 DEF One!Next
<1>2. CASE delete_forwarded(i)
  <2>1. Forwards(i, "delete") /\ titles' = [titles EXCEPT ![i] = @ \ SentIds(q)]
        /\ jobs' = jobs /\ started' = started
        /\ touched' = {<<i, n>> : n \in Hit(i)} /\ answer' \in Replies({})
    BY <1>2 DEF delete_forwarded, Touches
  <2>2. AnswerInOne(answer') \in {One!Ok({}), One!Failed}
    BY <2>1, OkInOne, FailedInOne DEF Replies
  <2>3. One!Serves("delete")
    BY <2>1, ForwardsInOne DEF One!Serves
  <2>4. InOne(titles') = InOne(titles) \ Named(q)
    <3>1. InOne([titles EXCEPT ![i] = @ \ SentIds(q)])
            = InOne(titles) \ {Exposed(i, n) : n \in SentIds(q)}
      BY <1>0, <2>1, ForwardsInOne, TakenFromOne
    <3> QED
      BY <2>1, <3>1, ForwardsInOne
  <2>5. PairsInOne(touched') = Named(q) \cap InOne(titles)
    BY <2>1, ForwardsInOne, PairsOf
  <2>6. One!Delete
    BY <2>1, <2>2, <2>3, <2>4, <2>5 DEF One!Delete
  <2> QED
    BY <2>6 DEF One!Next
<1>3. CASE edit_forwarded(i)
  <2>1. Forwards(i, "edit") /\ titles' = titles /\ jobs' = jobs /\ started' = started
        /\ touched' = {<<i, n>> : n \in Hit(i)} /\ answer' \in Replies({})
    BY <1>3 DEF edit_forwarded, Touches, instances
  <2>2. AnswerInOne(answer') \in {One!Ok({}), One!Failed}
    BY <2>1, OkInOne, FailedInOne DEF Replies
  <2>3. One!Serves("edit")
    BY <2>1, ForwardsInOne DEF One!Serves
  <2>4. PairsInOne(touched') = Named(q) \cap InOne(titles)
    BY <2>1, ForwardsInOne, PairsOf
  <2>5. One!Edit
    BY <2>1, <2>2, <2>3, <2>4 DEF One!Edit
  <2> QED
    BY <2>5 DEF One!Next
<1>4. CASE poll_forwarded(i)
  <2> DEFINE Found == SentIds(q) \cap {j.id : j \in jobs[i]}
  <2>1. Forwards(i, "poll") /\ titles' = titles /\ jobs' = jobs /\ started' = started
        /\ touched' = touched /\ answer' = EncodedReply(i, Found)
    BY <1>4 DEF poll_forwarded, instances
  <2>2. {Exposed(i, n) : n \in Found} = Named(q) \cap {x.id : x \in JobsInOne(jobs)}
    <3>1. SentIds(q) \in SUBSET Native /\ Named(q) = {Exposed(i, n) : n \in SentIds(q)}
      BY <1>0, <2>1, ForwardsInOne
    <3>2. jobs \in [Instances -> SUBSET Job]
      BY <1>0 DEF IInv, TypeOK
    <3> QED
      BY <3>1, <3>2, JobsFound
  <2> HIDE DEF Found
  <2>3. AnswerInOne(answer') = One!Ok(Named(q) \cap {x.id : x \in JobsInOne(jobs)})
    <3>1. answer' = Reply(200, Named(q) \cap {x.id : x \in JobsInOne(jobs)})
      BY <2>1, <2>2, SMTT(30) DEF EncodedReply
    <3> QED
      BY <3>1, OkInOne
  <2>4. One!Serves("poll")
    BY <2>1, ForwardsInOne DEF One!Serves
  <2>5. One!Poll
    BY <2>1, <2>3, <2>4 DEF One!Poll
  <2> QED
    BY <2>5 DEF One!Next
<1>5. CASE cancel_forwarded(i)
  <2>1. Forwards(i, "cancel") /\ titles' = titles /\ started' = started
        /\ jobs' = [jobs EXCEPT ![i] = {j \in @ : j.id \notin SentIds(q)}]
        /\ touched' = touched /\ answer' \in Replies({})
    BY <1>5 DEF cancel_forwarded
  <2>2. AnswerInOne(answer') \in {One!Ok({}), One!Failed}
    BY <2>1, OkInOne, FailedInOne DEF Replies
  <2>3. One!Serves("cancel")
    BY <2>1, ForwardsInOne DEF One!Serves
  <2>4. JobsInOne(jobs') = {x \in JobsInOne(jobs) : x.id \notin Named(q)}
    <3>1. JobsInOne([jobs EXCEPT ![i] = {j \in @ : j.id \notin SentIds(q)}])
            = {x \in JobsInOne(jobs) : x.id \notin {Exposed(i, n) : n \in SentIds(q)}}
      <4>1. SentIds(q) \in SUBSET Native
        BY <2>1, ForwardsInOne
      <4>2. jobs \in [Instances -> SUBSET Job]
        BY <1>0
      <4> QED
        BY ONLY <4>1, <4>2, i \in Instances, JobsCancelled
    <3> QED
      BY <2>1, <3>1, ForwardsInOne
  <2>5. One!Cancel
    BY <2>1, <2>2, <2>3, <2>4 DEF One!Cancel
  <2> QED
    BY <2>5 DEF One!Next
<1>6. ASSUME NEW n \in Native, command_forwarded(i, n) PROVE One!Next
  <2>1. Forwards(i, "run") /\ Begins(i, n)
        /\ touched' = {<<i, m>> : m \in Hit(i)} /\ answer' \in Replies({Exposed(i, n)})
    BY <1>6 DEF command_forwarded, Touches
  <2>2. AnswerInOne(answer') \in {One!Ok({Exposed(i, n)}), One!Failed}
    BY <2>1, OkInOne, FailedInOne DEF Replies
  <2>3. pc # "idle" /\ pc' = "idle" /\ q' = q /\ q.want = "run"
    BY <2>1, ForwardsInOne
  <2>4. PairsInOne(touched') = Named(q) \cap InOne(titles)
    BY <2>1, ForwardsInOne, PairsOf
  <2>5. /\ \A x \in JobsInOne(jobs) : x.id # Exposed(i, n)
        /\ JobsInOne(jobs') = JobsInOne(jobs) \cup {[id |-> Exposed(i, n), about |-> Named(q)]}
        /\ PairsInOne(started') = PairsInOne(started) \cup {Exposed(i, n)}
        /\ titles' = titles
    BY <2>1, ForwardsInOne, BeginsInOne
  <2>6. Exposed(i, n) \in PairsInOne(started') /\ Exposed(i, n) \in ProxyIds
    BY <2>5 DEF ProxyIds
  <2>7. One!Run(Exposed(i, n))
    BY <2>2, <2>3, <2>4, <2>5, <2>6 DEF One!Run
  <2> QED
    BY <2>6, <2>7 DEF One!Next
<1>7. CASE failed(i)
  <2>1. Forwards(i, q.want) /\ titles' = titles /\ jobs' = jobs /\ started' = started
        /\ touched' = touched /\ answer' \in {Error(404), Error(500), Error(502)}
    BY <1>7 DEF failed, instances
  <2>2. AnswerInOne(answer') = One!Failed
    BY <2>1, FailedInOne
  <2>3. One!Fail
    BY <2>1, <2>2, ForwardsInOne DEF One!Fail
  <2> QED
    BY <2>3 DEF One!Next
<1> QED
  BY <1>1, <1>2, <1>3, <1>4, <1>5, <1>6, <1>7

\* The results of a broadcast are IDs of jobs it started, or errors.
LEMMA ResultInOne ==
  ASSUME NEW res, NEW P, IsReply(res, ResultCodes), NEW i \in Instances,
         \/ res.code \in {0} \cup HttpErrors /\ res.ids = {}
         \/ res.code = 201 /\ \E n \in Native : <<i, n>> \in P /\ res.ids = {Exposed(i, n)}
  PROVE  AnswerInOne(res) \in {One!Ok({n}) : n \in PairsInOne(P)} \cup {One!Failed}
<1>1. res = Reply(res.code, res.ids)
  BY DEF IsReply
<1>2. CASE res.code \in {0} \cup HttpErrors /\ res.ids = {}
  <2>1. AnswerInOne(res) = AnswerInOne(Error(res.code))
    BY <1>1, <1>2 DEF AnswerInOne, Error, Reply
  <2> QED
    BY <1>2, <2>1, FailedInOne DEF HttpErrors
<1>3. ASSUME NEW n \in Native, res.code = 201, <<i, n>> \in P, res.ids = {Exposed(i, n)}
      PROVE  AnswerInOne(res) \in {One!Ok({m}) : m \in PairsInOne(P)}
  <2>1. AnswerInOne(res) = One!Ok({Exposed(i, n)})
    BY <1>1, <1>3, OkInOne
  <2>2. <<i, n>>[1] = i /\ <<i, n>>[2] = n
    OBVIOUS
  <2>3. Exposed(i, n) \in PairsInOne(P)
    BY <1>3, <2>2 DEF PairsInOne
  <2> QED
    BY <2>1, <2>3
<1> QED
  BY <1>2, <1>3

\* A broadcast ends with one of its results, or without any.
LEMMA BroadcastInOne ==
  ASSUME \A r \in Requests : Unambiguous(r), IInv, IInv',
         NEW i \in Instances, NEW reply, Broadcast(i, reply)
  PROVE  /\ pc # "idle" /\ q' = q /\ Named(q) = {} /\ q.want = "run" /\ touched' = touched
         /\ touched = {}
         /\ \/ pc' # "idle" /\ answer' = answer
            \/ /\ pc' = "idle"
               /\ AnswerInOne(answer')
                    \in {One!Ok({n}) : n \in PairsInOne(started')} \cup {One!Failed}
<1>1. /\ pc = i /\ q' = q /\ touched' = touched /\ touched = {} /\ pc # "idle"
      /\ IsBroadcast(q)
  BY DEF IInv, Phases, Broadcast, Instances, English, Anime
<1>2. Named(q) = {} /\ q.want = "run"
  BY <1>1, NoRequestUnambiguous DEF IInv, Phases, Unambiguous
<1>3. CASE i = English
  BY <1>1, <1>2, <1>3 DEF Broadcast, Anime
<1>4. CASE i # English
  <2>1. pc' = "idle" /\ answer' = BroadcastAnswer(results')
    BY <1>4 DEF Broadcast
  <2>2. English \in Instances /\ Anime \in Instances
    BY DEF Instances
  <2>3. \/ \E k \in Instances : answer' = results'[k]
        \/ answer' = Error(502)
    BY <2>1, <2>2 DEF BroadcastAnswer
  <2>4. \A k \in Instances :
          AnswerInOne(results'[k]) \in {One!Ok({n}) : n \in PairsInOne(started')} \cup {One!Failed}
    <3> TAKE k \in Instances
    <3>1. IsReply(results'[k], ResultCodes)
      BY DEF IInv, TypeOK
    <3>2. Honest(k, results'[k], started')
      BY DEF IInv, HonestResults
    <3> DEFINE res == results'[k]
               P == started'
    <3> HIDE DEF res, P
    <3>3. IsReply(res, ResultCodes)
      BY <3>1 DEF res
    <3>4. \/ res.code \in {0} \cup HttpErrors /\ res.ids = {}
          \/ res.code = 201 /\ \E n \in Native : <<k, n>> \in P /\ res.ids = {Exposed(k, n)}
      BY <3>2 DEF res, P, Honest
    <3>5. AnswerInOne(res) \in {One!Ok({n}) : n \in PairsInOne(P)} \cup {One!Failed}
      BY <3>3, <3>4, ResultInOne, SMTT(30)
    <3> QED
      BY ONLY <3>5 DEF res, P
  <2>5. AnswerInOne(Error(502)) = One!Failed
    BY FailedInOne
  <2>6. AnswerInOne(answer') \in {One!Ok({n}) : n \in PairsInOne(started')} \cup {One!Failed}
    BY <2>3, <2>4, <2>5
  <2> QED
    BY <1>1, <1>2, <2>1, <2>6
<1> QED
  BY <1>3, <1>4

\* A broadcast is the start of up to two jobs.
LEMMA BroadcastSimulates ==
  ASSUME \A r \in Requests : Unambiguous(r), IInv, IInv', NEW i \in Instances,
         (\E n \in Native : broadcast_taken(i, n)) \/ broadcast_failed(i)
  PROVE  One!Next \/ UNCHANGED One!vars
<1>1. ASSUME NEW n \in Native, broadcast_taken(i, n) PROVE One!Next
  <2>1. Begins(i, n)
    BY <1>1 DEF broadcast_taken
  <2>2. PICK reply : Broadcast(i, reply)
    BY <1>1 DEF broadcast_taken
  <2>3. /\ pc # "idle" /\ q' = q /\ Named(q) = {} /\ q.want = "run"
        /\ touched' = touched /\ touched = {}
        /\ \/ pc' # "idle" /\ answer' = answer
           \/ /\ pc' = "idle"
              /\ AnswerInOne(answer')
                   \in {One!Ok({m}) : m \in PairsInOne(started')} \cup {One!Failed}
    BY <2>2, BroadcastInOne
  <2>4. SentIds(q) = {}
    <3>1. pc = i /\ IsBroadcast(q)
      BY <2>2 DEF Broadcast, IInv, Phases
    <3>2. q.seen = {} /\ SentIds(q) = (q.unseen \cup q.verbatim) \ NonIds
      BY <3>1 DEF IsBroadcast, SentIds, Sent
    <3> QED
      BY <2>3, <3>2 DEF Named
  <2>5. Named(q) = {Exposed(i, m) : m \in SentIds(q)}
    BY <2>3, <2>4
  <2>6. /\ \A x \in JobsInOne(jobs) : x.id # Exposed(i, n)
        /\ JobsInOne(jobs') = JobsInOne(jobs) \cup {[id |-> Exposed(i, n), about |-> Named(q)]}
        /\ PairsInOne(started') = PairsInOne(started) \cup {Exposed(i, n)}
        /\ titles' = titles
    BY <2>1, <2>5, BeginsInOne
  <2>7. PairsInOne(touched') = Named(q) \cap InOne(titles)
    BY <2>3 DEF PairsInOne
  <2>8. One!Run(Exposed(i, n))
    BY <2>3, <2>6, <2>7 DEF One!Run
  <2> QED
    BY <2>8 DEF One!Next, ProxyIds
<1>2. CASE broadcast_failed(i)
  <2>1. titles' = titles /\ jobs' = jobs /\ started' = started
    BY <1>2 DEF broadcast_failed, instances
  <2>2. PICK reply : Broadcast(i, reply)
    BY <1>2 DEF broadcast_failed
  <2>3. /\ pc # "idle" /\ q' = q /\ Named(q) = {} /\ q.want = "run"
        /\ touched' = touched
        /\ \/ pc' # "idle" /\ answer' = answer
           \/ /\ pc' = "idle"
              /\ AnswerInOne(answer')
                   \in {One!Ok({m}) : m \in PairsInOne(started')} \cup {One!Failed}
    BY <2>2, BroadcastInOne
  <2>4. CASE pc' # "idle" /\ answer' = answer
    BY <2>1, <2>3, <2>4 DEF One!vars
  <2>5. CASE pc' = "idle" /\ AnswerInOne(answer') = One!Failed
    <3>1. One!Fail
      BY <2>1, <2>3, <2>5 DEF One!Fail
    <3> QED
      BY <3>1 DEF One!Next
  <2>6. CASE pc' = "idle" /\ AnswerInOne(answer') \in {One!Ok({m}) : m \in PairsInOne(started')}
    <3>1. One!Serves("run")
      BY <2>1, <2>3, <2>6 DEF One!Serves
    <3>2. One!Started
      BY <2>1, <2>3, <2>6, <3>1 DEF One!Started
    <3> QED
      BY <3>2 DEF One!Next
  <2> QED
    BY <2>3, <2>4, <2>5, <2>6
<1> QED
  BY <1>1, <1>2

\* What happens on the instances happens on the one server.
LEMMA EnvironmentSimulates ==
  ASSUME IInv, NEW i \in Instances, Environment(i)
  PROVE  One!Next
<1>0. titles \in [Instances -> SUBSET Native] /\ jobs \in [Instances -> SUBSET Job]
  BY DEF IInv, TypeOK
<1>1. ASSUME NEW n \in Native, UiAdd(i, n) PROVE One!Next
  <2>1. InOne(titles') = InOne(titles) \cup {Exposed(i, n)}
    BY <1>0, <1>1, AddedToOne DEF UiAdd
  <2>2. One!Appear(Exposed(i, n))
    BY <1>1, <2>1 DEF One!Appear, UiAdd, history
  <2> QED
    BY <2>2 DEF One!Next, ProxyIds
<1>2. ASSUME NEW n \in Native, UiRemove(i, n) PROVE One!Next
  <2>1. InOne([titles EXCEPT ![i] = @ \ {n}]) = InOne(titles) \ {Exposed(i, m) : m \in {n}}
    <3> DEFINE S == {n}
    <3>1. S \in SUBSET Native
      OBVIOUS
    <3> HIDE DEF S
    <3>2. InOne([titles EXCEPT ![i] = @ \ S]) = InOne(titles) \ {Exposed(i, m) : m \in S}
      BY <1>0, <3>1, TakenFromOne
    <3> QED
      BY <3>2 DEF S
  <2>2. InOne(titles') = InOne(titles) \ {Exposed(i, n)}
    BY <1>2, <2>1 DEF UiRemove
  <2>3. One!Vanish(Exposed(i, n))
    BY <1>2, <2>2 DEF One!Vanish, UiRemove, history
  <2> QED
    BY <2>3 DEF One!Next, ProxyIds
<1>3. ASSUME NEW j \in jobs[i], JobEnds(i, j) PROVE One!Next
  <2>1. JobsInOne(jobs') = JobsInOne(jobs) \ {JobInOne(i, j)}
    BY <1>0, <1>3, JobEnded DEF IInv, DistinctJobs, JobEnds
  <2>2. JobInOne(i, j) \in JobsInOne(jobs)
    BY <1>0, JobIsInOne
  <2>3. One!End(JobInOne(i, j))
    BY <1>3, <2>1 DEF One!End, JobEnds, history
  <2> QED
    BY <2>2, <2>3 DEF One!Next
<1> QED
  BY <1>1, <1>2, <1>3 DEF Environment

LEMMA StepInOne ==
  ASSUME \A r \in Requests : Unambiguous(r)
  PROVE  IInv /\ IInv' /\ [Next]_vars => [One!Next]_(One!vars)
<1> SUFFICES ASSUME IInv, IInv', [Next]_vars PROVE One!Next \/ UNCHANGED One!vars
  OBVIOUS
<1>1. ASSUME NEW r \in Requests, Receive(r) PROVE One!Next
  <2>1. r \in Request /\ Unambiguous(r)
    BY RequestsAssumption
  <2>2. Named(r) \in SUBSET (ProxyIds \cup ProxyIds) /\ r.want \in One!Wants
    BY <2>1, NamedInOne
  <2>3. pc = "idle" /\ pc' # "idle" /\ q' = r /\ titles' = titles /\ jobs' = jobs
    BY <1>1 DEF Receive, instances
  <2>4. PairsInOne(touched') = {} /\ PairsInOne(started') = {}
    BY <1>1 DEF Receive, PairsInOne
  <2>5. AnswerInOne(answer') = One!Failed
    BY <1>1, FailedInOne DEF Receive, NoReply
  <2>6. One!Ask(r.want, Named(r))
    BY <2>3, <2>4, <2>5 DEF One!Ask
  <2> QED
    BY <2>2, <2>6 DEF One!Next
<1>2. CASE refused
  <2>1. GateCode[q.gate] \in {401, 404, 413}
    <3>1. q.gate \in Gates
      BY DEF IInv, TypeOK, Request
    <3> QED
      BY <1>2, <3>1 DEF refused, GateCode, Gates
  <2>2. AnswerInOne(answer') = One!Failed
    BY <1>2, <2>1, FailedInOne DEF refused
  <2>3. One!Fail
    BY <1>2, <2>2 DEF One!Fail, refused, instances, history
  <2> QED
    BY <2>3 DEF One!Next
<1>3. CASE admitted
  BY <1>3 DEF One!vars, admitted, instances, history, English
<1>4. ASSUME NEW i \in Instances, Handle(i) PROVE One!Next \/ UNCHANGED One!vars
  BY <1>4, ForwardedSimulates, BroadcastSimulates DEF Handle
<1>5. ASSUME NEW i \in Instances, Environment(i) PROVE One!Next
  BY <1>5, EnvironmentSimulates
<1>6. CASE Restart
  <2>1. AnswerInOne(answer') = One!Failed
    BY <1>6, FailedInOne DEF Restart, NoReply
  <2>2. One!Fail
    BY <1>6, <2>1 DEF One!Fail, Restart, instances, history
  <2> QED
    BY <2>2 DEF One!Next
<1>7. CASE UNCHANGED vars
  BY <1>7 DEF One!vars, vars, instances, history
<1> QED
  BY <1>1, <1>2, <1>3, <1>4, <1>5, <1>6, <1>7 DEF Next

\* If no request mixes the instances' IDs, or hides one where the proxy does not
\* look, the two instances behind it are one server to Seerr (README.md:36-39),
\* for every offset, all IDs, and through outages, lost replies and restarts.
THEOREM TwoAreOne ==
  ASSUME \A r \in Requests : Unambiguous(r)
  PROVE  Spec => ImplementsOneServer
<1>1. IInv /\ [Next]_vars => IInv'
  BY IInvStep
<1>2. IInv /\ IInv' /\ [Next]_vars => [One!Next]_(One!vars)
  BY StepInOne
<1> QED
  BY <1>1, <1>2, IInvInit, InitInOne, PTL DEF Spec, ImplementsOneServer, One!Spec
==============================================================================
