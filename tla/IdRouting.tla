------------------------------- MODULE IdRouting -------------------------------
(***************************************************************************)
(* The requests that proxyseerr routes by the IDs in them (app.py): GET    *)
(* and DELETE of a title, commands and their broadcast, queue details, and *)
(* the catch-all route.  Their handlers share nothing in the proxy, so one *)
(* request at a time stands for all; what else happens to the instances    *)
(* meanwhile is in the environment's actions.                              *)
(*                                                                         *)
(* Of a request the model keeps the IDs, by where they stand:              *)
(*   path      the last segment of the path, if it is a number             *)
(*   query     the values of kind.query_id_params                          *)
(*   seen      the body's values that target_from_payload looks at, on the *)
(*             two routes that call it                                     *)
(*   unseen    the body's other IDs in fields that this route's forward    *)
(*             decodes: "id", tags, all IDs in a body that is a list       *)
(*   verbatim  IDs nothing decodes: in an earlier segment of the path, or  *)
(*             in the body in a field that is not one of the route's       *)
(***************************************************************************)
EXTENDS Namespace, FiniteSets

CONSTANTS
  Native,    \* the IDs an instance hands out
  Requests,  \* the requests Seerr may send
  MaxJobs    \* bound on the commands at work on one instance

Routes == {"item", "command", "command_by_id", "queue_details", "catch_all"}
Gates == {"open", "no_key", "unsafe_path", "too_large"}
Value == Nat \cup NonIds

Request == [
  route : Routes,
  want : {"read", "delete", "edit", "run", "poll", "cancel"},
  path : SUBSET Nat,
  query : SUBSET Value,
  seen : SUBSET Value,
  unseen : SUBSET Value,
  verbatim : SUBSET Nat,
  gate : Gates]

ASSUME NativeAssumption == Native \subseteq 1 .. Offset - 1
\* Only command and catch_all look at the body.  Queue details that ask for no ID
\* are a merged read (app.py:347-348), which is MergedRead's business.
ASSUME RequestsAssumption ==
  /\ Requests \subseteq Request
  /\ \A r \in Requests :
       /\ r.route \notin {"command", "catch_all"} => r.seen = {}
       /\ r.route = "queue_details" => r.query # {}
ASSUME MaxJobsAssumption == MaxJobs \in Nat

VARIABLES
  titles,   \* titles[i]: the titles on instance i
  jobs,     \* jobs[i]: the commands at work on instance i
  pc,       \* where the handler is
  q,        \* the request it serves
  results,  \* results of broadcast_command: the replies so far
  calls,    \* calls[i]: how often it asked instance i (history)
  started,  \* <<i, n>>: job n it started on instance i (history)
  touched,  \* <<i, n>>: title n of instance i it did something to (history)
  answer    \* the answer to Seerr

instances == <<titles, jobs>>
history == <<calls, started, touched>>
vars == <<instances, pc, q, results, history, answer>>

Job == [id : Native, about : SUBSET Nat]

\* An answer: its status, and the IDs in the fields that are shifted.
Reply(code, ids) == [code |-> code, ids |-> ids]
Error(code) == Reply(code, {})
NoReply == Error(0)

-----------------------------------------------------------------------------
(* Where a request goes.                                                    *)

AnyAnime(values) == IF \E v \in values : is_anime_id(v) THEN Anime ELSE English

\* The IDs that decide; a body only where path and query have none.
Consulted(r) ==
  CASE r.route \in {"item", "command_by_id"} -> r.path
    [] r.route = "command" -> r.seen
    [] r.route = "queue_details" -> r.query
    [] r.route = "catch_all" ->
         IF r.path \cup r.query = {} THEN r.seen ELSE r.path \cup r.query

Target(r) == AnyAnime(Consulted(r))

\* A command without IDs goes to both instances.
IsBroadcast(r) == r.route = "command" /\ r.seen = {}

\* Two routes hand the decoded query to forward; on the others it is passed on.
DecodesQuery(r) == r.route \in {"queue_details", "catch_all"}
Decoded(r) == r.path \cup r.seen \cup r.unseen \cup (IF DecodesQuery(r) THEN r.query ELSE {})
Undecoded(r) == r.verbatim \cup (IF DecodesQuery(r) THEN {} ELSE r.query)

\* Mutant: the shift is taken back from the path only.
SentPathOnly(r) ==
  {decode_id(v).id : v \in r.path} \cup r.query \cup r.seen \cup r.unseen \cup r.verbatim

\* The IDs the instance gets; a broadcast takes the body as it is, and no query.
Sent(r) ==
  IF IsBroadcast(r) THEN r.unseen \cup r.verbatim
  ELSE {decode_id(v).id : v \in Decoded(r)} \cup Undecoded(r)

Named(r) == (r.path \cup r.query \cup r.seen \cup r.unseen \cup r.verbatim) \ NonIds
SentIds(r) == Sent(r) \ NonIds

-----------------------------------------------------------------------------
(* Receiving a request, and the checks before anything is forwarded:        *)
(* enforce_api_key, safe_path and MAX_CONTENT_LENGTH.                       *)

GateCode == [no_key |-> 401, unsafe_path |-> 404, too_large |-> 413]

Receive(r) ==
  /\ pc = "idle"
  /\ q' = r
  /\ pc' = "gate"
  /\ results' = [i \in Instances |-> NoReply]
  /\ calls' = [i \in Instances |-> 0]
  /\ started' = {}
  /\ touched' = {}
  /\ answer' = NoReply
  /\ UNCHANGED instances

refused ==
  /\ pc = "gate"
  /\ q.gate # "open"
  /\ answer' = Error(GateCode[q.gate])
  /\ pc' = "idle"
  /\ UNCHANGED <<instances, q, results, history>>

\* Mutant: whatever the gate says.
admittedAlways ==
  /\ pc = "gate"
  /\ pc' = IF IsBroadcast(q) THEN English ELSE "forward"
  /\ UNCHANGED <<instances, q, results, history, answer>>

admitted ==
  /\ pc = "gate"
  /\ q.gate = "open"
  /\ pc' = IF IsBroadcast(q) THEN English ELSE "forward"
  /\ UNCHANGED <<instances, q, results, history, answer>>

-----------------------------------------------------------------------------
(* ProxyService.forward: one call, and its reply in proxy IDs.              *)

Asks(i) == calls' = [calls EXCEPT ![i] = @ + 1]

Forwards(i, want) ==
  /\ pc = "forward"
  /\ i = Target(q)
  /\ q.want = want
  /\ Asks(i)
  /\ pc' = "idle"
  /\ UNCHANGED <<q, results>>

EncodedReply(i, ids) == Reply(200, {Exposed(i, n) : n \in ids})

\* Done, and answered; or done, and the reply is lost: handle_upstream_error.
Replies(ids) == {Reply(200, ids), Error(502)}

Hit(i) == SentIds(q) \cap titles[i]
Touches(i) == touched' = {<<i, n>> : n \in Hit(i)}

read_forwarded(i) ==
  /\ Forwards(i, "read")
  /\ q.route = "item" => Hit(i) # {}
  /\ answer' = EncodedReply(i, Hit(i))
  /\ UNCHANGED <<instances, started, touched>>

delete_forwarded(i) ==
  /\ Forwards(i, "delete")
  /\ titles' = [titles EXCEPT ![i] = @ \ SentIds(q)]
  /\ Touches(i)
  /\ answer' \in Replies({})
  /\ UNCHANGED <<jobs, started>>

edit_forwarded(i) ==
  /\ Forwards(i, "edit")
  /\ Touches(i)
  /\ answer' \in Replies({})
  /\ UNCHANGED <<instances, started>>

poll_forwarded(i) ==
  /\ Forwards(i, "poll")
  /\ answer' = EncodedReply(i, SentIds(q) \cap {j.id : j \in jobs[i]})
  /\ UNCHANGED <<instances, started, touched>>

cancel_forwarded(i) ==
  /\ Forwards(i, "cancel")
  /\ jobs' = [jobs EXCEPT ![i] = {j \in @ : j.id \notin SentIds(q)}]
  /\ answer' \in Replies({})
  /\ UNCHANGED <<titles, started, touched>>

\* The instance takes the command on as job n.
Begins(i, n) ==
  /\ Cardinality(jobs[i]) < MaxJobs
  /\ \A j \in jobs[i] : j.id # n
  /\ jobs' = [jobs EXCEPT ![i] = @ \cup {[id |-> n, about |-> SentIds(q)]}]
  /\ started' = started \cup {<<i, n>>}
  /\ UNCHANGED titles

command_forwarded(i, n) ==
  /\ Forwards(i, "run")
  /\ Begins(i, n)
  /\ Touches(i)
  /\ answer' \in Replies({Exposed(i, n)})

\* An HTTP error of the instance is passed on; no contact is a 502.
failed(i) ==
  /\ Forwards(i, q.want)
  /\ answer' \in {Error(404), Error(500), Error(502)}
  /\ UNCHANGED <<instances, started, touched>>

-----------------------------------------------------------------------------
(* broadcast_command: the instances in turn, whatever the first one says.   *)

BroadcastAnswer(res) ==
  IF res[English] # NoReply THEN res[English]
  ELSE IF res[Anime] # NoReply THEN res[Anime]
  ELSE Error(502)

\* Mutant: the first outcome ends it.
BroadcastToOne(i, reply) ==
  /\ pc = i
  /\ Asks(i)
  /\ results' = [results EXCEPT ![i] = reply]
  /\ pc' = "idle"
  /\ answer' = BroadcastAnswer(results')
  /\ UNCHANGED <<q, touched>>

\* No reply is an UpstreamError, after which the loop continues.
Broadcast(i, reply) ==
  /\ pc = i
  /\ Asks(i)
  /\ results' = [results EXCEPT ![i] = reply]
  /\ IF i = English THEN pc' = Anime /\ UNCHANGED answer
                    ELSE pc' = "idle" /\ answer' = BroadcastAnswer(results')
  /\ UNCHANGED <<q, touched>>

broadcast_taken(i, n) ==
  /\ Begins(i, n)
  /\ \E reply \in {Reply(201, {Exposed(i, n)}), NoReply} : Broadcast(i, reply)

\* Whatever status an instance answers with is a result, its own 502 too.
HttpErrors == {404, 500, 502}
broadcast_failed(i) ==
  /\ \E reply \in {Error(code) : code \in HttpErrors} \cup {NoReply} : Broadcast(i, reply)
  /\ UNCHANGED <<instances, started>>

-----------------------------------------------------------------------------
(* The environment: the instances' own UIs, jobs that end, and a restart of *)
(* the proxy, which abandons the handler.                                   *)

UiAdd(i, n) ==
  /\ titles' = [titles EXCEPT ![i] = @ \cup {n}]
  /\ UNCHANGED <<jobs, pc, q, results, history, answer>>

UiRemove(i, n) ==
  /\ titles' = [titles EXCEPT ![i] = @ \ {n}]
  /\ UNCHANGED <<jobs, pc, q, results, history, answer>>

JobEnds(i, j) ==
  /\ jobs' = [jobs EXCEPT ![i] = @ \ {j}]
  /\ UNCHANGED <<titles, pc, q, results, history, answer>>

Restart ==
  /\ pc # "idle"
  /\ pc' = "idle"
  /\ answer' = NoReply
  /\ UNCHANGED <<instances, q, results, history>>

NoRequest ==
  [route |-> "item", want |-> "read", path |-> {}, query |-> {}, seen |-> {},
   unseen |-> {}, verbatim |-> {}, gate |-> "open"]

Init ==
  /\ titles \in [Instances -> SUBSET Native]
  /\ jobs = [i \in Instances |-> {}]
  /\ pc = "idle"
  /\ q = NoRequest
  /\ results = [i \in Instances |-> NoReply]
  /\ calls = [i \in Instances |-> 0]
  /\ started = {}
  /\ touched = {}
  /\ answer = NoReply

Handle(i) ==
  \/ read_forwarded(i) \/ delete_forwarded(i) \/ edit_forwarded(i)
  \/ poll_forwarded(i) \/ cancel_forwarded(i)
  \/ \E n \in Native : command_forwarded(i, n) \/ broadcast_taken(i, n)
  \/ failed(i) \/ broadcast_failed(i)

Environment(i) ==
  \/ \E n \in Native : UiAdd(i, n) \/ UiRemove(i, n)
  \/ \E j \in jobs[i] : JobEnds(i, j)

Next ==
  \/ \E r \in Requests : Receive(r)
  \/ refused \/ admitted
  \/ \E i \in Instances : Handle(i) \/ Environment(i)
  \/ Restart

Spec == Init /\ [][Next]_vars

-----------------------------------------------------------------------------
(* Properties *)

IsReply(a, codes) ==
  a = Reply(a.code, a.ids) /\ a.code \in codes /\ a.ids \subseteq Nat

ResultCodes == {0, 201} \cup HttpErrors

TypeOK ==
  /\ titles \in [Instances -> SUBSET Native]
  /\ jobs \in [Instances -> SUBSET Job]
  /\ pc \in {"idle", "gate", "forward"} \cup Instances
  /\ q \in Request
  /\ pc \notin {"idle", "gate"} => q.gate = "open"
  /\ DOMAIN results = Instances
  /\ \A i \in Instances : IsReply(results[i], ResultCodes)
  /\ calls \in [Instances -> Nat]
  /\ started \subseteq Instances \X Native
  /\ touched \subseteq Instances \X Native
  /\ IsReply(answer, {0, 200, 201, 401, 404, 413, 500, 502})

\* A request the one server of OneServer could have been asked: every ID in it
\* was handed out, all by the instance that the routing finds, and an anime ID
\* stands where it is decoded.
Unambiguous(r) ==
  /\ Target(r) = Anime => Undecoded(r) \subseteq NonIds
  /\ IF IsBroadcast(r) THEN Named(r) = {}
     ELSE \A v \in Named(r) : \E n \in Native : v = Exposed(Target(r), n)
  /\ IsBroadcast(r) => r.want = "run"

ProxyIds == UNION {{Exposed(i, n) : n \in Native} : i \in Instances}
InOne(objects) == UNION {{Exposed(i, n) : n \in objects[i]} : i \in Instances}
PairsInOne(pairs) == {Exposed(p[1], p[2]) : p \in pairs}
JobInOne(i, j) == [id |-> Exposed(i, j.id), about |-> {Exposed(i, n) : n \in j.about}]
JobsInOne(js) == UNION {{JobInOne(i, j) : j \in js[i]} : i \in Instances}
AnswerInOne(a) == [ok |-> a.code \in 200 .. 299, ids |-> a.ids]

One == INSTANCE OneServer WITH
  TitleIds <- ProxyIds, JobIds <- ProxyIds,
  titles <- InOne(titles),
  jobs <- JobsInOne(jobs),
  busy <- pc # "idle",
  asked <- [want |-> q.want, ids |-> Named(q)],
  touched <- PairsInOne(touched),
  started <- PairsInOne(started),
  answer <- AnswerInOne(answer)

\* As long as a request's IDs are of one instance and stand where routing looks
\* for them, Seerr sees a single server: a request acts on what it names and on
\* nothing else, and is told so or that it failed, through outages, lost replies,
\* restarts and changes made elsewhere (README.md:36-39).
ImplementsOneServer == One!Spec

\* A request makes at most one call to an instance, none if it is refused, and
\* when it ends without a restart it has asked exactly the instances it is for;
\* nothing is retried, so nothing is run twice (upstream.py:186-199, app.py:385).
AskedOnce ==
  /\ \A i \in Instances : calls[i] <= 1
  /\ q.gate # "open" => calls = [i \in Instances |-> 0]
  /\ pc = "idle" /\ answer.code # 0 /\ q.gate = "open" =>
       \A i \in Instances : calls[i] = IF IsBroadcast(q) \/ i = Target(q) THEN 1 ELSE 0

\* What a request does, it does to titles it names (namespace.py:5-7).
OnlyNamed == \A p \in touched : Exposed(p[1], p[2]) \in Named(q)
==============================================================================
