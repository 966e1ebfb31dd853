------------------------------ MODULE MergedRead ------------------------------
(***************************************************************************)
(* The merged reads of ProxyService: library, lookups, dropdown lists and  *)
(* queue.  A handler asks the English instance, then the anime instance,   *)
(* while both go on changing; then it merges the replies.  Handlers share  *)
(* nothing here, so one stands for all.                                    *)
(*                                                                         *)
(* A listed object is its ID, one other ID in it (a profile, the title of  *)
(* a queue record: ref) and its external ID, tvdbId or tmdbId.             *)
(***************************************************************************)
EXTENDS Namespace, FiniteSets

CONSTANTS
  Externals,   \* external IDs
  NoExternal,  \* an object without one
  Ids,         \* the IDs an instance hands out
  Refs,        \* the other IDs in an object
  MaxChanges   \* bound on changes of the instances during one read

ASSUME IdsAssumption == Ids \subseteq 1 .. Offset - 1 /\ Refs \subseteq 1 .. Offset - 1
ASSUME ExternalsAssumption == NoExternal \notin Externals

VARIABLES
  coll,       \* coll[i]: what instance i holds
  throughout, \* throughout[i]: held during the whole read so far (history)
  sometime,   \* sometime[i]: held at some time of the read (history)
  changes,    \* number of changes during the read
  pc, op,     \* the handler, and which read it serves
  sought,     \* the external ID a lookup by ID asks for
  got,        \* got[i]: the reply of instance i
  out         \* the answer to Seerr

instances == <<coll, throughout, sometime, changes>>
vars == <<instances, pc, op, sought, got, out>>

Object == [id : Ids, ref : Refs, ext : Externals \cup {NoExternal}]
Lookups == {"lookup", "lookup_one"}
Ops == Lookups \cup {"items", "list", "queue"}

\* What Upstream.fetch returns.  Status 0: no connection; "scalar": JSON that is
\* neither a list nor an object; "paged": an object with a list of records.
NoReply(status) == [ok |-> FALSE, status |-> status, shape |-> "none", elems |-> {}]
Reply(shape, elems) == [ok |-> TRUE, status |-> 200, shape |-> shape, elems |-> elems]
Failures == {NoReply(0), NoReply(404), NoReply(500)}

NoAnswer == [code |-> 0, body |-> {}]
Ok(body) == [code |-> 200, body |-> body]
Error(code) == [code |-> code, body |-> {}]

TypeOK ==
  /\ \A i \in Instances :
       /\ coll[i] \subseteq Object
       /\ throughout[i] \subseteq coll[i] /\ coll[i] \subseteq sometime[i]
       /\ got[i].elems = {} \/ got[i].ok
       /\ got[i].status \in {0, 200, 404, 500}
  /\ op \in Ops /\ pc \in {"idle", "english", "anime", "done"}
  /\ out.code \in {0, 200, 404, 502}
  /\ \A y \in out.body : y.id \in Nat /\ y.ref \in Nat
  /\ pc # "done" => out = NoAnswer

-----------------------------------------------------------------------------
(* The instances.                                                           *)

\* The search result for an external ID that is not in the library.
NotAdded(i, e) == [id |-> 0, ref |-> 0, ext |-> e]
Missing(i) == {NotAdded(i, e) : e \in Externals \ {x.ext : x \in coll[i]}}

\* What instance i answers now to a read of this kind.
Listing(i) ==
  CASE op = "lookup" -> {Reply("list", coll[i] \cup Missing(i))}
    [] op = "lookup_one" ->
         {Reply("dict", {x}) : x \in {x \in coll[i] \cup Missing(i) : x.ext = sought}}
    [] op = "queue" -> {Reply("list", coll[i]), Reply("paged", coll[i])}
    [] OTHER -> {Reply("list", coll[i])}

\* It may also fail, or answer 200 with something else.
Replies(i) == Listing(i) \cup Failures \cup {Reply("dict", {}), Reply("scalar", {})}

Change ==
  /\ pc \in {"english", "anime"}
  /\ changes < MaxChanges
  /\ changes' = changes + 1
  /\ UNCHANGED <<pc, op, sought, got, out>>

Add(i, x) ==
  /\ Change
  /\ \A y \in coll[i] : y.id # x.id /\ (y.ext # x.ext \/ x.ext = NoExternal)
  /\ coll' = [coll EXCEPT ![i] = @ \cup {x}]
  /\ sometime' = [sometime EXCEPT ![i] = @ \cup {x}]
  /\ UNCHANGED throughout

Remove(i, x) ==
  /\ Change
  /\ coll' = [coll EXCEPT ![i] = @ \ {x}]
  /\ throughout' = [throughout EXCEPT ![i] = @ \ {x}]
  /\ UNCHANGED sometime

-----------------------------------------------------------------------------
(* namespace.encode_obj with the fields of each read.                       *)

\* PLAIN_ID_FIELDS for the dropdown lists; item and queue fields otherwise.
IdFields(o) == IF o = "list" THEN {"id"} ELSE {"id", "ref"}

\* Mutant: the other IDs of an object are left alone.
EncodedIdOnly(o, x) == [x EXCEPT !.id = encode_id(@, Offset)]
Encoded(o, x) ==
  [f \in DOMAIN x |-> IF f \in IdFields(o) THEN encode_id(x[f], Offset) ELSE x[f]]
EncodedAll(o, s) == {Encoded(o, x) : x \in s}

\* _expect_list: anything but a list is treated as empty.
ExpectList(g) == IF g.shape = "list" THEN g.elems ELSE {}
Records(g) == IF g.shape \in {"list", "paged"} THEN g.elems ELSE {}
IsObject(g) == g.shape \in {"dict", "paged"}

-----------------------------------------------------------------------------
(* The merges; each takes the two replies and gives the body.               *)

merged_items(e, a) == ExpectList(e) \cup EncodedAll("items", ExpectList(a))

merged_list(e, a) == ExpectList(e) \cup EncodedAll("list", ExpectList(a))

merged_queue(e, a) == Records(e) \cup EncodedAll("queue", Records(a))

\* An anime object that replaces the English copy, or has none to compete with.
Wins(x, english) ==
  x.id # 0 \/ x.ext = NoExternal \/ \A y \in english : y.ext # x.ext

\* Mutant: the anime copy never replaces the English one.
lookup_keep_english(e, a) ==
  ExpectList(e) \cup {Encoded("lookup", x) : x \in {x \in ExpectList(a) :
     x.ext = NoExternal \/ \A y \in ExpectList(e) : y.ext # x.ext}}

lookup_lists(e, a) ==
  LET winners == {x \in ExpectList(a) : Wins(x, ExpectList(e))}
  IN {y \in ExpectList(e) : y.ext = NoExternal \/ \A x \in winners : x.ext # y.ext}
       \cup EncodedAll("lookup", winners)

\* Mutant: the anime copy stands in for the English one with its own IDs.
lookup_objects_plain(e, a) ==
  IF IsObject(a) /\ \E x \in a.elems : x.id # 0 THEN a.elems
  ELSE IF e.ok THEN e.elems
  ELSE EncodedAll("lookup", a.elems)

\* One of them is a bare object: the anime one if it is in its library.
lookup_objects(e, a) ==
  IF IsObject(a) /\ \E x \in a.elems : x.id # 0 THEN EncodedAll("lookup", a.elems)
  ELSE IF e.ok THEN e.elems
  ELSE EncodedAll("lookup", a.elems)

merged_lookup(e, a) ==
  IF IsObject(e) \/ IsObject(a) THEN lookup_objects(e, a) ELSE lookup_lists(e, a)

Merged(o, e, a) ==
  CASE o = "items" -> merged_items(e, a)
    [] o = "list" -> merged_list(e, a)
    [] o = "queue" -> merged_queue(e, a)
    [] OTHER -> merged_lookup(e, a)

-----------------------------------------------------------------------------
(* ProxyService._fetch_both                                                 *)

\* Mutant: any status both agree on is passed on.
FailureCodeAgreed(e, a) == IF e.status = a.status THEN e.status ELSE 502

\* AllInstancesFailed: a 4xx that both agree on is their answer, else 502.
FailureCode(e, a) == IF e.status = a.status /\ e.status = 404 THEN 404 ELSE 502

\* Mutant: half a library will do.
FetchedPartial(o, e, a) ==
  IF ~e.ok /\ ~a.ok THEN Error(FailureCode(e, a))
  ELSE Ok(Merged(o, e, a))

Fetched(o, e, a) ==
  IF ~e.ok /\ ~a.ok THEN Error(FailureCode(e, a))
  ELSE IF (~e.ok \/ ~a.ok) /\ o = "items" THEN Error(502)   \* require_both
  ELSE Ok(Merged(o, e, a))

Begin(o, ext) ==
  /\ pc \in {"idle", "done"}
  /\ pc' = "english"
  /\ op' = o
  /\ sought' = ext
  /\ got' = [i \in Instances |-> NoReply(0)]
  /\ out' = NoAnswer
  /\ throughout' = coll
  /\ sometime' = coll
  /\ changes' = 0
  /\ UNCHANGED coll

FetchEnglish ==
  /\ pc = "english"
  /\ \E g \in Replies(English) : got' = [got EXCEPT ![English] = g]
  /\ pc' = "anime"
  /\ UNCHANGED <<instances, op, sought, out>>

\* The last reply; what follows is local to the handler.
FetchAnime ==
  /\ pc = "anime"
  /\ \E g \in Replies(Anime) :
       /\ got' = [got EXCEPT ![Anime] = g]
       /\ out' = Fetched(op, got[English], g)
  /\ pc' = "done"
  /\ UNCHANGED <<instances, op, sought>>

\* What an instance can hold: no ID and no external ID twice.
Holdings ==
  {s \in SUBSET Object : \A x, y \in s :
     x # y => x.id # y.id /\ (x.ext # y.ext \/ x.ext = NoExternal)}

Init ==
  /\ coll \in [Instances -> Holdings]
  /\ throughout = coll /\ sometime = coll /\ changes = 0
  /\ pc = "idle" /\ op = "items" /\ sought \in Externals
  /\ got = [i \in Instances |-> NoReply(0)]
  /\ out = NoAnswer

Next ==
  \/ \E o \in Ops, ext \in Externals : Begin(o, ext)
  \/ FetchEnglish
  \/ FetchAnime
  \/ \E i \in Instances :
       \/ \E x \in Object : Add(i, x)
       \/ \E x \in coll[i] : Remove(i, x)

Spec == Init /\ [][Next]_vars

-----------------------------------------------------------------------------
(* Properties *)

Answered == pc = "done" /\ out.code = 200

\* y is object x of instance i, and Seerr can get back to it by every ID in y.
Stands(y, i, x) ==
  /\ y.ext = x.ext
  /\ decode_id(y.id) = [owner |-> i, id |-> x.id]
  /\ op # "list" => decode_id(y.ref) = [owner |-> i, id |-> x.ref]
Shown(i, x) == \E y \in out.body : Stands(y, i, x)

\* The reply has the form this read expects.
Expected(o, g) ==
  CASE o = "lookup_one" -> g.shape = "dict" /\ g.elems # {}
    [] o = "queue" -> g.shape \in {"list", "paged"}
    [] OTHER -> g.shape = "list"

\* Whatever changes while the two instances are read one after the other, the
\* merged library, list or queue has every object that stayed where it was, under
\* IDs that lead back to it (service.py:233-338).
Complete ==
  Answered /\ op \notin Lookups =>
    \A i \in Instances : Expected(op, got[i]) => \A x \in throughout[i] : Shown(i, x)

\* And nothing else: each entry is an object some instance had during the read,
\* under an ID that leads back to it, or a search result with ID 0; and a title with
\* ID 0 is in no library whose instance was seen: none that answered as expected
\* has held it throughout (service.py:233-338, seen through changes in between).
NothingMadeUp ==
  Answered => \A y \in out.body :
    \/ \E i \in Instances : \E x \in sometime[i] : Stands(y, i, x)
    \/ /\ op \in Lookups /\ y.id = 0
       /\ \A i \in Instances : Expected(op, got[i]) => \A x \in throughout[i] : x.ext # y.ext

\* A lookup lists a title once, and a title that one instance has throughout and
\* the other has not appears under the ID that resolves (service.py:258-294).
LookupFinds ==
  Answered /\ op \in Lookups /\ (\A i \in Instances : Expected(op, got[i])) =>
    /\ \A y, z \in out.body : y.ext = z.ext /\ y.ext # NoExternal => y = z
    /\ \A i \in Instances : \A x \in throughout[i] :
         /\ x.ext # NoExternal
         /\ op = "lookup_one" => x.ext = sought
         /\ \A z \in sometime[Other(i)] : z.ext # x.ext
         => Shown(i, x)

\* A total outage is never an empty answer and half a library never a library;
\* a 4xx is the answer both instances gave (service.py:188-231).
ErrorsAreHonest ==
  pc = "done" =>
    /\ (\A i \in Instances : ~got[i].ok) => out.code # 200
    /\ op = "items" /\ (\E i \in Instances : ~got[i].ok) => out.code # 200
    /\ (\A i \in Instances : got[i].ok) => out.code = 200
    /\ out.code = 404 => \A i \in Instances : got[i].status = 404

\* What README.md:323-324 says: "the proxy never turns 'I cannot see an instance'
\* into 'that instance does not have it'".  A title that an instance holds
\* throughout a read of the library is listed, and a search does not offer it as
\* not added, whatever came back from that instance.
UnseenIsNotAbsent ==
  Answered =>
    \A i \in Instances : \A x \in throughout[i] : x.ext # NoExternal =>
      /\ op = "items" => Shown(i, x)
      /\ op \in Lookups => \A y \in out.body : y.ext = x.ext => y.id # 0
==============================================================================
