--------------------------- MODULE MergedReadProofs ---------------------------
(***************************************************************************)
(* The merged reads, for every library, any number of changes during the   *)
(* two sequential reads, and every mix of replies.                         *)
(***************************************************************************)
EXTENDS MergedRead, NamespaceProofs

-----------------------------------------------------------------------------
(* The inductive invariant.                                                 *)

Element == Object \cup {[id |-> 0, ref |-> 0, ext |-> e] : e \in Externals}
Fetch == [ok : BOOLEAN, status : {0, 200, 404, 500},
          shape : {"none", "list", "dict", "paged", "scalar"}, elems : SUBSET Element]

\* An instance has no ID and no external ID twice.
Distinct(s) ==
  \A x, y \in s : x # y => x.id # y.id /\ (x.ext # y.ext \/ x.ext = NoExternal)

\* A read of kind o has to find x.
Asked(o, ext, x) ==
  /\ o \in Lookups => x.ext # NoExternal
  /\ o = "lookup_one" => x.ext = ext

\* What reply g to a read of kind o says of an instance that has held all of held,
\* and nothing but seen, since the read began.
Honest(o, ext, held, seen, g) ==
  /\ g \in Fetch
  /\ g.status = 200 => g.ok
  /\ g.ok => g.status = 200
  /\ g.ok \/ g.elems = {}
  /\ Expected(o, g) \/ g.elems = {}
  /\ \A x \in g.elems : x \in seen \/ (o \in Lookups /\ x.id = 0 /\ x.ref = 0)
  /\ Expected(o, g) =>
       /\ g.ok
       /\ \A x \in held : Asked(o, ext, x) => x \in g.elems
       /\ o \in Lookups =>
            \A x, y \in g.elems : x.ext = y.ext /\ x.ext # NoExternal => x = y
       /\ o = "lookup_one" => \A x \in g.elems : x.ext = ext

HonestSoFar(i) == Honest(op, sought, throughout[i], sometime[i], got[i])

Libraries ==
  /\ coll \in [Instances -> SUBSET Object]
  /\ throughout \in [Instances -> SUBSET Object]
  /\ sometime \in [Instances -> SUBSET Object]
  /\ \A i \in Instances :
       Distinct(coll[i]) /\ throughout[i] \subseteq coll[i] /\ coll[i] \subseteq sometime[i]

Handler ==
  /\ op \in Ops /\ sought \in Externals
  /\ pc \in {"idle", "english", "anime", "done"}
  /\ got \in [Instances -> Fetch]
  /\ \A i \in Instances : got[i].elems = {} \/ got[i].ok

IInv ==
  /\ Libraries
  /\ Handler
  /\ pc \in {"anime", "done"} => HonestSoFar(English)
  /\ pc = "done" => HonestSoFar(Anime) /\ out = Fetched(op, got[English], got[Anime])
  /\ pc # "done" => out = NoAnswer

-----------------------------------------------------------------------------
(* The replies.                                                             *)

\* A reply stays honest while the instance changes.
LEMMA StaysHonest ==
  ASSUME NEW o, NEW ext, NEW held, NEW seen, NEW held2, NEW seen2, NEW g,
         held2 \subseteq held, seen \subseteq seen2, Honest(o, ext, held, seen, g)
  PROVE  Honest(o, ext, held2, seen2, g)
BY DEF Honest

\* What an instance lists in reply to each kind of read.
LEMMA ListingOf ==
  ASSUME NEW i \in Instances, op \in Ops, NEW g \in Listing(i)
  PROVE  \/ op = "lookup" /\ g = Reply("list", coll[i] \cup Missing(i))
         \/ /\ op = "lookup_one"
            /\ \E x \in coll[i] \cup Missing(i) : x.ext = sought /\ g = Reply("dict", {x})
         \/ op = "queue" /\ g \in {Reply("list", coll[i]), Reply("paged", coll[i])}
         \/ op \in {"items", "list"} /\ g = Reply("list", coll[i])
<1>1. CASE op = "lookup"
  BY <1>1, Zenon DEF Listing
<1>2. CASE op = "lookup_one"
  BY <1>2, Zenon DEF Listing
<1>3. CASE op = "queue"
  BY <1>3, Zenon DEF Listing
<1>4. CASE op = "items"
  BY <1>4, Zenon DEF Listing
<1>5. CASE op = "list"
  BY <1>5, Zenon DEF Listing
<1> QED
  BY <1>1, <1>2, <1>3, <1>4, <1>5 DEF Ops, Lookups

\* The form each kind of read expects.
LEMMA ExpectedOf ==
  ASSUME NEW o \in Ops, NEW g
  PROVE  /\ o = "lookup_one" => (Expected(o, g) <=> g.shape = "dict" /\ g.elems # {})
         /\ o = "queue" => (Expected(o, g) <=> g.shape \in {"list", "paged"})
         /\ o \in {"items", "list", "lookup"} => (Expected(o, g) <=> g.shape = "list")
<1>1. CASE o = "lookup_one"
  BY <1>1, Zenon DEF Expected
<1>2. CASE o = "queue"
  BY <1>2, Zenon DEF Expected
<1>3. CASE o = "items"
  BY <1>3, Zenon DEF Expected
<1>4. CASE o = "list"
  BY <1>4, Zenon DEF Expected
<1>5. CASE o = "lookup"
  BY <1>5, Zenon DEF Expected
<1> QED
  BY <1>1, <1>2, <1>3, <1>4, <1>5 DEF Ops, Lookups

\* How each kind of read merges its replies.
LEMMA MergedOf ==
  ASSUME NEW o \in Ops, NEW e, NEW a
  PROVE  /\ o = "items" => Merged(o, e, a) = merged_items(e, a)
         /\ o = "list" => Merged(o, e, a) = merged_list(e, a)
         /\ o = "queue" => Merged(o, e, a) = merged_queue(e, a)
         /\ o \in Lookups => Merged(o, e, a) = merged_lookup(e, a)
<1>1. CASE o = "items"
  BY <1>1, Zenon DEF Merged, Lookups
<1>2. CASE o = "list"
  BY <1>2, Zenon DEF Merged, Lookups
<1>3. CASE o = "queue"
  BY <1>3, Zenon DEF Merged, Lookups
<1>4. CASE o = "lookup"
  BY <1>4, Zenon DEF Merged, Lookups
<1>5. CASE o = "lookup_one"
  BY <1>5, Zenon DEF Merged, Lookups
<1> QED
  BY <1>1, <1>2, <1>3, <1>4, <1>5 DEF Ops, Lookups

\* What a reply is made of.
LEMMA ReplyParts ==
  ASSUME NEW shape, NEW elems
  PROVE  LET g == Reply(shape, elems)
         IN  g.ok /\ g.status = 200 /\ g.shape = shape /\ g.elems = elems
  BY DEF Reply

\* A list of what the instance holds, for a read that lists it.
LEMMA ListIsHonest ==
  ASSUME NEW o \in Ops \ Lookups, NEW ext, NEW held, NEW now \in SUBSET Object, NEW seen,
         held \subseteq now, now \subseteq seen, NEW shape \in {"list", "paged"},
         Expected(o, Reply(shape, now))
  PROVE  Honest(o, ext, held, seen, Reply(shape, now))
<1> DEFINE g == Reply(shape, now)
<1>1. g.ok /\ g.status = 200 /\ g.shape = shape /\ g.elems = now
  BY ReplyParts
<1>2. g \in Fetch
  BY DEF Reply, Fetch, Element
<1> HIDE DEF g
<1>3. o # "lookup_one"
  BY DEF Lookups
<1> QED
  BY <1>1, <1>2, <1>3 DEF Honest, g

\* A search result that is not in the library.
LEMMA MissingOf ==
  ASSUME NEW i \in Instances, NEW x \in Missing(i)
  PROVE  /\ x.id = 0 /\ x.ref = 0 /\ x.ext \in Externals
         /\ x = [id |-> 0, ref |-> 0, ext |-> x.ext]
         /\ \A y \in coll[i] : y.ext # x.ext
         /\ x.ext # NoExternal
<1>1. PICK e \in Externals \ {y.ext : y \in coll[i]} : x = NotAdded(i, e)
  BY DEF Missing
<1> QED
  BY <1>1, ExternalsAssumption DEF NotAdded

\* A search finds each title once.
LEMMA FoundOnce ==
  ASSUME NEW i \in Instances, Distinct(coll[i]),
         NEW x \in coll[i] \cup Missing(i), NEW y \in coll[i] \cup Missing(i),
         x.ext = y.ext, x.ext # NoExternal
  PROVE  x = y
<1>1. CASE x \in coll[i] /\ y \in coll[i]
  BY <1>1 DEF Distinct
<1>2. CASE x \in Missing(i) /\ y \in Missing(i)
  BY <1>2, MissingOf
<1>3. CASE x \in Missing(i) /\ y \in coll[i]
  BY <1>3, MissingOf
<1>4. CASE x \in coll[i] /\ y \in Missing(i)
  BY <1>4, MissingOf
<1> QED
  BY <1>1, <1>2, <1>3, <1>4

LEMMA FoundElements ==
  ASSUME NEW i \in Instances, coll[i] \subseteq Object
  PROVE  coll[i] \cup Missing(i) \subseteq Element
  BY MissingOf DEF Element

LEMMA LookupIsHonest ==
  ASSUME NEW i \in Instances, coll[i] \subseteq Object, Distinct(coll[i]),
         NEW held, NEW seen, held \subseteq coll[i], coll[i] \subseteq seen,
         NEW ext
  PROVE  Honest("lookup", ext, held, seen, Reply("list", coll[i] \cup Missing(i)))
<1> DEFINE now == coll[i] \cup Missing(i)
           g == Reply("list", now)
<1>1. g.ok /\ g.status = 200 /\ g.shape = "list" /\ g.elems = now
  BY ReplyParts
<1>2. now \subseteq Element /\ held \subseteq now
  BY FoundElements
<1>3. \A x \in now : x \in seen \/ (x.id = 0 /\ x.ref = 0)
  BY MissingOf
<1>4. \A x, y \in now : x.ext = y.ext /\ x.ext # NoExternal => x = y
  BY FoundOnce
<1> HIDE DEF now
<1>5. g \in Fetch
  BY <1>2 DEF Reply, Fetch
<1>6. Expected("lookup", g)
  BY <1>1, ExpectedOf DEF Ops, Lookups
<1> HIDE DEF g
<1> QED
  BY <1>1, <1>2, <1>3, <1>4, <1>5, <1>6 DEF Honest, Lookups, g, now

LEMMA LookupOneIsHonest ==
  ASSUME NEW i \in Instances, coll[i] \subseteq Object, Distinct(coll[i]),
         NEW held, NEW seen, held \subseteq coll[i], coll[i] \subseteq seen,
         NEW ext \in Externals, NEW x \in coll[i] \cup Missing(i), x.ext = ext
  PROVE  Honest("lookup_one", ext, held, seen, Reply("dict", {x}))
<1> DEFINE g == Reply("dict", {x})
<1>1. g.ok /\ g.status = 200 /\ g.shape = "dict" /\ g.elems = {x}
  BY ReplyParts
<1>2. g \in Fetch
  BY FoundElements DEF Reply, Fetch
<1>3. x \in seen \/ (x.id = 0 /\ x.ref = 0)
  BY MissingOf
<1>4. \A y \in held : y.ext = ext => y = x
  BY FoundOnce, ExternalsAssumption
<1>5. \A y \in held : Asked("lookup_one", ext, y) => y \in {x}
  BY <1>4 DEF Asked
<1> HIDE DEF g
<1>6. /\ g.status = 200 => g.ok
      /\ g.ok => g.status = 200
      /\ g.ok \/ g.elems = {}
      /\ \A y \in g.elems : y \in seen \/ (y.id = 0 /\ y.ref = 0)
      /\ \A y \in held : Asked("lookup_one", ext, y) => y \in g.elems
      /\ \A y, z \in g.elems : y = z
      /\ \A y \in g.elems : y.ext = ext
  BY <1>1, <1>3, <1>5
<1>7. "lookup_one" \in Lookups
  BY DEF Lookups
<1>8. Expected("lookup_one", g)
  BY <1>1, ExpectedOf DEF Ops, Lookups
<1> QED
  BY <1>1, <1>2, <1>6, <1>7, <1>8 DEF Honest, g

\* What is no answer to the read is honest of any instance.
LEMMA UselessIsHonest ==
  ASSUME NEW o \in Ops, NEW ext, NEW held, NEW seen, NEW g \in Fetch, g.elems = {},
         g.status = 200 => g.ok, g.ok => g.status = 200,
         ~Expected(o, g)
  PROVE  Honest(o, ext, held, seen, g)
  BY DEF Honest

LEMMA RepliesAreHonest ==
  ASSUME Libraries, op \in Ops, sought \in Externals, NEW i \in Instances, NEW g \in Replies(i)
  PROVE  Honest(op, sought, throughout[i], sometime[i], g)
<1>0. /\ coll[i] \subseteq Object /\ Distinct(coll[i])
      /\ throughout[i] \subseteq coll[i] /\ coll[i] \subseteq sometime[i]
  BY DEF Libraries
<1>1. CASE g \in Listing(i)
  <2>1. CASE op = "lookup" /\ g = Reply("list", coll[i] \cup Missing(i))
    BY <1>0, <2>1, LookupIsHonest
  <2>2. CASE /\ op = "lookup_one"
             /\ \E x \in coll[i] \cup Missing(i) : x.ext = sought /\ g = Reply("dict", {x})
    BY <1>0, <2>2, LookupOneIsHonest
  <2>3. CASE op = "queue" /\ g \in {Reply("list", coll[i]), Reply("paged", coll[i])}
    <3>1. PICK shape \in {"list", "paged"} : g = Reply(shape, coll[i])
      BY <2>3
    <3>2. Expected(op, Reply(shape, coll[i]))
      BY <2>3, ReplyParts, ExpectedOf
    <3> QED
      BY <1>0, <2>3, <3>1, <3>2, ListIsHonest DEF Lookups
  <2>4. CASE op \in {"items", "list"} /\ g = Reply("list", coll[i])
    <3>1. Expected(op, Reply("list", coll[i]))
      BY <2>4, ReplyParts, ExpectedOf
    <3> QED
      BY <1>0, <2>4, <3>1, ListIsHonest DEF Lookups
  <2> QED
    BY <1>1, <2>1, <2>2, <2>3, <2>4, ListingOf DEF Ops, Lookups
<1>2. CASE g \in Failures
  <2>1. g \in Fetch /\ g.elems = {} /\ g.ok = FALSE /\ g.status # 200 /\ g.shape = "none"
    <3>1. \A status \in {0, 404, 500} :
            /\ NoReply(status) \in Fetch /\ NoReply(status).elems = {}
            /\ NoReply(status).ok = FALSE /\ NoReply(status).status = status
            /\ NoReply(status).shape = "none"
      BY DEF NoReply, Fetch
    <3>2. g \in {NoReply(status) : status \in {0, 404, 500}}
      BY <1>2 DEF Failures
    <3> QED
      BY <3>1, <3>2
  <2>2. ~Expected(op, g)
    BY <2>1, ExpectedOf DEF Ops, Lookups
  <2> QED
    BY <2>1, <2>2, UselessIsHonest
<1>3. CASE g \in {Reply("dict", {}), Reply("scalar", {})}
  <2>1. /\ g \in Fetch /\ g.elems = {} /\ g.ok /\ g.status = 200
        /\ g.shape \in {"dict", "scalar"}
    <3>1. /\ Reply("dict", {}) \in Fetch /\ Reply("scalar", {}) \in Fetch
      BY DEF Reply, Fetch
    <3> QED
      BY <1>3, <3>1, ReplyParts
  <2>2. ~Expected(op, g)
    BY <2>1, ExpectedOf DEF Ops, Lookups
  <2> QED
    BY <2>1, <2>2, UselessIsHonest
<1> QED
  BY <1>1, <1>2, <1>3 DEF Replies

-----------------------------------------------------------------------------
LEMMA IInvInit == Init => IInv
<1> SUFFICES ASSUME Init PROVE IInv
  OBVIOUS
<1>1. Libraries
  BY DEF Init, Libraries, Holdings, Distinct
<1>2. NoReply(0) \in Fetch /\ NoReply(0).elems = {}
  BY DEF NoReply, Fetch
<1>3. Handler
  BY <1>2 DEF Init, Handler, Ops
<1> QED
  BY <1>1, <1>3 DEF Init, IInv

\* A change during the read takes from what was held, and adds to what was seen.
LEMMA ChangeKeeps ==
  ASSUME IInv, Libraries', Change,
         \A i \in Instances :
           throughout'[i] \subseteq throughout[i] /\ sometime[i] \subseteq sometime'[i]
  PROVE  IInv'
<1>1. /\ pc' = pc /\ op' = op /\ sought' = sought /\ got' = got /\ out' = out
      /\ pc # "done"
  BY DEF Change
<1>2. Handler'
  BY <1>1 DEF IInv, Handler
<1>3. pc' = "anime" => HonestSoFar(English)'
  <2> SUFFICES ASSUME pc' = "anime"
               PROVE  Honest(op', sought', throughout'[English], sometime'[English], got'[English])
    BY DEF HonestSoFar
  <2>1. Honest(op, sought, throughout[English], sometime[English], got[English])
    BY <1>1 DEF IInv, HonestSoFar
  <2> QED
    BY <1>1, <2>1, StaysHonest DEF Instances
<1> QED
  BY <1>1, <1>2, <1>3 DEF IInv

LEMMA IInvNext == IInv /\ [Next]_vars => IInv'
<1> SUFFICES ASSUME IInv, [Next]_vars PROVE IInv'
  OBVIOUS
<1>1. ASSUME NEW o \in Ops, NEW ext \in Externals, Begin(o, ext) PROVE IInv'
  <2>1. Libraries'
    BY <1>1 DEF Begin, IInv, Libraries
  <2>2. NoReply(0) \in Fetch /\ NoReply(0).elems = {}
    BY DEF NoReply, Fetch
  <2>3. Handler'
    BY <1>1, <2>2 DEF Begin, Handler
  <2> QED
    BY <1>1, <2>1, <2>3 DEF Begin, IInv
<1>2. CASE FetchEnglish
  <2>1. PICK g \in Replies(English) : got' = [got EXCEPT ![English] = g]
    BY <1>2 DEF FetchEnglish
  <2>2. /\ pc' = "anime" /\ op' = op /\ sought' = sought /\ out' = out /\ pc = "english"
        /\ coll' = coll /\ throughout' = throughout /\ sometime' = sometime
    BY <1>2 DEF FetchEnglish, instances
  <2>3. Honest(op, sought, throughout[English], sometime[English], g)
    BY RepliesAreHonest DEF IInv, Handler, Instances
  <2>4. Libraries'
    BY <2>2 DEF IInv, Libraries
  <2>5. Handler' /\ got'[English] = g
    BY <2>1, <2>2, <2>3 DEF IInv, Handler, Honest, Instances
  <2>6. HonestSoFar(English)'
    BY <2>2, <2>3, <2>5 DEF HonestSoFar
  <2> QED
    BY <2>2, <2>4, <2>5, <2>6 DEF IInv
<1>3. CASE FetchAnime
  <2>1. PICK g \in Replies(Anime) :
          got' = [got EXCEPT ![Anime] = g] /\ out' = Fetched(op, got[English], g)
    BY <1>3 DEF FetchAnime
  <2>2. /\ pc' = "done" /\ op' = op /\ sought' = sought /\ pc = "anime"
        /\ coll' = coll /\ throughout' = throughout /\ sometime' = sometime
    BY <1>3 DEF FetchAnime, instances
  <2>3. Honest(op, sought, throughout[Anime], sometime[Anime], g)
    BY RepliesAreHonest DEF IInv, Handler, Instances
  <2>4. Libraries'
    BY <2>2 DEF IInv, Libraries
  <2>5. Handler' /\ got'[Anime] = g /\ got'[English] = got[English]
    BY <2>1, <2>2, <2>3 DEF IInv, Handler, Honest, Instances, English, Anime
  <2>6. HonestSoFar(Anime)' /\ HonestSoFar(English)'
    BY <2>2, <2>3, <2>5 DEF IInv, HonestSoFar
  <2>7. out' = Fetched(op', got'[English], got'[Anime])
    BY <2>1, <2>2, <2>5
  <2> QED
    BY <2>2, <2>4, <2>5, <2>6, <2>7 DEF IInv
<1>4. ASSUME NEW i \in Instances, NEW x \in Object, Add(i, x) PROVE IInv'
  <2>1. /\ Change /\ throughout' = throughout
        /\ coll' = [coll EXCEPT ![i] = @ \cup {x}]
        /\ sometime' = [sometime EXCEPT ![i] = @ \cup {x}]
    BY <1>4 DEF Add
  <2>2. Distinct(coll[i] \cup {x})
    BY <1>4 DEF Add, IInv, Libraries, Distinct
  <2>3. Libraries'
    BY <2>1, <2>2 DEF IInv, Libraries
  <2> QED
    BY <2>1, <2>3, ChangeKeeps DEF IInv, Libraries
<1>5. ASSUME NEW i \in Instances, NEW x \in coll[i], Remove(i, x) PROVE IInv'
  <2>1. /\ Change /\ sometime' = sometime
        /\ coll' = [coll EXCEPT ![i] = @ \ {x}]
        /\ throughout' = [throughout EXCEPT ![i] = @ \ {x}]
    BY <1>5 DEF Remove
  <2>2. Distinct(coll[i] \ {x})
    BY DEF IInv, Libraries, Distinct
  <2>3. Libraries'
    BY <2>1, <2>2 DEF IInv, Libraries
  <2> QED
    BY <2>1, <2>3, ChangeKeeps DEF IInv, Libraries
<1>6. CASE UNCHANGED vars
  <2>1. /\ pc' = pc /\ op' = op /\ sought' = sought /\ got' = got /\ out' = out
        /\ coll' = coll /\ throughout' = throughout /\ sometime' = sometime
    BY <1>6 DEF vars, instances
  <2> QED
    BY <2>1 DEF IInv, Libraries, Handler, HonestSoFar
<1> QED
  BY <1>1, <1>2, <1>3, <1>4, <1>5, <1>6 DEF Next

LEMMA Inductive == Spec => []IInv
  BY IInvInit, IInvNext, PTL DEF Spec

-----------------------------------------------------------------------------
(* Errors.                                                                  *)

\* The answer to a pair of replies.
LEMMA FetchedCode ==
  ASSUME NEW o \in Ops, NEW e \in Fetch, NEW a \in Fetch
  PROVE  /\ ~e.ok /\ ~a.ok =>
              /\ Fetched(o, e, a).code \in {404, 502}
              /\ Fetched(o, e, a).code = 404 => e.status = 404 /\ a.status = 404
         /\ o = "items" /\ (~e.ok \/ ~a.ok) => Fetched(o, e, a).code \in {404, 502}
         /\ Fetched(o, e, a).code = 404 => ~e.ok /\ ~a.ok
         /\ e.ok /\ a.ok => Fetched(o, e, a).code = 200
         /\ Fetched(o, e, a).code = 200 => Fetched(o, e, a).body = Merged(o, e, a)
  BY DEF Fetched, FailureCode, Error, Ok

LEMMA IInvErrors == IInv => ErrorsAreHonest
<1> SUFFICES ASSUME IInv, pc = "done" PROVE
      /\ (\A i \in Instances : ~got[i].ok) => out.code # 200
      /\ op = "items" /\ (\E i \in Instances : ~got[i].ok) => out.code # 200
      /\ (\A i \in Instances : got[i].ok) => out.code = 200
      /\ out.code = 404 => \A i \in Instances : got[i].status = 404
  BY DEF ErrorsAreHonest
<1>1. /\ out = Fetched(op, got[English], got[Anime]) /\ op \in Ops
      /\ got[English] \in Fetch /\ got[Anime] \in Fetch
  BY DEF IInv, Handler, Instances
<1> QED
  BY <1>1, FetchedCode DEF Instances

\* A total outage is an error, half a library is one too, and a 4xx is passed on
\* only when both instances gave it (service.py:188-231).
THEOREM ErrorsStayHonest == Spec => []ErrorsAreHonest
  BY Inductive, IInvErrors, PTL

-----------------------------------------------------------------------------
(* IDs.                                                                     *)

LEMMA IdsAreHandedOut ==
  ASSUME NEW x \in Object, NEW i \in Instances
  PROVE  /\ x.id \in Nat /\ HandedOut(i, x.id)
         /\ x.ref \in Nat /\ HandedOut(i, x.ref)
<1>1. x.id \in 1 .. Offset - 1 /\ x.ref \in 1 .. Offset - 1
  BY IdsAssumption DEF Object
<1> QED
  BY <1>1, OffsetAssumption DEF HandedOut

\* What encode_obj does to an object.
LEMMA EncodedFields ==
  ASSUME NEW o \in Ops, NEW x \in Element
  PROVE  /\ Encoded(o, x).ext = x.ext
         /\ Encoded(o, x).id = Exposed(Anime, x.id)
         /\ o # "list" => Encoded(o, x).ref = Exposed(Anime, x.ref)
<1>1. DOMAIN x = {"id", "ref", "ext"}
  BY DEF Element, Object
<1>2. offset_for(Anime) = Offset
  BY DEF offset_for
<1> QED
  BY <1>1, <1>2 DEF Encoded, IdFields, Exposed

LEMMA EnglishStands ==
  ASSUME NEW x \in Object
  PROVE  Stands(x, English, x)
<1>1. \A n \in {x.id, x.ref} : decode_id(n) = [owner |-> English, id |-> n]
  <2> TAKE n \in {x.id, x.ref}
  <2>1. n \in Nat /\ HandedOut(English, n)
    BY IdsAreHandedOut DEF Instances
  <2>2. n \in Int /\ ~(n >= Offset)
    BY <2>1, OffsetAssumption DEF HandedOut
  <2> QED
    BY <2>2, DecodedEnglish
<1> QED
  BY <1>1 DEF Stands

LEMMA AnimeStands ==
  ASSUME op \in Ops, NEW x \in Object
  PROVE  Stands(Encoded(op, x), Anime, x)
<1>1. /\ decode_id(Exposed(Anime, x.id)) = [owner |-> Anime, id |-> x.id]
      /\ decode_id(Exposed(Anime, x.ref)) = [owner |-> Anime, id |-> x.ref]
  BY IdsAreHandedOut, RoundTrip DEF Instances
<1> QED
  BY <1>1, EncodedFields DEF Stands, Element

\* An object with ID 0 keeps it.
LEMMA ZeroStays ==
  ASSUME NEW o \in Ops, NEW x \in Element, x.id = 0
  PROVE  Encoded(o, x).id = 0
<1>1. Exposed(Anime, 0) = 0
  BY NonIdsAssumption DEF Exposed, encode_id
<1> QED
  BY <1>1, EncodedFields

-----------------------------------------------------------------------------
(* What a merge is made of.                                                 *)

\* Each kind of lookup encodes what the others of the same fields would.
LEMMA EncodedAsLookup ==
  ASSUME NEW o \in Ops \ {"list"}, NEW x
  PROVE  Encoded(o, x) = Encoded("lookup", x)
  BY DEF Encoded, IdFields

LEMMA MergedParts ==
  ASSUME NEW o \in Ops, NEW e \in Fetch, NEW a \in Fetch, NEW y \in Merged(o, e, a)
  PROVE  y \in e.elems \/ \E x \in a.elems : y = Encoded(o, x)
<1>1. ExpectList(e) \subseteq e.elems /\ ExpectList(a) \subseteq a.elems
  BY DEF ExpectList
<1>2. Records(e) \subseteq e.elems /\ Records(a) \subseteq a.elems
  BY DEF Records
<1>3. CASE o = "items"
  BY <1>1, <1>3, MergedOf DEF merged_items, EncodedAll
<1>4. CASE o = "list"
  BY <1>1, <1>4, MergedOf DEF merged_list, EncodedAll
<1>5. CASE o = "queue"
  BY <1>2, <1>5, MergedOf DEF merged_queue, EncodedAll
<1>6. CASE o \in Lookups
  <2>1. y \in lookup_objects(e, a) \/ y \in lookup_lists(e, a)
    BY <1>6, MergedOf DEF merged_lookup
  <2>2. y \in e.elems \/ \E x \in a.elems : y = Encoded("lookup", x)
    BY <1>1, <2>1 DEF lookup_objects, lookup_lists, EncodedAll
  <2> QED
    BY <1>6, <2>2, EncodedAsLookup DEF Lookups
<1> QED
  BY <1>3, <1>4, <1>5, <1>6 DEF Ops

\* The library, a list and the queue have every element of the form they expect.
LEMMA MergedWhole ==
  ASSUME NEW o \in Ops \ Lookups, NEW e \in Fetch, NEW a \in Fetch
  PROVE  /\ Expected(o, e) => e.elems \subseteq Merged(o, e, a)
         /\ Expected(o, a) => \A x \in a.elems : Encoded(o, x) \in Merged(o, e, a)
<1>1. CASE o = "items"
  BY <1>1, MergedOf, ExpectedOf DEF merged_items, ExpectList, EncodedAll
<1>2. CASE o = "list"
  BY <1>2, MergedOf, ExpectedOf DEF merged_list, ExpectList, EncodedAll
<1>3. CASE o = "queue"
  BY <1>3, MergedOf, ExpectedOf DEF merged_queue, Records, EncodedAll
<1> QED
  BY <1>1, <1>2, <1>3 DEF Ops

\* What an answer is merged from.
LEMMA AnswerIsMerged ==
  ASSUME IInv, Answered
  PROVE  /\ op \in Ops /\ got[English] \in Fetch /\ got[Anime] \in Fetch
         /\ out.body = Merged(op, got[English], got[Anime])
         /\ \A i \in Instances :
              /\ HonestSoFar(i) /\ got[i] \in Fetch
              /\ throughout[i] \subseteq Object /\ sometime[i] \subseteq Object
<1>1. out = Fetched(op, got[English], got[Anime]) /\ out.code = 200
  BY DEF IInv, Answered
<1>2. op \in Ops /\ got[English] \in Fetch /\ got[Anime] \in Fetch
  BY DEF IInv, Handler, Instances
<1> QED
  BY <1>1, <1>2, FetchedCode DEF IInv, Answered, Libraries, Handler, Instances

LEMMA IInvComplete == IInv => Complete
<1> SUFFICES ASSUME IInv, Answered, op \notin Lookups,
                    NEW i \in Instances, Expected(op, got[i]), NEW x \in throughout[i]
             PROVE  \E y \in out.body : Stands(y, i, x)
  BY DEF Complete, Shown
<1>1. x \in Object /\ x \in got[i].elems
  BY AnswerIsMerged DEF HonestSoFar, Honest, Asked, Lookups
<1>2. CASE i = English
  BY <1>1, <1>2, AnswerIsMerged, MergedWhole, EnglishStands
<1>3. CASE i = Anime
  BY <1>1, <1>3, AnswerIsMerged, MergedWhole, AnimeStands
<1> QED
  BY <1>2, <1>3 DEF Instances

\* Nothing is missing from a merged library, list or queue that an instance held
\* throughout the read and answered with (service.py:233-338).
THEOREM NothingMissing == Spec => []Complete
  BY Inductive, IInvComplete, PTL

-----------------------------------------------------------------------------
(* Lookups.                                                                 *)

Winners(e, a) == {x \in a.elems : Wins(x, e.elems)}

\* The answer to a search by term: each title from one instance.
LEMMA BodyOfLists ==
  ASSUME NEW e \in Fetch, NEW a \in Fetch, Expected("lookup", e), Expected("lookup", a)
  PROVE  \A y : y \in Merged("lookup", e, a) <=>
           \/ /\ y \in e.elems
              /\ y.ext = NoExternal \/ \A x \in Winners(e, a) : x.ext # y.ext
           \/ \E x \in Winners(e, a) : y = Encoded("lookup", x)
<1>1. e.shape = "list" /\ a.shape = "list"
  BY ExpectedOf DEF Ops, Lookups
<1>2. Merged("lookup", e, a) = lookup_lists(e, a)
  BY <1>1, MergedOf DEF merged_lookup, IsObject, Ops, Lookups
<1>3. ExpectList(e) = e.elems /\ ExpectList(a) = a.elems
  BY <1>1 DEF ExpectList
<1> QED
  BY <1>2, <1>3 DEF lookup_lists, Winners, EncodedAll

\* The answer to a lookup by ID: the anime object if it is in that library.
LEMMA BodyOfObjects ==
  ASSUME NEW e \in Fetch, NEW a \in Fetch, e.ok,
         Expected("lookup_one", e), Expected("lookup_one", a)
  PROVE  \/ /\ \E x \in a.elems : x.id # 0
            /\ \A y : y \in Merged("lookup_one", e, a) <=>
                        \E x \in a.elems : y = Encoded("lookup", x)
         \/ /\ \A x \in a.elems : x.id = 0
            /\ Merged("lookup_one", e, a) = e.elems
<1>1. e.shape = "dict" /\ a.shape = "dict"
  BY ExpectedOf DEF Ops, Lookups
<1>2. Merged("lookup_one", e, a) = lookup_objects(e, a)
  BY <1>1, MergedOf DEF merged_lookup, IsObject, Ops, Lookups
<1>3. IsObject(a)
  BY <1>1 DEF IsObject
<1> QED
  BY <1>2, <1>3 DEF lookup_objects, EncodedAll

\* What is found with ID 0 has an external ID.
LEMMA ZeroHasExternal ==
  ASSUME NEW x \in Element, x.id = 0
  PROVE  x.ext # NoExternal
<1>1. x \notin Object
  BY IdsAreHandedOut DEF HandedOut, Instances
<1>2. PICK e \in Externals : x = [id |-> 0, ref |-> 0, ext |-> e]
  BY <1>1 DEF Element
<1> QED
  BY <1>2, ExternalsAssumption

\* A title that a search shows with ID 0 is in no library that was seen: who has
\* held it throughout and answered as expected has it in the reply, with its ID,
\* and that copy wins.
LEMMA AbsentIsAbsent ==
  ASSUME IInv, Answered, op \in Lookups, NEW y \in out.body, y.id = 0, y.ext # NoExternal,
         NEW i \in Instances, Expected(op, got[i]), NEW x \in throughout[i]
  PROVE  x.ext # y.ext
<1> SUFFICES ASSUME x.ext = y.ext PROVE FALSE
  OBVIOUS
<1> DEFINE e == got[English]
           a == got[Anime]
<1>1. /\ op \in Ops /\ e \in Fetch /\ a \in Fetch /\ out.body = Merged(op, e, a)
      /\ e.elems \subseteq Element /\ a.elems \subseteq Element
  BY AnswerIsMerged DEF Instances, Fetch
<1>2. \A j \in Instances :
        /\ Expected(op, got[j]) \/ got[j].elems = {}
        /\ Expected(op, got[j]) =>
             /\ got[j].ok
             /\ \A w, z \in got[j].elems : w.ext = z.ext /\ w.ext # NoExternal => w = z
             /\ \A w \in throughout[j] : Asked(op, sought, w) => w \in got[j].elems
             /\ op = "lookup_one" => \A w \in got[j].elems : w.ext = sought
  BY AnswerIsMerged DEF HonestSoFar, Honest
<1>3. x.id # 0
  BY AnswerIsMerged, IdsAreHandedOut DEF HandedOut
<1>4. y \in e.elems \/ \E z \in a.elems : y = Encoded("lookup", z)
  BY <1>1, MergedParts, EncodedAsLookup DEF Lookups
<1>5. \A z \in a.elems : Encoded("lookup", z).ext = z.ext
  BY <1>1, EncodedFields DEF Ops, Lookups
<1>6. \A z \in a.elems : Encoded("lookup", z).id = 0 => z.id = 0
  <2>1. ASSUME NEW z \in a.elems PROVE Encoded("lookup", z).id = Exposed(Anime, z.id)
    BY <1>1, EncodedFields DEF Ops, Lookups
  <2>2. ASSUME NEW z \in a.elems PROVE z.id \in Nat
    <3>1. CASE z \in Object
      BY <3>1, IdsAreHandedOut DEF Instances
    <3>2. CASE z \notin Object
      BY <1>1, <3>2 DEF Element
    <3> QED
      BY <3>1, <3>2
  <2> QED
    BY <2>1, <2>2, OffsetAssumption, NonIdsAssumption DEF Exposed, encode_id, offset_for
<1>7. x \in got[i].elems
  <2>1. op = "lookup_one" => y.ext = sought
    BY <1>2, <1>4, <1>5 DEF Instances
  <2> QED
    BY <1>2, <2>1 DEF Asked
<1>8. PICK j \in Instances : \E z \in got[j].elems :
        z.ext = y.ext /\ z.id = 0 /\ (j = English => y = z) /\ (j = Anime => y = Encoded("lookup", z))
  BY <1>4, <1>5, <1>6 DEF Instances, English, Anime
<1>81. PICK z \in got[j].elems :
        z.ext = y.ext /\ z.id = 0 /\ (j = English => y = z) /\ (j = Anime => y = Encoded("lookup", z))
  BY <1>8
<1>9. i # j
  BY <1>2, <1>3, <1>7, <1>81
<1>10. Expected(op, e) /\ Expected(op, a)
  BY <1>2, <1>7, <1>81, <1>9 DEF Instances
<1>11. e.ok
  BY <1>2, <1>10 DEF Instances
<1>12. /\ (i = English /\ j = Anime) \/ (i = Anime /\ j = English)
       /\ \A w, v \in e.elems : w.ext = v.ext /\ w.ext # NoExternal => w = v
       /\ \A w, v \in a.elems : w.ext = v.ext /\ w.ext # NoExternal => w = v
  BY <1>2, <1>9, <1>10 DEF Instances
<1>13. op = "lookup_one" => \A w \in e.elems \cup a.elems : w.ext = sought
  BY <1>2, <1>10 DEF Instances
<1>14. \/ i = English /\ x \in e.elems /\ z \in a.elems /\ y = Encoded("lookup", z)
       \/ i = Anime /\ x \in a.elems /\ z \in e.elems /\ y = z
  BY <1>7, <1>81, <1>12
<1> HIDE DEF e, a
<1>15. CASE op = "lookup"
  <2>1. \/ /\ y \in e.elems
           /\ y.ext = NoExternal \/ \A w \in Winners(e, a) : w.ext # y.ext
        \/ \E w \in Winners(e, a) : y = Encoded("lookup", w)
    BY <1>1, <1>10, <1>15, BodyOfLists
  <2>2. \A w \in Winners(e, a) : w \in a.elems /\ Wins(w, e.elems)
    BY DEF Winners
  <2>3. CASE i = English
    <3>1. y \notin e.elems
      BY <1>3, <1>12, <1>14, <2>3 DEF English, Anime
    <3>2. PICK w \in Winners(e, a) : y = Encoded("lookup", w)
      BY <2>1, <3>1
    <3>3. w.ext = y.ext /\ w.id = 0
      BY <1>5, <1>6, <2>2, <3>2
    <3> QED
      BY <1>14, <2>2, <2>3, <3>3 DEF Wins, English, Anime
  <2>4. CASE i = Anime
    <3>1. x \in Winners(e, a)
      BY <1>3, <1>14, <2>4 DEF Winners, Wins, English, Anime
    <3>2. PICK w \in Winners(e, a) : y = Encoded("lookup", w)
      BY <2>1, <3>1
    <3>3. w.ext = x.ext /\ w \in a.elems /\ w.id = 0
      BY <1>5, <1>6, <2>2, <3>2
    <3> QED
      BY <1>3, <1>12, <1>14, <2>4, <3>3 DEF English, Anime
  <2> QED
    BY <1>12, <2>3, <2>4
<1>16. CASE op = "lookup_one"
  <2>1. \/ /\ \E w \in a.elems : w.id # 0
           /\ \E w \in a.elems : y = Encoded("lookup", w)
        \/ /\ \A w \in a.elems : w.id = 0
           /\ y \in e.elems
    BY <1>1, <1>10, <1>11, <1>16, BodyOfObjects
  <2>2. \A w, v \in a.elems : w = v
    BY <1>12, <1>13, <1>14, <1>16
  <2> QED
    BY <1>3, <1>6, <1>12, <1>14, <2>1, <2>2
<1> QED
  BY <1>15, <1>16 DEF Lookups

LEMMA IInvMadeUp == IInv => NothingMadeUp
<1> SUFFICES ASSUME IInv, Answered, NEW y \in out.body,
                    ~ \E i \in Instances : \E x \in sometime[i] : Stands(y, i, x)
             PROVE  /\ op \in Lookups /\ y.id = 0
                    /\ \A i \in Instances :
                         Expected(op, got[i]) => \A x \in throughout[i] : x.ext # y.ext
  BY DEF NothingMadeUp
<1>0. /\ op \in Ops /\ English \in Instances /\ Anime \in Instances
      /\ got[English].elems \subseteq Element /\ got[Anime].elems \subseteq Element
  BY AnswerIsMerged DEF Fetch, Instances
<1>1. y \in got[English].elems \/ \E x \in got[Anime].elems : y = Encoded(op, x)
  BY AnswerIsMerged, MergedParts
<1>2. ASSUME y \in got[English].elems
      PROVE  op \in Lookups /\ y.id = 0 /\ y.ext # NoExternal
  <2>1. y \in sometime[English] \/ (op \in Lookups /\ y.id = 0)
    BY <1>0, <1>2, AnswerIsMerged DEF HonestSoFar, Honest
  <2>2. y \notin sometime[English]
    BY <1>0, AnswerIsMerged, EnglishStands
  <2>3. y.ext # NoExternal
    BY <1>0, <1>2, <2>1, <2>2, ZeroHasExternal
  <2> QED
    BY <2>1, <2>2, <2>3
<1>3. ASSUME NEW x \in got[Anime].elems, y = Encoded(op, x)
      PROVE  op \in Lookups /\ y.id = 0 /\ y.ext # NoExternal
  <2>1. x \in sometime[Anime] \/ (op \in Lookups /\ x.id = 0)
    BY <1>0, AnswerIsMerged DEF HonestSoFar, Honest
  <2>2. x \notin sometime[Anime]
    BY <1>0, <1>3, AnswerIsMerged, AnimeStands
  <2>3. y.id = 0
    BY <1>0, <1>3, <2>1, <2>2, ZeroStays
  <2>4. y.ext = x.ext /\ x.ext # NoExternal
    BY <1>0, <1>3, <2>1, <2>2, EncodedFields, ZeroHasExternal
  <2> QED
    BY <2>1, <2>2, <2>3, <2>4
<1>4. op \in Lookups /\ y.id = 0 /\ y.ext # NoExternal
  BY <1>1, <1>2, <1>3
<1> QED
  BY <1>4, AbsentIsAbsent

\* Whatever is listed is an object of the instance its ID leads to, or a search
\* result of no library that was seen: an instance that answered and has held the
\* title all along is never overruled (service.py:233-338, namespace.py:5-7).
THEOREM NothingIsMadeUp == Spec => []NothingMadeUp
  BY Inductive, IInvMadeUp, PTL

LEMMA IInvLookup == IInv => LookupFinds
<1> SUFFICES ASSUME IInv, Answered, op \in Lookups, \A i \in Instances : Expected(op, got[i])
             PROVE  /\ \A y, z \in out.body : y.ext = z.ext /\ y.ext # NoExternal => y = z
                    /\ \A i \in Instances : \A x \in throughout[i] :
                         /\ x.ext # NoExternal
                         /\ op = "lookup_one" => x.ext = sought
                         /\ \A z \in sometime[Other(i)] : z.ext # x.ext
                         => Shown(i, x)
  BY DEF LookupFinds
<1> DEFINE e == got[English]
           a == got[Anime]
<1>1. /\ op \in Ops /\ e \in Fetch /\ a \in Fetch
      /\ Expected(op, e) /\ Expected(op, a) /\ out.body = Merged(op, e, a)
      /\ e.elems \subseteq Element /\ a.elems \subseteq Element
  BY AnswerIsMerged DEF Instances, Fetch
<1>2. /\ e.ok
      /\ \A x, y \in e.elems : x.ext = y.ext /\ x.ext # NoExternal => x = y
      /\ \A x \in throughout[English] : Asked(op, sought, x) => x \in e.elems
      /\ op = "lookup_one" => \A x \in e.elems : x.ext = sought
  BY <1>1, AnswerIsMerged DEF HonestSoFar, Honest, Instances
<1>3. /\ a.ok
      /\ \A x, y \in a.elems : x.ext = y.ext /\ x.ext # NoExternal => x = y
      /\ \A x \in throughout[Anime] : Asked(op, sought, x) => x \in a.elems
      /\ op = "lookup_one" => \A x \in a.elems : x.ext = sought
      /\ \A x \in a.elems : x \in sometime[Anime] \/ x.id = 0
  BY <1>1, AnswerIsMerged DEF HonestSoFar, Honest, Instances
<1>4. \A i \in Instances : \A x \in throughout[i] : x \in Object /\ x.id # 0
  BY AnswerIsMerged, IdsAreHandedOut DEF HandedOut
<1>5. \A x \in throughout[English] : Stands(x, English, x)
  BY <1>4, EnglishStands DEF Instances
<1>6. \A x \in throughout[Anime] : Stands(Encoded("lookup", x), Anime, x)
  BY <1>1, <1>4, AnimeStands, EncodedAsLookup DEF Instances, Lookups
<1>7. \A x \in a.elems : Encoded("lookup", x).ext = x.ext
  BY <1>1, EncodedFields DEF Ops, Lookups
<1>8. Other(English) = Anime /\ Other(Anime) = English
  BY DEF Other, English, Anime
<1> HIDE DEF e, a
<1>9. ASSUME NEW i \in Instances, NEW x \in throughout[i], x.ext # NoExternal,
             op = "lookup_one" => x.ext = sought
      PROVE  Asked(op, sought, x)
  BY <1>9 DEF Asked
<1>10. CASE op = "lookup"
  <2>1. \A y : y \in out.body <=>
           \/ /\ y \in e.elems
              /\ y.ext = NoExternal \/ \A x \in Winners(e, a) : x.ext # y.ext
           \/ \E x \in Winners(e, a) : y = Encoded("lookup", x)
    BY <1>1, <1>10, BodyOfLists
  <2>2. \A x \in Winners(e, a) : x \in a.elems
    BY DEF Winners
  <2>3. ASSUME NEW y \in out.body, NEW z \in out.body, y.ext = z.ext, y.ext # NoExternal
        PROVE  y = z
    BY <1>2, <1>3, <1>7, <2>1, <2>2, <2>3
  <2>4. ASSUME NEW x \in throughout[English], x.ext # NoExternal,
               \A z \in sometime[Anime] : z.ext # x.ext
        PROVE  Shown(English, x)
    <3>1. x \in e.elems
      BY <1>2, <1>9, <1>10, <2>4 DEF Instances
    <3>2. \A w \in Winners(e, a) : w.ext # x.ext
      BY <1>3, <2>4, <3>1 DEF Winners, Wins
    <3> QED
      BY <1>5, <2>1, <3>1, <3>2 DEF Shown
  <2>5. ASSUME NEW x \in throughout[Anime], x.ext # NoExternal
        PROVE  Shown(Anime, x)
    <3>1. x \in a.elems
      BY <1>3, <1>9, <1>10, <2>5 DEF Instances
    <3>2. x \in Winners(e, a)
      BY <1>4, <3>1 DEF Winners, Wins, Instances
    <3> QED
      BY <1>6, <2>1, <3>2 DEF Shown
  <2> QED
    BY <1>8, <2>3, <2>4, <2>5 DEF Instances
<1>11. CASE op = "lookup_one"
  <2>1. \/ /\ \E x \in a.elems : x.id # 0
           /\ \A y : y \in out.body <=> \E x \in a.elems : y = Encoded("lookup", x)
        \/ /\ \A x \in a.elems : x.id = 0
           /\ out.body = e.elems
    BY <1>1, <1>2, <1>11, BodyOfObjects
  <2>2. ASSUME NEW y \in out.body, NEW z \in out.body, y.ext = z.ext, y.ext # NoExternal
        PROVE  y = z
    BY <1>2, <1>3, <1>7, <2>1, <2>2
  <2>3. ASSUME NEW x \in throughout[English], x.ext # NoExternal, x.ext = sought,
               \A z \in sometime[Anime] : z.ext # x.ext
        PROVE  Shown(English, x)
    <3>1. x \in e.elems
      BY <1>2, <1>9, <2>3 DEF Instances
    <3>2. \A w \in a.elems : w.id = 0
      BY <1>3, <1>11, <2>3
    <3> QED
      BY <1>5, <2>1, <3>1, <3>2 DEF Shown
  <2>4. ASSUME NEW x \in throughout[Anime], x.ext # NoExternal, x.ext = sought
        PROVE  Shown(Anime, x)
    <3>1. x \in a.elems
      BY <1>3, <1>9, <2>4 DEF Instances
    <3>2. x.id # 0
      BY <1>4 DEF Instances
    <3> QED
      BY <1>6, <2>1, <3>1, <3>2 DEF Shown
  <2> QED
    BY <1>8, <1>11, <2>2, <2>3, <2>4 DEF Instances
<1> QED
  BY <1>10, <1>11 DEF Lookups

\* A search shows each title once, and one that a single instance has held
\* throughout under the ID that leads back to it (service.py:258-294).
THEOREM LookupsFind == Spec => []LookupFinds
  BY Inductive, IInvLookup, PTL

-----------------------------------------------------------------------------
LEMMA ElementNumbers ==
  ASSUME NEW x \in Element
  PROVE  DOMAIN x = {"id", "ref", "ext"} /\ x.id \in Nat /\ x.ref \in Nat
<1>1. CASE x \in Object
  BY <1>1, IdsAreHandedOut DEF Object, Instances
<1>2. CASE x \notin Object
  BY <1>2 DEF Element
<1> QED
  BY <1>1, <1>2

LEMMA EncodedNumbers ==
  ASSUME NEW o \in Ops, NEW x \in Element
  PROVE  Encoded(o, x).id \in Nat /\ Encoded(o, x).ref \in Nat
<1>1. DOMAIN x = {"id", "ref", "ext"} /\ x.id \in Nat /\ x.ref \in Nat
  BY ElementNumbers
<1>2. \A n \in Nat : encode_id(n, Offset) \in Nat
  BY OffsetAssumption, NonIdsAssumption DEF encode_id
<1> QED
  BY <1>1, <1>2 DEF Encoded

LEMMA IInvType == IInv => TypeOK
<1> SUFFICES ASSUME IInv PROVE TypeOK
  OBVIOUS
<1>1. \A i \in Instances :
        /\ coll[i] \subseteq Object
        /\ throughout[i] \subseteq coll[i] /\ coll[i] \subseteq sometime[i]
  BY DEF IInv, Libraries
<1>2. /\ \A i \in Instances :
           /\ got[i].elems = {} \/ got[i].ok
           /\ got[i].status \in {0, 200, 404, 500}
      /\ op \in Ops /\ pc \in {"idle", "english", "anime", "done"}
  BY DEF IInv, Handler, Fetch
<1>3. CASE pc # "done"
  BY <1>1, <1>2, <1>3 DEF IInv, TypeOK, NoAnswer
<1>4. CASE pc = "done"
  <2>1. /\ out = Fetched(op, got[English], got[Anime])
        /\ got[English] \in Fetch /\ got[Anime] \in Fetch
    BY <1>4 DEF IInv, Handler, Instances
  <2>2. (out.code \in {404, 502} /\ out.body = {}) \/ out.code = 200
    BY <2>1 DEF Fetched, FailureCode, Error, Ok
  <2>3. ASSUME NEW y \in out.body, out.code = 200 PROVE y.id \in Nat /\ y.ref \in Nat
    <3>1. y \in got[English].elems \/ \E x \in got[Anime].elems : y = Encoded(op, x)
      BY <1>2, <2>1, <2>3, FetchedCode, MergedParts
    <3>2. got[English].elems \subseteq Element /\ got[Anime].elems \subseteq Element
      BY <2>1 DEF Fetch
    <3>3. \A x \in Element : x.id \in Nat /\ x.ref \in Nat
      BY ElementNumbers
    <3> QED
      BY <1>2, <3>1, <3>2, <3>3, EncodedNumbers
  <2>4. \A y \in out.body : y.id \in Nat /\ y.ref \in Nat
    BY <2>2, <2>3
  <2> QED
    BY <1>1, <1>2, <1>4, <2>2, <2>4 DEF TypeOK
<1> QED
  BY <1>3, <1>4

\* The state has the shape the module declares.
THEOREM TypeCorrect == Spec => []TypeOK
  BY Inductive, IInvType, PTL
==============================================================================
