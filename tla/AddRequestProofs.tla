---------------------------- MODULE AddRequestProofs ----------------------------
(***************************************************************************)
(* Adds, updates and tags for any number of handler threads, any bodies    *)
(* and folders, and an offset above all IDs: where a body goes, and which  *)
(* IDs and tags go with it.                                                *)
(***************************************************************************)
EXTENDS AddRequest, NamespaceProofs

-----------------------------------------------------------------------------
(* The inductive invariant.  Its parts speak of one thread q and of the     *)
(* histories: al and ev are what has been in the lists from the start and   *)
(* at some time, it is the titles.                                          *)

Scalar == Int \cup NonIds
In(s) == {s[n] : n \in 1 .. Len(s)}
Wanted(q) == In(q.payload.tags)
Owner(v) == decode_id(v).owner
Native(v) == decode_id(v).id

Pcs == Reading \cup {"idle", "tags", "create", "pop", "newTag", "invalidate", "done"}
Fields == {"pc", "method", "payload", "target", "reason", "animePaths", "reply", "todo",
           "resolved", "label", "outcome", "answer", "fault"}

Shape(q) ==
  /\ DOMAIN q = Fields
  /\ q.pc \in Pcs /\ q.method \in {"POST", "PUT"} /\ q.payload \in Payload
  /\ q.target \in Instances /\ q.outcome \in Outcomes /\ q.label \in Labels
  /\ q.answer \in Scalar /\ q.fault \subseteq Faults
  /\ q.todo \in Seq(Scalar) /\ q.resolved \in Seq(Ids)

\* Where the handler is tells what it has not done yet.
Stage(q) ==
  /\ q.pc # "done" => q.outcome = "none" /\ q.answer \in NonIds
  /\ q.outcome \in {"accepted", "rejected", "lost"} => q.todo = <<>>
  /\ q.pc \in {"idle", "newTag", "invalidate"} => ~q.payload.json
  /\ q.pc \in {"idle", "newTag", "invalidate", "animePaths", "englishPaths"} =>
       q.reason = "none" /\ q.todo = <<>> /\ q.resolved = <<>>
  /\ q.pc \in {"animePaths", "englishPaths"} => q.payload.json /\ ~HasAnimeId(q.payload)

\* A list that was read has what was there from the start, and nothing that never was.
Genuine(al, ev, v, k) == (v.read => al[k] \subseteq v.elems) /\ v.elems \subseteq ev[k]

\* A list of root folders could not be read.
FoldersUnread(fault) == \E i \in Instances : Folders(i) \in fault

Reads(al, ev, q) ==
  /\ q.pc \in Reading => Genuine(al, ev, q.reply, KeyOf(q))
  /\ q.pc \notin Reading \cup {"done"} => q.reply = Nothing
  /\ q.pc = "englishPaths" =>
       /\ Genuine(al, ev, q.animePaths, Folders(Anime))
       /\ q.animePaths.read \/ FoldersUnread(q.fault)

\* The instance is picked, and the handler has not been cut off since.
Decided(q) ==
  \/ q.pc \in {"tags", "label", "labelId", "create", "pop"}
  \/ q.outcome \in {"accepted", "rejected", "lost"}

\* Instance i alone has the folder, and always had.
Owns(al, ev, i, q) == q.payload.path \in al[Folders(i)] \ ev[Folders(Other(i))]

\* Something in the body points to the anime instance.
Points(ev, p) ==
  HasAnimeId(p) \/ p.anime \/ p.path \in Keyword \/ p.path \in ev[Folders(Anime)]

Picked(al, ev, q) ==
  /\ q.reason = "owned" =>
       /\ q.payload.path \in ev[Folders(q.target)]
       /\ q.payload.path \notin al[Folders(Other(q.target))]
  /\ Decided(q) /\ q.payload.json /\ q.reason # "id" =>
       /\ HasAnimeId(q.payload) => q.target = Anime
       /\ q.target = Anime => Points(ev, q.payload)
  /\ q.reason = "id" =>
       /\ q.payload.ids["id"] \notin NonIds
       /\ q.target = Owner(q.payload.ids["id"])
  /\ Decided(q) /\ q.payload.json /\ ~HasAnimeId(q.payload) /\ q.reason # "id" =>
       \A i \in Instances : Owns(al, ev, i, q) =>
         \/ q.target = i
         \/ /\ FoldersUnread(q.fault)
            /\ (i = English) <=> (q.payload.anime \/ q.payload.path \in Keyword)

\* The instance of tag had it under this label; the target had this label.
Labelled(ev, tag, label) ==
  \E d \in ev[Tags(Owner(tag))] : d.id = Native(tag) /\ d.label = label
Forwarded(ev, q, label) ==
  \E e \in ev[Tags(q.target)] : e.id \in In(q.resolved) /\ e.label = label

\* A tag that is not the target's own was lost for a reason of its own.
Excused(q, tag, label) ==
  /\ Owner(tag) # q.target
  /\ Tags(Owner(tag)) \in q.fault \/ Refused(label) \in q.fault

Tagged(al, ev, q) ==
  /\ \A n \in In(q.resolved) : \E e \in ev[Tags(q.target)] :
       e.id = n /\ \E tag \in Wanted(q) \ NonIds : Labelled(ev, tag, e.label)
  /\ In(q.todo) \subseteq Wanted(q)
  /\ \A tag \in Wanted(q) \ NonIds : \E label \in Labels : Labelled(ev, tag, label)
  /\ q.pc \in {"label", "labelId", "create"} =>
       q.todo # <<>> /\ Head(q.todo) \notin NonIds /\ Owner(Head(q.todo)) # q.target
  /\ q.pc \in {"labelId", "create"} => Labelled(ev, Head(q.todo), q.label)
  /\ Decided(q) =>
       \A tag \in Wanted(q) \ NonIds :
         \/ tag \in In(q.todo)
         \/ \A d \in al[Tags(Owner(tag))] : d.id = Native(tag) =>
              Forwarded(ev, q, d.label) \/ Excused(q, tag, d.label)

\* An ID that Seerr was given is that of the title its request added.
Told(it, r, q) ==
  q.answer \notin NonIds =>
    \E i \in Instances, n \in Ids :
      q.answer = Exposed(i, n) /\ [id |-> n, by |-> r] \in it[i]

Thread(al, ev, it, r, q) ==
  Shape(q) /\ Stage(q) /\ Reads(al, ev, q) /\ Picked(al, ev, q) /\ Tagged(al, ev, q)
  /\ Told(it, r, q)

Lists ==
  /\ DOMAIN list = Keys /\ DOMAIN always = Keys /\ DOMAIN ever = Keys /\ DOMAIN cache = Keys
  /\ \A k \in Keys : always[k] \subseteq list[k] /\ list[k] \subseteq ever[k]
  /\ \A i \in Instances : ever[Folders(i)] \subseteq Paths /\ ever[Tags(i)] \subseteq Tag
  /\ \A i \in Instances : \A d, e \in ever[Tags(i)] : d.id = e.id => d = e
  /\ DOMAIN items = Instances
  /\ \A i \in Instances : items[i] \subseteq [id : Ids, by : Requests]

Cached == \A k \in Keys : Genuine(always, ever, cache[k], k)

Threads ==
  /\ DOMAIN req = Requests
  /\ \A r \in Requests : Thread(always, ever, items, r, req[r])

IInv == Lists /\ Cached /\ Threads

-----------------------------------------------------------------------------
(* Data.                                                                    *)

LEMMA TheKeys ==
  /\ English \in Instances /\ Anime \in Instances /\ English # Anime
  /\ Other(English) = Anime /\ Other(Anime) = English
  /\ \A i \in Instances : i = English \/ i = Anime
  /\ \A i \in Instances : Folders(i) \in Keys /\ Tags(i) \in Keys
  /\ \A i, j \in Instances : Folders(i) # Tags(j)
  /\ \A i, j \in Instances : Tags(i) = Tags(j) => i = j
  /\ \A i, j \in Instances : Folders(i) = Folders(j) => i = j
BY DEF Instances, English, Anime, Other, Keys, Folders, Tags

LEMMA OwnerIsInstance == \A v : Owner(v) \in Instances
BY DEF Owner, decode_id, Instances

\* The ID of an object leads back to it.
LEMMA LeadsBack ==
  ASSUME NEW i \in Instances, NEW n \in Ids
  PROVE  /\ Owner(Exposed(i, n)) = i /\ Native(Exposed(i, n)) = n
         /\ Exposed(i, n) \in Int /\ Exposed(i, n) \notin NonIds
<1>1. n \in Nat \ {0} /\ HandedOut(i, n)
  BY MaxIdAssumption, OffsetAssumption DEF Ids, HandedOut
<1>2. decode_id(Exposed(i, n)) = [owner |-> i, id |-> n]
  BY <1>1, RoundTrip
<1>3. Exposed(i, n) \in Int
  BY <1>1, ExposedValue, OffsetAssumption
<1> QED
  BY <1>2, <1>3, NonIdsAssumption DEF Owner, Native

\* What choose_for_add takes for a hint is an ID of the anime instance.
LEMMA HintsAre ==
  ASSUME NEW p \in Payload, p.json
  PROVE  HintsAnime(p) <=> HasAnimeId(p)
<1>1. \A f \in AddIdHints : p.ids[f] \in Scalar
  BY DEF Payload, Scalar
<1>2. \A v \in Scalar : is_anime_id(v) <=> v \notin NonIds /\ v >= Offset
  BY DEF is_anime_id, decode_id, English, Anime, Scalar
<1> QED
  BY <1>1, <1>2 DEF HintsAnime, HasAnimeId

LEMMA Popped ==
  ASSUME NEW S, NEW s \in Seq(S), s # <<>>
  PROVE  /\ Tail(s) \in Seq(S) /\ Head(s) \in In(s) /\ In(Tail(s)) \subseteq In(s)
         /\ \A x \in In(s) : x = Head(s) \/ x \in In(Tail(s))
<1> DEFINE t == Tail(s)
           n == Len(s)
<1>1. /\ n \in Nat \ {0} /\ t \in Seq(S) /\ Len(t) = n - 1 /\ Head(s) = s[1]
      /\ \A i \in 1 .. n - 1 : t[i] = s[i + 1]
  OBVIOUS
<1> HIDE DEF t
<1>2. Head(s) \in In(s)
  BY <1>1 DEF In
<1>3. \A x \in In(t) : x \in In(s)
  <2> TAKE x \in In(t)
  <2>1. PICK i \in 1 .. n - 1 : x = t[i]
    BY <1>1 DEF In
  <2>2. i + 1 \in 1 .. n /\ x = s[i + 1]
    BY <1>1, <2>1
  <2> QED
    BY <2>2 DEF In
<1>4. ASSUME NEW x \in In(s), x # Head(s) PROVE x \in In(t)
  <2>1. PICK i \in 1 .. n : x = s[i]
    BY DEF In
  <2>2. i - 1 \in 1 .. n - 1 /\ x = t[i - 1]
    BY <1>1, <1>4, <2>1
  <2> QED
    BY <1>1, <2>2 DEF In
<1> QED
  BY <1>1, <1>2, <1>3, <1>4 DEF t

LEMMA Appended ==
  ASSUME NEW S, NEW s \in Seq(S), NEW x \in S
  PROVE  Append(s, x) \in Seq(S) /\ In(Append(s, x)) = In(s) \cup {x}
<1> DEFINE t == Append(s, x)
<1>1. /\ t \in Seq(S) /\ Len(t) = Len(s) + 1 /\ Len(s) \in Nat /\ t[Len(s) + 1] = x
      /\ \A i \in 1 .. Len(s) : t[i] = s[i]
  OBVIOUS
<1> HIDE DEF t
<1>2. \A y \in In(t) : y \in In(s) \cup {x}
  BY <1>1 DEF In
<1>3. In(s) \subseteq In(t) /\ x \in In(t)
  BY <1>1 DEF In
<1> QED
  BY <1>1, <1>2, <1>3 DEF t

LEMMA NothingIn == In(<<>>) = {}
BY DEF In

LEMMA NothingRead ==
  ASSUME NEW al, NEW ev, NEW k
  PROVE  Genuine(al, ev, Nothing, k) /\ ~Nothing.read
BY DEF Genuine, Nothing

-----------------------------------------------------------------------------
(* What happens elsewhere: lists and titles come, and what was there from   *)
(* the start goes.                                                          *)

Grows(al, ev, it, bl, fv, jt) ==
  /\ \A k \in Keys : bl[k] \subseteq al[k] /\ ev[k] \subseteq fv[k]
  /\ \A i \in Instances : it[i] \subseteq jt[i]

LEMMA GenuineGrows ==
  ASSUME NEW al, NEW ev, NEW it, NEW bl, NEW fv, NEW jt, Grows(al, ev, it, bl, fv, jt),
         NEW v, NEW k \in Keys, Genuine(al, ev, v, k)
  PROVE  Genuine(bl, fv, v, k)
BY DEF Grows, Genuine

LEMMA LabelledGrows ==
  ASSUME NEW al, NEW ev, NEW it, NEW bl, NEW fv, NEW jt, Grows(al, ev, it, bl, fv, jt),
         NEW tag, NEW label, Labelled(ev, tag, label)
  PROVE  Labelled(fv, tag, label)
<1>1. Tags(Owner(tag)) \in Keys
  BY OwnerIsInstance, TheKeys
<1> QED
  BY <1>1 DEF Grows, Labelled

\* The list a thread reads is one of the four.
LEMMA KeyIsKey ==
  ASSUME NEW q, Shape(q), q.pc \in Reading
  PROVE  /\ KeyOf(q) \in Keys
         /\ q.pc = "animePaths" => KeyOf(q) = Folders(Anime)
         /\ q.pc = "englishPaths" => KeyOf(q) = Folders(English)
         /\ q.pc = "label" => KeyOf(q) = Tags(Owner(Head(q.todo)))
         /\ q.pc = "labelId" => KeyOf(q) = Tags(q.target)
<1>1. CASE q.pc = "animePaths"
  <2>1. KeyOf(q) = Folders(Anime)
    BY <1>1, Zenon DEF KeyOf
  <2> QED
    BY <1>1, <2>1, TheKeys
<1>2. CASE q.pc = "englishPaths"
  <2>1. KeyOf(q) = Folders(English)
    BY <1>2, Zenon DEF KeyOf
  <2> QED
    BY <1>2, <2>1, TheKeys
<1>3. CASE q.pc = "label"
  <2>1. KeyOf(q) = Tags(Owner(Head(q.todo)))
    BY <1>3, Zenon DEF KeyOf, Owner
  <2> QED
    BY <1>3, <2>1, TheKeys, OwnerIsInstance
<1>4. CASE q.pc = "labelId"
  <2>1. KeyOf(q) = Tags(q.target)
    BY <1>4, Zenon DEF KeyOf
  <2> QED
    BY <1>4, <2>1, TheKeys DEF Shape
<1> QED
  BY <1>1, <1>2, <1>3, <1>4 DEF Reading

LEMMA ThreadGrows ==
  ASSUME NEW al, NEW ev, NEW it, NEW bl, NEW fv, NEW jt, Grows(al, ev, it, bl, fv, jt),
         NEW r, NEW q, Thread(al, ev, it, r, q)
  PROVE  Thread(bl, fv, jt, r, q)
<1>1. Reads(bl, fv, q)
  BY KeyIsKey, TheKeys, GenuineGrows DEF Thread, Reads
<1>2. Picked(bl, fv, q)
  <2>1. \A i \in Instances : Folders(i) \in Keys /\ Folders(Other(i)) \in Keys
    BY TheKeys
  <2>2. q.target \in Instances
    BY DEF Thread, Shape
  <2>3. \A i \in Instances : Owns(bl, fv, i, q) => Owns(al, ev, i, q)
    BY <2>1 DEF Owns, Grows
  <2>4. q.reason = "owned" =>
          /\ q.payload.path \in fv[Folders(q.target)]
          /\ q.payload.path \notin bl[Folders(Other(q.target))]
    BY <2>1, <2>2 DEF Thread, Picked, Grows
  <2>5. Points(ev, q.payload) => Points(fv, q.payload)
    BY <2>1, TheKeys DEF Points, Grows
  <2> QED
    BY <2>3, <2>4, <2>5 DEF Thread, Picked
<1>3. Tagged(bl, fv, q)
  <2>1. Tags(q.target) \in Keys /\ \A tag : Tags(Owner(tag)) \in Keys
    BY TheKeys, OwnerIsInstance DEF Thread, Shape
  <2>2. ev[Tags(q.target)] \subseteq fv[Tags(q.target)]
    BY <2>1 DEF Grows
  <2>3. \A tag : bl[Tags(Owner(tag))] \subseteq al[Tags(Owner(tag))]
    BY <2>1 DEF Grows
  <2>4. \A label : Forwarded(ev, q, label) => Forwarded(fv, q, label)
    BY <2>2 DEF Forwarded
  <2>5. \A tag, label : Labelled(ev, tag, label) => Labelled(fv, tag, label)
    BY LabelledGrows
  <2>6. \A n \in In(q.resolved) : \E e \in fv[Tags(q.target)] :
          e.id = n /\ \E tag \in Wanted(q) \ NonIds : Labelled(fv, tag, e.label)
    BY <2>2, <2>5 DEF Thread, Tagged
  <2> QED
    BY <2>3, <2>4, <2>5, <2>6 DEF Thread, Tagged
<1>4. Told(jt, r, q)
  BY DEF Thread, Told, Grows
<1> QED
  BY <1>1, <1>2, <1>3, <1>4 DEF Thread

-----------------------------------------------------------------------------
(* What becomes of a thread.                                                *)

LEMMA RoutedFields ==
  ASSUME NEW q, DOMAIN q = Fields, NEW key, NEW reason,
         NEW p, p = Routed(q, key, reason)
  PROVE  /\ DOMAIN p = Fields /\ p.pc = "tags" /\ p.target = key /\ p.reason = reason
         /\ p.todo = q.payload.tags
         /\ p.method = q.method /\ p.payload = q.payload /\ p.resolved = q.resolved
         /\ p.label = q.label /\ p.outcome = q.outcome /\ p.answer = q.answer
         /\ p.fault = q.fault /\ p.reply = q.reply
BY DEF Routed, Fields

LEMMA EndedFields ==
  ASSUME NEW q, DOMAIN q = Fields, NEW outcome, NEW p, p = Ended(q, outcome)
  PROVE  /\ DOMAIN p = Fields /\ p.pc = "done" /\ p.outcome = outcome
         /\ p.target = q.target /\ p.reason = q.reason /\ p.todo = q.todo
         /\ p.method = q.method /\ p.payload = q.payload /\ p.resolved = q.resolved
         /\ p.label = q.label /\ p.answer = q.answer /\ p.fault = q.fault
BY DEF Ended, Fields

LEMMA KeptFields ==
  ASSUME NEW q, DOMAIN q = Fields, NEW id, NEW p, p = Kept(q, id)
  PROVE  /\ DOMAIN p = Fields /\ p.pc = "tags" /\ p.todo = Tail(q.todo)
         /\ p.resolved = Append(q.resolved, id)
         /\ p.target = q.target /\ p.reason = q.reason /\ p.outcome = q.outcome
         /\ p.method = q.method /\ p.payload = q.payload /\ p.reply = q.reply
         /\ p.label = q.label /\ p.answer = q.answer /\ p.fault = q.fault
BY DEF Kept, Fields

LEMMA DroppedFields ==
  ASSUME NEW q, DOMAIN q = Fields, NEW p, p = Dropped(q)
  PROVE  /\ DOMAIN p = Fields /\ p.pc = "tags" /\ p.todo = Tail(q.todo)
         /\ p.resolved = q.resolved
         /\ p.target = q.target /\ p.reason = q.reason /\ p.outcome = q.outcome
         /\ p.method = q.method /\ p.payload = q.payload /\ p.reply = q.reply
         /\ p.label = q.label /\ p.answer = q.answer /\ p.fault = q.fault
BY DEF Dropped, Fields

\* A handler that ends, sent its body before or never will.
LEMMA EndedThread ==
  ASSUME NEW al, NEW ev, NEW it, NEW r, NEW q, Thread(al, ev, it, r, q),
         NEW outcome \in Outcomes,
         outcome \in {"accepted", "rejected", "lost"} => q.pc = "tags" /\ q.todo = <<>>
  PROVE  Thread(al, ev, it, r, Ended(q, outcome))
<1> DEFINE p == Ended(q, outcome)
<1>1. /\ DOMAIN p = Fields /\ p.pc = "done" /\ p.outcome = outcome
      /\ p.target = q.target /\ p.reason = q.reason /\ p.todo = q.todo
      /\ p.method = q.method /\ p.payload = q.payload /\ p.resolved = q.resolved
      /\ p.label = q.label /\ p.answer = q.answer /\ p.fault = q.fault
  BY EndedFields DEF Thread, Shape
<1> HIDE DEF p
<1>2. Shape(p)
  BY <1>1 DEF Thread, Shape, Pcs
<1>3. Stage(p) /\ Reads(al, ev, p)
  BY <1>1 DEF Stage, Reads, Reading
<1>4. Decided(p) => Decided(q)
  BY <1>1 DEF Decided
<1>5. Picked(al, ev, p)
  BY <1>1, <1>4 DEF Thread, Picked, Owns
<1>6. Tagged(al, ev, p)
  BY <1>1, <1>4 DEF Thread, Tagged, Forwarded, Excused, Wanted
<1>7. Told(it, r, p)
  BY <1>1 DEF Thread, Told
<1> QED
  BY <1>2, <1>3, <1>5, <1>6, <1>7 DEF Thread, p

\* A thread that has its request and has not looked at the tags.
Ready(ev, q) ==
  /\ Shape(q) /\ q.reply = Nothing /\ q.resolved = <<>>
  /\ q.reason = "none" /\ q.todo = <<>> /\ q.outcome = "none" /\ q.answer \in NonIds
  /\ \A tag \in Wanted(q) \ NonIds : \E label \in Labels : Labelled(ev, tag, label)

LEMMA RoutedThread ==
  ASSUME NEW al, NEW ev, NEW it, NEW r, NEW q, Ready(ev, q),
         NEW key \in Instances, NEW reason, Picked(al, ev, Routed(q, key, reason))
  PROVE  Thread(al, ev, it, r, Routed(q, key, reason))
<1> DEFINE p == Routed(q, key, reason)
<1>1. /\ DOMAIN p = Fields /\ p.pc = "tags" /\ p.target = key /\ p.reason = reason
      /\ p.todo = q.payload.tags
      /\ p.method = q.method /\ p.payload = q.payload /\ p.resolved = q.resolved
      /\ p.label = q.label /\ p.outcome = q.outcome /\ p.answer = q.answer
      /\ p.fault = q.fault /\ p.reply = q.reply
  BY RoutedFields DEF Ready, Shape
<1>0. Picked(al, ev, p)
  OBVIOUS
<1> HIDE DEF p
<1>2. q.payload.tags \in Seq(Scalar)
  BY DEF Ready, Shape, Payload, Scalar
<1>3. Shape(p)
  BY <1>1, <1>2 DEF Ready, Shape, Pcs
<1>4. Stage(p) /\ Reads(al, ev, p)
  BY <1>1 DEF Ready, Stage, Reads, Reading
<1>5. Tagged(al, ev, p)
  BY <1>1, NothingIn DEF Ready, Tagged, Wanted
<1>6. Told(it, r, p)
  BY <1>1 DEF Ready, Told
<1> QED
  BY <1>0, <1>3, <1>4, <1>5, <1>6 DEF Thread, p

\* Without a lookup that failed, no instance has the folder to itself.
LEMMA FallbackThread ==
  ASSUME NEW al, NEW ev, NEW it, NEW r, NEW q, Ready(ev, q),
         ~HasAnimeId(q.payload),
         \A i \in Instances : Owns(al, ev, i, q) => FoldersUnread(q.fault)
  PROVE  Thread(al, ev, it, r, Fallback(q))
<1>1. ASSUME NEW key \in Instances, NEW reason, reason \notin {"owned", "id"},
             key = Anime <=> q.payload.anime \/ q.payload.path \in Keyword
      PROVE  Thread(al, ev, it, r, Routed(q, key, reason))
  <2> DEFINE p == Routed(q, key, reason)
  <2>1. /\ p.payload = q.payload /\ p.fault = q.fault
        /\ p.target = key /\ p.reason = reason
    BY RoutedFields DEF Ready, Shape
  <2> HIDE DEF p
  <2>2. ASSUME NEW i \in Instances, Owns(al, ev, i, p), p.target # i
        PROVE  /\ FoldersUnread(p.fault)
               /\ (i = English) <=> (p.payload.anime \/ p.payload.path \in Keyword)
    <3>1. Owns(al, ev, i, q)
      BY <2>1, <2>2 DEF Owns
    <3>2. (i = English) <=> (key = Anime)
      BY <2>1, <2>2, TheKeys
    <3>3. FoldersUnread(q.fault)
      BY <3>1
    <3>4. (i = English) <=> (q.payload.anime \/ q.payload.path \in Keyword)
      BY <1>1, <3>2, Zenon
    <3> QED
      BY <2>1, <3>3, <3>4, Zenon
  <2>3. Picked(al, ev, p)
    BY <1>1, <2>1, <2>2, Zenon DEF Picked, Points
  <2> QED
    BY <2>3, RoutedThread DEF p
<1>2. CASE q.payload.anime
  <2>1. Fallback(q) = Routed(q, Anime, "type")
    BY <1>2, Zenon DEF Fallback
  <2>2. Anime = Anime <=> q.payload.anime \/ q.payload.path \in Keyword
    BY <1>2, Zenon
  <2> QED
    BY <1>1, <2>1, <2>2, TheKeys
<1>3. CASE ~q.payload.anime /\ q.payload.path \in Keyword
  <2>1. Fallback(q) = Routed(q, Anime, "keyword")
    BY <1>3, Zenon DEF Fallback
  <2>2. Anime = Anime <=> q.payload.anime \/ q.payload.path \in Keyword
    BY <1>3, Zenon
  <2> QED
    BY <1>1, <2>1, <2>2, TheKeys
<1>4. CASE ~q.payload.anime /\ q.payload.path \notin Keyword
  <2>1. Fallback(q) = Routed(q, English, "default")
    BY <1>4, Zenon DEF Fallback
  <2>2. English = Anime <=> q.payload.anime \/ q.payload.path \in Keyword
    BY <1>4, TheKeys, Zenon
  <2> QED
    BY <1>1, <2>1, <2>2, TheKeys
<1> QED
  BY <1>2, <1>3, <1>4

\* choose_for_add up to the first read.
LEMMA ChooseThread ==
  ASSUME NEW al, NEW ev, NEW it, NEW r, NEW q, Ready(ev, q),
         \A i \in Instances : al[Folders(i)] \subseteq Paths
  PROVE  Thread(al, ev, it, r, Choose(q))
<1>0. ASSUME NEW key \in Instances, NEW reason, reason \notin {"owned", "id"},
             q.payload.json => HasAnimeId(q.payload) /\ key = Anime
      PROVE  Thread(al, ev, it, r, Routed(q, key, reason))
  <2> DEFINE p == Routed(q, key, reason)
  <2>0. DOMAIN q = Fields
    BY DEF Ready, Shape
  <2>1. p.payload = q.payload /\ p.target = key /\ p.reason = reason
    BY ONLY <2>0, RoutedFields
  <2> HIDE DEF p
  <2>2. HasAnimeId(q.payload) => q.payload.json
    BY DEF HasAnimeId
  <2>3. Picked(al, ev, p)
    BY <1>0, <2>1, <2>2 DEF Picked, Points
  <2> QED
    BY <2>3, RoutedThread DEF p
<1>1. CASE ~q.payload.json
  <2>1. Choose(q) = Routed(q, English, "no payload")
    BY <1>1, Zenon DEF Choose
  <2>2. "no payload" \notin {"owned", "id"}
    OBVIOUS
  <2>3. English \in Instances
    BY TheKeys
  <2> QED
    BY ONLY <1>0, <1>1, <2>1, <2>2, <2>3, Zenon
<1>2. CASE q.payload.json /\ HintsAnime(q.payload)
  <2>1. HasAnimeId(q.payload)
    BY <1>2, HintsAre DEF Ready, Shape
  <2>2. Choose(q) = Routed(q, Anime, "hint")
    BY <1>2, Zenon DEF Choose
  <2>3. "hint" \notin {"owned", "id"}
    OBVIOUS
  <2>4. Anime \in Instances
    BY TheKeys
  <2> QED
    BY ONLY <1>0, <2>1, <2>2, <2>3, <2>4, Zenon
<1>3. CASE q.payload.json /\ ~HintsAnime(q.payload) /\ q.payload.path = NoPath
  <2>1. ~HasAnimeId(q.payload)
    BY <1>3, HintsAre DEF Ready, Shape
  <2>2. \A i \in Instances : ~Owns(al, ev, i, q)
    BY <1>3, PathsAssumption DEF Owns
  <2>3. Choose(q) = Fallback(q)
    BY <1>3, Zenon DEF Choose
  <2> QED
    BY <2>1, <2>2, <2>3, FallbackThread
<1>4. CASE q.payload.json /\ ~HintsAnime(q.payload) /\ q.payload.path # NoPath
  <2> DEFINE p == [q EXCEPT !.pc = "animePaths"]
  <2>1. ~HasAnimeId(q.payload)
    BY <1>4, HintsAre DEF Ready, Shape
  <2>2. /\ DOMAIN p = Fields /\ p.pc = "animePaths"
        /\ p.target = q.target /\ p.reason = q.reason /\ p.todo = q.todo /\ p.reply = q.reply
        /\ p.method = q.method /\ p.payload = q.payload /\ p.resolved = q.resolved
        /\ p.label = q.label /\ p.answer = q.answer /\ p.fault = q.fault
        /\ p.outcome = q.outcome
    BY DEF Ready, Shape, Fields
  <2> HIDE DEF p
  <2>3. Shape(p)
    BY <2>2 DEF Ready, Shape, Pcs, Reading
  <2>4. Stage(p) /\ Reads(al, ev, p)
    BY <1>4, <2>1, <2>2, NothingRead DEF Ready, Stage, Reads, Reading
  <2>5. ~Decided(p)
    BY <2>2 DEF Ready, Decided
  <2>6. Picked(al, ev, p)
    BY <2>1, <2>2, <2>5 DEF Ready, Picked
  <2>7. Tagged(al, ev, p)
    BY <2>2, <2>5, NothingIn DEF Ready, Tagged, Wanted
  <2>8. Told(it, r, p)
    BY <2>2 DEF Ready, Told
  <2>9. Choose(q) = p
    BY <1>4, Zenon DEF Choose, p
  <2> QED
    BY <2>3, <2>4, <2>6, <2>7, <2>8, <2>9 DEF Thread
<1> QED
  BY <1>1, <1>2, <1>3, <1>4

\* Both root folder lists are there, or one could not be read.
LEMMA ByOwnerThread ==
  ASSUME NEW al, NEW ev, NEW it, NEW r, NEW q, Ready(ev, q),
         ~HasAnimeId(q.payload),
         NEW v, Genuine(al, ev, v, Folders(English)),
         Genuine(al, ev, q.animePaths, Folders(Anime)),
         FoldersUnread(q.fault) \/ (v.read /\ q.animePaths.read)
  PROVE  Thread(al, ev, it, r, ByOwner(q, v))
<1> DEFINE path == q.payload.path
           owners == Owners(path, q.animePaths, v)
<1>1. \A i \in owners :
        /\ i \in Instances
        /\ path \in ev[Folders(i)] /\ path \notin al[Folders(Other(i))]
  BY TheKeys DEF Owners, Genuine
<1>2. \A i \in Instances : Owns(al, ev, i, q) => FoldersUnread(q.fault) \/ i \in owners
  BY TheKeys DEF Owns, Owners, Genuine
<1> HIDE DEF owners
<1>3. CASE owners = {}
  <2>1. ByOwner(q, v) = Fallback(q)
    BY <1>3, Zenon DEF ByOwner, owners
  <2> QED
    BY <1>2, <1>3, <2>1, FallbackThread
<1>4. CASE owners # {}
  <2> DEFINE i == CHOOSE i \in owners : TRUE
             p == Routed(q, i, "owned")
  <2>1. i \in owners
    BY <1>4
  <2>2. ByOwner(q, v) = p
    BY <1>4, Zenon DEF ByOwner, owners
  <2> HIDE DEF i
  <2>3. p.payload = q.payload /\ p.reason = "owned" /\ p.target = i
    BY RoutedFields DEF Ready, Shape
  <2>4. i \in Instances /\ path \in ev[Folders(i)] /\ path \notin al[Folders(Other(i))]
    BY <1>1, <2>1
  <2> HIDE DEF p
  <2>5. \A j \in Instances : Owns(al, ev, j, p) => j = i
    BY <2>3, <2>4, TheKeys DEF Owns
  <2>6. Picked(al, ev, p)
    BY <2>3, <2>4, <2>5 DEF Picked, Points
  <2> QED
    BY <2>2, <2>4, <2>6, RoutedThread DEF p
<1> QED
  BY <1>3, <1>4

-----------------------------------------------------------------------------
(* translate_tags, one step of a thread.                                    *)

Translating == {"tags", "label", "labelId", "create", "pop"}

\* Thread p is q a step further in the tags.
Follows(p, q) ==
  /\ DOMAIN p = Fields /\ p.pc \in Translating /\ p.reply = Nothing
  /\ p.method = q.method /\ p.payload = q.payload /\ p.target = q.target
  /\ p.reason = q.reason /\ p.outcome = q.outcome /\ p.answer = q.answer
  /\ q.fault \subseteq p.fault /\ p.fault \subseteq Faults

\* What the tags have no part in.
LEMMA FollowsKeeps ==
  ASSUME NEW al, NEW ev, NEW it, NEW r, NEW q, Thread(al, ev, it, r, q),
         q.pc \in Translating,
         NEW p, Follows(p, q), p.label \in Labels, p.resolved \in Seq(Ids),
         p.todo \in Seq(Scalar), Tagged(al, ev, p)
  PROVE  Thread(al, ev, it, r, p)
<1>1. Shape(p)
  BY DEF Thread, Shape, Follows, Translating, Pcs, Reading
<1>2. Stage(p)
  BY DEF Thread, Stage, Follows, Translating
<1>3. Reads(al, ev, p)
  BY NothingRead DEF Reads, Follows, Translating
<1>4. Decided(q)
  BY DEF Decided, Translating
<1>5. Picked(al, ev, p)
  <2>1. FoldersUnread(q.fault) => FoldersUnread(p.fault)
    BY DEF Follows, FoldersUnread
  <2>2. \A i \in Instances : Owns(al, ev, i, p) => Owns(al, ev, i, q)
    BY DEF Owns, Follows
  <2>3. p.payload = q.payload /\ p.target = q.target /\ p.reason = q.reason /\ p.method = q.method
    BY DEF Follows
  <2>4. Picked(al, ev, q)
    BY DEF Thread
  <2> QED
    BY ONLY <1>4, <2>1, <2>2, <2>3, <2>4, Zenon DEF Picked
<1>6. Told(it, r, p)
  BY DEF Thread, Told, Follows
<1> QED
  BY <1>1, <1>2, <1>3, <1>5, <1>6 DEF Thread

\* On to a lookup, to a create or back to the list.
LEMMA MovedThread ==
  ASSUME NEW al, NEW ev, NEW it, NEW r, NEW q, Thread(al, ev, it, r, q),
         q.pc \in Translating,
         NEW p, Follows(p, q), p.label \in Labels, p.resolved = q.resolved, p.todo = q.todo,
         p.pc \in {"label", "labelId", "create"} =>
           q.todo # <<>> /\ Head(q.todo) \notin NonIds /\ Owner(Head(q.todo)) # q.target,
         p.pc \in {"labelId", "create"} => Labelled(ev, Head(q.todo), p.label)
  PROVE  Thread(al, ev, it, r, p)
<1>1. Decided(q)
  BY DEF Decided, Translating
<1>2. \A tag, label : Excused(q, tag, label) => Excused(p, tag, label)
  BY DEF Follows, Excused
<1>3. Wanted(p) = Wanted(q) /\ p.target = q.target
  BY DEF Wanted, Follows
<1>4. Tagged(al, ev, p)
  BY <1>1, <1>2, <1>3 DEF Thread, Tagged, Forwarded
<1> QED
  BY <1>4, FollowsKeeps DEF Thread, Shape

\* The next tag is left out.
LEMMA DroppedThread ==
  ASSUME NEW al, NEW ev, NEW it, NEW r, NEW q, Thread(al, ev, it, r, q),
         q.pc \in Translating, q.todo # <<>>,
         NEW p, Follows(p, q), p.label = q.label, p.resolved = q.resolved,
         p.todo = Tail(q.todo), p.pc = "tags",
         \/ Head(q.todo) \in NonIds
         \/ \A d \in al[Tags(Owner(Head(q.todo)))] :
              d.id = Native(Head(q.todo)) => Excused(p, Head(q.todo), d.label)
  PROVE  Thread(al, ev, it, r, p)
<1>1. Decided(q)
  BY DEF Decided, Translating
<1>2. \A tag, label : Excused(q, tag, label) => Excused(p, tag, label)
  BY DEF Follows, Excused
<1>3. Wanted(p) = Wanted(q) /\ p.target = q.target
  BY DEF Wanted, Follows
<1>4. /\ Tail(q.todo) \in Seq(Scalar) /\ In(p.todo) \subseteq In(q.todo)
      /\ \A x \in In(q.todo) : x = Head(q.todo) \/ x \in In(p.todo)
  BY Popped DEF Thread, Shape
<1>5. Tagged(al, ev, p)
  <2>1. In(p.todo) \subseteq Wanted(p)
    BY <1>3, <1>4 DEF Thread, Tagged
  <2>2. ASSUME NEW tag \in Wanted(p) \ NonIds, tag \notin In(p.todo),
               NEW d \in al[Tags(Owner(tag))], d.id = Native(tag)
        PROVE  Forwarded(ev, p, d.label) \/ Excused(p, tag, d.label)
    <3>1. CASE tag = Head(q.todo)
      BY <2>2, <3>1
    <3>2. CASE tag # Head(q.todo)
      <4>1. tag \notin In(q.todo)
        BY <1>4, <2>2, <3>2
      <4>2. Forwarded(ev, q, d.label) \/ Excused(q, tag, d.label)
        BY <1>1, <1>3, <2>2, <4>1 DEF Thread, Tagged
      <4> QED
        BY <1>2, <1>3, <4>2 DEF Forwarded
    <3> QED
      BY <3>1, <3>2
  <2> QED
    BY <1>3, <2>1, <2>2 DEF Thread, Tagged
<1> QED
  BY <1>4, <1>5, FollowsKeeps DEF Thread, Shape

\* The next tag goes along as n, which is e on the target.
LEMMA KeptThread ==
  ASSUME NEW al, NEW ev, NEW it, NEW r, NEW q, Thread(al, ev, it, r, q),
         q.pc \in Translating, q.todo # <<>>, Head(q.todo) \notin NonIds,
         NEW n \in Ids, NEW e \in ev[Tags(q.target)], e.id = n,
         Labelled(ev, Head(q.todo), e.label),
         \A d \in al[Tags(Owner(Head(q.todo)))] : d.id = Native(Head(q.todo)) => d.label = e.label,
         NEW p, Follows(p, q), p.label = q.label, p.resolved = Append(q.resolved, n),
         p.todo = Tail(q.todo), p.pc \in {"tags", "pop"}
  PROVE  Thread(al, ev, it, r, p)
<1>1. Decided(q)
  BY DEF Decided, Translating
<1>2. \A tag, label : Excused(q, tag, label) => Excused(p, tag, label)
  BY DEF Follows, Excused
<1>3. Wanted(p) = Wanted(q) /\ p.target = q.target
  BY DEF Wanted, Follows
<1>4. /\ Tail(q.todo) \in Seq(Scalar) /\ In(p.todo) \subseteq In(q.todo) /\ Head(q.todo) \in In(q.todo)
      /\ \A x \in In(q.todo) : x = Head(q.todo) \/ x \in In(p.todo)
  BY Popped DEF Thread, Shape
<1>5. p.resolved \in Seq(Ids) /\ In(p.resolved) = In(q.resolved) \cup {n}
  BY Appended DEF Thread, Shape
<1>6. Head(q.todo) \in Wanted(q) \ NonIds
  BY <1>4 DEF Thread, Tagged
<1>7. Tagged(al, ev, p)
  <2>1. In(p.todo) \subseteq Wanted(p)
    BY <1>3, <1>4 DEF Thread, Tagged
  <2>2. ASSUME NEW tag \in Wanted(p) \ NonIds, tag \notin In(p.todo),
               NEW d \in al[Tags(Owner(tag))], d.id = Native(tag)
        PROVE  Forwarded(ev, p, d.label) \/ Excused(p, tag, d.label)
    <3>1. CASE tag = Head(q.todo)
      BY <1>3, <1>5, <2>2, <3>1 DEF Forwarded
    <3>2. CASE tag # Head(q.todo)
      <4>1. tag \notin In(q.todo)
        BY <1>4, <2>2, <3>2
      <4>2. Forwarded(ev, q, d.label) \/ Excused(q, tag, d.label)
        BY <1>1, <1>3, <2>2, <4>1 DEF Thread, Tagged
      <4> QED
        BY <1>2, <1>3, <1>5, <4>2 DEF Forwarded
    <3> QED
      BY <3>1, <3>2
  <2>3. ASSUME NEW m \in In(p.resolved)
        PROVE  \E f \in ev[Tags(p.target)] :
                 f.id = m /\ \E tag \in Wanted(p) \ NonIds : Labelled(ev, tag, f.label)
    <3>1. CASE m = n
      BY <1>3, <1>6, <3>1
    <3>2. CASE m \in In(q.resolved)
      BY <1>3, <3>2 DEF Thread, Tagged
    <3> QED
      BY <1>5, <3>1, <3>2
  <2> QED
    BY <1>3, <2>1, <2>2, <2>3 DEF Thread, Tagged
<1> QED
  BY <1>4, <1>5, <1>7, FollowsKeeps DEF Thread, Shape

-----------------------------------------------------------------------------
(* Steps.                                                                   *)

\* The step is one of thread r; what it did to the lists, the others bear.
LEMMA StepOf ==
  ASSUME IInv, Lists', Cached', Grows(always, ever, items, always', ever', items'),
         NEW r \in Requests, NEW p, req' = [req EXCEPT ![r] = p],
         Thread(always', ever', items', r, p)
  PROVE  IInv'
<1>1. DOMAIN req' = Requests /\ req'[r] = p /\ \A s \in Requests \ {r} : req'[s] = req[s]
  BY DEF IInv, Threads
<1>2. \A s \in Requests \ {r} : Thread(always', ever', items', s, req[s])
  BY ThreadGrows DEF IInv, Threads
<1>3. \A s \in Requests : Thread(always', ever', items', s, req'[s])
  BY <1>1, <1>2
<1> QED
  BY <1>1, <1>3 DEF IInv, Threads

LEMMA StepElsewhere ==
  ASSUME IInv, Lists', Cached', Grows(always, ever, items, always', ever', items'),
         req' = req
  PROVE  IInv'
BY ThreadGrows DEF IInv, Threads

LEMMA Still ==
  ASSUME IInv, UNCHANGED upstream
  PROVE  /\ Grows(always, ever, items, always', ever', items')
         /\ always' = always /\ ever' = ever /\ items' = items /\ list' = list
BY DEF upstream, Grows

\* The step reads no list and changes none.
LEMMA StepWithin ==
  ASSUME IInv, UNCHANGED <<upstream, cache>>,
         NEW r \in Requests, NEW p, req' = [req EXCEPT ![r] = p],
         Thread(always, ever, items, r, p)
  PROVE  IInv'
<1>1. Lists' /\ Cached'
  BY DEF IInv, Lists, Cached, upstream
<1> QED
  BY <1>1, Still, StepOf

-----------------------------------------------------------------------------
(* Lookups.                                                                 *)

\* What a lookup yields is genuine, and so is what it leaves in the cache.
LEMMA Returned ==
  ASSUME IInv, UNCHANGED upstream, NEW r \in Requests, req[r].pc \in Reading,
         NEW v \in Values(r), Returns(r, v)
  PROVE  /\ Genuine(always, ever, v, KeyOf(req[r]))
         /\ Lists' /\ Cached'
<1> DEFINE k == KeyOf(req[r])
<1>1. k \in Keys /\ Genuine(always, ever, req[r].reply, k) /\ Genuine(always, ever, cache[k], k)
  BY KeyIsKey DEF IInv, Threads, Thread, Reads, Cached
<1>2. DOMAIN cache = Keys
  BY DEF IInv, Lists
<1>3. UNCHANGED cache \/ (v = req[r].reply /\ cache' = [cache EXCEPT ![k] = v])
  BY DEF Returns
<1>4. Genuine(always, ever, v, k)
  BY <1>1, NothingRead DEF Returns
<1> HIDE DEF k
<1>5. DOMAIN cache' = Keys /\ \A j \in Keys : cache'[j] = cache[j] \/ (j = k /\ cache'[j] = v)
  BY <1>1, <1>2, <1>3
<1>6. \A j \in Keys : Genuine(always, ever, cache'[j], j)
  BY <1>4, <1>5 DEF IInv, Cached
<1>7. Lists' /\ Cached'
  BY <1>5, <1>6 DEF IInv, Lists, Cached, upstream
<1> QED
  BY <1>4, <1>7 DEF k

\* An answer is the list as it is.
LEMMA AnswerStep == ASSUME IInv, NEW r \in Requests, Answer(r) PROVE IInv'
<1> DEFINE k == KeyOf(req[r])
           p == [req[r] EXCEPT !.reply = ListOf(list[k])]
<1>1. UNCHANGED <<upstream, cache>> /\ req' = [req EXCEPT ![r] = p] /\ req[r].pc \in Reading
  BY DEF Answer, IInv, Threads
<1>2. Thread(always, ever, items, r, req[r]) /\ Shape(req[r])
  BY DEF IInv, Threads, Thread
<1>3. k \in Keys
  BY <1>1, <1>2, KeyIsKey
<1>4. Genuine(always, ever, ListOf(list[k]), k)
  BY <1>3 DEF Genuine, ListOf, IInv, Lists
<1>5. /\ DOMAIN p = Fields /\ p.reply = ListOf(list[k])
      /\ p.pc = req[r].pc /\ p.target = req[r].target /\ p.reason = req[r].reason
      /\ p.todo = req[r].todo /\ p.method = req[r].method /\ p.payload = req[r].payload
      /\ p.resolved = req[r].resolved /\ p.label = req[r].label /\ p.fault = req[r].fault
      /\ p.outcome = req[r].outcome /\ p.answer = req[r].answer
      /\ p.animePaths = req[r].animePaths
  BY <1>2 DEF Shape, Fields
<1> HIDE DEF p
<1>6. Shape(p) /\ Stage(p) /\ Told(items, r, p)
  BY <1>2, <1>5 DEF Thread, Shape, Stage, Told
<1>7. KeyOf(p) = k
  BY <1>5, Zenon DEF KeyOf, k
<1>8. Reads(always, ever, p)
  BY <1>1, <1>2, <1>4, <1>5, <1>7 DEF Thread, Reads
<1>9. Picked(always, ever, p) /\ Tagged(always, ever, p)
  BY <1>2, <1>5 DEF Thread, Picked, Tagged, Decided, Owns, Forwarded, Excused, Wanted
<1>10. Thread(always, ever, items, r, p)
  BY <1>6, <1>8, <1>9 DEF Thread
<1> QED
  BY <1>1, <1>10, StepWithin

LEMMA AnimePathsStep == ASSUME IInv, NEW r \in Requests, AnimePaths(r) PROVE IInv'
<1>1. PICK v \in Values(r) :
        /\ Returns(r, v)
        /\ req' = [req EXCEPT ![r] = [Got(r, v) EXCEPT !.pc = "englishPaths", !.animePaths = v]]
  BY DEF AnimePaths
<1>2. UNCHANGED upstream /\ req[r].pc = "animePaths"
  BY DEF AnimePaths
<1>3. Thread(always, ever, items, r, req[r]) /\ Shape(req[r])
  BY DEF IInv, Threads, Thread
<1>4. Genuine(always, ever, v, Folders(Anime)) /\ Lists' /\ Cached'
  BY <1>1, <1>2, <1>3, Returned, KeyIsKey DEF Reading
<1> DEFINE g == Got(r, v)
           p == [g EXCEPT !.pc = "englishPaths", !.animePaths = v]
<1>5. /\ DOMAIN g = Fields /\ g.reply = Nothing
      /\ g.fault = (IF v.read THEN req[r].fault ELSE req[r].fault \cup {KeyOf(req[r])})
      /\ g.target = req[r].target /\ g.reason = req[r].reason
      /\ g.todo = req[r].todo /\ g.method = req[r].method /\ g.payload = req[r].payload
      /\ g.resolved = req[r].resolved /\ g.label = req[r].label
      /\ g.outcome = req[r].outcome /\ g.answer = req[r].answer
  <2>1. DOMAIN req[r] = Fields
    BY <1>3 DEF Shape
  <2> QED
    BY ONLY <2>1 DEF Got, Fields
<1> HIDE DEF g
<1>6. /\ DOMAIN p = Fields /\ p.pc = "englishPaths" /\ p.animePaths = v /\ p.reply = g.reply
      /\ p.fault = g.fault /\ p.target = g.target /\ p.reason = g.reason
      /\ p.todo = g.todo /\ p.method = g.method /\ p.payload = g.payload
      /\ p.resolved = g.resolved /\ p.label = g.label
      /\ p.outcome = g.outcome /\ p.answer = g.answer
  BY <1>5 DEF Fields
<1> HIDE DEF p
<1>6a. KeyOf(req[r]) = Folders(Anime) /\ KeyOf(req[r]) \in Keys
  BY <1>2, <1>3, KeyIsKey DEF Reading
<1>6b. g.fault \subseteq Faults /\ (v.read \/ FoldersUnread(g.fault))
  BY <1>3, <1>5, <1>6a, TheKeys DEF Shape, Faults, FoldersUnread
<1>7. Shape(p) /\ Stage(p) /\ Told(items, r, p)
  BY <1>2, <1>3, <1>5, <1>6, <1>6b DEF Thread, Shape, Stage, Told, Pcs, Reading
<1>8. Reads(always, ever, p)
  BY <1>4, <1>5, <1>6, <1>6b, NothingRead DEF Reads, Reading
<1>9. ~Decided(p) /\ p.resolved = <<>> /\ p.todo = <<>> /\ Wanted(p) = Wanted(req[r])
  BY <1>2, <1>3, <1>5, <1>6 DEF Thread, Stage, Decided, Wanted
<1>10. Picked(always, ever, p)
  BY <1>2, <1>3, <1>5, <1>6, <1>9 DEF Thread, Picked, Stage
<1>11. Tagged(always, ever, p)
  BY <1>3, <1>6, <1>9, NothingIn DEF Thread, Tagged
<1>12. Thread(always, ever, items, r, p)
  BY <1>7, <1>8, <1>10, <1>11 DEF Thread
<1> QED
  BY <1>1, <1>2, <1>4, <1>12, Still, StepOf DEF p, g

LEMMA EnglishPathsStep == ASSUME IInv, NEW r \in Requests, EnglishPaths(r) PROVE IInv'
<1>1. PICK v \in Values(r) :
        Returns(r, v) /\ req' = [req EXCEPT ![r] = ByOwner(Got(r, v), v)]
  BY DEF EnglishPaths
<1>2. UNCHANGED upstream /\ req[r].pc = "englishPaths"
  BY DEF EnglishPaths
<1>3. Thread(always, ever, items, r, req[r]) /\ Shape(req[r])
  BY DEF IInv, Threads, Thread
<1>4. Genuine(always, ever, v, Folders(English)) /\ Lists' /\ Cached'
  BY <1>1, <1>2, <1>3, Returned, KeyIsKey DEF Reading
<1> DEFINE g == Got(r, v)
<1>5. /\ DOMAIN g = Fields /\ g.reply = Nothing
      /\ g.fault = (IF v.read THEN req[r].fault ELSE req[r].fault \cup {KeyOf(req[r])})
      /\ g.pc = req[r].pc /\ g.target = req[r].target /\ g.reason = req[r].reason
      /\ g.todo = req[r].todo /\ g.method = req[r].method /\ g.payload = req[r].payload
      /\ g.resolved = req[r].resolved /\ g.label = req[r].label
      /\ g.outcome = req[r].outcome /\ g.answer = req[r].answer
      /\ g.animePaths = req[r].animePaths
  <2>1. DOMAIN req[r] = Fields
    BY <1>3 DEF Shape
  <2> QED
    BY ONLY <2>1 DEF Got, Fields
<1> HIDE DEF g
<1>5a. KeyOf(req[r]) = Folders(English) /\ KeyOf(req[r]) \in Keys
  BY <1>2, <1>3, KeyIsKey DEF Reading
<1>5b. g.fault \subseteq Faults /\ (v.read \/ FoldersUnread(g.fault))
  BY <1>3, <1>5, <1>5a, TheKeys DEF Shape, Faults, FoldersUnread
<1>6. Ready(ever, g)
  BY <1>2, <1>3, <1>5, <1>5b DEF Ready, Thread, Shape, Stage, Tagged, Wanted
<1>7. ~HasAnimeId(g.payload)
  BY <1>2, <1>3, <1>5 DEF Thread, Stage
<1>8. /\ Genuine(always, ever, g.animePaths, Folders(Anime))
      /\ g.animePaths.read \/ FoldersUnread(req[r].fault)
  BY <1>2, <1>3, <1>5 DEF Thread, Reads
<1>9. FoldersUnread(g.fault) \/ (v.read /\ g.animePaths.read)
  BY <1>5, <1>8, <1>5b DEF FoldersUnread
<1>10. Thread(always, ever, items, r, ByOwner(g, v))
  BY <1>4, <1>6, <1>7, <1>8, <1>9, ByOwnerThread
<1> QED
  BY <1>1, <1>2, <1>4, <1>10, Still, StepOf DEF g

-----------------------------------------------------------------------------
(* Tags, one at a time.                                                     *)

LEMMA NextTagStep == ASSUME IInv, NEW r \in Requests, next_tag(r) PROVE IInv'
<1> DEFINE q == req[r]
           tag == Head(q.todo)
<1>1. /\ q.pc = "tags" /\ q.todo # <<>> /\ UNCHANGED <<upstream, cache>>
      /\ req' = [req EXCEPT ![r] =
           IF tag \in NonIds THEN Dropped(q)
           ELSE IF Own(q, tag) THEN Kept(q, decode_id(tag).id)
           ELSE [q EXCEPT !.pc = "label"]]
  BY Zenon DEF next_tag, IInv, Threads
<1>2. Thread(always, ever, items, r, q) /\ Shape(q) /\ q.pc \in Translating
  BY <1>1 DEF IInv, Threads, Thread, Translating
<1>3. q.reply = Nothing /\ DOMAIN q = Fields /\ q.label \in Labels
  BY <1>1, <1>2 DEF Thread, Reads, Reading, Shape
<1> HIDE DEF q
<1>4. tag \in Wanted(q)
  BY <1>1, <1>2, Popped DEF Thread, Tagged, Shape
<1>5. CASE tag \in NonIds
  <2> DEFINE p == Dropped(q)
  <2>1. req' = [req EXCEPT ![r] = p]
    BY <1>1, <1>5, Zenon
  <2>2. /\ Follows(p, q) /\ p.pc = "tags" /\ p.todo = Tail(q.todo)
        /\ p.resolved = q.resolved /\ p.label = q.label
    BY <1>2, <1>3, DroppedFields DEF Follows, Translating, Shape
  <2> HIDE DEF p
  <2>3. Thread(always, ever, items, r, p)
    BY <1>1, <1>2, <1>5, <2>2, DroppedThread
  <2> QED
    BY <1>1, <2>1, <2>3, StepWithin
<1>6. CASE tag \notin NonIds /\ Own(q, tag)
  <2> DEFINE n == decode_id(tag).id
             p == Kept(q, n)
  <2>1. req' = [req EXCEPT ![r] = p]
    BY <1>1, <1>6, Zenon
  <2>2. /\ Follows(p, q) /\ p.pc = "tags" /\ p.todo = Tail(q.todo)
        /\ p.resolved = Append(q.resolved, n) /\ p.label = q.label
    BY <1>2, <1>3, KeptFields DEF Follows, Translating, Shape
  <2>3. n = Native(tag) /\ Owner(tag) = q.target
    BY <1>6 DEF Own, Native, Owner
  <2> HIDE DEF p, n
  <2>4. PICK label \in Labels : Labelled(ever, tag, label)
    BY <1>2, <1>4, <1>6 DEF Thread, Tagged
  <2>5. PICK e \in ever[Tags(q.target)] : e.id = n /\ e.label = label
    BY <2>3, <2>4 DEF Labelled
  <2>6. q.target \in Instances
    BY <1>2 DEF Shape
  <2>7. n \in Ids
    BY <2>5, <2>6 DEF IInv, Lists, Tag
  <2>8. \A d \in always[Tags(Owner(tag))] : d.id = Native(tag) => d.label = e.label
    BY <2>3, <2>5, <2>6, TheKeys DEF IInv, Lists
  <2>9. Thread(always, ever, items, r, p)
    BY <1>1, <1>2, <1>6, <2>2, <2>4, <2>5, <2>7, <2>8, KeptThread
  <2> QED
    BY <1>1, <2>1, <2>9, StepWithin
<1>7. CASE tag \notin NonIds /\ ~Own(q, tag)
  <2> DEFINE p == [q EXCEPT !.pc = "label"]
  <2>1. req' = [req EXCEPT ![r] = p]
    BY <1>1, <1>7, Zenon
  <2>2. /\ DOMAIN p = Fields /\ p.pc = "label" /\ p.reply = q.reply
        /\ p.method = q.method /\ p.payload = q.payload /\ p.target = q.target
        /\ p.reason = q.reason /\ p.outcome = q.outcome /\ p.answer = q.answer
        /\ p.fault = q.fault /\ p.label = q.label /\ p.resolved = q.resolved /\ p.todo = q.todo
    BY <1>3 DEF Fields
  <2> HIDE DEF p
  <2>3. Follows(p, q)
    BY <1>2, <1>3, <2>2 DEF Follows, Translating, Shape
  <2>4. Thread(always, ever, items, r, p)
    <3>1. p.pc \notin {"labelId", "create"}
      BY <2>2
    <3>2. p.label \in Labels /\ p.resolved = q.resolved /\ p.todo = q.todo
      BY <1>3, <2>2
    <3> QED
      BY <1>1, <1>2, <1>7, <2>3, <3>1, <3>2, MovedThread DEF Own, Owner
  <2> QED
    BY <1>1, <2>1, <2>4, StepWithin
<1> QED
  BY <1>5, <1>6, <1>7

\* What a thread becomes when a tag lookup returned v: it follows on, with a
\* fault if the list could not be read.
LEMMA GotOn ==
  ASSUME NEW r, Shape(req[r]), req[r].pc \in Reading, NEW v, NEW g, g = Got(r, v)
  PROVE  /\ DOMAIN g = Fields /\ g.reply = Nothing /\ g.target = req[r].target
         /\ g.reason = req[r].reason /\ g.todo = req[r].todo /\ g.method = req[r].method
         /\ g.payload = req[r].payload /\ g.resolved = req[r].resolved
         /\ g.label = req[r].label /\ g.outcome = req[r].outcome /\ g.answer = req[r].answer
         /\ req[r].fault \subseteq g.fault /\ g.fault \subseteq Faults
         /\ v.read \/ KeyOf(req[r]) \in g.fault
<1>1. DOMAIN req[r] = Fields
  BY DEF Shape
<1>2. req[r].fault \subseteq Faults /\ KeyOf(req[r]) \in Faults
  BY KeyIsKey DEF Shape, Faults
<1>3. /\ DOMAIN g = Fields /\ g.reply = Nothing /\ g.target = req[r].target
      /\ g.reason = req[r].reason /\ g.todo = req[r].todo /\ g.method = req[r].method
      /\ g.payload = req[r].payload /\ g.resolved = req[r].resolved
      /\ g.label = req[r].label /\ g.outcome = req[r].outcome /\ g.answer = req[r].answer
      /\ g.fault = (IF v.read THEN req[r].fault ELSE req[r].fault \cup {KeyOf(req[r])})
  BY ONLY <1>1, g = Got(r, v) DEF Got, Fields
<1>4. /\ req[r].fault \subseteq g.fault /\ g.fault \subseteq Faults
      /\ v.read \/ KeyOf(req[r]) \in g.fault
  BY ONLY <1>2, <1>3
<1> QED
  BY ONLY <1>3, <1>4

LEMMA GotDropped ==
  ASSUME NEW r, Shape(req[r]), req[r].pc \in Reading, NEW v, NEW p, p = Dropped(Got(r, v))
  PROVE  /\ Follows(p, req[r]) /\ p.pc = "tags" /\ p.label = req[r].label
         /\ p.resolved = req[r].resolved /\ p.todo = Tail(req[r].todo)
         /\ v.read \/ KeyOf(req[r]) \in p.fault
<1> DEFINE g == Got(r, v)
<1>1. /\ DOMAIN g = Fields /\ g.reply = Nothing /\ g.target = req[r].target
      /\ g.reason = req[r].reason /\ g.todo = req[r].todo /\ g.method = req[r].method
      /\ g.payload = req[r].payload /\ g.resolved = req[r].resolved
      /\ g.label = req[r].label /\ g.outcome = req[r].outcome /\ g.answer = req[r].answer
      /\ req[r].fault \subseteq g.fault /\ g.fault \subseteq Faults
      /\ v.read \/ KeyOf(req[r]) \in g.fault
  BY ONLY Shape(req[r]), req[r].pc \in Reading, GotOn
<1> HIDE DEF g
<1>2. p = Dropped(g)
  BY DEF g
<1> QED
  BY ONLY <1>1, <1>2, DroppedFields DEF Follows, Translating

LEMMA GotKept ==
  ASSUME NEW r, Shape(req[r]), req[r].pc \in Reading, NEW v, NEW n, NEW p, p = Kept(Got(r, v), n)
  PROVE  /\ Follows(p, req[r]) /\ p.pc = "tags" /\ p.label = req[r].label
         /\ p.resolved = Append(req[r].resolved, n) /\ p.todo = Tail(req[r].todo)
<1> DEFINE g == Got(r, v)
<1>1. /\ DOMAIN g = Fields /\ g.reply = Nothing /\ g.target = req[r].target
      /\ g.reason = req[r].reason /\ g.todo = req[r].todo /\ g.method = req[r].method
      /\ g.payload = req[r].payload /\ g.resolved = req[r].resolved
      /\ g.label = req[r].label /\ g.outcome = req[r].outcome /\ g.answer = req[r].answer
      /\ req[r].fault \subseteq g.fault /\ g.fault \subseteq Faults
  BY ONLY Shape(req[r]), req[r].pc \in Reading, GotOn
<1> HIDE DEF g
<1>2. p = Kept(g, n)
  BY DEF g
<1> QED
  BY ONLY <1>1, <1>2, KeptFields DEF Follows, Translating

Looking(r, v, l) == [Got(r, v) EXCEPT !.pc = "labelId", !.label = l]

LEMMA GotLabel ==
  ASSUME NEW r, Shape(req[r]), req[r].pc \in Reading, NEW v, NEW l, NEW p, p = Looking(r, v, l)
  PROVE  /\ Follows(p, req[r]) /\ p.pc = "labelId" /\ p.label = l
         /\ p.resolved = req[r].resolved /\ p.todo = req[r].todo
<1> DEFINE g == Got(r, v)
<1>1. /\ DOMAIN g = Fields /\ g.reply = Nothing /\ g.target = req[r].target
      /\ g.reason = req[r].reason /\ g.todo = req[r].todo /\ g.method = req[r].method
      /\ g.payload = req[r].payload /\ g.resolved = req[r].resolved
      /\ g.label = req[r].label /\ g.outcome = req[r].outcome /\ g.answer = req[r].answer
      /\ req[r].fault \subseteq g.fault /\ g.fault \subseteq Faults
  BY ONLY Shape(req[r]), req[r].pc \in Reading, GotOn
<1> HIDE DEF g
<1>2. p = [g EXCEPT !.pc = "labelId", !.label = l]
  BY DEF g, Looking
<1> QED
  BY ONLY <1>1, <1>2 DEF Follows, Translating, Fields

Creating(r, v) == [Got(r, v) EXCEPT !.pc = "create"]

LEMMA GotCreate ==
  ASSUME NEW r, Shape(req[r]), req[r].pc \in Reading, NEW v, NEW p, p = Creating(r, v)
  PROVE  /\ Follows(p, req[r]) /\ p.pc = "create" /\ p.label = req[r].label
         /\ p.resolved = req[r].resolved /\ p.todo = req[r].todo
<1> DEFINE g == Got(r, v)
<1>1. /\ DOMAIN g = Fields /\ g.reply = Nothing /\ g.target = req[r].target
      /\ g.reason = req[r].reason /\ g.todo = req[r].todo /\ g.method = req[r].method
      /\ g.payload = req[r].payload /\ g.resolved = req[r].resolved
      /\ g.label = req[r].label /\ g.outcome = req[r].outcome /\ g.answer = req[r].answer
      /\ req[r].fault \subseteq g.fault /\ g.fault \subseteq Faults
  BY ONLY Shape(req[r]), req[r].pc \in Reading, GotOn
<1> HIDE DEF g
<1>2. p = [g EXCEPT !.pc = "create"]
  BY DEF g, Creating
<1> QED
  BY ONLY <1>1, <1>2 DEF Follows, Translating, Fields

LEMMA TagLabelStep == ASSUME IInv, NEW r \in Requests, tag_label(r) PROVE IInv'
<1> DEFINE q == req[r]
           tag == Head(q.todo)
<1>1. q.pc = "label" /\ UNCHANGED upstream
  BY DEF tag_label
<1>2. PICK v \in Values(r) :
        /\ Returns(r, v)
        /\ \/ /\ WithId(v.elems, tag) = {}
              /\ req' = [req EXCEPT ![r] = Dropped(Got(r, v))]
           \/ \E e \in WithId(v.elems, tag) :
                req' = [req EXCEPT ![r] = [Got(r, v) EXCEPT !.pc = "labelId", !.label = e.label]]
  BY Zenon DEF tag_label
<1>3. Thread(always, ever, items, r, q) /\ Shape(q) /\ q.pc \in Translating /\ q.pc \in Reading
  BY <1>1 DEF IInv, Threads, Thread, Translating, Reading
<1>4. Genuine(always, ever, v, Tags(Owner(tag))) /\ Lists' /\ Cached'
  BY <1>1, <1>2, <1>3, Returned, KeyIsKey
<1> HIDE DEF q
<1>5. q.todo # <<>> /\ tag \notin NonIds /\ Owner(tag) # q.target
  BY <1>1, <1>3 DEF Thread, Tagged
<1>6. CASE WithId(v.elems, tag) = {} /\ req' = [req EXCEPT ![r] = Dropped(Got(r, v))]
  <2> DEFINE p == Dropped(Got(r, v))
  <2>1. /\ Follows(p, q) /\ p.pc = "tags" /\ p.label = q.label
        /\ p.resolved = q.resolved /\ p.todo = Tail(q.todo)
        /\ v.read \/ KeyOf(q) \in p.fault
    <3>1. Shape(req[r]) /\ req[r].pc \in Reading
      BY <1>3 DEF q
    <3> QED
      BY ONLY <3>1, GotDropped DEF q
  <2>2. req' = [req EXCEPT ![r] = p]
    BY <1>6
  <2> HIDE DEF p
  <2>3. ASSUME NEW d \in always[Tags(Owner(tag))], d.id = Native(tag)
        PROVE  Excused(p, tag, d.label)
    <3>1. ~v.read
      BY <1>4, <1>6, <2>3 DEF Genuine, WithId, Native
    <3>2. Tags(Owner(tag)) \in p.fault
      BY <1>1, <1>3, <2>1, <3>1, KeyIsKey
    <3> QED
      BY <1>5, <2>1, <3>2 DEF Excused, Follows
  <2>4. Thread(always, ever, items, r, p)
    BY <1>3, <1>5, <2>1, <2>3, DroppedThread
  <2> QED
    BY <1>1, <1>4, <2>2, <2>4, Still, StepOf
<1>7. ASSUME NEW e \in WithId(v.elems, tag),
             req' = [req EXCEPT ![r] = [Got(r, v) EXCEPT !.pc = "labelId", !.label = e.label]]
      PROVE  IInv'
  <2> DEFINE p == Looking(r, v, e.label)
  <2>1. /\ Follows(p, q) /\ p.pc = "labelId" /\ p.label = e.label
        /\ p.resolved = q.resolved /\ p.todo = q.todo
    <3>1. Shape(req[r]) /\ req[r].pc \in Reading
      BY <1>3 DEF q
    <3> QED
      BY ONLY <3>1, GotLabel DEF q
  <2>2. req' = [req EXCEPT ![r] = p]
    BY <1>7 DEF Looking
  <2> HIDE DEF p
  <2>3. e \in ever[Tags(Owner(tag))] /\ e.id = Native(tag)
    BY <1>4 DEF Genuine, WithId, Native
  <2>4. Labelled(ever, tag, e.label) /\ e.label \in Labels
    BY <2>3, OwnerIsInstance DEF Labelled, IInv, Lists, Tag
  <2>5. Thread(always, ever, items, r, p)
    BY <1>3, <1>5, <2>1, <2>4, MovedThread
  <2> QED
    BY <1>1, <1>4, <2>2, <2>5, Still, StepOf
<1> QED
  BY <1>2, <1>6, <1>7

\* The label of the next tag is that of every tag it can have meant.
LEMMA OneLabel ==
  ASSUME IInv, NEW tag, NEW label, Labelled(ever, tag, label)
  PROVE  \A d \in always[Tags(Owner(tag))] : d.id = Native(tag) => d.label = label
<1>1. Owner(tag) \in Instances /\ Tags(Owner(tag)) \in Keys
  BY OwnerIsInstance, TheKeys
<1>2. always[Tags(Owner(tag))] \subseteq ever[Tags(Owner(tag))]
  BY <1>1 DEF IInv, Lists
<1> QED
  BY <1>1, <1>2 DEF Labelled, IInv, Lists

LEMMA TagIdForLabelStep == ASSUME IInv, NEW r \in Requests, tag_id_for_label(r) PROVE IInv'
<1> DEFINE q == req[r]
           tag == Head(q.todo)
<1>1. q.pc = "labelId" /\ UNCHANGED upstream
  BY DEF tag_id_for_label
<1>2. PICK v \in Values(r) :
        /\ Returns(r, v)
        /\ \/ req' = [req EXCEPT ![r] = [Got(r, v) EXCEPT !.pc = "create"]]
           \/ \E e \in v.elems :
                e.label = q.label /\ req' = [req EXCEPT ![r] = Kept(Got(r, v), e.id)]
  BY Zenon DEF tag_id_for_label
<1>3. Thread(always, ever, items, r, q) /\ Shape(q) /\ q.pc \in Translating /\ q.pc \in Reading
  BY <1>1 DEF IInv, Threads, Thread, Translating, Reading
<1>4. Genuine(always, ever, v, Tags(q.target)) /\ Lists' /\ Cached'
  BY <1>1, <1>2, <1>3, Returned, KeyIsKey
<1> HIDE DEF q
<1>5. /\ q.todo # <<>> /\ tag \notin NonIds /\ Owner(tag) # q.target
      /\ Labelled(ever, tag, q.label)
  BY <1>1, <1>3 DEF Thread, Tagged
<1>6. q.target \in Instances /\ q.label \in Labels
  BY <1>3 DEF Shape
<1>7. CASE req' = [req EXCEPT ![r] = [Got(r, v) EXCEPT !.pc = "create"]]
  <2> DEFINE p == Creating(r, v)
  <2>1. /\ Follows(p, q) /\ p.pc = "create" /\ p.label = q.label
        /\ p.resolved = q.resolved /\ p.todo = q.todo
    <3>1. Shape(req[r]) /\ req[r].pc \in Reading
      BY <1>3 DEF q
    <3> QED
      BY ONLY <3>1, GotCreate DEF q
  <2>2. req' = [req EXCEPT ![r] = p]
    BY <1>7 DEF Creating
  <2> HIDE DEF p
  <2>3. p.label \in Labels /\ Labelled(ever, tag, p.label)
    BY <1>5, <1>6, <2>1
  <2>4. Thread(always, ever, items, r, p)
    BY <1>3, <1>5, <2>1, <2>3, MovedThread
  <2> QED
    BY <1>1, <1>4, <2>2, <2>4, Still, StepOf
<1>8. ASSUME NEW e \in v.elems, e.label = q.label,
             req' = [req EXCEPT ![r] = Kept(Got(r, v), e.id)]
      PROVE  IInv'
  <2> DEFINE p == Kept(Got(r, v), e.id)
  <2>1. /\ Follows(p, q) /\ p.pc = "tags" /\ p.label = q.label
        /\ p.resolved = Append(q.resolved, e.id) /\ p.todo = Tail(q.todo)
    <3>1. Shape(req[r]) /\ req[r].pc \in Reading
      BY <1>3 DEF q
    <3> QED
      BY ONLY <3>1, GotKept DEF q
  <2>2. req' = [req EXCEPT ![r] = p]
    BY <1>8
  <2> HIDE DEF p
  <2>3. e \in ever[Tags(q.target)] /\ e.id \in Ids
    BY <1>4, <1>6 DEF Genuine, IInv, Lists, Tag
  <2>4. Labelled(ever, tag, e.label)
    BY <1>5, <1>8
  <2>5. \A d \in always[Tags(Owner(tag))] : d.id = Native(tag) => d.label = e.label
    BY <2>4, OneLabel
  <2>6. Thread(always, ever, items, r, p)
    BY <1>3, <1>5, <2>1, <2>3, <2>4, <2>5, KeptThread
  <2> QED
    BY <1>1, <1>4, <2>2, <2>6, Still, StepOf
<1> QED
  BY <1>2, <1>7, <1>8

-----------------------------------------------------------------------------
(* New elements, and the cache emptied.                                     *)

\* Element e is new in list k; the IDs of tags stay distinct.
LEMMA GrownLists ==
  ASSUME IInv, UNCHANGED <<items, cache>>, NEW k \in Keys, NEW e, Grown(k, e),
         \A i \in Instances : k = Folders(i) => e \in Paths,
         \A i \in Instances : k = Tags(i) =>
           e \in Tag /\ \A d \in ever[Tags(i)] : d.id # e.id
  PROVE  /\ Lists' /\ Cached' /\ Grows(always, ever, items, always', ever', items')
         /\ e \in ever'[k]
<1>1. DOMAIN list = Keys /\ DOMAIN ever = Keys
  BY DEF IInv, Lists
<1>2. /\ always' = always /\ DOMAIN list' = Keys /\ DOMAIN ever' = Keys
      /\ \A j \in Keys \ {k} : list'[j] = list[j] /\ ever'[j] = ever[j]
      /\ list'[k] = list[k] \cup {e} /\ ever'[k] = ever[k] \cup {e}
  BY <1>1 DEF Grown
<1>3. \A j \in Keys : always[j] \subseteq list[j] /\ list[j] \subseteq ever[j]
  BY DEF IInv, Lists
<1>4. Grows(always, ever, items, always', ever', items')
  BY <1>2, <1>3 DEF Grows
<1>5. Cached'
  BY <1>4, GenuineGrows DEF IInv, Cached
<1>6. \A j \in Keys : always'[j] \subseteq list'[j] /\ list'[j] \subseteq ever'[j]
  BY <1>2, <1>3
<1>7. \A i \in Instances : ever'[Folders(i)] \subseteq Paths
  BY <1>2, TheKeys DEF IInv, Lists
<1>8. \A i \in Instances : ever'[Tags(i)] \subseteq Tag
  BY <1>2, TheKeys DEF IInv, Lists
<1>9. ASSUME NEW i \in Instances, NEW c \in ever'[Tags(i)], NEW d \in ever'[Tags(i)], c.id = d.id
      PROVE  c = d
  <2>1. ever'[Tags(i)] = ever[Tags(i)] \/ (k = Tags(i) /\ ever'[Tags(i)] = ever[Tags(i)] \cup {e})
    BY <1>2, TheKeys
  <2>2. \A x, y \in ever[Tags(i)] : x.id = y.id => x = y
    BY DEF IInv, Lists
  <2> QED
    BY <1>9, <2>1, <2>2
<1>10. Lists'
  BY <1>2, <1>6, <1>7, <1>8, <1>9 DEF IInv, Lists
<1> QED
  BY <1>2, <1>4, <1>5, <1>10

LEMMA NewTagLists ==
  ASSUME IInv, UNCHANGED <<items, cache>>, NEW i \in Instances, NEW label \in Labels,
         NEW e \in NewTags(i, label), Grown(Tags(i), e)
  PROVE  /\ Lists' /\ Cached' /\ Grows(always, ever, items, always', ever', items')
         /\ e \in ever'[Tags(i)] /\ e \in Tag /\ e.label = label
<1>1. PICK n \in NextId({d.id : d \in ever[Tags(i)]}) : e = [id |-> n, label |-> label]
  BY DEF NewTags
<1>2. e \in Tag /\ e.label = label /\ \A d \in ever[Tags(i)] : d.id # e.id
  BY <1>1 DEF NextId, Tag
<1> QED
  BY <1>2, TheKeys, GrownLists

\* POST /tag yields a tag of the instance with the label.
LEMMA Posted ==
  ASSUME IInv, UNCHANGED <<items, cache>>, NEW i \in Instances, NEW label \in Labels,
         NEW e, PostTag(i, label, e)
  PROVE  /\ Lists' /\ Cached' /\ Grows(always, ever, items, always', ever', items')
         /\ e \in ever'[Tags(i)] /\ e \in Tag /\ e.label = label
<1>1. CASE e \in list[Tags(i)] /\ e.label = label /\ UNCHANGED <<list, always, ever>>
  <2>1. Lists' /\ Cached' /\ Grows(always, ever, items, always', ever', items')
    BY <1>1 DEF IInv, Lists, Cached, Grows
  <2>2. e \in ever[Tags(i)] /\ e \in Tag
    BY <1>1, TheKeys DEF IInv, Lists
  <2> QED
    BY <1>1, <2>1, <2>2
<1>2. CASE e \in NewTags(i, label) /\ Grown(Tags(i), e)
  BY <1>2, NewTagLists
<1> QED
  BY <1>1, <1>2 DEF PostTag

\* Entries of the cache are dropped.
LEMMA Emptied ==
  ASSUME IInv, UNCHANGED upstream, DOMAIN cache' = Keys,
         \A k \in Keys : cache'[k] \in {cache[k], Nothing}
  PROVE  Lists' /\ Cached'
<1>1. \A k \in Keys : Genuine(always, ever, cache'[k], k)
  BY NothingRead DEF IInv, Cached
<1> QED
  BY <1>1 DEF IInv, Lists, Cached, upstream

-----------------------------------------------------------------------------
(* A tag is created for a request.                                          *)

LEMMA PostLabelStep == ASSUME IInv, NEW r \in Requests, post_label(r) PROVE IInv'
<1> DEFINE q == req[r]
           tag == Head(q.todo)
<1>1. q.pc = "create" /\ UNCHANGED <<items, ui, cache>>
  BY DEF post_label
<1>2. PICK e \in Tag :
        /\ PostTag(q.target, q.label, e)
        /\ \/ req' = [req EXCEPT ![r] = [Kept(q, e.id) EXCEPT !.pc = "pop"]]
           \/ req' = [req EXCEPT ![r] = Ended(q, "unreachable")]
  BY Zenon DEF post_label, IInv, Threads
<1>3. Thread(always, ever, items, r, q) /\ Shape(q)
  BY DEF IInv, Threads, Thread
<1> HIDE DEF q
<1>4. q.target \in Instances /\ q.label \in Labels /\ DOMAIN q = Fields
  BY <1>3 DEF Shape
<1>5. /\ Lists' /\ Cached' /\ Grows(always, ever, items, always', ever', items')
      /\ e \in ever'[Tags(q.target)] /\ e.label = q.label
  BY <1>1, <1>2, <1>4, Posted
<1>6. Thread(always', ever', items', r, q)
  BY <1>3, <1>5, ThreadGrows
<1>7. CASE req' = [req EXCEPT ![r] = Ended(q, "unreachable")]
  <2>1. Thread(always', ever', items', r, Ended(q, "unreachable"))
    BY <1>6, EndedThread DEF Outcomes
  <2> QED
    BY <1>5, <1>7, <2>1, StepOf
<1>8. CASE req' = [req EXCEPT ![r] = [Kept(q, e.id) EXCEPT !.pc = "pop"]]
  <2> DEFINE k == Kept(q, e.id)
             p == [k EXCEPT !.pc = "pop"]
  <2>1. /\ DOMAIN k = Fields /\ k.todo = Tail(q.todo)
        /\ k.resolved = Append(q.resolved, e.id)
        /\ k.target = q.target /\ k.reason = q.reason /\ k.outcome = q.outcome
        /\ k.method = q.method /\ k.payload = q.payload /\ k.reply = q.reply
        /\ k.label = q.label /\ k.answer = q.answer /\ k.fault = q.fault
    BY ONLY <1>4, KeptFields
  <2> HIDE DEF k
  <2>2. /\ DOMAIN p = Fields /\ p.pc = "pop" /\ p.todo = k.todo
        /\ p.resolved = k.resolved
        /\ p.target = k.target /\ p.reason = k.reason /\ p.outcome = k.outcome
        /\ p.method = k.method /\ p.payload = k.payload /\ p.reply = k.reply
        /\ p.label = k.label /\ p.answer = k.answer /\ p.fault = k.fault
    BY <2>1 DEF Fields
  <2>3. req' = [req EXCEPT ![r] = p]
    BY <1>8 DEF k
  <2> HIDE DEF p
  <2>4. q.reply = Nothing /\ q.pc \in Translating
    BY <1>1, <1>3 DEF Thread, Reads, Reading, Translating
  <2>5. Follows(p, q)
    BY <1>3, <2>1, <2>2, <2>4 DEF Follows, Translating, Shape
  <2>6. q.todo # <<>> /\ tag \notin NonIds /\ Labelled(ever', tag, e.label)
    BY <1>1, <1>5, <1>6 DEF Thread, Tagged
  <2>8. \A d \in always'[Tags(Owner(tag))] : d.id = Native(tag) => d.label = e.label
    <3>1. Owner(tag) \in Instances /\ Tags(Owner(tag)) \in Keys
      BY OwnerIsInstance, TheKeys
    <3>2. always'[Tags(Owner(tag))] \subseteq ever'[Tags(Owner(tag))]
      BY <1>5, <3>1 DEF Lists
    <3> QED
      BY <1>5, <2>6, <3>1, <3>2 DEF Labelled, Lists
  <2>9. e.id \in Ids
    BY DEF Tag
  <2>10. Thread(always', ever', items', r, p)
    <3>1. /\ p.label = q.label /\ p.resolved = Append(q.resolved, e.id)
          /\ p.todo = Tail(q.todo) /\ p.pc \in {"tags", "pop"}
      BY <2>1, <2>2
    <3> QED
      BY <1>5, <1>6, <2>4, <2>5, <2>6, <2>8, <2>9, <3>1, KeptThread
  <2> QED
    BY <1>5, <2>3, <2>10, StepOf
<1> QED
  BY <1>2, <1>7, <1>8

LEMMA LabelRejectedStep == ASSUME IInv, NEW r \in Requests, label_rejected(r) PROVE IInv'
<1> DEFINE q == req[r]
           k == Dropped(q)
           p == [k EXCEPT !.fault = @ \cup {Refused(q.label)}]
<1>1. q.pc = "create" /\ UNCHANGED <<upstream, cache>> /\ req' = [req EXCEPT ![r] = p]
  BY DEF label_rejected
<1>2. Thread(always, ever, items, r, q) /\ Shape(q)
  BY DEF IInv, Threads, Thread
<1> HIDE DEF q
<1>3. DOMAIN q = Fields
  BY <1>2 DEF Shape
<1>4. /\ DOMAIN k = Fields /\ k.pc = "tags" /\ k.todo = Tail(q.todo)
      /\ k.resolved = q.resolved
      /\ k.target = q.target /\ k.reason = q.reason /\ k.outcome = q.outcome
      /\ k.method = q.method /\ k.payload = q.payload /\ k.reply = q.reply
      /\ k.label = q.label /\ k.answer = q.answer /\ k.fault = q.fault
  BY ONLY <1>3, DroppedFields
<1> HIDE DEF k
<1>5. /\ DOMAIN p = Fields /\ p.pc = k.pc /\ p.todo = k.todo
      /\ p.resolved = k.resolved
      /\ p.target = k.target /\ p.reason = k.reason /\ p.outcome = k.outcome
      /\ p.method = k.method /\ p.payload = k.payload /\ p.reply = k.reply
      /\ p.label = k.label /\ p.answer = k.answer /\ p.fault = k.fault \cup {Refused(q.label)}
  BY <1>4 DEF Fields
<1> HIDE DEF p
<1>6. q.reply = Nothing /\ q.pc \in Translating /\ q.todo # <<>>
  BY <1>1, <1>2 DEF Thread, Reads, Reading, Translating, Tagged
<1>7. Follows(p, q)
  BY <1>2, <1>4, <1>5, <1>6 DEF Follows, Translating, Shape, Faults
<1>8. /\ p.label = q.label /\ p.resolved = q.resolved /\ p.todo = Tail(q.todo)
      /\ p.pc = "tags"
  BY <1>4, <1>5
<1>9. /\ Owner(Head(q.todo)) # q.target
      /\ Labelled(ever, Head(q.todo), q.label)
  BY <1>1, <1>2 DEF Thread, Tagged
<1>10. ASSUME NEW d \in always[Tags(Owner(Head(q.todo)))], d.id = Native(Head(q.todo))
       PROVE  Excused(p, Head(q.todo), d.label)
  <2>1. d.label = q.label
    BY <1>9, <1>10, OneLabel
  <2> QED
    BY <1>4, <1>5, <1>9, <2>1 DEF Excused
<1>11. Thread(always, ever, items, r, p)
  BY <1>2, <1>6, <1>7, <1>8, <1>10, DroppedThread
<1> QED
  BY <1>1, <1>11, StepWithin

LEMMA PopStep == ASSUME IInv, NEW r \in Requests, pop(r) PROVE IInv'
<1> DEFINE q == req[r]
           p == [q EXCEPT !.pc = "tags"]
<1>1. /\ q.pc = "pop" /\ UNCHANGED upstream /\ req' = [req EXCEPT ![r] = p]
      /\ cache' = [cache EXCEPT ![Tags(q.target)] = Nothing]
  BY DEF pop, IInv, Threads
<1>2. Thread(always, ever, items, r, q) /\ Shape(q)
  BY DEF IInv, Threads, Thread
<1>3. Lists' /\ Cached'
  <2>1. DOMAIN cache = Keys
    BY DEF IInv, Lists
  <2>2. DOMAIN cache' = Keys /\ \A k \in Keys : cache'[k] \in {cache[k], Nothing}
    BY <1>1, <2>1
  <2> QED
    BY <1>1, <2>2, Emptied
<1> HIDE DEF q
<1>4. /\ DOMAIN p = Fields /\ p.pc = "tags" /\ p.reply = q.reply
      /\ p.method = q.method /\ p.payload = q.payload /\ p.target = q.target
      /\ p.reason = q.reason /\ p.outcome = q.outcome /\ p.answer = q.answer
      /\ p.fault = q.fault /\ p.label = q.label /\ p.resolved = q.resolved /\ p.todo = q.todo
  BY <1>2 DEF Shape, Fields
<1> HIDE DEF p
<1>5. q.reply = Nothing /\ q.pc \in Translating
  BY <1>1, <1>2 DEF Thread, Reads, Reading, Translating
<1>6. Follows(p, q)
  BY <1>2, <1>4, <1>5 DEF Follows, Translating, Shape
<1>7. Thread(always, ever, items, r, p)
  <2>1. p.pc \notin {"label", "labelId", "create"} /\ p.label \in Labels
    BY <1>2, <1>4 DEF Shape
  <2> QED
    BY <1>2, <1>4, <1>5, <1>6, <2>1, MovedThread
<1> QED
  BY <1>1, <1>3, <1>7, Still, StepOf

-----------------------------------------------------------------------------
(* forward, and the requests that create a tag.                             *)

LEMMA EndStep ==
  ASSUME IInv, UNCHANGED <<upstream, cache>>, NEW r \in Requests, NEW outcome \in Outcomes,
         outcome \in {"accepted", "rejected", "lost"} => Forwarding(r),
         req' = [req EXCEPT ![r] = Ended(req[r], outcome)]
  PROVE  IInv'
<1>1. Thread(always, ever, items, r, req[r])
  BY DEF IInv, Threads
<1>2. outcome \in {"accepted", "rejected", "lost"} => req[r].pc = "tags" /\ req[r].todo = <<>>
  BY DEF Forwarding
<1>3. Thread(always, ever, items, r, Ended(req[r], outcome))
  BY <1>1, <1>2, EndedThread
<1> QED
  BY <1>3, StepWithin

LEMMA AddExecutedStep == ASSUME IInv, NEW r \in Requests, add_executed(r) PROVE IInv'
<1> DEFINE q == req[r]
           i == q.target
<1>1. PICK n \in NextId({x.id : x \in items[i]}) :
        /\ items' = [items EXCEPT ![i] = @ \cup {[id |-> n, by |-> r]}]
        /\ \/ req' = [req EXCEPT ![r] = [Ended(q, "accepted") EXCEPT !.answer = Exposed(i, n)]]
           \/ req' = [req EXCEPT ![r] = Ended(q, "lost")]
  BY Zenon DEF add_executed, Lost
<1>2. Forwarding(r) /\ UNCHANGED <<list, always, ever, ui, cache>>
  BY DEF add_executed
<1>3. Thread(always, ever, items, r, q) /\ Shape(q) /\ q.pc = "tags" /\ q.todo = <<>>
  BY <1>2 DEF IInv, Threads, Thread, Forwarding
<1> HIDE DEF q
<1>4. i \in Instances /\ n \in Ids
  BY <1>3 DEF Shape, NextId
<1>5. /\ DOMAIN items' = Instances
      /\ \A j \in Instances : items[j] \subseteq items'[j]
      /\ \A j \in Instances : items'[j] \subseteq [id : Ids, by : Requests]
      /\ [id |-> n, by |-> r] \in items'[i]
  <2>1. DOMAIN items = Instances /\ \A j \in Instances : items[j] \subseteq [id : Ids, by : Requests]
    BY DEF IInv, Lists
  <2>2. [id |-> n, by |-> r] \in [id : Ids, by : Requests]
    BY <1>4
  <2>3. \A j \in Instances : items'[j] =
          IF j = i THEN items[j] \cup {[id |-> n, by |-> r]} ELSE items[j]
    BY <1>1, <1>4, <2>1
  <2>4. DOMAIN items' = Instances
    BY <1>1, <2>1
  <2> QED
    BY <1>4, <2>1, <2>2, <2>3, <2>4
<1>6. Lists' /\ Cached' /\ Grows(always, ever, items, always', ever', items')
  BY <1>2, <1>5 DEF IInv, Lists, Cached, Grows
<1>7. Thread(always', ever', items', r, q)
  BY <1>3, <1>6, ThreadGrows
<1>8. ASSUME NEW outcome \in {"accepted", "lost"}
      PROVE  Thread(always', ever', items', r, Ended(q, outcome))
  BY <1>3, <1>7, EndedThread DEF Outcomes
<1>9. CASE req' = [req EXCEPT ![r] = Ended(q, "lost")]
  BY <1>6, <1>8, <1>9, StepOf
<1>10. CASE req' = [req EXCEPT ![r] = [Ended(q, "accepted") EXCEPT !.answer = Exposed(i, n)]]
  <2> DEFINE e == Ended(q, "accepted")
             p == [e EXCEPT !.answer = Exposed(i, n)]
  <2>1. Thread(always', ever', items', r, e) /\ e.pc = "done" /\ e.target = i
    BY <1>3, <1>8, EndedFields DEF Shape
  <2>2. req' = [req EXCEPT ![r] = p]
    BY <1>10
  <2> HIDE DEF e
  <2>3. /\ DOMAIN p = Fields /\ p.answer = Exposed(i, n) /\ p.pc = e.pc /\ p.reply = e.reply
        /\ p.method = e.method /\ p.payload = e.payload /\ p.target = e.target
        /\ p.reason = e.reason /\ p.outcome = e.outcome /\ p.animePaths = e.animePaths
        /\ p.fault = e.fault /\ p.label = e.label /\ p.resolved = e.resolved /\ p.todo = e.todo
    BY <2>1 DEF Thread, Shape, Fields
  <2> HIDE DEF p
  <2>4. Exposed(i, n) \in Scalar
    BY <1>4, LeadsBack DEF Scalar
  <2>5. Shape(p)
    BY <2>1, <2>3, <2>4 DEF Thread, Shape
  <2>6. Stage(p) /\ Reads(always', ever', p)
    BY <2>1, <2>3 DEF Thread, Stage, Reads, Reading
  <2>7. Picked(always', ever', p)
    BY <2>1, <2>3 DEF Thread, Picked, Decided, Owns
  <2>8. Tagged(always', ever', p)
    BY <2>1, <2>3 DEF Thread, Tagged, Decided, Forwarded, Excused, Wanted
  <2>9. Told(items', r, p)
    BY <1>4, <1>5, <2>3 DEF Told
  <2>10. Thread(always', ever', items', r, p)
    BY <2>5, <2>6, <2>7, <2>8, <2>9 DEF Thread
  <2> QED
    BY <1>6, <2>2, <2>10, StepOf
<1> QED
  BY <1>1, <1>9, <1>10

LEMMA UpdateExecutedStep == ASSUME IInv, NEW r \in Requests, update_executed(r) PROVE IInv'
<1>1. PICK outcome \in {"accepted", "lost"} : req' = [req EXCEPT ![r] = Ended(req[r], outcome)]
  BY DEF update_executed, Lost
<1>2. outcome \in Outcomes /\ Forwarding(r) /\ UNCHANGED <<upstream, cache>>
  BY DEF update_executed, Outcomes
<1> QED
  BY <1>1, <1>2, EndStep

LEMMA RefusedStep ==
  ASSUME IInv, NEW r \in Requests, rejected(r) \/ unreachable(r) \/ tag_refused(r)
  PROVE  IInv'
<1>1. CASE rejected(r)
  <2>1. "rejected" \in Outcomes
    BY DEF Outcomes
  <2> QED
    BY <1>1, <2>1, EndStep DEF rejected
<1>2. CASE unreachable(r)
  <2>1. "unreachable" \in Outcomes /\ "unreachable" \notin {"accepted", "rejected", "lost"}
    BY DEF Outcomes
  <2> QED
    BY <1>2, <2>1, EndStep DEF unreachable
<1>3. CASE tag_refused(r)
  <2>1. "none" \in Outcomes /\ "none" \notin {"accepted", "rejected", "lost"}
    BY DEF Outcomes
  <2> QED
    BY <1>3, <2>1, EndStep DEF tag_refused
<1> QED
  BY <1>1, <1>2, <1>3

\* A request that creates a tag picks no instance.
LEMMA CreatingThread ==
  ASSUME NEW al, NEW ev, NEW it, NEW r, NEW q, Thread(al, ev, it, r, q),
         q.pc \in {"idle", "newTag"},
         NEW pc \in {"newTag", "invalidate"}, NEW label \in Labels,
         NEW p, DOMAIN p = Fields, p.pc = pc, p.label = label,
         p.reply = q.reply, p.method = q.method, p.payload = q.payload,
         p.target = q.target, p.reason = q.reason, p.outcome = q.outcome,
         p.answer = q.answer, p.fault = q.fault, p.resolved = q.resolved, p.todo = q.todo
  PROVE  Thread(al, ev, it, r, p)
<1>1. Shape(p) /\ Stage(p) /\ Told(it, r, p)
  BY DEF Thread, Shape, Stage, Told, Pcs
<1>2. Reads(al, ev, p)
  BY DEF Thread, Reads, Reading
<1>3. ~Decided(p)
  BY DEF Thread, Stage, Decided
<1>4. Picked(al, ev, p)
  BY <1>3 DEF Thread, Stage, Picked
<1>5. Tagged(al, ev, p)
  BY <1>3 DEF Thread, Tagged, Wanted
<1> QED
  BY <1>1, <1>2, <1>4, <1>5 DEF Thread

LEMMA CreateTagStep ==
  ASSUME IInv, NEW r \in Requests, NEW label \in Labels, create_tag(r, label)
  PROVE  IInv'
<1> DEFINE q == req[r]
           p == [q EXCEPT !.pc = "newTag", !.label = label]
<1>1. q.pc = "idle" /\ UNCHANGED <<upstream, cache>>
  BY DEF create_tag
<1>2. req' = [req EXCEPT ![r] = p]
  BY DEF create_tag, IInv, Threads
<1>3. Thread(always, ever, items, r, q) /\ DOMAIN q = Fields
  BY DEF IInv, Threads, Thread, Shape
<1> HIDE DEF q
<1>4. /\ DOMAIN p = Fields /\ p.pc = "newTag" /\ p.label = label
      /\ p.reply = q.reply /\ p.method = q.method /\ p.payload = q.payload
      /\ p.target = q.target /\ p.reason = q.reason /\ p.outcome = q.outcome
      /\ p.answer = q.answer /\ p.fault = q.fault /\ p.resolved = q.resolved /\ p.todo = q.todo
  BY <1>3 DEF Fields
<1> HIDE DEF p
<1>5. Thread(always, ever, items, r, p)
  BY <1>1, <1>3, <1>4, CreatingThread
<1> QED
  BY <1>1, <1>2, <1>5, StepWithin

LEMMA TagCreatedStep == ASSUME IInv, NEW r \in Requests, tag_created(r) PROVE IInv'
<1> DEFINE q == req[r]
           p == [q EXCEPT !.pc = "invalidate"]
<1>1. /\ q.pc = "newTag" /\ UNCHANGED <<items, ui, cache>>
      /\ \E e \in Tag : PostTag(English, q.label, e)
      /\ req' = [req EXCEPT ![r] = p] \/ req' = [req EXCEPT ![r] = Ended(q, "unreachable")]
  BY DEF tag_created, IInv, Threads
<1>2. Thread(always, ever, items, r, q) /\ DOMAIN q = Fields /\ q.label \in Labels
  BY DEF IInv, Threads, Thread, Shape
<1> HIDE DEF q
<1>3. Lists' /\ Cached' /\ Grows(always, ever, items, always', ever', items')
  BY <1>1, <1>2, Posted, TheKeys
<1>4. Thread(always', ever', items', r, q)
  BY <1>2, <1>3, ThreadGrows
<1>5. CASE req' = [req EXCEPT ![r] = Ended(q, "unreachable")]
  <2>1. Thread(always', ever', items', r, Ended(q, "unreachable"))
    BY <1>4, EndedThread DEF Outcomes
  <2> QED
    BY <1>3, <1>5, <2>1, StepOf
<1>6. CASE req' = [req EXCEPT ![r] = p]
  <2>1. /\ DOMAIN p = Fields /\ p.pc = "invalidate" /\ p.label = q.label
        /\ p.reply = q.reply /\ p.method = q.method /\ p.payload = q.payload
        /\ p.target = q.target /\ p.reason = q.reason /\ p.outcome = q.outcome
        /\ p.answer = q.answer /\ p.fault = q.fault /\ p.resolved = q.resolved
        /\ p.todo = q.todo
    BY <1>2 DEF Fields
  <2> HIDE DEF p
  <2>2. Thread(always', ever', items', r, p)
    BY <1>1, <1>2, <1>4, <2>1, CreatingThread
  <2> QED
    BY <1>3, <1>6, <2>2, StepOf
<1> QED
  BY <1>1, <1>5, <1>6

LEMMA InvalidateStep == ASSUME IInv, NEW r \in Requests, invalidate(r) PROVE IInv'
<1>1. /\ UNCHANGED upstream /\ req' = [req EXCEPT ![r] = Ended(req[r], "none")]
      /\ cache' = [k \in Keys |-> Nothing]
  BY DEF invalidate, IInv, Threads
<1>2. Lists' /\ Cached'
  BY <1>1, Emptied
<1>3. Thread(always, ever, items, r, Ended(req[r], "none"))
  BY EndedThread DEF Outcomes, IInv, Threads
<1> QED
  BY <1>1, <1>2, <1>3, Still, StepOf

-----------------------------------------------------------------------------
(* Requests from Seerr.                                                     *)

\* The tags of a body that arrives have a label on the instance they are from.
LEMMA ArrivingTags ==
  ASSUME IInv, NEW r, NEW p, Received(r, p), NEW tag \in In(p.tags) \ NonIds
  PROVE  \E label \in Labels : Labelled(ever, tag, label)
<1>1. tag \in Offered
  BY DEF Received, In
<1>2. PICK i \in Instances : \E e \in ever[Tags(i)] : tag = Exposed(i, e.id)
  BY <1>1 DEF Offered
<1>3. PICK e \in ever[Tags(i)] : tag = Exposed(i, e.id)
  BY <1>2
<1>4. e \in Tag
  BY DEF IInv, Lists
<1>5. Owner(tag) = i /\ Native(tag) = e.id
  BY <1>3, <1>4, LeadsBack DEF Tag
<1> QED
  BY <1>4, <1>5 DEF Labelled, Tag

\* The thread that has payload p, which is the body b but for its IDs.
Arrived(r, method, p) == [req[r] EXCEPT !.method = method, !.payload = p]

LEMMA ArrivingThread ==
  ASSUME IInv, NEW r \in Requests, NEW b \in Payload, Received(r, b),
         NEW p \in Payload, p.tags = b.tags, NEW method \in {"POST", "PUT"},
         NEW q, q = Arrived(r, method, p)
  PROVE  Ready(ever, q)
<1> DEFINE o == req[r]
<1>1. Thread(always, ever, items, r, o) /\ Shape(o) /\ DOMAIN o = Fields /\ o.pc = "idle"
  BY DEF IInv, Threads, Thread, Shape, Received
<1>2. q = [o EXCEPT !.method = method, !.payload = p]
  BY DEF Arrived
<1> HIDE DEF o
<1>3. /\ DOMAIN q = Fields /\ q.method = method /\ q.payload = p
      /\ q.pc = o.pc /\ q.target = o.target /\ q.reason = o.reason /\ q.reply = o.reply
      /\ q.todo = o.todo /\ q.resolved = o.resolved /\ q.label = o.label
      /\ q.outcome = o.outcome /\ q.answer = o.answer /\ q.fault = o.fault
  BY <1>1, <1>2 DEF Fields
<1>4. Shape(q)
  BY <1>1, <1>3 DEF Shape
<1>5. /\ q.reply = Nothing /\ q.resolved = <<>> /\ q.outcome = "none" /\ q.answer \in NonIds
      /\ q.reason = "none" /\ q.todo = <<>>
  BY <1>1, <1>3 DEF Thread, Stage, Reads, Reading
<1>6. \A tag \in Wanted(q) \ NonIds : \E label \in Labels : Labelled(ever, tag, label)
  BY <1>3, ArrivingTags DEF Wanted
<1> QED
  BY <1>3, <1>4, <1>5, <1>6 DEF Ready

LEMMA NewItemStep ==
  ASSUME IInv, NEW r \in Requests, NEW p \in Payloads, add_item(r, p) \/ update_new(r, p)
  PROVE  IInv'
<1>1. PICK method \in {"POST", "PUT"} :
        req' = [req EXCEPT ![r] = Choose(Arrived(r, method, p))]
  BY DEF add_item, update_new, Arrived
<1> DEFINE q == Arrived(r, method, p)
<1>2. Received(r, p) /\ UNCHANGED <<upstream, cache>> /\ p \in Payload
  BY PayloadsAssumption DEF add_item, update_new, Received
<1>3. Ready(ever, q)
  BY <1>2, ArrivingThread
<1>4. \A i \in Instances : always[Folders(i)] \subseteq Paths
  BY TheKeys DEF IInv, Lists
<1>5. Thread(always, ever, items, r, Choose(q))
  BY <1>3, <1>4, ChooseThread
<1> QED
  BY <1>1, <1>2, <1>5, StepWithin

LEMMA UpdateItemStep ==
  ASSUME IInv, NEW r \in Requests, NEW b \in Payloads, NEW id \in Stored,
         update_item(r, b, id)
  PROVE  IInv'
<1> DEFINE p == [b EXCEPT !.ids["id"] = id]
           q == Arrived(r, "PUT", p)
           s == Routed(q, Owner(id), "id")
<1>1. req' = [req EXCEPT ![r] = s]
  BY DEF update_item, Owner, Arrived
<1>2. Received(r, b) /\ UNCHANGED <<upstream, cache>> /\ b \in Payload
  BY PayloadsAssumption DEF update_item, Received
<1>3. id \in Int /\ id \notin NonIds
  <2>1. PICK t \in Requests : id = req[t].answer /\ id \notin NonIds
    BY DEF Stored
  <2>2. req[t].answer \in Scalar
    BY DEF IInv, Threads, Thread, Shape
  <2> QED
    BY <2>1, <2>2 DEF Scalar
<1>4. p \in Payload /\ p.tags = b.tags /\ p.ids["id"] = id
  BY <1>2, <1>3 DEF Payload, AddIdHints, ItemIdFields
<1> HIDE DEF p
<1>5. Ready(ever, q)
  BY <1>2, <1>4, ArrivingThread
<1>6. q.method = "PUT" /\ q.payload = p
  BY DEF Arrived, IInv, Threads, Thread, Shape, Fields
<1> HIDE DEF q
<1>7. s.method = "PUT" /\ s.payload = p /\ s.target = Owner(id) /\ s.reason = "id"
  BY <1>5, <1>6, RoutedFields DEF Ready, Shape
<1>8. Picked(always, ever, s)
  BY <1>3, <1>4, <1>7 DEF Picked
<1>9. Thread(always, ever, items, r, s)
  BY <1>5, <1>8, OwnerIsInstance, RoutedThread
<1> QED
  BY <1>1, <1>2, <1>9, StepWithin

-----------------------------------------------------------------------------
(* The instances' own UIs, and a restart of the proxy.                      *)

LEMMA UiStep ==
  ASSUME IInv,
         \/ \E i \in Instances : \E path \in Paths : UiAddFolder(i, path)
         \/ \E i \in Instances : \E label \in Labels : UiAddTag(i, label)
         \/ \E k \in Keys : \E e \in list[k] : UiRemove(k, e)
  PROVE  IInv'
<1>1. req' = req /\ UNCHANGED <<items, cache>>
  BY DEF UiAddFolder, UiAddTag, UiRemove, UiChange
<1>2. ASSUME NEW i \in Instances, NEW path \in Paths, UiAddFolder(i, path) PROVE IInv'
  BY <1>1, <1>2, TheKeys, GrownLists, StepElsewhere DEF UiAddFolder
<1>3. ASSUME NEW i \in Instances, NEW label \in Labels, UiAddTag(i, label) PROVE IInv'
  BY <1>1, <1>3, NewTagLists, StepElsewhere DEF UiAddTag
<1>4. ASSUME NEW k \in Keys, NEW e, UiRemove(k, e) PROVE IInv'
  <2>1. /\ ever' = ever
        /\ list' = [list EXCEPT ![k] = @ \ {e}] /\ always' = [always EXCEPT ![k] = @ \ {e}]
    BY <1>4 DEF UiRemove
  <2>2. DOMAIN list = Keys /\ DOMAIN always = Keys
    BY DEF IInv, Lists
  <2>3. DOMAIN list' = Keys /\ DOMAIN always' = Keys
    BY <2>1, <2>2
  <2>4. \A j \in Keys : \/ list'[j] = list[j] /\ always'[j] = always[j]
                        \/ list'[j] = list[j] \ {e} /\ always'[j] = always[j] \ {e}
    BY <2>1, <2>2
  <2>5. \A j \in Keys : always[j] \subseteq list[j] /\ list[j] \subseteq ever[j]
    BY DEF IInv, Lists
  <2>6. \A j \in Keys : /\ always'[j] \subseteq list'[j] /\ list'[j] \subseteq ever'[j]
                        /\ always'[j] \subseteq always[j]
    BY <2>1, <2>4, <2>5
  <2>7. Lists' /\ Grows(always, ever, items, always', ever', items')
    BY <1>1, <2>1, <2>3, <2>6 DEF IInv, Lists, Grows
  <2>8. Cached'
    BY <1>1, <2>7, GenuineGrows DEF IInv, Cached
  <2> QED
    BY <1>1, <2>7, <2>8, StepElsewhere
<1> QED
  BY <1>2, <1>3, <1>4

LEMMA RestartStep == ASSUME IInv, Restart PROVE IInv'
<1>1. UNCHANGED upstream /\ cache' = [k \in Keys |-> Nothing]
  BY DEF Restart
<1>2. Lists' /\ Cached'
  BY <1>1, Emptied
<1>3. /\ DOMAIN req' = Requests
      /\ \A r \in Requests : req'[r] = req[r] \/ req'[r] = Ended(req[r], "none")
  BY DEF Restart
<1>4. ASSUME NEW r \in Requests PROVE Thread(always, ever, items, r, req'[r])
  <2>1. Thread(always, ever, items, r, req[r])
    BY DEF IInv, Threads
  <2>2. Thread(always, ever, items, r, Ended(req[r], "none"))
    BY <2>1, EndedThread DEF Outcomes
  <2> QED
    BY <1>3, <2>1, <2>2
<1> QED
  BY <1>1, <1>2, <1>3, <1>4, Still DEF IInv, Threads

-----------------------------------------------------------------------------
(* The specification.                                                       *)

LEMMA InitIInv == Init => IInv
<1> SUFFICES ASSUME Init PROVE IInv
  OBVIOUS
<1>1. PICK folders \in InitialFolders, tags \in InitialTags :
        list = [k \in Keys |-> IF k[1] = "folders" THEN folders[k[2]] ELSE tags[k[2]]]
  BY DEF Init
<1>2. \A i \in Instances : list[Folders(i)] = folders[i] /\ list[Tags(i)] = tags[i]
  BY <1>1, TheKeys DEF Folders, Tags
<1>3. /\ \A i \in Instances : folders[i] \subseteq Paths /\ tags[i] \subseteq Tag
      /\ \A i \in Instances : \A d, e \in tags[i] : d.id = e.id => d = e
  BY InitialAssumption
<1>4. /\ DOMAIN list = Keys /\ always = list /\ ever = list /\ ui = 0
      /\ items = [i \in Instances |-> {}] /\ cache = [k \in Keys |-> Nothing]
  BY <1>1 DEF Init
<1>5. Lists /\ Cached
  BY <1>2, <1>3, <1>4, NothingRead DEF Lists, Cached
<1>6. Absent \in NonIds /\ (CHOOSE l \in Labels : TRUE) \in Labels
  BY NoIdAssumption, LabelsAssumption DEF Absent
<1>7. NoPayload \in Payload /\ ~NoPayload.json /\ In(NoPayload.tags) = {}
  BY <1>6, NothingIn DEF NoPayload, Payload
<1> DEFINE q == [pc |-> "idle", method |-> "POST", payload |-> NoPayload, target |-> English,
             reason |-> "none", animePaths |-> Nothing, reply |-> Nothing, todo |-> <<>>,
             resolved |-> <<>>, label |-> CHOOSE l \in Labels : TRUE,
             outcome |-> "none", answer |-> Absent, fault |-> {}]
<1>8. req = [r \in Requests |-> q]
  BY DEF Init
<1>9. /\ DOMAIN q = Fields /\ q.pc = "idle" /\ q.method = "POST" /\ q.payload = NoPayload
      /\ q.target = English /\ q.reason = "none" /\ q.reply = Nothing /\ q.todo = <<>>
      /\ q.resolved = <<>> /\ q.label \in Labels /\ q.outcome = "none"
      /\ q.answer = Absent /\ q.fault = {}
  BY <1>6 DEF Fields
<1> HIDE DEF q
<1>10. Shape(q) /\ Stage(q)
  BY <1>6, <1>7, <1>9, TheKeys DEF Shape, Stage, Pcs, Outcomes, Scalar
<1>11. ASSUME NEW r \in Requests PROVE Thread(always, ever, items, r, q)
  <2>1. ~Decided(q) /\ ~HasAnimeId(q.payload) /\ Wanted(q) = {} /\ In(q.todo) = {}
    BY <1>7, <1>9, NothingIn DEF Decided, HasAnimeId, Wanted
  <2>2. Reads(always, ever, q) /\ Picked(always, ever, q)
    BY <1>9, <2>1 DEF Reads, Picked, Reading
  <2>3. Tagged(always, ever, q)
    BY <1>9, <2>1, NothingIn DEF Tagged
  <2>4. Told(items, r, q)
    BY <1>6, <1>9 DEF Told
  <2> QED
    BY <1>10, <2>2, <2>3, <2>4 DEF Thread
<1> QED
  BY <1>5, <1>8, <1>11 DEF IInv, Threads

LEMMA HandleStep == ASSUME IInv, NEW r \in Requests, Handle(r) PROVE IInv'
BY AnswerStep, AnimePathsStep, EnglishPathsStep, NextTagStep, TagLabelStep, TagIdForLabelStep,
   PostLabelStep, LabelRejectedStep, PopStep, AddExecutedStep, UpdateExecutedStep, RefusedStep,
   TagCreatedStep, InvalidateStep DEF Handle

LEMMA NextIInv == IInv /\ [Next]_vars => IInv'
<1> SUFFICES ASSUME IInv, [Next]_vars PROVE IInv'
  OBVIOUS
<1>1. ASSUME NEW r \in Requests, NEW p \in Payloads,
             add_item(r, p) \/ update_new(r, p) \/ \E id \in Stored : update_item(r, p, id)
      PROVE  IInv'
  BY <1>1, NewItemStep, UpdateItemStep
<1>2. ASSUME NEW r \in Requests, NEW label \in Labels, create_tag(r, label) PROVE IInv'
  BY <1>2, CreateTagStep
<1>3. ASSUME NEW r \in Requests, Handle(r) PROVE IInv'
  BY <1>3, HandleStep
<1>4. ASSUME NEW i \in Instances,
             \/ \E path \in Paths : UiAddFolder(i, path)
             \/ \E label \in Labels : UiAddTag(i, label)
      PROVE  IInv'
  BY <1>4, UiStep
<1>5. ASSUME NEW k \in Keys, \E e \in list[k] : UiRemove(k, e) PROVE IInv'
  BY <1>5, UiStep
<1>6. CASE Restart
  BY <1>6, RestartStep
<1>7. CASE UNCHANGED vars
  <2>1. UNCHANGED upstream /\ cache' = cache /\ req' = req
    BY <1>7 DEF vars
  <2>2. Lists' /\ Cached'
    BY <2>1 DEF IInv, Lists, Cached, upstream
  <2> QED
    BY <2>1, <2>2, Still, StepElsewhere
<1> QED
  BY <1>1, <1>2, <1>3, <1>4, <1>5, <1>6, <1>7 DEF Next

LEMMA AlwaysIInv == Spec => []IInv
BY InitIInv, NextIInv, PTL DEF Spec

LEMMA SentIsDecided ==
  ASSUME IInv, NEW r \in Requests, Sent(r)
  PROVE  /\ Thread(always, ever, items, r, req[r]) /\ Decided(req[r]) /\ req[r].todo = <<>>
BY DEF IInv, Threads, Thread, Stage, Sent, Forwarding, Decided

\* Every value is of its type, and the histories bound the lists.
THEOREM TypeCorrect == Spec => []TypeOK
<1>1. IInv => TypeOK
  <2> SUFFICES ASSUME IInv PROVE TypeOK
    OBVIOUS
  <2>1. \A k \in Keys : always[k] \subseteq list[k] /\ list[k] \subseteq ever[k]
    BY DEF IInv, Lists
  <2>2. ASSUME NEW i \in Instances
        PROVE  /\ list[Folders(i)] \subseteq Paths /\ list[Tags(i)] \subseteq Tag
               /\ cache[Folders(i)].elems \subseteq Paths /\ cache[Tags(i)].elems \subseteq Tag
               /\ items[i] \subseteq [id : Ids, by : Requests]
    BY TheKeys, <2>1 DEF IInv, Lists, Cached, Genuine
  <2>3. ASSUME NEW r \in Requests
        PROVE  /\ Shape(req[r])
               /\ \A n \in 1 .. Len(req[r].resolved) : req[r].resolved[n] \in Ids
    BY DEF IInv, Threads, Thread, Shape
  <2> QED
    BY <2>1, <2>2, <2>3 DEF TypeOK, Shape, Pcs, Scalar
<1> QED
  BY <1>1, AlwaysIInv, PTL

\* choose_for_add concludes "only on the X instance" from two lists that were
\* read, or stored when they were read, so X has or had the folder and the other
\* was without it at some time (routing.py:86-108).
THEOREM OnlyThereIsSound == Spec => []OwnershipSound
<1>1. IInv => OwnershipSound
  BY DEF IInv, Threads, Thread, Picked, OwnershipSound
<1> QED
  BY <1>1, AlwaysIInv, PTL

\* What one instance alone always had goes to it, or a list could not be read and
\* the weaker rules pointed elsewhere (routing.py:86-117).
THEOREM OwnerGetsIt == Spec => []OwnedPathRouted
<1>1. IInv => OwnedPathRouted
  <2> SUFFICES ASSUME IInv, NEW r \in Requests, NEW i \in Instances,
                      Sent(r), req[r].payload.json,
                      ~HasAnimeId(req[r].payload), req[r].reason # "id",
                      req[r].payload.path \in always[Folders(i)] \ ever[Folders(Other(i))]
               PROVE  \/ req[r].target = i
                      \/ /\ FoldersUnread(req[r].fault)
                         /\ (i = English) = (req[r].payload.anime \/ req[r].payload.path \in Keyword)
    BY DEF OwnedPathRouted, FoldersUnread
  <2> QED
    BY SentIsDecided DEF Thread, Picked, Owns
<1> QED
  BY <1>1, AlwaysIInv, PTL

\* An ID in a body arrives at the instance that handed it out under the number it
\* has there, but for rootFolderId, for an English ID in a body that something else
\* sends to the anime instance, and for an update's other IDs (app.py:245-287,
\* routing.py:64-117, service.py:69-75).
THEOREM IdsAreMeant == Spec => []IdsKeepTheirMeaning
<1>1. IInv => IdsKeepTheirMeaning
  <2> SUFFICES ASSUME IInv, NEW r \in Requests, Sent(r), req[r].payload.json,
                      NEW f \in AddIdHints, NEW i \in Instances, NEW n \in Ids,
                      req[r].payload.ids[f] = Exposed(i, n)
               PROVE  \/ /\ req[r].target = i
                         /\ Prepared(req[r].payload)[f] =
                              IF f \in ItemIdFields THEN n ELSE Exposed(i, n)
                      \/ i = English /\ req[r].target = Anime /\ PointsToAnime(r, f)
                      \/ req[r].reason = "id" /\ f # "id"
    BY DEF IdsKeepTheirMeaning
  <2> DEFINE q == req[r]
             v == q.payload.ids[f]
  <2>1. Owner(v) = i /\ Native(v) = n /\ v = Exposed(i, n)
    BY LeadsBack
  <2>2. Prepared(q.payload)[f] = IF f \in ItemIdFields THEN n ELSE Exposed(i, n)
    <3>1. f = "id" => f \in ItemIdFields
      BY DEF ItemIdFields
    <3>2. Prepared(q.payload)[f] = IF f \in ItemIdFields THEN Native(v) ELSE v
      BY <3>1, Zenon DEF Prepared, Native
    <3> QED
      BY <2>1, <3>2
  <2>3. Picked(always, ever, q) /\ Decided(q) /\ q.payload \in Payload /\ q.target \in Instances
    BY SentIsDecided DEF Thread, Shape
  <2>4. is_anime_id(v) <=> i = Anime
    BY <2>1 DEF is_anime_id, Owner
  <2>5. HasAnimeId(q.payload) <=> \E g \in AddIdHints : is_anime_id(q.payload.ids[g])
    BY <2>3, HintsAre DEF HintsAnime
  <2>6. q.payload.json
    OBVIOUS
  <2> HIDE DEF q
  <2>7. CASE q.reason = "id"
    <3>1. f = "id" => q.target = i
      BY <2>1, <2>3, <2>7 DEF Picked
    <3> QED
      BY <2>2, <2>7, <3>1 DEF q
  <2>8. CASE q.reason # "id" /\ i = Anime
    <3>1. q.target = i
      BY <2>3, <2>4, <2>5, <2>6, <2>8 DEF Picked
    <3> QED
      BY <2>2, <3>1 DEF q
  <2>9. CASE q.reason # "id" /\ i = English /\ q.target = Anime
    <3>1. Points(ever, q.payload) /\ ~is_anime_id(v)
      BY <2>3, <2>4, <2>6, <2>9, TheKeys DEF Picked
    <3>2. PointsToAnime(r, f)
      BY <2>5, <3>1 DEF Points, PointsToAnime, q
    <3> QED
      BY <2>9, <3>2 DEF q
  <2>10. CASE i = English /\ q.target = English
    BY <2>2, <2>10 DEF q
  <2> QED
    BY <2>3, <2>7, <2>8, <2>9, <2>10, TheKeys
<1> QED
  BY <1>1, AlwaysIInv, PTL

\* An ID that Seerr stored is decoded to the instance and the title it was given
\* for, across restarts and races (namespace.py:5-7).
THEOREM StoredIdHits == Spec => []UpdateHitsItsTitle
<1>1. IInv => UpdateHitsItsTitle
  <2> SUFFICES ASSUME IInv, NEW r \in Requests, NEW q \in Requests,
                      Sent(r), req[r].reason = "id",
                      req[r].payload.ids["id"] = req[q].answer
               PROVE  [id |-> Prepared(req[r].payload).id, by |-> q] \in items[req[r].target]
    BY DEF UpdateHitsItsTitle
  <2> DEFINE id == req[r].payload.ids["id"]
  <2>1. id \notin NonIds /\ req[r].target = Owner(id)
    BY DEF IInv, Threads, Thread, Picked
  <2>2. PICK i \in Instances, n \in Ids :
          id = Exposed(i, n) /\ [id |-> n, by |-> q] \in items[i]
    BY <2>1 DEF IInv, Threads, Thread, Told
  <2>3. Owner(id) = i /\ Native(id) = n
    BY <2>2, LeadsBack
  <2>4. Prepared(req[r].payload).id = Native(id)
    BY DEF Prepared, Native, AddIdHints, ItemIdFields
  <2> QED
    BY <2>1, <2>2, <2>3, <2>4
<1> QED
  BY <1>1, AlwaysIInv, PTL

\* A tag ID that translate_tags passes on names, on the target, a label that one of
\* the request's tags has or had (routing.py:127-192).
THEOREM TagsAreAskedFor == Spec => []NoForeignTag
<1>1. IInv => NoForeignTag
  <2> SUFFICES ASSUME IInv, NEW r \in Requests, NEW n \in Resolved(r)
               PROVE  \E e \in ever[Tags(req[r].target)] :
                        /\ e.id = n
                        /\ \E tag \in Requested(r) \ NonIds :
                             \E d \in ever[Tags(decode_id(tag).owner)] :
                               d.id = decode_id(tag).id /\ d.label = e.label
    BY DEF NoForeignTag
  <2>1. Tagged(always, ever, req[r])
    BY DEF IInv, Threads, Thread
  <2>2. n \in In(req[r].resolved) /\ Requested(r) = Wanted(req[r])
    BY DEF Resolved, Requested, In, Wanted
  <2> QED
    BY <2>1, <2>2 DEF Tagged, Labelled, Owner, Native
<1> QED
  BY <1>1, AlwaysIInv, PTL

\* A tag that was there from the start is forwarded by its label, or it is the other
\* instance's and its own list could not be read or its label was refused; the
\* other tags have no part in it (routing.py:127-192).
THEOREM TagsAreKept == Spec => []OldTagsKept
<1>1. IInv => OldTagsKept
  <2> SUFFICES ASSUME IInv, NEW r \in Requests, Sent(r),
                      NEW i \in Instances, NEW d \in Asked(r, Tags(i)), d \in always[Tags(i)]
               PROVE  \/ Carries(r, d)
                      \/ /\ i # req[r].target
                         /\ Tags(i) \in req[r].fault \/ Refused(d.label) \in req[r].fault
    BY DEF OldTagsKept
  <2>1. /\ Tagged(always, ever, req[r]) /\ Decided(req[r]) /\ In(req[r].todo) = {}
    BY SentIsDecided, NothingIn DEF Thread
  <2>2. PICK tag \in Requested(r) \ NonIds : Tags(Owner(tag)) = Tags(i) /\ Native(tag) = d.id
    BY DEF Asked, Owner, Native
  <2>3. tag \in Wanted(req[r]) \ NonIds /\ Owner(tag) = i
    BY <2>2, OwnerIsInstance, TheKeys DEF Requested, Wanted, In
  <2>4. Forwarded(ever, req[r], d.label) \/ Excused(req[r], tag, d.label)
    BY <2>1, <2>2, <2>3 DEF Tagged
  <2> QED
    BY <2>2, <2>3, <2>4 DEF Forwarded, Excused, Carries, Resolved, In
<1> QED
  BY <1>1, AlwaysIInv, PTL

-----------------------------------------------------------------------------
(* The two instances are one library.  A thread goes on towards its one     *)
(* effect, and until then it has none.                                      *)

Settled(it, r, q) ==
  /\ q.pc # "done" => \A i \in Instances : \A x \in it[i] : x.by # r
  /\ q.reason = "id" =>
       /\ q.method = "PUT"
       /\ \E i \in Instances, n \in Ids : q.payload.ids["id"] = Exposed(i, n)
  /\ q.method = "PUT" /\ q.reason # "id" => q.payload.ids["id"] \in NonIds
  /\ q.pc \in Translating => q.reason # "none"
  /\ q.answer \notin NonIds => q.pc = "done" /\ q.outcome = "accepted"

LInv == IInv /\ \A r \in Requests : Settled(items, r, req[r])

\* Thread p is q a step further, or cut off, without effect.
GoesOn(q, p) ==
  /\ q.pc \notin {"idle", "done"} /\ p.pc # "idle"
  /\ p.method = q.method /\ p.payload = q.payload /\ p.answer = q.answer
  /\ p.outcome \notin {"accepted", "lost"}
  /\ \/ p.reason = q.reason
     \/ q.reason = "none" /\ q.payload.json /\ p.reason \notin {"none", "id"}
  /\ p.pc \in Translating => p.reason # "none"
  /\ IsForTag(q) => p.label = q.label

LEMMA GoesOnWish ==
  ASSUME NEW q, NEW p, GoesOn(q, p)
  PROVE  /\ Wish(p) = Wish(q) /\ Phase(q) = "asked"
         /\ Phase(p) = IF p.pc = "done" THEN "ended" ELSE "asked"
<1>1. q.pc # "idle" /\ p.pc # "idle" /\ q.pc # "done"
  BY DEF GoesOn
<1>2. p.payload = q.payload /\ p.method = q.method
  BY DEF GoesOn
<1>3. (IsForTag(p) <=> IsForTag(q)) /\ (p.reason = "id" <=> q.reason = "id")
  BY DEF GoesOn, IsForTag
<1>4. IsForTag(q) => p.label = q.label
  BY DEF GoesOn
<1>5. Wish(p) = Wish(q)
  BY <1>1, <1>2, <1>3, <1>4 DEF Wish
<1> QED
  BY <1>1, <1>5 DEF Phase

LEMMA GoesOnSettled ==
  ASSUME NEW it, NEW r, NEW q, NEW p, Settled(it, r, q), GoesOn(q, p)
  PROVE  Settled(it, r, p)
BY DEF Settled, GoesOn

\* A thread that is not executed has no effect.
LEMMA Without ==
  ASSUME IInv, NEW r \in Requests, req[r].pc # "done"
  PROVE  Effect(r) = [touched |-> {}, tags |-> {}, ok |-> FALSE, answer |-> {}]
<1>1. req[r].outcome = "none"
  BY DEF IInv, Threads, Thread, Stage
<1> QED
  BY <1>1 DEF Effect

\* The effects of threads that do not move, by titles that are not new or not theirs.
LEMMA SameEffect ==
  ASSUME NEW r \in Requests, req'[r] = req[r],
         \A i \in Instances : \A x : x.by = r => (x \in items'[i] <=> x \in items[i])
  PROVE  Effect(r)' = Effect(r)
<1>1. \A i \in Instances : {y \in items'[i] : y.by = r} = {y \in items[i] : y.by = r}
  OBVIOUS
<1>2. Touched(r)' = Touched(r)
  <2>1. \A i \in Instances : {Exposed(i, x.id) : x \in {y \in items'[i] : y.by = r}}
                           = {Exposed(i, x.id) : x \in {y \in items[i] : y.by = r}}
    BY <1>1
  <2>2. UNION {{Exposed(i, x.id) : x \in {y \in items'[i] : y.by = r}} : i \in Instances}
      = UNION {{Exposed(i, x.id) : x \in {y \in items[i] : y.by = r}} : i \in Instances}
    BY <2>1
  <2> QED
    BY <2>2 DEF Touched
<1>3. Resolved(r)' = Resolved(r)
  BY DEF Resolved
<1> QED
  BY <1>2, <1>3 DEF Effect

LEMMA MovesOn ==
  ASSUME LInv, NEW r \in Requests, NEW p, GoesOn(req[r], p), req' = [req EXCEPT ![r] = p],
         items' = items
  PROVE  /\ StageInOne[r] = "asked"
         /\ StageInOne' = [StageInOne EXCEPT ![r] = "ended"] \/ StageInOne' = StageInOne
         /\ UNCHANGED <<TitlesInOne, AskedInOne, DidInOne>>
         /\ \A s \in Requests : Settled(items', s, req'[s])
<1>1. /\ Wish(p) = Wish(req[r]) /\ Phase(req[r]) = "asked"
      /\ Phase(p) = IF p.pc = "done" THEN "ended" ELSE "asked"
  BY GoesOnWish
<1>2. req'[r] = p /\ \A s \in Requests \ {r} : req'[s] = req[s]
  BY DEF LInv, IInv, Threads
<1>3. \A s \in Requests : Phase(req'[s]) = IF s = r THEN Phase(p) ELSE Phase(req[s])
  BY <1>2
<1>4. StageInOne[r] = "asked"
  BY <1>1 DEF StageInOne
<1>5. StageInOne' = [StageInOne EXCEPT ![r] = Phase(p)]
  BY <1>3 DEF StageInOne
<1>6. StageInOne' = [StageInOne EXCEPT ![r] = "ended"] \/ StageInOne' = StageInOne
  <2>1. ASSUME Phase(p) = "asked" PROVE StageInOne' = StageInOne
    BY <1>1, <1>3, <2>1 DEF StageInOne
  <2> QED
    BY <1>1, <1>5, <2>1
<1>7. AskedInOne' = AskedInOne
  <2>1. \A s \in Requests : Wish(req'[s]) = Wish(req[s])
    BY <1>1, <1>2
  <2> QED
    BY <2>1 DEF AskedInOne
<1>8. DidInOne' = DidInOne
  <2>1. req[r].pc # "done" /\ p.outcome \notin {"accepted", "lost"}
    BY DEF GoesOn
  <2>2. Effect(r)' = Effect(r)
    <3>1. Effect(r)' = [touched |-> {}, tags |-> {}, ok |-> FALSE, answer |-> {}]
      BY <1>2, <2>1 DEF Effect
    <3> QED
      BY <2>1, <3>1, Without DEF LInv
  <2>3. \A s \in Requests \ {r} : Effect(s)' = Effect(s)
    BY <1>2, SameEffect
  <2> QED
    BY <2>2, <2>3 DEF DidInOne
<1>9. ASSUME NEW s \in Requests PROVE Settled(items', s, req'[s])
  <2>1. Settled(items, s, req[s])
    BY DEF LInv
  <2> QED
    BY <1>2, <2>1, GoesOnSettled
<1> QED
  BY <1>4, <1>6, <1>7, <1>8, <1>9 DEF TitlesInOne

-----------------------------------------------------------------------------
(* Tags.                                                                    *)

LEMMA OffsetIsNoId == Native(Offset) \notin Ids
<1>1. decode_id(Offset) = [owner |-> Anime, id |-> Offset - Offset]
  BY OffsetAssumption, DecodedAnime
<1> QED
  BY <1>1, OffsetAssumption, MaxIdAssumption DEF Native, Ids

\* A tag that a thread wants is one of the library.
LEMMA TagInOne ==
  ASSUME IInv, NEW tag \in Scalar \ NonIds, NEW label, Labelled(ever, tag, label)
  PROVE  \E t \in TagsInOne : t.id = tag /\ t.label = label
<1>1. PICK d \in ever[Tags(Owner(tag))] : d.id = Native(tag) /\ d.label = label
  BY DEF Labelled
<1>2. Owner(tag) \in Instances
  BY OwnerIsInstance
<1>3. d.id \in Ids
  BY <1>1, <1>2 DEF IInv, Lists, Tag
<1>4. tag \in Int /\ tag # Offset
  BY <1>1, <1>3, OffsetIsNoId DEF Scalar
<1>5. Exposed(Owner(tag), Native(tag)) = tag
  BY <1>4, DecodedIsExposed DEF Owner, Native
<1>6. InOne(Owner(tag), d) \in TagsInOne
  BY <1>1, <1>2 DEF TagsInOne
<1> QED
  BY <1>1, <1>5, <1>6 DEF InOne

LEMMA WantedInOne ==
  ASSUME IInv, NEW r \in Requests, req[r].pc # "idle"
  PROVE  /\ AskedInOne[r].tags = Wanted(req[r]) \ NonIds
         /\ AskedInOne[r].tags \subseteq Scalar \ NonIds
<1>1. AskedInOne[r].tags = Wanted(req[r]) \ NonIds
  BY DEF AskedInOne, Wish, Wanted, In
<1>2. req[r].payload.tags \in Seq(Scalar)
  BY DEF IInv, Threads, Thread, Shape, Payload, Scalar
<1>3. Wanted(req[r]) \subseteq Scalar
  BY <1>2 DEF Wanted, In
<1> QED
  BY <1>1, <1>3

\* The label of a tag that r has is one r asked for.
LEMMA LabelIsWanted ==
  ASSUME IInv, NEW r \in Requests, req[r].pc # "idle",
         NEW tag \in Wanted(req[r]) \ NonIds, NEW label, Labelled(ever, tag, label)
  PROVE  label \in Library!Wanted(r)
<1>1. tag \in AskedInOne[r].tags /\ tag \in Scalar \ NonIds
  BY WantedInOne
<1>2. PICK t \in TagsInOne : t.id = tag /\ t.label = label
  BY <1>1, TagInOne
<1> QED
  BY <1>1, <1>2 DEF Library!Wanted

LEMMA NewTagInOne ==
  ASSUME IInv, NEW i \in Instances, NEW label \in Labels, NEW e \in NewTags(i, label),
         Grown(Tags(i), e)
  PROVE  /\ TagsInOne' = TagsInOne \cup {InOne(i, e)}
         /\ InOne(i, e).id \notin Library!TagIds
         /\ InOne(i, e) \in TagsInOne' \ TagsInOne
         /\ InOne(i, e).label = label
<1>1. PICK n \in NextId({d.id : d \in ever[Tags(i)]}) : e = [id |-> n, label |-> label]
  BY DEF NewTags
<1>2. e.id \in Ids /\ e.label = label /\ \A d \in ever[Tags(i)] : d.id # e.id
  BY <1>1 DEF NextId
<1>3. \A j \in Instances : ever[Tags(j)] \subseteq Tag
  BY DEF IInv, Lists
<1>4. \A j \in Instances : \A d \in ever[Tags(j)] : Exposed(j, d.id) # Exposed(i, e.id)
  <2> TAKE j \in Instances
  <2> TAKE d \in ever[Tags(j)]
  <2>1. d.id \in Ids
    BY <1>3 DEF Tag
  <2>2. Owner(Exposed(j, d.id)) = j /\ Native(Exposed(j, d.id)) = d.id
    BY <2>1, LeadsBack
  <2>3. Owner(Exposed(i, e.id)) = i /\ Native(Exposed(i, e.id)) = e.id
    BY <1>2, LeadsBack
  <2> QED
    BY <1>2, <2>2, <2>3
<1>5. InOne(i, e).id \notin Library!TagIds
  <2>1. \A t \in TagsInOne : t.id # Exposed(i, e.id)
    BY <1>4 DEF TagsInOne, InOne
  <2> QED
    BY <2>1 DEF Library!TagIds, InOne
<1>6. /\ ever'[Tags(i)] = ever[Tags(i)] \cup {e}
      /\ \A j \in Instances : j # i => ever'[Tags(j)] = ever[Tags(j)]
  BY TheKeys DEF Grown, IInv, Lists
<1>7. TagsInOne' = TagsInOne \cup {InOne(i, e)}
  <2>1. \A t : t \in TagsInOne' <=> \E j \in Instances : \E d \in ever'[Tags(j)] : t = InOne(j, d)
    BY DEF TagsInOne
  <2>2. \A t : t \in TagsInOne <=> \E j \in Instances : \E d \in ever[Tags(j)] : t = InOne(j, d)
    BY DEF TagsInOne
  <2> QED
    BY <1>6, <2>1, <2>2
<1>8. InOne(i, e) \notin TagsInOne
  BY <1>5 DEF Library!TagIds
<1> QED
  BY <1>2, <1>5, <1>7, <1>8 DEF InOne

\* What tags the library has depends on the tags alone.
LEMMA SameTags ==
  ASSUME \A i \in Instances : ever'[Tags(i)] = ever[Tags(i)]
  PROVE  TagsInOne' = TagsInOne
<1>1. \A i \in Instances : {InOne(i, e) : e \in ever'[Tags(i)]} = {InOne(i, e) : e \in ever[Tags(i)]}
  OBVIOUS
<1>2. UNION {{InOne(i, e) : e \in ever'[Tags(i)]} : i \in Instances}
    = UNION {{InOne(i, e) : e \in ever[Tags(i)]} : i \in Instances}
  BY <1>1
<1> QED
  BY <1>2 DEF TagsInOne

-----------------------------------------------------------------------------
(* Steps of a handler without effect on titles.                             *)

SettledNext == \A s \in Requests : Settled(items', s, req'[s])

LEMMA QuietStep ==
  ASSUME LInv, NEW r \in Requests, NEW p, GoesOn(req[r], p), req' = [req EXCEPT ![r] = p],
         UNCHANGED upstream
  PROVE  (Library!Next \/ UNCHANGED Library!vars) /\ SettledNext
<1>1. items' = items /\ ever' = ever
  BY DEF upstream
<1>2. /\ StageInOne[r] = "asked"
      /\ StageInOne' = [StageInOne EXCEPT ![r] = "ended"] \/ StageInOne' = StageInOne
      /\ UNCHANGED <<TitlesInOne, AskedInOne, DidInOne>>
      /\ \A s \in Requests : Settled(items', s, req'[s])
  BY <1>1, MovesOn
<1>3. TagsInOne' = TagsInOne
  BY <1>1, SameTags
<1>4. CASE StageInOne' = [StageInOne EXCEPT ![r] = "ended"]
  <2>1. Library!Fail(r)
    BY <1>2, <1>3, <1>4 DEF Library!Fail, Library!Ends
  <2> QED
    BY <1>2, <2>1 DEF Library!Next, SettledNext
<1>5. CASE StageInOne' = StageInOne
  BY <1>2, <1>3, <1>5 DEF Library!vars, SettledNext
<1> QED
  BY <1>2, <1>4, <1>5

\* A tag is made, or found, for the label that r is at.
LEMMA PostStep ==
  ASSUME LInv, NEW r \in Requests, NEW p, GoesOn(req[r], p), req' = [req EXCEPT ![r] = p],
         items' = items, NEW i \in Instances, NEW e, NEW label \in Labels,
         PostTag(i, label, e), label \in Library!Wanted(r)
  PROVE  (Library!Next \/ UNCHANGED Library!vars) /\ SettledNext
<1>1. /\ StageInOne[r] = "asked"
      /\ StageInOne' = [StageInOne EXCEPT ![r] = "ended"] \/ StageInOne' = StageInOne
      /\ UNCHANGED <<TitlesInOne, AskedInOne, DidInOne>>
      /\ \A s \in Requests : Settled(items', s, req'[s])
  BY MovesOn
<1>2. CASE ever' = ever
  <2>1. TagsInOne' = TagsInOne
    BY <1>2, SameTags
  <2>2. CASE StageInOne' = [StageInOne EXCEPT ![r] = "ended"]
    <3>1. Library!Fail(r)
      BY <1>1, <2>1, <2>2 DEF Library!Fail, Library!Ends
    <3> QED
      BY <1>1, <3>1 DEF Library!Next, SettledNext
  <2>3. CASE StageInOne' = StageInOne
    BY <1>1, <2>1, <2>3 DEF Library!vars, SettledNext
  <2> QED
    BY <1>1, <2>2, <2>3
<1>3. CASE e \in NewTags(i, label) /\ Grown(Tags(i), e)
  <2> DEFINE t == InOne(i, e)
  <2>1. /\ TagsInOne' = TagsInOne \cup {t} /\ t.id \notin Library!TagIds
        /\ t \in TagsInOne' \ TagsInOne /\ t.label = label
    BY <1>3, NewTagInOne DEF LInv
  <2> HIDE DEF t
  <2>2. Library!NewTag(t)
    BY <1>1, <2>1 DEF Library!NewTag
  <2>3. Library!MakeTag(r, t)
    BY <1>1, <2>1, <2>2 DEF Library!MakeTag, Library!Ends
  <2> QED
    BY <1>1, <2>1, <2>3 DEF Library!Next, SettledNext
<1> QED
  BY <1>2, <1>3 DEF PostTag

-----------------------------------------------------------------------------
(* Each handler step but the execution of a request.                        *)

LEMMA HandlerFacts ==
  ASSUME LInv, NEW r \in Requests
  PROVE  /\ Shape(req[r]) /\ Stage(req[r]) /\ DOMAIN req[r] = Fields
         /\ Tagged(always, ever, req[r])
         /\ Settled(items, r, req[r])
         /\ req[r].pc \in Translating => ~IsForTag(req[r])
         /\ req[r].pc # "done" => req[r].outcome = "none"
<1>1. Thread(always, ever, items, r, req[r]) /\ Settled(items, r, req[r])
  BY DEF LInv, IInv, Threads
<1>2. Shape(req[r]) /\ Stage(req[r]) /\ Tagged(always, ever, req[r])
  BY <1>1 DEF Thread
<1>3. req[r].pc \in Translating => ~IsForTag(req[r])
  BY <1>1 DEF Settled, IsForTag
<1> QED
  BY <1>1, <1>2, <1>3 DEF Shape, Stage

LEMMA FollowsGoesOn ==
  ASSUME LInv, NEW r \in Requests, req[r].pc \in Translating, NEW p, Follows(p, req[r])
  PROVE  GoesOn(req[r], p)
<1>1. req[r].outcome = "none" /\ ~IsForTag(req[r]) /\ req[r].reason # "none"
  BY HandlerFacts DEF Settled, Translating
<1> QED
  BY <1>1 DEF GoesOn, Follows, Translating

LEMMA EndedGoesOn ==
  ASSUME LInv, NEW r \in Requests, req[r].pc \notin {"idle", "done"},
         NEW outcome, outcome \notin {"accepted", "lost"}
  PROVE  GoesOn(req[r], Ended(req[r], outcome))
<1> DEFINE p == Ended(req[r], outcome)
<1>1. /\ p.pc = "done" /\ p.outcome = outcome /\ p.reason = req[r].reason
      /\ p.method = req[r].method /\ p.payload = req[r].payload /\ p.label = req[r].label
      /\ p.answer = req[r].answer
  BY HandlerFacts, EndedFields
<1> HIDE DEF p
<1>2. GoesOn(req[r], p)
  BY <1>1 DEF GoesOn, Translating
<1> QED
  BY <1>2 DEF p

LEMMA AnswerGoes ==
  ASSUME LInv, NEW r \in Requests, Answer(r)
  PROVE  (Library!Next \/ UNCHANGED Library!vars) /\ SettledNext
<1> DEFINE q == req[r]
           p == [q EXCEPT !.reply = ListOf(list[KeyOf(q)])]
<1>1. q.pc \in Reading /\ UNCHANGED upstream /\ req' = [req EXCEPT ![r] = p]
  BY DEF Answer
<1>2. DOMAIN q = Fields /\ q.outcome = "none" /\ Settled(items, r, q)
  BY <1>1, HandlerFacts DEF Reading
<1>3. /\ p.pc = q.pc /\ p.outcome = q.outcome /\ p.reason = q.reason
      /\ p.method = q.method /\ p.payload = q.payload /\ p.label = q.label
      /\ p.answer = q.answer
  BY <1>2 DEF Fields
<1> HIDE DEF p
<1>4. GoesOn(q, p)
  BY <1>1, <1>2, <1>3 DEF GoesOn, Settled, Reading
<1> QED
  BY <1>1, <1>4, QuietStep

LEMMA AnimePathsGoes ==
  ASSUME LInv, NEW r \in Requests, AnimePaths(r)
  PROVE  (Library!Next \/ UNCHANGED Library!vars) /\ SettledNext
<1> DEFINE q == req[r]
<1>1. q.pc = "animePaths" /\ UNCHANGED upstream
  BY DEF AnimePaths
<1>2. PICK v : req' = [req EXCEPT ![r] =
                  [Got(r, v) EXCEPT !.pc = "englishPaths", !.animePaths = v]]
  BY DEF AnimePaths
<1>3. DOMAIN q = Fields /\ q.outcome = "none"
  BY <1>1, HandlerFacts
<1> DEFINE p == [Got(r, v) EXCEPT !.pc = "englishPaths", !.animePaths = v]
<1>4. /\ p.pc = "englishPaths" /\ p.outcome = q.outcome /\ p.reason = q.reason
      /\ p.method = q.method /\ p.payload = q.payload /\ p.label = q.label
      /\ p.answer = q.answer
  BY ONLY <1>3 DEF Got, Fields
<1> HIDE DEF p
<1>5. GoesOn(q, p)
  BY <1>1, <1>3, <1>4 DEF GoesOn, Translating
<1>6. req' = [req EXCEPT ![r] = p]
  BY <1>2 DEF p
<1> QED
  BY <1>1, <1>5, <1>6, QuietStep

\* A rule that picks an instance leaves its reason.
LEMMA FallbackRoutes ==
  ASSUME NEW q
  PROVE  \E key, reason : reason \notin {"none", "id"} /\ Fallback(q) = Routed(q, key, reason)
<1>1. \/ Fallback(q) = Routed(q, Anime, "type")
      \/ Fallback(q) = Routed(q, Anime, "keyword")
      \/ Fallback(q) = Routed(q, English, "default")
  BY Zenon DEF Fallback
<1>2. "type" \notin {"none", "id"} /\ "keyword" \notin {"none", "id"}
      /\ "default" \notin {"none", "id"}
  OBVIOUS
<1> QED
  BY <1>1, <1>2, Zenon

LEMMA RulesRoute ==
  ASSUME NEW q, NEW v
  PROVE  \E key, reason : reason \notin {"none", "id"} /\ ByOwner(q, v) = Routed(q, key, reason)
<1>1. \/ ByOwner(q, v) = Fallback(q)
      \/ \E key : ByOwner(q, v) = Routed(q, key, "owned")
  BY Zenon DEF ByOwner
<1>2. "owned" \notin {"none", "id"}
  OBVIOUS
<1> QED
  BY <1>1, <1>2, FallbackRoutes, Zenon

LEMMA EnglishPathsGoes ==
  ASSUME LInv, NEW r \in Requests, EnglishPaths(r)
  PROVE  (Library!Next \/ UNCHANGED Library!vars) /\ SettledNext
<1> DEFINE q == req[r]
<1>1. q.pc = "englishPaths" /\ UNCHANGED upstream
  BY DEF EnglishPaths
<1>2. PICK v : req' = [req EXCEPT ![r] = ByOwner(Got(r, v), v)]
  BY DEF EnglishPaths
<1>3. /\ DOMAIN q = Fields /\ q.outcome = "none" /\ q.reason = "none" /\ q.payload.json
      /\ Shape(q)
  BY <1>1, HandlerFacts DEF Stage
<1> DEFINE g == Got(r, v)
           p == ByOwner(g, v)
<1>4. /\ DOMAIN g = Fields /\ g.outcome = q.outcome /\ g.reason = q.reason
      /\ g.method = q.method /\ g.payload = q.payload /\ g.answer = q.answer
  BY ONLY <1>1, <1>3, GotOn DEF Reading
<1> HIDE DEF g
<1>5. \E key, reason : reason \notin {"none", "id"} /\ p = Routed(g, key, reason)
  BY RulesRoute
<1>6. /\ p.pc = "tags" /\ p.reason \notin {"none", "id"} /\ p.outcome = q.outcome
      /\ p.method = q.method /\ p.payload = q.payload /\ p.answer = q.answer
  BY <1>4, <1>5, RoutedFields
<1>7. req' = [req EXCEPT ![r] = p]
  BY <1>2 DEF g
<1> HIDE DEF p
<1>8. GoesOn(q, p)
  BY <1>1, <1>3, <1>6 DEF GoesOn, IsForTag
<1> QED
  BY <1>1, <1>7, <1>8, QuietStep

LEMMA NextTagGoes ==
  ASSUME LInv, NEW r \in Requests, next_tag(r)
  PROVE  (Library!Next \/ UNCHANGED Library!vars) /\ SettledNext
<1> DEFINE q == req[r]
<1>1. q.pc = "tags" /\ UNCHANGED upstream
  BY DEF next_tag
<1>2. DOMAIN q = Fields /\ q.reply = Nothing /\ q.pc \in Translating
      /\ q.fault \subseteq Faults
  BY <1>1 DEF LInv, IInv, Threads, Thread, Reads, Reading, Shape, Translating
<1>3. PICK n : \/ req' = [req EXCEPT ![r] = Dropped(q)]
               \/ req' = [req EXCEPT ![r] = Kept(q, n)]
               \/ req' = [req EXCEPT ![r] = [q EXCEPT !.pc = "label"]]
  BY Zenon DEF next_tag, LInv, IInv, Threads
<1>4. Follows(Dropped(q), q) /\ Follows(Kept(q, n), q)
  <2>1. Follows(Dropped(q), q)
    BY ONLY <1>2, DroppedFields DEF Follows, Translating
  <2>2. Follows(Kept(q, n), q)
    BY ONLY <1>2, KeptFields DEF Follows, Translating
  <2> QED
    BY <2>1, <2>2
<1>5. Follows([q EXCEPT !.pc = "label"], q)
  BY ONLY <1>2 DEF Follows, Translating, Fields
<1> HIDE DEF q
<1>6. PICK p : Follows(p, q) /\ req' = [req EXCEPT ![r] = p]
  BY <1>3, <1>4, <1>5
<1>7. GoesOn(req[r], p)
  BY <1>2, <1>6, FollowsGoesOn DEF q
<1> QED
  BY <1>1, <1>6, <1>7, QuietStep

LEMMA TagLabelGoes ==
  ASSUME LInv, NEW r \in Requests, tag_label(r)
  PROVE  (Library!Next \/ UNCHANGED Library!vars) /\ SettledNext
<1>1. req[r].pc = "label" /\ UNCHANGED upstream /\ Shape(req[r])
  BY HandlerFacts DEF tag_label
<1>2. \E v : \/ req' = [req EXCEPT ![r] = Dropped(Got(r, v))]
             \/ \E l : req' = [req EXCEPT ![r] = Looking(r, v, l)]
  BY Zenon DEF tag_label, Looking
<1>3. PICK p : Follows(p, req[r]) /\ req' = [req EXCEPT ![r] = p]
  BY <1>1, <1>2, GotDropped, GotLabel DEF Reading
<1>4. GoesOn(req[r], p)
  BY <1>1, <1>3, FollowsGoesOn DEF Translating
<1> QED
  BY <1>1, <1>3, <1>4, QuietStep

LEMMA TagIdForLabelGoes ==
  ASSUME LInv, NEW r \in Requests, tag_id_for_label(r)
  PROVE  (Library!Next \/ UNCHANGED Library!vars) /\ SettledNext
<1>1. req[r].pc = "labelId" /\ UNCHANGED upstream /\ Shape(req[r])
  BY HandlerFacts DEF tag_id_for_label
<1>2. \E v : \/ req' = [req EXCEPT ![r] = Creating(r, v)]
             \/ \E n : req' = [req EXCEPT ![r] = Kept(Got(r, v), n)]
  BY Zenon DEF tag_id_for_label, Creating
<1>3. PICK p : Follows(p, req[r]) /\ req' = [req EXCEPT ![r] = p]
  BY <1>1, <1>2, GotCreate, GotKept DEF Reading
<1>4. GoesOn(req[r], p)
  BY <1>1, <1>3, FollowsGoesOn DEF Translating
<1> QED
  BY <1>1, <1>3, <1>4, QuietStep

LEMMA PostLabelGoes ==
  ASSUME LInv, NEW r \in Requests, post_label(r)
  PROVE  (Library!Next \/ UNCHANGED Library!vars) /\ SettledNext
<1> DEFINE q == req[r]
<1>1. q.pc = "create" /\ items' = items
  BY DEF post_label
<1>2. PICK e \in Tag :
        /\ PostTag(q.target, q.label, e)
        /\ \/ req' = [req EXCEPT ![r] = [Kept(q, e.id) EXCEPT !.pc = "pop"]]
           \/ req' = [req EXCEPT ![r] = Ended(q, "unreachable")]
  BY Zenon DEF post_label, LInv, IInv, Threads
<1>3. /\ DOMAIN q = Fields /\ Shape(q) /\ q.reply = Nothing /\ q.pc \in Translating
      /\ q.fault \subseteq Faults
  BY <1>1 DEF LInv, IInv, Threads, Thread, Reads, Reading, Shape, Translating
<1>4. GoesOn(q, Ended(q, "unreachable"))
  BY <1>1, EndedGoesOn
<1> DEFINE k == Kept(q, e.id)
           p == [k EXCEPT !.pc = "pop"]
<1>5. /\ DOMAIN k = Fields /\ k.reply = q.reply /\ k.target = q.target /\ k.reason = q.reason
      /\ k.outcome = q.outcome /\ k.method = q.method /\ k.payload = q.payload
      /\ k.answer = q.answer /\ k.fault = q.fault
  BY ONLY <1>3, KeptFields
<1> HIDE DEF k
<1>6. Follows(p, q)
  BY ONLY <1>3, <1>5 DEF Follows, Translating, Fields
<1>7. GoesOn(q, p)
  BY <1>3, <1>6, FollowsGoesOn
<1>8. q.label \in Library!Wanted(r)
  <2>1. Labelled(ever, Head(q.todo), q.label) /\ Head(q.todo) \notin NonIds /\ q.todo # <<>>
    BY <1>1, HandlerFacts DEF Tagged
  <2>2. Head(q.todo) \in Wanted(q)
    BY <1>3, <2>1, Popped, HandlerFacts DEF Tagged, Shape
  <2> QED
    BY <1>1, <2>1, <2>2, LabelIsWanted DEF LInv
<1>9. q.target \in Instances /\ q.label \in Labels
  BY <1>3 DEF Shape
<1>10. \E s : GoesOn(req[r], s) /\ req' = [req EXCEPT ![r] = s]
  BY <1>2, <1>4, <1>7 DEF k
<1> QED
  BY <1>1, <1>2, <1>8, <1>9, <1>10, PostStep

LEMMA LabelRejectedGoes ==
  ASSUME LInv, NEW r \in Requests, label_rejected(r)
  PROVE  (Library!Next \/ UNCHANGED Library!vars) /\ SettledNext
<1> DEFINE q == req[r]
           k == Dropped(q)
           p == [k EXCEPT !.fault = @ \cup {Refused(q.label)}]
<1>1. q.pc = "create" /\ UNCHANGED upstream /\ req' = [req EXCEPT ![r] = p]
  BY DEF label_rejected
<1>2. /\ DOMAIN q = Fields /\ q.reply = Nothing /\ q.pc \in Translating
      /\ q.fault \subseteq Faults /\ q.label \in Labels
  BY <1>1 DEF LInv, IInv, Threads, Thread, Reads, Reading, Shape, Translating
<1>3. /\ DOMAIN k = Fields /\ k.reply = q.reply /\ k.target = q.target /\ k.reason = q.reason
      /\ k.outcome = q.outcome /\ k.method = q.method /\ k.payload = q.payload
      /\ k.answer = q.answer /\ k.fault = q.fault /\ k.pc = "tags"
  BY ONLY <1>2, DroppedFields
<1> HIDE DEF k
<1>4. Follows(p, q)
  BY ONLY <1>2, <1>3 DEF Follows, Translating, Fields, Faults
<1>5. GoesOn(q, p)
  BY <1>2, <1>4, FollowsGoesOn
<1> QED
  BY <1>1, <1>5, QuietStep

LEMMA PopGoes ==
  ASSUME LInv, NEW r \in Requests, pop(r)
  PROVE  (Library!Next \/ UNCHANGED Library!vars) /\ SettledNext
<1> DEFINE q == req[r]
           p == [q EXCEPT !.pc = "tags"]
<1>1. q.pc = "pop" /\ UNCHANGED upstream /\ req' = [req EXCEPT ![r] = p]
  BY DEF pop
<1>2. /\ DOMAIN q = Fields /\ q.reply = Nothing /\ q.pc \in Translating
      /\ q.fault \subseteq Faults /\ q.label \in Labels
  BY <1>1 DEF LInv, IInv, Threads, Thread, Reads, Reading, Shape, Translating
<1>3. Follows(p, q)
  BY ONLY <1>2 DEF Follows, Translating, Fields
<1>4. GoesOn(q, p)
  BY <1>2, <1>3, FollowsGoesOn
<1> QED
  BY <1>1, <1>4, QuietStep

LEMMA EndGoes ==
  ASSUME LInv, NEW r \in Requests,
         rejected(r) \/ unreachable(r) \/ tag_refused(r) \/ invalidate(r)
  PROVE  (Library!Next \/ UNCHANGED Library!vars) /\ SettledNext
<1>1. req[r].pc \notin {"idle", "done"} /\ UNCHANGED upstream
  BY DEF rejected, unreachable, tag_refused, invalidate, Forwarding
<1>2. PICK outcome : /\ outcome \notin {"accepted", "lost"}
                     /\ req' = [req EXCEPT ![r] = Ended(req[r], outcome)]
  BY DEF rejected, unreachable, tag_refused, invalidate
<1> QED
  BY <1>1, <1>2, EndedGoesOn, QuietStep

LEMMA TagCreatedGoes ==
  ASSUME LInv, NEW r \in Requests, tag_created(r)
  PROVE  (Library!Next \/ UNCHANGED Library!vars) /\ SettledNext
<1> DEFINE q == req[r]
           p == [q EXCEPT !.pc = "invalidate"]
<1>1. q.pc = "newTag" /\ items' = items
  BY DEF tag_created
<1>2. PICK e : PostTag(English, q.label, e)
  BY DEF tag_created
<1>3. \/ req' = [req EXCEPT ![r] = Ended(q, "unreachable")]
      \/ req' = [req EXCEPT ![r] = p]
  BY DEF tag_created
<1>4. /\ DOMAIN q = Fields /\ q.label \in Labels /\ q.outcome = "none"
      /\ ~q.payload.json /\ q.reason = "none"
  BY <1>1, HandlerFacts DEF Shape, Stage
<1>5. GoesOn(q, Ended(q, "unreachable"))
  BY <1>1, EndedGoesOn
<1>6. /\ p.pc = "invalidate" /\ p.outcome = q.outcome /\ p.reason = q.reason
      /\ p.method = q.method /\ p.payload = q.payload /\ p.label = q.label
      /\ p.answer = q.answer
  BY <1>4 DEF Fields
<1> HIDE DEF p
<1>7. GoesOn(q, p)
  BY <1>1, <1>4, <1>6 DEF GoesOn, Translating
<1>8. q.label \in Library!Wanted(r)
  BY <1>1, <1>4 DEF Library!Wanted, AskedInOne, Wish, IsForTag
<1>9. \E s : GoesOn(req[r], s) /\ req' = [req EXCEPT ![r] = s]
  BY <1>3, <1>5, <1>7
<1> QED
  BY <1>1, <1>2, <1>4, <1>8, <1>9, TheKeys, PostStep

-----------------------------------------------------------------------------
(* A request is executed.                                                   *)

\* The IDs of resolved tags are those of tags with labels r asked for.
LEMMA ResolvedFit ==
  ASSUME LInv, NEW r \in Requests, req[r].pc # "idle"
  PROVE  {Exposed(req[r].target, n) : n \in Resolved(r)} \subseteq Library!Fitting(r)
<1> SUFFICES ASSUME NEW n \in Resolved(r)
             PROVE  Exposed(req[r].target, n) \in Library!Fitting(r)
  OBVIOUS
<1>1. Tagged(always, ever, req[r]) /\ Shape(req[r])
  BY HandlerFacts
<1>2. n \in In(req[r].resolved)
  BY DEF Resolved, In
<1>3. PICK e \in ever[Tags(req[r].target)] :
        e.id = n /\ \E tag \in Wanted(req[r]) \ NonIds : Labelled(ever, tag, e.label)
  BY <1>1, <1>2 DEF Tagged
<1>4. e.label \in Library!Wanted(r)
  BY <1>3, LabelIsWanted DEF LInv
<1>5. req[r].target \in Instances
  BY <1>1 DEF Shape
<1> DEFINE t == InOne(req[r].target, e)
<1>6. t \in TagsInOne /\ t.id = Exposed(req[r].target, n) /\ t.label = e.label
  BY <1>3, <1>5 DEF TagsInOne, InOne
<1> HIDE DEF t
<1> QED
  BY <1>4, <1>6 DEF Library!Fitting

\* Thread r ends with effect d.
LEMMA DoesInOne ==
  ASSUME LInv, NEW r \in Requests, req[r].pc = "tags",
         NEW p, req' = [req EXCEPT ![r] = p], p.pc = "done",
         p.method = req[r].method, p.payload = req[r].payload, p.reason = req[r].reason,
         p.label = req[r].label, p.target = req[r].target, p.resolved = req[r].resolved,
         p.outcome \in {"accepted", "lost"},
         ever' = ever,
         \A i \in Instances : \A x : x.by # r => (x \in items'[i] <=> x \in items[i]),
         NEW id, Touched(r)' = {id},
         {p.answer} \ NonIds =
           IF p.outcome = "accepted" /\ AskedInOne[r].new THEN {id} ELSE {}
  PROVE  Library!Does(r, id) /\ SettledNext
<1>1. req'[r] = p /\ \A s \in Requests \ {r} : req'[s] = req[s]
  BY DEF LInv, IInv, Threads
<1>2. StageInOne[r] = "asked" /\ StageInOne' = [StageInOne EXCEPT ![r] = "ended"]
  <2>1. \A s \in Requests : Phase(req'[s]) = IF s = r THEN "ended" ELSE Phase(req[s])
    BY <1>1 DEF Phase
  <2>2. Phase(req[r]) = "asked"
    BY DEF Phase
  <2> QED
    BY <2>1, <2>2 DEF StageInOne
<1>3. AskedInOne' = AskedInOne
  <2>1. Wish(p) = Wish(req[r])
    BY DEF Wish, IsForTag
  <2>2. \A s \in Requests : Wish(req'[s]) = Wish(req[s])
    BY <1>1, <2>1
  <2> QED
    BY <2>2 DEF AskedInOne
<1>4. TagsInOne' = TagsInOne
  BY SameTags
<1> DEFINE d == [touched |-> {id}, tags |-> {Exposed(req[r].target, n) : n \in Resolved(r)},
                 ok |-> p.outcome = "accepted", answer |-> {p.answer} \ NonIds]
<1>5. Effect(r)' = d
  <2>1. Resolved(r)' = Resolved(r)
    BY <1>1 DEF Resolved
  <2>2. Effect(r)' = [touched |-> Touched(r)', tags |-> {Exposed(req'[r].target, n) : n \in Resolved(r)'},
                      ok |-> req'[r].outcome = "accepted", answer |-> {req'[r].answer} \ NonIds]
    BY <1>1 DEF Effect
  <2> QED
    BY <1>1, <2>1, <2>2
<1>6. \A s \in Requests \ {r} : Effect(s)' = Effect(s)
  <2> TAKE s \in Requests \ {r}
  <2>1. \A i \in Instances : \A x : x.by = s => (x \in items'[i] <=> x \in items[i])
    OBVIOUS
  <2> QED
    BY <1>1, <2>1, SameEffect
<1>7. DidInOne' = [DidInOne EXCEPT ![r] = d] /\ DidInOne'[r] = d
  BY <1>5, <1>6, Zenon DEF DidInOne
<1>8. d.tags \subseteq Library!Fitting(r)
  BY ResolvedFit
<1>9. /\ d.touched = {id} /\ d.ok \in BOOLEAN
      /\ d.answer = IF d.ok /\ AskedInOne[r].new THEN {id} ELSE {}
  OBVIOUS
<1> HIDE DEF d
<1>10. Library!Does(r, id)
  BY <1>2, <1>3, <1>4, <1>7, <1>8, <1>9 DEF Library!Does, Library!Ends
<1>11. SettledNext
  <2> SUFFICES ASSUME NEW s \in Requests PROVE Settled(items', s, req'[s])
    BY DEF SettledNext
  <2>1. Settled(items, s, req[s])
    BY HandlerFacts
  <2>2. CASE s = r
    BY <1>1, <2>1, <2>2 DEF Settled, Translating
  <2>3. CASE s # r
    BY <1>1, <2>1, <2>3 DEF Settled
  <2> QED
    BY <2>2, <2>3
<1> QED
  BY <1>10, <1>11

LEMMA AddGoes ==
  ASSUME LInv, NEW r \in Requests, add_executed(r)
  PROVE  Library!Next /\ SettledNext
<1> DEFINE q == req[r]
           i == q.target
<1>1. PICK n \in NextId({x.id : x \in items[i]}) :
        /\ items' = [items EXCEPT ![i] = @ \cup {[id |-> n, by |-> r]}]
        /\ \/ req' = [req EXCEPT ![r] = [Ended(q, "accepted") EXCEPT !.answer = Exposed(i, n)]]
           \/ req' = [req EXCEPT ![r] = Ended(q, "lost")]
  BY Zenon DEF add_executed, Lost
<1>2. q.pc = "tags" /\ q.method = "POST" /\ ever' = ever
  BY DEF add_executed, Forwarding
<1>3. /\ Shape(q) /\ DOMAIN q = Fields /\ ~IsForTag(q) /\ Settled(items, r, q)
      /\ q.answer \in NonIds
  BY <1>2, HandlerFacts DEF Translating, Settled
<1>4. i \in Instances /\ n \in Ids /\ \A x \in items[i] : x.id # n
  BY <1>3 DEF Shape, NextId
<1>5. /\ DOMAIN items = Instances
      /\ \A j \in Instances : \A x \in items[j] : x.id \in Ids /\ x.by # r
  BY <1>2, <1>3 DEF LInv, IInv, Lists, Settled
<1> DEFINE e == Ended(q, "accepted")
           o == Ended(q, "lost")
           p == [e EXCEPT !.answer = Exposed(i, n)]
           id == Exposed(i, n)
           new == [id |-> n, by |-> r]
<1>6. /\ DOMAIN e = Fields /\ e.pc = "done" /\ e.outcome = "accepted"
      /\ e.target = q.target /\ e.reason = q.reason /\ e.method = q.method
      /\ e.payload = q.payload /\ e.resolved = q.resolved /\ e.label = q.label
  BY <1>3, EndedFields
<1>7. /\ o.pc = "done" /\ o.outcome = "lost" /\ o.answer = q.answer
      /\ o.target = q.target /\ o.reason = q.reason /\ o.method = q.method
      /\ o.payload = q.payload /\ o.resolved = q.resolved /\ o.label = q.label
  BY <1>3, EndedFields
<1> HIDE DEF e, o
<1>8. /\ p.pc = "done" /\ p.outcome = "accepted" /\ p.answer = id
      /\ p.target = q.target /\ p.reason = q.reason /\ p.method = q.method
      /\ p.payload = q.payload /\ p.resolved = q.resolved /\ p.label = q.label
  BY <1>6 DEF Fields
<1> HIDE DEF p
<1>9. id \notin NonIds /\ \A j \in Instances : \A x \in items[j] : Exposed(j, x.id) # id
  <2>1. Owner(id) = i /\ Native(id) = n /\ id \notin NonIds
    BY <1>4, LeadsBack
  <2>2. \A j \in Instances : \A x \in items[j] :
          Owner(Exposed(j, x.id)) = j /\ Native(Exposed(j, x.id)) = x.id
    BY <1>5, LeadsBack
  <2> QED
    BY <1>4, <2>1, <2>2
<1>10. \A j \in Instances : items'[j] = IF j = i THEN items[j] \cup {new} ELSE items[j]
  BY <1>1, <1>4, <1>5
<1>11. new.by = r /\ new.id = n
  OBVIOUS
<1> HIDE DEF new, id
<1>12. \A j \in Instances : \A x : x.by # r => (x \in items'[j] <=> x \in items[j])
  BY <1>10, <1>11
<1>13. TitlesInOne' = TitlesInOne \cup {id}
  <2>1. \A v : v \in TitlesInOne' <=> \E j \in Instances : \E x \in items'[j] : v = Exposed(j, x.id)
    BY DEF TitlesInOne
  <2>2. \A v : v \in TitlesInOne <=> \E j \in Instances : \E x \in items[j] : v = Exposed(j, x.id)
    BY DEF TitlesInOne
  <2>3. ASSUME NEW v, v \in TitlesInOne' PROVE v \in TitlesInOne \cup {id}
    <3>1. PICK j, x : j \in Instances /\ x \in items'[j] /\ v = Exposed(j, x.id)
      BY <2>1, <2>3
    <3>2. x \in items[j] \/ (j = i /\ x = new)
      <4>1. items'[j] = IF j = i THEN items[j] \cup {new} ELSE items[j]
        BY <1>10, <3>1
      <4> QED
        BY <3>1, <4>1
    <3> QED
      BY <1>11, <2>2, <3>1, <3>2 DEF id
  <2>4. \A v \in TitlesInOne : v \in TitlesInOne'
    BY <1>10, <2>1, <2>2
  <2>5. id \in TitlesInOne'
    <3>1. new \in items'[i] /\ id = Exposed(i, new.id)
      BY <1>4, <1>10, <1>11 DEF id
    <3> QED
      BY <1>4, <2>1, <3>1
  <2> QED
    BY <2>3, <2>4, <2>5
<1>14. id \notin TitlesInOne
  BY <1>9 DEF TitlesInOne
<1>15. AskedInOne[r].new
  BY <1>2, <1>3 DEF AskedInOne, Wish
<1>16. ASSUME NEW s, s.method = "POST", req' = [req EXCEPT ![r] = s] PROVE Touched(r)' = {id}
  <2>1. req'[r].method = "POST"
    BY <1>16 DEF LInv, IInv, Threads
  <2>2. Touched(r)' =
          UNION {{Exposed(j, x.id) : x \in {y \in items'[j] : y.by = r}} : j \in Instances}
    BY <2>1 DEF Touched
  <2>3. \A j \in Instances : \A y : y \in items'[j] /\ y.by = r <=> j = i /\ y = new
    BY <1>5, <1>10, <1>11
  <2>4. \A v : v \in Touched(r)' <=> v = id
    BY <1>4, <1>11, <2>2, <2>3 DEF id
  <2> QED
    BY <2>4
<1>17. ASSUME req' = [req EXCEPT ![r] = p] PROVE Library!Does(r, id) /\ SettledNext
  <2>1. Touched(r)' = {id}
    BY <1>2, <1>8, <1>16, <1>17
  <2>2. {p.answer} \ NonIds =
          IF p.outcome = "accepted" /\ AskedInOne[r].new THEN {id} ELSE {}
    BY <1>8, <1>9, <1>15
  <2> QED
    BY <1>2, <1>8, <1>12, <1>17, <2>1, <2>2, DoesInOne
<1>18. ASSUME req' = [req EXCEPT ![r] = o] PROVE Library!Does(r, id) /\ SettledNext
  <2>1. Touched(r)' = {id}
    BY <1>2, <1>7, <1>16, <1>18
  <2>2. {o.answer} \ NonIds =
          IF o.outcome = "accepted" /\ AskedInOne[r].new THEN {id} ELSE {}
    BY <1>3, <1>7
  <2> QED
    BY <1>2, <1>7, <1>12, <1>18, <2>1, <2>2, DoesInOne
<1>19. Library!Does(r, id) /\ SettledNext
  BY <1>1, <1>17, <1>18 DEF p, o, e, id
<1>20. Library!AddTitle(r, id)
  BY <1>13, <1>14, <1>15, <1>19 DEF Library!AddTitle
<1> QED
  BY <1>13, <1>14, <1>19, <1>20 DEF Library!Next

LEMMA UpdateGoes ==
  ASSUME LInv, NEW r \in Requests, update_executed(r)
  PROVE  Library!Next /\ SettledNext
<1> DEFINE q == req[r]
           id == q.payload.ids["id"]
<1>1. PICK outcome \in {"accepted", "lost"} : req' = [req EXCEPT ![r] = Ended(q, outcome)]
  BY DEF update_executed, Lost
<1>2. q.pc = "tags" /\ q.method = "PUT" /\ ever' = ever /\ items' = items
  BY DEF update_executed, Forwarding, upstream
<1>3. PICK x \in items[q.target] : x.id = Prepared(q.payload).id
  BY DEF update_executed
<1>4. /\ Shape(q) /\ DOMAIN q = Fields /\ Settled(items, r, q) /\ q.answer \in NonIds
      /\ Picked(always, ever, q)
  BY <1>2, HandlerFacts DEF Settled, LInv, IInv, Threads, Thread
<1>5. q.target \in Instances /\ x.id \in Ids
  BY <1>4 DEF Shape, LInv, IInv, Lists
<1>6. Prepared(q.payload).id = Native(id)
  BY DEF Prepared, Native, AddIdHints, ItemIdFields
<1>7. q.reason = "id"
  <2> SUFFICES ASSUME q.reason # "id" PROVE FALSE
    OBVIOUS
  <2>1. id \in NonIds
    BY <1>2, <1>4 DEF Settled
  <2>2. Native(id) = id
    BY <2>1 DEF Native, decode_id
  <2> QED
    BY <1>3, <1>5, <1>6, <2>1, <2>2, NonIdsAssumption DEF Ids
<1>8. PICK i \in Instances, n \in Ids : id = Exposed(i, n)
  BY <1>4, <1>7 DEF Settled
<1>9. Owner(id) = i /\ Native(id) = n /\ q.target = Owner(id)
  BY <1>4, <1>7, <1>8, LeadsBack DEF Picked
<1>10. id = Exposed(q.target, Prepared(q.payload).id)
  BY <1>6, <1>8, <1>9
<1>11. id \in TitlesInOne /\ TitlesInOne' = TitlesInOne
  BY <1>2, <1>3, <1>5, <1>10 DEF TitlesInOne
<1>12. ~AskedInOne[r].new /\ AskedInOne[r].title = {id}
  BY <1>2, <1>7 DEF AskedInOne, Wish
<1> DEFINE p == Ended(q, outcome)
<1>13. /\ p.pc = "done" /\ p.outcome = outcome /\ p.answer = q.answer
       /\ p.target = q.target /\ p.reason = q.reason /\ p.method = q.method
       /\ p.payload = q.payload /\ p.resolved = q.resolved /\ p.label = q.label
  BY <1>4, EndedFields
<1> HIDE DEF p
<1>14. req' = [req EXCEPT ![r] = p]
  BY <1>1 DEF p
<1>15. Touched(r)' = {id}
  <2>1. req'[r] = p
    BY <1>14 DEF LInv, IInv, Threads
  <2>2. Touched(r)' = {Exposed(p.target, Prepared(p.payload).id)}
    BY <1>2, <1>13, <2>1 DEF Touched
  <2> QED
    BY <1>10, <1>13, <2>2
<1>16. {p.answer} \ NonIds = IF p.outcome = "accepted" /\ AskedInOne[r].new THEN {id} ELSE {}
  BY <1>4, <1>12, <1>13
<1> HIDE DEF id
<1>17. Library!Does(r, id) /\ SettledNext
  BY <1>2, <1>13, <1>14, <1>15, <1>16, DoesInOne
<1>18. Library!UpdateTitle(r)
  BY <1>11, <1>12, <1>17 DEF Library!UpdateTitle
<1> QED
  BY <1>17, <1>18 DEF Library!Next

-----------------------------------------------------------------------------
(* Requests from Seerr.                                                     *)

LEMMA AskGoes ==
  ASSUME LInv, IInv', NEW r \in Requests, req[r].pc = "idle", UNCHANGED upstream,
         NEW p, req' = [req EXCEPT ![r] = p], p.pc \notin {"idle", "done"},
         p.reason = "id" => p.payload.ids["id"] \in Library!Given,
         Settled(items, r, p)
  PROVE  Library!Next /\ SettledNext
<1>1. req'[r] = p /\ \A s \in Requests \ {r} : req'[s] = req[s]
  BY DEF LInv, IInv, Threads
<1>2. items' = items /\ ever' = ever /\ always' = always
  BY DEF upstream
<1>3. Thread(always, ever, items, r, p)
  BY <1>1, <1>2 DEF IInv, Threads
<1>4. Shape(p) /\ p.outcome = "none" /\ Tagged(always, ever, p)
  BY <1>3 DEF Thread, Stage
<1>5. StageInOne[r] = "idle" /\ StageInOne' = [StageInOne EXCEPT ![r] = "asked"]
  <2>1. \A s \in Requests : Phase(req'[s]) = IF s = r THEN "asked" ELSE Phase(req[s])
    BY <1>1 DEF Phase
  <2>2. Phase(req[r]) = "idle"
    BY DEF Phase
  <2> QED
    BY <2>1, <2>2 DEF StageInOne
<1>6. AskedInOne' = [AskedInOne EXCEPT ![r] = Wish(p)] /\ AskedInOne'[r] = Wish(p)
  <2>1. \A s \in Requests : Wish(req'[s]) = IF s = r THEN Wish(p) ELSE Wish(req[s])
    BY <1>1
  <2> QED
    BY <2>1 DEF AskedInOne
<1>7. Wish(p) \in Library!Wish
  <2> DEFINE w == Wish(p)
  <2>1. w = [new |-> ~IsForTag(p) /\ p.method = "POST",
             title |-> IF p.reason = "id" THEN {p.payload.ids["id"]} ELSE {},
             tags |-> Wanted(p) \ NonIds,
             labels |-> IF IsForTag(p) THEN {p.label} ELSE {}]
    BY DEF Wish, Wanted, In
  <2>2. p.label \in Labels
    BY <1>4 DEF Shape
  <2>3. Wanted(p) \ NonIds \subseteq Library!TagIds
    <3> SUFFICES ASSUME NEW tag \in Wanted(p) \ NonIds PROVE tag \in Library!TagIds
      OBVIOUS
    <3>1. p.payload.tags \in Seq(Scalar)
      BY <1>4 DEF Shape, Payload, Scalar
    <3>2. tag \in Scalar \ NonIds
      BY <3>1 DEF Wanted, In
    <3>3. PICK label \in Labels : Labelled(ever, tag, label)
      BY <1>4 DEF Tagged
    <3>4. \E t \in TagsInOne : t.id = tag
      BY <3>2, <3>3, TagInOne DEF LInv
    <3> QED
      BY <3>4 DEF Library!TagIds
  <2> HIDE DEF w
  <2>4. /\ (~IsForTag(p) /\ p.method = "POST") \in BOOLEAN
        /\ (IF p.reason = "id" THEN {p.payload.ids["id"]} ELSE {}) \in SUBSET Library!Given
        /\ (IF IsForTag(p) THEN {p.label} ELSE {}) \in SUBSET Labels
        /\ (Wanted(p) \ NonIds) \in SUBSET Library!TagIds
    BY <2>2, <2>3
  <2>5. w \in [new : BOOLEAN, title : SUBSET Library!Given, tags : SUBSET Library!TagIds,
               labels : SUBSET Labels]
    BY <2>1, <2>4, Zenon
  <2> QED
    BY <2>5 DEF w, Library!Wish
<1>8. DidInOne' = DidInOne
  <2>1. Effect(r)' = Effect(r)
    <3>1. Effect(r) = [touched |-> {}, tags |-> {}, ok |-> FALSE, answer |-> {}]
      BY Without DEF LInv
    <3>2. Effect(r)' = [touched |-> {}, tags |-> {}, ok |-> FALSE, answer |-> {}]
      BY <1>1, <1>4 DEF Effect
    <3> QED
      BY <3>1, <3>2
  <2>2. \A s \in Requests \ {r} : Effect(s)' = Effect(s)
    BY <1>1, <1>2, SameEffect
  <2> QED
    BY <2>1, <2>2 DEF DidInOne
<1>9. TitlesInOne' = TitlesInOne /\ TagsInOne' = TagsInOne
  BY <1>2, SameTags DEF TitlesInOne
<1>10. Library!Ask(r)
  BY <1>5, <1>6, <1>7, <1>8, <1>9 DEF Library!Ask
<1>11. SettledNext
  BY <1>1, <1>2, HandlerFacts DEF SettledNext
<1> QED
  BY <1>10, <1>11 DEF Library!Next

LEMMA ChooseRoutes ==
  ASSUME NEW q
  PROVE  \/ Choose(q) = [q EXCEPT !.pc = "animePaths"]
         \/ \E key, reason : reason \notin {"none", "id"} /\ Choose(q) = Routed(q, key, reason)
<1>1. \/ Choose(q) = Fallback(q)
      \/ Choose(q) = [q EXCEPT !.pc = "animePaths"]
      \/ \E key : Choose(q) = Routed(q, key, "no payload")
      \/ \E key : Choose(q) = Routed(q, key, "hint")
  BY Zenon DEF Choose
<1>2. "no payload" \notin {"none", "id"} /\ "hint" \notin {"none", "id"}
  OBVIOUS
<1> QED
  BY <1>1, <1>2, FallbackRoutes, Zenon

LEMMA NewItemGoes ==
  ASSUME LInv, IInv', NEW r \in Requests, NEW b \in Payloads,
         add_item(r, b) \/ update_new(r, b)
  PROVE  Library!Next /\ SettledNext
<1>1. PICK method \in {"POST", "PUT"} :
        /\ req' = [req EXCEPT ![r] = Choose(Arrived(r, method, b))]
        /\ method = "PUT" => b.ids["id"] \in NonIds
  BY NoIdAssumption DEF add_item, update_new, Arrived, Absent
<1>2. req[r].pc = "idle" /\ UNCHANGED upstream
  BY DEF add_item, update_new, Received
<1> DEFINE q == Arrived(r, method, b)
           p == Choose(q)
<1>3. /\ DOMAIN req[r] = Fields /\ req[r].reason = "none" /\ Settled(items, r, req[r])
      /\ req[r].answer \in NonIds
  BY <1>2, HandlerFacts DEF Stage, Settled
<1>4. /\ DOMAIN q = Fields /\ q.method = method /\ q.payload = b /\ q.reason = "none"
      /\ q.answer = req[r].answer
  BY <1>3 DEF Arrived, Fields
<1> HIDE DEF q
<1>5. /\ p.pc \in {"tags", "animePaths"} /\ p.reason # "id"
      /\ p.pc = "tags" => p.reason # "none"
      /\ p.method = method /\ p.payload = b /\ p.answer = req[r].answer
  <2>1. CASE p = [q EXCEPT !.pc = "animePaths"]
    <3> DEFINE s == [q EXCEPT !.pc = "animePaths"]
    <3>1. s.pc = "animePaths" /\ s.reason = "none" /\ s.method = method /\ s.payload = b
          /\ s.answer = req[r].answer
      BY <1>4 DEF Fields
    <3> HIDE DEF s
    <3> QED
      BY <2>1, <3>1 DEF s
  <2>2. ASSUME NEW key, NEW reason, reason \notin {"none", "id"}, p = Routed(q, key, reason)
        PROVE  /\ p.pc = "tags" /\ p.reason = reason
               /\ p.method = method /\ p.payload = b /\ p.answer = req[r].answer
    BY <1>4, <2>2, RoutedFields
  <2> QED
    BY <2>1, <2>2, ChooseRoutes
<1>6. req' = [req EXCEPT ![r] = p]
  BY <1>1 DEF q
<1> HIDE DEF p
<1>7. Settled(items, r, p)
  BY <1>1, <1>2, <1>3, <1>5 DEF Settled, Translating
<1> QED
  BY <1>2, <1>5, <1>6, <1>7, AskGoes

LEMMA UpdateItemGoes ==
  ASSUME LInv, IInv', NEW r \in Requests, NEW b \in Payloads, NEW id \in Stored,
         update_item(r, b, id)
  PROVE  Library!Next /\ SettledNext
<1> DEFINE body == [b EXCEPT !.ids["id"] = id]
           q == Arrived(r, "PUT", body)
           p == Routed(q, Owner(id), "id")
<1>1. req' = [req EXCEPT ![r] = p]
  BY DEF update_item, Owner, Arrived
<1>2. req[r].pc = "idle" /\ UNCHANGED upstream /\ b \in Payload
  BY PayloadsAssumption DEF update_item, Received
<1>3. PICK t \in Requests : id = req[t].answer /\ id \notin NonIds
  BY DEF Stored
<1>4. id \in Library!Given
  <2>1. Effect(t).answer = {id}
    BY <1>3, HandlerFacts DEF Settled, Effect
  <2> QED
    BY <2>1 DEF Library!Given, DidInOne
<1>5. body.ids["id"] = id
  BY <1>2 DEF Payload, AddIdHints, ItemIdFields
<1> HIDE DEF body
<1>6. /\ DOMAIN req[r] = Fields /\ Settled(items, r, req[r]) /\ req[r].answer \in NonIds
  BY <1>2, HandlerFacts DEF Settled
<1>7. /\ DOMAIN q = Fields /\ q.method = "PUT" /\ q.payload = body
      /\ q.answer = req[r].answer
  BY <1>6 DEF Arrived, Fields
<1> HIDE DEF q
<1>8. /\ p.pc = "tags" /\ p.reason = "id" /\ p.method = "PUT" /\ p.payload = body
      /\ p.answer = req[r].answer
  BY <1>7, RoutedFields
<1> HIDE DEF p
<1>9. \E i \in Instances, n \in Ids : id = Exposed(i, n)
  BY <1>3 DEF LInv, IInv, Threads, Thread, Told
<1>10. Settled(items, r, p)
  BY <1>2, <1>5, <1>6, <1>8, <1>9 DEF Settled
<1> QED
  BY <1>1, <1>2, <1>4, <1>5, <1>8, <1>10, AskGoes

LEMMA CreateTagGoes ==
  ASSUME LInv, IInv', NEW r \in Requests, NEW label \in Labels, create_tag(r, label)
  PROVE  Library!Next /\ SettledNext
<1> DEFINE q == req[r]
           p == [q EXCEPT !.pc = "newTag", !.label = label]
<1>1. req[r].pc = "idle" /\ UNCHANGED upstream
  BY DEF create_tag
<1>2. req' = [req EXCEPT ![r] = p]
  BY DEF create_tag, LInv, IInv, Threads
<1>3. /\ DOMAIN q = Fields /\ Settled(items, r, q) /\ q.reason = "none"
  BY <1>1, HandlerFacts DEF Stage
<1>4. /\ p.pc = "newTag" /\ p.reason = "none" /\ p.method = q.method /\ p.payload = q.payload
      /\ p.answer = q.answer
  BY <1>3 DEF Fields
<1> HIDE DEF p
<1>5. Settled(items, r, p)
  BY <1>1, <1>3, <1>4 DEF Settled, Translating
<1> QED
  BY <1>1, <1>2, <1>4, <1>5, AskGoes

-----------------------------------------------------------------------------
(* What happens elsewhere, and the specification.                           *)

LEMMA HandleGoes ==
  ASSUME LInv, NEW r \in Requests, Handle(r)
  PROVE  (Library!Next \/ UNCHANGED Library!vars) /\ SettledNext
BY AnswerGoes, AnimePathsGoes, EnglishPathsGoes, NextTagGoes, TagLabelGoes, TagIdForLabelGoes,
   PostLabelGoes, LabelRejectedGoes, PopGoes, AddGoes, UpdateGoes, EndGoes, TagCreatedGoes
   DEF Handle

LEMMA ElsewhereGoes ==
  ASSUME LInv, UNCHANGED <<items, req>>
  PROVE  UNCHANGED <<TitlesInOne, StageInOne, AskedInOne, DidInOne>> /\ SettledNext
<1>1. \A s \in Requests : Effect(s)' = Effect(s)
  BY SameEffect
<1>2. SettledNext
  BY HandlerFacts DEF SettledNext
<1> QED
  BY <1>1, <1>2 DEF TitlesInOne, StageInOne, AskedInOne, DidInOne

LEMMA UiGoes ==
  ASSUME LInv,
         \/ \E i \in Instances : \E path \in Paths : UiAddFolder(i, path)
         \/ \E i \in Instances : \E label \in Labels : UiAddTag(i, label)
         \/ \E k \in Keys : \E e \in list[k] : UiRemove(k, e)
  PROVE  (Library!Next \/ UNCHANGED Library!vars) /\ SettledNext
<1>1. UNCHANGED <<items, req>>
  BY DEF UiAddFolder, UiAddTag, UiRemove, UiChange
<1>2. UNCHANGED <<TitlesInOne, StageInOne, AskedInOne, DidInOne>> /\ SettledNext
  BY <1>1, ElsewhereGoes
<1>3. CASE TagsInOne' = TagsInOne
  BY <1>2, <1>3 DEF Library!vars
<1>4. ASSUME NEW i \in Instances, NEW path \in Paths, UiAddFolder(i, path)
      PROVE  TagsInOne' = TagsInOne
  <2>1. ever' = [ever EXCEPT ![Folders(i)] = @ \cup {path}]
    BY <1>4 DEF UiAddFolder, Grown
  <2>2. \A j \in Instances : Tags(j) \in Keys /\ Tags(j) # Folders(i)
    BY TheKeys
  <2>3. \A j \in Instances : ever'[Tags(j)] = ever[Tags(j)]
    BY <2>1, <2>2 DEF LInv, IInv, Lists
  <2> QED
    BY <2>3, SameTags
<1>5. ASSUME NEW k \in Keys, NEW e, UiRemove(k, e) PROVE TagsInOne' = TagsInOne
  <2>1. ever' = ever
    BY <1>5 DEF UiRemove
  <2> QED
    BY <2>1, SameTags
<1>6. ASSUME NEW i \in Instances, NEW label \in Labels, UiAddTag(i, label)
      PROVE  Library!Next
  <2>1. PICK e \in NewTags(i, label) : Grown(Tags(i), e)
    BY <1>6 DEF UiAddTag
  <2> DEFINE t == InOne(i, e)
  <2>2. /\ TagsInOne' = TagsInOne \cup {t} /\ t.id \notin Library!TagIds
        /\ t \in TagsInOne' \ TagsInOne
    BY <2>1, NewTagInOne DEF LInv
  <2> HIDE DEF t
  <2>3. Library!OthersTag(t)
    BY <1>2, <2>2 DEF Library!OthersTag, Library!NewTag
  <2> QED
    BY <2>2, <2>3 DEF Library!Next
<1> QED
  BY <1>2, <1>3, <1>4, <1>5, <1>6

LEMMA RestartGoes ==
  ASSUME LInv, Restart
  PROVE  Library!Next /\ SettledNext
<1>1. UNCHANGED upstream /\ items' = items /\ ever' = ever
  BY DEF Restart, upstream
<1>2. \A s \in Requests :
        req'[s] = IF req[s].pc \in {"idle", "done"} THEN req[s] ELSE Ended(req[s], "none")
  BY DEF Restart
<1>3. ASSUME NEW s \in Requests, req[s].pc \notin {"idle", "done"}
      PROVE  /\ GoesOn(req[s], req'[s]) /\ req'[s].pc = "done"
             /\ Effect(s)' = Effect(s)
  <2>1. req'[s] = Ended(req[s], "none")
    BY <1>2, <1>3
  <2>2. req'[s].pc = "done" /\ req'[s].outcome = "none"
    BY <2>1, HandlerFacts, EndedFields
  <2>3. GoesOn(req[s], req'[s])
    BY <1>3, <2>1, EndedGoesOn
  <2>4. Effect(s) = [touched |-> {}, tags |-> {}, ok |-> FALSE, answer |-> {}]
    BY <1>3, Without DEF LInv
  <2>5. Effect(s)' = [touched |-> {}, tags |-> {}, ok |-> FALSE, answer |-> {}]
    BY <2>2 DEF Effect
  <2> QED
    BY <2>2, <2>3, <2>4, <2>5
<1>4. ASSUME NEW s \in Requests
      PROVE  /\ Phase(req'[s]) = IF Phase(req[s]) = "asked" THEN "ended" ELSE Phase(req[s])
             /\ Wish(req'[s]) = Wish(req[s])
             /\ Effect(s)' = Effect(s)
             /\ Settled(items', s, req'[s])
  <2>1. Settled(items, s, req[s])
    BY HandlerFacts
  <2>2. CASE req[s].pc \in {"idle", "done"}
    <3>1. req'[s] = req[s]
      BY <1>2, <2>2
    <3>2. Phase(req[s]) # "asked"
      BY <2>2 DEF Phase
    <3> QED
      BY <1>1, <2>1, <3>1, <3>2, SameEffect
  <2>3. CASE req[s].pc \notin {"idle", "done"}
    BY <1>1, <1>3, <2>1, <2>3, GoesOnWish, GoesOnSettled
  <2> QED
    BY <2>2, <2>3
<1>5. StageInOne' = [s \in Requests |-> IF StageInOne[s] = "asked" THEN "ended" ELSE StageInOne[s]]
  BY <1>4 DEF StageInOne
<1>6. UNCHANGED <<TitlesInOne, TagsInOne, AskedInOne, DidInOne>>
  BY <1>1, <1>4, SameTags DEF TitlesInOne, AskedInOne, DidInOne
<1>7. Library!Restart
  BY <1>5, <1>6 DEF Library!Restart
<1> QED
  BY <1>4, <1>7 DEF Library!Next, SettledNext

LEMMA InitLInv == Init => LInv /\ Library!Init
<1> SUFFICES ASSUME Init PROVE LInv /\ Library!Init
  OBVIOUS
<1>1. IInv
  BY InitIInv
<1>2. /\ \A i \in Instances : items[i] = {}
      /\ \A r \in Requests : /\ req[r].pc = "idle" /\ req[r].method = "POST"
                             /\ req[r].reason = "none" /\ req[r].answer = Absent
                             /\ req[r].outcome = "none"
  BY DEF Init
<1>3. Absent \in NonIds
  BY NoIdAssumption DEF Absent
<1>4. \A r \in Requests : Settled(items, r, req[r])
  BY <1>2, <1>3 DEF Settled, Translating
<1>5. TitlesInOne = {}
  BY <1>2 DEF TitlesInOne
<1>6. StageInOne = [r \in Requests |-> "idle"] /\ AskedInOne = [r \in Requests |-> Library!NoWish]
  BY <1>2 DEF StageInOne, AskedInOne, Phase, Wish, Library!NoWish
<1>7. DidInOne = [r \in Requests |-> Library!Nothing]
  BY <1>2 DEF DidInOne, Effect, Library!Nothing
<1>8. \A s, t \in TagsInOne : s.id = t.id => s = t
  <2> SUFFICES ASSUME NEW s \in TagsInOne, NEW t \in TagsInOne, s.id = t.id PROVE s = t
    OBVIOUS
  <2>1. PICK i \in Instances : \E d \in ever[Tags(i)] : s = InOne(i, d)
    BY DEF TagsInOne
  <2>2. PICK j \in Instances : \E e \in ever[Tags(j)] : t = InOne(j, e)
    BY DEF TagsInOne
  <2>3. PICK d \in ever[Tags(i)] : s = InOne(i, d)
    BY <2>1
  <2>4. PICK e \in ever[Tags(j)] : t = InOne(j, e)
    BY <2>2
  <2>5. d.id \in Ids /\ e.id \in Ids
    BY <1>1 DEF IInv, Lists, Tag
  <2>6. Exposed(i, d.id) = Exposed(j, e.id)
    BY <2>3, <2>4 DEF InOne
  <2>7. i = j /\ d.id = e.id
    <3>1. Owner(Exposed(i, d.id)) = i /\ Native(Exposed(i, d.id)) = d.id
      BY <2>5, LeadsBack
    <3>2. Owner(Exposed(j, e.id)) = j /\ Native(Exposed(j, e.id)) = e.id
      BY <2>5, LeadsBack
    <3> QED
      BY <2>6, <3>1, <3>2
  <2>8. d = e
    BY <1>1, <2>7 DEF IInv, Lists
  <2> QED
    BY <2>3, <2>4, <2>7, <2>8
<1> QED
  BY <1>1, <1>4, <1>5, <1>6, <1>7, <1>8 DEF LInv, Library!Init

LEMMA StepInOne ==
  LInv /\ [Next]_vars => LInv' /\ [Library!Next]_Library!vars
<1> SUFFICES ASSUME LInv, [Next]_vars
             PROVE  (Library!Next \/ UNCHANGED Library!vars) /\ SettledNext /\ IInv'
  BY DEF LInv, SettledNext
<1>0. IInv'
  BY NextIInv DEF LInv
<1>1. ASSUME NEW r \in Requests, NEW p \in Payloads,
             add_item(r, p) \/ update_new(r, p) \/ \E id \in Stored : update_item(r, p, id)
      PROVE  Library!Next /\ SettledNext
  BY <1>0, <1>1, NewItemGoes, UpdateItemGoes
<1>2. ASSUME NEW r \in Requests, NEW label \in Labels, create_tag(r, label)
      PROVE  Library!Next /\ SettledNext
  BY <1>0, <1>2, CreateTagGoes
<1>3. CASE UNCHANGED vars
  <2>1. UNCHANGED <<items, req>> /\ ever' = ever
    BY <1>3 DEF vars, upstream
  <2>2. TagsInOne' = TagsInOne
    BY <2>1, SameTags
  <2> QED
    BY <1>0, <2>1, <2>2, ElsewhereGoes DEF Library!vars
<1> QED
  BY <1>0, <1>1, <1>2, <1>3, HandleGoes, UiGoes, RestartGoes DEF Next

\* The two instances behind the proxy, with its handlers, cache, races, outages and
\* restarts, are one library: initial states and every step map to it
\* (app.py:245-299, routing.py:127-192, service.py:68-108).
THEOREM TwoAreOneLibrary == Spec => ImplementsOneLibrary
<1>1. Init => LInv /\ Library!Init
  BY InitLInv
<1>2. LInv /\ [Next]_vars => LInv' /\ [Library!Next]_Library!vars
  BY StepInOne
<1> QED
  BY <1>1, <1>2, PTL DEF Spec, ImplementsOneLibrary, Library!Spec
=============================================================================
