------------------------------ MODULE AddRequest ------------------------------
(***************************************************************************)
(* Seerr adds or updates a title (add_item, update_item, item_by_id PUT)   *)
(* or creates a tag (create_tag).  Each request has a handler thread that  *)
(* picks an instance (Router.choose_for_add, instance_for_id), re-points   *)
(* the tags at it (translate_tags) and forwards the body.  The threads     *)
(* share the cache of RouterCache and meet in the two instances' lists.    *)
(*                                                                         *)
(* A root folder path stands for its normalised form: no label prefix, no  *)
(* trailing slash, lower case.  Entry ages are RouterCache's business: an  *)
(* entry may be used or may have expired whenever it is looked up.         *)
(***************************************************************************)
EXTENDS Namespace, Sequences

CONSTANTS
  Requests,     \* one handler thread each
  Payloads,     \* what Seerr may send, before a stored ID is put into it
  Paths,        \* root folder paths
  NoPath,       \* the payload has none
  Keyword,      \* the paths that contain ANIME_PATH_MATCH
  Labels,       \* tag labels
  InitialFolders,  \* root folders at the start: some functions on Instances
  InitialTags,     \* tags at the start: some functions on Instances
  MaxId,        \* bound on the IDs an instance hands out
  MaxUiChanges  \* bound on changes made past the proxy

ASSUME PathsAssumption == Keyword \subseteq Paths /\ NoPath \notin Paths
ASSUME MaxIdAssumption == MaxId \in Nat /\ MaxId < Offset
ASSUME LabelsAssumption == Labels # {}
ASSUME NoIdAssumption == NonIds # {}

VARIABLES
  list,    \* list[k]: the instances' root folders and tags
  always,  \* always[k]: what has been in list[k] from the start (history)
  ever,    \* ever[k]: what has been in list[k] at some time (history)
  items,   \* items[i]: the titles of instance i, each with who added it
  ui,      \* number of changes made past the proxy
  cache,   \* Router._cache
  req      \* the state of each handler thread

upstream == <<list, always, ever, items, ui>>
vars == <<upstream, cache, req>>

Keys == {"folders", "tags"} \X Instances
Folders(i) == <<"folders", i>>
Tags(i) == <<"tags", i>>

ItemIdFields == {"id", "qualityProfileId"}     \* kind.item_id_fields
AddIdHints == ItemIdFields \cup {"rootFolderId"}
Ids == 1 .. MaxId
Absent == CHOOSE v \in NonIds : TRUE
Tag == [id : Ids, label : Labels]
Payload == [json : BOOLEAN, ids : [AddIdHints -> Int \cup NonIds],
            path : Paths \cup {NoPath}, anime : BOOLEAN, tags : Seq(Int \cup NonIds)]

ASSUME PayloadsAssumption == Payloads \subseteq Payload
ASSUME InitialAssumption ==
  /\ InitialFolders \subseteq [Instances -> SUBSET Paths]
  /\ InitialTags \subseteq [Instances -> SUBSET Tag]
  /\ \A tags \in InitialTags, i \in Instances : \A d, e \in tags[i] : d.id = e.id => d = e

\* What a lookup yields: a list, or None because it could not be read.
Nothing == [read |-> FALSE, elems |-> {}]
ListOf(s) == [read |-> TRUE, elems |-> s]

Reading == {"animePaths", "englishPaths", "label", "labelId"}
Outcomes == {"none", "accepted", "rejected", "unreachable", "lost"}

\* What can go wrong for a request and not end it: a list that could not be read,
\* a label that the target would not create.
Refused(label) == <<"refused", label>>
Faults == Keys \cup {Refused(l) : l \in Labels}

TypeOK ==
  /\ \A i \in Instances :
       /\ list[Folders(i)] \subseteq Paths /\ list[Tags(i)] \subseteq Tag
       /\ cache[Folders(i)].elems \subseteq Paths /\ cache[Tags(i)].elems \subseteq Tag
       /\ items[i] \subseteq [id : Ids, by : Requests]
  /\ \A k \in Keys : always[k] \subseteq list[k] /\ list[k] \subseteq ever[k]
  /\ \A r \in Requests :
       /\ req[r].pc \in Reading \cup {"idle", "tags", "create", "pop", "newTag",
                                      "invalidate", "done"}
       /\ req[r].method \in {"POST", "PUT"}
       /\ req[r].payload \in Payload
       /\ req[r].target \in Instances
       /\ req[r].outcome \in Outcomes
       /\ req[r].label \in Labels
       /\ req[r].answer \in Int \cup NonIds
       /\ req[r].fault \subseteq Faults
       /\ \A n \in 1 .. Len(req[r].resolved) : req[r].resolved[n] \in Ids

-----------------------------------------------------------------------------
(* Router.choose_for_add *)

\* Mutant: rootFolderId is not looked at.
HintsAnimeInItemFields(p) == \E f \in ItemIdFields : is_anime_id(p.ids[f])
HintsAnime(p) == \E f \in AddIdHints : is_anime_id(p.ids[f])

Routed(q, key, reason) ==
  [q EXCEPT !.pc = "tags", !.target = key, !.reason = reason, !.todo = q.payload.tags]

\* The rules that need no instance: series type, keyword, default.
Fallback(q) ==
  IF q.payload.anime THEN Routed(q, Anime, "type")
  ELSE IF q.payload.path \in Keyword THEN Routed(q, Anime, "keyword")
  ELSE Routed(q, English, "default")

\* Mutant: the keyword is looked at before the root folders.
ChooseKeywordFirst(q) ==
  IF ~q.payload.json THEN Routed(q, English, "no payload")
  ELSE IF HintsAnime(q.payload) THEN Routed(q, Anime, "hint")
  ELSE IF q.payload.path = NoPath \/ q.payload.path \in Keyword THEN Fallback(q)
  ELSE [q EXCEPT !.pc = "animePaths"]

\* Up to the first read of root folders.
Choose(q) ==
  IF ~q.payload.json THEN Routed(q, English, "no payload")
  ELSE IF HintsAnime(q.payload) THEN Routed(q, Anime, "hint")
  ELSE IF q.payload.path = NoPath THEN Fallback(q)
  ELSE [q EXCEPT !.pc = "animePaths"]

\* Mutant: an instance that could not be read has no root folders.
OwnersNoneIsEmpty(path, anime, english) ==
  {i \in Instances : IF i = Anime THEN path \in anime.elems \ english.elems
                                  ELSE path \in english.elems \ anime.elems}

\* The instances that alone have the path; none if one could not be read.
Owners(path, anime, english) ==
  {i \in Instances :
     /\ anime.read /\ english.read
     /\ IF i = Anime THEN path \in anime.elems \ english.elems
                     ELSE path \in english.elems \ anime.elems}

ByOwner(q, english) ==
  LET owners == Owners(q.payload.path, q.animePaths, english)
  IN IF owners = {} THEN Fallback(q)
     ELSE Routed(q, CHOOSE i \in owners : TRUE, "owned")

-----------------------------------------------------------------------------
(* Router._cached: a hit, a failed load, or a load that is stored.          *)

\* The list the thread is reading.
KeyOf(q) ==
  CASE q.pc = "animePaths" -> Folders(Anime)
    [] q.pc = "englishPaths" -> Folders(English)
    [] q.pc = "label" -> Tags(decode_id(Head(q.todo)).owner)
    [] q.pc = "labelId" -> Tags(q.target)

\* The instance takes its list; the thread stores it in a later step.
Answer(r) ==
  /\ req[r].pc \in Reading
  /\ ~req[r].reply.read
  /\ req' = [req EXCEPT ![r].reply = ListOf(list[KeyOf(req[r])])]
  /\ UNCHANGED <<upstream, cache>>

\* _cached returns v to thread r.
Returns(r, v) ==
  LET k == KeyOf(req[r]) IN
  \/ /\ ~req[r].reply.read
     /\ cache[k].read
     /\ v = cache[k]
     /\ UNCHANGED cache
  \/ /\ ~req[r].reply.read
     /\ v = Nothing
     /\ UNCHANGED cache
  \/ /\ req[r].reply.read
     /\ v = req[r].reply
     /\ cache' = [cache EXCEPT ![k] = v]

\* The thread after _cached returned v.
Got(r, v) ==
  [req[r] EXCEPT !.reply = Nothing, !.fault = IF v.read THEN @ ELSE @ \cup {KeyOf(req[r])}]

Values(r) == {cache[KeyOf(req[r])], req[r].reply, Nothing}

AnimePaths(r) ==
  /\ req[r].pc = "animePaths"
  /\ \E v \in Values(r) :
       /\ Returns(r, v)
       /\ req' = [req EXCEPT ![r] =
            [Got(r, v) EXCEPT !.pc = "englishPaths", !.animePaths = v]]
  /\ UNCHANGED upstream

EnglishPaths(r) ==
  /\ req[r].pc = "englishPaths"
  /\ \E v \in Values(r) :
       /\ Returns(r, v)
       /\ req' = [req EXCEPT ![r] = ByOwner(Got(r, v), v)]
  /\ UNCHANGED upstream

-----------------------------------------------------------------------------
(* Requests from Seerr.                                                     *)

\* The IDs Seerr has from replies to earlier adds.
Stored == {req[r].answer : r \in Requests} \ NonIds
\* The tags Seerr can pick from: GET /tag is not cached.
Offered == UNION {{Exposed(i, e.id) : e \in ever[Tags(i)]} : i \in Instances}

Received(r, p) ==
  /\ req[r].pc = "idle"
  /\ \A n \in 1 .. Len(p.tags) : p.tags[n] \in NonIds \cup Offered
  /\ UNCHANGED <<upstream, cache>>

add_item(r, p) ==
  /\ Received(r, p)
  /\ req' = [req EXCEPT ![r] = Choose([@ EXCEPT !.method = "POST", !.payload = p])]

\* PUT of a body with a stored ID, on the collection or on the title: the ID
\* alone decides, and it is sent on decoded.
update_item(r, p, id) ==
  /\ Received(r, p)
  /\ req' = [req EXCEPT ![r] =
       Routed([@ EXCEPT !.method = "PUT", !.payload = [p EXCEPT !.ids["id"] = id]],
              decode_id(id).owner, "id")]

\* PUT on the collection of a body without an ID.
update_new(r, p) ==
  /\ Received(r, p)
  /\ p.ids["id"] = Absent
  /\ req' = [req EXCEPT ![r] = Choose([@ EXCEPT !.method = "PUT", !.payload = p])]

-----------------------------------------------------------------------------
(* Router.translate_tags                                                    *)

Dropped(q) == [q EXCEPT !.pc = "tags", !.todo = Tail(@)]
Kept(q, id) == [q EXCEPT !.pc = "tags", !.todo = Tail(@), !.resolved = Append(@, id)]

\* Mutant: any tag passes for the target's own.
OwnAlways(q, tag) == TRUE
Own(q, tag) == decode_id(tag).owner = q.target

\* The next tag: not an ID, the target's own, or one to look up by label.  Left
\* out: to isinstance, true and false are the IDs 1 and 0.
next_tag(r) ==
  /\ req[r].pc = "tags"
  /\ req[r].todo # <<>>
  /\ LET tag == Head(req[r].todo) IN
     req' = [req EXCEPT ![r] =
       IF tag \in NonIds THEN Dropped(@)
       ELSE IF Own(@, tag) THEN Kept(@, decode_id(tag).id)
       ELSE [@ EXCEPT !.pc = "label"]]
  /\ UNCHANGED <<upstream, cache>>

\* Mutant: the ID is looked up as Seerr sent it.
WithIdUndecoded(tags, tag) == {e \in tags : e.id = tag}
WithId(tags, tag) == {e \in tags : e.id = decode_id(tag).id}

tag_label(r) ==
  /\ req[r].pc = "label"
  /\ \E v \in Values(r) :
       LET found == WithId(v.elems, Head(req[r].todo)) IN
       /\ Returns(r, v)
       /\ \/ /\ found = {}
             /\ req' = [req EXCEPT ![r] = Dropped(Got(r, v))]
          \/ \E e \in found :
               req' = [req EXCEPT ![r] = [Got(r, v) EXCEPT !.pc = "labelId", !.label = e.label]]
  /\ UNCHANGED upstream

tag_id_for_label(r) ==
  /\ req[r].pc = "labelId"
  /\ \E v \in Values(r) :
       LET found == {e \in v.elems : e.label = req[r].label} IN
       /\ Returns(r, v)
       /\ \/ /\ found = {}
             /\ req' = [req EXCEPT ![r] = [Got(r, v) EXCEPT !.pc = "create"]]
          \/ \E e \in found : req' = [req EXCEPT ![r] = Kept(Got(r, v), e.id)]
  /\ UNCHANGED upstream

\* IDs are handed out in order and never again.
NextId(used) == {n \in Ids : n \notin used /\ \A m \in 1 .. n - 1 : m \in used}

\* Instance i has a new element e of list k.
Grown(k, e) ==
  /\ list' = [list EXCEPT ![k] = @ \cup {e}]
  /\ ever' = [ever EXCEPT ![k] = @ \cup {e}]
  /\ UNCHANGED always

NewTags(i, label) ==
  {[id |-> n, label |-> label] : n \in NextId({e.id : e \in ever[Tags(i)]})}

\* POST /tag on instance i: the tag with that label, if need be a new one.
PostTag(i, label, e) ==
  \/ /\ e \in list[Tags(i)]
     /\ e.label = label
     /\ UNCHANGED <<list, always, ever>>
  \/ /\ \A d \in list[Tags(i)] : d.label # label
     /\ e \in NewTags(i, label)
     /\ Grown(Tags(i), e)

Ended(q, outcome) == [q EXCEPT !.pc = "done", !.outcome = outcome]

\* The reply has the ID, or is lost (UpstreamError: 502); the entry of the
\* target is dropped in a later step.
post_label(r) ==
  /\ req[r].pc = "create"
  /\ \E e \in Tag :
       /\ PostTag(req[r].target, req[r].label, e)
       /\ \/ req' = [req EXCEPT ![r] = [Kept(@, e.id) EXCEPT !.pc = "pop"]]
          \/ req' = [req EXCEPT ![r] = Ended(@, "unreachable")]
  /\ UNCHANGED <<items, ui, cache>>

label_rejected(r) ==
  /\ req[r].pc = "create"
  /\ req' = [req EXCEPT ![r] = [Dropped(req[r]) EXCEPT !.fault = @ \cup {Refused(req[r].label)}]]
  /\ UNCHANGED <<upstream, cache>>

pop(r) ==
  /\ req[r].pc = "pop"
  /\ cache' = [cache EXCEPT ![Tags(req[r].target)] = Nothing]
  /\ req' = [req EXCEPT ![r].pc = "tags"]
  /\ UNCHANGED upstream

-----------------------------------------------------------------------------
(* ProxyService.forward                                                     *)

\* Mutant: the IDs go out as Seerr sent them.
PreparedVerbatim(p) == p.ids

\* prepare_item_payload; rootFolderId is not one of the item's ID fields.  The
\* ID of a PUT on a title is in the path, where it is decoded for any body.
Prepared(p) ==
  [f \in AddIdHints |->
     IF f = "id" \/ (p.json /\ f \in ItemIdFields) THEN decode_id(p.ids[f]).id ELSE p.ids[f]]

Forwarding(r) == req[r].pc = "tags" /\ req[r].todo = <<>>

\* Mutant: a call whose reply is lost is made again.
LostRetried(q) == q
\* The call raises UpstreamError although it was executed: 502.
Lost(q) == Ended(q, "lost")

\* POST /series is executed; the reply carries the new ID, or is lost.
add_executed(r) ==
  LET i == req[r].target IN
  /\ Forwarding(r)
  /\ req[r].method = "POST"
  /\ \E n \in NextId({x.id : x \in items[i]}) :
       /\ items' = [items EXCEPT ![i] = @ \cup {[id |-> n, by |-> r]}]
       /\ \/ req' = [req EXCEPT ![r] = [Ended(@, "accepted") EXCEPT !.answer = Exposed(i, n)]]
          \/ req' = [req EXCEPT ![r] = Lost(@)]
  /\ UNCHANGED <<list, always, ever, ui, cache>>

\* PUT is executed: the instance has a title with the ID it was sent.
update_executed(r) ==
  /\ Forwarding(r)
  /\ req[r].method = "PUT"
  /\ \E x \in items[req[r].target] : x.id = Prepared(req[r].payload).id
  /\ \/ req' = [req EXCEPT ![r] = Ended(@, "accepted")]
     \/ req' = [req EXCEPT ![r] = Lost(@)]
  /\ UNCHANGED <<upstream, cache>>

\* HTTP 4xx: passed on to Seerr.
rejected(r) ==
  /\ Forwarding(r)
  /\ req' = [req EXCEPT ![r] = Ended(@, "rejected")]
  /\ UNCHANGED <<upstream, cache>>

\* The call raises UpstreamError before the instance sees it: 502.
unreachable(r) ==
  /\ Forwarding(r) \/ req[r].pc \in {"create", "newTag"}
  /\ req' = [req EXCEPT ![r] = Ended(@, "unreachable")]
  /\ UNCHANGED <<upstream, cache>>

-----------------------------------------------------------------------------
(* create_tag: on the English instance, then the whole cache is dropped.    *)

create_tag(r, label) ==
  /\ req[r].pc = "idle"
  /\ req' = [req EXCEPT ![r].pc = "newTag", ![r].label = label]
  /\ UNCHANGED <<upstream, cache>>

tag_created(r) ==
  /\ req[r].pc = "newTag"
  /\ \E e \in Tag : PostTag(English, req[r].label, e)
  /\ \/ req' = [req EXCEPT ![r].pc = "invalidate"]
     \/ req' = [req EXCEPT ![r] = Ended(@, "unreachable")]
  /\ UNCHANGED <<items, ui, cache>>

tag_refused(r) ==
  /\ req[r].pc = "newTag"
  /\ req' = [req EXCEPT ![r] = Ended(@, "none")]
  /\ UNCHANGED <<upstream, cache>>

invalidate(r) ==
  /\ req[r].pc = "invalidate"
  /\ cache' = [k \in Keys |-> Nothing]
  /\ req' = [req EXCEPT ![r] = Ended(@, "none")]
  /\ UNCHANGED upstream

-----------------------------------------------------------------------------
(* The instances' own UIs, and a restart of the proxy.                      *)

UiChange(k) ==
  /\ ui < MaxUiChanges
  /\ ui' = ui + 1
  /\ UNCHANGED <<items, cache, req>>

UiAddFolder(i, path) ==
  /\ UiChange(Folders(i))
  /\ path \notin list[Folders(i)]
  /\ Grown(Folders(i), path)

UiAddTag(i, label) ==
  /\ UiChange(Tags(i))
  /\ \A d \in list[Tags(i)] : d.label # label
  /\ \E e \in NewTags(i, label) : Grown(Tags(i), e)

UiRemove(k, e) ==
  /\ UiChange(k)
  /\ list' = [list EXCEPT ![k] = @ \ {e}]
  /\ always' = [always EXCEPT ![k] = @ \ {e}]
  /\ UNCHANGED ever

Restart ==
  /\ cache' = [k \in Keys |-> Nothing]
  /\ req' = [r \in Requests |->
       IF req[r].pc \in {"idle", "done"} THEN req[r] ELSE Ended(req[r], "none")]
  /\ UNCHANGED upstream

-----------------------------------------------------------------------------
NoPayload == [json |-> FALSE, ids |-> [f \in AddIdHints |-> Absent], path |-> NoPath,
              anime |-> FALSE, tags |-> <<>>]

Init ==
  /\ \E folders \in InitialFolders, tags \in InitialTags :
       list = [k \in Keys |-> IF k[1] = "folders" THEN folders[k[2]] ELSE tags[k[2]]]
  /\ always = list
  /\ ever = list
  /\ items = [i \in Instances |-> {}]
  /\ ui = 0
  /\ cache = [k \in Keys |-> Nothing]
  /\ req = [r \in Requests |->
       [pc |-> "idle", method |-> "POST", payload |-> NoPayload, target |-> English,
        reason |-> "none", animePaths |-> Nothing, reply |-> Nothing, todo |-> <<>>,
        resolved |-> <<>>, label |-> CHOOSE l \in Labels : TRUE,
        outcome |-> "none", answer |-> Absent, fault |-> {}]]

Handle(r) ==
  \/ Answer(r) \/ AnimePaths(r) \/ EnglishPaths(r)
  \/ next_tag(r) \/ tag_label(r) \/ tag_id_for_label(r)
  \/ post_label(r) \/ label_rejected(r) \/ pop(r)
  \/ add_executed(r) \/ update_executed(r) \/ rejected(r) \/ unreachable(r)
  \/ tag_created(r) \/ tag_refused(r) \/ invalidate(r)

Next ==
  \/ \E r \in Requests :
       \/ \E p \in Payloads :
            add_item(r, p) \/ update_new(r, p) \/ \E id \in Stored : update_item(r, p, id)
       \/ \E label \in Labels : create_tag(r, label)
       \/ Handle(r)
  \/ \E i \in Instances :
       \/ \E path \in Paths : UiAddFolder(i, path)
       \/ \E label \in Labels : UiAddTag(i, label)
  \/ \E k \in Keys : \E e \in list[k] : UiRemove(k, e)
  \/ Restart

Spec == Init /\ [][Next]_vars

-----------------------------------------------------------------------------
(* Properties *)

\* The body is on its way, or was received by the target.
Sent(r) == Forwarding(r) \/ req[r].outcome \in {"accepted", "rejected", "lost"}
Resolved(r) == {req[r].resolved[n] : n \in 1 .. Len(req[r].resolved)}
HasAnimeId(p) == p.json /\ \E f \in AddIdHints : p.ids[f] \notin NonIds /\ p.ids[f] >= Offset
Requested(r) == {req[r].payload.tags[n] : n \in 1 .. Len(req[r].payload.tags)}

\* A tag ID that is forwarded belongs, on the instance it is forwarded to, to a
\* label that Seerr asked for: whatever stale list, race or failure the ID came
\* through (routing.py:127-192).
NoForeignTag ==
  \A r \in Requests : \A n \in Resolved(r) :
    \E e \in ever[Tags(req[r].target)] :
      /\ e.id = n
      /\ \E tag \in Requested(r) \ NonIds : \E d \in ever[Tags(decode_id(tag).owner)] :
           d.id = decode_id(tag).id /\ d.label = e.label

\* "exists only on the X instance" is never concluded from an instance that
\* could not be asked, nor from a half-read pair: X has or had the folder, and
\* the other was without it at some time since the start (routing.py:86-108).
OwnershipSound ==
  \A r \in Requests : req[r].reason = "owned" =>
    /\ req[r].payload.path \in ever[Folders(req[r].target)]
    /\ req[r].payload.path \notin always[Folders(Other(req[r].target))]

\* A title goes to the instance that alone has its root folder, unless an ID says
\* otherwise (README, "How the proxy picks").  Only when a list could not be read
\* may it go elsewhere, and then only where the weaker rules point: to the anime
\* instance by keyword or series type, else to the English one (routing.py:88-117).
OwnedPathRouted ==
  \A r \in Requests : \A i \in Instances :
    /\ Sent(r) /\ req[r].payload.json
    /\ ~HasAnimeId(req[r].payload) /\ req[r].reason # "id"
    /\ req[r].payload.path \in always[Folders(i)] \ ever[Folders(Other(i))]
    => \/ req[r].target = i
       \/ /\ \E j \in Instances : Folders(j) \in req[r].fault
          /\ (i = English) = (req[r].payload.anime \/ req[r].payload.path \in Keyword)

\* Something else in the request points to the anime instance.
PointsToAnime(r, f) ==
  \/ \E g \in AddIdHints \ {f} : is_anime_id(req[r].payload.ids[g])
  \/ req[r].payload.anime \/ req[r].payload.path \in Keyword
  \/ req[r].payload.path \in ever[Folders(Anime)]

\* An ID in a body means, where it arrives, what it meant to Seerr: it goes to the
\* instance that handed it out, under the number it has there (namespace.py:5-8).
\* The code makes three exceptions, and no others: rootFolderId arrives with the
\* offset (service.py:164), an English ID goes to the anime instance with a body that
\* something else sends there, and an update goes where its own ID leads, whatever
\* its other IDs say (app.py:263-268, 279).
IdsKeepTheirMeaning ==
  \A r \in Requests : Sent(r) /\ req[r].payload.json =>
    \A f \in AddIdHints, i \in Instances, n \in Ids :
      req[r].payload.ids[f] = Exposed(i, n) =>
        \/ /\ req[r].target = i
           /\ Prepared(req[r].payload)[f] = IF f \in ItemIdFields THEN n ELSE Exposed(i, n)
        \/ i = English /\ req[r].target = Anime /\ PointsToAnime(r, f)
        \/ req[r].reason = "id" /\ f # "id"

\* An update reaches the title whose ID Seerr got when it was added, whichever
\* instance that was and whatever happened in between (namespace.py:5-7).
UpdateHitsItsTitle ==
  \A r, q \in Requests :
    /\ Sent(r) /\ req[r].method = "PUT" /\ req[r].reason = "id"
    /\ req[r].payload.ids["id"] = req[q].answer
    => [id |-> Prepared(req[r].payload).id, by |-> q] \in items[req[r].target]

\* Tag d, which the request asks for, is forwarded by its label.
Carries(r, d) ==
  \E e \in ever[Tags(req[r].target)] : e.id \in Resolved(r) /\ e.label = d.label
Asked(r, k) ==
  {d \in ever[k] : \E tag \in Requested(r) \ NonIds :
     Tags(decode_id(tag).owner) = k /\ decode_id(tag).id = d.id}

\* A tag is lost only for a reason of its own.  If it has been on its instance from
\* the start, it is forwarded by its label, unless the target is the other instance
\* and its own list could not be read or the target refused to create its label;
\* what went wrong for the other tags does not matter (routing.py:127-192).
OldTagsKept ==
  \A r \in Requests : Sent(r) =>
    \A i \in Instances : \A d \in Asked(r, Tags(i)) \cap always[Tags(i)] :
      \/ Carries(r, d)
      \/ /\ i # req[r].target
         /\ Tags(i) \in req[r].fault \/ Refused(d.label) \in req[r].fault

-----------------------------------------------------------------------------
(* The two instances as OneLibrary.                                         *)

TitlesInOne == UNION {{Exposed(i, x.id) : x \in items[i]} : i \in Instances}
InOne(i, e) == [id |-> Exposed(i, e.id), label |-> e.label]
TagsInOne == UNION {{InOne(i, e) : e \in ever[Tags(i)]} : i \in Instances}

Phase(q) == IF q.pc = "idle" THEN "idle" ELSE IF q.pc = "done" THEN "ended" ELSE "asked"

\* A request without a body is for a new tag.
IsForTag(q) == ~q.payload.json /\ q.reason = "none"
Wish(q) ==
  IF q.pc = "idle" THEN [new |-> FALSE, title |-> {}, tags |-> {}, labels |-> {}]
  ELSE [new |-> ~IsForTag(q) /\ q.method = "POST",
        title |-> IF q.reason = "id" THEN {q.payload.ids["id"]} ELSE {},
        tags |-> {q.payload.tags[n] : n \in 1 .. Len(q.payload.tags)} \ NonIds,
        labels |-> IF IsForTag(q) THEN {q.label} ELSE {}]

\* The titles r has touched: those it added, or the one its ID leads to.
Touched(r) ==
  IF req[r].method = "PUT" THEN {Exposed(req[r].target, Prepared(req[r].payload).id)}
  ELSE UNION {{Exposed(i, x.id) : x \in {y \in items[i] : y.by = r}} : i \in Instances}

Effect(r) ==
  IF req[r].outcome \in {"accepted", "lost"}
  THEN [touched |-> Touched(r),
        tags |-> {Exposed(req[r].target, n) : n \in Resolved(r)},
        ok |-> req[r].outcome = "accepted",
        answer |-> {req[r].answer} \ NonIds]
  ELSE [touched |-> {}, tags |-> {}, ok |-> FALSE, answer |-> {}]

StageInOne == [r \in Requests |-> Phase(req[r])]
AskedInOne == [r \in Requests |-> Wish(req[r])]
DidInOne == [r \in Requests |-> Effect(r)]

Library == INSTANCE OneLibrary WITH
  titles <- TitlesInOne, tags <- TagsInOne,
  stage <- StageInOne, asked <- AskedInOne, did <- DidInOne

\* Seerr sees one library: each add makes at most one title, under an ID that
\* nothing else has, and Seerr is given that ID or none; an update touches the title
\* it names; tags are made and sent only with labels that the request asked for;
\* and what fails or is cut off has touched no title (app.py:245-299,
\* routing.py:127-192, service.py:68-108).
ImplementsOneLibrary == Library!Spec
==============================================================================
