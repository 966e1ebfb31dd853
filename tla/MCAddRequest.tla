----------------------------- MODULE MCAddRequest -----------------------------
(* AddRequest for TLC, in two instances: routing (no tags) and tags.         *)
EXTENDS AddRequest, TLC

CONSTANTS r1, r2, null, p1, p2, none, l1, l2

Body(id, profile, folder, path, anime, tags) ==
  [json |-> TRUE, path |-> path, anime |-> anime, tags |-> tags,
   ids |-> [f \in AddIdHints |-> CASE f = "id" -> id
                                  [] f = "qualityProfileId" -> profile
                                  [] f = "rootFolderId" -> folder]]

\* One body for each rule of choose_for_add, and one that is not JSON.
RoutingPayloads ==
  {NoPayload,
   Body(null, 1, null, p1, FALSE, <<>>),             \* folder, or keyword
   Body(null, 1, null, p2, FALSE, <<>>),             \* folder, or default
   Body(null, 1, null, p2, TRUE, <<>>),              \* folder, or series type
   Body(null, Offset + 1, null, p2, FALSE, <<>>),    \* hint in the profile
   Body(null, 1, Offset + 1, none, FALSE, <<>>)}     \* hint in rootFolderId

\* For either instance: a tag of the other one's, alone or with one of its own.
TagPayloads ==
  {Body(null, 1, null, none, FALSE, <<null, Offset + 1>>),
   Body(null, 1, null, none, FALSE, <<2, Offset + 1>>),
   Body(null, Offset + 1, null, none, FALSE, <<2>>),
   Body(null, Offset + 1, null, none, FALSE, <<1, Offset + 1>>)}

On(anime, english) == [i \in Instances |-> IF i = Anime THEN anime ELSE english]

\* Apart as the keyword has it, the other way round, with a dummy anime folder
\* on the English instance, and all on one side.
SomeFolders ==
  {On({p1}, {p2}), On({p2}, {p1}), On({p1, p2}, {p1}), On({}, {p1, p2})}
NoFolders == {On({}, {})}

NoTags == {On({}, {})}
\* The same label under other IDs, and one label that only one side has.
SomeTags ==
  {On({[id |-> 1, label |-> l2]}, {[id |-> 1, label |-> l1], [id |-> 2, label |-> l2]})}

Symmetric == Permutations(Requests)
==============================================================================
