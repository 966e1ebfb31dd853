------------------------------ MODULE MCIdRouting ------------------------------
(***************************************************************************)
(* Requests for TLC.  Each instance hands out the IDs 1 and 2; Offset is 3, *)
(* so Seerr sees the anime instance's as 4 and 5.                          *)
(***************************************************************************)
EXTENDS IdRouting

CONSTANT null

MCNative == {1, 2}
MCNonIds == {null}

Bare(route, want) ==
  [route |-> route, want |-> want, path |-> {}, query |-> {}, seen |-> {},
   unseen |-> {}, verbatim |-> {}, gate |-> "open"]

ById == {[Bare("item", w) EXCEPT !.path = {4}] : w \in {"read", "delete"}}
JobById == {
  [Bare("command_by_id", "poll") EXCEPT !.path = {1}],
  [Bare("command_by_id", "cancel") EXCEPT !.path = {4}]}
Commands == {[Bare("command", "run") EXCEPT !.seen = s] : s \in {{}, {4, 5}, {null}}}
Details == {[Bare("queue_details", "read") EXCEPT !.query = s] : s \in {{1, 2}, {4, null}}}
Others == {
  [Bare("catch_all", "edit") EXCEPT !.seen = {1, 2}],
  [Bare("catch_all", "edit") EXCEPT !.seen = {4, 5}],
  [Bare("catch_all", "edit") EXCEPT !.path = {5}, !.unseen = {5}, !.seen = {4}],
  [Bare("catch_all", "read") EXCEPT !.query = {4}],
  [Bare("catch_all", "delete") EXCEPT !.path = {4}, !.query = {null}],
  [Bare("catch_all", "edit") EXCEPT !.path = {2}, !.verbatim = {1}]}
\* These routes send the query on as it is, which is right for English IDs.
WithQuery == {
  [Bare("item", "read") EXCEPT !.path = {2}, !.query = {1}],
  [Bare("command", "run") EXCEPT !.seen = {2}, !.query = {1, null}],
  [Bare("command_by_id", "cancel") EXCEPT !.path = {1}, !.query = {2}]}
Refused == {
  [Bare("command", "run") EXCEPT !.gate = "no_key"],
  [Bare("command", "run") EXCEPT !.gate = "too_large"],
  [Bare("catch_all", "delete") EXCEPT !.path = {4}, !.gate = "unsafe_path"]}

SoundRequests == ById \cup JobById \cup Commands \cup Details \cup Others
  \cup WithQuery \cup Refused
ASSUME \A r \in SoundRequests : Unambiguous(r)

\* One command for a title of each instance.
MixedRequests == {[Bare("command", "run") EXCEPT !.seen = {1, 5}]}
==============================================================================
