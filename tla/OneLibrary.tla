------------------------------ MODULE OneLibrary ------------------------------
(***************************************************************************)
(* What Seerr is promised when it adds and updates titles (README.md:36-39,*)
(* README.md:54-57): one library with one list of tags.  An add makes one  *)
(* title, an update touches the title it names, and either goes along with *)
(* tags whose labels the request asked for.  A title or a tag has an ID of *)
(* its own.  That there are two instances behind it is nowhere to be seen. *)
(***************************************************************************)
EXTENDS Integers

CONSTANTS
  Requests,  \* the requests, each sent once
  Labels     \* tag labels

VARIABLES
  titles,  \* the IDs of the titles there are
  tags,    \* the tags there ever were, each an ID and a label
  stage,   \* of each request: "idle", "asked" or "ended"
  asked,   \* what each request asks for
  did      \* what came of it, and what Seerr was told

vars == <<titles, tags, stage, asked, did>>

TagIds == {t.id : t \in tags}
\* The IDs of titles Seerr was given.
Given == UNION {did[r].answer : r \in Requests}

\* A new title or the one to update, with tags by their IDs; or labels of new tags.
Wish == [new : BOOLEAN, title : SUBSET Given, tags : SUBSET TagIds, labels : SUBSET Labels]
NoWish == [new |-> FALSE, title |-> {}, tags |-> {}, labels |-> {}]
Nothing == [touched |-> {}, tags |-> {}, ok |-> FALSE, answer |-> {}]

Init ==
  /\ titles = {}
  /\ \A s, t \in tags : s.id = t.id => s = t
  /\ stage = [r \in Requests |-> "idle"]
  /\ asked = [r \in Requests |-> NoWish]
  /\ did = [r \in Requests |-> Nothing]

Ask(r) ==
  /\ stage[r] = "idle"
  /\ stage' = [stage EXCEPT ![r] = "asked"]
  /\ asked'[r] \in Wish
  /\ asked' = [asked EXCEPT ![r] = asked'[r]]
  /\ UNCHANGED <<titles, tags, did>>

\* The labels r asked for, and the tags that have one of them.
Wanted(r) == asked[r].labels \cup {t.label : t \in {s \in tags : s.id \in asked[r].tags}}
Fitting(r) == {t.id : t \in {s \in tags : s.label \in Wanted(r)}}

Ends(r) ==
  /\ stage[r] = "asked"
  /\ stage' = [stage EXCEPT ![r] = "ended"]

\* r is carried out on title id.  Seerr need not be told so.
Does(r, id) ==
  /\ Ends(r)
  /\ did' = [did EXCEPT ![r] = did'[r]]
  /\ did'[r].touched = {id}
  /\ did'[r].tags \subseteq Fitting(r)
  /\ did'[r].ok \in BOOLEAN
  /\ did'[r].answer = IF did'[r].ok /\ asked[r].new THEN {id} ELSE {}
  /\ UNCHANGED <<tags, asked>>

AddTitle(r, id) ==
  /\ asked[r].new
  /\ id \notin titles
  /\ titles' = titles \cup {id}
  /\ Does(r, id)

UpdateTitle(r) ==
  /\ ~asked[r].new
  /\ \E id \in asked[r].title \cap titles : Does(r, id)
  /\ UNCHANGED titles

NewTag(t) ==
  /\ t.id \notin TagIds
  /\ tags' = tags \cup {t}
  /\ UNCHANGED <<titles, asked, did>>

\* A tag made for r has a label r asked for; with its reply r may be lost.
MakeTag(r, t) ==
  /\ stage[r] = "asked"
  /\ t.label \in Wanted(r)
  /\ NewTag(t)
  /\ Ends(r) \/ UNCHANGED stage

\* r ends, and no title was touched.
Fail(r) ==
  /\ Ends(r)
  /\ UNCHANGED <<titles, tags, asked, did>>

\* Others make tags too, and a restart ends what was asked.
OthersTag(t) == NewTag(t) /\ UNCHANGED stage

Restart ==
  /\ stage' = [r \in Requests |-> IF stage[r] = "asked" THEN "ended" ELSE stage[r]]
  /\ UNCHANGED <<titles, tags, asked, did>>

Next ==
  \/ \E r \in Requests :
       \/ Ask(r)
       \/ \E id \in titles' \ titles : AddTitle(r, id)
       \/ UpdateTitle(r)
       \/ \E t \in tags' \ tags : MakeTag(r, t)
       \/ Fail(r)
  \/ \E t \in tags' \ tags : OthersTag(t)
  \/ Restart

Spec == Init /\ [][Next]_vars
==============================================================================
