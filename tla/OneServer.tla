------------------------------- MODULE OneServer -------------------------------
(***************************************************************************)
(* What Seerr is promised (README.md:36-39): one server with one ID space. *)
(* A request names some IDs and touches exactly what they name, or fails.  *)
(* That there are two instances behind it is nowhere to be seen.           *)
(***************************************************************************)
EXTENDS Integers

CONSTANTS TitleIds, JobIds   \* the IDs the one server hands out

VARIABLES
  titles,  \* the titles there are
  jobs,    \* the commands at work, each with the IDs it is about
  busy,    \* a request is being served
  asked,   \* the last request: what it wants, and the IDs in it
  touched, \* the titles it did something to
  started, \* the jobs it started
  answer   \* its answer: did it succeed, and the IDs in it

vars == <<titles, jobs, busy, asked, touched, started, answer>>

Wants == {"read", "delete", "edit", "run", "poll", "cancel"}
Ok(ids) == [ok |-> TRUE, ids |-> ids]
Failed == [ok |-> FALSE, ids |-> {}]

Init ==
  /\ titles \subseteq TitleIds
  /\ jobs = {}
  /\ ~busy
  /\ asked = [want |-> "read", ids |-> {}]
  /\ touched = {}
  /\ started = {}
  /\ answer = Failed

Ask(want, ids) ==
  /\ ~busy
  /\ busy'
  /\ asked' = [want |-> want, ids |-> ids]
  /\ touched' = {}
  /\ started' = {}
  /\ answer' = Failed
  /\ UNCHANGED <<titles, jobs>>

Serves(want) == busy /\ asked.want = want /\ ~busy' /\ UNCHANGED <<asked, started>>

\* It tells what there is of what was named.
Read ==
  /\ Serves("read")
  /\ answer' = Ok(asked.ids \cap titles)
  /\ UNCHANGED <<titles, jobs, touched>>

Poll ==
  /\ Serves("poll")
  /\ answer' = Ok(asked.ids \cap {j.id : j \in jobs})
  /\ UNCHANGED <<titles, jobs, touched>>

\* The others may succeed without Seerr being told so.
Delete ==
  /\ Serves("delete")
  /\ titles' = titles \ asked.ids
  /\ touched' = asked.ids \cap titles
  /\ answer' \in {Ok({}), Failed}
  /\ UNCHANGED jobs

Edit ==
  /\ Serves("edit")
  /\ touched' = asked.ids \cap titles
  /\ answer' \in {Ok({}), Failed}
  /\ UNCHANGED <<titles, jobs>>

Cancel ==
  /\ Serves("cancel")
  /\ jobs' = {j \in jobs : j.id \notin asked.ids}
  /\ answer' \in {Ok({}), Failed}
  /\ UNCHANGED <<titles, touched>>

\* A command becomes a job about what it names; one that names nothing may
\* become several, and then ends with the ID of one of them.
Run(id) ==
  /\ busy /\ asked.want = "run"
  /\ \A j \in jobs : j.id # id
  /\ jobs' = jobs \cup {[id |-> id, about |-> asked.ids]}
  /\ started' = started \cup {id}
  /\ touched' = asked.ids \cap titles
  /\ \/ asked.ids = {} /\ busy' /\ UNCHANGED answer
     \/ ~busy' /\ answer' \in {Ok({n}) : n \in started'} \cup {Failed}
  /\ UNCHANGED <<titles, asked>>

Started ==
  /\ Serves("run")
  /\ answer' \in {Ok({n}) : n \in started}
  /\ UNCHANGED <<titles, jobs, touched>>

Fail ==
  /\ busy /\ ~busy'
  /\ answer' = Failed
  /\ UNCHANGED <<titles, jobs, asked, touched, started>>

\* Behind the proxy's back titles come and go and jobs end.
Appear(n) ==
  /\ titles' = titles \cup {n}
  /\ UNCHANGED <<jobs, busy, asked, touched, started, answer>>

Vanish(n) ==
  /\ titles' = titles \ {n}
  /\ UNCHANGED <<jobs, busy, asked, touched, started, answer>>

End(j) ==
  /\ jobs' = jobs \ {j}
  /\ UNCHANGED <<titles, busy, asked, touched, started, answer>>

Next ==
  \/ \E want \in Wants : \E ids \in SUBSET (TitleIds \cup JobIds) : Ask(want, ids)
  \/ Read \/ Poll \/ Delete \/ Edit \/ Cancel
  \/ \E n \in JobIds : Run(n)
  \/ Started
  \/ Fail
  \/ \E n \in TitleIds : Appear(n) \/ Vanish(n)
  \/ \E j \in jobs : End(j)

Spec == Init /\ [][Next]_vars
==============================================================================
