----------------------------- MODULE MCDeadlines -----------------------------
(* Deadlines for TLC: a request slot is a model value, and a tick is 5 seconds. *)
EXTENDS Deadlines

CONSTANTS c1, h1

BothServices == <<"sonarr", "radarr">>
==============================================================================
