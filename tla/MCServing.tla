------------------------------ MODULE MCServing ------------------------------
(* Serving for TLC: a request slot is a model value, and a tick is 5 seconds. *)
EXTENDS Serving

CONSTANTS c1, c2, h1, h2

BothServices == <<"sonarr", "radarr">>
OneService == <<"sonarr">>
==============================================================================
