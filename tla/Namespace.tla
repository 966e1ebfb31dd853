------------------------------ MODULE Namespace ------------------------------
(***************************************************************************)
(* The merged ID space (proxyseerr/namespace.py).  English IDs are exposed *)
(* as they are, anime IDs shifted by Offset (Settings.id_offset); decoding *)
(* an ID is at once the routing decision and the value sent upstream.      *)
(***************************************************************************)
EXTENDS Integers

CONSTANTS
  Offset,   \* ANIME_ID_OFFSET
  NonIds    \* JSON values that are not integers: null, booleans, strings

\* config._int_env replaces anything below 1 by the default.
ASSUME OffsetAssumption == Offset \in Nat \ {0}
ASSUME NonIdsAssumption == \A v \in NonIds : v \notin Int

English == "english"
Anime == "anime"
Instances == {English, Anime}

encode_id(value, offset) ==
  IF value \in NonIds THEN value
  ELSE IF value <= 0 THEN value ELSE value + offset

\* Mutant: the owner is found but the shift is not taken back.
decode_id_unshifted(value) ==
  [owner |-> IF value \notin NonIds /\ value >= Offset THEN Anime ELSE English, id |-> value]
decode_id(value) ==
  IF value \in NonIds THEN [owner |-> English, id |-> value]
  ELSE IF value >= Offset THEN [owner |-> Anime, id |-> value - Offset]
  ELSE [owner |-> English, id |-> value]

is_anime_id(value) == decode_id(value).owner = Anime

\* What the proxy adds to the IDs in a reply of instance i.
offset_for(i) == IF i = Anime THEN Offset ELSE 0

\* The proxy ID under which the object of instance i with ID n is exposed.
Exposed(i, n) == encode_id(n, offset_for(i))

Other(i) == IF i = Anime THEN English ELSE Anime
==============================================================================
