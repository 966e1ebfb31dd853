--------------------------- MODULE NamespaceProofs ---------------------------
(***************************************************************************)
(* The merged ID space for every offset: what an instance hands out comes  *)
(* back to it, and two objects never share an ID.                          *)
(***************************************************************************)
EXTENDS Namespace, TLAPS

\* An ID the instance may hand out: positive, and on the English one below the
\* offset, which ANIME_ID_OFFSET is chosen for (config.py:10-13).
HandedOut(i, n) == n \in Nat \ {0} /\ (i = English => n < Offset)

\* What encode_id yields, spelled out for each instance.
LEMMA ExposedValue ==
  ASSUME NEW i \in Instances, NEW n \in Nat \ {0}
  PROVE  Exposed(i, n) = IF i = Anime THEN n + Offset ELSE n
<1>1. n \notin NonIds /\ Offset \in Nat
  BY OffsetAssumption, NonIdsAssumption
<1>2. encode_id(n, offset_for(i)) = n + offset_for(i)
  BY <1>1 DEF encode_id
<1>3. offset_for(i) = IF i = Anime THEN Offset ELSE 0
  BY DEF offset_for
<1> QED
  BY <1>1, <1>2, <1>3 DEF Exposed

\* decode_id takes the shift back from an integer at or above the offset.
LEMMA DecodedAnime ==
  ASSUME NEW v \in Int, v >= Offset
  PROVE  decode_id(v) = [owner |-> Anime, id |-> v - Offset]
  BY NonIdsAssumption DEF decode_id

\* An integer below the offset stays as it is.
LEMMA DecodedEnglish ==
  ASSUME NEW v \in Int, ~(v >= Offset)
  PROVE  decode_id(v) = [owner |-> English, id |-> v]
  BY NonIdsAssumption DEF decode_id

\* decode_id undoes what encode_id does: the instance that handed an ID out is
\* the one it is routed to, and the ID sent there is its own (namespace.py:5-7).
THEOREM RoundTrip ==
  ASSUME NEW i \in Instances, NEW n \in Nat, HandedOut(i, n)
  PROVE  decode_id(Exposed(i, n)) = [owner |-> i, id |-> n]
<1>1. n \in Nat \ {0} /\ Offset \in Nat \ {0}
  BY OffsetAssumption DEF HandedOut
<1>2. CASE i = Anime
  <2>1. Exposed(i, n) = n + Offset
    BY <1>1, <1>2, ExposedValue
  <2> DEFINE v == n + Offset
  <2>2. v \in Int /\ v >= Offset /\ v - Offset = n
    BY <1>1
  <2> HIDE DEF v
  <2>3. decode_id(v) = [owner |-> Anime, id |-> v - Offset]
    BY <2>2, DecodedAnime
  <2> QED
    BY <1>2, <2>1, <2>2, <2>3 DEF v
<1>3. CASE i = English
  <2>1. Exposed(i, n) = n
    BY <1>1, <1>3, ExposedValue DEF English, Anime
  <2>2. ~(n >= Offset)
    BY <1>1, <1>3 DEF HandedOut
  <2> QED
    BY <1>3, <2>1, <2>2, DecodedEnglish
<1> QED
  BY <1>2, <1>3 DEF Instances

\* English series 42 and anime series 42 are told apart, and so is every pair.
THEOREM NoTwoShareAnId ==
  ASSUME NEW i \in Instances, NEW j \in Instances, NEW n \in Nat, NEW m \in Nat,
         HandedOut(i, n), HandedOut(j, m), Exposed(i, n) = Exposed(j, m)
  PROVE  i = j /\ n = m
<1>1. decode_id(Exposed(i, n)) = [owner |-> i, id |-> n]
  BY RoundTrip
<1>2. decode_id(Exposed(j, m)) = [owner |-> j, id |-> m]
  BY RoundTrip
<1> QED
  BY <1>1, <1>2

\* And the other way: an ID Seerr sends is the one under which its object is
\* exposed, so answering an update shows Seerr the ID it used.  Exactly the
\* anime ID 0, which no instance hands out, breaks it.
THEOREM DecodedIsExposed ==
  ASSUME NEW v \in Int, v # Offset
  PROVE  Exposed(decode_id(v).owner, decode_id(v).id) = v
<1>1. v \notin NonIds /\ Offset \in Nat \ {0}
  BY OffsetAssumption, NonIdsAssumption
<1>2. CASE v >= Offset
  <2>1. decode_id(v) = [owner |-> Anime, id |-> v - Offset]
    BY <1>2, DecodedAnime
  <2>2. v - Offset \in Nat \ {0}
    BY <1>1, <1>2
  <2>3. Exposed(Anime, v - Offset) = v - Offset + Offset
    BY <2>2, ExposedValue DEF Instances
  <2> QED
    BY <1>1, <2>1, <2>3
<1>3. CASE ~(v >= Offset)
  <2>1. decode_id(v) = [owner |-> English, id |-> v]
    BY <1>3, DecodedEnglish
  <2>2. offset_for(English) = 0
    BY DEF offset_for, English, Anime
  <2>3. encode_id(v, 0) = v
    BY <1>1 DEF encode_id
  <2> QED
    BY <2>1, <2>2, <2>3 DEF Exposed
<1> QED
  BY <1>2, <1>3
==============================================================================
