--------------------------- MODULE MCRecordReplay ---------------------------
(* Instances of RecordSession for TLC: a byte has two values, two lengths    *)
(* fit into the head of a frame, and a mask key has two bytes.               *)
EXTENDS RecordSession

\* A replay's status is asked for, and answered, in every form of a length.
MCSizesOf(text) ==
  CASE text[1] = "unknown" -> {0, 1}
    [] text[1] = "replay.status" -> 1..4
    [] text[1] = "result" -> IF text[2][1] = "replay.status" THEN 1..4 ELSE {1}
    [] text[1] = "replay.saved" -> {3}
    [] OTHER -> {1}

\* A text in one frame, in a first fragment, and in a frame with a reserved bit;
\* what names no method also in a last fragment, a control frame and a close.
MCFirstBytesOf(text) ==
  {FinBit + Text}
  \cup (IF text[1] \in {"unknown", "replay.start", "replay.save"} THEN {Text, FinBit + 64 + Text} ELSE {})
  \cup (IF text[1] = "unknown" THEN {FinBit + Ping, FinBit + Close, FinBit + Continuation} ELSE {})

\* Ids and destinations are only compared.
Symmetry == Permutations(RecordIds) \cup Permutations(ReplayIds) \cup Permutations(Destinations)
=============================================================================
