---------------------------- MODULE MCDiskImages ----------------------------
EXTENDS DiskImages

(* The DOS order image has a track and a block of the next.                *)
MCSizes ==
  [f \in Formats |-> IF f = "DO__" THEN {9} ELSE IF f \in {"2IMG", "PO__"} THEN {8} ELSE {3}]
MCPatterns == {<<0, 0>>, <<1, 2>>}
=============================================================================
