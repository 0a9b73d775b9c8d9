---------------------------- MODULE MCAVRFraming ----------------------------
(* Packets of exactly one block; MCSerialLine has the others.              *)
EXTENDS AVRFraming

\* Eight bytes of which those from first to last are 0xFF.
BlockPayloads ==
  {[k \in 1 .. 8 |-> IF k \in first .. last THEN 255 ELSE 65] : first \in 1 .. 9, last \in 0 .. 8}
=============================================================================
