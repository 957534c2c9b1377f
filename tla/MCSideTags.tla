----------------------------- MODULE MCSideTags -----------------------------
(* Small instances of SideTags: two builds, of which one can be in the tag *)
(* while the other is not.                                                 *)
EXTENDS SideTags

CONSTANTS n1, n2
=============================================================================
