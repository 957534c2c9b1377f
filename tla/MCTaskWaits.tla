---------------------------- MODULE MCTaskWaits ----------------------------
(* Small instances of TaskWaits: one task the poll asks about while the    *)
(* other waits its turn.                                                   *)
EXTENDS TaskWaits

CONSTANTS t1, t2
=============================================================================
