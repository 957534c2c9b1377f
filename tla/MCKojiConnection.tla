-------------------------- MODULE MCKojiConnection --------------------------
(* A small instance of KojiConnection: two threads, one of which calls a    *)
(* helper that sends two requests; tickets that last one unit of time       *)
(* longer than the threshold.                                              *)
EXTENDS KojiConnection, TLC

CONSTANTS c1, c2

MCRequests == (c1 :> 1 @@ c2 :> 2)
=============================================================================
