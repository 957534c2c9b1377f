--------------------------- MODULE MCRebuildBatch ---------------------------
(* A small instance of RebuildBatch: a slice of two builds, in which one    *)
(* can fail alone and both together, and a slice of one.  The components of *)
(* t1, t3 and t4 share a URL: t4's is in the slice of t1, t3's in the next. *)
EXTENDS RebuildBatch, TLC

CONSTANTS t1, t2, t3, t4, url1, url2

MCScmUrl == (t1 :> url1 @@ t2 :> url2 @@ t3 :> url1 @@ t4 :> url1)
MCOrder  == (t1 :> 1 @@ t2 :> 1 @@ t3 :> 2 @@ t4 :> 1)
=============================================================================
