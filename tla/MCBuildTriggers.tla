-------------------------- MODULE MCBuildTriggers --------------------------
(* Small instances of BuildTriggers: components x and y that ELN wants and *)
(* z that it does not.                                                     *)
EXTENDS BuildTriggers

CONSTANTS x, y, z, u1, u2

(* Two Rawhide builds of x, and an ELN build of y made from the source of  *)
(* the first (two names of one renamed package).                           *)
MCCompOf == <<x, x, y>>
MCScmUrl == <<u1, u2, u1>>

(* An event of x, one of z, and an ELN build of x that has no source.      *)
MCCompOfMixed == <<x, z, x>>
MCScmUrlMixed == <<u1, u2, NoUrl>>
=============================================================================
