-------------------------- MODULE MCConfiguration --------------------------
(* A small instance of Configuration: a revision that asks for everything, *)
(* one that forces b in and excludes a, and one that is broken; Content     *)
(* Resolver may list a component that was never built.                     *)
EXTENDS Configuration, TLC

CONSTANTS a, b, orphan, r1, r2, broken

MCOverrides == (r1 :> {} @@ r2 :> {b})
MCExcluded == (r1 :> {} @@ r2 :> {a})
MCLists == {{}, {a, b, orphan}}
=============================================================================
