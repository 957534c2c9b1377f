----------------------------- MODULE MCSessions -----------------------------
(* A small instance of Sessions: two logins and two callbacks at once, two *)
(* sessions, one request at a time.                                        *)
EXTENDS Sessions

CONSTANTS f1, f2, h1, h2, s1, s2, r1
=============================================================================
