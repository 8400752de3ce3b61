---------------------------- MODULE MCBootstrap ----------------------------
(* The first deployment on a small instance.                                 *)
EXTENDS Bootstrap

T4 == <<1, 2, 4, 6>>
=============================================================================
