----------------------------- MODULE MCService -----------------------------
(***************************************************************************)
(* Service as TLC runs it: a child and then its parent, the order in which *)
(* the names of both such pairs of the catalog put them.                   *)
(***************************************************************************)
EXTENDS Service

ChildFirst == <<2, 0>>
=============================================================================
