------------------------------ MODULE LcoreIds ------------------------------
(***************************************************************************)
(* The numbers of lcores, as the iterators and the applications use them.  *)
(***************************************************************************)
EXTENDS Integers

CONSTANT RTE_MAX_LCORE

Lcores == 0 .. (RTE_MAX_LCORE - 1)
=============================================================================
