---------------------------- MODULE MCCatalogue ------------------------------
(***************************************************************************)
(* The instance of Catalogue that TLC checks.                              *)
(***************************************************************************)
EXTENDS Catalogue

CONSTANTS v1, d1

Events == [k \in EventKinds |-> CASE k = "gone" -> 3 [] k = "wall" -> 2 [] OTHER -> 1]
=============================================================================
