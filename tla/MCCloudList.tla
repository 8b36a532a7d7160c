----------------------------- MODULE MCCloudList -----------------------------
(* The snapshot of a query is ordered by the documents, so only the users are *)
(* interchangeable.                                                           *)
EXTENDS CloudList

ListSymmetry == Permutations(Accounts)
=============================================================================
