----------------------------- MODULE MCCatalog -----------------------------
(***************************************************************************)
(* Small instances of Catalog.tla for TLC.                                 *)
(***************************************************************************)
EXTENDS Catalog, TLC

Symmetric ==
    Permutations(Calls) \cup Permutations(Tenants) \cup Permutations(Names)
    \cup Permutations(Services) \cup Permutations(Categories) \cup Permutations(Staff)

=============================================================================
