----------------------------- MODULE MCTenancy -----------------------------
(***************************************************************************)
(* Small instances of Tenancy.tla for TLC.                                 *)
(***************************************************************************)
EXTENDS Tenancy, TLC

Symmetric ==
    Permutations(Calls) \cup Permutations(TenantIds \ {Home})
    \cup Permutations(Slugs \ {HomeSlug})

=============================================================================
