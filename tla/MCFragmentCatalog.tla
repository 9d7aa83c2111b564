-------------------------- MODULE MCFragmentCatalog --------------------------
(* Three fragments, the least that can break the overlap rule, on a video of two *)
(* instants: a fragment covers one of them or both.                        *)
EXTENDS FragmentCatalog

TwoInstants == SUBSET {1, 2} \ {{}}
OneInstant == {{1}, {2}}
=============================================================================
