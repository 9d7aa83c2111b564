---------------------------- MODULE MCSearchRebuild ----------------------------
(* Model-checking instances of SearchRebuild: the sets are given in the cfg files, *)
(* as model values.                                                        *)
EXTENDS SearchRebuild
===============================================================================
