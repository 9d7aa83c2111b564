---------------------------- MODULE MCSearchIndexer ----------------------------
(* Model-checking instances of SearchIndexer: the sets are given in the cfg files, *)
(* as model values.                                                        *)
EXTENDS SearchIndexer
===============================================================================
