------------------------------ MODULE MCRename ------------------------------
(* Model-checking instance of Rename.                                      *)
EXTENDS Rename
=============================================================================
