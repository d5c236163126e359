------------------------------ MODULE MCMining ------------------------------
(***************************************************************************)
(* Mining with two tips the main chain can move between and four jobs      *)
(* before events cease.                                                    *)
(***************************************************************************)
EXTENDS Mining
=============================================================================
