------------------------ MODULE MCCheckedTransition ------------------------
(* Three names, the chains of the original and the replacement and a spare *)
(* one.                                                                    *)
EXTENDS CheckedTransition

MCNames == {"target", "stage", "backup"}
MCChains == {1, 2, 3}
=============================================================================
