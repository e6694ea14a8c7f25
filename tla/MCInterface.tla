---------------------------- MODULE MCInterface ----------------------------
(* Interface for TLC.                                                        *)
EXTENDS Interface, TLC

ThreeContents == { <<>>, <<"text">>, <<"thinking", "text", "call">> }

\* prompts, compactions and widgets of a kind are alike
Symmetry == Permutations(Typed) \union Permutations(Compaction) \union Permutations(Widget)
=============================================================================
