--------------------------- MODULE MCTextureCache ---------------------------
EXTENDS TextureCache, TLC

(* Two units that compete for two entries, with a guest that synchronises; *)
(* and longer lists, with one that writes what is being read.              *)
MCSetups == {[entries |-> 2, units |-> 2, waits |-> TRUE],
             [entries |-> 3, units |-> 1, waits |-> FALSE]}

(* Which binding g_malloc gives is of no consequence.                      *)
MCSymmetry == Permutations(Bindings)
=============================================================================
