----------------------------- MODULE MCBundles ------------------------------
(* One set of two steps, three products, two requests and one worker.      *)
EXTENDS Bundles, TLC

CONSTANTS b1, p1, p2, p3, s1, s2, e1, e2, w1, w2

Symmetry == Permutations(Products) \cup Permutations(Steps) \cup Permutations(Editors)
            \cup Permutations(Workers)
=============================================================================
