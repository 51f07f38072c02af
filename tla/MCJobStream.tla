---------------------------- MODULE MCJobStream ------------------------------
(* Plans: refresh tokens in two tabs without streams, with and without the    *)
(* end of tokens and accounts, and streams with one token.                     *)
EXTENDS JobStream, TLC

MCPlans ==
    {[tokens |-> 4, ends |-> 0, tickets |-> 0, updates |-> 0],
     [tokens |-> 3, ends |-> 2, tickets |-> 0, updates |-> 0],
     [tokens |-> 1, ends |-> 1, tickets |-> 2, updates |-> 2]}

\* The tabs differ in nothing.
TabSymmetry == Permutations(Tabs)
=============================================================================
