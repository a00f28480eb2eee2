--------------------------- MODULE MCHandlerRoute ---------------------------
(* Values for the constants of HandlerRoute. *)
EXTENDS HandlerRoute, TLC

CONSTANTS r1, r2, p1, p2

\* 0.04 ms a token rounds down for 10 tokens and up for 13.
Short == [r \in Request |-> IF r = r1 THEN 10 ELSE 13]

\* The pods are alike.
PodsAlike == Permutations(Pod)
============================================================================
