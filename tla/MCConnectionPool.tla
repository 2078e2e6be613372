-------------------------- MODULE MCConnectionPool --------------------------
(***************************************************************************)
(* Instances of ConnectionPool for TLC.                                    *)
(***************************************************************************)
EXTENDS ConnectionPool, TLC

CONSTANTS w1, w2, c1, c2, c3, c4, c5, c6, c7

\* Threads and connections are told apart by nothing but what they do; the
\* engine's connection stays as it is.
Symmetry == Permutations(Threads) \cup Permutations(Conns \ {Engine})

=============================================================================
