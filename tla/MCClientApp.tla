----------------------------- MODULE MCClientApp -----------------------------
EXTENDS ClientApp, TLC

\* Goroutines and connections are interchangeable.
Symmetry == Permutations(Threads) \cup Permutations(Conns)
=============================================================================
