------------------------------- MODULE MCRelay -------------------------------
(* RelayServer for TLC.                                                     *)
EXTENDS RelayServer, TLC

\* Connections and clients are interchangeable.
Symmetry == Permutations(Conns) \cup Permutations(Clients)

\* For the liveness properties, which symmetry reduction is not sound for: one client has
\* two of the three connections and the other has the third.  Which ones these are makes
\* no difference.
Ownership ==
    CHOOSE f \in [Conns -> Clients] :
        \E c \in Clients : Cardinality({k \in Conns : f[k] = c}) = 2

LiveInit == Init /\ owner = Ownership

LiveSpec == LiveInit /\ [][Next]_vars /\ Fairness
=============================================================================
