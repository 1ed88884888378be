--------------------------- MODULE UnorderedSession ---------------------------
(***************************************************************************)
(* A session over a network that gives no guarantee at all: any packet     *)
(* ever put on the wire, handshake packets included, reaches its receiver  *)
(* at any time, any number of times or never, and may arrive with another  *)
(* sequence number in its header, so that its signature no longer fits.    *)
(***************************************************************************)
EXTENDS SessionPair

CONSTANT DamagedNumbers  \* the sequence numbers a damaged header may show

ASSUME NumbersAssumption == DamagedNumbers \subseteq Nat

pairVars == <<peerVars, histVars>>

OnWire(p) == {wire[p][i] : i \in 1 .. Len(wire[p])}

Damaged(pkt) == {[pkt EXCEPT !.hdr.seq = n] : n \in DamagedNumbers \ {pkt.hdr.seq}}

\* What the network can put in front of p.
Arriving(p) ==
    LET pkts == OnWire(Other(p))
    IN  pkts \cup UNION {Damaged(pkt) : pkt \in pkts}

ReceiveAny(p) ==
    \E pkt \in Arriving(p) :
        \/ p = Bob /\ ReceiveInit(pkt)
        \/ p = Alice /\ ReceiveResp(pkt)
        \/ ReceiveData(p, pkt)

UnorderedNext ==
    \/ Connect
    \/ \E p \in Peers :
        \/ HandshakeFails(p)
        \/ Send(p)
        \/ SendFails(p)
        \/ SendRefused(p)
        \/ Compromise(p)
        \/ ReceiveAny(p)

UnorderedSpec == PairInit /\ [][UnorderedNext]_pairVars

=============================================================================
