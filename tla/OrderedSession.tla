---------------------------- MODULE OrderedSession ----------------------------
(***************************************************************************)
(* A session over a transport that keeps the order of packets, as the      *)
(* comment in DecryptMessage presumes.  It may lose packets the sender     *)
(* gave up on, and hand over again a packet it has handed over before.     *)
(***************************************************************************)
EXTENDS SessionPair

CONSTANT RepeatTypes  \* the packet types that may be handed over again

VARIABLE got  \* how many of the packets the other peer sent were handed to a peer

vars == <<peerVars, histVars, got>>

Init == PairInit /\ got = [p \in Peers |-> 0]

\* The next packet of the other peer, in order.
Receive(p) ==
    LET pkt == wire[Other(p)][got[p] + 1]
    IN  /\ got[p] < Len(wire[Other(p)])
        /\ got' = [got EXCEPT ![p] = @ + 1]
        /\ \/ p = Bob /\ ReceiveInit(pkt)
           \/ p = Alice /\ ReceiveResp(pkt)
           \/ ReceiveData(p, pkt)

\* A packet that was handed over before comes again.
Repeat(p) ==
    \E i \in 1 .. got[p] :
        /\ wire[Other(p)][i].hdr.type \in RepeatTypes
        /\ ReceiveData(p, wire[Other(p)][i])
        /\ UNCHANGED got

Next ==
    \/ Connect /\ UNCHANGED got
    \/ \E p \in Peers :
        \/ HandshakeFails(p) /\ UNCHANGED got
        \/ Send(p) /\ UNCHANGED got
        \/ SendFails(p) /\ UNCHANGED got
        \/ SendRefused(p) /\ UNCHANGED got
        \/ Compromise(p) /\ UNCHANGED got
        \/ Receive(p)
        \/ Repeat(p)

Spec == Init /\ [][Next]_vars

\* handleSend connects without waiting for anyone, and the transport hands over
\* what it holds; nobody is obliged to send.
Progress == (Connect /\ UNCHANGED got) \/ \E p \in Peers : Receive(p)

\* A responder that returns closes the connection (main.go:164), which ends the
\* initiator's wait for the response.
HungUp == phase[Bob] \in {"closed", "failed"} /\ HandshakeFails(Alice) /\ UNCHANGED got

FairSpec == Spec /\ WF_vars(Progress) /\ WF_vars(HungUp)

-----------------------------------------------------------------------------
Keys == Peers \X (1 .. 3 + 2 * MaxMessages)

\* Types; a session is established exactly while its driver's connection is open.
TypeOK ==
    /\ \A p \in Peers :
        /\ session[p].isEstablished \in BOOLEAN
        /\ session[p].outSequence \in 0 .. MaxMessages
        /\ session[p].replayWin \in [maxSeq : 0 .. MaxMessages, bitmap : SUBSET BitPositions]
        /\ session[p].ratchet.DHsLocal \in Keys \cup {NoKey}
        /\ session[p].ratchet.DHrPeer \in Keys \cup {NoKey}
        /\ phase[p] \in Idle \cup {"waiting", "open", "closed", "failed"}
        /\ phase[p] = "open" <=> session[p].isEstablished
        /\ got[p] \in 0 .. Len(wire[Other(p)])
    /\ ephPriv \in Keys \cup {NoKey}

\* The two root keys never part: one is the other plus the secret of the DH step
\* its peer has yet to make, whatever was lost, refused or handed over again.
RootsAgree ==
    session[Alice].isEstablished =>
        \E p \in Peers :
            LET r == session[p].ratchet.RK
                s == session[Other(p)].ratchet.RK
            IN  Len(s) = Len(r) + 1 /\ SubSeq(s, 1, Len(r)) = r

Lost(p, pkt) ==
    \E mk \in lost[p] : mk.root = pkt.body.mk.root /\ mk.step < pkt.body.mk.step

\* Every data packet handed to a peer was opened, unless an earlier message of the
\* same sending chain was lost.  Without loss nothing is refused, and a chain on
\* which nothing was lost is read completely.
OpenedOrChainBroken ==
    \A p \in Peers : \A i \in 1 .. got[p] :
        LET pkt == wire[Other(p)][i]
        IN  pkt.hdr.type = "data" => pkt.hdr.seq \in Range(delivered[p]) \/ Lost(Other(p), pkt)

\* A data packet that comes again changes nothing: VerifyReplayWindow stops it before
\* the ratchet sees it, also when it has left the window meanwhile.  For handshake
\* packets docs/architecture.md:66 says the same ("reject duplicate or old network
\* packets before decryption"), and the code does not keep it.
RepeatsChangeNothing == [][\A p \in Peers : Repeat(p) => UNCHANGED session]_vars

\* With a pinned peer the handshake completes on both sides unless the connection fails,
\* and then handleSend exits: it never waits for a response that nobody will send, and
\* nobody refuses the other's packet.  A responder that pins no peer (main.go:185) never
\* completes it, but its initiator does not wait for ever either.
HandshakeCompletes ==
    /\ phase[Bob] = "idle" =>
            <>(\/ \A p \in Peers : phase[p] = "open"
               \/ phase[Alice] = "failed" /\ phase[Bob] # "closed")
    /\ phase[Bob] = "unpinned" => <>(phase[Alice] = "failed" /\ phase[Bob] # "open")

\* Each message put on the wire is eventually delivered as plaintext, unless an earlier
\* message of its sending chain was lost: the rest of such a chain is never read.
EventuallyDelivered ==
    []<>(\A p \in Peers : \A i \in DOMAIN wire[p] :
            LET pkt == wire[p][i]
            IN  pkt.hdr.type = "data" => pkt.hdr.seq \in Range(delivered[Other(p)]) \/ Lost(p, pkt))

=============================================================================
