----------------------------- MODULE SessionPair -----------------------------
(***************************************************************************)
(* Two peers with one session: the initiator runs handleSend, the          *)
(* responder handleIncomingConn (cmd/palagos/main.go).  This module has    *)
(* the peers' state and what they do with a packet; OrderedSession and     *)
(* UnorderedSession add the network that hands packets over.               *)
(*                                                                         *)
(* The session API is symmetric once the handshake is done, so both peers  *)
(* may send and both run the receive loop of handleIncomingConn.           *)
(***************************************************************************)
EXTENDS Session, FiniteSets, Functions

CONSTANTS Alice, Bob,    \* the initiator and the responder
          MaxMessages,   \* bound: calls of EncryptMessage per peer
          MaxLost        \* bound: sealed packets per peer that never reach the wire

ASSUME PeersAssumption == Alice # Bob
ASSUME BoundsAssumption == MaxMessages \in Nat /\ MaxLost \in Nat

VARIABLES
    session,    \* the peer's Session
    phase,      \* where the peer's driver is: "idle" (or "unpinned": a responder that was
                \* started without -peer-pub), "waiting" for the response (initiator
                \* only), "open", "closed" after a bad handshake, or "failed" when the
                \* connection failed before it was open
    ephPriv,    \* the key pair handleSend keeps between request and response
    nkeys,      \* how many key pairs the peer has generated
    wire,       \* every packet the peer put on the wire, oldest first
    sealed,     \* history: the message keys the peer sealed with, oldest first
    lost,       \* history: the message keys of the packets that never reached the wire
    opened,     \* history: the message keys the peer opened a box with
    delivered,  \* history: the texts DecryptMessage returned to the peer, in order
    stolen      \* history: a copy of the peer's ratchet as of some moment

peerVars == <<session, phase, ephPriv, nkeys, wire>>
histVars == <<sealed, lost, opened, delivered, stolen>>

Peers == {Alice, Bob}
Other(p) == IF p = Alice THEN Bob ELSE Alice

\* A nil key is not a key pair of either peer.
ASSUME NoKeyAssumption == NoKey \notin Peers \X Nat

Fresh(p) == <<p, nkeys[p] + 1>>
Generated(p, n) == nkeys' = [nkeys EXCEPT ![p] = @ + n]

Idle == {"idle", "unpinned"}

-----------------------------------------------------------------------------
PairInit ==
    /\ session = [p \in Peers |-> NewSession]
    /\ phase \in [Peers -> Idle] /\ phase[Alice] = "idle"
    /\ ephPriv = NoKey
    /\ nkeys = [p \in Peers |-> 0]
    /\ wire = [p \in Peers |-> <<>>]
    /\ sealed = [p \in Peers |-> <<>>]
    /\ lost = [p \in Peers |-> {}]
    /\ opened = [p \in Peers |-> {}]
    /\ delivered = [p \in Peers |-> <<>>]
    /\ stolen = [p \in Peers |-> NoRatchet]

\* handleSend dials, sends its request and waits for the response.
Connect ==
    /\ phase[Alice] = "idle"
    /\ phase' = [phase EXCEPT ![Alice] = "waiting"]
    /\ ephPriv' = Fresh(Alice)
    /\ Generated(Alice, 1)
    /\ wire' = [wire EXCEPT ![Alice] = Append(@, CreateHandshakeInit(Alice, Fresh(Alice)))]
    /\ UNCHANGED session
    /\ UNCHANGED histVars

\* Dial, a SendPacket or a ReceivePacket of the handshake returns an error, or the other
\* side has hung up: handleSend exits, handleIncomingConn returns and drops its session.
HandshakeFails(p) ==
    /\ phase[p] \in Idle \cup {"waiting"}
    /\ phase' = [phase EXCEPT ![p] = "failed"]
    /\ UNCHANGED <<session, ephPriv, nkeys, wire>>
    /\ UNCHANGED histVars

\* The key the responder verifies the request with: without -peer-pub the first 32
\* bytes of its payload, which are the initiator's ephemeral X25519 key.
PeerKey(pkt) == IF phase[Bob] = "unpinned" THEN pkt.body.text ELSE Alice

\* Mutated form: the response is made and not sent.
SilentReceiveInit(pkt) ==
    /\ phase[Bob] \in Idle
    /\ HandshakeValid(pkt, "init", PeerKey(pkt))
    /\ session' = [session EXCEPT ![Bob] =
                     ProcessHandshakeInit(@, Bob, pkt, Fresh(Bob)).session]
    /\ phase' = [phase EXCEPT ![Bob] = "open"]
    /\ Generated(Bob, 1)
    /\ UNCHANGED <<ephPriv, wire>>
    /\ UNCHANGED histVars

\* handleIncomingConn, steps 1 and 2; on a bad packet it closes the connection.
ReceiveInit(pkt) ==
    /\ phase[Bob] \in Idle
    /\ IF HandshakeValid(pkt, "init", PeerKey(pkt))
       THEN LET h == ProcessHandshakeInit(session[Bob], Bob, pkt, Fresh(Bob))
            IN  /\ session' = [session EXCEPT ![Bob] = h.session]
                /\ phase' = [phase EXCEPT ![Bob] = "open"]
                /\ Generated(Bob, 1)
                /\ wire' = [wire EXCEPT ![Bob] = Append(@, h.resp)]
       ELSE /\ phase' = [phase EXCEPT ![Bob] = "closed"]
            /\ UNCHANGED <<session, nkeys, wire>>
    /\ UNCHANGED ephPriv
    /\ UNCHANGED histVars

\* handleSend, step 2; on a bad packet the program exits.
ReceiveResp(pkt) ==
    /\ phase[Alice] = "waiting"
    /\ IF HandshakeValid(pkt, "resp", Bob)
       THEN /\ session' = [session EXCEPT ![Alice] =
                              CompleteInitiatorHandshake(@, pkt, ephPriv, Fresh(Alice))]
            /\ phase' = [phase EXCEPT ![Alice] = "open"]
            /\ Generated(Alice, 1)
       ELSE /\ phase' = [phase EXCEPT ![Alice] = "closed"]
            /\ UNCHANGED <<session, nkeys>>
    /\ UNCHANGED <<ephPriv, wire>>
    /\ UNCHANGED histVars

-----------------------------------------------------------------------------
\* sendEncryptedMessage seals first and sends afterwards.  The sealed packet reaches
\* the other peer's side, or it does not (Marshal or SendPacket fails, or the relay
\* loses the packet) and the session has advanced all the same.
Seal(p, reaches) ==
    LET e == EncryptMessage(session[p], p, session[p].outSequence + 1, Fresh(p))
        new == IF session[p].ratchet.CKs = NoChain THEN 1 ELSE 0
    IN  /\ phase[p] = "open"
        /\ session[p].outSequence < MaxMessages
        /\ ~EncryptRefused(session[p])
        /\ session' = [session EXCEPT ![p] = e.session]
        /\ Generated(p, new)
        /\ sealed' = [sealed EXCEPT ![p] = Append(@, e.pkt.body.mk)]
        /\ IF reaches
           THEN /\ wire' = [wire EXCEPT ![p] = Append(@, e.pkt)]
                /\ UNCHANGED lost
           ELSE /\ lost' = [lost EXCEPT ![p] = @ \cup {e.pkt.body.mk}]
                /\ UNCHANGED wire
        /\ UNCHANGED <<phase, ephPriv, opened, delivered, stolen>>

Send(p) == Seal(p, TRUE)

SendFails(p) == Cardinality(lost[p]) < MaxLost /\ Seal(p, FALSE)

\* EncryptMessage returns an error: the responder has not heard from its peer yet.
SendRefused(p) ==
    /\ phase[p] = "open"
    /\ session[p].outSequence < MaxMessages
    /\ EncryptRefused(session[p])
    /\ session' = [session EXCEPT ![p] = AfterRefusedEncrypt(@)]
    /\ UNCHANGED <<phase, ephPriv, nkeys, wire>>
    /\ UNCHANGED histVars

\* One round of the receive loop; an error is reported and the loop continues.
ReceiveData(p, pkt) ==
    /\ phase[p] = "open"
    /\ \E d \in {DecryptMessage(session[p], Other(p), pkt, Fresh(p))} :
        /\ session' = [session EXCEPT ![p] = d.session]
        /\ Generated(p, IF d.session.ratchet.DHsLocal = session[p].ratchet.DHsLocal
                        THEN 0 ELSE 1)
        /\ IF d.result = "ok"
           THEN /\ delivered' = [delivered EXCEPT ![p] = Append(@, pkt.body.text)]
                /\ opened' = [opened EXCEPT ![p] = @ \cup {pkt.body.mk}]
           ELSE UNCHANGED <<delivered, opened>>
    /\ UNCHANGED <<phase, ephPriv, wire, sealed, lost, stolen>>

\* Someone copies the peer's ratchet, once.
Compromise(p) ==
    /\ session[p].isEstablished
    /\ stolen[p] = NoRatchet
    /\ stolen' = [stolen EXCEPT ![p] = session[p].ratchet]
    /\ UNCHANGED peerVars
    /\ UNCHANGED <<sealed, lost, opened, delivered>>

-----------------------------------------------------------------------------
\* What a copy of a ratchet gives away, together with everything on the wire: the
\* message keys ahead on its two chains, those put aside, and those of every
\* root that adds to its own only secrets its private key takes part in.
Derives(r, mk) ==
    \/ r.CKs # NoChain /\ mk.root = r.CKs.root /\ mk.step >= r.CKs.step
    \/ r.CKr # NoChain /\ mk.root = r.CKr.root /\ mk.step >= r.CKr.step
    \/ \E k \in DOMAIN r.skippedKeys : r.skippedKeys[k] = mk
    \/ /\ r.RK # <<>> /\ Len(mk.root) > Len(r.RK)
       /\ \A i \in 1 .. Len(r.RK) : mk.root[i] = r.RK[i]
       /\ \A i \in Len(r.RK) + 1 .. Len(mk.root) : r.DHsLocal \in mk.root[i]

\* Forward secrecy (ratchet.go:17): the ratchet a peer holds now does not yield the
\* key of any message it has sent or opened before.
ForwardSecrecy ==
    \A p \in Peers :
        /\ \A i \in 1 .. Len(sealed[p]) : ~Derives(session[p].ratchet, sealed[p][i])
        /\ \A mk \in opened[p] : ~Derives(session[p].ratchet, mk)

\* No two messages of a session, of either direction, are sealed with one key.
MessageKeysUnique ==
    \A p, q \in Peers :
        \A i \in 1 .. Len(sealed[p]), j \in 1 .. Len(sealed[q]) :
            sealed[p][i] = sealed[q][j] => p = q /\ i = j

\* Break-in recovery (ratchet.go:19): once a peer whose state was copied has made a
\* DH ratchet step, the copy does not yield the keys of the messages it sends.
HealsAfterDHStep ==
    \A p \in Peers :
        (stolen[p] # NoRatchet /\ Len(session[p].ratchet.RK) > Len(stolen[p].RK))
            => ~Derives(stolen[p], MessageKey(session[p].ratchet.CKs))

\* A receiving chain is never ahead of the sending chain it mirrors: if it were,
\* every later message of the chain would be undecryptable.
ReceiverNeverAhead ==
    \A p \in Peers :
        LET r == session[p].ratchet.CKr
            s == session[Other(p)].ratchet.CKs
        IN  r # NoChain /\ r.root = s.root => r.step <= s.step

\* A direction of the session as its reader sees it.
ToBob   == INSTANCE MessageChannel WITH sent <- session[Alice].outSequence, delivered <- delivered[Bob]
ToAlice == INSTANCE MessageChannel WITH sent <- session[Bob].outSequence, delivered <- delivered[Alice]

\* Each direction implements MessageChannel: whatever the network repeats, reorders,
\* damages or loses, DecryptMessage returns what was sent, each message at most once and
\* none after a later one.
ImplementsChannel == ToBob!Spec /\ ToAlice!Spec
=============================================================================
