------------------------- MODULE OrderedSessionProofs -------------------------
(***************************************************************************)
(* Theorems of OrderedSession, for any number of messages and any window:  *)
(* what a session promises on a transport that keeps the order of packets, *)
(* as the comment in DecryptMessage presumes.                              *)
(***************************************************************************)
EXTENDS OrderedSession, SessionPairProofs

USE DEF Idle

-----------------------------------------------------------------------------
\* What the network's order adds.

IsData(pkt) == pkt.hdr.type = "data"

\* Packets are handed over one after the other, the first of them to the handshake.
HandedOver(p) ==
    /\ got[p] \in 0 .. Len(wire[Other(p)])
    /\ phase[p] \in Idle \cup {"waiting"} => got[p] = 0
    /\ phase[p] = "open" => got[p] > 0

\* A handshake packet, then messages whose numbers and keys ascend, each sealed for
\* its own header and signed by its sender.
Numbered(p) ==
    /\ phase[p] \in Idle => wire[p] = <<>>
    /\ \A i \in DOMAIN wire[p] :
        /\ VerifySignature(p, wire[p][i])
        /\ ~IsData(wire[p][i]) => i = 1
        /\ IsData(wire[p][i]) =>
            /\ wire[p][i].hdr.seq \in 1 .. session[p].outSequence
            /\ wire[p][i].body.text = wire[p][i].hdr.seq
            /\ wire[p][i].body.aad = wire[p][i].hdr
            /\ phase[p] = "open"
    /\ \A i, j \in DOMAIN wire[p] :
        i < j /\ IsData(wire[p][i]) /\ IsData(wire[p][j]) =>
            /\ wire[p][i].hdr.seq < wire[p][j].hdr.seq
            /\ Before(wire[p][i].body.mk, wire[p][j].body.mk)

\* The window refuses every message that was handed over.
Remembered(p) ==
    phase[p] = "open" =>
        \A i \in 1 .. got[p] :
            IsData(wire[Other(p)][i])
                => ~Accepts(session[p].replayWin, wire[Other(p)][i].hdr.seq)

OrderInv ==
    /\ got \in [Peers -> Nat]
    /\ \A p \in Peers : HandedOver(p) /\ Numbered(p) /\ Remembered(p)

\* A driver stays where it is, or gives up before its session is open.
PhaseKept(p) == phase'[p] = phase[p] \/ (phase[p] # "open" /\ phase'[p] = "failed")

-----------------------------------------------------------------------------
\* Steps and the order of packets.

\* All that a failed handshake changes is where the driver is.
LEMMA FailsKeeps ==
  ASSUME PairType, NEW p \in Peers, HandshakeFails(p)
  PROVE  /\ \A x \in Peers : PhaseKept(x)
         /\ session' = session /\ wire' = wire /\ nkeys' = nkeys /\ ephPriv' = ephPriv
         /\ lost' = lost /\ delivered' = delivered
  BY DEF HandshakeFails, PhaseKept, PairType, histVars

\* What has been handed over stays what it was.
LEMMA WireGrows ==
  ASSUME PairType, PairType', NEW q \in Peers, Continues(wire[q], wire'[q])
  PROVE  /\ Len(wire[q]) \in Nat /\ Len(wire'[q]) \in Nat /\ Len(wire[q]) <= Len(wire'[q])
         /\ DOMAIN wire[q] = 1 .. Len(wire[q]) /\ DOMAIN wire'[q] = 1 .. Len(wire'[q])
<1>1. wire[q] \in Seq(Packets) /\ wire'[q] \in Seq(Packets)
  BY DEF PairType
<1>2. /\ Len(wire[q]) \in Nat /\ Len(wire'[q]) \in Nat
      /\ DOMAIN wire[q] = 1 .. Len(wire[q]) /\ DOMAIN wire'[q] = 1 .. Len(wire'[q])
  BY <1>1
<1>3. CASE Len(wire[q]) = 0
  BY <1>2, <1>3
<1>4. CASE Len(wire[q]) # 0
  <2>1. Len(wire[q]) \in DOMAIN wire[q]
    BY <1>2, <1>4
  <2>2. Len(wire[q]) \in DOMAIN wire'[q]
    BY <2>1 DEF Continues
  <2> QED
    BY <1>2, <2>2
<1> QED
  BY <1>2, <1>3, <1>4

LEMMA HandedKept ==
  ASSUME PairType, PairType', NEW p \in Peers, HandedOver(p), got'[p] = got[p],
         PhaseKept(p) \/ (phase[p] \in Idle /\ phase'[p] = "waiting"),
         Continues(wire[Other(p)], wire'[Other(p)])
  PROVE  HandedOver(p)'
<1>1. Other(p) \in Peers
  BY PeerFacts
<1>2. Len(wire[Other(p)]) \in Nat /\ Len(wire'[Other(p)]) \in Nat
      /\ Len(wire[Other(p)]) <= Len(wire'[Other(p)])
  BY <1>1, WireGrows
<1>3. got'[p] \in 0 .. Len(wire'[Other(p)])
  BY <1>2 DEF HandedOver
<1>4. (phase'[p] \in Idle \cup {"waiting"} => got'[p] = 0) /\ (phase'[p] = "open" => got'[p] > 0)
  BY DEF HandedOver, PhaseKept
<1> QED
  BY <1>3, <1>4 DEF HandedOver

LEMMA NumberedKept ==
  ASSUME PairType, PairType', NEW p \in Peers, Numbered(p), wire'[p] = wire[p],
         session[p].outSequence <= session'[p].outSequence,
         phase[p] = "open" => phase'[p] = "open",
         phase'[p] \in Idle => phase[p] \in Idle
  PROVE  Numbered(p)'
<1>1. session[p].outSequence \in Nat /\ session'[p].outSequence \in Nat
  BY DEF PairType, Sessions
<1> DEFINE Good(i) ==
      /\ VerifySignature(p, wire'[p][i])
      /\ ~IsData(wire'[p][i]) => i = 1
      /\ IsData(wire'[p][i]) =>
          /\ wire'[p][i].hdr.seq \in 1 .. session'[p].outSequence
          /\ wire'[p][i].body.text = wire'[p][i].hdr.seq
          /\ wire'[p][i].body.aad = wire'[p][i].hdr
          /\ phase'[p] = "open"
<1>2. ASSUME NEW i \in DOMAIN wire'[p] PROVE Good(i)
  <2>1. /\ VerifySignature(p, wire[p][i])
        /\ ~IsData(wire[p][i]) => i = 1
        /\ IsData(wire[p][i]) =>
            /\ wire[p][i].hdr.seq \in 1 .. session[p].outSequence
            /\ wire[p][i].body.text = wire[p][i].hdr.seq
            /\ wire[p][i].body.aad = wire[p][i].hdr
            /\ phase[p] = "open"
    BY <1>2 DEF Numbered
  <2>2. ASSUME NEW n \in 1 .. session[p].outSequence PROVE n \in 1 .. session'[p].outSequence
    BY <1>1
  <2> QED
    BY <2>1, <2>2
<1>3. phase'[p] \in Idle => wire'[p] = <<>>
  BY DEF Numbered
<1>4. \A i, j \in DOMAIN wire'[p] :
        i < j /\ IsData(wire'[p][i]) /\ IsData(wire'[p][j]) =>
            /\ wire'[p][i].hdr.seq < wire'[p][j].hdr.seq
            /\ Before(wire'[p][i].body.mk, wire'[p][j].body.mk)
  BY DEF Numbered
<1> QED
  BY <1>2, <1>3, <1>4 DEF Numbered, IsData, VerifySignature, SignedBytes, Sign, Before

LEMMA RememberedKept ==
  ASSUME PairType, PairType', NEW p \in Peers, HandedOver(p), Remembered(p), got'[p] = got[p],
         phase'[p] = "open" => phase[p] = "open",
         \/ session'[p].replayWin = session[p].replayWin
         \/ \E n \in Nat : session'[p].replayWin = CheckAndAdd(session[p].replayWin, n),
         Continues(wire[Other(p)], wire'[Other(p)])
  PROVE  Remembered(p)'
<1> SUFFICES ASSUME phase'[p] = "open", NEW i \in 1 .. got'[p], IsData(wire'[Other(p)][i])
             PROVE  ~Accepts(session'[p].replayWin, wire'[Other(p)][i].hdr.seq)
  BY DEF Remembered, IsData, Accepts
<1>1. Other(p) \in Peers /\ session[p].replayWin \in Windows
  BY PeerFacts DEF PairType, Sessions
<1>2. i \in DOMAIN wire[Other(p)]
  BY <1>1, WireGrows DEF HandedOver
<1>3. wire'[Other(p)][i] = wire[Other(p)][i] /\ wire[Other(p)][i] \in Packets
  BY <1>1, <1>2, WireTyped DEF Continues
<1>4. wire[Other(p)][i].hdr.seq \in Nat
  BY <1>3 DEF Packets, Headers
<1>5. ~Accepts(session[p].replayWin, wire[Other(p)][i].hdr.seq)
  BY <1>3 DEF Remembered
<1> QED
  BY <1>1, <1>3, <1>4, <1>5, WindowKeepsRefusing
LEMMA OrderInitInv == Init => OrderInv
<1> SUFFICES ASSUME Init PROVE OrderInv
  OBVIOUS
<1>1. ASSUME NEW p \in Peers PROVE HandedOver(p) /\ Numbered(p) /\ Remembered(p)
  <2>1. Other(p) \in Peers
    BY PeerFacts
  <2>2. got[p] = 0 /\ wire[p] = <<>> /\ wire[Other(p)] = <<>> /\ phase[p] \in Idle
    BY <2>1 DEF Init, PairInit
  <2>3. DOMAIN wire[p] = {} /\ Len(wire[Other(p)]) = 0
    BY <2>2
  <2> QED
    BY <2>2, <2>3 DEF HandedOver, Numbered, Remembered
<1> QED
  BY <1>1 DEF OrderInv, Init

\* Nothing the order of packets is about changes.
LEMMA OrderFrame ==
  ASSUME PairType, PairType', OrderInv, got' = got, wire' = wire,
         \A p \in Peers : /\ PhaseKept(p) /\ session[p].outSequence <= session'[p].outSequence
                          /\ session'[p].replayWin = session[p].replayWin
  PROVE  OrderInv'
<1>1. ASSUME NEW p \in Peers PROVE HandedOver(p)' /\ Numbered(p)' /\ Remembered(p)'
  <2>1. Continues(wire[Other(p)], wire'[Other(p)])
    BY DEF Continues
  <2> QED
    BY <2>1, HandedKept, NumberedKept, RememberedKept DEF OrderInv, PhaseKept
<1> QED
  BY <1>1 DEF OrderInv

\* The first packet of a peer is a handshake packet.
LEMMA FirstPacket ==
  ASSUME PairType, NEW p \in Peers, NEW type \in {"init", "resp"}, NEW key,
         wire[p] = <<>>, wire' = [wire EXCEPT ![p] = Append(@, HandshakePacket(p, type, key))],
         phase'[p] \notin Idle
  PROVE  Numbered(p)'
<1> DEFINE pkt == HandshakePacket(p, type, key)
<1>1. wire'[p] = <<pkt>>
  BY DEF PairType
<1>2. VerifySignature(p, pkt) /\ pkt.hdr.type # "data"
  BY DEF HandshakePacket, Packet, Header, VerifySignature, SignedBytes, Sign
<1> HIDE DEF pkt
<1>3. DOMAIN wire'[p] = {1} /\ wire'[p][1] = pkt
  BY <1>1
<1> QED
  BY <1>2, <1>3 DEF Numbered, IsData, VerifySignature, SignedBytes, Sign

\* A message put on the wire is the highest so far.
LEMMA NextNumbered ==
  ASSUME PairInv, PairType', NEW p \in Peers, Numbered(p), NEW pkt, Sealing(p, pkt),
         wire' = [wire EXCEPT ![p] = Append(@, pkt)], phase[p] = "open", phase' = phase
  PROVE  Numbered(p)'
<1>1. PairType /\ WireInOrder(p) /\ session[p].outSequence \in Nat
  BY DEF PairInv, PeerInv, PairType, Sessions
<1>2. wire[p] \in Seq(Packets) /\ pkt \in Packets /\ wire'[p] = Append(wire[p], pkt)
  BY <1>1 DEF PairType, Sealing
<1>3. /\ pkt.hdr.type = "data" /\ pkt.hdr.seq = session[p].outSequence + 1
      /\ pkt.body.text = pkt.hdr.seq /\ pkt.body.aad = pkt.hdr
      /\ pkt.body.mk = session[p].ratchet.CKs /\ VerifySignature(p, pkt)
      /\ session'[p].outSequence = session[p].outSequence + 1
  BY DEF Sealing
<1> DEFINE n == Len(wire[p])
<1>4. n \in Nat /\ DOMAIN wire[p] = 1 .. n /\ DOMAIN wire'[p] = 1 .. n + 1
      /\ wire'[p][n + 1] = pkt /\ \A i \in 1 .. n : wire'[p][i] = wire[p][i]
  BY <1>2
<1> HIDE DEF n
<1> DEFINE w == wire'[p]
           Good(i) ==
      /\ VerifySignature(p, w[i])
      /\ ~IsData(w[i]) => i = 1
      /\ IsData(w[i]) =>
          /\ w[i].hdr.seq \in 1 .. session'[p].outSequence
          /\ w[i].body.text = w[i].hdr.seq
          /\ w[i].body.aad = w[i].hdr
          /\ phase'[p] = "open"
<1>5. ASSUME NEW i \in 1 .. n PROVE Good(i) /\ w[i] = wire[p][i]
  <2>1. w[i] = wire[p][i] /\ i \in DOMAIN wire[p]
    BY <1>4
  <2>2. /\ VerifySignature(p, wire[p][i])
        /\ ~IsData(wire[p][i]) => i = 1
        /\ IsData(wire[p][i]) =>
            /\ wire[p][i].hdr.seq \in 1 .. session[p].outSequence
            /\ wire[p][i].body.text = wire[p][i].hdr.seq
            /\ wire[p][i].body.aad = wire[p][i].hdr
    BY <2>1 DEF Numbered
  <2>3. ASSUME NEW k \in 1 .. session[p].outSequence PROVE k \in 1 .. session'[p].outSequence
    BY <1>1, <1>3
  <2> HIDE DEF w
  <2> QED
    BY <2>1, <2>2, <2>3
<1>6. Good(n + 1)
  <2>1. w[n + 1] = pkt /\ pkt.hdr.seq \in 1 .. session'[p].outSequence
    BY <1>1, <1>3, <1>4
  <2> HIDE DEF w
  <2> QED
    BY <1>3, <2>1 DEF IsData
<1>7. ASSUME NEW i \in 1 .. n + 1, NEW j \in 1 .. n + 1, i < j, IsData(w[i]), IsData(w[j])
      PROVE  w[i].hdr.seq < w[j].hdr.seq /\ Before(w[i].body.mk, w[j].body.mk)
  <2>1. i \in 1 .. n /\ i \in DOMAIN wire[p] /\ w[i] = wire[p][i]
    BY <1>4, <1>7
  <2>2. CASE j = n + 1
    <3>1. w[j] = pkt
      BY <1>4, <2>2
    <3>2. wire[p][i].hdr.seq \in 1 .. session[p].outSequence
          /\ Before(wire[p][i].body.mk, session[p].ratchet.CKs)
      BY <1>1, <1>7, <2>1 DEF Numbered, WireInOrder, IsData
    <3> HIDE DEF w
    <3> QED
      BY <1>1, <1>3, <2>1, <3>1, <3>2
  <2>3. CASE j # n + 1
    <3>1. j \in 1 .. n /\ j \in DOMAIN wire[p] /\ w[j] = wire[p][j]
      BY <1>4, <2>3
    <3> HIDE DEF w
    <3> QED
      BY <1>7, <2>1, <3>1 DEF Numbered
  <2> QED
    BY <2>2, <2>3
<1>8. \A i \in DOMAIN w : Good(i)
  <2>1. \A i \in 1 .. n + 1 : i \in 1 .. n \/ i = n + 1
    BY <1>4
  <2> HIDE DEF w, Good
  <2> QED
    BY <1>4, <1>5, <1>6, <2>1 DEF w
<1>9. \A i, j \in DOMAIN w : i < j /\ IsData(w[i]) /\ IsData(w[j]) =>
        w[i].hdr.seq < w[j].hdr.seq /\ Before(w[i].body.mk, w[j].body.mk)
  <2> HIDE DEF w
  <2> QED
    BY <1>4, <1>7 DEF w
<1> QED
  BY <1>8, <1>9 DEF Numbered, IsData, VerifySignature, SignedBytes, Sign, Before

\* EncryptMessage and the wire.
LEMMA OrderSeal ==
  ASSUME PairInv, PairInv', OrderInv, NEW p \in Peers, NEW reaches \in BOOLEAN,
         Seal(p, reaches), got' = got
  PROVE  OrderInv'
<1> DEFINE q == Other(p)
           pkt == NextPacket(p)
<1>1. PairType /\ PairType' /\ q \in Peers /\ q # p /\ Other(q) = p
  BY PeerFacts DEF PairInv
<1>2. Sealing(p, pkt)
  BY SealShape
<1>3. phase[p] = "open" /\ phase' = phase
      /\ (wire' = wire \/ wire' = [wire EXCEPT ![p] = Append(@, pkt)])
  BY DEF Seal, NextPacket
<1> HIDE DEF pkt
<1>4. /\ session'[p].replayWin = session[p].replayWin
      /\ session'[p].outSequence = session[p].outSequence + 1
      /\ session'[q] = session[q]
      /\ session[p].outSequence \in Nat /\ session[q].outSequence \in Nat
  BY <1>1, <1>2 DEF Sealing, PairType, Sessions
<1>5. CASE wire' = wire
  <2>1. \A x \in Peers : x = p \/ x = q
    BY PeerFacts
  <2>2. \A x \in Peers : /\ session[x].outSequence <= session'[x].outSequence
                         /\ session'[x].replayWin = session[x].replayWin
    BY <1>4, <2>1
  <2> QED
    BY <1>1, <1>3, <1>5, <2>2, OrderFrame DEF PhaseKept
<1>6. CASE wire' = [wire EXCEPT ![p] = Append(@, pkt)]
  <2>1. wire'[q] = wire[q] /\ wire'[p] = Append(wire[p], pkt)
    BY <1>1, <1>6 DEF PairType
  <2>2. wire[p] \in Seq(Packets) /\ pkt \in Packets
    BY <1>1, <1>2 DEF PairType, Sealing
  <2>3. Continues(wire[p], wire'[p]) /\ Continues(wire[q], wire'[q])
    BY <2>1, <2>2 DEF Continues
  <2>4. HandedOver(p)' /\ HandedOver(q)'
    BY <1>1, <1>3, <2>3, HandedKept DEF OrderInv, PhaseKept
  <2>5. Remembered(p)' /\ Remembered(q)'
    BY <1>1, <1>3, <1>4, <2>3, RememberedKept DEF OrderInv
  <2>6. Numbered(p)'
    BY <1>1, <1>2, <1>3, <1>6, NextNumbered DEF OrderInv
  <2>7. Numbered(q)'
    BY <1>1, <1>3, <1>4, <2>1, NumberedKept DEF OrderInv
  <2> QED
    BY <2>4, <2>5, <2>6, <2>7, PeerFacts DEF OrderInv
<1> QED
  BY <1>3, <1>5, <1>6

LEMMA OrderRefused ==
  ASSUME PairInv, PairInv', OrderInv, NEW p \in Peers, SendRefused(p), got' = got
  PROVE  OrderInv'
<1>1. PairType /\ PairType' /\ session[p] \in Sessions /\ session[p].isEstablished
  BY DEF PairInv, PairType, PeerInv, Opens, SendRefused
<1>2. session' = [session EXCEPT ![p] = AfterRefusedEncrypt(session[p])]
      /\ phase' = phase /\ wire' = wire
  BY DEF SendRefused
<1>3. /\ AfterRefusedEncrypt(session[p]).outSequence = session[p].outSequence + 1
      /\ AfterRefusedEncrypt(session[p]).replayWin = session[p].replayWin
  BY <1>1 DEF AfterRefusedEncrypt, Sessions
<1>4. ASSUME NEW x \in Peers PROVE /\ session[x].outSequence <= session'[x].outSequence
                                   /\ session'[x].replayWin = session[x].replayWin
  <2>1. session[x].outSequence \in Nat
    BY <1>1 DEF PairType, Sessions
  <2>2. session'[x] = IF x = p THEN AfterRefusedEncrypt(session[p]) ELSE session[x]
    BY <1>1, <1>2 DEF PairType
  <2> QED
    BY <1>3, <2>1, <2>2
<1> QED
  BY <1>1, <1>2, <1>4, OrderFrame DEF PhaseKept

LEMMA OrderConnect ==
  ASSUME PairInv, PairInv', OrderInv, Connect, got' = got
  PROVE  OrderInv'
<1>1. PairType /\ PairType' /\ Alice \in Peers /\ Bob \in Peers /\ Alice # Bob
      /\ Other(Alice) = Bob /\ Other(Bob) = Alice
  BY PeersAssumption DEF PairInv, Peers, Other
<1>2. /\ phase[Alice] = "idle" /\ phase' = [phase EXCEPT ![Alice] = "waiting"]
      /\ session' = session
      /\ wire' = [wire EXCEPT ![Alice] = Append(@, HandshakePacket(Alice, "init", Fresh(Alice)))]
  BY DEF Connect, CreateHandshakeInit
<1>3. wire[Alice] = <<>> /\ wire'[Bob] = wire[Bob] /\ phase'[Bob] = phase[Bob]
      /\ phase'[Alice] = "waiting"
  BY <1>1, <1>2 DEF OrderInv, Numbered, PairType
<1>4. Continues(wire[Alice], wire'[Alice]) /\ Continues(wire[Bob], wire'[Bob])
  BY <1>3 DEF Continues
<1>5. HandedOver(Alice)' /\ HandedOver(Bob)'
  BY <1>1, <1>2, <1>3, <1>4, HandedKept DEF OrderInv, PhaseKept
<1>6. Remembered(Alice)' /\ Remembered(Bob)'
  BY <1>1, <1>2, <1>3, <1>4, RememberedKept DEF OrderInv
<1>7. Numbered(Alice)'
  BY <1>1, <1>2, <1>3, FirstPacket
<1>8. Numbered(Bob)'
  <2>1. session[Bob].outSequence \in Nat
    BY <1>1 DEF PairType, Sessions
  <2> QED
    BY <1>1, <1>2, <1>3, <2>1, NumberedKept DEF OrderInv
<1> QED
  BY <1>1, <1>5, <1>6, <1>7, <1>8 DEF OrderInv, Peers

\* The packet that is handed over next.
Coming(p) == wire[Other(p)][got[p] + 1]

LEMMA ComingFacts ==
  ASSUME PairType, OrderInv, NEW p \in Peers, got[p] < Len(wire[Other(p)])
  PROVE  /\ got[p] \in Nat /\ got[p] + 1 \in DOMAIN wire[Other(p)]
         /\ Coming(p) \in Packets /\ FromWire(p, Coming(p))
         /\ VerifySignature(Other(p), Coming(p))
<1>1. Other(p) \in Peers /\ got[p] \in Nat
  BY PeerFacts DEF OrderInv
<1>2. wire[Other(p)] \in Seq(Packets)
  BY <1>1 DEF PairType
<1>3. got[p] + 1 \in DOMAIN wire[Other(p)]
  BY <1>1, <1>2
<1>4. Coming(p) \in Packets
  BY <1>2, <1>3 DEF Coming
<1>5. VerifySignature(Other(p), Coming(p))
  BY <1>1, <1>3 DEF OrderInv, Numbered, Coming
<1> QED
  BY <1>1, <1>3, <1>4, <1>5 DEF FromWire, Coming

LEMMA HandedNext ==
  ASSUME PairType, OrderInv, NEW p \in Peers, got[p] < Len(wire[Other(p)]),
         got' = [got EXCEPT ![p] = @ + 1], wire'[Other(p)] = wire[Other(p)],
         phase'[p] \in {"open", "closed"}
  PROVE  HandedOver(p)' /\ got'[p] = got[p] + 1 /\ got'[Other(p)] = got[Other(p)]
<1>1. Other(p) \in Peers /\ Other(p) # p /\ got \in [Peers -> Nat]
  BY PeerFacts DEF OrderInv
<1>2. got'[p] = got[p] + 1 /\ got'[Other(p)] = got[Other(p)] /\ got[p] \in Nat
  BY <1>1
<1>3. Len(wire[Other(p)]) \in Nat
  BY <1>1, WireTyped DEF PairType
<1>4. got'[p] \in 0 .. Len(wire'[Other(p)]) /\ got'[p] > 0
  BY <1>2, <1>3
<1> QED
  BY <1>2, <1>4 DEF HandedOver

\* The first packet opens the session or ends the connection.
LEMMA RememberedFirst ==
  ASSUME OrderInv, NEW p \in Peers, got'[p] = got[p] + 1, wire'[Other(p)] = wire[Other(p)],
         got[p] = 0, phase'[p] = "open" => ~IsData(Coming(p))
  PROVE  Remembered(p)'
<1> SUFFICES ASSUME phase'[p] = "open", NEW i \in 1 .. got'[p], IsData(wire'[Other(p)][i])
             PROVE  ~Accepts(session'[p].replayWin, wire'[Other(p)][i].hdr.seq)
  BY DEF Remembered, IsData, Accepts
<1>1. i = 1
  OBVIOUS
<1> QED
  BY <1>1 DEF Coming

\* A handshake touches neither counter nor window.
LEMMA EstablishedKeeps ==
  ASSUME PairType, NEW p \in Peers,
         \/ session' = session
         \/ \E r : session' = [session EXCEPT ![p] = Established(session[p], r)]
  PROVE  \A x \in Peers : /\ session'[x].outSequence = session[x].outSequence
                          /\ session'[x].replayWin = session[x].replayWin
                          /\ session[x].outSequence \in Nat
<1>1. ASSUME NEW s \in Sessions, NEW r
      PROVE  /\ Established(s, r).outSequence = s.outSequence
             /\ Established(s, r).replayWin = s.replayWin
             /\ s.outSequence \in Nat
  BY <1>1 DEF Established, Sessions
<1> SUFFICES ASSUME NEW x \in Peers
             PROVE  /\ session'[x].outSequence = session[x].outSequence
                    /\ session'[x].replayWin = session[x].replayWin
                    /\ session[x].outSequence \in Nat
  OBVIOUS
<1>2. session[x] \in Sessions
  BY DEF PairType
<1>3. session'[x] = session[x] \/ \E r : session'[x] = Established(session[x], r)
  BY DEF PairType
<1> QED
  BY <1>1, <1>2, <1>3

LEMMA OrderReceiveInit ==
  ASSUME PairInv, PairInv', OrderInv, got[Bob] < Len(wire[Alice]),
         got' = [got EXCEPT ![Bob] = @ + 1], ReceiveInit(Coming(Bob))
  PROVE  OrderInv'
<1>1. PairType /\ PairType' /\ Alice \in Peers /\ Bob \in Peers /\ Alice # Bob
      /\ Other(Alice) = Bob /\ Other(Bob) = Alice
  BY PeersAssumption DEF PairInv, Peers, Other
<1> DEFINE valid == HandshakeValid(Coming(Bob), "init", PeerKey(Coming(Bob)))
           resp == HandshakePacket(Bob, "resp", Fresh(Bob))
<1>2. /\ phase[Bob] \in Idle
      /\ valid => /\ phase' = [phase EXCEPT ![Bob] = "open"]
                  /\ wire' = [wire EXCEPT ![Bob] = Append(@, resp)]
      /\ ~valid => phase' = [phase EXCEPT ![Bob] = "closed"] /\ wire' = wire
  BY DEF ReceiveInit, ProcessHandshakeInit
<1>3. \A x \in Peers : /\ session'[x].outSequence = session[x].outSequence
                       /\ session'[x].replayWin = session[x].replayWin
                       /\ session[x].outSequence \in Nat
  <2>1. \/ session' = session
        \/ \E r : session' = [session EXCEPT ![Bob] = Established(session[Bob], r)]
    BY DEF ReceiveInit, ProcessHandshakeInit
  <2> QED
    BY <1>1, <2>1, EstablishedKeeps
<1>4. valid => ~IsData(Coming(Bob))
  BY DEF HandshakeValid, IsData
<1>5. /\ wire[Bob] = <<>> /\ got[Bob] = 0
      /\ phase'[Bob] \in {"open", "closed"} /\ (phase'[Bob] = "open" => valid)
      /\ phase'[Alice] = phase[Alice] /\ wire'[Alice] = wire[Alice]
  <2>1. wire[Bob] = <<>> /\ got[Bob] = 0
    BY <1>1, <1>2 DEF OrderInv, Numbered, HandedOver
  <2> HIDE DEF valid, resp
  <2>2. CASE valid
    BY <1>1, <1>2, <2>1, <2>2 DEF PairType
  <2>3. CASE ~valid
    BY <1>1, <1>2, <2>1, <2>3 DEF PairType
  <2> QED
    BY <2>2, <2>3
<1> HIDE DEF valid
<1>6. Continues(wire[Alice], wire'[Alice]) /\ Continues(wire[Bob], wire'[Bob])
  BY <1>5 DEF Continues
<1>7. HandedOver(Bob)' /\ got'[Bob] = got[Bob] + 1 /\ got'[Alice] = got[Alice]
  BY <1>1, <1>5, HandedNext
<1>8. HandedOver(Alice)' /\ Remembered(Alice)'
  BY <1>1, <1>3, <1>5, <1>6, <1>7, HandedKept, RememberedKept DEF OrderInv, PhaseKept
<1>9. Remembered(Bob)'
  BY <1>1, <1>4, <1>5, <1>7, RememberedFirst
<1>10. Numbered(Alice)'
  BY <1>1, <1>3, <1>5, NumberedKept DEF OrderInv
<1>11. Numbered(Bob)'
  <2>1. CASE valid
    BY <1>1, <1>2, <1>5, <2>1, FirstPacket
  <2>2. CASE ~valid
    BY <1>1, <1>2, <1>3, <1>5, <2>2, NumberedKept DEF OrderInv
  <2> QED
    BY <2>1, <2>2
<1>12. got' \in [Peers -> Nat]
  <2>1. got \in [Peers -> Nat]
    BY DEF OrderInv
  <2> QED
    BY <1>1, <2>1
<1> QED
  BY <1>1, <1>7, <1>8, <1>9, <1>10, <1>11, <1>12 DEF OrderInv, Peers

LEMMA OrderReceiveResp ==
  ASSUME PairInv, PairInv', OrderInv, got[Alice] < Len(wire[Bob]),
         got' = [got EXCEPT ![Alice] = @ + 1], ReceiveResp(Coming(Alice))
  PROVE  OrderInv'
<1>1. PairType /\ PairType' /\ Alice \in Peers /\ Bob \in Peers /\ Alice # Bob
      /\ Other(Alice) = Bob /\ Other(Bob) = Alice
  BY PeersAssumption DEF PairInv, Peers, Other
<1> DEFINE valid == HandshakeValid(Coming(Alice), "resp", Bob)
<1>2. /\ phase[Alice] = "waiting" /\ wire' = wire
      /\ valid => phase' = [phase EXCEPT ![Alice] = "open"]
      /\ ~valid => phase' = [phase EXCEPT ![Alice] = "closed"]
  BY DEF ReceiveResp
<1>3. \A x \in Peers : /\ session'[x].outSequence = session[x].outSequence
                       /\ session'[x].replayWin = session[x].replayWin
                       /\ session[x].outSequence \in Nat
  <2>1. \/ session' = session
        \/ \E r : session' = [session EXCEPT ![Alice] = Established(session[Alice], r)]
    BY DEF ReceiveResp, CompleteInitiatorHandshake
  <2> QED
    BY <1>1, <2>1, EstablishedKeeps
<1>4. valid => ~IsData(Coming(Alice))
  BY DEF HandshakeValid, IsData
<1>5. /\ got[Alice] = 0
      /\ phase'[Alice] \in {"open", "closed"} /\ (phase'[Alice] = "open" => valid)
      /\ phase'[Bob] = phase[Bob]
  BY <1>1, <1>2 DEF OrderInv, HandedOver, PairType
<1> HIDE DEF valid
<1>6. Continues(wire[Alice], wire'[Alice]) /\ Continues(wire[Bob], wire'[Bob])
  BY <1>2 DEF Continues
<1>7. HandedOver(Alice)' /\ got'[Alice] = got[Alice] + 1 /\ got'[Bob] = got[Bob]
  BY <1>1, <1>2, <1>5, HandedNext
<1>8. HandedOver(Bob)' /\ Remembered(Bob)'
  BY <1>1, <1>3, <1>5, <1>6, <1>7, HandedKept, RememberedKept DEF OrderInv, PhaseKept
<1>9. Remembered(Alice)'
  BY <1>1, <1>2, <1>4, <1>5, <1>7, RememberedFirst
<1>10. Numbered(Alice)' /\ Numbered(Bob)'
  BY <1>1, <1>2, <1>3, <1>5, NumberedKept DEF OrderInv
<1>11. got' \in [Peers -> Nat]
  <2>1. got \in [Peers -> Nat]
    BY DEF OrderInv
  <2> QED
    BY <1>1, <2>1
<1> QED
  BY <1>1, <1>7, <1>8, <1>9, <1>10, <1>11 DEF OrderInv, Peers

LEMMA OrderReceiveData ==
  ASSUME PairInv, PairInv', OrderInv, NEW p \in Peers, NEW pkt \in Packets,
         ReceiveData(p, pkt),
         \/ got' = got
         \/ /\ got[p] < Len(wire[Other(p)]) /\ pkt = Coming(p)
            /\ got' = [got EXCEPT ![p] = @ + 1]
  PROVE  OrderInv'
<1> DEFINE q == Other(p)
<1>1. PairType /\ PairType' /\ q \in Peers /\ q # p /\ Other(q) = p
  BY PeerFacts DEF PairInv
<1>2. /\ session'[p].replayWin = CheckAndAdd(session[p].replayWin, pkt.hdr.seq)
      /\ session'[p].outSequence = session[p].outSequence
      /\ session'[q] = session[q]
      /\ phase[p] = "open" /\ phase' = phase /\ wire' = wire
  BY ReceiveCounts DEF ReceiveData
<1>3. /\ session[p].outSequence \in Nat /\ session[q].outSequence \in Nat
      /\ session[p].replayWin \in Windows /\ pkt.hdr.seq \in Nat
  BY <1>1 DEF PairType, Sessions, Packets, Headers
<1>4. \A x \in Peers : Continues(wire[x], wire'[x])
  BY <1>2 DEF Continues
<1>5. Numbered(p)' /\ Numbered(q)'
  BY <1>1, <1>2, <1>3, NumberedKept DEF OrderInv
<1>6. CASE got' = got
  <2>1. HandedOver(p)' /\ HandedOver(q)'
    BY <1>1, <1>2, <1>4, <1>6, HandedKept DEF OrderInv, PhaseKept
  <2>2. Remembered(p)' /\ Remembered(q)'
    BY <1>1, <1>2, <1>3, <1>4, <1>6, RememberedKept DEF OrderInv
  <2> QED
    BY <1>5, <1>6, <2>1, <2>2, PeerFacts DEF OrderInv
<1>7. CASE got[p] < Len(wire[q]) /\ pkt = Coming(p) /\ got' = [got EXCEPT ![p] = @ + 1]
  <2>1. HandedOver(p)' /\ got'[p] = got[p] + 1 /\ got'[q] = got[q]
    BY <1>1, <1>2, <1>7, HandedNext
  <2>2. HandedOver(q)' /\ Remembered(q)'
    BY <1>1, <1>2, <1>4, <2>1, HandedKept, RememberedKept DEF OrderInv, PhaseKept
  <2>3. Remembered(p)'
    <3> SUFFICES ASSUME NEW i \in 1 .. got'[p], IsData(wire[q][i])
                 PROVE  ~Accepts(session'[p].replayWin, wire[q][i].hdr.seq)
      BY <1>2 DEF Remembered, IsData, Accepts
    <3>1. got[p] \in Nat
      BY DEF OrderInv
    <3>2. CASE i = got[p] + 1
      <4>1. wire[q][i] = pkt
        BY <1>7, <3>2 DEF Coming
      <4> QED
        BY <1>2, <1>3, <4>1, WindowRefuses
    <3>3. CASE i # got[p] + 1
      <4>1. i \in 1 .. got[p]
        BY <2>1, <3>1, <3>3
      <4>2. ~Accepts(session[p].replayWin, wire[q][i].hdr.seq)
        BY <1>2, <4>1 DEF OrderInv, Remembered
      <4>3. Len(wire[q]) \in Nat /\ got[p] <= Len(wire[q]) /\ wire[q] \in Seq(Packets)
        BY <1>1 DEF OrderInv, HandedOver, PairType
      <4>4. i \in DOMAIN wire[q]
        BY <3>1, <4>1, <4>3
      <4>5. wire[q][i].hdr.seq \in Nat
        BY <1>1, <4>4, WireTyped DEF Packets, Headers
      <4> QED
        BY <1>2, <1>3, <4>2, <4>5, WindowKeepsRefusing
    <3> QED
      BY <3>2, <3>3
  <2>4. got' \in [Peers -> Nat]
    BY <1>7 DEF OrderInv
  <2> QED
    BY <1>5, <2>1, <2>2, <2>3, <2>4, PeerFacts DEF OrderInv
<1> QED
  BY <1>6, <1>7
\* A packet that comes again was on the wire.
LEMMA RepeatedFacts ==
  ASSUME PairType, OrderInv, NEW p \in Peers, NEW i \in 1 .. got[p]
  PROVE  /\ i \in DOMAIN wire[Other(p)] /\ wire[Other(p)][i] \in Packets
         /\ FromWire(p, wire[Other(p)][i])
<1>1. Other(p) \in Peers /\ got[p] \in 0 .. Len(wire[Other(p)])
  BY PeerFacts DEF OrderInv, HandedOver
<1>2. wire[Other(p)] \in Seq(Packets)
  BY <1>1 DEF PairType
<1>3. i \in DOMAIN wire[Other(p)]
  BY <1>1, <1>2
<1>4. wire[Other(p)][i] \in Packets
  BY <1>2, <1>3
<1> QED
  BY <1>3, <1>4 DEF FromWire

LEMMA InitBoth == Init => PairInv /\ OrderInv
  BY PairInitInv, OrderInitInv DEF Init

\* Both invariants are inductive, whatever types of packets come again.
LEMMA NextBoth == PairInv /\ OrderInv /\ [Next]_vars => PairInv' /\ OrderInv'
<1> SUFFICES ASSUME PairInv, OrderInv, [Next]_vars PROVE PairInv' /\ OrderInv'
  OBVIOUS
<1>0. PairType
  BY DEF PairInv
<1>1. CASE UNCHANGED vars
  <2>1. PairInv' /\ PairType'
    BY <1>1, PairStutter DEF vars, PairInv
  <2>2. got' = got /\ phase' = phase /\ wire' = wire /\ session' = session
    BY <1>1 DEF vars, peerVars
  <2>3. \A p \in Peers : PhaseKept(p) /\ session[p].outSequence <= session'[p].outSequence
    BY <1>0, <2>2 DEF PairType, Sessions, PhaseKept
  <2> QED
    BY <1>0, <2>1, <2>2, <2>3, OrderFrame DEF PhaseKept
<1>2. CASE Connect /\ UNCHANGED got
  BY <1>2, ConnectInv, OrderConnect
<1>3. ASSUME NEW p \in Peers, (Send(p) \/ SendFails(p)) /\ UNCHANGED got
      PROVE  PairInv' /\ OrderInv'
  <2>1. PICK reaches \in BOOLEAN : Seal(p, reaches)
    BY <1>3 DEF Send, SendFails
  <2> QED
    BY <1>3, <2>1, SealInv, OrderSeal
<1>4. ASSUME NEW p \in Peers, SendRefused(p) /\ UNCHANGED got PROVE PairInv' /\ OrderInv'
  BY <1>4, RefusedInv, OrderRefused
<1>5. ASSUME NEW p \in Peers, Compromise(p) /\ UNCHANGED got PROVE PairInv' /\ OrderInv'
  <2>1. PairInv' /\ PairType'
    BY <1>5, CompromiseInv DEF PairInv
  <2>2. got' = got /\ phase' = phase /\ wire' = wire /\ session' = session
    BY <1>5 DEF Compromise, peerVars
  <2>3. \A x \in Peers : PhaseKept(x) /\ session[x].outSequence <= session'[x].outSequence
    BY <1>0, <2>2 DEF PairType, Sessions, PhaseKept
  <2> QED
    BY <1>0, <2>1, <2>2, <2>3, OrderFrame DEF PhaseKept
<1>6. ASSUME NEW p \in Peers, Receive(p) PROVE PairInv' /\ OrderInv'
  <2>1. /\ got[p] < Len(wire[Other(p)]) /\ got' = [got EXCEPT ![p] = @ + 1]
        /\ \/ p = Bob /\ ReceiveInit(Coming(p))
           \/ p = Alice /\ ReceiveResp(Coming(p))
           \/ ReceiveData(p, Coming(p))
    BY <1>6 DEF Receive, Coming
  <2>2. FromWire(p, Coming(p)) /\ Coming(p) \in Packets
    BY <1>0, <2>1, ComingFacts
  <2>3. PairInv'
    BY <2>1, <2>2, ReceiveInitInv, ReceiveRespInv, ReceiveDataInv
  <2>4. Other(Alice) = Bob /\ Other(Bob) = Alice
    BY PeersAssumption DEF Other
  <2> QED
    BY <2>1, <2>2, <2>3, <2>4, OrderReceiveInit, OrderReceiveResp, OrderReceiveData
<1>7. ASSUME NEW p \in Peers, Repeat(p) PROVE PairInv' /\ OrderInv'
  <2>1. PICK i \in 1 .. got[p] : ReceiveData(p, wire[Other(p)][i]) /\ got' = got
    BY <1>7 DEF Repeat
  <2> QED
    BY <1>0, <2>1, RepeatedFacts, ReceiveDataInv, OrderReceiveData
<1>8. ASSUME NEW p \in Peers, HandshakeFails(p) /\ UNCHANGED got PROVE PairInv' /\ OrderInv'
  <2>1. PairInv' /\ PairType'
    BY <1>8, CloseInv DEF HandshakeFails, PairInv
  <2>2. \A x \in Peers : session[x].outSequence \in Nat
    BY <1>0 DEF PairType, Sessions
  <2> QED
    BY <1>0, <1>8, <2>1, <2>2, FailsKeeps, OrderFrame
<1> QED
  BY <1>1, <1>2, <1>3, <1>4, <1>5, <1>6, <1>7, <1>8 DEF Next

\* The invariants hold, whatever types of packets the transport repeats.
THEOREM OrderedInvariant == Spec => [](PairInv /\ OrderInv)
  BY InitBoth, NextBoth, PTL DEF Spec

\* Forward secrecy (ratchet.go:17) on an ordered transport: RatchetEncrypt and
\* RatchetDecrypt leave no state behind that yields the key of a message the peer sent or
\* opened before.
THEOREM OrderedForwardSecret == Spec => []ForwardSecrecy
  BY OrderedInvariant, InvForwardSecrecy, PTL

\* Break-in recovery (ratchet.go:19): after the DH step of RatchetDecrypt a copy of
\* the earlier state does not yield the keys the peer sends with.
THEOREM AlwaysHeals == Spec => []HealsAfterDHStep
  BY OrderedInvariant, InvHeals, PTL

\* A message that comes again changes nothing at all.
LEMMA RepeatStutters ==
  ASSUME RepeatTypes \subseteq {"data"}, PairInv, OrderInv, NEW p \in Peers, Repeat(p)
  PROVE  UNCHANGED vars
<1>1. PICK i \in 1 .. got[p] : /\ wire[Other(p)][i].hdr.type \in RepeatTypes
                               /\ ReceiveData(p, wire[Other(p)][i]) /\ got' = got
  BY DEF Repeat
<1>2. IsData(wire[Other(p)][i]) /\ phase[p] = "open"
  BY <1>1 DEF IsData, ReceiveData
<1>3. ~Accepts(session[p].replayWin, wire[Other(p)][i].hdr.seq)
  BY <1>2 DEF OrderInv, Remembered
<1>4. wire[Other(p)][i] \in Packets
  BY RepeatedFacts DEF PairInv
<1>5. UNCHANGED <<session, nkeys, delivered, opened>>
  BY <1>1, <1>3, <1>4, ReceiveCounts
<1> QED
  BY <1>1, <1>5 DEF ReceiveData, vars, peerVars, histVars

\* Once a data packet was handed over, VerifyReplayWindow keeps it from the ratchet for
\* the rest of the session, however far the window has moved.
THEOREM RepeatsAreRefused ==
  ASSUME RepeatTypes \subseteq {"data"}
  PROVE  Spec => RepeatsChangeNothing
<1>1. PairInv /\ OrderInv /\ [Next]_vars
        => [\A p \in Peers : Repeat(p) => UNCHANGED session]_vars
  BY RepeatStutters DEF vars, peerVars
<1> QED
  BY <1>1, OrderedInvariant, PTL DEF Spec, RepeatsChangeNothing
-----------------------------------------------------------------------------
\* How far the counters go.

\* Messages and key pairs are counted by what was sealed and handed over.
Bounded(p) ==
    /\ session[p].outSequence <= MaxMessages
    /\ Len(wire[p]) <= 1 + session[p].outSequence
    /\ nkeys[p] <= 1 + got[p]
    /\ phase[p] \in Idle => nkeys[p] = 0

\* The window has seen no number of a message yet to be handed over.
Unseen(p) ==
    /\ session[p].replayWin.maxSeq <= session[Other(p)].outSequence
    /\ \A j \in DOMAIN wire[Other(p)] :
        j > got[p] /\ IsData(wire[Other(p)][j])
            => session[p].replayWin.maxSeq < wire[Other(p)][j].hdr.seq

BoundInv ==
    /\ ephPriv \in KeysOf(Alice) \cup {NoKey}
    /\ \A p \in Peers : Bounded(p) /\ Unseen(p)

LEMMA BoundInitInv == Init => BoundInv
<1> SUFFICES ASSUME Init PROVE BoundInv
  OBVIOUS
<1>1. ASSUME NEW p \in Peers PROVE Bounded(p) /\ Unseen(p)
  <2>1. Other(p) \in Peers
    BY PeerFacts
  <2>2. /\ got[p] = 0 /\ wire[p] = <<>> /\ wire[Other(p)] = <<>> /\ nkeys[p] = 0
        /\ session[p] = NewSession /\ session[Other(p)] = NewSession
    BY <2>1 DEF Init, PairInit
  <2>3. NewSession.outSequence = 0 /\ NewSession.replayWin.maxSeq = 0
    BY DEF NewSession, NewReplayWindow
  <2>4. DOMAIN wire[Other(p)] = {} /\ Len(wire[p]) = 0
    BY <2>2
  <2> QED
    BY <2>2, <2>3, <2>4, BoundsAssumption DEF Bounded, Unseen
<1> QED
  BY <1>1 DEF BoundInv, Init, PairInit

\* The numbers a peer's counters and window hold.
LEMMA CounterTypes ==
  ASSUME PairType, NEW p \in Peers
  PROVE  /\ session[p].outSequence \in Nat /\ session[p].replayWin \in Windows
         /\ session[p].replayWin.maxSeq \in Nat /\ nkeys[p] \in Nat
         /\ wire[p] \in Seq(Packets) /\ Len(wire[p]) \in Nat
         /\ DOMAIN wire[p] = 1 .. Len(wire[p])
<1>1. session[p] \in Sessions /\ nkeys[p] \in Nat /\ wire[p] \in Seq(Packets)
  BY DEF PairType
<1>2. session[p].outSequence \in Nat /\ session[p].replayWin \in Windows
  BY <1>1 DEF Sessions
<1>3. session[p].replayWin.maxSeq \in Nat
  BY <1>2 DEF Windows
<1>4. Len(wire[p]) \in Nat /\ DOMAIN wire[p] = 1 .. Len(wire[p])
  BY <1>1
<1> QED
  BY <1>1, <1>2, <1>3, <1>4

LEMMA UnseenKept ==
  ASSUME PairType, PairType', NEW p \in Peers, Unseen(p),
         session'[p].replayWin = session[p].replayWin,
         session[Other(p)].outSequence <= session'[Other(p)].outSequence,
         got[p] \in Nat, got'[p] \in Nat, got[p] <= got'[p],
         wire'[Other(p)] = wire[Other(p)]
  PROVE  Unseen(p)'
<1> DEFINE q == Other(p)
           m == session[p].replayWin.maxSeq
<1>1. q \in Peers /\ m \in Nat /\ session[q].outSequence \in Nat
      /\ session'[q].outSequence \in Nat
      /\ DOMAIN wire[q] = 1 .. Len(wire[q]) /\ Len(wire[q]) \in Nat
  BY PeerFacts, CounterTypes DEF PairType, Sessions
<1>2. session'[p].replayWin.maxSeq <= session'[q].outSequence
  BY <1>1 DEF Unseen
<1>3. ASSUME NEW j \in DOMAIN wire[q], j > got'[p], IsData(wire[q][j])
      PROVE  m < wire[q][j].hdr.seq
  <2>1. j > got[p]
    BY <1>1, <1>3
  <2> QED
    BY <1>3, <2>1 DEF Unseen
<1> QED
  BY <1>2, <1>3 DEF Unseen, IsData

\* What is put on the wire has a higher number.
LEMMA UnseenMore ==
  ASSUME PairType, PairType', NEW p \in Peers, NEW q, q = Other(p), Unseen(p),
         session'[p].replayWin = session[p].replayWin,
         session[q].outSequence <= session'[q].outSequence,
         got'[p] = got[p], NEW pkt \in Packets,
         IsData(pkt) => pkt.hdr.seq > session[q].outSequence,
         wire'[q] = Append(wire[q], pkt)
  PROVE  Unseen(p)'
<1> DEFINE m == session[p].replayWin.maxSeq
           n == Len(wire[q])
<1>1. q \in Peers /\ m \in Nat /\ session[q].outSequence \in Nat
      /\ session'[q].outSequence \in Nat /\ pkt.hdr.seq \in Nat
      /\ wire[q] \in Seq(Packets) /\ n \in Nat
  BY PeerFacts, CounterTypes DEF PairType, Sessions, Packets, Headers
<1>2. m <= session[q].outSequence /\ session'[p].replayWin.maxSeq <= session'[q].outSequence
  BY <1>1 DEF Unseen
<1>3. /\ DOMAIN wire[q] = 1 .. n /\ DOMAIN wire'[q] = 1 .. n + 1 /\ wire'[q][n + 1] = pkt
      /\ \A j \in 1 .. n : wire'[q][j] = wire[q][j]
  BY <1>1
<1> HIDE DEF n
<1>4. ASSUME NEW j \in DOMAIN wire'[q], j > got[p], IsData(wire'[q][j])
      PROVE  m < wire'[q][j].hdr.seq
  <2>1. CASE j = n + 1
    BY <1>1, <1>2, <1>3, <1>4, <2>1
  <2>2. CASE j # n + 1
    <3>1. j \in DOMAIN wire[q] /\ wire'[q][j] = wire[q][j]
      BY <1>1, <1>3, <2>2
    <3> QED
      BY <1>4, <3>1 DEF Unseen
  <2> QED
    BY <2>1, <2>2
<1> QED
  BY <1>2, <1>4 DEF Unseen, IsData

\* An open session is handed messages only, in the order of their numbers.
LEMMA ComingIsData ==
  ASSUME PairInv, OrderInv, NEW p \in Peers, got[p] < Len(wire[Other(p)]), phase[p] = "open"
  PROVE  /\ IsData(Coming(p)) /\ phase[Other(p)] = "open"
         /\ Coming(p).hdr.seq \in 1 .. session[Other(p)].outSequence
         /\ Coming(p).body.text = Coming(p).hdr.seq
         /\ Coming(p).body.aad = Coming(p).hdr
         /\ \A j \in DOMAIN wire[Other(p)] : j > got[p] + 1 =>
              /\ IsData(wire[Other(p)][j])
              /\ Coming(p).hdr.seq < wire[Other(p)][j].hdr.seq
              /\ Before(Coming(p).body.mk, wire[Other(p)][j].body.mk)
         /\ \A j \in 1 .. got[p] : IsData(wire[Other(p)][j]) =>
              Before(wire[Other(p)][j].body.mk, Coming(p).body.mk)
<1> DEFINE q == Other(p)
           n == got[p] + 1
<1>1. PairType /\ q \in Peers /\ got[p] \in Nat /\ got[p] > 0 /\ n \in DOMAIN wire[q]
  BY PeerFacts, ComingFacts DEF PairInv, OrderInv, HandedOver
<1>2. Numbered(q) /\ DOMAIN wire[q] = 1 .. Len(wire[q]) /\ Len(wire[q]) \in Nat
  BY <1>1, CounterTypes DEF OrderInv
<1>3. n \in Nat /\ n # 1 /\ n > 1 /\ n > got[p]
  BY <1>1
<1>4. Coming(p) = wire[q][n]
  BY DEF Coming
<1> HIDE DEF n
<1>5. \A j \in DOMAIN wire[q] : j # 1 => IsData(wire[q][j])
  BY <1>2 DEF Numbered
<1>6. IsData(wire[q][n])
  BY <1>1, <1>3, <1>5
<1>7. /\ wire[q][n].hdr.seq \in 1 .. session[q].outSequence
      /\ wire[q][n].body.text = wire[q][n].hdr.seq
      /\ wire[q][n].body.aad = wire[q][n].hdr
      /\ phase[q] = "open"
  BY <1>1, <1>2, <1>6 DEF Numbered
<1>8. ASSUME NEW j \in DOMAIN wire[q], j > n
      PROVE  /\ IsData(wire[q][j]) /\ wire[q][n].hdr.seq < wire[q][j].hdr.seq
             /\ Before(wire[q][n].body.mk, wire[q][j].body.mk)
  <2>1. IsData(wire[q][j]) /\ n < j
    BY <1>2, <1>3, <1>5, <1>8
  <2> QED
    BY <1>1, <1>2, <1>6, <2>1 DEF Numbered
<1>9. ASSUME NEW j \in 1 .. got[p], IsData(wire[q][j])
      PROVE  Before(wire[q][j].body.mk, wire[q][n].body.mk)
  <2>1. j \in DOMAIN wire[q] /\ j < n
    BY <1>1, <1>2, <1>3 DEF n
  <2> QED
    BY <1>1, <1>2, <1>6, <1>9, <2>1 DEF Numbered
<1> QED
  BY <1>4, <1>6, <1>7, <1>8, <1>9 DEF n
\* CheckAndAdd leaves the highest number it has seen.
LEMMA WindowHighest ==
  ASSUME NEW w \in Windows, NEW n \in Nat
  PROVE  CheckAndAdd(w, n).maxSeq = w.maxSeq \/ CheckAndAdd(w, n).maxSeq = n
<1>1. CASE ~Accepts(w, n)
  BY <1>1 DEF CheckAndAdd
<1>2. CASE Accepts(w, n) /\ n > w.maxSeq
  BY <1>2 DEF CheckAndAdd, Add
<1>3. CASE Accepts(w, n) /\ ~(n > w.maxSeq)
  BY <1>3 DEF CheckAndAdd, Add, Windows
<1> QED
  BY <1>1, <1>2, <1>3

\* Nothing is put on the wire, handed over or generated.
LEMMA BoundFrame ==
  ASSUME PairType, PairType', OrderInv, BoundInv,
         got' = got, wire' = wire, nkeys' = nkeys, ephPriv' = ephPriv,
         \A p \in Peers : /\ PhaseKept(p) /\ session[p].outSequence <= session'[p].outSequence
                          /\ session'[p].outSequence <= MaxMessages
                          /\ session'[p].replayWin = session[p].replayWin
  PROVE  BoundInv'
<1>1. ASSUME NEW p \in Peers PROVE Bounded(p)' /\ Unseen(p)'
  <2>1. Other(p) \in Peers /\ got[p] \in Nat
    BY PeerFacts DEF OrderInv
  <2>2. Unseen(p)'
    BY <2>1, UnseenKept DEF BoundInv
  <2>3. session[p].outSequence \in Nat /\ session'[p].outSequence \in Nat /\ Len(wire[p]) \in Nat
    BY CounterTypes DEF PairType, Sessions
  <2>4. Bounded(p)'
    BY <2>3 DEF BoundInv, Bounded, PhaseKept
  <2> QED
    BY <2>2, <2>4
<1> QED
  BY <1>1 DEF BoundInv, KeysOf

LEMMA BoundConnect ==
  ASSUME PairInv, PairInv', OrderInv, BoundInv, Connect, got' = got
  PROVE  BoundInv'
<1>1. PairType /\ PairType' /\ Alice \in Peers /\ Bob \in Peers /\ Alice # Bob
      /\ Other(Alice) = Bob /\ Other(Bob) = Alice
  BY PeersAssumption DEF PairInv, Peers, Other
<1> DEFINE init == HandshakePacket(Alice, "init", Fresh(Alice))
<1>2. /\ phase[Alice] = "idle" /\ phase' = [phase EXCEPT ![Alice] = "waiting"]
      /\ session' = session /\ ephPriv' = Fresh(Alice) /\ Generated(Alice, 1)
      /\ wire' = [wire EXCEPT ![Alice] = Append(@, init)]
  BY DEF Connect, CreateHandshakeInit
<1>3. wire[Alice] = <<>> /\ wire'[Bob] = wire[Bob] /\ phase'[Bob] = phase[Bob]
      /\ phase'[Alice] = "waiting" /\ wire'[Alice] = Append(wire[Alice], init)
  BY <1>1, <1>2 DEF OrderInv, Numbered, PairType
<1>4. init \in Packets /\ ~IsData(init)
  BY <1>1, FreshIsNew, HandshakeTyped DEF IsData
<1>5. nkeys'[Alice] = nkeys[Alice] + 1 /\ nkeys'[Bob] = nkeys[Bob]
  BY <1>1, <1>2 DEF Generated, PairType
<1> HIDE DEF init
<1>6. \A p \in Peers : /\ session[p].outSequence \in Nat /\ nkeys[p] \in Nat /\ got[p] \in Nat
                       /\ Len(wire[p]) \in Nat
  BY <1>1, CounterTypes DEF OrderInv
<1>7. Unseen(Bob)'
  <2>1. Unseen(Bob) /\ session[Alice].outSequence <= session'[Alice].outSequence
    BY <1>1, <1>2, <1>6 DEF BoundInv
  <2> QED
    BY <1>1, <1>2, <1>3, <1>4, <2>1, UnseenMore
<1>8. Unseen(Alice)'
  BY <1>1, <1>2, <1>3, <1>6, UnseenKept DEF BoundInv
<1>9. Len(wire'[Alice]) = 1
  BY <1>3
<1>10. Bounded(Alice)'
  BY <1>1, <1>2, <1>3, <1>5, <1>6, <1>9 DEF BoundInv, Bounded
<1>11. Bounded(Bob)'
  BY <1>1, <1>2, <1>3, <1>5, <1>6 DEF BoundInv, Bounded
<1>12. ephPriv' \in KeysOf(Alice)'
  BY <1>1, <1>2, GeneratedOne
<1> QED
  BY <1>7, <1>8, <1>10, <1>11, <1>12 DEF BoundInv, Peers

LEMMA BoundSeal ==
  ASSUME PairInv, PairInv', OrderInv, BoundInv, NEW p \in Peers, NEW reaches \in BOOLEAN,
         Seal(p, reaches), got' = got
  PROVE  BoundInv'
<1> DEFINE q == Other(p)
           pkt == NextPacket(p)
<1>1. PairType /\ PairType' /\ q \in Peers /\ q # p /\ Other(q) = p
  BY PeerFacts DEF PairInv
<1>2. Sealing(p, pkt)
  BY SealShape
<1>3. /\ phase' = phase /\ ephPriv' = ephPriv /\ session[p].outSequence < MaxMessages
      /\ (wire' = wire \/ wire' = [wire EXCEPT ![p] = Append(@, pkt)])
  BY DEF Seal, NextPacket
<1> HIDE DEF pkt
<1>4. /\ session'[p].replayWin = session[p].replayWin
      /\ session'[p].outSequence = session[p].outSequence + 1
      /\ session'[q] = session[q] /\ nkeys' = nkeys
      /\ IsData(pkt) /\ pkt.hdr.seq = session[p].outSequence + 1 /\ pkt \in Packets
  BY <1>1, <1>2 DEF Sealing, PairType, IsData
<1>5. \A x \in Peers : /\ session[x].outSequence \in Nat /\ nkeys[x] \in Nat /\ got[x] \in Nat
                       /\ Len(wire[x]) \in Nat /\ wire[x] \in Seq(Packets)
  BY <1>1, CounterTypes DEF OrderInv
<1>6. session'[p].outSequence <= MaxMessages
      /\ session'[p].outSequence >= session[p].outSequence
  BY <1>3, <1>4, <1>5, BoundsAssumption
<1>7. CASE wire' = wire
  <2>1. \A x \in Peers : /\ session[x].outSequence <= session'[x].outSequence
                         /\ session'[x].outSequence <= MaxMessages
                         /\ session'[x].replayWin = session[x].replayWin
    BY <1>1, <1>4, <1>5, <1>6, PeerFacts DEF BoundInv, Bounded
  <2> QED
    BY <1>1, <1>3, <1>4, <1>7, <2>1, BoundFrame DEF PhaseKept
<1>8. CASE wire' = [wire EXCEPT ![p] = Append(@, pkt)]
  <2>1. wire'[q] = wire[q] /\ wire'[p] = Append(wire[p], pkt)
    BY <1>1, <1>8 DEF PairType
  <2>2. Len(wire'[p]) = Len(wire[p]) + 1
    BY <1>5, <2>1
  <2>3. Unseen(q)'
    <3>1. Unseen(q) /\ pkt.hdr.seq > session[p].outSequence
      BY <1>1, <1>4, <1>5 DEF BoundInv
    <3> QED
      BY <1>1, <1>4, <1>6, <2>1, <3>1, UnseenMore
  <2>4. Unseen(p)'
    BY <1>1, <1>4, <1>5, <2>1, UnseenKept DEF BoundInv
  <2>5. Bounded(p)'
    BY <1>3, <1>4, <1>5, <1>6, <2>2 DEF BoundInv, Bounded
  <2>6. Bounded(q)'
    BY <1>1, <1>3, <1>4, <2>1 DEF BoundInv, Bounded
  <2> QED
    BY <1>3, <1>4, <2>3, <2>4, <2>5, <2>6, PeerFacts DEF BoundInv, KeysOf
<1> QED
  BY <1>3, <1>7, <1>8

LEMMA BoundRefused ==
  ASSUME PairInv, PairInv', OrderInv, BoundInv, NEW p \in Peers, SendRefused(p), got' = got
  PROVE  BoundInv'
<1>1. PairType /\ PairType' /\ session[p] \in Sessions /\ session[p].isEstablished
  BY DEF PairInv, PairType, PeerInv, Opens, SendRefused
<1>2. /\ session' = [session EXCEPT ![p] = AfterRefusedEncrypt(session[p])]
      /\ phase' = phase /\ wire' = wire /\ nkeys' = nkeys /\ ephPriv' = ephPriv
      /\ session[p].outSequence < MaxMessages
  BY DEF SendRefused
<1>3. /\ AfterRefusedEncrypt(session[p]).outSequence = session[p].outSequence + 1
      /\ AfterRefusedEncrypt(session[p]).replayWin = session[p].replayWin
  BY <1>1 DEF AfterRefusedEncrypt, Sessions
<1>4. ASSUME NEW x \in Peers PROVE /\ session[x].outSequence <= session'[x].outSequence
                                   /\ session'[x].outSequence <= MaxMessages
                                   /\ session'[x].replayWin = session[x].replayWin
  <2>1. session[x].outSequence \in Nat /\ session[x].outSequence <= MaxMessages
    BY <1>1, CounterTypes DEF BoundInv, Bounded
  <2>2. session'[x] = IF x = p THEN AfterRefusedEncrypt(session[p]) ELSE session[x]
    BY <1>1, <1>2 DEF PairType
  <2> QED
    BY <1>2, <1>3, <2>1, <2>2, BoundsAssumption
<1> QED
  BY <1>1, <1>2, <1>4, BoundFrame DEF PhaseKept

\* A packet handed over to the handshake makes at most one key pair.
LEMMA BoundHandshake ==
  ASSUME PairInv, PairInv', OrderInv, OrderInv', BoundInv, NEW p \in Peers, NEW n \in {0, 1},
         got' = [got EXCEPT ![p] = @ + 1], got[p] < Len(wire[Other(p)]),
         phase[p] # "open", phase' = [phase EXCEPT ![p] = "open"]
                            \/ phase' = [phase EXCEPT ![p] = "closed"],
         Generated(p, n), ephPriv' = ephPriv,
         \/ wire' = wire
         \/ /\ phase[p] \in Idle
            /\ \E pkt \in Packets : ~IsData(pkt) /\ wire' = [wire EXCEPT ![p] = Append(@, pkt)],
         \A x \in Peers : /\ session'[x].outSequence = session[x].outSequence
                          /\ session'[x].replayWin = session[x].replayWin
  PROVE  BoundInv'
<1> DEFINE q == Other(p)
<1>1. PairType /\ PairType' /\ q \in Peers /\ q # p /\ Other(q) = p
  BY PeerFacts DEF PairInv
<1>2. got'[p] = got[p] + 1 /\ got'[q] = got[q] /\ got[p] \in Nat /\ got[q] \in Nat
      /\ nkeys'[p] = nkeys[p] + n /\ nkeys'[q] = nkeys[q]
      /\ phase'[q] = phase[q] /\ phase'[p] \notin Idle /\ wire'[q] = wire[q]
  BY <1>1 DEF OrderInv, PairType, Generated
<1>3. \A x \in Peers : /\ session[x].outSequence \in Nat /\ nkeys[x] \in Nat
                       /\ Len(wire[x]) \in Nat /\ wire[x] \in Seq(Packets)
  BY <1>1, CounterTypes
<1>4. Len(wire'[p]) <= 1 + session'[p].outSequence
  <2>1. CASE wire' = wire
    BY <2>1 DEF BoundInv, Bounded
  <2>2. CASE wire' # wire
    <3>1. PICK pkt \in Packets : phase[p] \in Idle /\ wire' = [wire EXCEPT ![p] = Append(@, pkt)]
      BY <2>2
    <3>2. wire[p] = <<>>
      BY <3>1 DEF OrderInv, Numbered
    <3>3. wire'[p] = Append(wire[p], pkt)
      BY <1>1, <3>1 DEF PairType
    <3>4. Len(wire'[p]) = 1
      BY <3>2, <3>3
    <3> QED
      BY <1>3, <3>4
  <2> QED
    BY <2>1, <2>2
<1>5. Unseen(q)'
  <2>1. CASE wire' = wire
    BY <1>1, <1>2, <1>3, <2>1, UnseenKept DEF BoundInv
  <2>2. CASE wire' # wire
    <3>1. PICK pkt \in Packets : ~IsData(pkt) /\ wire' = [wire EXCEPT ![p] = Append(@, pkt)]
      BY <2>2
    <3>2. wire'[p] = Append(wire[p], pkt)
      BY <1>1, <3>1 DEF PairType
    <3>3. /\ Unseen(q) /\ session[p].outSequence <= session'[p].outSequence
          /\ session'[q].replayWin = session[q].replayWin
          /\ IsData(pkt) => pkt.hdr.seq > session[p].outSequence
      BY <1>1, <1>3, <3>1 DEF BoundInv
    <3> HIDE DEF q
    <3> QED
      BY <1>1, <1>2, <3>2, <3>3, UnseenMore
  <2> QED
    BY <2>1, <2>2
<1>6. Unseen(p)'
  BY <1>1, <1>2, <1>3, UnseenKept DEF BoundInv
<1>7. Bounded(p)'
  BY <1>2, <1>3, <1>4 DEF BoundInv, Bounded
<1>8. Bounded(q)'
  BY <1>1, <1>2 DEF BoundInv, Bounded
<1>9. KeysOf(Alice) \subseteq KeysOf(Alice)'
  BY <1>1, GeneratedOne DEF Peers
<1> QED
  BY <1>5, <1>6, <1>7, <1>8, <1>9, PeerFacts DEF BoundInv

LEMMA BoundReceiveData ==
  ASSUME PairInv, PairInv', OrderInv, OrderInv', BoundInv, NEW p \in Peers,
         got[p] < Len(wire[Other(p)]), got' = [got EXCEPT ![p] = @ + 1],
         ReceiveData(p, Coming(p))
  PROVE  BoundInv'
<1> DEFINE q == Other(p)
           pkt == Coming(p)
           m == session[p].replayWin.maxSeq
<1>1. PairType /\ PairType' /\ q \in Peers /\ q # p /\ Other(q) = p
      /\ pkt \in Packets /\ FromWire(p, pkt)
  BY PeerFacts, ComingFacts DEF PairInv
<1>2. /\ session'[p].replayWin = CheckAndAdd(session[p].replayWin, pkt.hdr.seq)
      /\ session'[p].outSequence = session[p].outSequence
      /\ session'[q] = session[q]
      /\ phase[p] = "open" /\ phase' = phase /\ wire' = wire /\ ephPriv' = ephPriv
  BY <1>1, ReceiveCounts DEF ReceiveData
<1>3. /\ pkt.hdr.seq \in 1 .. session[q].outSequence
      /\ \A j \in DOMAIN wire[q] : j > got[p] + 1 => pkt.hdr.seq < wire[q][j].hdr.seq
  BY <1>2, ComingIsData
<1>4. PICK n \in {0, 1} : Generated(p, n)
  BY <1>1, ReceiveShape DEF Received
<1>5. got'[p] = got[p] + 1 /\ got'[q] = got[q] /\ got[p] \in Nat /\ got[q] \in Nat
      /\ nkeys'[p] = nkeys[p] + n /\ nkeys'[q] = nkeys[q]
  BY <1>1, <1>4 DEF OrderInv, PairType, Generated
<1>6. \A x \in Peers : /\ session[x].outSequence \in Nat /\ nkeys[x] \in Nat
                       /\ Len(wire[x]) \in Nat /\ DOMAIN wire[x] = 1 .. Len(wire[x])
  BY <1>1, CounterTypes
<1>7. session[p].replayWin \in Windows /\ m \in Nat /\ pkt.hdr.seq \in Nat
  BY <1>1, CounterTypes DEF Packets, Headers
<1> HIDE DEF pkt
<1>8. session'[p].replayWin.maxSeq = m \/ session'[p].replayWin.maxSeq = pkt.hdr.seq
  BY <1>2, <1>7, WindowHighest
<1>9. Unseen(p)'
  <2>1. session'[p].replayWin.maxSeq <= session'[q].outSequence
    BY <1>1, <1>2, <1>3, <1>6, <1>7, <1>8 DEF BoundInv, Unseen
  <2>2. ASSUME NEW j \in DOMAIN wire[q], j > got'[p], IsData(wire[q][j])
        PROVE  session'[p].replayWin.maxSeq < wire[q][j].hdr.seq
    <3>1. j > got[p] /\ j > got[p] + 1
      BY <1>1, <1>5, <1>6, <2>2
    <3>2. m < wire[q][j].hdr.seq
      BY <2>2, <3>1 DEF BoundInv, Unseen
    <3>3. pkt.hdr.seq < wire[q][j].hdr.seq
      BY <1>3, <3>1
    <3> QED
      BY <1>8, <3>2, <3>3
  <2> QED
    BY <1>2, <2>1, <2>2 DEF Unseen, IsData
<1>10. Unseen(q)'
  BY <1>1, <1>2, <1>5, <1>6, UnseenKept DEF BoundInv
<1>11. Bounded(p)'
  BY <1>2, <1>5, <1>6 DEF BoundInv, Bounded
<1>12. Bounded(q)'
  BY <1>1, <1>2, <1>5, <1>6 DEF BoundInv, Bounded
<1>13. KeysOf(Alice) \subseteq KeysOf(Alice)'
  BY <1>1, <1>4, GeneratedOne DEF Peers
<1> QED
  BY <1>2, <1>9, <1>10, <1>11, <1>12, <1>13, PeerFacts DEF BoundInv

\* The bounds are inductive when only messages come again.
LEMMA NextBound ==
  ASSUME RepeatTypes \subseteq {"data"}
  PROVE  PairInv /\ OrderInv /\ BoundInv /\ [Next]_vars => BoundInv'
<1> SUFFICES ASSUME PairInv, OrderInv, BoundInv, [Next]_vars PROVE BoundInv'
  OBVIOUS
<1>0. PairType /\ PairType' /\ PairInv' /\ OrderInv'
  BY NextBoth DEF PairInv
<1>1. ASSUME UNCHANGED <<peerVars, got>> PROVE BoundInv'
  <2>1. /\ got' = got /\ phase' = phase /\ wire' = wire /\ session' = session
        /\ nkeys' = nkeys /\ ephPriv' = ephPriv
    BY <1>1 DEF peerVars
  <2>2. \A p \in Peers : /\ session[p].outSequence <= session'[p].outSequence
                         /\ session'[p].outSequence <= MaxMessages
    BY <1>0, <2>1, CounterTypes DEF BoundInv, Bounded
  <2> QED
    BY <1>0, <2>1, <2>2, BoundFrame DEF PhaseKept
<1>2. CASE UNCHANGED vars
  BY <1>1, <1>2 DEF vars
<1>3. CASE Connect /\ UNCHANGED got
  BY <1>0, <1>3, BoundConnect
<1>4. ASSUME NEW p \in Peers, (Send(p) \/ SendFails(p)) /\ UNCHANGED got
      PROVE  BoundInv'
  <2>1. PICK reaches \in BOOLEAN : Seal(p, reaches)
    BY <1>4 DEF Send, SendFails
  <2> QED
    BY <1>0, <1>4, <2>1, BoundSeal
<1>5. ASSUME NEW p \in Peers, SendRefused(p) /\ UNCHANGED got PROVE BoundInv'
  BY <1>0, <1>5, BoundRefused
<1>6. ASSUME NEW p \in Peers, Compromise(p) /\ UNCHANGED got PROVE BoundInv'
  BY <1>1, <1>6 DEF Compromise
<1>7. ASSUME NEW p \in Peers, Receive(p) PROVE BoundInv'
  <2>1. /\ got[p] < Len(wire[Other(p)]) /\ got' = [got EXCEPT ![p] = @ + 1]
        /\ \/ p = Bob /\ ReceiveInit(Coming(p))
           \/ p = Alice /\ ReceiveResp(Coming(p))
           \/ ReceiveData(p, Coming(p))
    BY <1>7 DEF Receive, Coming
  <2>2. CASE p = Bob /\ ReceiveInit(Coming(p))
    <3> DEFINE resp == HandshakePacket(Bob, "resp", Fresh(Bob))
    <3>1. resp \in Packets /\ ~IsData(resp)
      BY <1>0, <2>2, FreshIsNew, HandshakeTyped DEF IsData
    <3>2. \/ session' = session
          \/ \E r : session' = [session EXCEPT ![Bob] = Established(session[Bob], r)]
      BY <2>2 DEF ReceiveInit, ProcessHandshakeInit
    <3>3. \/ /\ phase' = [phase EXCEPT ![Bob] = "open"] /\ Generated(Bob, 1)
             /\ wire' = [wire EXCEPT ![Bob] = Append(@, resp)]
          \/ phase' = [phase EXCEPT ![Bob] = "closed"] /\ nkeys' = nkeys /\ wire' = wire
      BY <2>2 DEF ReceiveInit, ProcessHandshakeInit
    <3> HIDE DEF resp
    <3>4. phase[Bob] \in Idle /\ ephPriv' = ephPriv
      BY <2>2 DEF ReceiveInit
    <3>5. nkeys' = nkeys => Generated(Bob, 0)
      BY <1>0, <2>2 DEF Generated, PairType
    <3>6. \A x \in Peers : /\ session'[x].outSequence = session[x].outSequence
                           /\ session'[x].replayWin = session[x].replayWin
      BY <1>0, <2>2, <3>2, EstablishedKeeps
    <3>7. PICK n \in {0, 1} : Generated(p, n)
      BY <2>2, <3>3, <3>5
    <3> QED
      BY <1>0, <2>1, <2>2, <3>1, <3>3, <3>4, <3>6, <3>7, BoundHandshake
  <2>3. CASE p = Alice /\ ReceiveResp(Coming(p))
    <3>1. \/ session' = session
          \/ \E r : session' = [session EXCEPT ![Alice] = Established(session[Alice], r)]
      BY <2>3 DEF ReceiveResp, CompleteInitiatorHandshake
    <3>2. \/ phase' = [phase EXCEPT ![Alice] = "open"] /\ Generated(Alice, 1)
          \/ phase' = [phase EXCEPT ![Alice] = "closed"] /\ nkeys' = nkeys
      BY <2>3 DEF ReceiveResp
    <3>3. phase[Alice] = "waiting" /\ ephPriv' = ephPriv /\ wire' = wire
      BY <2>3 DEF ReceiveResp
    <3>4. nkeys' = nkeys => Generated(Alice, 0)
      BY <1>0, <2>3 DEF Generated, PairType
    <3>5. \A x \in Peers : /\ session'[x].outSequence = session[x].outSequence
                           /\ session'[x].replayWin = session[x].replayWin
      BY <1>0, <2>3, <3>1, EstablishedKeeps
    <3>6. PICK n \in {0, 1} : Generated(p, n)
      BY <2>3, <3>2, <3>4
    <3> QED
      BY <1>0, <2>1, <2>3, <3>2, <3>3, <3>5, <3>6, BoundHandshake
  <2>4. CASE ReceiveData(p, Coming(p))
    BY <1>0, <2>1, <2>4, BoundReceiveData
  <2> QED
    BY <2>1, <2>2, <2>3, <2>4
<1>8. ASSUME NEW p \in Peers, Repeat(p) PROVE BoundInv'
  BY <1>2, <1>8, RepeatStutters
<1>9. ASSUME NEW p \in Peers, HandshakeFails(p) /\ UNCHANGED got PROVE BoundInv'
  <2>1. \A x \in Peers : session[x].outSequence \in Nat /\ session[x].outSequence <= MaxMessages
    BY <1>0, CounterTypes DEF BoundInv, Bounded
  <2> QED
    BY <1>0, <1>9, <2>1, FailsKeeps, BoundFrame
<1> QED
  BY <1>2, <1>3, <1>4, <1>5, <1>6, <1>7, <1>8, <1>9 DEF Next

\* What the bounds say about types.
LEMMA BoundTypes == PairInv /\ OrderInv /\ BoundInv => TypeOK
<1> SUFFICES ASSUME PairInv, OrderInv, BoundInv PROVE TypeOK
  OBVIOUS
<1>0. PairType /\ Alice \in Peers
  BY DEF PairInv, Peers
<1>1. ASSUME NEW p \in Peers PROVE KeysOf(p) \subseteq Keys
  <2>1. Other(p) \in Peers /\ nkeys[p] \in Nat /\ session[Other(p)].outSequence \in Nat
        /\ Len(wire[Other(p)]) \in Nat
    BY <1>0, PeerFacts, CounterTypes
  <2>2. nkeys[p] <= 1 + got[p] /\ got[p] \in 0 .. Len(wire[Other(p)])
        /\ Len(wire[Other(p)]) <= 1 + session[Other(p)].outSequence
        /\ session[Other(p)].outSequence <= MaxMessages
    BY <2>1 DEF BoundInv, Bounded, OrderInv, HandedOver
  <2>3. nkeys[p] <= 3 + 2 * MaxMessages
    BY <2>1, <2>2, BoundsAssumption
  <2>4. ASSUME NEW n \in 1 .. nkeys[p] PROVE n \in 1 .. 3 + 2 * MaxMessages
    BY <2>1, <2>3, BoundsAssumption
  <2> QED
    BY <2>4 DEF KeysOf, Keys
<1>2. ASSUME NEW p \in Peers
      PROVE  /\ session[p].outSequence \in 0 .. MaxMessages
             /\ session[p].replayWin \in [maxSeq : 0 .. MaxMessages, bitmap : SUBSET BitPositions]
             /\ got[p] \in 0 .. Len(wire[Other(p)])
             /\ phase[p] \in Idle \cup {"waiting", "open", "closed", "failed"}
  <2>1. Other(p) \in Peers /\ session[p].outSequence \in Nat
        /\ session[Other(p)].outSequence \in Nat
        /\ session[p].replayWin \in Windows /\ session[p].replayWin.maxSeq \in Nat
    BY <1>0, PeerFacts, CounterTypes
  <2>2. session[p].outSequence <= MaxMessages /\ session[Other(p)].outSequence <= MaxMessages
        /\ session[p].replayWin.maxSeq <= session[Other(p)].outSequence
    BY <2>1 DEF BoundInv, Bounded, Unseen
  <2>3. session[p].replayWin.maxSeq \in 0 .. MaxMessages
    BY <2>1, <2>2, BoundsAssumption
  <2>4. session[p].replayWin \in [maxSeq : 0 .. MaxMessages, bitmap : SUBSET BitPositions]
    BY <2>1, <2>3 DEF Windows
  <2>5. session[p].outSequence \in 0 .. MaxMessages
    BY <2>1, <2>2, BoundsAssumption
  <2> QED
    BY <1>0, <2>4, <2>5 DEF PairType, OrderInv, HandedOver
<1>3. ASSUME NEW p \in Peers
      PROVE  /\ session[p].isEstablished \in BOOLEAN
             /\ phase[p] = "open" <=> session[p].isEstablished
  BY <1>0 DEF PairType, Sessions, PairInv, PeerInv, Opens
<1>4. ASSUME NEW p \in Peers
      PROVE  /\ session[p].ratchet.DHsLocal \in Keys \cup {NoKey}
             /\ session[p].ratchet.DHrPeer \in Keys \cup {NoKey}
  <2>1. PeerInv(p) /\ Other(p) \in Peers
    BY PeerFacts DEF PairInv
  <2>2. CASE phase[p] # "open"
    <3>1. session[p] = NewSession
      BY <2>1, <2>2 DEF PeerInv, Opens, Untouched
    <3> QED
      BY <3>1 DEF NewSession, NoRatchet, NewResponderRatchet
  <2>3. CASE phase[p] = "open"
    <3>1. session[p].ratchet.DHsLocal \in KeysOf(p) /\ Shaped(session[p].ratchet)
      BY <2>1, <2>3 DEF PeerInv, KeysOwned, Opens
    <3>2. session[p].ratchet.DHrPeer \in KeysOf(Other(p)) \cup {NoKey}
      BY <2>1, <2>3, <3>1 DEF PeerInv, KeysOwned, Shaped
    <3> QED
      BY <1>1, <2>1, <3>1, <3>2
  <2> QED
    BY <2>2, <2>3
<1>5. ephPriv \in Keys \cup {NoKey}
  BY <1>0, <1>1 DEF BoundInv
<1> QED
  BY <1>2, <1>3, <1>4, <1>5 DEF TypeOK

\* Counters, window, keys and phase of either peer stay in their types, whatever is lost
\* and whichever messages come again.
THEOREM OrderedTypeCorrect ==
  ASSUME RepeatTypes \subseteq {"data"}
  PROVE  Spec => []TypeOK
<1>1. Spec => [](PairInv /\ OrderInv /\ BoundInv)
  BY InitBoth, NextBoth, BoundInitInv, NextBound, PTL DEF Spec
<1> QED
  BY <1>1, BoundTypes, PTL
-----------------------------------------------------------------------------
\* The two root keys.

\* The responder's handshake waits for the initiator.
Starting ==
    /\ phase[Alice] = "idle" => wire[Alice] = <<>>
    /\ phase[Alice] = "waiting" => wire[Alice] # <<>>
    /\ wire[Alice] # <<>> => wire[Alice] = <<HandshakePacket(Alice, "init", ephPriv)>>
    /\ phase[Bob] # "open" => wire[Bob] = <<>>
    /\ phase[Bob] = "open" =>
        LET k == session[Bob].ratchet.DHsLocal
        IN  /\ session[Bob].ratchet =
                  NewResponderRatchet(MasterSecret(ComputeECDHSharedSecret(k, ephPriv)), k)
            /\ wire[Bob] = <<HandshakePacket(Bob, "resp", k)>>

\* The ratchet r has made the latest DH step, and s the one before.
Linked(r, s) ==
    /\ r.RK = Append(s.RK, ComputeECDHSharedSecret(r.DHsLocal, s.DHsLocal))
    /\ r.DHrPeer = s.DHsLocal
    /\ s.DHrPeer # r.DHsLocal
    /\ r.CKs # NoChain
    /\ s.CKs # NoChain => r.CKr.root = s.CKs.root

\* What is under way to the peer ahead belongs to the chain it reads.
ToAhead(p) ==
    LET q == Other(p)
    IN  \A j \in DOMAIN wire[q] : j > got[p] /\ IsData(wire[q][j]) =>
            /\ wire[q][j].hdr.epub = session[q].ratchet.DHsLocal
            /\ wire[q][j].body.mk.root = session[p].ratchet.CKr.root

\* What is under way from the peer ahead belongs to its old chain, and then to its new one.
FromAhead(p) ==
    LET q == Other(p)
        r == session[p].ratchet
        s == session[q].ratchet
    IN  /\ \A j \in DOMAIN wire[p] : j > got[q] /\ IsData(wire[p][j]) =>
            \/ wire[p][j].hdr.epub = r.DHsLocal /\ wire[p][j].body.mk.root = r.RK
            \/ wire[p][j].hdr.epub = s.DHrPeer /\ wire[p][j].body.mk.root = s.CKr.root
        /\ \A i, j \in DOMAIN wire[p] :
            i > got[q] /\ i < j /\ IsData(wire[p][i]) /\ wire[p][i].hdr.epub = r.DHsLocal
                => wire[p][j].hdr.epub = r.DHsLocal

Ahead(p) ==
    /\ phase[p] = "open" /\ phase[Other(p)] = "open"
    /\ Linked(session[p].ratchet, session[Other(p)].ratchet)
    /\ ToAhead(p) /\ FromAhead(p)

RootsInv ==
    /\ phase[Alice] # "open" => Starting
    /\ phase[Alice] = "open" => \E p \in Peers : Ahead(p)

LEMMA SecretCommutes ==
  ASSUME NEW a, NEW b PROVE ComputeECDHSharedSecret(a, b) = ComputeECDHSharedSecret(b, a)
  BY DEF ComputeECDHSharedSecret

\* One root is the other and the secret of the latest step.
LEMMA InvRootsAgree == PairInv /\ RootsInv => RootsAgree
<1> SUFFICES ASSUME PairInv, RootsInv, session[Alice].isEstablished
             PROVE  \E p \in Peers :
                        LET r == session[p].ratchet.RK
                            s == session[Other(p)].ratchet.RK
                        IN  Len(s) = Len(r) + 1 /\ SubSeq(s, 1, Len(r)) = r
  BY DEF RootsAgree
<1>1. PairType /\ phase[Alice] = "open"
  BY DEF PairInv, PeerInv, Opens, Peers
<1>2. PICK p \in Peers : Ahead(p)
  BY <1>1 DEF RootsInv
<1> DEFINE q == Other(p)
<1>3. q \in Peers /\ Other(q) = p
  BY PeerFacts
<1> DEFINE s == session[p].ratchet.RK
           r == session[q].ratchet.RK
<1>4. PICK x : s = Append(r, x)
  BY <1>2 DEF Ahead, Linked
<1>5. r \in RootKeys
  BY <1>1, <1>3 DEF PairType, Sessions, Ratchets
<1> HIDE DEF s, r
<1>6. r \in Seq(SUBSET AnyKey)
  BY <1>5 DEF RootKeys
<1>7. Len(s) = Len(r) + 1 /\ Len(r) \in Nat /\ \A i \in 1 .. Len(r) : s[i] = r[i]
  BY <1>4, <1>6
<1>8. SubSeq(s, 1, Len(r)) = [i \in 1 .. Len(r) |-> s[i]]
  BY <1>4, <1>6, <1>7
<1>9. r = [i \in 1 .. Len(r) |-> r[i]]
  BY <1>6
<1>10. SubSeq(s, 1, Len(r)) = r
  BY <1>7, <1>8, <1>9
<1> QED
  BY <1>3, <1>7, <1>10 DEF r, s

LEMMA RootsInitInv == Init => RootsInv
<1> SUFFICES ASSUME Init PROVE RootsInv
  OBVIOUS
<1>1. /\ phase[Alice] = "idle" /\ phase[Bob] \in Idle
      /\ wire[Alice] = <<>> /\ wire[Bob] = <<>>
  BY DEF Init, PairInit, Peers
<1> QED
  BY <1>1 DEF RootsInv, Starting

\* The responder cannot be open before the initiator has connected.
LEMMA RootsConnect ==
  ASSUME PairInv, OrderInv, RootsInv, Connect, got' = got
  PROVE  RootsInv'
<1>1. PairType /\ Alice \in Peers /\ Bob \in Peers /\ Alice # Bob
      /\ Other(Bob) = Alice
  BY PeersAssumption DEF PairInv, Peers, Other
<1> DEFINE init == HandshakePacket(Alice, "init", Fresh(Alice))
<1>2. /\ phase[Alice] = "idle" /\ phase' = [phase EXCEPT ![Alice] = "waiting"]
      /\ session' = session /\ ephPriv' = Fresh(Alice)
      /\ wire' = [wire EXCEPT ![Alice] = Append(@, init)]
  BY DEF Connect, CreateHandshakeInit
<1>3. Starting
  BY <1>2 DEF RootsInv
<1>4. wire[Alice] = <<>>
  BY <1>2, <1>3 DEF Starting
<1>5. phase[Bob] # "open"
  <2>1. got[Bob] \in 0 .. 0
    BY <1>1, <1>4 DEF OrderInv, HandedOver
  <2> QED
    BY <1>1, <2>1 DEF OrderInv, HandedOver
<1>6. wire[Bob] = <<>>
  BY <1>3, <1>5 DEF Starting
<1> HIDE DEF init
<1>7. /\ wire'[Alice] = <<init>> /\ wire'[Bob] = <<>>
      /\ phase'[Alice] = "waiting" /\ phase'[Bob] = phase[Bob]
  BY <1>1, <1>2, <1>4, <1>6 DEF PairType
<1>8. init = HandshakePacket(Alice, "init", ephPriv')
  BY <1>2 DEF init
<1>9. Starting'
  BY <1>5, <1>7, <1>8 DEF Starting, HandshakePacket, Packet, Header, HandshakePayload, Sign
<1> QED
  BY <1>7, <1>9 DEF RootsInv

\* The initiator's packet is the responder's first.
LEMMA RootsReceiveInit ==
  ASSUME PairInv, OrderInv, RootsInv, got[Bob] < Len(wire[Alice]),
         ReceiveInit(Coming(Bob))
  PROVE  RootsInv'
<1>1. PairType /\ Alice \in Peers /\ Bob \in Peers /\ Alice # Bob /\ Other(Bob) = Alice
      /\ Other(Alice) = Bob
  BY PeersAssumption DEF PairInv, Peers, Other
<1>2. phase[Bob] \in Idle /\ ephPriv' = ephPriv
  BY DEF ReceiveInit
<1>3. phase[Alice] # "open"
  <2>1. phase[Alice] = "open" => \E p \in Peers : phase[p] = "open" /\ phase[Other(p)] = "open"
    BY DEF RootsInv, Ahead
  <2> QED
    BY <1>1, <1>2, <2>1 DEF Peers
<1>4. Starting
  BY <1>3 DEF RootsInv
<1>5. wire[Bob] = <<>> /\ got[Bob] = 0
  BY <1>1, <1>2, <1>4 DEF Starting, OrderInv, HandedOver
<1>6. phase[Alice] # "idle" /\ wire[Alice] = <<HandshakePacket(Alice, "init", ephPriv)>>
  <2>1. wire[Alice] # <<>>
    BY <1>5
  <2> QED
    BY <1>4, <2>1 DEF Starting
<1>7. Coming(Bob) = HandshakePacket(Alice, "init", ephPriv)
  BY <1>1, <1>5, <1>6 DEF Coming
<1>8. Coming(Bob).body.text = ephPriv
  BY <1>7 DEF HandshakePacket, Packet, HandshakePayload
<1> DEFINE k == Fresh(Bob)
           master == MasterSecret(ComputeECDHSharedSecret(k, ephPriv))
           r == NewResponderRatchet(master, k)
           resp == HandshakePacket(Bob, "resp", k)
<1>9. CASE HandshakeValid(Coming(Bob), "init", PeerKey(Coming(Bob)))
  <2>1. /\ session' = [session EXCEPT ![Bob] = Established(session[Bob], r)]
        /\ phase' = [phase EXCEPT ![Bob] = "open"]
        /\ wire' = [wire EXCEPT ![Bob] = Append(@, resp)]
    BY <1>8, <1>9 DEF ReceiveInit, ProcessHandshakeInit
  <2>2. r.DHsLocal = k
    BY DEF NewResponderRatchet
  <2> HIDE DEF r, k, resp
  <2>3. session'[Bob] = Established(session[Bob], r) /\ session[Bob] \in Sessions
    BY <1>1, <2>1 DEF PairType
  <2>4. session'[Bob].ratchet = r
    BY <2>3 DEF Established, Sessions
  <2>5. /\ phase'[Bob] = "open" /\ phase'[Alice] = phase[Alice]
        /\ wire'[Alice] = wire[Alice] /\ wire'[Bob] = <<resp>>
    BY <1>1, <1>5, <2>1 DEF PairType
  <2>6. session'[Bob].ratchet.DHsLocal = k
    BY <2>2, <2>4
  <2>7. Starting'
    BY <1>2, <1>6, <2>4, <2>5, <2>6 DEF Starting, r, resp, NewResponderRatchet, MasterSecret,
       ComputeECDHSharedSecret, HandshakePacket, Packet, Header, HandshakePayload, Sign
  <2> QED
    BY <1>3, <2>5, <2>7 DEF RootsInv
<1>10. CASE ~HandshakeValid(Coming(Bob), "init", PeerKey(Coming(Bob)))
  <2>1. phase' = [phase EXCEPT ![Bob] = "closed"] /\ wire' = wire /\ session' = session
    BY <1>10 DEF ReceiveInit
  <2>2. phase'[Bob] = "closed" /\ phase'[Alice] = phase[Alice]
    BY <1>1, <2>1 DEF PairType
  <2>3. Starting'
    BY <1>2, <1>5, <1>6, <2>1, <2>2 DEF Starting, HandshakePacket, Packet, Header,
       HandshakePayload, Sign
  <2> QED
    BY <1>3, <2>2, <2>3 DEF RootsInv
<1> QED
  BY <1>9, <1>10

\* The responder's answer puts the initiator one step ahead.
LEMMA RootsReceiveResp ==
  ASSUME PairInv, OrderInv, RootsInv, got[Alice] < Len(wire[Bob]),
         got' = [got EXCEPT ![Alice] = @ + 1], ReceiveResp(Coming(Alice))
  PROVE  RootsInv'
<1>1. PairType /\ Alice \in Peers /\ Bob \in Peers /\ Alice # Bob /\ Other(Bob) = Alice
      /\ Other(Alice) = Bob
  BY PeersAssumption DEF PairInv, Peers, Other
<1>2. phase[Alice] = "waiting" /\ ephPriv' = ephPriv /\ wire' = wire
  BY DEF ReceiveResp
<1>3. Starting /\ got[Alice] = 0
  BY <1>1, <1>2 DEF RootsInv, OrderInv, HandedOver
<1>4. phase[Bob] = "open"
  <2>1. wire[Bob] # <<>>
    BY <1>3
  <2> QED
    BY <1>3, <2>1 DEF Starting
<1> DEFINE s == session[Bob].ratchet
           k == s.DHsLocal
<1>5. /\ wire[Alice] = <<HandshakePacket(Alice, "init", ephPriv)>>
      /\ s = NewResponderRatchet(MasterSecret(ComputeECDHSharedSecret(k, ephPriv)), k)
      /\ wire[Bob] = <<HandshakePacket(Bob, "resp", k)>>
  BY <1>2, <1>3, <1>4 DEF Starting
<1>6. Coming(Alice) = HandshakePacket(Bob, "resp", k)
  BY <1>1, <1>3, <1>5 DEF Coming
<1>7. Coming(Alice).body.text = k
  BY <1>6 DEF HandshakePacket, Packet, HandshakePayload
<1> DEFINE fresh == Fresh(Alice)
           master == MasterSecret(ComputeECDHSharedSecret(ephPriv, k))
           r == NewInitiatorRatchet(master, fresh, k)
<1>8. CASE HandshakeValid(Coming(Alice), "resp", Bob)
  <2>1. /\ session' = [session EXCEPT ![Alice] = Established(session[Alice], r)]
        /\ phase' = [phase EXCEPT ![Alice] = "open"]
    BY <1>7, <1>8 DEF ReceiveResp, CompleteInitiatorHandshake
  <2>2. /\ r.RK = Append(master, ComputeECDHSharedSecret(fresh, k))
        /\ r.DHsLocal = fresh /\ r.DHrPeer = k
        /\ r.CKs.root = Append(master, ComputeECDHSharedSecret(fresh, k))
    BY DEF NewInitiatorRatchet, DeriveRootStep
  <2>3. s.RK = MasterSecret(ComputeECDHSharedSecret(k, ephPriv)) /\ s.DHrPeer = NoKey
        /\ s.CKs = NoChain
    BY <1>5 DEF NewResponderRatchet
  <2>4. s.RK = master
    BY <2>3, SecretCommutes DEF MasterSecret
  <2>5. fresh # NoKey
    <3>1. nkeys[Alice] \in Nat
      BY <1>1 DEF PairType
    <3> QED
      BY <1>1, <3>1, NoKeyAssumption DEF Fresh
  <2>6. r.CKs # NoChain
    <3>1. master \in Seq({ComputeECDHSharedSecret(ephPriv, k)})
      BY DEF MasterSecret
    <3> HIDE DEF master
    <3>2. Append(master, ComputeECDHSharedSecret(fresh, k)) # <<>>
      BY <3>1
    <3> QED
      BY <2>2, <3>2 DEF NoChain
  <2> HIDE DEF r, s, master, k, fresh
  <2>7. Linked(r, s)
    BY <2>2, <2>3, <2>4, <2>5, <2>6 DEF Linked, k
  <2>8. session'[Alice] = Established(session[Alice], r) /\ session[Alice] \in Sessions
        /\ session'[Bob] = session[Bob]
    BY <1>1, <2>1 DEF PairType
  <2>9. session'[Alice].ratchet = r /\ session'[Bob].ratchet = s
    BY <2>8 DEF Established, Sessions, s
  <2>10. phase'[Alice] = "open" /\ phase'[Bob] = "open" /\ got'[Alice] = 1 /\ got'[Bob] = got[Bob]
    BY <1>1, <1>3, <1>4, <2>1 DEF PairType, OrderInv
  <2>11. got[Bob] \in Nat /\ got[Bob] > 0
    BY <1>1, <1>4 DEF OrderInv, HandedOver
  <2>12. DOMAIN wire[Alice] = {1} /\ DOMAIN wire[Bob] = {1}
    BY <1>5
  <2>13. ToAhead(Alice)'
    BY <1>1, <1>2, <2>10, <2>12 DEF ToAhead
  <2>14. FromAhead(Alice)'
    BY <1>1, <1>2, <2>10, <2>11, <2>12 DEF FromAhead
  <2>15. Ahead(Alice)'
    BY <1>1, <2>7, <2>9, <2>10, <2>13, <2>14 DEF Ahead, Linked
  <2> QED
    BY <1>1, <2>10, <2>15 DEF RootsInv
<1>9. CASE ~HandshakeValid(Coming(Alice), "resp", Bob)
  <2>1. phase' = [phase EXCEPT ![Alice] = "closed"] /\ session' = session
    BY <1>9 DEF ReceiveResp
  <2>2. phase'[Alice] = "closed" /\ phase'[Bob] = "open"
    BY <1>1, <1>4, <2>1 DEF PairType
  <2>3. Starting'
    BY <1>2, <1>4, <1>5, <2>1, <2>2 DEF Starting, HandshakePacket, Packet, Header,
       HandshakePayload, Sign, NewResponderRatchet, MasterSecret, ComputeECDHSharedSecret
  <2> QED
    BY <2>2, <2>3 DEF RootsInv
<1> QED
  BY <1>8, <1>9

\* A ratchet that has not made a DH step.
Alike(r, t) ==
    /\ t.RK = r.RK /\ t.DHsLocal = r.DHsLocal /\ t.DHrPeer = r.DHrPeer
    /\ t.CKr.root = r.CKr.root /\ t.CKs.root = r.CKs.root
    /\ t.CKs # NoChain <=> r.CKs # NoChain

LEMMA LinkedKept ==
  ASSUME NEW r, NEW s, NEW t, NEW u, Linked(r, s), Alike(r, t), Alike(s, u)
  PROVE  Linked(t, u)
  BY DEF Linked, Alike

\* Messages are handed over, and neither peer makes a DH step.
LEMMA AheadKept ==
  ASSUME PairType, NEW p \in Peers, Ahead(p), wire' = wire,
         \A x \in Peers : phase[x] = "open" => phase'[x] = "open",
         \A x \in Peers : /\ Alike(session[x].ratchet, session'[x].ratchet)
                          /\ got[x] \in Nat /\ got'[x] \in Nat /\ got[x] <= got'[x]
  PROVE  Ahead(p)'
<1> DEFINE q == Other(p)
<1>1. q \in Peers
  BY PeerFacts
<1>2. /\ Alike(session[p].ratchet, session'[p].ratchet)
      /\ Alike(session[q].ratchet, session'[q].ratchet)
      /\ got[p] \in Nat /\ got'[p] \in Nat /\ got[p] <= got'[p]
      /\ got[q] \in Nat /\ got'[q] \in Nat /\ got[q] <= got'[q]
  BY <1>1
<1>3. \A x \in Peers : DOMAIN wire[x] = 1 .. Len(wire[x]) /\ Len(wire[x]) \in Nat
  BY CounterTypes
<1>4. ASSUME NEW j \in DOMAIN wire[q], j > got'[p] PROVE j > got[p]
  BY <1>1, <1>2, <1>3, <1>4
<1>5. ASSUME NEW j \in DOMAIN wire[p], j > got'[q] PROVE j > got[q]
  BY <1>1, <1>2, <1>3, <1>5
<1>6. Linked(session'[p].ratchet, session'[q].ratchet)
  BY <1>2, LinkedKept DEF Ahead
<1>7. ToAhead(p)'
  BY <1>2, <1>4 DEF Ahead, ToAhead, Alike, IsData
<1>8. FromAhead(p)'
  BY <1>2, <1>5 DEF Ahead, FromAhead, Alike, IsData
<1>9. phase'[p] = "open" /\ phase'[q] = "open"
  BY <1>1 DEF Ahead
<1> QED
  BY <1>6, <1>7, <1>8, <1>9 DEF Ahead

\* The peer ahead adds a message of its new chain.
LEMMA AheadSends ==
  ASSUME PairInv, OrderInv, NEW p \in Peers, Ahead(p), phase' = phase, got' = got,
         NEW pkt, Sealing(p, pkt), wire' = [wire EXCEPT ![p] = Append(@, pkt)]
  PROVE  Ahead(p)'
<1> DEFINE q == Other(p)
           n == Len(wire[p])
           r == session[p].ratchet
           s == session[q].ratchet
<1>1. PairType /\ q \in Peers /\ q # p /\ Opens(p) /\ phase[p] = "open"
  BY PeerFacts DEF PairInv, PeerInv, Ahead
<1>2. /\ pkt \in Packets /\ pkt.hdr.epub = r.DHsLocal /\ pkt.body.mk = r.CKs
      /\ Alike(r, session'[p].ratchet)
  <2>1. session[p].ratchet.CKs \in Chains
    BY <1>1, RatchetFacts
  <2>2. session[p].ratchet.CKs.step + 1 # 0
    BY <2>1 DEF Chains
  <2> QED
    BY <2>2 DEF Sealing, Alike, NoChain
<1>3. session'[q] = session[q]
  BY <1>1 DEF Sealing, PairType
<1>4. r.CKs # NoChain /\ r.CKs.root = r.RK
  BY <1>1 DEF Sealing, Opens, Shaped
<1>5. wire'[q] = wire[q] /\ wire'[p] = Append(wire[p], pkt) /\ wire[p] \in Seq(Packets)
  BY <1>1 DEF PairType
<1>6. /\ n \in Nat /\ DOMAIN wire[p] = 1 .. n /\ DOMAIN wire'[p] = 1 .. n + 1
      /\ wire'[p][n + 1] = pkt /\ \A i \in 1 .. n : wire'[p][i] = wire[p][i]
  BY <1>2, <1>5
<1> HIDE DEF n
<1>7. Linked(session'[p].ratchet, session'[q].ratchet)
  BY <1>2, <1>3, LinkedKept DEF Ahead, Alike
<1>8. ToAhead(p)'
  BY <1>2, <1>3, <1>5 DEF Ahead, ToAhead, Alike, IsData
<1>9. \A j \in 1 .. n + 1 : j = n + 1 \/ (j \in 1 .. n /\ j # n + 1)
  BY <1>6
<1> DEFINE w == wire'[p]
<1>10. ASSUME NEW j \in DOMAIN w, j > got[q], IsData(w[j])
       PROVE  \/ w[j].hdr.epub = r.DHsLocal /\ w[j].body.mk.root = r.RK
              \/ w[j].hdr.epub = s.DHrPeer /\ w[j].body.mk.root = s.CKr.root
  <2>1. CASE j = n + 1
    BY <1>2, <1>4, <1>6, <2>1
  <2>2. CASE j # n + 1
    <3>1. j \in DOMAIN wire[p] /\ w[j] = wire[p][j]
      BY <1>6, <1>9, <2>2
    <3> QED
      BY <1>10, <3>1 DEF Ahead, FromAhead
  <2> QED
    BY <2>1, <2>2
<1>11. ASSUME NEW i \in DOMAIN w, NEW j \in DOMAIN w, i > got[q], i < j, IsData(w[i]),
              w[i].hdr.epub = r.DHsLocal
       PROVE  w[j].hdr.epub = r.DHsLocal
  <2>1. CASE j = n + 1
    BY <1>2, <1>6, <2>1
  <2>2. CASE j # n + 1
    <3>1. j \in DOMAIN wire[p] /\ w[j] = wire[p][j]
      BY <1>6, <1>9, <2>2
    <3>2. i \in DOMAIN wire[p] /\ w[i] = wire[p][i]
      BY <1>6, <1>11, <3>1
    <3> QED
      BY <1>11, <3>1, <3>2 DEF Ahead, FromAhead
  <2> QED
    BY <2>1, <2>2
<1>12. FromAhead(p)'
  BY <1>2, <1>3, <1>10, <1>11 DEF FromAhead, Alike, IsData
<1> QED
  BY <1>7, <1>8, <1>12 DEF Ahead, Linked

\* The peer behind adds a message of the chain the other reads.
LEMMA BehindSends ==
  ASSUME PairInv, OrderInv, NEW p \in Peers, NEW q, q = Other(p), Ahead(p),
         phase' = phase, got' = got,
         NEW pkt, Sealing(q, pkt), wire' = [wire EXCEPT ![q] = Append(@, pkt)]
  PROVE  Ahead(p)'
<1> DEFINE n == Len(wire[q])
           r == session[p].ratchet
           s == session[q].ratchet
<1>1. PairType /\ q \in Peers /\ q # p /\ Opens(q) /\ phase[q] = "open"
  BY PeerFacts DEF PairInv, PeerInv, Ahead
<1>2. /\ pkt \in Packets /\ pkt.hdr.epub = s.DHsLocal /\ pkt.body.mk = s.CKs
      /\ s.CKs # NoChain /\ Alike(s, session'[q].ratchet)
  <2>1. session[q].ratchet.CKs \in Chains
    BY <1>1, RatchetFacts
  <2>2. session[q].ratchet.CKs.step + 1 # 0
    BY <2>1 DEF Chains
  <2> QED
    BY <2>2 DEF Sealing, Alike, NoChain
<1>3. session'[p] = session[p]
  BY <1>1 DEF Sealing, PairType
<1>4. s.CKs.root = r.CKr.root
  BY <1>2 DEF Ahead, Linked
<1>5. wire'[p] = wire[p] /\ wire'[q] = Append(wire[q], pkt) /\ wire[q] \in Seq(Packets)
  BY <1>1 DEF PairType
<1>6. /\ n \in Nat /\ DOMAIN wire[q] = 1 .. n /\ DOMAIN wire'[q] = 1 .. n + 1
      /\ wire'[q][n + 1] = pkt /\ \A i \in 1 .. n : wire'[q][i] = wire[q][i]
  BY <1>2, <1>5
<1> HIDE DEF n
<1>7. Linked(session'[p].ratchet, session'[q].ratchet)
  BY <1>2, <1>3, LinkedKept DEF Ahead, Alike
<1>8. FromAhead(p)'
  <2> DEFINE u == session'[q].ratchet
  <2>1. u.DHrPeer = s.DHrPeer /\ u.CKr.root = s.CKr.root
    BY <1>2 DEF Alike
  <2>2. FromAhead(p)
    BY DEF Ahead
  <2>3. /\ \A j \in DOMAIN wire[p] : j > got[q] /\ IsData(wire[p][j]) =>
              \/ wire[p][j].hdr.epub = r.DHsLocal /\ wire[p][j].body.mk.root = r.RK
              \/ wire[p][j].hdr.epub = u.DHrPeer /\ wire[p][j].body.mk.root = u.CKr.root
        /\ \A i, j \in DOMAIN wire[p] :
              i > got[q] /\ i < j /\ IsData(wire[p][i]) /\ wire[p][i].hdr.epub = r.DHsLocal
                  => wire[p][j].hdr.epub = r.DHsLocal
    BY <2>1, <2>2 DEF FromAhead
  <2> DEFINE v == session'[p].ratchet
  <2>4. v = r
    BY <1>3
  <2> HIDE DEF u, v, r
  <2>5. /\ \A j \in DOMAIN wire'[p] : j > got'[q] /\ IsData(wire'[p][j]) =>
              \/ wire'[p][j].hdr.epub = v.DHsLocal /\ wire'[p][j].body.mk.root = v.RK
              \/ wire'[p][j].hdr.epub = u.DHrPeer /\ wire'[p][j].body.mk.root = u.CKr.root
        /\ \A i, j \in DOMAIN wire'[p] :
              i > got'[q] /\ i < j /\ IsData(wire'[p][i]) /\ wire'[p][i].hdr.epub = v.DHsLocal
                  => wire'[p][j].hdr.epub = v.DHsLocal
    BY <1>5, <2>3, <2>4
  <2> QED
    BY <2>5 DEF FromAhead, IsData, u, v
<1> DEFINE w == wire'[q]
<1>9. ASSUME NEW j \in DOMAIN w, j > got[p], IsData(w[j])
      PROVE  w[j].hdr.epub = s.DHsLocal /\ w[j].body.mk.root = r.CKr.root
  <2>1. CASE j = n + 1
    BY <1>2, <1>4, <1>6, <2>1
  <2>2. CASE j # n + 1
    <3>1. j \in DOMAIN wire[q] /\ w[j] = wire[q][j]
      BY <1>6, <2>2
    <3> QED
      BY <1>9, <3>1 DEF Ahead, ToAhead
  <2> QED
    BY <2>1, <2>2
<1>10. ToAhead(p)'
  BY <1>2, <1>3, <1>9 DEF ToAhead, Alike, IsData
<1> QED
  BY <1>7, <1>8, <1>10 DEF Ahead, Linked

\* The peer behind reads the first message of the new chain, and is ahead from then on.
LEMMA BehindSteps ==
  ASSUME PairInv, OrderInv, NEW p \in Peers, NEW q, q = Other(p), Ahead(p),
         got[q] < Len(wire[p]), got' = [got EXCEPT ![q] = @ + 1],
         phase' = phase, wire' = wire, session'[p] = session[p],
         IsData(Coming(q)), Coming(q).hdr.epub # session[q].ratchet.DHrPeer,
         Stepped(session[q].ratchet, session'[q].ratchet, Coming(q).hdr.epub, Fresh(q))
  PROVE  Ahead(q)'
<1> DEFINE n == got[q] + 1
           r == session[p].ratchet
           s == session[q].ratchet
           t == session'[q].ratchet
           pkt == Coming(q)
<1>1. PairType /\ q \in Peers /\ q # p /\ Other(q) = p /\ Opens(p)
      /\ phase[p] = "open" /\ phase[q] = "open"
  BY PeerFacts DEF PairInv, PeerInv, Ahead
<1>2. got[q] \in Nat /\ n \in DOMAIN wire[p] /\ pkt = wire[p][n] /\ n > got[q] /\ n \in Nat
  BY <1>1, ComingFacts DEF Coming
<1>3. got'[q] = n /\ got'[p] = got[p]
  BY <1>1 DEF OrderInv
<1>4. \A x \in Peers : DOMAIN wire[x] = 1 .. Len(wire[x]) /\ Len(wire[x]) \in Nat
  BY <1>1, CounterTypes
<1> HIDE DEF n, pkt
<1>5. pkt.hdr.epub = r.DHsLocal
  BY <1>2 DEF Ahead, FromAhead, pkt
<1>6. r.RK = Append(s.RK, ComputeECDHSharedSecret(s.DHsLocal, r.DHsLocal))
      /\ r.DHrPeer = s.DHsLocal /\ r.CKs # NoChain /\ r.CKs.root = r.RK
      /\ s.DHrPeer # r.DHsLocal
  BY <1>1, SecretCommutes DEF Ahead, Linked, Opens, Shaped
<1>7. /\ t.CKr.root = r.RK
      /\ t.RK = Append(r.RK, ComputeECDHSharedSecret(Fresh(q), r.DHsLocal))
      /\ t.CKs.root = t.RK
      /\ t.DHsLocal = Fresh(q) /\ t.DHrPeer = r.DHsLocal
  <2>1. Stepped(s, t, r.DHsLocal, Fresh(q))
    BY <1>5 DEF pkt
  <2>2. NewChain(s, r.DHsLocal).root = r.RK
    BY <1>6 DEF NewChain
  <2>3. t.CKs = [root |-> t.RK, step |-> 0] /\ t.CKr = [root |-> r.RK, step |-> 1]
    BY <2>1, <2>2 DEF Stepped
  <2> QED
    BY <2>1, <2>2, <2>3 DEF Stepped
<1>8. Fresh(q) # s.DHsLocal
  <2>1. s.DHsLocal \in KeysOf(q)
    BY <1>1 DEF PairInv, PeerInv, KeysOwned
  <2> QED
    BY <1>1, <2>1, FreshIsNew
<1>9. t.CKs # NoChain
  <2>1. r.RK \in RootKeys
    BY <1>1, RatchetFacts
  <2> DEFINE k == r.RK
  <2>2. k \in Seq(SUBSET AnyKey)
    BY <2>1 DEF RootKeys
  <2> HIDE DEF k
  <2>3. Append(k, ComputeECDHSharedSecret(Fresh(q), r.DHsLocal)) # <<>>
    BY <2>2
  <2> QED
    BY <1>7, <2>3 DEF NoChain, k
<1>10. Linked(t, r)
  BY <1>6, <1>7, <1>8, <1>9 DEF Linked
<1>11. ToAhead(q)'
  <2>1. ASSUME NEW j \in DOMAIN wire[p], j > n, IsData(wire[p][j])
        PROVE  wire[p][j].hdr.epub = r.DHsLocal /\ wire[p][j].body.mk.root = r.RK
    <3>1. j > got[q] /\ n < j
      BY <1>2, <1>4, <2>1
    <3>2. wire[p][j].hdr.epub = r.DHsLocal
      BY <1>2, <1>5, <3>1 DEF Ahead, FromAhead, pkt
    <3> QED
      BY <1>6, <2>1, <3>1, <3>2 DEF Ahead, FromAhead
  <2> QED
    BY <1>1, <1>3, <1>7, <2>1 DEF ToAhead, IsData
<1>12. FromAhead(q)'
  <2>1. ASSUME NEW j \in DOMAIN wire[q], j > got[p], IsData(wire[q][j])
        PROVE  wire[q][j].hdr.epub = s.DHsLocal /\ wire[q][j].body.mk.root = r.CKr.root
    BY <2>1 DEF Ahead, ToAhead
  <2>2. /\ \A j \in DOMAIN wire[q] : j > got[p] /\ IsData(wire[q][j]) =>
              wire[q][j].hdr.epub = r.DHrPeer /\ wire[q][j].body.mk.root = r.CKr.root
        /\ \A i, j \in DOMAIN wire[q] :
              i > got[p] /\ i < j /\ IsData(wire[q][i]) /\ wire[q][i].hdr.epub = Fresh(q)
                  => wire[q][j].hdr.epub = Fresh(q)
    BY <1>6, <1>8, <2>1
  <2>3. t.DHsLocal = Fresh(q)
    BY <1>7
  <2> QED
    BY <1>1, <1>3, <2>2, <2>3 DEF FromAhead, IsData
<1> QED
  BY <1>1, <1>10, <1>11, <1>12 DEF Ahead, Linked

LEMMA RootsFrame ==
  ASSUME PairType, OrderInv, RootsInv, wire' = wire, got' = got, ephPriv' = ephPriv,
         \A x \in Peers : PhaseKept(x) /\ session'[x].ratchet = session[x].ratchet
  PROVE  RootsInv'
<1>1. CASE phase[Alice] # "open"
  <2>1. Starting /\ Alice \in Peers /\ Bob \in Peers
    BY <1>1 DEF RootsInv, Peers
  <2>2. session'[Bob].ratchet = session[Bob].ratchet
    BY <2>1
  <2>3. Starting'
    BY <2>1, <2>2 DEF Starting, HandshakePacket, Packet, Header, HandshakePayload, Sign,
       NewResponderRatchet, MasterSecret, ComputeECDHSharedSecret, PhaseKept
  <2> QED
    BY <1>1, <2>1, <2>3 DEF RootsInv, PhaseKept
<1>2. CASE phase[Alice] = "open"
  <2>1. PICK p \in Peers : Ahead(p)
    BY <1>2 DEF RootsInv
  <2>2. \A x \in Peers : /\ Alike(session[x].ratchet, session'[x].ratchet)
                         /\ got[x] \in Nat /\ got'[x] \in Nat /\ got[x] <= got'[x]
    BY DEF Alike, OrderInv
  <2>3. \A x \in Peers : phase[x] = "open" => phase'[x] = "open"
    BY DEF PhaseKept
  <2>4. Ahead(p)'
    BY <2>1, <2>2, <2>3, AheadKept
  <2> QED
    BY <1>2, <2>3, <2>4 DEF RootsInv, Peers
<1> QED
  BY <1>1, <1>2

LEMMA RootsSeal ==
  ASSUME PairInv, OrderInv, RootsInv, NEW p \in Peers, NEW reaches \in BOOLEAN,
         Seal(p, reaches), got' = got
  PROVE  RootsInv'
<1> DEFINE pkt == NextPacket(p)
<1>1. PairType /\ Alice \in Peers /\ Bob \in Peers /\ (p = Alice \/ p = Bob)
  BY DEF PairInv, Peers
<1>2. Sealing(p, pkt)
  BY SealShape
<1>3. /\ phase' = phase /\ phase[p] = "open"
      /\ wire' = wire \/ wire' = [wire EXCEPT ![p] = Append(@, pkt)]
  BY DEF Seal, NextPacket
<1> HIDE DEF pkt
<1>4. phase[Alice] = "open"
  <2> SUFFICES ASSUME phase[Alice] # "open" PROVE FALSE
    OBVIOUS
  <2>1. p = Bob /\ Starting
    BY <1>1, <1>3 DEF RootsInv
  <2>2. session[Bob].ratchet.CKs = NoChain
    BY <1>3, <2>1 DEF Starting, NewResponderRatchet
  <2> QED
    BY <1>2, <2>1, <2>2 DEF Sealing
<1>5. PICK x \in Peers : Ahead(x)
  BY <1>4 DEF RootsInv
<1>6. CASE wire' = wire
  <2>1. Alike(session[p].ratchet, session'[p].ratchet)
    <3>1. session[p].ratchet.CKs \in Chains
      BY <1>1, <1>3, RatchetFacts DEF PairInv, PeerInv
    <3>2. session[p].ratchet.CKs.step + 1 # 0
      BY <3>1 DEF Chains
    <3> QED
      BY <1>2, <3>2 DEF Sealing, Alike, NoChain
  <2>2. \A y \in Peers : y # p => session'[y] = session[y]
    BY <1>1, <1>2 DEF Sealing, PairType
  <2>3. \A y \in Peers : /\ Alike(session[y].ratchet, session'[y].ratchet)
                         /\ got[y] \in Nat /\ got'[y] \in Nat /\ got[y] <= got'[y]
    BY <2>1, <2>2 DEF Alike, OrderInv
  <2> QED
    BY <1>1, <1>3, <1>4, <1>5, <1>6, <2>3, AheadKept DEF RootsInv
<1>7. CASE wire' = [wire EXCEPT ![p] = Append(@, pkt)]
  <2>1. p = x \/ p = Other(x)
    BY PeerFacts
  <2>2. Ahead(x)'
    BY <1>2, <1>3, <1>5, <1>7, <2>1, AheadSends, BehindSends
  <2> QED
    BY <1>3, <1>4, <2>2 DEF RootsInv
<1> QED
  BY <1>3, <1>6, <1>7

LEMMA RootsReceiveData ==
  ASSUME PairInv, OrderInv, RootsInv, NEW p \in Peers,
         got[p] < Len(wire[Other(p)]), got' = [got EXCEPT ![p] = @ + 1],
         ReceiveData(p, Coming(p))
  PROVE  RootsInv'
<1> DEFINE q == Other(p)
           pkt == Coming(p)
           r == session[p].ratchet
           t == session'[p].ratchet
<1>1. PairType /\ q \in Peers /\ q # p /\ Other(q) = p /\ FromWire(p, pkt)
      /\ got[p] \in Nat /\ got[q] \in Nat
  BY PeerFacts, ComingFacts DEF PairInv, OrderInv
<1>2. phase[p] = "open" /\ phase' = phase /\ wire' = wire
  BY DEF ReceiveData
<1>3. /\ IsData(pkt) /\ phase[q] = "open"
      /\ got[p] + 1 \in DOMAIN wire[q] /\ pkt = wire[q][got[p] + 1] /\ got[p] + 1 > got[p]
  BY <1>1, <1>2, ComingIsData, ComingFacts DEF Coming
<1>4. phase[Alice] = "open" /\ phase'[Alice] = "open"
  BY <1>2, <1>3 DEF Peers, Other
<1>5. Received(p, pkt)
  BY <1>1, ReceiveShape
<1> HIDE DEF pkt
<1>6. session'[q] = session[q]
  BY <1>1, <1>5 DEF Received, PairType
<1>7. PICK x \in Peers : Ahead(x)
  BY <1>4 DEF RootsInv
<1>8. got'[p] = got[p] + 1 /\ got'[q] = got[q]
  BY <1>1 DEF OrderInv
<1>9. ASSUME Alike(r, t) PROVE RootsInv'
  <2>1. ASSUME NEW y \in Peers PROVE Alike(session[y].ratchet, session'[y].ratchet)
    <3>1. CASE y = p
      BY <1>9, <3>1
    <3>2. CASE y # p
      BY <1>6, <3>2, PeerFacts DEF Alike
    <3> QED
      BY <3>1, <3>2
  <2>2. ASSUME NEW y \in Peers
        PROVE  got[y] \in Nat /\ got'[y] \in Nat /\ got[y] <= got'[y]
    BY <1>1, <1>8, PeerFacts
  <2>3. Ahead(x)'
    BY <1>1, <1>2, <1>7, <2>1, <2>2, AheadKept
  <2> QED
    BY <1>4, <2>3 DEF RootsInv
<1>10. CASE t = r
  BY <1>9, <1>10 DEF Alike
<1>11. CASE Advanced(r, t)
  <2>1. Alike(r, t)
    BY <1>11 DEF Advanced, Alike
  <2> QED
    BY <1>9, <2>1
<1>12. CASE r.DHrPeer # pkt.hdr.epub /\ Stepped(r, t, pkt.hdr.epub, Fresh(p))
  <2>1. x # p
    <3> SUFFICES ASSUME x = p PROVE FALSE
      OBVIOUS
    <3>1. pkt.hdr.epub = session[q].ratchet.DHsLocal /\ r.DHrPeer = session[q].ratchet.DHsLocal
      BY <1>3, <1>7 DEF Ahead, ToAhead, Linked
    <3> QED
      BY <1>12, <3>1
  <2>2. x = q
    BY <2>1, PeerFacts
  <2>3. Ahead(p)'
    BY <1>1, <1>2, <1>3, <1>6, <1>7, <1>12, <2>2, BehindSteps DEF pkt
  <2> QED
    BY <1>4, <2>3 DEF RootsInv
<1> QED
  BY <1>5, <1>10, <1>11, <1>12 DEF Received

\* The relation between the root keys is inductive when only messages come again.
LEMMA NextRoots ==
  ASSUME RepeatTypes \subseteq {"data"}
  PROVE  PairInv /\ OrderInv /\ RootsInv /\ [Next]_vars => RootsInv'
<1> SUFFICES ASSUME PairInv, OrderInv, RootsInv, [Next]_vars PROVE RootsInv'
  OBVIOUS
<1>0. PairType
  BY DEF PairInv
<1>1. ASSUME UNCHANGED <<peerVars, got>> PROVE RootsInv'
  <2>1. phase' = phase /\ wire' = wire /\ got' = got /\ ephPriv' = ephPriv /\ session' = session
    BY <1>1 DEF peerVars
  <2> QED
    BY <1>0, <2>1, RootsFrame DEF PhaseKept
<1>2. CASE UNCHANGED vars
  BY <1>1, <1>2 DEF vars
<1>3. CASE Connect /\ UNCHANGED got
  BY <1>3, RootsConnect
<1>4. ASSUME NEW p \in Peers, (Send(p) \/ SendFails(p)) /\ UNCHANGED got
      PROVE  RootsInv'
  <2>1. PICK reaches \in BOOLEAN : Seal(p, reaches)
    BY <1>4 DEF Send, SendFails
  <2> QED
    BY <1>4, <2>1, RootsSeal
<1>5. ASSUME NEW p \in Peers, SendRefused(p) /\ UNCHANGED got PROVE RootsInv'
  <2>1. /\ session' = [session EXCEPT ![p] = AfterRefusedEncrypt(session[p])]
        /\ phase' = phase /\ wire' = wire /\ ephPriv' = ephPriv /\ got' = got
    BY <1>5 DEF SendRefused
  <2>2. ASSUME NEW s \in Sessions PROVE AfterRefusedEncrypt(s).ratchet = s.ratchet
    BY <2>2 DEF AfterRefusedEncrypt, Sessions
  <2>3. \A x \in Peers : session'[x].ratchet = session[x].ratchet
    BY <1>0, <2>1, <2>2 DEF PairType
  <2> QED
    BY <1>0, <2>1, <2>3, RootsFrame DEF PhaseKept
<1>6. ASSUME NEW p \in Peers, Compromise(p) /\ UNCHANGED got PROVE RootsInv'
  BY <1>1, <1>6 DEF Compromise
<1>7. ASSUME NEW p \in Peers, Receive(p) PROVE RootsInv'
  <2>1. /\ got[p] < Len(wire[Other(p)]) /\ got' = [got EXCEPT ![p] = @ + 1]
        /\ \/ p = Bob /\ ReceiveInit(Coming(p))
           \/ p = Alice /\ ReceiveResp(Coming(p))
           \/ ReceiveData(p, Coming(p))
    BY <1>7 DEF Receive, Coming
  <2>2. Other(Alice) = Bob /\ Other(Bob) = Alice
    BY PeersAssumption DEF Other
  <2> QED
    BY <2>1, <2>2, RootsReceiveInit, RootsReceiveResp, RootsReceiveData
<1>8. ASSUME NEW p \in Peers, Repeat(p) PROVE RootsInv'
  BY <1>2, <1>8, RepeatStutters
<1>9. ASSUME NEW p \in Peers, HandshakeFails(p) /\ UNCHANGED got PROVE RootsInv'
  BY <1>0, <1>9, FailsKeeps, RootsFrame
<1> QED
  BY <1>2, <1>3, <1>4, <1>5, <1>6, <1>7, <1>8, <1>9 DEF Next

\* The root keys of the peers never part on an ordered transport: whatever was lost or
\* refused, one is the other and the secret of the DH step that RatchetDecrypt of the
\* other peer has yet to make.
THEOREM RootsAlwaysAgree ==
  ASSUME RepeatTypes \subseteq {"data"}
  PROVE  Spec => []RootsAgree
<1>1. Spec => [](PairInv /\ OrderInv /\ RootsInv)
  BY InitBoth, NextBoth, RootsInitInv, NextRoots, PTL DEF Spec
<1> QED
  BY <1>1, InvRootsAgree, PTL

-----------------------------------------------------------------------------
\* What the messages handed over did to the receiving chain.

\* An earlier key of the chain of mk is among the lost ones l.
Broken(l, mk) == \E m \in l : m.root = mk.root /\ m.step < mk.step

\* One of the first n packets of w was sealed with mk.
SealedWith(w, n, mk) == \E j \in 1 .. n : IsData(w[j]) /\ w[j].body.mk = mk

\* Every earlier key of the chain sealed one of the first n packets, or is lost.
Whole(w, l, n, ck) ==
    \A k \in 0 .. ck.step - 1 :
        LET mk == [root |-> ck.root, step |-> k] IN mk \in l \/ SealedWith(w, n, mk)

\* No key is skipped: neither on the wire w nor by the sending chain ck.
Complete(w, l, ck) ==
    /\ \A i \in DOMAIN w : IsData(w[i]) => Whole(w, l, i - 1, w[i].body.mk)
    /\ Whole(w, l, Len(w), ck)

\* The receiving chain c is past every key of its root among the first n packets, apart
\* from those behind a lost one, and at most one step past the latest.
Followed(w, l, n, c) ==
    /\ \A i \in 1 .. n : IsData(w[i]) =>
        /\ Len(w[i].body.mk.root) <= Len(c.root)
        /\ w[i].body.mk.root = c.root /\ ~Broken(l, w[i].body.mk) => w[i].body.mk.step < c.step
    /\ c # NoChain => \E i \in 1 .. n :
        IsData(w[i]) /\ w[i].body.mk.root = c.root /\ c.step <= w[i].body.mk.step + 1

\* The texts d are those of the first n packets, apart from those behind a lost one.
Read(w, l, n, d) ==
    \A i \in 1 .. n : IsData(w[i]) => w[i].hdr.seq \in Range(d) \/ Broken(l, w[i].body.mk)

\* Messages come after a handshake packet, and their keys branch off a root.
Begun(p) ==
    /\ phase[p] \in {"waiting", "open"} => wire[p] # <<>>
    /\ \A i \in DOMAIN wire[p] : IsData(wire[p][i]) => i # 1 /\ wire[p][i].body.mk.root # <<>>

\* What a peer has sent, and what it has made of what it was handed.
Sender(p) == Begun(p) /\ Complete(wire[p], lost[p], session[p].ratchet.CKs)

Reader(p) ==
    /\ phase[p] = "open" =>
        Followed(wire[Other(p)], lost[Other(p)], got[p], session[p].ratchet.CKr)
    /\ Read(wire[Other(p)], lost[Other(p)], got[p], delivered[p])

ReadInv == \A p \in Peers : Sender(p) /\ Reader(p)

LEMMA WholeKept ==
  ASSUME NEW w, NEW v, NEW l, NEW m, l \subseteq m, NEW n \in Nat, NEW k \in Nat, n <= k,
         \A j \in 1 .. n : v[j] = w[j], NEW ck, Whole(w, l, n, ck)
  PROVE  Whole(v, m, k, ck)
<1> SUFFICES ASSUME NEW i \in 0 .. ck.step - 1
             PROVE  \/ [root |-> ck.root, step |-> i] \in m
                    \/ SealedWith(v, k, [root |-> ck.root, step |-> i])
  BY DEF Whole
<1> DEFINE mk == [root |-> ck.root, step |-> i]
<1>1. mk \in l \/ SealedWith(w, n, mk)
  BY DEF Whole
<1> HIDE DEF mk
<1>2. ASSUME SealedWith(w, n, mk) PROVE SealedWith(v, k, mk)
  <2>1. PICK j \in 1 .. n : IsData(w[j]) /\ w[j].body.mk = mk
    BY <1>2 DEF SealedWith
  <2>2. j \in 1 .. k /\ v[j] = w[j]
    OBVIOUS
  <2> QED
    BY <2>1, <2>2 DEF SealedWith
<1> QED
  BY <1>1, <1>2 DEF mk

\* The chain advances, and the key it leaves seals packet k or is lost.
LEMMA WholeAdvances ==
  ASSUME NEW w, NEW l, NEW k \in Nat, NEW ck \in Chains, Whole(w, l, k, ck),
         ck \in l \/ SealedWith(w, k, ck)
  PROVE  Whole(w, l, k, [root |-> ck.root, step |-> ck.step + 1])
<1> SUFFICES ASSUME NEW i \in 0 .. ck.step
             PROVE  \/ [root |-> ck.root, step |-> i] \in l
                    \/ SealedWith(w, k, [root |-> ck.root, step |-> i])
  <2>1. (ck.step + 1) - 1 = ck.step
    BY DEF Chains
  <2> QED
    BY <2>1 DEF Whole
<1>1. CASE i = ck.step
  <2>1. [root |-> ck.root, step |-> i] = ck
    BY <1>1 DEF Chains
  <2> QED
    BY <2>1
<1>2. CASE i # ck.step
  <2>1. i \in 0 .. ck.step - 1
    BY <1>2 DEF Chains
  <2> QED
    BY <2>1 DEF Whole
<1> QED
  BY <1>1, <1>2

\* A chain that has not been used skips nothing.
LEMMA WholeAnew ==
  ASSUME NEW w, NEW l, NEW n, NEW ck, ck.step = 0 PROVE Whole(w, l, n, ck)
  BY DEF Whole

\* A message is sealed and reaches the wire.
LEMMA CompleteSends ==
  ASSUME NEW w \in Seq(Packets), NEW l, NEW ck \in Chains, Complete(w, l, ck),
         NEW pkt \in Packets, IsData(pkt), pkt.body.mk = ck
  PROVE  Complete(Append(w, pkt), l, [root |-> ck.root, step |-> ck.step + 1])
<1> DEFINE v == Append(w, pkt)
           n == Len(w)
<1>1. /\ n \in Nat /\ DOMAIN w = 1 .. n /\ DOMAIN v = 1 .. n + 1 /\ Len(v) = n + 1
      /\ v[n + 1] = pkt /\ \A j \in 1 .. n : v[j] = w[j]
  OBVIOUS
<1> HIDE DEF v, n
<1>2. Whole(v, l, n, ck) /\ Whole(v, l, n + 1, ck)
  <2>1. Whole(w, l, n, ck)
    BY DEF Complete, n
  <2> QED
    BY <1>1, <2>1, WholeKept
<1>3. ASSUME NEW i \in DOMAIN v, IsData(v[i]) PROVE Whole(v, l, i - 1, v[i].body.mk)
  <2>1. CASE i = n + 1
    <3>1. i - 1 = n /\ v[i].body.mk = ck
      BY <1>1, <2>1
    <3> QED
      BY <1>2, <3>1
  <2>2. CASE i # n + 1
    <3>1. i \in DOMAIN w /\ v[i] = w[i] /\ i - 1 \in Nat /\ i - 1 <= n
      BY <1>1, <2>2
    <3>2. Whole(w, l, i - 1, w[i].body.mk)
      BY <1>3, <3>1 DEF Complete
    <3>3. \A j \in 1 .. i - 1 : v[j] = w[j]
      BY <1>1, <3>1
    <3> QED
      BY <3>1, <3>2, <3>3, WholeKept
  <2> QED
    BY <2>1, <2>2
<1>4. SealedWith(v, n + 1, ck)
  BY <1>1 DEF SealedWith
<1>5. Whole(v, l, n + 1, [root |-> ck.root, step |-> ck.step + 1])
  BY <1>1, <1>2, <1>4, WholeAdvances
<1> QED
  BY <1>1, <1>3, <1>5 DEF Complete, v

\* More keys are lost, and the chain goes on or is replaced.
LEMMA CompleteKept ==
  ASSUME NEW w \in Seq(Packets), NEW l, NEW m, l \subseteq m, NEW ck \in Chains, NEW c,
         Complete(w, l, ck),
         \/ c = ck \/ c.step = 0
         \/ ck \in m /\ c = [root |-> ck.root, step |-> ck.step + 1]
  PROVE  Complete(w, m, c)
<1> DEFINE n == Len(w)
<1>1. n \in Nat /\ DOMAIN w = 1 .. n
  OBVIOUS
<1> HIDE DEF n
<1>2. ASSUME NEW i \in DOMAIN w, IsData(w[i]) PROVE Whole(w, m, i - 1, w[i].body.mk)
  <2>1. Whole(w, l, i - 1, w[i].body.mk) /\ i - 1 \in Nat
    BY <1>1, <1>2 DEF Complete
  <2> QED
    BY <2>1, WholeKept
<1>3. Whole(w, m, n, ck)
  <2>1. Whole(w, l, n, ck)
    BY DEF Complete, n
  <2> QED
    BY <1>1, <2>1, WholeKept
<1>4. Whole(w, m, n, c)
  BY <1>1, <1>3, WholeAdvances, WholeAnew
<1> QED
  BY <1>2, <1>4 DEF Complete, n

LEMMA BrokenKept ==
  ASSUME NEW l, NEW m, l \subseteq m, NEW mk, Broken(l, mk) PROVE Broken(m, mk)
  BY DEF Broken

\* More is sent and more is lost.
LEMMA FollowedKept ==
  ASSUME NEW w, NEW v, NEW l, NEW m, l \subseteq m, NEW n, \A j \in 1 .. n : v[j] = w[j],
         NEW c, Followed(w, l, n, c)
  PROVE  Followed(v, m, n, c)
  BY BrokenKept DEF Followed

LEMMA ReadKept ==
  ASSUME NEW w, NEW v, NEW l, NEW m, l \subseteq m, NEW n, \A j \in 1 .. n : v[j] = w[j],
         NEW d, Read(w, l, n, d)
  PROVE  Read(v, m, n, d)
  BY BrokenKept DEF Read

\* The next packet is of the chain that is read: it has the key at the head, or an
\* earlier one was lost.
LEMMA FollowedAdvances ==
  ASSUME NEW w \in Seq(Packets), NEW l \in SUBSET Chains, NEW n \in Nat, NEW c \in Chains,
         Followed(w, l, n, c), n + 1 \in DOMAIN w, IsData(w[n + 1]), c # NoChain,
         w[n + 1].body.mk.root = c.root, Whole(w, l, n, w[n + 1].body.mk),
         \A i \in 1 .. n : IsData(w[i]) => Before(w[i].body.mk, w[n + 1].body.mk)
  PROVE  /\ w[n + 1].body.mk = c \/ Broken(l, w[n + 1].body.mk)
         /\ Followed(w, l, n + 1, [root |-> c.root, step |-> c.step + 1])
<1> DEFINE mk == w[n + 1].body.mk
           K(i) == w[i].body.mk
<1>1. \A i \in 1 .. n + 1 : K(i) \in Chains /\ K(i).step \in Nat /\ Len(K(i).root) \in Nat
  <2>1. ASSUME NEW i \in 1 .. n + 1 PROVE K(i) \in Chains
    <3>1. i \in DOMAIN w
      OBVIOUS
    <3>2. w[i] \in Packets
      BY <3>1
    <3> QED
      BY <3>2 DEF Packets, Bodies
  <2>2. ASSUME NEW x \in Chains PROVE x.step \in Nat /\ Len(x.root) \in Nat
    BY DEF Chains, RootKeys
  <2> QED
    BY <2>1, <2>2
<1>2. mk \in Chains /\ mk.step \in Nat /\ c.step \in Nat /\ mk = K(n + 1) /\ Len(c.root) \in Nat
  BY <1>1 DEF Chains, RootKeys
<1>3. mk.root = c.root /\ Whole(w, l, n, mk)
      /\ \A i \in 1 .. n : IsData(w[i]) => Before(K(i), mk)
  OBVIOUS
<1>4. /\ \A i \in 1 .. n : IsData(w[i]) =>
            /\ Len(K(i).root) <= Len(c.root)
            /\ K(i).root = c.root /\ ~Broken(l, K(i)) => K(i).step < c.step
      /\ \E i \in 1 .. n : IsData(w[i]) /\ K(i).root = c.root /\ c.step <= K(i).step + 1
  BY DEF Followed
<1> HIDE DEF mk, K
<1>5. c.step <= mk.step
  <2>1. PICK i \in 1 .. n : IsData(w[i]) /\ K(i).root = c.root /\ c.step <= K(i).step + 1
    BY <1>4
  <2>2. K(i).step < mk.step /\ K(i).step \in Nat
    BY <1>1, <1>2, <1>3, <2>1 DEF Before
  <2> QED
    BY <1>2, <2>1, <2>2
<1>6. ASSUME ~Broken(l, mk) PROVE mk.step <= c.step
  <2> SUFFICES ASSUME c.step < mk.step PROVE FALSE
    BY <1>2
  <2> DEFINE k == mk.step - 1
             b == [root |-> mk.root, step |-> k]
  <2>1. k \in 0 .. mk.step - 1 /\ k < mk.step /\ k \in Nat /\ c.step <= k
    BY <1>2
  <2>2. b \in l \/ SealedWith(w, n, b)
    BY <1>3, <2>1 DEF Whole
  <2>3. b.root = mk.root /\ b.step = k
    OBVIOUS
  <2> HIDE DEF b, k
  <2>4. b \notin l
    BY <1>6, <2>1, <2>3 DEF Broken
  <2>5. PICK j \in 1 .. n : IsData(w[j]) /\ K(j) = b
    BY <2>2, <2>4 DEF SealedWith, K
  <2>6. CASE Broken(l, b)
    <3>1. PICK m \in l : m.root = b.root /\ m.step < b.step
      BY <2>6 DEF Broken
    <3>2. m.root = mk.root /\ m.step < mk.step
      <4>1. m.step \in Nat
        BY DEF Chains
      <4> QED
        BY <1>2, <2>1, <2>3, <3>1, <4>1
    <3> QED
      BY <1>6, <3>2 DEF Broken
  <2>7. CASE ~Broken(l, b)
    BY <1>2, <1>3, <1>4, <2>1, <2>3, <2>5, <2>7
  <2> QED
    BY <2>6, <2>7
<1>7. ~Broken(l, mk) => mk = c
  <2>1. ASSUME mk.step = c.step PROVE mk = c
    BY <1>2, <1>3, <2>1 DEF Chains
  <2> QED
    BY <1>2, <1>5, <1>6, <2>1
<1> DEFINE d == [root |-> c.root, step |-> c.step + 1]
<1>8. ASSUME NEW i \in 1 .. n + 1, IsData(w[i])
      PROVE  /\ Len(K(i).root) <= Len(c.root)
             /\ K(i).root = c.root /\ ~Broken(l, K(i)) => K(i).step < c.step + 1
  <2>1. CASE i = n + 1
    BY <1>2, <1>3, <1>7, <2>1
  <2>2. CASE i # n + 1
    <3>1. i \in 1 .. n
      BY <2>2
    <3>2. /\ Len(K(i).root) <= Len(c.root)
          /\ K(i).root = c.root /\ ~Broken(l, K(i)) => K(i).step < c.step
      BY <1>4, <1>8, <3>1
    <3>3. K(i).step \in Nat
      BY <1>1
    <3> QED
      BY <1>2, <3>2, <3>3
  <2> QED
    BY <2>1, <2>2
<1>9. c.step + 1 <= K(n + 1).step + 1 /\ K(n + 1).root = c.root /\ n + 1 \in 1 .. n + 1
  BY <1>2, <1>3, <1>5
<1>10. d.root = c.root /\ d.step = c.step + 1
  OBVIOUS
<1> HIDE DEF d
<1>11. Followed(w, l, n + 1, d)
  BY <1>8, <1>9, <1>10 DEF Followed, K
<1> QED
  BY <1>7, <1>11 DEF mk, d

\* The next packet begins a chain of a longer root: it has the first key, or that was lost.
LEMMA FollowedSteps ==
  ASSUME NEW w \in Seq(Packets), NEW l, NEW n \in Nat, NEW c \in Chains, Followed(w, l, n, c),
         n + 1 \in DOMAIN w, IsData(w[n + 1]),
         Len(c.root) < Len(w[n + 1].body.mk.root), Whole(w, l, n, w[n + 1].body.mk)
  PROVE  /\ w[n + 1].body.mk.step = 0 \/ Broken(l, w[n + 1].body.mk)
         /\ Followed(w, l, n + 1, [root |-> w[n + 1].body.mk.root, step |-> 1])
<1> DEFINE mk == w[n + 1].body.mk
           K(i) == w[i].body.mk
<1>1. \A i \in 1 .. n + 1 : K(i).step \in Nat /\ Len(K(i).root) \in Nat
  <2>1. ASSUME NEW i \in 1 .. n + 1 PROVE K(i) \in Chains
    <3>1. i \in DOMAIN w
      OBVIOUS
    <3>2. w[i] \in Packets
      BY <3>1
    <3> QED
      BY <3>2 DEF Packets, Bodies
  <2>2. ASSUME NEW x \in Chains PROVE x.step \in Nat /\ Len(x.root) \in Nat
    BY DEF Chains, RootKeys
  <2> QED
    BY <2>1, <2>2
<1>2. mk.step \in Nat /\ mk = K(n + 1) /\ Len(c.root) \in Nat /\ Len(mk.root) \in Nat
  BY <1>1 DEF Chains, RootKeys
<1>3. Len(c.root) < Len(mk.root) /\ Whole(w, l, n, mk)
  OBVIOUS
<1>4. \A i \in 1 .. n : IsData(w[i]) => Len(K(i).root) <= Len(c.root)
  BY DEF Followed
<1> HIDE DEF mk, K
<1>5. \A i \in 1 .. n : IsData(w[i]) => K(i).root # mk.root /\ Len(K(i).root) <= Len(mk.root)
  BY <1>1, <1>2, <1>3, <1>4
<1>6. ASSUME mk.step # 0 PROVE Broken(l, mk)
  <2> DEFINE b == [root |-> mk.root, step |-> 0]
  <2>1. 0 \in 0 .. mk.step - 1 /\ 0 < mk.step
    BY <1>2, <1>6
  <2>2. b \in l \/ SealedWith(w, n, b)
    BY <1>3, <2>1 DEF Whole
  <2>3. b.root = mk.root /\ b.step = 0
    OBVIOUS
  <2> HIDE DEF b
  <2>4. ~SealedWith(w, n, b)
    BY <1>5, <2>3 DEF SealedWith, K
  <2> QED
    BY <2>1, <2>2, <2>3, <2>4 DEF Broken
<1> DEFINE d == [root |-> mk.root, step |-> 1]
<1>7. ASSUME NEW i \in 1 .. n + 1, IsData(w[i])
      PROVE  /\ Len(K(i).root) <= Len(mk.root)
             /\ K(i).root = mk.root /\ ~Broken(l, K(i)) => K(i).step < 1
  <2>1. CASE i = n + 1
    BY <1>2, <1>6, <2>1
  <2>2. CASE i # n + 1
    <3>1. i \in 1 .. n
      BY <2>2
    <3> QED
      BY <1>5, <1>7, <3>1
  <2> QED
    BY <2>1, <2>2
<1>8. 1 <= K(n + 1).step + 1 /\ K(n + 1).root = mk.root /\ n + 1 \in 1 .. n + 1
  BY <1>2
<1>9. d.root = mk.root /\ d.step = 1
  OBVIOUS
<1> HIDE DEF d
<1>10. Followed(w, l, n + 1, d)
  BY <1>7, <1>8, <1>9 DEF Followed, K
<1> QED
  BY <1>6, <1>10 DEF mk, d

\* The text of the next packet is added, or an earlier key of its chain was lost.
LEMMA ReadNext ==
  ASSUME NEW w, NEW l, NEW n \in Nat, NEW d, NEW e, Read(w, l, n, d), Range(d) \subseteq Range(e),
         IsData(w[n + 1]) => w[n + 1].hdr.seq \in Range(e) \/ Broken(l, w[n + 1].body.mk)
  PROVE  Read(w, l, n + 1, e)
<1> SUFFICES ASSUME NEW i \in 1 .. n + 1, IsData(w[i])
             PROVE  w[i].hdr.seq \in Range(e) \/ Broken(l, w[i].body.mk)
  BY DEF Read
<1>1. CASE i = n + 1
  BY <1>1
<1>2. CASE i # n + 1
  <2>1. i \in 1 .. n
    BY <1>2
  <2> QED
    BY <2>1 DEF Read
<1> QED
  BY <1>1, <1>2

\* The parts have types.
LEMMA ReadTypes ==
  ASSUME PairType, NEW p \in Peers
  PROVE  /\ wire[p] \in Seq(Packets) /\ lost[p] \in SUBSET Chains
         /\ session[p] \in Sessions /\ session[p].ratchet \in Ratchets
         /\ session[p].ratchet.CKs \in Chains /\ session[p].ratchet.CKr \in Chains
<1>1. wire[p] \in Seq(Packets) /\ lost[p] \in SUBSET Chains /\ session[p] \in Sessions
  BY DEF PairType
<1>2. session[p].ratchet \in Ratchets
  BY <1>1 DEF Sessions
<1>3. session[p].ratchet.CKs \in Chains /\ session[p].ratchet.CKr \in Chains
  BY <1>2 DEF Ratchets
<1> QED
  BY <1>1, <1>2, <1>3

\* The peer sends nothing, and its chain stays or is replaced.
LEMMA SenderKept ==
  ASSUME PairType, NEW p \in Peers, Sender(p), wire'[p] = wire[p], lost'[p] = lost[p],
         phase'[p] \in {"waiting", "open"} => wire[p] # <<>>,
         \/ session'[p].ratchet.CKs = session[p].ratchet.CKs
         \/ session'[p].ratchet.CKs.step = 0
  PROVE  Sender(p)'
<1> DEFINE c == session'[p].ratchet.CKs
<1>1. Complete(wire[p], lost[p], session[p].ratchet.CKs)
  BY DEF Sender
<1>2. c = session[p].ratchet.CKs \/ c.step = 0
  OBVIOUS
<1> HIDE DEF c
<1>3. Complete(wire[p], lost[p], c)
  <2>1. wire[p] \in Seq(Packets) /\ session[p].ratchet.CKs \in Chains
    BY ReadTypes
  <2>2. lost[p] \subseteq lost[p]
    OBVIOUS
  <2> QED
    BY <1>1, <1>2, <2>1, <2>2, CompleteKept
<1>4. Complete(wire'[p], lost'[p], session'[p].ratchet.CKs)
  BY <1>3 DEF c
<1>5. Begun(p)'
  BY DEF Begun, Sender, IsData
<1> QED
  BY <1>4, <1>5 DEF Sender

\* The first packet of a peer is one of the handshake.
LEMMA SenderBegins ==
  ASSUME NEW p \in Peers, NEW pkt, ~IsData(pkt), wire'[p] = <<pkt>>,
         session'[p].ratchet.CKs.step = 0
  PROVE  Sender(p)'
<1> DEFINE c == session'[p].ratchet.CKs
           w == <<pkt>>
           l == lost'[p]
<1>1. DOMAIN w = 1 .. 1 /\ Len(w) = 1 /\ w[1] = pkt /\ w # <<>>
  OBVIOUS
<1>2. c.step = 0
  OBVIOUS
<1> HIDE DEF c, w, l
<1>3. \A i \in DOMAIN w : ~IsData(w[i])
  BY <1>1
<1>4. Complete(w, l, c)
  BY <1>2, <1>3, WholeAnew DEF Complete
<1>5. wire'[p] = w
  BY DEF w
<1>6. Begun(p)'
  BY <1>1, <1>3, <1>5 DEF Begun, IsData
<1>7. Complete(wire'[p], lost'[p], session'[p].ratchet.CKs)
  BY <1>4, <1>5 DEF c, l
<1> QED
  BY <1>6, <1>7 DEF Sender

\* Nothing is handed to the peer, whatever the other peer sends or loses.
LEMMA ReaderKept ==
  ASSUME PairType, OrderInv, NEW p \in Peers, NEW q, q = Other(p), Reader(p),
         Continues(wire[q], wire'[q]), lost[q] \subseteq lost'[q], got'[p] = got[p],
         phase'[p] = "open" => phase[p] = "open", delivered'[p] = delivered[p],
         session'[p].ratchet.CKr = session[p].ratchet.CKr
  PROVE  Reader(p)'
<1> DEFINE n == got[p]
           w == wire[q]
           v == wire'[q]
           l == lost[q]
           m == lost'[q]
<1>1. q \in Peers
  BY PeerFacts
<1>2. \A j \in 1 .. n : v[j] = w[j]
  <2>1. n \in 0 .. Len(w) /\ DOMAIN w = 1 .. Len(w) /\ Len(w) \in Nat
    BY <1>1, CounterTypes DEF OrderInv, HandedOver
  <2> QED
    BY <2>1 DEF Continues
<1> HIDE DEF n, w, v, l, m
<1>3. ASSUME phase'[p] = "open" PROVE Followed(v, m, n, session[p].ratchet.CKr)
  <2>1. Followed(w, l, n, session[p].ratchet.CKr)
    BY <1>3 DEF Reader, w, l, n
  <2>2. l \subseteq m
    BY DEF l, m
  <2> QED
    BY <1>2, <2>1, <2>2, FollowedKept
<1>4. Read(v, m, n, delivered[p])
  <2>1. Read(w, l, n, delivered[p])
    BY DEF Reader, w, l, n
  <2>2. l \subseteq m
    BY DEF l, m
  <2> QED
    BY <1>2, <2>1, <2>2, ReadKept
<1> QED
  BY <1>3, <1>4 DEF Reader, v, m, n

\* Neither peer sends or is handed anything.
LEMMA ReadFrame ==
  ASSUME PairType, OrderInv, ReadInv, wire' = wire, got' = got, lost' = lost,
         delivered' = delivered, \A x \in Peers : PhaseKept(x) /\ session'[x].ratchet = session[x].ratchet
  PROVE  ReadInv'
<1>1. ASSUME NEW p \in Peers PROVE Sender(p)' /\ Reader(p)'
  <2>1. Sender(p) /\ Reader(p) /\ session'[p].ratchet = session[p].ratchet
    BY DEF ReadInv
  <2>2. phase'[p] \in {"waiting", "open"} => wire[p] # <<>>
    BY <2>1 DEF Sender, Begun, PhaseKept
  <2>3. Sender(p)'
    BY <2>1, <2>2, SenderKept
  <2>4. Reader(p)'
    BY <2>1, ReaderKept DEF Continues, PhaseKept
  <2> QED
    BY <2>3, <2>4
<1> QED
  BY <1>1 DEF ReadInv

LEMMA ReadInitInv == Init => ReadInv
<1> SUFFICES ASSUME Init, NEW p \in Peers PROVE Sender(p) /\ Reader(p)
  BY DEF ReadInv
<1>1. Other(p) \in Peers
  BY PeerFacts
<1>2. /\ wire[p] = <<>> /\ session[p] = NewSession /\ got[p] = 0 /\ phase[p] \in Idle
  BY DEF Init, PairInit
<1>3. session[p].ratchet.CKs.step = 0
  BY <1>2 DEF NewSession, NoRatchet, NewResponderRatchet, NoChain
<1>4. DOMAIN wire[p] = {}
  BY <1>2
<1>5. Sender(p)
  BY <1>2, <1>3, <1>4, WholeAnew DEF Sender, Begun, Complete
<1>6. Reader(p)
  BY <1>2 DEF Reader, Read
<1> QED
  BY <1>5, <1>6

\* The chain of a peer that seals: the packet it seals is the next of a whole chain.
LEMMA SenderSeals ==
  ASSUME PairInv, NEW p \in Peers, Sender(p), NEW pkt, Sealing(p, pkt),
         phase[p] = "open", phase' = phase,
         \/ wire' = [wire EXCEPT ![p] = Append(@, pkt)] /\ lost' = lost
         \/ lost' = [lost EXCEPT ![p] = @ \cup {pkt.body.mk}] /\ wire' = wire
  PROVE  Sender(p)'
<1> DEFINE c == session[p].ratchet.CKs
           d == [root |-> c.root, step |-> c.step + 1]
           n == Len(wire[p])
<1>1. PairType /\ Opens(p)
  BY DEF PairInv, PeerInv
<1>2. /\ wire[p] \in Seq(Packets) /\ lost[p] \in SUBSET Chains /\ c \in Chains
      /\ Complete(wire[p], lost[p], c) /\ wire[p] # <<>>
  BY <1>1, ReadTypes DEF Sender, Begun
<1>3. /\ pkt \in Packets /\ IsData(pkt) /\ pkt.body.mk = c /\ session'[p].ratchet.CKs = d
      /\ c # NoChain
  BY DEF Sealing, IsData
<1>4. c.root # <<>>
  BY <1>1, <1>3 DEF Opens, Shaped
<1> HIDE DEF c, d
<1>5. CASE wire' = [wire EXCEPT ![p] = Append(@, pkt)] /\ lost' = lost
  <2>1. wire'[p] = Append(wire[p], pkt) /\ lost'[p] = lost[p]
    BY <1>1, <1>5 DEF PairType
  <2>2. Complete(Append(wire[p], pkt), lost[p], d)
    BY <1>2, <1>3, CompleteSends DEF d
  <2>3. /\ n \in Nat /\ n # 0 /\ DOMAIN wire[p] = 1 .. n /\ DOMAIN wire'[p] = 1 .. n + 1
        /\ wire'[p][n + 1] = pkt /\ \A j \in 1 .. n : wire'[p][j] = wire[p][j]
    BY <1>2, <2>1
  <2> HIDE DEF n
  <2>4. ASSUME NEW i \in DOMAIN wire'[p], IsData(wire'[p][i])
        PROVE  i # 1 /\ wire'[p][i].body.mk.root # <<>>
    <3>1. CASE i = n + 1
      BY <1>3, <1>4, <2>3, <3>1
    <3>2. CASE i # n + 1
      <4>1. i \in DOMAIN wire[p] /\ wire'[p][i] = wire[p][i]
        BY <2>3, <3>2
      <4> QED
        BY <2>4, <4>1 DEF Sender, Begun
    <3> QED
      BY <3>1, <3>2
  <2>5. wire'[p] # <<>>
    BY <1>2, <1>3, <2>1
  <2>6. Begun(p)'
    BY <2>4, <2>5 DEF Begun, IsData
  <2> QED
    BY <1>3, <2>1, <2>2, <2>6 DEF Sender
<1>6. CASE lost' = [lost EXCEPT ![p] = @ \cup {pkt.body.mk}] /\ wire' = wire
  <2>1. wire'[p] = wire[p] /\ lost'[p] = lost[p] \cup {c}
    BY <1>1, <1>3, <1>6 DEF PairType
  <2>2. Complete(wire[p], lost[p] \cup {c}, d)
    <3> DEFINE m == lost[p] \cup {c}
    <3>1. lost[p] \subseteq m /\ c \in m
      OBVIOUS
    <3>2. d = [root |-> c.root, step |-> c.step + 1]
      BY DEF d
    <3> HIDE DEF m
    <3>3. Complete(wire[p], m, d)
      BY <1>2, <3>1, <3>2, CompleteKept
    <3> QED
      BY <3>3 DEF m
  <2>3. Begun(p)'
    BY <1>2, <2>1 DEF Begun, Sender, IsData
  <2> QED
    BY <1>3, <2>1, <2>2, <2>3 DEF Sender
<1> QED
  BY <1>5, <1>6

LEMMA ReadSeal ==
  ASSUME PairInv, OrderInv, ReadInv, NEW p \in Peers, NEW reaches \in BOOLEAN,
         Seal(p, reaches), got' = got
  PROVE  ReadInv'
<1> DEFINE q == Other(p)
           pkt == NextPacket(p)
<1>1. PairType /\ q \in Peers /\ q # p /\ Other(q) = p
      /\ Sender(p) /\ Reader(p) /\ Sender(q) /\ Reader(q)
  BY PeerFacts DEF PairInv, ReadInv
<1>2. Sealing(p, pkt)
  BY SealShape
<1>3. /\ phase[p] = "open" /\ phase' = phase /\ delivered' = delivered
      /\ \/ wire' = [wire EXCEPT ![p] = Append(@, pkt)] /\ lost' = lost
         \/ lost' = [lost EXCEPT ![p] = @ \cup {pkt.body.mk}] /\ wire' = wire
  BY DEF Seal, NextPacket
<1> HIDE DEF pkt
<1>4. Sender(p)'
  BY <1>1, <1>2, <1>3, SenderSeals
<1>5. /\ session'[q] = session[q] /\ session'[p].ratchet.CKr = session[p].ratchet.CKr
      /\ pkt \in Packets
  BY <1>1, <1>2 DEF Sealing, PairType
<1>6. wire'[q] = wire[q] /\ lost'[q] = lost[q] /\ lost[p] \subseteq lost'[p]
  BY <1>1, <1>3 DEF PairType
<1>7. Continues(wire[p], wire'[p]) /\ Continues(wire[q], wire'[q])
  <2>1. wire'[p] = wire[p] \/ wire'[p] = Append(wire[p], pkt)
    BY <1>1, <1>3 DEF PairType
  <2>2. wire[p] \in Seq(Packets)
    BY <1>1 DEF PairType
  <2> QED
    BY <1>5, <1>6, <2>1, <2>2 DEF Continues
<1>8. Reader(p)'
  BY <1>1, <1>3, <1>5, <1>6, <1>7, ReaderKept
<1>9. Reader(q)'
  BY <1>1, <1>3, <1>5, <1>6, <1>7, ReaderKept
<1>10. Sender(q)'
  <2>1. phase'[q] \in {"waiting", "open"} => wire[q] # <<>>
    BY <1>1, <1>3 DEF Sender, Begun
  <2> QED
    BY <1>1, <1>5, <1>6, <2>1, SenderKept
<1>11. \A x \in Peers : x = p \/ x = q
  BY PeerFacts
<1> HIDE DEF q
<1> QED
  BY <1>4, <1>8, <1>9, <1>10, <1>11 DEF ReadInv

LEMMA ReadConnect ==
  ASSUME PairInv, OrderInv, ReadInv, Connect, got' = got
  PROVE  ReadInv'
<1>1. PairType /\ Alice \in Peers /\ Bob \in Peers /\ Alice # Bob
      /\ Other(Alice) = Bob /\ Other(Bob) = Alice
      /\ Sender(Alice) /\ Reader(Alice) /\ Sender(Bob) /\ Reader(Bob)
  BY PeersAssumption DEF PairInv, Peers, Other, ReadInv
<1> DEFINE init == HandshakePacket(Alice, "init", Fresh(Alice))
<1>2. /\ phase[Alice] = "idle" /\ phase' = [phase EXCEPT ![Alice] = "waiting"]
      /\ session' = session /\ lost' = lost /\ delivered' = delivered
      /\ wire' = [wire EXCEPT ![Alice] = Append(@, init)]
  BY DEF Connect, CreateHandshakeInit, histVars
<1>3. ~IsData(init)
  BY DEF HandshakePacket, Packet, Header, IsData
<1> HIDE DEF init
<1>4. wire[Alice] = <<>> /\ session[Alice].ratchet.CKs.step = 0
  <2>1. session[Alice] = NewSession
    BY <1>1, <1>2 DEF PairInv, PeerInv, Opens, Untouched
  <2> QED
    BY <1>1, <1>2, <2>1
    DEF OrderInv, Numbered, NewSession, NoRatchet, NewResponderRatchet, NoChain
<1>5. /\ wire'[Alice] = <<init>> /\ wire'[Bob] = wire[Bob]
      /\ phase'[Alice] = "waiting" /\ phase'[Bob] = phase[Bob]
  BY <1>1, <1>2, <1>4 DEF PairType
<1>6. Sender(Alice)'
  BY <1>1, <1>2, <1>3, <1>4, <1>5, SenderBegins
<1>7. Sender(Bob)'
  <2>1. phase'[Bob] \in {"waiting", "open"} => wire[Bob] # <<>>
    BY <1>1, <1>5 DEF Sender, Begun
  <2> QED
    BY <1>1, <1>2, <1>5, <2>1, SenderKept
<1>8. Continues(wire[Alice], wire'[Alice]) /\ Continues(wire[Bob], wire'[Bob])
  BY <1>4, <1>5 DEF Continues
<1>9. Reader(Alice)' /\ Reader(Bob)'
  BY <1>1, <1>2, <1>5, <1>8, ReaderKept
<1> QED
  BY <1>6, <1>7, <1>9 DEF ReadInv, Peers

\* A peer is handed the other's handshake packet, and opens the session or gives up.
LEMMA ReaderOpens ==
  ASSUME NEW p \in Peers, NEW q, q = Other(p), Sender(q), got[p] = 0, got'[p] = 1,
         wire'[q] = wire[q], 1 \in DOMAIN wire[q],
         phase'[p] = "open" => session'[p].ratchet.CKr = NoChain
  PROVE  Reader(p)'
<1> DEFINE w == wire[q]
           l == lost'[q]
<1>1. ~IsData(w[1])
  BY DEF Sender, Begun
<1> HIDE DEF w, l
<1>2. \A i \in 1 .. 1 : ~IsData(w[i])
  BY <1>1
<1>3. Followed(w, l, 1, NoChain) /\ Read(w, l, 1, delivered'[p])
  BY <1>2 DEF Followed, Read
<1> QED
  BY <1>3 DEF Reader, w, l

LEMMA ReadReceiveInit ==
  ASSUME PairInv, OrderInv, ReadInv, got[Bob] < Len(wire[Alice]),
         got' = [got EXCEPT ![Bob] = @ + 1], ReceiveInit(Coming(Bob))
  PROVE  ReadInv'
<1>1. PairType /\ Alice \in Peers /\ Bob \in Peers /\ Alice # Bob
      /\ Other(Alice) = Bob /\ Other(Bob) = Alice
      /\ Sender(Alice) /\ Reader(Alice) /\ Sender(Bob) /\ Reader(Bob)
  BY PeersAssumption DEF PairInv, Peers, Other, ReadInv
<1> DEFINE valid == HandshakeValid(Coming(Bob), "init", PeerKey(Coming(Bob)))
           resp == HandshakePacket(Bob, "resp", Fresh(Bob))
           r == NewResponderRatchet(MasterSecret(ComputeECDHSharedSecret(Fresh(Bob),
                                                     Coming(Bob).body.text)), Fresh(Bob))
<1>2. /\ phase[Bob] \in Idle /\ lost' = lost /\ delivered' = delivered
      /\ valid => /\ phase' = [phase EXCEPT ![Bob] = "open"]
                  /\ wire' = [wire EXCEPT ![Bob] = Append(@, resp)]
                  /\ session' = [session EXCEPT ![Bob] = Established(session[Bob], r)]
      /\ ~valid => /\ phase' = [phase EXCEPT ![Bob] = "closed"] /\ wire' = wire
                   /\ session' = session
  BY DEF ReceiveInit, ProcessHandshakeInit, histVars
<1>3. ~IsData(resp) /\ r.CKs = NoChain /\ r.CKr = NoChain
  BY DEF HandshakePacket, Packet, Header, IsData, NewResponderRatchet
<1>4. wire[Bob] = <<>> /\ got[Bob] = 0 /\ session[Bob] \in Sessions
  BY <1>1, <1>2 DEF OrderInv, Numbered, HandedOver, PairType
<1> HIDE DEF valid, resp, r
<1>5. /\ got'[Bob] = 1 /\ got'[Alice] = got[Alice] /\ 1 \in DOMAIN wire[Alice]
  <2>1. got \in [Peers -> Nat] /\ Len(wire[Alice]) \in Nat /\ DOMAIN wire[Alice] = 1 .. Len(wire[Alice])
    BY <1>1, CounterTypes DEF OrderInv
  <2> QED
    BY <1>1, <1>4, <2>1
<1>6. wire'[Alice] = wire[Alice] /\ phase'[Alice] = phase[Alice] /\ session'[Alice] = session[Alice]
  BY <1>1, <1>2 DEF PairType
<1>7. Established(session[Bob], r).ratchet = r
  BY <1>4 DEF Established, Sessions
<1>8. /\ valid => /\ phase'[Bob] = "open" /\ wire'[Bob] = <<resp>>
                  /\ session'[Bob].ratchet = r
      /\ ~valid => /\ phase'[Bob] = "closed" /\ wire'[Bob] = wire[Bob]
                   /\ session'[Bob] = session[Bob]
  BY <1>1, <1>2, <1>4, <1>7 DEF PairType
<1>9. Sender(Alice)'
  <2>1. phase'[Alice] \in {"waiting", "open"} => wire[Alice] # <<>>
    BY <1>1, <1>6 DEF Sender, Begun
  <2> QED
    BY <1>1, <1>2, <1>6, <2>1, SenderKept
<1>10. Sender(Bob)'
  <2>1. CASE valid
    <3>1. session'[Bob].ratchet.CKs.step = 0
      BY <1>3, <1>8, <2>1 DEF NoChain
    <3> QED
      BY <1>1, <1>3, <1>8, <2>1, <3>1, SenderBegins
  <2>2. CASE ~valid
    BY <1>1, <1>2, <1>8, <2>2, SenderKept
  <2> QED
    BY <2>1, <2>2
<1>11. Reader(Bob)'
  <2>1. phase'[Bob] = "open" => session'[Bob].ratchet.CKr = NoChain
    BY <1>3, <1>8
  <2> QED
    BY <1>1, <1>4, <1>5, <1>6, <2>1, ReaderOpens
<1>12. Reader(Alice)'
  <2>1. Continues(wire[Bob], wire'[Bob])
    BY <1>4 DEF Continues
  <2> QED
    BY <1>1, <1>2, <1>5, <1>6, <2>1, ReaderKept
<1> QED
  BY <1>9, <1>10, <1>11, <1>12 DEF ReadInv, Peers

LEMMA ReadReceiveResp ==
  ASSUME PairInv, OrderInv, ReadInv, got[Alice] < Len(wire[Bob]),
         got' = [got EXCEPT ![Alice] = @ + 1], ReceiveResp(Coming(Alice))
  PROVE  ReadInv'
<1>1. PairType /\ Alice \in Peers /\ Bob \in Peers /\ Alice # Bob
      /\ Other(Alice) = Bob /\ Other(Bob) = Alice
      /\ Sender(Alice) /\ Reader(Alice) /\ Sender(Bob) /\ Reader(Bob)
  BY PeersAssumption DEF PairInv, Peers, Other, ReadInv
<1> DEFINE valid == HandshakeValid(Coming(Alice), "resp", Bob)
           remote == Coming(Alice).body.text
           r == NewInitiatorRatchet(MasterSecret(ComputeECDHSharedSecret(ephPriv, remote)),
                                    Fresh(Alice), remote)
<1>2. /\ phase[Alice] = "waiting" /\ lost' = lost /\ delivered' = delivered /\ wire' = wire
      /\ valid => /\ phase' = [phase EXCEPT ![Alice] = "open"]
                  /\ session' = [session EXCEPT ![Alice] = Established(session[Alice], r)]
      /\ ~valid => phase' = [phase EXCEPT ![Alice] = "closed"] /\ session' = session
  BY DEF ReceiveResp, CompleteInitiatorHandshake, histVars
<1>3. r.CKs.step = 0 /\ r.CKr = NoChain
  BY DEF NewInitiatorRatchet, DeriveRootStep
<1>4. wire[Alice] # <<>> /\ got[Alice] = 0 /\ session[Alice] \in Sessions
  BY <1>1, <1>2 DEF OrderInv, Sender, Begun, HandedOver, PairType
<1> HIDE DEF valid, r
<1>5. /\ got'[Alice] = 1 /\ got'[Bob] = got[Bob] /\ 1 \in DOMAIN wire[Bob]
  <2>1. got \in [Peers -> Nat] /\ Len(wire[Bob]) \in Nat /\ DOMAIN wire[Bob] = 1 .. Len(wire[Bob])
    BY <1>1, CounterTypes DEF OrderInv
  <2> QED
    BY <1>1, <1>4, <2>1
<1>6. phase'[Bob] = phase[Bob] /\ session'[Bob] = session[Bob]
  BY <1>1, <1>2 DEF PairType
<1>7. Established(session[Alice], r).ratchet = r
  BY <1>4 DEF Established, Sessions
<1>8. /\ valid => phase'[Alice] = "open" /\ session'[Alice].ratchet = r
      /\ ~valid => phase'[Alice] = "closed" /\ session'[Alice] = session[Alice]
  BY <1>1, <1>2, <1>7 DEF PairType
<1>9. Sender(Bob)'
  <2>1. phase'[Bob] \in {"waiting", "open"} => wire[Bob] # <<>>
    BY <1>1, <1>6 DEF Sender, Begun
  <2> QED
    BY <1>1, <1>2, <1>6, <2>1, SenderKept
<1>10. Sender(Alice)'
  BY <1>1, <1>2, <1>3, <1>4, <1>8, SenderKept
<1>11. Reader(Alice)'
  <2>1. phase'[Alice] = "open" => session'[Alice].ratchet.CKr = NoChain
    BY <1>3, <1>8
  <2> QED
    BY <1>1, <1>2, <1>4, <1>5, <2>1, ReaderOpens
<1>12. Reader(Bob)'
  <2>1. Continues(wire[Alice], wire'[Alice])
    BY <1>2 DEF Continues
  <2> QED
    BY <1>1, <1>2, <1>5, <1>6, <2>1, ReaderKept
<1> QED
  BY <1>9, <1>10, <1>11, <1>12 DEF ReadInv, Peers

\* The window has not seen the number of the packet handed over next, so it comes to
\* the ratchet.
LEMMA ComingAccepted ==
  ASSUME PairInv, OrderInv, BoundInv, NEW p \in Peers, got[p] < Len(wire[Other(p)]),
         phase[p] = "open"
  PROVE  Accepts(session[p].replayWin, Coming(p).hdr.seq)
<1>1. PairType /\ Other(p) \in Peers
  BY PeerFacts DEF PairInv
<1>2. /\ got[p] \in Nat /\ got[p] + 1 \in DOMAIN wire[Other(p)] /\ IsData(Coming(p))
      /\ Coming(p) = wire[Other(p)][got[p] + 1]
      /\ Coming(p).hdr.seq \in 1 .. session[Other(p)].outSequence
  BY <1>1, ComingFacts, ComingIsData DEF Coming
<1>3. session[p].replayWin.maxSeq < Coming(p).hdr.seq
  BY <1>2 DEF BoundInv, Unseen
<1>4. session[p].replayWin.maxSeq \in Nat /\ session[Other(p)].outSequence \in Nat
  BY <1>1, CounterTypes
<1> QED
  BY <1>2, <1>3, <1>4 DEF Accepts

\* What the packet handed over next is sealed with: a key of the chain the peer reads, or
\* one of the chain its DH step leads to.
LEMMA ComingChain ==
  ASSUME PairInv, OrderInv, RootsInv, NEW p \in Peers, got[p] < Len(wire[Other(p)]),
         phase[p] = "open", NEW r, r = session[p].ratchet, NEW mk, mk = Coming(p).body.mk
  PROVE  /\ r.DHrPeer = Coming(p).hdr.epub => mk.root = r.CKr.root
         /\ r.DHrPeer # Coming(p).hdr.epub =>
                mk.root = NewChain(r, Coming(p).hdr.epub).root /\ Len(mk.root) = Len(r.RK) + 1
<1> DEFINE q == Other(p)
           s == session[q].ratchet
           pkt == Coming(p)
<1>1. PairType /\ q \in Peers /\ q # p /\ Other(q) = p /\ Opens(p)
  BY PeerFacts DEF PairInv, PeerInv
<1>2. /\ IsData(pkt) /\ phase[q] = "open" /\ got[p] \in Nat
      /\ got[p] + 1 \in DOMAIN wire[q] /\ pkt = wire[q][got[p] + 1] /\ got[p] + 1 > got[p]
  BY <1>1, ComingIsData, ComingFacts DEF Coming
<1>3. PICK x \in Peers : Ahead(x)
  <2>1. phase[Alice] = "open"
    BY <1>2 DEF Peers, Other
  <2> QED
    BY <2>1 DEF RootsInv
<1> HIDE DEF pkt
<1>4. mk = pkt.body.mk
  BY DEF pkt
<1>5. CASE x = p
  <2>1. pkt.hdr.epub = s.DHsLocal /\ mk.root = r.CKr.root /\ r.DHrPeer = s.DHsLocal
    BY <1>2, <1>3, <1>4, <1>5 DEF Ahead, ToAhead, Linked
  <2> QED
    BY <2>1 DEF pkt
<1>6. CASE x = q
  <2>1. /\ \/ pkt.hdr.epub = s.DHsLocal /\ mk.root = s.RK
           \/ pkt.hdr.epub = r.DHrPeer /\ mk.root = r.CKr.root
        /\ s.RK = Append(r.RK, ComputeECDHSharedSecret(s.DHsLocal, r.DHsLocal))
        /\ r.DHrPeer # s.DHsLocal
    BY <1>1, <1>2, <1>3, <1>4, <1>6 DEF Ahead, FromAhead, Linked
  <2>2. ASSUME pkt.hdr.epub = s.DHsLocal, mk.root = s.RK
        PROVE  mk.root = NewChain(r, pkt.hdr.epub).root /\ Len(mk.root) = Len(r.RK) + 1
    <3>1. mk.root = NewChain(r, pkt.hdr.epub).root
      BY <2>1, <2>2, SecretCommutes DEF NewChain
    <3>2. r.RK \in Seq(SUBSET AnyKey)
      BY <1>1, RatchetFacts DEF RootKeys
    <3> DEFINE k == r.RK
               y == ComputeECDHSharedSecret(s.DHsLocal, r.DHsLocal)
    <3>3. Len(Append(k, y)) = Len(k) + 1
      <4> HIDE DEF k, y
      <4> QED
        BY <3>2 DEF k
    <3> QED
      BY <2>1, <2>2, <3>1, <3>3
  <2> QED
    BY <2>1, <2>2 DEF pkt
<1> QED
  BY <1>5, <1>6, PeerFacts

\* Either nothing is delivered, or the text of the packet is added.
LEMMA RangeGrows ==
  ASSUME NEW S, NEW d \in Seq(S), NEW x \in S
  PROVE  Range(d) \subseteq Range(Append(d, x)) /\ x \in Range(Append(d, x))
<1> DEFINE e == Append(d, x)
           n == Len(d)
<1>1. /\ n \in Nat /\ DOMAIN d = 1 .. n /\ DOMAIN e = 1 .. n + 1 /\ e[n + 1] = x
      /\ \A i \in 1 .. n : e[i] = d[i]
  OBVIOUS
<1> HIDE DEF e, n
<1>2. x \in Range(e)
  BY <1>1 DEF Range
<1>3. ASSUME NEW y \in Range(d) PROVE y \in Range(e)
  <2>1. PICK i \in DOMAIN d : y = d[i]
    BY DEF Range
  <2>2. i \in DOMAIN e /\ e[i] = y
    BY <1>1, <2>1
  <2> QED
    BY <2>2 DEF Range
<1> QED
  BY <1>2, <1>3 DEF e

\* What RatchetDecrypt makes of the packet handed over next: it opens unless an earlier
\* key of its chain was lost, and the receiving chain follows.
LEMMA ComingRead ==
  ASSUME PairInv, OrderInv, BoundInv, RootsInv, ReadInv, NEW p \in Peers, NEW q, q = Other(p),
         got[p] < Len(wire[q]), phase[p] = "open", NEW d,
         Decrypted(session[p], q, Coming(p), Fresh(p), d)
  PROVE  /\ d.result = "ok" \/ Broken(lost[q], Coming(p).body.mk)
         /\ Followed(wire[q], lost[q], got[p] + 1, d.session.ratchet.CKr)
         /\ \/ d.session.ratchet.CKs = session[p].ratchet.CKs
            \/ d.session.ratchet.CKs.step = 0
<1> DEFINE n == got[p]
           w == wire[q]
           l == lost[q]
           r == session[p].ratchet
           c == session[p].ratchet.CKr
           pkt == Coming(p)
           mk == pkt.body.mk
           t == d.session.ratchet
<1>1. PairType /\ q \in Peers /\ q # p /\ Other(q) = p /\ Opens(p)
      /\ Sender(q) /\ Reader(p)
  BY PeerFacts DEF PairInv, PeerInv, ReadInv
<1>2. w \in Seq(Packets) /\ l \in SUBSET Chains /\ c \in Chains
  BY <1>1, ReadTypes
<1>3. /\ n \in Nat /\ n + 1 \in DOMAIN w /\ pkt = w[n + 1] /\ IsData(pkt)
      /\ pkt.body.aad = pkt.hdr /\ VerifySignature(q, pkt)
      /\ Accepts(session[p].replayWin, pkt.hdr.seq)
  BY <1>1, ComingFacts, ComingIsData, ComingAccepted DEF Coming
<1>4. Followed(w, l, n, c)
  BY DEF Reader, ReadInv
<1>5. Whole(w, l, n, mk) /\ mk.root # <<>>
  <2>1. Whole(w, l, (n + 1) - 1, w[n + 1].body.mk) /\ w[n + 1].body.mk.root # <<>>
    BY <1>1, <1>3 DEF Sender, Complete, Begun
  <2>2. (n + 1) - 1 = n
    BY <1>3
  <2> QED
    BY <1>3, <2>1, <2>2
<1>6. \A i \in 1 .. n : IsData(w[i]) => Before(w[i].body.mk, mk)
  <2>1. \A i, j \in DOMAIN w : i < j /\ IsData(w[i]) /\ IsData(w[j])
            => Before(w[i].body.mk, w[j].body.mk)
    BY <1>1 DEF OrderInv, Numbered
  <2>2. \A i \in 1 .. n : i \in DOMAIN w /\ i < n + 1
    BY <1>2, <1>3
  <2> QED
    BY <1>3, <2>1, <2>2
<1>7. /\ r.DHrPeer = pkt.hdr.epub => mk.root = c.root
      /\ r.DHrPeer # pkt.hdr.epub =>
             mk.root = NewChain(r, pkt.hdr.epub).root /\ Len(mk.root) = Len(r.RK) + 1
  BY ComingChain
<1>8. Len(c.root) < Len(r.RK) /\ Len(r.RK) \in Nat /\ Len(c.root) \in Nat
  <2>1. Len(c.root) < Len(r.RK) /\ Len(r.RK) \in Nat
    BY <1>1, RatchetFacts
  <2> QED
    BY <1>2, <2>1 DEF Chains, RootKeys
<1>9. mk \in Chains
  BY <1>1, <1>3, WireTyped
<1>10. \/ /\ r.DHrPeer = pkt.hdr.epub /\ c = NoChain
       \/ /\ r.DHrPeer = pkt.hdr.epub /\ c # NoChain
          /\ d.result = "ok" <=> mk = c
          /\ Advanced(r, t)
       \/ /\ r.DHrPeer # pkt.hdr.epub
          /\ d.result = "ok" <=> mk = NewChain(r, pkt.hdr.epub)
          /\ Stepped(r, t, pkt.hdr.epub, Fresh(p))
  BY <1>3 DEF Decrypted
<1> HIDE DEF n, w, l, c, pkt, mk, t, r
<1>11. ~(r.DHrPeer = pkt.hdr.epub /\ c = NoChain)
  BY <1>5, <1>7 DEF NoChain
<1>12. CASE /\ r.DHrPeer = pkt.hdr.epub /\ c # NoChain
            /\ d.result = "ok" <=> mk = c
            /\ Advanced(r, t)
  <2>1. w[n + 1].body.mk = mk /\ mk.root = c.root
    BY <1>3, <1>7, <1>12 DEF mk
  <2>2. /\ mk = c \/ Broken(l, mk)
        /\ Followed(w, l, n + 1, [root |-> c.root, step |-> c.step + 1])
    BY <1>2, <1>3, <1>4, <1>5, <1>6, <1>12, <2>1, FollowedAdvances
  <2>3. t.CKr = [root |-> c.root, step |-> c.step + 1] /\ t.CKs = r.CKs
    BY <1>12 DEF Advanced, c, r
  <2>4. Followed(w, l, n + 1, t.CKr)
    BY <2>2, <2>3
  <2> QED
    BY <1>12, <2>2, <2>3, <2>4 DEF n, w, l, mk, pkt, t, r
<1>13. CASE /\ r.DHrPeer # pkt.hdr.epub
            /\ d.result = "ok" <=> mk = NewChain(r, pkt.hdr.epub)
            /\ Stepped(r, t, pkt.hdr.epub, Fresh(p))
  <2>1. w[n + 1].body.mk = mk /\ Len(c.root) < Len(mk.root)
    BY <1>3, <1>7, <1>8, <1>13 DEF mk
  <2>2. /\ mk.step = 0 \/ Broken(l, mk)
        /\ Followed(w, l, n + 1, [root |-> mk.root, step |-> 1])
    BY <1>2, <1>3, <1>4, <1>5, <2>1, FollowedSteps
  <2>3. NewChain(r, pkt.hdr.epub).root = mk.root /\ NewChain(r, pkt.hdr.epub).step = 0
        /\ NewChain(r, pkt.hdr.epub) = [root |-> mk.root, step |-> 0]
    BY <1>7, <1>13 DEF NewChain
  <2>4. mk.step = 0 => mk = NewChain(r, pkt.hdr.epub)
    BY <1>9, <2>3 DEF Chains
  <2>5. t.CKr = [root |-> mk.root, step |-> 1] /\ t.CKs.step = 0
    BY <1>13, <2>3 DEF Stepped
  <2>6. Followed(w, l, n + 1, t.CKr)
    BY <2>2, <2>5
  <2> QED
    BY <1>13, <2>2, <2>4, <2>5, <2>6 DEF n, w, l, mk, pkt, t
<1> QED
  BY <1>10, <1>11, <1>12, <1>13

LEMMA ReadReceiveData ==
  ASSUME PairInv, OrderInv, BoundInv, RootsInv, ReadInv, NEW p \in Peers,
         got[p] < Len(wire[Other(p)]), got' = [got EXCEPT ![p] = @ + 1],
         ReceiveData(p, Coming(p))
  PROVE  ReadInv'
<1> DEFINE q == Other(p)
           pkt == Coming(p)
<1>1. PairType /\ q \in Peers /\ q # p /\ Other(q) = p
      /\ Sender(p) /\ Reader(p) /\ Sender(q) /\ Reader(q)
  BY PeerFacts DEF PairInv, ReadInv
<1>2. /\ pkt \in Packets /\ got[p] \in Nat /\ pkt = wire[q][got[p] + 1]
      /\ phase[p] = "open" /\ phase' = phase /\ wire' = wire /\ lost' = lost
  BY <1>1, ComingFacts DEF ReceiveData, Coming
<1>3. pkt.body.text = pkt.hdr.seq
  BY <1>2, ComingIsData
<1>4. PICK d : Handled(p, pkt, d)
  BY <1>2, HandledData
<1>5. /\ Decrypted(session[p], q, pkt, Fresh(p), d)
      /\ session'[p] = d.session /\ session'[q] = session[q]
  BY <1>1, <1>4 DEF Handled, PairType
<1>6. /\ d.result = "ok" \/ Broken(lost[q], pkt.body.mk)
      /\ Followed(wire[q], lost[q], got[p] + 1, d.session.ratchet.CKr)
      /\ \/ d.session.ratchet.CKs = session[p].ratchet.CKs
         \/ d.session.ratchet.CKs.step = 0
  BY <1>1, <1>2, <1>5, ComingRead
<1> HIDE DEF pkt
<1>7. got'[p] = got[p] + 1 /\ got'[q] = got[q]
  BY <1>1 DEF OrderInv
<1>8. /\ Range(delivered[p]) \subseteq Range(delivered'[p]) /\ delivered'[q] = delivered[q]
      /\ d.result = "ok" => pkt.hdr.seq \in Range(delivered'[p])
  <2>1. delivered[p] \in Seq(AnyKey \cup Nat) /\ pkt.body.text \in AnyKey \cup Nat
    BY <1>1, <1>2 DEF PairType, Packets, Bodies
  <2>2. CASE d.result = "ok"
    <3>1. delivered'[p] = Append(delivered[p], pkt.body.text) /\ delivered'[q] = delivered[q]
      BY <1>1, <1>4, <2>2 DEF Handled, PairType
    <3> QED
      BY <1>3, <2>1, <3>1, RangeGrows
  <2>3. CASE d.result # "ok"
    BY <1>4, <2>3 DEF Handled
  <2> QED
    BY <2>2, <2>3
<1>9. Read(wire[q], lost[q], got[p] + 1, delivered'[p])
  <2>1. Read(wire[q], lost[q], got[p], delivered[p])
    BY <1>1 DEF Reader
  <2>2. IsData(wire[q][got[p] + 1]) =>
            \/ wire[q][got[p] + 1].hdr.seq \in Range(delivered'[p])
            \/ Broken(lost[q], wire[q][got[p] + 1].body.mk)
    BY <1>2, <1>6, <1>8
  <2> QED
    BY <1>2, <1>8, <2>1, <2>2, ReadNext
<1>10. Reader(p)'
  BY <1>2, <1>5, <1>6, <1>7, <1>9 DEF Reader
<1>11. phase'[p] \in {"waiting", "open"} => wire[p] # <<>>
  BY <1>1, <1>2 DEF Sender, Begun
<1>12. Sender(p)'
  BY <1>1, <1>2, <1>5, <1>6, <1>11, SenderKept
<1>13. phase'[q] \in {"waiting", "open"} => wire[q] # <<>>
  BY <1>1, <1>2 DEF Sender, Begun
<1>14. Sender(q)'
  BY <1>1, <1>2, <1>5, <1>13, SenderKept
<1>15. Reader(q)'
  <2>1. Continues(wire[p], wire'[p])
    BY <1>2 DEF Continues
  <2> QED
    BY <1>1, <1>2, <1>5, <1>7, <1>8, <2>1, ReaderKept
<1>16. \A x \in Peers : x = p \/ x = q
  BY PeerFacts
<1> HIDE DEF q
<1> QED
  BY <1>10, <1>12, <1>14, <1>15, <1>16 DEF ReadInv

\* What was read and what is lost account for all that was handed over, when only messages
\* come again.
LEMMA NextRead ==
  ASSUME RepeatTypes \subseteq {"data"}
  PROVE  PairInv /\ OrderInv /\ BoundInv /\ RootsInv /\ ReadInv /\ [Next]_vars => ReadInv'
<1> SUFFICES ASSUME PairInv, OrderInv, BoundInv, RootsInv, ReadInv, [Next]_vars PROVE ReadInv'
  OBVIOUS
<1>0. PairType
  BY DEF PairInv
<1>1. ASSUME UNCHANGED <<peerVars, got, lost, delivered>> PROVE ReadInv'
  <2>1. phase' = phase /\ wire' = wire /\ got' = got /\ session' = session
        /\ lost' = lost /\ delivered' = delivered
    BY <1>1 DEF peerVars
  <2> QED
    BY <1>0, <2>1, ReadFrame DEF PhaseKept
<1>2. CASE UNCHANGED vars
  BY <1>1, <1>2 DEF vars, histVars
<1>3. CASE Connect /\ UNCHANGED got
  BY <1>3, ReadConnect
<1>4. ASSUME NEW p \in Peers, (Send(p) \/ SendFails(p)) /\ UNCHANGED got
      PROVE  ReadInv'
  <2>1. PICK reaches \in BOOLEAN : Seal(p, reaches)
    BY <1>4 DEF Send, SendFails
  <2> QED
    BY <1>4, <2>1, ReadSeal
<1>5. ASSUME NEW p \in Peers, SendRefused(p) /\ UNCHANGED got PROVE ReadInv'
  <2>1. /\ session' = [session EXCEPT ![p] = AfterRefusedEncrypt(session[p])]
        /\ phase' = phase /\ wire' = wire /\ got' = got /\ lost' = lost /\ delivered' = delivered
    BY <1>5 DEF SendRefused, histVars
  <2>2. ASSUME NEW s \in Sessions PROVE AfterRefusedEncrypt(s).ratchet = s.ratchet
    BY <2>2 DEF AfterRefusedEncrypt, Sessions
  <2>3. \A x \in Peers : session'[x].ratchet = session[x].ratchet
    BY <1>0, <2>1, <2>2 DEF PairType
  <2> QED
    BY <1>0, <2>1, <2>3, ReadFrame DEF PhaseKept
<1>6. ASSUME NEW p \in Peers, Compromise(p) /\ UNCHANGED got PROVE ReadInv'
  BY <1>1, <1>6 DEF Compromise
<1>7. ASSUME NEW p \in Peers, Receive(p) PROVE ReadInv'
  <2>1. /\ got[p] < Len(wire[Other(p)]) /\ got' = [got EXCEPT ![p] = @ + 1]
        /\ \/ p = Bob /\ ReceiveInit(Coming(p))
           \/ p = Alice /\ ReceiveResp(Coming(p))
           \/ ReceiveData(p, Coming(p))
    BY <1>7 DEF Receive, Coming
  <2>2. Other(Alice) = Bob /\ Other(Bob) = Alice
    BY PeersAssumption DEF Other
  <2> QED
    BY <2>1, <2>2, ReadReceiveInit, ReadReceiveResp, ReadReceiveData
<1>8. ASSUME NEW p \in Peers, Repeat(p) PROVE ReadInv'
  BY <1>2, <1>8, RepeatStutters
<1>9. ASSUME NEW p \in Peers, HandshakeFails(p) /\ UNCHANGED got PROVE ReadInv'
  BY <1>0, <1>9, FailsKeeps, ReadFrame
<1> QED
  BY <1>2, <1>3, <1>4, <1>5, <1>6, <1>7, <1>8, <1>9 DEF Next

\* On an ordered transport DecryptMessage opens every message that is handed over, unless
\* an earlier message of its sending chain was lost (session.go:286-293): however the two
\* peers' DH steps cross, the receiver has the key the sender used.
THEOREM OpenedUnlessBroken ==
  ASSUME RepeatTypes \subseteq {"data"}
  PROVE  Spec => []OpenedOrChainBroken
<1>1. Spec => [](PairInv /\ OrderInv /\ BoundInv /\ RootsInv /\ ReadInv)
  BY InitBoth, NextBoth, BoundInitInv, NextBound, RootsInitInv, NextRoots, ReadInitInv, NextRead,
     PTL DEF Spec
<1>2. ReadInv => OpenedOrChainBroken
  BY DEF ReadInv, Reader, Read, OpenedOrChainBroken, IsData, Lost, Broken
<1> QED
  BY <1>1, <1>2, PTL
=============================================================================
