--------------------------- MODULE SessionPairProofs ---------------------------
(***************************************************************************)
(* The invariant of two sessions that rests on nothing the network does,   *)
(* and, from it, the theorems of UnorderedSession, for any number of       *)
(* messages, any window and any network.  OrderedSessionProofs draws on    *)
(* the same invariant; UnorderedSession's network plays no part in it.     *)
(***************************************************************************)
EXTENDS UnorderedSession, FiniteSetTheorems, TLAPS

USE DEF Idle

-----------------------------------------------------------------------------
\* The types of keys, chains, ratchets, sessions and packets.

AnyKey == (Peers \X Nat) \cup {NoKey}

RootKeys == Seq(SUBSET AnyKey)

Chains == [root : RootKeys, step : Nat]

Ratchets ==
    [DHsLocal : AnyKey, DHrPeer : AnyKey, RK : RootKeys, CKs : Chains, CKr : Chains,
     Ns : Nat, Nr : Nat, PN : Nat, skippedKeys : [{} -> {}]]

Sessions ==
    [isEstablished : BOOLEAN, outSequence : Nat, replayWin : Windows, ratchet : Ratchets]

Headers ==
    [type : {"init", "resp", "data"}, seq : Nat, epub : AnyKey, sender : Peers]

Bodies == [mk : Chains, aad : {NoKey} \cup Headers, text : AnyKey \cup Nat]

Packets ==
    [hdr : Headers, body : Bodies, sig : [signer : Peers, bytes : Headers \X Bodies]]

PairType ==
    /\ session \in [Peers -> Sessions]
    /\ phase \in [Peers -> Idle \cup {"waiting", "open", "closed", "failed"}]
    /\ ephPriv \in AnyKey
    /\ nkeys \in [Peers -> Nat]
    /\ wire \in [Peers -> Seq(Packets)]
    /\ sealed \in [Peers -> Seq(Chains)]
    /\ lost \in [Peers -> SUBSET Chains]
    /\ opened \in [Peers -> SUBSET Chains]
    /\ delivered \in [Peers -> Seq(AnyKey \cup Nat)]
    /\ stolen \in [Peers -> Ratchets]

-----------------------------------------------------------------------------
\* The position of a message key: how many secrets are in its root, and how often
\* the chain was advanced.
Before(a, b) ==
    \/ Len(a.root) < Len(b.root)
    \/ Len(a.root) = Len(b.root) /\ a.step < b.step

\* The key pairs a peer has generated.
KeysOf(p) == {<<p, n>> : n \in 1 .. nkeys[p]}

\* The sending chains of the initiator branch off roots of even length, those of
\* the responder off roots of odd length.
Parity(p) == IF p = Alice THEN 0 ELSE 1

\* A session that is not open has neither sent nor received a message.
Untouched(p) ==
    /\ session[p] = NewSession
    /\ sealed[p] = <<>> /\ opened[p] = {} /\ delivered[p] = <<>>
    /\ stolen[p] = NoRatchet
    /\ \A i \in DOMAIN wire[p] : wire[p][i].hdr.type # "data"

\* The chains of a ratchet relative to its root key.
Shaped(r) ==
    /\ r.RK # <<>>
    /\ r.CKs = NoChain \/ r.CKs.root = r.RK
    /\ r.CKr = NoChain \/ (r.CKr.root # <<>> /\ Len(r.CKr.root) = Len(r.RK) - 1)
    /\ r.CKs = NoChain => r.DHrPeer = NoKey /\ r.CKr = NoChain

Opens(p) ==
    /\ session[p].isEstablished <=> phase[p] = "open"
    /\ phase[p] # "open" => Untouched(p)
    /\ phase[p] = "open" =>
        /\ Shaped(session[p].ratchet)
        /\ Len(session[p].ratchet.RK) % 2 = Parity(p)

\* The keys a peer sealed with come one after the other, all before the one it
\* seals with next.
SealedInOrder(p) ==
    /\ \A i \in DOMAIN sealed[p] :
        /\ Before(sealed[p][i], session[p].ratchet.CKs)
        /\ Len(sealed[p][i].root) % 2 = Parity(p)
    /\ \A i, j \in DOMAIN sealed[p] : i < j => Before(sealed[p][i], sealed[p][j])

\* What is on the wire: handshake packets with a key of their sender, and messages
\* numbered in the order of their keys.
WireInOrder(p) ==
    /\ \A i \in DOMAIN wire[p] :
        /\ wire[p][i].hdr.epub \in KeysOf(p)
        /\ wire[p][i].hdr.type # "data" =>
            wire[p][i].body.mk = NoChain /\ wire[p][i].body.text \in KeysOf(p)
        /\ wire[p][i].hdr.type = "data" =>
            /\ Before(wire[p][i].body.mk, session[p].ratchet.CKs)
            /\ wire[p][i].body.text \in 1 .. session[p].outSequence
    /\ \A i, j \in DOMAIN wire[p] :
        /\ wire[p][i].hdr.type = "data"
        /\ wire[p][j].hdr.type = "data"
        /\ Before(wire[p][i].body.mk, wire[p][j].body.mk)
        => wire[p][i].body.text < wire[p][j].body.text

\* Whatever was opened lies behind the receiving chain, and was on the wire.
OpenedBehind(p) ==
    /\ \A mk \in opened[p] :
        /\ Before(mk, session[p].ratchet.CKr)
        /\ Len(mk.root) % 2 = Parity(Other(p))
    /\ \A i \in DOMAIN delivered[p] : \E j \in DOMAIN wire[Other(p)] :
        /\ wire[Other(p)][j].hdr.type = "data"
        /\ wire[Other(p)][j].body.text = delivered[p][i]
        /\ Before(wire[Other(p)][j].body.mk, session[p].ratchet.CKr)

\* The last secret in a root with a sending chain is that of the peer's own newest
\* key and a key of the other peer.
KeysOwned(p) ==
    LET r == session[p].ratchet
    IN  /\ phase[p] = "open" => r.DHsLocal \in KeysOf(p)
        /\ r.CKs # NoChain =>
            /\ r.DHrPeer \in KeysOf(Other(p))
            /\ r.RK[Len(r.RK)] = ComputeECDHSharedSecret(r.DHsLocal, r.DHrPeer)

\* A copy of the ratchet is of the past.
CopyIsOld(p) ==
    stolen[p] # NoRatchet =>
        /\ Shaped(stolen[p])
        /\ stolen[p].DHsLocal \in KeysOf(p)
        /\ Len(session[p].ratchet.RK) > Len(stolen[p].RK)
            => session[p].ratchet.DHsLocal # stolen[p].DHsLocal

PeerInv(p) ==
    /\ Opens(p) /\ SealedInOrder(p) /\ WireInOrder(p) /\ OpenedBehind(p)
    /\ KeysOwned(p) /\ CopyIsOld(p)

PairInv == PairType /\ \A p \in Peers : PeerInv(p)

-----------------------------------------------------------------------------
\* Facts about positions and roots.

\* Before orders the positions strictly.
LEMMA BeforeIsOrder ==
  ASSUME NEW a \in Chains, NEW b \in Chains, NEW c \in Chains
  PROVE  /\ ~Before(a, a)
         /\ Before(a, b) => ~Before(b, a)
         /\ Before(a, b) /\ Before(b, c) => Before(a, c)
<1>1. ASSUME NEW x \in Chains PROVE Len(x.root) \in Nat /\ x.step \in Nat
  BY <1>1 DEF Chains, RootKeys
<1>2. /\ Len(a.root) \in Nat /\ a.step \in Nat
      /\ Len(b.root) \in Nat /\ b.step \in Nat
      /\ Len(c.root) \in Nat /\ c.step \in Nat
  BY <1>1
<1> QED
  BY <1>2 DEF Before

LEMMA NoChainType == NoChain \in Chains /\ Len(NoChain.root) = 0 /\ NoChain.step = 0
<1>1. <<>> \in RootKeys /\ Len(<<>>) = 0
  BY DEF RootKeys
<1> QED
  BY <1>1 DEF NoChain, Chains

\* Nothing comes before the chain that does not exist.
LEMMA NothingBeforeNoChain == ASSUME NEW a \in Chains PROVE ~Before(a, NoChain)
<1>1. Len(a.root) \in Nat /\ a.step \in Nat
  BY DEF Chains, RootKeys
<1> QED
  BY <1>1, NoChainType DEF Before

\* One secret more.
LEMMA RootGrows ==
  ASSUME NEW rk \in RootKeys, NEW a \in AnyKey, NEW b \in AnyKey
  PROVE  LET new == Append(rk, ComputeECDHSharedSecret(a, b))
         IN  /\ new \in RootKeys
             /\ Len(new) = Len(rk) + 1 /\ Len(rk) \in Nat
             /\ new[Len(rk) + 1] = ComputeECDHSharedSecret(a, b)
             /\ new # <<>>
<1>1. ComputeECDHSharedSecret(a, b) \in SUBSET AnyKey
  BY DEF ComputeECDHSharedSecret
<1>2. ASSUME NEW x \in SUBSET AnyKey
      PROVE  /\ Append(rk, x) \in RootKeys
             /\ Len(Append(rk, x)) = Len(rk) + 1 /\ Len(rk) \in Nat
             /\ Append(rk, x)[Len(rk) + 1] = x
             /\ Append(rk, x) # <<>>
  BY <1>2 DEF RootKeys
<1> QED
  BY <1>1, <1>2

LEMMA NoRatchetType == NoRatchet \in Ratchets /\ NewSession \in Sessions
<1>1. NoRatchet \in Ratchets
  <2>1. <<>> \in [{} -> {}] /\ <<>> \in RootKeys /\ NoKey \in AnyKey
    BY DEF RootKeys, AnyKey
  <2> QED
    BY <2>1, NoChainType DEF NoRatchet, NewResponderRatchet, Ratchets
<1>2. NewReplayWindow \in Windows
  BY DEF NewReplayWindow, Windows
<1> QED
  BY <1>1, <1>2 DEF NewSession, Sessions

\* Neighbours have the other parity.
LEMMA ParityAlternates ==
  ASSUME NEW a \in Nat, NEW b \in {0, 1}, a % 2 = b
  PROVE  /\ a > 0 => (a - 1) % 2 = 1 - b
         /\ (a + 1) % 2 = 1 - b /\ (a + 1 + 1) % 2 = b
<1>1. CASE b = 0
  BY <1>1
<1>2. CASE b = 1
  BY <1>2
<1> QED
  BY <1>1, <1>2

LEMMA PeerFacts ==
  ASSUME NEW p \in Peers
  PROVE  /\ Other(p) \in Peers /\ Other(p) # p /\ Other(Other(p)) = p
         /\ Parity(p) \in {0, 1} /\ Parity(Other(p)) = 1 - Parity(p)
         /\ \A q \in Peers : q = p \/ q = Other(p)
  BY PeersAssumption DEF Peers, Other, Parity

-----------------------------------------------------------------------------
\* What the methods of the ratchet do to its fields.

\* A chain and its counter are replaced, and nothing else.
LEMMA SendingReplaced ==
  ASSUME NEW r \in Ratchets, NEW ck \in Chains, NEW n \in Nat
  PROVE  LET s == [r EXCEPT !.CKs = ck, !.Ns = n]
         IN  /\ s \in Ratchets /\ s.CKs = ck /\ s.RK = r.RK /\ s.CKr = r.CKr
             /\ s.DHsLocal = r.DHsLocal /\ s.DHrPeer = r.DHrPeer
  BY DEF Ratchets

LEMMA ReceivingReplaced ==
  ASSUME NEW r \in Ratchets, NEW ck \in Chains, NEW n \in Nat
  PROVE  LET s == [r EXCEPT !.CKr = ck, !.Nr = n]
         IN  /\ s \in Ratchets /\ s.CKr = ck /\ s.RK = r.RK /\ s.CKs = r.CKs
             /\ s.DHsLocal = r.DHsLocal /\ s.DHrPeer = r.DHrPeer
<1> DEFINE s == [r EXCEPT !.CKr = ck, !.Nr = n]
<1>1. s \in Ratchets
  BY Zenon DEF Ratchets
<1>2. s.CKr = ck
  BY DEF Ratchets
<1>3. s.RK = r.RK /\ s.CKs = r.CKs
  BY DEF Ratchets
<1>4. s.DHsLocal = r.DHsLocal /\ s.DHrPeer = r.DHrPeer
  BY DEF Ratchets
<1> QED
  BY <1>1, <1>2, <1>3, <1>4

\* RatchetEncrypt on an existing sending chain.
LEMMA EncryptShape ==
  ASSUME NEW r \in Ratchets, NEW fresh, r.CKs # NoChain
  PROVE  LET e == RatchetEncrypt(r, fresh)
         IN  /\ e.ratchet \in Ratchets
             /\ e.mk = r.CKs /\ e.epub = r.DHsLocal
             /\ e.ratchet.CKs = [root |-> r.CKs.root, step |-> r.CKs.step + 1]
             /\ e.ratchet.RK = r.RK /\ e.ratchet.CKr = r.CKr
             /\ e.ratchet.DHsLocal = r.DHsLocal /\ e.ratchet.DHrPeer = r.DHrPeer
<1>1. Sending(r, fresh) = r
  BY DEF Sending
<1>2. r.CKs \in Chains /\ r.Ns \in Nat
  BY DEF Ratchets
<1>3. NextChainKey(r.CKs) = [root |-> r.CKs.root, step |-> r.CKs.step + 1]
  BY <1>2 DEF NextChainKey, Chains
<1>4. NextChainKey(r.CKs) \in Chains
  BY <1>2, <1>3 DEF Chains
<1>5. RatchetEncrypt(r, fresh) =
        [epub |-> r.DHsLocal, mk |-> r.CKs, sequence |-> r.Ns,
         ratchet |-> [r EXCEPT !.CKs = NextChainKey(r.CKs), !.Ns = r.Ns + 1]]
  BY <1>1 DEF RatchetEncrypt, MessageKey
<1>6. r.Ns + 1 \in Nat
  BY <1>2
<1> DEFINE s == [r EXCEPT !.CKs = NextChainKey(r.CKs), !.Ns = r.Ns + 1]
<1>7. /\ s \in Ratchets /\ s.CKs = NextChainKey(r.CKs) /\ s.RK = r.RK /\ s.CKr = r.CKr
      /\ s.DHsLocal = r.DHsLocal /\ s.DHrPeer = r.DHrPeer
  BY <1>4, <1>6, SendingReplaced
<1> HIDE DEF s
<1>8. /\ RatchetEncrypt(r, fresh).ratchet = s
      /\ RatchetEncrypt(r, fresh).mk = r.CKs
      /\ RatchetEncrypt(r, fresh).epub = r.DHsLocal
  BY <1>5 DEF s
<1> QED
  BY <1>3, <1>7, <1>8

\* The DH step: a receiving chain one secret further, a sending chain two.
LEMMA StepShape ==
  ASSUME NEW r \in Ratchets, NEW epub \in AnyKey, NEW fresh \in AnyKey
  PROVE  LET s  == DHStep(r, epub, fresh)
             rk == Append(r.RK, ComputeECDHSharedSecret(r.DHsLocal, epub))
         IN  /\ s \in Ratchets
             /\ s.CKr = [root |-> rk, step |-> 0]
             /\ s.RK = Append(rk, ComputeECDHSharedSecret(fresh, epub))
             /\ s.CKs = [root |-> Append(rk, ComputeECDHSharedSecret(fresh, epub)), step |-> 0]
             /\ s.DHsLocal = fresh /\ s.DHrPeer = epub
<1> DEFINE rk == Append(r.RK, ComputeECDHSharedSecret(r.DHsLocal, epub))
           rk2 == Append(rk, ComputeECDHSharedSecret(fresh, epub))
           half == [r EXCEPT !.DHrPeer = epub, !.RK = rk,
                             !.CKr = [root |-> rk, step |-> 0], !.Nr = 1]
<1>1. r.RK \in RootKeys /\ r.DHsLocal \in AnyKey
  BY DEF Ratchets
<1>2. rk \in RootKeys
  BY <1>1, RootGrows
<1>3. rk2 \in RootKeys
  BY <1>2, RootGrows
<1>4. DHStep(r, epub, fresh) = SendStep(half, fresh)
  BY DEF DHStep, DeriveRootStep
<1> HIDE DEF rk
<1>5. half \in Ratchets /\ half.RK = rk /\ half.DHrPeer = epub /\ half.Ns = r.Ns
      /\ half.CKr = [root |-> rk, step |-> 0]
  BY <1>2 DEF Ratchets, Chains
<1> HIDE DEF half
<1>6. SendStep(half, fresh) =
        [half EXCEPT !.DHsLocal = fresh, !.RK = rk2, !.CKs = [root |-> rk2, step |-> 0],
                     !.PN = r.Ns, !.Ns = 1]
  BY <1>5 DEF SendStep, DeriveRootStep
<1> HIDE DEF rk2
<1>7. r.Ns \in Nat
  BY DEF Ratchets
<1>8. SendStep(half, fresh) \in Ratchets
  <2>1. [root |-> rk2, step |-> 0] \in Chains
    BY <1>3 DEF Chains
  <2>2. 1 \in Nat
    OBVIOUS
  <2> QED
    BY Zenon, <1>3, <1>5, <1>6, <1>7, <2>1, <2>2 DEF Ratchets
<1>9. /\ SendStep(half, fresh).CKr = half.CKr
      /\ SendStep(half, fresh).RK = rk2
      /\ SendStep(half, fresh).CKs = [root |-> rk2, step |-> 0]
      /\ SendStep(half, fresh).DHsLocal = fresh
      /\ SendStep(half, fresh).DHrPeer = epub
  BY <1>5, <1>6 DEF Ratchets
<1> QED
  BY <1>4, <1>5, <1>8, <1>9 DEF rk2, rk

\* Sessions pass 0 for the position in the chain, so that nothing is skipped.
LEMMA NothingSkipped ==
  ASSUME NEW r \in Ratchets, NEW epub
  PROVE  LET s == SkipTo(r, epub, 0)
         IN  /\ s \in Ratchets /\ s.CKr = r.CKr /\ s.RK = r.RK /\ s.CKs = r.CKs
             /\ s.DHsLocal = r.DHsLocal /\ s.DHrPeer = r.DHrPeer
<1>1. r.Nr \in Nat /\ r.CKr \in Chains /\ DOMAIN r.skippedKeys = {}
  BY DEF Ratchets
<1>2. ~(r.Nr < 0) /\ r.Nr + 0 = r.Nr
  BY <1>1
<1>3. {<<epub, i>> : i \in r.Nr .. r.Nr + 0 - 1} = {}
  BY <1>1
<1>4. [k \in DOMAIN r.skippedKeys \cup {} |->
          IF k \in {} THEN [r.CKr EXCEPT !.step = @ + k[2] - r.Nr]
                      ELSE r.skippedKeys[k]] \in [{} -> {}]
  BY <1>1
<1>5. [r.CKr EXCEPT !.step = @ + 0] = r.CKr
  BY <1>1 DEF Chains
<1>6. PICK f \in [{} -> {}] :
        SkipTo(r, epub, 0) = [r EXCEPT !.CKr = r.CKr, !.Nr = r.Nr, !.skippedKeys = f]
  <2>1. SkipTo(r, epub, 0) =
         [r EXCEPT !.CKr.step = @ + 0, !.Nr = @ + 0, !.skippedKeys =
            [k \in DOMAIN @ \cup {} |->
                  IF k \in {} THEN [r.CKr EXCEPT !.step = @ + k[2] - r.Nr]
                              ELSE r.skippedKeys[k]]]
    BY <1>2, <1>3 DEF SkipTo
  <2> QED
    BY <2>1, <1>2, <1>4, <1>5 DEF Ratchets
<1> QED
  BY <1>1, <1>6 DEF Ratchets

\* RatchetDecrypt as a session calls it either fails for want of a chain, or uses
\* the key at the head of its receiving chain, or makes a DH step and uses the
\* first key of the new one.
NewChain(r, epub) ==
    [root |-> Append(r.RK, ComputeECDHSharedSecret(r.DHsLocal, epub)), step |-> 0]

Advanced(r, t) ==
    /\ t.CKr = [root |-> r.CKr.root, step |-> r.CKr.step + 1]
    /\ t.RK = r.RK /\ t.CKs = r.CKs
    /\ t.DHsLocal = r.DHsLocal /\ t.DHrPeer = r.DHrPeer

Stepped(r, t, epub, fresh) ==
    /\ t.CKr = [root |-> NewChain(r, epub).root, step |-> 1]
    /\ t.RK = Append(NewChain(r, epub).root, ComputeECDHSharedSecret(fresh, epub))
    /\ t.CKs = [root |-> t.RK, step |-> 0]
    /\ t.DHsLocal = fresh /\ t.DHrPeer = epub

LEMMA DecryptShape ==
  ASSUME NEW r \in Ratchets, NEW epub \in AnyKey, NEW fresh \in AnyKey, NEW box, NEW aad
  PROVE  LET d == RatchetDecrypt(r, epub, box, aad, 0, fresh)
         IN  /\ d.ratchet \in Ratchets /\ d.ok \in BOOLEAN
             /\ \/ /\ r.DHrPeer = epub /\ r.CKr = NoChain
                   /\ d.ok = FALSE /\ d.ratchet = r
                \/ /\ r.DHrPeer = epub /\ r.CKr # NoChain
                   /\ d.ok = TRUE <=> box.mk = r.CKr /\ box.aad = aad
                   /\ Advanced(r, d.ratchet)
                \/ /\ r.DHrPeer # epub
                   /\ d.ok = TRUE <=> box.mk = NewChain(r, epub) /\ box.aad = aad
                   /\ Stepped(r, d.ratchet, epub, fresh)
<1> DEFINE d == RatchetDecrypt(r, epub, box, aad, 0, fresh)
           rk == Append(r.RK, ComputeECDHSharedSecret(r.DHsLocal, epub))
           rk2 == Append(rk, ComputeECDHSharedSecret(fresh, epub))
<1>1. CASE r.DHrPeer = epub /\ r.CKr = NoChain
  <2>1. d = [ok |-> FALSE, ratchet |-> r]
    BY <1>1 DEF RatchetDecrypt, NeedsDHStep
  <2> HIDE DEF d
  <2>2. d.ratchet \in Ratchets /\ d.ok = FALSE /\ d.ratchet = r
    BY <2>1
  <2> QED
    BY <1>1, <2>2 DEF d
<1>2. ASSUME NEW t \in Ratchets,
             ~(~NeedsDHStep(r, epub) /\ r.CKr = NoChain),
             Receiving(r, epub, 0, fresh) = SkipTo(t, epub, 0)
      PROVE  /\ d.ratchet \in Ratchets /\ d.ok \in BOOLEAN
             /\ d.ok = TRUE <=> box.mk = t.CKr /\ box.aad = aad
             /\ d.ratchet.CKr = [root |-> t.CKr.root, step |-> t.CKr.step + 1]
             /\ d.ratchet.RK = t.RK /\ d.ratchet.CKs = t.CKs
             /\ d.ratchet.DHsLocal = t.DHsLocal /\ d.ratchet.DHrPeer = t.DHrPeer
  <2> DEFINE s == SkipTo(t, epub, 0)
  <2>1. /\ s \in Ratchets /\ s.CKr = t.CKr /\ s.RK = t.RK /\ s.CKs = t.CKs
        /\ s.DHsLocal = t.DHsLocal /\ s.DHrPeer = t.DHrPeer
    BY NothingSkipped
  <2>2. d = [ok |-> box.mk = s.CKr /\ box.aad = aad,
             ratchet |-> [s EXCEPT !.CKr = NextChainKey(@), !.Nr = @ + 1]]
    BY <1>2 DEF RatchetDecrypt, DecryptAEAD, MessageKey
  <2> HIDE DEF s, d
  <2>3. s.CKr \in Chains /\ s.Nr \in Nat
    BY <2>1 DEF Ratchets
  <2>4. NextChainKey(s.CKr) = [root |-> s.CKr.root, step |-> s.CKr.step + 1]
    BY <2>3 DEF NextChainKey, Chains
  <2>5. NextChainKey(s.CKr) \in Chains
    BY <2>3, <2>4 DEF Chains
  <2>6. d.ratchet = [s EXCEPT !.CKr = NextChainKey(s.CKr), !.Nr = s.Nr + 1]
    BY <2>2
  <2>7. d.ok \in BOOLEAN /\ (d.ok = TRUE <=> box.mk = s.CKr /\ box.aad = aad)
    BY <2>2
  <2>8. s.Nr + 1 \in Nat
    BY <2>3
  <2> DEFINE x == [s EXCEPT !.CKr = NextChainKey(s.CKr), !.Nr = s.Nr + 1]
  <2>9. /\ x \in Ratchets /\ x.CKr = NextChainKey(s.CKr) /\ x.RK = s.RK /\ x.CKs = s.CKs
        /\ x.DHsLocal = s.DHsLocal /\ x.DHrPeer = s.DHrPeer
    BY Zenon, <2>1, <2>5, <2>8, ReceivingReplaced
  <2>10. d.ratchet = x
    BY <2>6
  <2> HIDE DEF x
  <2> QED
    BY <2>1, <2>4, <2>7, <2>9, <2>10
<1>3. CASE r.DHrPeer = epub /\ r.CKr # NoChain
  <2>1. Receiving(r, epub, 0, fresh) = SkipTo(r, epub, 0)
    BY <1>3 DEF Receiving, NeedsDHStep
  <2>2. ~(~NeedsDHStep(r, epub) /\ r.CKr = NoChain)
    BY <1>3
  <2>3. /\ d.ratchet \in Ratchets /\ d.ok \in BOOLEAN
        /\ d.ok = TRUE <=> box.mk = r.CKr /\ box.aad = aad
        /\ d.ratchet.CKr = [root |-> r.CKr.root, step |-> r.CKr.step + 1]
        /\ d.ratchet.RK = r.RK /\ d.ratchet.CKs = r.CKs
        /\ d.ratchet.DHsLocal = r.DHsLocal /\ d.ratchet.DHrPeer = r.DHrPeer
    BY <1>2, <2>1, <2>2
  <2> HIDE DEF d
  <2> QED
    BY <1>3, <2>3 DEF d, Advanced
<1>4. CASE r.DHrPeer # epub
  <2> DEFINE t == DHStep(r, epub, fresh)
  <2>1. Receiving(r, epub, 0, fresh) = SkipTo(t, epub, 0)
    BY <1>4 DEF Receiving, NeedsDHStep
  <2>2. ~(~NeedsDHStep(r, epub) /\ r.CKr = NoChain)
    BY <1>4 DEF NeedsDHStep
  <2>3. /\ t \in Ratchets
        /\ t.CKr = [root |-> rk, step |-> 0]
        /\ t.RK = rk2
        /\ t.CKs = [root |-> rk2, step |-> 0]
        /\ t.DHsLocal = fresh /\ t.DHrPeer = epub
    BY StepShape
  <2> HIDE DEF t
  <2>4. /\ d.ratchet \in Ratchets /\ d.ok \in BOOLEAN
        /\ d.ok = TRUE <=> box.mk = t.CKr /\ box.aad = aad
        /\ d.ratchet.CKr = [root |-> t.CKr.root, step |-> t.CKr.step + 1]
        /\ d.ratchet.RK = t.RK /\ d.ratchet.CKs = t.CKs
        /\ d.ratchet.DHsLocal = t.DHsLocal /\ d.ratchet.DHrPeer = t.DHrPeer
    BY <1>2, <2>1, <2>2, <2>3
  <2> HIDE DEF d, rk, rk2
  <2>5. t.CKr.root = rk /\ t.CKr.step + 1 = 1
    BY <2>3
  <2>6. /\ d.ratchet \in Ratchets /\ d.ok \in BOOLEAN
        /\ d.ok = TRUE <=> box.mk = [root |-> rk, step |-> 0] /\ box.aad = aad
        /\ d.ratchet.CKr = [root |-> rk, step |-> 1]
        /\ d.ratchet.RK = rk2
        /\ d.ratchet.CKs = [root |-> rk2, step |-> 0]
        /\ d.ratchet.DHsLocal = fresh /\ d.ratchet.DHrPeer = epub
    BY <2>3, <2>4, <2>5
  <2>7. Stepped(r, d.ratchet, epub, fresh)
    BY <2>6 DEF Stepped, NewChain, rk, rk2
  <2>8. d.ok = TRUE <=> box.mk = NewChain(r, epub) /\ box.aad = aad
    BY <2>6 DEF NewChain, rk
  <2> QED
    BY <1>4, <2>6, <2>7, <2>8 DEF d
<1> QED
  BY <1>1, <1>3, <1>4

-----------------------------------------------------------------------------
\* What the methods of the session do.

\* CheckAndAdd leaves a window.
LEMMA WindowStays ==
  ASSUME NEW w \in Windows, NEW n \in Nat PROVE CheckAndAdd(w, n) \in Windows
<1>1. w.maxSeq \in Nat /\ w.bitmap \subseteq BitPositions /\ 0 \in BitPositions
  BY ReplayWindowSizeAssumption DEF Windows, BitPositions
<1>2. CASE n > w.maxSeq
  <2>1. ASSUME NEW k PROVE ShiftLeft(w.bitmap, k) \cup {0} \subseteq BitPositions
    BY <1>1 DEF ShiftLeft
  <2> QED
    BY <1>1, <1>2, <2>1 DEF CheckAndAdd, Add, Windows
<1>3. CASE ~(n > w.maxSeq) /\ Accepts(w, n)
  <2>1. w.maxSeq - n \in BitPositions
    BY <1>1, <1>3, ReplayWindowSizeAssumption DEF Accepts, BitPositions
  <2>2. CheckAndAdd(w, n) = [w EXCEPT !.bitmap = w.bitmap \cup {w.maxSeq - n}]
    BY <1>3 DEF CheckAndAdd, Add
  <2>3. w.bitmap \cup {w.maxSeq - n} \in SUBSET BitPositions
    BY <1>1, <2>1
  <2> QED
    BY <2>2, <2>3 DEF Windows
<1>4. CASE ~Accepts(w, n)
  BY <1>4 DEF CheckAndAdd
<1> QED
  BY <1>2, <1>3, <1>4

Ready(s) == s.isEstablished

\* What DecryptMessage of an established session returns: it counts an accepted number,
\* and gives the ratchet an accepted packet whose signature is its sender's.
Decrypted(s, peer, pkt, fresh, d) ==
    /\ d.session \in Sessions
    /\ Ready(d.session) /\ d.session.outSequence = s.outSequence
    /\ d.session.replayWin = CheckAndAdd(s.replayWin, pkt.hdr.seq)
    /\ ~Accepts(s.replayWin, pkt.hdr.seq) => d.session = s /\ d.result # "ok"
    /\ \/ /\ ~(Accepts(s.replayWin, pkt.hdr.seq) /\ VerifySignature(peer, pkt))
          /\ d.result # "ok" /\ d.session.ratchet = s.ratchet
       \/ /\ s.ratchet.DHrPeer = pkt.hdr.epub /\ s.ratchet.CKr = NoChain
          /\ d.result # "ok" /\ d.session.ratchet = s.ratchet
       \/ /\ Accepts(s.replayWin, pkt.hdr.seq) /\ VerifySignature(peer, pkt)
          /\ s.ratchet.DHrPeer = pkt.hdr.epub /\ s.ratchet.CKr # NoChain
          /\ d.result = "ok" <=> pkt.body.mk = s.ratchet.CKr /\ pkt.body.aad = pkt.hdr
          /\ Advanced(s.ratchet, d.session.ratchet)
       \/ /\ Accepts(s.replayWin, pkt.hdr.seq) /\ VerifySignature(peer, pkt)
          /\ s.ratchet.DHrPeer # pkt.hdr.epub
          /\ d.result = "ok" <=> /\ pkt.body.mk = NewChain(s.ratchet, pkt.hdr.epub)
                                /\ pkt.body.aad = pkt.hdr
          /\ Stepped(s.ratchet, d.session.ratchet, pkt.hdr.epub, fresh)

LEMMA DecryptMessageShape ==
  ASSUME NEW s \in Sessions, NEW peer, NEW pkt \in Packets, NEW fresh \in AnyKey,
         Ready(s)
  PROVE  Decrypted(s, peer, pkt, fresh, DecryptMessage(s, peer, pkt, fresh))
<1> DEFINE d == DecryptMessage(s, peer, pkt, fresh)
           x == RatchetDecrypt(s.ratchet, pkt.hdr.epub, pkt.body, pkt.hdr, 0, fresh)
           w == CheckAndAdd(s.replayWin, pkt.hdr.seq)
           counted == [s EXCEPT !.replayWin = w]
<1>1. /\ s.replayWin \in Windows /\ s.ratchet \in Ratchets
      /\ pkt.hdr.seq \in Nat /\ pkt.hdr.epub \in AnyKey
  BY DEF Sessions, Packets, Headers
<1>2. w \in Windows
  BY <1>1, WindowStays
<1>3. x.ratchet \in Ratchets /\ x.ok \in BOOLEAN
  BY <1>1, DecryptShape
<1>4. CASE ~Accepts(s.replayWin, pkt.hdr.seq)
  <2>1. d = [result |-> "replay", session |-> s] /\ w = s.replayWin
    BY <1>4 DEF DecryptMessage, CheckAndAdd, Ready
  <2> HIDE DEF d, x, w
  <2>2. d.result = "replay" /\ d.session = s
    BY <2>1
  <2> QED
    BY <1>4, <2>1, <2>2 DEF Decrypted, d, w
<1>5. CASE Accepts(s.replayWin, pkt.hdr.seq) /\ ~VerifySignature(peer, pkt)
  <2>1. d = [result |-> "signature", session |-> counted]
    BY <1>5 DEF DecryptMessage, Ready
  <2> HIDE DEF d, x, w
  <2>2. /\ counted \in Sessions /\ counted.ratchet = s.ratchet /\ counted.replayWin = w
        /\ Ready(counted) /\ counted.outSequence = s.outSequence
    BY <1>2 DEF Sessions, Ready
  <2> HIDE DEF counted
  <2>3. d.result = "signature" /\ d.session = counted
    BY <2>1
  <2> QED
    BY <1>5, <2>2, <2>3 DEF Decrypted, d, w
<1>6. CASE Accepts(s.replayWin, pkt.hdr.seq) /\ VerifySignature(peer, pkt)
  <2>1. d = [result  |-> IF x.ok THEN "ok" ELSE "decrypt",
             session |-> [counted EXCEPT !.ratchet = x.ratchet]]
    BY <1>6 DEF DecryptMessage, ComputeAAD, Ready
  <2> HIDE DEF d, x, w
  <2> DEFINE t == [counted EXCEPT !.ratchet = x.ratchet]
  <2>2. /\ t \in Sessions /\ t.ratchet = x.ratchet /\ t.replayWin = w
        /\ Ready(t) /\ t.outSequence = s.outSequence
    BY <1>2, <1>3 DEF Sessions, Ready
  <2> HIDE DEF t
  <2>3. d.session = t
    BY <2>1 DEF t
  <2>4. d.result = "ok" <=> x.ok = TRUE
    BY <1>3, <2>1
  <2>5. \/ /\ s.ratchet.DHrPeer = pkt.hdr.epub /\ s.ratchet.CKr = NoChain
           /\ x.ok = FALSE /\ x.ratchet = s.ratchet
        \/ /\ s.ratchet.DHrPeer = pkt.hdr.epub /\ s.ratchet.CKr # NoChain
           /\ x.ok = TRUE <=> pkt.body.mk = s.ratchet.CKr /\ pkt.body.aad = pkt.hdr
           /\ Advanced(s.ratchet, x.ratchet)
        \/ /\ s.ratchet.DHrPeer # pkt.hdr.epub
           /\ x.ok = TRUE <=> /\ pkt.body.mk = NewChain(s.ratchet, pkt.hdr.epub)
                             /\ pkt.body.aad = pkt.hdr
           /\ Stepped(s.ratchet, x.ratchet, pkt.hdr.epub, fresh)
    BY <1>1, DecryptShape DEF x
  <2> QED
    BY <1>6, <2>2, <2>3, <2>4, <2>5 DEF Decrypted, d, w
<1> QED
  BY <1>4, <1>5, <1>6

\* EncryptMessage on an existing sending chain: the next number, the next key.
Encrypted(s, me, fresh, e) ==
    /\ e.session \in Sessions /\ e.pkt \in Packets
    /\ e.session.ratchet = RatchetEncrypt(s.ratchet, fresh).ratchet
    /\ e.session.outSequence = s.outSequence + 1
    /\ e.session.isEstablished = s.isEstablished
    /\ e.session.replayWin = s.replayWin
    /\ e.pkt.hdr.type = "data" /\ e.pkt.hdr.seq = s.outSequence + 1
    /\ e.pkt.hdr.epub = s.ratchet.DHsLocal
    /\ e.pkt.body.mk = s.ratchet.CKs /\ e.pkt.body.text = s.outSequence + 1
    /\ e.pkt.body.aad = e.pkt.hdr
    /\ VerifySignature(me, e.pkt)

LEMMA EncryptMessageShape ==
  ASSUME NEW s \in Sessions, NEW me \in Peers, NEW fresh, s.ratchet.CKs # NoChain
  PROVE  Encrypted(s, me, fresh, EncryptMessage(s, me, s.outSequence + 1, fresh))
<1> DEFINE e == EncryptMessage(s, me, s.outSequence + 1, fresh)
           x == RatchetEncrypt(s.ratchet, fresh)
           n == s.outSequence + 1
           hdr == [type |-> "data", seq |-> n, epub |-> s.ratchet.DHsLocal, sender |-> me]
           body == [mk |-> s.ratchet.CKs, aad |-> hdr, text |-> n]
           pkt == [hdr |-> hdr, body |-> body,
                   sig |-> [signer |-> me, bytes |-> <<hdr, body>>]]
           t == [s EXCEPT !.outSequence = n, !.ratchet = x.ratchet]
<1>1. s.ratchet \in Ratchets /\ s.outSequence \in Nat /\ n \in Nat
  BY DEF Sessions
<1>2. x.ratchet \in Ratchets /\ x.mk = s.ratchet.CKs /\ x.epub = s.ratchet.DHsLocal
  BY <1>1, EncryptShape
<1>3. e = [session |-> t, pkt |-> pkt]
  BY <1>2 DEF EncryptMessage, Header, Packet, Sign, EncryptAEAD, ComputeAAD
<1>4. s.ratchet.CKs \in Chains /\ s.ratchet.DHsLocal \in AnyKey
  BY <1>1 DEF Ratchets
<1> HIDE DEF x, n, e
<1>5. hdr \in Headers
  BY <1>1, <1>4 DEF Headers
<1>6. body \in Bodies /\ body.mk = s.ratchet.CKs /\ body.aad = hdr /\ body.text = n
  <2> HIDE DEF hdr
  <2> QED
    BY <1>1, <1>4, <1>5 DEF Bodies
<1>7. pkt \in Packets /\ pkt.hdr = hdr /\ pkt.body = body /\ VerifySignature(me, pkt)
  <2> HIDE DEF hdr, body
  <2> QED
    BY <1>5, <1>6 DEF Packets, VerifySignature, Sign, SignedBytes
<1>8. /\ t \in Sessions /\ t.ratchet = x.ratchet /\ t.outSequence = n
      /\ t.isEstablished = s.isEstablished /\ t.replayWin = s.replayWin
  BY <1>1, <1>2 DEF Sessions
<1>9. hdr.type = "data" /\ hdr.seq = n /\ hdr.epub = s.ratchet.DHsLocal
  OBVIOUS
<1> HIDE DEF t, pkt, hdr, body
<1>10. e.session = t /\ e.pkt = pkt
  BY <1>3
<1> QED
  BY <1>6, <1>7, <1>8, <1>9, <1>10 DEF Encrypted, e, x, n

-----------------------------------------------------------------------------
\* Steps and the invariant.

\* b has everything a has, and perhaps more.
Continues(a, b) == \A i \in DOMAIN a : i \in DOMAIN b /\ b[i] = a[i]

\* A packet the other peer made, whatever number its header shows by now.
FromWire(p, pkt) ==
    /\ pkt \in Packets
    /\ \E j \in DOMAIN wire[Other(p)] :
        /\ pkt.body = wire[Other(p)][j].body
        /\ pkt.hdr.epub = wire[Other(p)][j].hdr.epub
        /\ pkt.hdr.type = wire[Other(p)][j].hdr.type

\* A fresh key pair is none of those generated before.
LEMMA FreshIsNew ==
  ASSUME PairType, NEW p \in Peers
  PROVE  Fresh(p) \in AnyKey /\ Fresh(p) \notin KeysOf(p)
<1>1. nkeys[p] \in Nat
  BY DEF PairType
<1>2. Fresh(p) \in AnyKey
  BY <1>1 DEF Fresh, AnyKey
<1>3. Fresh(p) \notin KeysOf(p)
  BY <1>1 DEF Fresh, KeysOf
<1> QED
  BY <1>2, <1>3

\* Generated counts the fresh pair in.
LEMMA GeneratedOne ==
  ASSUME PairType, NEW p \in Peers, NEW n \in {0, 1}, Generated(p, n)
  PROVE  /\ nkeys' \in [Peers -> Nat]
         /\ \A x \in Peers : nkeys[x] <= nkeys'[x]
         /\ \A x \in Peers : KeysOf(x) \subseteq KeysOf(x)'
         /\ n = 1 => Fresh(p) \in KeysOf(p)'
<1>1. nkeys \in [Peers -> Nat]
  BY DEF PairType
<1>2. nkeys' \in [Peers -> Nat] /\ \A x \in Peers : nkeys[x] <= nkeys'[x]
  BY <1>1 DEF Generated
<1>3. ASSUME NEW x \in Peers PROVE KeysOf(x) \subseteq KeysOf(x)'
  <2>1. nkeys[x] \in Nat /\ nkeys'[x] \in Nat /\ nkeys[x] <= nkeys'[x]
    BY <1>1, <1>2
  <2> QED
    BY <2>1 DEF KeysOf
<1>4. n = 1 => nkeys'[p] = nkeys[p] + 1
  BY <1>1 DEF Generated
<1>5. n = 1 => Fresh(p) \in KeysOf(p)'
  <2>1. nkeys[p] \in Nat
    BY <1>1
  <2> QED
    BY <1>4, <2>1 DEF KeysOf, Fresh
<1> QED
  BY <1>2, <1>3, <1>5

\* A peer whose own state does not change keeps its part of the invariant.
LEMMA PeerFrame ==
  ASSUME PairType, NEW q \in Peers, PeerInv(q),
         session'[q] = session[q], phase'[q] = phase[q], wire'[q] = wire[q],
         sealed'[q] = sealed[q], opened'[q] = opened[q], delivered'[q] = delivered[q],
         stolen'[q] = stolen[q],
         \A x \in Peers : KeysOf(x) \subseteq KeysOf(x)',
         Continues(wire[Other(q)], wire'[Other(q)])
  PROVE  PeerInv(q)'
<1>1. Opens(q)'
  BY DEF PeerInv, Opens, Untouched
<1>2. SealedInOrder(q)'
  BY DEF PeerInv, SealedInOrder
<1>3. WireInOrder(q)'
  BY DEF PeerInv, WireInOrder
<1>4. OpenedBehind(q)'
  <2>1. OpenedBehind(q)
    BY DEF PeerInv
  <2>2. ASSUME NEW i \in DOMAIN delivered'[q]
        PROVE  (\E j \in DOMAIN wire[Other(q)] :
                  /\ wire[Other(q)][j].hdr.type = "data"
                  /\ wire[Other(q)][j].body.text = delivered[q][i]
                  /\ Before(wire[Other(q)][j].body.mk, session[q].ratchet.CKr))'
    <3>1. PICK j \in DOMAIN wire[Other(q)] :
            /\ wire[Other(q)][j].hdr.type = "data"
            /\ wire[Other(q)][j].body.text = delivered[q][i]
            /\ Before(wire[Other(q)][j].body.mk, session[q].ratchet.CKr)
      BY <2>1, <2>2 DEF OpenedBehind
    <3>2. j \in DOMAIN wire'[Other(q)] /\ wire'[Other(q)][j] = wire[Other(q)][j]
      BY DEF Continues
    <3> QED
      BY <3>1, <3>2
  <2>3. \A mk \in opened'[q] :
          /\ Before(mk, session'[q].ratchet.CKr)
          /\ Len(mk.root) % 2 = Parity(Other(q))
    BY <2>1 DEF OpenedBehind
  <2> QED
    BY <2>2, <2>3 DEF OpenedBehind
<1>5. KeysOwned(q)'
  BY PeerFacts DEF PeerInv, KeysOwned
<1>6. CopyIsOld(q)'
  BY DEF PeerInv, CopyIsOld
<1> QED
  BY <1>1, <1>2, <1>3, <1>4, <1>5, <1>6 DEF PeerInv


\* What one round of the receive loop does to the peer that runs it.
Quiet(p) == delivered' = delivered /\ opened' = opened

OpenedWith(p, pkt, mk) ==
    /\ pkt.body.mk = mk
    /\ delivered' = [delivered EXCEPT ![p] = Append(@, pkt.body.text)]
    /\ opened' = [opened EXCEPT ![p] = @ \cup {pkt.body.mk}]

Received(p, pkt) ==
    LET r == session[p].ratchet
        t == session'[p].ratchet
    IN  /\ session'[p] \in Sessions /\ session'[p].isEstablished = TRUE
        /\ session'[p].outSequence = session[p].outSequence
        /\ session' = [session EXCEPT ![p] = session'[p]]
        /\ \/ t = r /\ Generated(p, 0) /\ Quiet(p)
           \/ /\ r.CKr # NoChain /\ Advanced(r, t) /\ Generated(p, 0)
              /\ Quiet(p) \/ OpenedWith(p, pkt, r.CKr)
           \/ /\ r.DHrPeer # pkt.hdr.epub
              /\ Stepped(r, t, pkt.hdr.epub, Fresh(p)) /\ Generated(p, 1)
              /\ Quiet(p) \/ OpenedWith(p, pkt, NewChain(r, pkt.hdr.epub))

LEMMA ReceiveShape ==
  ASSUME PairInv, NEW p \in Peers, NEW pkt, FromWire(p, pkt), ReceiveData(p, pkt)
  PROVE  Received(p, pkt)
<1> DEFINE s == session[p]
           q == Other(p)
           r == s.ratchet
           d == DecryptMessage(s, q, pkt, Fresh(p))
           t == d.session.ratchet
<1>1. PairType /\ PeerInv(p)
  BY DEF PairInv
<1>2. s \in Sessions /\ r \in Ratchets /\ pkt \in Packets /\ Fresh(p) \in AnyKey
  BY <1>1, FreshIsNew DEF PairType, FromWire, Sessions
<1>3. phase[p] = "open"
  BY DEF ReceiveData
<1>4. Ready(s)
  BY <1>1, <1>2, <1>3 DEF PeerInv, Opens, Ready
<1>5. /\ d.session \in Sessions
      /\ Ready(d.session) /\ d.session.outSequence = s.outSequence
      /\ \/ d.result # "ok" /\ t = r
         \/ /\ r.CKr # NoChain
            /\ d.result = "ok" => pkt.body.mk = r.CKr
            /\ Advanced(r, t)
         \/ /\ r.DHrPeer # pkt.hdr.epub
            /\ d.result = "ok" => pkt.body.mk = NewChain(r, pkt.hdr.epub)
            /\ Stepped(r, t, pkt.hdr.epub, Fresh(p))
  <2>1. Decrypted(s, q, pkt, Fresh(p), d)
    BY <1>2, <1>4, DecryptMessageShape
  <2> HIDE DEF d, s, q
  <2> QED
    BY <2>1 DEF Decrypted
<1>6. /\ session' = [session EXCEPT ![p] = d.session]
      /\ Generated(p, IF t.DHsLocal = r.DHsLocal THEN 0 ELSE 1)
      /\ IF d.result = "ok"
         THEN /\ delivered' = [delivered EXCEPT ![p] = Append(@, pkt.body.text)]
              /\ opened' = [opened EXCEPT ![p] = @ \cup {pkt.body.mk}]
         ELSE UNCHANGED <<delivered, opened>>
  BY DEF ReceiveData
<1> HIDE DEF d
<1>7. session'[p] = d.session /\ session' = [session EXCEPT ![p] = session'[p]]
  BY <1>1, <1>6 DEF PairType
<1>8. d.session.isEstablished = TRUE
  BY <1>5 DEF Ready, Sessions
<1>9. Advanced(r, t) => t.DHsLocal = r.DHsLocal
  BY DEF Advanced
<1>10. Stepped(r, t, pkt.hdr.epub, Fresh(p)) => t.DHsLocal # r.DHsLocal
  <2>1. r.DHsLocal \in KeysOf(p)
    BY <1>1, <1>3 DEF PeerInv, KeysOwned
  <2> QED
    BY <1>1, <2>1, FreshIsNew DEF Stepped
<1>11. CASE d.result # "ok" /\ t = r
  BY <1>5, <1>6, <1>7, <1>8, <1>11 DEF Received, Quiet, OpenedWith
<1>12. CASE /\ r.CKr # NoChain
            /\ d.result = "ok" => pkt.body.mk = r.CKr
            /\ Advanced(r, t)
  BY <1>5, <1>6, <1>7, <1>8, <1>9, <1>12 DEF Received, Quiet, OpenedWith
<1>13. CASE /\ r.DHrPeer # pkt.hdr.epub
            /\ d.result = "ok" => pkt.body.mk = NewChain(r, pkt.hdr.epub)
            /\ Stepped(r, t, pkt.hdr.epub, Fresh(p))
  BY <1>5, <1>6, <1>7, <1>8, <1>10, <1>13 DEF Received, Quiet, OpenedWith
<1> QED
  BY <1>5, <1>11, <1>12, <1>13

\* The types of the peers' variables survive a round of the receive loop.
LEMMA ReceiveType ==
  ASSUME PairInv, NEW p \in Peers, NEW pkt, FromWire(p, pkt), ReceiveData(p, pkt)
  PROVE  PairType'
<1>1. PairType
  BY DEF PairInv
<1>2. session' \in [Peers -> Sessions]
  BY <1>1, ReceiveShape DEF Received, PairType
<1>3. nkeys' \in [Peers -> Nat]
  <2>1. PICK n \in {0, 1} : Generated(p, n)
    BY ReceiveShape DEF Received
  <2> QED
    BY <1>1, <2>1, GeneratedOne
<1>4. opened' \in [Peers -> SUBSET Chains] /\ delivered' \in [Peers -> Seq(AnyKey \cup Nat)]
  <2>1. \/ delivered' = delivered /\ opened' = opened
        \/ /\ delivered' = [delivered EXCEPT ![p] = Append(@, pkt.body.text)]
           /\ opened' = [opened EXCEPT ![p] = @ \cup {pkt.body.mk}]
    BY ReceiveShape DEF Received, Quiet, OpenedWith
  <2>2. pkt.body.mk \in Chains /\ pkt.body.text \in AnyKey \cup Nat
    BY DEF FromWire, Packets, Bodies
  <2>3. opened \in [Peers -> SUBSET Chains] /\ delivered \in [Peers -> Seq(AnyKey \cup Nat)]
    BY <1>1 DEF PairType
  <2>4. Append(delivered[p], pkt.body.text) \in Seq(AnyKey \cup Nat)
    BY <2>2, <2>3
  <2> QED
    BY <2>1, <2>2, <2>3, <2>4
<1> QED
  BY <1>1, <1>2, <1>3, <1>4 DEF PairType, ReceiveData

LEMMA WireTyped ==
  ASSUME PairType, NEW q \in Peers, NEW j \in DOMAIN wire[q]
  PROVE  /\ wire[q][j] \in Packets
         /\ wire[q][j].body.mk \in Chains /\ wire[q][j].hdr.epub \in AnyKey
<1>1. wire[q] \in Seq(Packets)
  BY DEF PairType
<1>2. wire[q][j] \in Packets
  BY <1>1
<1> QED
  BY <1>2 DEF Packets, Bodies, Headers

\* The receiving chain moved past the key, or nothing was opened.
LEMMA OpenedStaysBehind ==
  ASSUME PairInv, PairType', NEW p \in Peers, NEW pkt, FromWire(p, pkt),
         wire' = wire, NEW mk \in Chains,
         Quiet(p) \/ OpenedWith(p, pkt, mk),
         Before(mk, session'[p].ratchet.CKr), mk # NoChain,
         \A x \in Chains : Before(x, session[p].ratchet.CKr)
                              => Before(x, session'[p].ratchet.CKr),
         Len(mk.root) % 2 = Parity(Other(p))
  PROVE  OpenedBehind(p)'
<1> DEFINE q == Other(p)
<1>1. PairType /\ OpenedBehind(p) /\ WireInOrder(q) /\ q \in Peers
  BY PeerFacts DEF PairInv, PeerInv
<1>2. /\ wire[q] \in Seq(Packets) /\ opened[p] \subseteq Chains
      /\ delivered[p] \in Seq(AnyKey \cup Nat)
  BY <1>1 DEF PairType
<1>3. \A j \in DOMAIN wire[q] : wire[q][j].body.mk \in Chains
  BY <1>1, WireTyped
<1>4. \A y \in opened'[p] :
        Before(y, session'[p].ratchet.CKr) /\ Len(y.root) % 2 = Parity(q)
  <2>1. opened'[p] \subseteq opened[p] \cup {mk}
    BY <1>1 DEF PairType, Quiet, OpenedWith
  <2> QED
    BY <1>1, <1>2, <2>1 DEF OpenedBehind
<1>5. ASSUME NEW i \in DOMAIN delivered[p]
      PROVE  \E j \in DOMAIN wire[q] :
                /\ wire[q][j].hdr.type = "data"
                /\ wire[q][j].body.text = delivered[p][i]
                /\ Before(wire[q][j].body.mk, session'[p].ratchet.CKr)
  BY <1>1, <1>3, <1>5 DEF OpenedBehind
<1>6. CASE Quiet(p)
  BY <1>4, <1>5, <1>6 DEF Quiet, OpenedBehind
<1>7. CASE OpenedWith(p, pkt, mk)
  <2>1. delivered'[p] = Append(delivered[p], pkt.body.text)
    BY <1>1, <1>7 DEF OpenedWith, PairType
  <2>2. PICK j \in DOMAIN wire[q] :
            pkt.body = wire[q][j].body /\ pkt.hdr.type = wire[q][j].hdr.type
    BY DEF FromWire
  <2>3. wire[q][j].body.mk = mk /\ wire[q][j].hdr.type = "data"
    BY <1>1, <1>7, <2>2 DEF OpenedWith, WireInOrder
  <2>4. ASSUME NEW i \in DOMAIN delivered'[p]
        PROVE  \E k \in DOMAIN wire[q] :
                /\ wire[q][k].hdr.type = "data"
                /\ wire[q][k].body.text = delivered'[p][i]
                /\ Before(wire[q][k].body.mk, session'[p].ratchet.CKr)
    <3>1. CASE i \in DOMAIN delivered[p]
      <4>1. delivered'[p][i] = delivered[p][i]
        BY <1>2, <2>1, <3>1
      <4> QED
        BY <1>5, <3>1, <4>1
    <3>2. CASE i \notin DOMAIN delivered[p]
      <4>1. delivered'[p][i] = pkt.body.text
        BY <1>2, <2>1, <2>4, <3>2
      <4> QED
        BY <2>2, <2>3, <4>1
    <3> QED
      BY <3>1, <3>2
  <2> QED
    BY <1>4, <2>4 DEF OpenedBehind
<1> QED
  BY <1>6, <1>7

\* What the type and shape of a peer's ratchet say about lengths.
LEMMA RatchetFacts ==
  ASSUME PairType, NEW p \in Peers, Opens(p), phase[p] = "open"
  PROVE  LET r == session[p].ratchet
         IN  /\ session[p] \in Sessions /\ r \in Ratchets /\ Shaped(r)
             /\ r.RK \in RootKeys /\ r.CKs \in Chains /\ r.CKr \in Chains
             /\ r.DHsLocal \in AnyKey /\ r.DHrPeer \in AnyKey
             /\ Len(r.RK) \in Nat /\ Len(r.RK) > 0 /\ Len(r.RK) % 2 = Parity(p)
             /\ Len(r.CKr.root) < Len(r.RK)
             /\ r.CKr # NoChain => Len(r.CKr.root) % 2 = Parity(Other(p))
<1> DEFINE r == session[p].ratchet
<1>1. session[p] \in Sessions
  BY DEF PairType
<1>2. r \in Ratchets
  BY <1>1 DEF Sessions
<1>3. /\ r.RK \in RootKeys /\ r.CKs \in Chains /\ r.CKr \in Chains
      /\ r.DHsLocal \in AnyKey /\ r.DHrPeer \in AnyKey
  BY <1>2 DEF Ratchets
<1>4. Shaped(r) /\ Len(r.RK) % 2 = Parity(p)
  BY DEF Opens
<1>5. Len(r.RK) \in Nat /\ Len(r.RK) > 0
  BY <1>3, <1>4 DEF RootKeys, Shaped
<1>6. Len(r.CKr.root) < Len(r.RK)
  BY <1>4, <1>5, NoChainType DEF Shaped
<1>7. r.CKr # NoChain => Len(r.CKr.root) % 2 = Parity(Other(p))
  <2>1. r.CKr # NoChain => Len(r.CKr.root) = Len(r.RK) - 1
    BY <1>4 DEF Shaped
  <2>2. Parity(p) \in {0, 1} /\ Parity(Other(p)) = 1 - Parity(p)
    BY PeerFacts
  <2>3. (Len(r.RK) - 1) % 2 = 1 - Parity(p)
    BY <1>4, <1>5, <2>2, ParityAlternates
  <2> QED
    BY <2>1, <2>2, <2>3
<1> QED
  BY <1>1, <1>2, <1>3, <1>4, <1>5, <1>6, <1>7

\* One round of the receive loop keeps the invariant of the peer that runs it.
LEMMA ReceiverInv ==
  ASSUME PairInv, NEW p \in Peers, NEW pkt, FromWire(p, pkt), ReceiveData(p, pkt)
  PROVE  PeerInv(p)'
<1> DEFINE s == session[p]
           r == session[p].ratchet
           t == session'[p].ratchet
           q == Other(p)
           epub == pkt.hdr.epub
<1>1. PairType /\ PeerInv(p) /\ PeerInv(q) /\ q \in Peers
  BY PeerFacts DEF PairInv
<1>2. PairType'
  BY ReceiveType
<1>3. phase[p] = "open" /\ phase' = phase /\ wire' = wire /\ sealed' = sealed /\ stolen' = stolen
  BY DEF ReceiveData
<1>4. /\ s \in Sessions /\ r \in Ratchets /\ Shaped(r)
      /\ r.RK \in RootKeys /\ r.CKs \in Chains /\ r.CKr \in Chains
      /\ r.DHsLocal \in AnyKey /\ r.DHrPeer \in AnyKey
      /\ Len(r.RK) \in Nat /\ Len(r.RK) > 0 /\ Len(r.RK) % 2 = Parity(p)
      /\ Len(r.CKr.root) < Len(r.RK)
      /\ r.CKr # NoChain => Len(r.CKr.root) % 2 = Parity(q)
  <2>1. Opens(p)
    BY <1>1 DEF PeerInv
  <2> QED
    BY <1>1, <1>3, <2>1, RatchetFacts
<1>5. Received(p, pkt)
  BY ReceiveShape
<1>6. PICK n \in {0, 1} : /\ Generated(p, n)
                          /\ n = 0 => t = r \/ Advanced(r, t)
                          /\ n = 1 => Stepped(r, t, epub, Fresh(p))
  BY <1>5 DEF Received
<1>7. /\ \A y \in Peers : KeysOf(y) \subseteq KeysOf(y)'
      /\ n = 1 => Fresh(p) \in KeysOf(p)'
  BY <1>1, <1>6, GeneratedOne
<1>8. /\ session'[p] \in Sessions /\ session'[p].isEstablished = TRUE
      /\ session'[p].outSequence = s.outSequence
  BY <1>5 DEF Received
\* A round that leaves the sending chain alone.
<1>9. ASSUME t.CKs = r.CKs, t.RK = r.RK, t.DHsLocal = r.DHsLocal, t.DHrPeer = r.DHrPeer,
             t.CKr = r.CKr \/ (r.CKr # NoChain /\ t.CKr.root = r.CKr.root),
             OpenedBehind(p)'
      PROVE  PeerInv(p)'
  <2>1. Opens(p)'
    <3>1. Shaped(t)
      <4>1. r.CKr # NoChain => r.CKs # NoChain /\ t.CKs # NoChain
        BY <1>4, <1>9 DEF Shaped
      <4> QED
        BY <1>4, <1>9, <4>1 DEF Shaped
    <3>2. Len(t.RK) % 2 = Parity(p)
      BY <1>4, <1>9
    <3> QED
      BY <1>3, <1>8, <3>1, <3>2 DEF Opens
  <2>2. SealedInOrder(p)'
    BY <1>1, <1>3, <1>9 DEF PeerInv, SealedInOrder
  <2>3. WireInOrder(p)'
    BY <1>1, <1>3, <1>7, <1>8, <1>9 DEF PeerInv, WireInOrder
  <2>4. KeysOwned(p)'
    <3>1. KeysOf(p) \subseteq KeysOf(p)' /\ KeysOf(q) \subseteq KeysOf(q)'
      BY <1>1, <1>7
    <3>2. KeysOwned(p)
      BY <1>1 DEF PeerInv
    <3> QED
      BY <1>3, <1>9, <3>1, <3>2 DEF KeysOwned
  <2>5. CopyIsOld(p)'
    BY <1>1, <1>3, <1>7, <1>9 DEF PeerInv, CopyIsOld
  <2> QED
    BY <1>9, <2>1, <2>2, <2>3, <2>4, <2>5 DEF PeerInv
<1>10. CASE t = r /\ Quiet(p)
  <2>1. OpenedBehind(p)'
    BY <1>1, <1>3, <1>10 DEF PeerInv, OpenedBehind, Quiet
  <2> QED
    BY <1>9, <1>10, <2>1
<1>11. CASE /\ r.CKr # NoChain /\ Advanced(r, t)
            /\ Quiet(p) \/ OpenedWith(p, pkt, r.CKr)
  <2>1. t.CKr = [root |-> r.CKr.root, step |-> r.CKr.step + 1] /\ r.CKr.step \in Nat
        /\ Len(r.CKr.root) \in Nat
    BY <1>4, <1>11 DEF Advanced, Chains, RootKeys
  <2>2. t.CKr.root = r.CKr.root /\ t.CKr.step = r.CKr.step + 1
    BY <2>1
  <2>3. Before(r.CKr, t.CKr)
    BY <2>1, <2>2 DEF Before
  <2>4. t.CKr \in Chains
    BY <1>8 DEF Sessions, Ratchets
  <2>5. \A x \in Chains : Before(x, r.CKr) => Before(x, t.CKr)
    BY <1>4, <2>3, <2>4, BeforeIsOrder
  <2>6. OpenedBehind(p)'
    BY <1>2, <1>3, <1>4, <1>11, <2>3, <2>5, OpenedStaysBehind
  <2> QED
    BY <1>9, <1>11, <2>2, <2>6 DEF Advanced
<1>12. CASE /\ r.DHrPeer # epub /\ Stepped(r, t, epub, Fresh(p)) /\ Generated(p, 1)
            /\ Quiet(p) \/ OpenedWith(p, pkt, NewChain(r, epub))
  <2> DEFINE rk == NewChain(r, epub).root
             mk == NewChain(r, epub)
  <2>1. /\ epub \in AnyKey /\ epub \in KeysOf(q) /\ Fresh(p) \in AnyKey
        /\ Fresh(p) \notin KeysOf(p) /\ Fresh(p) \in KeysOf(p)'
    <3>1. epub \in AnyKey
      BY DEF FromWire, Packets, Headers
    <3>2. epub \in KeysOf(q)
      BY <1>1 DEF FromWire, PeerInv, WireInOrder
    <3>3. 1 \in {0, 1}
      OBVIOUS
    <3>4. Fresh(p) \in KeysOf(p)'
      BY <1>1, <1>12, <3>3, GeneratedOne
    <3> QED
      BY <1>1, <3>1, <3>2, <3>4, FreshIsNew
  <2>2. /\ rk \in RootKeys /\ Len(rk) = Len(r.RK) + 1 /\ rk # <<>>
        /\ mk = [root |-> rk, step |-> 0]
    BY <1>4, <2>1, RootGrows DEF NewChain
  <2> HIDE DEF rk
  <2>3. mk \in Chains /\ mk.root = rk /\ mk.step = 0 /\ mk # NoChain
    BY <2>2 DEF Chains, NoChain
  <2> HIDE DEF mk
  <2>4. /\ t.CKr = [root |-> rk, step |-> 1]
        /\ t.RK = Append(rk, ComputeECDHSharedSecret(Fresh(p), epub))
        /\ t.CKs = [root |-> t.RK, step |-> 0]
        /\ t.DHsLocal = Fresh(p) /\ t.DHrPeer = epub
    BY <1>12 DEF Stepped, rk
  <2>5. /\ t.RK \in RootKeys /\ Len(t.RK) = Len(r.RK) + 1 + 1 /\ t.RK # <<>>
        /\ t.RK[Len(t.RK)] = ComputeECDHSharedSecret(Fresh(p), epub)
    <3> DEFINE new == Append(rk, ComputeECDHSharedSecret(Fresh(p), epub))
    <3>1. /\ new \in RootKeys /\ Len(new) = Len(rk) + 1 /\ new # <<>>
          /\ new[Len(rk) + 1] = ComputeECDHSharedSecret(Fresh(p), epub)
      BY <2>1, <2>2, RootGrows
    <3>2. t.RK = new
      BY <2>4
    <3> HIDE DEF new
    <3> QED
      BY <2>2, <3>1, <3>2
  <2>6. t.CKr.root = rk /\ t.CKr.step = 1 /\ t.CKs.root = t.RK /\ t.CKs # NoChain
        /\ t.CKr \in Chains /\ t.CKs \in Chains
    BY <2>2, <2>4, <2>5 DEF NoChain, Chains
  <2>7. Len(rk) % 2 = Parity(q) /\ Len(t.RK) % 2 = Parity(p)
    <3>1. Parity(p) \in {0, 1} /\ Parity(q) = 1 - Parity(p)
      BY PeerFacts
    <3>2. Len(r.RK) \in Nat /\ Len(r.RK) % 2 = Parity(p)
      BY <1>4
    <3>3. (Len(r.RK) + 1) % 2 = 1 - Parity(p) /\ (Len(r.RK) + 1 + 1) % 2 = Parity(p)
      BY <3>1, <3>2, ParityAlternates
    <3> QED
      BY <2>2, <2>5, <3>1, <3>3
  <2>8. Opens(p)'
    <3>1. Shaped(t)
      BY <1>4, <2>2, <2>5, <2>6 DEF Shaped
    <3> QED
      BY <1>3, <1>8, <2>7, <3>1 DEF Opens
  <2>9. ASSUME NEW x \in Chains, Before(x, r.CKs) PROVE Before(x, t.CKs)
    <3>1. Len(r.CKs.root) <= Len(r.RK)
      BY <1>4, NoChainType DEF Shaped
    <3>2. Len(x.root) \in Nat /\ Len(r.CKs.root) \in Nat
      BY <1>4 DEF Chains, RootKeys
    <3>3. Len(t.CKs.root) = Len(r.RK) + 1 + 1
      BY <2>5, <2>6
    <3>4. Len(x.root) <= Len(r.CKs.root)
      BY <2>9, <3>2 DEF Before
    <3>5. Len(r.RK) \in Nat
      BY <1>4
    <3>6. Len(x.root) < Len(t.CKs.root)
      <4> DEFINE a == Len(x.root)
                 b == Len(r.CKs.root)
                 c == Len(r.RK)
      <4>1. a \in Nat /\ b \in Nat /\ c \in Nat /\ a <= b /\ b <= c
        BY <3>1, <3>2, <3>4, <3>5
      <4> HIDE DEF a, b, c
      <4>2. a < c + 1 + 1
        BY <4>1
      <4> QED
        BY <3>3, <4>2 DEF a, c
    <3> QED
      BY <3>6 DEF Before
  <2>10. SealedInOrder(p)'
    <3>1. SealedInOrder(p) /\ sealed[p] \in Seq(Chains)
      BY <1>1 DEF PeerInv, PairType
    <3>2. \A i \in DOMAIN sealed[p] : sealed[p][i] \in Chains
      BY <3>1
    <3> QED
      BY <1>3, <2>9, <3>1, <3>2 DEF SealedInOrder
  <2>11. WireInOrder(p)'
    <3>1. \A i \in DOMAIN wire[p] : wire[p][i].body.mk \in Chains
      BY <1>1, WireTyped
    <3>2. WireInOrder(p) /\ KeysOf(p) \subseteq KeysOf(p)'
      BY <1>1, <1>7 DEF PeerInv
    <3> QED
      BY <1>3, <1>8, <2>9, <3>1, <3>2 DEF WireInOrder
  <2>12. OpenedBehind(p)'
    <3>1. Before(mk, t.CKr)
      BY <2>2, <2>3, <2>6 DEF Before
    <3>2. ASSUME NEW x \in Chains, Before(x, r.CKr) PROVE Before(x, t.CKr)
      <4>1. Len(x.root) \in Nat /\ Len(r.CKr.root) \in Nat
        BY <1>4 DEF Chains, RootKeys
      <4>2. Len(t.CKr.root) = Len(r.RK) + 1
        BY <2>2, <2>6
      <4>3. Len(x.root) <= Len(r.CKr.root)
        BY <3>2, <4>1 DEF Before
      <4>4. Len(r.RK) \in Nat /\ Len(r.CKr.root) < Len(r.RK)
        BY <1>4
      <4>5. Len(x.root) < Len(t.CKr.root)
        BY <4>1, <4>2, <4>3, <4>4
      <4> QED
        BY <4>5 DEF Before
    <3>3. Quiet(p) \/ OpenedWith(p, pkt, mk)
      BY <1>12 DEF mk
    <3>4. Len(mk.root) % 2 = Parity(q)
      BY <2>3, <2>7
    <3> QED
      BY <1>2, <1>3, <2>3, <3>1, <3>2, <3>3, <3>4, OpenedStaysBehind
  <2>13. KeysOwned(p)'
    <3>1. epub \in KeysOf(q)'
      BY <1>1, <1>7, <2>1
    <3> QED
      BY <2>1, <2>4, <2>5, <3>1 DEF KeysOwned
  <2>14. CopyIsOld(p)'
    <3>1. CopyIsOld(p) /\ KeysOf(p) \subseteq KeysOf(p)'
      BY <1>1, <1>7 DEF PeerInv
    <3> QED
      BY <1>3, <2>1, <2>4, <3>1 DEF CopyIsOld
  <2> QED
    BY <2>8, <2>10, <2>11, <2>12, <2>13, <2>14 DEF PeerInv
<1> QED
  BY <1>5, <1>10, <1>11, <1>12 DEF Received

\* One round of the receive loop keeps the invariant of both peers.
LEMMA ReceiveDataInv ==
  ASSUME PairInv, NEW p \in Peers, NEW pkt, FromWire(p, pkt), ReceiveData(p, pkt)
  PROVE  PairInv'
<1> DEFINE q == Other(p)
<1>1. PairType /\ PeerInv(q) /\ q \in Peers /\ q # p
  BY PeerFacts DEF PairInv
<1>2. PairType'
  BY ReceiveType
<1>3. PICK n \in {0, 1} : Generated(p, n)
  BY ReceiveShape DEF Received
<1>4. \A x \in Peers : KeysOf(x) \subseteq KeysOf(x)'
  BY <1>1, <1>3, GeneratedOne
<1>5. /\ session'[q] = session[q] /\ opened'[q] = opened[q] /\ delivered'[q] = delivered[q]
  <2>1. session' = [session EXCEPT ![p] = session'[p]]
    BY ReceiveShape DEF Received
  <2>2. \/ delivered' = delivered /\ opened' = opened
        \/ /\ delivered' = [delivered EXCEPT ![p] = Append(@, pkt.body.text)]
           /\ opened' = [opened EXCEPT ![p] = @ \cup {pkt.body.mk}]
    BY ReceiveShape DEF Received, Quiet, OpenedWith
  <2>3. DOMAIN session = Peers /\ DOMAIN delivered = Peers /\ DOMAIN opened = Peers
    BY <1>1 DEF PairType
  <2>4. session'[q] = session[q]
    BY <1>1, <2>1, <2>3
  <2>5. opened'[q] = opened[q] /\ delivered'[q] = delivered[q]
    BY <1>1, <2>2, <2>3
  <2> QED
    BY <2>4, <2>5
<1>6. Continues(wire[Other(q)], wire'[Other(q)])
  BY DEF Continues, ReceiveData
<1>7. PeerInv(q)'
  BY <1>1, <1>4, <1>5, <1>6, PeerFrame DEF ReceiveData
<1>8. PeerInv(p)'
  BY ReceiverInv
<1> QED
  BY <1>2, <1>7, <1>8, PeerFacts DEF PairInv

\* EncryptMessage is refused or finds a sending chain.
NextPacket(p) == EncryptMessage(session[p], p, session[p].outSequence + 1, Fresh(p)).pkt

Sealing(p, pkt) ==
    LET r == session[p].ratchet
        t == session'[p].ratchet
    IN  /\ r.CKs # NoChain /\ pkt \in Packets
        /\ session'[p] \in Sessions
        /\ session' = [session EXCEPT ![p] = session'[p]]
        /\ session'[p].isEstablished = session[p].isEstablished
        /\ session'[p].replayWin = session[p].replayWin
        /\ session'[p].outSequence = session[p].outSequence + 1
        /\ t.CKs = [root |-> r.CKs.root, step |-> r.CKs.step + 1]
        /\ t.RK = r.RK /\ t.CKr = r.CKr
        /\ t.DHsLocal = r.DHsLocal /\ t.DHrPeer = r.DHrPeer
        /\ nkeys' = nkeys
        /\ pkt.hdr.type = "data" /\ pkt.hdr.seq = session[p].outSequence + 1
        /\ pkt.hdr.epub = r.DHsLocal
        /\ pkt.body.mk = r.CKs /\ pkt.body.text = session[p].outSequence + 1
        /\ pkt.body.aad = pkt.hdr /\ VerifySignature(p, pkt)

LEMMA SealShape ==
  ASSUME PairInv, NEW p \in Peers, NEW reaches, Seal(p, reaches)
  PROVE  Sealing(p, NextPacket(p))
<1> DEFINE s == session[p]
           r == session[p].ratchet
           e == EncryptMessage(s, p, s.outSequence + 1, Fresh(p))
<1>1. PairType /\ Opens(p) /\ phase[p] = "open"
  BY DEF PairInv, PeerInv, Seal
<1>2. s \in Sessions /\ r \in Ratchets /\ Shaped(r)
  BY <1>1, RatchetFacts
<1>3. r.CKs # NoChain
  <2>1. CanEncrypt(r)
    BY DEF Seal, EncryptRefused
  <2> QED
    BY <1>2, <2>1 DEF CanEncrypt, Shaped
<1>4. /\ e.session \in Sessions /\ e.pkt \in Packets
      /\ e.session.ratchet = RatchetEncrypt(r, Fresh(p)).ratchet
      /\ e.session.outSequence = s.outSequence + 1
      /\ e.session.isEstablished = s.isEstablished
      /\ e.session.replayWin = s.replayWin
      /\ e.pkt.hdr.type = "data" /\ e.pkt.hdr.seq = s.outSequence + 1
      /\ e.pkt.hdr.epub = r.DHsLocal
      /\ e.pkt.body.mk = r.CKs /\ e.pkt.body.text = s.outSequence + 1
      /\ e.pkt.body.aad = e.pkt.hdr
      /\ VerifySignature(p, e.pkt)
  <2>1. Encrypted(s, p, Fresh(p), e)
    BY <1>2, <1>3, EncryptMessageShape
  <2> HIDE DEF e
  <2> QED
    BY <2>1 DEF Encrypted
<1>5. session' = [session EXCEPT ![p] = e.session] /\ Generated(p, 0)
  BY <1>3 DEF Seal
<1>6. nkeys' = nkeys
  <2>1. nkeys \in [Peers -> Nat]
    BY <1>1 DEF PairType
  <2> QED
    BY <1>5, <2>1 DEF Generated
<1> HIDE DEF e
<1>7. session'[p] = e.session /\ session' = [session EXCEPT ![p] = session'[p]]
  BY <1>1, <1>5 DEF PairType
<1> DEFINE t == RatchetEncrypt(r, Fresh(p)).ratchet
<1>8. /\ t.CKs = [root |-> r.CKs.root, step |-> r.CKs.step + 1]
      /\ t.RK = r.RK /\ t.CKr = r.CKr
      /\ t.DHsLocal = r.DHsLocal /\ t.DHrPeer = r.DHrPeer
  BY <1>2, <1>3, EncryptShape
<1> HIDE DEF t
<1>9. session'[p].ratchet = t
  BY <1>4, <1>7 DEF t
<1> QED
  BY <1>3, <1>4, <1>6, <1>7, <1>8, <1>9 DEF Sealing, NextPacket, e

\* Sealing keeps the invariant, whether or not the packet reaches the wire.
LEMMA SealInv ==
  ASSUME PairInv, NEW p \in Peers, NEW reaches \in BOOLEAN, Seal(p, reaches)
  PROVE  PairInv'
<1> DEFINE s == session[p]
           r == session[p].ratchet
           t == session'[p].ratchet
           q == Other(p)
           pkt == NextPacket(p)
<1>1. PairType /\ PeerInv(p) /\ PeerInv(q) /\ q \in Peers /\ q # p /\ Other(q) = p
  BY PeerFacts DEF PairInv
<1>2. Sealing(p, pkt)
  BY SealShape
<1>3. /\ phase[p] = "open" /\ phase' = phase /\ ephPriv' = ephPriv /\ opened' = opened
      /\ delivered' = delivered /\ stolen' = stolen
      /\ sealed' = [sealed EXCEPT ![p] = Append(@, pkt.body.mk)]
      /\ \/ wire' = [wire EXCEPT ![p] = Append(@, pkt)] /\ lost' = lost
         \/ lost' = [lost EXCEPT ![p] = @ \cup {pkt.body.mk}] /\ wire' = wire
  BY DEF Seal, NextPacket
<1> HIDE DEF pkt
<1>4. /\ pkt \in Packets /\ pkt.body.mk = r.CKs /\ pkt.body.text = s.outSequence + 1
      /\ pkt.hdr.type = "data" /\ pkt.hdr.epub = r.DHsLocal
      /\ r.CKs # NoChain /\ nkeys' = nkeys
      /\ session'[p] \in Sessions /\ session' = [session EXCEPT ![p] = session'[p]]
      /\ session'[p].isEstablished = s.isEstablished
      /\ session'[p].outSequence = s.outSequence + 1
  BY <1>2 DEF Sealing
<1>5. /\ t.CKs = [root |-> r.CKs.root, step |-> r.CKs.step + 1]
      /\ t.RK = r.RK /\ t.CKr = r.CKr
      /\ t.DHsLocal = r.DHsLocal /\ t.DHrPeer = r.DHrPeer
  BY <1>2 DEF Sealing
<1>6. /\ s \in Sessions /\ r \in Ratchets /\ Shaped(r)
      /\ r.RK \in RootKeys /\ r.CKs \in Chains
      /\ Len(r.RK) \in Nat /\ Len(r.RK) % 2 = Parity(p)
  <2>1. Opens(p)
    BY <1>1 DEF PeerInv
  <2> QED
    BY <1>1, <1>3, <2>1, RatchetFacts
<1>7. r.CKs.step \in Nat /\ r.CKs.root = r.RK /\ s.outSequence \in Nat
  BY <1>4, <1>6 DEF Shaped, Chains, Sessions
<1>8. t.CKs.root = r.CKs.root /\ t.CKs.step = r.CKs.step + 1 /\ t.CKs # NoChain /\ t.CKs \in Chains
  BY <1>4, <1>5, <1>6, <1>7 DEF NoChain, Chains
<1>9. Before(r.CKs, t.CKs)
  BY <1>6, <1>7, <1>8 DEF Before
<1>10. \A x \in Chains : Before(x, r.CKs) => Before(x, t.CKs)
  BY <1>6, <1>8, <1>9, BeforeIsOrder
<1>11. /\ sealed[p] \in Seq(Chains) /\ sealed'[p] = Append(sealed[p], r.CKs)
       /\ wire[p] \in Seq(Packets)
       /\ wire'[p] = Append(wire[p], pkt) \/ wire'[p] = wire[p]
       /\ wire'[q] = wire[q] /\ sealed'[q] = sealed[q] /\ session'[q] = session[q]
  BY <1>1, <1>3, <1>4 DEF PairType
<1>12. PairType'
  <2>1. session' \in [Peers -> Sessions]
    BY <1>1, <1>4 DEF PairType
  <2>2. sealed' \in [Peers -> Seq(Chains)]
    <3>1. Append(sealed[p], r.CKs) \in Seq(Chains)
      BY <1>6, <1>11
    <3> QED
      BY <1>1, <1>3, <1>4, <3>1 DEF PairType
  <2>3. wire' \in [Peers -> Seq(Packets)]
    <3>1. Append(wire[p], pkt) \in Seq(Packets)
      BY <1>4, <1>11
    <3> QED
      BY <1>1, <1>3, <3>1 DEF PairType
  <2>4. lost' \in [Peers -> SUBSET Chains]
    <3>1. lost \in [Peers -> SUBSET Chains]
      BY <1>1 DEF PairType
    <3>2. lost[p] \cup {pkt.body.mk} \in SUBSET Chains
      BY <1>4, <1>6, <3>1
    <3> QED
      BY <1>3, <3>1, <3>2
  <2> QED
    BY <1>1, <1>3, <1>4, <2>1, <2>2, <2>3, <2>4 DEF PairType
<1>13. \A x \in Peers : KeysOf(x)' = KeysOf(x)
  BY <1>4 DEF KeysOf
<1>14. Opens(p)'
  <2>1. Shaped(t)
    BY <1>5, <1>6, <1>7, <1>8 DEF Shaped
  <2>2. Opens(p)
    BY <1>1 DEF PeerInv
  <2> QED
    BY <1>3, <1>4, <1>5, <1>6, <2>1, <2>2 DEF Opens
<1>15. SealedInOrder(p)'
  <2>1. SealedInOrder(p)
    BY <1>1 DEF PeerInv
  <2>2. \A i \in DOMAIN sealed[p] : sealed[p][i] \in Chains /\ Before(sealed[p][i], r.CKs)
    <3>1. \A i \in DOMAIN sealed[p] : sealed[p][i] \in Chains
      BY <1>11
    <3> QED
      BY <2>1, <3>1 DEF SealedInOrder
  <2>3. /\ DOMAIN sealed'[p] = 1 .. Len(sealed[p]) + 1 /\ DOMAIN sealed[p] = 1 .. Len(sealed[p])
        /\ Len(sealed[p]) \in Nat
        /\ \A i \in DOMAIN sealed[p] : sealed'[p][i] = sealed[p][i]
        /\ sealed'[p][Len(sealed[p]) + 1] = r.CKs
    BY <1>6, <1>11
  <2>4. ASSUME NEW i \in DOMAIN sealed'[p]
        PROVE  Before(sealed'[p][i], t.CKs) /\ Len(sealed'[p][i].root) % 2 = Parity(p)
    <3>1. CASE i \in DOMAIN sealed[p]
      BY <1>10, <2>1, <2>2, <2>3, <3>1 DEF SealedInOrder
    <3>2. CASE i = Len(sealed[p]) + 1
      BY <1>6, <1>7, <1>9, <2>3, <3>2
    <3>3. i \in 1 .. Len(sealed[p]) + 1
      BY <2>3, <2>4
    <3>4. i \in DOMAIN sealed[p] \/ i = Len(sealed[p]) + 1
      BY <2>3, <3>3
    <3> QED
      BY <3>1, <3>2, <3>4
  <2>5. ASSUME NEW i \in DOMAIN sealed'[p], NEW j \in DOMAIN sealed'[p], i < j
        PROVE  Before(sealed'[p][i], sealed'[p][j])
    <3>1. i \in DOMAIN sealed[p]
      BY <2>3, <2>5
    <3>2. CASE j \in DOMAIN sealed[p]
      BY <2>1, <2>3, <2>5, <3>1, <3>2 DEF SealedInOrder
    <3>3. CASE j = Len(sealed[p]) + 1
      BY <2>2, <2>3, <3>1, <3>3
    <3> QED
      BY <2>3, <2>5, <3>2, <3>3
  <2> QED
    BY <2>4, <2>5 DEF SealedInOrder
<1>16. WireInOrder(p)'
  <2>1. WireInOrder(p) /\ \A i \in DOMAIN wire[p] : wire[p][i].body.mk \in Chains
    BY <1>1, WireTyped DEF PeerInv
  <2>2. r.DHsLocal \in KeysOf(p)
    BY <1>1, <1>3 DEF PeerInv, KeysOwned
  <2>3. CASE wire'[p] = wire[p]
    <3>1. \A n \in 1 .. s.outSequence : n \in 1 .. session'[p].outSequence
      BY <1>4, <1>7
    <3> QED
      BY <1>10, <1>13, <2>1, <2>3, <3>1 DEF WireInOrder
  <2>4. CASE wire'[p] = Append(wire[p], pkt)
    <3> DEFINE w == wire'[p]
               n == Len(wire[p]) + 1
    <3>1. /\ DOMAIN w = 1 .. n /\ DOMAIN wire[p] = 1 .. Len(wire[p]) /\ Len(wire[p]) \in Nat
          /\ w[n] = pkt
      BY <1>4, <1>11, <2>4
    <3>2. \A i \in DOMAIN wire[p] : w[i] = wire[p][i]
      BY <1>4, <1>11, <2>4
    <3> HIDE DEF w
    <3>3. \A i \in DOMAIN w : i \in DOMAIN wire[p] \/ i = n
      BY <3>1
    <3> HIDE DEF n
    <3>4. ASSUME NEW i \in DOMAIN w
          PROVE  /\ w[i].hdr.epub \in KeysOf(p)
                 /\ w[i].hdr.type # "data" =>
                     w[i].body.mk = NoChain /\ w[i].body.text \in KeysOf(p)
                 /\ w[i].hdr.type = "data" =>
                     /\ Before(w[i].body.mk, t.CKs)
                     /\ w[i].body.text \in 1 .. session'[p].outSequence
      <4>1. CASE i \in DOMAIN wire[p]
        <5>1. \A m \in 1 .. s.outSequence : m \in 1 .. session'[p].outSequence
          BY <1>4, <1>7
        <5> QED
          BY <1>10, <2>1, <3>2, <4>1, <5>1 DEF WireInOrder
      <4>2. CASE i = n
        <5>1. s.outSequence + 1 \in 1 .. session'[p].outSequence
          BY <1>4, <1>7
        <5> QED
          BY <1>4, <1>9, <2>2, <3>1, <4>2, <5>1
      <4> QED
        BY <3>3, <3>4, <4>1, <4>2
    <3>5. ASSUME NEW i \in DOMAIN w, NEW j \in DOMAIN w,
                 w[i].hdr.type = "data", w[j].hdr.type = "data",
                 Before(w[i].body.mk, w[j].body.mk)
          PROVE  w[i].body.text < w[j].body.text
      <4>1. CASE i \in DOMAIN wire[p] /\ j \in DOMAIN wire[p]
        BY <2>1, <3>2, <3>5, <4>1 DEF WireInOrder
      <4>2. CASE i \in DOMAIN wire[p] /\ j = n
        <5>1. w[i].body.text \in 1 .. s.outSequence
          BY <2>1, <3>2, <3>5, <4>2 DEF WireInOrder
        <5>2. w[j].body.text = s.outSequence + 1
          BY <1>4, <3>1, <4>2
        <5> QED
          BY <1>7, <5>1, <5>2
      <4>3. CASE i = n /\ j \in DOMAIN wire[p]
        <5>1. Before(wire[p][j].body.mk, r.CKs) /\ wire[p][j].body.mk \in Chains
          BY <2>1, <3>2, <3>5, <4>3 DEF WireInOrder
        <5>2. Before(r.CKs, wire[p][j].body.mk)
          BY <1>4, <3>1, <3>2, <3>5, <4>3
        <5> QED
          BY <1>6, <5>1, <5>2, BeforeIsOrder
      <4>4. CASE i = n /\ j = n
        BY <1>4, <1>6, <3>1, <3>5, <4>4, BeforeIsOrder
      <4> QED
        BY <3>3, <3>5, <4>1, <4>2, <4>3, <4>4
    <3> QED
      BY <1>13, <3>4, <3>5 DEF WireInOrder, w
  <2> QED
    BY <1>11, <2>3, <2>4
<1>17. OpenedBehind(p)'
  <2>1. OpenedBehind(p)
    BY <1>1 DEF PeerInv
  <2>2. /\ wire'[Other(p)] = wire[Other(p)] /\ t.CKr = r.CKr
        /\ opened'[p] = opened[p] /\ delivered'[p] = delivered[p]
    BY <1>3, <1>5, <1>11
  <2>3. \A mk \in opened'[p] : Before(mk, t.CKr) /\ Len(mk.root) % 2 = Parity(Other(p))
    BY <2>1, <2>2 DEF OpenedBehind
  <2>4. \A i \in DOMAIN delivered'[p] : \E j \in DOMAIN wire'[Other(p)] :
          /\ wire'[Other(p)][j].hdr.type = "data"
          /\ wire'[Other(p)][j].body.text = delivered'[p][i]
          /\ Before(wire'[Other(p)][j].body.mk, t.CKr)
    BY <2>1, <2>2 DEF OpenedBehind
  <2> QED
    BY <2>3, <2>4 DEF OpenedBehind
<1>18. KeysOwned(p)'
  <2>1. KeysOwned(p) /\ KeysOf(q)' = KeysOf(q) /\ KeysOf(p)' = KeysOf(p)
    BY <1>1, <1>13 DEF PeerInv
  <2> QED
    BY <1>3, <1>4, <1>5, <2>1 DEF KeysOwned
<1>19. CopyIsOld(p)'
  BY <1>1, <1>3, <1>5, <1>13 DEF PeerInv, CopyIsOld
<1>20. PeerInv(q)'
  <2>1. Continues(wire[p], wire'[p])
    BY <1>4, <1>11 DEF Continues
  <2>2. phase'[q] = phase[q] /\ opened'[q] = opened[q] /\ delivered'[q] = delivered[q]
        /\ stolen'[q] = stolen[q]
    BY <1>3
  <2> QED
    BY <1>1, <1>11, <1>13, <2>1, <2>2, PeerFrame
<1>21. PeerInv(p)'
  BY <1>14, <1>15, <1>16, <1>17, <1>18, <1>19 DEF PeerInv
<1> QED
  BY <1>12, <1>20, <1>21, PeerFacts DEF PairInv

\* A refused EncryptMessage only takes a number.
LEMMA RefusedInv ==
  ASSUME PairInv, NEW p \in Peers, SendRefused(p)
  PROVE  PairInv'
<1> DEFINE s == session[p]
           q == Other(p)
<1>1. PairType /\ PeerInv(p) /\ PeerInv(q) /\ q \in Peers /\ q # p /\ Other(q) = p
  BY PeerFacts DEF PairInv
<1>2. /\ phase[p] = "open" /\ session' = [session EXCEPT ![p] = AfterRefusedEncrypt(s)]
      /\ phase' = phase /\ ephPriv' = ephPriv /\ nkeys' = nkeys /\ wire' = wire
      /\ sealed' = sealed /\ lost' = lost /\ opened' = opened /\ delivered' = delivered
      /\ stolen' = stolen
  BY DEF SendRefused, histVars
<1>3. s \in Sessions /\ s.outSequence \in Nat
  BY <1>1 DEF PairType, Sessions
<1>4. AfterRefusedEncrypt(s) \in Sessions /\ AfterRefusedEncrypt(s).ratchet = s.ratchet
      /\ AfterRefusedEncrypt(s).isEstablished = s.isEstablished
      /\ AfterRefusedEncrypt(s).outSequence \in {s.outSequence, s.outSequence + 1}
  BY <1>3 DEF AfterRefusedEncrypt, Sessions
<1>5. /\ session'[p] \in Sessions /\ session'[p].ratchet = s.ratchet
      /\ session'[p].isEstablished = s.isEstablished
      /\ \A n \in 1 .. s.outSequence : n \in 1 .. session'[p].outSequence
      /\ session'[q] = session[q]
  <2>1. session'[p] = AfterRefusedEncrypt(s) /\ session'[q] = session[q]
    BY <1>1, <1>2 DEF PairType
  <2> QED
    BY <1>3, <1>4, <2>1
<1>6. PairType'
  BY <1>1, <1>2, <1>4 DEF PairType
<1>7. \A x \in Peers : KeysOf(x)' = KeysOf(x)
  BY <1>2 DEF KeysOf
<1>8. PeerInv(q)'
  <2>1. Continues(wire[p], wire'[p])
    BY <1>2 DEF Continues
  <2> QED
    BY <1>1, <1>2, <1>5, <1>7, <2>1, PeerFrame
<1>9. Opens(p)'
  BY <1>1, <1>2, <1>5 DEF PeerInv, Opens
<1>10. SealedInOrder(p)'
  BY <1>1, <1>2, <1>5 DEF PeerInv, SealedInOrder
<1>11. WireInOrder(p)'
  BY <1>1, <1>2, <1>5, <1>7 DEF PeerInv, WireInOrder
<1>12. OpenedBehind(p)'
  BY <1>1, <1>2, <1>5 DEF PeerInv, OpenedBehind
<1>13. KeysOwned(p)'
  <2>1. KeysOwned(p) /\ KeysOf(q)' = KeysOf(q) /\ KeysOf(p)' = KeysOf(p)
    BY <1>1, <1>7 DEF PeerInv
  <2> QED
    BY <1>2, <1>5, <2>1 DEF KeysOwned
<1>14. CopyIsOld(p)'
  BY <1>1, <1>2, <1>5, <1>7 DEF PeerInv, CopyIsOld
<1> QED
  BY <1>6, <1>8, <1>9, <1>10, <1>11, <1>12, <1>13, <1>14, PeerFacts DEF PairInv, PeerInv

\* A copy is taken of the state as it is.
LEMMA CompromiseInv ==
  ASSUME PairInv, NEW p \in Peers, Compromise(p)
  PROVE  PairInv'
<1> DEFINE q == Other(p)
<1>1. PairType /\ PeerInv(p) /\ PeerInv(q) /\ q \in Peers /\ q # p
  BY PeerFacts DEF PairInv
<1>2. /\ stolen' = [stolen EXCEPT ![p] = session[p].ratchet]
      /\ session' = session /\ phase' = phase /\ ephPriv' = ephPriv /\ nkeys' = nkeys
      /\ wire' = wire /\ sealed' = sealed /\ lost' = lost /\ opened' = opened
      /\ delivered' = delivered
  BY DEF Compromise, peerVars
<1>3. session[p] \in Sessions /\ session[p].ratchet \in Ratchets
  BY <1>1 DEF PairType, Sessions
<1>4. stolen'[p] = session[p].ratchet /\ stolen'[q] = stolen[q]
  BY <1>1, <1>2 DEF PairType
<1>5. PairType'
  BY <1>1, <1>2, <1>3 DEF PairType
<1>6. \A x \in Peers : KeysOf(x)' = KeysOf(x)
  BY <1>2 DEF KeysOf
<1>7. PeerInv(q)'
  <2>1. Continues(wire[Other(q)], wire'[Other(q)])
    BY <1>2 DEF Continues
  <2> QED
    BY <1>1, <1>2, <1>4, <1>6, <2>1, PeerFrame
<1>8. phase[p] = "open"
  BY <1>1, <1>3 DEF Compromise, PeerInv, Opens
<1>9. Opens(p)'
  BY <1>1, <1>2, <1>8 DEF PeerInv, Opens
<1>10. SealedInOrder(p)' /\ WireInOrder(p)' /\ OpenedBehind(p)'
  BY <1>1, <1>2, <1>6 DEF PeerInv, SealedInOrder, WireInOrder, OpenedBehind
<1>11. KeysOwned(p)'
  <2>1. KeysOwned(p) /\ KeysOf(q)' = KeysOf(q) /\ KeysOf(p)' = KeysOf(p)
    BY <1>1, <1>6 DEF PeerInv
  <2> QED
    BY <1>2, <2>1 DEF KeysOwned
<1>12. CopyIsOld(p)'
  <2>1. Shaped(session[p].ratchet) /\ Len(session[p].ratchet.RK) \in Nat
    BY <1>1, <1>8, RatchetFacts DEF PeerInv
  <2>2. session[p].ratchet.DHsLocal \in KeysOf(p)
    BY <1>1, <1>8 DEF PeerInv, KeysOwned
  <2> QED
    BY <1>1, <1>2, <1>4, <1>6, <2>1, <2>2 DEF CopyIsOld
<1> QED
  BY <1>5, <1>7, <1>9, <1>10, <1>11, <1>12, PeerFacts DEF PairInv, PeerInv

-----------------------------------------------------------------------------
\* The handshake.

\* Nothing but handshake packets, each with a key of its sender.
HandshakeOnly(p) ==
    \A i \in DOMAIN wire[p] :
        /\ wire[p][i].hdr.type # "data" /\ wire[p][i].hdr.epub \in KeysOf(p)
        /\ wire[p][i].body.mk = NoChain /\ wire[p][i].body.text \in KeysOf(p)

LEMMA KeysAreKeys == ASSUME PairType, NEW p \in Peers PROVE KeysOf(p) \subseteq AnyKey
<1>1. nkeys[p] \in Nat
  BY DEF PairType
<1> QED
  BY <1>1 DEF KeysOf, AnyKey

\* A peer that has not sent or received a message satisfies most of the invariant.
LEMMA UntouchedInv ==
  ASSUME NEW p \in Peers, HandshakeOnly(p)',
         sealed'[p] = <<>>, opened'[p] = {}, delivered'[p] = <<>>, stolen'[p] = NoRatchet,
         Opens(p)', KeysOwned(p)'
  PROVE  PeerInv(p)'
<1>1. DOMAIN sealed'[p] = {} /\ DOMAIN delivered'[p] = {}
  OBVIOUS
<1>2. SealedInOrder(p)'
  BY <1>1 DEF SealedInOrder
<1>3. WireInOrder(p)'
  BY DEF WireInOrder, HandshakeOnly
<1>4. OpenedBehind(p)'
  BY <1>1 DEF OpenedBehind
<1>5. CopyIsOld(p)'
  BY DEF CopyIsOld
<1> QED
  BY <1>2, <1>3, <1>4, <1>5 DEF PeerInv

LEMMA UntouchedFacts ==
  ASSUME PairInv, NEW p \in Peers, phase[p] # "open"
  PROVE  /\ session[p] = NewSession /\ sealed[p] = <<>> /\ opened[p] = {}
         /\ delivered[p] = <<>> /\ stolen[p] = NoRatchet /\ HandshakeOnly(p)
<1>1. Untouched(p) /\ WireInOrder(p)
  BY DEF PairInv, PeerInv, Opens
<1> QED
  BY <1>1 DEF Untouched, WireInOrder, HandshakeOnly

\* A handshake packet has its type, and its key twice.
LEMMA HandshakeTyped ==
  ASSUME NEW p \in Peers, NEW type \in {"init", "resp"}, NEW key \in AnyKey
  PROVE  LET pkt == HandshakePacket(p, type, key)
         IN  /\ pkt \in Packets /\ pkt.hdr.type = type /\ pkt.hdr.epub = key
             /\ pkt.body.mk = NoChain /\ pkt.body.text = key
<1> DEFINE hdr == [type |-> type, seq |-> 1, epub |-> key, sender |-> p]
           body == [mk |-> NoChain, aad |-> NoKey, text |-> key]
           pkt == [hdr |-> hdr, body |-> body,
                   sig |-> [signer |-> p, bytes |-> <<hdr, body>>]]
<1>1. HandshakePacket(p, type, key) = pkt
  BY DEF HandshakePacket, Packet, Header, HandshakePayload, Sign
<1>2. hdr \in Headers /\ hdr.type = type /\ hdr.epub = key
  BY DEF Headers
<1>3. body \in Bodies /\ body.mk = NoChain /\ body.text = key
  BY NoChainType DEF Bodies
<1> HIDE DEF hdr, body
<1>4. pkt \in Packets /\ pkt.hdr = hdr /\ pkt.body = body
  BY <1>2, <1>3 DEF Packets
<1> HIDE DEF pkt
<1> QED
  BY <1>1, <1>2, <1>3, <1>4

LEMMA HandshakeSent ==
  ASSUME PairType, NEW p \in Peers, HandshakeOnly(p), KeysOf(p) \subseteq KeysOf(p)',
         NEW type \in {"init", "resp"}, NEW key \in AnyKey, key \in KeysOf(p)',
         wire' = [wire EXCEPT ![p] = Append(@, HandshakePacket(p, type, key))]
  PROVE  HandshakeOnly(p)' /\ wire' \in [Peers -> Seq(Packets)]
         /\ Continues(wire[p], wire'[p])
<1> DEFINE pkt == HandshakePacket(p, type, key)
<1>1. /\ pkt \in Packets /\ pkt.hdr.type = type /\ pkt.hdr.epub = key
      /\ pkt.body.mk = NoChain /\ pkt.body.text = key
  BY HandshakeTyped
<1> HIDE DEF pkt
<1>2. wire \in [Peers -> Seq(Packets)] /\ wire[p] \in Seq(Packets)
  BY DEF PairType
<1>3. wire'[p] = Append(wire[p], pkt)
  BY <1>2 DEF pkt
<1>4. wire' \in [Peers -> Seq(Packets)]
  <2>1. Append(wire[p], pkt) \in Seq(Packets)
    BY <1>1, <1>2
  <2> QED
    BY <1>2, <2>1 DEF pkt
<1>5. /\ \A i \in DOMAIN wire'[p] : i \in DOMAIN wire[p] \/ wire'[p][i] = pkt
      /\ \A i \in DOMAIN wire[p] : i \in DOMAIN wire'[p] /\ wire'[p][i] = wire[p][i]
  BY <1>1, <1>2, <1>3
<1>6. type # "data"
  OBVIOUS
<1>7. ASSUME NEW i \in DOMAIN wire'[p]
      PROVE  /\ wire'[p][i].hdr.type # "data" /\ wire'[p][i].hdr.epub \in KeysOf(p)'
             /\ wire'[p][i].body.mk = NoChain /\ wire'[p][i].body.text \in KeysOf(p)'
  <2>1. CASE i \in DOMAIN wire[p]
    BY <1>5, <2>1 DEF HandshakeOnly
  <2>2. CASE wire'[p][i] = pkt
    BY <1>1, <1>6, <2>2
  <2> QED
    BY <1>5, <1>7, <2>1, <2>2
<1>8. HandshakeOnly(p)'
  BY <1>7 DEF HandshakeOnly
<1> QED
  BY <1>4, <1>5, <1>8 DEF Continues

LEMMA PairInitInv == PairInit => PairInv
<1> SUFFICES ASSUME PairInit PROVE PairInv
  OBVIOUS
<1>1. PairType
  BY NoRatchetType DEF PairInit, PairType, AnyKey
<1>2. ASSUME NEW p \in Peers PROVE PeerInv(p)
  <2>1. /\ session[p] = NewSession /\ sealed[p] = <<>> /\ opened[p] = {} /\ phase[p] \in Idle
        /\ delivered[p] = <<>> /\ stolen[p] = NoRatchet /\ wire[p] = <<>>
    BY DEF PairInit
  <2>2. DOMAIN wire[p] = {} /\ DOMAIN sealed[p] = {} /\ DOMAIN delivered[p] = {}
    BY <2>1
  <2>3. session[p].isEstablished = FALSE /\ session[p].ratchet.CKs = NoChain
    BY <2>1 DEF NewSession, NoRatchet, NewResponderRatchet
  <2>4. Opens(p)
    BY <2>1, <2>2, <2>3 DEF Opens, Untouched
  <2>5. SealedInOrder(p) /\ WireInOrder(p)
    BY <2>2 DEF SealedInOrder, WireInOrder
  <2>6. OpenedBehind(p) /\ CopyIsOld(p)
    BY <2>1, <2>2 DEF OpenedBehind, CopyIsOld
  <2>7. KeysOwned(p)
    BY <2>1, <2>3 DEF KeysOwned
  <2> QED
    BY <2>4, <2>5, <2>6, <2>7 DEF PeerInv
<1> QED
  BY <1>1, <1>2 DEF PairInv

\* The other peer sees more keys and more packets, and nothing else.
LEMMA OtherUntouched ==
  ASSUME PairInv, NEW p \in Peers, NEW q, q = Other(p),
         session'[q] = session[q], phase'[q] = phase[q], wire'[q] = wire[q],
         UNCHANGED histVars,
         \A x \in Peers : KeysOf(x) \subseteq KeysOf(x)',
         Continues(wire[p], wire'[p])
  PROVE  PeerInv(q)'
<1>1. PairType /\ PeerInv(q) /\ q \in Peers /\ Other(q) = p
  BY PeerFacts DEF PairInv
<1>2. /\ sealed'[q] = sealed[q] /\ opened'[q] = opened[q] /\ delivered'[q] = delivered[q]
      /\ stolen'[q] = stolen[q]
  BY DEF histVars
<1> QED
  BY <1>1, <1>2, PeerFrame

\* handleSend up to its wait for the response.
LEMMA ConnectInv == ASSUME PairInv, Connect PROVE PairInv'
<1>1. PairType /\ Alice \in Peers /\ Bob \in Peers /\ Other(Alice) = Bob /\ Alice # Bob
  BY PeersAssumption DEF PairInv, Peers, Other
<1>2. /\ phase[Alice] = "idle" /\ phase' = [phase EXCEPT ![Alice] = "waiting"]
      /\ ephPriv' = Fresh(Alice) /\ Generated(Alice, 1) /\ session' = session
      /\ wire' = [wire EXCEPT ![Alice] = Append(@, HandshakePacket(Alice, "init", Fresh(Alice)))]
      /\ sealed' = sealed /\ lost' = lost /\ opened' = opened /\ delivered' = delivered
      /\ stolen' = stolen
  BY DEF Connect, CreateHandshakeInit, histVars
<1>3. 1 \in {0, 1}
  OBVIOUS
<1>4. /\ nkeys' \in [Peers -> Nat] /\ \A x \in Peers : KeysOf(x) \subseteq KeysOf(x)'
      /\ Fresh(Alice) \in KeysOf(Alice)' /\ Fresh(Alice) \in AnyKey
  BY <1>1, <1>2, <1>3, GeneratedOne, FreshIsNew
<1>5. /\ session[Alice] = NewSession /\ sealed[Alice] = <<>> /\ opened[Alice] = {}
      /\ delivered[Alice] = <<>> /\ stolen[Alice] = NoRatchet /\ HandshakeOnly(Alice)
  BY <1>1, <1>2, UntouchedFacts
<1>6. HandshakeOnly(Alice)' /\ wire' \in [Peers -> Seq(Packets)]
      /\ Continues(wire[Alice], wire'[Alice])
  BY <1>1, <1>2, <1>4, <1>5, HandshakeSent
<1>7. PairType'
  BY <1>1, <1>2, <1>4, <1>6 DEF PairType
<1>8. phase'[Alice] = "waiting" /\ phase'[Bob] = phase[Bob] /\ wire'[Bob] = wire[Bob]
  BY <1>1, <1>2 DEF PairType
<1>9. session[Alice].isEstablished = FALSE /\ session[Alice].ratchet.CKs = NoChain
  BY <1>5 DEF NewSession, NoRatchet, NewResponderRatchet
<1>10. Opens(Alice)' /\ KeysOwned(Alice)'
  BY <1>2, <1>5, <1>6, <1>8, <1>9 DEF Opens, Untouched, HandshakeOnly, KeysOwned
<1>11. PeerInv(Alice)'
  BY <1>1, <1>2, <1>5, <1>6, <1>10, UntouchedInv
<1>12. PeerInv(Bob)'
  BY <1>1, <1>2, <1>4, <1>6, <1>8, OtherUntouched DEF histVars
<1> QED
  BY <1>7, <1>11, <1>12 DEF PairInv, Peers

\* A driver that gives up changes only where it is.
LEMMA CloseInv ==
  ASSUME PairInv, NEW p \in Peers, phase[p] # "open",
         NEW end \in {"closed", "failed"}, phase' = [phase EXCEPT ![p] = end],
         UNCHANGED <<session, nkeys, wire, ephPriv>>, UNCHANGED histVars
  PROVE  PairInv'
<1> DEFINE q == Other(p)
<1>1. PairType /\ q \in Peers /\ q # p
  BY PeerFacts DEF PairInv
<1>2. /\ session[p] = NewSession /\ sealed[p] = <<>> /\ opened[p] = {}
      /\ delivered[p] = <<>> /\ stolen[p] = NoRatchet /\ HandshakeOnly(p)
  BY UntouchedFacts
<1>3. /\ session' = session /\ nkeys' = nkeys /\ wire' = wire /\ ephPriv' = ephPriv
      /\ sealed' = sealed /\ lost' = lost /\ opened' = opened /\ delivered' = delivered
      /\ stolen' = stolen
  BY DEF histVars
<1>4. PairType'
  BY <1>1, <1>3 DEF PairType
<1>5. \A x \in Peers : KeysOf(x)' = KeysOf(x)
  BY <1>3 DEF KeysOf
<1>6. phase'[p] = end /\ phase'[q] = phase[q]
  BY <1>1 DEF PairType
<1>7. session[p].isEstablished = FALSE /\ session[p].ratchet.CKs = NoChain
  BY <1>2 DEF NewSession, NoRatchet, NewResponderRatchet
<1>8. HandshakeOnly(p)'
  BY <1>2, <1>3, <1>5 DEF HandshakeOnly
<1>9. Opens(p)' /\ KeysOwned(p)'
  BY <1>2, <1>3, <1>6, <1>7, <1>8 DEF Opens, Untouched, HandshakeOnly, KeysOwned
<1>10. PeerInv(p)'
  BY <1>2, <1>3, <1>8, <1>9, UntouchedInv
<1>11. Continues(wire[p], wire'[p])
  BY <1>3 DEF Continues
<1>12. PeerInv(q)'
  BY <1>1, <1>3, <1>5, <1>6, <1>11, OtherUntouched
<1> QED
  BY <1>4, <1>10, <1>12, PeerFacts DEF PairInv

\* The key in a handshake packet is one of its sender.
LEMMA HandshakeKey ==
  ASSUME PairInv, NEW p \in Peers, NEW pkt, FromWire(p, pkt), pkt.hdr.type # "data"
  PROVE  pkt.body.text \in KeysOf(Other(p)) /\ pkt.body.text \in AnyKey
<1>1. PairType /\ WireInOrder(Other(p)) /\ Other(p) \in Peers
  BY PeerFacts DEF PairInv, PeerInv
<1>2. pkt.body.text \in KeysOf(Other(p))
  BY <1>1 DEF FromWire, WireInOrder
<1> QED
  BY <1>1, <1>2, KeysAreKeys

\* handleIncomingConn, steps 1 and 2.
LEMMA ReceiveInitInv ==
  ASSUME PairInv, NEW pkt, FromWire(Bob, pkt), ReceiveInit(pkt)
  PROVE  PairInv'
<1>1. /\ PairType /\ Alice \in Peers /\ Bob \in Peers /\ Other(Bob) = Alice /\ Alice # Bob
      /\ Parity(Bob) = 1
  BY PeersAssumption DEF PairInv, Peers, Other, Parity
<1>2. phase[Bob] \in Idle /\ ephPriv' = ephPriv /\ UNCHANGED histVars
  BY DEF ReceiveInit
<1>3. CASE ~HandshakeValid(pkt, "init", PeerKey(pkt))
  BY <1>1, <1>2, <1>3, CloseInv DEF ReceiveInit
<1>4. CASE HandshakeValid(pkt, "init", PeerKey(pkt))
  <2> DEFINE f == Fresh(Bob)
             rk == MasterSecret(ComputeECDHSharedSecret(f, pkt.body.text))
             t == NewResponderRatchet(rk, f)
             s == Established(session[Bob], t)
  <2>1. /\ session' = [session EXCEPT ![Bob] = s]
        /\ phase' = [phase EXCEPT ![Bob] = "open"] /\ Generated(Bob, 1)
        /\ wire' = [wire EXCEPT ![Bob] = Append(@, HandshakePacket(Bob, "resp", f))]
    BY <1>4 DEF ReceiveInit, ProcessHandshakeInit
  <2>2. 1 \in {0, 1}
    OBVIOUS
  <2>3. /\ nkeys' \in [Peers -> Nat] /\ \A x \in Peers : KeysOf(x) \subseteq KeysOf(x)'
        /\ f \in KeysOf(Bob)' /\ f \in AnyKey
    BY <1>1, <2>1, <2>2, GeneratedOne, FreshIsNew
  <2>4. /\ session[Bob] = NewSession /\ sealed[Bob] = <<>> /\ opened[Bob] = {}
        /\ delivered[Bob] = <<>> /\ stolen[Bob] = NoRatchet /\ HandshakeOnly(Bob)
    BY <1>1, <1>2, UntouchedFacts
  <2>5. pkt.body.text \in AnyKey
    BY <1>1, <1>4, HandshakeKey DEF HandshakeValid
  <2>6. rk \in RootKeys /\ rk # <<>> /\ Len(rk) = 1
    <3>1. ComputeECDHSharedSecret(f, pkt.body.text) \in SUBSET AnyKey
      BY <2>3, <2>5 DEF ComputeECDHSharedSecret
    <3>2. ASSUME NEW x \in SUBSET AnyKey
          PROVE  <<x>> \in RootKeys /\ <<x>> # <<>> /\ Len(<<x>>) = 1
      BY <3>2 DEF RootKeys
    <3> QED
      BY <3>1, <3>2 DEF MasterSecret
  <2> HIDE DEF rk
  <2>7. /\ t \in Ratchets /\ t.RK = rk /\ t.DHsLocal = f /\ t.DHrPeer = NoKey
        /\ t.CKs = NoChain /\ t.CKr = NoChain
    <3>1. <<>> \in [{} -> {}] /\ NoKey \in AnyKey /\ 1 \in Nat /\ 0 \in Nat
      BY DEF AnyKey
    <3> QED
      BY <2>3, <2>6, <3>1, NoChainType DEF NewResponderRatchet, Ratchets
  <2> HIDE DEF t
  <2>8. s \in Sessions /\ s.ratchet = t /\ s.isEstablished = TRUE
    BY <1>1, <2>7 DEF Established, Sessions, PairType
  <2> HIDE DEF s
  <2>9. HandshakeOnly(Bob)' /\ wire' \in [Peers -> Seq(Packets)]
        /\ Continues(wire[Bob], wire'[Bob])
    BY <1>1, <2>1, <2>3, <2>4, HandshakeSent
  <2>10. PairType'
    BY <1>1, <1>2, <2>1, <2>3, <2>8, <2>9 DEF PairType, histVars
  <2>11. /\ session'[Bob] = s /\ phase'[Bob] = "open"
         /\ session'[Alice] = session[Alice] /\ phase'[Alice] = phase[Alice]
         /\ wire'[Alice] = wire[Alice]
    BY <1>1, <2>1 DEF PairType
  <2>12. Opens(Bob)'
    <3>1. Shaped(t)
      BY <2>6, <2>7 DEF Shaped
    <3>2. Len(t.RK) % 2 = Parity(Bob)
      <4>1. Len(t.RK) = 1 /\ Parity(Bob) = 1
        BY <1>1, <2>6, <2>7
      <4>2. 1 % 2 = 1
        OBVIOUS
      <4> QED
        BY ONLY <4>1, <4>2
    <3> QED
      BY <2>8, <2>11, <3>1, <3>2 DEF Opens
  <2>13. KeysOwned(Bob)'
    BY <2>3, <2>7, <2>8, <2>11 DEF KeysOwned
  <2>14. PeerInv(Bob)'
    BY <1>1, <1>2, <2>4, <2>9, <2>12, <2>13, UntouchedInv DEF histVars
  <2>15. PeerInv(Alice)'
    BY <1>1, <1>2, <2>3, <2>9, <2>11, OtherUntouched
  <2> QED
    BY <2>10, <2>14, <2>15 DEF PairInv, Peers
<1> QED
  BY <1>3, <1>4

\* handleSend, step 2.
LEMMA ReceiveRespInv ==
  ASSUME PairInv, NEW pkt, FromWire(Alice, pkt), ReceiveResp(pkt)
  PROVE  PairInv'
<1>1. /\ PairType /\ Alice \in Peers /\ Bob \in Peers /\ Other(Alice) = Bob /\ Alice # Bob
      /\ Parity(Alice) = 0
  BY PeersAssumption DEF PairInv, Peers, Other, Parity
<1>2. phase[Alice] = "waiting" /\ ephPriv' = ephPriv /\ wire' = wire /\ UNCHANGED histVars
  BY DEF ReceiveResp
<1>3. CASE ~HandshakeValid(pkt, "resp", Bob)
  BY <1>1, <1>2, <1>3, CloseInv DEF ReceiveResp
<1>4. CASE HandshakeValid(pkt, "resp", Bob)
  <2> DEFINE f == Fresh(Alice)
             remote == pkt.body.text
             rk == MasterSecret(ComputeECDHSharedSecret(ephPriv, remote))
             rk2 == Append(rk, ComputeECDHSharedSecret(f, remote))
             t == NewInitiatorRatchet(rk, f, remote)
             s == Established(session[Alice], t)
  <2>1. /\ session' = [session EXCEPT ![Alice] = s]
        /\ phase' = [phase EXCEPT ![Alice] = "open"] /\ Generated(Alice, 1)
    BY <1>4 DEF ReceiveResp, CompleteInitiatorHandshake
  <2>2. 1 \in {0, 1}
    OBVIOUS
  <2>3. /\ nkeys' \in [Peers -> Nat] /\ \A x \in Peers : KeysOf(x) \subseteq KeysOf(x)'
        /\ f \in KeysOf(Alice)' /\ f \in AnyKey
    BY <1>1, <2>1, <2>2, GeneratedOne, FreshIsNew
  <2>4. /\ session[Alice] = NewSession /\ sealed[Alice] = <<>> /\ opened[Alice] = {}
        /\ delivered[Alice] = <<>> /\ stolen[Alice] = NoRatchet /\ HandshakeOnly(Alice)
    BY <1>1, <1>2, UntouchedFacts
  <2>5. remote \in AnyKey /\ remote \in KeysOf(Bob)
    BY <1>1, <1>4, HandshakeKey DEF HandshakeValid
  <2> HIDE DEF remote
  <2>6. rk \in RootKeys /\ Len(rk) = 1
    <3>1. ComputeECDHSharedSecret(ephPriv, remote) \in SUBSET AnyKey
      BY <1>1, <2>5 DEF ComputeECDHSharedSecret, PairType
    <3>2. ASSUME NEW x \in SUBSET AnyKey
          PROVE  <<x>> \in RootKeys /\ Len(<<x>>) = 1
      BY <3>2 DEF RootKeys
    <3> QED
      BY <3>1, <3>2 DEF MasterSecret
  <2> HIDE DEF rk
  <2>7. /\ rk2 \in RootKeys /\ rk2 # <<>> /\ Len(rk2) = 2
        /\ rk2[2] = ComputeECDHSharedSecret(f, remote)
    <3>1. /\ rk2 \in RootKeys /\ rk2 # <<>> /\ Len(rk2) = Len(rk) + 1
          /\ rk2[Len(rk) + 1] = ComputeECDHSharedSecret(f, remote)
      BY <2>3, <2>5, <2>6, RootGrows
    <3> HIDE DEF rk2
    <3> QED
      BY <2>6, <3>1
  <2>8. t = [DHsLocal |-> f, DHrPeer |-> remote, RK |-> rk2,
             CKs |-> [root |-> rk2, step |-> 0], CKr |-> NoChain,
             Ns |-> 1, Nr |-> 1, PN |-> 0, skippedKeys |-> <<>>]
    BY DEF NewInitiatorRatchet, DeriveRootStep
  <2> HIDE DEF rk2, t
  <2>9. /\ t \in Ratchets /\ t.RK = rk2 /\ t.DHsLocal = f /\ t.DHrPeer = remote
        /\ t.CKs = [root |-> rk2, step |-> 0] /\ t.CKr = NoChain
    <3>1. <<>> \in [{} -> {}] /\ 1 \in Nat /\ 0 \in Nat /\ [root |-> rk2, step |-> 0] \in Chains
      BY <2>7 DEF Chains
    <3>2. t \in Ratchets
      BY <2>3, <2>5, <2>7, <2>8, <3>1, NoChainType DEF Ratchets
    <3> QED
      BY <2>8, <3>2
  <2>10. t.CKs.root = t.RK /\ t.CKs # NoChain
    BY <2>7, <2>9 DEF NoChain
  <2>11. s \in Sessions /\ s.ratchet = t /\ s.isEstablished = TRUE
    BY <1>1, <2>9 DEF Established, Sessions, PairType
  <2> HIDE DEF s
  <2>12. PairType'
    BY <1>1, <1>2, <2>1, <2>3, <2>11 DEF PairType, histVars
  <2>13. /\ session'[Alice] = s /\ phase'[Alice] = "open"
         /\ session'[Bob] = session[Bob] /\ phase'[Bob] = phase[Bob]
    BY <1>1, <2>1 DEF PairType
  <2>14. Opens(Alice)'
    <3>1. Shaped(t)
      BY <2>7, <2>9, <2>10 DEF Shaped
    <3>2. Len(t.RK) % 2 = Parity(Alice)
      <4>1. Len(t.RK) = 2 /\ Parity(Alice) = 0
        BY <1>1, <2>7, <2>9
      <4>2. 2 % 2 = 0
        OBVIOUS
      <4> QED
        BY ONLY <4>1, <4>2
    <3> QED
      BY <2>11, <2>13, <3>1, <3>2 DEF Opens
  <2>15. KeysOwned(Alice)'
    <3>1. remote \in KeysOf(Bob)'
      BY <1>1, <2>3, <2>5
    <3> QED
      BY <1>1, <2>3, <2>7, <2>9, <2>11, <2>13, <3>1 DEF KeysOwned
  <2>16. HandshakeOnly(Alice)'
    BY <1>1, <1>2, <2>3, <2>4 DEF HandshakeOnly
  <2>17. PeerInv(Alice)'
    BY <1>1, <1>2, <2>4, <2>14, <2>15, <2>16, UntouchedInv DEF histVars
  <2>18. Continues(wire[Alice], wire'[Alice])
    BY <1>2 DEF Continues
  <2>19. PeerInv(Bob)'
    BY <1>1, <1>2, <2>3, <2>13, <2>18, OtherUntouched
  <2> QED
    BY <2>12, <2>17, <2>19 DEF PairInv, Peers
<1> QED
  BY <1>3, <1>4

\* What leaves all variables of the pair alone.
LEMMA PairStutter == ASSUME PairInv, UNCHANGED peerVars, UNCHANGED histVars PROVE PairInv'
<1>1. /\ session' = session /\ phase' = phase /\ ephPriv' = ephPriv /\ nkeys' = nkeys
      /\ wire' = wire /\ sealed' = sealed /\ lost' = lost /\ opened' = opened
      /\ delivered' = delivered /\ stolen' = stolen
  BY DEF peerVars, histVars
<1>2. PairType'
  BY <1>1 DEF PairInv, PairType
<1>3. ASSUME NEW p \in Peers PROVE PeerInv(p)'
  <2>1. \A x \in Peers : KeysOf(x) \subseteq KeysOf(x)'
    BY <1>1 DEF KeysOf
  <2>2. Continues(wire[Other(p)], wire'[Other(p)])
    BY <1>1 DEF Continues
  <2> QED
    BY <1>1, <2>1, <2>2, PeerFrame DEF PairInv
<1> QED
  BY <1>2, <1>3 DEF PairInv

-----------------------------------------------------------------------------
\* What the invariant says about secrecy.

LEMMA SealedFacts ==
  ASSUME PairInv, NEW p \in Peers, NEW i \in 1 .. Len(sealed[p])
  PROVE  /\ phase[p] = "open" /\ i \in DOMAIN sealed[p] /\ sealed[p][i] \in Chains
         /\ Before(sealed[p][i], session[p].ratchet.CKs)
         /\ Len(sealed[p][i].root) % 2 = Parity(p)
<1>1. sealed[p] \in Seq(Chains) /\ Opens(p) /\ SealedInOrder(p)
  BY DEF PairInv, PairType, PeerInv
<1>2. i \in DOMAIN sealed[p] /\ sealed[p][i] \in Chains
  BY <1>1
<1>3. phase[p] = "open"
  <2>1. sealed[p] # <<>>
    BY <1>2
  <2> QED
    BY <1>1, <2>1 DEF Opens, Untouched
<1> QED
  BY <1>1, <1>2, <1>3 DEF SealedInOrder

\* A state does not yield a key that is behind its chain of the same parity.
LEMMA BehindIsSecret ==
  ASSUME PairInv, NEW p \in Peers, phase[p] = "open", NEW mk \in Chains,
         \/ Before(mk, session[p].ratchet.CKs) /\ Len(mk.root) % 2 = Parity(p)
         \/ Before(mk, session[p].ratchet.CKr) /\ Len(mk.root) % 2 = Parity(Other(p))
  PROVE  ~Derives(session[p].ratchet, mk)
<1> DEFINE r == session[p].ratchet
<1>1. /\ r \in Ratchets /\ Shaped(r) /\ r.RK \in RootKeys /\ r.CKs \in Chains /\ r.CKr \in Chains
      /\ Len(r.RK) \in Nat /\ Len(r.RK) % 2 = Parity(p)
      /\ Len(r.CKr.root) < Len(r.RK)
      /\ r.CKr # NoChain => Len(r.CKr.root) % 2 = Parity(Other(p))
  BY RatchetFacts DEF PairInv, PeerInv
<1>2. Parity(p) # Parity(Other(p))
  <2>1. Parity(p) \in {0, 1} /\ Parity(Other(p)) = 1 - Parity(p)
    BY PeerFacts
  <2> QED
    BY <2>1
<1>3. r.CKs # NoChain => r.CKs.root = r.RK
  BY <1>1 DEF Shaped
<1>4. /\ Len(mk.root) \in Nat /\ mk.step \in Nat /\ r.CKs.step \in Nat /\ r.CKr.step \in Nat
      /\ Len(r.CKs.root) \in Nat /\ Len(r.CKr.root) \in Nat
  BY <1>1 DEF Chains, RootKeys
<1>5. Len(r.CKs.root) <= Len(r.RK)
  BY <1>1, <1>3, NoChainType
<1>6. DOMAIN r.skippedKeys = {}
  BY <1>1 DEF Ratchets
<1>7. Len(mk.root) <= Len(r.RK)
  <2>1. Len(r.CKr.root) < Len(r.RK) /\ Len(r.RK) \in Nat
    BY <1>1
  <2>2. CASE Before(mk, r.CKs)
    <3>1. Len(mk.root) <= Len(r.CKs.root)
      BY <1>4, <2>2 DEF Before
    <3> DEFINE a == Len(mk.root)
               b == Len(r.CKs.root)
               c == Len(r.RK)
    <3>2. a \in Nat /\ b \in Nat /\ c \in Nat /\ a <= b /\ b <= c
      BY <1>4, <1>5, <2>1, <3>1
    <3> HIDE DEF a, b, c
    <3>3. a <= c
      BY <3>2
    <3> QED
      BY <3>3 DEF a, c
  <2>3. CASE Before(mk, r.CKr)
    <3>1. Len(mk.root) <= Len(r.CKr.root)
      BY <1>4, <2>3 DEF Before
    <3> DEFINE a == Len(mk.root)
               b == Len(r.CKr.root)
               c == Len(r.RK)
    <3>2. a \in Nat /\ b \in Nat /\ c \in Nat /\ a <= b /\ b < c
      BY <1>4, <2>1, <3>1
    <3> HIDE DEF a, b, c
    <3>3. a <= c
      BY <3>2
    <3> QED
      BY <3>3 DEF a, c
  <2> QED
    BY <2>2, <2>3
<1>8. ~(r.CKs # NoChain /\ mk.root = r.CKs.root /\ mk.step >= r.CKs.step)
  <2>1. SUFFICES ASSUME r.CKs # NoChain, mk.root = r.CKs.root, mk.step >= r.CKs.step
                 PROVE  FALSE
    OBVIOUS
  <2>2. Len(mk.root) % 2 = Parity(p)
    BY <1>1, <1>3, <2>1
  <2>3. ~Before(mk, r.CKs)
    <3>1. Len(mk.root) = Len(r.CKs.root) /\ ~(mk.step < r.CKs.step)
      BY <1>4, <2>1
    <3> DEFINE n == Len(r.CKs.root)
    <3>2. ~(Len(mk.root) < n)
      <4>1. n \in Nat /\ Len(mk.root) = n
        BY <1>4, <3>1
      <4> HIDE DEF n
      <4> QED
        BY <4>1
    <3> QED
      BY <3>1, <3>2 DEF Before
  <2> QED
    BY <1>2, <2>2, <2>3
<1>9. ~(r.CKr # NoChain /\ mk.root = r.CKr.root /\ mk.step >= r.CKr.step)
  <2>1. SUFFICES ASSUME r.CKr # NoChain, mk.root = r.CKr.root, mk.step >= r.CKr.step
                 PROVE  FALSE
    OBVIOUS
  <2>2. Len(mk.root) % 2 = Parity(Other(p))
    BY <1>1, <2>1
  <2>3. ~Before(mk, r.CKr)
    <3>1. Len(mk.root) = Len(r.CKr.root) /\ ~(mk.step < r.CKr.step)
      BY <1>4, <2>1
    <3> DEFINE n == Len(r.CKr.root)
    <3>2. ~(Len(mk.root) < n)
      <4>1. n \in Nat /\ Len(mk.root) = n
        BY <1>4, <3>1
      <4> HIDE DEF n
      <4> QED
        BY <4>1
    <3> QED
      BY <3>1, <3>2 DEF Before
  <2> QED
    BY <1>2, <2>2, <2>3
<1>10. ~(Len(mk.root) > Len(r.RK))
  BY <1>1, <1>4, <1>7
<1> HIDE DEF r
<1>11. ~Derives(r, mk)
  BY <1>6, <1>8, <1>9, <1>10 DEF Derives
<1> QED
  BY <1>11 DEF r

\* The current state of a peer gives away nothing of what it sent or opened before.
LEMMA InvForwardSecrecy == PairInv => ForwardSecrecy
<1> SUFFICES ASSUME PairInv, NEW p \in Peers
             PROVE  /\ \A i \in 1 .. Len(sealed[p]) : ~Derives(session[p].ratchet, sealed[p][i])
                    /\ \A mk \in opened[p] : ~Derives(session[p].ratchet, mk)
  BY DEF ForwardSecrecy
<1>1. ASSUME NEW i \in 1 .. Len(sealed[p]) PROVE ~Derives(session[p].ratchet, sealed[p][i])
  BY <1>1, SealedFacts, BehindIsSecret
<1>2. ASSUME NEW mk \in opened[p] PROVE ~Derives(session[p].ratchet, mk)
  <2>1. mk \in Chains /\ Opens(p) /\ OpenedBehind(p)
    BY <1>2 DEF PairInv, PairType, PeerInv
  <2>2. phase[p] = "open"
    BY <1>2, <2>1 DEF Opens, Untouched
  <2> QED
    BY <1>2, <2>1, <2>2, BehindIsSecret DEF OpenedBehind
<1> QED
  BY <1>1, <1>2

\* One key, one message.
LEMMA InvKeysUnique == PairInv => MessageKeysUnique
<1> SUFFICES ASSUME PairInv, NEW p \in Peers, NEW q \in Peers,
                    NEW i \in 1 .. Len(sealed[p]), NEW j \in 1 .. Len(sealed[q]),
                    sealed[p][i] = sealed[q][j]
             PROVE  p = q /\ i = j
  BY DEF MessageKeysUnique
<1>1. /\ Len(sealed[p][i].root) % 2 = Parity(p) /\ Len(sealed[q][j].root) % 2 = Parity(q)
      /\ sealed[p][i] \in Chains /\ i \in DOMAIN sealed[p] /\ j \in DOMAIN sealed[q]
  BY SealedFacts
<1>2. p = q
  <2>1. Parity(p) = Parity(q)
    BY <1>1
  <2> QED
    BY <2>1, PeersAssumption DEF Parity, Peers
<1>3. SealedInOrder(p)
  BY DEF PairInv, PeerInv
<1>4. ~(i < j) /\ ~(j < i)
  BY <1>1, <1>2, <1>3, BeforeIsOrder DEF SealedInOrder
<1>5. i \in Int /\ j \in Int
  OBVIOUS
<1> QED
  BY <1>2, <1>4, <1>5

\* A copy of a ratchet is useless for what is sealed after the next DH step.
LEMMA InvHeals == PairInv => HealsAfterDHStep
<1> SUFFICES ASSUME PairInv, NEW p \in Peers, stolen[p] # NoRatchet,
                    Len(session[p].ratchet.RK) > Len(stolen[p].RK)
             PROVE  ~Derives(stolen[p], session[p].ratchet.CKs)
  BY DEF HealsAfterDHStep, MessageKey
<1> DEFINE r == session[p].ratchet
           c == stolen[p]
           q == Other(p)
<1>1. PairType /\ Opens(p) /\ KeysOwned(p) /\ CopyIsOld(p)
  BY DEF PairInv, PeerInv
<1>2. phase[p] = "open"
  BY <1>1 DEF Opens, Untouched
<1>3. /\ Shaped(r) /\ r.RK \in RootKeys /\ r.CKs \in Chains /\ Len(r.RK) \in Nat /\ Len(r.RK) > 0
  BY <1>1, <1>2, RatchetFacts
<1>4. /\ c \in Ratchets /\ Shaped(c) /\ c.DHsLocal \in KeysOf(p) /\ r.DHsLocal # c.DHsLocal
  BY <1>1 DEF PairType, CopyIsOld
<1>5. /\ c.RK \in RootKeys /\ Len(c.RK) \in Nat /\ c.CKs \in Chains /\ c.CKr \in Chains
      /\ Len(c.CKs.root) \in Nat /\ Len(c.CKr.root) \in Nat /\ DOMAIN c.skippedKeys = {}
  BY <1>4 DEF Ratchets, Chains, RootKeys
<1>6. /\ c.CKs # NoChain => Len(c.CKs.root) <= Len(c.RK) /\ c.CKs.root # <<>>
      /\ c.CKr # NoChain => Len(c.CKr.root) <= Len(c.RK) /\ c.CKr.root # <<>>
  BY <1>4, <1>5 DEF Shaped
<1>7. CASE r.CKs = NoChain
  <2>1. r.CKs.root = <<>> /\ Len(r.CKs.root) = 0
    BY <1>7, NoChainType DEF NoChain
  <2>2. ~(Len(r.CKs.root) > Len(c.RK))
    BY <1>5, <2>1
  <2> HIDE DEF r, c
  <2> QED
    BY <1>5, <1>6, <2>1, <2>2 DEF Derives, r, c
<1>8. CASE r.CKs # NoChain
  <2>1. r.CKs.root = r.RK
    BY <1>3, <1>8 DEF Shaped
  <2>2. /\ c.CKs # NoChain => r.RK # c.CKs.root
        /\ c.CKr # NoChain => r.RK # c.CKr.root
    BY <1>3, <1>5, <1>6
  <2>3. r.RK[Len(r.RK)] = {r.DHsLocal, r.DHrPeer} /\ r.DHrPeer \in KeysOf(q)
    BY <1>1, <1>8 DEF KeysOwned, ComputeECDHSharedSecret
  <2>4. c.DHsLocal # r.DHrPeer
    <3>1. p # q
      BY PeerFacts
    <3> QED
      BY <1>4, <2>3, <3>1 DEF KeysOf
  <2>5. c.DHsLocal \notin r.RK[Len(r.RK)]
    BY <1>4, <2>3, <2>4
  <2>6. Len(r.RK) \in Len(c.RK) + 1 .. Len(r.RK)
    BY <1>3, <1>5
  <2> HIDE DEF r, c
  <2>7. ~Derives(c, r.CKs)
    BY <1>5, <2>1, <2>2, <2>5, <2>6 DEF Derives
  <2> QED
    BY <2>7 DEF r, c
<1> QED
  BY <1>7, <1>8

-----------------------------------------------------------------------------
\* What the reader of a direction sees.

\* Nobody's messages are counted, and what is shown is new.
LEMMA ReceiveShows ==
  ASSUME PairInv, NEW p \in Peers, NEW pkt, FromWire(p, pkt), ReceiveData(p, pkt)
  PROVE  /\ \A x \in Peers : session'[x].outSequence = session[x].outSequence
         /\ delivered'[Other(p)] = delivered[Other(p)]
         /\ \/ delivered'[p] = delivered[p]
            \/ \E n \in 1 .. session[Other(p)].outSequence :
                  /\ \A i \in DOMAIN delivered[p] : delivered[p][i] < n
                  /\ delivered'[p] = Append(delivered[p], n)
<1> DEFINE r == session[p].ratchet
           q == Other(p)
           w == wire[q]
<1>1. PairType /\ Opens(p) /\ OpenedBehind(p) /\ WireInOrder(q) /\ q \in Peers /\ q # p
  BY PeerFacts DEF PairInv, PeerInv
<1>2. Received(p, pkt)
  BY ReceiveShape
<1>3. DOMAIN session = Peers /\ DOMAIN delivered = Peers
  BY <1>1 DEF PairType
<1>4. \A x \in Peers : session'[x].outSequence = session[x].outSequence
  BY <1>2, <1>3 DEF Received
<1>5. delivered'[q] = delivered[q]
  BY <1>1, <1>2, <1>3 DEF Received, Quiet, OpenedWith
<1>6. phase[p] = "open"
  BY DEF ReceiveData
<1>7. /\ r.RK \in RootKeys /\ r.CKr \in Chains /\ Len(r.RK) \in Nat /\ r.DHsLocal \in AnyKey
      /\ Len(r.CKr.root) < Len(r.RK)
  BY <1>1, <1>6, RatchetFacts
<1>8. ASSUME NEW mk \in Chains, mk # NoChain, OpenedWith(p, pkt, mk),
             \A x \in Chains : Before(x, r.CKr) => Before(x, mk)
      PROVE  \E n \in 1 .. session[q].outSequence :
                  /\ \A i \in DOMAIN delivered[p] : delivered[p][i] < n
                  /\ delivered'[p] = Append(delivered[p], n)
  <2>1. PICK k \in DOMAIN w : pkt.body = w[k].body /\ pkt.hdr.type = w[k].hdr.type
    BY DEF FromWire
  <2>2. w[k].body.mk = mk /\ w[k].hdr.type = "data"
    BY <1>1, <1>8, <2>1 DEF OpenedWith, WireInOrder
  <2>3. pkt.body.text \in 1 .. session[q].outSequence
    BY <1>1, <2>1, <2>2 DEF WireInOrder
  <2>4. ASSUME NEW i \in DOMAIN delivered[p] PROVE delivered[p][i] < pkt.body.text
    <3>1. PICK j \in DOMAIN w : /\ w[j].hdr.type = "data"
                                /\ w[j].body.text = delivered[p][i]
                                /\ Before(w[j].body.mk, r.CKr)
      BY <1>1, <2>4 DEF OpenedBehind
    <3>2. w[j].body.mk \in Chains
      BY <1>1, WireTyped
    <3>3. Before(w[j].body.mk, w[k].body.mk)
      BY <1>8, <2>2, <3>1, <3>2
    <3>4. w[j].body.text < w[k].body.text
      BY <1>1, <2>2, <3>1, <3>3 DEF WireInOrder
    <3> QED
      BY <2>1, <3>1, <3>4
  <2>5. delivered'[p] = Append(delivered[p], pkt.body.text)
    BY <1>3, <1>8 DEF OpenedWith
  <2> QED
    BY <2>3, <2>4, <2>5
<1>9. CASE Quiet(p)
  BY <1>4, <1>5, <1>9 DEF Quiet
<1>10. CASE r.CKr # NoChain /\ OpenedWith(p, pkt, r.CKr)
  BY <1>4, <1>5, <1>7, <1>8, <1>10
<1>11. CASE OpenedWith(p, pkt, NewChain(r, pkt.hdr.epub))
  <2> DEFINE mk == NewChain(r, pkt.hdr.epub)
  <2>1. pkt.hdr.epub \in AnyKey
    BY DEF FromWire, Packets, Headers
  <2>2. /\ mk.root \in RootKeys /\ Len(mk.root) = Len(r.RK) + 1 /\ mk.root # <<>>
        /\ mk = [root |-> mk.root, step |-> 0]
    BY <1>7, <2>1, RootGrows DEF NewChain
  <2> HIDE DEF mk
  <2>3. mk \in Chains /\ mk # NoChain
    BY <2>2 DEF Chains, NoChain
  <2>4. ASSUME NEW x \in Chains, Before(x, r.CKr) PROVE Before(x, mk)
    <3>1. Len(x.root) \in Nat /\ Len(r.CKr.root) \in Nat
      BY <1>7 DEF Chains, RootKeys
    <3>2. Len(x.root) <= Len(r.CKr.root)
      BY <2>4, <3>1 DEF Before
    <3>3. Len(x.root) < Len(mk.root)
      BY <1>7, <2>2, <3>1, <3>2
    <3> QED
      BY <3>3 DEF Before
  <2>5. OpenedWith(p, pkt, mk)
    BY <1>11 DEF mk
  <2> QED
    BY <1>4, <1>5, <1>8, <2>3, <2>4, <2>5
<1> QED
  BY <1>2, <1>9, <1>10, <1>11 DEF Received

-----------------------------------------------------------------------------
\* What CheckAndAdd refuses.

\* It refuses the number it was just given.
LEMMA WindowRefuses ==
  ASSUME NEW w \in Windows, NEW n \in Nat
  PROVE  ~Accepts(CheckAndAdd(w, n), n)
<1>1. w.maxSeq \in Nat /\ w.bitmap \subseteq BitPositions
  BY DEF Windows
<1>2. CASE ~Accepts(w, n)
  BY <1>2 DEF CheckAndAdd
<1>3. CASE Accepts(w, n) /\ n > w.maxSeq
  <2> DEFINE v == CheckAndAdd(w, n)
  <2>1. v.maxSeq = n /\ 0 \in v.bitmap
    BY <1>3 DEF CheckAndAdd, Add
  <2> HIDE DEF v
  <2> QED
    BY <2>1 DEF Accepts, v
<1>4. CASE Accepts(w, n) /\ ~(n > w.maxSeq)
  <2> DEFINE v == CheckAndAdd(w, n)
  <2>1. v = [w EXCEPT !.bitmap = w.bitmap \cup {w.maxSeq - n}]
    BY <1>4 DEF CheckAndAdd, Add
  <2>2. v.maxSeq = w.maxSeq /\ w.maxSeq - n \in v.bitmap
    BY <2>1 DEF Windows
  <2> HIDE DEF v
  <2> QED
    BY <1>1, <1>4, <2>2 DEF Accepts, v
<1> QED
  BY <1>2, <1>3, <1>4

\* And it goes on refusing what it refused.
LEMMA WindowKeepsRefusing ==
  ASSUME NEW w \in Windows, NEW n \in Nat, NEW s \in Nat, ~Accepts(w, s)
  PROVE  ~Accepts(CheckAndAdd(w, n), s)
<1>1. w.maxSeq \in Nat /\ w.bitmap \subseteq BitPositions
      /\ ReplayWindowSize \in Nat
  BY ReplayWindowSizeAssumption DEF Windows
<1> DEFINE v == CheckAndAdd(w, n)
<1>2. CASE ~Accepts(w, n)
  BY <1>2 DEF CheckAndAdd
<1>3. CASE s = 0
  BY <1>3 DEF Accepts
<1>4. CASE Accepts(w, n) /\ n > w.maxSeq /\ s # 0
  <2>1. v.maxSeq = n
    BY <1>4 DEF CheckAndAdd, Add
  <2>2. v.bitmap = IF n - w.maxSeq >= ReplayWindowSize THEN {0}
                   ELSE ShiftLeft(w.bitmap, n - w.maxSeq) \cup {0}
    BY <1>4 DEF CheckAndAdd, Add
  <2> HIDE DEF v
  <2>3. s <= w.maxSeq /\ (w.maxSeq - s >= ReplayWindowSize \/ w.maxSeq - s \in w.bitmap)
    BY <1>1, <1>4 DEF Accepts
  <2>4. ~(s > n) /\ n - s = (n - w.maxSeq) + (w.maxSeq - s) /\ n - s \in Nat
    BY <1>1, <1>4, <2>3
  <2>5. CASE n - s >= ReplayWindowSize
    BY <1>1, <2>1, <2>4, <2>5 DEF Accepts, v
  <2>6. CASE n - s < ReplayWindowSize
    <3>1. w.maxSeq - s \in w.bitmap /\ n - w.maxSeq < ReplayWindowSize
      BY <1>1, <1>4, <2>3, <2>6
    <3>2. n - s \in BitPositions /\ n - s >= n - w.maxSeq
          /\ (n - s) - (n - w.maxSeq) = w.maxSeq - s
      BY <1>1, <1>4, <2>3, <2>4, <2>6 DEF BitPositions
    <3>3. n - s \in ShiftLeft(w.bitmap, n - w.maxSeq)
      BY <3>1, <3>2 DEF ShiftLeft
    <3>4. n - s \in v.bitmap
      BY <1>1, <1>4, <2>2, <3>1, <3>3
    <3> QED
      BY <2>1, <2>4, <3>4 DEF Accepts, v
  <2> QED
    BY <1>1, <2>4, <2>5, <2>6
<1>5. CASE Accepts(w, n) /\ ~(n > w.maxSeq)
  <2>1. v = [w EXCEPT !.bitmap = w.bitmap \cup {w.maxSeq - n}]
    BY <1>5 DEF CheckAndAdd, Add
  <2>2. v.maxSeq = w.maxSeq /\ w.bitmap \subseteq v.bitmap
    BY <2>1 DEF Windows
  <2> HIDE DEF v
  <2> QED
    BY <1>1, <2>2 DEF Accepts, v
<1> QED
  BY <1>2, <1>3, <1>4, <1>5

-----------------------------------------------------------------------------
\* What one round of the receive loop does, on a packet from the wire.

Handled(p, pkt, d) ==
    /\ Decrypted(session[p], Other(p), pkt, Fresh(p), d)
    /\ session' = [session EXCEPT ![p] = d.session]
    /\ Generated(p, IF d.session.ratchet.DHsLocal = session[p].ratchet.DHsLocal
                    THEN 0 ELSE 1)
    /\ d.result = "ok" => delivered' = [delivered EXCEPT ![p] = Append(@, pkt.body.text)]
    /\ d.result # "ok" => UNCHANGED <<delivered, opened>>

LEMMA HandledData ==
  ASSUME PairInv, NEW p \in Peers, NEW pkt \in Packets, ReceiveData(p, pkt)
  PROVE  \E d : Handled(p, pkt, d)
<1> DEFINE d == DecryptMessage(session[p], Other(p), pkt, Fresh(p))
<1>1. PairType /\ Opens(p) /\ phase[p] = "open"
  BY DEF PairInv, PeerInv, ReceiveData
<1>2. session[p] \in Sessions /\ Fresh(p) \in AnyKey /\ Ready(session[p])
  BY <1>1, FreshIsNew DEF PairType, Opens, Ready
<1>3. Decrypted(session[p], Other(p), pkt, Fresh(p), d)
  BY <1>2, DecryptMessageShape
<1>4. /\ session' = [session EXCEPT ![p] = d.session]
      /\ Generated(p, IF d.session.ratchet.DHsLocal = session[p].ratchet.DHsLocal
                      THEN 0 ELSE 1)
      /\ d.result = "ok" => delivered' = [delivered EXCEPT ![p] = Append(@, pkt.body.text)]
      /\ d.result # "ok" => UNCHANGED <<delivered, opened>>
  BY DEF ReceiveData
<1> HIDE DEF d
<1> QED
  BY <1>3, <1>4 DEF Handled

LEMMA ReceiveCounts ==
  ASSUME PairInv, NEW p \in Peers, NEW pkt \in Packets, ReceiveData(p, pkt)
  PROVE  /\ session'[p].replayWin = CheckAndAdd(session[p].replayWin, pkt.hdr.seq)
         /\ session'[p].outSequence = session[p].outSequence
         /\ session'[Other(p)] = session[Other(p)]
         /\ ~Accepts(session[p].replayWin, pkt.hdr.seq) =>
                UNCHANGED <<session, nkeys, delivered, opened>>
<1>1. PICK d : Handled(p, pkt, d)
  BY HandledData
<1>2. PairType /\ Other(p) \in Peers /\ Other(p) # p
  BY PeerFacts DEF PairInv
<1>3. session'[p] = d.session /\ session'[Other(p)] = session[Other(p)]
  BY <1>1, <1>2 DEF Handled, PairType
<1>4. /\ d.session.replayWin = CheckAndAdd(session[p].replayWin, pkt.hdr.seq)
      /\ d.session.outSequence = session[p].outSequence
      /\ ~Accepts(session[p].replayWin, pkt.hdr.seq) => d.session = session[p] /\ d.result # "ok"
  BY <1>1 DEF Handled, Decrypted
<1>5. ASSUME ~Accepts(session[p].replayWin, pkt.hdr.seq)
      PROVE  UNCHANGED <<session, nkeys, delivered, opened>>
  <2>1. d.session = session[p] /\ d.result # "ok"
    BY <1>4, <1>5
  <2>2. session' = session /\ UNCHANGED <<delivered, opened>> /\ Generated(p, 0)
    BY <1>1, <1>2, <2>1 DEF Handled, PairType
  <2>3. nkeys' = nkeys
    <3>1. nkeys \in [Peers -> Nat]
      BY <1>2 DEF PairType
    <3> QED
      BY <2>2, <3>1 DEF Generated
  <2> QED
    BY <2>2, <2>3
<1> QED
  BY <1>3, <1>4, <1>5

-----------------------------------------------------------------------------
\* Over any network: what a session promises does not depend on its transport.

\* Whatever arrives was made by the other peer, apart from its number.
LEMMA ArrivingFromWire ==
  ASSUME PairInv, NEW p \in Peers, NEW pkt \in Arriving(p)
  PROVE  FromWire(p, pkt)
<1> DEFINE w == wire[Other(p)]
<1>1. PairType /\ Other(p) \in Peers
  BY PeerFacts DEF PairInv
<1>2. w \in Seq(Packets)
  BY <1>1 DEF PairType
<1>3. PICK j \in 1 .. Len(w) : pkt = w[j] \/ pkt \in Damaged(w[j])
  BY DEF Arriving, OnWire
<1>4. j \in DOMAIN w /\ w[j] \in Packets
  BY <1>2
<1>5. CASE pkt = w[j]
  BY <1>4, <1>5 DEF FromWire
<1>6. CASE pkt \in Damaged(w[j])
  <2> DEFINE u == w[j]
  <2>1. PICK n \in DamagedNumbers : pkt = [u EXCEPT !.hdr.seq = n]
    BY <1>6 DEF Damaged
  <2>2. n \in Nat
    BY NumbersAssumption
  <2>3. u \in Packets /\ u.hdr \in Headers
    BY <1>4 DEF Packets
  <2> HIDE DEF u
  <2> DEFINE h == [u.hdr EXCEPT !.seq = n]
  <2>4. h \in Headers /\ h.type = u.hdr.type /\ h.epub = u.hdr.epub
    BY <2>2, <2>3 DEF Headers
  <2>5. pkt = [u EXCEPT !.hdr = h]
    BY <2>1
  <2> HIDE DEF h
  <2>6. pkt \in Packets /\ pkt.hdr = h /\ pkt.body = u.body
    BY <2>3, <2>4, <2>5 DEF Packets
  <2> QED
    BY <1>4, <2>4, <2>6 DEF FromWire, u
<1> QED
  BY <1>3, <1>5, <1>6

\* No step of either peer, and nothing the network does, breaks the invariant.
LEMMA NextPair == PairInv /\ [UnorderedNext]_pairVars => PairInv'
<1> SUFFICES ASSUME PairInv, [UnorderedNext]_pairVars PROVE PairInv'
  OBVIOUS
<1>1. CASE UNCHANGED pairVars
  BY <1>1, PairStutter DEF pairVars
<1>2. CASE Connect
  BY <1>2, ConnectInv
<1>3. ASSUME NEW p \in Peers, Send(p) \/ SendFails(p) PROVE PairInv'
  <2>1. PICK reaches \in BOOLEAN : Seal(p, reaches)
    BY <1>3 DEF Send, SendFails
  <2> QED
    BY <2>1, SealInv
<1>4. ASSUME NEW p \in Peers, SendRefused(p) PROVE PairInv'
  BY <1>4, RefusedInv
<1>5. ASSUME NEW p \in Peers, Compromise(p) PROVE PairInv'
  BY <1>5, CompromiseInv
<1>6. ASSUME NEW p \in Peers, ReceiveAny(p) PROVE PairInv'
  <2>1. PICK pkt \in Arriving(p) : \/ p = Bob /\ ReceiveInit(pkt)
                                   \/ p = Alice /\ ReceiveResp(pkt)
                                   \/ ReceiveData(p, pkt)
    BY <1>6 DEF ReceiveAny
  <2>2. FromWire(p, pkt)
    BY ArrivingFromWire
  <2> QED
    BY <2>1, <2>2, ReceiveInitInv, ReceiveRespInv, ReceiveDataInv
<1>7. ASSUME NEW p \in Peers, HandshakeFails(p) PROVE PairInv'
  BY <1>7, CloseInv DEF HandshakeFails
<1> QED
  BY <1>1, <1>2, <1>3, <1>4, <1>5, <1>6, <1>7 DEF UnorderedNext

\* The invariant of the pair holds whatever the network does.
THEOREM PairInvariant == UnorderedSpec => []PairInv
  BY PairInitInv, NextPair, PTL DEF UnorderedSpec

\* Forward secrecy (ratchet.go:17) for sessions of any length over any network: the
\* state RatchetEncrypt and RatchetDecrypt leave behind does not yield the key of a
\* message the peer sent or opened before.
THEOREM AlwaysForwardSecret == UnorderedSpec => []ForwardSecrecy
  BY PairInvariant, InvForwardSecrecy, PTL

\* RatchetEncrypt never takes one message key twice, in neither direction.
THEOREM KeysNeverRepeat == UnorderedSpec => []MessageKeysUnique
  BY PairInvariant, InvKeysUnique, PTL

-----------------------------------------------------------------------------
\* A step as the reader of the messages to p sees it.
Counted(p, d) ==
    /\ session'[Other(p)].outSequence = session[Other(p)].outSequence + d
    /\ delivered'[p] = delivered[p]

Shown(p) ==
    /\ session'[Other(p)].outSequence = session[Other(p)].outSequence
    /\ \E n \in 1 .. session[Other(p)].outSequence :
        /\ \A i \in DOMAIN delivered[p] : delivered[p][i] < n
        /\ delivered'[p] = Append(delivered[p], n)

\* Taking a number is all that EncryptMessage does to either direction.
LEMMA SendCounts ==
  ASSUME PairInv, NEW q \in Peers, Send(q) \/ SendFails(q) \/ SendRefused(q)
  PROVE  \A p \in Peers : \E d \in {0, 1} : Counted(p, d)
<1>1. PairType /\ session[q] \in Sessions
  BY DEF PairInv, PairType
<1>2. delivered' = delivered
  BY DEF Send, SendFails, Seal, SendRefused, histVars
<1>3. /\ session' = [session EXCEPT ![q] = session'[q]]
      /\ session'[q].outSequence = session[q].outSequence + 1
  <2>1. CASE Send(q) \/ SendFails(q)
    <3>1. PICK reaches \in BOOLEAN : Seal(q, reaches)
      BY <2>1 DEF Send, SendFails
    <3> QED
      BY <3>1, SealShape DEF Sealing
  <2>2. CASE SendRefused(q)
    <3>1. session[q].isEstablished
      BY <2>2 DEF SendRefused, PairInv, PeerInv, Opens
    <3>2. AfterRefusedEncrypt(session[q]).outSequence = session[q].outSequence + 1
      BY <1>1, <3>1 DEF AfterRefusedEncrypt, Sessions
    <3>3. session' = [session EXCEPT ![q] = AfterRefusedEncrypt(session[q])]
      BY <2>2 DEF SendRefused
    <3> QED
      BY <1>1, <3>2, <3>3 DEF PairType
  <2> QED
    BY <2>1, <2>2
<1>4. ASSUME NEW p \in Peers PROVE \E d \in {0, 1} : Counted(p, d)
  <2>1. Other(p) \in Peers /\ session[Other(p)].outSequence \in Nat
    BY <1>1, PeerFacts DEF PairType, Sessions
  <2>2. CASE Other(p) = q
    BY <1>2, <1>3, <2>1, <2>2 DEF Counted
  <2>3. CASE Other(p) # q
    <3>1. session'[Other(p)] = session[Other(p)]
      BY <1>1, <1>3, <2>1, <2>3 DEF PairType
    <3> QED
      BY <1>2, <2>1, <3>1 DEF Counted
  <2> QED
    BY <2>2, <2>3
<1> QED
  BY <1>4

\* What any step is to the reader of the messages to p.
LEMMA StepSeen ==
  ASSUME PairInv, [UnorderedNext]_pairVars, NEW p \in Peers
  PROVE  (\E d \in {0, 1} : Counted(p, d)) \/ Shown(p)
<1>1. PairType /\ Other(p) \in Peers /\ session[Other(p)].outSequence \in Nat
  BY PeerFacts DEF PairInv, PairType, Sessions
<1>2. ASSUME session'[Other(p)].outSequence = session[Other(p)].outSequence,
             delivered' = delivered
      PROVE  \E d \in {0, 1} : Counted(p, d)
  BY <1>1, <1>2 DEF Counted
<1>3. CASE UNCHANGED pairVars
  BY <1>2, <1>3 DEF pairVars, peerVars, histVars
<1>4. CASE Connect
  BY <1>2, <1>4 DEF Connect, histVars
<1>5. ASSUME NEW q \in Peers, Send(q) \/ SendFails(q) \/ SendRefused(q)
      PROVE  \E d \in {0, 1} : Counted(p, d)
  BY <1>5, SendCounts
<1>6. ASSUME NEW q \in Peers, Compromise(q) PROVE \E d \in {0, 1} : Counted(p, d)
  BY <1>2, <1>6 DEF Compromise, peerVars
<1>7. ASSUME NEW q \in Peers, ReceiveAny(q)
      PROVE  (\E d \in {0, 1} : Counted(p, d)) \/ Shown(p)
  <2>1. PICK pkt \in Arriving(q) : \/ q = Bob /\ ReceiveInit(pkt)
                                   \/ q = Alice /\ ReceiveResp(pkt)
                                   \/ ReceiveData(q, pkt)
    BY <1>7 DEF ReceiveAny
  <2>2. FromWire(q, pkt)
    BY ArrivingFromWire
  <2>3. CASE ReceiveInit(pkt)
    <3>1. delivered' = delivered
      BY <2>3 DEF ReceiveInit, histVars
    <3>2. \A x \in Peers : session'[x].outSequence = session[x].outSequence
      <4>1. CASE session' = session
        BY <4>1
      <4>2. CASE session' # session
        <5>1. PICK r : session' = [session EXCEPT ![Bob] = Established(session[Bob], r)]
          BY <2>3, <4>2 DEF ReceiveInit, ProcessHandshakeInit
        <5>2. \A x \in Peers : session[x] \in Sessions
          BY <1>1 DEF PairType
        <5>3. ASSUME NEW s \in Sessions PROVE Established(s, r).outSequence = s.outSequence
          BY <5>3 DEF Established, Sessions
        <5> QED
          BY <1>1, <5>1, <5>2, <5>3 DEF PairType
      <4> QED
        BY <4>1, <4>2
    <3> QED
      BY <1>1, <1>2, <3>1, <3>2
  <2>4. CASE ReceiveResp(pkt)
    <3>1. delivered' = delivered
      BY <2>4 DEF ReceiveResp, histVars
    <3>2. \A x \in Peers : session'[x].outSequence = session[x].outSequence
      <4>1. CASE session' = session
        BY <4>1
      <4>2. CASE session' # session
        <5>1. PICK r : session' = [session EXCEPT ![Alice] = Established(session[Alice], r)]
          BY <2>4, <4>2 DEF ReceiveResp, CompleteInitiatorHandshake
        <5>2. \A x \in Peers : session[x] \in Sessions
          BY <1>1 DEF PairType
        <5>3. ASSUME NEW s \in Sessions PROVE Established(s, r).outSequence = s.outSequence
          BY <5>3 DEF Established, Sessions
        <5> QED
          BY <1>1, <5>1, <5>2, <5>3 DEF PairType
      <4> QED
        BY <4>1, <4>2
    <3> QED
      BY <1>1, <1>2, <3>1, <3>2
  <2>5. CASE ReceiveData(q, pkt)
    <3>1. /\ \A x \in Peers : session'[x].outSequence = session[x].outSequence
          /\ delivered'[Other(q)] = delivered[Other(q)]
          /\ \/ delivered'[q] = delivered[q]
             \/ \E n \in 1 .. session[Other(q)].outSequence :
                   /\ \A i \in DOMAIN delivered[q] : delivered[q][i] < n
                   /\ delivered'[q] = Append(delivered[q], n)
      BY <2>2, <2>5, ReceiveShows
    <3>2. CASE delivered'[p] = delivered[p]
      BY <1>1, <3>1, <3>2 DEF Counted
    <3>3. CASE delivered'[p] # delivered[p]
      <4>1. p = q
        BY <3>1, <3>3, PeerFacts
      <4> QED
        BY <1>1, <3>1, <3>3, <4>1 DEF Shown
    <3> QED
      BY <3>2, <3>3
  <2> QED
    BY <2>1, <2>3, <2>4, <2>5
<1>8. ASSUME NEW q \in Peers, HandshakeFails(q) PROVE \E d \in {0, 1} : Counted(p, d)
  BY <1>2, <1>8 DEF HandshakeFails, histVars
<1> QED
  BY <1>3, <1>4, <1>5, <1>6, <1>7, <1>8 DEF UnorderedNext

\* Both directions of a session implement MessageChannel, however the network repeats,
\* reorders, damages or loses packets: DecryptMessage returns messages that were
\* sent, each at most once, and never one after a later one.
THEOREM SessionIsChannel == UnorderedSpec => ImplementsChannel
<1>1. Alice \in Peers /\ Bob \in Peers /\ Other(Bob) = Alice /\ Other(Alice) = Bob
  BY PeersAssumption DEF Peers, Other
<1>2. PairInit => ToBob!Init /\ ToAlice!Init
  BY <1>1 DEF PairInit, NewSession, ToBob!Init, ToAlice!Init
<1>3. PairInv /\ [UnorderedNext]_pairVars => [ToBob!Next]_<<session[Alice].outSequence, delivered[Bob]>>
  <2> SUFFICES ASSUME PairInv, [UnorderedNext]_pairVars
               PROVE  [ToBob!Next]_<<session[Alice].outSequence, delivered[Bob]>>
    OBVIOUS
  <2>1. session[Alice].outSequence \in Nat
    BY <1>1 DEF PairInv, PairType, Sessions
  <2>2. (\E d \in {0, 1} : Counted(Bob, d)) \/ Shown(Bob)
    BY <1>1, StepSeen
  <2>3. CASE \E d \in {0, 1} : Counted(Bob, d)
    BY <1>1, <2>1, <2>3 DEF Counted, ToBob!Next, ToBob!Send
  <2>4. CASE Shown(Bob)
    BY <1>1, <2>4 DEF Shown, ToBob!Next, ToBob!Deliver
  <2> QED
    BY <2>2, <2>3, <2>4
<1>4. PairInv /\ [UnorderedNext]_pairVars => [ToAlice!Next]_<<session[Bob].outSequence, delivered[Alice]>>
  <2> SUFFICES ASSUME PairInv, [UnorderedNext]_pairVars
               PROVE  [ToAlice!Next]_<<session[Bob].outSequence, delivered[Alice]>>
    OBVIOUS
  <2>1. session[Bob].outSequence \in Nat
    BY <1>1 DEF PairInv, PairType, Sessions
  <2>2. (\E d \in {0, 1} : Counted(Alice, d)) \/ Shown(Alice)
    BY <1>1, StepSeen
  <2>3. CASE \E d \in {0, 1} : Counted(Alice, d)
    BY <1>1, <2>1, <2>3 DEF Counted, ToAlice!Next, ToAlice!Send
  <2>4. CASE Shown(Alice)
    BY <1>1, <2>4 DEF Shown, ToAlice!Next, ToAlice!Deliver
  <2> QED
    BY <2>2, <2>3, <2>4
<1> QED
  BY <1>2, <1>3, <1>4, PairInvariant, PTL
    DEF UnorderedSpec, ImplementsChannel, ToBob!Spec, ToAlice!Spec

-----------------------------------------------------------------------------
\* A receiving chain and the sending chain it mirrors.

\* What is on the wire is signed by its sender.
SignedBy(p) == \A i \in DOMAIN wire[p] : VerifySignature(p, wire[p][i])

\* The packets that show the key of the sending chain have the latest numbers, one for each
\* step of the chain.
Consecutive(p) ==
    LET r == session[p].ratchet
        n == session[p].outSequence
    IN  r.CKs # NoChain =>
            /\ r.CKs.step <= n
            /\ \A i \in DOMAIN wire[p] : wire[p][i].hdr.epub = r.DHsLocal
                => wire[p][i].hdr.seq \in n - r.CKs.step + 1 .. n

\* There are k numbers of packets on w that show the key epub, none of which the window
\* takes again.
Taken(win, w, epub, k) ==
    \E A \in SUBSET Nat :
        /\ IsFiniteSet(A) /\ Cardinality(A) = k
        /\ \A a \in A : /\ ~Accepts(win, a)
                        /\ \E i \in DOMAIN w : w[i].hdr.seq = a /\ w[i].hdr.epub = epub

\* A receiving chain has made a step for each number that was taken under its key, and its
\* root ends with the secret of that key.
Mirrored(p) ==
    LET r == session[p].ratchet
    IN  r.CKr # NoChain =>
            /\ Taken(session[p].replayWin, wire[Other(p)], r.DHrPeer, r.CKr.step)
            /\ \E n \in Nat :
                r.CKr.root[Len(r.CKr.root)] = ComputeECDHSharedSecret(<<p, n>>, r.DHrPeer)

PeerCounts(p) == SignedBy(p) /\ Consecutive(p) /\ Mirrored(p)

CountInv == \A p \in Peers : PeerCounts(p)

\* More is sent, and the window moves.
LEMMA TakenKept ==
  ASSUME NEW win \in Windows, NEW won, NEW w, NEW v, Continues(w, v), NEW epub, NEW k,
         won = win \/ \E n \in Nat : won = CheckAndAdd(win, n), Taken(win, w, epub, k)
  PROVE  Taken(won, v, epub, k)
<1>1. PICK A \in SUBSET Nat :
        /\ IsFiniteSet(A) /\ Cardinality(A) = k
        /\ \A a \in A : /\ ~Accepts(win, a)
                        /\ \E i \in DOMAIN w : w[i].hdr.seq = a /\ w[i].hdr.epub = epub
  BY DEF Taken
<1>2. ASSUME NEW a \in A PROVE ~Accepts(won, a)
  BY <1>1, WindowKeepsRefusing
<1>3. ASSUME NEW a \in A PROVE \E i \in DOMAIN v : v[i].hdr.seq = a /\ v[i].hdr.epub = epub
  <2>1. PICK i \in DOMAIN w : w[i].hdr.seq = a /\ w[i].hdr.epub = epub
    BY <1>1
  <2>2. i \in DOMAIN v /\ v[i] = w[i]
    BY DEF Continues
  <2> QED
    BY <2>1, <2>2
<1> QED
  BY <1>1, <1>2, <1>3 DEF Taken

\* A number the window accepts is one more.
LEMMA TakenNext ==
  ASSUME NEW win \in Windows, NEW w, NEW epub, NEW k \in Nat, NEW n \in Nat, Accepts(win, n),
         \E i \in DOMAIN w : w[i].hdr.seq = n /\ w[i].hdr.epub = epub, Taken(win, w, epub, k)
  PROVE  Taken(CheckAndAdd(win, n), w, epub, k + 1)
<1> DEFINE won == CheckAndAdd(win, n)
<1>1. PICK A \in SUBSET Nat :
        /\ IsFiniteSet(A) /\ Cardinality(A) = k
        /\ \A a \in A : /\ ~Accepts(win, a)
                        /\ \E i \in DOMAIN w : w[i].hdr.seq = a /\ w[i].hdr.epub = epub
  BY DEF Taken
<1> DEFINE B == A \cup {n}
<1>2. n \notin A
  BY <1>1
<1>3. IsFiniteSet(B) /\ Cardinality(B) = k + 1
  BY <1>1, <1>2, FS_AddElement
<1>4. ~Accepts(won, n) /\ \A a \in A : ~Accepts(won, a)
  BY <1>1, WindowRefuses, WindowKeepsRefusing
<1> HIDE DEF won
<1>5. \A a \in B : /\ ~Accepts(won, a)
                   /\ \E i \in DOMAIN w : w[i].hdr.seq = a /\ w[i].hdr.epub = epub
  BY <1>1, <1>4
<1>6. B \in SUBSET Nat
  OBVIOUS
<1> HIDE DEF B
<1>7. Taken(won, w, epub, k + 1)
  BY <1>3, <1>5, <1>6 DEF Taken
<1> QED
  BY <1>7 DEF won

\* No number at all is none.
LEMMA TakenNone == ASSUME NEW win, NEW w, NEW epub PROVE Taken(win, w, epub, 0)
<1>1. {} \in SUBSET Nat /\ IsFiniteSet({}) /\ Cardinality({}) = 0
  BY FS_EmptySet
<1> QED
  BY <1>1 DEF Taken

-----------------------------------------------------------------------------
LEMMA SignedKept ==
  ASSUME PairType, NEW p \in Peers, SignedBy(p),
         \/ wire'[p] = wire[p]
         \/ \E pkt \in Packets : wire'[p] = Append(wire[p], pkt) /\ VerifySignature(p, pkt)
  PROVE  SignedBy(p)'
<1>1. CASE wire'[p] = wire[p]
  BY <1>1 DEF SignedBy, VerifySignature
<1>2. CASE \E pkt \in Packets : wire'[p] = Append(wire[p], pkt) /\ VerifySignature(p, pkt)
  <2>1. PICK pkt \in Packets : wire'[p] = Append(wire[p], pkt) /\ VerifySignature(p, pkt)
    BY <1>2
  <2> DEFINE n == Len(wire[p])
  <2>2. /\ n \in Nat /\ DOMAIN wire[p] = 1 .. n /\ DOMAIN wire'[p] = 1 .. n + 1
        /\ wire'[p][n + 1] = pkt /\ \A j \in 1 .. n : wire'[p][j] = wire[p][j]
    <3>1. wire[p] \in Seq(Packets)
      BY DEF PairType
    <3> QED
      BY <2>1, <3>1
  <2> HIDE DEF n
  <2>3. ASSUME NEW i \in DOMAIN wire'[p] PROVE VerifySignature(p, wire'[p][i])
    <3>1. CASE i = n + 1
      BY <2>1, <2>2, <3>1
    <3>2. CASE i # n + 1
      <4>1. i \in DOMAIN wire[p] /\ wire'[p][i] = wire[p][i]
        BY <2>2, <3>2
      <4> QED
        BY <4>1 DEF SignedBy
    <3> QED
      BY <3>1, <3>2
  <2> QED
    BY <2>3 DEF SignedBy, VerifySignature
<1> QED
  BY <1>1, <1>2

LEMMA ConsecutiveKept ==
  ASSUME NEW p \in Peers, Consecutive(p), wire'[p] = wire[p],
         session'[p].ratchet.CKs = session[p].ratchet.CKs,
         session'[p].ratchet.DHsLocal = session[p].ratchet.DHsLocal,
         session'[p].outSequence = session[p].outSequence
  PROVE  Consecutive(p)'
  BY DEF Consecutive

LEMMA ConsecutiveNone ==
  ASSUME NEW p \in Peers, session'[p].ratchet.CKs = NoChain PROVE Consecutive(p)'
  BY DEF Consecutive

\* A new sending chain comes with a new key.
LEMMA ConsecutiveAnew ==
  ASSUME PairInv, NEW p \in Peers, wire'[p] = wire[p], session'[p].outSequence \in Nat,
         session'[p].ratchet.CKs.step = 0, session'[p].ratchet.DHsLocal = Fresh(p)
  PROVE  Consecutive(p)'
<1>1. \A i \in DOMAIN wire[p] : wire[p][i].hdr.epub # Fresh(p)
  BY FreshIsNew DEF PairInv, PeerInv, WireInOrder
<1>2. session'[p].ratchet.CKs.step <= session'[p].outSequence
  OBVIOUS
<1> QED
  BY <1>1, <1>2 DEF Consecutive

LEMMA MirroredKept ==
  ASSUME PairType, NEW p \in Peers, NEW q, q = Other(p), Mirrored(p),
         Continues(wire[q], wire'[q]),
         \/ session'[p].replayWin = session[p].replayWin
         \/ \E n \in Nat : session'[p].replayWin = CheckAndAdd(session[p].replayWin, n),
         session'[p].ratchet.CKr = session[p].ratchet.CKr,
         session'[p].ratchet.DHrPeer = session[p].ratchet.DHrPeer
  PROVE  Mirrored(p)'
<1> DEFINE r == session[p].ratchet
           won == session'[p].replayWin
           v == wire'[q]
<1>1. session[p].replayWin \in Windows
  BY DEF PairType, Sessions
<1>2. ASSUME r.CKr # NoChain PROVE Taken(won, v, r.DHrPeer, r.CKr.step)
  <2>1. Taken(session[p].replayWin, wire[q], r.DHrPeer, r.CKr.step)
    BY <1>2 DEF Mirrored
  <2>2. won = session[p].replayWin \/ \E n \in Nat : won = CheckAndAdd(session[p].replayWin, n)
    OBVIOUS
  <2> HIDE DEF won, v
  <2>3. Continues(wire[q], v)
    BY DEF v
  <2> QED
    BY <1>1, <2>1, <2>2, <2>3, TakenKept
<1> QED
  BY <1>2 DEF Mirrored

LEMMA MirroredNone ==
  ASSUME NEW p \in Peers, session'[p].ratchet.CKr = NoChain PROVE Mirrored(p)'
  BY DEF Mirrored

\* A peer that does nothing while the other one sends or receives.
LEMMA OtherCounts ==
  ASSUME PairType, CountInv, NEW p \in Peers, NEW q, q = Other(p),
         session'[p] = session[p], wire'[p] = wire[p], Continues(wire[q], wire'[q])
  PROVE  PeerCounts(p)'
<1>1. SignedBy(p) /\ Consecutive(p) /\ Mirrored(p)
  BY DEF CountInv, PeerCounts
<1>2. SignedBy(p)'
  BY <1>1, SignedKept
<1>3. Consecutive(p)'
  BY <1>1, ConsecutiveKept
<1>4. Mirrored(p)'
  BY <1>1, MirroredKept
<1> QED
  BY <1>2, <1>3, <1>4 DEF PeerCounts

LEMMA WireContinues ==
  ASSUME PairType, NEW p \in Peers,
         \/ wire'[p] = wire[p]
         \/ \E pkt \in Packets : wire'[p] = Append(wire[p], pkt)
  PROVE  Continues(wire[p], wire'[p])
<1>1. wire[p] \in Seq(Packets)
  BY DEF PairType
<1>2. CASE wire'[p] = wire[p]
  BY <1>2 DEF Continues
<1>3. CASE \E pkt \in Packets : wire'[p] = Append(wire[p], pkt)
  BY <1>1, <1>3 DEF Continues
<1> QED
  BY <1>2, <1>3

\* A handshake packet is signed by its sender.
LEMMA HandshakeSigned ==
  ASSUME NEW p \in Peers, NEW type \in {"init", "resp"}, NEW key \in AnyKey
  PROVE  /\ HandshakePacket(p, type, key) \in Packets
         /\ VerifySignature(p, HandshakePacket(p, type, key))
<1>1. HandshakePacket(p, type, key) \in Packets
  BY HandshakeTyped
<1> DEFINE hdr == Header(p, type, 1, key)
           body == HandshakePayload(key)
<1> HIDE DEF hdr, body
<1>2. HandshakePacket(p, type, key) = Packet(p, hdr, body)
  BY DEF HandshakePacket, hdr, body
<1>3. VerifySignature(p, Packet(p, hdr, body))
  BY DEF VerifySignature, Packet, Sign, SignedBytes
<1> QED
  BY <1>1, <1>2, <1>3

\* A peer that has no chain yet, before or after the step, and sends at most a handshake packet.
LEMMA HandshakeCounts ==
  ASSUME PairType, CountInv, NEW p \in Peers, NEW q, q = Other(p),
         \/ wire'[p] = wire[p]
         \/ \E type \in {"init", "resp"}, key \in AnyKey :
                wire'[p] = Append(wire[p], HandshakePacket(p, type, key)),
         Consecutive(p)', session'[p].ratchet.CKr = NoChain,
         session'[q] = session[q], wire'[q] = wire[q]
  PROVE  PeerCounts(p)' /\ PeerCounts(q)'
<1>1. q \in Peers /\ Other(q) = p
  BY PeerFacts
<1>2. \/ wire'[p] = wire[p]
      \/ \E pkt \in Packets : wire'[p] = Append(wire[p], pkt) /\ VerifySignature(p, pkt)
  BY HandshakeSigned
<1>3. SignedBy(p)'
  BY <1>2, SignedKept DEF CountInv, PeerCounts
<1>4. Mirrored(p)'
  BY MirroredNone
<1>5. PeerCounts(q)'
  BY <1>1, <1>2, WireContinues, OtherCounts
<1> QED
  BY <1>3, <1>4, <1>5 DEF PeerCounts

LEMMA ConnectCounts == ASSUME PairInv, CountInv, Connect PROVE CountInv'
<1>1. PairType /\ Alice \in Peers /\ Bob \in Peers /\ Other(Alice) = Bob /\ Alice # Bob
  BY PeersAssumption DEF PairInv, Peers, Other
<1>2. /\ phase[Alice] # "open" /\ session' = session
      /\ wire' = [wire EXCEPT ![Alice] = Append(@, HandshakePacket(Alice, "init", Fresh(Alice)))]
  BY DEF Connect, CreateHandshakeInit
<1>3. Fresh(Alice) \in AnyKey
  BY <1>1, FreshIsNew
<1>4. session[Alice] = NewSession
  BY <1>1, <1>2, UntouchedFacts
<1>5. session'[Alice].ratchet.CKs = NoChain /\ session'[Alice].ratchet.CKr = NoChain
  BY <1>2, <1>4 DEF NewSession, NoRatchet, NewResponderRatchet
<1>6. Consecutive(Alice)'
  BY <1>1, <1>5, ConsecutiveNone
<1>7. /\ wire'[Alice] = Append(wire[Alice], HandshakePacket(Alice, "init", Fresh(Alice)))
      /\ wire'[Bob] = wire[Bob]
  BY <1>1, <1>2 DEF PairType
<1>8. \E type \in {"init", "resp"}, key \in AnyKey :
            wire'[Alice] = Append(wire[Alice], HandshakePacket(Alice, type, key))
  BY <1>3, <1>7
<1>9. PeerCounts(Alice)' /\ PeerCounts(Bob)'
  BY <1>1, <1>2, <1>5, <1>6, <1>7, <1>8, HandshakeCounts
<1> QED
  BY <1>9 DEF CountInv, Peers

LEMMA ReceiveInitCounts ==
  ASSUME PairInv, CountInv, NEW pkt, ReceiveInit(pkt) PROVE CountInv'
<1>1. PairType /\ Alice \in Peers /\ Bob \in Peers /\ Other(Bob) = Alice /\ Alice # Bob
  BY PeersAssumption DEF PairInv, Peers, Other
<1>2. session[Bob] = NewSession /\ Fresh(Bob) \in AnyKey
  BY <1>1, UntouchedFacts, FreshIsNew DEF ReceiveInit
<1>3. CASE ~HandshakeValid(pkt, "init", PeerKey(pkt))
  <2>1. session' = session /\ wire' = wire
    BY <1>3 DEF ReceiveInit
  <2>2. session'[Bob].ratchet.CKs = NoChain /\ session'[Bob].ratchet.CKr = NoChain
    BY <1>2, <2>1 DEF NewSession, NoRatchet, NewResponderRatchet
  <2>3. Consecutive(Bob)'
    BY <1>1, <2>2, ConsecutiveNone
  <2>4. PeerCounts(Alice)' /\ PeerCounts(Bob)'
    BY <1>1, <2>1, <2>2, <2>3, HandshakeCounts
  <2> QED
    BY <2>4 DEF CountInv, Peers
<1>4. CASE HandshakeValid(pkt, "init", PeerKey(pkt))
  <2> DEFINE f == Fresh(Bob)
             rk == MasterSecret(ComputeECDHSharedSecret(f, pkt.body.text))
             t == NewResponderRatchet(rk, f)
             s == Established(session[Bob], t)
  <2>1. /\ session' = [session EXCEPT ![Bob] = s]
        /\ wire' = [wire EXCEPT ![Bob] = Append(@, HandshakePacket(Bob, "resp", f))]
    BY <1>4 DEF ReceiveInit, ProcessHandshakeInit
  <2> HIDE DEF rk
  <2>2. t.CKs = NoChain /\ t.CKr = NoChain
    BY DEF NewResponderRatchet
  <2> HIDE DEF t
  <2>3. s.ratchet = t
    BY <1>1 DEF Established, Sessions, PairType
  <2> HIDE DEF s, f
  <2>4. /\ session'[Bob] = s /\ session'[Alice] = session[Alice] /\ wire'[Alice] = wire[Alice]
        /\ wire'[Bob] = Append(wire[Bob], HandshakePacket(Bob, "resp", f))
    BY <1>1, <2>1 DEF PairType
  <2>5. session'[Bob].ratchet.CKs = NoChain /\ session'[Bob].ratchet.CKr = NoChain
    BY <2>2, <2>3, <2>4
  <2>6. Consecutive(Bob)'
    BY <1>1, <2>5, ConsecutiveNone
  <2>7. \E type \in {"init", "resp"}, key \in AnyKey :
            wire'[Bob] = Append(wire[Bob], HandshakePacket(Bob, type, key))
    BY <1>2, <2>4 DEF f
  <2>8. PeerCounts(Alice)' /\ PeerCounts(Bob)'
    BY <1>1, <2>4, <2>5, <2>6, <2>7, HandshakeCounts
  <2> QED
    BY <2>8 DEF CountInv, Peers
<1> QED
  BY <1>3, <1>4

LEMMA ReceiveRespCounts ==
  ASSUME PairInv, CountInv, NEW pkt, ReceiveResp(pkt) PROVE CountInv'
<1>1. PairType /\ Alice \in Peers /\ Bob \in Peers /\ Other(Alice) = Bob /\ Alice # Bob
  BY PeersAssumption DEF PairInv, Peers, Other
<1>2. session[Alice] = NewSession /\ Fresh(Alice) \in AnyKey /\ wire' = wire
  BY <1>1, UntouchedFacts, FreshIsNew DEF ReceiveResp
<1>3. CASE ~HandshakeValid(pkt, "resp", Bob)
  <2>1. session' = session
    BY <1>3 DEF ReceiveResp
  <2>2. session'[Alice].ratchet.CKs = NoChain /\ session'[Alice].ratchet.CKr = NoChain
    BY <1>2, <2>1 DEF NewSession, NoRatchet, NewResponderRatchet
  <2>3. Consecutive(Alice)'
    BY <1>1, <2>2, ConsecutiveNone
  <2>4. PeerCounts(Alice)' /\ PeerCounts(Bob)'
    BY <1>1, <1>2, <2>1, <2>2, <2>3, HandshakeCounts
  <2> QED
    BY <2>4 DEF CountInv, Peers
<1>4. CASE HandshakeValid(pkt, "resp", Bob)
  <2> DEFINE f == Fresh(Alice)
             remote == pkt.body.text
             rk == MasterSecret(ComputeECDHSharedSecret(ephPriv, remote))
             rk2 == Append(rk, ComputeECDHSharedSecret(f, remote))
             t == NewInitiatorRatchet(rk, f, remote)
             s == Established(session[Alice], t)
  <2>1. session' = [session EXCEPT ![Alice] = s]
    BY <1>4 DEF ReceiveResp, CompleteInitiatorHandshake
  <2> HIDE DEF remote, rk
  <2>2. t = [DHsLocal |-> f, DHrPeer |-> remote, RK |-> rk2,
             CKs |-> [root |-> rk2, step |-> 0], CKr |-> NoChain,
             Ns |-> 1, Nr |-> 1, PN |-> 0, skippedKeys |-> <<>>]
    BY DEF NewInitiatorRatchet, DeriveRootStep
  <2> HIDE DEF rk2, t, f
  <2>3. t.CKs.step = 0 /\ t.CKr = NoChain /\ t.DHsLocal = f
    BY <2>2
  <2>4. s.ratchet = t /\ s.outSequence = session[Alice].outSequence
    BY <1>1 DEF Established, Sessions, PairType
  <2> HIDE DEF s
  <2>5. session'[Alice] = s /\ session'[Bob] = session[Bob]
    BY <1>1, <2>1 DEF PairType
  <2>6. /\ session'[Alice].ratchet.CKs.step = 0 /\ session'[Alice].ratchet.CKr = NoChain
        /\ session'[Alice].ratchet.DHsLocal = Fresh(Alice)
        /\ session'[Alice].outSequence \in Nat
    <3>1. session[Alice].outSequence \in Nat
      BY <1>1 DEF PairType, Sessions
    <3> QED
      BY <2>3, <2>4, <2>5, <3>1 DEF f
  <2>7. Consecutive(Alice)'
    BY <1>1, <1>2, <2>6, ConsecutiveAnew
  <2>8. PeerCounts(Alice)' /\ PeerCounts(Bob)'
    BY <1>1, <1>2, <2>5, <2>6, <2>7, HandshakeCounts
  <2> QED
    BY <2>8 DEF CountInv, Peers
<1> QED
  BY <1>3, <1>4

\* Sealing takes the next number and makes the next step of the chain, whether or not the
\* packet reaches the wire.
LEMMA SealCounts ==
  ASSUME PairInv, CountInv, NEW p \in Peers, NEW reaches \in BOOLEAN, Seal(p, reaches)
  PROVE  CountInv'
<1> DEFINE pkt == NextPacket(p)
           r == session[p].ratchet
           t == session'[p].ratchet
           n == session[p].outSequence
<1>1. PICK q : q = Other(p)
  OBVIOUS
<1>2. PairType /\ q \in Peers /\ q # p /\ Other(q) = p /\ \A x \in Peers : x = p \/ x = q
  BY <1>1, PeerFacts DEF PairInv
<1>3. Sealing(p, pkt)
  BY SealShape
<1>4. wire' = [wire EXCEPT ![p] = Append(@, pkt)] \/ wire' = wire
  BY DEF Seal, NextPacket
<1> HIDE DEF pkt
<1>5. /\ r.CKs # NoChain /\ pkt \in Packets /\ VerifySignature(p, pkt)
      /\ session' = [session EXCEPT ![p] = session'[p]]
      /\ session'[p].replayWin = session[p].replayWin /\ session'[p].outSequence = n + 1
      /\ t.CKs = [root |-> r.CKs.root, step |-> r.CKs.step + 1]
      /\ t.CKr = r.CKr /\ t.DHsLocal = r.DHsLocal /\ t.DHrPeer = r.DHrPeer
      /\ pkt.hdr.seq = n + 1
  BY <1>3 DEF Sealing
<1>6. /\ session'[q] = session[q] /\ wire'[q] = wire[q]
      /\ wire'[p] = Append(wire[p], pkt) \/ wire'[p] = wire[p]
  BY <1>2, <1>4, <1>5 DEF PairType
<1>7. n \in Nat /\ r.CKs.step \in Nat
  BY <1>2 DEF PairType, Sessions, Ratchets, Chains
<1>8. SignedBy(p)'
  BY <1>2, <1>5, <1>6, SignedKept DEF CountInv, PeerCounts
<1>9. Consecutive(p)'
  <2>1. /\ r.CKs.step <= n
        /\ \A i \in DOMAIN wire[p] : wire[p][i].hdr.epub = r.DHsLocal
             => wire[p][i].hdr.seq \in n - r.CKs.step + 1 .. n
    BY <1>5 DEF CountInv, PeerCounts, Consecutive
  <2>2. t.CKs.step = r.CKs.step + 1
    BY <1>5
  <2>3. wire[p] \in Seq(Packets)
    BY <1>2 DEF PairType
  <2>4. ASSUME NEW i \in DOMAIN wire'[p]
        PROVE  \/ i \in DOMAIN wire[p] /\ wire'[p][i] = wire[p][i]
               \/ wire'[p][i] = pkt
    BY <1>5, <1>6, <2>3
  <2>5. PICK m \in Nat : m = session'[p].outSequence /\ m = n + 1
    BY <1>5, <1>7
  <2>6. PICK k \in Nat : k = t.CKs.step /\ k = r.CKs.step + 1
    BY <1>7, <2>2
  <2>7. ASSUME NEW i \in DOMAIN wire'[p], wire'[p][i].hdr.epub = t.DHsLocal
        PROVE  wire'[p][i].hdr.seq \in m - k + 1 .. m
    <3>1. CASE wire'[p][i] = pkt
      BY <1>5, <1>7, <2>5, <2>6, <3>1
    <3>2. CASE i \in DOMAIN wire[p] /\ wire'[p][i] = wire[p][i]
      <4>1. wire'[p][i].hdr.seq \in n - r.CKs.step + 1 .. n
        BY <1>5, <2>1, <2>7, <3>2
      <4> QED
        BY <1>7, <2>5, <2>6, <4>1
    <3> QED
      BY <2>4, <2>7, <3>1, <3>2
  <2>8. k <= m /\ \A i \in DOMAIN wire'[p] : wire'[p][i].hdr.epub = t.DHsLocal
                    => wire'[p][i].hdr.seq \in m - k + 1 .. m
    BY <1>7, <2>1, <2>5, <2>6, <2>7
  <2> QED
    BY <2>5, <2>6, <2>8 DEF Consecutive
<1>10. Mirrored(p)'
  <2>1. Continues(wire[q], wire'[q]) /\ Mirrored(p)
    BY <1>2, <1>6, WireContinues DEF CountInv, PeerCounts
  <2> QED
    BY <1>1, <1>2, <1>5, <2>1, MirroredKept
<1>11. PeerCounts(q)'
  BY <1>1, <1>2, <1>5, <1>6, WireContinues, OtherCounts
<1> QED
  BY <1>2, <1>8, <1>9, <1>10, <1>11 DEF CountInv, PeerCounts

\* A number taken in vain is taken before there is a sending chain.
LEMMA RefusedCounts ==
  ASSUME PairInv, CountInv, NEW p \in Peers, SendRefused(p)
  PROVE  CountInv'
<1>1. PICK q : q = Other(p)
  OBVIOUS
<1>2. PairType /\ q \in Peers /\ q # p /\ Other(q) = p /\ \A x \in Peers : x = p \/ x = q
  BY <1>1, PeerFacts DEF PairInv
<1>3. /\ phase[p] = "open" /\ EncryptRefused(session[p]) /\ wire' = wire
      /\ session' = [session EXCEPT ![p] = AfterRefusedEncrypt(session[p])]
  BY DEF SendRefused
<1>4. session[p] \in Sessions /\ session[p].isEstablished
  BY <1>2, <1>3 DEF PairInv, PeerInv, Opens, PairType
<1>5. session[p].ratchet.CKs = NoChain
  BY <1>3, <1>4 DEF EncryptRefused, CanEncrypt
<1>6. /\ AfterRefusedEncrypt(session[p]).ratchet = session[p].ratchet
      /\ AfterRefusedEncrypt(session[p]).replayWin = session[p].replayWin
  BY <1>4 DEF AfterRefusedEncrypt, Sessions
<1>7. /\ session'[p].ratchet = session[p].ratchet
      /\ session'[p].replayWin = session[p].replayWin /\ session'[q] = session[q]
      /\ wire'[p] = wire[p] /\ wire'[q] = wire[q]
  BY <1>2, <1>3, <1>6 DEF PairType
<1>8. Continues(wire[p], wire'[p]) /\ Continues(wire[q], wire'[q])
  BY <1>2, <1>7, WireContinues
<1>9. SignedBy(p)'
  BY <1>2, <1>7, SignedKept DEF CountInv, PeerCounts
<1>10. Consecutive(p)'
  BY <1>5, <1>7, ConsecutiveNone
<1>11. Mirrored(p)'
  BY <1>1, <1>2, <1>7, <1>8, MirroredKept DEF CountInv, PeerCounts
<1>12. PeerCounts(q)'
  BY <1>1, <1>2, <1>7, <1>8, OtherCounts
<1> QED
  BY <1>2, <1>9, <1>10, <1>11, <1>12 DEF CountInv, PeerCounts

LEMMA StutterCounts ==
  ASSUME PairType, CountInv, session' = session, wire' = wire PROVE CountInv'
<1> SUFFICES ASSUME NEW p \in Peers PROVE PeerCounts(p)'
  BY DEF CountInv
<1>1. PICK q : q = Other(p)
  OBVIOUS
<1>2. Continues(wire[q], wire'[q])
  BY <1>1, PeerFacts, WireContinues
<1> QED
  BY <1>1, <1>2, OtherCounts

-----------------------------------------------------------------------------
\* What arrives with a signature that fits is on the wire as it is.
LEMMA SignedArrives ==
  ASSUME PairType, NEW p \in Peers, NEW q, q = Other(p), SignedBy(q),
         NEW pkt \in Arriving(p), VerifySignature(q, pkt)
  PROVE  \E i \in DOMAIN wire[q] : /\ wire[q][i].hdr.seq = pkt.hdr.seq
                                   /\ wire[q][i].hdr.epub = pkt.hdr.epub
<1> DEFINE w == wire[q]
<1>1. w \in Seq(Packets)
  BY PeerFacts DEF PairType
<1>2. PICK j \in 1 .. Len(w) : pkt = w[j] \/ pkt \in Damaged(w[j])
  BY DEF Arriving, OnWire
<1>3. j \in DOMAIN w /\ w[j] \in Packets
  BY <1>1
<1>4. pkt \notin Damaged(w[j])
  <2> SUFFICES ASSUME pkt \in Damaged(w[j]) PROVE FALSE
    OBVIOUS
  <2> DEFINE u == w[j]
  <2>1. PICK n \in DamagedNumbers \ {u.hdr.seq} : pkt = [u EXCEPT !.hdr.seq = n]
    BY DEF Damaged
  <2>2. u \in Packets /\ u.hdr \in Headers /\ VerifySignature(q, u)
    BY <1>3 DEF Packets, SignedBy
  <2> HIDE DEF u
  <2>3. pkt.sig = u.sig /\ pkt.hdr.seq = n
    BY <2>1, <2>2 DEF Packets, Headers
  <2>4. u.sig.bytes[1] = u.hdr /\ pkt.sig.bytes[1] = pkt.hdr
    BY <2>2 DEF VerifySignature, Sign, SignedBytes
  <2> QED
    BY <2>1, <2>3, <2>4
<1> QED
  BY <1>2, <1>3, <1>4

\* A step of the receiving chain goes with a number the window had not taken before.
LEMMA DataCounts ==
  ASSUME PairInv, CountInv, NEW p \in Peers, NEW pkt \in Arriving(p), ReceiveData(p, pkt)
  PROVE  CountInv'
<1> DEFINE s == session[p]
           r == s.ratchet
           n == pkt.hdr.seq
           epub == pkt.hdr.epub
<1>1. PICK q : q = Other(p)
  OBVIOUS
<1>2. PairType /\ q \in Peers /\ q # p /\ Other(q) = p /\ \A x \in Peers : x = p \/ x = q
  BY <1>1, PeerFacts DEF PairInv
<1>3. pkt \in Packets /\ n \in Nat /\ epub \in AnyKey
  BY ArrivingFromWire DEF FromWire, Packets, Headers
<1>4. PICK d : Handled(p, pkt, d)
  BY <1>3, HandledData
<1> DEFINE t == d.session.ratchet
           won == CheckAndAdd(s.replayWin, n)
<1>5. wire' = wire /\ phase[p] = "open"
  BY DEF ReceiveData
<1>6. session'[p] = d.session /\ session'[q] = session[q]
  BY <1>2, <1>4 DEF Handled, PairType
<1>7. /\ d.session \in Sessions /\ d.session.outSequence = s.outSequence
      /\ d.session.replayWin = won
      /\ \/ t = r
         \/ /\ Accepts(s.replayWin, n) /\ VerifySignature(q, pkt)
            /\ r.DHrPeer = epub /\ r.CKr # NoChain /\ Advanced(r, t)
         \/ /\ Accepts(s.replayWin, n) /\ VerifySignature(q, pkt)
            /\ Stepped(r, t, epub, Fresh(p))
  BY <1>1, <1>4 DEF Handled, Decrypted
<1>8. s \in Sessions /\ s.replayWin \in Windows /\ s.outSequence \in Nat /\ r \in Ratchets
  BY <1>2 DEF PairType, Sessions
<1>9. SignedBy(p) /\ Consecutive(p) /\ Mirrored(p) /\ SignedBy(q)
  BY <1>2 DEF CountInv, PeerCounts
<1>10. SignedBy(p)'
  BY <1>2, <1>5, <1>9, SignedKept
<1>11. wire'[p] = wire[p] /\ wire'[q] = wire[q]
  BY <1>5
<1>12. Continues(wire[q], wire'[q]) /\ Continues(wire[p], wire'[p])
  BY <1>2, <1>5, WireContinues
<1>13. PeerCounts(q)'
  BY <1>1, <1>2, <1>6, <1>11, <1>12, OtherCounts
<1>14. CASE t = r
  <2>1. session'[p].ratchet = session[p].ratchet /\ session'[p].outSequence = s.outSequence
        /\ session'[p].replayWin = won
    BY <1>6, <1>7, <1>14
  <2>2. Consecutive(p)'
    BY <1>9, <1>11, <2>1, ConsecutiveKept
  <2>3. Mirrored(p)'
    BY <1>1, <1>2, <1>3, <1>9, <1>12, <2>1, MirroredKept
  <2> QED
    BY <1>2, <1>10, <1>13, <2>2, <2>3 DEF CountInv, PeerCounts
<1>15. ASSUME Accepts(s.replayWin, n), VerifySignature(q, pkt)
       PROVE  \E i \in DOMAIN wire[q] : wire[q][i].hdr.seq = n /\ wire[q][i].hdr.epub = epub
  BY <1>1, <1>2, <1>9, <1>15, SignedArrives
<1>16. CASE /\ Accepts(s.replayWin, n) /\ VerifySignature(q, pkt)
            /\ r.DHrPeer = epub /\ r.CKr # NoChain /\ Advanced(r, t)
  <2>1. /\ t.CKr = [root |-> r.CKr.root, step |-> r.CKr.step + 1] /\ t.CKs = r.CKs
        /\ t.DHsLocal = r.DHsLocal /\ t.DHrPeer = r.DHrPeer
    BY <1>16 DEF Advanced
  <2>2. t.CKr.root = r.CKr.root /\ t.CKr.step = r.CKr.step + 1 /\ r.CKr.step \in Nat
    BY <1>8, <2>1 DEF Ratchets, Chains
  <2>3. Consecutive(p)'
    BY <1>6, <1>7, <1>9, <1>11, <2>1, ConsecutiveKept
  <2>4. /\ Taken(s.replayWin, wire[q], epub, r.CKr.step)
        /\ \E k \in Nat :
             r.CKr.root[Len(r.CKr.root)] = ComputeECDHSharedSecret(<<p, k>>, epub)
    BY <1>1, <1>9, <1>16 DEF Mirrored
  <2>5. Taken(won, wire[q], epub, r.CKr.step + 1)
    BY <1>3, <1>8, <1>15, <1>16, <2>2, <2>4, TakenNext
  <2> HIDE DEF won, t, epub
  <2>6. /\ Taken(won, wire'[q], t.DHrPeer, t.CKr.step)
        /\ \E k \in Nat :
             t.CKr.root[Len(t.CKr.root)] = ComputeECDHSharedSecret(<<p, k>>, t.DHrPeer)
    BY <1>11, <1>16, <2>1, <2>2, <2>4, <2>5
  <2>7. Mirrored(p)'
    BY <1>1, <1>6, <1>7, <2>6 DEF Mirrored, t
  <2> QED
    BY <1>2, <1>10, <1>13, <2>3, <2>7 DEF CountInv, PeerCounts
<1>17. CASE /\ Accepts(s.replayWin, n) /\ VerifySignature(q, pkt)
            /\ Stepped(r, t, epub, Fresh(p))
  <2>1. /\ t.CKr = [root |-> NewChain(r, epub).root, step |-> 1]
        /\ t.CKs = [root |-> t.RK, step |-> 0]
        /\ t.DHsLocal = Fresh(p) /\ t.DHrPeer = epub
    BY <1>17 DEF Stepped
  <2>2. t.CKs.step = 0 /\ t.CKr.step = 1 /\ t.CKr.root = NewChain(r, epub).root
    BY <2>1
  <2>3. Consecutive(p)'
    BY <1>6, <1>7, <1>8, <1>11, <2>1, <2>2, ConsecutiveAnew
  <2>4. Taken(won, wire[q], epub, 0 + 1)
    BY <1>3, <1>8, <1>15, <1>17, TakenNone, TakenNext
  <2>5. PICK k \in Nat : r.DHsLocal = <<p, k>>
    <3>1. KeysOwned(p) /\ nkeys[p] \in Nat
      BY <1>2 DEF PairInv, PeerInv, PairType
    <3> QED
      BY <1>5, <3>1 DEF KeysOwned, KeysOf
  <2>6. t.CKr.root[Len(t.CKr.root)] = ComputeECDHSharedSecret(<<p, k>>, epub)
    <3> DEFINE x == ComputeECDHSharedSecret(r.DHsLocal, epub)
               rk == Append(r.RK, x)
    <3>1. r.RK \in RootKeys /\ r.DHsLocal \in AnyKey
      BY <1>8 DEF Ratchets
    <3>2. Len(rk) = Len(r.RK) + 1 /\ rk[Len(r.RK) + 1] = x
      BY <1>3, <3>1, RootGrows
    <3>3. t.CKr.root = rk
      BY <2>2 DEF NewChain
    <3> HIDE DEF x, rk, t
    <3>4. t.CKr.root[Len(t.CKr.root)] = x
      BY <3>2, <3>3
    <3> QED
      BY <2>5, <3>4 DEF x
  <2> HIDE DEF won, t, epub
  <2>7. /\ Taken(won, wire'[q], t.DHrPeer, t.CKr.step)
        /\ \E j \in Nat :
             t.CKr.root[Len(t.CKr.root)] = ComputeECDHSharedSecret(<<p, j>>, t.DHrPeer)
    BY <1>11, <2>1, <2>2, <2>4, <2>6
  <2>8. Mirrored(p)'
    BY <1>1, <1>6, <1>7, <2>7 DEF Mirrored, t
  <2> QED
    BY <1>2, <1>10, <1>13, <2>3, <2>8 DEF CountInv, PeerCounts
<1> QED
  BY <1>7, <1>14, <1>16, <1>17

LEMMA InitCounts == PairInit => CountInv
<1> SUFFICES ASSUME PairInit, NEW p \in Peers PROVE PeerCounts(p)
  BY DEF CountInv
<1>1. session[p] = NewSession /\ wire[p] = <<>>
  BY DEF PairInit
<1>2. session[p].ratchet.CKs = NoChain /\ session[p].ratchet.CKr = NoChain
  BY <1>1 DEF NewSession, NoRatchet, NewResponderRatchet
<1>3. DOMAIN wire[p] = {}
  BY <1>1
<1> QED
  BY <1>2, <1>3 DEF PeerCounts, SignedBy, Consecutive, Mirrored

LEMMA NextCounts == PairInv /\ CountInv /\ [UnorderedNext]_pairVars => CountInv'
<1> SUFFICES ASSUME PairInv, CountInv, [UnorderedNext]_pairVars PROVE CountInv'
  OBVIOUS
<1>1. PairType
  BY DEF PairInv
<1>2. CASE UNCHANGED pairVars
  BY <1>1, <1>2, StutterCounts DEF pairVars, peerVars
<1>3. CASE Connect
  BY <1>3, ConnectCounts
<1>4. ASSUME NEW p \in Peers, Send(p) \/ SendFails(p) PROVE CountInv'
  <2>1. PICK reaches \in BOOLEAN : Seal(p, reaches)
    BY <1>4 DEF Send, SendFails
  <2> QED
    BY <2>1, SealCounts
<1>5. ASSUME NEW p \in Peers, SendRefused(p) PROVE CountInv'
  BY <1>5, RefusedCounts
<1>6. ASSUME NEW p \in Peers, Compromise(p) PROVE CountInv'
  BY <1>1, <1>6, StutterCounts DEF Compromise, peerVars
<1>7. ASSUME NEW p \in Peers, ReceiveAny(p) PROVE CountInv'
  <2>1. PICK pkt \in Arriving(p) : \/ p = Bob /\ ReceiveInit(pkt)
                                   \/ p = Alice /\ ReceiveResp(pkt)
                                   \/ ReceiveData(p, pkt)
    BY <1>7 DEF ReceiveAny
  <2> QED
    BY <2>1, ReceiveInitCounts, ReceiveRespCounts, DataCounts
<1>8. ASSUME NEW p \in Peers, HandshakeFails(p) PROVE CountInv'
  BY <1>1, <1>8, StutterCounts DEF HandshakeFails
<1> QED
  BY <1>2, <1>3, <1>4, <1>5, <1>6, <1>7, <1>8 DEF UnorderedNext

\* Chains of one root were made from the same two keys, and the packets under the sender's
\* key are no more than the steps of its chain.
LEMMA InvNeverAhead == PairInv /\ CountInv => ReceiverNeverAhead
<1> SUFFICES ASSUME PairInv, CountInv, NEW p \in Peers,
                    session[p].ratchet.CKr # NoChain,
                    session[p].ratchet.CKr.root = session[Other(p)].ratchet.CKs.root
             PROVE  session[p].ratchet.CKr.step <= session[Other(p)].ratchet.CKs.step
  BY DEF ReceiverNeverAhead
<1>1. PICK q : q = Other(p)
  OBVIOUS
<1> DEFINE r == session[p].ratchet
           s == session[q].ratchet
           n == session[q].outSequence
           last == s.RK[Len(s.RK)]
<1>2. PairType /\ PeerInv(p) /\ PeerInv(q) /\ q \in Peers /\ q # p /\ Other(q) = p
  BY <1>1, PeerFacts DEF PairInv
<1>3. phase[p] = "open"
  <2> SUFFICES ASSUME phase[p] # "open" PROVE FALSE
    OBVIOUS
  <2>1. session[p] = NewSession
    BY UntouchedFacts
  <2> QED
    BY <2>1 DEF NewSession, NoRatchet, NewResponderRatchet
<1>4. r.CKr.root # <<>>
  BY <1>2, <1>3 DEF PeerInv, Opens, Shaped
<1>5. s.CKs # NoChain
  BY <1>1, <1>4 DEF NoChain
<1>6. phase[q] = "open"
  <2> SUFFICES ASSUME phase[q] # "open" PROVE FALSE
    OBVIOUS
  <2>1. session[q] = NewSession
    BY <1>2, UntouchedFacts
  <2> QED
    BY <1>5, <2>1 DEF NewSession, NoRatchet, NewResponderRatchet
<1>7. r.CKr.root = s.RK
  BY <1>1, <1>2, <1>5, <1>6 DEF PeerInv, Opens, Shaped
<1>8. /\ s.DHsLocal \in KeysOf(q) /\ s.DHrPeer \in KeysOf(p)
      /\ last = ComputeECDHSharedSecret(s.DHsLocal, s.DHrPeer)
  BY <1>2, <1>5, <1>6 DEF PeerInv, KeysOwned
<1>9. Mirrored(p) /\ Consecutive(q)
  BY <1>2 DEF CountInv, PeerCounts
<1>10. PICK k \in Nat : last = ComputeECDHSharedSecret(<<p, k>>, r.DHrPeer)
  BY <1>7, <1>9 DEF Mirrored
<1>11. r.DHrPeer = s.DHsLocal
  <2>1. s.DHsLocal # <<p, k>>
    BY <1>2, <1>8 DEF KeysOf
  <2> HIDE DEF last, r, s
  <2>2. s.DHsLocal \in {<<p, k>>, r.DHrPeer}
    BY <1>8, <1>10 DEF ComputeECDHSharedSecret
  <2> QED
    BY <2>1, <2>2
<1>12. n \in Nat /\ s.CKs.step \in Nat /\ r.CKr.step \in Nat
  BY <1>2 DEF PairType, Sessions, Ratchets, Chains
<1>13. Taken(session[p].replayWin, wire[q], s.DHsLocal, r.CKr.step)
  BY <1>1, <1>9, <1>11 DEF Mirrored
<1>14. PICK A \in SUBSET Nat :
        /\ IsFiniteSet(A) /\ Cardinality(A) = r.CKr.step
        /\ \A a \in A : \E i \in DOMAIN wire[q] :
              wire[q][i].hdr.seq = a /\ wire[q][i].hdr.epub = s.DHsLocal
  BY <1>13 DEF Taken
<1> DEFINE B == n - s.CKs.step + 1 .. n
<1>15. s.CKs.step <= n
       /\ \A i \in DOMAIN wire[q] : wire[q][i].hdr.epub = s.DHsLocal => wire[q][i].hdr.seq \in B
  BY <1>5, <1>9 DEF Consecutive
<1>16. A \subseteq B
  BY <1>14, <1>15
<1>17. IsFiniteSet(B) /\ Cardinality(B) = s.CKs.step
  <2>1. n - s.CKs.step + 1 \in Int /\ n \in Int
    BY <1>12
  <2>2. IsFiniteSet(B)
        /\ Cardinality(B) = IF n - s.CKs.step + 1 > n THEN 0 ELSE n - (n - s.CKs.step + 1) + 1
    BY <2>1, FS_Interval
  <2> QED
    BY <1>12, <2>2
<1>18. Cardinality(A) <= Cardinality(B)
  BY <1>16, <1>17, FS_Subset
<1> QED
  BY <1>1, <1>14, <1>17, <1>18

\* A receiving chain is never ahead of the sending chain it mirrors, over any network:
\* RatchetDecrypt advances the chain once for each accepted and signed packet, and
\* CheckAndAdd accepts a number once, so no repeated or damaged packet moves it past what
\* RatchetEncrypt of the other peer has sealed.
THEOREM ReceiverStaysBehind == UnorderedSpec => []ReceiverNeverAhead
<1>1. PairInv /\ CountInv /\ [UnorderedNext]_pairVars => (PairInv /\ CountInv)'
  BY NextPair, NextCounts
<1> QED
  BY <1>1, PairInitInv, InitCounts, InvNeverAhead, PTL DEF UnorderedSpec
=============================================================================
