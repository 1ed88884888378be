--------------------------- MODULE RatchetPairProofs ---------------------------
(***************************************************************************)
(* Proofs about RatchetPair: whichever messages are lost, each one that is *)
(* handed over opens, and the keys set aside are those of the messages     *)
(* that were passed over.  Both rest on the two ratchets staying one DH    *)
(* step apart, and on the numbers within a chain having no gap.            *)
(***************************************************************************)
EXTENDS RatchetPair, TLAPS

-----------------------------------------------------------------------------
\* The types of keys, chains, ratchets and messages.

AnyKey == (Peers \X Nat) \cup {NoKey}

RootKeys == Seq(SUBSET AnyKey)

Chains == [root : RootKeys, step : Nat]

Caches == UNION {[D -> Chains] : D \in SUBSET (AnyKey \X Nat)}

Ratchets ==
    [DHsLocal : AnyKey, DHrPeer : AnyKey, RK : RootKeys, CKs : Chains, CKr : Chains,
     Ns : Nat, Nr : Nat, PN : Nat, skippedKeys : Caches]

Headers == [epub : AnyKey, sequence : Nat]

Messages ==
    [epub : AnyKey, sequence : Nat, aad : Headers,
     box : [mk : Chains, aad : Headers, text : Nat]]

PairType ==
    /\ ratchet \in [Peers -> Ratchets]
    /\ nkeys \in [Peers -> Nat]
    /\ wire \in [Peers -> Seq(Messages)]
    /\ received \in [Peers -> SUBSET Nat]
    /\ opened \in [Peers -> SUBSET Nat]

-----------------------------------------------------------------------------
(* The inductive invariant.                                                *)

\* The key pairs a peer has generated.
KeysOf(p) == {<<p, n>> : n \in 1 .. nkeys[p]}

KeysKnown(p) ==
    /\ ratchet[p].DHsLocal \in KeysOf(p)
    /\ ratchet[p].DHrPeer \in KeysOf(Other(p)) \cup {NoKey}
    /\ \A i \in DOMAIN wire[p] : wire[p][i].epub \in KeysOf(p)

\* A message that is the n-th on the wire and bears the key epub and the number seq comes
\* right after those with the key epub and the numbers 1 .. seq-1.
Run(w, n, epub, seq) ==
    /\ seq \in 1 .. n
    /\ \A j \in DOMAIN w : j < n =>
        /\ w[j].epub = epub <=> j > n - seq
        /\ w[j].epub = epub => w[j].sequence = seq - (n - j)

\* Messages are numbered without a gap, from 1 under each new key, and sealed with the key
\* that the chain has at this number.
InRuns(p) ==
    \A i \in DOMAIN wire[p] :
        LET m == wire[p][i]
        IN  /\ Run(wire[p], i, m.epub, m.sequence)
            /\ m.box.aad = m.aad
            /\ m.box.mk.root # <<>> /\ m.box.mk.step = m.sequence - 1

\* The next message continues the run, with a sending chain that branches off the root.
Sends(p) ==
    LET r == ratchet[p]
    IN  /\ r.RK # <<>>
        /\ r.CKs = NoChain => r.DHrPeer = NoKey /\ wire[p] = <<>>
        /\ r.CKs # NoChain =>
            /\ r.CKs.root = r.RK /\ r.CKs.step = r.Ns - 1
            /\ Run(wire[p], Len(wire[p]) + 1, r.DHsLocal, r.Ns)

\* The i-th message of the other peer is the latest that p was handed, and the receiving
\* chain stands right behind it.
Latest(p, i) ==
    LET w == wire[Other(p)]
    IN  /\ i \in received[p]
        /\ \A j \in received[p] : j <= i
        /\ w[i].epub = ratchet[p].DHrPeer /\ w[i].sequence = ratchet[p].Nr - 1

Reads(p) ==
    LET r == ratchet[p]
    IN  /\ received[p] \subseteq DOMAIN wire[Other(p)]
        /\ r.CKr = NoChain => received[p] = {}
        /\ r.CKr # NoChain => r.CKr.step = r.Nr - 1 /\ \E i \in received[p] : Latest(p, i)

\* The messages that p may still be handed.
Pending(p) == {j \in DOMAIN wire[Other(p)] : \A k \in received[p] : k < j}

\* The ratchet r has made the latest DH step, and s the one before.
Linked(r, s) ==
    /\ r.RK = Append(s.RK, ComputeECDHSharedSecret(r.DHsLocal, s.DHsLocal))
    /\ r.DHrPeer = s.DHsLocal
    /\ s.DHrPeer # r.DHsLocal
    /\ r.CKs # NoChain
    /\ s.CKs # NoChain => r.CKr.root = s.CKs.root

\* What is under way to the peer ahead belongs to the chain it reads.
ToAhead(p) ==
    \A j \in Pending(p) :
        /\ wire[Other(p)][j].epub = ratchet[p].DHrPeer
        /\ wire[Other(p)][j].box.mk.root = ratchet[p].CKr.root

\* What is under way from the peer ahead belongs to its new chain or to its old one.
FromAhead(p) ==
    LET r == ratchet[p]
        s == ratchet[Other(p)]
    IN  \A j \in Pending(Other(p)) :
            \/ wire[p][j].epub = r.DHsLocal /\ wire[p][j].box.mk.root = r.RK
            \/ wire[p][j].epub = s.DHrPeer /\ wire[p][j].box.mk.root = s.CKr.root

Ahead(p) == Linked(ratchet[p], ratchet[Other(p)]) /\ ToAhead(p) /\ FromAhead(p)

PeerInv(p) == KeysKnown(p) /\ InRuns(p) /\ Sends(p) /\ Reads(p)

PairInv ==
    /\ PairType
    /\ \A p \in Peers : PeerInv(p)
    /\ \E p \in Peers : Ahead(p)

-----------------------------------------------------------------------------
(* The operators of the ratchet.                                           *)

LEMMA OtherPeer ==
  ASSUME NEW p \in Peers
  PROVE  Other(p) \in Peers /\ Other(p) # p /\ Other(Other(p)) = p /\ Peers = {p, Other(p)}
  BY RatchetPairAssumption DEF Peers, Other

LEMMA ChainTypes ==
  /\ NoChain \in Chains
  /\ \A c \in Chains : c # NoChain <=> c.root # <<>> \/ c.step # 0
  /\ \A rk \in RootKeys : \A a, b \in AnyKey : Append(rk, {a, b}) \in RootKeys
<1>1. \A c \in Chains : c = [root |-> c.root, step |-> c.step]
  BY DEF Chains
<1> QED BY <1>1 DEF NoChain, Chains, RootKeys

\* RatchetEncrypt with a sending chain takes its key and advances it.
LEMMA EncryptOp ==
  ASSUME NEW r \in Ratchets, NEW fresh, r.CKs # NoChain
  PROVE  LET e == RatchetEncrypt(r, fresh)
         IN  /\ e.epub = r.DHsLocal /\ e.mk = r.CKs /\ e.sequence = r.Ns
             /\ e.ratchet = [r EXCEPT !.CKs = [root |-> r.CKs.root, step |-> r.CKs.step + 1],
                                      !.Ns = r.Ns + 1]
<1>1. NextChainKey(r.CKs) = [root |-> r.CKs.root, step |-> r.CKs.step + 1]
  BY DEF NextChainKey, Ratchets, Chains
<1> QED BY <1>1 DEF RatchetEncrypt, Sending, MessageKey

\* The loop of RatchetDecrypt, from a chain that is not past the position.
SkipNew(r, epub, sequence) == {<<epub, i>> : i \in r.Nr .. sequence - 1}

Skipped(r, s, epub, sequence) ==
    /\ DOMAIN s.skippedKeys = DOMAIN r.skippedKeys \cup SkipNew(r, epub, sequence)
    /\ \A k \in SkipNew(r, epub, sequence) :
        s.skippedKeys[k] = [root |-> r.CKr.root, step |-> k[2] - 1]
    /\ \A k \in DOMAIN r.skippedKeys \ SkipNew(r, epub, sequence) :
        s.skippedKeys[k] = r.skippedKeys[k]

LEMMA SkipOp ==
  ASSUME NEW r \in Ratchets, NEW epub \in AnyKey, NEW sequence \in Nat,
         r.Nr \in 1 .. sequence, r.CKr.step = r.Nr - 1
  PROVE  LET s == SkipTo(r, epub, sequence)
         IN  /\ s \in Ratchets
             /\ s.CKr = [root |-> r.CKr.root, step |-> sequence - 1] /\ s.Nr = sequence
             /\ s.DHsLocal = r.DHsLocal /\ s.DHrPeer = r.DHrPeer /\ s.RK = r.RK
             /\ s.CKs = r.CKs /\ s.Ns = r.Ns /\ s.PN = r.PN
             /\ Skipped(r, s, epub, sequence)
<1> DEFINE n == IF r.Nr < sequence THEN sequence - r.Nr ELSE 0
           new == {<<epub, i>> : i \in r.Nr .. r.Nr + n - 1}
           c == [k \in DOMAIN r.skippedKeys \cup new |->
                    IF k \in new THEN [r.CKr EXCEPT !.step = @ + k[2] - r.Nr]
                    ELSE r.skippedKeys[k]]
<1>1. n = sequence - r.Nr /\ r.Nr \in Nat /\ r.CKr \in Chains
  BY DEF Ratchets
<1>2. new = SkipNew(r, epub, sequence)
  BY <1>1 DEF SkipNew
<1>3. SkipTo(r, epub, sequence) =
        [r EXCEPT !.CKr.step = @ + n, !.Nr = @ + n, !.skippedKeys = c]
  BY DEF SkipTo
<1> HIDE DEF c
<1>4. [r.CKr EXCEPT !.step = @ + n] = [root |-> r.CKr.root, step |-> sequence - 1]
  BY <1>1 DEF Chains
<1>5. \A k \in new : /\ [r.CKr EXCEPT !.step = @ + k[2] - r.Nr]
                            = [root |-> r.CKr.root, step |-> k[2] - 1]
                     /\ k[2] - 1 \in Nat
  BY <1>1 DEF Chains
<1>6. \A k \in new : k \in AnyKey \X Nat
  BY <1>1
<1> HIDE DEF n, new
<1>7. PICK D \in SUBSET (AnyKey \X Nat) : r.skippedKeys \in [D -> Chains]
  BY DEF Ratchets, Caches
<1>8. D = DOMAIN r.skippedKeys /\ D \cup new \in SUBSET (AnyKey \X Nat)
  BY <1>6, <1>7
<1>9. \A k \in new : [root |-> r.CKr.root, step |-> k[2] - 1] \in Chains
  BY <1>1, <1>5 DEF Chains
<1>10. c \in [D \cup new -> Chains]
  <2>1. ASSUME NEW k \in D \cup new
        PROVE  (IF k \in new THEN [r.CKr EXCEPT !.step = @ + k[2] - r.Nr]
                ELSE r.skippedKeys[k]) \in Chains
    BY <1>5, <1>7, <1>9
  <2> QED BY <1>8, <2>1 DEF c
<1>11. c \in Caches
  BY <1>8, <1>10 DEF Caches
<1>12. [root |-> r.CKr.root, step |-> sequence - 1] \in Chains
  BY <1>1 DEF Chains
<1>13. /\ DOMAIN c = DOMAIN r.skippedKeys \cup new
       /\ \A k \in new : c[k] = [root |-> r.CKr.root, step |-> k[2] - 1]
       /\ \A k \in DOMAIN r.skippedKeys \ new : c[k] = r.skippedKeys[k]
  BY <1>5 DEF c
<1> DEFINE s == SkipTo(r, epub, sequence)
<1>14. s = [r EXCEPT !.CKr = [root |-> r.CKr.root, step |-> sequence - 1], !.Nr = sequence,
                     !.skippedKeys = c]
  <2>1. r.Nr + n = sequence
    BY <1>1
  <2>2. s = [r EXCEPT !.CKr = [r.CKr EXCEPT !.step = @ + n], !.Nr = r.Nr + n, !.skippedKeys = c]
    BY <1>3 DEF Ratchets
  <2> QED BY <1>4, <2>1, <2>2
<1> HIDE DEF s
<1>15. s \in Ratchets
  BY <1>11, <1>12, <1>14 DEF Ratchets
<1>16. /\ s.CKr = [root |-> r.CKr.root, step |-> sequence - 1] /\ s.Nr = sequence
       /\ s.skippedKeys = c
       /\ s.DHsLocal = r.DHsLocal /\ s.DHrPeer = r.DHrPeer /\ s.RK = r.RK
       /\ s.CKs = r.CKs /\ s.Ns = r.Ns /\ s.PN = r.PN
  BY <1>14 DEF Ratchets
<1>17. Skipped(r, s, epub, sequence)
  BY <1>2, <1>13, <1>16 DEF Skipped
<1> QED BY <1>15, <1>16, <1>17 DEF s

\* What RatchetDecrypt leaves behind when it continues the chain: a chain right behind the
\* position it was given.
Continued(r, s, epub, sequence) ==
    /\ s \in Ratchets
    /\ s.CKr = [root |-> r.CKr.root, step |-> sequence] /\ s.Nr = sequence + 1
    /\ s.DHsLocal = r.DHsLocal /\ s.DHrPeer = r.DHrPeer /\ s.RK = r.RK
    /\ s.CKs = r.CKs /\ s.Ns = r.Ns
    /\ Skipped(r, s, epub, sequence)

LEMMA AdvanceOp ==
  ASSUME NEW r \in Ratchets, NEW epub \in AnyKey, NEW sequence \in Nat,
         r.Nr \in 1 .. sequence, r.CKr.step = r.Nr - 1
  PROVE  LET s == SkipTo(r, epub, sequence)
         IN  /\ Continued(r, [s EXCEPT !.CKr = NextChainKey(@), !.Nr = @ + 1], epub, sequence)
             /\ s.CKr = [root |-> r.CKr.root, step |-> sequence - 1]
<1> DEFINE s == SkipTo(r, epub, sequence)
           t == [s EXCEPT !.CKr = NextChainKey(@), !.Nr = @ + 1]
<1>1. /\ s \in Ratchets
      /\ s.CKr = [root |-> r.CKr.root, step |-> sequence - 1] /\ s.Nr = sequence
      /\ s.DHsLocal = r.DHsLocal /\ s.DHrPeer = r.DHrPeer /\ s.RK = r.RK
      /\ s.CKs = r.CKs /\ s.Ns = r.Ns /\ s.PN = r.PN
      /\ Skipped(r, s, epub, sequence)
  BY SkipOp
<1> HIDE DEF s
<1>2. NextChainKey(s.CKr) = [root |-> r.CKr.root, step |-> sequence]
  BY <1>1 DEF NextChainKey
<1>3. [root |-> r.CKr.root, step |-> sequence] \in Chains
  BY DEF Ratchets, Chains
<1>4. t \in Ratchets
  <2>1. t = [s EXCEPT !.CKr = [root |-> r.CKr.root, step |-> sequence], !.Nr = sequence + 1]
    BY <1>1, <1>2
  <2>2. \A c \in Chains, n \in Nat : [s EXCEPT !.CKr = c, !.Nr = n] \in Ratchets
    <3> SUFFICES ASSUME NEW c \in Chains, NEW n \in Nat
                 PROVE  [s EXCEPT !.CKr = c, !.Nr = n] \in Ratchets
      OBVIOUS
    <3>1. s \in Ratchets
      BY <1>1
    <3> QED BY <3>1 DEF Ratchets
  <2>3. sequence + 1 \in Nat
    OBVIOUS
  <2> HIDE DEF t
  <2> QED BY <1>3, <2>1, <2>2, <2>3
<1>5. /\ t.CKr = [root |-> r.CKr.root, step |-> sequence] /\ t.Nr = sequence + 1
      /\ t.DHsLocal = s.DHsLocal /\ t.DHrPeer = s.DHrPeer /\ t.RK = s.RK
      /\ t.CKs = s.CKs /\ t.Ns = s.Ns /\ t.skippedKeys = s.skippedKeys
  BY <1>1, <1>2 DEF Ratchets
<1>6. Skipped(r, t, epub, sequence)
  BY <1>1, <1>5 DEF Skipped
<1>7. Continued(r, t, epub, sequence)
  BY <1>1, <1>4, <1>5, <1>6 DEF Continued
<1> QED BY <1>1, <1>7 DEF s

\* RatchetDecrypt of a message under the key it knows.
LEMMA DecryptStays ==
  ASSUME NEW r \in Ratchets, NEW sequence \in Nat, NEW box, NEW aad, NEW fresh,
         r.Nr \in 1 .. sequence, r.CKr.step = r.Nr - 1, r.CKr # NoChain
  PROVE  LET d == RatchetDecrypt(r, r.DHrPeer, box, aad, sequence, fresh)
         IN  /\ d.ok <=> /\ box.mk = [root |-> r.CKr.root, step |-> sequence - 1]
                         /\ box.aad = aad
             /\ Continued(r, d.ratchet, r.DHrPeer, sequence)
<1>1. r.DHrPeer \in AnyKey
  BY DEF Ratchets
<1> DEFINE s == SkipTo(r, r.DHrPeer, sequence)
<1>2. RatchetDecrypt(r, r.DHrPeer, box, aad, sequence, fresh) =
        [ok |-> DecryptAEAD(s.CKr, aad, box),
         ratchet |-> [s EXCEPT !.CKr = NextChainKey(@), !.Nr = @ + 1]]
  BY DEF RatchetDecrypt, Receiving, NeedsDHStep, MessageKey
<1>3. /\ Continued(r, [s EXCEPT !.CKr = NextChainKey(@), !.Nr = @ + 1], r.DHrPeer, sequence)
      /\ s.CKr = [root |-> r.CKr.root, step |-> sequence - 1]
  BY <1>1, AdvanceOp
<1> HIDE DEF s
<1>4. DecryptAEAD(s.CKr, aad, box) <=> box.mk = s.CKr /\ box.aad = aad
  BY DEF DecryptAEAD
<1>5. /\ RatchetDecrypt(r, r.DHrPeer, box, aad, sequence, fresh).ok
            = DecryptAEAD(s.CKr, aad, box)
      /\ RatchetDecrypt(r, r.DHrPeer, box, aad, sequence, fresh).ratchet
            = [s EXCEPT !.CKr = NextChainKey(@), !.Nr = @ + 1]
  BY <1>2
<1> QED BY <1>3, <1>4, <1>5, Zenon

\* What the DH step leaves behind: a new key pair and two new chains.
Stepped(r, h, epub, fresh) ==
    LET root == Append(r.RK, ComputeECDHSharedSecret(r.DHsLocal, epub))
        next == Append(root, ComputeECDHSharedSecret(fresh, epub))
    IN  /\ h \in Ratchets
        /\ h.DHsLocal = fresh /\ h.DHrPeer = epub /\ h.RK = next
        /\ h.CKs = [root |-> next, step |-> 0] /\ h.Ns = 1
        /\ h.CKr = [root |-> root, step |-> 0] /\ h.Nr = 1
        /\ h.skippedKeys = r.skippedKeys

\* RatchetDecrypt of a message under a new key: both chains are renewed.
LEMMA DecryptSteps ==
  ASSUME NEW r \in Ratchets, NEW epub \in AnyKey, NEW sequence \in Nat \ {0}, NEW box, NEW aad,
         NEW fresh \in AnyKey, r.DHrPeer # epub
  PROVE  LET d == RatchetDecrypt(r, epub, box, aad, sequence, fresh)
             root == Append(r.RK, ComputeECDHSharedSecret(r.DHsLocal, epub))
         IN  /\ d.ok <=> /\ box.mk = [root |-> root, step |-> sequence - 1]
                         /\ box.aad = aad
             /\ \E h : Stepped(r, h, epub, fresh) /\ Continued(h, d.ratchet, epub, sequence)
<1> DEFINE root == Append(r.RK, ComputeECDHSharedSecret(r.DHsLocal, epub))
           next == Append(root, ComputeECDHSharedSecret(fresh, epub))
           h == DHStep(r, epub, fresh)
           s == SkipTo(h, epub, sequence)
<1>1. root \in RootKeys
  BY ChainTypes DEF ComputeECDHSharedSecret, Ratchets
<1>2. next \in RootKeys
  BY <1>1, ChainTypes DEF ComputeECDHSharedSecret
<1> HIDE DEF root, next
<1>3. h = [r EXCEPT !.DHrPeer = epub, !.CKr = [root |-> root, step |-> 0], !.Nr = 1,
                    !.DHsLocal = fresh, !.RK = next, !.CKs = [root |-> next, step |-> 0],
                    !.PN = r.Ns, !.Ns = 1]
  BY DEF DHStep, SendStep, DeriveRootStep, root, next, Ratchets
<1> HIDE DEF h
<1>4. [root |-> root, step |-> 0] \in Chains /\ [root |-> next, step |-> 0] \in Chains
  BY <1>1, <1>2 DEF Chains
<1>5. h \in Ratchets
  BY <1>2, <1>3, <1>4 DEF Ratchets
<1>6. /\ h.DHsLocal = fresh /\ h.DHrPeer = epub /\ h.RK = next
      /\ h.CKs = [root |-> next, step |-> 0] /\ h.Ns = 1
      /\ h.CKr = [root |-> root, step |-> 0] /\ h.Nr = 1
      /\ h.skippedKeys = r.skippedKeys
  BY <1>3 DEF Ratchets
<1>7. RatchetDecrypt(r, epub, box, aad, sequence, fresh) =
        [ok |-> DecryptAEAD(s.CKr, aad, box),
         ratchet |-> [s EXCEPT !.CKr = NextChainKey(@), !.Nr = @ + 1]]
  <2>1. NeedsDHStep(r, epub)
    BY DEF NeedsDHStep
  <2>2. Receiving(r, epub, sequence, fresh) = s
    BY <2>1 DEF Receiving, h
  <2> QED BY <2>1, <2>2 DEF RatchetDecrypt, MessageKey
<1>8. /\ Continued(h, [s EXCEPT !.CKr = NextChainKey(@), !.Nr = @ + 1], epub, sequence)
      /\ s.CKr = [root |-> root, step |-> sequence - 1]
  <2>1. h.Nr \in 1 .. sequence /\ h.CKr.step = h.Nr - 1 /\ h.CKr.root = root
    BY <1>6
  <2> QED BY <1>5, <2>1, AdvanceOp
<1> HIDE DEF s
<1>9. LET d == RatchetDecrypt(r, epub, box, aad, sequence, fresh)
      IN  /\ d.ok <=> /\ box.mk = [root |-> root, step |-> sequence - 1]
                      /\ box.aad = aad
          /\ Continued(h, d.ratchet, epub, sequence)
  <2>1. DecryptAEAD(s.CKr, aad, box) <=> box.mk = s.CKr /\ box.aad = aad
    BY DEF DecryptAEAD
  <2>2. /\ RatchetDecrypt(r, epub, box, aad, sequence, fresh).ok = DecryptAEAD(s.CKr, aad, box)
        /\ RatchetDecrypt(r, epub, box, aad, sequence, fresh).ratchet
            = [s EXCEPT !.CKr = NextChainKey(@), !.Nr = @ + 1]
    BY <1>7
  <2> QED BY <1>8, <2>1, <2>2, Zenon
<1>10. Stepped(r, h, epub, fresh)
  BY <1>5, <1>6 DEF Stepped, root, next
<1> QED BY <1>9, <1>10 DEF root

-----------------------------------------------------------------------------
(* Runs of messages.                                                       *)

LEMMA AppendFacts ==
  ASSUME NEW w \in Seq(Messages), NEW m \in Messages
  PROVE  /\ Append(w, m) \in Seq(Messages) /\ Len(w) \in Nat
         /\ Len(Append(w, m)) = Len(w) + 1
         /\ DOMAIN w = 1 .. Len(w) /\ DOMAIN Append(w, m) = 1 .. Len(w) + 1
         /\ \A j \in 1 .. Len(w) : Append(w, m)[j] = w[j]
         /\ Append(w, m)[Len(w) + 1] = m
  OBVIOUS

\* A message that is appended changes no run up to it.
LEMMA RunKept ==
  ASSUME NEW w \in Seq(Messages), NEW m \in Messages, NEW n \in 1 .. Len(w) + 1,
         NEW epub, NEW seq, Run(w, n, epub, seq)
  PROVE  Run(Append(w, m), n, epub, seq)
  BY AppendFacts DEF Run

\* The message that a run expects makes it longer.
LEMMA RunGrows ==
  ASSUME NEW w \in Seq(Messages), NEW m \in Messages, NEW seq \in Nat,
         Run(w, Len(w) + 1, m.epub, seq), m.sequence = seq
  PROVE  Run(Append(w, m), Len(Append(w, m)) + 1, m.epub, seq + 1)
<1> DEFINE v == Append(w, m)
           n == Len(w) + 2
           k == seq + 1
<1>1. /\ Len(w) \in Nat /\ Len(v) = Len(w) + 1 /\ DOMAIN v = 1 .. Len(w) + 1
      /\ \A j \in 1 .. Len(w) : v[j] = w[j]
      /\ v[Len(w) + 1] = m /\ DOMAIN w = 1 .. Len(w)
  BY AppendFacts
<1> HIDE DEF v
<1>2. k \in 1 .. n
  BY <1>1 DEF Run
<1>3. \A j \in DOMAIN v : j < n =>
        /\ v[j].epub = m.epub <=> j > n - k
        /\ v[j].epub = m.epub => v[j].sequence = k - (n - j)
  <2> SUFFICES ASSUME NEW j \in DOMAIN v, j < n
               PROVE  /\ v[j].epub = m.epub <=> j > n - k
                      /\ v[j].epub = m.epub => v[j].sequence = k - (n - j)
    OBVIOUS
  <2>1. CASE j = Len(w) + 1
    BY <1>1, <2>1 DEF Run
  <2>2. CASE j \in 1 .. Len(w)
    <3>1. /\ w[j].epub = m.epub <=> j > Len(w) + 1 - seq
          /\ w[j].epub = m.epub => w[j].sequence = seq - (Len(w) + 1 - j)
      BY <1>1, <2>2 DEF Run
    <3> QED BY <1>1, <2>2, <3>1
  <2>3. j = Len(w) + 1 \/ j \in 1 .. Len(w)
    BY <1>1
  <2> QED BY <2>1, <2>2, <2>3
<1>4. k = seq + 1 /\ n = Len(v) + 1
  BY <1>1
<1> HIDE DEF k, n
<1>5. Run(v, n, m.epub, k)
  BY <1>2, <1>3, Zenon DEF Run
<1> QED BY <1>4, <1>5 DEF v

\* A key that was never used starts a run.
LEMMA RunStarts ==
  ASSUME NEW w \in Seq(Messages), NEW epub, \A j \in DOMAIN w : w[j].epub # epub
  PROVE  Run(w, Len(w) + 1, epub, 1)
  BY DEF Run

\* Once it has started, a run is not interrupted.
LEMMA RunStays ==
  ASSUME NEW w \in Seq(Messages), NEW n \in Nat, NEW epub, NEW seq, Run(w, n, epub, seq),
         NEW i \in DOMAIN w, NEW j \in DOMAIN w, i <= j, j < n, w[i].epub = epub
  PROVE  w[j].epub = epub /\ w[j].sequence = seq - (n - j)
<1>1. i \in Nat /\ j \in Nat /\ seq \in Nat
  BY DEF Run
<1>2. i > n - seq
  BY <1>1 DEF Run
<1>3. j > n - seq
  BY <1>1, <1>2
<1> QED BY <1>3 DEF Run

-----------------------------------------------------------------------------
(* The initial state and the steps of Encrypt.                             *)

LEMMA KeyTypes ==
  ASSUME PairType, NEW p \in Peers
  PROVE  Fresh(p) \in AnyKey /\ KeysOf(p) \subseteq AnyKey /\ Fresh(p) \notin KeysOf(p)
         /\ NoKey \notin KeysOf(p)
<1>1. nkeys[p] \in Nat
  BY DEF PairType
<1>2. Fresh(p) \in Peers \X Nat /\ KeysOf(p) \subseteq Peers \X Nat
  BY <1>1 DEF Fresh, KeysOf
<1>3. Fresh(p) \notin KeysOf(p)
  BY <1>1 DEF Fresh, KeysOf
<1>4. NoKey \notin Peers \X Nat
  BY RatchetPairAssumption DEF Peers
<1> QED BY <1>2, <1>3, <1>4 DEF AnyKey

LEMMA InitInv == Init => PairInv
<1> SUFFICES ASSUME Init PROVE PairInv
  OBVIOUS
<1> DEFINE a == <<Alice, 1>>
           b == <<Bob, 1>>
           root == Append(<<{}>>, {a, b})
<1>1. a \in AnyKey /\ b \in AnyKey /\ NoKey \in AnyKey /\ a # b /\ NoKey # a /\ NoKey # b
  BY RatchetPairAssumption DEF AnyKey, Peers
<1>2. <<{}>> \in RootKeys /\ root \in RootKeys /\ root # <<>> /\ <<{}>> # <<>>
  BY <1>1, ChainTypes DEF RootKeys
<1>3. <<>> \in Caches
  <2>1. <<>> \in [{} -> Chains]
    BY DEF Chains
  <2> QED BY <2>1 DEF Caches
<1>4. Alice \in Peers /\ Bob \in Peers /\ Other(Alice) = Bob /\ Other(Bob) = Alice /\ Alice # Bob
  BY RatchetPairAssumption DEF Peers, Other
<1>5. /\ ratchet[Alice] = [DHsLocal |-> a, DHrPeer |-> b, RK |-> root,
                           CKs |-> [root |-> root, step |-> 0], CKr |-> NoChain,
                           Ns |-> 1, Nr |-> 1, PN |-> 0, skippedKeys |-> <<>>]
      /\ ratchet[Bob] = [DHsLocal |-> b, DHrPeer |-> NoKey, RK |-> <<{}>>,
                         CKs |-> NoChain, CKr |-> NoChain,
                         Ns |-> 1, Nr |-> 1, PN |-> 0, skippedKeys |-> <<>>]
      /\ ratchet = [p \in Peers |-> ratchet[p]]
  BY <1>4 DEF Init, NewInitiatorRatchet, NewResponderRatchet, DeriveRootStep, MasterSecret,
     ComputeECDHSharedSecret
<1> HIDE DEF root
<1>6. /\ nkeys = [p \in Peers |-> 1] /\ wire = [p \in Peers |-> <<>>]
      /\ received = [p \in Peers |-> {}] /\ opened = [p \in Peers |-> {}]
  BY DEF Init
<1>7. PairType
  <2>1. [root |-> root, step |-> 0] \in Chains /\ NoChain \in Chains
    BY <1>2, ChainTypes DEF Chains
  <2>2. ratchet[Alice] \in Ratchets /\ ratchet[Bob] \in Ratchets
    BY <1>1, <1>2, <1>3, <1>5, <2>1 DEF Ratchets
  <2>3. ratchet \in [Peers -> Ratchets]
    BY <1>5, <2>2 DEF Peers
  <2> QED BY <1>6, <2>3 DEF PairType
<1>8. /\ a \in KeysOf(Alice) /\ b \in KeysOf(Bob)
      /\ \A p \in Peers : wire[p] = <<>> /\ received[p] = {} /\ Len(wire[p]) = 0
                          /\ DOMAIN wire[p] = {}
  BY <1>4, <1>6 DEF KeysOf
<1>9. ASSUME NEW p \in Peers PROVE PeerInv(p)
  <2>1. KeysKnown(p)
    BY <1>1, <1>4, <1>5, <1>8 DEF KeysKnown, Peers
  <2>2. InRuns(p)
    BY <1>8 DEF InRuns
  <2>3. [root |-> root, step |-> 0] # NoChain
    BY <1>2 DEF NoChain
  <2>4. Sends(p)
    <3>1. CASE p = Alice
      BY <1>2, <1>5, <1>8, <2>3, <3>1 DEF Sends, Run
    <3>2. CASE p = Bob
      BY <1>2, <1>5, <1>8, <3>2 DEF Sends
    <3> QED BY <3>1, <3>2 DEF Peers
  <2>5. Reads(p)
    BY <1>5, <1>8 DEF Reads, Peers
  <2> QED BY <2>1, <2>2, <2>4, <2>5 DEF PeerInv
<1>10. Ahead(Alice)
  <2>1. Linked(ratchet[Alice], ratchet[Bob])
    <3>1. [root |-> root, step |-> 0] # NoChain
      BY <1>2 DEF NoChain
    <3> QED BY <1>1, <1>5, <3>1 DEF Linked, ComputeECDHSharedSecret, root
  <2> QED BY <1>4, <1>8, <2>1 DEF Ahead, ToAhead, FromAhead, Pending
<1> QED BY <1>4, <1>7, <1>9, <1>10 DEF PairInv

\* What Encrypt does: the next message of the run, and the next key of the chain.
LEMMA EncryptFacts ==
  ASSUME PairInv, NEW p \in Peers, Encrypt(p)
  PROVE  LET r == ratchet[p]
             s == ratchet'[p]
         IN  /\ r.CKs # NoChain
             /\ ratchet' = [ratchet EXCEPT ![p] = s]
             /\ s \in Ratchets
             /\ s.CKs = [root |-> r.CKs.root, step |-> r.CKs.step + 1] /\ s.Ns = r.Ns + 1
             /\ s.DHsLocal = r.DHsLocal /\ s.DHrPeer = r.DHrPeer /\ s.RK = r.RK
             /\ s.CKr = r.CKr /\ s.Nr = r.Nr /\ s.skippedKeys = r.skippedKeys
             /\ nkeys' = nkeys /\ received' = received /\ opened' = opened
             /\ \E m \in Messages :
                  /\ wire' = [wire EXCEPT ![p] = Append(wire[p], m)]
                  /\ m.epub = r.DHsLocal /\ m.sequence = r.Ns
                  /\ m.box.aad = m.aad /\ m.box.mk = r.CKs
<1> DEFINE r == ratchet[p]
           e == RatchetEncrypt(r, Fresh(p))
           aad == [epub |-> e.epub, sequence |-> e.sequence]
           m == [epub |-> e.epub, sequence |-> e.sequence, aad |-> aad,
                 box |-> EncryptAEAD(e.mk, aad, Len(wire[p]) + 1)]
<1>1. r \in Ratchets /\ nkeys \in [Peers -> Nat] /\ wire[p] \in Seq(Messages)
      /\ ratchet \in [Peers -> Ratchets]
  BY DEF PairInv, PairType
<1>2. r.CKs # NoChain
  BY DEF Encrypt, CanEncrypt, PairInv, PeerInv, Sends
<1> HIDE DEF r
<1>3. /\ e.epub = r.DHsLocal /\ e.mk = r.CKs /\ e.sequence = r.Ns
      /\ e.ratchet = [r EXCEPT !.CKs = [root |-> r.CKs.root, step |-> r.CKs.step + 1],
                               !.Ns = r.Ns + 1]
  BY <1>1, <1>2, EncryptOp
<1>4. /\ ratchet' = [ratchet EXCEPT ![p] = e.ratchet]
      /\ nkeys' = [nkeys EXCEPT ![p] = IF e.epub = r.DHsLocal THEN @ ELSE @ + 1]
      /\ wire' = [wire EXCEPT ![p] = Append(wire[p], m)]
      /\ received' = received /\ opened' = opened
  BY DEF Encrypt, r
<1> HIDE DEF e
<1>5. nkeys' = nkeys
  BY <1>1, <1>3, <1>4
<1>6. ratchet'[p] = e.ratchet
  BY <1>1, <1>4
<1>7. [root |-> r.CKs.root, step |-> r.CKs.step + 1] \in Chains /\ r.Ns + 1 \in Nat
  BY <1>1 DEF Ratchets, Chains
<1>8. e.ratchet \in Ratchets
  BY <1>1, <1>3, <1>7 DEF Ratchets
<1>9. LET s == e.ratchet
      IN  /\ s.CKs = [root |-> r.CKs.root, step |-> r.CKs.step + 1] /\ s.Ns = r.Ns + 1
          /\ s.DHsLocal = r.DHsLocal /\ s.DHrPeer = r.DHrPeer /\ s.RK = r.RK
          /\ s.CKr = r.CKr /\ s.Nr = r.Nr /\ s.skippedKeys = r.skippedKeys
  BY <1>1, <1>3 DEF Ratchets
<1>10. m \in Messages
  BY <1>1, <1>3 DEF Messages, Headers, EncryptAEAD, Ratchets
<1>11. m.epub = r.DHsLocal /\ m.sequence = r.Ns /\ m.box.aad = m.aad /\ m.box.mk = r.CKs
  BY <1>3 DEF EncryptAEAD
<1> HIDE DEF m
<1> QED BY <1>2, <1>4, <1>5, <1>6, <1>8, <1>9, <1>10, <1>11 DEF r

\* Encrypt keeps the invariant.
LEMMA EncryptInv ==
  ASSUME PairInv, NEW p \in Peers, Encrypt(p)
  PROVE  PairInv'
<1> DEFINE q == Other(p)
           r == ratchet[p]
           s == ratchet'[p]
           w == wire[p]
<1>0. /\ q \in Peers /\ q # p /\ Other(q) = p /\ Peers = {p, q}
      /\ PairType /\ PeerInv(p) /\ PeerInv(q)
  BY OtherPeer DEF PairInv
<1>1. PICK m \in Messages :
        /\ wire' = [wire EXCEPT ![p] = Append(w, m)]
        /\ m.epub = r.DHsLocal /\ m.sequence = r.Ns
        /\ m.box.aad = m.aad /\ m.box.mk = r.CKs
  BY EncryptFacts
<1>2. /\ r.CKs # NoChain
      /\ ratchet' = [ratchet EXCEPT ![p] = s]
      /\ s \in Ratchets
      /\ s.CKs = [root |-> r.CKs.root, step |-> r.CKs.step + 1] /\ s.Ns = r.Ns + 1
      /\ s.DHsLocal = r.DHsLocal /\ s.DHrPeer = r.DHrPeer /\ s.RK = r.RK
      /\ s.CKr = r.CKr /\ s.Nr = r.Nr
      /\ nkeys' = nkeys /\ received' = received /\ opened' = opened
  BY EncryptFacts
<1>3. /\ w \in Seq(Messages) /\ wire \in [Peers -> Seq(Messages)]
      /\ ratchet \in [Peers -> Ratchets] /\ r \in Ratchets
  BY <1>0 DEF PairType
<1> DEFINE v == Append(w, m)
<1>4. /\ v \in Seq(Messages) /\ Len(w) \in Nat /\ Len(v) = Len(w) + 1
      /\ DOMAIN w = 1 .. Len(w) /\ DOMAIN v = 1 .. Len(w) + 1
      /\ \A j \in 1 .. Len(w) : v[j] = w[j]
      /\ v[Len(w) + 1] = m
  BY <1>3, AppendFacts
<1>5. wire'[p] = v /\ wire'[q] = wire[q] /\ ratchet'[q] = ratchet[q]
  BY <1>0, <1>1, <1>2, <1>3
<1>6. PairType'
  BY <1>0, <1>1, <1>2, <1>3, <1>4 DEF PairType
<1>7. r.CKs.root = r.RK /\ r.RK # <<>> /\ r.CKs.step = r.Ns - 1
      /\ Run(w, Len(w) + 1, r.DHsLocal, r.Ns) /\ r.Ns \in Nat
  BY <1>0, <1>2, <1>3 DEF PeerInv, Sends, Ratchets
<1>8. \A x \in Peers : KeysOf(x)' = KeysOf(x)
  BY <1>2 DEF KeysOf
<1>9. KeysKnown(p)'
  BY <1>0, <1>1, <1>2, <1>4, <1>5, <1>8 DEF KeysKnown, PeerInv
<1>10. KeysKnown(q)'
  BY <1>0, <1>2, <1>5, <1>8 DEF KeysKnown, PeerInv
<1>11. InRuns(p)'
  <2> SUFFICES ASSUME NEW i \in DOMAIN v
               PROVE  /\ Run(v, i, v[i].epub, v[i].sequence)
                      /\ v[i].box.aad = v[i].aad
                      /\ v[i].box.mk.root # <<>> /\ v[i].box.mk.step = v[i].sequence - 1
    BY <1>5 DEF InRuns
  <2>1. CASE i = Len(w) + 1
    <3>1. Run(v, Len(w) + 1, m.epub, m.sequence)
      BY <1>1, <1>3, <1>4, <1>7, RunKept
    <3> QED BY <1>1, <1>4, <1>7, <2>1, <3>1
  <2>2. CASE i \in 1 .. Len(w)
    <3>1. /\ Run(w, i, w[i].epub, w[i].sequence)
          /\ w[i].box.aad = w[i].aad
          /\ w[i].box.mk.root # <<>> /\ w[i].box.mk.step = w[i].sequence - 1
      BY <1>0, <1>4, <2>2 DEF PeerInv, InRuns
    <3>2. Run(v, i, w[i].epub, w[i].sequence)
      BY <1>3, <1>4, <2>2, <3>1, RunKept
    <3> QED BY <1>4, <2>2, <3>1, <3>2
  <2> QED BY <1>4, <2>1, <2>2
<1>12. InRuns(q)'
  BY <1>0, <1>5 DEF InRuns, PeerInv
<1>13. Sends(p)'
  <2>1. Run(v, Len(v) + 1, m.epub, r.Ns + 1)
    BY <1>1, <1>3, <1>7, RunGrows
  <2>2. s.CKs.root = r.RK /\ s.CKs.step = s.Ns - 1
    BY <1>2, <1>7
  <2>3. s.CKs # NoChain
    BY <1>7, <2>2 DEF NoChain
  <2> QED BY <1>1, <1>2, <1>5, <1>7, <2>1, <2>2, <2>3 DEF Sends
<1>14. Sends(q)'
  BY <1>0, <1>5 DEF Sends, PeerInv
<1>15. Reads(p)'
  BY <1>0, <1>2, <1>5 DEF Reads, Latest, PeerInv
<1>16. Reads(q)'
  <2>1. Reads(q)
    BY <1>0 DEF PeerInv
  <2>2. \A i \in received[q] : i \in 1 .. Len(w)
    BY <1>0, <1>4, <2>1 DEF Reads
  <2>3. \A i \in received[q] : Latest(q, i) => Latest(q, i)'
    BY <1>0, <1>2, <1>4, <1>5, <2>2 DEF Latest
  <2> QED BY <1>0, <1>2, <1>4, <1>5, <2>1, <2>2, <2>3 DEF Reads
<1>17. Pending(p)' = Pending(p)
  BY <1>0, <1>2, <1>5 DEF Pending
<1>18. \A j \in Pending(q)' : j = Len(w) + 1 \/ (j \in 1 .. Len(w) /\ j \in Pending(q))
  BY <1>0, <1>2, <1>4, <1>5 DEF Pending
<1>19. ASSUME Ahead(p) PROVE Ahead(p)'
  <2>1. Linked(r, ratchet[q]) /\ ToAhead(p) /\ FromAhead(p)
    BY <1>19 DEF Ahead
  <2>2. Linked(s, ratchet'[q])
    <3>1. s.CKs.root # <<>>
      BY <1>2, <1>7
    <3>2. s.CKs # NoChain
      BY <3>1 DEF NoChain
    <3> QED BY <1>2, <1>5, <2>1, <3>2 DEF Linked
  <2>3. ToAhead(p)'
    BY <1>2, <1>5, <1>17, <2>1 DEF ToAhead
  <2>4. FromAhead(p)'
    <3> SUFFICES ASSUME NEW j \in Pending(q)'
                 PROVE  \/ v[j].epub = s.DHsLocal /\ v[j].box.mk.root = s.RK
                        \/ /\ v[j].epub = ratchet'[q].DHrPeer
                           /\ v[j].box.mk.root = ratchet'[q].CKr.root
      BY <1>5 DEF FromAhead
    <3>1. CASE j = Len(w) + 1
      BY <1>1, <1>2, <1>4, <1>7, <3>1
    <3>2. CASE j \in 1 .. Len(w) /\ j \in Pending(q)
      BY <1>2, <1>4, <1>5, <2>1, <3>2 DEF FromAhead
    <3> QED BY <1>18, <3>1, <3>2
  <2> QED BY <1>0, <2>2, <2>3, <2>4 DEF Ahead
<1>20. ASSUME Ahead(q) PROVE Ahead(q)'
  <2>1. Linked(ratchet[q], r) /\ ToAhead(q) /\ FromAhead(q)
    BY <1>0, <1>20 DEF Ahead
  <2>2. Linked(ratchet'[q], s)
    <3>1. s.CKs.root = r.CKs.root
      BY <1>2
    <3> QED BY <1>2, <1>5, <2>1, <3>1 DEF Linked
  <2>3. ToAhead(q)'
    <3> SUFFICES ASSUME NEW j \in Pending(q)'
                 PROVE  /\ v[j].epub = ratchet'[q].DHrPeer
                        /\ v[j].box.mk.root = ratchet'[q].CKr.root
      BY <1>0, <1>5 DEF ToAhead
    <3>1. CASE j = Len(w) + 1
      BY <1>1, <1>2, <1>4, <1>5, <2>1, <3>1 DEF Linked
    <3>2. CASE j \in 1 .. Len(w) /\ j \in Pending(q)
      BY <1>0, <1>4, <1>5, <2>1, <3>2 DEF ToAhead
    <3> QED BY <1>18, <3>1, <3>2
  <2>4. FromAhead(q)'
    BY <1>0, <1>2, <1>5, <1>17, <2>1 DEF FromAhead
  <2> QED BY <1>0, <2>2, <2>3, <2>4 DEF Ahead
<1>21. PeerInv(p)' /\ PeerInv(q)'
  BY <1>9, <1>10, <1>11, <1>12, <1>13, <1>14, <1>15, <1>16 DEF PeerInv
<1>22. \E x \in Peers : Ahead(x)'
  BY <1>0, <1>19, <1>20 DEF PairInv
<1> QED BY <1>0, <1>6, <1>21, <1>22 DEF PairInv

-----------------------------------------------------------------------------
(* The steps of Decrypt.                                                   *)

\* What p may still be handed lies behind the latest message it was handed, and either
\* belongs to the chain p reads, at a position it has not passed, or to the chain that the
\* other peer, a DH step ahead, has branched off.
LEMMA PendingCases ==
  ASSUME PairInv, NEW p \in Peers, NEW i \in Pending(p)
  PROVE  LET r == ratchet[p]
             o == ratchet[Other(p)]
             m == wire[Other(p)][i]
         IN  \/ /\ m.epub = r.DHrPeer /\ m.box.mk.root = r.CKr.root
                /\ r.CKr # NoChain /\ r.CKr.step = r.Nr - 1
                /\ r.Nr \in 1 .. m.sequence
             \/ /\ m.epub # r.DHrPeer /\ Ahead(Other(p))
                /\ m.epub = o.DHsLocal /\ m.box.mk.root = o.RK
                /\ m.sequence \in Nat \ {0}
<1> DEFINE q == Other(p)
           r == ratchet[p]
           o == ratchet[q]
           w == wire[q]
           m == w[i]
<1>0. /\ q \in Peers /\ q # p /\ Other(q) = p /\ Peers = {p, q}
      /\ PairType /\ PeerInv(p) /\ PeerInv(q)
  BY OtherPeer DEF PairInv
<1>1. /\ r \in Ratchets /\ w \in Seq(Messages) /\ i \in DOMAIN w /\ DOMAIN w = 1 .. Len(w)
      /\ Len(w) \in Nat /\ \A k \in received[p] : k < i
  BY <1>0 DEF PairType, Pending
<1>2. /\ Run(w, i, m.epub, m.sequence) /\ m.box.mk.root # <<>> /\ m \in Messages
      /\ m.sequence \in Nat \ {0}
  <2>1. m \in Messages
    BY <1>1
  <2>2. Run(w, i, m.epub, m.sequence) /\ m.box.mk.root # <<>>
    BY <1>0, <1>1 DEF PeerInv, InRuns
  <2>3. m.sequence \in 1 .. i
    BY <2>2 DEF Run
  <2> QED BY <1>1, <2>1, <2>2, <2>3
<1>3. ASSUME m.epub = r.DHrPeer, m.box.mk.root = r.CKr.root
      PROVE  r.CKr # NoChain /\ r.CKr.step = r.Nr - 1 /\ r.Nr \in 1 .. m.sequence
  <2>1. r.CKr # NoChain
    BY <1>2, <1>3 DEF NoChain
  <2>2. r.CKr.step = r.Nr - 1
    BY <1>0, <2>1 DEF PeerInv, Reads
  <2>3. PICK l \in received[p] : Latest(p, l)
    BY <1>0, <2>1 DEF PeerInv, Reads
  <2>4. l \in 1 .. Len(w) /\ l < i /\ w[l].epub = m.epub /\ w[l].sequence = r.Nr - 1
    BY <1>0, <1>1, <1>3, <2>3 DEF Latest, PeerInv, Reads
  <2>5. w[l].sequence = m.sequence - (i - l)
    BY <1>1, <1>2, <2>4 DEF Run
  <2>6. w[l].sequence >= 1
    BY <1>0, <1>1, <2>4 DEF PeerInv, InRuns, Run
  <2>7. r.Nr \in Nat
    BY <1>1 DEF Ratchets
  <2> QED BY <1>1, <1>2, <2>1, <2>2, <2>4, <2>5, <2>6, <2>7
<1>4. CASE Ahead(p)
  <2>1. m.epub = r.DHrPeer /\ m.box.mk.root = r.CKr.root
    BY <1>4 DEF Ahead, ToAhead
  <2> QED BY <1>3, <2>1
<1>5. CASE Ahead(q)
  <2>1. Linked(o, r) /\ FromAhead(q)
    BY <1>0, <1>5 DEF Ahead
  <2>2. CASE m.epub = o.DHsLocal /\ m.box.mk.root = o.RK
    BY <1>2, <1>5, <2>1, <2>2 DEF Linked
  <2>3. CASE m.epub = r.DHrPeer /\ m.box.mk.root = r.CKr.root
    BY <1>3, <2>3
  <2> QED BY <1>0, <2>1, <2>2, <2>3 DEF FromAhead
<1> QED BY <1>0, <1>4, <1>5 DEF PairInv

\* What Decrypt does with a message.
LEMMA DecryptFacts ==
  ASSUME PairInv, NEW p \in Peers, NEW i \in 1 .. Len(wire[Other(p)]), Decrypt(p, i)
  PROVE  LET r == ratchet[p]
             o == ratchet[Other(p)]
             s == ratchet'[p]
             m == wire[Other(p)][i]
         IN  /\ i \in Pending(p) /\ m.sequence \in Nat \ {0}
             /\ ratchet' = [ratchet EXCEPT ![p] = s] /\ wire' = wire
             /\ received' = [received EXCEPT ![p] = @ \cup {i}]
             /\ opened' = [opened EXCEPT ![p] = @ \cup {i}]
             /\ \/ /\ m.epub = r.DHrPeer /\ m.box.mk.root = r.CKr.root
                   /\ r.CKr # NoChain /\ r.CKr.step = r.Nr - 1 /\ r.Nr \in 1 .. m.sequence
                   /\ Continued(r, s, m.epub, m.sequence) /\ nkeys' = nkeys
                \/ /\ m.epub # r.DHrPeer /\ Ahead(Other(p))
                   /\ m.epub = o.DHsLocal /\ m.box.mk.root = o.RK
                   /\ \E h : Stepped(r, h, m.epub, Fresh(p))
                             /\ Continued(h, s, m.epub, m.sequence)
                   /\ nkeys' = [nkeys EXCEPT ![p] = @ + 1]
<1> DEFINE q == Other(p)
           r == ratchet[p]
           o == ratchet[q]
           w == wire[q]
           m == w[i]
           d == RatchetDecrypt(r, m.epub, m.box, m.aad, m.sequence, Fresh(p))
<1>0. /\ q \in Peers /\ q # p /\ Other(q) = p /\ Peers = {p, q}
      /\ PairType /\ PeerInv(p) /\ PeerInv(q)
  BY OtherPeer DEF PairInv
<1>1. /\ r \in Ratchets /\ w \in Seq(Messages) /\ i \in DOMAIN w /\ m \in Messages
      /\ ratchet \in [Peers -> Ratchets] /\ nkeys \in [Peers -> Nat]
      /\ opened \in [Peers -> SUBSET Nat]
  BY <1>0 DEF PairType
<1>2. i \in Pending(p)
  BY <1>1 DEF Decrypt, Pending
<1>3. /\ ratchet' = [ratchet EXCEPT ![p] = d.ratchet] /\ wire' = wire
      /\ received' = [received EXCEPT ![p] = @ \cup {i}]
      /\ opened' = [opened EXCEPT ![p] = IF d.ok THEN @ \cup {i} ELSE @]
      /\ nkeys' = [nkeys EXCEPT ![p] = IF d.ratchet.DHsLocal = r.DHsLocal THEN @ ELSE @ + 1]
  BY DEF Decrypt
<1>4. ratchet'[p] = d.ratchet
  BY <1>1, <1>3
<1>5. /\ m.box.aad = m.aad /\ m.box.mk.step = m.sequence - 1 /\ m.sequence \in Nat \ {0}
      /\ m.epub \in AnyKey /\ m.box.mk = [root |-> m.box.mk.root, step |-> m.sequence - 1]
  <2>1. m.box.aad = m.aad /\ m.box.mk.step = m.sequence - 1
    BY <1>0, <1>1 DEF PeerInv, InRuns
  <2>2. m.sequence \in 1 .. i
    BY <1>0, <1>1 DEF PeerInv, InRuns, Run
  <2>3. m.epub \in AnyKey /\ m.sequence \in Nat /\ m.box.mk \in Chains
    BY <1>1 DEF Messages
  <2>4. m.box.mk = [root |-> m.box.mk.root, step |-> m.box.mk.step]
    BY <2>3 DEF Chains
  <2> QED BY <2>1, <2>2, <2>3, <2>4
<1>6. r.DHsLocal \in KeysOf(p)
  BY <1>0 DEF PeerInv, KeysKnown
<1> HIDE DEF d, m
<1>7. ASSUME m.epub = r.DHrPeer, m.box.mk.root = r.CKr.root,
             r.CKr # NoChain, r.CKr.step = r.Nr - 1, r.Nr \in 1 .. m.sequence
      PROVE  d.ok /\ Continued(r, d.ratchet, m.epub, m.sequence) /\ nkeys' = nkeys
  <2>1. /\ d.ok <=> /\ m.box.mk = [root |-> r.CKr.root, step |-> m.sequence - 1]
                    /\ m.box.aad = m.aad
        /\ Continued(r, d.ratchet, r.DHrPeer, m.sequence)
    BY <1>1, <1>5, <1>7, DecryptStays DEF d
  <2>2. d.ok
    BY <1>5, <1>7, <2>1, Zenon
  <2>3. d.ratchet.DHsLocal = r.DHsLocal
    BY <2>1 DEF Continued
  <2>4. nkeys' = nkeys
    BY <1>1, <1>3, <2>3
  <2> QED BY <1>7, <2>1, <2>2, <2>4
<1>8. ASSUME m.epub # r.DHrPeer, Ahead(q), m.epub = o.DHsLocal, m.box.mk.root = o.RK
      PROVE  /\ d.ok /\ nkeys' = [nkeys EXCEPT ![p] = @ + 1]
             /\ \E h : Stepped(r, h, m.epub, Fresh(p))
                       /\ Continued(h, d.ratchet, m.epub, m.sequence)
  <2> DEFINE root == Append(r.RK, ComputeECDHSharedSecret(r.DHsLocal, m.epub))
  <2>1. Fresh(p) \in AnyKey /\ Fresh(p) \notin KeysOf(p)
    BY <1>0, KeyTypes
  <2>2. /\ d.ok <=> /\ m.box.mk = [root |-> root, step |-> m.sequence - 1]
                    /\ m.box.aad = m.aad
        /\ \E h : Stepped(r, h, m.epub, Fresh(p))
                  /\ Continued(h, d.ratchet, m.epub, m.sequence)
    BY <1>1, <1>5, <1>8, <2>1, DecryptSteps DEF d
  <2>3. root = o.RK
    <3>1. Linked(o, r)
      BY <1>0, <1>8 DEF Ahead
    <3>2. ComputeECDHSharedSecret(o.DHsLocal, r.DHsLocal)
            = ComputeECDHSharedSecret(r.DHsLocal, m.epub)
      BY <1>8 DEF ComputeECDHSharedSecret
    <3> QED BY <3>1, <3>2 DEF Linked
  <2> HIDE DEF root
  <2>4. d.ok
    BY <1>5, <1>8, <2>2, <2>3, Zenon
  <2>5. d.ratchet.DHsLocal # r.DHsLocal
    BY <1>6, <2>1, <2>2 DEF Stepped, Continued
  <2>6. nkeys' = [nkeys EXCEPT ![p] = @ + 1]
    BY <1>1, <1>3, <2>5
  <2> QED BY <2>2, <2>4, <2>6
<1>9. \/ /\ m.epub = r.DHrPeer /\ m.box.mk.root = r.CKr.root
         /\ r.CKr # NoChain /\ r.CKr.step = r.Nr - 1 /\ r.Nr \in 1 .. m.sequence
      \/ /\ m.epub # r.DHrPeer /\ Ahead(q)
         /\ m.epub = o.DHsLocal /\ m.box.mk.root = o.RK
  BY <1>2, PendingCases DEF m
<1>10. d.ok
  BY <1>7, <1>8, <1>9
<1>11. opened' = [opened EXCEPT ![p] = @ \cup {i}]
  BY <1>1, <1>3, <1>10
<1>12. ratchet' = [ratchet EXCEPT ![p] = ratchet'[p]]
  BY <1>3, <1>4
<1>13. \/ /\ m.epub = r.DHrPeer /\ m.box.mk.root = r.CKr.root
          /\ r.CKr # NoChain /\ r.CKr.step = r.Nr - 1 /\ r.Nr \in 1 .. m.sequence
          /\ Continued(r, d.ratchet, m.epub, m.sequence) /\ nkeys' = nkeys
       \/ /\ m.epub # r.DHrPeer /\ Ahead(q)
          /\ m.epub = o.DHsLocal /\ m.box.mk.root = o.RK
          /\ \E h : Stepped(r, h, m.epub, Fresh(p))
                    /\ Continued(h, d.ratchet, m.epub, m.sequence)
          /\ nkeys' = [nkeys EXCEPT ![p] = @ + 1]
  BY <1>7, <1>8, <1>9, Zenon
<1> QED BY <1>2, <1>3, <1>4, <1>5, <1>11, <1>12, <1>13 DEF m

\* What a step of Decrypt leaves under way.
LEMMA PendingAfter ==
  ASSUME PairType, NEW p \in Peers, NEW i \in Pending(p), wire' = wire,
         received' = [received EXCEPT ![p] = @ \cup {i}]
  PROVE  /\ Pending(p)' = {j \in DOMAIN wire[Other(p)] : j > i}
         /\ Pending(p)' \subseteq Pending(p)
         /\ Pending(Other(p))' = Pending(Other(p))
<1>1. Other(p) \in Peers /\ Other(p) # p
  BY OtherPeer
<1>2. received'[p] = received[p] \cup {i} /\ received'[Other(p)] = received[Other(p)]
  BY <1>1 DEF PairType
<1>3. /\ i \in DOMAIN wire[Other(p)] /\ DOMAIN wire[Other(p)] = 1 .. Len(wire[Other(p)])
      /\ Len(wire[Other(p)]) \in Nat /\ received[p] \subseteq Nat
      /\ \A k \in received[p] : k < i
  BY <1>1 DEF PairType, Pending
<1>4. Pending(p)' = {j \in DOMAIN wire[Other(p)] : j > i}
  BY <1>2, <1>3 DEF Pending
<1>5. Pending(p)' \subseteq Pending(p)
  BY <1>3, <1>4 DEF Pending
<1> QED BY <1>2, <1>4, <1>5 DEF Pending

\* What p has read after it was handed a message.
LEMMA ReadsAfter ==
  ASSUME PairInv, NEW p \in Peers, NEW i \in Pending(p), wire' = wire, NEW h,
         received' = [received EXCEPT ![p] = @ \cup {i}],
         wire[Other(p)][i].sequence \in Nat,
         Continued(h, ratchet'[p], wire[Other(p)][i].epub, wire[Other(p)][i].sequence),
         h.CKr.root # <<>>, h.DHrPeer = wire[Other(p)][i].epub
  PROVE  Reads(p)'
<1> DEFINE s == ratchet'[p]
           m == wire[Other(p)][i]
<1>1. /\ Other(p) \in Peers /\ received \in [Peers -> SUBSET Nat]
      /\ received[p] \subseteq DOMAIN wire[Other(p)]
  BY OtherPeer DEF PairInv, PairType, PeerInv, Reads
<1>2. received'[p] = received[p] \cup {i} /\ i \in DOMAIN wire[Other(p)]
  BY <1>1 DEF Pending
<1>3. /\ s.CKr = [root |-> h.CKr.root, step |-> m.sequence] /\ s.Nr = m.sequence + 1
      /\ s.DHrPeer = m.epub
  BY DEF Continued
<1>4. s.CKr.root # <<>> /\ s.CKr.step = s.Nr - 1
  BY <1>3
<1>5. s.CKr # NoChain
  BY <1>4 DEF NoChain
<1>6. \A j \in received[p] : j <= i
  BY <1>1 DEF Pending, PairInv, PairType
<1>7. Latest(p, i)'
  <2>1. i \in Nat
    BY <1>1, <1>2 DEF PairInv, PairType
  <2>2. \A j \in received'[p] : j <= i
    BY <1>2, <1>6, <2>1
  <2>3. m.epub = s.DHrPeer /\ m.sequence = s.Nr - 1
    BY <1>3
  <2> QED BY <1>2, <2>2, <2>3 DEF Latest
<1> QED BY <1>1, <1>2, <1>4, <1>5, <1>7 DEF Reads

\* A message under the key that p knows moves the receiving chain of p only.
LEMMA DecryptStaysInv ==
  ASSUME PairInv, NEW p \in Peers, NEW i \in Pending(p), wire' = wire, nkeys' = nkeys,
         ratchet' = [ratchet EXCEPT ![p] = ratchet'[p]],
         received' = [received EXCEPT ![p] = @ \cup {i}],
         opened' = [opened EXCEPT ![p] = @ \cup {i}],
         wire[Other(p)][i].sequence \in Nat, wire[Other(p)][i].epub = ratchet[p].DHrPeer,
         wire[Other(p)][i].box.mk.root = ratchet[p].CKr.root,
         Continued(ratchet[p], ratchet'[p], wire[Other(p)][i].epub, wire[Other(p)][i].sequence)
  PROVE  PairInv'
<1> DEFINE q == Other(p)
           r == ratchet[p]
           s == ratchet'[p]
<1>0. /\ q \in Peers /\ q # p /\ Other(q) = p /\ Peers = {p, q}
      /\ PairType /\ PeerInv(p) /\ PeerInv(q)
  BY OtherPeer DEF PairInv
<1>1. ratchet'[q] = ratchet[q]
  BY <1>0 DEF PairType
<1>2. /\ s \in Ratchets /\ s.CKr.root = r.CKr.root
      /\ s.DHsLocal = r.DHsLocal /\ s.DHrPeer = r.DHrPeer /\ s.RK = r.RK
      /\ s.CKs = r.CKs /\ s.Ns = r.Ns
  BY DEF Continued
<1>3. i \in Nat /\ i \in DOMAIN wire[q]
  BY <1>0 DEF PairType, Pending
<1>4. PairType'
  BY <1>0, <1>2, <1>3 DEF PairType
<1>5. \A x \in Peers : KeysKnown(x)' /\ InRuns(x)' /\ Sends(x)'
  BY <1>0, <1>1, <1>2 DEF PeerInv, KeysKnown, KeysOf, InRuns, Sends
<1>6. Reads(p)'
  <2>1. r.CKr.root # <<>>
    BY <1>0, <1>3 DEF PeerInv, InRuns
  <2> QED BY <2>1, ReadsAfter
<1>7. received'[q] = received[q]
  BY <1>0 DEF PairType
<1>8. Reads(q)'
  BY <1>0, <1>1, <1>7 DEF PeerInv, Reads, Latest
<1>9. Pending(p)' \subseteq Pending(p) /\ Pending(q)' = Pending(q)
  BY <1>0, PendingAfter
<1>10. ASSUME Ahead(p) PROVE Ahead(p)'
  <2>1. Linked(r, ratchet[q]) /\ ToAhead(p) /\ FromAhead(p)
    BY <1>0, <1>10 DEF Ahead
  <2>2. Linked(s, ratchet[q])
    BY <1>2, <2>1 DEF Linked
  <2>3. ToAhead(p)'
    BY <1>0, <1>1, <1>2, <1>9, <2>1 DEF ToAhead
  <2>4. FromAhead(p)'
    BY <1>0, <1>1, <1>2, <1>9, <2>1 DEF FromAhead
  <2> QED BY <1>0, <1>1, <2>2, <2>3, <2>4 DEF Ahead
<1>11. ASSUME Ahead(q) PROVE Ahead(q)'
  <2>1. Linked(ratchet[q], r) /\ ToAhead(q) /\ FromAhead(q)
    BY <1>0, <1>11 DEF Ahead
  <2>2. Linked(ratchet[q], s)
    BY <1>2, <2>1 DEF Linked
  <2>3. ToAhead(q)'
    BY <1>0, <1>1, <1>2, <1>9, <2>1 DEF ToAhead
  <2>4. FromAhead(q)'
    BY <1>0, <1>1, <1>2, <1>9, <2>1 DEF FromAhead
  <2> QED BY <1>0, <1>1, <2>2, <2>3, <2>4 DEF Ahead
<1>12. \E x \in Peers : Ahead(x)'
  BY <1>0, <1>10, <1>11 DEF PairInv
<1> QED BY <1>0, <1>4, <1>5, <1>6, <1>8, <1>12 DEF PairInv, PeerInv

\* A message under a new key takes p a DH step further, past the other peer.
LEMMA DecryptStepsInv ==
  ASSUME PairInv, NEW p \in Peers, NEW i \in Pending(p), wire' = wire, NEW h,
         nkeys' = [nkeys EXCEPT ![p] = @ + 1],
         ratchet' = [ratchet EXCEPT ![p] = ratchet'[p]],
         received' = [received EXCEPT ![p] = @ \cup {i}],
         opened' = [opened EXCEPT ![p] = @ \cup {i}],
         wire[Other(p)][i].sequence \in Nat, Ahead(Other(p)),
         wire[Other(p)][i].epub = ratchet[Other(p)].DHsLocal,
         wire[Other(p)][i].box.mk.root = ratchet[Other(p)].RK,
         Stepped(ratchet[p], h, wire[Other(p)][i].epub, Fresh(p)),
         Continued(h, ratchet'[p], wire[Other(p)][i].epub, wire[Other(p)][i].sequence)
  PROVE  PairInv'
<1> DEFINE q == Other(p)
           r == ratchet[p]
           o == ratchet[q]
           s == ratchet'[p]
           w == wire[q]
<1>0. /\ q \in Peers /\ q # p /\ Other(q) = p /\ Peers = {p, q}
      /\ PairType /\ PeerInv(p) /\ PeerInv(q)
  BY OtherPeer DEF PairInv
<1>1. ratchet'[q] = o /\ nkeys'[p] = nkeys[p] + 1 /\ nkeys'[q] = nkeys[q] /\ nkeys[p] \in Nat
  BY <1>0 DEF PairType
<1>2. Linked(o, r) /\ ToAhead(q) /\ FromAhead(q)
  BY <1>0 DEF Ahead
<1>3. Append(r.RK, ComputeECDHSharedSecret(r.DHsLocal, o.DHsLocal)) = o.RK
  BY <1>2 DEF Linked, ComputeECDHSharedSecret
<1> DEFINE next == Append(o.RK, ComputeECDHSharedSecret(Fresh(p), o.DHsLocal))
<1>4. /\ h.CKr = [root |-> o.RK, step |-> 0] /\ h.RK = next
      /\ h.CKs = [root |-> next, step |-> 0] /\ h.Ns = 1
      /\ h.DHsLocal = Fresh(p) /\ h.DHrPeer = o.DHsLocal
  BY <1>3 DEF Stepped
<1>5. /\ s \in Ratchets /\ s.CKr.root = o.RK
      /\ s.DHsLocal = Fresh(p) /\ s.DHrPeer = o.DHsLocal /\ s.RK = next
      /\ s.CKs = [root |-> next, step |-> 0] /\ s.Ns = 1
  BY <1>4 DEF Continued
<1>6. next # <<>> /\ o.RK # <<>> /\ o.RK \in RootKeys
  <2>1. o \in Ratchets
    BY <1>0 DEF PairType
  <2>2. o.RK \in RootKeys /\ o.RK # <<>>
    BY <1>0, <2>1 DEF Ratchets, PeerInv, Sends
  <2> QED BY <2>2 DEF RootKeys
<1> HIDE DEF next
<1>7. i \in Nat /\ i \in DOMAIN w /\ w \in Seq(Messages) /\ DOMAIN w = 1 .. Len(w) /\ Len(w) \in Nat
  BY <1>0 DEF PairType, Pending
<1>8. PairType'
  <2>1. nkeys' \in [Peers -> Nat]
    BY <1>0, <1>1 DEF PairType
  <2> QED BY <1>0, <1>5, <1>7, <2>1 DEF PairType
<1>9. /\ KeysOf(p) \subseteq KeysOf(p)' /\ Fresh(p) \in KeysOf(p)' /\ KeysOf(q)' = KeysOf(q)
      /\ Fresh(p) \notin KeysOf(p)
  <2>1. Fresh(p) \notin KeysOf(p)
    BY <1>0, KeyTypes
  <2> QED BY <1>1, <2>1 DEF KeysOf, Fresh
<1>10. KeysKnown(p)'
  BY <1>0, <1>5, <1>9 DEF PeerInv, KeysKnown
<1>11. KeysKnown(q)'
  BY <1>0, <1>1, <1>9 DEF PeerInv, KeysKnown
<1>12. \A x \in Peers : InRuns(x)'
  BY <1>0 DEF PeerInv, InRuns
<1>13. s.CKs # NoChain
  BY <1>5, <1>6 DEF NoChain
<1>14. Sends(p)'
  <2>1. \A j \in DOMAIN wire[p] : wire[p][j].epub # Fresh(p)
    BY <1>0, <1>9 DEF PeerInv, KeysKnown
  <2>2. wire[p] \in Seq(Messages)
    BY <1>0 DEF PairType
  <2>3. Run(wire[p], Len(wire[p]) + 1, Fresh(p), 1)
    BY <2>1, <2>2, RunStarts
  <2>4. s.CKs.root = s.RK /\ s.CKs.step = s.Ns - 1
    BY <1>5
  <2> QED BY <1>5, <1>6, <1>13, <2>3, <2>4 DEF Sends
<1>15. Sends(q)'
  BY <1>0, <1>1 DEF PeerInv, Sends
<1>16. Reads(p)'
  <2>1. h.CKr.root # <<>> /\ h.DHrPeer = w[i].epub
    BY <1>4, <1>6
  <2> QED BY <2>1, ReadsAfter
<1>17. received'[q] = received[q]
  BY <1>0 DEF PairType
<1>18. Reads(q)'
  BY <1>0, <1>1, <1>17 DEF PeerInv, Reads, Latest
<1>19. /\ Pending(p)' = {j \in DOMAIN w : j > i} /\ Pending(p)' \subseteq Pending(p)
       /\ Pending(q)' = Pending(q)
  BY <1>0, PendingAfter
<1>20. Linked(s, o)
  <2>1. o.DHrPeer = r.DHsLocal /\ r.DHsLocal \in KeysOf(p)
    BY <1>0, <1>2 DEF Linked, PeerInv, KeysKnown
  <2>2. o.CKs # NoChain => s.CKr.root = o.CKs.root
    BY <1>0, <1>5 DEF PeerInv, Sends
  <2> QED BY <1>5, <1>9, <1>13, <2>1, <2>2 DEF Linked, next
<1>21. ToAhead(p)'
  <2> SUFFICES ASSUME NEW j \in Pending(p)'
               PROVE  w[j].epub = s.DHrPeer /\ w[j].box.mk.root = s.CKr.root
    BY DEF ToAhead
  <2>1. j \in DOMAIN w /\ j > i /\ j \in Pending(p)
    BY <1>19
  <2>2. Run(w, Len(w) + 1, o.DHsLocal, o.Ns)
    BY <1>0, <1>2 DEF PeerInv, Sends, Linked
  <2>3. w[j].epub = o.DHsLocal
    <3>1. w[i].epub = o.DHsLocal
      OBVIOUS
    <3>2. Len(w) + 1 \in Nat /\ j < Len(w) + 1
      BY <1>7, <2>1
    <3> HIDE DEF w, o
    <3> QED BY <1>7, <2>1, <2>2, <3>1, <3>2, RunStays
  <2>4. r.DHrPeer # o.DHsLocal
    BY <1>2 DEF Linked
  <2>5. w[j].box.mk.root = o.RK
    <3>1. \/ w[j].epub = o.DHsLocal /\ w[j].box.mk.root = o.RK
          \/ w[j].epub = r.DHrPeer /\ w[j].box.mk.root = r.CKr.root
      BY <1>0, <1>2, <2>1 DEF FromAhead
    <3> QED BY <2>3, <2>4, <3>1
  <2> QED BY <1>5, <2>3, <2>5
<1>22. FromAhead(p)'
  <2> SUFFICES ASSUME NEW j \in Pending(q)
               PROVE  wire[p][j].epub = o.DHrPeer /\ wire[p][j].box.mk.root = o.CKr.root
    BY <1>1, <1>19 DEF FromAhead
  <2> QED BY <1>0, <1>2 DEF ToAhead
<1>23. Ahead(p)'
  BY <1>1, <1>20, <1>21, <1>22 DEF Ahead
<1> QED BY <1>0, <1>8, <1>10, <1>11, <1>12, <1>14, <1>15, <1>16, <1>18, <1>23 DEF PairInv, PeerInv

LEMMA DecryptInv ==
  ASSUME PairInv, NEW p \in Peers, NEW i \in 1 .. Len(wire[Other(p)]), Decrypt(p, i)
  PROVE  PairInv'
<1> DEFINE r == ratchet[p]
           m == wire[Other(p)][i]
<1>1. /\ i \in Pending(p) /\ m.sequence \in Nat
      /\ ratchet' = [ratchet EXCEPT ![p] = ratchet'[p]] /\ wire' = wire
      /\ received' = [received EXCEPT ![p] = @ \cup {i}]
      /\ opened' = [opened EXCEPT ![p] = @ \cup {i}]
  BY DecryptFacts
<1>2. CASE m.epub = r.DHrPeer
  <2>1. /\ m.box.mk.root = r.CKr.root /\ nkeys' = nkeys
        /\ Continued(r, ratchet'[p], m.epub, m.sequence)
    BY <1>2, DecryptFacts
  <2> QED BY <1>1, <1>2, <2>1, DecryptStaysInv
<1>3. CASE m.epub # r.DHrPeer
  <2>1. /\ Ahead(Other(p)) /\ m.epub = ratchet[Other(p)].DHsLocal
        /\ m.box.mk.root = ratchet[Other(p)].RK /\ nkeys' = [nkeys EXCEPT ![p] = @ + 1]
        /\ \E h : Stepped(r, h, m.epub, Fresh(p)) /\ Continued(h, ratchet'[p], m.epub, m.sequence)
    BY <1>3, DecryptFacts
  <2>2. PICK h : Stepped(r, h, m.epub, Fresh(p)) /\ Continued(h, ratchet'[p], m.epub, m.sequence)
    BY <2>1
  <2> QED BY <1>1, <2>1, <2>2, DecryptStepsInv
<1> QED BY <1>2, <1>3

LEMMA NextInv == PairInv /\ [Next]_vars => PairInv'
<1> SUFFICES ASSUME PairInv, [Next]_vars PROVE PairInv'
  OBVIOUS
<1>1. CASE UNCHANGED vars
  <2> USE <1>1 DEF vars
  <2>1. PairType'
    BY DEF PairInv, PairType
  <2>2. \A p \in Peers : KeysKnown(p)' /\ InRuns(p)'
    BY DEF PairInv, PeerInv, KeysKnown, KeysOf, InRuns
  <2>3. \A p \in Peers : Sends(p)' /\ Reads(p)'
    BY DEF PairInv, PeerInv, Sends, Reads, Latest
  <2>4. \E p \in Peers : Ahead(p)'
    BY DEF PairInv, Ahead, Linked, ToAhead, FromAhead, Pending
  <2> QED BY <2>1, <2>2, <2>3, <2>4 DEF PairInv, PeerInv
<1>2. ASSUME NEW p \in Peers, Encrypt(p) PROVE PairInv'
  BY <1>2, EncryptInv
<1>3. ASSUME NEW p \in Peers, NEW i \in 1 .. Len(wire[Other(p)]), Decrypt(p, i) PROVE PairInv'
  BY <1>3, DecryptInv
<1> QED BY <1>1, <1>2, <1>3 DEF Next

\* RatchetDecrypt opens every message it is given, whichever messages before it were lost
\* (ratchet.go:222-236): the loop catches up with the sender's position, and a DH step finds
\* the root the sender has branched off, also when whole chains are missing.
THEOREM MessagesOpen == Spec => []EveryMessageOpens
<1>1. Init => EveryMessageOpens
  BY DEF Init, EveryMessageOpens
<1>2. ASSUME PairInv, EveryMessageOpens, [Next]_vars PROVE EveryMessageOpens'
  <2>1. CASE UNCHANGED vars
    BY <1>2, <2>1 DEF vars, EveryMessageOpens
  <2>2. ASSUME NEW p \in Peers, Encrypt(p) PROVE EveryMessageOpens'
    BY <1>2, <2>2, EncryptFacts DEF EveryMessageOpens
  <2>3. ASSUME NEW p \in Peers, NEW i \in 1 .. Len(wire[Other(p)]), Decrypt(p, i)
        PROVE  EveryMessageOpens'
    <3>1. /\ received' = [received EXCEPT ![p] = @ \cup {i}]
          /\ opened' = [opened EXCEPT ![p] = @ \cup {i}]
      BY <1>2, <2>3, DecryptFacts
    <3> QED BY <1>2, <3>1 DEF EveryMessageOpens, PairInv, PairType
  <2> QED BY <1>2, <2>1, <2>2, <2>3 DEF Next
<1> QED BY <1>1, <1>2, InitInv, NextInv, PTL DEF Spec

-----------------------------------------------------------------------------
(* The keys that are set aside.                                            *)

CacheExact(cache, w, passed) ==
    /\ DOMAIN cache = {<<w[i].epub, w[i].sequence>> : i \in passed}
    /\ \A i \in passed : cache[<<w[i].epub, w[i].sequence>>] = w[i].box.mk

LEMMA CachesExact ==
  SkippedKeysExact <=>
    \A p \in Peers : CacheExact(ratchet[p].skippedKeys, wire[Other(p)], PassedOver(p))
  BY DEF SkippedKeysExact, CacheExact

\* The messages that p passes over when it is handed the i-th one.
NewlyPassed(p, i) ==
    {j \in Pending(p) : j < i /\ wire[Other(p)][j].epub = wire[Other(p)][i].epub}

\* The first position that the loop of RatchetDecrypt sets aside.
FirstSkipped(p, i) ==
    IF wire[Other(p)][i].epub = ratchet[p].DHrPeer THEN ratchet[p].Nr ELSE 1

\* They are the ones right before it, from the first position of the loop on.
LEMMA NewlyPassedRun ==
  ASSUME PairInv, NEW p \in Peers, NEW i \in Pending(p)
  PROVE  LET w == wire[Other(p)]
         IN  /\ w[i].sequence \in Nat /\ FirstSkipped(p, i) \in 1 .. w[i].sequence
             /\ NewlyPassed(p, i) = i - w[i].sequence + FirstSkipped(p, i) .. i - 1
             /\ \A j \in DOMAIN w : j < i /\ w[j].epub = w[i].epub
                    => w[j].sequence = w[i].sequence - (i - j)
<1> DEFINE w == wire[Other(p)]
           n == w[i].sequence
           e == w[i].epub
           r == ratchet[p]
           f == FirstSkipped(p, i)
<1>0. /\ Other(p) \in Peers /\ PairType /\ PeerInv(p) /\ PeerInv(Other(p))
  BY OtherPeer DEF PairInv
<1>1. /\ w \in Seq(Messages) /\ DOMAIN w = 1 .. Len(w) /\ Len(w) \in Nat /\ i \in DOMAIN w
      /\ \A k \in received[p] : k < i
      /\ Pending(p) = {j \in DOMAIN w : \A k \in received[p] : k < j}
  BY <1>0 DEF PairType, Pending
<1>2. Run(w, i, e, n) /\ received[p] \subseteq DOMAIN w
  BY <1>0, <1>1 DEF PeerInv, InRuns, Reads
<1>3. /\ n \in 1 .. i
      /\ \A j \in DOMAIN w : j < i =>
           /\ w[j].epub = e <=> j > i - n
           /\ w[j].epub = e => w[j].sequence = n - (i - j)
  BY <1>2 DEF Run
<1>4. \/ e = r.DHrPeer /\ r.CKr # NoChain /\ r.Nr \in 1 .. n
      \/ e # r.DHrPeer
  BY PendingCases
<1>5. f \in 1 .. n
  BY <1>1, <1>3, <1>4 DEF FirstSkipped
<1>6. ASSUME NEW j \in DOMAIN w, j < i
      PROVE  j \in Pending(p) /\ w[j].epub = e <=> j >= i - n + f
  <2>1. CASE e = r.DHrPeer
    <3>1. PICK l \in received[p] : Latest(p, l)
      BY <1>0, <1>4, <2>1 DEF PeerInv, Reads
    <3>2. l \in DOMAIN w /\ l < i /\ w[l].epub = e /\ w[l].sequence = r.Nr - 1
          /\ \A k \in received[p] : k <= l
      BY <1>1, <1>2, <2>1, <3>1 DEF Latest
    <3>3. r.Nr - 1 = n - (i - l) /\ l > i - n
      BY <1>3, <3>2
    <3>4. f = r.Nr /\ r.Nr \in Nat
      BY <1>4, <2>1 DEF FirstSkipped
    <3> HIDE DEF w, n, e, f, r
    <3>5. l = i - n + f - 1
      BY <1>1, <1>3, <3>2, <3>3, <3>4
    <3>6. j \in Pending(p) <=> j > l
      BY <1>1, <1>2, <1>6, <3>1, <3>2
    <3> QED BY <1>1, <1>3, <1>5, <1>6, <3>2, <3>3, <3>5, <3>6
  <2>2. CASE e # r.DHrPeer
    <3>1. f = 1
      BY <2>2 DEF FirstSkipped
    <3>2. ASSUME w[j].epub = e PROVE j \in Pending(p)
      <4> SUFFICES ASSUME NEW k \in received[p] PROVE k < j
        BY <1>1
      <4>1. r.CKr # NoChain
        BY <1>0 DEF PeerInv, Reads
      <4>2. PICK l \in received[p] : Latest(p, l)
        BY <1>0, <4>1 DEF PeerInv, Reads
      <4>3. l \in DOMAIN w /\ l < i /\ w[l].epub = r.DHrPeer /\ k <= l /\ k \in DOMAIN w
        BY <1>1, <1>2, <4>2 DEF Latest
      <4> HIDE DEF w, n, e, f, r
      <4>4. i \in Nat
        BY <1>1
      <4>5. ~(j <= l)
        BY <1>1, <1>2, <1>6, <2>2, <3>2, <4>3, <4>4, RunStays
      <4> QED BY <1>1, <4>3, <4>5
    <3> HIDE DEF w, n, e, f, r
    <3> QED BY <1>1, <1>3, <1>6, <3>1, <3>2
  <2> QED BY <2>1, <2>2
<1>7. NewlyPassed(p, i) = {j \in DOMAIN w : j < i /\ j \in Pending(p) /\ w[j].epub = e}
  BY <1>1 DEF NewlyPassed
<1> HIDE DEF w, n, e, f, r
<1>8. NewlyPassed(p, i) = i - n + f .. i - 1
  BY <1>1, <1>3, <1>5, <1>6, <1>7
<1> QED BY <1>1, <1>3, <1>5, <1>8 DEF w, n, e, f

\* After Decrypt the cache holds the keys of the messages it has passed over as well.
LEMMA DecryptCache ==
  ASSUME PairInv, SkippedKeysExact, NEW p \in Peers, NEW i \in 1 .. Len(wire[Other(p)]),
         Decrypt(p, i)
  PROVE  CacheExact(ratchet'[p].skippedKeys, wire[Other(p)], PassedOver(p)')
<1> DEFINE w == wire[Other(p)]
           n == w[i].sequence
           e == w[i].epub
           r == ratchet[p]
           o == ratchet[Other(p)]
           s == ratchet'[p]
           f == FirstSkipped(p, i)
           new == NewlyPassed(p, i)
<1>0. /\ Other(p) \in Peers /\ PairType /\ PeerInv(p) /\ PeerInv(Other(p))
      /\ Other(Other(p)) = p
  BY OtherPeer DEF PairInv
<1>1. /\ i \in Pending(p) /\ wire' = wire /\ received' = [received EXCEPT ![p] = @ \cup {i}]
  BY DecryptFacts
<1>2. /\ w \in Seq(Messages) /\ DOMAIN w = 1 .. Len(w) /\ Len(w) \in Nat /\ i \in DOMAIN w
      /\ \A k \in received[p] : k < i
      /\ Pending(p) = {j \in DOMAIN w : \A k \in received[p] : k < j}
      /\ received'[p] = received[p] \cup {i} /\ received[p] \subseteq DOMAIN w
  BY <1>0, <1>1 DEF PairType, Pending, PeerInv, Reads
<1>3. /\ n \in Nat /\ f \in 1 .. n /\ new = i - n + f .. i - 1
      /\ \A j \in DOMAIN w : j < i /\ w[j].epub = e => w[j].sequence = n - (i - j)
      /\ new = {j \in Pending(p) : j < i /\ w[j].epub = e}
  BY <1>1, NewlyPassedRun DEF NewlyPassed
<1>4. PICK h : /\ Skipped(h, s, e, n) /\ h.skippedKeys = r.skippedKeys /\ h.Nr = f
               /\ h.CKr.root = w[i].box.mk.root
  <2>1. CASE e = r.DHrPeer
    <3>1. w[i].box.mk.root = r.CKr.root /\ Continued(r, s, e, n)
      BY <2>1, DecryptFacts
    <3>2. Skipped(r, s, e, n) /\ f = r.Nr
      BY <2>1, <3>1 DEF Continued, FirstSkipped
    <3> QED BY <3>1, <3>2
  <2>2. CASE e # r.DHrPeer
    <3>1. /\ Ahead(Other(p)) /\ e = o.DHsLocal /\ w[i].box.mk.root = o.RK
          /\ \E h : Stepped(r, h, e, Fresh(p)) /\ Continued(h, s, e, n)
      BY <2>2, DecryptFacts
    <3>2. PICK h : Stepped(r, h, e, Fresh(p)) /\ Continued(h, s, e, n)
      BY <3>1
    <3>3. Append(r.RK, ComputeECDHSharedSecret(r.DHsLocal, e)) = o.RK
      BY <1>0, <3>1 DEF Ahead, Linked, ComputeECDHSharedSecret
    <3>4. h.CKr.root = o.RK /\ h.Nr = 1 /\ h.skippedKeys = r.skippedKeys
      BY <3>2, <3>3 DEF Stepped
    <3>5. Skipped(h, s, e, n) /\ f = 1
      BY <2>2, <3>2 DEF Continued, FirstSkipped
    <3> QED BY <3>1, <3>4, <3>5
  <2> QED BY <2>1, <2>2
<1>5. \A j \in new : w[j].box.mk = [root |-> h.CKr.root, step |-> w[j].sequence - 1]
  <2> SUFFICES ASSUME NEW j \in new
               PROVE  w[j].box.mk = [root |-> h.CKr.root, step |-> w[j].sequence - 1]
    OBVIOUS
  <2>1. j \in Pending(p) /\ j \in DOMAIN w /\ w[j].epub = e
    BY <1>2, <1>3
  <2>2. w[j].box.mk.step = w[j].sequence - 1
    BY <1>0, <2>1 DEF PeerInv, InRuns
  <2>3. w[j] \in Messages
    BY <1>2, <2>1
  <2>4. w[j].box.mk = [root |-> w[j].box.mk.root, step |-> w[j].box.mk.step]
    BY <2>3 DEF Messages, Chains
  <2>5. w[j].box.mk.root = w[i].box.mk.root
    <3>1. \/ w[i].epub = r.DHrPeer /\ w[i].box.mk.root = r.CKr.root
          \/ w[i].epub # r.DHrPeer /\ w[i].box.mk.root = o.RK
      BY <1>1, PendingCases
    <3>2. \/ w[j].epub = r.DHrPeer /\ w[j].box.mk.root = r.CKr.root
          \/ w[j].epub # r.DHrPeer /\ w[j].box.mk.root = o.RK
      BY <2>1, PendingCases
    <3> QED BY <2>1, <3>1, <3>2
  <2> QED BY <1>4, <2>2, <2>4, <2>5
<1>6. Run(w, i, e, n)
  BY <1>0, <1>2 DEF PeerInv, InRuns
<1>7. /\ PassedOver(p) = {x \in 1 .. Len(w) \ received[p] :
                            \E j \in received[p] : j > x /\ w[j].epub = w[x].epub}
      /\ PassedOver(p)' = {x \in 1 .. Len(w) \ (received[p] \cup {i}) :
                            \E j \in received[p] \cup {i} : j > x /\ w[j].epub = w[x].epub}
  BY <1>1, <1>2 DEF PassedOver
<1> HIDE DEF w, n, e, r, o, s, f, new
<1>8. PassedOver(p)' = PassedOver(p) \cup new
  <2>1. ASSUME NEW x \in PassedOver(p)' PROVE x \in PassedOver(p) \cup new
    <3>1. PICK j \in received[p] \cup {i} : j > x /\ w[j].epub = w[x].epub
      BY <1>7
    <3>2. x \in 1 .. Len(w) /\ x \notin received[p] /\ x # i
      BY <1>7
    <3>3. CASE j \in received[p]
      BY <1>7, <3>1, <3>2, <3>3
    <3>4. CASE j = i
      <4>1. x < i /\ w[x].epub = e
        BY <3>1, <3>2, <3>4, <1>2 DEF e
      <4>2. CASE x \in Pending(p)
        BY <1>3, <4>1, <4>2
      <4>3. CASE x \notin Pending(p)
        <5>1. PICK k \in received[p] : ~(k < x)
          BY <1>2, <3>2, <4>3
        <5>2. k > x /\ k < i /\ k \in DOMAIN w /\ x \in DOMAIN w
          BY <1>2, <3>2, <5>1
        <5>3. w[k].epub = e
          BY <1>2, <1>6, <4>1, <5>2, RunStays
        <5> QED BY <1>7, <3>2, <4>1, <5>2, <5>3
      <4> QED BY <4>2, <4>3
    <3> QED BY <3>3, <3>4
  <2>2. ASSUME NEW x \in PassedOver(p) PROVE x \in PassedOver(p)'
    <3>1. PICK j \in received[p] : j > x /\ w[j].epub = w[x].epub
      BY <1>7
    <3>2. x \in 1 .. Len(w) /\ x \notin received[p] /\ x # i
      BY <1>2, <1>7, <3>1
    <3> QED BY <1>7, <3>1, <3>2
  <2>3. ASSUME NEW x \in new PROVE x \in PassedOver(p)'
    <3>1. x \in DOMAIN w /\ x < i /\ w[x].epub = e /\ x \notin received[p]
      BY <1>2, <1>3
    <3> QED BY <1>2, <1>7, <3>1 DEF e
  <2> QED BY <2>1, <2>2, <2>3
<1>9. \A j \in new : /\ w[j].epub = e /\ w[j].sequence = n - (i - j)
                     /\ n - (i - j) \in f .. n - 1
  BY <1>2, <1>3
<1>10. SkipNew(h, e, n) = {<<w[j].epub, w[j].sequence>> : j \in new}
  <2>1. ASSUME NEW j \in new PROVE <<w[j].epub, w[j].sequence>> \in SkipNew(h, e, n)
    BY <1>4, <1>9 DEF SkipNew
  <2>2. ASSUME NEW k \in f .. n - 1
        PROVE  \E j \in new : w[j].epub = e /\ w[j].sequence = k
    <3>1. i - n + k \in new /\ i - (i - n + k) = n - k /\ n - (n - k) = k
      BY <1>2, <1>3, <2>2
    <3> QED BY <1>9, <3>1
  <2>3. ASSUME NEW x \in SkipNew(h, e, n)
        PROVE  x \in {<<w[j].epub, w[j].sequence>> : j \in new}
    BY <1>4, <2>2, <2>3 DEF SkipNew
  <2> QED BY <2>1, <2>3
<1>11. \A j \in PassedOver(p) : <<w[j].epub, w[j].sequence>> \notin SkipNew(h, e, n)
  <2> SUFFICES ASSUME NEW j \in PassedOver(p), NEW x \in new,
                      w[j].epub = w[x].epub, w[j].sequence = w[x].sequence
               PROVE  FALSE
    BY <1>10
  <2>1. PICK k \in received[p] : k > j
    BY <1>7
  <2>2. j \in DOMAIN w /\ j < i
    BY <1>2, <1>7, <2>1
  <2>3. n - (i - j) = n - (i - x)
    BY <1>3, <1>9, <2>2
  <2>4. j = x
    BY <1>2, <1>3, <2>2, <2>3
  <2> QED BY <1>2, <1>3, <2>1, <2>4
<1>12. CacheExact(r.skippedKeys, w, PassedOver(p))
  BY CachesExact DEF r, w
<1>13. /\ DOMAIN s.skippedKeys = DOMAIN r.skippedKeys \cup SkipNew(h, e, n)
       /\ \A k \in SkipNew(h, e, n) :
            s.skippedKeys[k] = [root |-> h.CKr.root, step |-> k[2] - 1]
       /\ \A k \in DOMAIN r.skippedKeys \ SkipNew(h, e, n) : s.skippedKeys[k] = r.skippedKeys[k]
  BY <1>4 DEF Skipped
<1>14. \A j \in new : s.skippedKeys[<<w[j].epub, w[j].sequence>>] = w[j].box.mk
  BY <1>5, <1>10, <1>13
<1>15. \A j \in PassedOver(p) : s.skippedKeys[<<w[j].epub, w[j].sequence>>] = w[j].box.mk
  BY <1>11, <1>12, <1>13 DEF CacheExact
<1>16. DOMAIN s.skippedKeys = {<<w[j].epub, w[j].sequence>> : j \in PassedOver(p) \cup new}
  BY <1>10, <1>12, <1>13 DEF CacheExact
<1>17. CacheExact(s.skippedKeys, w, PassedOver(p) \cup new)
  BY <1>14, <1>15, <1>16 DEF CacheExact
<1> QED BY <1>8, <1>17 DEF s, w

\* RatchetDecrypt puts aside the keys of the positions it passes over, each under the header
\* key and the number of the message it belongs to, and no others (ratchet.go:213-226).
THEOREM SkippedAsLost == Spec => []SkippedKeysExact
<1>1. Init => SkippedKeysExact
  <2> SUFFICES ASSUME Init PROVE SkippedKeysExact
    OBVIOUS
  <2>1. \A p \in Peers : ratchet[p].skippedKeys = <<>>
    BY DEF Init, NewInitiatorRatchet, NewResponderRatchet
  <2>2. \A p \in Peers : wire[Other(p)] = <<>> /\ PassedOver(p) = {}
    BY OtherPeer DEF Init, PassedOver
  <2> QED BY <2>1, <2>2 DEF SkippedKeysExact
<1>2. ASSUME PairInv, SkippedKeysExact, [Next]_vars PROVE SkippedKeysExact'
  <2>1. CASE UNCHANGED vars
    BY <1>2, <2>1 DEF vars, SkippedKeysExact, PassedOver
  <2>2. ASSUME NEW p \in Peers, Encrypt(p) PROVE SkippedKeysExact'
    <3> DEFINE q == Other(p)
               w == wire[p]
    <3>0. /\ q \in Peers /\ q # p /\ Other(q) = p /\ Peers = {p, q} /\ PairType
          /\ received[q] \subseteq DOMAIN w /\ w \in Seq(Messages)
      BY <1>2, OtherPeer DEF PairInv, PeerInv, Reads, PairType
    <3>1. PICK m \in Messages : wire' = [wire EXCEPT ![p] = Append(w, m)]
      BY <1>2, <2>2, EncryptFacts
    <3>2. /\ ratchet' = [ratchet EXCEPT ![p] = ratchet'[p]] /\ received' = received
          /\ ratchet'[p].skippedKeys = ratchet[p].skippedKeys
      BY <1>2, <2>2, EncryptFacts
    <3>3. /\ wire'[q] = wire[q] /\ wire'[p] = Append(w, m)
          /\ ratchet'[q] = ratchet[q]
      BY <3>0, <3>1, <3>2 DEF PairType
    <3>4. /\ Len(w) \in Nat /\ Len(Append(w, m)) = Len(w) + 1 /\ DOMAIN w = 1 .. Len(w)
          /\ \A j \in 1 .. Len(w) : Append(w, m)[j] = w[j]
      BY <3>0, AppendFacts
    <3>5. PassedOver(p)' = PassedOver(p)
      BY <3>2, <3>3 DEF PassedOver
    <3>6. PassedOver(q)' = PassedOver(q) /\ PassedOver(q) \subseteq 1 .. Len(w)
      BY <3>0, <3>2, <3>3, <3>4 DEF PassedOver
    <3>7. \A x \in Peers :
            CacheExact(ratchet[x].skippedKeys, wire[Other(x)], PassedOver(x))
      BY <1>2, CachesExact
    <3>8. CacheExact(ratchet'[p].skippedKeys, wire'[q], PassedOver(p)')
      BY <3>2, <3>3, <3>5, <3>7
    <3>9. CacheExact(ratchet'[q].skippedKeys, wire'[p], PassedOver(q)')
      <4> DEFINE P == PassedOver(q)
                 c == ratchet[q].skippedKeys
                 v == Append(w, m)
      <4>0. wire[Other(q)] = w
        BY <3>0
      <4>1. CacheExact(c, w, P)
        BY <3>0, <3>7, <4>0
      <4>2. \A j \in P : v[j] = w[j]
        BY <3>4, <3>6
      <4> HIDE DEF P, c, v, w
      <4>3. {<<w[j].epub, w[j].sequence>> : j \in P} = {<<v[j].epub, v[j].sequence>> : j \in P}
        BY <4>2
      <4>4. CacheExact(c, v, P)
        BY <4>1, <4>2, <4>3 DEF CacheExact
      <4> QED BY <3>3, <3>6, <4>4 DEF P, c, v
    <3>10. \A x \in Peers :
             CacheExact(ratchet'[x].skippedKeys, wire'[Other(x)], PassedOver(x)')
      BY <3>0, <3>8, <3>9
    <3> QED BY <3>10 DEF CacheExact, SkippedKeysExact
  <2>3. ASSUME NEW p \in Peers, NEW i \in 1 .. Len(wire[Other(p)]), Decrypt(p, i)
        PROVE  SkippedKeysExact'
    <3> DEFINE q == Other(p)
    <3>0. q \in Peers /\ q # p /\ Other(q) = p /\ Peers = {p, q} /\ PairType
      BY <1>2, OtherPeer DEF PairInv
    <3>1. /\ ratchet' = [ratchet EXCEPT ![p] = ratchet'[p]] /\ wire' = wire
          /\ received' = [received EXCEPT ![p] = @ \cup {i}]
      BY <1>2, <2>3, DecryptFacts
    <3>2. ratchet'[q] = ratchet[q] /\ received'[q] = received[q]
      BY <3>0, <3>1 DEF PairType
    <3>3. CacheExact(ratchet'[p].skippedKeys, wire'[q], PassedOver(p)')
      BY <1>2, <2>3, <3>1, DecryptCache
    <3>4. PassedOver(q)' = PassedOver(q)
      BY <3>1, <3>2 DEF PassedOver
    <3>5. CacheExact(ratchet'[q].skippedKeys, wire'[p], PassedOver(q)')
      BY <1>2, <3>0, <3>1, <3>2, <3>4, CachesExact
    <3>6. \A x \in Peers :
            CacheExact(ratchet'[x].skippedKeys, wire'[Other(x)], PassedOver(x)')
      BY <3>0, <3>3, <3>5
    <3> QED BY <3>6 DEF CacheExact, SkippedKeysExact
  <2> QED BY <1>2, <2>1, <2>2, <2>3 DEF Next
<1> QED BY <1>1, <1>2, InitInv, NextInv, PTL DEF Spec
=============================================================================
