------------------------------- MODULE Ratchet -------------------------------
(***************************************************************************)
(* The double ratchet of pkg/crypto/ratchet.go as pure operators on the    *)
(* struct Ratchet, over symbolic cryptography: a key pair is an atom, and  *)
(* what a KDF returns is the term of what went into it, so two keys are    *)
(* equal exactly when they were derived alike.                             *)
(*                                                                         *)
(*   - the X25519 secret of two key pairs is the set of the two;           *)
(*   - a root key is the sequence of the secrets mixed into it;            *)
(*   - a chain key is the root it branched off and the number of times it  *)
(*     was advanced; the message key taken at that point is that pair too, *)
(*     in the places where a message key is meant;                         *)
(*   - a sealed box opens under the message key and the associated data it *)
(*     was sealed with, and under no other.                                *)
(*                                                                         *)
(* Every method holds the object's mutex throughout, so an operator is one *)
(* step.  crypto/rand does not fail with the toolchain of go.mod, and a    *)
(* key of the right length is a valid X25519 key, so neither error branch  *)
(* is modelled.                                                            *)
(***************************************************************************)
EXTENDS Naturals, Sequences

CONSTANT NoKey  \* the nil *ecdh.PublicKey or *ecdh.PrivateKey

ComputeECDHSharedSecret(a, b) == {a, b}

\* HKDFExtractExpand of the handshake secret: the first root key.
MasterSecret(secret) == <<secret>>

\* The empty []byte of a chain that does not exist yet.
NoChain == [root |-> <<>>, step |-> 0]

\* DeriveRootStep: the next root key and a chain key that branches off it.
DeriveRootStep(rk, secret) ==
    [rk |-> Append(rk, secret),
     ck |-> [root |-> Append(rk, secret), step |-> 0]]

\* Mutated form: the chain key is returned as it came in.
FrozenChainKey(ck) == ck

\* DeriveRatchetedKeys returns the next chain key and this message key.
NextChainKey(ck) == [ck EXCEPT !.step = @ + 1]
MessageKey(ck)   == ck

EncryptAEAD(mk, aad, text) == [mk |-> mk, aad |-> aad, text |-> text]
DecryptAEAD(mk, aad, box)  == box.mk = mk /\ box.aad = aad

-----------------------------------------------------------------------------
\* NewRatchet(.., true, ..): a fresh key pair and the first sending chain.
NewInitiatorRatchet(master, fresh, remote) ==
    LET send == DeriveRootStep(master, ComputeECDHSharedSecret(fresh, remote))
    IN  [DHsLocal |-> fresh, DHrPeer |-> remote, RK |-> send.rk,
         CKs |-> send.ck, CKr |-> NoChain,
         Ns |-> 1, Nr |-> 1, PN |-> 0, skippedKeys |-> <<>>]

\* NewRatchet(.., false, ..): the handshake key pair, no peer key and no chain.
NewResponderRatchet(master, local) ==
    [DHsLocal |-> local, DHrPeer |-> NoKey, RK |-> master,
     CKs |-> NoChain, CKr |-> NoChain,
     Ns |-> 1, Nr |-> 1, PN |-> 0, skippedKeys |-> <<>>]

\* Mutated form: the sending chain is renewed with the old local key pair.
SendStepWithOldKey(r, fresh) ==
    LET send == DeriveRootStep(r.RK, ComputeECDHSharedSecret(r.DHsLocal, r.DHrPeer))
    IN  [r EXCEPT !.RK = send.rk, !.CKs = send.ck, !.PN = r.Ns, !.Ns = 1]

\* The sending half of a DH ratchet step: a new local key pair, a new sending chain.
SendStep(r, fresh) ==
    LET send == DeriveRootStep(r.RK, ComputeECDHSharedSecret(fresh, r.DHrPeer))
    IN  [r EXCEPT !.DHsLocal = fresh, !.RK = send.rk, !.CKs = send.ck,
                  !.PN = r.Ns, !.Ns = 1]

\* Mutated form: the new sending chain is not derived.
ReceiveOnlyStep(r, epub, fresh) ==
    LET recv == DeriveRootStep(r.RK, ComputeECDHSharedSecret(r.DHsLocal, epub))
    IN  [r EXCEPT !.DHrPeer = epub, !.DHsLocal = fresh, !.RK = recv.rk,
                  !.CKr = recv.ck, !.Nr = 1]

\* The DH ratchet step of RatchetDecrypt: receiving half, then sending half.
DHStep(r, epub, fresh) ==
    LET recv == DeriveRootStep(r.RK, ComputeECDHSharedSecret(r.DHsLocal, epub))
    IN  SendStep([r EXCEPT !.DHrPeer = epub, !.RK = recv.rk, !.CKr = recv.ck,
                           !.Nr = 1],
                 fresh)

-----------------------------------------------------------------------------
\* RatchetEncrypt needs a peer key only when it has no sending chain.
CanEncrypt(r) == r.CKs # NoChain \/ r.DHrPeer # NoKey

\* The state from which RatchetEncrypt takes its message key: a sending chain
\* that is missing is made first.
Sending(r, fresh) == IF r.CKs = NoChain THEN SendStep(r, fresh) ELSE r

\* What RatchetEncrypt returns and leaves behind, when CanEncrypt(r).
RatchetEncrypt(r, fresh) ==
    LET s == Sending(r, fresh)
    IN  [epub |-> s.DHsLocal, mk |-> MessageKey(s.CKs), sequence |-> s.Ns,
         ratchet |-> [s EXCEPT !.CKs = NextChainKey(@), !.Ns = @ + 1]]

-----------------------------------------------------------------------------
\* RatchetDecrypt makes a DH step for a header key other than the peer key it holds.
NeedsDHStep(r, epub) == r.DHrPeer # epub

\* Mutated form: the loop stops one position early.
SkipOneShort(r, epub, sequence) ==
    LET n == IF r.Nr + 1 < sequence THEN sequence - r.Nr - 1 ELSE 0
    IN  [r EXCEPT !.CKr.step = @ + n, !.Nr = @ + n]

\* Mutated form: a skipped key is filed under the counter after it was advanced.
SkipFiledLate(r, epub, sequence) ==
    LET n == IF r.Nr < sequence THEN sequence - r.Nr ELSE 0
        new == {<<epub, i + 1>> : i \in r.Nr .. r.Nr + n - 1}
    IN  [r EXCEPT !.CKr.step = @ + n,
                  !.Nr = @ + n,
                  !.skippedKeys =
                      [k \in DOMAIN @ \cup new |->
                          IF k \in new
                          THEN [r.CKr EXCEPT !.step = @ + k[2] - 1 - r.Nr]
                          ELSE r.skippedKeys[k]]]

\* The loop of RatchetDecrypt: the keys of Nr .. sequence-1 are put aside.
SkipTo(r, epub, sequence) ==
    LET n == IF r.Nr < sequence THEN sequence - r.Nr ELSE 0
        new == {<<epub, i>> : i \in r.Nr .. r.Nr + n - 1}
    IN  [r EXCEPT !.CKr.step = @ + n,
                  !.Nr = @ + n,
                  !.skippedKeys =
                      [k \in DOMAIN @ \cup new |->
                          IF k \in new
                          THEN [r.CKr EXCEPT !.step = @ + k[2] - r.Nr]
                          ELSE r.skippedKeys[k]]]

\* RatchetDecrypt up to its message key.  The DH step and the skipped keys are
\* stored in the object at once; nothing undoes them.
Receiving(r, epub, sequence, fresh) ==
    SkipTo(IF NeedsDHStep(r, epub) THEN DHStep(r, epub, fresh) ELSE r, epub, sequence)

\* What RatchetDecrypt returns and leaves behind.  Without a receiving chain
\* DeriveRatchetedKeys fails; otherwise the chain advances whether or not the
\* box opens.
RatchetDecrypt(r, epub, box, aad, sequence, fresh) ==
    IF ~NeedsDHStep(r, epub) /\ r.CKr = NoChain
    THEN [ok |-> FALSE, ratchet |-> r]
    ELSE LET s == Receiving(r, epub, sequence, fresh)
         IN  [ok |-> DecryptAEAD(MessageKey(s.CKr), aad, box),
              ratchet |-> [s EXCEPT !.CKr = NextChainKey(@), !.Nr = @ + 1]]
=============================================================================
