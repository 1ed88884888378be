----------------------------- MODULE RatchetPair -----------------------------
(***************************************************************************)
(* Two Ratchet objects used directly, the way tests/crypto_test.go uses    *)
(* them: RatchetEncrypt returns the position of the message within its     *)
(* sending chain, and the receiver hands it to RatchetDecrypt, which sets  *)
(* the keys of the positions it passes over aside.  (Session, in contrast, *)
(* always passes 0.)  Any packet may be lost; the others keep their order, *)
(* since RatchetDecrypt never looks up the keys it has set aside.          *)
(***************************************************************************)
EXTENDS Ratchet

CONSTANTS Alice, Bob,    \* the initiator and the responder
          MaxMessages    \* bound: messages per peer

ASSUME RatchetPairAssumption ==
    /\ Alice # Bob
    /\ MaxMessages \in Nat
    /\ NoKey \notin {Alice, Bob} \X Nat

VARIABLES ratchet,   \* the peer's Ratchet
          nkeys,     \* how many key pairs the peer has generated
          wire,      \* the peer's messages, oldest first
          received,  \* the indices of the other peer's messages handed to the peer
          opened     \* those of them that RatchetDecrypt opened

vars == <<ratchet, nkeys, wire, received, opened>>

Peers == {Alice, Bob}
Other(p) == IF p = Alice THEN Bob ELSE Alice
Fresh(p) == <<p, nkeys[p] + 1>>

\* Both ends have the shared secret; the initiator knows the responder's key.
Init ==
    LET bobDH  == <<Bob, 1>>
        master == MasterSecret({})
    IN  /\ ratchet = [p \in Peers |->
                        IF p = Alice THEN NewInitiatorRatchet(master, <<Alice, 1>>, bobDH)
                                     ELSE NewResponderRatchet(master, bobDH)]
        /\ nkeys = [p \in Peers |-> 1]
        /\ wire = [p \in Peers |-> <<>>]
        /\ received = [p \in Peers |-> {}]
        /\ opened = [p \in Peers |-> {}]

Encrypt(p) ==
    LET e == RatchetEncrypt(ratchet[p], Fresh(p))
        aad == [epub |-> e.epub, sequence |-> e.sequence]
    IN  /\ Len(wire[p]) < MaxMessages
        /\ CanEncrypt(ratchet[p])
        /\ ratchet' = [ratchet EXCEPT ![p] = e.ratchet]
        /\ nkeys' = [nkeys EXCEPT ![p] = IF e.epub = ratchet[p].DHsLocal THEN @ ELSE @ + 1]
        /\ wire' = [wire EXCEPT ![p] =
                      Append(@, [epub |-> e.epub, sequence |-> e.sequence, aad |-> aad,
                                 box |-> EncryptAEAD(e.mk, aad, Len(wire[p]) + 1)])]
        /\ UNCHANGED <<received, opened>>

Decrypt(p, i) ==
    LET m == wire[Other(p)][i]
        d == RatchetDecrypt(ratchet[p], m.epub, m.box, m.aad, m.sequence, Fresh(p))
    IN  /\ \A j \in received[p] : j < i
        /\ ratchet' = [ratchet EXCEPT ![p] = d.ratchet]
        /\ nkeys' = [nkeys EXCEPT ![p] =
                       IF d.ratchet.DHsLocal = ratchet[p].DHsLocal THEN @ ELSE @ + 1]
        /\ received' = [received EXCEPT ![p] = @ \cup {i}]
        /\ opened' = [opened EXCEPT ![p] = IF d.ok THEN @ \cup {i} ELSE @]
        /\ UNCHANGED wire

Next ==
    \E p \in Peers :
        \/ Encrypt(p)
        \/ \E i \in 1 .. Len(wire[Other(p)]) : Decrypt(p, i)

Spec == Init /\ [][Next]_vars

-----------------------------------------------------------------------------
\* Every message handed over opens, whatever was lost before it: the loop of
\* RatchetDecrypt catches up with the sender's position, also when the first
\* messages of a new chain or the last ones of an old chain are missing.
EveryMessageOpens == \A p \in Peers : opened[p] = received[p]

\* The cache holds the keys of the messages that were passed over within a chain,
\* each under the header key and position of the message it belongs to.
PassedOver(p) ==
    {i \in 1 .. Len(wire[Other(p)]) \ received[p] :
        \E j \in received[p] : j > i /\ wire[Other(p)][j].epub = wire[Other(p)][i].epub}

SkippedKeysExact ==
    \A p \in Peers :
        LET cache == ratchet[p].skippedKeys
            m(i) == wire[Other(p)][i]
        IN  /\ DOMAIN cache = {<<m(i).epub, m(i).sequence>> : i \in PassedOver(p)}
            /\ \A i \in PassedOver(p) : cache[<<m(i).epub, m(i).sequence>>] = m(i).box.mk
=============================================================================
