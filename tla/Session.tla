------------------------------- MODULE Session -------------------------------
(***************************************************************************)
(* The methods of pkg/protocol/session.go as pure operators on the struct  *)
(* Session.  A packet is a header, a body and an Ed25519 signature over    *)
(* both; the header doubles as the associated data of the body, as in      *)
(* packet.go.  Version, epoch and recipient fingerprint never differ       *)
(* within a session and are left out; the nonce is part of the body.       *)
(*                                                                         *)
(* Every method holds the session's mutex throughout.  An argument fresh   *)
(* is the key pair GenerateECDHKeyPair returns if the method calls it.     *)
(***************************************************************************)
EXTENDS Replay, Ratchet

-----------------------------------------------------------------------------
\* packet.go and identity.go.

\* SignedBytes covers every field but the signature itself.
SignedBytes(pkt) == <<pkt.hdr, pkt.body>>

Sign(me, bytes) == [signer |-> me, bytes |-> bytes]

\* PeerIdentity.VerifySignature over the whole packet.
VerifySignature(peer, pkt) == pkt.sig = Sign(peer, SignedBytes(pkt))

Header(me, type, seq, epub) ==
    [type |-> type, seq |-> seq, epub |-> epub, sender |-> me]

\* ComputeAAD is the header, byte for byte.
ComputeAAD(hdr) == hdr

Packet(me, hdr, body) ==
    [hdr |-> hdr, body |-> body, sig |-> Sign(me, <<hdr, body>>)]

\* The payload of a handshake packet is a signed public key, which no message
\* key opens.
HandshakePayload(key) == [mk |-> NoChain, aad |-> NoKey, text |-> key]

HandshakePacket(me, type, key) ==
    Packet(me, Header(me, type, 1, key), HandshakePayload(key))

-----------------------------------------------------------------------------
\* The nil *Ratchet of a session that is not established.
NoRatchet == NewResponderRatchet(<<>>, NoKey)

NewSession ==
    [isEstablished |-> FALSE, outSequence |-> 0,
     replayWin |-> NewReplayWindow, ratchet |-> NoRatchet]

Established(s, r) == [s EXCEPT !.ratchet = r, !.isEstablished = TRUE]

\* The packet of CreateHandshakeInit; the session itself does not change.
CreateHandshakeInit(me, fresh) == HandshakePacket(me, "init", fresh)

\* The checks of ProcessHandshakeInit and CompleteInitiatorHandshake.
HandshakeValid(pkt, type, peer) ==
    pkt.hdr.type = type /\ VerifySignature(peer, pkt)

\* ProcessHandshakeInit of a valid packet: the responder's session and its answer.
ProcessHandshakeInit(s, me, pkt, fresh) ==
    LET master == MasterSecret(ComputeECDHSharedSecret(fresh, pkt.body.text))
    IN  [session |-> Established(s, NewResponderRatchet(master, fresh)),
         resp    |-> HandshakePacket(me, "resp", fresh)]

\* Mutated form: the first root key is made from the new ratchet key pair.
CompleteWithRatchetKey(s, pkt, ephemeralPriv, fresh) ==
    LET remote == pkt.body.text
        master == MasterSecret(ComputeECDHSharedSecret(fresh, remote))
    IN  Established(s, NewInitiatorRatchet(master, fresh, remote))

\* CompleteInitiatorHandshake of a valid packet.
CompleteInitiatorHandshake(s, pkt, ephemeralPriv, fresh) ==
    LET remote == pkt.body.text
        master == MasterSecret(ComputeECDHSharedSecret(ephemeralPriv, remote))
    IN  Established(s, NewInitiatorRatchet(master, fresh, remote))

-----------------------------------------------------------------------------
\* EncryptMessage fails on a session that is not established, and when the
\* ratchet has neither a sending chain nor a peer key.
EncryptRefused(s) == ~s.isEstablished \/ ~CanEncrypt(s.ratchet)

\* The sequence number is taken before RatchetEncrypt is tried, and not given
\* back when it fails.
AfterRefusedEncrypt(s) ==
    IF s.isEstablished THEN [s EXCEPT !.outSequence = @ + 1] ELSE s

\* EncryptMessage otherwise: the session it leaves and the packet it returns.
EncryptMessage(s, me, text, fresh) ==
    LET e   == RatchetEncrypt(s.ratchet, fresh)
        hdr == Header(me, "data", s.outSequence + 1, e.epub)
    IN  [session |-> [s EXCEPT !.outSequence = @ + 1, !.ratchet = e.ratchet],
         pkt     |-> Packet(me, hdr, EncryptAEAD(e.mk, ComputeAAD(hdr), text))]

\* Mutated form: the signature is not verified.
DecryptBeforeVerify(s, peer, pkt, fresh) ==
    IF ~s.isEstablished \/ ~Accepts(s.replayWin, pkt.hdr.seq)
    THEN [result |-> "replay", session |-> s]
    ELSE LET d == RatchetDecrypt(s.ratchet, pkt.hdr.epub, pkt.body,
                                 ComputeAAD(pkt.hdr), 0, fresh)
         IN  [result  |-> IF d.ok THEN "ok" ELSE "decrypt",
              session |-> [s EXCEPT !.ratchet = d.ratchet,
                                    !.replayWin = CheckAndAdd(@, pkt.hdr.seq)]]

\* DecryptMessage: the result it returns and the session it leaves.  The packet's
\* number enters the window before the signature is verified; the type of the
\* packet is not looked at.
DecryptMessage(s, peer, pkt, fresh) ==
    LET counted == [s EXCEPT !.replayWin = CheckAndAdd(@, pkt.hdr.seq)]
        d == RatchetDecrypt(s.ratchet, pkt.hdr.epub, pkt.body,
                            ComputeAAD(pkt.hdr), 0, fresh)
    IN  CASE ~s.isEstablished -> [result |-> "unestablished", session |-> s]
          [] s.isEstablished /\ ~Accepts(s.replayWin, pkt.hdr.seq) ->
               [result |-> "replay", session |-> s]
          [] s.isEstablished /\ Accepts(s.replayWin, pkt.hdr.seq)
               /\ ~VerifySignature(peer, pkt) ->
               [result |-> "signature", session |-> counted]
          [] OTHER ->
               [result  |-> IF d.ok THEN "ok" ELSE "decrypt",
                session |-> [counted EXCEPT !.ratchet = d.ratchet]]
=============================================================================
