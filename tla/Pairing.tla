------------------------------- MODULE Pairing -------------------------------
(***************************************************************************)
(* pkg/identity/pairing.go as operators: a device encrypts its public key  *)
(* under a spoken PIN, the other device decrypts it and shows a code of    *)
(* six digits.  Cryptography is symbolic: a key is what it is derived      *)
(* from, a box opens with its key and associated data only, and codes are  *)
(* equal when they are derived alike (the code of two different inputs is  *)
(* the same once in a million).                                            *)
(***************************************************************************)
CONSTANTS Pins,       \* PINs people agree on
          ShortPins   \* those of fewer than four characters

ASSUME PairingAssumption == ShortPins \subseteq Pins

derivePairingKey(pin, salt) == [pin |-> pin, salt |-> salt]

\* CreatePairingPayload refuses a short PIN.
PinAccepted(pin) == pin \notin ShortPins

CreatePairingPayload(pub, pin, salt) ==
    [Salt |-> salt,
     Ciphertext |-> [key |-> derivePairingKey(pin, salt), aad |-> salt, pub |-> pub]]

\* What reaches the other device after transmission: UnmarshalPairingPayload refuses what
\* is too short, and gives back salt, nonce and ciphertext, any of which may be damaged.
Damaged(payload, salt) == [payload EXCEPT !.Salt = salt]

\* OpenPairingPayload gets past DecryptAEAD.
Opens(payload, pin) ==
    /\ payload.Ciphertext.key = derivePairingKey(pin, payload.Salt)
    /\ payload.Ciphertext.aad = payload.Salt

PeerPub(payload) == payload.Ciphertext.pub

\* Mutated form: the two keys are not sorted.
UnsortedSAS(key, localPub, peerPub, salt) ==
    [key |-> key, first |-> localPub, second |-> peerPub, salt |-> salt]

\* generateSAS sorts the two keys, so that their order does not matter.
generateSAS(key, localPub, peerPub, salt) ==
    [key |-> key, pubs |-> {localPub, peerPub}, salt |-> salt]

\* The code OpenPairingPayload returns to the device that opens a payload.
OpenerSAS(payload, localPub, pin) ==
    generateSAS(derivePairingKey(pin, payload.Salt), localPub, PeerPub(payload), payload.Salt)

\* PairingPayload.GenerateSAS, for the device that created the payload.
GenerateSAS(payload, localPub, peerPub, pin) ==
    generateSAS(derivePairingKey(pin, payload.Salt), localPub, peerPub, payload.Salt)
=============================================================================
