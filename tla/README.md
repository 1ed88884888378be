# Verification of Palagos

TLA+ modules, TLC configurations and TLAPS proofs for the core of Palagos, a
messenger with end-to-end encryption (Double Ratchet over X25519, Ed25519,
ChaCha20-Poly1305), a store-and-forward relay and Tor transport. Line numbers
refer to the Go files under `src/`.

## 1. Inventory

| component | state | operations | talks to |
|---|---|---|---|
| replay window, `pkg/protocol/replay.go` | `maxSeq`, 64-bit `bitmap`, mutex | `CheckAndAdd`, `VerifyReplayWindow`, `Reset` | called by the session before anything else |
| double ratchet, `pkg/crypto/ratchet.go` | root key, two chain keys, own key pair, peer's key, counters, `skippedKeys` | `NewRatchet`, `RatchetEncrypt`, `RatchetDecrypt` | called by the session |
| primitives, `pkg/crypto/{hkdf,ecdh,aead,signature,rand}.go` | none | key derivation, agreement, sealing, signing | libraries |
| packet, `pkg/protocol/packet.go` | the header fields and the payload | `Marshal`, `Unmarshal`, `ComputeAAD`, `SignedBytes` | session, relay |
| session, `pkg/protocol/session.go` | ratchet, window, `outSequence`, `isEstablished` | `CreateHandshakeInit`, `ProcessHandshakeInit`, `CompleteInitiatorHandshake`, `EncryptMessage`, `DecryptMessage` | driven by the command line client |
| command line client, `cmd/palagos/main.go` | one session and one connection | `handleSend`, `handleIncomingConn`, `sendEncryptedMessage`, pairing commands | session, framed connection |
| framed connection, `pkg/transport/transport.go` | the byte stream of a `net.Conn` | `SendPacket`, `ReceivePacket`, `Close` | peers, relay |
| relay server, `pkg/server/server.go`, `cmd/palagos-server/main.go` | maps `clients` and `mailboxes` under one mutex, one goroutine per connection, one for expiry | `AuthenticateClient`, `DeliverMailbox`, `RoutePacket`, `evictExpiredMailboxes` | framed connections of all clients |
| client manager, `pkg/client/manager.go` | profiles, contacts, sessions, connections, messages, mode, under one `RWMutex` | `SetConnectionMode`, `AddIdentityProfile`, `SwitchProfile`, `SaveContact`, `GetOrCreateSession`, `SendTextMessage`, `AddMessage` | session, onion transport |
| onion transport, `pkg/transport/onion.go` | `listener`, `activeOnion`, a mutex | `Listen`, `Dial`, `ProvisionEphemeralOnion`, `Accept`, `Close`; `OnionListener.Close` | Tor control client, the operating system |
| Tor control client, `pkg/transport/tor_control.go` | the control connection, a mutex | `Connect`, `Authenticate`, `CreateEphemeralOnion`, `DestroyEphemeralOnion`, `Close` | the Tor process |
| pairing, `pkg/identity/pairing.go` | none; payloads carried by hand | `CreatePairingPayload`, `OpenPairingPayload`, `GenerateSAS` | web interface, bridge, command line client |
| identity, `pkg/identity/identity.go` | key pair, fingerprint | `Sign`, `Verify` | session, relay |
| web interface `pkg/client/web.go`, daemon `pkg/daemon/daemon.go`, C bridge `pkg/bridge/cgo.go` | none of their own | one goroutine or caller per request, each a sequence of manager calls | manager, pairing |
| bluetooth, `pkg/transport/bluetooth.go` | none | a stub | |

Packets flow from `EncryptMessage` through `Marshal` and `SendPacket` to the
other peer directly or to the relay, which writes them to the recipient's
connection or keeps them in a mailbox; on the other side `ReceivePacket` and
`Unmarshal` feed `DecryptMessage`, which asks the window, then the signature,
then the ratchet.

What is hard about this code, and what makes each part correct:

* **Replay window.** Shifts by the exact window size, numbers at the edge. No
  number is accepted twice and no fresh number inside the window is refused.
* **Ratchet and session.** The two peers change their keys while packets of
  the other are under way; a sealed message may never arrive; a packet may
  arrive twice, late or damaged; errors leave changed state behind. The root
  keys must stay in step, a key must never serve twice, present state must not
  open past messages, and a stolen state must become useless.
* **Framing.** Two unlocked writes make a frame; the connection may break
  within either. What is read must be what was sent.
* **Relay.** Handlers share two maps and release the lock before every network
  operation, so that what they looked up is stale when they use it. Packets
  must be kept, handed over once, in order, to the right client, and handlers
  of dead connections must end.

* **Manager.** `SendTextMessage` takes the lock four times and seals, dials and
  sends in between, while other goroutines send, switch the profile or change
  the mode. What is recorded must have been sent, a peer must hear one
  identity, and connections must not be lost.
* **Onion transport.** Provisioning acquires a listener, a control connection
  and a service and can fail after each; `Accept` waits for as long as nobody
  connects. Nothing may leak, nothing may block `Close`, and a service must
  not outlive its listener.
* **Pairing.** Two devices derive a code independently. It must be the same
  exactly when PIN, payload and keys are.

`PROJECT.json` lists these hazards at their lines.

## 2. Modules

| module | models | state and steps |
|---|---|---|
| `Replay` | `CheckAndAdd` as pure operators; the bitmap is the set of its 1 bits | none |
| `ReplayGuard` | what the window promises: it remembers every accepted number | `seen`, `last` |
| `ReplayWindow` | one window and its callers | a method is a step, since it holds the mutex throughout |
| `ReplayWord` | the shifts, `&` and `\|` on the machine word, next to a `ReplayWindow` that gets the same calls | adds `bitmap`, `wordOk` |
| `ReplayWindowProofs` | proofs about `ReplayWindow` | |
| `Ratchet` | `RatchetEncrypt` and `RatchetDecrypt` over symbolic keys | none |
| `RatchetPair` | two ratchets whose callers pass the position of each message | explicit sequence numbers, arbitrary losses |
| `RatchetPairProofs` | proofs about `RatchetPair` | |
| `Session` | the methods of `Session` as operators | none |
| `SessionPair` | the two drivers: handshake, sending, receiving, failed sends, connections that fail, a copy of the ratchet | one action per operation |
| `MessageChannel` | what one direction of a session promises: what was sent, at most once, in order | `sent`, `delivered` |
| `OrderedSession` | a transport that keeps the order, may repeat a packet it delivered | `got` |
| `UnorderedSession` | a network that repeats, reorders, drops and damages | none of its own |
| `SessionPairProofs` | the invariant of two sessions, whatever the network does, and the proofs about `UnorderedSession` | |
| `OrderedSessionProofs` | proofs about `OrderedSession` | |
| `Frames` | `Marshal`, `Unmarshal` and the length prefix, byte by byte | none |
| `FramedConn` | the two writes of `SendPacket`, the two reads of `ReceivePacket` and `Unmarshal` of what was read | a `Write` or a `ReadFull` is a step |
| `FramedConnProofs` | proofs about `Frames` and `FramedConn` | |
| `RelayServer` | the relay: a step is a critical section or one `SendPacket` | `clients`, `mailboxes`, and per connection the program counter and local variables of its goroutine |
| `RelayServerProofs` | proofs about `RelayServer` | |
| `Manager` | the manager: a step is what a goroutine does between two points where another may run | the maps of the struct, and per goroutine the program counter and local variables of `SendTextMessage` |
| `Pairing` | payloads, PINs and codes as pure operators | none |
| `ClientApp` | `Manager` and `Pairing` composed by the HTTP handlers, the daemon, the bridge and the peers' devices | adds `offers`, `shown` |
| `ClientAppProofs` | proofs about `ClientApp`, its `Manager` and its `Pairing` included | |
| `OnionTransport` | listener, control connection and onion service, with Tor as the environment | the two fields and the mutex, and per goroutine where it is |
| `OnionTransportProofs` | proofs about `OnionTransport` | |
| `MCRelay`, `MCFramedConn`, `MCClientApp` | symmetry and constant values for TLC | |

**Keys.** Cryptography is symbolic. A Diffie-Hellman secret is the set of the
two key pairs that make it, a root key is the sequence of secrets mixed into
it, a chain key is its root and the number of steps taken on it, and a message
key is the chain position it comes from. Two keys are equal exactly when they
are derived alike. A box opens with its key and associated data only, a
signature fits its signer and bytes only. `Derives` in `SessionPair` says what
a holder of one ratchet state can compute; the secrecy properties rest on it.

**Sessions.** `DecryptMessage` is modelled in the order of the code: window
(which is changed at once), signature, ratchet, with the state each early
return leaves behind. `DecryptMessage` always passes position 0 to the ratchet
(`session.go:293`), so the skipping loop of the ratchet never runs in a
session; `RatchetPair` exercises it with real positions. The responder starts with
`-peer-pub` ("idle") or without it ("unpinned"); `PeerKey` is then the ephemeral key
at the head of the payload, as in `main.go:189`. `HandshakeFails` is every error of
`Dial`, `SendPacket` and `ReceivePacket` before a session is open. Its state is
local to the two functions, so a session that is dropped with a failed response is
one that never was. `HandshakeValid` is the type, the signature over header and
payload and the signer; the second signature inside the payload, its length check
and the nil check of the peer refuse nothing more of what a peer of this program
sends. (`Payload[:32]` of `main.go:189` panics on a shorter payload, which
`CreateHandshakeInit` does not make.) The error path after the two
`ComputeECDHSharedSecret` calls of `RatchetDecrypt` is left out: X25519 fails for
points of low order only, which no generated key is.

**Frames.** Bytes have four values and lengths two bytes in the run; fields of
fixed size that nothing tells apart are one byte. `Marshal` limits the payload
and `SendPacket` the whole packet, both to `SizeLimit`, as in the code. `Power[k]`
is the k-th power of `ByteBase`, written out because the provers do not know `^`.

**Relay.** A connection is "up", "gone" (its client vanished; writes succeed
and are lost), "broken" (writes fail) or "closed" (by `handleClient`; writes
fail). Entries of `clients` outlive their connection, as in the code, and a client
may be accepted again while an earlier connection of it is served. `owner` is the
client whose key the other end of a connection presents: `AuthenticateClient` asks
for no proof that it has the private key, so "a connection of the client" means no
more than that. A client may submit packets for any client, itself included.
`Refuse` is a live client that is turned away for a malformed challenge, key or
frame. `SendPacket` has no deadline: `Write` may be taken, and nothing obliges it
to be taken while the client is there. `RelayServer` takes a `SendPacket` as a
whole frame; that two handlers may interleave theirs is the subject of
`framed_two_writers`.

**Manager.** A session is reduced to the identity it signs with, its
`outSequence` and whether it is established; `SessionPair` has the rest. A text
is one that fits, one that `Marshal` takes and `SendPacket` refuses, or one that
`Marshal` refuses. The repository never completes the handshake of a manager's
session (section 5); `CompleteHandshake` stands for the embedding program that
does, and without it everything after `EncryptMessage` would be out of reach.
`Dial` either connects or fails; it looks at no context. Where
a connection leads to is not recorded: the manager decides it when it dials, and
nothing it does afterwards depends on it. Two history variables
tell a race from a sequence of calls: `overtaken` holds the calls whose peer got a
connection from another call since they looked for one, `raced` the connections
such a call took out of the map.

**Pairing.** A key is the PIN and salt it is derived from, a code the key, the
two public keys and the salt. Codes have six digits in the program, so that
different inputs agree once in a million; the model takes them as different.
A damaged payload is one with another salt, which is key material and
associated data at once; a damaged ciphertext or nonce fails in the same call.

**Onion transport.** A control client and a service are named by the local
listener of the same call. A command and its response are one step, because
the client's mutex is held from one to the other. `Listen` and the fallback of
the relay (`cmd/palagos-server/main.go:57`) are calls like any other: a listener
for a fixed address can be bound only while no other has it. `reused` records
that a listener was opened while the transport had one, which neither program
does; `NothingLeaked` is about those that do not.

## 3. Runs

| run | result | shows |
|---|---|---|
| `replay_window` | holds | window of 4 bits, numbers 0 to 10, any order, resets: word and set agree, the window is exact, refuses every repetition, and refines `ReplayGuard` |
| `ratchet_gaps` | holds | up to 4 messages each way, any of them lost: each message that arrives opens, and `skippedKeys` holds exactly the keys passed over |
| `session_ordered` | holds | a responder with and one without a pinned peer, 3 messages each way, one lost per peer, connections that fail during the handshake, repeated data packets, a stolen ratchet: roots stay one step apart, a message opens unless an earlier one of its chain was lost, forward secrecy, recovery after a DH step, repetitions change nothing; with a pinned peer the handshake completes or, when the connection fails, ends; without one it always ends; and each message is delivered unless its chain was broken |
| `session_unordered` | holds | 2 messages each way on an arbitrary network with damaged sequence numbers and repeated handshakes: forward secrecy, no key used twice, no receiving chain ahead of its sender, and each direction implements `MessageChannel` |
| `session_repeated_handshake` | violated | a handshake packet handed over again passes the window and moves the ratchet |
| `framed_one_writer` | holds | 3 packets below, at and above the limits, a connection that breaks after any byte: no frame above the limit is begun or read for, packets arrive as sent, and all of them while the connection holds |
| `framed_two_writers` | violated | two goroutines on one connection interleave the halves of their frames |
| `relay_faulty` | holds | 2 clients, 3 connections that may overlap, 2 packets per recipient, vanishing clients, expiry: each packet is accounted for, nothing is misdelivered, mail waits behind an online client only where a failed flush put it back, nothing is written or kept twice while no connection has ended and no client has a second one |
| `relay_live` | holds | overlap, vanishing clients, expiry, clients that neither authenticate nor read: handlers of dead connections end, and a packet for an authenticated client is written unless it is evicted or a connection ends; in both cases unless a handler hangs for ever in a `SendPacket` to a live client that does not read |
| `relay_flush_wipes` | violated | a flush deletes a packet queued while it was running |
| `client_app` | holds | 2 goroutines, 2 profiles, one peer, 2 connections that may break: a message recorded with a number was sent and is recorded once (those with number 0 come from `web.go:197` and are exempt), a peer gets distinct numbers from one identity, a connection is abandoned only when a call that another one overtook takes it out of the map, and a shown code is the one its creator computes |
| `onion_transport` | holds | 2 goroutines, 2 listeners, a Tor that refuses and disconnects: nothing leaks on any error path, a live service has an open listener, every call returns, services end |

**Bounds.** A window of 4 with numbers to 10 has jumps below, at and above its
size from every position and numbers that have left it. In the session runs a
window of 2 is smaller than the number of messages, so that packets leave it;
three messages each way give two DH steps of each peer and chains with a lost
message first, in the middle and last. Two clients and three connections give
the relay a client that reconnects while the other sends; two packets per
recipient let one be queued while the other is under way; a clock of 1 with a
TTL of 0 lets a mailbox expire and be created again. The liveness run has one packet
per recipient. Sizes 5 to 13 of a frame
with a limit of 7 lie on both sides of both limits. In `client_app` three
settings are a contact, a profile and a switch to it, or a contact and two modes;
two messages and two connections are what a race of two calls takes, and one
payload of either device with a right, a wrong and a short PIN covers pairing.
Two goroutines and two listeners give the transport a listener that is
replaced, two calls of `Close` at once, and an address that is bound again
after a failure.

**Deadlock** is not checked where the bounds end the behaviour (messages,
packets, connections); the replay window, which has no end, is checked for it.
Everyone-waits-for-everyone is covered by the liveness properties.

**Fairness.** `OrderedSession`: `handleSend` connects without waiting for
anyone, and an ordered transport hands over what it holds; one of the two is
taken as long as one is possible. A responder that returns closes the connection
(`main.go:164`), which ends the initiator's wait. That a connection fails is
possible at any time and never required. `RelayServer`: the Go scheduler runs each
goroutine that can proceed without a client (`Proceed`), and a dead connection is
noticed by the kernel at last. Nobody is obliged to connect, to authenticate, to
submit or to read, so a `SendPacket` to a live client may last for ever and
`HandlersEnd` and `EventuallyWritten` say so.
`FramedConn`: the reader's goroutine runs. `OnionTransport`: goroutines run, a
mutex that stays free is obtained, Tor answers a command or its connection
ends, and Tor removes the service of a control connection that is gone; nobody
is obliged to connect to a listener. No strong fairness is used. `ClientApp`
states no liveness: a dial may take for ever.

## 4. Proofs

`ReplayWindowProofs`, for every window size and every width of the sequence
field (`ReplayWindowSizeAssumption`, `MaxSequenceAssumption`):

* `WindowTypeOK`, `NoReplay`, `WindowIsExact`. "Accepted at most once" is not
  inductive: a number is refused because of a bit, and the bit is there because
  of the steps that set and moved it. The inductive invariant `IInv` adds
  `WindowExact`: `maxSeq` is the highest accepted number and bit d is set
  exactly when `maxSeq - d` was accepted. `AdvanceExact` shows that the shift
  keeps this when the window moves, `LateExact` that a late number does, and
  `AcceptedIsFresh` that an accepted number was not accepted before.
* `WindowRefinesGuard`: the two words of the struct give, in every history, the
  answers of `ReplayGuard`, which remembers all accepted numbers.

`RelayServerProofs`, for any number of clients, connections, packets and clock
ticks (`RelayAssumption`):

* `RelayTypeOK` and `NothingMisdelivered` from `AInv`, which adds `Addressed`:
  whatever a mailbox, a flush or a router holds is addressed to the client it
  holds it for, and a connection that is registered or was looked up belongs to
  the client it was looked up for. The last part is what makes a stale look-up
  harmless: a connection never changes hands.
* `NothingLostUnseen` from `PInv`, which adds `CopiesSent`: outside a flush a
  handler holds no copy, and what a flush counts as sent was written or has
  vanished. Without it the delete at the end of a flush could not be told from
  a loss. `NextKnown` shows action by action that no packet leaves the places
  `Known` lists.
* `OnlyPutBackWaits` from `FInv`: mail that waits for a client whose handler is in
  its main loop, registered and on a live connection, was put back by a flush that
  failed. A handler reaches its loop only past a mailbox that was empty or that its
  flush emptied; a router queues only what it found no entry for, or after it has
  deleted the entry; `putBack` only grows. No hypothesis on overlapping connections
  is needed.

* `NothingWrittenTwice`, from `WInv`. The property speaks of histories in which no
  connection ended (`AllUp`) and no client has two (`OneConnEach`); `Unstarted` (a
  handler that has not started has an unused connection) makes both conditions that
  only ever turn false, so that they held in every earlier state. Under them `Once`
  says where a packet can be: a client that is served stays registered, so
  nothing is queued behind its back (`Registered`); no packet is on two
  connections or twice on one (`OutOnce`); mail was not written, unless a flush is
  at it (`MailOnce`), and a packet that is being routed is nowhere else
  (`HandOnce`). `CopyOnce` is the heart: a flush's copy equals the mailbox it was
  taken from, if that has not expired, and what the flush has not counted as sent
  is not written.

`OnionTransportProofs`, for any number of goroutines and listeners
(`OnionAssumption`):

* `TypeCorrect`, from `TypeOK` and `Attempts` (the third failure of `Authenticate`
  ends a call's attempts).
* `ServiceAlwaysBacked` and `NothingEverLeaks`, from `OInv`, which says who owns
  what at each point: what a call provisions is open and known to that call only
  (`ProvisionerOwns`), what a call closes was provisioned before, and is the
  transport's own service if the call holds its mutex (`CloserOwns`), what was
  never bound is known to nobody (`UnusedUnknown`), and the two fields of the
  struct agree unless a listener was opened on top of another (`FieldsMatch`). A
  service then has an open listener as long as its control
  connection lives (`ConnectionBacked`), after every error path.

`ClientAppProofs`, for any number of goroutines, profiles, peers, texts and
connections (`ManagerAssumption`, `PairingAssumption`, `ClientAppAssumption`):

* `ClientTypeCorrect`. That a session's counter stays in its range follows from
  `Counted`: the counter and the number of goroutines about to encrypt
  together are at most the number of calls made.
* `OneSigner` from `SealedBySession`: a sealed packet bears the identity of the
  peer's session and a number the session has used; sessions are never
  replaced, although the current profile is.
* `RecordedOnlySent` from `NumbersOwned` (a call that has a number for a peer is the
  only one with it, the history lacks it, and a call that is about to record it
  has sent it) and `HistoryUsed` (the session has used the numbers of the history).
* `AbandonedOnlyByRival` from `UndisturbedCalls` (a call that nobody overtook finds
  no connection to its peer while it dials, and its own or none while it sends) and
  `ConnsAccounted` (a connection that is not closed is in the map, about to be
  stored or closed, or lost a race). The first is what the second needs: it shows
  that an undisturbed call displaces nothing but its own connection.
* `CodesAlwaysMatch` from `OffersMade`: a payload on offer was made by its
  creator with the PIN it is listed with.

`SessionPairProofs` has the invariant `PairInv`, which rests on nothing the
network does (`PeersAssumption`, `BoundsAssumption`, `NoKeyAssumption`,
`ReplayWindowSizeAssumption`). The position of a key is the length of its root
and the step on its chain, and `Before` orders positions. `PairInv` says that a
peer seals at increasing positions, all before that of its sending chain
(`SealedInOrder`, `WireInOrder`), that what it opened lies before its receiving
chain (`OpenedBehind`), that the last secret of a root with a sending chain is
that of the peer's own newest key pair and one of the other's (`KeysOwned`), and
that a stolen copy is an earlier state (`CopyIsOld`). Roots
of even length serve one direction and roots of odd length the other, which
keeps the keys of the two apart.

For sessions of any length and a network that repeats, reorders, drops and damages
(`UnorderedSession`, `NumbersAssumption`), the same module proves:

* `AlwaysForwardSecret` and `KeysNeverRepeat` follow from `PairInv`.
* `SessionIsChannel`: each direction refines `MessageChannel`. A step that opens
  a message takes it from a position beyond all those opened before, so it is
  a message of the channel that was not yet delivered or passed over.
* `ReceiverStaysBehind` from `CountInv`, which counts: for each step of a
  receiving chain there is a number of a packet under its key that the window
  does not take again (`Mirrored`), and the packets under the sender's present key
  have the last numbers, as many as its chain has steps (`SignedBy`,
  `Consecutive`). When the roots are equal the first set lies within the second,
  and so is no larger.

`OrderedSessionProofs`, for sessions of any length, any window size and any
losses:

* `OrderedForwardSecret` and `AlwaysHeals` (a stolen state does not yield the
  keys used after the next DH step), whatever the transport repeats.
* `RepeatsAreRefused` from `OrderInv`: packets are handed over in the order of
  their numbers, and the window refuses every number that was handed over for
  the rest of the session.
* `OrderedTypeCorrect` from `BoundInv`.
* `RootsAlwaysAgree` from `RootsInv`: until the initiator's session opens, the
  responder's ratchet is as the handshake made it (`Starting`); afterwards one
  peer is exactly a DH step ahead (`Linked`), what is under way to it belongs to
  the chain it reads (`ToAhead`), and what is under way from it belongs to its old
  chain and then to its new one (`FromAhead`).
* `OpenedUnlessBroken` from `ReadInv`: a sender skips no key, each is on the wire or
  lost (`Complete`), and the receiving chain is past every key it was handed,
  apart from those behind a lost one, and at most one step past the latest
  (`Followed`).

`RepeatsAreRefused`, `OrderedTypeCorrect`, `RootsAlwaysAgree` and
`OpenedUnlessBroken` have the hypothesis `RepeatTypes \subseteq {"data"}`: only
messages come again, as in `session_ordered`. It cannot be dropped, since a
repeated handshake packet does move the ratchet, as
`session_repeated_handshake` shows.

`RatchetPairProofs`, for any number of messages and any losses
(`RatchetPairAssumption`):

* `MessagesOpen`. That every message opens is not inductive, since whether one
  opens depends on the chain its receiver will have by then. `PairInv` says that
  a sender numbers its messages without a gap, from 1 under each new key, and
  seals each at the step of its number (`InRuns`, `Sends`), that a receiving
  chain stands right behind the latest message handed over (`Reads`), and that
  one peer is ahead by exactly a DH step (`Ahead`): the roots differ by one
  secret (`Linked`), what is under way to that peer belongs to the chain it reads
  (`ToAhead`), and what is under way from it belongs to its new chain or to the
  one the other peer reads (`FromAhead`).
* `SkippedAsLost`: the messages passed over when one is handed over are the ones
  right before it (`NewlyPassedRun`), and the positions the loop of
  `RatchetDecrypt` visits are theirs.

`FramedConnProofs`, for every byte base, width of the length field and limit
(`FramesAssumption`, `FramedConnAssumption`). What the recursive functions of
`Frames` compute takes induction; `Least` and `Induction` state it for a set of
numbers, which the provers can instantiate.

* `UintOfPutUint`, `PutUintOfUint`: the length field is a bijection on the
  numbers that fit it.
* `UnmarshalOfMarshal`, `MarshalOfUnmarshal`: a packet within the limit is read
  back as it was, and whatever bytes are accepted are the only encoding of the
  packet they give.
* `ConnTypes`, for any writers: also that no frame above the limit is begun or read for.
* `AlwaysReceivedAsSent`, under the hypothesis `OneWriter`, which cannot be
  dropped, as `framed_two_writers` shows. The reader sees only bytes, so
  `FrameInv` speaks of all bytes ever written and says that they can be cut into
  frames: each cut holds a packet that was sent (`FramesAt`), what follows the
  last cut is less than a frame (`PartAt`), the reader is at a cut or behind a
  length (`ReaderAt`), and while the connection holds the writer has nothing or
  one length after the last cut (`WriterAt`). When the connection breaks, bytes
  are lost from the end, and `LastWhole` finds the last frame that is still
  whole.

The inductive invariants were checked by TLC on the instances of the
corresponding runs before they were proved, apart from `FrameInv`, which
quantifies over all sequences of bytes.

**Only model-checked.** Liveness: fairness and `ENABLED` are out of the prover's
reach. `WordAgrees`: `Bitwise` is defined recursively. Every other property of a passing
run is a theorem.

## 5. Disagreements between code and documentation

With a run: a flush deletes what it has not sent (`server.go:210`, comment at
208); frames of concurrent writers interleave (`transport.go:56`, comment at
65); a repeated handshake packet reaches the ratchet (`session.go:265`,
`docs/architecture.md:66`).

Met while modelling and visible in the modules, without a run of their own:

* `skippedKeys` is filled (`ratchet.go:225`) and never read, although the
  comment at line 38 calls it an out-of-order cache; in `RatchetPair` packets
  arrive in order.
* One lost message makes the rest of its chain unreadable, although
  `session.go:286` says in-order delivery needs no skipping;
  `OpenedOrChainBroken` states what holds instead.
* A responder without a pinned peer takes the first 32 bytes of the payload, the
  initiator's ephemeral X25519 key, for its identity key (`cmd/palagos/main.go:189`)
  and so refuses every initiator, although the comments at 110 and 186 say that it
  accepts any. The second half of `HandshakeCompletes` states what happens.
* The window takes a number before the signature is verified (`session.go:274`), so
  a refused packet moves `maxSeq`, which `replay.go:19` calls the "highest verified
  sequence number received so far".
* Mail that a failed flush puts back waits behind a client that is online on a newer
  connection (`server.go:195`) until it reconnects, although the comment at 176 says
  that a reconnected client gets all pending packets. `OnlineMailPutBack` says that
  this is the only such mail.
* A cached connection is used in either mode (`manager.go:227`): after a switch to
  the direct mode messages go through the relay until that connection fails, against
  `README.md:14` ("zero intermediary servers") and the comment at 199.
* A late packet passes the window and fails in the ratchet, although
  `docs/protocol.md:88` says it is accepted.
* A client is registered before its mailbox is flushed (`server.go:129`), so
  packets routed directly overtake older ones.
* Expiry is per mailbox, from its first packet (`server.go:84`); a packet added
  late is dropped before its 72 hours (`README.md:13`) are over.
* A failed send unregisters the recipient even if it has reconnected meanwhile
  (`server.go:151`).
* `SendPacket` sets no deadline (`transport.go:56`): one client that stays connected
  and does not read holds up every handler that sends to it.
* `AuthenticateClient` says it proves the server's identity; the client's is taken
  on its word (`server.go:115`).
* A flush that fails puts its rest in front of a mailbox that still holds all of
  it (`server.go:195`), although the comment at 192 speaks of putting unsent
  packets back: the mailbox then holds them twice. `WrittenOnce` states what
  holds without faults.
* The sessions the manager creates never complete a handshake, so
  `SendTextMessage` returns at `EncryptMessage`.
* Two goroutines that dial the same peer leave one connection open and unknown
  (`manager.go:244`); a failed send deletes whatever entry is there (250), and a text
  that only `SendPacket` refuses closes a healthy connection (252).
* `ratchet.go:17` promises forward secrecy; `ForwardSecrecy` is about the ratchet.
  `handleSend` keeps `ephemeralPriv` in scope until it returns (`main.go:307`), which
  with the other handshake keys on the wire gives the first root away.
* `POST /api/messages` records a message and does not send it (`web.go:198`).
* The callback "triggered whenever a new message is received"
  (`manager.go:99`) is called for messages that are sent.
* Opening a payload of a known contact replaces its onion address by none
  (`web.go:261`, `manager.go:146`), and `AddIdentityProfile` overwrites an
  identity of the same name.
* `pair-open` asks to compare the code "on both screens" (`cmd/palagos/main.go:492`),
  but the creator of a payload is shown none: `GenerateSAS` has no caller outside
  the tests. If both devices open each other's payload, the codes are derived
  from different salts (`pairing.go:105`) and differ. `CodesMatch` is about the
  opener of a payload and `GenerateSAS` of its creator.
* `OnionTransport.Close` with an onion service closes the service's listener and
  forgets one that `Listen` opened after it (`onion.go:184`, comment at 176).
* Tor ends a control connection after a failed authentication, so that the
  second and third method of `Authenticate` (`tor_control.go:73`, 98) meet a
  closed connection.
* `Dial` ignores its context (`onion.go:82`), and the `defer tr.Close()` of the
  relay's `main` (`cmd/palagos-server/main.go:75`) stands before an endless loop.

## 6. Not modelled

Byte-level key derivation and the primitives (library calls); flag parsing,
printing and start-up code; `Shutdown` of the relay (no caller) and
`VerifyServerIdentity` (the client side of the relay's authentication, used by
tests only); requests that only read (`GET` handlers, `handleStatus`, `Addr`);
the token check of the daemon, which keeps no state; a second call of
`Palagos_InitManager`, which replaces the manager under running calls; the text
of Tor's control protocol; bluetooth (a stub).

## 7. Plan

Done, in this order: replay window with abstract specification and proofs,
ratchet, sessions, relay with proofs, framing; then manager, pairing and the
programs around them, onion transport, and the channel a session implements;
then proofs about the onion transport, manager, pairing and sessions, and that
the relay writes nothing twice; then proofs about the ratchet with losses, the
encoding of packets and the framed connection.

Left: abstract specifications of the relay without faults (a mailbox as a set of
packets owed to a client) and of `FramedConn` with one writer (a queue).
