------------------------------ MODULE ClientApp ------------------------------
(***************************************************************************)
(* The program around the manager: the HTTP handlers of the web interface  *)
(* (pkg/client/web.go) and of the daemon (pkg/daemon/daemon.go) and the    *)
(* exported functions of the C bridge (pkg/bridge/cgo.go), each a sequence *)
(* of calls of the manager and of pairing.  Go serves every request in a   *)
(* goroutine of its own.  The peers' devices run the same pairing code.    *)
(***************************************************************************)
EXTENDS Manager, Pairing

CONSTANT MaxOffers   \* bound: pairing payloads created

ASSUME ClientAppAssumption == MaxOffers \in Nat

VARIABLES
    offers,   \* history: the payloads created, with their creator and its PIN
    shown     \* history: who was shown which code for which payload

pairVars == <<offers, shown>>
appVars == <<vars, pairVars>>

AppInit == Init /\ offers = {} /\ shown = {}

\* A payload with a fresh salt joins the offers.
Offer(creator, pin) ==
    LET salt == Cardinality(offers) + 1
    IN  /\ salt <= MaxOffers
        /\ PinAccepted(pin)
        /\ offers' = offers \cup {[payload |-> CreatePairingPayload(creator, pin, salt),
                                   creator |-> creator, pin |-> pin]}

\* What somebody may be handed: a payload of another device, intact or damaged.
Received(me) ==
    UNION {{o.payload, Damaged(o.payload, 0)} : o \in {x \in offers : x.creator # me}}

Showing(me, payload, pin) ==
    [by |-> me, payload |-> payload, pin |-> pin, code |-> OpenerSAS(payload, me, pin)]

-----------------------------------------------------------------------------
\* handleMode of the daemon, and the bridge.
handleMode(mode, addr) == SetConnectionMode(mode, addr) /\ UNCHANGED pairVars

Palagos_SetMode(mode, addr) == SetConnectionMode(mode, addr) /\ UNCHANGED pairVars

\* handleIdentity, action "create": AddIdentityProfile and SwitchProfile take the lock
\* one after the other.
handleIdentityCreate(t, name) ==
    /\ pc[t] = "idle"
    /\ AddIdentityProfile(name)
    /\ job' = [job EXCEPT ![t].profile = name]
    /\ Goto(t, "switch")
    /\ UNCHANGED pairVars

handleIdentityCreated(t) ==
    /\ pc[t] = "switch"
    /\ SwitchProfile(job[t].profile)
    /\ Return(t)
    /\ UNCHANGED <<settings, pairVars>>

\* handleIdentity, action "switch".
handleIdentitySwitch(name) ==
    /\ Setting
    /\ SwitchProfile(name)
    /\ UNCHANGED <<callVars, pairVars>>

\* handleContacts, method POST, and the bridge.
handleContacts(p, onion) ==
    /\ Setting
    /\ SaveContact(p, onion)
    /\ UNCHANGED <<callVars, pairVars>>

Palagos_SaveContact(p, onion) == handleContacts(p, onion)

\* Only the bridge sends.
Palagos_SendMessage(t, p, size) == SendTextMessage(t, p, size) /\ UNCHANGED pairVars

\* handleMessages, method POST: the message is recorded and not sent.
handleMessages(t, p) ==
    /\ pc[t] = "idle"
    /\ sends < MaxSends
    /\ sends' = sends + 1
    /\ AddMessage(p, 0)
    /\ Goto(t, "notify")
    /\ UNCHANGED <<Identities, ActiveProfile, Contacts, Sessions, ActiveConns, Mode, RelayAddr,
                   conn, job, settings, sealed, written, raceVars, pairVars>>

-----------------------------------------------------------------------------
\* handlePairCreate, and the bridge: the payload carries the active identity.
handlePairCreate(pin) ==
    /\ Setting
    /\ Offer(GetActiveIdentity, pin)
    /\ UNCHANGED <<managerVars, conn, callVars, sends, sealed, written, raceVars, shown>>

Palagos_PairCreate(pin) == handlePairCreate(pin)

\* handlePairOpen, and the bridge, up to OpenPairingPayload; a failure is reported and
\* changes nothing.  The code is on its way to the screen.
handlePairOpen(t, payload, pin) ==
    /\ pc[t] = "idle"
    /\ Setting
    /\ Opens(payload, pin)
    /\ shown' = shown \cup {Showing(GetActiveIdentity, payload, pin)}
    /\ job' = [job EXCEPT ![t].peer = PeerPub(payload)]
    /\ Goto(t, "save")
    /\ UNCHANGED <<managerVars, conn, sends, sealed, written, raceVars, offers>>

Palagos_PairOpen(t, payload, pin) == handlePairOpen(t, payload, pin)

\* The contact is saved at once, without an address.
handlePairSave(t) ==
    /\ pc[t] = "save"
    /\ SaveContact(job[t].peer, "")
    /\ Return(t)
    /\ UNCHANGED <<settings, pairVars>>

\* A peer's device creates a payload (palagos pair-create), or opens one of ours
\* (palagos pair-open).
PeerCreates(p, pin) ==
    /\ Offer(p, pin)
    /\ UNCHANGED <<vars, shown>>

PeerOpens(p, payload, pin) ==
    /\ Opens(payload, pin)
    /\ PeerPub(payload) \notin Peers
    /\ shown' = shown \cup {Showing(p, payload, pin)}
    /\ UNCHANGED <<vars, offers>>

-----------------------------------------------------------------------------
Call(t) == Step(t) /\ UNCHANGED pairVars

Handler(t) == Call(t) \/ handleIdentityCreated(t) \/ handlePairSave(t)

AppNext ==
    \/ \E t \in Threads :
        \/ Handler(t)
        \/ \E name \in Profiles : handleIdentityCreate(t, name)
        \/ \E p \in Peers, size \in Sizes : Palagos_SendMessage(t, p, size)
        \/ \E p \in Peers : handleMessages(t, p)
        \/ \E pin \in Pins, payload \in Received(GetActiveIdentity) :
             /\ PeerPub(payload) \in Peers
             /\ handlePairOpen(t, payload, pin) \/ Palagos_PairOpen(t, payload, pin)
    \/ \E mode \in Modes, addr \in {"", "relay"} :
        handleMode(mode, addr) \/ Palagos_SetMode(mode, addr)
    \/ \E name \in Profiles : handleIdentitySwitch(name)
    \/ \E p \in Peers, onion \in {"", "onion"} :
        handleContacts(p, onion) \/ Palagos_SaveContact(p, onion)
    \/ \E pin \in Pins : handlePairCreate(pin) \/ Palagos_PairCreate(pin)
    \/ \E p \in Peers : CompleteHandshake(p) /\ UNCHANGED pairVars
    \/ \E p \in Peers, pin \in Pins : PeerCreates(p, pin)
    \/ \E p \in Peers, pin \in Pins : \E payload \in Received(p) : PeerOpens(p, payload, pin)
    \/ \E c \in Conns : Break(c) /\ UNCHANGED pairVars

AppSpec == AppInit /\ [][AppNext]_appVars

-----------------------------------------------------------------------------
\* A code is shown, and a contact is saved with it, only to somebody who typed the PIN the
\* payload was made with, and only for a payload that arrived as it was created; and the
\* creator's GenerateSAS gives the same code, whichever key is the smaller and whichever
\* profile was active on either side (pairing.go:136).
CodesMatch ==
    \A s \in shown : \E o \in offers :
        /\ o.payload = s.payload /\ o.pin = s.pin
        /\ s.code = GenerateSAS(s.payload, o.creator, s.by, o.pin)
=============================================================================
