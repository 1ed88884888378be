------------------------------- MODULE Manager -------------------------------
(***************************************************************************)
(* The client manager, pkg/client/manager.go.  Profiles, contacts,         *)
(* sessions, connections and message histories are maps under one lock,    *)
(* which SendTextMessage takes and releases several times: a step below is *)
(* what a goroutine does between two points where another may run.         *)
(*                                                                         *)
(* A peer is its fingerprint.  An identity is the number of the key pair;  *)
(* address "" is no address.  A text matters by its size: "fits", "edge"   *)
(* (Marshal takes it, the packet is too long for SendPacket) or "over"     *)
(* (Marshal refuses it).  A history is the sequence numbers of its         *)
(* messages, 0 for one that was recorded without being sent.               *)
(***************************************************************************)
EXTENDS Naturals, Sequences, FiniteSets, Functions

CONSTANTS Profiles,     \* profile names
          Default,      \* the profile NewManager creates
          Peers,        \* remote peers
          Threads,      \* goroutines that call the manager
          Conns,        \* connections that can be dialled, each used once
          Nil,          \* no peer, no connection
          MaxSettings,  \* bound: calls that change profiles, contacts or the mode
          MaxSends      \* bound: messages sent or recorded

ASSUME ManagerAssumption ==
    /\ Default \in Profiles
    /\ Nil \notin Conns \cup Peers \cup Profiles
    /\ MaxSettings \in Nat /\ MaxSends \in Nat

VARIABLES
    Identities,     \* map: profile -> identity
    ActiveProfile,
    Contacts,       \* map: peer -> onion address
    Sessions,       \* map: peer -> session
    Messages,       \* history of each peer
    ActiveConns,    \* map: peer -> connection
    Mode, RelayAddr,
    conn,           \* state of each connection: "unused", "up", "broken" or "closed"
    pc,             \* where each goroutine is
    job,            \* its local variables
    settings,       \* how many settings were changed
    sends,          \* how many messages were given to the manager
    sealed,         \* history: packets EncryptMessage returned
    written,        \* history: packets SendPacket took
    overtaken,      \* history: calls whose peer got a connection from another call since
                    \* they looked for one or stored their own
    raced           \* history: connections such a call took out of the map

managerVars == <<Identities, ActiveProfile, Contacts, Sessions, Messages, ActiveConns, Mode, RelayAddr>>
callVars    == <<pc, job>>
raceVars    == <<overtaken, raced>>
vars == <<managerVars, conn, callVars, settings, sends, sealed, written, raceVars>>

With(f, x, v) == [y \in DOMAIN f \cup {x} |-> IF y = x THEN v ELSE f[y]]
Without(f, x) == [y \in DOMAIN f \ {x} |-> f[y]]

NoJob == [peer |-> Nil, profile |-> Nil, size |-> "", seq |-> 0, conn |-> Nil]

-----------------------------------------------------------------------------
\* NewManager.
Init ==
    /\ Identities = [n \in {Default} |-> 1]
    /\ ActiveProfile = Default
    /\ Contacts = <<>>
    /\ Sessions = <<>>
    /\ Messages = [p \in Peers |-> <<>>]
    /\ ActiveConns = <<>>
    /\ Mode = "relay"
    /\ RelayAddr = ""
    /\ conn = [c \in Conns |-> "unused"]
    /\ pc = [t \in Threads |-> "idle"]
    /\ job = [t \in Threads |-> NoJob]
    /\ settings = 0
    /\ sends = 0
    /\ sealed = {}
    /\ written = {}
    /\ overtaken = {}
    /\ raced = {}

Goto(t, label) == pc' = [pc EXCEPT ![t] = label]

\* The call returns and its local variables are gone.
Return(t) == Goto(t, "idle") /\ job' = [job EXCEPT ![t] = NoJob]

Setting == settings < MaxSettings /\ settings' = settings + 1

-----------------------------------------------------------------------------
SetConnectionMode(mode, addr) ==
    /\ Setting
    /\ Mode' = mode
    /\ RelayAddr' = addr
    /\ UNCHANGED <<Identities, ActiveProfile, Contacts, Sessions, Messages, ActiveConns,
                   conn, callVars, sends, sealed, written, raceVars>>

\* An identity of that name is overwritten.  Identities are numbered as they are
\* generated, and each generation is a setting.
AddIdentityProfile(name) ==
    /\ Setting
    /\ Identities' = With(Identities, name, settings + 2)
    /\ UNCHANGED <<ActiveProfile, Contacts, Sessions, Messages, ActiveConns, Mode, RelayAddr,
                   conn, sends, sealed, written, raceVars>>

\* Mutated form: the profile need not exist.
SwitchUnchecked(name) ==
    /\ ActiveProfile' = name
    /\ UNCHANGED <<Identities, Contacts, Sessions, Messages, ActiveConns, Mode, RelayAddr,
                   conn, sends, sealed, written, raceVars>>

SwitchProfile(name) ==
    /\ name \in DOMAIN Identities
    /\ ActiveProfile' = name
    /\ UNCHANGED <<Identities, Contacts, Sessions, Messages, ActiveConns, Mode, RelayAddr,
                   conn, sends, sealed, written, raceVars>>

GetActiveIdentity == Identities[ActiveProfile]

\* A contact that exists is replaced, its address included.
SaveContact(p, onion) ==
    /\ Contacts' = With(Contacts, p, onion)
    /\ UNCHANGED <<Identities, ActiveProfile, Sessions, Messages, ActiveConns, Mode, RelayAddr,
                   conn, sends, sealed, written, raceVars>>

\* The program that embeds the manager completes the handshake of a session it got
\* from GetOrCreateSession.
CompleteHandshake(p) ==
    /\ p \in DOMAIN Sessions
    /\ ~Sessions[p].isEstablished
    /\ Sessions' = [Sessions EXCEPT ![p].isEstablished = TRUE]
    /\ UNCHANGED <<Identities, ActiveProfile, Contacts, Messages, ActiveConns, Mode, RelayAddr,
                   conn, callVars, settings, sends, sealed, written, raceVars>>

-----------------------------------------------------------------------------
NewSession(id) == [identity |-> id, outSequence |-> 0, isEstablished |-> FALSE]

\* GetOrCreateSession for a contact or a peer that has a session.
GetOrCreateSession(p) ==
    Sessions' = IF p \in DOMAIN Sessions
                THEN Sessions
                ELSE With(Sessions, p, NewSession(GetActiveIdentity))

\* SendTextMessage(p, text) begins; without a contact it is an error at once.
SendTextMessage(t, p, size) ==
    /\ pc[t] = "idle"
    /\ sends < MaxSends
    /\ sends' = sends + 1
    /\ p \in DOMAIN Sessions \cup DOMAIN Contacts
    /\ GetOrCreateSession(p)
    /\ job' = [job EXCEPT ![t] = [NoJob EXCEPT !.peer = p, !.size = size]]
    /\ Goto(t, "encrypt")
    /\ UNCHANGED <<Identities, ActiveProfile, Contacts, Messages, ActiveConns, Mode, RelayAddr,
                   conn, settings, sealed, written, raceVars>>

\* Mutated form: a packet is signed with the identity that is active now.
SignerNow(s) == GetActiveIdentity

\* A session signs with the identity it was created with.
Signer(s) == s.identity

\* EncryptMessage, under the session's own lock, and Marshal.  A number is taken before
\* the ratchet is asked, and a packet is sealed before it is found to be too long.
Encrypt(t) ==
    LET p == job[t].peer
        s == Sessions[p]
        seq == s.outSequence + 1
        Take == Sessions' = [Sessions EXCEPT ![p].outSequence = seq]
        Seal == sealed' = sealed \cup {[peer |-> p, seq |-> seq, signer |-> Signer(s)]}
    IN  /\ pc[t] = "encrypt"
        /\ \/ ~s.isEstablished /\ Return(t) /\ UNCHANGED <<Sessions, sealed>>
           \/ s.isEstablished /\ Take /\ Return(t) /\ UNCHANGED sealed
           \/ s.isEstablished /\ Take /\ Seal /\ job[t].size = "over" /\ Return(t)
           \/ /\ s.isEstablished /\ Take /\ Seal /\ job[t].size # "over"
              /\ job' = [job EXCEPT ![t].seq = seq]
              /\ Goto(t, "lookup")
        /\ UNCHANGED <<Identities, ActiveProfile, Contacts, Messages, ActiveConns, Mode, RelayAddr,
                       conn, settings, sends, written, raceVars>>

\* Where a new connection for p goes to; "" if nowhere.
DialAddr(p) == IF Mode = "relay" /\ RelayAddr # "" THEN RelayAddr ELSE Contacts[p]

\* The section under the read lock, and the choice of an address from what it copied.
Lookup(t) ==
    LET p == job[t].peer
    IN  /\ pc[t] = "lookup"
        /\ \/ /\ p \in DOMAIN ActiveConns
              /\ job' = [job EXCEPT ![t].conn = ActiveConns[p]]
              /\ Goto(t, "send")
           \/ /\ p \notin DOMAIN ActiveConns
              /\ DialAddr(p) # ""
              /\ Goto(t, "dial")
              /\ UNCHANGED job
           \/ /\ p \notin DOMAIN ActiveConns
              /\ DialAddr(p) = ""
              /\ Return(t)
        /\ overtaken' = overtaken \ {t}
        /\ UNCHANGED <<managerVars, conn, settings, sends, sealed, written, raced>>

\* OnionTransport.Dial, without the lock; it does not look at its context.
Dial(t) ==
    /\ pc[t] = "dial"
    /\ \E c \in Conns :
        /\ conn[c] = "unused"
        /\ conn' = [conn EXCEPT ![c] = "up"]
        /\ job' = [job EXCEPT ![t].conn = c]
    /\ Goto(t, "store")
    /\ UNCHANGED <<managerVars, settings, sends, sealed, written, raceVars>>

DialFails(t) ==
    /\ pc[t] = "dial"
    /\ Return(t)
    /\ UNCHANGED <<managerVars, conn, settings, sends, sealed, written, raceVars>>

\* The call t takes the connection of another call out of the map: a race if it did
\* not know of that connection.
Displaces(t) ==
    raced' = IF t \in overtaken /\ job[t].peer \in DOMAIN ActiveConns
             THEN raced \cup ({ActiveConns[job[t].peer]} \ {job[t].conn})
             ELSE raced

\* A connection that another goroutine stored meanwhile is overwritten.
Store(t) ==
    /\ pc[t] = "store"
    /\ ActiveConns' = With(ActiveConns, job[t].peer, job[t].conn)
    /\ Goto(t, "send")
    /\ Displaces(t)
    /\ overtaken' = (overtaken \ {t}) \cup {u \in Threads \ {t} : job[u].peer = job[t].peer}
    /\ UNCHANGED <<Identities, ActiveProfile, Contacts, Sessions, Messages, Mode, RelayAddr,
                   conn, job, settings, sends, sealed, written>>

-----------------------------------------------------------------------------
SendPacketFails(t) == conn[job[t].conn] # "up" \/ job[t].size = "edge"

\* SendPacket on the connection that was looked up or dialled, without the lock.
Send(t) ==
    /\ pc[t] = "send"
    /\ ~SendPacketFails(t)
    /\ written' = written \cup {[peer |-> job[t].peer, seq |-> job[t].seq]}
    /\ Goto(t, "record")
    /\ UNCHANGED <<managerVars, conn, job, settings, sends, sealed, raceVars>>

\* Mutated form: the error of SendPacket is not looked at.
SendIgnoringError(t) ==
    /\ pc[t] = "send"
    /\ SendPacketFails(t)
    /\ Goto(t, "record")
    /\ UNCHANGED <<managerVars, conn, job, settings, sends, sealed, written, raceVars>>

\* SendPacket fails: the peer's entry is deleted, whatever connection it holds by now.
SendFails(t) ==
    /\ pc[t] = "send"
    /\ SendPacketFails(t)
    /\ ActiveConns' = Without(ActiveConns, job[t].peer)
    /\ Goto(t, "close")
    /\ Displaces(t)
    /\ UNCHANGED overtaken
    /\ UNCHANGED <<Identities, ActiveProfile, Contacts, Sessions, Messages, Mode, RelayAddr,
                   conn, job, settings, sends, sealed, written>>

\* Mutated form: the connection is not closed.
ReturnUnclosed(t) ==
    /\ pc[t] = "close"
    /\ Return(t)
    /\ UNCHANGED <<managerVars, conn, settings, sends, sealed, written, raceVars>>

\* The connection is closed after the lock was released.
CloseConn(t) ==
    /\ pc[t] = "close"
    /\ conn' = [conn EXCEPT ![job[t].conn] = "closed"]
    /\ Return(t)
    /\ UNCHANGED <<managerVars, settings, sends, sealed, written, raceVars>>

\* The locked section of AddMessage.
AddMessage(p, seq) == Messages' = [Messages EXCEPT ![p] = Append(@, seq)]

Record(t) ==
    /\ pc[t] = "record"
    /\ AddMessage(job[t].peer, job[t].seq)
    /\ Goto(t, "notify")
    /\ UNCHANGED <<Identities, ActiveProfile, Contacts, Sessions, ActiveConns, Mode, RelayAddr,
                   conn, job, settings, sends, sealed, written, raceVars>>

\* The callback runs without the lock, and the call returns.
Notify(t) ==
    /\ pc[t] = "notify"
    /\ Return(t)
    /\ UNCHANGED <<managerVars, conn, settings, sends, sealed, written, raceVars>>

\* A connection breaks.
Break(c) ==
    /\ conn[c] = "up"
    /\ conn' = [conn EXCEPT ![c] = "broken"]
    /\ UNCHANGED <<managerVars, callVars, settings, sends, sealed, written, raceVars>>

\* The next step of a call of SendTextMessage.
Step(t) ==
    \/ Encrypt(t)
    \/ Lookup(t)
    \/ Dial(t)
    \/ DialFails(t)
    \/ Store(t)
    \/ Send(t)
    \/ SendFails(t)
    \/ CloseConn(t)
    \/ Record(t)
    \/ Notify(t)

-----------------------------------------------------------------------------
Numbers == {0} \cup (1 .. MaxSends)
Modes == {"relay", "direct_p2p"}
Addresses == {"", "relay", "onion"}
Ids == 1 .. MaxSettings + 1
Sizes == {"fits", "edge", "over"}
Labels == {"idle", "encrypt", "lookup", "dial", "store", "send", "close", "record", "notify",
           "switch", "save"}

\* Types; the active profile exists, a session belongs to a contact, and the counter of a
\* session never exceeds the calls of SendTextMessage.
TypeOK ==
    /\ DOMAIN Identities \subseteq Profiles
    /\ Identities \in [DOMAIN Identities -> Ids]
    /\ ActiveProfile \in DOMAIN Identities
    /\ DOMAIN Contacts \subseteq Peers
    /\ Contacts \in [DOMAIN Contacts -> Addresses]
    /\ DOMAIN Sessions \subseteq DOMAIN Contacts
    /\ Sessions \in [DOMAIN Sessions ->
                       [identity : Ids, outSequence : Numbers, isEstablished : BOOLEAN]]
    /\ Messages \in [Peers -> Seq(Numbers)]
    /\ DOMAIN ActiveConns \subseteq Peers
    /\ ActiveConns \in [DOMAIN ActiveConns -> Conns]
    /\ Mode \in Modes /\ RelayAddr \in Addresses
    /\ conn \in [Conns -> {"unused", "up", "broken", "closed"}]
    /\ pc \in [Threads -> Labels]
    /\ job \in [Threads -> [peer : Peers \cup {Nil}, profile : Profiles \cup {Nil},
                            size : Sizes \cup {""}, seq : Numbers, conn : Conns \cup {Nil}]]
    /\ settings \in 0 .. MaxSettings
    /\ sends \in 0 .. MaxSends
    /\ sealed \subseteq [peer : Peers, seq : Numbers, signer : Ids]
    /\ written \subseteq [peer : Peers, seq : Numbers]
    /\ overtaken \subseteq Threads
    /\ raced \subseteq Conns

\* A message with a sequence number is in a history only after SendPacket took the
\* packet of that number for that peer, and no number is there twice, however many
\* goroutines send (manager.go:248-256).
RecordedWasSent ==
    \A p \in Peers : \A i \in DOMAIN Messages[p] :
        Messages[p][i] # 0 =>
            /\ \E w \in written : w.peer = p /\ w.seq = Messages[p][i]
            /\ \A j \in DOMAIN Messages[p] : Messages[p][j] = Messages[p][i] => j = i

\* A peer gets all its packets from one identity, with numbers that never repeat: it
\* knows one key and one window for this sender.  Neither SwitchProfile, nor a profile
\* that is overwritten, nor goroutines that ask for a session at the same time change
\* that (manager.go:184-195).
OneSignerPerPeer ==
    \A m, n \in sealed :
        m.peer = n.peer => m.signer = n.signer /\ (m.seq = n.seq => m = n)

Held(c) == \E t \in Threads : job[t].conn = c

\* A connection is left open with nobody to use or close it only by a race of two calls
\* for one peer: its entry was overwritten (manager.go:244) or deleted (250) by a call that
\* another one had overtaken, and that never had this connection.  A call that nobody
\* overtakes leaves nothing open, whatever fails on its way.
AbandonedOnlyByRace ==
    \A c \in Conns :
        conn[c] \in {"up", "broken"} /\ c \notin Range(ActiveConns) /\ ~Held(c) => c \in raced

=============================================================================
