----------------------------- MODULE RelayServer -----------------------------
(***************************************************************************)
(* The store-and-forward relay: pkg/server/server.go and handleClient of   *)
(* cmd/palagos-server/main.go.  One goroutine per connection runs          *)
(* handleClient; they share the maps clients and mailboxes under one       *)
(* mutex, which is never held across network I/O.  A step below is what a  *)
(* goroutine does between two points where another may run: a critical     *)
(* section, or one SendPacket.                                             *)
(*                                                                         *)
(* A packet is <<recipient, n>>, the n-th packet submitted for that        *)
(* recipient.  SendPacket is one step here; FramedConn has its parts.  It  *)
(* has no deadline: a write to a client that does not read may never       *)
(* return.  A write to a connection whose client has gone succeeds, and is *)
(* lost, until the operating system notices; from then on every write      *)
(* fails.                                                                  *)
(***************************************************************************)
EXTENDS Naturals, Sequences, FiniteSets, Functions

CONSTANTS Clients,      \* client fingerprints
          Conns,        \* connections the relay accepts, each used once
          NoConn,       \* no entry in the map clients
          MailboxTTL,   \* age above which a mailbox is evicted: 72 hours in the code
          MaxTime,      \* bound: clock ticks
          MaxPackets    \* bound: packets submitted per recipient

ASSUME RelayAssumption ==
    /\ NoConn \notin Conns
    /\ {MailboxTTL, MaxTime, MaxPackets} \subseteq Nat

VARIABLES
    clients,    \* map: fingerprint -> registered connection, NoConn if absent
    mailboxes,  \* map: fingerprint -> [packets, createdAt], for the keys it has
    now,        \* the clock
    conn,       \* "unused", "up", "gone" (client vanished), "broken" (writes fail),
                \* "closed" (by handleClient)
    owner,      \* the client whose key a connection's other end claims; the relay asks
                \* for no proof of it
    pc,         \* where the goroutine of a connection is
    pkts,       \* DeliverMailbox: the copy made under the lock
    sentCount,  \* DeliverMailbox: how many of them were written
    routing,    \* RoutePacket: the packet in hand and the connection looked up
    submitted,  \* how many packets were submitted for a recipient
    written,    \* history: what a connection's client can read, in order
    vanished,   \* history: packets written to a client that had gone
    wiped,      \* history: packets DeliverMailbox removed without having sent them
    evicted,    \* history: packets evicted with their mailbox
    putBack     \* history: packets a flush that failed put back

serverVars  == <<clients, mailboxes, now>>
handlerVars == <<conn, owner, pc, pkts, sentCount, routing>>
histVars    == <<written, vanished, wiped, evicted, putBack>>
vars == <<serverVars, handlerVars, submitted, histVars>>

Idle == <<>>  \* no packet in hand

Packets == Clients \X (1 .. MaxPackets)

Drop(s, n) == SubSeq(s, n + 1, Len(s))
Without(f, x) == [y \in DOMAIN f \ {x} |-> f[y]]
With(f, x, v) == [y \in DOMAIN f \cup {x} |-> IF y = x THEN v ELSE f[y]]

-----------------------------------------------------------------------------
\* NewServer.
Init ==
    /\ clients = [c \in Clients |-> NoConn]
    /\ mailboxes = <<>>
    /\ now = 0
    /\ conn = [k \in Conns |-> "unused"]
    /\ owner \in [Conns -> Clients]
    /\ pc = [k \in Conns |-> "accept"]
    /\ pkts = [k \in Conns |-> <<>>]
    /\ sentCount = [k \in Conns |-> 0]
    /\ routing = [k \in Conns |-> Idle]
    /\ submitted = [c \in Clients |-> 0]
    /\ written = [k \in Conns |-> <<>>]
    /\ vanished = {}
    /\ wiped = {}
    /\ evicted = {}
    /\ putBack = {}

Goto(k, label) == pc' = [pc EXCEPT ![k] = label]

\* SendPacket(m) on connection k returns nil.  Nothing obliges it to, while the client
\* is there and does not read.
Write(k, m) ==
    /\ conn[k] \in {"up", "gone"}
    /\ written' = IF conn[k] = "up" THEN [written EXCEPT ![k] = Append(@, m)] ELSE written
    /\ vanished' = IF conn[k] = "gone" THEN vanished \cup {m} ELSE vanished

\* SendPacket on connection k returns an error.
WriteFails(k) == conn[k] \in {"broken", "closed"}

\* A packet joins the mailbox of c; a new entry gets the time stamp created.
Queue(c, m, created) ==
    mailboxes' = IF c \in DOMAIN mailboxes
                 THEN [mailboxes EXCEPT ![c].packets = Append(@, m)]
                 ELSE With(mailboxes, c, [packets |-> <<m>>, createdAt |-> created])

\* Mutated form: the entry is stamped with the time of the next eviction.
EnqueueWithDeadline(c, m) == Queue(c, m, now + 1)

\* enqueueMailbox: an entry keeps the time it was created at.
Enqueue(c, m) == Queue(c, m, now)

-----------------------------------------------------------------------------
\* The accept loop starts handleClient, also while an earlier connection of the client
\* is served.
Accept(k) ==
    /\ pc[k] = "accept"
    /\ conn' = [conn EXCEPT ![k] = "up"]
    /\ Goto(k, "auth")
    /\ UNCHANGED <<serverVars, owner, pkts, sentCount, routing, submitted, histVars>>

\* The connection of an authenticated client is registered; an earlier connection
\* of the client is overwritten.
Register(k, next) ==
    /\ pc[k] = "auth"
    /\ conn[k] \in {"up", "gone"}
    /\ clients' = [clients EXCEPT ![owner[k]] = k]
    /\ Goto(k, next)
    /\ UNCHANGED <<mailboxes, now, conn, owner, pkts, sentCount, routing, submitted, histVars>>

\* Mutated form: the client is served without a flush of its mailbox.
AuthenticateWithoutFlush(k) == Register(k, "loop")

\* AuthenticateClient registers the connection before the mailbox is flushed.
AuthenticateClient(k) == Register(k, "deliver")

\* handleClient returns and closes; its entry in the map clients stays.
Return(k, labels, states) ==
    /\ pc[k] \in labels
    /\ conn[k] \in states
    /\ conn' = [conn EXCEPT ![k] = "closed"]
    /\ Goto(k, "done")
    /\ UNCHANGED <<serverVars, owner, pkts, sentCount, routing, submitted, histVars>>

\* Mutated form: a failed ReceivePacket continues the loop instead of leaving it.
HangupInAuthOnly(k) == Return(k, {"auth"}, {"gone", "broken"})

\* ReceivePacket fails, during the authentication or in the loop.
Hangup(k) == Return(k, {"auth", "loop"}, {"gone", "broken"})

\* A live client sends a challenge or a key of the wrong length, or a frame above the
\* limit.
Refuse(k) == Return(k, {"auth", "loop"}, {"up"})

-----------------------------------------------------------------------------
\* DeliverMailbox, first critical section: the packets are copied and left there.
CopyMailbox(k) ==
    /\ pc[k] = "deliver"
    /\ IF owner[k] \in DOMAIN mailboxes /\ mailboxes[owner[k]].packets # <<>>
       THEN /\ pkts' = [pkts EXCEPT ![k] = mailboxes[owner[k]].packets]
            /\ sentCount' = [sentCount EXCEPT ![k] = 0]
            /\ Goto(k, "flush")
       ELSE /\ Goto(k, "loop")
            /\ UNCHANGED <<pkts, sentCount>>
    /\ UNCHANGED <<serverVars, conn, owner, routing, submitted, histVars>>

\* One round of its loop.
FlushOne(k) ==
    /\ pc[k] = "flush"
    /\ sentCount[k] < Len(pkts[k])
    /\ Write(k, pkts[k][sentCount[k] + 1])
    /\ sentCount' = [sentCount EXCEPT ![k] = @ + 1]
    /\ UNCHANGED <<serverVars, conn, owner, pc, pkts, routing, submitted, wiped, evicted, putBack>>

\* A failed send: the rest of the copy goes in front of what the mailbox holds.
FlushFails(k) ==
    LET c == owner[k]
        rest == Drop(pkts[k], sentCount[k])
    IN  /\ pc[k] = "flush"
        /\ sentCount[k] < Len(pkts[k])
        /\ WriteFails(k)
        /\ mailboxes' = IF c \in DOMAIN mailboxes
                        THEN [mailboxes EXCEPT ![c].packets = rest \o @]
                        ELSE With(mailboxes, c, [packets |-> rest, createdAt |-> now])
        /\ pkts' = [pkts EXCEPT ![k] = <<>>]
        /\ sentCount' = [sentCount EXCEPT ![k] = 0]
        /\ putBack' = putBack \cup Range(rest)
        /\ Goto(k, "loop")
        /\ UNCHANGED <<clients, now, conn, owner, routing, submitted, written, vanished, wiped, evicted>>

\* Everything was sent: the mailbox is removed, with whatever it holds by now.
FlushDone(k) ==
    LET c == owner[k]
        held == IF c \in DOMAIN mailboxes THEN Range(mailboxes[c].packets) ELSE {}
    IN  /\ pc[k] = "flush"
        /\ sentCount[k] = Len(pkts[k])
        /\ mailboxes' = Without(mailboxes, c)
        /\ wiped' = wiped \cup (held \ Range(pkts[k]))
        /\ pkts' = [pkts EXCEPT ![k] = <<>>]
        /\ sentCount' = [sentCount EXCEPT ![k] = 0]
        /\ Goto(k, "loop")
        /\ UNCHANGED <<clients, now, conn, owner, routing, submitted, written, vanished, evicted, putBack>>

-----------------------------------------------------------------------------
\* A packet for client c arrives on connection k (it may have been under way when
\* its sender vanished).  It is put in the mailbox (queue), or taken
\* along to be sent on the connection target.
Submit(k, c, target, queue) ==
    LET m == <<c, submitted[c] + 1>>
    IN  /\ pc[k] = "loop"
        /\ conn[k] \in {"up", "gone"}
        /\ submitted[c] < MaxPackets
        /\ submitted' = [submitted EXCEPT ![c] = @ + 1]
        /\ IF queue THEN Enqueue(c, m) ELSE UNCHANGED mailboxes
        /\ IF target = NoConn
           THEN UNCHANGED <<pc, routing>>
           ELSE /\ routing' = [routing EXCEPT ![k] = <<m, target>>]
                /\ Goto(k, "send")
        /\ UNCHANGED <<clients, now, conn, owner, pkts, sentCount, written, vanished, wiped, evicted, putBack>>

\* Mutated forms: the return after the direct send is missing; the sender's
\* fingerprint is looked up.
RouteAndQueue(k, c) == Submit(k, c, clients[c], TRUE)
RouteToSender(k, c) == Submit(k, c, clients[owner[k]], clients[owner[k]] = NoConn)

\* RoutePacket, first critical section: the recipient's connection is looked up;
\* without one the packet is queued at once.
RouteLookup(k, c) == Submit(k, c, clients[c], clients[c] = NoConn)

\* SendPacket outside the lock, on the connection found before.
RouteSend(k) ==
    /\ pc[k] = "send"
    /\ Write(routing[k][2], routing[k][1])
    /\ routing' = [routing EXCEPT ![k] = Idle]
    /\ Goto(k, "loop")
    /\ UNCHANGED <<serverVars, conn, owner, pkts, sentCount, submitted, wiped, evicted, putBack>>

\* A direct send failed.
GiveUp(k, unregister, queue) ==
    LET m == routing[k][1]
    IN  /\ pc[k] = "send"
        /\ WriteFails(routing[k][2])
        /\ clients' = IF unregister THEN [clients EXCEPT ![m[1]] = NoConn] ELSE clients
        /\ IF queue THEN Enqueue(m[1], m) ELSE UNCHANGED mailboxes
        /\ routing' = [routing EXCEPT ![k] = Idle]
        /\ Goto(k, "loop")
        /\ UNCHANGED <<now, conn, owner, pkts, sentCount, submitted, written, vanished, wiped, evicted, putBack>>

\* Mutated forms: the packet is dropped; the recipient stays registered.
RouteFailsUnqueued(k)   == GiveUp(k, TRUE, FALSE)
RouteFailsRegistered(k) == GiveUp(k, FALSE, TRUE)

\* RoutePacket, error branch: the recipient is unregistered, whatever connection it
\* has by now, and the packet is queued.
RouteFails(k) == GiveUp(k, TRUE, TRUE)

-----------------------------------------------------------------------------
\* evictExpiredMailboxes, whenever the ticker of runMailboxGC fires.
EvictExpiredMailboxes ==
    LET old == {c \in DOMAIN mailboxes : now - mailboxes[c].createdAt > MailboxTTL}
    IN  /\ old # {}
        /\ mailboxes' = [c \in DOMAIN mailboxes \ old |-> mailboxes[c]]
        /\ evicted' = evicted \cup UNION {Range(mailboxes[c].packets) : c \in old}
        /\ UNCHANGED <<clients, now, handlerVars, submitted, written, vanished, wiped, putBack>>

Tick ==
    /\ now < MaxTime
    /\ now' = now + 1
    /\ UNCHANGED <<clients, mailboxes, handlerVars, submitted, histVars>>

\* The client or its network disappears, and later the relay's kernel knows.
Vanish(k) ==
    /\ conn[k] = "up"
    /\ conn' = [conn EXCEPT ![k] = "gone"]
    /\ UNCHANGED <<serverVars, owner, pc, pkts, sentCount, routing, submitted, histVars>>

Break(k) ==
    /\ conn[k] = "gone"
    /\ conn' = [conn EXCEPT ![k] = "broken"]
    /\ UNCHANGED <<serverVars, owner, pc, pkts, sentCount, routing, submitted, histVars>>

\* What a handler does without waiting for a live client.
Proceed(k) ==
    \/ Hangup(k)
    \/ CopyMailbox(k)
    \/ FlushFails(k)
    \/ FlushDone(k)
    \/ RouteFails(k)

Next ==
    \/ \E k \in Conns :
        \/ Accept(k)
        \/ AuthenticateClient(k)
        \/ Refuse(k)
        \/ FlushOne(k)
        \/ RouteSend(k)
        \/ Proceed(k)
        \/ \E c \in Clients : RouteLookup(k, c)
        \/ Vanish(k)
        \/ Break(k)
    \/ EvictExpiredMailboxes
    \/ Tick

Spec == Init /\ [][Next]_vars

\* The Go scheduler runs every goroutine that can proceed, and a dead connection is
\* noticed at last.  Nobody is obliged to connect, to authenticate, to submit a packet
\* or to read one.
Fairness == \A k \in Conns : WF_vars(Proceed(k)) /\ WF_vars(Break(k))

FairSpec == Spec /\ Fairness

-----------------------------------------------------------------------------
InMailbox(c) == IF c \in DOMAIN mailboxes THEN Range(mailboxes[c].packets) ELSE {}

To(c) == {c} \X (1 .. MaxPackets)

\* Types; a flush never counts more packets as sent than it copied.
TypeOK ==
    /\ clients \in [Clients -> Conns \cup {NoConn}]
    /\ DOMAIN mailboxes \subseteq Clients
    /\ mailboxes \in [DOMAIN mailboxes -> [packets : Seq(Packets), createdAt : 0 .. now]]
    /\ now \in 0 .. MaxTime
    /\ conn \in [Conns -> {"unused", "up", "gone", "broken", "closed"}]
    /\ owner \in [Conns -> Clients]
    /\ pc \in [Conns -> {"accept", "auth", "deliver", "flush", "loop", "send", "done"}]
    /\ pkts \in [Conns -> Seq(Packets)]
    /\ sentCount \in [Conns -> Nat]
    /\ \A k \in Conns : sentCount[k] <= Len(pkts[k])
    /\ routing \in [Conns -> {Idle} \cup (Packets \X Conns)]
    /\ submitted \in [Clients -> 0 .. MaxPackets]
    /\ written \in [Conns -> Seq(Packets)]

\* What a goroutine holds for a connection, and what waits in a mailbox, is addressed
\* to that client; a registered or looked-up connection belongs to the client it was
\* looked up for.
Addressed ==
    /\ \A k \in Conns : pkts[k] \in Seq(To(owner[k]))
    /\ \A k \in Conns : written[k] \in Seq(To(owner[k]))
    /\ \A c \in DOMAIN mailboxes : mailboxes[c].packets \in Seq(To(c))
    /\ \A c \in Clients : clients[c] # NoConn => owner[clients[c]] = c
    /\ \A k \in Conns : pc[k] = "send" =>
            routing[k] # Idle /\ owner[routing[k][2]] = routing[k][1][1]

WrittenTo(c) == UNION {Range(written[k]) : k \in {j \in Conns : owner[j] = c}}

InHand(c) == {routing[k][1] : k \in {j \in Conns : pc[j] = "send"}} \cap ({c} \X Nat)

Unsent(c) == UNION {Range(Drop(pkts[k], sentCount[k])) : k \in {j \in Conns : owner[j] = c}}

Submitted(c) == {<<c, n>> : n \in 1 .. submitted[c]}

Known(c) ==
    WrittenTo(c) \cup InMailbox(c) \cup InHand(c) \cup Unsent(c) \cup vanished \cup wiped \cup evicted

\* Every packet the relay took is with its recipient, in the recipient's mailbox, in
\* the hands of a goroutine, or lost in one of three known ways: written to a client
\* that had gone, evicted, or removed by a flush that overtook its queueing.
PacketsAccountedFor == \A c \in Clients : Submitted(c) \subseteq Known(c)

\* A handler holds a copy of a mailbox only during its flush, and what it counts as
\* sent was written to its client or vanished with it.
CopiesSent ==
    \A k \in Conns :
        /\ pc[k] # "flush" => pkts[k] = <<>>
        /\ \A i \in 1 .. sentCount[k] : pkts[k][i] \in Range(written[k]) \cup vanished

\* A packet reaches only connections of the client it is addressed to, although
\* the connection was looked up before the lock was released.
NoMisdelivery ==
    \A k \in Conns : \A m \in Range(written[k]) : m[1] = owner[k]

\* Mail that waits for a client the relay serves in its main loop, on a live connection
\* that is registered.
Waiting(c) ==
    LET k == clients[c]
    IN  IF k # NoConn /\ pc[k] \in {"loop", "send"} /\ conn[k] \in {"up", "gone"}
        THEN InMailbox(c)
        ELSE {}

\* Mail waits behind the back of an online client only where a flush that failed on
\* another of its connections put it back (server.go:195): routers whose look-up is stale,
\* reconnections, flushes and expiry leave none there, however they overlap.
OnlineMailPutBack == \A c \in Clients : Waiting(c) \subseteq putBack

AllUp == \A k \in Conns : conn[k] \in {"unused", "up"}

OneConnEach ==
    \A j, k \in Conns : owner[j] = owner[k] /\ "unused" \notin {conn[j], conn[k]} => j = k

\* As long as no connection has ended and no client has a second one, no packet is
\* written twice, whether it went through the mailbox, directly, or arrived in between,
\* and no mailbox holds one twice.  (After a flush that failed a mailbox does: server.go:195
\* puts the rest in front of the entries that were never taken out.)
WrittenOnce ==
    AllUp /\ OneConnEach =>
        /\ \A j, k \in Conns : \A a \in DOMAIN written[j], b \in DOMAIN written[k] :
                written[j][a] = written[k][b] => j = k /\ a = b
        /\ \A c \in DOMAIN mailboxes :
                Cardinality(Range(mailboxes[c].packets)) = Len(mailboxes[c].packets)

\* The handler of k is at a SendPacket to a client that is there, and returns from it only
\* if that client reads (transport.go:56 sets no deadline).
Blocked(k) ==
    \/ pc[k] = "flush" /\ sentCount[k] < Len(pkts[k]) /\ conn[k] = "up"
    \/ pc[k] = "send" /\ conn[routing[k][2]] = "up"

\* handleClient returns once its client is gone, from whatever it was doing, unless it
\* hangs for ever in a SendPacket to another client, which is there and does not read.
HandlersEnd ==
    \A k \in Conns : conn[k] \in {"gone", "broken"} ~> (pc[k] = "done" \/ []Blocked(k))

\* Whatever is submitted for a client that has authenticated is eventually written to
\* it, unless it is evicted, some connection ends, or some handler hangs for ever in a
\* SendPacket to a client that does not read.
EventuallyWritten ==
    \A m \in Packets :
        (/\ m \in Submitted(m[1])
         /\ \E k \in Conns : owner[k] = m[1] /\ conn[k] = "up" /\ pc[k] # "auth")
            ~> (m \in WrittenTo(m[1]) \cup evicted \/ ~AllUp \/ \E k \in Conns : []Blocked(k))

-----------------------------------------------------------------------------
(* What the repository says of the relay, and the code does not keep.       *)

\* server.go:208, "All packets delivered successfully, remove from mailbox": what a
\* flush removes it has sent.
NothingWiped == wiped = {}
=============================================================================
