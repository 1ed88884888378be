--------------------------- MODULE RelayServerProofs ---------------------------
(***************************************************************************)
(* Proofs about the relay, for any number of clients, connections and      *)
(* packets: its type invariant, that no packet reaches a client it is not  *)
(* addressed to, that mail waits for a client that is served only where a  *)
(* failed flush put it back, that no packet is lost unseen, and that none  *)
(* is written twice while every client keeps its one connection.           *)
(***************************************************************************)
EXTENDS RelayServer, SequenceTheorems, FiniteSetTheorems, TLAPS

\* What TypeOK and Addressed say of the map of mailboxes.
MailOK(mb, t) ==
    /\ DOMAIN mb \subseteq Clients
    /\ mb \in [DOMAIN mb -> [packets : Seq(Packets), createdAt : 0 .. t]]
    /\ \A c \in DOMAIN mb : mb[c].packets \in Seq(To(c))

-----------------------------------------------------------------------------
(* Sequences of packets and maps of mailboxes.                             *)

\* Packets for one client are packets.
LEMMA ToIsPackets ==
    ASSUME NEW c \in Clients, NEW s \in Seq(To(c))
    PROVE  s \in Seq(Packets)
<1>1. To(c) \subseteq Packets
  BY DEF To, Packets
<1> QED BY <1>1, SeqMonotonic

\* A new entry of a mailbox map, as enqueueMailbox and a failed flush make it.
LEMMA MailWith ==
    ASSUME NEW mb, NEW t \in Nat, MailOK(mb, t),
           NEW c \in Clients, NEW s \in Seq(To(c)), NEW u \in 0 .. t
    PROVE  MailOK(With(mb, c, [packets |-> s, createdAt |-> u]), t)
<1>1. s \in Seq(Packets)
  BY ToIsPackets
<1> QED BY <1>1 DEF MailOK, With

\* Another content of an entry that is there.
LEMMA MailExcept ==
    ASSUME NEW mb, NEW t \in Nat, MailOK(mb, t),
           NEW c \in DOMAIN mb, NEW s \in Seq(To(c))
    PROVE  MailOK([mb EXCEPT ![c].packets = s], t)
<1>1. c \in Clients /\ s \in Seq(Packets)
  BY ToIsPackets DEF MailOK
<1> QED BY <1>1 DEF MailOK

\* Entries removed by a flush or by expiry.
LEMMA MailRestrict ==
    ASSUME NEW mb, NEW t \in Nat, MailOK(mb, t), NEW D \in SUBSET DOMAIN mb
    PROVE  MailOK([c \in D |-> mb[c]], t)
BY DEF MailOK

\* enqueueMailbox keeps the map of mailboxes sound.
LEMMA EnqueueOK ==
    ASSUME TypeOK, Addressed, NEW c \in Clients, NEW m \in To(c), Enqueue(c, m)
    PROVE  MailOK(mailboxes', now)
<1>1. MailOK(mailboxes, now) /\ now \in Nat
  BY DEF TypeOK, Addressed, MailOK
<1>2. CASE c \in DOMAIN mailboxes
  <2>1. Append(mailboxes[c].packets, m) \in Seq(To(c))
    BY <1>2, AppendProperties DEF Addressed
  <2> QED BY <1>1, <1>2, <2>1, MailExcept DEF Enqueue, Queue
<1>3. CASE c \notin DOMAIN mailboxes
  <2>1. <<m>> \in Seq(To(c))
    OBVIOUS
  <2>2. mailboxes' = With(mailboxes, c, [packets |-> <<m>>, createdAt |-> now])
    BY <1>3 DEF Enqueue, Queue
  <2>3. now \in 0 .. now
    BY <1>1
  <2> QED BY <1>1, <2>1, <2>2, <2>3, MailWith
<1> QED BY <1>2, <1>3

-----------------------------------------------------------------------------
(* The invariant that types the relay and addresses what it holds.         *)

AInv == TypeOK /\ Addressed

\* The relay starts without packets, registrations or handlers.
LEMMA InitAInv == Init => AInv
<1> SUFFICES ASSUME Init PROVE AInv
  OBVIOUS
<1>1. TypeOK
  BY RelayAssumption DEF Init, TypeOK, Idle
<1>2. Addressed
  BY RelayAssumption DEF Init, Addressed
<1> QED BY <1>1, <1>2 DEF AInv

\* A SendPacket adds a packet for c to what c's connection can read, or to vanished.
LEMMA WriteOK ==
    ASSUME AInv, NEW k \in Conns, NEW m \in To(owner[k]), Write(k, m)
    PROVE  /\ written' \in [Conns -> Seq(Packets)]
           /\ \A j \in Conns : written'[j] \in Seq(To(owner[j]))
<1>1. Append(written[k], m) \in Seq(To(owner[k]))
  BY AppendProperties DEF AInv, Addressed
<1>2. Append(written[k], m) \in Seq(Packets)
  BY <1>1, ToIsPackets DEF AInv, TypeOK
<1> QED BY <1>1, <1>2 DEF Write, AInv, Addressed, TypeOK

\* Every step keeps the invariant.
LEMMA NextAInv == AInv /\ [Next]_vars => AInv'
<1> SUFFICES ASSUME AInv, [Next]_vars PROVE AInv'
  OBVIOUS
<1> USE DEF AInv
<1>1. MailOK(mailboxes, now) /\ now \in Nat
  BY DEF TypeOK, Addressed, MailOK
<1>2. ASSUME NEW k \in Conns, Accept(k) PROVE AInv'
  BY <1>2 DEF Accept, Goto, TypeOK, Addressed, serverVars, histVars
<1>3. ASSUME NEW k \in Conns, AuthenticateClient(k) PROVE AInv'
  BY <1>3, RelayAssumption DEF AuthenticateClient, Register, Goto, TypeOK, Addressed, histVars
<1>4. ASSUME NEW k \in Conns, Hangup(k) \/ Refuse(k) PROVE AInv'
  <2>1. /\ conn' = [conn EXCEPT ![k] = "closed"] /\ pc' = [pc EXCEPT ![k] = "done"]
        /\ UNCHANGED <<clients, mailboxes, now, owner, pkts, sentCount, routing, submitted, written>>
    BY <1>4 DEF Hangup, Refuse, Return, Goto, serverVars, histVars
  <2> QED BY <2>1 DEF TypeOK, Addressed
<1>5. ASSUME NEW k \in Conns, CopyMailbox(k) PROVE AInv'
  <2> DEFINE mail == mailboxes[owner[k]].packets
  <2>1. CASE owner[k] \in DOMAIN mailboxes /\ mail # <<>>
    <3>1. pkts' = [pkts EXCEPT ![k] = mail] /\ sentCount' = [sentCount EXCEPT ![k] = 0]
      BY <1>5, <2>1 DEF CopyMailbox
    <3>2. mail \in Seq(Packets) /\ mail \in Seq(To(owner[k])) /\ Len(mail) \in Nat
      BY <2>1, LenProperties DEF TypeOK, Addressed
    <3> HIDE DEF mail
    <3>3. \A j \in Conns : sentCount'[j] <= Len(pkts'[j])
      BY <3>1, <3>2 DEF TypeOK
    <3>4. TypeOK'
      BY <1>5, <3>1, <3>2, <3>3 DEF CopyMailbox, Goto, TypeOK, serverVars, histVars
    <3>5. Addressed'
      BY <1>5, <3>1, <3>2 DEF CopyMailbox, Goto, TypeOK, Addressed, serverVars, histVars
    <3> QED BY <3>4, <3>5
  <2>2. CASE ~(owner[k] \in DOMAIN mailboxes /\ mail # <<>>)
    <3>1. UNCHANGED <<pkts, sentCount>> /\ Goto(k, "loop")
      BY <1>5, <2>2 DEF CopyMailbox
    <3> HIDE DEF mail
    <3> QED BY <1>5, <3>1 DEF CopyMailbox, Goto, TypeOK, Addressed, serverVars, histVars
  <2> QED BY <2>1, <2>2
<1>6. ASSUME NEW k \in Conns, FlushOne(k) PROVE AInv'
  <2>1. pkts[k][sentCount[k] + 1] \in To(owner[k])
    BY <1>6, ElementOfSeq DEF FlushOne, TypeOK, Addressed
  <2>2. /\ written' \in [Conns -> Seq(Packets)]
        /\ \A j \in Conns : written'[j] \in Seq(To(owner[j]))
    BY <1>6, <2>1, WriteOK DEF FlushOne
  <2>3. sentCount[k] + 1 <= Len(pkts[k])
    <3>1. Len(pkts[k]) \in Nat /\ sentCount[k] \in Nat
      BY LenProperties DEF TypeOK
    <3> QED BY <1>6, <3>1 DEF FlushOne
  <2>4. \A j \in Conns : sentCount'[j] <= Len(pkts'[j])
    BY <1>6, <2>3 DEF FlushOne, TypeOK
  <2>5. TypeOK'
    <3>1. UNCHANGED <<clients, mailboxes, now, conn, owner, pc, pkts, routing, submitted>>
      BY <1>6 DEF FlushOne, serverVars
    <3>2. sentCount' \in [Conns -> Nat]
      BY <1>6 DEF FlushOne, TypeOK
    <3> QED BY <2>2, <2>4, <3>1, <3>2 DEF TypeOK
  <2>6. Addressed'
    BY <1>6, <2>2 DEF FlushOne, Addressed, serverVars
  <2> QED BY <2>5, <2>6
<1>7. ASSUME NEW k \in Conns, FlushFails(k) PROVE AInv'
  <2> DEFINE c == owner[k]
  <2> DEFINE rest == Drop(pkts[k], sentCount[k])
  <2>1. rest \in Seq(To(c))
    <3>1. \A i \in sentCount[k] + 1 .. Len(pkts[k]) : pkts[k][i] \in To(c)
      BY ElementOfSeq DEF TypeOK, Addressed
    <3> QED BY <3>1, SubSeqProperties DEF Drop, TypeOK
  <2>2. MailOK(mailboxes', now)
    <3>1. CASE c \in DOMAIN mailboxes
      <4>1. rest \o mailboxes[c].packets \in Seq(To(c))
        BY <2>1, <3>1, ConcatProperties DEF Addressed
      <4> QED BY <1>1, <1>7, <3>1, <4>1, MailExcept DEF FlushFails
    <3>2. CASE c \notin DOMAIN mailboxes
      <4>1. mailboxes' = With(mailboxes, c, [packets |-> rest, createdAt |-> now])
        BY <1>7, <3>2 DEF FlushFails
      <4>2. c \in Clients /\ now \in 0 .. now
        BY <1>1 DEF TypeOK
      <4> QED BY <1>1, <2>1, <4>1, <4>2, MailWith
    <3> QED BY <3>1, <3>2
  <2> HIDE DEF c, rest
  <2> QED BY <1>7, <2>2 DEF FlushFails, Goto, TypeOK, Addressed, MailOK, histVars
<1>8. ASSUME NEW k \in Conns, FlushDone(k) PROVE AInv'
  <2>1. MailOK(mailboxes', now)
    BY <1>1, <1>8, MailRestrict DEF FlushDone, Without
  <2> QED BY <1>8, <2>1 DEF FlushDone, Goto, TypeOK, Addressed, MailOK
<1>9. ASSUME NEW k \in Conns, NEW c \in Clients, RouteLookup(k, c) PROVE AInv'
  <2> DEFINE m == <<c, submitted[c] + 1>>
  <2>1. m \in To(c) /\ m \in Packets /\ m[1] = c
    BY <1>9, RelayAssumption DEF RouteLookup, Submit, TypeOK, To, Packets
  <2>2. MailOK(mailboxes', now)
    BY <1>1, <1>9, <2>1, EnqueueOK DEF RouteLookup, Submit
  <2>3. routing' \in [Conns -> {Idle} \cup (Packets \X Conns)]
    <3>1. \/ routing' = routing
          \/ clients[c] \in Conns /\ routing' = [routing EXCEPT ![k] = <<m, clients[c]>>]
      BY <1>9 DEF RouteLookup, Submit, TypeOK
    <3> HIDE DEF m
    <3>2. clients[c] \in Conns => <<m, clients[c]>> \in {Idle} \cup (Packets \X Conns)
      BY <2>1
    <3> QED BY <3>1, <3>2 DEF TypeOK
  <2>4. submitted' \in [Clients -> 0 .. MaxPackets]
    BY <1>9, RelayAssumption DEF RouteLookup, Submit, TypeOK
  <2>5. TypeOK'
    BY <1>9, <2>2, <2>3, <2>4 DEF RouteLookup, Submit, Goto, TypeOK, MailOK
  <2>6. \A j \in Conns : pc'[j] = "send" =>
            routing'[j] # Idle /\ owner'[routing'[j][2]] = routing'[j][1][1]
    <3>1. CASE clients[c] = NoConn
      BY <1>9, <3>1 DEF RouteLookup, Submit, Addressed
    <3>2. CASE clients[c] # NoConn
      <4>1. /\ routing' = [routing EXCEPT ![k] = <<m, clients[c]>>]
            /\ pc' = [pc EXCEPT ![k] = "send"]
            /\ owner' = owner
            /\ owner[clients[c]] = c
        BY <1>9, <3>2 DEF RouteLookup, Submit, Goto, Addressed
      <4> HIDE DEF m
      <4>2. <<m, clients[c]>> # Idle
        BY DEF Idle
      <4> QED BY <2>1, <4>1, <4>2 DEF TypeOK, Addressed
    <3> QED BY <3>1, <3>2
  <2>7. Addressed'
    BY <1>9, <2>2, <2>6 DEF RouteLookup, Submit, Addressed, MailOK
  <2> QED BY <2>5, <2>7
<1>10. ASSUME NEW k \in Conns, RouteSend(k) PROVE AInv'
  <2>1. routing[k] \in Packets \X Conns /\ owner[routing[k][2]] = routing[k][1][1]
    BY <1>10 DEF RouteSend, TypeOK, Addressed
  <2>2. routing[k][2] \in Conns /\ routing[k][1] \in To(owner[routing[k][2]])
    BY <2>1 DEF Packets, To
  <2>3. /\ written' \in [Conns -> Seq(Packets)]
        /\ \A j \in Conns : written'[j] \in Seq(To(owner[j]))
    BY <1>10, <2>2, WriteOK DEF RouteSend
  <2> QED BY <1>10, <2>3 DEF RouteSend, Goto, TypeOK, Addressed, serverVars
<1>11. ASSUME NEW k \in Conns, RouteFails(k) PROVE AInv'
  <2> DEFINE m == routing[k][1]
  <2>1. m[1] \in Clients /\ m \in To(m[1])
    BY <1>11 DEF RouteFails, GiveUp, TypeOK, Addressed, Packets, To
  <2>2. MailOK(mailboxes', now)
    BY <1>11, <2>1, EnqueueOK DEF RouteFails, GiveUp
  <2> QED BY <1>11, <2>1, <2>2 DEF RouteFails, GiveUp, Goto, TypeOK, Addressed, MailOK
<1>12. ASSUME EvictExpiredMailboxes PROVE AInv'
  <2>1. MailOK(mailboxes', now)
    BY <1>1, <1>12, MailRestrict DEF EvictExpiredMailboxes
  <2> QED BY <1>12, <2>1 DEF EvictExpiredMailboxes, TypeOK, Addressed, MailOK, handlerVars
<1>13. ASSUME Tick PROVE AInv'
  <2>1. now' \in Nat /\ 0 .. now \subseteq 0 .. now'
    BY <1>1, <1>13 DEF Tick
  <2>2. MailOK(mailboxes', now')
    BY <1>1, <1>13, <2>1 DEF Tick, MailOK
  <2>3. now' \in 0 .. MaxTime
    BY <1>13, RelayAssumption DEF Tick, TypeOK
  <2> QED BY <1>13, <2>2, <2>3 DEF Tick, TypeOK, Addressed, MailOK, handlerVars, histVars
<1>14. ASSUME NEW k \in Conns, Vanish(k) PROVE AInv'
  BY <1>14 DEF Vanish, TypeOK, Addressed, serverVars, histVars
<1>15. ASSUME NEW k \in Conns, Break(k) PROVE AInv'
  BY <1>15 DEF Break, TypeOK, Addressed, serverVars, histVars
<1>16. CASE UNCHANGED vars
  BY <1>16 DEF vars, TypeOK, Addressed, serverVars, handlerVars, histVars
<1> QED
  BY <1>2, <1>3, <1>4, <1>5, <1>6, <1>7, <1>8, <1>9, <1>10, <1>11, <1>12, <1>13,
     <1>14, <1>15, <1>16 DEF Next, Proceed

-----------------------------------------------------------------------------
(* Mail waits for a client that is served only where a failed flush put it.    *)

\* What the goroutine of an accepted connection may do next, other than route a packet.
Handler(k) ==
    \/ AuthenticateClient(k) \/ Refuse(k) \/ FlushOne(k) \/ RouteSend(k) \/ Proceed(k)

FInv == AInv /\ OnlineMailPutBack

\* At the start no client is registered.
LEMMA InitFInv == Init => FInv
<1> SUFFICES ASSUME Init PROVE FInv
  OBVIOUS
<1>1. AInv
  BY InitAInv
<1>2. OnlineMailPutBack
  BY DEF Init, OnlineMailPutBack, Waiting
<1> QED BY <1>1, <1>2 DEF FInv

\* What a failed flush has put back stays marked.
LEMMA PutBackGrows == [Next]_vars => putBack \subseteq putBack'
<1> SUFFICES ASSUME [Next]_vars PROVE putBack \subseteq putBack'
  OBVIOUS
<1>1. ASSUME NEW k \in Conns, Handler(k) PROVE putBack \subseteq putBack'
  BY <1>1 DEF Handler, Proceed, AuthenticateClient, Register, Hangup, Refuse, Return, CopyMailbox,
     FlushOne, FlushFails, FlushDone, RouteSend, RouteFails, GiveUp, histVars
<1>2. ASSUME NEW k \in Conns, NEW c \in Clients, RouteLookup(k, c) PROVE putBack \subseteq putBack'
  BY <1>2 DEF RouteLookup, Submit
<1>3. ASSUME NEW k \in Conns, Accept(k) \/ Vanish(k) \/ Break(k) PROVE putBack \subseteq putBack'
  BY <1>3 DEF Accept, Vanish, Break, histVars
<1>4. ASSUME EvictExpiredMailboxes \/ Tick \/ UNCHANGED vars PROVE putBack \subseteq putBack'
  BY <1>4 DEF EvictExpiredMailboxes, Tick, vars, histVars
<1> QED BY <1>1, <1>2, <1>3, <1>4 DEF Next, Handler

\* Mail queued for one client is not mail for another.
LEMMA EnqueueElsewhere ==
    ASSUME NEW c \in Clients, NEW d \in Clients, c # d, NEW m, Enqueue(d, m)
    PROVE  InMailbox(c)' = InMailbox(c)
BY DEF Enqueue, Queue, With, InMailbox

\* Mail is added only when the client is not registered, when it is being unregistered, or
\* by a flush of its own that fails, on a connection other than the one it is served on.
LEMMA NextFlushed ==
    ASSUME FInv, [Next]_vars
    PROVE  OnlineMailPutBack'
<1> USE DEF FInv, AInv
<1> DEFINE Served(c) ==
      /\ clients[c] # NoConn
      /\ pc[clients[c]] \in {"loop", "send"}
      /\ conn[clients[c]] \in {"up", "gone"}
<1> SUFFICES ASSUME NEW c \in Clients, Served(c)' PROVE InMailbox(c)' \subseteq putBack'
  BY DEF OnlineMailPutBack, Waiting
<1>1. Served(c) => InMailbox(c) \subseteq putBack'
  BY PutBackGrows DEF OnlineMailPutBack, Waiting
<1>2. clients[c] # NoConn => clients[c] \in Conns /\ owner[clients[c]] = c
  BY DEF TypeOK, Addressed
<1>3. ASSUME NEW k \in Conns, Accept(k) PROVE InMailbox(c)' \subseteq putBack'
  <2>1. clients' = clients /\ InMailbox(c)' = InMailbox(c)
    BY <1>3 DEF Accept, serverVars, InMailbox
  <2>2. Served(c)
    BY <1>2, <1>3, <2>1 DEF Accept, Goto, TypeOK
  <2> QED BY <1>1, <2>1, <2>2
<1>4. ASSUME NEW k \in Conns, AuthenticateClient(k) PROVE InMailbox(c)' \subseteq putBack'
  <2>1. InMailbox(c)' = InMailbox(c)
    BY <1>4 DEF AuthenticateClient, Register, InMailbox
  <2>2. Served(c)
    BY <1>2, <1>4 DEF AuthenticateClient, Register, Goto, TypeOK
  <2> QED BY <1>1, <2>1, <2>2
<1>5. ASSUME NEW k \in Conns, Hangup(k) \/ Refuse(k) PROVE InMailbox(c)' \subseteq putBack'
  <2>1. clients' = clients /\ InMailbox(c)' = InMailbox(c)
    BY <1>5 DEF Hangup, Refuse, Return, serverVars, InMailbox
  <2>2. Served(c)
    BY <1>2, <1>5, <2>1 DEF Hangup, Refuse, Return, Goto, TypeOK
  <2> QED BY <1>1, <2>1, <2>2
<1>6. ASSUME NEW k \in Conns, CopyMailbox(k) PROVE InMailbox(c)' \subseteq putBack'
  <2>1. /\ UNCHANGED <<clients, mailboxes, conn>>
        /\ InMailbox(c)' = InMailbox(c)
    BY <1>6 DEF CopyMailbox, serverVars, InMailbox
  <2>2. CASE clients[c] = k
    <3>1. owner[k] = c
      BY <1>2, <2>1, <2>2
    <3>2. ~(c \in DOMAIN mailboxes /\ mailboxes[c].packets # <<>>)
      BY <1>6, <2>1, <2>2, <3>1 DEF CopyMailbox, Goto, TypeOK
    <3>3. Range(<<>>) = {}
      BY DEF Range
    <3> QED BY <2>1, <3>2, <3>3 DEF InMailbox
  <2>3. CASE clients[c] # k
    <3>1. \A j \in Conns : j # k => pc'[j] = pc[j]
      BY <1>6 DEF CopyMailbox, Goto, TypeOK
    <3>2. Served(c)
      BY <1>2, <2>1, <2>3, <3>1
    <3> QED BY <1>1, <2>1, <3>2
  <2> QED BY <2>2, <2>3
<1>7. ASSUME NEW k \in Conns, FlushOne(k) PROVE InMailbox(c)' \subseteq putBack'
  <2>1. UNCHANGED <<clients, mailboxes, conn, pc>>
    BY <1>7 DEF FlushOne, serverVars
  <2> QED BY <1>1, <2>1 DEF InMailbox
<1>8. ASSUME NEW k \in Conns, FlushFails(k) PROVE InMailbox(c)' \subseteq putBack'
  <2>1. /\ UNCHANGED <<clients, conn, owner>>
        /\ pc[k] = "flush"
        /\ conn[k] \in {"broken", "closed"}
        /\ \A j \in Conns : j # k => pc'[j] = pc[j]
    BY <1>8 DEF FlushFails, WriteFails, Goto, TypeOK
  <2>2. clients[c] # k
    BY <2>1
  <2>3. Served(c)
    BY <1>2, <2>1, <2>2
  <2>4. CASE owner[k] # c
    <3>1. InMailbox(c)' = InMailbox(c)
      BY <1>8, <2>4 DEF FlushFails, With, InMailbox
    <3> QED BY <1>1, <2>3, <3>1
  <2>5. CASE owner[k] = c
    <3> DEFINE rest == Drop(pkts[k], sentCount[k])
    <3>1. Range(rest) \subseteq putBack'
      BY <1>8 DEF FlushFails
    <3>2. rest \in Seq(Packets)
      <4>1. \A i \in sentCount[k] + 1 .. Len(pkts[k]) : pkts[k][i] \in Packets
        BY ElementOfSeq DEF TypeOK
      <4> QED BY <4>1, SubSeqProperties DEF Drop, TypeOK
    <3> HIDE DEF rest
    <3>3. CASE c \in DOMAIN mailboxes
      <4>1. /\ DOMAIN mailboxes' = DOMAIN mailboxes
            /\ mailboxes'[c].packets = rest \o mailboxes[c].packets
        BY <1>8, <2>5, <3>3 DEF FlushFails, rest, TypeOK
      <4>2. Range(rest \o mailboxes[c].packets) = Range(rest) \cup Range(mailboxes[c].packets)
        BY <3>2, <3>3, RangeConcatenation DEF TypeOK
      <4> QED BY <1>1, <2>3, <3>1, <3>3, <4>1, <4>2 DEF InMailbox
    <3>4. CASE c \notin DOMAIN mailboxes
      <4>1. c \in DOMAIN mailboxes' /\ mailboxes'[c].packets = rest
        BY <1>8, <2>5, <3>4 DEF FlushFails, With, rest
      <4> QED BY <3>1, <4>1 DEF InMailbox
    <3> QED BY <3>3, <3>4
  <2> QED BY <2>4, <2>5
<1>9. ASSUME NEW k \in Conns, FlushDone(k) PROVE InMailbox(c)' \subseteq putBack'
  <2>1. CASE owner[k] = c
    BY <1>9, <2>1 DEF FlushDone, Without, InMailbox
  <2>2. CASE owner[k] # c
    <3>1. /\ UNCHANGED <<clients, conn>>
          /\ \A j \in Conns : j # k => pc'[j] = pc[j]
          /\ InMailbox(c)' = InMailbox(c)
      BY <1>9, <2>2 DEF FlushDone, Goto, TypeOK, Without, InMailbox
    <3>2. Served(c)
      BY <1>2, <2>2, <3>1
    <3> QED BY <1>1, <3>1, <3>2
  <2> QED BY <2>1, <2>2
<1>10. ASSUME NEW k \in Conns, NEW d \in Clients, RouteLookup(k, d) PROVE InMailbox(c)' \subseteq putBack'
  <2>1. /\ UNCHANGED <<clients, conn>>
        /\ pc[k] = "loop"
        /\ \A j \in Conns : j # k => pc'[j] = pc[j]
    BY <1>10 DEF RouteLookup, Submit, Goto, TypeOK
  <2>2. Served(c)
    BY <1>2, <2>1
  <2>3. InMailbox(c)' = InMailbox(c)
    <3>1. CASE clients[d] = NoConn
      BY <1>10, <2>2, <3>1, EnqueueElsewhere DEF RouteLookup, Submit
    <3>2. CASE clients[d] # NoConn
      BY <1>10, <3>2 DEF RouteLookup, Submit, InMailbox
    <3> QED BY <3>1, <3>2
  <2> QED BY <1>1, <2>2, <2>3
<1>11. ASSUME NEW k \in Conns, RouteSend(k) PROVE InMailbox(c)' \subseteq putBack'
  <2>1. /\ UNCHANGED <<clients, mailboxes, conn>>
        /\ pc[k] = "send"
        /\ \A j \in Conns : j # k => pc'[j] = pc[j]
    BY <1>11 DEF RouteSend, Goto, TypeOK, serverVars
  <2>2. Served(c)
    BY <1>2, <2>1
  <2> QED BY <1>1, <2>1, <2>2 DEF InMailbox
<1>12. ASSUME NEW k \in Conns, RouteFails(k) PROVE InMailbox(c)' \subseteq putBack'
  <2> DEFINE m == routing[k][1]
  <2>1. m[1] \in Clients /\ m[1] # c
    BY <1>12 DEF RouteFails, GiveUp, TypeOK, Addressed, Packets
  <2>2. /\ clients'[c] = clients[c]
        /\ UNCHANGED conn
        /\ pc[k] = "send"
        /\ \A j \in Conns : j # k => pc'[j] = pc[j]
    BY <1>12, <2>1 DEF RouteFails, GiveUp, Goto, TypeOK
  <2>3. Served(c)
    BY <1>2, <2>2
  <2>4. InMailbox(c)' = InMailbox(c)
    BY <1>12, <2>1, EnqueueElsewhere DEF RouteFails, GiveUp
  <2> QED BY <1>1, <2>3, <2>4
<1>13. ASSUME EvictExpiredMailboxes PROVE InMailbox(c)' \subseteq putBack'
  <2>1. UNCHANGED <<clients, conn, pc>>
    BY <1>13 DEF EvictExpiredMailboxes, handlerVars
  <2>2. InMailbox(c)' \subseteq InMailbox(c)
    BY <1>13 DEF EvictExpiredMailboxes, InMailbox
  <2> QED BY <1>1, <2>1, <2>2
<1>14. ASSUME NEW k \in Conns, Vanish(k) \/ Break(k) PROVE InMailbox(c)' \subseteq putBack'
  <2>1. /\ UNCHANGED <<clients, mailboxes, pc>>
        /\ conn[k] \in {"up", "gone"}
        /\ \A j \in Conns : j # k => conn'[j] = conn[j]
    BY <1>14 DEF Vanish, Break, serverVars, TypeOK
  <2>2. Served(c)
    BY <1>2, <2>1
  <2> QED BY <1>1, <2>1, <2>2 DEF InMailbox
<1>15. ASSUME UNCHANGED <<clients, mailboxes, conn, pc>> PROVE InMailbox(c)' \subseteq putBack'
  BY <1>1, <1>15 DEF InMailbox
<1> QED
  BY <1>3, <1>4, <1>5, <1>6, <1>7, <1>8, <1>9, <1>10, <1>11, <1>12, <1>13, <1>14, <1>15
  DEF Next, Handler, Proceed, Tick, vars, serverVars, handlerVars

-----------------------------------------------------------------------------
(* No packet is lost in a way the relay does not know of.                  *)

\* The elements of a sequence one longer.
LEMMA RangeAppend ==
    ASSUME NEW S, NEW s \in Seq(S), NEW e \in S
    PROVE  Range(Append(s, e)) = Range(s) \cup {e}
<1>1. Append(s, e) \in Seq(S)
  BY AppendProperties
<1>2. Range(Append(s, e)) = {Append(s, e)[i] : i \in 1 .. Len(s) + 1}
  <2>1. Len(Append(s, e)) = Len(s) + 1
    BY AppendProperties
  <2>2. Range(Append(s, e)) = {Append(s, e)[i] : i \in 1 .. Len(Append(s, e))}
    BY <1>1, RangeEquality
  <2> QED BY <2>1, <2>2
<1>3. Range(s) = {s[i] : i \in 1 .. Len(s)} /\ Len(s) \in Nat
  BY RangeEquality, LenProperties
<1>4. /\ \A i \in 1 .. Len(s) : Append(s, e)[i] = s[i]
      /\ Append(s, e)[Len(s) + 1] = e
  BY AppendProperties
<1> QED BY <1>2, <1>3, <1>4

\* What is left of a sequence after its first n elements.
LEMMA RangeDrop ==
    ASSUME NEW S, NEW s \in Seq(S), NEW n \in Nat
    PROVE  Range(Drop(s, n)) = {s[i] : i \in n + 1 .. Len(s)}
<1>1. Len(s) \in Nat /\ \A i \in n + 1 .. Len(s) : s[i] \in S
  BY LenProperties, ElementOfSeq
<1>2. /\ Drop(s, n) \in Seq(S)
      /\ Len(Drop(s, n)) = IF n + 1 <= Len(s) THEN Len(s) - n ELSE 0
      /\ \A i \in 1 .. Len(s) - n : Drop(s, n)[i] = s[n + i]
  BY <1>1, SubSeqProperties DEF Drop
<1>3. Range(Drop(s, n)) = {Drop(s, n)[i] : i \in 1 .. Len(Drop(s, n))}
  BY <1>2, RangeEquality
<1>4. ASSUME NEW x \in Range(Drop(s, n)) PROVE x \in {s[i] : i \in n + 1 .. Len(s)}
  <2>1. PICK i \in 1 .. Len(Drop(s, n)) : x = Drop(s, n)[i]
    BY <1>3
  <2>2. x = s[n + i] /\ n + i \in n + 1 .. Len(s)
    BY <1>1, <1>2, <2>1
  <2> QED BY <2>2
<1>5. ASSUME NEW i \in n + 1 .. Len(s) PROVE s[i] \in Range(Drop(s, n))
  <2>1. i - n \in 1 .. Len(Drop(s, n)) /\ Drop(s, n)[i - n] = s[i]
    BY <1>1, <1>2
  <2> QED BY <1>3, <2>1
<1> QED BY <1>4, <1>5

\* SendPacket keeps what was written before, and its packet is written or vanishes.
LEMMA WriteKeeps ==
    ASSUME AInv, NEW k \in Conns, NEW m \in To(owner[k]), Write(k, m)
    PROVE  /\ \A j \in Conns : Range(written[j]) \subseteq Range(written'[j])
           /\ vanished \subseteq vanished'
           /\ m \in Range(written'[k]) \cup vanished'
<1>1. Range(Append(written[k], m)) = Range(written[k]) \cup {m}
  BY RangeAppend DEF AInv, Addressed
<1>2. CASE conn[k] = "up"
  BY <1>1, <1>2 DEF Write, AInv, TypeOK
<1>3. CASE conn[k] = "gone"
  BY <1>3 DEF Write
<1> QED BY <1>2, <1>3 DEF Write

\* enqueueMailbox keeps all mail, and adds its packet.
LEMMA EnqueueKeeps ==
    ASSUME AInv, NEW d \in Clients, NEW m \in To(d), Enqueue(d, m)
    PROVE  /\ \A c \in Clients : InMailbox(c) \subseteq InMailbox(c)'
           /\ m \in InMailbox(d)'
<1>1. CASE d \in DOMAIN mailboxes
  <2>1. Range(Append(mailboxes[d].packets, m)) = Range(mailboxes[d].packets) \cup {m}
    BY <1>1, RangeAppend DEF AInv, Addressed
  <2>2. /\ DOMAIN mailboxes' = DOMAIN mailboxes
        /\ mailboxes'[d].packets = Append(mailboxes[d].packets, m)
        /\ \A c \in DOMAIN mailboxes : c # d => mailboxes'[c] = mailboxes[c]
    BY <1>1 DEF Enqueue, Queue, AInv, TypeOK
  <2> QED BY <1>1, <2>1, <2>2 DEF InMailbox
<1>2. CASE d \notin DOMAIN mailboxes
  <2>1. Range(<<m>>) = {m}
    BY DEF Range
  <2>2. /\ DOMAIN mailboxes' = DOMAIN mailboxes \cup {d}
        /\ mailboxes'[d].packets = <<m>>
        /\ \A c \in DOMAIN mailboxes : mailboxes'[c] = mailboxes[c]
    BY <1>2 DEF Enqueue, Queue, With
  <2> QED BY <1>2, <2>1, <2>2 DEF InMailbox
<1> QED BY <1>1, <1>2

PInv == AInv /\ CopiesSent /\ PacketsAccountedFor

LEMMA InitPInv == Init => PInv
<1> SUFFICES ASSUME Init PROVE PInv
  OBVIOUS
<1>1. AInv
  BY InitAInv
<1>2. CopiesSent
  BY DEF Init, CopiesSent
<1>3. PacketsAccountedFor
  <2>1. ASSUME NEW c \in Clients PROVE Submitted(c) = {}
    BY DEF Init, Submitted
  <2> QED BY <2>1 DEF PacketsAccountedFor
<1> QED BY <1>1, <1>2, <1>3 DEF PInv

\* Every step keeps the copies of the flushes sound.
LEMMA NextCopiesSent ==
    ASSUME AInv, CopiesSent, [Next]_vars
    PROVE  CopiesSent'
<1>1. ASSUME NEW k \in Conns, CopyMailbox(k) PROVE CopiesSent'
  <2>1. \A j \in Conns : j # k => /\ pc'[j] = pc[j] /\ pkts'[j] = pkts[j]
                                  /\ sentCount'[j] = sentCount[j]
    BY <1>1 DEF CopyMailbox, Goto, AInv, TypeOK
  <2>2. pc'[k] # "flush" => pkts'[k] = <<>>
    BY <1>1 DEF CopyMailbox, Goto, AInv, TypeOK, CopiesSent
  <2>3. pkts'[k] # pkts[k] => sentCount'[k] = 0
    BY <1>1 DEF CopyMailbox, AInv, TypeOK
  <2>4. sentCount'[k] = 0 \/ sentCount'[k] = sentCount[k]
    BY <1>1 DEF CopyMailbox, AInv, TypeOK
  <2>5. UNCHANGED <<written, vanished>>
    BY <1>1 DEF CopyMailbox, histVars
  <2> QED BY <2>1, <2>2, <2>3, <2>4, <2>5 DEF CopiesSent
<1>2. ASSUME NEW k \in Conns, FlushOne(k) PROVE CopiesSent'
  <2> DEFINE m == pkts[k][sentCount[k] + 1]
  <2>1. m \in To(owner[k])
    BY <1>2, ElementOfSeq DEF FlushOne, AInv, TypeOK, Addressed
  <2>2. /\ \A j \in Conns : Range(written[j]) \subseteq Range(written'[j])
        /\ vanished \subseteq vanished'
        /\ m \in Range(written'[k]) \cup vanished'
    BY <1>2, <2>1, WriteKeeps DEF FlushOne
  <2>3. /\ UNCHANGED <<pc, pkts>>
        /\ sentCount'[k] = sentCount[k] + 1
        /\ sentCount[k] \in Nat
        /\ \A j \in Conns : j # k => sentCount'[j] = sentCount[j]
    BY <1>2 DEF FlushOne, AInv, TypeOK
  <2>4. \A i \in 1 .. sentCount'[k] : i \in 1 .. sentCount[k] \/ i = sentCount[k] + 1
    BY <2>3
  <2> QED BY <2>2, <2>3, <2>4 DEF CopiesSent
<1>3. ASSUME NEW k \in Conns, FlushFails(k) \/ FlushDone(k) PROVE CopiesSent'
  <2>1. /\ pkts'[k] = <<>> /\ sentCount'[k] = 0
        /\ \A j \in Conns : j # k => /\ pc'[j] = pc[j] /\ pkts'[j] = pkts[j]
                                     /\ sentCount'[j] = sentCount[j]
        /\ UNCHANGED <<written, vanished>>
    BY <1>3 DEF FlushFails, FlushDone, Goto, AInv, TypeOK, histVars
  <2> QED BY <2>1 DEF CopiesSent
<1>4. ASSUME NEW k \in Conns, RouteSend(k) PROVE CopiesSent'
  <2>1. routing[k][2] \in Conns /\ routing[k][1] \in To(owner[routing[k][2]])
    <3>1. routing[k] \in Packets \X Conns /\ owner[routing[k][2]] = routing[k][1][1]
      BY <1>4 DEF RouteSend, AInv, TypeOK, Addressed
    <3> QED BY <3>1 DEF Packets, To
  <2>2. /\ \A j \in Conns : Range(written[j]) \subseteq Range(written'[j])
        /\ vanished \subseteq vanished'
    BY <1>4, <2>1, WriteKeeps DEF RouteSend
  <2>3. /\ UNCHANGED <<pkts, sentCount>>
        /\ \A j \in Conns : pc'[j] # "flush" => pc[j] # "flush"
    BY <1>4 DEF RouteSend, Goto, AInv, TypeOK
  <2> QED BY <2>2, <2>3 DEF CopiesSent
<1>5. ASSUME UNCHANGED <<pkts, sentCount, written, vanished>>,
             \A j \in Conns : pc'[j] # "flush" => pc[j] # "flush"
      PROVE  CopiesSent'
  BY <1>5 DEF CopiesSent
<1>6. ASSUME NEW k \in Conns, Accept(k) \/ AuthenticateClient(k) \/ Hangup(k) \/ Refuse(k) \/ RouteFails(k)
      PROVE  CopiesSent'
  <2>1. /\ UNCHANGED <<pkts, sentCount, written, vanished>>
        /\ \A j \in Conns : pc'[j] # "flush" => pc[j] # "flush"
    BY <1>6 DEF Accept, AuthenticateClient, Register, Hangup, Refuse, Return, RouteFails, GiveUp, Goto,
       AInv, TypeOK, histVars
  <2> QED BY <1>5, <2>1
<1>7. ASSUME NEW k \in Conns, NEW c \in Clients, RouteLookup(k, c) PROVE CopiesSent'
  <2>1. /\ UNCHANGED <<pkts, sentCount, written, vanished>>
        /\ \A j \in Conns : pc'[j] # "flush" => pc[j] # "flush"
    BY <1>7 DEF RouteLookup, Submit, Goto, AInv, TypeOK
  <2> QED BY <1>5, <2>1
<1>8. ASSUME UNCHANGED <<pkts, sentCount, written, vanished, pc>> PROVE CopiesSent'
  BY <1>5, <1>8
<1> QED
  BY <1>1, <1>2, <1>3, <1>4, <1>6, <1>7, <1>8
  DEF Next, Handler, Proceed, Vanish, Break, EvictExpiredMailboxes, Tick, handlerVars, histVars, vars

\* The places a packet for c can be, other than those that only grow.
LEMMA KnownGrows ==
    ASSUME NEW c \in Clients, owner' = owner,
           \A j \in Conns : Range(written[j]) \subseteq Range(written'[j]),
           vanished \subseteq vanished', wiped \subseteq wiped', evicted \subseteq evicted',
           InMailbox(c) \subseteq Known(c)', InHand(c) \subseteq Known(c)',
           Unsent(c) \subseteq Known(c)'
    PROVE  Known(c) \subseteq Known(c)'
<1>1. WrittenTo(c) \subseteq WrittenTo(c)'
  BY DEF WrittenTo
<1> QED BY <1>1 DEF Known

\* No step loses sight of a packet.
LEMMA NextKnown ==
    ASSUME AInv, CopiesSent, [Next]_vars, NEW c \in Clients
    PROVE  Known(c) \subseteq Known(c)'
<1>1. ASSUME UNCHANGED <<mailboxes, owner, pkts, sentCount, routing, written, vanished, wiped, evicted>>,
             \A j \in Conns : pc[j] = "send" => pc'[j] = "send"
      PROVE  Known(c) \subseteq Known(c)'
  <2>1. InMailbox(c)' = InMailbox(c) /\ Unsent(c)' = Unsent(c)
    BY <1>1 DEF InMailbox, Unsent
  <2>2. InHand(c) \subseteq InHand(c)'
    BY <1>1 DEF InHand
  <2> QED BY <1>1, <2>1, <2>2, KnownGrows DEF Known
<1>2. ASSUME NEW k \in Conns, Accept(k) \/ AuthenticateClient(k) \/ Hangup(k) \/ Refuse(k)
      PROVE  Known(c) \subseteq Known(c)'
  <2>1. /\ UNCHANGED <<mailboxes, owner, pkts, sentCount, routing, written, vanished, wiped, evicted>>
        /\ \A j \in Conns : pc[j] = "send" => pc'[j] = "send"
    BY <1>2 DEF Accept, AuthenticateClient, Register, Hangup, Refuse, Return, Goto, AInv, TypeOK,
       serverVars, histVars
  <2> QED BY <1>1, <2>1
<1>3. ASSUME NEW k \in Conns, CopyMailbox(k) PROVE Known(c) \subseteq Known(c)'
  <2>1. /\ UNCHANGED <<mailboxes, owner, routing, written, vanished, wiped, evicted>>
        /\ \A j \in Conns : pc[j] = "send" => pc'[j] = "send"
        /\ \A j \in Conns : j # k => pkts'[j] = pkts[j] /\ sentCount'[j] = sentCount[j]
    BY <1>3 DEF CopyMailbox, Goto, AInv, TypeOK, serverVars, histVars
  <2>2. Range(Drop(pkts[k], sentCount[k])) = {}
    <3>1. pkts[k] = <<>> /\ sentCount[k] \in Nat
      BY <1>3 DEF CopyMailbox, CopiesSent, AInv, TypeOK
    <3>2. <<>> \in Seq(Packets) /\ Len(<<>>) = 0
      BY EmptySeq
    <3>3. Range(Drop(<<>>, sentCount[k])) = {<<>>[i] : i \in sentCount[k] + 1 .. 0}
      BY <3>1, <3>2, RangeDrop
    <3> QED BY <3>1, <3>3
  <2>3. Unsent(c) \subseteq Unsent(c)'
    BY <2>1, <2>2 DEF Unsent
  <2>4. InMailbox(c)' = InMailbox(c) /\ InHand(c) \subseteq InHand(c)'
    BY <2>1 DEF InMailbox, InHand
  <2> QED BY <2>1, <2>3, <2>4, KnownGrows DEF Known
<1>4. ASSUME NEW k \in Conns, FlushOne(k) PROVE Known(c) \subseteq Known(c)'
  <2> DEFINE m == pkts[k][sentCount[k] + 1]
  <2>1. m \in To(owner[k])
    BY <1>4, ElementOfSeq DEF FlushOne, AInv, TypeOK, Addressed
  <2>2. /\ \A j \in Conns : Range(written[j]) \subseteq Range(written'[j])
        /\ vanished \subseteq vanished'
        /\ m \in Range(written'[k]) \cup vanished'
    BY <1>4, <2>1, WriteKeeps DEF FlushOne
  <2>3. /\ UNCHANGED <<mailboxes, owner, pc, pkts, routing, wiped, evicted>>
        /\ sentCount'[k] = sentCount[k] + 1
        /\ \A j \in Conns : j # k => sentCount'[j] = sentCount[j]
    BY <1>4 DEF FlushOne, AInv, TypeOK, serverVars
  <2>4. Range(Drop(pkts[k], sentCount[k])) \subseteq {m} \cup Range(Drop(pkts[k], sentCount'[k]))
    <3>1. sentCount[k] \in Nat /\ pkts[k] \in Seq(Packets) /\ Len(pkts[k]) \in Nat
      BY LenProperties DEF AInv, TypeOK
    <3>2. Range(Drop(pkts[k], sentCount[k])) = {pkts[k][i] : i \in sentCount[k] + 1 .. Len(pkts[k])}
      BY <3>1, RangeDrop
    <3>3. Range(Drop(pkts[k], sentCount[k] + 1))
            = {pkts[k][i] : i \in sentCount[k] + 1 + 1 .. Len(pkts[k])}
      BY <3>1, RangeDrop
    <3>4. \A i \in sentCount[k] + 1 .. Len(pkts[k]) :
            i = sentCount[k] + 1 \/ i \in sentCount[k] + 1 + 1 .. Len(pkts[k])
      BY <3>1
    <3> QED BY <2>3, <3>2, <3>3, <3>4
  <2>5. Unsent(c) \subseteq Known(c)'
    <3> SUFFICES ASSUME NEW j \in Conns, owner[j] = c,
                        NEW x \in Range(Drop(pkts[j], sentCount[j]))
                 PROVE  x \in Known(c)'
      BY DEF Unsent
    <3>1. CASE j # k
      BY <2>3, <3>1 DEF Known, Unsent
    <3>2. CASE j = k /\ x = m
      BY <2>2, <2>3, <3>2 DEF Known, WrittenTo
    <3>3. CASE j = k /\ x # m
      <4>1. x \in Range(Drop(pkts[k], sentCount[k]))'
        BY <2>3, <2>4, <3>3
      <4> QED BY <2>3, <3>3, <4>1 DEF Known, Unsent
    <3> QED BY <3>1, <3>2, <3>3
  <2>6. InMailbox(c)' = InMailbox(c) /\ InHand(c)' = InHand(c)
    BY <2>3 DEF InMailbox, InHand
  <2> QED BY <2>2, <2>3, <2>5, <2>6, KnownGrows DEF Known
<1>5. ASSUME NEW k \in Conns, FlushFails(k) PROVE Known(c) \subseteq Known(c)'
  <2> DEFINE rest == Drop(pkts[k], sentCount[k])
  <2>1. /\ UNCHANGED <<owner, routing, written, vanished, wiped, evicted>>
        /\ \A j \in Conns : pc[j] = "send" => pc'[j] = "send"
        /\ \A j \in Conns : j # k => pkts'[j] = pkts[j] /\ sentCount'[j] = sentCount[j]
    BY <1>5 DEF FlushFails, Goto, AInv, TypeOK, histVars
  <2>2. rest \in Seq(Packets)
    <3>1. \A i \in sentCount[k] + 1 .. Len(pkts[k]) : pkts[k][i] \in Packets
      BY ElementOfSeq DEF AInv, TypeOK
    <3> QED BY <3>1, SubSeqProperties DEF Drop, AInv, TypeOK
  <2> HIDE DEF rest
  <2>3. InMailbox(c) \subseteq InMailbox(c)' /\ (owner[k] = c => Range(rest) \subseteq InMailbox(c)')
    <3>1. CASE owner[k] \in DOMAIN mailboxes
      <4>1. /\ DOMAIN mailboxes' = DOMAIN mailboxes
            /\ mailboxes'[owner[k]].packets = rest \o mailboxes[owner[k]].packets
            /\ \A d \in DOMAIN mailboxes : d # owner[k] => mailboxes'[d] = mailboxes[d]
        BY <1>5, <3>1 DEF FlushFails, rest, AInv, TypeOK
      <4>2. Range(rest \o mailboxes[owner[k]].packets)
              = Range(rest) \cup Range(mailboxes[owner[k]].packets)
        BY <2>2, <3>1, RangeConcatenation DEF AInv, TypeOK
      <4> QED BY <3>1, <4>1, <4>2 DEF InMailbox
    <3>2. CASE owner[k] \notin DOMAIN mailboxes
      <4>1. /\ DOMAIN mailboxes' = DOMAIN mailboxes \cup {owner[k]}
            /\ mailboxes'[owner[k]].packets = rest
            /\ \A d \in DOMAIN mailboxes : mailboxes'[d] = mailboxes[d]
        BY <1>5, <3>2 DEF FlushFails, With, rest
      <4> QED BY <3>2, <4>1 DEF InMailbox
    <3> QED BY <3>1, <3>2
  <2>4. Unsent(c) \subseteq Known(c)'
    <3> SUFFICES ASSUME NEW j \in Conns, owner[j] = c,
                        NEW x \in Range(Drop(pkts[j], sentCount[j]))
                 PROVE  x \in Known(c)'
      BY DEF Unsent
    <3>1. CASE j # k
      BY <2>1, <3>1 DEF Known, Unsent
    <3>2. CASE j = k
      BY <2>3, <3>2 DEF Known, rest
    <3> QED BY <3>1, <3>2
  <2>5. InHand(c) \subseteq InHand(c)'
    BY <2>1 DEF InHand
  <2> QED BY <2>1, <2>3, <2>4, <2>5, KnownGrows DEF Known
<1>6. ASSUME NEW k \in Conns, FlushDone(k) PROVE Known(c) \subseteq Known(c)'
  <2>1. /\ UNCHANGED <<owner, routing, written, vanished, evicted>>
        /\ \A j \in Conns : pc[j] = "send" => pc'[j] = "send"
        /\ \A j \in Conns : j # k => pkts'[j] = pkts[j] /\ sentCount'[j] = sentCount[j]
        /\ sentCount[k] = Len(pkts[k])
        /\ wiped' = wiped \cup (InMailbox(owner[k]) \ Range(pkts[k]))
        /\ \A d \in Clients : d # owner[k] => InMailbox(d)' = InMailbox(d)
    BY <1>6 DEF FlushDone, Goto, AInv, TypeOK, Without, InMailbox
  <2>2. pkts[k] \in Seq(Packets) /\ sentCount[k] \in Nat
    BY DEF AInv, TypeOK
  <2>3. Range(pkts[k]) \subseteq Range(written[k]) \cup vanished
    <3>1. Range(pkts[k]) = {pkts[k][i] : i \in 1 .. Len(pkts[k])}
      BY <2>2, RangeEquality
    <3> QED BY <2>1, <3>1 DEF CopiesSent
  <2>4. InMailbox(c) \subseteq Known(c)'
    <3>1. CASE c = owner[k]
      <4>1. Range(written[k]) \subseteq WrittenTo(c)'
        BY <2>1, <3>1 DEF WrittenTo
      <4> QED BY <2>1, <2>3, <3>1, <4>1 DEF Known
    <3>2. CASE c # owner[k]
      BY <2>1, <3>2 DEF Known
    <3> QED BY <3>1, <3>2
  <2>5. Range(Drop(pkts[k], sentCount[k])) = {}
    <3>1. Range(Drop(pkts[k], sentCount[k])) = {pkts[k][i] : i \in sentCount[k] + 1 .. Len(pkts[k])}
      BY <2>2, RangeDrop
    <3> QED BY <2>1, <2>2, <3>1
  <2>6. Unsent(c) \subseteq Unsent(c)'
    BY <2>1, <2>5 DEF Unsent
  <2>7. InHand(c) \subseteq InHand(c)'
    BY <2>1 DEF InHand
  <2> QED BY <2>1, <2>4, <2>6, <2>7, KnownGrows DEF Known
<1>7. ASSUME NEW k \in Conns, NEW d \in Clients, RouteLookup(k, d) PROVE Known(c) \subseteq Known(c)'
  <2>1. /\ UNCHANGED <<owner, pkts, sentCount, written, vanished, wiped, evicted>>
        /\ pc[k] = "loop"
        /\ \A j \in Conns : j # k => pc'[j] = pc[j] /\ routing'[j] = routing[j]
    BY <1>7 DEF RouteLookup, Submit, Goto, AInv, TypeOK
  <2>2. InMailbox(c) \subseteq InMailbox(c)'
    <3>1. <<d, submitted[d] + 1>> \in To(d)
      BY <1>7, RelayAssumption DEF RouteLookup, Submit, AInv, TypeOK, To
    <3>2. CASE clients[d] = NoConn
      BY <1>7, <3>1, <3>2, EnqueueKeeps DEF RouteLookup, Submit
    <3>3. CASE clients[d] # NoConn
      BY <1>7, <3>3 DEF RouteLookup, Submit, InMailbox
    <3> QED BY <3>2, <3>3
  <2>3. InHand(c) \subseteq InHand(c)'
    BY <2>1 DEF InHand
  <2>4. Unsent(c)' = Unsent(c)
    BY <2>1 DEF Unsent
  <2> QED BY <2>1, <2>2, <2>3, <2>4, KnownGrows DEF Known
<1>8. ASSUME NEW k \in Conns, RouteSend(k) PROVE Known(c) \subseteq Known(c)'
  <2> DEFINE m == routing[k][1]
  <2> DEFINE t == routing[k][2]
  <2>1. t \in Conns /\ owner[t] = m[1] /\ m \in To(owner[t])
    <3>1. routing[k] \in Packets \X Conns /\ owner[routing[k][2]] = routing[k][1][1]
      BY <1>8 DEF RouteSend, AInv, TypeOK, Addressed
    <3> QED BY <3>1 DEF Packets, To
  <2>2. /\ \A j \in Conns : Range(written[j]) \subseteq Range(written'[j])
        /\ vanished \subseteq vanished'
        /\ m \in Range(written'[t]) \cup vanished'
    BY <1>8, <2>1, WriteKeeps DEF RouteSend
  <2>3. /\ UNCHANGED <<mailboxes, owner, pkts, sentCount, wiped, evicted>>
        /\ \A j \in Conns : j # k => pc'[j] = pc[j] /\ routing'[j] = routing[j]
    BY <1>8 DEF RouteSend, Goto, AInv, TypeOK, serverVars
  <2>4. InHand(c) \subseteq Known(c)'
    <3> SUFFICES ASSUME NEW j \in Conns, pc[j] = "send", routing[j][1] \in {c} \X Nat
                 PROVE  routing[j][1] \in Known(c)'
      BY DEF InHand
    <3>1. CASE j # k
      BY <2>3, <3>1 DEF Known, InHand
    <3>2. CASE j = k
      <4>1. owner[t] = c
        BY <2>1, <3>2
      <4> QED BY <2>1, <2>2, <2>3, <3>2, <4>1 DEF Known, WrittenTo
    <3> QED BY <3>1, <3>2
  <2>5. InMailbox(c)' = InMailbox(c) /\ Unsent(c)' = Unsent(c)
    BY <2>3 DEF InMailbox, Unsent
  <2> QED BY <2>2, <2>3, <2>4, <2>5, KnownGrows DEF Known
<1>9. ASSUME NEW k \in Conns, RouteFails(k) PROVE Known(c) \subseteq Known(c)'
  <2>1. PICK d \in Clients, m \in Packets :
            m = routing[k][1] /\ m[1] = d /\ m \in To(d) /\ Enqueue(d, m)
    <3>1. routing[k][1][1] \in Clients /\ routing[k][1] \in Packets
            /\ routing[k][1] \in To(routing[k][1][1])
      BY <1>9 DEF RouteFails, GiveUp, AInv, TypeOK, Addressed, Packets, To
    <3> QED BY <1>9, <3>1 DEF RouteFails, GiveUp
  <2>2. InMailbox(c) \subseteq InMailbox(c)' /\ m \in InMailbox(d)'
    BY <2>1, EnqueueKeeps
  <2>3. /\ UNCHANGED <<owner, pkts, sentCount, written, vanished, wiped, evicted>>
        /\ \A j \in Conns : j # k => pc'[j] = pc[j] /\ routing'[j] = routing[j]
    BY <1>9 DEF RouteFails, GiveUp, Goto, AInv, TypeOK
  <2>4. InHand(c) \subseteq Known(c)'
    <3> SUFFICES ASSUME NEW j \in Conns, pc[j] = "send", routing[j][1] \in {c} \X Nat
                 PROVE  routing[j][1] \in Known(c)'
      BY DEF InHand
    <3>1. CASE j # k
      BY <2>3, <3>1 DEF Known, InHand
    <3>2. CASE j = k
      <4>1. d = c
        BY <2>1, <3>2
      <4> QED BY <2>1, <2>2, <3>2, <4>1 DEF Known
    <3> QED BY <3>1, <3>2
  <2>5. Unsent(c)' = Unsent(c)
    BY <2>3 DEF Unsent
  <2> QED BY <2>2, <2>3, <2>4, <2>5, KnownGrows DEF Known
<1>10. ASSUME EvictExpiredMailboxes PROVE Known(c) \subseteq Known(c)'
  <2>1. UNCHANGED <<owner, pc, pkts, sentCount, routing, written, vanished, wiped>>
    BY <1>10 DEF EvictExpiredMailboxes, handlerVars
  <2>2. InMailbox(c) \subseteq InMailbox(c)' \cup evicted'
    BY <1>10 DEF EvictExpiredMailboxes, InMailbox
  <2>3. evicted \subseteq evicted'
    BY <1>10 DEF EvictExpiredMailboxes
  <2>4. InHand(c)' = InHand(c) /\ Unsent(c)' = Unsent(c)
    BY <2>1 DEF InHand, Unsent
  <2> QED BY <2>1, <2>2, <2>3, <2>4, KnownGrows DEF Known
<1>11. ASSUME UNCHANGED <<mailboxes, owner, pc, pkts, sentCount, routing, written, vanished, wiped, evicted>>
       PROVE  Known(c) \subseteq Known(c)'
  BY <1>1, <1>11
<1> QED
  BY <1>2, <1>3, <1>4, <1>5, <1>6, <1>7, <1>8, <1>9, <1>10, <1>11
  DEF Next, Handler, Proceed, Vanish, Break, Tick, serverVars, handlerVars, histVars, vars

\* A packet RoutePacket takes is queued or in its handler's hands at once.
LEMMA NextAccounted ==
    ASSUME PInv, [Next]_vars
    PROVE  PacketsAccountedFor'
<1> SUFFICES ASSUME NEW c \in Clients PROVE Submitted(c)' \subseteq Known(c)'
  BY DEF PacketsAccountedFor
<1>1. Submitted(c) \subseteq Known(c)'
  BY NextKnown DEF PInv, PacketsAccountedFor
<1>2. CASE \E k \in Conns : RouteLookup(k, c)
  <2>1. PICK k \in Conns : RouteLookup(k, c)
    BY <1>2
  <2> DEFINE m == <<c, submitted[c] + 1>>
  <2>2. m \in To(c) /\ m \in {c} \X Nat
    BY <2>1, RelayAssumption DEF RouteLookup, Submit, PInv, AInv, TypeOK, To
  <2>3. Submitted(c)' \subseteq Submitted(c) \cup {m}
    <3>1. submitted'[c] = submitted[c] + 1 /\ submitted[c] \in Nat
      BY <2>1 DEF RouteLookup, Submit, PInv, AInv, TypeOK
    <3> QED BY <3>1 DEF Submitted
  <2>4. m \in Known(c)'
    <3>1. CASE clients[c] = NoConn
      BY <2>1, <2>2, <3>1, EnqueueKeeps DEF RouteLookup, Submit, PInv, Known
    <3>2. CASE clients[c] # NoConn
      <4>1. pc'[k] = "send" /\ routing'[k] = <<m, clients[c]>>
        BY <2>1, <3>2 DEF RouteLookup, Submit, Goto, PInv, AInv, TypeOK
      <4>2. m \in InHand(c)'
        BY <2>2, <4>1 DEF InHand
      <4> QED BY <4>2 DEF Known
    <3> QED BY <3>1, <3>2
  <2> QED BY <1>1, <2>3, <2>4
<1>3. CASE ~\E k \in Conns : RouteLookup(k, c)
  <2>1. submitted'[c] = submitted[c]
    <3>1. ASSUME NEW k \in Conns, NEW d \in Clients, RouteLookup(k, d)
          PROVE  submitted'[c] = submitted[c]
      BY <1>3, <3>1 DEF RouteLookup, Submit, PInv, AInv, TypeOK
    <3>2. ASSUME NEW k \in Conns, Handler(k) PROVE submitted' = submitted
      BY <3>2 DEF Handler, Proceed, AuthenticateClient, Register, Hangup, Refuse, Return, CopyMailbox, FlushOne,
         FlushFails, FlushDone, RouteSend, RouteFails, GiveUp
    <3> QED BY <3>1, <3>2 DEF Next, Handler, Accept, EvictExpiredMailboxes, Tick, Vanish, Break, vars
  <2> QED BY <1>1, <2>1 DEF Submitted
<1> QED BY <1>2, <1>3

-----------------------------------------------------------------------------
(* No packet is written twice, as long as all connections stay and no       *)
(* client has two.                                                         *)

\* The connections nobody has used are those whose handler waits to be started.
Unstarted == \A k \in Conns : pc[k] = "accept" <=> conn[k] = "unused"

\* A client has at most one handler.
Sole ==
    \A j, k \in Conns : owner[j] = owner[k] /\ "accept" \notin {pc[j], pc[k]} => j = k

Distinct(s) == \A a, b \in DOMAIN s : s[a] = s[b] => a = b

\* The packet is on some connection, or in some mailbox.
Out(m)    == \E k \in Conns : \E a \in DOMAIN written[k] : written[k][a] = m
Queued(m) == \E c \in DOMAIN mailboxes :
                \E a \in DOMAIN mailboxes[c].packets : mailboxes[c].packets[a] = m
Copied(m) == \E k \in Conns : pc[k] = "flush" /\ \E a \in DOMAIN pkts[k] : pkts[k][a] = m

\* A client that is served stays registered, so that nothing is queued for it.
Registered ==
    \A k \in Conns : pc[k] \in {"deliver", "flush", "loop", "send"} => clients[owner[k]] = k

\* What the relay has seen of a recipient's packets.
Numbered(m) == m[1] \in Clients /\ m[2] \in 1 .. submitted[m[1]]

OutOnce ==
    /\ \A j, k \in Conns : \A a \in DOMAIN written[j], b \in DOMAIN written[k] :
            written[j][a] = written[k][b] => j = k /\ a = b
    /\ \A k \in Conns : \A a \in DOMAIN written[k] : Numbered(written[k][a])

\* Mail was not written, unless a flush is at it.
MailOnce ==
    \A c \in DOMAIN mailboxes :
        LET s == mailboxes[c].packets
        IN  /\ Distinct(s)
            /\ \A a \in DOMAIN s : Numbered(s[a])
            /\ (\A k \in Conns : owner[k] = c => pc[k] # "flush")
                    => \A a \in DOMAIN s : ~Out(s[a])

\* A flush works on a copy of the mailbox as it still is, if it has not expired, and has
\* not written what it has not counted.
CopyOnce ==
    \A k \in Conns : pc[k] = "flush" =>
        /\ Distinct(pkts[k])
        /\ \A a \in DOMAIN pkts[k] : Numbered(pkts[k][a])
        /\ owner[k] \in DOMAIN mailboxes => mailboxes[owner[k]].packets = pkts[k]
        /\ \A a \in DOMAIN pkts[k] : a > sentCount[k] => ~Out(pkts[k][a])

\* A packet that is being routed is nowhere else.
HandOnce ==
    \A k \in Conns : pc[k] = "send" =>
        /\ Numbered(routing[k][1])
        /\ ~Out(routing[k][1]) /\ ~Queued(routing[k][1]) /\ ~Copied(routing[k][1])
        /\ \A j \in Conns : pc[j] = "send" /\ routing[j][1] = routing[k][1] => j = k

Once == Registered /\ OutOnce /\ MailOnce /\ CopyOnce /\ HandOnce

WInv == AInv /\ Unstarted /\ (AllUp /\ OneConnEach => Once)

LEMMA OneHandlerEach ==
    ASSUME Unstarted, OneConnEach
    PROVE  Sole
BY DEF Unstarted, OneConnEach, Sole

\* A connection that has ended, or that was used, stays so.
LEMMA UpBefore ==
    ASSUME WInv, [Next]_vars, AllUp', OneConnEach'
    PROVE  AllUp /\ OneConnEach
<1> USE DEF WInv, AInv
<1>1. ASSUME NEW k \in Conns, Accept(k), NEW j \in Conns
      PROVE  /\ conn'[j] \in {"unused", "up"} => conn[j] \in {"unused", "up"}
             /\ conn[j] # "unused" => conn'[j] # "unused"
  BY <1>1 DEF Accept, TypeOK, Unstarted
<1>2. ASSUME NEW k \in Conns, Hangup(k) \/ Refuse(k), NEW j \in Conns
      PROVE  /\ conn'[j] \in {"unused", "up"} => conn[j] \in {"unused", "up"}
             /\ conn[j] # "unused" => conn'[j] # "unused"
  BY <1>2 DEF Hangup, Refuse, Return, TypeOK
<1>3. ASSUME NEW k \in Conns, Vanish(k) \/ Break(k), NEW j \in Conns
      PROVE  /\ conn'[j] \in {"unused", "up"} => conn[j] \in {"unused", "up"}
             /\ conn[j] # "unused" => conn'[j] # "unused"
  BY <1>3 DEF Vanish, Break, TypeOK
<1>4. ASSUME NEW j \in Conns
      PROVE  /\ conn'[j] \in {"unused", "up"} => conn[j] \in {"unused", "up"}
             /\ conn[j] # "unused" => conn'[j] # "unused"
  BY <1>1, <1>2, <1>3
  DEF Next, Handler, Proceed, AuthenticateClient, Register, CopyMailbox, FlushOne, FlushFails,
      FlushDone, RouteLookup, Submit, RouteSend, RouteFails, GiveUp, EvictExpiredMailboxes, Tick,
      vars, handlerVars
<1>5. owner' = owner
  <2>1. ASSUME NEW k \in Conns, Handler(k) PROVE owner' = owner
    BY <2>1 DEF Handler, Proceed, AuthenticateClient, Register, Hangup, Refuse, Return, CopyMailbox,
       FlushOne, FlushFails, FlushDone, RouteSend, RouteFails, GiveUp
  <2> QED BY <2>1 DEF Next, Handler, Accept, RouteLookup, Submit, EvictExpiredMailboxes, Tick,
       Vanish, Break, vars, handlerVars
<1> QED BY <1>4, <1>5 DEF AllUp, OneConnEach

LEMMA NextUnstarted ==
    ASSUME WInv, [Next]_vars
    PROVE  Unstarted'
<1> USE DEF WInv, AInv
<1>1. ASSUME NEW k \in Conns, Accept(k) PROVE Unstarted'
  BY <1>1 DEF Accept, Goto, TypeOK, Unstarted
<1>2. ASSUME NEW k \in Conns, Hangup(k) \/ Refuse(k) PROVE Unstarted'
  BY <1>2 DEF Hangup, Refuse, Return, Goto, TypeOK, Unstarted
<1>3. ASSUME NEW k \in Conns, Vanish(k) \/ Break(k) PROVE Unstarted'
  BY <1>3 DEF Vanish, Break, TypeOK, Unstarted
<1>4. ASSUME NEW k \in Conns, Handler(k), ~(Hangup(k) \/ Refuse(k)) PROVE Unstarted'
  <2>1. conn' = conn /\ \A j \in Conns : (pc'[j] = "accept" <=> pc[j] = "accept")
    BY <1>4 DEF Handler, Proceed, AuthenticateClient, Register, CopyMailbox, FlushOne,
       FlushFails, FlushDone, RouteSend, RouteFails, GiveUp, Goto, TypeOK
  <2> QED BY <2>1 DEF Unstarted
<1>5. ASSUME NEW k \in Conns, NEW c \in Clients, RouteLookup(k, c) PROVE Unstarted'
  <2>1. conn' = conn /\ \A j \in Conns : (pc'[j] = "accept" <=> pc[j] = "accept")
    BY <1>5 DEF RouteLookup, Submit, Goto, TypeOK
  <2> QED BY <2>1 DEF Unstarted
<1>6. CASE UNCHANGED <<conn, pc>>
  BY <1>6 DEF Unstarted
<1> QED
  BY <1>1, <1>2, <1>3, <1>4, <1>5, <1>6
  DEF Next, Handler, EvictExpiredMailboxes, Tick, vars, handlerVars

\* A step that writes, copies and queues nothing.
LEMMA OnceFrame ==
    ASSUME Once, UNCHANGED <<written, submitted, owner, pkts, sentCount, routing>>,
           DOMAIN mailboxes' \subseteq DOMAIN mailboxes,
           \A c \in DOMAIN mailboxes' : mailboxes'[c] = mailboxes[c],
           \A j \in Conns : /\ pc'[j] = "flush" <=> pc[j] = "flush"
                            /\ pc'[j] = "send" => pc[j] = "send",
           Registered'
    PROVE  Once'
<1>1. \A x : /\ Out(x)' <=> Out(x)
             /\ Numbered(x)' <=> Numbered(x)
             /\ Queued(x)' => Queued(x)
             /\ Copied(x)' => Copied(x)
  BY DEF Out, Numbered, Queued, Copied
<1>2. OutOnce'
  BY <1>1 DEF Once, OutOnce
<1>3. MailOnce'
  BY <1>1 DEF Once, MailOnce, Distinct
<1>4. CopyOnce'
  BY <1>1 DEF Once, CopyOnce, Distinct
<1>5. HandOnce'
  BY <1>1 DEF Once, HandOnce
<1> QED BY <1>2, <1>3, <1>4, <1>5 DEF Once

LEMMA RegisteredKept ==
    ASSUME Registered, UNCHANGED <<clients, owner>>,
           \A j \in Conns : pc'[j] \in {"deliver", "flush", "loop", "send"}
                                => pc[j] \in {"deliver", "flush", "loop", "send"}
    PROVE  Registered'
BY DEF Registered

\* A packet that is written for the first time.
LEMMA OutAppends ==
    ASSUME AInv, OutOnce, NEW k \in Conns, NEW m \in To(owner[k]), ~Out(m), Numbered(m),
           written' = [written EXCEPT ![k] = Append(@, m)], submitted' = submitted
    PROVE  /\ OutOnce'
           /\ \A x : Out(x)' <=> (Out(x) \/ x = m)
<1>1. written \in [Conns -> Seq(Packets)] /\ written[k] \in Seq(To(owner[k]))
  BY DEF AInv, TypeOK, Addressed
<1> DEFINE s == written[k]
           n == Len(written[k])
           t == Append(s, m)
<1>2. /\ n \in Nat /\ DOMAIN s = 1 .. n /\ DOMAIN t = 1 .. n + 1
      /\ t[n + 1] = m /\ \A i \in 1 .. n : t[i] = s[i]
  BY <1>1
<1>3. written'[k] = t /\ \A j \in Conns : j # k => written'[j] = written[j]
  BY <1>1
<1> HIDE DEF s, n, t
<1>4. /\ DOMAIN written[k] = 1 .. n /\ DOMAIN written'[k] = 1 .. n + 1
      /\ written'[k][n + 1] = m /\ \A i \in 1 .. n : written'[k][i] = written[k][i]
  BY <1>2, <1>3 DEF s
<1>5. ASSUME NEW j \in Conns, NEW a \in DOMAIN written'[j]
      PROVE  \/ a \in DOMAIN written[j] /\ written'[j][a] = written[j][a]
             \/ j = k /\ a = n + 1 /\ written'[j][a] = m
  BY <1>2, <1>3, <1>4
<1>6. ASSUME NEW j \in Conns, NEW a \in DOMAIN written[j]
      PROVE  a \in DOMAIN written'[j] /\ written'[j][a] = written[j][a] /\ written[j][a] # m
  BY <1>2, <1>3, <1>4 DEF Out
<1>7. \A x : Out(x)' <=> (Out(x) \/ x = m)
  <2>1. ASSUME NEW x, Out(x)' PROVE Out(x) \/ x = m
    BY <1>5, <2>1 DEF Out
  <2>2. ASSUME NEW x, Out(x) PROVE Out(x)'
    BY <1>6, <2>2 DEF Out
  <2>3. n + 1 \in DOMAIN written'[k] /\ written'[k][n + 1] = m
    BY <1>2, <1>4
  <2>4. Out(m)'
    BY <2>3 DEF Out
  <2> QED BY <2>1, <2>2, <2>4
<1>8. ASSUME NEW i \in Conns, NEW j \in Conns, NEW a \in DOMAIN written'[i],
             NEW b \in DOMAIN written'[j], written'[i][a] = written'[j][b]
      PROVE  i = j /\ a = b
  BY <1>5, <1>6, <1>8 DEF OutOnce
<1>9. ASSUME NEW j \in Conns, NEW a \in DOMAIN written'[j] PROVE Numbered(written'[j][a])
  BY <1>5, <1>9 DEF OutOnce
<1> QED BY <1>7, <1>8, <1>9 DEF OutOnce, Numbered

\* AuthenticateClient: nobody else is served for this client.
LEMMA AuthOnce ==
    ASSUME WInv, Sole, AllUp, OneConnEach, NEW k \in Conns, AuthenticateClient(k)
    PROVE  Once'
<1> USE DEF WInv, AInv
<1>1. /\ UNCHANGED <<written, submitted, owner, pkts, sentCount, routing, mailboxes>>
      /\ pc[k] = "auth" /\ clients' = [clients EXCEPT ![owner[k]] = k]
      /\ pc' = [pc EXCEPT ![k] = "deliver"]
  BY DEF AuthenticateClient, Register, Goto, histVars
<1>2. pc'[k] = "deliver" /\ \A j \in Conns : j # k => pc'[j] = pc[j]
  BY <1>1 DEF TypeOK
<1>3. ASSUME NEW j \in Conns, pc'[j] \in {"deliver", "flush", "loop", "send"}
      PROVE  clients'[owner[j]] = j
  <2>1. CASE j = k
    BY <1>1, <2>1 DEF TypeOK
  <2>2. CASE j # k
    <3>1. pc[j] \in {"deliver", "flush", "loop", "send"}
      BY <1>2, <1>3, <2>2
    <3>2. clients[owner[j]] = j
      BY <3>1 DEF Once, Registered
    <3>3. owner[j] # owner[k]
      BY <1>1, <2>2, <3>1 DEF Sole
    <3> QED BY <1>1, <3>2, <3>3 DEF TypeOK
  <2> QED BY <2>1, <2>2
<1>4. Registered'
  BY <1>1, <1>3 DEF Registered
<1>5. Once
  OBVIOUS
<1> QED BY <1>1, <1>2, <1>4, <1>5, OnceFrame

\* DeliverMailbox, first critical section.
LEMMA CopyMailboxOnce ==
    ASSUME WInv, Sole, AllUp, OneConnEach, NEW k \in Conns, CopyMailbox(k)
    PROVE  Once'
<1> USE DEF WInv, AInv
<1> DEFINE c == owner[k]
           s == mailboxes[c].packets
<1>1. /\ UNCHANGED <<written, submitted, owner, routing, mailboxes, clients>>
      /\ pc[k] = "deliver" /\ Once
  BY DEF CopyMailbox, serverVars, histVars
<1>2. CASE ~(c \in DOMAIN mailboxes /\ s # <<>>)
  <2>1. UNCHANGED <<pkts, sentCount>> /\ pc' = [pc EXCEPT ![k] = "loop"]
    BY <1>2 DEF CopyMailbox, Goto
  <2>2. pc'[k] = "loop" /\ \A j \in Conns : j # k => pc'[j] = pc[j]
    BY <2>1 DEF TypeOK
  <2>3. Registered'
    BY <1>1, <2>2, RegisteredKept DEF Once
  <2> QED BY <1>1, <2>1, <2>2, <2>3, OnceFrame
<1>3. CASE c \in DOMAIN mailboxes /\ s # <<>>
  <2>1. /\ pkts' = [pkts EXCEPT ![k] = s] /\ sentCount' = [sentCount EXCEPT ![k] = 0]
        /\ pc' = [pc EXCEPT ![k] = "flush"]
    BY <1>3 DEF CopyMailbox, Goto
  <2>2. /\ pkts'[k] = s /\ pc'[k] = "flush"
        /\ \A j \in Conns : j # k => /\ pkts'[j] = pkts[j] /\ pc'[j] = pc[j]
                                     /\ sentCount'[j] = sentCount[j]
    BY <2>1 DEF TypeOK
  <2>3. Registered'
    BY <1>1, <2>2, RegisteredKept DEF Once
  <2>4. \A j \in Conns : owner[j] = c => pc[j] # "flush"
    BY <1>1 DEF Sole
  <2>5. /\ Distinct(s) /\ \A a \in DOMAIN s : Numbered(s[a])
        /\ \A a \in DOMAIN s : ~Out(s[a])
    BY <1>1, <1>3, <2>4 DEF Once, MailOnce
  <2> HIDE DEF s
  <2>6. \A x : /\ Out(x)' <=> Out(x)
               /\ Numbered(x)' <=> Numbered(x)
               /\ Queued(x)' <=> Queued(x)
    BY <1>1 DEF Out, Numbered, Queued
  <2>7. \A x : Copied(x)' => Copied(x) \/ Queued(x)
    <3> SUFFICES ASSUME NEW x, Copied(x)', ~Copied(x) PROVE Queued(x)
      OBVIOUS
    <3>1. PICK j \in Conns : pc'[j] = "flush" /\ \E a \in DOMAIN pkts'[j] : pkts'[j][a] = x
      BY DEF Copied
    <3>2. j = k
      BY <2>2, <3>1 DEF Copied
    <3> QED BY <1>3, <2>2, <3>1, <3>2 DEF Queued, s
  <2>8. OutOnce'
    BY <1>1, <2>6 DEF Once, OutOnce
  <2>9. MailOnce'
    <3>1. ASSUME NEW d \in DOMAIN mailboxes, \A j \in Conns : owner[j] = d => pc'[j] # "flush"
          PROVE  \A j \in Conns : owner[j] = d => pc[j] # "flush"
      BY <1>1, <2>2, <3>1
    <3> QED BY <1>1, <2>6, <3>1 DEF Once, MailOnce, Distinct
  <2>10. CopyOnce'
    <3>1. ASSUME NEW j \in Conns, pc'[j] = "flush"
          PROVE  /\ Distinct(pkts'[j])
                 /\ \A a \in DOMAIN pkts'[j] : Numbered(pkts'[j][a])
                 /\ owner[j] \in DOMAIN mailboxes => mailboxes[owner[j]].packets = pkts'[j]
                 /\ \A a \in DOMAIN pkts'[j] : a > sentCount'[j] => ~Out(pkts'[j][a])
      <4>1. CASE j = k
        BY <2>2, <2>5, <4>1 DEF s
      <4>2. CASE j # k
        BY <1>1, <2>2, <3>1, <4>2 DEF Once, CopyOnce
      <4> QED BY <4>1, <4>2
    <3> QED BY <1>1, <2>6, <3>1 DEF CopyOnce, Distinct
  <2>11. HandOnce'
    <3>1. \A j \in Conns : pc'[j] = "send" => pc[j] = "send"
      BY <2>2
    <3> QED BY <1>1, <2>6, <2>7, <3>1 DEF Once, HandOnce
  <2> QED BY <2>3, <2>8, <2>9, <2>10, <2>11 DEF Once
<1> QED BY <1>2, <1>3

\* A packet for one client is none for another.
LEMMA MailElsewhere ==
    ASSUME AInv, NEW c \in DOMAIN mailboxes, NEW d, c # d, NEW m \in To(d)
    PROVE  \A a \in DOMAIN mailboxes[c].packets : mailboxes[c].packets[a] # m
<1>1. mailboxes[c].packets \in Seq(To(c))
  BY DEF AInv, Addressed
<1>2. \A a \in DOMAIN mailboxes[c].packets : mailboxes[c].packets[a] \in To(c)
  BY <1>1, ElementOfSeq, LenProperties
<1> QED BY <1>2 DEF To

LEMMA CopyElsewhere ==
    ASSUME AInv, NEW k \in Conns, NEW d, owner[k] # d, NEW m \in To(d)
    PROVE  \A a \in DOMAIN pkts[k] : pkts[k][a] # m
<1>1. pkts[k] \in Seq(To(owner[k]))
  BY DEF AInv, Addressed
<1>2. \A a \in DOMAIN pkts[k] : pkts[k][a] \in To(owner[k])
  BY <1>1, ElementOfSeq, LenProperties
<1> QED BY <1>2 DEF To

\* One round of DeliverMailbox.
LEMMA FlushOneOnce ==
    ASSUME WInv, Sole, AllUp, OneConnEach, NEW k \in Conns, FlushOne(k)
    PROVE  Once'
<1> USE DEF WInv, AInv
<1> DEFINE c == owner[k]
           n == sentCount[k] + 1
           m == pkts[k][n]
<1>1. /\ UNCHANGED <<submitted, owner, routing, mailboxes, clients, pc, pkts>>
      /\ pc[k] = "flush" /\ Once /\ sentCount' = [sentCount EXCEPT ![k] = n]
      /\ sentCount[k] < Len(pkts[k])
  BY DEF FlushOne, serverVars
<1>2. written' = [written EXCEPT ![k] = Append(@, m)]
  BY DEF FlushOne, Write, AllUp
<1>3. /\ n \in Nat /\ n \in DOMAIN pkts[k] /\ n > sentCount[k] /\ m \in To(c)
  <2>1. pkts[k] \in Seq(To(c)) /\ sentCount[k] \in Nat /\ Len(pkts[k]) \in Nat
    BY LenProperties DEF Addressed, TypeOK
  <2> QED BY <1>1, <2>1, ElementOfSeq, LenProperties
<1>4. /\ Distinct(pkts[k]) /\ Numbered(m) /\ ~Out(m)
      /\ c \in DOMAIN mailboxes => mailboxes[c].packets = pkts[k]
      /\ \A a \in DOMAIN pkts[k] : a > sentCount[k] => ~Out(pkts[k][a])
  BY <1>1, <1>3 DEF Once, CopyOnce
<1>5. OutOnce' /\ \A x : Out(x)' <=> (Out(x) \/ x = m)
  <2>1. OutOnce /\ AInv
    BY <1>1 DEF Once
  <2> HIDE DEF m
  <2> QED BY <1>1, <1>2, <1>3, <1>4, <2>1, OutAppends
<1>6. \A x : /\ Numbered(x)' <=> Numbered(x)
             /\ Queued(x)' <=> Queued(x)
             /\ Copied(x)' <=> Copied(x)
  BY <1>1 DEF Numbered, Queued, Copied
<1>7. sentCount'[k] = n /\ \A j \in Conns : j # k => sentCount'[j] = sentCount[j]
  BY <1>1 DEF TypeOK
<1>8. MailOnce'
  <2>1. ASSUME NEW d \in DOMAIN mailboxes, \A j \in Conns : owner[j] = d => pc[j] # "flush",
               NEW a \in DOMAIN mailboxes[d].packets
        PROVE  mailboxes[d].packets[a] # m
    <3>1. d # c
      BY <1>1, <2>1
    <3> HIDE DEF m
    <3> QED BY <1>3, <3>1, MailElsewhere
  <2> HIDE DEF m
  <2> QED BY <1>1, <1>5, <1>6, <2>1 DEF Once, MailOnce, Distinct
<1>9. CopyOnce'
  <2>1. ASSUME NEW j \in Conns, pc[j] = "flush", NEW a \in DOMAIN pkts[j], a > sentCount'[j]
        PROVE  ~Out(pkts[j][a]) /\ pkts[j][a] # m
    <3>1. CASE j = k
      <4>1. DOMAIN pkts[k] = 1 .. Len(pkts[k]) /\ sentCount[k] \in Nat
        BY LenProperties DEF TypeOK
      <4>2. a > sentCount[k] /\ a # n
        BY <1>3, <1>7, <2>1, <3>1, <4>1
      <4> QED BY <1>3, <1>4, <2>1, <3>1, <4>2 DEF Distinct
    <3>2. CASE j # k
      <4>1. owner[j] # c
        BY <1>1, <2>1, <3>2 DEF Sole
      <4>2. pkts[j][a] # m
        <5> HIDE DEF m
        <5> QED BY <1>3, <2>1, <4>1, CopyElsewhere
      <4> QED BY <1>1, <1>7, <2>1, <3>2, <4>2 DEF Once, CopyOnce
    <3> QED BY <3>1, <3>2
  <2> HIDE DEF m
  <2> QED BY <1>1, <1>5, <1>6, <2>1 DEF Once, CopyOnce, Distinct
<1>10. HandOnce'
  <2>1. Copied(m)
    BY <1>1, <1>3 DEF Copied
  <2> HIDE DEF m
  <2> QED BY <1>1, <1>5, <1>6, <2>1 DEF Once, HandOnce
<1>11. Registered'
  BY <1>1, RegisteredKept DEF Once
<1> QED BY <1>5, <1>8, <1>9, <1>10, <1>11 DEF Once

\* DeliverMailbox returns.
LEMMA FlushDoneOnce ==
    ASSUME WInv, Sole, AllUp, OneConnEach, NEW k \in Conns, FlushDone(k)
    PROVE  Once'
<1> USE DEF WInv, AInv
<1> DEFINE c == owner[k]
<1>1. /\ UNCHANGED <<written, submitted, owner, routing, clients>>
      /\ pc[k] = "flush" /\ Once /\ pc' = [pc EXCEPT ![k] = "loop"]
      /\ pkts' = [pkts EXCEPT ![k] = <<>>] /\ sentCount' = [sentCount EXCEPT ![k] = 0]
      /\ mailboxes' = Without(mailboxes, c)
  BY DEF FlushDone, Goto
<1>2. /\ DOMAIN mailboxes' = DOMAIN mailboxes \ {c}
      /\ \A d \in DOMAIN mailboxes' : mailboxes'[d] = mailboxes[d]
  BY <1>1 DEF Without
<1>3. /\ pc'[k] = "loop"
      /\ \A j \in Conns : j # k => /\ pc'[j] = pc[j] /\ pkts'[j] = pkts[j]
                                   /\ sentCount'[j] = sentCount[j]
  BY <1>1 DEF TypeOK
<1>4. \A x : /\ Out(x)' <=> Out(x)
             /\ Numbered(x)' <=> Numbered(x)
             /\ Queued(x)' => Queued(x)
             /\ Copied(x)' => Copied(x)
  BY <1>1, <1>2, <1>3 DEF Out, Numbered, Queued, Copied
<1>5. OutOnce'
  BY <1>1, <1>4 DEF Once, OutOnce
<1>6. MailOnce'
  <2>1. ASSUME NEW d \in DOMAIN mailboxes', \A j \in Conns : owner[j] = d => pc'[j] # "flush"
        PROVE  \A j \in Conns : owner[j] = d => pc[j] # "flush"
    BY <1>2, <1>3, <2>1
  <2> QED BY <1>1, <1>2, <1>4, <2>1 DEF Once, MailOnce, Distinct
<1>7. CopyOnce'
  <2>1. \A j \in Conns : pc'[j] = "flush" => j # k /\ pc[j] = "flush"
    BY <1>3
  <2> QED BY <1>1, <1>2, <1>3, <1>4, <2>1 DEF Once, CopyOnce, Distinct
<1>8. HandOnce'
  <2>1. \A j \in Conns : pc'[j] = "send" => pc[j] = "send"
    BY <1>3
  <2> QED BY <1>1, <1>4, <2>1 DEF Once, HandOnce
<1>9. Registered'
  BY <1>1, <1>3, RegisteredKept DEF Once
<1> QED BY <1>5, <1>6, <1>7, <1>8, <1>9 DEF Once

\* RoutePacket, the direct send.
LEMMA RouteSendOnce ==
    ASSUME WInv, Sole, AllUp, OneConnEach, NEW k \in Conns, RouteSend(k)
    PROVE  Once'
<1> USE DEF WInv, AInv
<1> DEFINE m == routing[k][1]
           l == routing[k][2]
<1>1. /\ UNCHANGED <<submitted, owner, mailboxes, clients, pkts, sentCount>>
      /\ pc[k] = "send" /\ Once /\ pc' = [pc EXCEPT ![k] = "loop"]
      /\ routing' = [routing EXCEPT ![k] = Idle]
  BY DEF RouteSend, Goto, serverVars
<1>2. l \in Conns /\ m \in To(owner[l])
  <2>1. routing[k] \in Packets \X Conns /\ owner[l] = m[1]
    BY <1>1 DEF TypeOK, Addressed
  <2> QED BY <2>1 DEF Packets, To
<1>3. written' = [written EXCEPT ![l] = Append(@, m)]
  BY <1>2 DEF RouteSend, Write, AllUp
<1>4. /\ Numbered(m) /\ ~Out(m) /\ ~Queued(m) /\ ~Copied(m)
      /\ \A j \in Conns : pc[j] = "send" /\ routing[j][1] = m => j = k
  BY <1>1 DEF Once, HandOnce
<1> HIDE DEF m, l
<1>5. OutOnce' /\ \A x : Out(x)' <=> (Out(x) \/ x = m)
  <2>1. OutOnce /\ AInv
    BY <1>1 DEF Once
  <2> QED BY <1>1, <1>2, <1>3, <1>4, <2>1, OutAppends
<1>6. pc'[k] = "loop" /\ \A j \in Conns : j # k => pc'[j] = pc[j] /\ routing'[j] = routing[j]
  BY <1>1 DEF TypeOK
<1>7. \A x : /\ Numbered(x)' <=> Numbered(x)
             /\ Queued(x)' <=> Queued(x)
             /\ Copied(x)' <=> Copied(x)
  BY <1>1, <1>6 DEF Numbered, Queued, Copied
<1>8. \A j \in Conns : pc'[j] = "flush" <=> pc[j] = "flush"
  BY <1>1, <1>6
<1>9. MailOnce'
  <2>1. \A d \in DOMAIN mailboxes : \A a \in DOMAIN mailboxes[d].packets :
            mailboxes[d].packets[a] # m
    BY <1>4 DEF Queued
  <2> QED BY <1>1, <1>5, <1>7, <1>8, <2>1 DEF Once, MailOnce, Distinct
<1>10. CopyOnce'
  <2>1. \A j \in Conns : pc[j] = "flush" => \A a \in DOMAIN pkts[j] : pkts[j][a] # m
    BY <1>4 DEF Copied
  <2> QED BY <1>1, <1>5, <1>7, <1>8, <2>1 DEF Once, CopyOnce, Distinct
<1>11. HandOnce'
  <2>1. \A j \in Conns : pc'[j] = "send" => /\ j # k /\ pc[j] = "send"
                                            /\ routing'[j] = routing[j] /\ routing[j][1] # m
    BY <1>4, <1>6
  <2> QED BY <1>1, <1>5, <1>7, <2>1 DEF Once, HandOnce
<1>12. Registered'
  BY <1>1, <1>6, RegisteredKept DEF Once
<1> QED BY <1>5, <1>9, <1>10, <1>11, <1>12 DEF Once

\* RoutePacket, first critical section: a new packet, queued only for a client that is not
\* served.
LEMMA LookupOnce ==
    ASSUME WInv, Sole, AllUp, OneConnEach, NEW k \in Conns, NEW c \in Clients, RouteLookup(k, c)
    PROVE  Once'
<1> USE DEF WInv, AInv
<1>1. PICK m : m = <<c, submitted[c] + 1>>
  OBVIOUS
<1>2. /\ UNCHANGED <<written, owner, clients, pkts, sentCount>>
      /\ pc[k] = "loop" /\ Once /\ submitted' = [submitted EXCEPT ![c] = @ + 1]
      /\ submitted[c] < MaxPackets
  BY DEF RouteLookup, Submit
<1>3. submitted[c] \in Nat /\ submitted'[c] = submitted[c] + 1
      /\ \A d \in Clients : d # c => submitted'[d] = submitted[d]
  BY <1>2, RelayAssumption DEF TypeOK
<1>4. /\ ~Numbered(m) /\ Numbered(m)'
      /\ \A x : Numbered(x) => Numbered(x)'
  <2>1. ~Numbered(m)
    BY <1>1, <1>3 DEF Numbered
  <2>2. Numbered(m)'
    BY <1>1, <1>3 DEF Numbered
  <2>3. ASSUME NEW x, Numbered(x) PROVE Numbered(x)'
    <3>1. PICK d \in Clients : d = x[1] /\ x[2] \in 1 .. submitted[d]
      BY <2>3 DEF Numbered
    <3>2. submitted[d] \in Nat /\ submitted'[d] \in Nat /\ submitted[d] <= submitted'[d]
      <4>1. submitted[d] \in Nat
        BY RelayAssumption DEF TypeOK
      <4>2. d = c \/ submitted'[d] = submitted[d]
        BY <1>3
      <4> QED BY <1>3, <4>1, <4>2
    <3>3. x[2] \in 1 .. submitted'[d]
      BY <3>1, <3>2
    <3> QED BY <3>1, <3>3 DEF Numbered
  <2> QED BY <2>1, <2>2, <2>3
<1>5. m \in To(c) /\ m[1] = c
  BY <1>1, <1>2, <1>3, RelayAssumption DEF To
<1>6. \/ /\ clients[c] = NoConn /\ Enqueue(c, m) /\ UNCHANGED <<pc, routing>>
      \/ /\ clients[c] # NoConn /\ mailboxes' = mailboxes
         /\ routing' = [routing EXCEPT ![k] = <<m, clients[c]>>]
         /\ pc' = [pc EXCEPT ![k] = "send"]
  BY <1>1 DEF RouteLookup, Submit, Goto
<1>7. \A x : Out(x)' <=> Out(x)
  BY <1>2 DEF Out
<1>8. ~Out(m) /\ ~Queued(m) /\ ~Copied(m)
      /\ \A j \in Conns : pc[j] = "send" => routing[j][1] # m
  <2>1. ~Out(m)
    BY <1>2, <1>4 DEF Once, OutOnce, Out
  <2>2. ~Queued(m)
    BY <1>2, <1>4 DEF Once, MailOnce, Queued
  <2>3. ~Copied(m)
    BY <1>2, <1>4 DEF Once, CopyOnce, Copied
  <2>4. \A j \in Conns : pc[j] = "send" => routing[j][1] # m
    BY <1>2, <1>4 DEF Once, HandOnce
  <2> QED BY <2>1, <2>2, <2>3, <2>4
<1>9. OutOnce'
  <2>1. \A j \in Conns : \A a \in DOMAIN written[j] : Numbered(written[j][a])
    BY <1>2 DEF Once, OutOnce
  <2>2. \A j \in Conns : \A a \in DOMAIN written[j] : Numbered(written[j][a])'
    BY <1>2, <1>4, <2>1
  <2> QED BY <1>2, <2>2 DEF Once, OutOnce
<1>10. CASE clients[c] = NoConn /\ Enqueue(c, m) /\ UNCHANGED <<pc, routing>>
  <2> DEFINE old == IF c \in DOMAIN mailboxes THEN mailboxes[c].packets ELSE <<>>
  <2>1. /\ DOMAIN mailboxes' = DOMAIN mailboxes \cup {c}
        /\ mailboxes'[c].packets = Append(old, m)
        /\ \A d \in DOMAIN mailboxes : d # c => mailboxes'[d] = mailboxes[d]
    <3>1. CASE c \in DOMAIN mailboxes
      <4>1. mailboxes' = [mailboxes EXCEPT ![c].packets = Append(@, m)]
        BY <1>10, <3>1 DEF Enqueue, Queue
      <4>2. mailboxes'[c].packets = Append(mailboxes[c].packets, m)
        BY <3>1, <4>1 DEF TypeOK
      <4> QED BY <3>1, <4>1, <4>2
    <3>2. CASE c \notin DOMAIN mailboxes
      <4>1. mailboxes' = With(mailboxes, c, [packets |-> <<m>>, createdAt |-> now])
        BY <1>10, <3>2 DEF Enqueue, Queue
      <4>2. Append(<<>>, m) = <<m>>
        OBVIOUS
      <4> QED BY <3>2, <4>1, <4>2 DEF With
    <3> QED BY <3>1, <3>2
  <2>2. /\ old \in Seq(To(c)) /\ Distinct(old)
        /\ \A a \in DOMAIN old : Numbered(old[a]) /\ old[a] # m
        /\ (\A j \in Conns : owner[j] = c => pc[j] # "flush")
               => \A a \in DOMAIN old : ~Out(old[a])
    <3>1. CASE c \in DOMAIN mailboxes
      BY <1>2, <1>8, <3>1 DEF Once, MailOnce, Queued, Addressed
    <3>2. CASE c \notin DOMAIN mailboxes
      BY <3>2 DEF Distinct
    <3> QED BY <3>1, <3>2
  <2> HIDE DEF old
  <2>3. PICK new : new = Append(old, m)
    OBVIOUS
  <2> DEFINE n == Len(old)
  <2>4. /\ n \in Nat /\ DOMAIN old = 1 .. n /\ DOMAIN new = 1 .. n + 1
        /\ new[n + 1] = m /\ \A i \in 1 .. n : new[i] = old[i]
    BY <2>2, <2>3
  <2> HIDE DEF n
  <2>5. \A a \in DOMAIN new : \/ a \in DOMAIN old /\ new[a] = old[a]
                              \/ a = n + 1 /\ new[a] = m
    BY <2>4
  <2>6. Distinct(new)
    BY <2>2, <2>5 DEF Distinct
  <2>7. mailboxes'[c].packets = new
    BY <2>1, <2>3
  <2>8. \A j \in Conns : owner[j] = c => pc[j] # "flush"
    <3>1. \A j \in Conns : pc[j] = "flush" => clients[owner[j]] = j
      BY <1>2 DEF Once, Registered
    <3> QED BY <1>10, <3>1, RelayAssumption
  <2>9. \A a \in DOMAIN new : Numbered(new[a])' /\ ~Out(new[a])
    <3> SUFFICES ASSUME NEW a \in DOMAIN new PROVE Numbered(new[a])' /\ ~Out(new[a])
      OBVIOUS
    <3>1. CASE a \in DOMAIN old /\ new[a] = old[a]
      <4>1. PICK x : x = old[a]
        OBVIOUS
      <4>2. Numbered(x) /\ ~Out(x)
        BY <2>2, <2>8, <3>1, <4>1
      <4> QED BY <1>4, <3>1, <4>1, <4>2
    <3>2. CASE new[a] = m
      BY <1>4, <1>8, <3>2
    <3> QED BY <2>5, <3>1, <3>2
  <2>10. MailOnce'
    <3>1. ASSUME NEW d \in DOMAIN mailboxes'
          PROVE  /\ Distinct(mailboxes'[d].packets)
                 /\ \A a \in DOMAIN mailboxes'[d].packets : Numbered(mailboxes[d].packets[a])'
                 /\ (\A j \in Conns : owner[j] = d => pc[j] # "flush")
                      => \A a \in DOMAIN mailboxes'[d].packets : ~Out(mailboxes'[d].packets[a])
      <4>1. CASE d = c
        <5>1. ASSUME NEW a \in DOMAIN new PROVE Numbered(mailboxes[d].packets[a])'
          <6>1. PICK x : x = new[a]
            OBVIOUS
          <6>2. Numbered(x)' /\ mailboxes'[d].packets[a] = x
            BY <2>7, <2>9, <4>1, <5>1, <6>1
          <6> QED BY <6>2 DEF Numbered
        <5> QED BY <2>6, <2>7, <2>8, <2>9, <4>1, <5>1
      <4>2. CASE d # c
        <5>1. d \in DOMAIN mailboxes /\ mailboxes'[d] = mailboxes[d]
          BY <2>1, <4>2
        <5>2. \A a \in DOMAIN mailboxes[d].packets : Numbered(mailboxes[d].packets[a])
          BY <1>2, <5>1 DEF Once, MailOnce
        <5>3. ASSUME NEW a \in DOMAIN mailboxes'[d].packets
              PROVE  Numbered(mailboxes[d].packets[a])'
          <6>1. PICK x : x = mailboxes[d].packets[a]
            OBVIOUS
          <6>2. Numbered(x)'
            BY <1>4, <5>1, <5>2, <6>1
          <6> QED BY <5>1, <6>1, <6>2 DEF Numbered
        <5> QED BY <1>2, <5>1, <5>3 DEF Once, MailOnce
      <4> QED BY <4>1, <4>2
    <3> QED BY <1>2, <1>7, <1>10, <3>1 DEF MailOnce, Distinct, Out
  <2>11. CopyOnce'
    <3>1. ASSUME NEW j \in Conns, pc[j] = "flush"
          PROVE  /\ Distinct(pkts[j])
                 /\ \A a \in DOMAIN pkts[j] : Numbered(pkts[j][a])
                 /\ owner[j] \in DOMAIN mailboxes' => mailboxes'[owner[j]].packets = pkts[j]
                 /\ \A a \in DOMAIN pkts[j] : a > sentCount[j] => ~Out(pkts[j][a])
      <4>1. owner[j] # c
        BY <2>8, <3>1
      <4> QED BY <1>2, <2>1, <3>1, <4>1 DEF Once, CopyOnce
    <3> QED BY <1>2, <1>4, <1>7, <1>10, <3>1 DEF CopyOnce, Distinct
  <2>12. HandOnce'
    <3>1. \A x : Copied(x)' <=> Copied(x)
      BY <1>2, <1>10 DEF Copied
    <3>2. ASSUME NEW x, Queued(x)', x # m PROVE Queued(x)
      <4>1. PICK d \in DOMAIN mailboxes' :
              \E a \in DOMAIN mailboxes'[d].packets : mailboxes'[d].packets[a] = x
        BY <3>2 DEF Queued
      <4>2. CASE d = c
        <5>1. PICK a \in DOMAIN old : old[a] = x
          BY <2>5, <2>7, <3>2, <4>1, <4>2
        <5> QED BY <5>1 DEF Queued, old
      <4>3. CASE d # c
        BY <2>1, <4>1, <4>3 DEF Queued
      <4> QED BY <4>2, <4>3
    <3> QED BY <1>2, <1>4, <1>7, <1>8, <1>10, <3>1, <3>2 DEF Once, HandOnce
  <2>13. Registered'
    BY <1>2, <1>10, RegisteredKept DEF Once
  <2> QED BY <1>9, <2>10, <2>11, <2>12, <2>13 DEF Once
<1>11. CASE /\ clients[c] # NoConn /\ mailboxes' = mailboxes
            /\ routing' = [routing EXCEPT ![k] = <<m, clients[c]>>]
            /\ pc' = [pc EXCEPT ![k] = "send"]
  <2>1. /\ pc'[k] = "send" /\ routing'[k] = <<m, clients[c]>>
        /\ \A j \in Conns : j # k => pc'[j] = pc[j] /\ routing'[j] = routing[j]
    BY <1>11 DEF TypeOK
  <2>2. routing'[k][1] = m
    BY <2>1
  <2>3. \A x : (Queued(x)' <=> Queued(x)) /\ (Copied(x)' <=> Copied(x))
    BY <1>2, <1>11, <2>1 DEF Queued, Copied
  <2>4. \A j \in Conns : pc'[j] = "flush" <=> pc[j] = "flush"
    BY <1>2, <2>1
  <2>5. MailOnce'
    BY <1>2, <1>4, <1>7, <1>11, <2>4 DEF Once, MailOnce, Distinct
  <2>6. CopyOnce'
    BY <1>2, <1>4, <1>7, <1>11, <2>4 DEF Once, CopyOnce, Distinct
  <2>7. HandOnce'
    <3>1. ASSUME NEW j \in Conns, pc'[j] = "send"
          PROVE  \/ j = k /\ routing'[j][1] = m
                 \/ /\ j # k /\ pc[j] = "send" /\ routing'[j] = routing[j]
                    /\ routing[j][1] # m
      BY <1>8, <2>1, <2>2, <3>1
    <3> QED BY <1>2, <1>4, <1>7, <1>8, <2>3, <3>1 DEF Once, HandOnce
  <2>8. Registered'
    BY <1>2, <2>1, RegisteredKept DEF Once
  <2> QED BY <1>9, <2>5, <2>6, <2>7, <2>8 DEF Once
<1> QED BY <1>6, <1>10, <1>11

\* Every step keeps packets apart, as long as nobody vanishes.
LEMMA NextOnce ==
    ASSUME WInv, [Next]_vars, AllUp', OneConnEach'
    PROVE  Once'
<1>1. AllUp /\ OneConnEach /\ Once /\ Sole
  BY UpBefore, OneHandlerEach DEF WInv
<1>2. ASSUME NEW k \in Conns, Accept(k) PROVE Once'
  <2>1. /\ UNCHANGED <<written, submitted, owner, pkts, sentCount, routing, mailboxes, clients>>
        /\ pc[k] = "accept" /\ pc' = [pc EXCEPT ![k] = "auth"]
    BY <1>2 DEF Accept, Goto, serverVars, histVars
  <2>2. pc'[k] = "auth" /\ \A j \in Conns : j # k => pc'[j] = pc[j]
    BY <2>1 DEF WInv, AInv, TypeOK
  <2>3. Registered'
    BY <1>1, <2>1, <2>2, RegisteredKept DEF Once
  <2> QED BY <1>1, <2>1, <2>2, <2>3, OnceFrame
<1>3. ASSUME NEW k \in Conns, Hangup(k) \/ Refuse(k) \/ FlushFails(k) \/ Vanish(k) \/ Break(k) PROVE FALSE
  <2>1. CASE Hangup(k) \/ Refuse(k)
    BY <2>1 DEF Hangup, Refuse, Return, AllUp, WInv, AInv, TypeOK
  <2>2. CASE FlushFails(k)
    BY <1>1, <2>2 DEF FlushFails, WriteFails, AllUp
  <2>3. CASE Vanish(k)
    BY <2>3 DEF Vanish, AllUp, WInv, AInv, TypeOK
  <2>4. CASE Break(k)
    BY <1>1, <2>4 DEF Break, AllUp
  <2> QED BY <1>3, <2>1, <2>2, <2>3, <2>4
<1>4. ASSUME NEW k \in Conns, RouteFails(k) PROVE FALSE
  <2>1. pc[k] = "send" /\ conn[routing[k][2]] \in {"broken", "closed"}
    BY <1>4 DEF RouteFails, GiveUp, WriteFails
  <2>2. routing[k][2] \in Conns
    BY <2>1 DEF WInv, AInv, TypeOK, Addressed
  <2> QED BY <1>1, <2>1, <2>2 DEF AllUp
<1>5. ASSUME EvictExpiredMailboxes PROVE Once'
  <2>1. /\ UNCHANGED <<written, submitted, owner, pkts, sentCount, routing, clients, pc>>
        /\ DOMAIN mailboxes' \subseteq DOMAIN mailboxes
        /\ \A c \in DOMAIN mailboxes' : mailboxes'[c] = mailboxes[c]
    BY <1>5 DEF EvictExpiredMailboxes, handlerVars
  <2>2. Registered'
    BY <1>1, <2>1, RegisteredKept DEF Once
  <2> QED BY <1>1, <2>1, <2>2, OnceFrame
<1>6. ASSUME Tick \/ UNCHANGED vars PROVE Once'
  <2>1. UNCHANGED <<written, submitted, owner, pkts, sentCount, routing, clients, pc, mailboxes>>
    BY <1>6 DEF Tick, vars, serverVars, handlerVars, histVars
  <2>2. Registered'
    BY <1>1, <2>1, RegisteredKept DEF Once
  <2> QED BY <1>1, <2>1, <2>2, OnceFrame
<1>7. ASSUME NEW k \in Conns, Handler(k) PROVE Once'
  BY <1>1, <1>3, <1>4, <1>7, AuthOnce, CopyMailboxOnce, FlushOneOnce, FlushDoneOnce,
     RouteSendOnce DEF Handler, Proceed
<1>8. ASSUME NEW k \in Conns, NEW c \in Clients, RouteLookup(k, c) PROVE Once'
  BY <1>1, <1>8, LookupOnce
<1> QED BY <1>2, <1>3, <1>5, <1>6, <1>7, <1>8 DEF Next, Handler

LEMMA InitWInv == Init => WInv
<1> SUFFICES ASSUME Init PROVE WInv
  OBVIOUS
<1>1. AInv
  BY InitAInv
<1>2. Unstarted
  BY DEF Init, Unstarted
<1>3. /\ \A k \in Conns : pc[k] = "accept" /\ written[k] = <<>>
      /\ DOMAIN mailboxes = {}
  BY DEF Init
<1>4. Once
  BY <1>3 DEF Once, Registered, OutOnce, MailOnce, CopyOnce, HandOnce
<1> QED BY <1>1, <1>2, <1>4 DEF WInv

\* A sequence without repetitions has as many elements as positions.
LEMMA DistinctCounts ==
    ASSUME NEW S, NEW s \in Seq(S), Distinct(s)
    PROVE  Cardinality(Range(s)) = Len(s)
<1>1. Len(s) \in Nat /\ DOMAIN s = 1 .. Len(s) /\ s \in [1 .. Len(s) -> S]
  BY LenProperties
<1>2. IsFiniteSet(1 .. Len(s)) /\ Cardinality(1 .. Len(s)) = Len(s)
  <2>1. /\ IsFiniteSet(1 .. Len(s))
        /\ Cardinality(1 .. Len(s)) = IF 1 > Len(s) THEN 0 ELSE Len(s) - 1 + 1
    BY <1>1, FS_Interval
  <2> QED BY <1>1, <2>1
<1>3. s \in [1 .. Len(s) -> Range(s)] /\ \A y \in Range(s) : \E i \in 1 .. Len(s) : s[i] = y
  BY <1>1 DEF Range
<1>4. s \in Surjection(1 .. Len(s), Range(s))
  BY <1>3 DEF Surjection
<1>5. s \in Injection(1 .. Len(s), Range(s))
  BY <1>1, <1>3 DEF Injection, IsInjective, Distinct
<1>6. Cardinality(Range(s)) = Cardinality(1 .. Len(s))
  BY <1>2, <1>4, <1>5, FS_Surjection
<1> QED BY <1>2, <1>6

LEMMA OnceWritten == WInv => WrittenOnce
<1> SUFFICES ASSUME WInv, AllUp, OneConnEach
             PROVE  /\ \A j, k \in Conns : \A a \in DOMAIN written[j], b \in DOMAIN written[k] :
                          written[j][a] = written[k][b] => j = k /\ a = b
                    /\ \A c \in DOMAIN mailboxes :
                          Cardinality(Range(mailboxes[c].packets)) = Len(mailboxes[c].packets)
  BY DEF WrittenOnce
<1>1. Once /\ AInv
  BY DEF WInv
<1>2. OutOnce
  BY <1>1 DEF Once
<1>3. ASSUME NEW c \in DOMAIN mailboxes
      PROVE  Cardinality(Range(mailboxes[c].packets)) = Len(mailboxes[c].packets)
  <2>1. mailboxes[c].packets \in Seq(Packets) /\ Distinct(mailboxes[c].packets)
    BY <1>1 DEF Once, MailOnce, AInv, TypeOK
  <2> QED BY <2>1, DistinctCounts
<1> QED BY <1>2, <1>3 DEF OutOnce

-----------------------------------------------------------------------------
(* The theorems.                                                           *)

\* The maps, the local variables of the handlers and what they wrote keep their types;
\* a mailbox is never stamped with a time to come, and a flush never counts more
\* packets as sent than it has copied.
THEOREM RelayTypeOK == Spec => []TypeOK
<1>1. AInv => TypeOK
  BY DEF AInv
<1> QED BY <1>1, InitAInv, NextAInv, PTL DEF Spec

\* RoutePacket and DeliverMailbox write a packet only to connections of the client it
\* is addressed to, although both use a connection they looked up before they
\* released the lock, and with any number of connections per client.
THEOREM NothingMisdelivered == Spec => []NoMisdelivery
<1>1. AInv => NoMisdelivery
  <2> SUFFICES ASSUME AInv, NEW k \in Conns, NEW m \in Range(written[k])
               PROVE  m[1] = owner[k]
    BY DEF NoMisdelivery
  <2>1. m \in To(owner[k])
    BY RangeOfSeq DEF AInv, Addressed
  <2> QED BY <2>1 DEF To
<1> QED BY <1>1, InitAInv, NextAInv, PTL DEF Spec

\* However handlers of one client overlap, and wherever RoutePacket's look-up is stale: mail
\* waits behind a registered, served client only where a flush that failed on another of its
\* connections put it back.
THEOREM OnlyPutBackWaits == Spec => []OnlineMailPutBack
<1>1. FInv /\ [Next]_vars => FInv'
  BY NextAInv, NextFlushed DEF FInv
<1>2. FInv => OnlineMailPutBack
  BY DEF FInv
<1> QED BY <1>1, <1>2, InitFInv, PTL DEF Spec

\* Whatever vanishes, expires or interleaves, each packet RoutePacket has taken is with
\* its recipient, in a mailbox, in a handler's hands, or lost in one of the three known
\* ways; the error paths of RoutePacket and DeliverMailbox drop nothing.
THEOREM NothingLostUnseen == Spec => []PacketsAccountedFor
<1>1. PInv /\ [Next]_vars => PInv'
  BY NextAInv, NextCopiesSent, NextAccounted DEF PInv
<1>2. PInv => PacketsAccountedFor
  BY DEF PInv
<1> QED BY <1>1, <1>2, InitPInv, PTL DEF Spec

\* As long as no connection has ended and no client has a second one, no packet is written
\* twice and no mailbox holds one twice: what AuthenticateClient registers keeps RoutePacket
\* from queueing while DeliverMailbox works on its copy, and the copy is removed before the
\* connection is served.
THEOREM NothingWrittenTwice == Spec => []WrittenOnce
<1>1. WInv /\ [Next]_vars => WInv'
  <2> SUFFICES ASSUME WInv, [Next]_vars PROVE WInv'
    OBVIOUS
  <2>1. AInv'
    BY NextAInv DEF WInv
  <2>2. Unstarted' /\ (AllUp' /\ OneConnEach' => Once')
    BY NextUnstarted, NextOnce
  <2> QED BY <2>1, <2>2 DEF WInv
<1> QED BY <1>1, InitWInv, OnceWritten, PTL DEF Spec
=============================================================================
