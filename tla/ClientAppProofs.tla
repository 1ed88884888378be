---------------------------- MODULE ClientAppProofs ----------------------------
(***************************************************************************)
(* Proofs about the client manager as the web interface, the daemon and    *)
(* the C bridge use it, for any number of goroutines, peers, profiles and  *)
(* connections.                                                            *)
(***************************************************************************)
EXTENDS ClientApp, FiniteSetTheorems, TLAPS

-----------------------------------------------------------------------------
(* The parts of the inductive invariants.                                  *)

\* Where a call of SendTextMessage has its peer, its number and its connection.
Sending == {"encrypt", "lookup", "dial", "store", "send", "close", "record"}
Numbered == {"lookup", "dial", "store", "send", "record"}
Connected == {"store", "send", "close", "record"}

\* What the local variables of a call hold while it needs them.
JobOK ==
    \A t \in Threads :
        /\ pc[t] \in Sending => job[t].peer \in DOMAIN Sessions
        /\ pc[t] \in Connected => job[t].conn \in Conns
        /\ pc[t] = "switch" => job[t].profile \in DOMAIN Identities
        /\ pc[t] = "save" => job[t].peer \in Peers

Encrypting == {t \in Threads : pc[t] = "encrypt"}

\* The numbers a session has used and the calls that are about to take one.
Counted ==
    /\ IsFiniteSet(Encrypting)
    /\ Cardinality(Encrypting) <= sends
    /\ \A p \in DOMAIN Sessions : Sessions[p].outSequence + Cardinality(Encrypting) <= sends

TInv == TypeOK /\ JobOK /\ Counted

\* A sealed packet bears its session's identity and a number the session has used.
SealedBySession ==
    \A m \in sealed :
        /\ m.peer \in DOMAIN Sessions
        /\ m.signer = Sessions[m.peer].identity
        /\ m.seq <= Sessions[m.peer].outSequence

\* A call that has a number is the only one with it, and the history lacks it.
NumbersOwned ==
    \A t \in Threads : pc[t] \in Numbered =>
        /\ job[t].seq # 0 /\ job[t].seq <= Sessions[job[t].peer].outSequence
        /\ \A i \in DOMAIN Messages[job[t].peer] : Messages[job[t].peer][i] # job[t].seq
        /\ \A u \in Threads \ {t} :
             pc[u] \in Numbered /\ job[u].peer = job[t].peer => job[u].seq # job[t].seq
        /\ pc[t] = "record" => \E w \in written : w.peer = job[t].peer /\ w.seq = job[t].seq

\* A history holds numbers its session has used.
HistoryUsed ==
    \A p \in Peers : \A i \in DOMAIN Messages[p] :
        Messages[p][i] # 0 => p \in DOMAIN Sessions /\ Messages[p][i] <= Sessions[p].outSequence

\* A call that no other overtook finds what it left: no connection to its peer while it
\* dials, and its own or none while it sends.
UndisturbedCalls ==
    \A t \in Threads \ overtaken :
        /\ pc[t] \in {"dial", "store"} => job[t].peer \notin DOMAIN ActiveConns
        /\ pc[t] = "send" /\ job[t].peer \in DOMAIN ActiveConns =>
             ActiveConns[job[t].peer] = job[t].conn

\* An open connection is in the map, is about to be stored or closed, or lost a race.
Accounted(c) ==
    \/ c \in Range(ActiveConns)
    \/ \E t \in Threads : pc[t] \in {"store", "close"} /\ job[t].conn = c
    \/ c \in raced

ConnsAccounted == \A c \in Conns : conn[c] \in {"up", "broken"} => Accounted(c)

\* An offer holds what CreatePairingPayload made for its creator, with a salt that no
\* damaged payload has.
OffersMade ==
    /\ IsFiniteSet(offers)
    /\ \A o \in offers :
         /\ o.payload.Salt \in Nat \ {0}
         /\ o.payload = CreatePairingPayload(o.creator, o.pin, o.payload.Salt)


-----------------------------------------------------------------------------
(* Typing.                                                                 *)

\* The local variables of one call.
Jobs == [peer : Peers \cup {Nil}, profile : Profiles \cup {Nil}, size : Sizes \cup {""},
         seq : Numbers, conn : Conns \cup {Nil}]

\* A call that changes settings stays within the bound, and so does a new identity.
LEMMA SettingOK ==
    ASSUME TypeOK, Setting
    PROVE  settings' \in 0 .. MaxSettings /\ settings + 2 \in Ids
<1>1. settings \in 0 .. MaxSettings
  BY DEF TypeOK
<1>2. settings < MaxSettings /\ settings' = settings + 1
  BY DEF Setting
<1> QED BY <1>1, <1>2, ManagerAssumption DEF Ids

\* The part of TypeOK on calls.
LEMMA JobTyped ==
    ASSUME TypeOK
    PROVE  job \in [Threads -> Jobs] /\ pc \in [Threads -> Labels] /\ NoJob \in Jobs
BY ManagerAssumption DEF TypeOK, Jobs, NoJob, Numbers, Addresses

\* Every assignment to local variables keeps their types.
LEMMA JobUpdates ==
    ASSUME TypeOK, NEW t \in Threads
    PROVE  /\ \A j \in Jobs : [job EXCEPT ![t] = j] \in [Threads -> Jobs]
           /\ \A n \in Profiles : [job EXCEPT ![t].profile = n] \in [Threads -> Jobs]
           /\ \A p \in Peers : [job EXCEPT ![t].peer = p] \in [Threads -> Jobs]
           /\ \A n \in Numbers : [job EXCEPT ![t].seq = n] \in [Threads -> Jobs]
           /\ \A c \in Conns : [job EXCEPT ![t].conn = c] \in [Threads -> Jobs]
<1>0. job \in [Threads -> Jobs]
  BY JobTyped
<1>1. \A j \in Jobs : [job EXCEPT ![t] = j] \in [Threads -> Jobs]
  BY <1>0
<1>2. \A n \in Profiles : [job EXCEPT ![t].profile = n] \in [Threads -> Jobs]
  BY <1>0 DEF Jobs
<1>3. \A p \in Peers : [job EXCEPT ![t].peer = p] \in [Threads -> Jobs]
  BY <1>0 DEF Jobs
<1>4. \A n \in Numbers : [job EXCEPT ![t].seq = n] \in [Threads -> Jobs]
  BY <1>0 DEF Jobs
<1>5. \A c \in Conns : [job EXCEPT ![t].conn = c] \in [Threads -> Jobs]
  BY <1>0 DEF Jobs
<1> QED BY <1>1, <1>2, <1>3, <1>4, <1>5

\* A call that is about to encrypt is counted, and its session has a number for it.
LEMMA NextNumber ==
    ASSUME TInv, NEW t \in Threads, pc[t] = "encrypt"
    PROVE  LET s == Sessions[job[t].peer]
               others == Encrypting \ {t}
           IN  /\ s \in [identity : Ids, outSequence : Numbers, isEstablished : BOOLEAN]
               /\ s.outSequence + 1 \in Numbers
               /\ IsFiniteSet(others) /\ Cardinality(others) \in Nat
               /\ Cardinality(others) = Cardinality(Encrypting) - 1
<1> DEFINE s == Sessions[job[t].peer]
<1>1. job[t].peer \in DOMAIN Sessions
  BY DEF TInv, JobOK, Sending
<1>2. s \in [identity : Ids, outSequence : Numbers, isEstablished : BOOLEAN]
  BY <1>1 DEF TInv, TypeOK
<1>3. t \in Encrypting /\ IsFiniteSet(Encrypting)
  BY DEF TInv, Counted, Encrypting
<1>4. Cardinality(Encrypting) \in Nat
  BY <1>3, FS_CardinalityType
<1>5. /\ IsFiniteSet(Encrypting \ {t})
      /\ Cardinality(Encrypting \ {t}) = Cardinality(Encrypting) - 1
  BY <1>3, FS_RemoveElement
<1>6. Cardinality(Encrypting \ {t}) \in Nat
  BY <1>5, FS_CardinalityType
<1>7. s.outSequence + Cardinality(Encrypting) <= sends
  BY <1>1 DEF TInv, Counted
<1>8. s.outSequence \in Numbers /\ sends \in 0 .. MaxSends
  BY <1>2 DEF TInv, TypeOK
<1> HIDE DEF s
<1>9. s.outSequence + 1 \in Numbers
  BY <1>4, <1>5, <1>6, <1>7, <1>8, ManagerAssumption DEF Numbers
<1> QED BY <1>2, <1>5, <1>6, <1>9 DEF s

\* What a call takes from the locked section that looks for a connection.
LEMMA LookupEffect ==
    ASSUME TInv, NEW t \in Threads, Lookup(t)
    PROVE  LET p == job[t].peer
           IN  /\ pc[t] = "lookup"
               /\ \A u \in Threads \ {t} : pc'[u] = pc[u] /\ job'[u] = job[u]
               /\ \/ /\ pc'[t] = "send" /\ p \in DOMAIN ActiveConns
                     /\ job'[t].peer = p /\ job'[t].seq = job[t].seq
                     /\ job'[t].conn = ActiveConns[p]
                  \/ /\ pc'[t] = "dial" /\ p \notin DOMAIN ActiveConns
                     /\ job'[t] = job[t]
                  \/ pc'[t] = "idle"
<1> DEFINE p == job[t].peer
           c == ActiveConns[p]
<1>1. job \in [Threads -> Jobs] /\ pc \in [Threads -> Labels] /\ job[t] \in Jobs
  BY JobTyped DEF TInv
<1>2. CASE /\ job' = [job EXCEPT ![t].conn = c] /\ p \in DOMAIN ActiveConns
           /\ pc' = [pc EXCEPT ![t] = "send"]
  BY <1>1, <1>2 DEF Jobs, Lookup
<1>3. CASE /\ job' = job /\ p \notin DOMAIN ActiveConns
           /\ pc' = [pc EXCEPT ![t] = "dial"]
  BY <1>1, <1>3 DEF Lookup
<1>4. CASE job' = [job EXCEPT ![t] = NoJob] /\ pc' = [pc EXCEPT ![t] = "idle"]
  BY <1>1, <1>4 DEF Lookup
<1> QED BY <1>2, <1>3, <1>4 DEF Lookup, Return, Goto

\* What EncryptMessage and Marshal may do to the manager, on every path.
LEMMA EncryptEffect ==
    ASSUME NEW t \in Threads, Encrypt(t)
    PROVE  LET p == job[t].peer
               seq == Sessions[p].outSequence + 1
               Take == Sessions' = [Sessions EXCEPT ![p].outSequence = seq]
               packet == [peer |-> p, seq |-> seq, signer |-> Sessions[p].identity]
           IN  /\ pc[t] = "encrypt"
               /\ \/ Return(t) /\ UNCHANGED <<Sessions, sealed>>
                  \/ Return(t) /\ Take /\ (UNCHANGED sealed \/ sealed' = sealed \cup {packet})
                  \/ /\ Take /\ sealed' = sealed \cup {packet}
                     /\ job' = [job EXCEPT ![t].seq = seq] /\ Goto(t, "lookup")
               /\ UNCHANGED <<Identities, ActiveProfile, Contacts, Messages, ActiveConns, Mode,
                              RelayAddr, conn, settings, sends, written, raceVars>>
BY DEF Encrypt, Signer

\* A number is taken, or the session stays as it is.
LEMMA EncryptSessions ==
    ASSUME TInv, NEW t \in Threads, Encrypt(t)
    PROVE  /\ DOMAIN Sessions' = DOMAIN Sessions
           /\ \A p \in DOMAIN Sessions :
                /\ Sessions'[p] \in [identity : Ids, outSequence : Numbers, isEstablished : BOOLEAN]
                /\ Sessions'[p].identity = Sessions[p].identity
                /\ Sessions'[p].outSequence \in {Sessions[p].outSequence, Sessions[p].outSequence + 1}
                /\ Sessions[p].outSequence \in Numbers
           /\ Sessions' \in [DOMAIN Sessions' ->
                               [identity : Ids, outSequence : Numbers, isEstablished : BOOLEAN]]
<1> DEFINE q == job[t].peer
           S == [identity : Ids, outSequence : Numbers, isEstablished : BOOLEAN]
<1>1. pc[t] = "encrypt" /\ q \in DOMAIN Sessions
  BY EncryptEffect DEF TInv, JobOK, Sending
<1>2. Sessions \in [DOMAIN Sessions -> S]
  BY DEF TInv, TypeOK
<1>3. Sessions[q].outSequence + 1 \in Numbers
  BY <1>1, NextNumber
<1>4. CASE Sessions' = Sessions
  BY <1>2, <1>4
<1>5. CASE Sessions' = [Sessions EXCEPT ![q].outSequence = Sessions[q].outSequence + 1]
  BY <1>1, <1>2, <1>3, <1>5
<1> QED BY <1>4, <1>5, EncryptEffect

\* Every step keeps the types, what the calls hold and the count of numbers.
LEMMA NextTInv == TInv /\ [AppNext]_appVars => TInv'
<1> SUFFICES ASSUME TInv, [AppNext]_appVars PROVE TInv'
  OBVIOUS
<1> USE ManagerAssumption DEF managerVars, callVars, raceVars
<1>0. TypeOK /\ JobOK /\ job \in [Threads -> Jobs] /\ pc \in [Threads -> Labels] /\ NoJob \in Jobs
  BY JobTyped DEF TInv
<1>1. ASSUME NEW t \in Threads, Encrypt(t) PROVE TInv'
  <2> DEFINE p == job[t].peer
             seq == Sessions[p].outSequence + 1
             packet == [peer |-> p, seq |-> seq, signer |-> Sessions[p].identity]
  <2>1. pc[t] = "encrypt" /\ p \in DOMAIN Sessions /\ p \in Peers /\ seq \in Numbers
    BY <1>1, EncryptEffect, NextNumber DEF TInv, JobOK, Sending, TypeOK
  <2>2. packet \in [peer : Peers, seq : Numbers, signer : Ids]
    BY <1>1, <2>1, NextNumber
  <2>3. /\ job' \in {[job EXCEPT ![t] = NoJob], [job EXCEPT ![t].seq = seq]}
        /\ pc' \in {[pc EXCEPT ![t] = "idle"], [pc EXCEPT ![t] = "lookup"]}
        /\ sealed' \in {sealed, sealed \cup {packet}}
    BY <1>1, EncryptEffect DEF Return, Goto
  <2>4. job' \in [Threads -> Jobs]
    <3> HIDE DEF seq
    <3>1. [job EXCEPT ![t] = NoJob] \in [Threads -> Jobs]
      BY <1>0
    <3>2. [job EXCEPT ![t].seq = seq] \in [Threads -> Jobs]
      BY <1>0, <2>1, JobUpdates
    <3> QED BY <2>3, <3>1, <3>2
  <2>5. pc' \in [Threads -> Labels]
    BY <1>0, <2>3 DEF Labels
  <2>6. sealed' \subseteq [peer : Peers, seq : Numbers, signer : Ids]
    <3>1. sealed \subseteq [peer : Peers, seq : Numbers, signer : Ids]
      BY <1>0 DEF TypeOK
    <3> HIDE DEF packet
    <3> QED BY <2>2, <2>3, <3>1
  <2>7. UNCHANGED <<Identities, ActiveProfile, Contacts, Messages, ActiveConns, Mode, RelayAddr,
                    conn, settings, sends, written, overtaken, raced>>
    BY <1>1, EncryptEffect
  <2>8. /\ DOMAIN Sessions' = DOMAIN Sessions
        /\ Sessions' \in [DOMAIN Sessions' ->
                            [identity : Ids, outSequence : Numbers, isEstablished : BOOLEAN]]
    BY <1>1, EncryptSessions
  <2> HIDE DEF packet
  <2>9. TypeOK'
    BY <1>0, <2>4, <2>5, <2>6, <2>7, <2>8 DEF TypeOK, Jobs
  <2>10. JobOK'
    <3>1. \A u \in Threads : u # t => pc'[u] = pc[u] /\ job'[u] = job[u]
      BY <1>0, <2>3
    <3>2. pc'[t] \in {"idle", "lookup"}
      BY <1>0, <2>3
    <3>3. pc'[t] = "lookup" => job'[t].peer = p
      <4>1. CASE job' = [job EXCEPT ![t].seq = seq]
        BY <1>0, <4>1 DEF Jobs
      <4>2. CASE Return(t)
        BY <1>0, <4>2 DEF Return, Goto
      <4> QED BY <1>1, <4>1, <4>2, EncryptEffect
    <3> QED BY <1>0, <2>1, <2>7, <2>8, <3>1, <3>2, <3>3 DEF JobOK, Sending, Connected
  <2>11. Counted'
    <3>1. Encrypting' = Encrypting \ {t}
      BY <1>0, <2>3 DEF Encrypting
    <3>2. /\ IsFiniteSet(Encrypting') /\ Cardinality(Encrypting') \in Nat
          /\ Cardinality(Encrypting') = Cardinality(Encrypting) - 1
      BY <2>1, <3>1, NextNumber
    <3>3. Cardinality(Encrypting) <= sends /\ Cardinality(Encrypting) \in Nat /\ sends \in Nat
      <4>1. IsFiniteSet(Encrypting) /\ Cardinality(Encrypting) <= sends /\ sends \in 0 .. MaxSends
        BY <1>0 DEF TInv, Counted, TypeOK
      <4> QED BY <4>1, FS_CardinalityType
    <3>4. ASSUME NEW q \in DOMAIN Sessions'
          PROVE  Sessions'[q].outSequence + Cardinality(Encrypting') <= sends'
      <4>1. q \in DOMAIN Sessions
        BY <2>8
      <4>2. Sessions[q].outSequence + Cardinality(Encrypting) <= sends
        BY <4>1 DEF TInv, Counted
      <4>3. /\ Sessions[q].outSequence \in Nat
            /\ Sessions'[q].outSequence \in {Sessions[q].outSequence, Sessions[q].outSequence + 1}
        BY <1>1, <4>1, EncryptSessions DEF Numbers
      <4> QED BY <2>7, <3>2, <3>3, <4>2, <4>3
    <3> QED BY <2>7, <3>2, <3>3, <3>4 DEF Counted
  <2> QED BY <2>9, <2>10, <2>11 DEF TInv
<1>2. ASSUME NEW t \in Threads, Lookup(t) PROVE TInv'
  <2>1. pc[t] = "lookup" /\ job[t].peer \in DOMAIN Sessions /\ job[t].peer \in DOMAIN Contacts
    BY <1>0, <1>2 DEF Lookup, JobOK, Sending, TypeOK
  <2>3. \/ /\ job' = [job EXCEPT ![t].conn = ActiveConns[job[t].peer]]
           /\ pc' = [pc EXCEPT ![t] = "send"] /\ ActiveConns[job[t].peer] \in Conns
        \/ job' = job /\ pc' = [pc EXCEPT ![t] = "dial"]
        \/ job' = [job EXCEPT ![t] = NoJob] /\ pc' = [pc EXCEPT ![t] = "idle"]
    BY <1>0, <1>2 DEF Lookup, Return, Goto, TypeOK
  <2>4. job' \in [Threads -> Jobs]
    <3> DEFINE c == ActiveConns[job[t].peer]
    <3>1. c \in Conns => [job EXCEPT ![t].conn = c] \in [Threads -> Jobs]
      BY <1>0, JobUpdates
    <3>2. [job EXCEPT ![t] = NoJob] \in [Threads -> Jobs]
      BY <1>0
    <3> QED BY <1>0, <2>3, <3>1, <3>2
  <2>5. pc' \in [Threads -> Labels]
    BY <1>0, <2>3 DEF Labels
  <2>6. /\ UNCHANGED <<Identities, ActiveProfile, Contacts, Sessions, Messages, ActiveConns, Mode,
                       RelayAddr, conn, settings, sends, sealed, written, raced>>
        /\ overtaken' = overtaken \ {t}
    BY <1>2 DEF Lookup
  <2>7. TypeOK'
    BY <1>0, <2>4, <2>5, <2>6 DEF TypeOK, Jobs
  <2>8. JobOK'
    <3>1. \A u \in Threads : u # t => pc'[u] = pc[u] /\ job'[u] = job[u]
      BY <1>0, <2>3
    <3>2. \/ pc'[t] = "send" /\ job'[t].peer = job[t].peer /\ job'[t].conn \in Conns
          \/ pc'[t] = "dial" /\ job'[t].peer = job[t].peer
          \/ pc'[t] = "idle"
      <4>1. \A q \in DOMAIN ActiveConns : ActiveConns[q] \in Conns
        BY <1>0 DEF TypeOK
      <4> QED BY <1>2, <4>1, LookupEffect
    <3> QED BY <1>0, <2>1, <2>6, <3>1, <3>2 DEF JobOK, Sending, Connected
  <2>9. Counted'
    <3>1. Encrypting' = Encrypting
      BY <1>0, <2>1, <2>3 DEF Encrypting
    <3> QED BY <2>6, <3>1 DEF TInv, Counted
  <2> QED BY <2>7, <2>8, <2>9 DEF TInv
<1>3. ASSUME NEW t \in Threads, Dial(t) PROVE TInv'
  <2>1. PICK c \in Conns :
          /\ conn' = [conn EXCEPT ![c] = "up"]
          /\ job' = [job EXCEPT ![t].conn = c]
    BY <1>3 DEF Dial
  <2>2. /\ pc[t] = "dial" /\ pc' = [pc EXCEPT ![t] = "store"]
        /\ UNCHANGED <<Identities, ActiveProfile, Contacts, Sessions, Messages, ActiveConns, Mode,
                       RelayAddr, settings, sends, sealed, written, overtaken, raced>>
    BY <1>3 DEF Dial, Goto
  <2>3. job[t] \in Jobs /\ job[t].peer \in DOMAIN Sessions
    BY <1>0, <2>2 DEF JobOK, Sending
  <2>4. job' \in [Threads -> Jobs]
    BY <1>0, <2>1, JobUpdates
  <2>5. conn' \in [Conns -> {"unused", "up", "broken", "closed"}]
    BY <1>0, <2>1 DEF TypeOK
  <2>6. TypeOK'
    BY <1>0, <2>2, <2>4, <2>5 DEF TypeOK, Jobs, Labels
  <2>7. JobOK'
    <3>1. \A u \in Threads : u # t => pc'[u] = pc[u] /\ job'[u] = job[u]
      BY <1>0, <2>1, <2>2
    <3>2. pc'[t] = "store" /\ job'[t].peer = job[t].peer /\ job'[t].conn \in Conns
      BY <1>0, <2>1, <2>2, <2>3 DEF Jobs
    <3> QED BY <1>0, <2>2, <2>3, <3>1, <3>2 DEF JobOK, Sending, Connected
  <2>8. Counted'
    <3>1. Encrypting' = Encrypting
      BY <1>0, <2>2 DEF Encrypting
    <3> QED BY <2>2, <3>1 DEF TInv, Counted
  <2> QED BY <2>6, <2>7, <2>8 DEF TInv
<1>4. ASSUME NEW t \in Threads, DialFails(t) PROVE TInv'
  <2>1. TypeOK'
    BY <1>4 DEF DialFails, Return, Goto, TInv, TypeOK, JobOK, NoJob, Numbers, Addresses,
        Labels, Sending, Connected
  <2>2. JobOK'
    BY <1>4 DEF DialFails, Return, Goto, TInv, TypeOK, JobOK, NoJob, Sending, Connected
  <2>3. Counted'
    BY <1>4 DEF DialFails, Return, Goto, TInv, TypeOK, Counted, Encrypting
  <2> QED BY <2>1, <2>2, <2>3 DEF TInv
<1>5. ASSUME NEW t \in Threads, Store(t) PROVE TInv'
  <2>1. TypeOK'
    <3>1. /\ pc[t] = "store" /\ pc' = [pc EXCEPT ![t] = "send"] /\ Displaces(t)
          /\ ActiveConns' = With(ActiveConns, job[t].peer, job[t].conn)
          /\ overtaken' = (overtaken \ {t}) \cup {u \in Threads \ {t} : job[u].peer = job[t].peer}
          /\ UNCHANGED <<Identities, ActiveProfile, Contacts, Sessions, Messages, Mode, RelayAddr,
                         conn, job, settings, sends, sealed, written>>
      BY <1>5 DEF Store, Goto
    <3>2. job[t].peer \in Peers /\ job[t].conn \in Conns
      BY <1>0, <3>1 DEF JobOK, Sending, Connected, TypeOK
    <3>3. /\ DOMAIN ActiveConns' \subseteq Peers
          /\ ActiveConns' \in [DOMAIN ActiveConns' -> Conns]
      BY <1>0, <3>1, <3>2 DEF With, TypeOK
    <3>4. overtaken' \subseteq Threads /\ raced' \subseteq Conns
      BY <1>0, <3>1, <3>2 DEF Displaces, TypeOK
    <3> QED BY <1>0, <3>1, <3>3, <3>4 DEF TypeOK, Labels
  <2>2. JobOK'
    BY <1>5 DEF Store, With, Goto, TInv, TypeOK, JobOK, NoJob, Sending, Connected
  <2>3. Counted'
    BY <1>5 DEF Store, With, Goto, TInv, TypeOK, Counted, Encrypting
  <2> QED BY <2>1, <2>2, <2>3 DEF TInv
<1>6. ASSUME NEW t \in Threads, Send(t) PROVE TInv'
  <2>1. job[t] \in Jobs /\ pc[t] = "send"
    BY <1>0, <1>6 DEF Send
  <2>2. job[t].peer \in Peers
    BY <1>0, <2>1 DEF JobOK, Sending, Connected, TypeOK
  <2>3. written' \subseteq [peer : Peers, seq : Numbers]
    <3>1. written \subseteq [peer : Peers, seq : Numbers]
      BY <1>0 DEF TypeOK
    <3>2. job[t].seq \in Numbers
      BY <2>1 DEF Jobs
    <3> QED BY <1>6, <2>2, <3>1, <3>2 DEF Send
  <2>4. /\ pc' = [pc EXCEPT ![t] = "record"]
        /\ UNCHANGED <<Identities, ActiveProfile, Contacts, Sessions, Messages, ActiveConns, Mode,
                       RelayAddr, conn, job, settings, sends, sealed,
                       overtaken, raced>>
    BY <1>6 DEF Send, Goto
  <2>5. TypeOK'
    BY <1>0, <2>3, <2>4 DEF TypeOK, Labels
  <2>6. JobOK'
    BY <1>6 DEF Send, Goto, TInv, TypeOK, JobOK, NoJob, Sending, Connected
  <2>7. Counted'
    BY <1>6 DEF Send, Goto, TInv, TypeOK, Counted, Encrypting
  <2> QED BY <2>5, <2>6, <2>7 DEF TInv
<1>7. ASSUME NEW t \in Threads, SendFails(t) PROVE TInv'
  <2>1. TypeOK'
    <3>1. /\ pc[t] = "send" /\ pc' = [pc EXCEPT ![t] = "close"] /\ Displaces(t)
          /\ ActiveConns' = Without(ActiveConns, job[t].peer)
          /\ overtaken' = overtaken
          /\ UNCHANGED <<Identities, ActiveProfile, Contacts, Sessions, Messages, Mode, RelayAddr,
                         conn, job, settings, sends, sealed, written>>
      BY <1>7 DEF SendFails, Goto
    <3>2. job[t].peer \in Peers /\ job[t].conn \in Conns
      BY <1>0, <3>1 DEF JobOK, Sending, Connected, TypeOK
    <3>3. /\ DOMAIN ActiveConns' \subseteq Peers
          /\ ActiveConns' \in [DOMAIN ActiveConns' -> Conns]
      BY <1>0, <3>1, <3>2 DEF Without, TypeOK
    <3>4. overtaken' \subseteq Threads /\ raced' \subseteq Conns
      BY <1>0, <3>1, <3>2 DEF Displaces, TypeOK
    <3> QED BY <1>0, <3>1, <3>3, <3>4 DEF TypeOK, Labels
  <2>2. JobOK'
    BY <1>7 DEF SendFails, Without, Goto, TInv, TypeOK, JobOK, NoJob, Sending, Connected
  <2>3. Counted'
    BY <1>7 DEF SendFails, Without, Goto, TInv, TypeOK, Counted, Encrypting
  <2> QED BY <2>1, <2>2, <2>3 DEF TInv
<1>8. ASSUME NEW t \in Threads, CloseConn(t) PROVE TInv'
  <2>1. TypeOK'
    BY <1>8 DEF CloseConn, Return, Goto, TInv, TypeOK, JobOK, NoJob, Numbers, Addresses,
        Labels, Sending, Connected
  <2>2. JobOK'
    BY <1>8 DEF CloseConn, Return, Goto, TInv, TypeOK, JobOK, NoJob, Sending, Connected
  <2>3. Counted'
    BY <1>8 DEF CloseConn, Return, Goto, TInv, TypeOK, Counted, Encrypting
  <2> QED BY <2>1, <2>2, <2>3 DEF TInv
<1>9. ASSUME NEW t \in Threads, Record(t) PROVE TInv'
  <2>1. job[t] \in Jobs /\ pc[t] = "record" /\ job[t].peer \in Peers
    BY <1>0, <1>9 DEF Record, JobOK, Sending, TypeOK
  <2>2. Messages' \in [Peers -> Seq(Numbers)]
    <3>1. job[t].seq \in Numbers
      BY <2>1 DEF Jobs
    <3>2. Messages \in [Peers -> Seq(Numbers)]
      BY <1>0 DEF TypeOK
    <3> QED BY <1>9, <2>1, <3>1, <3>2 DEF Record, AddMessage
  <2>3. /\ pc' = [pc EXCEPT ![t] = "notify"]
        /\ UNCHANGED <<Identities, ActiveProfile, Contacts, Sessions, ActiveConns, Mode, RelayAddr,
                       conn, job, settings, sends, sealed, written, overtaken, raced>>
    BY <1>9 DEF Record, Goto
  <2>4. TypeOK'
    BY <1>0, <2>2, <2>3 DEF TypeOK, Labels
  <2>5. JobOK'
    BY <1>9 DEF Record, AddMessage, Goto, TInv, TypeOK, JobOK, NoJob, Sending, Connected
  <2>6. Counted'
    BY <1>9 DEF Record, AddMessage, Goto, TInv, TypeOK, Counted, Encrypting
  <2> QED BY <2>4, <2>5, <2>6 DEF TInv
<1>10. ASSUME NEW t \in Threads, Notify(t) PROVE TInv'
  <2>1. TypeOK'
    BY <1>10 DEF Notify, Return, Goto, TInv, TypeOK, JobOK, NoJob, Numbers, Addresses,
        Labels, Sending, Connected
  <2>2. JobOK'
    BY <1>10 DEF Notify, Return, Goto, TInv, TypeOK, JobOK, NoJob, Sending, Connected
  <2>3. Counted'
    BY <1>10 DEF Notify, Return, Goto, TInv, TypeOK, Counted, Encrypting
  <2> QED BY <2>1, <2>2, <2>3 DEF TInv
<1>11. ASSUME NEW t \in Threads, handleIdentityCreated(t) PROVE TInv'
  <2>1. TypeOK'
    BY <1>11 DEF handleIdentityCreated, SwitchProfile, Return, Goto, TInv, TypeOK, JobOK,
        NoJob, Numbers, Addresses, Labels, Sending, Connected
  <2>2. JobOK'
    BY <1>11 DEF handleIdentityCreated, SwitchProfile, Return, Goto, TInv, TypeOK, JobOK,
        NoJob, Sending, Connected
  <2>3. Counted'
    BY <1>11 DEF handleIdentityCreated, SwitchProfile, Return, Goto, TInv, TypeOK, Counted,
        Encrypting
  <2> QED BY <2>1, <2>2, <2>3 DEF TInv
<1>12. ASSUME NEW t \in Threads, handlePairSave(t) PROVE TInv'
  <2>1. TypeOK'
    BY <1>12 DEF handlePairSave, SaveContact, With, Return, Goto, TInv, TypeOK, JobOK, NoJob,
        Numbers, Addresses, Labels, Sending, Connected
  <2>2. JobOK'
    BY <1>12 DEF handlePairSave, SaveContact, With, Return, Goto, TInv, TypeOK, JobOK, NoJob,
        Sending, Connected
  <2>3. Counted'
    BY <1>12 DEF handlePairSave, SaveContact, With, Return, Goto, TInv, TypeOK, Counted,
        Encrypting
  <2> QED BY <2>1, <2>2, <2>3 DEF TInv
<1>13. ASSUME NEW t \in Threads, NEW name \in Profiles, handleIdentityCreate(t, name) PROVE TInv'
  <2>1. /\ pc[t] = "idle" /\ pc' = [pc EXCEPT ![t] = "switch"] /\ Setting
        /\ Identities' = With(Identities, name, settings + 2)
        /\ job' = [job EXCEPT ![t].profile = name]
        /\ UNCHANGED <<ActiveProfile, Contacts, Sessions, Messages, ActiveConns, Mode, RelayAddr,
                       conn, sends, sealed, written, overtaken, raced>>
    BY <1>13 DEF handleIdentityCreate, AddIdentityProfile, Goto
  <2>2. settings' \in 0 .. MaxSettings /\ settings + 2 \in Ids
    BY <1>0, <2>1, SettingOK
  <2>3. /\ DOMAIN Identities' = DOMAIN Identities \cup {name}
        /\ Identities' \in [DOMAIN Identities' -> Ids]
    BY <1>0, <2>1, <2>2 DEF TypeOK, With
  <2>4. job' \in [Threads -> Jobs]
    BY <1>0, <2>1, JobUpdates
  <2>5. TypeOK'
    BY <1>0, <2>1, <2>2, <2>3, <2>4 DEF TypeOK, Jobs, Labels
  <2>6. JobOK'
    BY <1>0, <2>1, <2>3 DEF JobOK, Sending, Connected, Jobs
  <2>7. Counted'
    BY <1>0, <2>1 DEF TInv, Counted, Encrypting
  <2> QED BY <2>5, <2>6, <2>7 DEF TInv
<1>14. ASSUME NEW t \in Threads, NEW p \in Peers, NEW size \in Sizes, SendTextMessage(t, p, size)
       PROVE  TInv'
  <2> DEFINE new == [NoJob EXCEPT !.peer = p, !.size = size]
             S == [identity : Ids, outSequence : Numbers, isEstablished : BOOLEAN]
  <2>1. /\ pc[t] = "idle" /\ pc' = [pc EXCEPT ![t] = "encrypt"]
        /\ sends < MaxSends /\ sends' = sends + 1
        /\ job' = [job EXCEPT ![t] = new]
        /\ UNCHANGED <<Identities, ActiveProfile, Contacts, Messages, ActiveConns, Mode, RelayAddr,
                       conn, settings, sealed, written, overtaken, raced>>
    BY <1>14 DEF SendTextMessage, Goto
  <2>2. new \in Jobs /\ new.peer = p
    BY <1>0 DEF Jobs, NoJob
  <2>3. sends \in 0 .. MaxSends /\ sends' \in 0 .. MaxSends
    <3>1. sends \in 0 .. MaxSends
      BY <1>0 DEF TypeOK
    <3> QED BY <2>1, <3>1
  <2>4. NewSession(GetActiveIdentity) \in S /\ NewSession(GetActiveIdentity).outSequence = 0
    BY <1>0 DEF NewSession, GetActiveIdentity, TypeOK, Numbers
  <2>5. /\ p \in DOMAIN Contacts
        /\ DOMAIN Sessions' = DOMAIN Sessions \cup {p}
        /\ Sessions' \in [DOMAIN Sessions' -> S]
        /\ \A q \in DOMAIN Sessions' :
             \/ q \in DOMAIN Sessions /\ Sessions'[q] = Sessions[q]
             \/ Sessions'[q].outSequence = 0
    <3>1. p \in DOMAIN Contacts /\ Sessions \in [DOMAIN Sessions -> S]
      BY <1>0, <1>14 DEF SendTextMessage, TypeOK
    <3>2. Sessions' = IF p \in DOMAIN Sessions
                      THEN Sessions ELSE With(Sessions, p, NewSession(GetActiveIdentity))
      BY <1>14 DEF SendTextMessage, GetOrCreateSession
    <3> HIDE DEF S
    <3> QED BY <2>4, <3>1, <3>2 DEF With
  <2> HIDE DEF new
  <2>6. TypeOK'
    <3>1. job' \in [Threads -> Jobs]
      BY <1>0, <2>1, <2>2
    <3> QED BY <1>0, <2>1, <2>3, <2>5, <3>1 DEF TypeOK, Jobs, Labels
  <2>7. JobOK'
    BY <1>0, <2>1, <2>2, <2>5 DEF JobOK, Sending, Connected
  <2>8. Counted'
    <3>1. Encrypting' = Encrypting \cup {t} /\ t \notin Encrypting
      BY <1>0, <2>1 DEF Encrypting
    <3>2. IsFiniteSet(Encrypting) /\ Cardinality(Encrypting) <= sends
      BY DEF TInv, Counted
    <3>3. IsFiniteSet(Encrypting') /\ Cardinality(Encrypting') = Cardinality(Encrypting) + 1
      BY <3>1, <3>2, FS_AddElement
    <3>4. Cardinality(Encrypting) \in Nat
      BY <3>2, FS_CardinalityType
    <3>5. ASSUME NEW q \in DOMAIN Sessions'
          PROVE  Sessions'[q].outSequence + Cardinality(Encrypting') <= sends'
      <4>1. CASE q \in DOMAIN Sessions /\ Sessions'[q] = Sessions[q]
        <5>1. Sessions[q].outSequence + Cardinality(Encrypting) <= sends
          BY <4>1 DEF TInv, Counted
        <5>2. Sessions[q].outSequence \in Numbers
          BY <1>0, <4>1 DEF TypeOK
        <5> QED BY <2>1, <2>3, <3>3, <3>4, <4>1, <5>1, <5>2 DEF Numbers
      <4>2. CASE Sessions'[q].outSequence = 0
        BY <2>1, <2>3, <3>2, <3>3, <3>4, <4>2
      <4> QED BY <2>5, <4>1, <4>2
    <3> QED BY <2>1, <2>3, <3>2, <3>3, <3>4, <3>5 DEF Counted
  <2> QED BY <2>6, <2>7, <2>8 DEF TInv
<1>15. ASSUME NEW t \in Threads, NEW p \in Peers, handleMessages(t, p) PROVE TInv'
  <2>1. /\ pc[t] = "idle" /\ pc' = [pc EXCEPT ![t] = "notify"]
        /\ sends < MaxSends /\ sends' = sends + 1
        /\ Messages' = [Messages EXCEPT ![p] = Append(@, 0)]
        /\ UNCHANGED <<Identities, ActiveProfile, Contacts, Sessions, ActiveConns, Mode, RelayAddr,
                       conn, job, settings, sealed, written, overtaken, raced>>
    BY <1>15 DEF handleMessages, AddMessage, Goto
  <2>2. sends \in 0 .. MaxSends /\ sends' \in 0 .. MaxSends
    <3>1. sends \in 0 .. MaxSends
      BY <1>0 DEF TypeOK
    <3> QED BY <2>1, <3>1
  <2>3. Messages' \in [Peers -> Seq(Numbers)]
    <3>1. Messages \in [Peers -> Seq(Numbers)] /\ 0 \in Numbers
      BY <1>0 DEF TypeOK, Numbers
    <3> QED BY <2>1, <3>1
  <2>4. TypeOK'
    BY <1>0, <2>1, <2>2, <2>3 DEF TypeOK, Labels
  <2>5. JobOK'
    BY <1>0, <2>1 DEF JobOK, Sending, Connected
  <2>6. Counted'
    <3>1. Encrypting' = Encrypting
      BY <1>0, <2>1 DEF Encrypting
    <3>2. IsFiniteSet(Encrypting) /\ Cardinality(Encrypting) <= sends
      BY DEF TInv, Counted
    <3>3. Cardinality(Encrypting) \in Nat
      BY <3>2, FS_CardinalityType
    <3>4. ASSUME NEW q \in DOMAIN Sessions
          PROVE  Sessions[q].outSequence + Cardinality(Encrypting) <= sends'
      <4>1. Sessions[q].outSequence + Cardinality(Encrypting) <= sends
        BY DEF TInv, Counted
      <4>2. Sessions[q].outSequence \in Numbers
        BY <1>0 DEF TypeOK
      <4> QED BY <2>1, <2>2, <3>3, <4>1, <4>2 DEF Numbers
    <3>5. Cardinality(Encrypting) <= sends'
      BY <2>1, <2>2, <3>2, <3>3
    <3> QED BY <2>1, <3>1, <3>2, <3>4, <3>5 DEF Counted
  <2> QED BY <2>4, <2>5, <2>6 DEF TInv
<1>16. ASSUME NEW t \in Threads, NEW payload, PeerPub(payload) \in Peers, NEW pin,
              handlePairOpen(t, payload, pin)
       PROVE  TInv'
  <2>1. /\ pc[t] = "idle" /\ pc' = [pc EXCEPT ![t] = "save"] /\ Setting
        /\ job' = [job EXCEPT ![t].peer = PeerPub(payload)]
        /\ UNCHANGED <<Identities, ActiveProfile, Contacts, Sessions, Messages, ActiveConns, Mode,
                       RelayAddr, conn, sends, sealed, written, overtaken, raced>>
    BY <1>16 DEF handlePairOpen, Goto
  <2>2. settings' \in 0 .. MaxSettings
    BY <1>0, <2>1, SettingOK
  <2>3. job' \in [Threads -> Jobs]
    BY <1>0, <1>16, <2>1, JobUpdates
  <2>4. TypeOK'
    BY <1>0, <2>1, <2>2, <2>3 DEF TypeOK, Jobs, Labels
  <2>5. JobOK'
    BY <1>0, <1>16, <2>1 DEF JobOK, Sending, Connected, Jobs
  <2>6. Counted'
    BY <1>0, <2>1 DEF TInv, Counted, Encrypting
  <2> QED BY <2>4, <2>5, <2>6 DEF TInv
<1>17. ASSUME NEW mode \in Modes, NEW addr \in {"", "relay"}, SetConnectionMode(mode, addr)
       PROVE  TInv'
  <2>1. settings' \in 0 .. MaxSettings
    BY <1>0, <1>17, SettingOK DEF SetConnectionMode
  <2>2. TypeOK'
    BY <1>0, <1>17, <2>1 DEF SetConnectionMode, TypeOK, Addresses
  <2>3. JobOK'
    BY <1>0, <1>17 DEF SetConnectionMode, JobOK
  <2>4. Counted'
    BY <1>17 DEF SetConnectionMode, TInv, Counted, Encrypting
  <2> QED BY <2>2, <2>3, <2>4 DEF TInv
<1>18. ASSUME NEW name \in Profiles, handleIdentitySwitch(name) PROVE TInv'
  <2>1. settings' \in 0 .. MaxSettings
    BY <1>0, <1>18, SettingOK DEF handleIdentitySwitch
  <2>2. TypeOK'
    BY <1>0, <1>18, <2>1 DEF handleIdentitySwitch, SwitchProfile, TypeOK
  <2>3. JobOK'
    BY <1>0, <1>18 DEF handleIdentitySwitch, SwitchProfile, JobOK
  <2>4. Counted'
    BY <1>18 DEF handleIdentitySwitch, SwitchProfile, TInv, Counted, Encrypting
  <2> QED BY <2>2, <2>3, <2>4 DEF TInv
<1>19. ASSUME NEW p \in Peers, NEW onion \in {"", "onion"}, handleContacts(p, onion) PROVE TInv'
  <2>1. settings' \in 0 .. MaxSettings
    BY <1>0, <1>19, SettingOK DEF handleContacts
  <2>2. TypeOK'
    BY <1>0, <1>19, <2>1 DEF handleContacts, SaveContact, With, TypeOK, Addresses
  <2>3. JobOK'
    BY <1>0, <1>19 DEF handleContacts, SaveContact, JobOK
  <2>4. Counted'
    BY <1>19 DEF handleContacts, SaveContact, TInv, Counted, Encrypting
  <2> QED BY <2>2, <2>3, <2>4 DEF TInv
<1>20. ASSUME NEW pin, handlePairCreate(pin) PROVE TInv'
  <2>1. settings' \in 0 .. MaxSettings
    BY <1>0, <1>20, SettingOK DEF handlePairCreate
  <2>2. TypeOK'
    BY <1>0, <1>20, <2>1 DEF handlePairCreate, TypeOK
  <2>3. JobOK' /\ Counted'
    BY <1>0, <1>20 DEF handlePairCreate, JobOK, TInv, Counted, Encrypting
  <2> QED BY <2>2, <2>3 DEF TInv
<1>21. ASSUME NEW p \in Peers, CompleteHandshake(p) PROVE TInv'
  <2>1. /\ p \in DOMAIN Sessions /\ Sessions' = [Sessions EXCEPT ![p].isEstablished = TRUE]
        /\ UNCHANGED <<Identities, ActiveProfile, Contacts, Messages, ActiveConns, Mode, RelayAddr,
                       conn, pc, job, settings, sends, sealed, written, overtaken, raced>>
    BY <1>21 DEF CompleteHandshake
  <2>2. /\ DOMAIN Sessions' = DOMAIN Sessions
        /\ Sessions' \in [DOMAIN Sessions' ->
                            [identity : Ids, outSequence : Numbers, isEstablished : BOOLEAN]]
        /\ \A q \in DOMAIN Sessions : Sessions'[q].outSequence = Sessions[q].outSequence
    <3>1. Sessions \in [DOMAIN Sessions ->
                            [identity : Ids, outSequence : Numbers, isEstablished : BOOLEAN]]
      BY <1>0 DEF TypeOK
    <3> QED BY <2>1, <3>1
  <2>3. TypeOK'
    BY <1>0, <2>1, <2>2 DEF TypeOK
  <2>4. JobOK'
    BY <1>0, <2>1, <2>2 DEF JobOK
  <2>5. Counted'
    BY <2>1, <2>2 DEF TInv, Counted, Encrypting
  <2> QED BY <2>3, <2>4, <2>5 DEF TInv
<1>22. ASSUME NEW c \in Conns, Break(c) PROVE TInv'
  BY <1>0, <1>22 DEF Break, TypeOK, JobOK, TInv, Counted, Encrypting
<1>23. CASE UNCHANGED vars
  BY <1>0, <1>23 DEF vars, TypeOK, JobOK, TInv, Counted, Encrypting
<1> QED
  BY <1>1, <1>2, <1>3, <1>4, <1>5, <1>6, <1>7, <1>8, <1>9, <1>10, <1>11, <1>12, <1>13, <1>14,
     <1>15, <1>16, <1>17, <1>18, <1>19, <1>20, <1>21, <1>22, <1>23
  DEF AppNext, appVars, Handler, Call, Step, Palagos_SendMessage, Palagos_PairOpen, handleMode,
      Palagos_SetMode, Palagos_SaveContact, Palagos_PairCreate, PeerCreates, PeerOpens

\* NewManager gives types, no calls and no session.
LEMMA InitTInv == AppInit => TInv
<1> SUFFICES ASSUME Init PROVE TInv
  BY DEF AppInit
<1>1. Identities \in [DOMAIN Identities -> Ids] /\ DOMAIN Identities = {Default}
  <2>1. 1 \in Ids
    BY ManagerAssumption DEF Ids
  <2>2. Identities = [n \in {Default} |-> 1]
    BY DEF Init
  <2> QED BY <2>1, <2>2
<1>2. NoJob \in Jobs /\ job \in [Threads -> Jobs]
  BY DEF Init, Jobs, NoJob, Numbers, Addresses
<1>3. Messages \in [Peers -> Seq(Numbers)]
  <2>1. Messages = [p \in Peers |-> <<>>]
    BY DEF Init
  <2>2. <<>> \in Seq(Numbers)
    OBVIOUS
  <2> QED BY <2>1, <2>2
<1>4. Contacts = <<>> /\ Sessions = <<>> /\ ActiveConns = <<>>
  BY DEF Init
<1>5. DOMAIN Contacts = {} /\ DOMAIN Sessions = {} /\ DOMAIN ActiveConns = {}
  <2>1. DOMAIN <<>> = {}
    OBVIOUS
  <2> QED BY <1>4, <2>1
<1>6. /\ Contacts \in [DOMAIN Contacts -> Addresses]
      /\ Sessions \in [DOMAIN Sessions ->
                         [identity : Ids, outSequence : Numbers, isEstablished : BOOLEAN]]
      /\ ActiveConns \in [DOMAIN ActiveConns -> Conns]
  <2>1. ASSUME NEW S PROVE <<>> \in [{} -> S]
    OBVIOUS
  <2> QED BY <1>4, <1>5, <2>1
<1>7. pc = [t \in Threads |-> "idle"] /\ conn = [c \in Conns |-> "unused"]
      /\ ActiveProfile = Default /\ Mode = "relay"
      /\ RelayAddr = "" /\ settings = 0 /\ sends = 0 /\ sealed = {} /\ written = {}
      /\ overtaken = {} /\ raced = {}
  BY DEF Init
<1>8. settings \in 0 .. MaxSettings /\ sends \in 0 .. MaxSends
  <2>1. settings = 0 /\ sends = 0
    BY DEF Init
  <2> QED BY <2>1, ManagerAssumption
<1>9. TypeOK
  BY <1>1, <1>2, <1>3, <1>5, <1>6, <1>7, <1>8, ManagerAssumption
  DEF TypeOK, Jobs, Labels, Addresses, Modes
<1>10. JobOK
  BY <1>7 DEF JobOK, Sending, Connected
<1>11. Counted
  <2>1. Encrypting = {}
    BY <1>7 DEF Encrypting
  <2>2. sends = 0
    BY DEF Init
  <2>3. IsFiniteSet(Encrypting) /\ Cardinality(Encrypting) = 0
    BY <2>1, FS_EmptySet
  <2> QED BY <1>5, <2>2, <2>3 DEF Counted
<1> QED BY <1>9, <1>10, <1>11 DEF TInv

\* The types of the client's state, also of the numbers and the local variables of calls that
\* run at the same time (manager.go:19-58, 198-259).
THEOREM ClientTypeCorrect == AppSpec => []TypeOK
<1>1. AppSpec => []TInv
  BY InitTInv, NextTInv, PTL DEF AppSpec
<1>2. TInv => TypeOK
  BY DEF TInv
<1> QED BY <1>1, <1>2, PTL

-----------------------------------------------------------------------------
(* Sessions: who signs, and which numbers are used.                        *)

\* Only SendTextMessage creates a session, only EncryptMessage takes its numbers, and only
\* the handshake changes it besides.
LEMMA SessionSteps ==
    ASSUME [AppNext]_appVars
    PROVE  \/ \E t \in Threads : Encrypt(t)
           \/ \E t \in Threads, p \in Peers, size \in Sizes : SendTextMessage(t, p, size)
           \/ \E p \in Peers : CompleteHandshake(p)
           \/ UNCHANGED <<Sessions, sealed>>
<1> USE DEF managerVars
<1>1. ASSUME NEW t \in Threads, Handler(t) PROVE Encrypt(t) \/ UNCHANGED <<Sessions, sealed>>
  BY <1>1 DEF Handler, Call, Step, Lookup, Dial, DialFails, Store, Send, SendFails, CloseConn,
      Record, Notify, handleIdentityCreated, SwitchProfile, handlePairSave, SaveContact
<1>2. ASSUME NEW t \in Threads, NEW p \in Peers, handleMessages(t, p)
      PROVE  UNCHANGED <<Sessions, sealed>>
  BY <1>2 DEF handleMessages
<1>3. ASSUME NEW t \in Threads, NEW name \in Profiles, handleIdentityCreate(t, name)
      PROVE  UNCHANGED <<Sessions, sealed>>
  BY <1>3 DEF handleIdentityCreate, AddIdentityProfile
<1>4. ASSUME NEW t \in Threads, NEW payload, NEW pin, handlePairOpen(t, payload, pin)
      PROVE  UNCHANGED <<Sessions, sealed>>
  BY <1>4 DEF handlePairOpen
<1>5. ASSUME NEW mode \in Modes, NEW addr \in {"", "relay"}, SetConnectionMode(mode, addr)
      PROVE  UNCHANGED <<Sessions, sealed>>
  BY <1>5 DEF SetConnectionMode
<1>6. ASSUME NEW name \in Profiles, handleIdentitySwitch(name) PROVE UNCHANGED <<Sessions, sealed>>
  BY <1>6 DEF handleIdentitySwitch, SwitchProfile
<1>7. ASSUME NEW p \in Peers, NEW onion \in {"", "onion"}, handleContacts(p, onion)
      PROVE  UNCHANGED <<Sessions, sealed>>
  BY <1>7 DEF handleContacts, SaveContact
<1>8. ASSUME NEW pin, handlePairCreate(pin) PROVE UNCHANGED <<Sessions, sealed>>
  BY <1>8 DEF handlePairCreate
<1>9. ASSUME NEW c \in Conns, Break(c) PROVE UNCHANGED <<Sessions, sealed>>
  BY <1>9 DEF Break
<1>10. CASE UNCHANGED vars
  BY <1>10 DEF vars
<1> QED
  BY <1>1, <1>2, <1>3, <1>4, <1>5, <1>6, <1>7, <1>8, <1>9, <1>10
  DEF AppNext, appVars, Palagos_SendMessage, Palagos_PairOpen, handleMode, Palagos_SetMode,
      Palagos_SaveContact, Palagos_PairCreate, PeerCreates, PeerOpens

\* A session stays, with the identity it was created with and numbers that only grow.
LEMMA SessionsGrow ==
    ASSUME TInv, [AppNext]_appVars, NEW p \in DOMAIN Sessions
    PROVE  /\ p \in DOMAIN Sessions'
           /\ Sessions'[p].identity = Sessions[p].identity
           /\ Sessions[p].outSequence \in Nat /\ Sessions'[p].outSequence \in Nat
           /\ Sessions[p].outSequence <= Sessions'[p].outSequence
<1> DEFINE S == [identity : Ids, outSequence : Numbers, isEstablished : BOOLEAN]
<1>1. Sessions \in [DOMAIN Sessions -> S]
  BY DEF TInv, TypeOK
<1>2. Numbers \subseteq Nat
  BY ManagerAssumption DEF Numbers
<1>3. Sessions[p].outSequence \in Nat
  BY <1>1, <1>2
<1>4. ASSUME NEW t \in Threads, Encrypt(t)
      PROVE  /\ p \in DOMAIN Sessions'
             /\ Sessions'[p].identity = Sessions[p].identity
             /\ Sessions'[p].outSequence \in {Sessions[p].outSequence, Sessions[p].outSequence + 1}
  BY <1>4, EncryptSessions
<1>5. ASSUME NEW t \in Threads, NEW q \in Peers, NEW size \in Sizes, SendTextMessage(t, q, size)
      PROVE  p \in DOMAIN Sessions' /\ Sessions'[p] = Sessions[p]
  BY <1>5 DEF SendTextMessage, GetOrCreateSession, With
<1>6. ASSUME NEW q \in Peers, CompleteHandshake(q)
      PROVE  /\ p \in DOMAIN Sessions'
             /\ Sessions'[p].identity = Sessions[p].identity
             /\ Sessions'[p].outSequence = Sessions[p].outSequence
  BY <1>1, <1>6 DEF CompleteHandshake
<1> HIDE DEF S
<1> QED BY <1>3, <1>4, <1>5, <1>6, SessionSteps

SInv == SealedBySession /\ OneSignerPerPeer

\* Every step keeps what is sealed with the session and the number it was sealed with.
LEMMA NextSInv == TInv /\ SInv /\ [AppNext]_appVars => SInv'
<1> SUFFICES ASSUME TInv, SInv, [AppNext]_appVars PROVE SInv'
  OBVIOUS
<1>1. sealed \subseteq [peer : Peers, seq : Numbers, signer : Ids] /\ Numbers \subseteq Nat
  <2>1. sealed \subseteq [peer : Peers, seq : Numbers, signer : Ids]
    BY DEF TInv, TypeOK
  <2>2. Numbers \subseteq Nat
    BY ManagerAssumption DEF Numbers
  <2> QED BY <2>1, <2>2
<1>2. ASSUME NEW m \in sealed
      PROVE  /\ m.peer \in DOMAIN Sessions'
             /\ m.signer = Sessions'[m.peer].identity
             /\ m.seq <= Sessions'[m.peer].outSequence
  <2>1. m.peer \in DOMAIN Sessions /\ m.signer = Sessions[m.peer].identity
        /\ m.seq <= Sessions[m.peer].outSequence /\ m.seq \in Nat
    BY <1>1 DEF SInv, SealedBySession
  <2> QED BY <2>1, SessionsGrow
<1>3. CASE sealed' = sealed
  BY <1>2, <1>3 DEF SInv, SealedBySession, OneSignerPerPeer
<1>4. ASSUME NEW t \in Threads, Encrypt(t), sealed' # sealed PROVE SInv'
  <2> DEFINE p == job[t].peer
             seq == Sessions[p].outSequence + 1
             packet == [peer |-> p, seq |-> seq, signer |-> Sessions[p].identity]
  <2>1. sealed' = sealed \cup {packet} /\ Sessions' = [Sessions EXCEPT ![p].outSequence = seq]
    BY <1>4, EncryptEffect
  <2>2. p \in DOMAIN Sessions
    BY <1>4, EncryptEffect DEF TInv, JobOK, Sending
  <2>3. Sessions[p].outSequence \in Nat /\ Sessions'[p].outSequence = seq
        /\ Sessions'[p].identity = Sessions[p].identity /\ p \in DOMAIN Sessions'
    <3>1. Sessions[p] \in [identity : Ids, outSequence : Numbers, isEstablished : BOOLEAN]
      BY <2>2 DEF TInv, TypeOK
    <3> QED BY <1>1, <2>1, <2>2, <3>1
  <2>4. packet.peer = p /\ packet.seq = seq /\ packet.signer = Sessions[p].identity
    OBVIOUS
  <2> HIDE DEF packet
  <2>5. SealedBySession'
    BY <1>2, <2>1, <2>3, <2>4 DEF SealedBySession
  <2>6. ASSUME NEW m \in sealed, m.peer = p PROVE m.signer = packet.signer /\ m.seq # packet.seq
    <3>1. m.signer = Sessions[p].identity /\ m.seq <= Sessions[p].outSequence /\ m.seq \in Nat
      BY <1>1, <2>6 DEF SInv, SealedBySession
    <3> QED BY <2>3, <2>4, <3>1
  <2>7. OneSignerPerPeer'
    <3> SUFFICES ASSUME NEW m \in sealed', NEW n \in sealed', m.peer = n.peer
                 PROVE  m.signer = n.signer /\ (m.seq = n.seq => m = n)
      BY DEF OneSignerPerPeer
    <3> QED BY <2>1, <2>4, <2>6 DEF SInv, OneSignerPerPeer
  <2> QED BY <2>5, <2>7 DEF SInv
<1> QED
  <2>1. ASSUME NEW t \in Threads, NEW p \in Peers, NEW size \in Sizes, SendTextMessage(t, p, size)
        PROVE  sealed' = sealed
    BY <2>1 DEF SendTextMessage
  <2>2. ASSUME NEW p \in Peers, CompleteHandshake(p) PROVE sealed' = sealed
    BY <2>2 DEF CompleteHandshake
  <2> QED BY <1>3, <1>4, <2>1, <2>2, SessionSteps

\* A peer gets its packets from one identity, with numbers that never repeat, whichever
\* profile is active and however many goroutines send (manager.go:184-195).
THEOREM OneSigner == AppSpec => []OneSignerPerPeer
<1>1. AppInit => TInv /\ SInv
  <2>1. AppInit => SInv
    BY DEF AppInit, Init, SInv, SealedBySession, OneSignerPerPeer
  <2> QED BY <2>1, InitTInv
<1>2. AppSpec => [](TInv /\ SInv)
  BY <1>1, NextTInv, NextSInv, PTL DEF AppSpec
<1>3. TInv /\ SInv => OneSignerPerPeer
  BY DEF SInv
<1> QED BY <1>2, <1>3, PTL

-----------------------------------------------------------------------------
(* Histories: what is recorded was sent, once.                             *)

RInv == NumbersOwned /\ HistoryUsed /\ RecordedWasSent

\* A step that gives no call a number and adds no number to a history.
Quiet ==
    /\ \A t \in Threads : pc'[t] \in Numbered =>
         /\ pc[t] \in Numbered
         /\ job'[t].peer = job[t].peer /\ job'[t].seq = job[t].seq
         /\ pc'[t] = "record" =>
              \/ pc[t] = "record"
              \/ \E w \in written' : w.peer = job[t].peer /\ w.seq = job[t].seq
    /\ written \subseteq written'
    /\ \A p \in Peers : \A i \in DOMAIN Messages'[p] : Messages'[p][i] # 0 =>
         i \in DOMAIN Messages[p] /\ Messages'[p][i] = Messages[p][i]

\* A call that has a number has a session that has used it.
LEMMA NumberedPeer ==
    ASSUME TInv, NEW t \in Threads, pc[t] \in Numbered
    PROVE  job[t].peer \in DOMAIN Sessions /\ job[t].peer \in Peers /\ job[t].seq \in Nat
<1>1. job[t].peer \in DOMAIN Sessions
  BY DEF TInv, JobOK, Numbered, Sending
<1>2. DOMAIN Sessions \subseteq Peers
  BY DEF TInv, TypeOK
<1>3. job[t].seq \in Numbers
  BY JobTyped DEF TInv, Jobs
<1> QED BY <1>1, <1>2, <1>3, ManagerAssumption DEF Numbers

\* What a history holds are natural numbers.
LEMMA HistoryNat ==
    ASSUME TInv, NEW p \in Peers, NEW i \in DOMAIN Messages[p]
    PROVE  Messages[p][i] \in Nat
<1>1. Messages[p] \in Seq(Numbers)
  BY DEF TInv, TypeOK
<1>2. Messages[p][i] \in Numbers
  BY <1>1
<1> QED BY <1>2, ManagerAssumption DEF Numbers

\* A quiet step keeps the invariant of the histories.
LEMMA QuietKeeps ==
    ASSUME TInv, RInv, [AppNext]_appVars, Quiet
    PROVE  RInv'
<1>1. NumbersOwned'
  <2> SUFFICES ASSUME NEW t \in Threads, pc'[t] \in Numbered
               PROVE  /\ job'[t].seq # 0
                      /\ job'[t].seq <= Sessions'[job'[t].peer].outSequence
                      /\ \A i \in DOMAIN Messages'[job'[t].peer] :
                           Messages'[job'[t].peer][i] # job'[t].seq
                      /\ \A u \in Threads \ {t} :
                           pc'[u] \in Numbered /\ job'[u].peer = job'[t].peer =>
                             job'[u].seq # job'[t].seq
                      /\ pc'[t] = "record" =>
                           \E w \in written' : w.peer = job'[t].peer /\ w.seq = job'[t].seq
    BY DEF NumbersOwned
  <2> DEFINE p == job[t].peer
             n == job[t].seq
  <2>1. pc[t] \in Numbered /\ job'[t].peer = p /\ job'[t].seq = n
    BY DEF Quiet
  <2>2. p \in DOMAIN Sessions /\ p \in Peers /\ n \in Nat
    BY <2>1, NumberedPeer
  <2>3. n # 0 /\ n <= Sessions[p].outSequence
    BY <2>1 DEF RInv, NumbersOwned
  <2>4. n <= Sessions'[p].outSequence
    BY <2>2, <2>3, SessionsGrow
  <2>5. \A i \in DOMAIN Messages'[p] : Messages'[p][i] # n
    BY <2>1, <2>2, <2>3 DEF Quiet, RInv, NumbersOwned
  <2>6. ASSUME NEW u \in Threads \ {t}, pc'[u] \in Numbered, job'[u].peer = p
        PROVE  job'[u].seq # n
    BY <2>1, <2>6 DEF Quiet, RInv, NumbersOwned
  <2>7. pc'[t] = "record" => \E w \in written' : w.peer = p /\ w.seq = n
    BY <2>1 DEF Quiet, RInv, NumbersOwned
  <2> QED BY <2>1, <2>3, <2>4, <2>5, <2>6, <2>7
<1>2. HistoryUsed'
  <2> SUFFICES ASSUME NEW p \in Peers, NEW i \in DOMAIN Messages'[p], Messages'[p][i] # 0
               PROVE  p \in DOMAIN Sessions' /\ Messages'[p][i] <= Sessions'[p].outSequence
    BY DEF HistoryUsed
  <2>1. i \in DOMAIN Messages[p] /\ Messages'[p][i] = Messages[p][i]
    BY DEF Quiet
  <2>2. p \in DOMAIN Sessions /\ Messages[p][i] <= Sessions[p].outSequence
    BY <2>1 DEF RInv, HistoryUsed
  <2> QED BY <2>1, <2>2, HistoryNat, SessionsGrow
<1>3. RecordedWasSent'
  BY DEF Quiet, RInv, RecordedWasSent
<1> QED BY <1>1, <1>2, <1>3 DEF RInv

\* Only EncryptMessage gives a call a number, and only AddMessage records one.
LEMMA QuietSteps ==
    ASSUME TInv, [AppNext]_appVars
    PROVE  Quiet \/ \E t \in Threads : Encrypt(t) \/ Record(t)
<1> USE DEF managerVars, callVars, Numbered
<1>0. job \in [Threads -> Jobs] /\ pc \in [Threads -> Labels] /\ NoJob \in Jobs
  BY JobTyped DEF TInv
<1>1. ASSUME NEW t \in Threads, Lookup(t) PROVE Quiet
  <2>1. UNCHANGED <<Messages, written>>
    BY <1>1 DEF Lookup
  <2> QED BY <1>1, <2>1, LookupEffect DEF Quiet
<1>2. ASSUME NEW t \in Threads, Dial(t) PROVE Quiet
  <2>1. PICK c \in Conns : job' = [job EXCEPT ![t].conn = c]
    BY <1>2 DEF Dial
  <2>2. pc[t] = "dial" /\ pc' = [pc EXCEPT ![t] = "store"] /\ UNCHANGED <<Messages, written>>
    BY <1>2 DEF Dial, Goto
  <2> QED BY <1>0, <2>1, <2>2 DEF Quiet, Jobs
<1>3. ASSUME NEW t \in Threads, Send(t) PROVE Quiet
  <2> DEFINE w == [peer |-> job[t].peer, seq |-> job[t].seq]
  <2>1. /\ pc[t] = "send" /\ pc' = [pc EXCEPT ![t] = "record"]
        /\ written' = written \cup {w} /\ UNCHANGED <<job, Messages>>
    BY <1>3 DEF Send, Goto
  <2>2. w.peer = job[t].peer /\ w.seq = job[t].seq
    OBVIOUS
  <2> HIDE DEF w
  <2> QED BY <1>0, <2>1, <2>2 DEF Quiet
<1>4. ASSUME NEW t \in Threads,
             DialFails(t) \/ CloseConn(t) \/ Notify(t) \/ handleIdentityCreated(t) \/ handlePairSave(t)
      PROVE  Quiet
  <2>1. Return(t) /\ UNCHANGED <<Messages, written>>
    BY <1>4 DEF DialFails, CloseConn, Notify, handleIdentityCreated, SwitchProfile,
        handlePairSave, SaveContact
  <2> QED BY <1>0, <2>1 DEF Quiet, Return, Goto
<1>5. ASSUME NEW t \in Threads, Store(t) \/ SendFails(t) PROVE Quiet
  BY <1>0, <1>5 DEF Store, SendFails, Goto, Quiet
<1>6. ASSUME NEW t \in Threads, NEW p \in Peers, NEW size \in Sizes, SendTextMessage(t, p, size)
      PROVE  Quiet
  <2>1. /\ pc' = [pc EXCEPT ![t] = "encrypt"] /\ UNCHANGED <<Messages, written>>
        /\ \A u \in Threads : u # t => job'[u] = job[u]
    BY <1>0, <1>6 DEF SendTextMessage, Goto
  <2> QED BY <1>0, <2>1 DEF Quiet
<1>7. ASSUME NEW t \in Threads, NEW name \in Profiles, handleIdentityCreate(t, name) PROVE Quiet
  <2>1. /\ pc' = [pc EXCEPT ![t] = "switch"] /\ UNCHANGED <<Messages, written>>
        /\ \A u \in Threads : u # t => job'[u] = job[u]
    BY <1>0, <1>7 DEF handleIdentityCreate, AddIdentityProfile, Goto
  <2> QED BY <1>0, <2>1 DEF Quiet
<1>8. ASSUME NEW t \in Threads, NEW payload, NEW pin, handlePairOpen(t, payload, pin) PROVE Quiet
  <2>1. /\ pc' = [pc EXCEPT ![t] = "save"] /\ UNCHANGED <<Messages, written>>
        /\ \A u \in Threads : u # t => job'[u] = job[u]
    BY <1>0, <1>8 DEF handlePairOpen, Goto
  <2> QED BY <1>0, <2>1 DEF Quiet
<1>9. ASSUME NEW t \in Threads, NEW p \in Peers, handleMessages(t, p) PROVE Quiet
  <2>1. /\ pc' = [pc EXCEPT ![t] = "notify"] /\ UNCHANGED <<job, written>>
        /\ Messages' = [Messages EXCEPT ![p] = Append(@, 0)]
    BY <1>9 DEF handleMessages, AddMessage, Goto
  <2>2. Messages \in [Peers -> Seq(Numbers)]
    BY DEF TInv, TypeOK
  <2>3. ASSUME NEW q \in Peers, NEW i \in DOMAIN Messages'[q], Messages'[q][i] # 0
        PROVE  i \in DOMAIN Messages[q] /\ Messages'[q][i] = Messages[q][i]
    <3>1. CASE q = p
      <4>1. Messages[p] \in Seq(Numbers) /\ Messages'[p] = Append(Messages[p], 0)
        BY <2>1, <2>2
      <4> QED BY <2>3, <3>1, <4>1
    <3>2. CASE q # p
      BY <2>1, <2>2, <2>3, <3>2
    <3> QED BY <3>1, <3>2
  <2> QED BY <1>0, <2>1, <2>3 DEF Quiet
<1>10. CASE UNCHANGED <<pc, job, Messages, written>>
  BY <1>10 DEF Quiet
<1>11. ASSUME NEW mode \in Modes, NEW addr \in {"", "relay"}, SetConnectionMode(mode, addr)
       PROVE  UNCHANGED <<pc, job, Messages, written>>
  BY <1>11 DEF SetConnectionMode
<1>12. ASSUME NEW name \in Profiles, handleIdentitySwitch(name)
       PROVE  UNCHANGED <<pc, job, Messages, written>>
  BY <1>12 DEF handleIdentitySwitch, SwitchProfile
<1>13. ASSUME NEW p \in Peers, NEW onion \in {"", "onion"}, handleContacts(p, onion)
       PROVE  UNCHANGED <<pc, job, Messages, written>>
  BY <1>13 DEF handleContacts, SaveContact
<1>14. ASSUME NEW pin, handlePairCreate(pin) PROVE UNCHANGED <<pc, job, Messages, written>>
  BY <1>14 DEF handlePairCreate
<1>15. ASSUME NEW p \in Peers, CompleteHandshake(p) PROVE UNCHANGED <<pc, job, Messages, written>>
  BY <1>15 DEF CompleteHandshake
<1>16. ASSUME NEW c \in Conns, Break(c) PROVE UNCHANGED <<pc, job, Messages, written>>
  BY <1>16 DEF Break
<1>17. CASE UNCHANGED vars
  BY <1>10, <1>17 DEF vars
<1> QED
  BY <1>1, <1>2, <1>3, <1>4, <1>5, <1>6, <1>7, <1>8, <1>9, <1>10, <1>11, <1>12, <1>13, <1>14,
     <1>15, <1>16, <1>17
  DEF AppNext, appVars, Handler, Call, Step, Palagos_SendMessage, Palagos_PairOpen, handleMode,
      Palagos_SetMode, Palagos_SaveContact, Palagos_PairCreate, PeerCreates, PeerOpens

\* Every step keeps the invariant of the histories.
LEMMA NextRInv == TInv /\ RInv /\ [AppNext]_appVars => RInv'
<1> SUFFICES ASSUME TInv, RInv, [AppNext]_appVars PROVE RInv'
  OBVIOUS
<1>0. job \in [Threads -> Jobs] /\ pc \in [Threads -> Labels] /\ NoJob \in Jobs
  BY JobTyped DEF TInv
<1>1. ASSUME NEW t \in Threads, Encrypt(t) PROVE RInv'
  <2> DEFINE p == job[t].peer
             seq == Sessions[p].outSequence + 1
  <2>1. UNCHANGED <<Messages, written>>
    BY <1>1, EncryptEffect
  <2>2. CASE Return(t)
    <3>1. Quiet
      BY <1>0, <2>1, <2>2 DEF Quiet, Return, Goto, Numbered
    <3> QED BY <3>1, QuietKeeps
  <2>3. CASE /\ job' = [job EXCEPT ![t].seq = seq] /\ pc' = [pc EXCEPT ![t] = "lookup"]
             /\ Sessions' = [Sessions EXCEPT ![p].outSequence = seq]
    <3>1. p \in DOMAIN Sessions /\ p \in Peers /\ Sessions[p].outSequence \in Nat
          /\ Sessions'[p].outSequence = seq
      <4>1. pc[t] = "encrypt" /\ p \in DOMAIN Sessions
        BY <1>1, EncryptEffect DEF TInv, JobOK, Sending
      <4>2. Sessions \in [DOMAIN Sessions ->
                            [identity : Ids, outSequence : Numbers, isEstablished : BOOLEAN]]
            /\ DOMAIN Sessions \subseteq Peers
        BY DEF TInv, TypeOK
      <4>3. Sessions'[p].outSequence = seq
        BY <2>3, <4>1, <4>2
      <4> QED BY <4>1, <4>2, <4>3, SessionsGrow
    <3>2. /\ pc'[t] = "lookup" /\ job'[t].peer = p /\ job'[t].seq = seq
          /\ \A u \in Threads \ {t} : pc'[u] = pc[u] /\ job'[u] = job[u]
      BY <1>0, <2>3 DEF Jobs
    <3>3. \A i \in DOMAIN Messages[p] : Messages[p][i] # seq
      <4> SUFFICES ASSUME NEW i \in DOMAIN Messages[p], Messages[p][i] # 0
                   PROVE  Messages[p][i] # seq
        BY <3>1
      <4>1. Messages[p][i] <= Sessions[p].outSequence
        BY <3>1 DEF RInv, HistoryUsed
      <4> QED BY <3>1, <4>1, HistoryNat
    <3>4. ASSUME NEW u \in Threads \ {t}, pc[u] \in Numbered
          PROVE  /\ job[u].seq # 0 /\ job[u].peer = p => job[u].seq # seq
                 /\ job[u].seq <= Sessions'[job[u].peer].outSequence
                 /\ \A i \in DOMAIN Messages[job[u].peer] : Messages[job[u].peer][i] # job[u].seq
                 /\ \A v \in Threads \ {u} :
                      pc[v] \in Numbered /\ job[v].peer = job[u].peer => job[v].seq # job[u].seq
                 /\ pc[u] = "record" =>
                      \E w \in written : w.peer = job[u].peer /\ w.seq = job[u].seq
      <4>1. job[u].peer \in DOMAIN Sessions /\ job[u].seq \in Nat
        BY <3>4, NumberedPeer
      <4>2. job[u].seq <= Sessions[job[u].peer].outSequence
        BY <3>4 DEF RInv, NumbersOwned
      <4>3. job[u].seq <= Sessions'[job[u].peer].outSequence
        BY <4>1, <4>2, SessionsGrow
      <4>4. job[u].peer = p => job[u].seq # seq
        BY <3>1, <4>1, <4>2
      <4> QED BY <3>4, <4>3, <4>4 DEF RInv, NumbersOwned
    <3> HIDE DEF seq
    <3>5. seq # 0 /\ seq <= seq
      BY <3>1 DEF seq
    <3>6. NumbersOwned'
      <4> SUFFICES ASSUME NEW u \in Threads, pc'[u] \in Numbered
                   PROVE  /\ job'[u].seq # 0
                          /\ job'[u].seq <= Sessions'[job'[u].peer].outSequence
                          /\ \A i \in DOMAIN Messages[job'[u].peer] :
                               Messages[job'[u].peer][i] # job'[u].seq
                          /\ \A v \in Threads \ {u} :
                               pc'[v] \in Numbered /\ job'[v].peer = job'[u].peer =>
                                 job'[v].seq # job'[u].seq
                          /\ pc'[u] = "record" =>
                               \E w \in written : w.peer = job'[u].peer /\ w.seq = job'[u].seq
        BY <2>1 DEF NumbersOwned
      <4>1. CASE u = t
        BY <3>1, <3>2, <3>3, <3>4, <3>5, <4>1
      <4>2. CASE u # t
        <5>1. pc[u] \in Numbered /\ job'[u] = job[u] /\ pc'[u] = pc[u]
          BY <3>2, <4>2
        <5>2. ASSUME NEW v \in Threads \ {u}, pc'[v] \in Numbered, job'[v].peer = job[u].peer
              PROVE  job'[v].seq # job[u].seq
          <6>1. CASE v = t
            BY <3>2, <3>4, <4>2, <5>1, <5>2, <6>1 DEF RInv, NumbersOwned
          <6>2. CASE v # t
            BY <3>2, <3>4, <4>2, <5>1, <5>2, <6>2
          <6> QED BY <6>1, <6>2
        <5> QED BY <3>4, <4>2, <5>1, <5>2 DEF RInv, NumbersOwned
      <4> QED BY <4>1, <4>2
    <3>7. HistoryUsed'
      <4> SUFFICES ASSUME NEW q \in Peers, NEW i \in DOMAIN Messages[q], Messages[q][i] # 0
                   PROVE  q \in DOMAIN Sessions' /\ Messages[q][i] <= Sessions'[q].outSequence
        BY <2>1 DEF HistoryUsed
      <4>1. q \in DOMAIN Sessions /\ Messages[q][i] <= Sessions[q].outSequence
        BY DEF RInv, HistoryUsed
      <4> QED BY <4>1, HistoryNat, SessionsGrow
    <3>8. RecordedWasSent'
      BY <2>1 DEF RInv, RecordedWasSent
    <3> QED BY <3>6, <3>7, <3>8 DEF RInv
  <2> QED BY <1>1, <2>2, <2>3, EncryptEffect DEF Goto
<1>2. ASSUME NEW t \in Threads, Record(t) PROVE RInv'
  <2> DEFINE p == job[t].peer
             n == job[t].seq
  <2>1. /\ pc[t] = "record" /\ pc' = [pc EXCEPT ![t] = "notify"] /\ UNCHANGED <<job, Sessions, written>>
        /\ Messages' = [Messages EXCEPT ![p] = Append(Messages[p], n)]
    BY <1>2 DEF Record, AddMessage, Goto
  <2>2. p \in DOMAIN Sessions /\ p \in Peers /\ n \in Nat
    BY <2>1, NumberedPeer DEF Numbered
  <2>3. /\ n # 0 /\ n <= Sessions[p].outSequence
        /\ \A i \in DOMAIN Messages[p] : Messages[p][i] # n
        /\ \E w \in written : w.peer = p /\ w.seq = n
        /\ \A u \in Threads \ {t} : pc[u] \in Numbered /\ job[u].peer = p => job[u].seq # n
    BY <2>1 DEF RInv, NumbersOwned, Numbered
  <2>4. /\ Messages \in [Peers -> Seq(Numbers)] /\ n \in Numbers
        /\ \A q \in Peers : q # p => Messages'[q] = Messages[q]
        /\ Messages'[p] = Append(Messages[p], n)
    <3>1. Messages \in [Peers -> Seq(Numbers)]
      BY DEF TInv, TypeOK
    <3>2. n \in Numbers
      BY <1>0 DEF Jobs
    <3> QED BY <2>1, <2>2, <3>1, <3>2
  <2> HIDE DEF n
  <2>5. /\ DOMAIN Messages'[p] = DOMAIN Messages[p] \cup {Len(Messages[p]) + 1}
        /\ Len(Messages[p]) + 1 \notin DOMAIN Messages[p]
        /\ \A i \in DOMAIN Messages[p] : Messages'[p][i] = Messages[p][i]
        /\ Messages'[p][Len(Messages[p]) + 1] = n
    <3>1. Messages[p] \in Seq(Numbers)
      BY <2>2, <2>4
    <3> QED BY <2>4, <3>1
  <2>6. NumbersOwned'
    <3> SUFFICES ASSUME NEW u \in Threads, pc'[u] \in Numbered
                 PROVE  /\ job[u].seq # 0 /\ job[u].seq <= Sessions[job[u].peer].outSequence
                        /\ \A i \in DOMAIN Messages'[job[u].peer] :
                             Messages'[job[u].peer][i] # job[u].seq
                        /\ \A v \in Threads \ {u} :
                             pc'[v] \in Numbered /\ job[v].peer = job[u].peer =>
                               job[v].seq # job[u].seq
                        /\ pc'[u] = "record" =>
                             \E w \in written : w.peer = job[u].peer /\ w.seq = job[u].seq
      BY <2>1 DEF NumbersOwned
    <3>1. u # t /\ pc'[u] = pc[u] /\ \A v \in Threads : pc'[v] \in Numbered => pc[v] \in Numbered
      BY <1>0, <2>1 DEF Numbered
    <3>2. job[u].peer \in Peers
      BY <3>1, NumberedPeer
    <3>3. ASSUME NEW i \in DOMAIN Messages'[job[u].peer]
          PROVE  Messages'[job[u].peer][i] # job[u].seq
      <4>1. CASE job[u].peer = p
        BY <2>3, <2>5, <3>1, <3>3, <4>1 DEF RInv, NumbersOwned
      <4>2. CASE job[u].peer # p
        BY <2>4, <3>1, <3>2, <3>3, <4>2 DEF RInv, NumbersOwned
      <4> QED BY <4>1, <4>2
    <3> QED BY <3>1, <3>3 DEF RInv, NumbersOwned
  <2>7. HistoryUsed'
    <3> SUFFICES ASSUME NEW q \in Peers, NEW i \in DOMAIN Messages'[q], Messages'[q][i] # 0
                 PROVE  q \in DOMAIN Sessions /\ Messages'[q][i] <= Sessions[q].outSequence
      BY <2>1 DEF HistoryUsed
    <3>1. CASE q = p
      BY <2>2, <2>3, <2>5, <3>1 DEF RInv, HistoryUsed
    <3>2. CASE q # p
      BY <2>4, <3>2 DEF RInv, HistoryUsed
    <3> QED BY <3>1, <3>2
  <2>8. RecordedWasSent'
    <3> SUFFICES ASSUME NEW q \in Peers, NEW i \in DOMAIN Messages'[q], Messages'[q][i] # 0
                 PROVE  /\ \E w \in written : w.peer = q /\ w.seq = Messages'[q][i]
                        /\ \A j \in DOMAIN Messages'[q] : Messages'[q][j] = Messages'[q][i] => j = i
      BY <2>1 DEF RecordedWasSent
    <3>1. CASE q = p
      BY <2>3, <2>5, <3>1 DEF RInv, RecordedWasSent
    <3>2. CASE q # p
      BY <2>4, <3>2 DEF RInv, RecordedWasSent
    <3> QED BY <3>1, <3>2
  <2> QED BY <2>6, <2>7, <2>8 DEF RInv
<1> QED BY <1>1, <1>2, QuietSteps, QuietKeeps

\* Histories name packets that SendPacket took, each once, however calls interleave
\* (manager.go:248-256).
THEOREM RecordedOnlySent == AppSpec => []RecordedWasSent
<1>1. AppInit => RInv
  <2> SUFFICES ASSUME Init PROVE RInv
    BY DEF AppInit
  <2>1. \A p \in Peers : DOMAIN Messages[p] = {}
    <3>1. Messages = [p \in Peers |-> <<>>]
      BY DEF Init
    <3>2. DOMAIN <<>> = {}
      OBVIOUS
    <3> QED BY <3>1, <3>2
  <2>2. NumbersOwned
    BY DEF Init, NumbersOwned, Numbered
  <2> QED BY <2>1, <2>2 DEF RInv, HistoryUsed, RecordedWasSent
<1>2. AppInit => TInv /\ RInv
  BY <1>1, InitTInv
<1>3. AppSpec => [](TInv /\ RInv)
  BY <1>2, NextTInv, NextRInv, PTL DEF AppSpec
<1>4. TInv /\ RInv => RecordedWasSent
  BY DEF RInv
<1> QED BY <1>3, <1>4, PTL

-----------------------------------------------------------------------------
(* Connections: what is left open.                                         *)

DInv == UndisturbedCalls /\ ConnsAccounted

\* A step that neither dials, stores, uses nor drops a connection.
Detached ==
    /\ UNCHANGED <<conn, ActiveConns, overtaken, raced>>
    /\ \A t \in Threads :
         pc'[t] \in {"dial", "store", "send"} => pc'[t] = pc[t] /\ job'[t] = job[t]
    /\ \A t \in Threads : pc[t] \in {"store", "close"} => pc'[t] = pc[t] /\ job'[t] = job[t]

\* Such a step keeps the invariant of the connections.
LEMMA DetachedKeeps ==
    ASSUME DInv, Detached
    PROVE  DInv'
<1>1. UndisturbedCalls'
  BY DEF DInv, UndisturbedCalls, Detached
<1>2. ConnsAccounted'
  BY DEF DInv, ConnsAccounted, Accounted, Detached
<1> QED BY <1>1, <1>2 DEF DInv

\* The steps that are not detached.
Attached(t) ==
    Lookup(t) \/ Dial(t) \/ Store(t) \/ Send(t) \/ SendFails(t) \/ CloseConn(t)

\* All other steps are detached.
LEMMA DetachedSteps ==
    ASSUME TInv, [AppNext]_appVars
    PROVE  Detached \/ (\E t \in Threads : Attached(t)) \/ (\E c \in Conns : Break(c))
<1> USE DEF managerVars, callVars, raceVars
<1>0. job \in [Threads -> Jobs] /\ pc \in [Threads -> Labels] /\ NoJob \in Jobs
  BY JobTyped DEF TInv
<1>1. ASSUME NEW t \in Threads, Encrypt(t) PROVE Detached
  <2>1. /\ pc[t] = "encrypt" /\ pc'[t] \in {"idle", "lookup"}
        /\ \A u \in Threads \ {t} : pc'[u] = pc[u] /\ job'[u] = job[u]
    BY <1>0, <1>1, EncryptEffect DEF Return, Goto
  <2>2. UNCHANGED <<conn, ActiveConns, overtaken, raced>>
    BY <1>1, EncryptEffect
  <2> QED BY <1>0, <2>1, <2>2 DEF Detached
<1>2. ASSUME NEW t \in Threads,
             DialFails(t) \/ Notify(t) \/ handleIdentityCreated(t) \/ handlePairSave(t)
      PROVE  Detached
  <2>1. /\ pc[t] \in {"dial", "notify", "switch", "save"} /\ Return(t)
        /\ UNCHANGED <<conn, ActiveConns, overtaken, raced>>
    BY <1>2 DEF DialFails, Notify, handleIdentityCreated, SwitchProfile, handlePairSave, SaveContact
  <2> QED BY <1>0, <2>1 DEF Detached, Return, Goto
<1>3. ASSUME NEW t \in Threads, Record(t) PROVE Detached
  BY <1>0, <1>3 DEF Record, Goto, Detached
<1>4. ASSUME NEW t \in Threads, NEW p \in Peers, NEW size \in Sizes, SendTextMessage(t, p, size)
      PROVE  Detached
  <2>1. /\ pc[t] = "idle" /\ pc' = [pc EXCEPT ![t] = "encrypt"]
        /\ UNCHANGED <<conn, ActiveConns, overtaken, raced>>
        /\ \A u \in Threads \ {t} : job'[u] = job[u]
    BY <1>0, <1>4 DEF SendTextMessage, Goto
  <2> QED BY <1>0, <2>1 DEF Detached
<1>5. ASSUME NEW t \in Threads, NEW name \in Profiles, handleIdentityCreate(t, name) PROVE Detached
  <2>1. /\ pc[t] = "idle" /\ pc' = [pc EXCEPT ![t] = "switch"]
        /\ UNCHANGED <<conn, ActiveConns, overtaken, raced>>
        /\ \A u \in Threads \ {t} : job'[u] = job[u]
    BY <1>0, <1>5 DEF handleIdentityCreate, AddIdentityProfile, Goto
  <2> QED BY <1>0, <2>1 DEF Detached
<1>6. ASSUME NEW t \in Threads, NEW payload, NEW pin, handlePairOpen(t, payload, pin) PROVE Detached
  <2>1. /\ pc[t] = "idle" /\ pc' = [pc EXCEPT ![t] = "save"]
        /\ UNCHANGED <<conn, ActiveConns, overtaken, raced>>
        /\ \A u \in Threads \ {t} : job'[u] = job[u]
    BY <1>0, <1>6 DEF handlePairOpen, Goto
  <2> QED BY <1>0, <2>1 DEF Detached
<1>7. ASSUME NEW t \in Threads, NEW p \in Peers, handleMessages(t, p) PROVE Detached
  BY <1>0, <1>7 DEF handleMessages, Goto, Detached
<1>8. ASSUME UNCHANGED <<pc, job, conn, ActiveConns, overtaken, raced>> PROVE Detached
  BY <1>8 DEF Detached
<1>9. ASSUME NEW mode \in Modes, NEW addr \in {"", "relay"}, SetConnectionMode(mode, addr)
      PROVE  Detached
  BY <1>8, <1>9 DEF SetConnectionMode
<1>10. ASSUME NEW name \in Profiles, handleIdentitySwitch(name) PROVE Detached
  BY <1>8, <1>10 DEF handleIdentitySwitch, SwitchProfile
<1>11. ASSUME NEW p \in Peers, NEW onion \in {"", "onion"}, handleContacts(p, onion) PROVE Detached
  BY <1>8, <1>11 DEF handleContacts, SaveContact
<1>12. ASSUME NEW pin, handlePairCreate(pin) PROVE Detached
  BY <1>8, <1>12 DEF handlePairCreate
<1>13. ASSUME NEW p \in Peers, CompleteHandshake(p) PROVE Detached
  BY <1>8, <1>13 DEF CompleteHandshake
<1>14. CASE UNCHANGED vars
  BY <1>8, <1>14 DEF vars
<1> QED
  BY <1>1, <1>2, <1>3, <1>4, <1>5, <1>6, <1>7, <1>9, <1>10, <1>11, <1>12, <1>13, <1>14
  DEF AppNext, appVars, Handler, Call, Step, Attached, Palagos_SendMessage, Palagos_PairOpen,
      handleMode, Palagos_SetMode, Palagos_SaveContact, Palagos_PairCreate, PeerCreates, PeerOpens

\* A connection that a call takes out of the map is its own, or lost a race.
LEMMA DisplacedRaced ==
    ASSUME UndisturbedCalls, NEW t \in Threads, pc[t] \in {"store", "send"}, Displaces(t),
           NEW e \in Range(ActiveConns), e # job[t].conn
    PROVE  e \in raced' \/ \E q \in DOMAIN ActiveConns \ {job[t].peer} : ActiveConns[q] = e
<1>1. PICK q \in DOMAIN ActiveConns : ActiveConns[q] = e
  BY DEF Range
<1>2. CASE q = job[t].peer
  <2>1. t \in overtaken
    BY <1>1, <1>2 DEF UndisturbedCalls
  <2> QED BY <1>1, <1>2, <2>1 DEF Displaces
<1> QED BY <1>1, <1>2

\* Every step keeps the invariant of the connections.
LEMMA NextDInv == TInv /\ DInv /\ [AppNext]_appVars => DInv'
<1> SUFFICES ASSUME TInv, DInv, [AppNext]_appVars PROVE DInv'
  OBVIOUS
<1> USE DEF managerVars, callVars, raceVars
<1>0. /\ job \in [Threads -> Jobs] /\ pc \in [Threads -> Labels] /\ NoJob \in Jobs
      /\ JobOK /\ UndisturbedCalls /\ ConnsAccounted
  BY JobTyped DEF TInv, DInv
<1>1. /\ conn \in [Conns -> {"unused", "up", "broken", "closed"}]
      /\ ActiveConns \in [DOMAIN ActiveConns -> Conns]
  BY DEF TInv, TypeOK
<1>2. ASSUME NEW t \in Threads, Lookup(t) PROVE DInv'
  <2>1. UNCHANGED <<conn, ActiveConns, raced>> /\ overtaken' = overtaken \ {t}
    BY <1>2 DEF Lookup
  <2>2. UndisturbedCalls'
    BY <1>0, <1>2, <2>1, LookupEffect DEF UndisturbedCalls
  <2>3. \A u \in Threads : pc[u] \in {"store", "close"} => pc'[u] = pc[u] /\ job'[u] = job[u]
    BY <1>2, LookupEffect
  <2>4. ConnsAccounted'
    BY <1>0, <2>1, <2>3 DEF ConnsAccounted, Accounted
  <2> QED BY <2>2, <2>4 DEF DInv
<1>3. ASSUME NEW t \in Threads, Dial(t) PROVE DInv'
  <2>1. PICK c \in Conns : conn[c] = "unused" /\ conn' = [conn EXCEPT ![c] = "up"]
                           /\ job' = [job EXCEPT ![t].conn = c]
    BY <1>3 DEF Dial
  <2>2. /\ pc[t] = "dial" /\ pc' = [pc EXCEPT ![t] = "store"]
        /\ UNCHANGED <<ActiveConns, overtaken, raced>>
    BY <1>3 DEF Dial, Goto
  <2>3. /\ pc'[t] = "store" /\ job'[t].conn = c /\ job'[t].peer = job[t].peer
        /\ \A u \in Threads \ {t} : pc'[u] = pc[u] /\ job'[u] = job[u]
    BY <1>0, <2>1, <2>2 DEF Jobs
  <2>4. UndisturbedCalls'
    BY <1>0, <2>2, <2>3 DEF UndisturbedCalls
  <2>5. ConnsAccounted'
    <3> SUFFICES ASSUME NEW e \in Conns, conn'[e] \in {"up", "broken"} PROVE Accounted(e)'
      BY DEF ConnsAccounted
    <3>1. CASE e = c
      BY <2>3, <3>1 DEF Accounted
    <3>2. CASE e # c
      <4>1. Accounted(e)
        BY <1>0, <1>1, <2>1, <3>2 DEF ConnsAccounted
      <4> QED BY <2>2, <2>3, <4>1 DEF Accounted
    <3> QED BY <3>1, <3>2
  <2> QED BY <2>4, <2>5 DEF DInv
<1>4. ASSUME NEW t \in Threads, Store(t) PROVE DInv'
  <2> DEFINE p == job[t].peer
             c == job[t].conn
  <2>1. /\ pc[t] = "store" /\ pc' = [pc EXCEPT ![t] = "send"]
        /\ ActiveConns' = With(ActiveConns, p, c) /\ Displaces(t)
        /\ overtaken' = (overtaken \ {t}) \cup {u \in Threads \ {t} : job[u].peer = p}
        /\ UNCHANGED <<conn, job>>
    BY <1>4 DEF Store, Goto
  <2>2. /\ DOMAIN ActiveConns' = DOMAIN ActiveConns \cup {p} /\ ActiveConns'[p] = c
        /\ \A q \in DOMAIN ActiveConns \ {p} : ActiveConns'[q] = ActiveConns[q]
    BY <2>1 DEF With
  <2>3. pc'[t] = "send" /\ \A u \in Threads \ {t} : pc'[u] = pc[u]
    BY <1>0, <2>1
  <2>4. raced \subseteq raced'
    BY <2>1 DEF Displaces
  <2>5. UndisturbedCalls'
    <3> SUFFICES ASSUME NEW u \in Threads, u \notin overtaken'
                 PROVE  /\ pc'[u] \in {"dial", "store"} => job[u].peer \notin DOMAIN ActiveConns'
                        /\ pc'[u] = "send" /\ job[u].peer \in DOMAIN ActiveConns' =>
                             ActiveConns'[job[u].peer] = job[u].conn
      BY <2>1 DEF UndisturbedCalls
    <3>1. CASE u = t
      BY <2>2, <2>3, <3>1
    <3>2. CASE u # t
      <4>1. u \notin overtaken /\ job[u].peer # p
        BY <2>1, <3>2
      <4> QED BY <1>0, <2>2, <2>3, <3>2, <4>1 DEF UndisturbedCalls
    <3> QED BY <3>1, <3>2
  <2>6. ConnsAccounted'
    <3> SUFFICES ASSUME NEW e \in Conns, conn[e] \in {"up", "broken"} PROVE Accounted(e)'
      BY <2>1 DEF ConnsAccounted
    <3>1. CASE e = c
      BY <2>2, <3>1 DEF Accounted, Range
    <3>2. CASE e # c
      <4>1. Accounted(e)
        BY <1>0 DEF ConnsAccounted
      <4>2. CASE e \in Range(ActiveConns)
        <5>1. e \in raced' \/ \E q \in DOMAIN ActiveConns \ {p} : ActiveConns[q] = e
          BY <1>0, <2>1, <3>2, <4>2, DisplacedRaced
        <5> QED BY <2>2, <5>1 DEF Accounted, Range
      <4>3. ASSUME NEW u \in Threads, pc[u] \in {"store", "close"}, job[u].conn = e
            PROVE  Accounted(e)'
        BY <2>1, <2>3, <3>2, <4>3 DEF Accounted
      <4>4. CASE e \in raced
        BY <2>4, <4>4 DEF Accounted
      <4> QED BY <4>1, <4>2, <4>3, <4>4 DEF Accounted
    <3> QED BY <3>1, <3>2
  <2> QED BY <2>5, <2>6 DEF DInv
<1>5. ASSUME NEW t \in Threads, Send(t) PROVE DInv'
  <2>1. /\ pc[t] = "send" /\ pc' = [pc EXCEPT ![t] = "record"]
        /\ UNCHANGED <<conn, ActiveConns, job, overtaken, raced>>
    BY <1>5 DEF Send, Goto
  <2>2. UndisturbedCalls'
    BY <1>0, <2>1 DEF UndisturbedCalls
  <2>3. ConnsAccounted'
    BY <1>0, <2>1 DEF ConnsAccounted, Accounted
  <2> QED BY <2>2, <2>3 DEF DInv
<1>6. ASSUME NEW t \in Threads, SendFails(t) PROVE DInv'
  <2> DEFINE p == job[t].peer
             c == job[t].conn
  <2>1. /\ pc[t] = "send" /\ pc' = [pc EXCEPT ![t] = "close"]
        /\ ActiveConns' = Without(ActiveConns, p) /\ Displaces(t)
        /\ UNCHANGED <<conn, job, overtaken>>
    BY <1>6 DEF SendFails, Goto
  <2>2. /\ DOMAIN ActiveConns' = DOMAIN ActiveConns \ {p}
        /\ \A q \in DOMAIN ActiveConns' : ActiveConns'[q] = ActiveConns[q]
    BY <2>1 DEF Without
  <2>3. pc'[t] = "close" /\ \A u \in Threads \ {t} : pc'[u] = pc[u]
    BY <1>0, <2>1
  <2>4. raced \subseteq raced'
    BY <2>1 DEF Displaces
  <2>5. UndisturbedCalls'
    BY <1>0, <2>1, <2>2, <2>3 DEF UndisturbedCalls
  <2>6. ConnsAccounted'
    <3> SUFFICES ASSUME NEW e \in Conns, conn[e] \in {"up", "broken"} PROVE Accounted(e)'
      BY <2>1 DEF ConnsAccounted
    <3>1. CASE e = c
      BY <2>1, <2>3, <3>1 DEF Accounted
    <3>2. CASE e # c
      <4>1. Accounted(e)
        BY <1>0 DEF ConnsAccounted
      <4>2. CASE e \in Range(ActiveConns)
        <5>1. e \in raced' \/ \E q \in DOMAIN ActiveConns \ {p} : ActiveConns[q] = e
          BY <1>0, <2>1, <3>2, <4>2, DisplacedRaced
        <5> QED BY <2>2, <5>1 DEF Accounted, Range
      <4>3. ASSUME NEW u \in Threads, pc[u] \in {"store", "close"}, job[u].conn = e
            PROVE  Accounted(e)'
        BY <2>1, <2>3, <4>3 DEF Accounted
      <4>4. CASE e \in raced
        BY <2>4, <4>4 DEF Accounted
      <4> QED BY <4>1, <4>2, <4>3, <4>4 DEF Accounted
    <3> QED BY <3>1, <3>2
  <2> QED BY <2>5, <2>6 DEF DInv
<1>7. ASSUME NEW t \in Threads, CloseConn(t) PROVE DInv'
  <2> DEFINE c == job[t].conn
  <2>1. /\ pc[t] = "close" /\ pc' = [pc EXCEPT ![t] = "idle"] /\ job' = [job EXCEPT ![t] = NoJob]
        /\ conn' = [conn EXCEPT ![c] = "closed"]
        /\ UNCHANGED <<ActiveConns, overtaken, raced>>
    BY <1>7 DEF CloseConn, Return, Goto
  <2>2. c \in Conns
    BY <1>0, <2>1 DEF JobOK, Connected
  <2>3. pc'[t] = "idle" /\ \A u \in Threads \ {t} : pc'[u] = pc[u] /\ job'[u] = job[u]
    BY <1>0, <2>1
  <2>4. UndisturbedCalls'
    BY <1>0, <2>1, <2>3 DEF UndisturbedCalls
  <2>5. ConnsAccounted'
    <3> SUFFICES ASSUME NEW e \in Conns, conn'[e] \in {"up", "broken"} PROVE Accounted(e)'
      BY DEF ConnsAccounted
    <3>1. e # c /\ conn'[e] = conn[e]
      BY <1>1, <2>1, <2>2
    <3>2. Accounted(e)
      BY <1>0, <3>1 DEF ConnsAccounted
    <3> QED BY <2>1, <2>3, <3>1, <3>2 DEF Accounted
  <2> QED BY <2>4, <2>5 DEF DInv
<1>8. ASSUME NEW c \in Conns, Break(c) PROVE DInv'
  <2>1. /\ conn[c] = "up" /\ conn' = [conn EXCEPT ![c] = "broken"]
        /\ UNCHANGED <<ActiveConns, pc, job, overtaken, raced>>
    BY <1>8 DEF Break
  <2>2. \A e \in Conns : conn'[e] \in {"up", "broken"} => conn[e] \in {"up", "broken"}
    BY <1>1, <2>1
  <2>3. UndisturbedCalls'
    BY <1>0, <2>1 DEF UndisturbedCalls
  <2>4. ConnsAccounted'
    BY <1>0, <2>1, <2>2 DEF ConnsAccounted, Accounted
  <2> QED BY <2>3, <2>4 DEF DInv
<1> QED
  BY <1>0, <1>2, <1>3, <1>4, <1>5, <1>6, <1>7, <1>8, DetachedSteps, DetachedKeeps DEF Attached

\* The invariant of the connections holds in every state.
LEMMA ConnectionsInv == AppSpec => [](TInv /\ DInv)
<1>1. AppInit => DInv
  BY DEF AppInit, Init, DInv, UndisturbedCalls, ConnsAccounted
<1>2. AppInit => TInv /\ DInv
  BY <1>1, InitTInv
<1> QED BY <1>2, NextTInv, NextDInv, PTL DEF AppSpec

\* A connection is left open with nobody to use or close it only after a race: a call that
\* another one had overtaken took it out of the map (manager.go:218-245, 250).
THEOREM AbandonedOnlyByRival == AppSpec => []AbandonedOnlyByRace
<1>1. ASSUME DInv PROVE AbandonedOnlyByRace
  BY <1>1 DEF DInv, ConnsAccounted, Accounted, AbandonedOnlyByRace, Held
<1> QED BY <1>1, ConnectionsInv, PTL

-----------------------------------------------------------------------------
(* Pairing: the codes two devices show.                                    *)

PInv == OffersMade /\ CodesMatch

\* A payload is opened with the PIN it was made with, and only as it was made: the salt is
\* in the derived key, so a payload with another salt does not open.
LEMMA OpensAsMade ==
    ASSUME OffersMade, NEW me, NEW payload \in Received(me), NEW pin, Opens(payload, pin)
    PROVE  \E o \in offers :
             /\ o.payload = payload /\ o.pin = pin
             /\ PeerPub(payload) = o.creator
<1>1. PICK o \in offers : payload \in {o.payload, Damaged(o.payload, 0)}
  BY DEF Received
<1> DEFINE salt == o.payload.Salt
<1>2. /\ salt \in Nat \ {0}
      /\ o.payload = [Salt |-> salt,
                      Ciphertext |-> [key |-> [pin |-> o.pin, salt |-> salt], aad |-> salt,
                                      pub |-> o.creator]]
  BY DEF OffersMade, CreatePairingPayload, derivePairingKey
<1> HIDE DEF salt
<1>3. o.payload.Ciphertext.key = [pin |-> o.pin, salt |-> salt] /\ o.payload.Salt = salt
      /\ o.payload.Ciphertext.pub = o.creator
  BY <1>2
<1>4. payload # Damaged(o.payload, 0)
  <2> SUFFICES ASSUME payload = Damaged(o.payload, 0) PROVE FALSE
    OBVIOUS
  <2>1. payload.Salt = 0 /\ payload.Ciphertext.key = [pin |-> o.pin, salt |-> salt]
    BY <1>2, <1>3 DEF Damaged
  <2>2. [pin |-> o.pin, salt |-> salt] = [pin |-> pin, salt |-> 0]
    BY <2>1 DEF Opens, derivePairingKey
  <2>3. salt = 0
    BY <2>2
  <2> QED BY <1>2, <2>3
<1>5. payload = o.payload
  BY <1>1, <1>4
<1>6. [pin |-> o.pin, salt |-> salt] = [pin |-> pin, salt |-> salt]
  BY <1>3, <1>5 DEF Opens, derivePairingKey
<1>7. o.pin = pin
  BY <1>6
<1> QED BY <1>3, <1>5, <1>7 DEF PeerPub

\* The code the device that opens a payload shows is the one its creator computes.
LEMMA ShowingMatches ==
    ASSUME OffersMade, NEW me, NEW payload \in Received(me), NEW pin, Opens(payload, pin)
    PROVE  LET s == Showing(me, payload, pin)
           IN  \E o \in offers : /\ o.payload = s.payload /\ o.pin = s.pin
                                 /\ s.code = GenerateSAS(s.payload, o.creator, s.by, o.pin)
<1> DEFINE s == Showing(me, payload, pin)
<1>1. s.by = me /\ s.payload = payload /\ s.pin = pin /\ s.code = OpenerSAS(payload, me, pin)
  BY DEF Showing
<1>2. PICK o \in offers : o.payload = payload /\ o.pin = pin /\ PeerPub(payload) = o.creator
  BY OpensAsMade
<1>3. {me, o.creator} = {o.creator, me}
  OBVIOUS
<1>4. OpenerSAS(payload, me, pin) = GenerateSAS(payload, o.creator, me, pin)
  BY <1>2, <1>3 DEF OpenerSAS, GenerateSAS, generateSAS
<1> HIDE DEF s
<1> QED BY <1>1, <1>2, <1>4 DEF s

\* A new offer is made with a salt of its own.
LEMMA OfferMade ==
    ASSUME OffersMade, NEW creator, NEW pin, Offer(creator, pin)
    PROVE  OffersMade' /\ offers \subseteq offers'
<1> DEFINE salt == Cardinality(offers) + 1
           o == [payload |-> CreatePairingPayload(creator, pin, salt), creator |-> creator, pin |-> pin]
<1>1. offers' = offers \cup {o} /\ IsFiniteSet(offers)
  BY DEF Offer, OffersMade
<1>2. salt \in Nat \ {0}
  BY <1>1, FS_CardinalityType
<1> HIDE DEF salt
<1>3. o.payload = CreatePairingPayload(creator, pin, salt) /\ o.creator = creator /\ o.pin = pin
  OBVIOUS
<1>4. o.payload.Salt = salt
  BY <1>3 DEF CreatePairingPayload
<1> HIDE DEF o
<1>5. IsFiniteSet(offers')
  BY <1>1, FS_AddElement
<1> QED BY <1>1, <1>2, <1>3, <1>4, <1>5 DEF OffersMade

\* Every step keeps the invariant of pairing.
LEMMA NextPInv == PInv /\ [AppNext]_appVars => PInv'
<1> SUFFICES ASSUME PInv, [AppNext]_appVars PROVE PInv'
  OBVIOUS
<1>1. ASSUME UNCHANGED pairVars PROVE PInv'
  BY <1>1 DEF pairVars, PInv, OffersMade, CodesMatch
<1>2. ASSUME NEW me, NEW payload \in Received(me), NEW pin, Opens(payload, pin),
             shown' = shown \cup {Showing(me, payload, pin)}, offers' = offers
      PROVE  PInv'
  <2> DEFINE s == Showing(me, payload, pin)
  <2>1. \E o \in offers : /\ o.payload = s.payload /\ o.pin = s.pin
                          /\ s.code = GenerateSAS(s.payload, o.creator, s.by, o.pin)
    BY <1>2, ShowingMatches DEF PInv
  <2> HIDE DEF s
  <2>2. CodesMatch'
    BY <1>2, <2>1 DEF PInv, CodesMatch, s
  <2> QED BY <1>2, <2>2 DEF PInv, OffersMade
<1>3. ASSUME NEW creator, NEW pin, Offer(creator, pin), shown' = shown PROVE PInv'
  <2>1. OffersMade' /\ offers \subseteq offers'
    BY <1>3, OfferMade DEF PInv
  <2> QED BY <1>3, <2>1 DEF PInv, CodesMatch
<1>4. ASSUME NEW t \in Threads, Handler(t) PROVE PInv'
  BY <1>1, <1>4 DEF Handler, Call, handleIdentityCreated, handlePairSave
<1>5. ASSUME NEW t \in Threads, NEW name \in Profiles, handleIdentityCreate(t, name) PROVE PInv'
  BY <1>1, <1>5 DEF handleIdentityCreate
<1>6. ASSUME NEW t \in Threads, NEW p \in Peers, NEW size \in Sizes, Palagos_SendMessage(t, p, size)
      PROVE  PInv'
  BY <1>1, <1>6 DEF Palagos_SendMessage
<1>7. ASSUME NEW t \in Threads, NEW p \in Peers, handleMessages(t, p) PROVE PInv'
  BY <1>1, <1>7 DEF handleMessages
<1>8. ASSUME NEW t \in Threads, NEW payload \in Received(GetActiveIdentity), NEW pin \in Pins,
             handlePairOpen(t, payload, pin)
      PROVE  PInv'
  BY <1>2, <1>8 DEF handlePairOpen
<1>9. ASSUME NEW mode \in Modes, NEW addr \in {"", "relay"},
             handleMode(mode, addr) \/ Palagos_SetMode(mode, addr)
      PROVE  PInv'
  BY <1>1, <1>9 DEF handleMode, Palagos_SetMode
<1>10. ASSUME NEW name \in Profiles, handleIdentitySwitch(name) PROVE PInv'
  BY <1>1, <1>10 DEF handleIdentitySwitch
<1>11. ASSUME NEW p \in Peers, NEW onion \in {"", "onion"}, handleContacts(p, onion) PROVE PInv'
  BY <1>1, <1>11 DEF handleContacts
<1>12. ASSUME NEW pin \in Pins, handlePairCreate(pin) PROVE PInv'
  BY <1>3, <1>12 DEF handlePairCreate
<1>13. ASSUME NEW p \in Peers, NEW pin \in Pins, PeerCreates(p, pin) PROVE PInv'
  BY <1>3, <1>13 DEF PeerCreates
<1>14. ASSUME NEW p \in Peers, NEW pin \in Pins, NEW payload \in Received(p),
              PeerOpens(p, payload, pin)
       PROVE  PInv'
  BY <1>2, <1>14 DEF PeerOpens
<1>15. CASE UNCHANGED appVars
  BY <1>1, <1>15 DEF appVars
<1> QED
  BY <1>1, <1>4, <1>5, <1>6, <1>7, <1>8, <1>9, <1>10, <1>11, <1>12, <1>13, <1>14, <1>15
  DEF AppNext, Palagos_PairOpen, Palagos_SaveContact, Palagos_PairCreate

\* Whoever is shown a code holds the PIN and an undamaged payload, and the creator of the
\* payload computes the same code (pairing.go:136).
THEOREM CodesAlwaysMatch == AppSpec => []CodesMatch
<1>1. AppInit => PInv
  BY FS_EmptySet DEF AppInit, PInv, OffersMade, CodesMatch
<1>2. AppSpec => []PInv
  BY <1>1, NextPInv, PTL DEF AppSpec
<1>3. PInv => CodesMatch
  BY DEF PInv
<1> QED BY <1>2, <1>3, PTL
=============================================================================
