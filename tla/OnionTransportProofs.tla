------------------------- MODULE OnionTransportProofs --------------------------
(***************************************************************************)
(* Proofs about the onion transport, for any number of goroutines and      *)
(* listeners: its type invariant, that a service a control connection      *)
(* keeps alive has an open listener behind it, and that a transport used   *)
(* for one listener at a time forgets nothing that is open.                *)
(***************************************************************************)
EXTENDS OnionTransport, TLAPS

-----------------------------------------------------------------------------
(* The inductive invariant.                                                *)

\* The third failure of Authenticate ends the attempts of a call.
Attempts == \A t \in Threads : pc[t] \notin {"abort", "unbind"} => attempt[t] < Methods

\* What a call of ProvisionEphemeralOnion works on is open and its own.
ProvisionerOwns ==
    \A t \in Threads : pc[t] \in Provisioning =>
        /\ lsn[job[t]] = "open"
        /\ job[t] \notin provisioned
        /\ job[t] # listener
        /\ pc[t] = "connect" => ctl[job[t]] = "none"
        /\ pc[t] = "unbind" => ctl[job[t]] = "closed"

\* What OnionListener.Close works on was returned by ProvisionEphemeralOnion, and is the
\* transport's own service when OnionTransport.Close calls it.
CloserOwns ==
    \A t \in Threads : pc[t] \in Closing =>
        /\ job[t] \in provisioned
        /\ mu = t => job[t] = activeOnion
        /\ pc[t] = "closeListener" => ctl[job[t]] = "closed"

\* A listener that was never opened is known to nobody.
UnusedUnknown ==
    \A l \in Listeners : lsn[l] = "unused" =>
        ctl[l] = "none" /\ l \notin provisioned /\ l # listener

\* The transport's fields: a service comes from ProvisionEphemeralOnion, and a listener
\* without one from Listen.
FieldsMatch ==
    /\ activeOnion # Nil => activeOnion \in provisioned
    /\ activeOnion = Nil /\ listener # Nil => listener \notin provisioned /\ ctl[listener] = "none"
    /\ ~reused => activeOnion \in {Nil, listener}

\* A control connection that is up belongs to an open listener.
ConnectionBacked == \A l \in Listeners : ctl[l] = "open" => lsn[l] = "open"

\* Typing needs the bound on the attempts, and the rest of the invariant needs both.
TInv == TypeOK /\ Attempts

OInv ==
    /\ TInv
    /\ ProvisionerOwns
    /\ CloserOwns
    /\ UnusedUnknown
    /\ FieldsMatch
    /\ ConnectionBacked
    /\ NothingLeaked

-----------------------------------------------------------------------------
(* Typing.                                                                 *)

\* A new transport has no listener and no goroutine inside it.
LEMMA InitTInv == Init => TInv
<1> SUFFICES ASSUME Init PROVE TInv
  OBVIOUS
<1>1. service \in [Listeners -> BOOLEAN] /\ reused \in BOOLEAN
  BY DEF Init
<1>2. pc \in [Threads -> {"idle", "accept", "lock"} \cup Provisioning \cup Closing]
  BY DEF Init
<1>3. TypeOK
  BY <1>1, <1>2, OnionAssumption DEF Init, TypeOK, Methods, Addrs, Provisioning
<1>4. Attempts
  BY DEF Init, Attempts, Methods
<1> QED BY <1>3, <1>4 DEF TInv

\* Every step keeps the types, the mutex with one goroutine and the count of attempts.
LEMMA NextTInv == TInv /\ [Next]_vars => TInv'
<1> SUFFICES ASSUME TInv, [Next]_vars PROVE TInv'
  OBVIOUS
<1> USE OnionAssumption DEF TInv, TypeOK, Attempts, Methods, Provisioning, Closing,
        transportVars, torVars, callVars
<1>1. ASSUME NEW t \in Threads, NEW l \in Listeners, NEW addr \in Addrs, Listen(t, l, addr) PROVE TInv'
  BY <1>1 DEF Listen, Bind, Install
<1>2. ASSUME NEW t \in Threads, NEW l \in Listeners, NEW addr \in Addrs, Provision(t, l, addr) PROVE TInv'
  BY <1>2 DEF Provision, Bind, Goto
<1>3. ASSUME NEW t \in Threads, Connect(t) PROVE TInv'
  BY <1>3 DEF Connect, Goto
<1>4. ASSUME NEW t \in Threads, ConnectFails(t) PROVE TInv'
  BY <1>4 DEF ConnectFails, Return, Goto
<1>5. ASSUME NEW t \in Threads, AuthSucceeds(t) PROVE TInv'
  BY <1>5 DEF AuthSucceeds, Goto
<1>6. ASSUME NEW t \in Threads, AuthFails(t) PROVE TInv'
  BY <1>6 DEF AuthFails, Goto
<1>7. ASSUME NEW t \in Threads, AddOnion(t) PROVE TInv'
  BY <1>7 DEF AddOnion, Install, Return, Goto
<1>8. ASSUME NEW t \in Threads, AddOnionFails(t) PROVE TInv'
  BY <1>8 DEF AddOnionFails, Goto
<1>9. ASSUME NEW t \in Threads, Abort(t) PROVE TInv'
  BY <1>9 DEF Abort, Goto
<1>10. ASSUME NEW t \in Threads, Unbind(t) PROVE TInv'
  BY <1>10 DEF Unbind, Return, Goto
<1>11. ASSUME NEW t \in Threads, Accept(t) PROVE TInv'
  BY <1>11 DEF Accept, Goto
<1>12. ASSUME NEW t \in Threads, Accepted(t) PROVE TInv'
  BY <1>12 DEF Accepted, Return, Goto
<1>13. ASSUME NEW t \in Threads, AcceptFails(t) PROVE TInv'
  BY <1>13 DEF AcceptFails, Return, Goto
<1>14. ASSUME NEW t \in Threads, Close(t) PROVE TInv'
  BY <1>14 DEF Close, Goto
<1>15. ASSUME NEW t \in Threads, Lock(t) PROVE TInv'
  BY <1>15 DEF Lock, Return, Goto
<1>16. ASSUME NEW t \in Threads, NEW l \in Listeners, CloseOnionListener(t, l) PROVE TInv'
  BY <1>16 DEF CloseOnionListener, Goto
<1>17. ASSUME NEW t \in Threads, Destroy(t) PROVE TInv'
  <2>1. ctl' \in [Listeners -> {"none", "open", "cut", "closed"}]
    BY <1>17 DEF Destroy
  <2>2. service' \in [Listeners -> BOOLEAN]
    BY <1>17 DEF Destroy
  <2>3. /\ Goto(t, "quit") /\ pc[t] = "destroy"
        /\ UNCHANGED <<transportVars, lsn, bound, job, attempt, provisioned, reused>>
    BY <1>17 DEF Destroy
  <2> QED BY <2>1, <2>2, <2>3 DEF Goto
<1>18. ASSUME NEW t \in Threads, Quit(t) PROVE TInv'
  BY <1>18 DEF Quit, Goto
<1>19. ASSUME NEW t \in Threads, CloseListener(t) PROVE TInv'
  BY <1>19 DEF CloseListener, Return, Goto
<1>20. ASSUME NEW l \in Listeners, TorCuts(l) PROVE TInv'
  BY <1>20 DEF TorCuts
<1>21. ASSUME NEW l \in Listeners, TorRemoves(l) PROVE TInv'
  BY <1>21 DEF TorRemoves
<1>22. CASE UNCHANGED vars
  BY <1>22 DEF vars
<1> QED BY <1>1, <1>2, <1>3, <1>4, <1>5, <1>6, <1>7, <1>8, <1>9, <1>10, <1>11, <1>12, <1>13,
    <1>14, <1>15, <1>16, <1>17, <1>18, <1>19, <1>20, <1>21, <1>22 DEF Next, Step

\* The types of the model, and that ProvisionEphemeralOnion works under the mutex, which
\* only a goroutine inside ProvisionEphemeralOnion or Close holds (onion.go:105-106, 178-179).
THEOREM TypeCorrect == Spec => []TypeOK
<1>1. Spec => []TInv
  BY InitTInv, NextTInv, PTL DEF Spec
<1>2. TInv => TypeOK
  BY DEF TInv
<1> QED BY <1>1, <1>2, PTL

-----------------------------------------------------------------------------
(* Who owns which listener.                                                *)

\* At first nobody owns anything.
LEMMA InitOInv == Init => OInv
BY InitTInv, OnionAssumption DEF Init, OInv, ProvisionerOwns, CloserOwns, UnusedUnknown,
    FieldsMatch, ConnectionBacked, NothingLeaked, Provisioning, Closing

\* When the listener and the service of the transport may be replaced without reused
\* being set, there are none.
LEMMA NoneReplaced ==
    ASSUME OInv, NEW l, Install(l), ~reused'
    PROVE  listener = Nil /\ activeOnion = Nil /\ ~reused
BY DEF OInv, Install, FieldsMatch

\* Every step keeps the invariant.
LEMMA NextOInv == OInv /\ [Next]_vars => OInv'
<1> SUFFICES ASSUME OInv, [Next]_vars PROVE OInv'
  OBVIOUS
<1>0. TInv /\ TInv'
  BY NextTInv DEF OInv
<1> USE OnionAssumption DEF OInv, Provisioning, Closing, transportVars, torVars, callVars
<1>1. ASSUME NEW t \in Threads, NEW l \in Listeners, NEW addr \in Addrs, Listen(t, l, addr) PROVE OInv'
  <2>1. ProvisionerOwns'
    BY <1>0, <1>1 DEF Listen, Bind, Install, TInv, TypeOK, ProvisionerOwns, CloserOwns,
        UnusedUnknown, FieldsMatch
  <2>2. CloserOwns'
    BY <1>0, <1>1 DEF Listen, Bind, Install, TInv, TypeOK, CloserOwns, ProvisionerOwns,
        FieldsMatch
  <2>3. UnusedUnknown'
    BY <1>0, <1>1 DEF Listen, Bind, Install, TInv, TypeOK, UnusedUnknown, ProvisionerOwns,
        CloserOwns
  <2>4. FieldsMatch'
    BY <1>0, <1>1 DEF Listen, Bind, Install, TInv, TypeOK, FieldsMatch, ProvisionerOwns,
        CloserOwns, UnusedUnknown
  <2>5. ConnectionBacked'
    BY <1>0, <1>1 DEF Listen, Bind, Install, TInv, TypeOK, ConnectionBacked, ProvisionerOwns,
        CloserOwns, FieldsMatch, UnusedUnknown
  <2>6. NothingLeaked'
    <3> SUFFICES ASSUME ~reused', NEW m \in Listeners, m # l,
                           lsn'[m] = "open" \/ ctl'[m] \in {"open", "cut"}
                    PROVE  InHand(m)'
      BY <1>0, <1>1 DEF Listen, Install, NothingLeaked
    <3>1. listener = Nil /\ activeOnion = Nil /\ ~reused
      BY <1>1, NoneReplaced DEF Listen
    <3>2. InHand(m)
      BY <1>0, <1>1, <3>1 DEF Listen, Bind, Install, TInv, TypeOK, NothingLeaked
    <3> QED BY <1>0, <1>1, <3>2 DEF Listen, Bind, Install, InHand, TInv, TypeOK
  <2> QED BY <1>0, <2>1, <2>2, <2>3, <2>4, <2>5, <2>6
<1>2. ASSUME NEW t \in Threads, NEW l \in Listeners, NEW addr \in Addrs, Provision(t, l, addr) PROVE OInv'
  <2>1. ProvisionerOwns'
    BY <1>0, <1>2 DEF Provision, Bind, Goto, TInv, TypeOK, ProvisionerOwns, CloserOwns,
        UnusedUnknown, FieldsMatch
  <2>2. CloserOwns'
    BY <1>0, <1>2 DEF Provision, Bind, Goto, TInv, TypeOK, CloserOwns, ProvisionerOwns,
        FieldsMatch
  <2>3. UnusedUnknown'
    BY <1>0, <1>2 DEF Provision, Bind, Goto, TInv, TypeOK, UnusedUnknown, ProvisionerOwns,
        CloserOwns
  <2>4. FieldsMatch'
    BY <1>0, <1>2 DEF Provision, Bind, Goto, TInv, TypeOK, FieldsMatch, ProvisionerOwns,
        CloserOwns, UnusedUnknown
  <2>5. ConnectionBacked'
    BY <1>0, <1>2 DEF Provision, Bind, Goto, TInv, TypeOK, ConnectionBacked, ProvisionerOwns,
        CloserOwns, FieldsMatch, UnusedUnknown
  <2>6. NothingLeaked'
    BY <1>0, <1>2 DEF Provision, Bind, Goto, TInv, TypeOK, NothingLeaked, InHand,
        FieldsMatch, ProvisionerOwns, CloserOwns
  <2> QED BY <1>0, <2>1, <2>2, <2>3, <2>4, <2>5, <2>6
<1>3. ASSUME NEW t \in Threads, Connect(t) PROVE OInv'
  BY <1>0, <1>3 DEF Connect, Goto, TInv, TypeOK, ProvisionerOwns, CloserOwns, UnusedUnknown,
      FieldsMatch, ConnectionBacked, NothingLeaked, InHand
<1>4. ASSUME NEW t \in Threads, ConnectFails(t) PROVE OInv'
  <2>1. ProvisionerOwns'
    BY <1>0, <1>4 DEF ConnectFails, Return, Goto, TInv, TypeOK, ProvisionerOwns, CloserOwns,
        UnusedUnknown, FieldsMatch
  <2>2. CloserOwns'
    BY <1>0, <1>4 DEF ConnectFails, Return, Goto, TInv, TypeOK, CloserOwns, ProvisionerOwns,
        FieldsMatch
  <2>3. UnusedUnknown'
    BY <1>0, <1>4 DEF ConnectFails, Return, Goto, TInv, TypeOK, UnusedUnknown,
        ProvisionerOwns, CloserOwns
  <2>4. FieldsMatch'
    BY <1>0, <1>4 DEF ConnectFails, Return, Goto, TInv, TypeOK, FieldsMatch, ProvisionerOwns,
        CloserOwns, UnusedUnknown
  <2>5. ConnectionBacked'
    BY <1>0, <1>4 DEF ConnectFails, Return, Goto, TInv, TypeOK, ConnectionBacked,
        ProvisionerOwns, CloserOwns, FieldsMatch, UnusedUnknown
  <2>6. NothingLeaked'
    BY <1>0, <1>4 DEF ConnectFails, Return, Goto, TInv, TypeOK, NothingLeaked, InHand,
        FieldsMatch, ProvisionerOwns, CloserOwns
  <2> QED BY <1>0, <2>1, <2>2, <2>3, <2>4, <2>5, <2>6
<1>5. ASSUME NEW t \in Threads, AuthSucceeds(t) PROVE OInv'
  BY <1>0, <1>5 DEF AuthSucceeds, Goto, TInv, TypeOK, ProvisionerOwns, CloserOwns,
      UnusedUnknown, FieldsMatch, ConnectionBacked, NothingLeaked, InHand
<1>6. ASSUME NEW t \in Threads, AuthFails(t) PROVE OInv'
  BY <1>0, <1>6 DEF AuthFails, Goto, TInv, TypeOK, ProvisionerOwns, CloserOwns,
      UnusedUnknown, FieldsMatch, ConnectionBacked, NothingLeaked, InHand
<1>7. ASSUME NEW t \in Threads, AddOnion(t) PROVE OInv'
  <2>1. ProvisionerOwns'
    BY <1>0, <1>7 DEF AddOnion, Install, Return, Goto, TInv, TypeOK, ProvisionerOwns,
        CloserOwns, UnusedUnknown, FieldsMatch
  <2>2. CloserOwns'
    BY <1>0, <1>7 DEF AddOnion, Install, Return, Goto, TInv, TypeOK, CloserOwns,
        ProvisionerOwns, FieldsMatch
  <2>3. UnusedUnknown'
    BY <1>0, <1>7 DEF AddOnion, Install, Return, Goto, TInv, TypeOK, UnusedUnknown,
        ProvisionerOwns, CloserOwns
  <2>4. FieldsMatch'
    BY <1>0, <1>7 DEF AddOnion, Install, Return, Goto, TInv, TypeOK, FieldsMatch,
        ProvisionerOwns, CloserOwns, UnusedUnknown
  <2>5. ConnectionBacked'
    BY <1>0, <1>7 DEF AddOnion, Install, Return, Goto, TInv, TypeOK, ConnectionBacked,
        ProvisionerOwns, CloserOwns, FieldsMatch, UnusedUnknown
  <2>6. NothingLeaked'
    <3> SUFFICES ASSUME ~reused', NEW m \in Listeners, m # job[t],
                           lsn'[m] = "open" \/ ctl'[m] \in {"open", "cut"}
                    PROVE  InHand(m)'
      BY <1>0, <1>7 DEF AddOnion, Install, NothingLeaked
    <3>1. listener = Nil /\ activeOnion = Nil /\ ~reused
      BY <1>7, NoneReplaced DEF AddOnion
    <3>2. InHand(m)
      BY <1>0, <1>7, <3>1 DEF AddOnion, Install, Return, Goto, TInv, TypeOK, NothingLeaked
    <3> QED BY <1>0, <1>7, <3>2 DEF AddOnion, Install, Return, Goto, InHand, TInv, TypeOK
  <2> QED BY <1>0, <2>1, <2>2, <2>3, <2>4, <2>5, <2>6
<1>8. ASSUME NEW t \in Threads, AddOnionFails(t) PROVE OInv'
  BY <1>0, <1>8 DEF AddOnionFails, Goto, TInv, TypeOK, ProvisionerOwns, CloserOwns,
      UnusedUnknown, FieldsMatch, ConnectionBacked, NothingLeaked, InHand
<1>9. ASSUME NEW t \in Threads, Abort(t) PROVE OInv'
  BY <1>0, <1>9 DEF Abort, Goto, TInv, TypeOK, ProvisionerOwns, CloserOwns, UnusedUnknown,
      FieldsMatch, ConnectionBacked, NothingLeaked, InHand
<1>10. ASSUME NEW t \in Threads, Unbind(t) PROVE OInv'
  <2>1. ProvisionerOwns'
    BY <1>0, <1>10 DEF Unbind, Return, Goto, TInv, TypeOK, ProvisionerOwns, CloserOwns,
        UnusedUnknown, FieldsMatch
  <2>2. CloserOwns'
    BY <1>0, <1>10 DEF Unbind, Return, Goto, TInv, TypeOK, CloserOwns, ProvisionerOwns,
        FieldsMatch
  <2>3. UnusedUnknown'
    BY <1>0, <1>10 DEF Unbind, Return, Goto, TInv, TypeOK, UnusedUnknown, ProvisionerOwns,
        CloserOwns
  <2>4. FieldsMatch'
    BY <1>0, <1>10 DEF Unbind, Return, Goto, TInv, TypeOK, FieldsMatch, ProvisionerOwns,
        CloserOwns, UnusedUnknown
  <2>5. ConnectionBacked'
    BY <1>0, <1>10 DEF Unbind, Return, Goto, TInv, TypeOK, ConnectionBacked, ProvisionerOwns,
        CloserOwns, FieldsMatch, UnusedUnknown
  <2>6. NothingLeaked'
    BY <1>0, <1>10 DEF Unbind, Return, Goto, TInv, TypeOK, NothingLeaked, InHand,
        FieldsMatch, ProvisionerOwns, CloserOwns
  <2> QED BY <1>0, <2>1, <2>2, <2>3, <2>4, <2>5, <2>6
<1>11. ASSUME NEW t \in Threads, Accept(t) PROVE OInv'
  BY <1>0, <1>11 DEF Accept, Goto, TInv, TypeOK, ProvisionerOwns, CloserOwns, UnusedUnknown,
      FieldsMatch, ConnectionBacked, NothingLeaked, InHand
<1>12. ASSUME NEW t \in Threads, Accepted(t) PROVE OInv'
  BY <1>0, <1>12 DEF Accepted, Return, Goto, TInv, TypeOK, ProvisionerOwns, CloserOwns,
      UnusedUnknown, FieldsMatch, ConnectionBacked, NothingLeaked, InHand
<1>13. ASSUME NEW t \in Threads, AcceptFails(t) PROVE OInv'
  BY <1>0, <1>13 DEF AcceptFails, Return, Goto, TInv, TypeOK, ProvisionerOwns, CloserOwns,
      UnusedUnknown, FieldsMatch, ConnectionBacked, NothingLeaked, InHand
<1>14. ASSUME NEW t \in Threads, Close(t) PROVE OInv'
  BY <1>0, <1>14 DEF Close, Goto, TInv, TypeOK, ProvisionerOwns, CloserOwns, UnusedUnknown,
      FieldsMatch, ConnectionBacked, NothingLeaked, InHand
<1>15. ASSUME NEW t \in Threads, Lock(t) PROVE OInv'
  <2>1. ProvisionerOwns'
    BY <1>0, <1>15 DEF Lock, Return, Goto, TInv, TypeOK, ProvisionerOwns, CloserOwns,
        UnusedUnknown, FieldsMatch
  <2>2. CloserOwns'
    BY <1>0, <1>15 DEF Lock, Return, Goto, TInv, TypeOK, CloserOwns, ProvisionerOwns,
        FieldsMatch
  <2>3. UnusedUnknown'
    BY <1>0, <1>15 DEF Lock, Return, Goto, TInv, TypeOK, UnusedUnknown, ProvisionerOwns,
        CloserOwns
  <2>4. FieldsMatch'
    BY <1>0, <1>15 DEF Lock, Return, Goto, TInv, TypeOK, FieldsMatch, ProvisionerOwns,
        CloserOwns, UnusedUnknown
  <2>5. ConnectionBacked'
    BY <1>0, <1>15 DEF Lock, Return, Goto, TInv, TypeOK, ConnectionBacked, ProvisionerOwns,
        CloserOwns, FieldsMatch, UnusedUnknown
  <2>6. NothingLeaked'
    BY <1>0, <1>15 DEF Lock, Return, Goto, TInv, TypeOK, NothingLeaked, InHand, FieldsMatch,
        ProvisionerOwns, CloserOwns
  <2> QED BY <1>0, <2>1, <2>2, <2>3, <2>4, <2>5, <2>6
<1>16. ASSUME NEW t \in Threads, NEW l \in Listeners, CloseOnionListener(t, l) PROVE OInv'
  BY <1>0, <1>16 DEF CloseOnionListener, Goto, TInv, TypeOK, ProvisionerOwns, CloserOwns,
      UnusedUnknown, FieldsMatch, ConnectionBacked, NothingLeaked, InHand
<1>17. ASSUME NEW t \in Threads, Destroy(t) PROVE OInv'
  BY <1>0, <1>17 DEF Destroy, Goto, TInv, TypeOK, ProvisionerOwns, CloserOwns, UnusedUnknown,
      FieldsMatch, ConnectionBacked, NothingLeaked, InHand
<1>18. ASSUME NEW t \in Threads, Quit(t) PROVE OInv'
  BY <1>0, <1>18 DEF Quit, Goto, TInv, TypeOK, ProvisionerOwns, CloserOwns, UnusedUnknown,
      FieldsMatch, ConnectionBacked, NothingLeaked, InHand
<1>19. ASSUME NEW t \in Threads, CloseListener(t) PROVE OInv'
  <2>1. ProvisionerOwns'
    BY <1>0, <1>19 DEF CloseListener, Return, Goto, TInv, TypeOK, ProvisionerOwns,
        CloserOwns, UnusedUnknown, FieldsMatch
  <2>2. CloserOwns'
    BY <1>0, <1>19 DEF CloseListener, Return, Goto, TInv, TypeOK, CloserOwns,
        ProvisionerOwns, FieldsMatch
  <2>3. UnusedUnknown'
    BY <1>0, <1>19 DEF CloseListener, Return, Goto, TInv, TypeOK, UnusedUnknown,
        ProvisionerOwns, CloserOwns
  <2>4. FieldsMatch'
    BY <1>0, <1>19 DEF CloseListener, Return, Goto, TInv, TypeOK, FieldsMatch,
        ProvisionerOwns, CloserOwns, UnusedUnknown
  <2>5. ConnectionBacked'
    BY <1>0, <1>19 DEF CloseListener, Return, Goto, TInv, TypeOK, ConnectionBacked,
        ProvisionerOwns, CloserOwns, FieldsMatch, UnusedUnknown
  <2>6. NothingLeaked'
    BY <1>0, <1>19 DEF CloseListener, Return, Goto, TInv, TypeOK, NothingLeaked, InHand,
        FieldsMatch, ProvisionerOwns, CloserOwns
  <2> QED BY <1>0, <2>1, <2>2, <2>3, <2>4, <2>5, <2>6
<1>20. ASSUME NEW l \in Listeners, TorCuts(l) PROVE OInv'
  BY <1>0, <1>20 DEF TorCuts, TInv, TypeOK, ProvisionerOwns, CloserOwns, UnusedUnknown,
      FieldsMatch, ConnectionBacked, NothingLeaked, InHand
<1>21. ASSUME NEW l \in Listeners, TorRemoves(l) PROVE OInv'
  BY <1>0, <1>21 DEF TorRemoves, TInv, TypeOK, ProvisionerOwns, CloserOwns, UnusedUnknown,
      FieldsMatch, ConnectionBacked, NothingLeaked, InHand
<1>22. CASE UNCHANGED vars
  BY <1>0, <1>22 DEF vars, ProvisionerOwns, CloserOwns, UnusedUnknown, FieldsMatch,
      ConnectionBacked, NothingLeaked, InHand
<1> QED BY <1>1, <1>2, <1>3, <1>4, <1>5, <1>6, <1>7, <1>8, <1>9, <1>10, <1>11, <1>12, <1>13,
    <1>14, <1>15, <1>16, <1>17, <1>18, <1>19, <1>20, <1>21, <1>22 DEF Next, Step

\* The invariant holds in every state.
LEMMA Owned == Spec => []OInv
BY InitOInv, NextOInv, PTL DEF Spec

\* Whatever Tor refuses and whoever closes, no onion service with a live control connection
\* forwards to a closed listener: OnionListener.Close and the error paths of
\* ProvisionEphemeralOnion end the connection first (onion.go:37-47, 129-146).
THEOREM ServiceAlwaysBacked == Spec => []ServiceBacked
<1>1. OInv => ServiceBacked
  BY DEF OInv, ConnectionBacked, ServiceBacked
<1> QED BY Owned, <1>1, PTL

\* A transport that is used for one listener at a time keeps no listener and no control
\* connection open that neither it nor a running call knows (onion.go:104-158, 177-195).
THEOREM NothingEverLeaks == Spec => []NothingLeaked
<1>1. OInv => NothingLeaked
  BY DEF OInv
<1> QED BY Owned, <1>1, PTL
=============================================================================
