--------------------------- MODULE OnionTransport ----------------------------
(***************************************************************************)
(* The life cycle of a listener that Tor forwards to: OnionTransport and   *)
(* OnionListener of pkg/transport/onion.go, with the commands they give    *)
(* Tor through pkg/transport/tor_control.go.  The transport's mutex mu is  *)
(* held across the network operations of ProvisionEphemeralOnion and       *)
(* Close; Accept releases it before it blocks.                             *)
(*                                                                         *)
(* The control client and the onion service a call of                      *)
(* ProvisionEphemeralOnion creates are named by the local listener it      *)
(* binds.  A command and its response are one step, since the client's     *)
(* mutex is held from one to the other.  Tor is external: it may refuse a  *)
(* command or drop the connection at any time, and it removes a service    *)
(* when it finds the control connection that created it gone.              *)
(***************************************************************************)
EXTENDS Naturals, FiniteSets

CONSTANTS Threads,    \* goroutines that use the transport
          Listeners,  \* listeners that can be opened, each used once
          Nil

ASSUME OnionAssumption == Nil \notin Threads \cup Listeners

VARIABLES
    mu,           \* the goroutine that holds the transport's mutex
    listener,     \* OnionTransport.listener
    activeOnion,  \* OnionTransport.activeOnion, named by its listener
    lsn,          \* a net.Listener: "unused", "open" or "closed"
    bound,        \* the address it is bound to
    ctl,          \* its control connection: "none", "open", "cut" (by Tor) or "closed"
    service,      \* whether Tor holds its onion service
    pc,           \* where a goroutine is
    job,          \* the listener a goroutine is working on
    attempt,      \* Authenticate: how many of the three methods have failed
    provisioned,  \* history: the OnionListeners ProvisionEphemeralOnion returned
    reused        \* history: a listener was opened while another one was active

transportVars == <<mu, listener, activeOnion>>
torVars == <<ctl, service>>
callVars == <<pc, job, attempt>>
vars == <<transportVars, lsn, bound, torVars, callVars, provisioned, reused>>

Methods == 3               \* null, cookie and password authentication
Addrs == {"any", "fixed"}  \* port 0, or one address that only one listener can have

Init ==
    /\ mu = Nil
    /\ listener = Nil
    /\ activeOnion = Nil
    /\ lsn = [l \in Listeners |-> "unused"]
    /\ bound = [l \in Listeners |-> "any"]
    /\ ctl = [l \in Listeners |-> "none"]
    /\ service = [l \in Listeners |-> FALSE]
    /\ pc = [t \in Threads |-> "idle"]
    /\ job = [t \in Threads |-> Nil]
    /\ attempt = [t \in Threads |-> 0]
    /\ provisioned = {}
    /\ reused = FALSE

Goto(t, label) == pc' = [pc EXCEPT ![t] = label]

\* A method returns; a goroutine that holds the mutex releases it.
Return(t) ==
    /\ Goto(t, "idle")
    /\ job' = [job EXCEPT ![t] = Nil]
    /\ attempt' = [attempt EXCEPT ![t] = 0]
    /\ mu' = IF mu = t THEN Nil ELSE mu

\* net.ListenConfig.Listen on addr succeeds and gives l.
Bind(l, addr) ==
    /\ lsn[l] = "unused"
    /\ addr = "fixed" => \A m \in Listeners : ~(lsn[m] = "open" /\ bound[m] = addr)
    /\ lsn' = [lsn EXCEPT ![l] = "open"]
    /\ bound' = [bound EXCEPT ![l] = addr]

\* The transport gets a new listener; the one it had is forgotten.
Install(l) ==
    /\ listener' = l
    /\ reused' = (reused \/ listener # Nil)

-----------------------------------------------------------------------------
\* Listen; it holds the mutex throughout and waits for nobody.
Listen(t, l, addr) ==
    /\ pc[t] = "idle" /\ mu = Nil
    /\ Bind(l, addr)
    /\ Install(l)
    /\ UNCHANGED <<mu, activeOnion, torVars, callVars, provisioned>>

\* ProvisionEphemeralOnion takes the mutex and binds the local listener.
Provision(t, l, addr) ==
    /\ pc[t] = "idle" /\ mu = Nil
    /\ Bind(l, addr)
    /\ mu' = t
    /\ job' = [job EXCEPT ![t] = l]
    /\ Goto(t, "connect")
    /\ UNCHANGED <<listener, activeOnion, torVars, attempt, provisioned, reused>>

\* TorControlClient.Connect.
Connect(t) ==
    /\ pc[t] = "connect"
    /\ ctl' = [ctl EXCEPT ![job[t]] = "open"]
    /\ Goto(t, "auth")
    /\ UNCHANGED <<transportVars, lsn, bound, service, job, attempt, provisioned, reused>>

\* Mutated form: the local listener stays open.
ConnectFailsUnclosed(t) ==
    /\ pc[t] = "connect"
    /\ Return(t)
    /\ UNCHANGED <<listener, activeOnion, lsn, bound, torVars, provisioned, reused>>

ConnectFails(t) ==
    /\ pc[t] = "connect"
    /\ lsn' = [lsn EXCEPT ![job[t]] = "closed"]
    /\ Return(t)
    /\ UNCHANGED <<listener, activeOnion, bound, torVars, provisioned, reused>>

\* One of the methods of Authenticate is accepted: sendCmd gets the command out and
\* readResponse reads up to "250 OK".
AuthSucceeds(t) ==
    /\ pc[t] = "auth" /\ ctl[job[t]] = "open"
    /\ Goto(t, "add")
    /\ UNCHANGED <<transportVars, lsn, bound, torVars, job, attempt, provisioned, reused>>

\* A method is not available, or readResponse meets an error code or the end of the
\* connection; the remaining methods are tried all the same.
AuthFails(t) ==
    /\ pc[t] = "auth"
    /\ attempt' = [attempt EXCEPT ![t] = @ + 1]
    /\ Goto(t, IF attempt[t] + 1 = Methods THEN "abort" ELSE "auth")
    /\ ctl' \in {ctl, [ctl EXCEPT ![job[t]] = "cut"]}
    /\ UNCHANGED <<transportVars, lsn, bound, service, job, provisioned, reused>>

\* CreateEphemeralOnion: Tor creates the service and names it; the transport keeps both.
AddOnion(t) ==
    /\ pc[t] = "add" /\ ctl[job[t]] = "open"
    /\ service' = [service EXCEPT ![job[t]] = TRUE]
    /\ activeOnion' = job[t]
    /\ Install(job[t])
    /\ provisioned' = provisioned \cup {job[t]}
    /\ Return(t)
    /\ UNCHANGED <<lsn, bound, ctl>>

\* ADD_ONION is refused, the response has no ServiceID although the service was created,
\* or there is no response.
AddOnionFails(t) ==
    /\ pc[t] = "add"
    /\ \/ UNCHANGED torVars
       \/ ctl[job[t]] = "open" /\ service' = [service EXCEPT ![job[t]] = TRUE] /\ UNCHANGED ctl
       \/ ctl' = [ctl EXCEPT ![job[t]] = "cut"] /\ UNCHANGED service
    /\ Goto(t, "abort")
    /\ UNCHANGED <<transportVars, lsn, bound, job, attempt, provisioned, reused>>

\* The error paths of ProvisionEphemeralOnion: the control connection, then the listener.
Abort(t) ==
    /\ pc[t] = "abort"
    /\ ctl' = [ctl EXCEPT ![job[t]] = "closed"]
    /\ Goto(t, "unbind")
    /\ UNCHANGED <<transportVars, lsn, bound, service, job, attempt, provisioned, reused>>

\* Mutated form: the early return leaves the mutex locked.
UnbindLocked(t) ==
    /\ pc[t] = "unbind"
    /\ lsn' = [lsn EXCEPT ![job[t]] = "closed"]
    /\ Goto(t, "idle")
    /\ UNCHANGED <<transportVars, bound, torVars, job, attempt, provisioned, reused>>

Unbind(t) ==
    /\ pc[t] = "unbind"
    /\ lsn' = [lsn EXCEPT ![job[t]] = "closed"]
    /\ Return(t)
    /\ UNCHANGED <<listener, activeOnion, bound, torVars, provisioned, reused>>

-----------------------------------------------------------------------------
\* Mutated form: the mutex is held while Accept waits for a connection.
AcceptLocked(t) ==
    /\ pc[t] = "idle" /\ mu = Nil
    /\ listener # Nil
    /\ mu' = t
    /\ job' = [job EXCEPT ![t] = listener]
    /\ Goto(t, "accept")
    /\ UNCHANGED <<listener, activeOnion, lsn, bound, torVars, attempt, provisioned, reused>>

\* Accept copies the listener under the mutex.
Accept(t) ==
    /\ pc[t] = "idle" /\ mu = Nil
    /\ listener # Nil
    /\ job' = [job EXCEPT ![t] = listener]
    /\ Goto(t, "accept")
    /\ UNCHANGED <<transportVars, lsn, bound, torVars, attempt, provisioned, reused>>

\* Somebody connects.
Accepted(t) ==
    /\ pc[t] = "accept" /\ lsn[job[t]] = "open"
    /\ Return(t)
    /\ UNCHANGED <<listener, activeOnion, lsn, bound, torVars, provisioned, reused>>

\* The listener is closed, possibly by another goroutine meanwhile.
AcceptFails(t) ==
    /\ pc[t] = "accept" /\ lsn[job[t]] # "open"
    /\ Return(t)
    /\ UNCHANGED <<listener, activeOnion, lsn, bound, torVars, provisioned, reused>>

\* A goroutine calls OnionTransport.Close and waits for the mutex.
Close(t) ==
    /\ pc[t] = "idle"
    /\ Goto(t, "lock")
    /\ UNCHANGED <<transportVars, lsn, bound, torVars, job, attempt, provisioned, reused>>

\* Close with an onion service goes on to OnionListener.Close; without one it closes the
\* listener, if there is one.
Lock(t) ==
    /\ pc[t] = "lock" /\ mu = Nil
    /\ \/ /\ activeOnion # Nil
          /\ mu' = t
          /\ job' = [job EXCEPT ![t] = activeOnion]
          /\ Goto(t, "destroy")
          /\ UNCHANGED <<listener, lsn, attempt>>
       \/ /\ activeOnion = Nil
          /\ lsn' = IF listener = Nil THEN lsn ELSE [lsn EXCEPT ![listener] = "closed"]
          /\ listener' = Nil
          /\ Return(t)
    /\ UNCHANGED <<activeOnion, bound, torVars, provisioned, reused>>

\* The owner of an OnionListener calls its Close directly, without the mutex.
CloseOnionListener(t, l) ==
    /\ pc[t] = "idle"
    /\ l \in provisioned
    /\ job' = [job EXCEPT ![t] = l]
    /\ Goto(t, "destroy")
    /\ UNCHANGED <<transportVars, lsn, bound, torVars, attempt, provisioned, reused>>

\* Mutated form: the listener is closed before the service is taken down.
DestroyAfterListener(t) ==
    /\ pc[t] = "destroy"
    /\ lsn' = [lsn EXCEPT ![job[t]] = "closed"]
    /\ Goto(t, "quit")
    /\ UNCHANGED <<transportVars, bound, torVars, job, attempt, provisioned, reused>>

\* DestroyEphemeralOnion: Tor removes the service, refuses, drops the connection, or the
\* connection is closed already; an error is kept for the caller and the rest goes on.
Destroy(t) ==
    /\ pc[t] = "destroy"
    /\ \/ ctl[job[t]] = "open" /\ service' = [service EXCEPT ![job[t]] = FALSE] /\ UNCHANGED ctl
       \/ UNCHANGED torVars
       \/ ctl[job[t]] = "open" /\ ctl' = [ctl EXCEPT ![job[t]] = "cut"] /\ UNCHANGED service
    /\ Goto(t, "quit")
    /\ UNCHANGED <<transportVars, lsn, bound, job, attempt, provisioned, reused>>

\* Mutated form: QUIT is sent and the connection is not closed.
QuitUnclosed(t) ==
    /\ pc[t] = "quit"
    /\ Goto(t, "closeListener")
    /\ UNCHANGED <<transportVars, lsn, bound, torVars, job, attempt, provisioned, reused>>

\* TorControlClient.Close.
Quit(t) ==
    /\ pc[t] = "quit"
    /\ ctl' = [ctl EXCEPT ![job[t]] = "closed"]
    /\ Goto(t, "closeListener")
    /\ UNCHANGED <<transportVars, lsn, bound, service, job, attempt, provisioned, reused>>

\* The listener is closed; OnionTransport.Close forgets both of its fields.
CloseListener(t) ==
    /\ pc[t] = "closeListener"
    /\ lsn' = [lsn EXCEPT ![job[t]] = "closed"]
    /\ listener' = IF mu = t THEN Nil ELSE listener
    /\ activeOnion' = IF mu = t THEN Nil ELSE activeOnion
    /\ Return(t)
    /\ UNCHANGED <<bound, torVars, provisioned, reused>>

-----------------------------------------------------------------------------
\* The Tor process ends or drops a control connection.
TorCuts(l) ==
    /\ ctl[l] = "open"
    /\ ctl' = [ctl EXCEPT ![l] = "cut"]
    /\ UNCHANGED <<transportVars, lsn, bound, service, callVars, provisioned, reused>>

\* Tor removes the service of a control connection that is gone.
TorRemoves(l) ==
    /\ ctl[l] # "open" /\ service[l]
    /\ service' = [service EXCEPT ![l] = FALSE]
    /\ UNCHANGED <<transportVars, lsn, bound, ctl, callVars, provisioned, reused>>

Step(t) ==
    \/ Connect(t) \/ ConnectFails(t)
    \/ AuthSucceeds(t) \/ AuthFails(t)
    \/ AddOnion(t) \/ AddOnionFails(t)
    \/ Abort(t) \/ Unbind(t)
    \/ AcceptFails(t)
    \/ Lock(t) \/ Destroy(t) \/ Quit(t) \/ CloseListener(t)

Next ==
    \/ \E t \in Threads :
        \/ Step(t)
        \/ \E l \in Listeners, addr \in Addrs : Listen(t, l, addr) \/ Provision(t, l, addr)
        \/ Accept(t)
        \/ Accepted(t)
        \/ Close(t)
        \/ \E l \in Listeners : CloseOnionListener(t, l)
    \/ \E l \in Listeners : TorCuts(l) \/ TorRemoves(l)

Spec == Init /\ [][Next]_vars

\* The Go scheduler runs every goroutine that can proceed, a mutex that stays free is
\* obtained, and Tor answers a command or its connection ends.  Nobody is obliged to
\* connect, or to call anything.
FairSpec == Spec /\ \A t \in Threads : WF_vars(Step(t)) /\ \A l \in Listeners : WF_vars(TorRemoves(l))

-----------------------------------------------------------------------------
\* Where ProvisionEphemeralOnion holds the mutex, and what OnionListener.Close does.
Provisioning == {"connect", "auth", "add", "abort", "unbind"}
Closing == {"destroy", "quit", "closeListener"}

\* Types; a call that provisions holds the transport's mutex, and whoever holds it
\* provisions or closes.
TypeOK ==
    /\ mu \in Threads \cup {Nil}
    /\ listener \in Listeners \cup {Nil}
    /\ activeOnion \in Listeners \cup {Nil}
    /\ lsn \in [Listeners -> {"unused", "open", "closed"}]
    /\ bound \in [Listeners -> Addrs]
    /\ ctl \in [Listeners -> {"none", "open", "cut", "closed"}]
    /\ service \in [Listeners -> BOOLEAN]
    /\ pc \in [Threads -> {"idle", "accept", "lock"} \cup Provisioning \cup Closing]
    /\ job \in [Threads -> Listeners \cup {Nil}]
    /\ \A t \in Threads : pc[t] \notin {"idle", "lock"} => job[t] # Nil
    /\ \A t \in Threads : pc[t] \in Provisioning => mu = t
    /\ \A t \in Threads : mu = t => pc[t] \in Provisioning \cup Closing
    /\ attempt \in [Threads -> 0 .. Methods]
    /\ provisioned \subseteq Listeners
    /\ reused \in BOOLEAN

InHand(l) == \E t \in Threads : job[t] = l /\ pc[t] \in Provisioning \cup Closing

\* As the two programs use the transport, with one listener at a time, nothing is left
\* open that the transport no longer knows: neither a listener nor a control connection,
\* whichever step of ProvisionEphemeralOnion failed.  The relay depends on it: when
\* provisioning fails it binds the same address again (cmd/palagos-server/main.go:54-60).
NothingLeaked ==
    ~reused => \A l \in Listeners :
        lsn[l] = "open" \/ ctl[l] \in {"open", "cut"} => l \in {listener, activeOnion} \/ InHand(l)

\* A service that its control connection keeps alive forwards to a listener that is open:
\* every path, also the ones on which Tor refuses a command, takes the service or the
\* connection down before the listener (onion.go:37-47, 129-146).
ServiceBacked == \A l \in Listeners : service[l] /\ ctl[l] = "open" => lsn[l] = "open"

\* Every call returns, a goroutine that waits in Accept included once its listener is
\* closed: Close gets the mutex although others wait for connections, and no error
\* path keeps it.
CallsReturn ==
    \A t \in Threads :
        (pc[t] # "idle" /\ ~(pc[t] = "accept" /\ lsn[job[t]] = "open")) ~> pc[t] = "idle"

\* An onion service outlives neither Close nor a failed ProvisionEphemeralOnion: once its
\* listener is closed, Tor does not hold it for ever.
ServicesEnd == \A l \in Listeners : lsn[l] = "closed" ~> ~service[l]
=============================================================================
