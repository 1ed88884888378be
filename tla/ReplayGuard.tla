----------------------------- MODULE ReplayGuard -----------------------------
(***************************************************************************)
(* What the replay protection of a session promises, without a bitmap: of  *)
(* the sequence numbers presented to it since it was created or reset, it  *)
(* accepts exactly the ones that are not 0, were not accepted before and   *)
(* are less than WindowLength below every accepted one.                    *)
(***************************************************************************)
EXTENDS Naturals

CONSTANTS WindowLength,  \* how far below the highest number a late one may be
          Sequences      \* the sequence numbers a header can carry

VARIABLES seen,  \* the numbers accepted so far
          last   \* the number presented last and the answer to it

Fresh(s) ==
    /\ s # 0
    /\ s \notin seen
    /\ \A t \in seen : t < s + WindowLength

Init ==
    /\ seen = {}
    /\ last = [seq |-> 0, ok |-> FALSE]

Check(s) ==
    /\ last' = [seq |-> s, ok |-> Fresh(s)]
    /\ seen' = IF Fresh(s) THEN seen \cup {s} ELSE seen

Forget ==
    /\ seen' = {}
    /\ last' = [seq |-> 0, ok |-> FALSE]

Next == Forget \/ \E s \in Sequences : Check(s)

Spec == Init /\ [][Next]_<<seen, last>>
=============================================================================
