---------------------------- MODULE MessageChannel ----------------------------
(***************************************************************************)
(* What one direction of a session promises to the person who reads it:    *)
(* messages are numbered as they are given to EncryptMessage, and the      *)
(* reader is shown messages that were sent, each at most once and in the   *)
(* order in which they were sent.  Messages may be missing.                *)
(***************************************************************************)
EXTENDS Naturals, Sequences

VARIABLES sent,      \* how many messages were given to EncryptMessage
          delivered  \* the numbers of those DecryptMessage returned, in order

Init == sent = 0 /\ delivered = <<>>

Send == sent' = sent + 1 /\ UNCHANGED delivered

Deliver ==
    \E n \in 1 .. sent :
        /\ \A i \in DOMAIN delivered : delivered[i] < n
        /\ delivered' = Append(delivered, n)
        /\ UNCHANGED sent

Next == Send \/ Deliver

Spec == Init /\ [][Next]_<<sent, delivered>>
=============================================================================
