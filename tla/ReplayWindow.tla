----------------------------- MODULE ReplayWindow -----------------------------
(***************************************************************************)
(* One ReplayWindow object (pkg/protocol/replay.go) and its callers.  The  *)
(* methods hold the object's mutex from their first to their last          *)
(* statement, so each of them is one step.                                 *)
(***************************************************************************)
EXTENDS Replay

CONSTANT MaxSequence  \* the largest value of the sequence field: 2^64-1 in the code

ASSUME MaxSequenceAssumption == MaxSequence \in Nat

VARIABLES win,            \* the object: maxSeq and bitmap
          last,           \* the argument and the result of the latest CheckAndAdd
          timesAccepted   \* history: how often each number was accepted since Reset

vars == <<win, last, timesAccepted>>

SequenceNumbers == 0 .. MaxSequence

Accepted == {s \in SequenceNumbers : timesAccepted[s] > 0}

-----------------------------------------------------------------------------
Init ==
    /\ win = NewReplayWindow
    /\ last = [seq |-> 0, ok |-> FALSE]
    /\ timesAccepted = [s \in SequenceNumbers |-> 0]

\* VerifyReplayWindow is CheckAndAdd with its false turned into an error.
VerifyReplayWindow(s) ==
    /\ win' = CheckAndAdd(win, s)
    /\ last' = [seq |-> s, ok |-> Accepts(win, s)]
    /\ timesAccepted' = IF Accepts(win, s)
                        THEN [timesAccepted EXCEPT ![s] = @ + 1]
                        ELSE timesAccepted

\* Mutated form: the highest number is not reset.
HalfReset ==
    /\ win' = [win EXCEPT !.bitmap = {}]
    /\ last' = [seq |-> 0, ok |-> FALSE]
    /\ timesAccepted' = [s \in SequenceNumbers |-> 0]

Reset ==
    /\ win' = NewReplayWindow
    /\ last' = [seq |-> 0, ok |-> FALSE]
    /\ timesAccepted' = [s \in SequenceNumbers |-> 0]

Next == Reset \/ \E s \in SequenceNumbers : VerifyReplayWindow(s)

Spec == Init /\ [][Next]_vars

-----------------------------------------------------------------------------
\* The window is a 64-bit word and a number of the header's width.
TypeOK ==
    /\ win \in [maxSeq : SequenceNumbers, bitmap : SUBSET BitPositions]
    /\ last \in [seq : SequenceNumbers, ok : BOOLEAN]
    /\ timesAccepted \in [SequenceNumbers -> Nat]

\* CheckAndAdd never says yes twice to one sequence number, however far the
\* window has slid in between and in whatever order the numbers come.
AcceptedAtMostOnce == \A s \in SequenceNumbers : timesAccepted[s] <= 1

\* The two words of the struct say exactly what was accepted: maxSeq is the
\* highest accepted number (0 for none), and the bit at distance d is set if and
\* only if maxSeq - d was accepted.
WindowExact ==
    /\ \A s \in Accepted : 0 < s /\ s <= win.maxSeq
    /\ win.maxSeq # 0 => win.maxSeq \in Accepted
    /\ win.bitmap = {d \in BitPositions : d < win.maxSeq /\ win.maxSeq - d \in Accepted}

\* The inductive invariant behind AcceptedAtMostOnce.
IInv == TypeOK /\ WindowExact /\ AcceptedAtMostOnce

\* CheckAndAdd answers what the abstract guard answers, in every history: it
\* refuses what was accepted before or is too old, and nothing else.
Guard == INSTANCE ReplayGuard
           WITH WindowLength <- ReplayWindowSize, Sequences <- SequenceNumbers,
                seen <- Accepted, last <- last

RefinesGuard == Guard!Spec
=============================================================================
