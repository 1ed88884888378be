------------------------------- MODULE Replay -------------------------------
(***************************************************************************)
(* The sliding window of pkg/protocol/replay.go as pure operators.  A      *)
(* window is the struct ReplayWindow without its mutex: the highest        *)
(* sequence number accepted so far and a word of ReplayWindowSize bits,    *)
(* represented by the set of positions of its 1 bits.  Bit d stands for    *)
(* the sequence number maxSeq - d.                                         *)
(*                                                                         *)
(* ReplayWord.tla carries out the same steps on machine words, and is      *)
(* shown to implement the representation used here.                        *)
(***************************************************************************)
EXTENDS Naturals

CONSTANT ReplayWindowSize  \* the width of the bitmap: 64 in the code

ASSUME ReplayWindowSizeAssumption == ReplayWindowSize \in Nat \ {0}

BitPositions == 0 .. ReplayWindowSize - 1

Windows == [maxSeq : Nat, bitmap : SUBSET BitPositions]

-----------------------------------------------------------------------------
(* Mutated forms: slips a change to replay.go could make.                  *)

\* The word is wider than the window.
UntruncatedShift(b, k) == {i \in k .. 2 * ReplayWindowSize : i - k \in b}

\* The window is one position too long.
LenientAccepts(w, seq) ==
    /\ seq # 0
    /\ \/ seq > w.maxSeq
       \/ /\ w.maxSeq - seq <= ReplayWindowSize
          /\ w.maxSeq - seq \notin w.bitmap

\* The bitmap is not moved when maxSeq is.
UnshiftedAdd(w, seq) ==
    IF seq > w.maxSeq
    THEN [maxSeq |-> seq, bitmap |-> w.bitmap \cup {0}]
    ELSE [w EXCEPT !.bitmap = @ \cup {w.maxSeq - seq}]

\* Every number but the reserved one is let through.
AnyAccepts(w, seq) == seq # 0
-----------------------------------------------------------------------------

\* bitmap << k on a word of ReplayWindowSize bits: what leaves the word is lost.
ShiftLeft(b, k) == {i \in BitPositions : i >= k /\ i - k \in b}

\* NewReplayWindow, and what Reset assigns.
NewReplayWindow == [maxSeq |-> 0, bitmap |-> {}]

\* The verdict of CheckAndAdd: 0 is reserved, a number above maxSeq is new, a
\* number inside the window is accepted unless its bit is set.
Accepts(w, seq) ==
    /\ seq # 0
    /\ \/ seq > w.maxSeq
       \/ /\ w.maxSeq - seq < ReplayWindowSize
          /\ w.maxSeq - seq \notin w.bitmap

\* What CheckAndAdd assigns when it accepts seq.
Add(w, seq) ==
    IF seq > w.maxSeq
    THEN [maxSeq |-> seq,
          bitmap |-> IF seq - w.maxSeq >= ReplayWindowSize
                     THEN {0}
                     ELSE ShiftLeft(w.bitmap, seq - w.maxSeq) \cup {0}]
    ELSE [w EXCEPT !.bitmap = @ \cup {w.maxSeq - seq}]

\* The window CheckAndAdd leaves behind; a rejected number changes nothing.
CheckAndAdd(w, seq) == IF Accepts(w, seq) THEN Add(w, seq) ELSE w
=============================================================================
