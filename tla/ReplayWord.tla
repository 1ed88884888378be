----------------------------- MODULE ReplayWord -----------------------------
(***************************************************************************)
(* CheckAndAdd on a machine word.  Replay.tla writes the bitmap as a set   *)
(* of bit positions; here the uint64 of the code is carried along, by the  *)
(* shifts, & and | of the code (community module Bitwise) modulo its       *)
(* width, next to a ReplayWindow that makes the same calls.                *)
(***************************************************************************)
EXTENDS ReplayWindow, Bitwise

VARIABLES bitmap,  \* the uint64 field
          wordOk   \* the result of the latest CheckAndAdd on the word

wordVars == <<win, last, timesAccepted, bitmap, wordOk>>

\* uint64 <<: bits that leave the word are dropped.
Shl(x, k) == (x * 2^k) % 2^ReplayWindowSize

WordInit == Init /\ bitmap = 0 /\ wordOk = FALSE

\* Mutated form: the bit of the newest number is not set after the shift.
AdvanceUnmarked(s) ==
    /\ s > win.maxSeq
    /\ bitmap' = IF s - win.maxSeq >= ReplayWindowSize
                 THEN 1
                 ELSE Shl(bitmap, s - win.maxSeq)
    /\ wordOk' = TRUE

\* Case 1 of CheckAndAdd: the number is above maxSeq.
Advance(s) ==
    /\ s > win.maxSeq
    /\ bitmap' = IF s - win.maxSeq >= ReplayWindowSize
                 THEN 1
                 ELSE Shl(bitmap, s - win.maxSeq) | 1
    /\ wordOk' = TRUE

BitPos(s) == Shl(1, win.maxSeq - s)

\* Case 2, accepted: inside the window and its bit is 0.
MarkLate(s) ==
    /\ s # 0 /\ s <= win.maxSeq
    /\ win.maxSeq - s < ReplayWindowSize
    /\ (bitmap & BitPos(s)) = 0
    /\ bitmap' = (bitmap | BitPos(s))
    /\ wordOk' = TRUE

\* The three early returns of false: reserved, too old, bit already set.
Reject(s) ==
    /\ \/ s = 0
       \/ /\ s <= win.maxSeq
          /\ \/ win.maxSeq - s >= ReplayWindowSize
             \/ (bitmap & BitPos(s)) # 0
    /\ wordOk' = FALSE
    /\ UNCHANGED bitmap

WordReset == Reset /\ bitmap' = 0 /\ wordOk' = FALSE

WordNext ==
    \/ WordReset
    \/ \E s \in SequenceNumbers :
        VerifyReplayWindow(s) /\ (Advance(s) \/ MarkLate(s) \/ Reject(s))

WordSpec == WordInit /\ [][WordNext]_wordVars

\* The word and the set agree after every call: bit i of the uint64 is set exactly
\* when i is in the set, and both give the same answer.
WordAgrees ==
    /\ win.bitmap = {i \in BitPositions : (bitmap \div 2^i) % 2 = 1}
    /\ bitmap < 2^ReplayWindowSize
    /\ wordOk = last.ok
=============================================================================
