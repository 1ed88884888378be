-------------------------- MODULE ReplayWindowProofs --------------------------
(***************************************************************************)
(* The replay window is exact and never accepts a number twice, and it     *)
(* implements ReplayGuard, for every window size and every width of the    *)
(* sequence field.                                                         *)
(***************************************************************************)
EXTENDS ReplayWindow, TLAPS

USE ReplayWindowSizeAssumption, MaxSequenceAssumption

\* A new window has accepted nothing, and its two words say so.
LEMMA InitIInv == Init => IInv
<1> SUFFICES ASSUME Init PROVE IInv
  OBVIOUS
<1>1. TypeOK
  BY DEF Init, TypeOK, NewReplayWindow, SequenceNumbers, BitPositions
<1>2. Accepted = {}
  BY DEF Init, Accepted
<1>3. WindowExact
  BY <1>2 DEF Init, WindowExact, NewReplayWindow
<1>4. AcceptedAtMostOnce
  BY DEF Init, AcceptedAtMostOnce
<1> QED
  BY <1>1, <1>3, <1>4 DEF IInv

\* A number that CheckAndAdd lets through was not accepted before: the exactness
\* of the bitmap is what turns the test of one bit into this fact.
LEMMA AcceptedIsFresh ==
  ASSUME IInv, NEW s \in SequenceNumbers, Accepts(win, s)
  PROVE  s # 0 /\ s \notin Accepted
<1> USE DEF SequenceNumbers
<1>1. CASE s > win.maxSeq
  BY <1>1 DEF Accepts, IInv, WindowExact, TypeOK
<1>2. CASE ~(s > win.maxSeq)
  <2>1. /\ s # 0 /\ s <= win.maxSeq
        /\ win.maxSeq - s < ReplayWindowSize
        /\ win.maxSeq - s \notin win.bitmap
    BY <1>2 DEF Accepts, IInv, TypeOK
  <2>2. /\ win.maxSeq - s \in BitPositions
        /\ win.maxSeq - s < win.maxSeq
        /\ win.maxSeq - (win.maxSeq - s) = s
    BY <2>1 DEF IInv, TypeOK, BitPositions
  <2> QED
    BY <2>1, <2>2 DEF IInv, WindowExact
<1> QED
  BY <1>1, <1>2

\* An accepted number joins the history, once.
LEMMA AcceptedGrows ==
  ASSUME IInv, NEW s \in SequenceNumbers, Accepts(win, s), VerifyReplayWindow(s)
  PROVE  /\ timesAccepted' = [timesAccepted EXCEPT ![s] = 1]
         /\ Accepted' = Accepted \cup {s}
         /\ win' = Add(win, s)
<1>1. s \notin Accepted
  BY AcceptedIsFresh
<1>2. timesAccepted[s] = 0
  BY <1>1 DEF Accepted, IInv, TypeOK
<1>3. timesAccepted' = [timesAccepted EXCEPT ![s] = 1]
  BY <1>2 DEF VerifyReplayWindow
<1>4. Accepted' = Accepted \cup {s}
  BY <1>3 DEF Accepted, IInv, TypeOK
<1> QED
  BY <1>3, <1>4 DEF VerifyReplayWindow, CheckAndAdd

\* A number above maxSeq: the shift keeps every bit at its number.
LEMMA AdvanceExact ==
  ASSUME IInv, NEW s \in SequenceNumbers, s > win.maxSeq, VerifyReplayWindow(s)
  PROVE  WindowExact' /\ win' \in [maxSeq : SequenceNumbers, bitmap : SUBSET BitPositions]
<1> USE DEF SequenceNumbers
<1>1. win.maxSeq \in Nat /\ s \in Nat /\ s # 0
  BY DEF IInv, TypeOK
<1>2. Accepts(win, s)
  BY <1>1 DEF Accepts
<1>3. Accepted' = Accepted \cup {s} /\ win' = Add(win, s)
  BY <1>2, AcceptedGrows
<1>4. win'.maxSeq = s
  BY <1>3 DEF Add
<1>5. win'.bitmap = IF s - win.maxSeq >= ReplayWindowSize THEN {0}
                    ELSE ShiftLeft(win.bitmap, s - win.maxSeq) \cup {0}
  BY <1>3 DEF Add
<1>6. \A t \in Accepted : t \in Nat /\ 0 < t /\ t <= win.maxSeq
  BY DEF IInv, WindowExact, Accepted
<1>7. win'.bitmap \subseteq BitPositions
  BY <1>5 DEF ShiftLeft, BitPositions
<1>8. ASSUME NEW d \in BitPositions
      PROVE  d \in win'.bitmap <=> (d < s /\ s - d \in Accepted')
  <2>1. d \in Nat /\ d < ReplayWindowSize
    BY DEF BitPositions
  <2>2. CASE d = 0
    BY <2>2, <1>5, <1>3, <1>1
  <2>3. CASE d # 0 /\ s - win.maxSeq >= ReplayWindowSize
    BY <2>1, <2>3, <1>5, <1>3, <1>1, <1>6
  <2>4. CASE d # 0 /\ ~(s - win.maxSeq >= ReplayWindowSize)
    <3> DEFINE k == s - win.maxSeq
    <3>1. k \in Nat /\ k > 0 /\ s = win.maxSeq + k
      BY <1>1
    <3>2. d \in win'.bitmap <=> (d >= k /\ d - k \in win.bitmap)
      BY <2>4, <1>5 DEF ShiftLeft
    <3>3. CASE d < k
      <4>1. s - d \notin Accepted'
        BY <3>3, <3>1, <2>1, <2>4, <1>6, <1>3, <1>1
      <4> QED
        BY <4>1, <3>2, <3>3, <3>1, <2>1
    <3>4. CASE d >= k
      <4>1. d - k \in BitPositions /\ win.maxSeq - (d - k) = s - d
        BY <3>4, <3>1, <2>1, <1>1 DEF BitPositions
      <4>2. d - k \in win.bitmap <=> (d - k < win.maxSeq /\ s - d \in Accepted)
        BY <4>1 DEF IInv, WindowExact
      <4>3. s - d # s
        BY <2>1, <2>4, <1>1
      <4>4. d - k < win.maxSeq <=> d < s
        BY <3>1, <2>1, <1>1
      <4> QED
        BY <4>2, <4>3, <4>4, <3>2, <3>4, <1>3
    <3> QED
      BY <3>3, <3>4, <3>1, <2>1
  <2> QED
    BY <2>2, <2>3, <2>4
<1>9. win'.bitmap = {d \in BitPositions : d < s /\ s - d \in Accepted'}
  BY <1>7, <1>8
<1>10. \A t \in Accepted' : 0 < t /\ t <= s
  BY <1>1, <1>3, <1>6
<1>11. WindowExact'
  BY <1>9, <1>10, <1>4, <1>3 DEF WindowExact, BitPositions
<1>12. win' \in [maxSeq : SequenceNumbers, bitmap : SUBSET BitPositions]
  BY <1>3, <1>5, <1>7 DEF Add
<1> QED
  BY <1>11, <1>12

\* A late number inside the window: only its own bit changes.
LEMMA LateExact ==
  ASSUME IInv, NEW s \in SequenceNumbers, ~(s > win.maxSeq), Accepts(win, s),
         VerifyReplayWindow(s)
  PROVE  WindowExact' /\ win' \in [maxSeq : SequenceNumbers, bitmap : SUBSET BitPositions]
<1> USE DEF SequenceNumbers
<1>1. win.maxSeq \in Nat /\ s \in Nat /\ s # 0 /\ s <= win.maxSeq
  BY DEF IInv, TypeOK, Accepts
<1>2. win.maxSeq - s \in BitPositions
  BY <1>1 DEF Accepts, BitPositions
<1>3. Accepted' = Accepted \cup {s} /\ win' = Add(win, s)
  BY AcceptedGrows
<1>4. win' = [win EXCEPT !.bitmap = @ \cup {win.maxSeq - s}]
  BY <1>3 DEF Add
<1>5. win'.maxSeq = win.maxSeq /\ win'.bitmap = win.bitmap \cup {win.maxSeq - s}
  BY <1>4 DEF IInv, TypeOK
<1>6. \A d \in BitPositions : win.maxSeq - d = s <=> d = win.maxSeq - s
  BY <1>1 DEF BitPositions
<1>7. win'.bitmap = {d \in BitPositions : d < win.maxSeq /\ win.maxSeq - d \in Accepted'}
  BY <1>1, <1>2, <1>3, <1>5, <1>6 DEF IInv, WindowExact
<1>8. WindowExact'
  BY <1>1, <1>3, <1>5, <1>7 DEF IInv, WindowExact
<1>9. win' \in [maxSeq : SequenceNumbers, bitmap : SUBSET BitPositions]
  BY <1>4, <1>2 DEF IInv, TypeOK
<1> QED
  BY <1>8, <1>9

\* CheckAndAdd returns a Boolean.
LEMMA AcceptsBoolean == \A w, s : Accepts(w, s) \in BOOLEAN
  BY DEF Accepts

\* IInv is inductive.
LEMMA NextIInv == IInv /\ [Next]_vars => IInv'
<1> SUFFICES ASSUME IInv, [Next]_vars PROVE IInv'
  OBVIOUS
<1>1. ASSUME NEW s \in SequenceNumbers, VerifyReplayWindow(s) PROVE IInv'
  <2>1. CASE Accepts(win, s)
    <3>1. timesAccepted' = [timesAccepted EXCEPT ![s] = 1]
      BY <1>1, <2>1, AcceptedGrows
    <3>2. WindowExact' /\ win' \in [maxSeq : SequenceNumbers, bitmap : SUBSET BitPositions]
      BY <1>1, <2>1, AdvanceExact, LateExact
    <3>3. last' \in [seq : SequenceNumbers, ok : BOOLEAN]
      BY <1>1, AcceptsBoolean DEF VerifyReplayWindow
    <3>4. TypeOK'
      BY <3>1, <3>2, <3>3 DEF IInv, TypeOK
    <3>5. AcceptedAtMostOnce'
      BY <3>1 DEF IInv, AcceptedAtMostOnce, TypeOK
    <3> QED
      BY <3>2, <3>4, <3>5 DEF IInv
  <2>2. CASE ~Accepts(win, s)
    <3>1. win' = win /\ timesAccepted' = timesAccepted
      BY <1>1, <2>2 DEF VerifyReplayWindow, CheckAndAdd
    <3>2. last' \in [seq : SequenceNumbers, ok : BOOLEAN]
      BY <1>1, AcceptsBoolean DEF VerifyReplayWindow
    <3> QED
      BY <3>1, <3>2 DEF IInv, TypeOK, WindowExact, AcceptedAtMostOnce, Accepted
  <2> QED
    BY <2>1, <2>2
<1>2. CASE Reset
  <2>1. Accepted' = {}
    BY <1>2 DEF Reset, Accepted
  <2>2. WindowExact'
    BY <1>2, <2>1 DEF Reset, WindowExact, NewReplayWindow
  <2> QED
    BY <1>2, <2>2 DEF Reset, IInv, TypeOK, AcceptedAtMostOnce, NewReplayWindow,
                      SequenceNumbers, BitPositions
<1>3. CASE UNCHANGED vars
  BY <1>3 DEF vars, IInv, TypeOK, WindowExact, AcceptedAtMostOnce, Accepted
<1> QED
  BY <1>1, <1>2, <1>3 DEF Next

\* Type correctness of the window.
THEOREM WindowTypeOK == Spec => []TypeOK
<1>1. IInv => TypeOK
  BY DEF IInv
<1> QED
  BY <1>1, InitIInv, NextIInv, PTL DEF Spec

\* No sequence number passes VerifyReplayWindow twice between two resets.
THEOREM NoReplay == Spec => []AcceptedAtMostOnce
<1>1. IInv => AcceptedAtMostOnce
  BY DEF IInv
<1> QED
  BY <1>1, InitIInv, NextIInv, PTL DEF Spec

\* maxSeq and the bitmap are at every moment the exact summary of the numbers
\* CheckAndAdd accepted.
THEOREM WindowIsExact == Spec => []WindowExact
<1>1. IInv => WindowExact
  BY DEF IInv
<1> QED
  BY <1>1, InitIInv, NextIInv, PTL DEF Spec

\* The test of CheckAndAdd is the test of the abstract guard.
LEMMA VerdictExact ==
  ASSUME IInv, NEW s \in SequenceNumbers
  PROVE  Accepts(win, s) <=> Guard!Fresh(s)
<1> USE DEF SequenceNumbers
<1>1. win.maxSeq \in Nat /\ s \in Nat
  BY DEF IInv, TypeOK
<1>2. \A t \in Accepted : t \in Nat /\ 0 < t /\ t <= win.maxSeq
  BY DEF IInv, WindowExact, Accepted
<1>3. ASSUME Accepts(win, s) PROVE Guard!Fresh(s)
  <2>1. s # 0 /\ s \notin Accepted
    BY <1>3, AcceptedIsFresh
  <2>2. win.maxSeq < s + ReplayWindowSize
    BY <1>1, <1>3 DEF Accepts
  <2> QED
    BY <1>1, <1>2, <2>1, <2>2 DEF Guard!Fresh
<1>4. ASSUME Guard!Fresh(s), ~(s > win.maxSeq) PROVE Accepts(win, s)
  <2>1. s # 0 /\ s \notin Accepted /\ \A t \in Accepted : t < s + ReplayWindowSize
    BY <1>4 DEF Guard!Fresh
  <2>2. win.maxSeq \in Accepted
    BY <1>1, <1>4, <2>1 DEF IInv, WindowExact
  <2>3. win.maxSeq - s < ReplayWindowSize /\ win.maxSeq - (win.maxSeq - s) = s
    BY <1>1, <2>1, <2>2
  <2>4. win.maxSeq - s \notin win.bitmap
    BY <2>1, <2>3 DEF IInv, WindowExact
  <2> QED
    BY <2>1, <2>3, <2>4 DEF Accepts
<1>5. ASSUME Guard!Fresh(s), s > win.maxSeq PROVE Accepts(win, s)
  BY <1>5 DEF Guard!Fresh, Accepts
<1> QED
  BY <1>3, <1>4, <1>5

\* Two words and a shift implement the guard over the whole history: CheckAndAdd
\* accepts a sequence number exactly when it is new, not 0 and not too old.
THEOREM WindowRefinesGuard == Spec => RefinesGuard
<1>1. Init => Guard!Init
  BY DEF Init, Guard!Init, Accepted
<1>2. IInv /\ [Next]_vars => [Guard!Next]_<<Accepted, last>>
  <2> SUFFICES ASSUME IInv, [Next]_vars PROVE [Guard!Next]_<<Accepted, last>>
    OBVIOUS
  <2>1. ASSUME NEW s \in SequenceNumbers, VerifyReplayWindow(s) PROVE Guard!Check(s)
    <3>1. Accepts(win, s) = Guard!Fresh(s)
      <4>1. Guard!Fresh(s) \in BOOLEAN
        BY DEF Guard!Fresh
      <4> QED
        BY <4>1, VerdictExact, AcceptsBoolean
    <3>2. last' = [seq |-> s, ok |-> Guard!Fresh(s)]
      BY <2>1, <3>1 DEF VerifyReplayWindow
    <3>3. CASE Accepts(win, s)
      BY <2>1, <3>1, <3>2, <3>3, AcceptedGrows DEF Guard!Check
    <3>4. CASE ~Accepts(win, s)
      <4>1. Accepted' = Accepted
        BY <2>1, <3>4 DEF VerifyReplayWindow, Accepted
      <4> QED
        BY <4>1, <3>1, <3>2, <3>4 DEF Guard!Check
    <3> QED
      BY <3>3, <3>4
  <2>2. CASE Reset
    BY <2>2 DEF Reset, Accepted, Guard!Next, Guard!Forget
  <2>3. CASE UNCHANGED vars
    BY <2>3 DEF vars, Accepted
  <2> QED
    BY <2>1, <2>2, <2>3 DEF Next, Guard!Next
<1> QED
  BY <1>1, <1>2, InitIInv, NextIInv, PTL DEF Spec, RefinesGuard, Guard!Spec
=============================================================================
