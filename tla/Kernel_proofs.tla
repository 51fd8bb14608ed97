--------------------------- MODULE Kernel_proofs ----------------------------
(***************************************************************************)
(* Proofs about the parts of Kernel, for any amount of memory, any sizes   *)
(* and any processes.                                                      *)
(***************************************************************************)
EXTENDS Kernel, FiniteSetTheorems, WellFoundedInduction, TLAPS

(* A set of numbers that is not empty has a least one.                     *)
LEMMA LeastElement ==
  ASSUME NEW X, X \subseteq Nat, X # {}
  PROVE  \E s \in X : \A t \in X : s <= t
<1>1. PICK s \in X : \A t \in X : ~ (<<t, s>> \in OpToRel(<, Nat))
  BY NatLessThanWellFounded, WFMin
<1>2. ASSUME NEW t \in X
      PROVE  s <= t
  <2>1. ~(t < s)
    BY <1>1 DEF OpToRel
  <2> QED
    BY <2>1
<1> QED
  BY <1>2

(* A function applied again and again, to d and to what it makes of it:    *)
(* there is the sequence of values that a recursive definition names, and  *)
(* it stays where the function stays.                                      *)
Rounds(step, d, K, h) ==
  /\ h = [k \in 0..K |-> h[k]]
  /\ \A k \in 0..K : h[k] = IF k = 0 THEN d ELSE step[h[k - 1]]

LEMMA RoundsExist ==
  ASSUME NEW step, NEW d, NEW K \in Nat
  PROVE  \E h : Rounds(step, d, K, h)
<1> DEFINE Good(m, h) == /\ h = [k \in 0..m |-> h[k]]
                        /\ \A k \in 0..m : h[k] = IF k = 0 THEN d ELSE step[h[k - 1]]
           Bad == {m \in Nat : ~\E h : Good(m, h)}
<1>1. SUFFICES ASSUME Bad # {}
               PROVE  FALSE
  BY DEF Rounds
<1>2. PICK m \in Bad : \A l \in Bad : m <= l
  <2>1. Bad \subseteq Nat
    OBVIOUS
  <2> HIDE DEF Bad
  <2> QED
    BY <1>1, <2>1, LeastElement
<1>3. m # 0
  <2> SUFFICES ASSUME m = 0
               PROVE  FALSE
    OBVIOUS
  <2> DEFINE h == [k \in 0..0 |-> d]
  <2>1. Good(0, h)
    OBVIOUS
  <2> HIDE DEF Good
  <2> QED
    BY <1>2, <2>1
<1>4. m - 1 \in Nat /\ m - 1 \notin Bad
  <2>1. m \in Nat
    OBVIOUS
  <2> HIDE DEF Bad
  <2> QED
    BY <1>2, <1>3, <2>1
<1>5. PICK g : Good(m - 1, g)
  <2> HIDE DEF Good
  <2> QED
    BY <1>4, Zenon
<1> DEFINE h == [k \in 0..m |-> IF k = m THEN step[g[m - 1]] ELSE g[k]]
<1>6. \A k \in 0..m : h[k] = IF k = 0 THEN d ELSE step[h[k - 1]]
  <2>1. m \in Nat \ {0} /\ \A k \in 0..(m - 1) : g[k] = IF k = 0 THEN d ELSE step[g[k - 1]]
    BY <1>3, <1>5
  <2>2. \A k \in 0..m : h[k] = IF k = m THEN step[g[m - 1]] ELSE g[k]
    OBVIOUS
  <2> HIDE DEF h, Good, Bad
  <2> QED
    BY <2>1, <2>2
<1>7. Good(m, h)
  <2>1. h = [k \in 0..m |-> h[k]]
    OBVIOUS
  <2> HIDE DEF h
  <2> QED
    BY <1>6, <2>1
<1> HIDE DEF Good, h
<1> QED
  BY <1>2, <1>7

LEMMA RoundsStay ==
  ASSUME NEW D, NEW d \in D, NEW step \in [D -> D], NEW K \in Nat, NEW h,
         \A k \in 0..K : h[k] = IF k = 0 THEN d ELSE step[h[k - 1]]
  PROVE  h[K] \in D
<1> DEFINE Bad == {m \in 0..K : h[m] \notin D}
<1>1. \A k \in 0..K : h[k] = IF k = 0 THEN d ELSE step[h[k - 1]]
  OBVIOUS
<1>2. SUFFICES ASSUME Bad # {}
               PROVE  FALSE
  <2>1. K \in 0..K
    OBVIOUS
  <2> QED
    BY <2>1, Zenon
<1>3. PICK m \in Bad : \A l \in Bad : m <= l
  <2>1. Bad \subseteq Nat
    OBVIOUS
  <2> HIDE DEF Bad
  <2> QED
    BY <1>2, <2>1, LeastElement
<1>4. m # 0
  BY <1>1, <1>3
<1>5. m - 1 \in 0..K /\ m - 1 \notin Bad
  <2>1. m \in 0..K
    OBVIOUS
  <2> HIDE DEF Bad
  <2> QED
    BY <1>3, <1>4, <2>1
<1>6. h[m - 1] \in D
  BY <1>5
<1> QED
  BY <1>1, <1>3, <1>4, <1>6

(***************************************************************************)
(* Physical frames                                                         *)
(***************************************************************************)

(* The assumption about the constants.                                     *)
LEMMA PmmBasics ==
  /\ Frames \in Nat
  /\ WordBits \in Nat \ {0}
  /\ FrameWords \in Nat \ {0}
  /\ BitmapFrame \in Nat
  /\ MaxRun \in Nat
  /\ Unset \in Nat
  /\ \A f \in 0..(Frames - 1) : f \div WordBits \in 0..(Unset - 1)
BY KernelAssumption DEF Fr!PmmAssumption

(* The minimum and the maximum that FiniteSetsExt chooses exist.           *)
LEMMA MinNat ==
  ASSUME NEW S \in SUBSET Nat, S # {}
  PROVE  Fr!Min(S) \in S /\ \A y \in S : Fr!Min(S) <= y
BY LeastElement DEF Fr!Min

LEMMA MaxNat ==
  ASSUME NEW B \in Nat, NEW S \in SUBSET (0..B), S # {}
  PROVE  Fr!Max(S) \in S /\ \A y \in S : Fr!Max(S) >= y
<1> DEFINE T == {B - y : y \in S}
<1>1. T \in SUBSET Nat /\ T # {}
  <2>1. \A y \in S : B - y \in Nat
    OBVIOUS
  <2>2. PICK y \in S : TRUE
    OBVIOUS
  <2>3. B - y \in T
    BY <2>2
  <2> QED  BY <2>1, <2>3
<1>2. PICK m \in T : \A z \in T : m <= z
  BY <1>1, MinNat
<1>3. PICK x \in S : m = B - x
  BY <1>2
<1>4. \A y \in S : x >= y
  BY <1>2, <1>3
<1> QED  BY <1>3, <1>4 DEF Fr!Max

LEMMA Index == \A f \in Fr!Frame : Fr!BITMAP_INDEX(f) \in 0..(Unset - 1)
BY PmmBasics DEF Fr!Frame, Fr!BITMAP_INDEX

(* What k_mem_pmm_free does to the bitmap, its size and the hint.          *)
LEMMA FreeFacts ==
  ASSUME Fr!TypeOK, NEW frame \in Fr!Frame, NEW n \in Nat \ {0},
         Fr!Run(frame, n) \subseteq Fr!Frame, Fr!Free(frame, n)
  PROVE  /\ Fr!Freed(frame, n) \subseteq Fr!Run(frame, n)
         /\ bitmap' = bitmap \cup Fr!Freed(frame, n)
         /\ bitmap_size' \in Nat /\ first_free_index' \in Nat
         /\ bitmap_size <= bitmap_size'
         /\ \A f \in Fr!Freed(frame, n) : Fr!BITMAP_INDEX(f) < bitmap_size'
         /\ \/ bitmap_size' = bitmap_size
            \/ \E f \in Fr!Run(frame, n) : ~(Fr!BITMAP_INDEX(f) < bitmap_size)
         /\ first_free_index' <= first_free_index
         /\ \A f \in Fr!Freed(frame, n) : first_free_index' <= Fr!BITMAP_INDEX(f)
<1> DEFINE F == Fr!Freed(frame, n)
           V == Fr!Visited(frame, n)
           Sz == {bitmap_size} \cup {Fr!BITMAP_INDEX(f) + 1 : f \in V}
           Ix == {first_free_index} \cup {Fr!BITMAP_INDEX(f) : f \in F}
<1>1. F \subseteq Fr!Run(frame, n) /\ V \subseteq Fr!Run(frame, n)
  BY DEF Fr!Freed, Fr!Visited
<1>2. F \subseteq V
  <2> SUFFICES ASSUME NEW f \in F PROVE Fr!Run(frame, f - frame) \cap bitmap = {}
    BY DEF Fr!Freed, Fr!Visited
  <2>1. f \in Nat /\ frame \in Nat
    BY <1>1, PmmBasics DEF Fr!Frame
  <2>2. Fr!Run(frame, f - frame) \subseteq Fr!Run(frame, f - frame + 1)
    BY <2>1 DEF Fr!Run
  <2> QED  BY <2>2 DEF Fr!Freed
<1>3. /\ bitmap' = bitmap \cup F
      /\ bitmap_size' = Fr!Max(Sz)
      /\ first_free_index' = Fr!Min(Ix)
  BY DEF Fr!Free
<1>4. \A f \in F \cup V : Fr!BITMAP_INDEX(f) \in Nat /\ Fr!BITMAP_INDEX(f) < Unset
  BY <1>1, Index, PmmBasics
<1> HIDE DEF F, V
<1>5. Ix \in SUBSET Nat /\ Ix # {}
  <2>1. first_free_index \in Nat /\ \A f \in F : Fr!BITMAP_INDEX(f) \in Nat
    BY <1>4 DEF Fr!TypeOK
  <2> QED  BY <2>1
<1>6. Fr!Min(Ix) \in Nat /\ \A y \in Ix : Fr!Min(Ix) <= y
  BY <1>5, MinNat
<1>7. bitmap_size \in Nat /\ Unset \in Nat
  BY PmmBasics DEF Fr!TypeOK
<1>8. Sz \in SUBSET (0..(bitmap_size + Unset)) /\ Sz # {}
  <2>1. /\ bitmap_size \in 0..(bitmap_size + Unset)
        /\ \A f \in V : Fr!BITMAP_INDEX(f) + 1 \in 0..(bitmap_size + Unset)
    BY <1>4, <1>7
  <2> QED  BY <2>1
<1>9. Fr!Max(Sz) \in Sz /\ \A y \in Sz : Fr!Max(Sz) >= y
  <2>1. bitmap_size + Unset \in Nat
    BY <1>7
  <2> HIDE DEF Sz
  <2> QED  BY <1>8, <2>1, MaxNat
<1>10. bitmap_size' \in Nat /\ bitmap_size <= bitmap_size'
  BY <1>3, <1>7, <1>8, <1>9
<1>11. \A f \in F : Fr!BITMAP_INDEX(f) < bitmap_size'
  <2> SUFFICES ASSUME NEW f \in F PROVE Fr!BITMAP_INDEX(f) < bitmap_size'
    OBVIOUS
  <2>1. f \in V /\ Fr!BITMAP_INDEX(f) + 1 \in Sz
    BY <1>2
  <2>2. Fr!BITMAP_INDEX(f) \in Nat
    BY <1>4
  <2>3. bitmap_size' >= Fr!BITMAP_INDEX(f) + 1
    BY <1>3, <1>9, <2>1
  <2> QED  BY <1>10, <2>2, <2>3
<1>12. \/ bitmap_size' = bitmap_size
       \/ \E f \in Fr!Run(frame, n) : ~(Fr!BITMAP_INDEX(f) < bitmap_size)
  <2>1. CASE bitmap_size' = bitmap_size
    BY <2>1
  <2>2. CASE bitmap_size' # bitmap_size
    <3>1. PICK f \in V : bitmap_size' = Fr!BITMAP_INDEX(f) + 1
      BY <1>3, <1>9, <2>2
    <3>2. ~(Fr!BITMAP_INDEX(f) < bitmap_size)
      BY <1>4, <1>7, <1>10, <2>2, <3>1
    <3> QED  BY <1>1, <3>1, <3>2
  <2> QED  BY <2>1, <2>2
<1>13. /\ first_free_index' \in Nat /\ first_free_index' <= first_free_index
       /\ \A f \in F : first_free_index' <= Fr!BITMAP_INDEX(f)
  BY <1>3, <1>6
<1> QED  BY <1>1, <1>3, <1>10, <1>11, <1>12, <1>13 DEF F

LEMMA RunFacts ==
  ASSUME NEW f \in Nat, NEW n \in Nat \ {0}
  PROVE  f \in Fr!Run(f, n) /\ f + n - 1 \in Fr!Run(f, n)
BY DEF Fr!Run

LEMMA StepMark ==
  ASSUME Fr!PmmInv, NEW f \in Fr!Frame, Fr!mark_frame(f)
  PROVE  Fr!PmmInv'
<1>1. Fr!Run(f, 1) = {f} /\ f \in Nat
  BY PmmBasics DEF Fr!Run, Fr!Frame
<1>2. /\ Fr!Free(f, 1) /\ ~init /\ UNCHANGED <<init, panic, owned>>
      /\ owned = {} /\ panic = 0
  BY DEF Fr!mark_frame, Fr!PmmInv
<1>3. /\ Fr!Freed(f, 1) \subseteq {f}
      /\ bitmap' = bitmap \cup Fr!Freed(f, 1)
      /\ bitmap_size' \in Nat /\ first_free_index' \in Nat
      /\ bitmap_size <= bitmap_size'
      /\ \A g \in Fr!Freed(f, 1) : Fr!BITMAP_INDEX(g) < bitmap_size'
      /\ first_free_index' <= first_free_index
      /\ \A g \in Fr!Freed(f, 1) : first_free_index' <= Fr!BITMAP_INDEX(g)
  BY <1>1, <1>2, FreeFacts DEF Fr!PmmInv
<1>4. Fr!TypeOK'
  BY <1>2, <1>3 DEF Fr!PmmInv, Fr!TypeOK
<1>5. Fr!HintIsSafe'
  <2> SUFFICES ASSUME NEW g \in bitmap'
               PROVE  first_free_index' <= Fr!BITMAP_INDEX(g) /\ Fr!BITMAP_INDEX(g) < bitmap_size'
    BY DEF Fr!HintIsSafe, Fr!BITMAP_INDEX
  <2>1. CASE g \in Fr!Freed(f, 1)
    BY <1>3, <2>1
  <2>2. CASE g \in bitmap
    <3>1. first_free_index <= Fr!BITMAP_INDEX(g) /\ Fr!BITMAP_INDEX(g) < bitmap_size
      BY <2>2 DEF Fr!PmmInv, Fr!HintIsSafe
    <3>2. Fr!BITMAP_INDEX(g) \in Int /\ first_free_index \in Int /\ bitmap_size \in Int
      BY <2>2, Index, PmmBasics DEF Fr!PmmInv, Fr!TypeOK
    <3> QED  BY <1>3, <3>1, <3>2
  <2> QED  BY <1>3, <2>1, <2>2
<1>6. Fr!OwnedOnce' /\ Fr!PanicIsJustified'
  BY <1>2 DEF Fr!OwnedOnce, Fr!PanicIsJustified
<1> QED  BY <1>2, <1>4, <1>5, <1>6 DEF Fr!PmmInv

LEMMA StepFinish == Fr!PmmInv /\ Fr!FinishInit => Fr!PmmInv'
<1> SUFFICES ASSUME Fr!PmmInv, Fr!FinishInit PROVE Fr!PmmInv'
  OBVIOUS
<1>1. owned = {} /\ panic = 0 /\ UNCHANGED <<bitmap_size, first_free_index, panic, owned>>
  BY DEF Fr!FinishInit, Fr!PmmInv
<1>2. Fr!TypeOK' /\ Fr!HintIsSafe'
  BY DEF Fr!FinishInit, Fr!PmmInv, Fr!TypeOK, Fr!HintIsSafe, Fr!BITMAP_INDEX
<1>3. Fr!OwnedOnce'
  BY <1>1 DEF Fr!FinishInit, Fr!OwnedOnce, Fr!BitmapFrames
<1>4. Fr!PanicIsJustified'
  BY <1>1 DEF Fr!PanicIsJustified
<1> QED  BY <1>1, <1>2, <1>3, <1>4 DEF Fr!FinishInit, Fr!PmmInv

(* What the search for n frames knows after a round: found_frames is the   *)
(* number of free frames that end at the bit, and none of the runs that    *)
(* ended before was long enough.                                           *)
Knows(n, s) ==
  LET start == first_free_index * WordBits IN
  /\ s \in [bit : Nat, frame : Nat, found : Nat]
  /\ start <= s.bit
  /\ s.found <= n
  /\ s.found > 0 => s.frame + s.found = s.bit /\ Fr!Run(s.frame, s.found) \subseteq bitmap
  /\ \A f \in Nat : start <= f /\ f <= s.bit /\ Fr!Run(f, s.bit - f) \subseteq bitmap
       => s.bit - f <= s.found
  /\ s.found < n =>
       \A f \in Nat : start <= f /\ f + n <= s.bit => ~(Fr!Run(f, n) \subseteq bitmap)

LEMMA KnowsStart ==
  ASSUME Fr!TypeOK, NEW n \in Nat \ {0}
  PROVE  Knows(n, Fr!Start)
<1>1. first_free_index * WordBits \in Nat
  BY PmmBasics DEF Fr!TypeOK
<1> DEFINE start == first_free_index * WordBits
<1> HIDE DEF start
<1>2. Fr!Start = [bit |-> start, frame |-> 0, found |-> 0]
  BY DEF Fr!Start, start
<1>3. start \in Nat
  BY <1>1 DEF start
<1> QED  BY <1>2, <1>3 DEF Knows, start

LEMMA KnowsLook ==
  ASSUME Fr!TypeOK, NEW n \in Nat \ {0}, NEW s, Knows(n, s), ~(s.found >= n)
  PROVE  Knows(n, Fr!Look(s)) /\ Fr!Look(s).bit = s.bit + 1
<1> DEFINE t == Fr!Look(s)
           start == first_free_index * WordBits
<1>1. start \in Nat
  BY PmmBasics DEF Fr!TypeOK
<1>2. /\ s.bit \in Nat /\ s.frame \in Nat /\ s.found \in Nat /\ s.found < n
      /\ start <= s.bit
      /\ s.found > 0 => s.frame + s.found = s.bit /\ Fr!Run(s.frame, s.found) \subseteq bitmap
      /\ \A f \in Nat : start <= f /\ f <= s.bit /\ Fr!Run(f, s.bit - f) \subseteq bitmap
           => s.bit - f <= s.found
      /\ \A f \in Nat : start <= f /\ f + n <= s.bit => ~(Fr!Run(f, n) \subseteq bitmap)
  BY DEF Knows
<1>3. /\ t.bit = s.bit + 1
      /\ t.frame = IF s.bit \in bitmap /\ s.found = 0 THEN s.bit ELSE s.frame
      /\ t.found = IF s.bit \in bitmap THEN s.found + 1 ELSE 0
      /\ t \in [bit : Nat, frame : Nat, found : Nat]
  BY <1>2 DEF Fr!Look
<1> HIDE DEF t, start
<1>4. t.found <= n /\ start <= t.bit /\ t.found \in Nat
  BY <1>1, <1>2, <1>3
<1>5. ASSUME t.found > 0
      PROVE  t.frame + t.found = t.bit /\ Fr!Run(t.frame, t.found) \subseteq bitmap
  <2>1. s.bit \in bitmap /\ t.found = s.found + 1
    BY <1>3, <1>5
  <2>2. CASE s.found = 0
    <3>1. t.frame = s.bit /\ t.found = 1
      BY <1>3, <2>1, <2>2
    <3>2. Fr!Run(s.bit, 1) = {s.bit}
      BY <1>2 DEF Fr!Run
    <3> QED  BY <1>2, <1>3, <2>1, <3>1, <3>2
  <2>3. CASE s.found # 0
    <3>1. t.frame = s.frame /\ s.frame + s.found = s.bit /\ Fr!Run(s.frame, s.found) \subseteq bitmap
      BY <1>2, <1>3, <2>3
    <3>2. Fr!Run(s.frame, s.found + 1) \subseteq Fr!Run(s.frame, s.found) \cup {s.bit}
      BY <1>2, <3>1 DEF Fr!Run
    <3> QED  BY <1>2, <1>3, <2>1, <3>1, <3>2
  <2> QED  BY <2>2, <2>3
<1>6. ASSUME NEW f \in Nat, start <= f, f <= t.bit, Fr!Run(f, t.bit - f) \subseteq bitmap
      PROVE  t.bit - f <= t.found
  <2>1. CASE f = t.bit
    BY <1>2, <1>3, <1>4, <2>1
  <2>2. CASE f # t.bit
    <3>1. f <= s.bit
      BY <1>2, <1>3, <1>6, <2>2
    <3>2. s.bit \in Fr!Run(f, t.bit - f) /\ Fr!Run(f, s.bit - f) \subseteq Fr!Run(f, t.bit - f)
      BY <1>2, <1>3, <3>1 DEF Fr!Run
    <3>3. s.bit - f <= s.found /\ t.found = s.found + 1
      BY <1>2, <1>3, <1>6, <3>1, <3>2
    <3> QED  BY <1>2, <1>3, <3>3
  <2> QED  BY <2>1, <2>2
<1>7. ASSUME t.found < n, NEW f \in Nat, start <= f, f + n <= t.bit, Fr!Run(f, n) \subseteq bitmap
      PROVE  FALSE
  <2>1. f + n = t.bit
    BY <1>2, <1>3, <1>7
  <2>2. t.bit - f = n /\ f <= t.bit
    BY <1>2, <1>3, <2>1
  <2>3. t.bit - f <= t.found
    BY <1>6, <1>7, <2>2
  <2> QED  BY <1>4, <1>7, <2>2, <2>3
<1>8. Knows(n, t)
  BY <1>3, <1>4, <1>5, <1>6, <1>7 DEF Knows, start
<1> QED  BY <1>3, <1>8 DEF t

(* The search ends with n free frames in a row, or has seen that there is  *)
(* no such run from the hint on.                                           *)
LEMMA SearchedFacts ==
  ASSUME Fr!TypeOK, NEW n \in Nat \ {0}
  PROVE  /\ Knows(n, Fr!Searched(n))
         /\ Fr!Searched(n).found >= n \/ Fr!Searched(n).bit >= Fr!Bits
<1> DEFINE S == [bit : Nat, frame : Nat, found : Nat]
           over(s) == s.found >= n \/ s.bit >= Fr!Bits
           step == [s \in S |-> IF over(s) THEN s ELSE Fr!Look(s)]
           P(h) == h = [k \in 0..Fr!Bits |-> IF k = 0 THEN Fr!Start ELSE step[h[k - 1]]]
           round == CHOOSE h : P(h)
           K == Fr!Bits
<1>1. K \in Nat /\ first_free_index * WordBits \in Nat
  BY PmmBasics DEF Fr!Bits, Fr!TypeOK
<1>2. Fr!Searched(n) = round[K]
  BY DEF Fr!Searched
<1>3. \A k \in 0..K : round[k] = IF k = 0 THEN Fr!Start ELSE step[round[k - 1]]
  <2> HIDE DEF step
  <2>1. PICK h : Rounds(step, Fr!Start, K, h)
    BY <1>1, RoundsExist
  <2>2. P(h)
    BY <2>1 DEF Rounds
  <2>3. P(round)
    <3> HIDE DEF P
    <3> QED  BY <2>2
  <2> HIDE DEF round
  <2> QED  BY <2>3
<1> DEFINE Good(k) == /\ Knows(n, round[k])
                      /\ over(round[k]) \/ round[k].bit = Fr!Start.bit + k
           Bad == {k \in 0..K : ~Good(k)}
<1>4. Good(0)
  <2>1. 0 \in 0..K /\ Fr!Start.bit \in Nat
    BY <1>1 DEF Fr!Start
  <2> HIDE DEF round, step, K
  <2>2. round[0] = Fr!Start
    BY <1>3, <2>1
  <2> QED  BY <2>1, <2>2, KnowsStart
<1>5. ASSUME NEW k \in 1..K, Good(k - 1)  PROVE Good(k)
  <2> DEFINE s == round[k - 1]
  <2>1. k - 1 \in 0..K /\ k \in 0..K /\ k # 0
    BY <1>1
  <2>2. round[k] = step[s]
    BY <1>3, <2>1
  <2> HIDE DEF round
  <2>3. s \in S /\ Knows(n, s)
    BY <1>5 DEF Knows
  <2>4. round[k] = IF over(s) THEN s ELSE Fr!Look(s)
    BY <2>2, <2>3
  <2> HIDE DEF step
  <2>5. CASE over(s)
    BY <2>3, <2>4, <2>5
  <2>6. CASE ~over(s)
    <3>1. Knows(n, Fr!Look(s)) /\ Fr!Look(s).bit = s.bit + 1
      BY <2>3, <2>6, KnowsLook
    <3>2. s.bit = Fr!Start.bit + (k - 1) /\ Fr!Start.bit \in Nat
      BY <1>1, <1>5, <2>6 DEF Fr!Start
    <3> QED  BY <2>4, <2>6, <3>1, <3>2
  <2> QED  BY <2>5, <2>6
<1>6. Bad = {}
  <2> SUFFICES ASSUME Bad # {} PROVE FALSE
    OBVIOUS
  <2> HIDE DEF Good
  <2>1. PICK m \in Bad : \A l \in Bad : m <= l
    <3>1. Bad \subseteq Nat
      BY <1>1
    <3> HIDE DEF Bad
    <3> QED  BY <3>1, LeastElement
  <2>2. m # 0 /\ m \in 0..K
    BY <1>4, <2>1
  <2>3. m \in 1..K /\ m - 1 \in 0..K /\ m - 1 \notin Bad
    BY <1>1, <2>1, <2>2
  <2> QED  BY <1>5, <2>1, <2>3
<1>7. Good(K)
  <2>1. K \in 0..K
    BY <1>1
  <2> HIDE DEF Good, K
  <2> QED  BY <1>6, <2>1
<1>8. Fr!Start.bit \in Nat
  BY <1>1 DEF Fr!Start
<1> HIDE DEF round
<1> QED  BY <1>1, <1>2, <1>7, <1>8

(* What an allocation takes was free.                                      *)
LEMMA AllocTakesFree ==
  ASSUME Fr!PmmInv, NEW n \in 1..MaxRun, Fr!Searched(n).found >= n
  PROVE  Fr!Searched(n).frame \in bitmap /\ Fr!Run(Fr!Searched(n).frame, n) \subseteq bitmap
<1> DEFINE s == Fr!Searched(n)
<1>1. n \in Nat \ {0} /\ Fr!TypeOK
  BY PmmBasics DEF Fr!PmmInv
<1>2. Knows(n, s)
  BY <1>1, SearchedFacts
<1> HIDE DEF s
<1>3. s.found = n /\ s.frame \in Nat /\ Fr!Run(s.frame, n) \subseteq bitmap
  <2>1. s.found \in Nat /\ s.found >= n
    BY <1>2 DEF Knows, s
  <2>2. /\ s \in [bit : Nat, frame : Nat, found : Nat] /\ s.found <= n
        /\ s.found > 0 => Fr!Run(s.frame, s.found) \subseteq bitmap
    BY <1>2 DEF Knows
  <2>3. s.found = n
    BY <1>1, <2>1, <2>2
  <2>4. s.found > 0 /\ s.frame \in Nat
    BY <1>1, <2>2, <2>3
  <2> QED  BY <2>2, <2>3, <2>4
<1>4. s.frame \in bitmap
  BY <1>1, <1>3, RunFacts
<1>5. s.frame \in bitmap /\ Fr!Run(s.frame, n) \subseteq bitmap
  BY <1>3, <1>4
<1> QED  BY <1>5 DEF s

LEMMA StepAlloc ==
  ASSUME Fr!PmmInv, NEW n \in 1..MaxRun, Fr!alloc_frames(n)
  PROVE  Fr!PmmInv'
<1> DEFINE frame == Fr!Searched(n).frame
           left == bitmap \ Fr!Run(frame, n)
<1>1. /\ init /\ panic = 0 /\ UNCHANGED <<bitmap_size, init, panic>>
      /\ bitmap' = left /\ first_free_index' = Fr!NextIndex(left)
      /\ owned' = owned \cup Fr!Run(frame, n)
      /\ Fr!Searched(n).found >= n
  BY DEF Fr!alloc_frames
<1>4. Fr!Run(frame, n) \subseteq bitmap
  BY <1>1, AllocTakesFree
<1> HIDE DEF frame
<1>5. \A f \in bitmap : /\ Fr!BITMAP_INDEX(f) \in Nat /\ Fr!BITMAP_INDEX(f) < bitmap_size
                        /\ first_free_index <= Fr!BITMAP_INDEX(f)
  BY Index, PmmBasics DEF Fr!PmmInv, Fr!TypeOK, Fr!HintIsSafe
<1>6. /\ Fr!NextIndex(left) \in Nat
      /\ \A f \in left : Fr!NextIndex(left) <= Fr!BITMAP_INDEX(f)
  <2>1. CASE left = {}
    <3>1. Fr!Words(left) = {}
      BY <2>1 DEF Fr!Words
    <3> QED  BY <2>1, <3>1 DEF Fr!NextIndex, Fr!PmmInv, Fr!TypeOK
  <2>2. CASE left # {}
    <3>1. Fr!Words(left) \in SUBSET Nat /\ Fr!Words(left) # {}
      BY <1>5, <2>2 DEF Fr!Words
    <3>2. {i \in Fr!Words(left) : i >= first_free_index} = Fr!Words(left)
      <4> SUFFICES ASSUME NEW i \in Fr!Words(left) PROVE i >= first_free_index
        OBVIOUS
      <4>1. PICK f \in left : i = Fr!BITMAP_INDEX(f)
        BY DEF Fr!Words
      <4> QED  BY <1>5, <4>1 DEF Fr!PmmInv, Fr!TypeOK
    <3>3. Fr!NextIndex(left) = Fr!Min(Fr!Words(left))
      BY <3>1, <3>2 DEF Fr!NextIndex
    <3>4. Fr!Min(Fr!Words(left)) \in Nat /\ \A y \in Fr!Words(left) : Fr!Min(Fr!Words(left)) <= y
      BY <3>1, MinNat
    <3> QED  BY <3>3, <3>4 DEF Fr!Words
  <2> QED  BY <2>1, <2>2
<1>7. Fr!TypeOK'
  BY <1>1, <1>4, <1>6 DEF Fr!PmmInv, Fr!TypeOK
<1>8. Fr!HintIsSafe'
  BY <1>1, <1>5, <1>6 DEF Fr!HintIsSafe, Fr!BITMAP_INDEX
<1>9. Fr!OwnedOnce'
  BY <1>1, <1>4 DEF Fr!PmmInv, Fr!OwnedOnce, Fr!BitmapFrames
<1>10. Fr!PanicIsJustified'
  BY <1>1 DEF Fr!PanicIsJustified
<1>11. \A f \in owned' : Fr!BITMAP_INDEX(f) < bitmap_size
  BY <1>1, <1>4, <1>5 DEF Fr!PmmInv
<1> QED  BY <1>1, <1>7, <1>8, <1>9, <1>10, <1>11 DEF Fr!PmmInv, Fr!BITMAP_INDEX

(* The first and the last bit of a word.                                   *)
LEMMA WordStart ==
  ASSUME NEW w \in Nat \ {0}, NEW i \in Nat, NEW f \in Nat, i <= f \div w
  PROVE  i * w <= f
<1>1. (f \div w) * w <= f /\ f \div w \in Nat
  OBVIOUS
<1>2. i * w <= (f \div w) * w
  BY <1>1
<1> QED  BY <1>1, <1>2

LEMMA WordEnd ==
  ASSUME NEW w \in Nat \ {0}, NEW i \in Nat, NEW f \in Nat, f \div w + 1 <= i
  PROVE  f < i * w
<1>1. f < (f \div w + 1) * w /\ f \div w \in Nat
  OBVIOUS
<1>2. (f \div w + 1) * w <= i * w
  BY <1>1
<1> QED  BY <1>1, <1>2

LEMMA StepPanic ==
  ASSUME Fr!PmmInv, NEW n \in 1..MaxRun, Fr!OutOfMemory(n)
  PROVE  Fr!PmmInv'
<1>1. /\ init /\ panic' = n /\ UNCHANGED <<bitmap, bitmap_size, first_free_index, init, owned>>
  BY DEF Fr!OutOfMemory
<1>2. \A f \in Fr!Frame : ~(Fr!Run(f, n) \subseteq bitmap)
  <2> SUFFICES ASSUME NEW f \in Fr!Frame, Fr!Run(f, n) \subseteq bitmap PROVE FALSE
    OBVIOUS
  <2>1. f \in bitmap /\ f + n - 1 \in bitmap
    <3>1. f \in Nat /\ n \in Nat \ {0}
      BY PmmBasics DEF Fr!Frame
    <3> QED  BY <3>1, RunFacts
  <2>2. /\ first_free_index <= Fr!BITMAP_INDEX(f) /\ Fr!BITMAP_INDEX(f) < bitmap_size
        /\ Fr!BITMAP_INDEX(f + n - 1) < bitmap_size
    BY <2>1 DEF Fr!PmmInv, Fr!HintIsSafe
  <2>3. Fr!BITMAP_INDEX(f) \in Int /\ first_free_index \in Int /\ bitmap_size \in Int
    BY Index, PmmBasics DEF Fr!PmmInv, Fr!TypeOK
  <2>4. first_free_index < bitmap_size
    BY <2>2, <2>3
  <2> DEFINE t == Fr!Searched(n)
  <2>5. t.found < n
    BY <2>3, <2>4 DEF Fr!OutOfMemory
  <2>6. n \in Nat \ {0} /\ Fr!TypeOK /\ f \in Nat
    BY PmmBasics DEF Fr!PmmInv, Fr!Frame
  <2>7. Knows(n, t) /\ (t.found >= n \/ t.bit >= Fr!Bits)
    BY <2>6, SearchedFacts
  <2> HIDE DEF t
  <2>8. t.bit \in Nat /\ t.found \in Nat /\ t.bit >= Fr!Bits
    BY <2>5, <2>6, <2>7 DEF Knows
  <2>9. first_free_index * WordBits <= f /\ f + n <= bitmap_size * WordBits
    <3>1. /\ WordBits \in Nat \ {0} /\ first_free_index \in Nat /\ bitmap_size \in Nat
          /\ f + n - 1 \in Nat
      BY <2>6, PmmBasics DEF Fr!TypeOK
    <3>2. first_free_index <= f \div WordBits /\ (f + n - 1) \div WordBits + 1 <= bitmap_size
      BY <2>2, <3>1 DEF Fr!BITMAP_INDEX
    <3>3. first_free_index * WordBits <= f
      BY <2>6, <3>1, <3>2, WordStart
    <3>4. f + n - 1 < bitmap_size * WordBits
      BY <3>1, <3>2, WordEnd
    <3>5. bitmap_size * WordBits \in Nat
      BY <3>1
    <3> QED  BY <2>6, <3>3, <3>4, <3>5
  <2>10. f + n <= t.bit
    BY <2>6, <2>8, <2>9, PmmBasics DEF Fr!Bits, Fr!TypeOK
  <2> QED  BY <2>5, <2>6, <2>7, <2>9, <2>10 DEF Knows
<1>3. Fr!TypeOK' /\ Fr!HintIsSafe' /\ Fr!OwnedOnce'
  BY <1>1 DEF Fr!PmmInv, Fr!TypeOK, Fr!HintIsSafe, Fr!OwnedOnce, Fr!BitmapFrames, Fr!BITMAP_INDEX
<1>4. Fr!PanicIsJustified'
  BY <1>1, <1>2 DEF Fr!PanicIsJustified, Fr!Run
<1> QED  BY <1>1, <1>3, <1>4 DEF Fr!PmmInv, Fr!BITMAP_INDEX

LEMMA StepClaim ==
  ASSUME Fr!PmmInv, NEW f \in Fr!Frame, Fr!set_allocated(f)
  PROVE  Fr!PmmInv'
<1>1. /\ init /\ panic = 0 /\ UNCHANGED <<bitmap_size, first_free_index, init, panic>>
      /\ bitmap' = bitmap \ {f} /\ owned' = owned \cup {f} /\ f \in bitmap
      /\ Fr!BITMAP_INDEX(f) < bitmap_size
  BY DEF Fr!set_allocated, Fr!is_allocated
<1>2. Fr!TypeOK' /\ Fr!HintIsSafe'
  BY <1>1 DEF Fr!PmmInv, Fr!TypeOK, Fr!HintIsSafe, Fr!BITMAP_INDEX
<1>3. Fr!OwnedOnce' /\ Fr!PanicIsJustified'
  BY <1>1 DEF Fr!PmmInv, Fr!OwnedOnce, Fr!BitmapFrames, Fr!PanicIsJustified
<1> QED  BY <1>1, <1>2, <1>3 DEF Fr!PmmInv, Fr!BITMAP_INDEX

LEMMA StepRelease ==
  ASSUME Fr!PmmInv, NEW f \in Fr!Frame, NEW n \in 1..MaxRun, Fr!Release(f, n)
  PROVE  Fr!PmmInv'
<1>1. /\ init /\ panic = 0 /\ Fr!Run(f, n) \subseteq owned /\ Fr!Free(f, n)
      /\ owned' = owned \ Fr!Run(f, n) /\ UNCHANGED <<init, panic>>
  BY DEF Fr!Release
<1>2. Fr!Run(f, n) \subseteq Fr!Frame /\ n \in Nat \ {0}
  BY <1>1, PmmBasics DEF Fr!PmmInv, Fr!TypeOK
<1>3. /\ Fr!Freed(f, n) \subseteq Fr!Run(f, n)
      /\ bitmap' = bitmap \cup Fr!Freed(f, n)
      /\ first_free_index' \in Nat
      /\ \/ bitmap_size' = bitmap_size
         \/ \E g \in Fr!Run(f, n) : ~(Fr!BITMAP_INDEX(g) < bitmap_size)
      /\ first_free_index' <= first_free_index
      /\ \A g \in Fr!Freed(f, n) : first_free_index' <= Fr!BITMAP_INDEX(g)
  BY <1>1, <1>2, FreeFacts DEF Fr!PmmInv
<1>4. bitmap_size' = bitmap_size
  BY <1>1, <1>3 DEF Fr!PmmInv
<1>5. Fr!TypeOK'
  BY <1>1, <1>2, <1>3, <1>4 DEF Fr!PmmInv, Fr!TypeOK
<1>6. Fr!HintIsSafe'
  <2> SUFFICES ASSUME NEW g \in bitmap'
               PROVE  first_free_index' <= Fr!BITMAP_INDEX(g) /\ Fr!BITMAP_INDEX(g) < bitmap_size'
    BY DEF Fr!HintIsSafe, Fr!BITMAP_INDEX
  <2>1. CASE g \in Fr!Freed(f, n)
    BY <1>1, <1>3, <1>4, <2>1 DEF Fr!PmmInv
  <2>2. CASE g \in bitmap
    <3>1. first_free_index <= Fr!BITMAP_INDEX(g) /\ Fr!BITMAP_INDEX(g) < bitmap_size
      BY <2>2 DEF Fr!PmmInv, Fr!HintIsSafe
    <3>2. Fr!BITMAP_INDEX(g) \in Int /\ first_free_index \in Int
      BY <2>2, Index, PmmBasics DEF Fr!PmmInv, Fr!TypeOK
    <3> QED  BY <1>3, <1>4, <3>1, <3>2
  <2> QED  BY <1>3, <2>1, <2>2
<1>7. Fr!OwnedOnce'
  <2>1. Fr!BitmapFrames' = Fr!BitmapFrames
    BY <1>4 DEF Fr!BitmapFrames
  <2> QED  BY <1>1, <1>3, <2>1 DEF Fr!PmmInv, Fr!OwnedOnce
<1>8. Fr!PanicIsJustified'
  BY <1>1 DEF Fr!PanicIsJustified
<1>9. \A g \in owned' : Fr!BITMAP_INDEX(g) < bitmap_size'
  BY <1>1, <1>4 DEF Fr!PmmInv
<1> QED  BY <1>1, <1>5, <1>6, <1>7, <1>8, <1>9 DEF Fr!PmmInv, Fr!BITMAP_INDEX

LEMMA InitFrames == Fr!Init => Fr!PmmInv
<1> SUFFICES ASSUME Fr!Init PROVE Fr!PmmInv
  OBVIOUS
<1>1. Fr!TypeOK
  <2>1. bitmap_size \in Nat /\ first_free_index \in Nat /\ panic \in 0..MaxRun
    BY PmmBasics DEF Fr!Init
  <2>2. bitmap \subseteq Fr!Frame /\ owned \subseteq Fr!Frame /\ init \in BOOLEAN
    BY DEF Fr!Init
  <2> QED  BY <2>1, <2>2 DEF Fr!TypeOK
<1>2. Fr!HintIsSafe /\ Fr!OwnedOnce
  BY DEF Fr!Init, Fr!HintIsSafe, Fr!OwnedOnce
<1>3. Fr!PanicIsJustified
  BY DEF Fr!Init, Fr!PanicIsJustified
<1> QED  BY <1>1, <1>2, <1>3 DEF Fr!Init, Fr!PmmInv

LEMMA NextFrames == Fr!PmmInv /\ Fr!Next => Fr!PmmInv'
<1> SUFFICES ASSUME Fr!PmmInv, Fr!Next PROVE Fr!PmmInv'
  OBVIOUS
<1>1. ASSUME NEW f \in Fr!Frame, Fr!mark_frame(f) PROVE Fr!PmmInv'
  BY <1>1, StepMark
<1>2. CASE Fr!FinishInit
  BY <1>2, StepFinish
<1>3. ASSUME NEW n \in 1..MaxRun, Fr!alloc_frames(n) PROVE Fr!PmmInv'
  BY <1>3, StepAlloc
<1>4. ASSUME NEW n \in 1..MaxRun, Fr!OutOfMemory(n) PROVE Fr!PmmInv'
  BY <1>4, StepPanic
<1>5. ASSUME NEW f \in Fr!Frame, Fr!set_allocated(f) PROVE Fr!PmmInv'
  BY <1>5, StepClaim
<1>6. ASSUME NEW f \in Fr!Frame, NEW n \in 1..MaxRun, Fr!Release(f, n) PROVE Fr!PmmInv'
  BY <1>6, StepRelease
<1> QED  BY <1>1, <1>2, <1>3, <1>4, <1>5, <1>6 DEF Fr!Next

(* The inductive invariant of the allocator, for any amount of memory.     *)
THEOREM PmmInvariance == Spec => [](part = "frames" => Fr!PmmInv)
<1> DEFINE Inv == part = "frames" => Fr!PmmInv
<1>1. Init => Inv
  BY InitFrames DEF Init
<1>2. Inv /\ [Next]_vars => Inv'
  <2> SUFFICES ASSUME Inv, [Next]_vars PROVE Inv'
    OBVIOUS
  <2>1. CASE part # "frames"
    BY <2>1 DEF Next, vars
  <2>2. CASE part = "frames" /\ Next
    BY <2>2, NextFrames DEF Next
  <2>3. CASE part = "frames" /\ UNCHANGED vars
    <3>1. Fr!PmmInv /\ UNCHANGED pmmVars
      BY <2>3 DEF vars
    <3>2. Fr!PmmInv'
      BY <3>1 DEF pmmVars, Fr!PmmInv, Fr!TypeOK, Fr!HintIsSafe, Fr!OwnedOnce,
                  Fr!PanicIsJustified, Fr!BitmapFrames, Fr!BITMAP_INDEX, Fr!Run
    <3> QED  BY <3>2
  <2> QED  BY <2>1, <2>2, <2>3
<1> QED  BY <1>1, <1>2, PTL DEF Spec

(* For any amount of memory and any sequence of allocations, claims and    *)
(* frees of owned frames, no frame is owned and free at once.              *)
THEOREM PmmSafety == Spec => []OwnedOnce
<1>1. (part = "frames" => Fr!PmmInv) => OwnedOnce
  BY DEF Fr!PmmInv, OwnedOnce
<1> QED  BY <1>1, PmmInvariance, PTL

(* The search for a free frame, which starts at first_free_index, skips no *)
(* free frame.                                                             *)
THEOREM HintStaysSafe == Spec => [](part = "frames" => Fr!HintIsSafe)
<1>1. (part = "frames" => Fr!PmmInv) => (part = "frames" => Fr!HintIsSafe)
  BY DEF Fr!PmmInv
<1> QED  BY <1>1, PmmInvariance, PTL

(* The kernel panics for lack of memory only when no run of free frames is *)
(* long enough.                                                            *)
THEOREM PanicStaysJustified == Spec => []PanicIsJustified
<1>1. (part = "frames" => Fr!PmmInv) => PanicIsJustified
  BY DEF Fr!PmmInv, PanicIsJustified
<1> QED  BY <1>1, PmmInvariance, PTL

(* What the counting loop of k_mem_pmm_alloc_frames finds, whatever bits   *)
(* are set and wherever the hint is, are consecutive frames that were free *)
(* and that nobody owned.                                                  *)
THEOREM GrantsStayFresh == Spec => GrantsAreFresh
<1>1. ASSUME Fr!PmmInv, NEW n \in 1..MaxRun, Fr!alloc_frames(n)
      PROVE  \E f \in bitmap : Fr!Run(f, n) \subseteq bitmap /\ owned' \ owned = Fr!Run(f, n)
  <2> DEFINE f == Fr!Searched(n).frame
  <2>1. f \in bitmap /\ Fr!Run(f, n) \subseteq bitmap
    BY <1>1, AllocTakesFree DEF Fr!alloc_frames
  <2>2. owned' = owned \cup Fr!Run(f, n)
    BY <1>1 DEF Fr!alloc_frames
  <2> HIDE DEF f
  <2>3. owned' \ owned = Fr!Run(f, n)
    BY <1>1, <2>1, <2>2 DEF Fr!PmmInv, Fr!OwnedOnce
  <2> QED  BY <2>1, <2>3
<1>2. (part = "frames" => Fr!PmmInv) => [part = "frames" => Fr!Fresh]_vars
  BY <1>1 DEF Fr!Fresh
<1> QED  BY <1>2, PmmInvariance, PTL DEF GrantsAreFresh

(***************************************************************************)
(* Address spaces and shared memory                                        *)
(***************************************************************************)

(* The set operators of the instance are those of the library.             *)
LEMMA MemCounts == \A T : Mem!Cardinality(T) = Cardinality(T) /\ (Mem!IsFiniteSet(T) <=> IsFiniteSet(T))
  BY DEF Mem!Cardinality, Cardinality, Mem!IsFiniteSet, IsFiniteSet

(* The rank of an element: how many of a set of numbers are below it.      *)
LEMMA RankFacts ==
  ASSUME NEW Z, Z \subseteq Nat, IsFiniteSet(Z)
  PROVE  /\ Cardinality(Z) \in Nat
         /\ \A x \in Z : Cardinality({y \in Z : y < x}) \in 0..(Cardinality(Z) - 1)
         /\ \A x, z \in Z : Cardinality({y \in Z : y < x}) = Cardinality({y \in Z : y < z}) => x = z
<1> DEFINE B(x) == {y \in Z : y < x}
<1>1. Cardinality(Z) \in Nat
  BY FS_CardinalityType
<1>2. ASSUME NEW x \in Z
      PROVE  IsFiniteSet(B(x)) /\ Cardinality(B(x)) \in Nat /\ Cardinality(B(x)) < Cardinality(Z)
  <2>1. B(x) \subseteq Z /\ x \notin B(x)
    OBVIOUS
  <2>2. B(x) # Z
    BY <2>1
  <2>3. IsFiniteSet(B(x)) /\ Cardinality(B(x)) <= Cardinality(Z)
        /\ (Cardinality(Z) = Cardinality(B(x)) => Z = B(x))
    BY <2>1, FS_Subset
  <2>4. Cardinality(B(x)) \in Nat
    BY <2>3, FS_CardinalityType
  <2> HIDE DEF B
  <2> QED
    BY <1>1, <2>2, <2>3, <2>4
<1>3. ASSUME NEW x \in Z, NEW z \in Z, x < z
      PROVE  Cardinality(B(x)) # Cardinality(B(z))
  <2>1. B(x) \subseteq B(z) /\ x \in B(z) /\ x \notin B(x)
    <3>1. x \in Nat /\ z \in Nat /\ \A y \in Z : y \in Nat
      OBVIOUS
    <3>2. \A y \in Z : y < x => y < z
      BY <1>3, <3>1
    <3>3. ~(x < x)
      BY <3>1
    <3> QED
      BY <1>3, <3>2, <3>3, Zenon
  <2>2. Cardinality(B(z)) = Cardinality(B(x)) => B(z) = B(x)
    BY <1>2, <2>1, FS_Subset
  <2> HIDE DEF B
  <2> QED
    BY <2>1, <2>2
<1>4. \A x, z \in Z : Cardinality(B(x)) = Cardinality(B(z)) => x = z
  <2> SUFFICES ASSUME NEW x \in Z, NEW z \in Z, Cardinality(B(x)) = Cardinality(B(z))
               PROVE  x = z
    OBVIOUS
  <2>1. ~(x < z) /\ ~(z < x)
    BY <1>3
  <2>2. x \in Nat /\ z \in Nat
    OBVIOUS
  <2> HIDE DEF B
  <2> QED
    BY <2>1, <2>2
<1>5. \A x \in Z : Cardinality(B(x)) \in 0..(Cardinality(Z) - 1)
  <2> HIDE DEF B
  <2> QED
    BY <1>1, <1>2
<1> QED
  BY <1>1, <1>4, <1>5

LEMMA RankExists ==
  ASSUME NEW Z, Z \subseteq Nat, IsFiniteSet(Z), NEW i \in 1..Cardinality(Z)
  PROVE  \E x \in Z : Cardinality({y \in Z : y < x}) = i - 1
<1> DEFINE B(x) == {y \in Z : y < x}
           Bad == {k \in 1..Cardinality(Z) : ~\E x \in Z : Cardinality(B(x)) = k - 1}
<1>1. Cardinality(Z) \in Nat
  BY FS_CardinalityType
<1>2. SUFFICES ASSUME Bad # {}
               PROVE  FALSE
  BY <1>1
<1>3. Bad \subseteq Nat
  BY <1>1
<1>4. PICK k \in Bad : \A l \in Bad : k <= l
  <2> HIDE DEF Bad
  <2> QED
    BY <1>2, <1>3, LeastElement
<1>5. CASE k = 1
  <2>1. Z # {}
    BY <1>1, <1>4, <1>5, FS_EmptySet
  <2>2. PICK x \in Z : \A y \in Z : x <= y
    BY <2>1, LeastElement
  <2>3. B(x) = {}
    <3>1. x \in Nat /\ \A y \in Z : y \in Nat /\ x <= y
      BY <2>2
    <3>2. \A y \in Z : ~(y < x)
      BY <3>1
    <3> QED
      BY <3>2, Zenon
  <2>4. Cardinality(B(x)) = 0
    BY <2>3, FS_EmptySet
  <2>5. ~\E y \in Z : Cardinality(B(y)) = k - 1
    BY <1>4
  <2> HIDE DEF B
  <2> QED
    BY <1>5, <2>4, <2>5
<1>6. CASE k # 1
  <2>1. k \in 2..Cardinality(Z) /\ k - 1 \notin Bad
    BY <1>1, <1>3, <1>4, <1>6
  <2>2. PICK x \in Z : Cardinality(B(x)) = k - 2
    BY <1>1, <2>1
  <2> DEFINE T == B(x) \cup {x}
  <2>3. IsFiniteSet(B(x)) /\ x \notin B(x)
    BY FS_Subset
  <2>4. Cardinality(T) = k - 1
    <3>1. Cardinality(T) = Cardinality(B(x)) + 1
      <4> HIDE DEF B
      <4> QED
        BY <2>3, FS_AddElement
    <3> HIDE DEF B, T
    <3> QED
      BY <2>1, <2>2, <3>1
  <2>5. Z \ T # {}
    <3>1. T \subseteq Z
      OBVIOUS
    <3>2. T # Z
      <4> HIDE DEF T
      <4> QED
        BY <1>1, <2>1, <2>4
    <3> QED
      BY <3>1, <3>2
  <2>6. PICK z \in Z \ T : \A y \in Z \ T : z <= y
    <3> HIDE DEF T
    <3> QED
      BY <2>5, LeastElement
  <2>7. B(z) = T
    <3>1. \A y \in Z : y \in T <=> y <= x
      OBVIOUS
    <3>2. x < z
      BY <2>6, <3>1
    <3>3. \A y \in Z : y < z <=> y \in T
      <4> HIDE DEF T
      <4> QED
        BY <2>6, <3>1, <3>2
    <3>4. T \subseteq Z
      OBVIOUS
    <3> HIDE DEF T
    <3> QED
      BY <3>3, <3>4
  <2> QED
    BY <1>4, <2>4, <2>6, <2>7
<1> QED
  BY <1>5, <1>6

(* The k lowest elements of a set, in order.                               *)
LEMMA AscendingFacts ==
  ASSUME NEW Z, Z \subseteq Nat, IsFiniteSet(Z), NEW k \in 0..Cardinality(Z)
  PROVE  LET a == Mem!Ascending(Z, k)
         IN  /\ DOMAIN a = 1..k /\ a \in Seq(Z) /\ Len(a) = k
             /\ \A i \in 1..k : a[i] \in Z
             /\ \A i, j \in 1..k : a[i] = a[j] => i = j
<1> DEFINE a == Mem!Ascending(Z, k)
           r(x) == Cardinality({y \in Z : y < x})
<1>1. Cardinality(Z) \in Nat
  BY FS_CardinalityType
<1>2. a = [i \in 1..k |-> CHOOSE x \in Z : r(x) = i - 1]
  BY DEF Mem!Ascending, Mem!Cardinality, Cardinality
<1>3. ASSUME NEW i \in 1..k
      PROVE  a[i] \in Z /\ r(a[i]) = i - 1
  <2>1. i \in 1..Cardinality(Z)
    BY <1>1
  <2>2. \E x \in Z : r(x) = i - 1
    BY <2>1, RankExists
  <2>3. a[i] = CHOOSE x \in Z : r(x) = i - 1
    BY <1>2
  <2> HIDE DEF a, r
  <2> QED
    BY <2>2, <2>3
<1>4. \A i, j \in 1..k : a[i] = a[j] => i = j
  <2> HIDE DEF a, r
  <2> QED
    BY <1>1, <1>3
<1>5. DOMAIN a = 1..k /\ a \in [1..k -> Z] /\ k \in Nat
  <2>1. k \in Nat
    BY <1>1
  <2> QED
    BY <1>2, <1>3, <2>1
<1>6. a \in Seq(Z) /\ Len(a) = k
  <2> HIDE DEF a
  <2> QED
    BY <1>5
<1> QED
  BY <1>3, <1>4, <1>5, <1>6

(***************************************************************************)
(* Pages that hold frames                                                  *)
(***************************************************************************)

(* Pages that held none get new frames, one each.                          *)
LEMMA OwnGrows ==
  ASSUME NEW h, NEW k, NEW fr, NEW u, NEW fresh, Mem!Own(h, fr, u),
         0 \notin u, 0 \notin fresh, fresh \cap u = {},
         \A p \in MemProcs, v \in Mem!Pages :
           k[p][v] = h[p][v] \/ (h[p][v] = 0 /\ k[p][v] \in fresh),
         \A p, q \in MemProcs, v, w \in Mem!Pages :
           k[p][v] \in fresh /\ k[p][v] = k[q][w] => p = q /\ v = w,
         \A f \in fresh : \E p \in MemProcs, v \in Mem!Pages : k[p][v] = f
  PROVE  Mem!Own(k, fr, u \cup fresh)
<1>1. \A p \in MemProcs, v \in Mem!Pages : k[p][v] \notin fresh => k[p][v] = h[p][v]
  OBVIOUS
<1>2. \A p \in MemProcs, v \in Mem!Pages : h[p][v] # 0 => h[p][v] \in u /\ k[p][v] = h[p][v]
  BY DEF Mem!Own
<1>3. \A p, q \in MemProcs, v, w \in Mem!Pages : k[p][v] # 0 /\ k[p][v] = k[q][w] => p = q /\ v = w
  <2> SUFFICES ASSUME NEW p \in MemProcs, NEW q \in MemProcs, NEW v \in Mem!Pages, NEW w \in Mem!Pages,
                      k[p][v] # 0, k[p][v] = k[q][w], k[p][v] \notin fresh
               PROVE  p = q /\ v = w
    OBVIOUS
  <2>1. k[p][v] = h[p][v] /\ k[q][w] = h[q][w]
    BY <1>1
  <2>2. h[p][v] # 0 /\ h[p][v] = h[q][w] => p = q /\ v = w
    BY DEF Mem!Own
  <2> QED
    BY <2>1, <2>2, Zenon
<1>4. \A p \in MemProcs, v \in Mem!Pages : k[p][v] # 0 => k[p][v] \in u \cup fresh
  BY <1>1, <1>2
<1>5. \A p \in MemProcs, v \in Mem!Pages : \A i \in DOMAIN fr : fr[i] # k[p][v]
  BY <1>1 DEF Mem!Own
<1>6. \A f \in u : (\E p \in MemProcs, v \in Mem!Pages : k[p][v] = f) \/ (\E i \in DOMAIN fr : fr[i] = f)
  BY <1>2 DEF Mem!Own
<1> QED
  BY <1>3, <1>4, <1>5, <1>6 DEF Mem!Own

(* Pages give up what they hold, and it is free.                           *)
LEMMA OwnShrinks ==
  ASSUME NEW h, NEW k, NEW fr, NEW u, NEW t, Mem!Own(h, fr, u), 0 \notin u,
         \A p \in MemProcs, v \in Mem!Pages : k[p][v] = h[p][v] \/ k[p][v] = 0,
         \A f : f \in t <=> /\ f \in u
                            /\ ~\E p \in MemProcs, v \in Mem!Pages : h[p][v] = f /\ k[p][v] = 0
  PROVE  Mem!Own(k, fr, t)
<1>1. \A p, q \in MemProcs, v, w \in Mem!Pages : k[p][v] # 0 /\ k[p][v] = k[q][w] => p = q /\ v = w
  BY DEF Mem!Own
<1>2. \A p \in MemProcs, v \in Mem!Pages : k[p][v] # 0 => k[p][v] \in t
  <2> SUFFICES ASSUME NEW p \in MemProcs, NEW v \in Mem!Pages, k[p][v] # 0,
                      NEW q \in MemProcs, NEW w \in Mem!Pages, h[q][w] = k[p][v]
               PROVE  k[p][v] \in u /\ k[q][w] # 0
    BY DEF Mem!Own
  <2>1. h[p][v] = k[p][v]
    OBVIOUS
  <2>2. p = q /\ v = w
    BY <2>1 DEF Mem!Own
  <2> QED
    BY <2>1, <2>2 DEF Mem!Own
<1>3. \A p \in MemProcs, v \in Mem!Pages : \A i \in DOMAIN fr : fr[i] # k[p][v]
  <2>1. \A i \in DOMAIN fr : fr[i] # 0
    BY DEF Mem!Own
  <2> QED
    BY <2>1 DEF Mem!Own
<1>4. \A i \in DOMAIN fr : fr[i] \in t
  BY DEF Mem!Own
<1>5. \A f \in t : (\E p \in MemProcs, v \in Mem!Pages : k[p][v] = f) \/ (\E i \in DOMAIN fr : fr[i] = f)
  <2> SUFFICES ASSUME NEW f \in t, ~\E i \in DOMAIN fr : fr[i] = f
               PROVE  \E p \in MemProcs, v \in Mem!Pages : k[p][v] = f
    OBVIOUS
  <2>1. PICK p \in MemProcs, v \in Mem!Pages : h[p][v] = f
    BY DEF Mem!Own
  <2> QED
    BY <2>1
<1>6. \A i, j \in DOMAIN fr : fr[i] = fr[j] => i = j
  BY DEF Mem!Own
<1> QED
  BY <1>1, <1>2, <1>3, <1>4, <1>5, <1>6 DEF Mem!Own

(* The object gets new frames at its end, or gives up its first n.         *)
LEMMA OwnAppends ==
  ASSUME NEW h, NEW fr \in Seq(Mem!AllFrames), NEW u, NEW new \in Seq(Mem!AllFrames), Mem!Own(h, fr, u),
         u \subseteq Mem!AllFrames, \A i \in DOMAIN new : new[i] \notin u,
         \A i, j \in DOMAIN new : new[i] = new[j] => i = j
  PROVE  Mem!Own(h, fr \o new, u \cup {new[i] : i \in DOMAIN new})
<1> DEFINE s == fr \o new
           n == Len(fr)
           m == Len(new)
<1>1. /\ n \in Nat /\ m \in Nat /\ DOMAIN fr = 1..n /\ DOMAIN new = 1..m /\ DOMAIN s = 1..(n + m)
      /\ \A i \in 1..n : s[i] = fr[i]
      /\ \A i \in (n + 1)..(n + m) : i - n \in 1..m /\ s[i] = new[i - n]
      /\ \A i \in 1..m : n + i \in 1..(n + m) /\ s[n + i] = new[i]
      /\ \A i \in 1..(n + m) : i \in 1..n \/ i \in (n + 1)..(n + m)
      /\ \A i \in 1..n : i \in 1..(n + m)
  OBVIOUS
<1>2. \A i \in 1..n : fr[i] \in u
  BY <1>1 DEF Mem!Own
<1>3. \A i, j \in 1..n : fr[i] = fr[j] => i = j
  BY <1>1 DEF Mem!Own
<1>4. \A i \in 1..m : new[i] \in Mem!AllFrames /\ new[i] # 0
  <2>1. 0 \notin Mem!AllFrames
    BY KernelAssumption DEF Mem!AllFrames, Mem!MemoryAssumption
  <2> QED
    BY <1>1, <2>1
<1> DEFINE N == {new[i] : i \in DOMAIN new}
<1>5. \A i \in 1..m : new[i] \in N
  BY <1>1
<1>6. \A f \in N : \E i \in 1..m : new[i] = f
  BY <1>1
<1> HIDE DEF s, n, m, N
<1>7. \A p \in MemProcs, v \in Mem!Pages : \A i \in DOMAIN s : s[i] # h[p][v]
  <2> SUFFICES ASSUME NEW p \in MemProcs, NEW v \in Mem!Pages, NEW i \in DOMAIN s, s[i] = h[p][v]
               PROVE  FALSE
    OBVIOUS
  <2>1. CASE i \in 1..n
    BY <1>1, <2>1 DEF Mem!Own
  <2>2. CASE i \in (n + 1)..(n + m)
    <3>1. s[i] \notin u /\ s[i] # 0
      BY <1>1, <1>4, <2>2
    <3> QED
      BY <3>1 DEF Mem!Own
  <2> QED
    BY <1>1, <2>1, <2>2
<1>8. \A i \in DOMAIN s : s[i] \in u \cup N
  BY <1>1, <1>2, <1>5
<1>9. \A i, j \in DOMAIN s : s[i] = s[j] => i = j
  <2> SUFFICES ASSUME NEW i \in DOMAIN s, NEW j \in DOMAIN s, s[i] = s[j]
               PROVE  i = j
    OBVIOUS
  <2>1. CASE i \in 1..n /\ j \in 1..n
    BY <1>1, <1>3, <2>1
  <2>2. CASE i \in (n + 1)..(n + m) /\ j \in (n + 1)..(n + m)
    <3>1. i - n \in DOMAIN new /\ j - n \in DOMAIN new /\ new[i - n] = new[j - n]
      BY <1>1, <2>2
    <3>2. i - n = j - n
      BY <3>1
    <3> QED
      BY <1>1, <2>2, <3>2
  <2>3. \A k \in (n + 1)..(n + m) : s[k] \notin u
    BY <1>1
  <2>4. \A k \in 1..n : s[k] \in u
    BY <1>1, <1>2
  <2> QED
    BY <1>1, <2>1, <2>2, <2>3, <2>4
<1>10. \A f \in u \cup N : (\E p \in MemProcs, v \in Mem!Pages : h[p][v] = f) \/ (\E i \in DOMAIN s : s[i] = f)
  <2> SUFFICES ASSUME NEW f \in u \cup N, ~\E p \in MemProcs, v \in Mem!Pages : h[p][v] = f
               PROVE  \E i \in DOMAIN s : s[i] = f
    OBVIOUS
  <2>1. CASE f \in N
    <3>1. PICK i \in 1..m : new[i] = f
      BY <1>6, <2>1
    <3> QED
      BY <1>1, <3>1
  <2>2. CASE f \in u
    <3>1. PICK i \in 1..n : fr[i] = f
      BY <1>1, <2>2 DEF Mem!Own
    <3> QED
      BY <1>1, <3>1
  <2> QED
    BY <2>1, <2>2
<1>11. \A p, q \in MemProcs, v, w \in Mem!Pages : h[p][v] # 0 /\ h[p][v] = h[q][w] => p = q /\ v = w
  BY DEF Mem!Own
<1>12. \A p \in MemProcs, v \in Mem!Pages : h[p][v] # 0 => h[p][v] \in u \cup N
  BY DEF Mem!Own
<1>13. Mem!Own(h, s, u \cup N)
  BY <1>7, <1>8, <1>9, <1>10, <1>11, <1>12 DEF Mem!Own
<1> QED
  BY <1>13 DEF s, N

LEMMA OwnDrops ==
  ASSUME NEW h, NEW fr \in Seq(Mem!AllFrames), NEW u, NEW n \in 0..Len(fr), Mem!Own(h, fr, u)
  PROVE  Mem!Own(h, SubSeq(fr, n + 1, Len(fr)), u \ {fr[i] : i \in 1..n})
<1> DEFINE s == SubSeq(fr, n + 1, Len(fr))
           l == Len(fr)
           X == {fr[i] : i \in 1..n}
<1>1. /\ l \in Nat /\ n \in Nat /\ n <= l /\ DOMAIN fr = 1..l /\ DOMAIN s = 1..(l - n)
      /\ \A i \in 1..(l - n) : i + n \in 1..l /\ s[i] = fr[i + n]
      /\ \A i \in 1..l : i \in 1..n \/ (i - n \in 1..(l - n) /\ s[i - n] = fr[i])
      /\ \A i \in 1..n : i \in 1..l
  <2>1. l \in Nat /\ n \in Nat /\ n <= l /\ DOMAIN fr = 1..l
    OBVIOUS
  <2>2. DOMAIN s = 1..(l - n) /\ \A i \in 1..(l - n) : s[i] = fr[i + n]
    OBVIOUS
  <2> HIDE DEF s, l
  <2>3. (\A i \in 1..(l - n) : i + n \in 1..l) /\ \A i \in 1..n : i \in 1..l
    BY <2>1
  <2>4. ASSUME NEW i \in 1..l
        PROVE  i \in 1..n \/ (i - n \in 1..(l - n) /\ s[i - n] = fr[i])
    <3>1. i \in 1..n \/ (i - n \in 1..(l - n) /\ (i - n) + n = i)
      BY <2>1
    <3> QED
      BY <2>2, <3>1
  <2> QED
    BY <2>1, <2>2, <2>3, <2>4
<1>2. \A f : f \in X <=> \E i \in 1..n : fr[i] = f
  OBVIOUS
<1> HIDE DEF s, l, X
<1>3. \A i \in 1..l : fr[i] \in u
  BY <1>1 DEF Mem!Own
<1>4. \A i, j \in 1..l : fr[i] = fr[j] => i = j
  <2>1. \A i, j \in DOMAIN fr : fr[i] = fr[j] => i = j
    BY DEF Mem!Own
  <2> QED
    BY <1>1, <2>1
<1>5. \A i \in 1..l : \A p \in MemProcs, v \in Mem!Pages : fr[i] # h[p][v]
  <2>1. \A p \in MemProcs, v \in Mem!Pages : \A i \in DOMAIN fr : fr[i] # h[p][v]
    BY DEF Mem!Own
  <2> QED
    BY <1>1, <2>1
<1>6. \A p, q \in MemProcs, v, w \in Mem!Pages : h[p][v] # 0 /\ h[p][v] = h[q][w] => p = q /\ v = w
  BY DEF Mem!Own
<1>7. \A p \in MemProcs, v \in Mem!Pages : h[p][v] # 0 => h[p][v] \in u \ X
  <2>1. \A p \in MemProcs, v \in Mem!Pages : h[p][v] # 0 => h[p][v] \in u
    BY DEF Mem!Own
  <2> QED
    BY <1>1, <1>2, <1>5, <2>1
<1>8. \A p \in MemProcs, v \in Mem!Pages : \A i \in DOMAIN s : s[i] # h[p][v]
  BY <1>1, <1>5
<1>9. \A i \in DOMAIN s : s[i] \in u \ X
  <2> SUFFICES ASSUME NEW i \in 1..(l - n), NEW j \in 1..n, fr[j] = s[i]
               PROVE  FALSE
    BY <1>1, <1>2, <1>3
  <2>1. j = i + n
    BY <1>1, <1>4
  <2> QED
    BY <1>1, <2>1
<1>10. \A i, j \in DOMAIN s : s[i] = s[j] => i = j
  <2> SUFFICES ASSUME NEW i \in 1..(l - n), NEW j \in 1..(l - n), s[i] = s[j]
               PROVE  i = j
    BY <1>1
  <2>1. i + n = j + n
    BY <1>1, <1>4
  <2> QED
    BY <1>1, <2>1
<1>11. \A f \in u \ X : (\E p \in MemProcs, v \in Mem!Pages : h[p][v] = f) \/ (\E i \in DOMAIN s : s[i] = f)
  <2> SUFFICES ASSUME NEW f \in u \ X, ~\E p \in MemProcs, v \in Mem!Pages : h[p][v] = f
               PROVE  \E i \in DOMAIN s : s[i] = f
    OBVIOUS
  <2>1. PICK i \in 1..l : fr[i] = f
    BY <1>1 DEF Mem!Own
  <2>2. i \notin 1..n
    BY <1>2, <2>1
  <2> QED
    BY <1>1, <2>1, <2>2
<1>12. Mem!Own(h, s, u \ X)
  BY <1>6, <1>7, <1>8, <1>9, <1>10, <1>11 DEF Mem!Own
<1> QED
  BY <1>12 DEF s, X

(***************************************************************************)
(* What the operators of the model say                                     *)
(***************************************************************************)
LEMMA MemBasics ==
  /\ MemFirst \in MemProcs /\ IsFiniteSet(MemProcs)
  /\ NFrames \in Nat \ {0} /\ MmapStart \in Nat \ {0} /\ Top \in Nat \ {0}
  /\ MaxShm \in Nat \ {0} /\ MmapStart <= Top
  /\ Lens \subseteq Nat \ {0} /\ FixedAt \subseteq MmapStart..(Top - 1)
  /\ ShmNodes \subseteq Nat /\ IsFiniteSet(ShmNodes)
  /\ Mem!Pages = 0..(Top - 1) /\ Mem!AllFrames = 1..NFrames
  /\ 0 \in Mem!Pages /\ 0 \notin Mem!AllFrames /\ Mem!AllFrames \subseteq Nat /\ Mem!Pages \subseteq Nat
  /\ IsFiniteSet(Mem!AllFrames) /\ IsFiniteSet(Mem!Pages)
  /\ \A v \in Mem!Pages : Mem!Empty[v] = 0
  /\ Mem!Empty \in [Mem!Pages -> 0..NFrames]
<1>1. Mem!MemoryAssumption
  BY KernelAssumption
<1>2. /\ MemFirst \in MemProcs /\ IsFiniteSet(MemProcs)
      /\ NFrames \in Nat \ {0} /\ MmapStart \in Nat \ {0} /\ Top \in Nat \ {0}
      /\ MaxShm \in Nat \ {0} /\ MmapStart <= Top
      /\ Lens \subseteq Nat \ {0} /\ FixedAt \subseteq MmapStart..(Top - 1)
      /\ ShmNodes \subseteq Nat /\ IsFiniteSet(ShmNodes)
  BY <1>1, MemCounts DEF Mem!MemoryAssumption
<1>3. IsFiniteSet(1..NFrames) /\ IsFiniteSet(0..(Top - 1))
  BY <1>2, FS_Interval
<1>4. /\ Mem!Pages = 0..(Top - 1) /\ Mem!AllFrames = 1..NFrames
      /\ 0 \in Mem!Pages /\ 0 \notin Mem!AllFrames /\ Mem!AllFrames \subseteq Nat /\ Mem!Pages \subseteq Nat
  BY <1>2 DEF Mem!Pages, Mem!AllFrames
<1>5. (\A v \in Mem!Pages : Mem!Empty[v] = 0) /\ Mem!Empty \in [Mem!Pages -> 0..NFrames]
  BY <1>2 DEF Mem!Empty
<1> QED
  BY <1>2, <1>3, <1>4, <1>5

LEMMA SpanFacts ==
  /\ \A b, v : v \in Mem!Span(b) <=> v \in b.start..(b.start + b.len - 1)
  /\ \A p, kind, v : v \in Mem!Spans(p, kind)
       <=> \E i \in DOMAIN mem_blocks[p] : mem_blocks[p][i].kind = kind /\ v \in Mem!Span(mem_blocks[p][i])
  /\ \A p, kind, v : v \in Mem!Spans(p, kind)'
       <=> \E i \in DOMAIN mem_blocks'[p] : mem_blocks'[p][i].kind = kind /\ v \in Mem!Span(mem_blocks'[p][i])
  /\ \A p, v : v \in Mem!BlockPages(p) <=> \E i \in DOMAIN mem_blocks[p] : v \in Mem!Span(mem_blocks[p][i])
<1>1. \A b, v : v \in Mem!Span(b) <=> v \in b.start..(b.start + b.len - 1)
  BY DEF Mem!Span
<1>2. \A p, kind, v : v \in Mem!Spans(p, kind)
       <=> \E i \in DOMAIN mem_blocks[p] : mem_blocks[p][i].kind = kind /\ v \in Mem!Span(mem_blocks[p][i])
  BY Zenon DEF Mem!Spans, Mem!Blocks
<1>3. \A p, kind, v : v \in Mem!Spans(p, kind)'
       <=> \E i \in DOMAIN mem_blocks'[p] : mem_blocks'[p][i].kind = kind /\ v \in Mem!Span(mem_blocks'[p][i])
  BY Zenon DEF Mem!Spans, Mem!Blocks, Mem!Span
<1>4. \A p, v : v \in Mem!BlockPages(p) <=> \E i \in DOMAIN mem_blocks[p] : v \in Mem!Span(mem_blocks[p][i])
  BY Zenon DEF Mem!BlockPages, Mem!Blocks
<1> QED
  BY <1>1, <1>2, <1>3, <1>4

LEMMA SpansHas ==
  ASSUME NEW p, NEW kind, NEW v
  PROVE  /\ v \in Mem!Spans(p, kind)' <=>
              \E i \in DOMAIN mem_blocks'[p] : mem_blocks'[p][i].kind = kind /\ v \in Mem!Span(mem_blocks'[p][i])
         /\ v \in Mem!Spans(p, kind) <=>
              \E i \in DOMAIN mem_blocks[p] : mem_blocks[p][i].kind = kind /\ v \in Mem!Span(mem_blocks[p][i])
<1>1. v \in Mem!Spans(p, kind)' <=>
        \E i \in DOMAIN mem_blocks'[p] : mem_blocks'[p][i].kind = kind /\ v \in Mem!Span(mem_blocks'[p][i])
  BY Zenon DEF Mem!Spans, Mem!Blocks, Mem!Span
<1>2. v \in Mem!Spans(p, kind) <=>
        \E i \in DOMAIN mem_blocks[p] : mem_blocks[p][i].kind = kind /\ v \in Mem!Span(mem_blocks[p][i])
  BY Zenon DEF Mem!Spans, Mem!Blocks, Mem!Span
<1> HIDE DEF Mem!Spans, Mem!Span
<1> QED
  BY <1>1, <1>2

LEMMA HeldFacts ==
  /\ \A p \in MemProcs, v \in Mem!Pages :
       Mem!Held[p][v] = IF v \in Mem!Spans(p, "shm") THEN 0 ELSE pt[p][v]
  /\ \A p \in MemProcs, v \in Mem!Pages :
       Mem!Held'[p][v] = IF v \in Mem!Spans(p, "shm")' THEN 0 ELSE pt'[p][v]
  /\ (\A p \in MemProcs, v \in Mem!Pages : Mem!Held'[p][v] = Mem!Held[p][v]) => Mem!Held' = Mem!Held
<1>1. /\ \A p \in MemProcs, v \in Mem!Pages :
           Mem!Held[p][v] = IF v \in Mem!Spans(p, "shm") THEN 0 ELSE pt[p][v]
      /\ \A p \in MemProcs, v \in Mem!Pages :
           Mem!Held'[p][v] = IF v \in Mem!Spans(p, "shm")' THEN 0 ELSE pt'[p][v]
  BY DEF Mem!Held
<1>2. /\ Mem!Held = [p \in MemProcs |-> [v \in Mem!Pages |-> Mem!Held[p][v]]]
      /\ Mem!Held' = [p \in MemProcs |-> [v \in Mem!Pages |-> Mem!Held'[p][v]]]
  BY DEF Mem!Held
<1>3. ASSUME \A p \in MemProcs, v \in Mem!Pages : Mem!Held'[p][v] = Mem!Held[p][v]
      PROVE  Mem!Held' = Mem!Held
  BY <1>2, <1>3
<1> QED
  BY <1>1, <1>3

(* The frames that an allocation of k gets.                                *)
LEMMA LowestFacts ==
  ASSUME used \subseteq Mem!AllFrames, NEW k \in Nat, Mem!HasFree(k)
  PROVE  /\ DOMAIN Mem!Lowest(k) = 1..k /\ Mem!Lowest(k) \in Seq(Mem!AllFrames) /\ Len(Mem!Lowest(k)) = k
         /\ \A i \in 1..k : /\ Mem!Lowest(k)[i] \in Mem!AllFrames /\ Mem!Lowest(k)[i] \notin used
                            /\ Mem!Lowest(k)[i] # 0
         /\ \A i, j \in 1..k : Mem!Lowest(k)[i] = Mem!Lowest(k)[j] => i = j
         /\ \A f : f \in Mem!Range(Mem!Lowest(k)) <=> \E i \in 1..k : Mem!Lowest(k)[i] = f
<1> DEFINE Z == Mem!Free(used)
           a == Mem!Lowest(k)
<1>0. Z \subseteq Mem!AllFrames \ used
  BY DEF Mem!Free
<1>1. Z \subseteq Nat /\ IsFiniteSet(Z)
  BY <1>0, MemBasics, FS_Subset
<1>2. Cardinality(Z) >= k /\ Cardinality(Z) \in Nat
  BY <1>1, MemCounts, FS_CardinalityType DEF Mem!HasFree
<1>3. a = Mem!Ascending(Z, k)
  BY DEF Mem!Lowest
<1>4. /\ DOMAIN a = 1..k /\ a \in Seq(Z) /\ Len(a) = k
      /\ \A i \in 1..k : a[i] \in Z
      /\ \A i, j \in 1..k : a[i] = a[j] => i = j
  <2>1. k \in 0..Cardinality(Z)
    BY <1>2
  <2> HIDE DEF Z, a
  <2> QED
    BY <1>1, <1>3, <2>1, AscendingFacts
<1>5. a \in Seq(Mem!AllFrames)
  <2> HIDE DEF a
  <2>1. Z \subseteq Mem!AllFrames
    BY <1>0
  <2> HIDE DEF Z
  <2> QED
    BY <1>4, <2>1
<1>6. \A i \in 1..k : a[i] \in Mem!AllFrames /\ a[i] \notin used /\ a[i] # 0
  <2> HIDE DEF a, Z
  <2> QED
    BY <1>0, <1>4, MemBasics
<1>7. \A f : f \in Mem!Range(a) <=> \E i \in 1..k : a[i] = f
  <2> HIDE DEF a
  <2> QED
    BY <1>4 DEF Mem!Range
<1> HIDE DEF Z
<1> QED
  BY <1>4, <1>5, <1>6, <1>7

(* Where the mappings of a process lie, and which of them are shared.      *)
LEMMA BlockFacts ==
  ASSUME Mem!MemoryInv, NEW p \in MemProcs
  PROVE  /\ mem_blocks[p] \in Seq(Mem!Block)
         /\ \A i \in DOMAIN mem_blocks[p] :
              LET b == mem_blocks[p][i]
              IN  /\ b \in Mem!Block /\ b.kind \in kinds
                  /\ b.start \in Nat /\ b.len \in Nat \ {0}
                  /\ MmapStart <= b.start /\ b.start + b.len < Top
                  /\ \A v \in Mem!Span(b) : v \in Mem!Pages /\ v >= MmapStart
<1>1. mem_blocks[p] \in Seq(Mem!Block)
  BY DEF Mem!MemoryInv, Mem!TypeOK
<1>2. ASSUME NEW i \in DOMAIN mem_blocks[p]
      PROVE  LET b == mem_blocks[p][i]
             IN  /\ b \in Mem!Block /\ b.kind \in kinds
                 /\ b.start \in Nat /\ b.len \in Nat \ {0}
                 /\ MmapStart <= b.start /\ b.start + b.len < Top
                 /\ \A v \in Mem!Span(b) : v \in Mem!Pages /\ v >= MmapStart
  <2> DEFINE b == mem_blocks[p][i]
  <2>1. b \in Mem!Block
    BY <1>1
  <2>2. b.start \in Nat /\ b.len \in Nat \ {0}
    BY <2>1 DEF Mem!Block
  <2>3. b.kind \in kinds /\ MmapStart <= b.start /\ b.start + b.len < Top
    BY DEF Mem!MemoryInv, Mem!MappingsFit
  <2>4. \A v \in Mem!Span(b) : v \in Mem!Pages /\ v >= MmapStart
    <3>1. \A v \in Mem!Span(b) : v \in b.start..(b.start + b.len - 1)
      BY SpanFacts
    <3> HIDE DEF b
    <3> QED
      BY <2>2, <2>3, <3>1, MemBasics
  <2> QED
    BY <2>1, <2>2, <2>3, <2>4
<1> QED
  BY <1>1, <1>2

LEMMA SharedFacts ==
  ASSUME Mem!MemoryInv
  PROVE  /\ "shm" \in kinds => /\ "file" \notin kinds
                               /\ Mem!MappingsArePresent /\ Mem!MappingsAreDisjoint
         /\ \A p \in MemProcs : "shm" \notin kinds => \A v : v \notin Mem!Spans(p, "shm")
         /\ \A p \in MemProcs : \A v : v \in Mem!Spans(p, "shm") => v \in Mem!Pages /\ v >= MmapStart /\ pt[p][v] # 0
         /\ \A p \in MemProcs : \A i \in DOMAIN mem_blocks[p] : \A v \in Mem!Span(mem_blocks[p][i]) :
              v \in Mem!Spans(p, "shm") <=> mem_blocks[p][i].kind = "shm"
<1>1. "shm" \in kinds => "file" \notin kinds
  <2>1. kinds \in {{"anon"}, {"anon", "file"}, {"anon", "shm"}}
    BY KernelAssumption DEF Mem!MemoryAssumption, Mem!MemoryInv, Mem!TypeOK
  <2> QED
    BY <2>1
<1>2. "shm" \in kinds => /\ "file" \notin kinds /\ Mem!MappingsArePresent /\ Mem!MappingsAreDisjoint
  BY <1>1 DEF Mem!MemoryInv
<1>3. \A p \in MemProcs : \A v : v \in Mem!Spans(p, "shm")
        => "shm" \in kinds /\ v \in Mem!Pages /\ v >= MmapStart /\ pt[p][v] # 0
  <2> SUFFICES ASSUME NEW p \in MemProcs, NEW v, v \in Mem!Spans(p, "shm")
               PROVE  "shm" \in kinds /\ v \in Mem!Pages /\ v >= MmapStart /\ pt[p][v] # 0
    OBVIOUS
  <2>1. PICK i \in DOMAIN mem_blocks[p] : mem_blocks[p][i].kind = "shm" /\ v \in Mem!Span(mem_blocks[p][i])
    BY SpanFacts
  <2>2. "shm" \in kinds /\ v \in Mem!Pages /\ v >= MmapStart
    BY <2>1, BlockFacts
  <2>3. pt[p][v] # 0
    BY <1>2, <2>1, <2>2 DEF Mem!MappingsArePresent
  <2> QED
    BY <2>2, <2>3
<1>4. ASSUME NEW p \in MemProcs, NEW i \in DOMAIN mem_blocks[p], NEW v \in Mem!Span(mem_blocks[p][i])
      PROVE  v \in Mem!Spans(p, "shm") <=> mem_blocks[p][i].kind = "shm"
  <2>1. ASSUME v \in Mem!Spans(p, "shm")
        PROVE  mem_blocks[p][i].kind = "shm"
    <3>1. PICK j \in DOMAIN mem_blocks[p] : mem_blocks[p][j].kind = "shm" /\ v \in Mem!Span(mem_blocks[p][j])
      BY <2>1, SpanFacts
    <3>2. i = j
      BY <1>2, <1>3, <2>1, <3>1 DEF Mem!MappingsAreDisjoint
    <3> QED
      BY <3>1, <3>2
  <2>2. ASSUME mem_blocks[p][i].kind = "shm"
        PROVE  v \in Mem!Spans(p, "shm")
    BY <2>2, SpanFacts
  <2> QED
    BY <2>1, <2>2
<1> QED
  BY <1>2, <1>3, <1>4

(* The element at i leaves a sequence.                                     *)
RemoveAt(s, i) == SubSeq(s, 1, i - 1) \o SubSeq(s, i + 1, Len(s))

LEMMA RemoveAtFacts ==
  ASSUME NEW X, NEW s \in Seq(X), NEW i \in DOMAIN s
  PROVE  /\ RemoveAt(s, i) \in Seq(X)
         /\ \A j \in DOMAIN RemoveAt(s, i) :
              LET g == IF j < i THEN j ELSE j + 1
              IN  j \in Nat /\ g \in DOMAIN s /\ g # i /\ RemoveAt(s, i)[j] = s[g]
         /\ \A j \in DOMAIN s : j # i => \E k \in DOMAIN RemoveAt(s, i) : RemoveAt(s, i)[k] = s[j]
<1> DEFINE a == SubSeq(s, 1, i - 1)
           c == SubSeq(s, i + 1, Len(s))
           n == Len(s)
           t == a \o c
<1>1. n \in Nat /\ DOMAIN s = 1..n /\ i \in 1..n /\ \A j \in 1..n : s[j] \in X
  OBVIOUS
<1>2. a \in Seq(X) /\ Len(a) = i - 1 /\ \A j \in 1..(i - 1) : a[j] = s[j]
  BY <1>1
<1>3. c \in Seq(X) /\ Len(c) = n - i /\ \A j \in 1..(n - i) : c[j] = s[i + j]
  <2>1. i + 1 \in Int /\ n \in Int /\ n - i \in Nat
    BY <1>1
  <2>2. \A j \in (i + 1)..n : s[j] \in X
    BY <1>1
  <2>3. c \in Seq(X) /\ Len(c) = n - i
    BY <1>1, <2>1, <2>2
  <2>4. \A j \in 1..(n - i) : c[j] = s[(i + 1) + j - 1]
    BY <1>1, <2>1
  <2>5. \A j \in 1..(n - i) : (i + 1) + j - 1 = i + j
    BY <1>1
  <2> HIDE DEF c, n
  <2> QED
    BY <2>3, <2>4, <2>5
<1>4. RemoveAt(s, i) = t
  BY DEF RemoveAt
<1> HIDE DEF a, c, n
<1>5. /\ t \in Seq(X) /\ DOMAIN t = 1..(n - 1)
      /\ \A j \in 1..(i - 1) : t[j] = s[j]
      /\ \A j \in i..(n - 1) : t[j] = s[j + 1]
  <2>1. t \in Seq(X) /\ Len(t) = n - 1 /\ Len(t) \in Nat
    <3>1. a \in Seq(X) /\ c \in Seq(X)
      BY <1>2, <1>3
    <3>2. t \in Seq(X) /\ Len(t) = Len(a) + Len(c) /\ Len(t) \in Nat
      BY <3>1
    <3> HIDE DEF t
    <3> QED
      BY <1>1, <1>2, <1>3, <3>2
  <2>2. \A j \in 1..(i - 1) : t[j] = s[j]
    BY <1>1, <1>2, <1>3
  <2>3. \A j \in i..(n - 1) : t[j] = s[j + 1]
    <3> SUFFICES ASSUME NEW j \in i..(n - 1)
                 PROVE  t[j] = s[j + 1]
      OBVIOUS
    <3>1. j - (i - 1) \in 1..(n - i) /\ j \in (Len(a) + 1)..(Len(a) + Len(c))
      BY <1>1, <1>2, <1>3
    <3>2. t[j] = c[j - Len(a)]
      BY <1>2, <1>3, <3>1
    <3>3. c[j - (i - 1)] = s[i + (j - (i - 1))]
      BY <1>3, <3>1
    <3>4. i + (j - (i - 1)) = j + 1
      BY <1>1
    <3> QED
      BY <1>2, <3>2, <3>3, <3>4
  <2> HIDE DEF t
  <2> QED
    BY <2>1, <2>2, <2>3
<1> HIDE DEF t
<1>6. ASSUME NEW j \in DOMAIN t
      PROVE  LET g == IF j < i THEN j ELSE j + 1
             IN  j \in Nat /\ g \in DOMAIN s /\ g # i /\ t[j] = s[g]
  BY <1>1, <1>5
<1>7. ASSUME NEW j \in DOMAIN s, j # i
      PROVE  \E k \in DOMAIN t : t[k] = s[j]
  <2>1. CASE j < i
    BY <1>1, <1>5, <2>1
  <2>2. CASE ~(j < i)
    <3>1. j \in 1..n /\ i \in 1..n /\ n \in Nat /\ j # i
      BY <1>1, <1>7
    <3>2. j - 1 \in i..(n - 1) /\ (j - 1) + 1 = j /\ j - 1 \in 1..(n - 1)
      BY <2>2, <3>1
    <3> QED
      BY <1>5, <3>2
  <2> QED
    BY <2>1, <2>2
<1> QED
  BY <1>4, <1>5, <1>6, <1>7

(***************************************************************************)
(* What a step that leaves some of the state alone keeps                   *)
(***************************************************************************)
LEMMA ShmKept ==
  ASSUME Mem!MemoryInv, UNCHANGED <<mem_fds, mem_nodes, shm>>
  PROVE  /\ Mem!ShmIsCounted'
         /\ mem_fds' \in [MemProcs -> SUBSET ShmNodes]
         /\ mem_nodes' \in [ShmNodes -> [links : Nat, size : 0..MaxShm]]
         /\ shm' \in [frames : Seq(Mem!AllFrames), links : Nat]
<1>1. /\ mem_fds' \in [MemProcs -> SUBSET ShmNodes]
      /\ mem_nodes' \in [ShmNodes -> [links : Nat, size : 0..MaxShm]]
      /\ shm' \in [frames : Seq(Mem!AllFrames), links : Nat]
  BY DEF Mem!MemoryInv, Mem!TypeOK
<1>2. /\ \A n : Mem!Openers(n)' = Mem!Openers(n)
      /\ Mem!Linked' = Mem!Linked
  BY DEF Mem!Openers, Mem!Linked
<1>3. Mem!Sized(mem_nodes)' = Mem!Sized(mem_nodes)
  BY DEF Mem!Sized
<1>4. Mem!ShmIsCounted'
  BY <1>2, <1>3 DEF Mem!MemoryInv, Mem!ShmIsCounted
<1> QED
  BY <1>1, <1>4

LEMMA SpaceKept ==
  ASSUME Mem!MemoryInv, UNCHANGED <<kinds, mem_state, pt, mem_blocks, mem_start>>,
         \A p \in MemProcs : mem_state[p] # "live" => mem_fds'[p] = {}
  PROVE  /\ Mem!MappingsFit' /\ Mem!EndedIsClean' /\ Mem!HeapIsDense'
         /\ ("file" \notin kinds => Mem!MappingsArePresent /\ Mem!MappingsAreDisjoint)'
         /\ Mem!Held' = Mem!Held
         /\ kinds' \in Uses
         /\ mem_state' \in [MemProcs -> {"none", "live", "finished"}]
         /\ pt' \in [MemProcs -> [Mem!Pages -> 0..NFrames]]
         /\ mem_blocks' \in [MemProcs -> Seq(Mem!Block)]
         /\ mem_start' \in [MemProcs -> Nat]
<1>1. /\ kinds' \in Uses
      /\ mem_state' \in [MemProcs -> {"none", "live", "finished"}]
      /\ pt' \in [MemProcs -> [Mem!Pages -> 0..NFrames]]
      /\ mem_blocks' \in [MemProcs -> Seq(Mem!Block)]
      /\ mem_start' \in [MemProcs -> Nat]
  BY DEF Mem!MemoryInv, Mem!TypeOK
<1>2. Mem!MappingsFit'
  BY DEF Mem!MemoryInv, Mem!MappingsFit
<1>3. Mem!EndedIsClean'
  BY DEF Mem!MemoryInv, Mem!EndedIsClean
<1>4. Mem!HeapIsDense'
  BY DEF Mem!MemoryInv, Mem!HeapIsDense
<1>5. ("file" \notin kinds => Mem!MappingsArePresent /\ Mem!MappingsAreDisjoint)'
  BY DEF Mem!MemoryInv, Mem!MappingsArePresent, Mem!MappingsAreDisjoint, Mem!Span
<1>6. Mem!Held' = Mem!Held
  BY DEF Mem!Held, Mem!Spans, Mem!Blocks, Mem!Span
<1> QED
  BY <1>1, <1>2, <1>3, <1>4, <1>5, <1>6

LEMMA MemStutters ==
  ASSUME Mem!MemoryInv,
         UNCHANGED <<kinds, mem_state, used, pt, mem_blocks, mem_start, mem_fds, mem_nodes, shm>>
  PROVE  Mem!MemoryInv'
<1>1. \A p \in MemProcs : mem_state[p] # "live" => mem_fds'[p] = {}
  BY DEF Mem!MemoryInv, Mem!EndedIsClean
<1>2. /\ Mem!ShmIsCounted'
      /\ mem_fds' \in [MemProcs -> SUBSET ShmNodes]
      /\ mem_nodes' \in [ShmNodes -> [links : Nat, size : 0..MaxShm]]
      /\ shm' \in [frames : Seq(Mem!AllFrames), links : Nat]
  BY ShmKept
<1>3. /\ Mem!MappingsFit' /\ Mem!EndedIsClean' /\ Mem!HeapIsDense'
      /\ ("file" \notin kinds => Mem!MappingsArePresent /\ Mem!MappingsAreDisjoint)'
      /\ Mem!Held' = Mem!Held
      /\ kinds' \in Uses
      /\ mem_state' \in [MemProcs -> {"none", "live", "finished"}]
      /\ pt' \in [MemProcs -> [Mem!Pages -> 0..NFrames]]
      /\ mem_blocks' \in [MemProcs -> Seq(Mem!Block)]
      /\ mem_start' \in [MemProcs -> Nat]
  BY <1>1, SpaceKept
<1>4. used' \subseteq Mem!AllFrames
  BY DEF Mem!MemoryInv, Mem!TypeOK
<1>5. Mem!TypeOK'
  BY <1>2, <1>3, <1>4 DEF Mem!TypeOK
<1>6. Mem!Own(Mem!Held, shm.frames, used)'
  BY <1>3 DEF Mem!MemoryInv, Mem!Own
<1> QED
  BY <1>2, <1>3, <1>5, <1>6 DEF Mem!MemoryInv

LEMMA InitMemory == Mem!Init => Mem!MemoryInv
<1> SUFFICES ASSUME Mem!Init
             PROVE  Mem!MemoryInv
  OBVIOUS
<1>1. /\ \A p \in MemProcs, v \in Mem!Pages : pt[p][v] = IF p = MemFirst /\ v = 0 THEN 1 ELSE 0
      /\ \A p \in MemProcs : p # MemFirst => pt[p] = Mem!Empty
      /\ pt \in [MemProcs -> [Mem!Pages -> 0..NFrames]]
  BY MemBasics DEF Mem!Init, Mem!Empty
<1>2. Mem!TypeOK
  <2>1. mem_state \in [MemProcs -> {"none", "live", "finished"}] /\ kinds \in Uses /\ used \subseteq Mem!AllFrames
    BY MemBasics DEF Mem!Init
  <2>2. mem_blocks \in [MemProcs -> Seq(Mem!Block)] /\ mem_start \in [MemProcs -> Nat]
    BY MemBasics DEF Mem!Init
  <2>3. mem_fds \in [MemProcs -> SUBSET ShmNodes]
    BY DEF Mem!Init
  <2>4. mem_nodes \in [ShmNodes -> [links : Nat, size : 0..MaxShm]]
    BY MemBasics DEF Mem!Init, Mem!NoNode
  <2>5. shm \in [frames : Seq(Mem!AllFrames), links : Nat]
    BY DEF Mem!Init, Mem!NoShm
  <2> QED
    BY <1>1, <2>1, <2>2, <2>3, <2>4, <2>5 DEF Mem!TypeOK
<1>3. Mem!MappingsFit
  BY MemBasics DEF Mem!MappingsFit, Mem!Init
<1>4. Mem!EndedIsClean
  BY <1>1 DEF Mem!EndedIsClean, Mem!Init
<1>5. Mem!HeapIsDense
  <2>1. mem_state[MemFirst] = "live" /\ \A p \in MemProcs : p # MemFirst => mem_state[p] # "live"
    BY MemBasics DEF Mem!Init
  <2>2. \A v \in 0..(MmapStart - 1) : v \in Mem!Pages /\ \A w \in 0..v : w \in Mem!Pages
    BY MemBasics
  <2>3. ASSUME NEW p \in MemProcs, NEW v \in 0..(MmapStart - 1), NEW w \in 0..v, pt[p][v] # 0
        PROVE  pt[p][w] # 0
    <3>1. v = 0 /\ p = MemFirst
      BY <1>1, <2>2, <2>3
    <3>2. w = 0
      BY <3>1
    <3> QED
      BY <2>3, <3>1, <3>2
  <2>4. pt[MemFirst][0] # 0
    BY <1>1, MemBasics
  <2> QED
    BY <2>1, <2>3, <2>4 DEF Mem!HeapIsDense
<1>6. Mem!MappingsArePresent /\ Mem!MappingsAreDisjoint
  BY DEF Mem!MappingsArePresent, Mem!MappingsAreDisjoint, Mem!Init
<1>7. Mem!Own(Mem!Held, shm.frames, used)
  <2>1. \A p \in MemProcs : \A v : v \notin Mem!Spans(p, "shm")
    <3>1. \A p \in MemProcs : DOMAIN mem_blocks[p] = {}
      BY DEF Mem!Init
    <3> QED
      BY <3>1, SpanFacts
  <2>2. \A p \in MemProcs, v \in Mem!Pages : Mem!Held[p][v] = IF p = MemFirst /\ v = 0 THEN 1 ELSE 0
    <3>1. \A p \in MemProcs, v \in Mem!Pages : Mem!Held[p][v] = pt[p][v]
      BY <2>1, HeldFacts
    <3> QED
      BY <1>1, <3>1
  <2>3. DOMAIN (shm.frames) = {} /\ used = {1}
    BY DEF Mem!Init, Mem!NoShm
  <2>4. Mem!Held[MemFirst][0] = 1 /\ MemFirst \in MemProcs /\ 0 \in Mem!Pages
    BY <2>2, MemBasics
  <2>5. \A f \in used : \E p \in MemProcs, v \in Mem!Pages : Mem!Held[p][v] = f
    BY <2>3, <2>4
  <2>6. \A p \in MemProcs, v \in Mem!Pages :
          Mem!Held[p][v] # 0 => p = MemFirst /\ v = 0 /\ Mem!Held[p][v] \in used
    BY <2>2, <2>3
  <2> QED
    BY <2>3, <2>5, <2>6, Zenon DEF Mem!Own
<1>8. Mem!ShmIsCounted
  <2>1. \A n \in ShmNodes : mem_nodes[n].links = 0 /\ mem_nodes[n].size = 0
    BY DEF Mem!Init, Mem!NoNode
  <2>2. \A n \in ShmNodes : Mem!Openers(n) = {}
    BY DEF Mem!Openers, Mem!Init
  <2>3. Mem!Linked = {}
    BY <2>1 DEF Mem!Linked
  <2>4. Mem!Sized(mem_nodes) = {}
    <3>1. \A nk \in ShmNodes \X (1..MaxShm) : nk[1] \in ShmNodes /\ nk[2] \in 1..MaxShm
      OBVIOUS
    <3>2. \A k \in 1..MaxShm : ~(k <= 0)
      BY MemBasics
    <3>3. \A nk \in ShmNodes \X (1..MaxShm) : ~(nk[2] <= mem_nodes[nk[1]].size)
      BY <2>1, <3>1, <3>2, Zenon
    <3> QED
      BY <3>3 DEF Mem!Sized
  <2>5. Mem!Cardinality({}) = 0
    BY MemCounts, FS_EmptySet
  <2>6. shm.links = 0 /\ Len(shm.frames) = 0
    <3>1. shm.links = 0 /\ shm.frames = << >>
      BY DEF Mem!Init, Mem!NoShm
    <3> QED
      BY <3>1
  <2> QED
    <3>1. Mem!Cardinality(Mem!Sized(mem_nodes)) = 0 /\ Mem!Cardinality(Mem!Linked) = 0
      BY <2>3, <2>4, <2>5, Zenon
    <3>2. Mem!Cardinality(Mem!Sized(mem_nodes)) <= Len(shm.frames)
      BY <2>6, <3>1
    <3>3. \A n \in ShmNodes : mem_nodes[n].links = Mem!Cardinality(Mem!Openers(n))
      BY <2>1, <2>2, <2>5, Zenon
    <3> QED
      BY <2>1, <2>6, <3>1, <3>2, <3>3, Zenon DEF Mem!ShmIsCounted
<1> QED
  BY <1>2, <1>3, <1>4, <1>5, <1>6, <1>7, <1>8 DEF Mem!MemoryInv

(***************************************************************************)
(* mmap                                                                    *)
(***************************************************************************)

(* The search goes on inside the window, or ends at its end.               *)
LEMMA NextOffsetFacts ==
  ASSUME Mem!MemoryInv, NEW p \in MemProcs, NEW len \in Nat \ {0}, NEW off \in 0..(Top + 1),
         ~Mem!Fits(p, len, mem_start[p] + off)
  PROVE  Mem!NextOffset(p, len, off) \in 0..(Top + 1)
<1> DEFINE at == mem_start[p] + off
           K == {k \in 0..(len - 1) : Mem!Mapped(p, at + k)}
           i == Mem!Min(K)
           J == {j \in i..(Top + 1) : ~Mem!Mapped(p, at + j) /\ ~Mem!InBlock(p, at + j)}
<1>1. mem_start[p] \in Nat /\ MmapStart <= mem_start[p]
  BY DEF Mem!MemoryInv, Mem!TypeOK, Mem!MappingsFit
<1>2. at \in Nat \ {0}
  BY <1>1, MemBasics
<1>3. K # {} /\ K \subseteq Nat
  BY DEF Mem!Fits
<1>4. i \in K
  <2>1. \E s \in K : \A t \in K : s <= t
    <3> HIDE DEF K
    <3> QED
      BY <1>3, LeastElement
  <2> HIDE DEF K
  <2> QED
    BY <2>1 DEF Mem!Min
<1>5. i \in Nat /\ i <= Top + 1
  <2>1. i \in Nat /\ Mem!Mapped(p, at + i)
    BY <1>4
  <2>2. at + i <= Top
    <3> HIDE DEF i, at
    <3> QED
      BY <1>2, <2>1, MemBasics DEF Mem!Mapped
  <2> HIDE DEF i, at
  <2> QED
    BY <1>2, <2>1, <2>2, MemBasics
<1>6. Top + 1 \in J
  <2>1. ~Mem!Mapped(p, at + (Top + 1))
    <3> HIDE DEF at
    <3> QED
      BY <1>2, MemBasics DEF Mem!Mapped
  <2>2. ~Mem!InBlock(p, at + (Top + 1))
    <3>1. \A j \in DOMAIN mem_blocks[p] : \A v \in Mem!Span(mem_blocks[p][j]) : v \in Mem!Pages
      BY BlockFacts
    <3>2. at + (Top + 1) \notin Mem!Pages
      <4> HIDE DEF at
      <4> QED
        BY <1>2, MemBasics
    <3> QED
      BY <3>1, <3>2 DEF Mem!InBlock, Mem!Around
  <2>3. Top + 1 \in i..(Top + 1)
    <3> HIDE DEF i
    <3> QED
      BY <1>5, MemBasics
  <2> QED
    BY <2>1, <2>2, <2>3
<1>7. J \subseteq 0..(Top + 1)
  <2>1. i..(Top + 1) \subseteq 0..(Top + 1)
    <3> HIDE DEF i
    <3> QED
      BY <1>5, MemBasics
  <2> QED
    BY <2>1
<1>8. Mem!Min(J) \in J
  <2>1. J \subseteq Nat /\ J # {}
    <3>1. 0..(Top + 1) \subseteq Nat
      BY MemBasics
    <3> HIDE DEF J
    <3> QED
      BY <1>6, <1>7, <3>1
  <2>2. \E s \in J : \A t \in J : s <= t
    <3> HIDE DEF J
    <3> QED
      BY <2>1, LeastElement
  <2> HIDE DEF J
  <2> QED
    BY <2>2 DEF Mem!Min
<1>9. Mem!NextOffset(p, len, off) = Mem!Min(J)
  BY DEF Mem!NextOffset
<1> HIDE DEF J
<1> QED
  BY <1>7, <1>8, <1>9

LEMMA SearchFacts ==
  ASSUME Mem!MemoryInv, NEW p \in MemProcs, NEW len \in Nat \ {0},
         Mem!Search(p, len).ends, Mem!Search(p, len).at + len < Top
  PROVE  LET at == Mem!Search(p, len).at
         IN  at \in Nat /\ MmapStart <= at /\ Mem!Fits(p, len, at)
<1> DEFINE done(off) == mem_start[p] + off >= Top \/ Mem!Fits(p, len, mem_start[p] + off)
           step == [off \in 0..(Top + 1) |-> IF done(off) THEN off ELSE Mem!NextOffset(p, len, off)]
           P(h) == h = [n \in 0..(Top + 2) |-> IF n = 0 THEN 0 ELSE step[h[n - 1]]]
           round == CHOOSE h : P(h)
           off == round[Top + 2]
<1>1. mem_start[p] \in Nat /\ MmapStart <= mem_start[p] /\ Top \in Nat
  BY MemBasics DEF Mem!MemoryInv, Mem!TypeOK, Mem!MappingsFit
<1>2. Mem!Search(p, len) = [ends |-> done(off), at |-> mem_start[p] + off]
  BY DEF Mem!Search
<1>3. step \in [0..(Top + 1) -> 0..(Top + 1)]
  <2>1. ASSUME NEW o \in 0..(Top + 1), ~done(o)
        PROVE  Mem!NextOffset(p, len, o) \in 0..(Top + 1)
    <3>1. ~Mem!Fits(p, len, mem_start[p] + o)
      BY <2>1
    <3> QED
      BY <3>1, NextOffsetFacts
  <2> HIDE DEF done
  <2> QED
    BY <2>1
<1> DEFINE K == Top + 2
           D == 0..(Top + 1)
<1>4. \A n \in 0..K : round[n] = IF n = 0 THEN 0 ELSE step[round[n - 1]]
  <2> HIDE DEF step
  <2>1. Top + 2 \in Nat
    BY <1>1
  <2>2. PICK h : Rounds(step, 0, Top + 2, h)
    BY <2>1, RoundsExist
  <2>3. P(h)
    BY <2>2 DEF Rounds
  <2>4. P(round)
    <3> HIDE DEF P
    <3> QED
      BY <2>3
  <2> HIDE DEF round
  <2> QED
    BY <2>4 DEF K
<1>5. off \in 0..(Top + 1)
  <2>1. K \in Nat /\ 0 \in D /\ step \in [D -> D]
    BY <1>1, <1>3
  <2> HIDE DEF step, round, D, K
  <2>2. round[K] \in D
    BY <1>4, <2>1, RoundsStay
  <2> QED
    BY <2>2 DEF D, K
<1>6. done(off) /\ (mem_start[p] + off) + len < Top /\ Mem!Search(p, len).at = mem_start[p] + off
  <2> HIDE DEF done, off
  <2> QED
    BY <1>2
<1> HIDE DEF off
<1>7. mem_start[p] + off \in Nat /\ MmapStart <= mem_start[p] + off /\ ~(mem_start[p] + off >= Top)
  BY <1>1, <1>5, <1>6, MemBasics
<1>8. Mem!Fits(p, len, mem_start[p] + off)
  BY <1>6, <1>7
<1> QED
  BY <1>6, <1>7, <1>8

LEMMA MappingKeeps ==
  ASSUME Mem!MemoryInv, NEW p \in MemProcs, NEW kind \in kinds, NEW at \in Nat, NEW len \in Nat \ {0},
         MmapStart <= at, at + len < Top, Mem!Fits(p, len, at), mem_state[p] = "live",
         kind = "shm" => len = Len(shm.frames), Mem!Mapping(p, kind, at, len),
         UNCHANGED <<kinds, mem_state, mem_fds, mem_nodes, shm>>,
         mem_start' \in [MemProcs -> Nat], \A q \in MemProcs : MmapStart <= mem_start'[q]
  PROVE  Mem!MemoryInv'
<1> DEFINE N == at..(at + len - 1)
           fresh == Mem!Lowest(len)
           b == [kind |-> kind, start |-> at, len |-> len, listed |-> kind # "anon"]
<1>1. \A v \in N : v \in Mem!Pages /\ v >= MmapStart /\ pt[p][v] = 0 /\ v - at + 1 \in 1..len
  <2> SUFFICES ASSUME NEW v \in N
               PROVE  v \in Mem!Pages /\ v >= MmapStart /\ pt[p][v] = 0 /\ v - at + 1 \in 1..len
    OBVIOUS
  <2>1. v \in Mem!Pages /\ v >= MmapStart /\ v - at + 1 \in 1..len /\ v < Top
    BY MemBasics
  <2>2. v - at \in 0..(len - 1) /\ at + (v - at) = v
    OBVIOUS
  <2>3. ~Mem!Mapped(p, v)
    BY <2>2 DEF Mem!Fits
  <2> QED
    BY <2>1, <2>3 DEF Mem!Mapped
<1>2. Mem!TypeOK /\ kind \in {"anon", "file", "shm"}
  <2>1. kinds \in {{"anon"}, {"anon", "file"}, {"anon", "shm"}}
    BY KernelAssumption DEF Mem!MemoryAssumption, Mem!MemoryInv, Mem!TypeOK
  <2> QED
    BY <2>1 DEF Mem!MemoryInv
<1>3. /\ \A q \in MemProcs : q # p => pt'[q] = pt[q]
      /\ \A v \in Mem!Pages : v \notin N => pt'[p][v] = pt[p][v]
      /\ \A v \in N : /\ kind = "anon" => pt'[p][v] = fresh[v - at + 1]
                      /\ kind = "shm" => pt'[p][v] = shm.frames[v - at + 1]
                      /\ kind = "file" => pt'[p][v] = pt[p][v]
      /\ pt' = [q \in MemProcs |-> pt'[q]]
      /\ \A q \in MemProcs : pt'[q] = [v \in Mem!Pages |-> pt'[q][v]]
  <2> DEFINE new == [v \in Mem!Pages |->
                 IF v \notin N THEN pt[p][v]
                 ELSE CASE kind = "anon" -> fresh[v - at + 1]
                        [] kind = "shm" -> shm.frames[v - at + 1]
                        [] OTHER -> pt[p][v]]
  <2>1. pt \in [MemProcs -> [Mem!Pages -> 0..NFrames]]
    BY <1>2 DEF Mem!TypeOK
  <2>2. pt' = [pt EXCEPT ![p] = new]
    BY DEF Mem!Mapping
  <2>3. /\ \A v \in Mem!Pages : v \notin N => new[v] = pt[p][v]
        /\ \A v \in N : v \in Mem!Pages
        /\ \A v \in N : /\ kind = "anon" => new[v] = fresh[v - at + 1]
                        /\ kind = "shm" => new[v] = shm.frames[v - at + 1]
                        /\ kind = "file" => new[v] = pt[p][v]
        /\ new = [v \in Mem!Pages |-> new[v]]
    <3> HIDE DEF N, fresh
    <3> QED
      BY <1>1
  <2> HIDE DEF new, N, fresh
  <2> QED
    BY <2>1, <2>2, <2>3
<1>4. /\ \A q \in MemProcs : q # p => mem_blocks'[q] = mem_blocks[q]
      /\ mem_blocks'[p] = Append(mem_blocks[p], b)
      /\ mem_blocks' \in [MemProcs -> {mem_blocks'[q] : q \in MemProcs}]
  BY <1>2 DEF Mem!Mapping, Mem!TypeOK
<1>5. kind = "anon" =>
      /\ \A i \in 1..len : fresh[i] \in Mem!AllFrames /\ fresh[i] \notin used /\ fresh[i] # 0
      /\ \A i, j \in 1..len : fresh[i] = fresh[j] => i = j
      /\ \A f : f \in Mem!Range(fresh) <=> \E i \in 1..len : fresh[i] = f
  <2>1. used \subseteq Mem!AllFrames /\ len \in Nat
    BY <1>2 DEF Mem!TypeOK
  <2>2. kind = "anon" => Mem!HasFree(len)
    BY DEF Mem!Mapping
  <2> HIDE DEF fresh
  <2> QED
    BY <2>1, <2>2, LowestFacts DEF fresh
<1>6. /\ kind = "anon" => used' = used \cup Mem!Range(fresh)
      /\ kind # "anon" => used' = used
  BY DEF Mem!Mapping
<1> HIDE DEF fresh, N
<1>7. \A v \in N : pt'[p][v] \in 0..NFrames /\ (kind # "file" => pt'[p][v] # 0)
  <2> SUFFICES ASSUME NEW v \in N
               PROVE  pt'[p][v] \in 0..NFrames /\ (kind # "file" => pt'[p][v] # 0)
    OBVIOUS
  <2>1. \A f \in Mem!AllFrames : f \in 0..NFrames /\ f # 0
    BY MemBasics
  <2>2. CASE kind = "anon"
    BY <1>1, <1>3, <1>5, <2>1, <2>2
  <2>3. CASE kind = "shm"
    <3>1. shm.frames \in Seq(Mem!AllFrames) /\ len = Len(shm.frames)
      BY <1>2, <2>3 DEF Mem!TypeOK
    <3>2. \A i \in 1..len : shm.frames[i] \in Mem!AllFrames
      BY <3>1
    <3> QED
      BY <1>1, <1>3, <2>1, <2>3, <3>2
  <2>4. CASE kind = "file"
    <3>1. pt[p][v] \in 0..NFrames
      BY <1>1, <1>2 DEF Mem!TypeOK
    <3> QED
      BY <1>3, <2>4, <3>1
  <2> QED
    BY <1>2, <2>2, <2>3, <2>4
<1>8. pt' \in [MemProcs -> [Mem!Pages -> 0..NFrames]]
  <2>1. \A q \in MemProcs, v \in Mem!Pages : pt'[q][v] \in 0..NFrames
    <3>1. \A q \in MemProcs, v \in Mem!Pages : pt[q][v] \in 0..NFrames
      BY <1>2 DEF Mem!TypeOK
    <3> QED
      BY <1>3, <1>7, <3>1
  <2> QED
    BY <1>3, <2>1
<1>9. /\ mem_blocks[p] \in Seq(Mem!Block) /\ b \in Mem!Block
      /\ mem_blocks'[p] \in Seq(Mem!Block)
      /\ Len(mem_blocks[p]) \in Nat
      /\ DOMAIN mem_blocks[p] = 1..Len(mem_blocks[p])
      /\ DOMAIN mem_blocks'[p] = 1..(Len(mem_blocks[p]) + 1)
      /\ \A i \in DOMAIN mem_blocks[p] : mem_blocks'[p][i] = mem_blocks[p][i]
      /\ mem_blocks'[p][Len(mem_blocks[p]) + 1] = b
  <2>1. mem_blocks[p] \in Seq(Mem!Block)
    BY <1>2 DEF Mem!TypeOK
  <2>2. b \in Mem!Block
    BY <1>2 DEF Mem!Block
  <2> HIDE DEF b
  <2> QED
    BY <1>4, <2>1, <2>2
<1>10. mem_blocks' \in [MemProcs -> Seq(Mem!Block)]
  <2>1. \A q \in MemProcs : mem_blocks'[q] \in Seq(Mem!Block)
    BY <1>2, <1>4, <1>9 DEF Mem!TypeOK
  <2> HIDE DEF b
  <2> QED
    BY <1>4, <2>1
<1> DEFINE n == Len(mem_blocks[p])
<1>11. n \in Nat /\ n + 1 \notin 1..n /\ \A i \in 1..(n + 1) : i \in 1..n \/ i = n + 1
  BY <1>9
<1>12. b.kind = kind /\ b.start = at /\ b.len = len /\ \A v : v \in Mem!Span(b) <=> v \in N
  BY SpanFacts DEF N
<1> HIDE DEF b, n
<1>13. \A q \in MemProcs : \A v :
         v \in Mem!Spans(q, "shm")' <=> v \in Mem!Spans(q, "shm") \/ (q = p /\ kind = "shm" /\ v \in N)
  <2> SUFFICES ASSUME NEW q \in MemProcs, NEW v
               PROVE  v \in Mem!Spans(q, "shm")' <=> v \in Mem!Spans(q, "shm") \/ (q = p /\ kind = "shm" /\ v \in N)
    OBVIOUS
  <2>3. /\ v \in Mem!Spans(q, "shm")' <=>
             \E i \in DOMAIN mem_blocks'[q] : mem_blocks'[q][i].kind = "shm" /\ v \in Mem!Span(mem_blocks'[q][i])
        /\ v \in Mem!Spans(q, "shm") <=>
             \E i \in DOMAIN mem_blocks[q] : mem_blocks[q][i].kind = "shm" /\ v \in Mem!Span(mem_blocks[q][i])
    BY SpansHas
  <2>1. CASE q # p
    BY <1>4, <2>1, <2>3, Zenon
  <2>2. CASE q = p
    <3>1. v \in Mem!Spans(p, "shm")' <=>
            \E i \in 1..(n + 1) : mem_blocks'[p][i].kind = "shm" /\ v \in Mem!Span(mem_blocks'[p][i])
      BY <1>9, <2>2, <2>3, Zenon DEF n
    <3>2. v \in Mem!Spans(p, "shm") <=>
            \E i \in 1..n : mem_blocks[p][i].kind = "shm" /\ v \in Mem!Span(mem_blocks[p][i])
      BY <1>9, <2>2, <2>3, Zenon DEF n
    <3>3. /\ \A i \in 1..n : mem_blocks'[p][i] = mem_blocks[p][i] /\ i \in 1..(n + 1)
          /\ mem_blocks'[p][n + 1] = b /\ n + 1 \in 1..(n + 1)
      BY <1>9, <1>11 DEF n
    <3> QED
      BY <1>11, <1>12, <2>2, <3>1, <3>2, <3>3
  <2> QED
    BY <2>1, <2>2
<1>14. \A v \in N : v \notin Mem!Spans(p, "shm")
  BY <1>1, SharedFacts
<1>15. /\ \A q \in MemProcs, v \in Mem!Pages : q # p \/ v \notin N => Mem!Held'[q][v] = Mem!Held[q][v]
       /\ \A v \in N : /\ Mem!Held[p][v] = 0
                       /\ Mem!Held'[p][v] = IF kind = "anon" THEN fresh[v - at + 1] ELSE 0
  <2>1. ASSUME NEW q \in MemProcs, NEW v \in Mem!Pages, q # p \/ v \notin N
        PROVE  Mem!Held'[q][v] = Mem!Held[q][v]
    <3>1. pt'[q][v] = pt[q][v]
      BY <1>3, <2>1
    <3>2. v \in Mem!Spans(q, "shm")' <=> v \in Mem!Spans(q, "shm")
      BY <1>13, <2>1
    <3> QED
      BY <3>1, <3>2, HeldFacts
  <2>2. ASSUME NEW v \in N
        PROVE  /\ Mem!Held[p][v] = 0
               /\ Mem!Held'[p][v] = IF kind = "anon" THEN fresh[v - at + 1] ELSE 0
    <3>1. v \in Mem!Pages /\ pt[p][v] = 0
      BY <1>1
    <3>2. Mem!Held[p][v] = 0
      BY <3>1, HeldFacts
    <3>3. v \in Mem!Spans(p, "shm")' <=> kind = "shm"
      BY <1>13, <1>14
    <3>4. Mem!Held'[p][v] = IF kind = "shm" THEN 0 ELSE pt'[p][v]
      BY <3>1, <3>3, HeldFacts
    <3> QED
      BY <1>2, <1>3, <3>1, <3>2, <3>4
  <2> QED
    BY <2>1, <2>2
<1>16. Mem!Own(Mem!Held, shm.frames, used)'
  <2>1. Mem!Own(Mem!Held, shm.frames, used)
    BY DEF Mem!MemoryInv
  <2>2. CASE kind # "anon"
    <3>1. Mem!Held' = Mem!Held
      <4>1. \A q \in MemProcs, v \in Mem!Pages : Mem!Held'[q][v] = Mem!Held[q][v]
        BY <1>15, <2>2
      <4> QED
        BY <4>1, HeldFacts
    <3> QED
      BY <1>6, <2>1, <2>2, <3>1 DEF Mem!Own
  <2>3. CASE kind = "anon"
    <3> DEFINE new == Mem!Range(fresh)
    <3>1. 0 \notin used /\ 0 \notin new /\ new \cap used = {}
      <4>1. used \subseteq Mem!AllFrames /\ 0 \notin Mem!AllFrames
        BY <1>2, MemBasics DEF Mem!TypeOK
      <4>2. \A f \in new : f \notin used /\ f # 0
        BY <1>5, <2>3
      <4> HIDE DEF new
      <4> QED
        BY <4>1, <4>2
    <3>2. \A v \in N : Mem!Held'[p][v] = fresh[v - at + 1] /\ Mem!Held'[p][v] \in new /\ v - at + 1 \in 1..len
      BY <1>1, <1>5, <1>15, <2>3
    <3>3. \A q \in MemProcs, v \in Mem!Pages :
            Mem!Held'[q][v] = Mem!Held[q][v] \/ (Mem!Held[q][v] = 0 /\ Mem!Held'[q][v] \in new)
      BY <1>15, <3>2
    <3>4. \A q \in MemProcs, v \in Mem!Pages : Mem!Held'[q][v] \in new => q = p /\ v \in N
      <4>1. \A q \in MemProcs, v \in Mem!Pages : Mem!Held[q][v] # 0 => Mem!Held[q][v] \in used
        BY <2>1 DEF Mem!Own
      <4>2. \A q \in MemProcs, v \in Mem!Pages : Mem!Held[q][v] \notin new
        BY <3>1, <4>1
      <4> QED
        BY <1>15, <4>2
    <3>5. \A v, w \in N : Mem!Held'[p][v] = Mem!Held'[p][w] => v = w
      <4>1. \A v, w \in N : fresh[v - at + 1] = fresh[w - at + 1] => v - at + 1 = w - at + 1
        BY <1>5, <2>3, <3>2
      <4>2. \A v, w \in N : v - at + 1 = w - at + 1 => v = w
        BY DEF N
      <4> QED
        BY <3>2, <4>1, <4>2
    <3>6. \A q, r \in MemProcs, v, w \in Mem!Pages :
            Mem!Held'[q][v] \in new /\ Mem!Held'[q][v] = Mem!Held'[r][w] => q = r /\ v = w
      BY <3>4, <3>5
    <3>7. \A f \in new : \E q \in MemProcs, v \in Mem!Pages : Mem!Held'[q][v] = f
      <4> SUFFICES ASSUME NEW f \in new
                   PROVE  \E q \in MemProcs, v \in Mem!Pages : Mem!Held'[q][v] = f
        OBVIOUS
      <4>1. PICK i \in 1..len : fresh[i] = f
        BY <1>5, <2>3
      <4>2. at + i - 1 \in N /\ (at + i - 1) - at + 1 = i
        BY DEF N
      <4>3. Mem!Held'[p][at + i - 1] = f
        BY <3>2, <4>1, <4>2
      <4> QED
        BY <1>1, <4>2, <4>3
    <3> HIDE DEF new
    <3>8. Mem!Own(Mem!Held', shm.frames, used \cup new)
      BY <2>1, <3>1, <3>3, <3>6, <3>7, OwnGrows
    <3>9. used' = used \cup new /\ shm' = shm
      BY <1>6, <2>3 DEF new
    <3> QED
      BY <3>8, <3>9
  <2> QED
    BY <2>2, <2>3
<1>17. Mem!MappingsFit'
  <2>1. ASSUME NEW q \in MemProcs, NEW i \in DOMAIN mem_blocks'[q]
        PROVE  LET c == mem_blocks'[q][i]
               IN  c.kind \in kinds /\ MmapStart <= c.start /\ c.start + c.len < Top
    <3>1. CASE q # p \/ i \in DOMAIN mem_blocks[p]
      <4>1. i \in DOMAIN mem_blocks[q] /\ mem_blocks'[q][i] = mem_blocks[q][i]
        BY <1>4, <1>9, <2>1, <3>1
      <4> QED
        BY <4>1, BlockFacts
    <3>2. CASE q = p /\ i \notin DOMAIN mem_blocks[p]
      <4>1. mem_blocks'[p][i] = b
        BY <1>9, <1>11, <3>2, <2>1 DEF n
      <4> QED
        BY <1>12, <3>2, <4>1
    <3> QED
      BY <3>1, <3>2
  <2> QED
    BY <2>1 DEF Mem!MappingsFit
<1>18. Mem!EndedIsClean'
  <2>1. Mem!EndedIsClean
    BY DEF Mem!MemoryInv
  <2> QED
    BY <1>3, <1>4, <2>1 DEF Mem!EndedIsClean
<1>19. \A v \in 0..(MmapStart - 1) : v \in Mem!Pages /\ v \notin N /\ \A w \in 0..v : w \in 0..(MmapStart - 1)
  BY MemBasics DEF N
<1>20. Mem!HeapIsDense'
  <2>1. Mem!HeapIsDense
    BY DEF Mem!MemoryInv
  <2>2. 0 \in 0..(MmapStart - 1)
    BY MemBasics
  <2>3. \A q \in MemProcs : \A v \in 0..(MmapStart - 1) : pt'[q][v] = pt[q][v]
    BY <1>3, <1>19
  <2> QED
    BY <1>19, <2>1, <2>2, <2>3 DEF Mem!HeapIsDense
<1>21. ("file" \notin kinds => Mem!MappingsArePresent /\ Mem!MappingsAreDisjoint)'
  <2> SUFFICES ASSUME "file" \notin kinds
               PROVE  Mem!MappingsArePresent' /\ Mem!MappingsAreDisjoint'
    OBVIOUS
  <2>1. Mem!MappingsArePresent /\ Mem!MappingsAreDisjoint
    BY DEF Mem!MemoryInv
  <2>2. \A q \in MemProcs, v \in Mem!Pages : pt[q][v] # 0 => pt'[q][v] # 0
    <3>1. \A v \in N : pt[p][v] = 0
      BY <1>1
    <3> QED
      BY <1>3, <3>1
  <2>3. \A v \in N : pt'[p][v] # 0
    BY <1>7
  <2>4. \A i \in DOMAIN mem_blocks'[p] :
          (i \in DOMAIN mem_blocks[p] /\ mem_blocks'[p][i] = mem_blocks[p][i]) \/ (i = n + 1 /\ mem_blocks'[p][i] = b)
    BY <1>9, <1>11 DEF n
  <2>5. Mem!MappingsArePresent'
    <3>1. ASSUME NEW q \in MemProcs, NEW i \in DOMAIN mem_blocks'[q], NEW v \in Mem!Span(mem_blocks'[q][i])
          PROVE  pt'[q][v] # 0
      <4>1. CASE i \in DOMAIN mem_blocks[q] /\ mem_blocks'[q][i] = mem_blocks[q][i]
        <5>1. pt[q][v] # 0 /\ v \in Mem!Pages
          BY <2>1, <3>1, <4>1, BlockFacts DEF Mem!MappingsArePresent
        <5> QED
          BY <2>2, <5>1
      <4>2. CASE q = p /\ mem_blocks'[p][i] = b
        BY <1>12, <2>3, <3>1, <4>2
      <4> QED
        BY <1>4, <2>4, <3>1, <4>1, <4>2
    <3>2. \A c : Mem!Span(c)' = Mem!Span(c)
      BY DEF Mem!Span
    <3> QED
      BY <3>1, <3>2 DEF Mem!MappingsArePresent
  <2>6. \A i \in DOMAIN mem_blocks[p] : Mem!Span(mem_blocks[p][i]) \cap N = {}
    BY <1>1, <2>1 DEF Mem!MappingsArePresent
  <2>7. Mem!MappingsAreDisjoint'
    <3>1. ASSUME NEW q \in MemProcs, NEW i \in DOMAIN mem_blocks'[q], NEW j \in DOMAIN mem_blocks'[q], i # j
          PROVE  Mem!Span(mem_blocks'[q][i]) \cap Mem!Span(mem_blocks'[q][j]) = {}
      <4>1. CASE q # p
        BY <1>4, <2>1, <3>1, <4>1 DEF Mem!MappingsAreDisjoint
      <4>2. CASE q = p /\ i \in DOMAIN mem_blocks[p] /\ j \in DOMAIN mem_blocks[p]
        BY <1>9, <2>1, <3>1, <4>2 DEF Mem!MappingsAreDisjoint
      <4>3. Mem!Span(b) = N
        BY <1>12
      <4>4. CASE q = p /\ (i \notin DOMAIN mem_blocks[p] \/ j \notin DOMAIN mem_blocks[p])
        BY <2>4, <2>6, <3>1, <4>3, <4>4
      <4> QED
        BY <4>1, <4>2, <4>4
    <3> QED
      BY <3>1 DEF Mem!MappingsAreDisjoint, Mem!Span
  <2> QED
    BY <2>5, <2>7
<1>22. /\ Mem!ShmIsCounted'
       /\ mem_fds' \in [MemProcs -> SUBSET ShmNodes]
       /\ mem_nodes' \in [ShmNodes -> [links : Nat, size : 0..MaxShm]]
       /\ shm' \in [frames : Seq(Mem!AllFrames), links : Nat]
  BY ShmKept
<1>23. used' \subseteq Mem!AllFrames
  <2>1. used \subseteq Mem!AllFrames
    BY <1>2 DEF Mem!TypeOK
  <2>2. kind = "anon" => Mem!Range(fresh) \subseteq Mem!AllFrames
    BY <1>5
  <2> QED
    BY <1>6, <2>1, <2>2
<1>24. Mem!TypeOK'
  <2>1. kinds' \in Uses /\ mem_state' \in [MemProcs -> {"none", "live", "finished"}]
    BY <1>2 DEF Mem!TypeOK
  <2> QED
    BY <1>8, <1>10, <1>22, <1>23, <2>1 DEF Mem!TypeOK
<1> QED
  BY <1>16, <1>17, <1>18, <1>20, <1>21, <1>22, <1>24 DEF Mem!MemoryInv

LEMMA MmapKeeps ==
  ASSUME Mem!MemoryInv, NEW p \in MemProcs, NEW kind \in kinds, NEW len \in Lens \cup 1..MaxShm,
         Mem!sys_mmap(p, kind, len), UNCHANGED kinds
  PROVE  Mem!MemoryInv'
<1>1. len \in Nat \ {0}
  BY MemBasics
<1>2. /\ mem_state[p] = "live"
      /\ kind = "shm" => len = Len(shm.frames)
  BY DEF Mem!sys_mmap, Mem!Mappable
<1>3. UNCHANGED <<mem_state, mem_fds, mem_nodes, shm>>
  BY DEF Mem!sys_mmap
<1>4. CASE ~Mem!Search(p, len).ends /\ UNCHANGED <<used, pt, mem_blocks, mem_start>>
  BY <1>3, <1>4, MemStutters
<1>5. CASE /\ Mem!Search(p, len).ends /\ Mem!Search(p, len).at + len < Top
           /\ Mem!Mapping(p, kind, Mem!Search(p, len).at, len)
           /\ mem_start' = [mem_start EXCEPT ![p] = Mem!Search(p, len).at + len]
  <2> DEFINE at == Mem!Search(p, len).at
  <2>1. at \in Nat /\ MmapStart <= at /\ Mem!Fits(p, len, at)
    BY <1>1, <1>5, SearchFacts
  <2>2. at + len < Top /\ Mem!Mapping(p, kind, at, len) /\ mem_start' = [mem_start EXCEPT ![p] = at + len]
    BY <1>5
  <2> HIDE DEF at
  <2>3. mem_start \in [MemProcs -> Nat] /\ \A q \in MemProcs : MmapStart <= mem_start[q]
    BY DEF Mem!MemoryInv, Mem!TypeOK, Mem!MappingsFit
  <2>4. at + len \in Nat /\ MmapStart <= at + len
    BY <1>1, <2>1, MemBasics
  <2>5. mem_start' \in [MemProcs -> Nat] /\ \A q \in MemProcs : MmapStart <= mem_start'[q]
    BY <2>2, <2>3, <2>4
  <2> QED
    BY <1>1, <1>2, <1>3, <2>1, <2>2, <2>5, MappingKeeps
<1> QED
  BY <1>4, <1>5 DEF Mem!sys_mmap

LEMMA MmapFixedKeeps ==
  ASSUME Mem!MemoryInv, NEW p \in MemProcs, NEW kind \in kinds, NEW at \in FixedAt,
         NEW len \in Lens \cup 1..MaxShm, Mem!sys_mmap_fixed(p, kind, at, len), UNCHANGED kinds
  PROVE  Mem!MemoryInv'
<1>1. len \in Nat \ {0} /\ at \in Nat /\ MmapStart <= at
  BY MemBasics
<1>2. /\ mem_state[p] = "live"
      /\ kind = "shm" => len = Len(shm.frames)
      /\ at + len < Top /\ Mem!Fits(p, len, at)
      /\ Mem!Mapping(p, kind, at, len)
      /\ UNCHANGED <<mem_state, mem_fds, mem_nodes, shm, mem_start>>
  BY DEF Mem!sys_mmap_fixed, Mem!Mappable, Mem!FixedFree
<1>3. mem_start' \in [MemProcs -> Nat] /\ \A q \in MemProcs : MmapStart <= mem_start'[q]
  BY <1>2 DEF Mem!MemoryInv, Mem!TypeOK, Mem!MappingsFit
<1> QED
  BY <1>1, <1>2, <1>3, MappingKeeps

(***************************************************************************)
(* Unmapping and page faults                                               *)
(***************************************************************************)
LEMMA AroundFacts ==
  ASSUME Mem!MemoryInv, NEW p \in MemProcs, NEW v, Mem!InBlock(p, v)
  PROVE  /\ Mem!Min(Mem!Around(p, v)) \in DOMAIN mem_blocks[p]
         /\ Mem!Max(Mem!Around(p, v)) \in DOMAIN mem_blocks[p]
         /\ v \in Mem!Span(mem_blocks[p][Mem!Min(Mem!Around(p, v))])
         /\ v \in Mem!Span(mem_blocks[p][Mem!Max(Mem!Around(p, v))])
         /\ Mem!get_mapping(p, v) = mem_blocks[p][Mem!Min(Mem!Around(p, v))]
<1> DEFINE A == Mem!Around(p, v)
           n == Len(mem_blocks[p])
           B == {k \in 0..n : n - k \in A}
<1>1. n \in Nat /\ DOMAIN mem_blocks[p] = 1..n
  BY BlockFacts
<1>2. A # {} /\ A \subseteq DOMAIN mem_blocks[p] /\ \A i \in A : v \in Mem!Span(mem_blocks[p][i])
  BY DEF Mem!InBlock, Mem!Around
<1> HIDE DEF A, n
<1>3. A \subseteq Nat
  BY <1>1, <1>2
<1>4. \E s \in A : \A t \in A : s <= t
  BY <1>2, <1>3, LeastElement
<1>5. Mem!Min(A) \in A
  BY <1>4 DEF Mem!Min
<1>6. B # {} /\ B \subseteq Nat
  <2>1. PICK i \in A : TRUE
    BY <1>2
  <2>2. n - i \in 0..n /\ n - (n - i) = i
    BY <1>1, <1>2, <2>1
  <2>3. n - i \in B
    BY <2>2
  <2> QED
    BY <1>1, <2>3
<1>7. PICK s \in B : \A t \in B : s <= t
  <2> HIDE DEF B
  <2> QED
    BY <1>6, LeastElement
<1>8. n - s \in A /\ \A j \in A : n - s >= j
  <2>1. \A j \in A : j \in 1..n /\ n - j \in 0..n /\ n - (n - j) = j
    BY <1>1, <1>2
  <2>2. \A j \in A : n - j \in B
    BY <2>1
  <2>3. s \in 0..n /\ n - s \in A
    BY <1>7
  <2>4. \A j \in A : s <= n - j
    BY <1>7, <2>2
  <2> HIDE DEF B
  <2> QED
    BY <1>1, <2>1, <2>3, <2>4
<1>9. Mem!Max(A) \in A
  BY <1>8 DEF Mem!Max
<1> QED
  BY <1>2, <1>5, <1>9 DEF A, Mem!get_mapping

LEMMA MunmapKeeps ==
  ASSUME Mem!MemoryInv, NEW p \in MemProcs, NEW v, Mem!sys_munmap(p, v), UNCHANGED kinds
  PROVE  Mem!MemoryInv'
<1> DEFINE i == Mem!Min(Mem!Around(p, v))
           b == mem_blocks[p][i]
           N == Mem!Span(b)
           t == RemoveAt(mem_blocks[p], i)
<1>1. /\ Mem!get_mapping(p, v) = b /\ i \in DOMAIN mem_blocks[p]
      /\ mem_blocks[p] \in Seq(Mem!Block)
      /\ b.start \in Nat /\ MmapStart <= b.start
      /\ \A w \in N : w \in Mem!Pages /\ w >= MmapStart
  <2>1. Mem!InBlock(p, v)
    BY DEF Mem!sys_munmap
  <2>2. Mem!get_mapping(p, v) = b /\ i \in DOMAIN mem_blocks[p]
    BY <2>1, AroundFacts
  <2>3. \A j \in DOMAIN mem_blocks[p] :
          /\ mem_blocks[p][j].start \in Nat /\ MmapStart <= mem_blocks[p][j].start
          /\ \A w \in Mem!Span(mem_blocks[p][j]) : w \in Mem!Pages /\ w >= MmapStart
    BY BlockFacts
  <2>4. mem_blocks[p] \in Seq(Mem!Block)
    BY BlockFacts
  <2> HIDE DEF i
  <2> QED
    BY <2>2, <2>3, <2>4
<1>2. /\ mem_state[p] = "live"
      /\ used' = used \ Mem!Freed(p, b.kind, N)
      /\ pt' = [pt EXCEPT ![p] = [w \in Mem!Pages |-> IF w \in N THEN 0 ELSE pt[p][w]]]
      /\ mem_blocks' = [mem_blocks EXCEPT ![p] = t]
      /\ mem_start' = [mem_start EXCEPT ![p] = b.start]
      /\ UNCHANGED <<kinds, mem_state, mem_fds, mem_nodes, shm>>
  BY <1>1 DEF Mem!sys_munmap, Mem!Unmapped, RemoveAt
<1>3. /\ t \in Seq(Mem!Block)
      /\ \A j \in DOMAIN t : LET g == IF j < i THEN j ELSE j + 1
                             IN  j \in Nat /\ g \in DOMAIN mem_blocks[p] /\ g # i /\ t[j] = mem_blocks[p][g]
      /\ \A j \in DOMAIN mem_blocks[p] : j # i => \E k \in DOMAIN t : t[k] = mem_blocks[p][j]
  <2> DEFINE s == mem_blocks[p]
  <2>1. s \in Seq(Mem!Block) /\ i \in DOMAIN s
    BY <1>1
  <2> HIDE DEF i, s
  <2>2. /\ RemoveAt(s, i) \in Seq(Mem!Block)
        /\ \A j \in DOMAIN RemoveAt(s, i) :
             LET g == IF j < i THEN j ELSE j + 1
             IN  j \in Nat /\ g \in DOMAIN s /\ g # i /\ RemoveAt(s, i)[j] = s[g]
        /\ \A j \in DOMAIN s : j # i => \E k \in DOMAIN RemoveAt(s, i) : RemoveAt(s, i)[k] = s[j]
    BY <2>1, RemoveAtFacts
  <2> QED
    BY <2>2 DEF s
<1>4. i \in Nat
  <2> HIDE DEF i
  <2> QED
    BY <1>1
<1>5. Mem!TypeOK
  BY DEF Mem!MemoryInv
<1> HIDE DEF i, N, t
<1>6. /\ pt' \in [MemProcs -> [Mem!Pages -> 0..NFrames]]
      /\ \A q \in MemProcs : q # p => pt'[q] = pt[q]
      /\ \A w \in Mem!Pages : pt'[p][w] = IF w \in N THEN 0 ELSE pt[p][w]
  <2> DEFINE new == [w \in Mem!Pages |-> IF w \in N THEN 0 ELSE pt[p][w]]
  <2>1. pt \in [MemProcs -> [Mem!Pages -> 0..NFrames]] /\ 0 \in 0..NFrames
    BY <1>5, MemBasics DEF Mem!TypeOK
  <2>2. new \in [Mem!Pages -> 0..NFrames] /\ \A w \in Mem!Pages : new[w] = IF w \in N THEN 0 ELSE pt[p][w]
    BY <2>1
  <2>3. pt' = [pt EXCEPT ![p] = new]
    BY <1>2
  <2> HIDE DEF new
  <2> QED
    BY <2>1, <2>2, <2>3
<1>7. /\ mem_blocks' \in [MemProcs -> Seq(Mem!Block)]
      /\ \A q \in MemProcs : q # p => mem_blocks'[q] = mem_blocks[q]
      /\ mem_blocks'[p] = t
  BY <1>2, <1>3, <1>5 DEF Mem!TypeOK
<1>8. \A q \in MemProcs, w \in Mem!Pages : q # p \/ w \notin N =>
        (w \in Mem!Spans(q, "shm")' <=> w \in Mem!Spans(q, "shm"))
  <2> SUFFICES ASSUME NEW q \in MemProcs, NEW w \in Mem!Pages, q # p \/ w \notin N
               PROVE  w \in Mem!Spans(q, "shm")' <=> w \in Mem!Spans(q, "shm")
    OBVIOUS
  <2>1. /\ w \in Mem!Spans(q, "shm")' <=>
             \E j \in DOMAIN mem_blocks'[q] : mem_blocks'[q][j].kind = "shm" /\ w \in Mem!Span(mem_blocks'[q][j])
        /\ w \in Mem!Spans(q, "shm") <=>
             \E j \in DOMAIN mem_blocks[q] : mem_blocks[q][j].kind = "shm" /\ w \in Mem!Span(mem_blocks[q][j])
    BY SpansHas
  <2>2. CASE q # p
    BY <1>7, <2>1, <2>2, Zenon
  <2>3. CASE q = p /\ w \notin N
    <3>1. \A j \in DOMAIN t : \E k \in DOMAIN mem_blocks[p] : t[j] = mem_blocks[p][k]
      BY <1>3
    <3>2. \A j \in DOMAIN mem_blocks[p] : w \in Mem!Span(mem_blocks[p][j])
            => \E k \in DOMAIN t : t[k] = mem_blocks[p][j]
      BY <1>3, <2>3 DEF N
    <3> QED
      BY <1>7, <2>1, <2>3, <3>1, <3>2
  <2> QED
    BY <2>2, <2>3
<1>9. \A q \in MemProcs, w \in Mem!Pages : q # p \/ w \notin N => Mem!Held'[q][w] = Mem!Held[q][w]
  <2> SUFFICES ASSUME NEW q \in MemProcs, NEW w \in Mem!Pages, q # p \/ w \notin N
               PROVE  Mem!Held'[q][w] = Mem!Held[q][w]
    OBVIOUS
  <2>1. pt'[q][w] = pt[q][w]
    BY <1>6
  <2>2. w \in Mem!Spans(q, "shm")' <=> w \in Mem!Spans(q, "shm")
    BY <1>8
  <2> QED
    BY <2>1, <2>2, HeldFacts
<1>10. \A w \in N : /\ w \in Mem!Pages /\ Mem!Held'[p][w] = 0
                    /\ Mem!Held[p][w] = IF b.kind = "shm" THEN 0 ELSE pt[p][w]
  <2> SUFFICES ASSUME NEW w \in N
               PROVE  /\ w \in Mem!Pages /\ Mem!Held'[p][w] = 0
                      /\ Mem!Held[p][w] = IF b.kind = "shm" THEN 0 ELSE pt[p][w]
    OBVIOUS
  <2>1. w \in Mem!Pages /\ pt'[p][w] = 0
    BY <1>1, <1>6
  <2>2. w \in Mem!Spans(p, "shm") <=> b.kind = "shm"
    BY <1>1, SharedFacts DEF N
  <2> HIDE DEF b
  <2> QED
    BY <2>1, <2>2, HeldFacts
<1>11. Mem!Own(Mem!Held, shm.frames, used)'
  <2>1. Mem!Own(Mem!Held, shm.frames, used) /\ 0 \notin used
    BY <1>5, MemBasics DEF Mem!MemoryInv, Mem!TypeOK
  <2>2. \A q \in MemProcs, w \in Mem!Pages : Mem!Held'[q][w] = Mem!Held[q][w] \/ Mem!Held'[q][w] = 0
    BY <1>9, <1>10
  <2>3. \A f : f \in Mem!Freed(p, b.kind, N) <=> b.kind # "shm" /\ f # 0 /\ \E w \in N : pt[p][w] = f
    BY DEF Mem!Freed
  <2> HIDE DEF b
  <2>4. \A f : f \in used' <=>
          f \in used /\ ~\E q \in MemProcs, w \in Mem!Pages : Mem!Held[q][w] = f /\ Mem!Held'[q][w] = 0
    <3>1. ASSUME NEW f \in used, f \notin Mem!Freed(p, b.kind, N), NEW q \in MemProcs, NEW w \in Mem!Pages,
                 Mem!Held[q][w] = f, Mem!Held'[q][w] = 0
          PROVE  FALSE
      <4>1. f # 0
        BY <2>1
      <4>2. q = p /\ w \in N
        BY <1>9, <3>1, <4>1
      <4>3. b.kind # "shm" /\ pt[p][w] = f
        BY <1>10, <3>1, <4>1, <4>2
      <4> QED
        BY <2>3, <3>1, <4>1, <4>2, <4>3
    <3>2. ASSUME NEW f \in Mem!Freed(p, b.kind, N)
          PROVE  \E q \in MemProcs, w \in Mem!Pages : Mem!Held[q][w] = f /\ Mem!Held'[q][w] = 0
      <4>1. PICK w \in N : pt[p][w] = f
        BY <2>3, <3>2
      <4>2. w \in Mem!Pages /\ Mem!Held'[p][w] = 0 /\ Mem!Held[p][w] = f
        BY <1>10, <2>3, <3>2, <4>1
      <4> QED
        BY <4>2
    <3> QED
      BY <1>2, <3>1, <3>2
  <2>5. Mem!Own(Mem!Held', shm.frames, used')
    BY <2>1, <2>2, <2>4, OwnShrinks
  <2> QED
    BY <1>2, <2>5
<1>12. Mem!MappingsFit'
  <2>1. \A q \in MemProcs : MmapStart <= mem_start'[q]
    BY <1>1, <1>2, <1>5 DEF Mem!MemoryInv, Mem!MappingsFit, Mem!TypeOK
  <2>2. ASSUME NEW q \in MemProcs, NEW j \in DOMAIN mem_blocks'[q]
        PROVE  LET c == mem_blocks'[q][j]
               IN  c.kind \in kinds /\ MmapStart <= c.start /\ c.start + c.len < Top
    <3>1. PICK k \in DOMAIN mem_blocks[q] : mem_blocks'[q][j] = mem_blocks[q][k]
      BY <1>3, <1>7, <2>2
    <3> QED
      BY <3>1, BlockFacts
  <2> QED
    BY <1>2, <2>1, <2>2 DEF Mem!MappingsFit
<1>13. Mem!EndedIsClean'
  <2>1. Mem!EndedIsClean
    BY DEF Mem!MemoryInv
  <2> QED
    BY <1>2, <1>6, <1>7, <2>1 DEF Mem!EndedIsClean
<1>14. Mem!HeapIsDense'
  <2>1. Mem!HeapIsDense
    BY DEF Mem!MemoryInv
  <2>2. 0 \in 0..(MmapStart - 1) /\ \A w \in 0..(MmapStart - 1) : \A x \in 0..w : x \in 0..(MmapStart - 1)
    BY MemBasics
  <2>3. \A w \in 0..(MmapStart - 1) : w \in Mem!Pages /\ w \notin N
    BY <1>1, MemBasics
  <2>4. \A q \in MemProcs : \A w \in 0..(MmapStart - 1) : pt'[q][w] = pt[q][w]
    BY <1>6, <2>3
  <2> QED
    BY <1>2, <2>1, <2>2, <2>4 DEF Mem!HeapIsDense
<1>15. ("file" \notin kinds => Mem!MappingsArePresent /\ Mem!MappingsAreDisjoint)'
  <2> SUFFICES ASSUME "file" \notin kinds
               PROVE  Mem!MappingsArePresent' /\ Mem!MappingsAreDisjoint'
    BY <1>2
  <2>1. Mem!MappingsArePresent /\ Mem!MappingsAreDisjoint
    BY DEF Mem!MemoryInv
  <2>2. Mem!MappingsArePresent'
    <3>1. ASSUME NEW q \in MemProcs, NEW j \in DOMAIN mem_blocks'[q], NEW w \in Mem!Span(mem_blocks'[q][j])
          PROVE  pt'[q][w] # 0
      <4>1. PICK k \in DOMAIN mem_blocks[q] : mem_blocks'[q][j] = mem_blocks[q][k] /\ (q = p => k # i)
        BY <1>3, <1>7, <3>1
      <4>2. pt[q][w] # 0 /\ w \in Mem!Pages
        BY <2>1, <3>1, <4>1, BlockFacts DEF Mem!MappingsArePresent
      <4>3. q = p => w \notin N
        BY <1>1, <2>1, <3>1, <4>1 DEF Mem!MappingsAreDisjoint, N
      <4> QED
        BY <1>6, <4>2, <4>3
    <3> QED
      BY <3>1 DEF Mem!MappingsArePresent, Mem!Span
  <2>3. Mem!MappingsAreDisjoint'
    <3>1. ASSUME NEW q \in MemProcs, NEW j \in DOMAIN mem_blocks'[q], NEW k \in DOMAIN mem_blocks'[q], j # k
          PROVE  Mem!Span(mem_blocks'[q][j]) \cap Mem!Span(mem_blocks'[q][k]) = {}
      <4>1. CASE q # p
        BY <1>7, <2>1, <3>1, <4>1 DEF Mem!MappingsAreDisjoint
      <4>2. CASE q = p
        <5> DEFINE g(l) == IF l < i THEN l ELSE l + 1
        <5>1. /\ j \in Nat /\ g(j) \in DOMAIN mem_blocks[p] /\ t[j] = mem_blocks[p][g(j)]
              /\ k \in Nat /\ g(k) \in DOMAIN mem_blocks[p] /\ t[k] = mem_blocks[p][g(k)]
          BY <1>3, <1>7, <3>1, <4>2
        <5>2. g(j) # g(k)
          BY <1>4, <3>1, <5>1
        <5> HIDE DEF g
        <5> QED
          <6>1. Mem!Span(mem_blocks[p][g(j)]) \cap Mem!Span(mem_blocks[p][g(k)]) = {}
            BY <2>1, <5>1, <5>2 DEF Mem!MappingsAreDisjoint
          <6> QED
            BY <1>7, <4>2, <5>1, <6>1
      <4> QED
        BY <4>1, <4>2
    <3> QED
      BY <3>1 DEF Mem!MappingsAreDisjoint, Mem!Span
  <2> QED
    BY <2>2, <2>3
<1>16. /\ Mem!ShmIsCounted'
       /\ mem_fds' \in [MemProcs -> SUBSET ShmNodes]
       /\ mem_nodes' \in [ShmNodes -> [links : Nat, size : 0..MaxShm]]
       /\ shm' \in [frames : Seq(Mem!AllFrames), links : Nat]
  BY <1>2, ShmKept
<1>17. Mem!TypeOK'
  <2>1. kinds' \in Uses /\ mem_state' \in [MemProcs -> {"none", "live", "finished"}]
    BY <1>2, <1>5 DEF Mem!TypeOK
  <2>2. used' \subseteq Mem!AllFrames /\ mem_start' \in [MemProcs -> Nat]
    BY <1>1, <1>2, <1>5 DEF Mem!TypeOK
  <2> QED
    BY <1>6, <1>7, <1>16, <2>1, <2>2 DEF Mem!TypeOK
<1> QED
  BY <1>11, <1>12, <1>13, <1>14, <1>15, <1>16, <1>17 DEF Mem!MemoryInv

(* A step that changes pages and leaves the mappings alone.                *)
LEMMA PagesKeep ==
  ASSUME Mem!MemoryInv, UNCHANGED <<kinds, mem_state, mem_blocks, mem_start, mem_fds, mem_nodes, shm>>,
         pt' \in [MemProcs -> [Mem!Pages -> 0..NFrames]], used' \subseteq Mem!AllFrames,
         Mem!Own(Mem!Held', shm.frames, used'), Mem!HeapIsDense',
         \A q \in MemProcs : mem_state[q] # "live" => pt'[q] = pt[q],
         "file" \notin kinds => \A q \in MemProcs, v \in Mem!Pages : pt[q][v] # 0 => pt'[q][v] # 0
  PROVE  Mem!MemoryInv'
<1>1. Mem!MappingsFit'
  BY DEF Mem!MemoryInv, Mem!MappingsFit
<1>2. Mem!EndedIsClean'
  BY DEF Mem!MemoryInv, Mem!EndedIsClean
<1>3. ("file" \notin kinds => Mem!MappingsArePresent /\ Mem!MappingsAreDisjoint)'
  <2> SUFFICES ASSUME "file" \notin kinds
               PROVE  Mem!MappingsArePresent' /\ Mem!MappingsAreDisjoint'
    OBVIOUS
  <2>1. Mem!MappingsArePresent /\ Mem!MappingsAreDisjoint
    BY DEF Mem!MemoryInv
  <2>2. \A q \in MemProcs : \A i \in DOMAIN mem_blocks[q] : \A v \in Mem!Span(mem_blocks[q][i]) : v \in Mem!Pages
    BY BlockFacts
  <2>3. \A q \in MemProcs : \A i \in DOMAIN mem_blocks[q] : \A v \in Mem!Span(mem_blocks[q][i]) : pt'[q][v] # 0
    BY <2>1, <2>2 DEF Mem!MappingsArePresent
  <2> QED
    BY <2>1, <2>3 DEF Mem!MappingsArePresent, Mem!MappingsAreDisjoint, Mem!Span
<1>4. /\ Mem!ShmIsCounted'
      /\ mem_fds' \in [MemProcs -> SUBSET ShmNodes]
      /\ mem_nodes' \in [ShmNodes -> [links : Nat, size : 0..MaxShm]]
      /\ shm' \in [frames : Seq(Mem!AllFrames), links : Nat]
  BY ShmKept
<1>5. Mem!TypeOK'
  <2>1. /\ kinds' \in Uses
        /\ mem_state' \in [MemProcs -> {"none", "live", "finished"}]
        /\ mem_blocks' \in [MemProcs -> Seq(Mem!Block)]
        /\ mem_start' \in [MemProcs -> Nat]
    BY DEF Mem!MemoryInv, Mem!TypeOK
  <2> QED
    BY <1>4, <2>1 DEF Mem!TypeOK
<1> QED
  BY <1>1, <1>2, <1>3, <1>4, <1>5 DEF Mem!MemoryInv

(* One page gets a frame.                                                  *)
LEMMA PageKeeps ==
  ASSUME Mem!MemoryInv, NEW p \in MemProcs, NEW v \in Mem!Pages, mem_state[p] = "live", pt[p][v] = 0,
         Mem!HasFree(1), pt' = [pt EXCEPT ![p][v] = Mem!Lowest(1)[1]],
         used' = used \cup {Mem!Lowest(1)[1]},
         v >= MmapStart \/ \A w \in 0..(v - 1) : pt[p][w] # 0,
         UNCHANGED <<kinds, mem_state, mem_blocks, mem_start, mem_fds, mem_nodes, shm>>
  PROVE  Mem!MemoryInv'
<1> DEFINE f == Mem!Lowest(1)[1]
<1>1. /\ pt \in [MemProcs -> [Mem!Pages -> 0..NFrames]] /\ used \subseteq Mem!AllFrames
      /\ Mem!Own(Mem!Held, shm.frames, used) /\ 0 \notin used
  BY MemBasics DEF Mem!MemoryInv, Mem!TypeOK
<1>2. f \in Mem!AllFrames /\ f \notin used /\ f # 0 /\ f \in 0..NFrames
  <2>1. \A i \in 1..1 : Mem!Lowest(1)[i] \in Mem!AllFrames /\ Mem!Lowest(1)[i] \notin used /\ Mem!Lowest(1)[i] # 0
    BY <1>1, LowestFacts
  <2>2. f \in Mem!AllFrames /\ f \notin used /\ f # 0
    BY <2>1
  <2> HIDE DEF f
  <2> QED
    BY <2>2, MemBasics
<1>3. pt' = [pt EXCEPT ![p][v] = f] /\ used' = used \cup {f}
  OBVIOUS
<1> HIDE DEF f
<1>4. /\ pt' \in [MemProcs -> [Mem!Pages -> 0..NFrames]]
      /\ \A q \in MemProcs : q # p => pt'[q] = pt[q]
      /\ \A q \in MemProcs, w \in Mem!Pages : q # p \/ w # v => pt'[q][w] = pt[q][w]
      /\ pt'[p][v] = f
  BY <1>1, <1>2, <1>3
<1>5. /\ \A q \in MemProcs : Mem!Spans(q, "shm")' = Mem!Spans(q, "shm")
      /\ v \notin Mem!Spans(p, "shm")
  <2>1. v \notin Mem!Spans(p, "shm")
    BY SharedFacts
  <2> QED
    BY <2>1 DEF Mem!Spans, Mem!Blocks, Mem!Span
<1>6. /\ \A q \in MemProcs, w \in Mem!Pages : q # p \/ w # v => Mem!Held'[q][w] = Mem!Held[q][w]
      /\ Mem!Held[p][v] = 0 /\ Mem!Held'[p][v] = f
  <2>1. ASSUME NEW q \in MemProcs, NEW w \in Mem!Pages
        PROVE  /\ Mem!Held[q][w] = IF w \in Mem!Spans(q, "shm") THEN 0 ELSE pt[q][w]
               /\ Mem!Held'[q][w] = IF w \in Mem!Spans(q, "shm") THEN 0 ELSE pt'[q][w]
    BY <1>5, HeldFacts
  <2> QED
    BY <1>4, <1>5, <2>1
<1>7. Mem!Own(Mem!Held', shm.frames, used')
  <2> DEFINE fresh == {f}
  <2>1. 0 \notin fresh /\ fresh \cap used = {} /\ used' = used \cup fresh
    BY <1>2, <1>3
  <2>2. \A q \in MemProcs, w \in Mem!Pages :
          Mem!Held'[q][w] = Mem!Held[q][w] \/ (Mem!Held[q][w] = 0 /\ Mem!Held'[q][w] \in fresh)
    BY <1>6
  <2>3. \A q \in MemProcs, w \in Mem!Pages : Mem!Held'[q][w] \in fresh => q = p /\ w = v
    <3>1. \A q \in MemProcs, w \in Mem!Pages : Mem!Held[q][w] # f
      BY <1>1, <1>2 DEF Mem!Own
    <3> QED
      BY <1>6, <3>1
  <2>4. \A q, r \in MemProcs, u, w \in Mem!Pages :
          Mem!Held'[q][u] \in fresh /\ Mem!Held'[q][u] = Mem!Held'[r][w] => q = r /\ u = w
    BY <2>3
  <2>5. \A g \in fresh : \E q \in MemProcs, w \in Mem!Pages : Mem!Held'[q][w] = g
    BY <1>6
  <2> HIDE DEF fresh
  <2>6. Mem!Own(Mem!Held', shm.frames, used \cup fresh)
    BY <1>1, <2>1, <2>2, <2>4, <2>5, OwnGrows
  <2> QED
    BY <2>1, <2>6
<1>8. Mem!HeapIsDense'
  <2>1. Mem!HeapIsDense /\ 0 \in Mem!Pages
    BY MemBasics DEF Mem!MemoryInv
  <2>2. \A q \in MemProcs, w \in Mem!Pages : pt[q][w] # 0 => pt'[q][w] # 0
    BY <1>2, <1>4
  <2>3. ASSUME NEW q \in MemProcs, NEW w \in 0..(MmapStart - 1), NEW x \in 0..w, pt'[q][w] # 0
        PROVE  pt'[q][x] # 0
    <3>1. w \in Mem!Pages /\ x \in Mem!Pages /\ w \in Nat /\ x \in Nat /\ v \in Nat /\ x <= w /\ w < MmapStart
          /\ MmapStart \in Nat
      BY MemBasics
    <3>2. CASE q = p /\ w = v
      <4>1. \A y \in 0..(v - 1) : pt[p][y] # 0
        BY <3>1, <3>2
      <4>2. x = v \/ x \in 0..(v - 1)
        BY <3>1, <3>2
      <4> QED
        BY <1>2, <1>4, <2>2, <3>1, <3>2, <4>1, <4>2
    <3>3. CASE q # p \/ w # v
      <4>1. pt[q][w] # 0
        BY <1>4, <2>3, <3>1, <3>3
      <4>2. pt[q][x] # 0
        BY <2>1, <4>1 DEF Mem!HeapIsDense
      <4> QED
        BY <2>2, <3>1, <4>2
    <3> QED
      BY <3>2, <3>3
  <2>4. \A q \in MemProcs : mem_state[q] = "live" => pt'[q][0] # 0
    BY <2>1, <2>2 DEF Mem!HeapIsDense
  <2> QED
    BY <2>3, <2>4 DEF Mem!HeapIsDense
<1>9. used' \subseteq Mem!AllFrames
  BY <1>1, <1>2, <1>3
<1>10. \A q \in MemProcs : mem_state[q] # "live" => pt'[q] = pt[q]
  BY <1>4
<1>11. \A q \in MemProcs, w \in Mem!Pages : pt[q][w] # 0 => pt'[q][w] # 0
  BY <1>2, <1>4
<1> QED
  BY <1>4, <1>7, <1>8, <1>9, <1>10, <1>11, PagesKeep

LEMMA PagefaultKeeps ==
  ASSUME Mem!MemoryInv, NEW p \in MemProcs, NEW v \in Mem!Pages, Mem!handle_pagefault(p, v), UNCHANGED kinds
  PROVE  Mem!MemoryInv'
<1>1. /\ mem_state[p] = "live" /\ v >= MmapStart /\ ~Mem!Mapped(p, v) /\ Mem!HasFree(1)
      /\ pt' = [pt EXCEPT ![p][v] = Mem!Lowest(1)[1]]
      /\ used' = used \cup {Mem!Lowest(1)[1]}
      /\ UNCHANGED <<kinds, mem_state, mem_blocks, mem_start, mem_fds, mem_nodes, shm>>
  BY DEF Mem!handle_pagefault
<1>2. pt[p][v] = 0
  BY <1>1, MemBasics DEF Mem!Mapped
<1> QED
  BY <1>1, <1>2, PageKeeps

(* The set of the numbers below n, whose size is n.                        *)
LEMMA DenseFacts ==
  ASSUME NEW m \in Nat, NEW Z, Z \subseteq 0..(m - 1), \A v \in Z : \A w \in 0..v : w \in Z
  PROVE  LET n == Cardinality(Z)
         IN  n \in Nat /\ n \notin Z /\ \A w \in 0..(n - 1) : w \in Z
<1> DEFINE n == Cardinality(Z)
<1>1. IsFiniteSet(0..(m - 1))
  BY FS_Interval
<1>2. IsFiniteSet(Z)
  BY <1>1, FS_Subset
<1>3. n \in Nat
  BY <1>2, FS_CardinalityType
<1>4. n \notin Z
  <2> SUFFICES ASSUME n \in Z
               PROVE  FALSE
    OBVIOUS
  <2>1. 0..n \subseteq Z
    OBVIOUS
  <2> HIDE DEF n
  <2>2. Cardinality(0..n) = n + 1
    BY <1>3, FS_Interval
  <2>3. Cardinality(0..n) <= Cardinality(Z)
    BY <1>2, <2>1, FS_Subset
  <2> QED
    BY <1>3, <2>2, <2>3 DEF n
<1>5. ASSUME NEW w \in 0..(n - 1), w \notin Z
      PROVE  FALSE
  <2>1. w \in Nat /\ w < n
    <3> HIDE DEF n
    <3> QED
      BY <1>3
  <2>2. Z \subseteq 0..(w - 1)
    <3> SUFFICES ASSUME NEW z \in Z
                 PROVE  z \in 0..(w - 1)
      OBVIOUS
    <3>1. z \in Nat /\ ~(w \in 0..z)
      BY <1>5
    <3> QED
      BY <2>1, <3>1
  <2>3. IsFiniteSet(0..(w - 1)) /\ Cardinality(0..(w - 1)) = w
    BY <2>1, FS_Interval
  <2>4. Cardinality(Z) <= Cardinality(0..(w - 1))
    BY <2>2, <2>3, FS_Subset
  <2> QED
    BY <1>3, <2>1, <2>3, <2>4
<1> QED
  BY <1>3, <1>4, <1>5

LEMMA GrowHeapKeeps ==
  ASSUME Mem!MemoryInv, NEW p \in MemProcs, Mem!grow_heap(p), UNCHANGED kinds
  PROVE  Mem!MemoryInv'
<1> DEFINE Z == {w \in 0..(MmapStart - 1) : pt[p][w] # 0}
           v == Cardinality(Z)
<1>1. /\ mem_state[p] = "live" /\ v < MmapStart /\ Mem!HasFree(1)
      /\ pt' = [pt EXCEPT ![p][v] = Mem!Lowest(1)[1]]
      /\ used' = used \cup {Mem!Lowest(1)[1]}
      /\ UNCHANGED <<kinds, mem_state, mem_blocks, mem_start, mem_fds, mem_nodes, shm>>
  BY DEF Mem!grow_heap, Mem!Cardinality, Cardinality
<1>2. Z \subseteq 0..(MmapStart - 1) /\ MmapStart \in Nat /\ MmapStart <= Top /\ Top \in Nat
  BY MemBasics
<1>3. \A x \in Z : \A w \in 0..x : w \in Z
  <2>1. \A x \in 0..(MmapStart - 1) : \A w \in 0..x : w \in 0..(MmapStart - 1)
    BY <1>2
  <2> QED
    BY <2>1 DEF Mem!MemoryInv, Mem!HeapIsDense
<1>4. v \in Nat /\ v \notin Z /\ \A w \in 0..(v - 1) : w \in Z
  <2> HIDE DEF Z
  <2> QED
    BY <1>2, <1>3, DenseFacts
<1>5. v \in 0..(MmapStart - 1) /\ v \in Mem!Pages
  <2> HIDE DEF v
  <2> QED
    BY <1>1, <1>2, <1>4, MemBasics
<1>6. pt[p][v] = 0 /\ \A w \in 0..(v - 1) : pt[p][w] # 0
  <2> HIDE DEF v
  <2> QED
    BY <1>4, <1>5
<1> HIDE DEF v, Z
<1> QED
  BY <1>1, <1>5, <1>6, PageKeeps

LEMMA MsyncKeeps ==
  ASSUME Mem!MemoryInv, NEW p \in MemProcs, NEW v, Mem!sys_msync(p, v), UNCHANGED kinds
  PROVE  Mem!MemoryInv'
<1> DEFINE N == Mem!SharedRanges
<1>1. /\ mem_state[p] = "live" /\ Mem!InBlock(p, v) /\ Mem!get_mapping(p, v).kind = "file"
      /\ used' = used \ Mem!Freed(p, "file", N)
      /\ pt' = [pt EXCEPT ![p] = [w \in Mem!Pages |-> IF w \in N THEN 0 ELSE pt[p][w]]]
      /\ UNCHANGED <<kinds, mem_state, mem_blocks, mem_start, mem_fds, mem_nodes, shm>>
  BY DEF Mem!sys_msync, Mem!Unmapped
<1>2. "file" \in kinds
  <2>1. Mem!Min(Mem!Around(p, v)) \in DOMAIN mem_blocks[p]
        /\ Mem!get_mapping(p, v) = mem_blocks[p][Mem!Min(Mem!Around(p, v))]
    BY <1>1, AroundFacts
  <2>2. \A i \in DOMAIN mem_blocks[p] : mem_blocks[p][i].kind \in kinds
    BY BlockFacts
  <2> QED
    BY <1>1, <2>1, <2>2
<1>3. \A q \in MemProcs : Mem!Spans(q, "shm") = {} /\ Mem!Spans(q, "shm")' = {}
  <2>1. \A q \in MemProcs : \A w : w \notin Mem!Spans(q, "shm")
    BY <1>2, SharedFacts
  <2>2. \A q \in MemProcs : Mem!Spans(q, "shm")' = Mem!Spans(q, "shm")
    BY <1>1 DEF Mem!Spans, Mem!Blocks, Mem!Span
  <2> QED
    BY <2>1, <2>2
<1>4. \A w \in N : w \in Mem!Pages /\ w >= MmapStart
  <2> SUFFICES ASSUME NEW w \in N
               PROVE  w \in Mem!Pages /\ w >= MmapStart
    OBVIOUS
  <2>1. PICK q \in MemProcs : w \in UNION {Mem!Span(b) : b \in {c \in Mem!Blocks(q) : c.kind = "file" /\ c.listed}}
    BY DEF Mem!SharedRanges
  <2>2. PICK c \in Mem!Blocks(q) : w \in Mem!Span(c)
    BY <2>1
  <2>3. PICK i \in DOMAIN mem_blocks[q] : c = mem_blocks[q][i]
    BY <2>2 DEF Mem!Blocks
  <2> QED
    BY <2>2, <2>3, BlockFacts
<1>5. /\ pt \in [MemProcs -> [Mem!Pages -> 0..NFrames]] /\ used \subseteq Mem!AllFrames
      /\ Mem!Own(Mem!Held, shm.frames, used) /\ 0 \notin used /\ 0 \in 0..NFrames
  BY MemBasics DEF Mem!MemoryInv, Mem!TypeOK
<1>6. \A f : f \in Mem!Freed(p, "file", N) <=> f # 0 /\ \E w \in N : pt[p][w] = f
  BY DEF Mem!Freed
<1> HIDE DEF N
<1>7. /\ pt' \in [MemProcs -> [Mem!Pages -> 0..NFrames]]
      /\ \A q \in MemProcs : q # p => pt'[q] = pt[q]
      /\ \A w \in Mem!Pages : pt'[p][w] = IF w \in N THEN 0 ELSE pt[p][w]
  <2> DEFINE new == [w \in Mem!Pages |-> IF w \in N THEN 0 ELSE pt[p][w]]
  <2>1. new \in [Mem!Pages -> 0..NFrames] /\ \A w \in Mem!Pages : new[w] = IF w \in N THEN 0 ELSE pt[p][w]
    BY <1>5
  <2>2. pt' = [pt EXCEPT ![p] = new]
    BY <1>1
  <2> HIDE DEF new
  <2> QED
    BY <1>5, <2>1, <2>2
<1>8. \A q \in MemProcs, w \in Mem!Pages : Mem!Held[q][w] = pt[q][w] /\ Mem!Held'[q][w] = pt'[q][w]
  BY <1>3, HeldFacts
<1>9. Mem!Own(Mem!Held', shm.frames, used')
  <2>1. \A q \in MemProcs, w \in Mem!Pages : Mem!Held'[q][w] = Mem!Held[q][w] \/ Mem!Held'[q][w] = 0
    BY <1>7, <1>8
  <2>2. \A f : f \in used' <=>
          f \in used /\ ~\E q \in MemProcs, w \in Mem!Pages : Mem!Held[q][w] = f /\ Mem!Held'[q][w] = 0
    <3>1. ASSUME NEW f \in used, f \notin Mem!Freed(p, "file", N), NEW q \in MemProcs, NEW w \in Mem!Pages,
                 Mem!Held[q][w] = f, Mem!Held'[q][w] = 0
          PROVE  FALSE
      <4>1. f # 0
        BY <1>5
      <4>2. q = p /\ w \in N /\ pt[p][w] = f
        BY <1>7, <1>8, <3>1, <4>1
      <4> QED
        BY <1>6, <3>1, <4>1, <4>2
    <3>2. ASSUME NEW f \in Mem!Freed(p, "file", N)
          PROVE  \E q \in MemProcs, w \in Mem!Pages : Mem!Held[q][w] = f /\ Mem!Held'[q][w] = 0
      <4>1. PICK w \in N : pt[p][w] = f
        BY <1>6, <3>2
      <4>2. w \in Mem!Pages /\ Mem!Held'[p][w] = 0 /\ Mem!Held[p][w] = f
        BY <1>4, <1>7, <1>8, <4>1
      <4> QED
        BY <4>2
    <3> QED
      BY <1>1, <3>1, <3>2
  <2> QED
    BY <1>5, <2>1, <2>2, OwnShrinks
<1>10. Mem!HeapIsDense'
  <2>1. Mem!HeapIsDense
    BY DEF Mem!MemoryInv
  <2>2. 0 \in 0..(MmapStart - 1) /\ \A w \in 0..(MmapStart - 1) : \A x \in 0..w : x \in 0..(MmapStart - 1)
    BY MemBasics
  <2>3. \A w \in 0..(MmapStart - 1) : w \in Mem!Pages /\ w \notin N
    BY <1>4, MemBasics
  <2>4. \A q \in MemProcs : \A w \in 0..(MmapStart - 1) : pt'[q][w] = pt[q][w]
    BY <1>7, <2>3
  <2> QED
    BY <1>1, <2>1, <2>2, <2>4 DEF Mem!HeapIsDense
<1>11. used' \subseteq Mem!AllFrames
  BY <1>1, <1>5
<1>12. \A q \in MemProcs : mem_state[q] # "live" => pt'[q] = pt[q]
  BY <1>1, <1>7
<1> QED
  BY <1>1, <1>2, <1>7, <1>9, <1>10, <1>11, <1>12, PagesKeep

(***************************************************************************)
(* exec, exit, waitpid                                                     *)
(***************************************************************************)

(* What a process gives back is what its pages hold.                       *)
LEMMA GivenBackFacts ==
  ASSUME Mem!MemoryInv, NEW p \in MemProcs
  PROVE  /\ \A w \in Mem!BlockPages(p) : w \in Mem!Pages /\ w >= MmapStart
         /\ \A f : f \in Mem!GivenBack(p) <=> f # 0 /\ \E w \in Mem!BlockPages(p) : Mem!Held[p][w] = f
         /\ \A w \in Mem!Pages : w \notin Mem!BlockPages(p) => Mem!Held[p][w] = pt[p][w]
         /\ \A f : f \in Mem!Released(p)
              <=> f # 0 /\ \E w \in Mem!Pages : w \notin Mem!BlockPages(p) /\ pt[p][w] = f
<1>1. \A w : w \in Mem!BlockPages(p) <=> \E i \in DOMAIN mem_blocks[p] : w \in Mem!Span(mem_blocks[p][i])
  BY SpanFacts
<1>2. \A w \in Mem!BlockPages(p) : w \in Mem!Pages /\ w >= MmapStart
  BY <1>1, BlockFacts
<1>3. \A w \in Mem!Pages : w \notin Mem!BlockPages(p) => Mem!Held[p][w] = pt[p][w]
  <2> SUFFICES ASSUME NEW w \in Mem!Pages, w \notin Mem!BlockPages(p)
               PROVE  Mem!Held[p][w] = pt[p][w]
    OBVIOUS
  <2>1. w \notin Mem!Spans(p, "shm")
    BY <1>1, SpansHas
  <2> QED
    BY <2>1, HeldFacts
<1>4. ASSUME NEW w \in Mem!BlockPages(p)
      PROVE  \A f : f \in Mem!Freed(p, mem_blocks[p][Mem!Max(Mem!Around(p, w))].kind, {w})
                      <=> f # 0 /\ Mem!Held[p][w] = f
  <2> DEFINE b == mem_blocks[p][Mem!Max(Mem!Around(p, w))]
  <2>1. Mem!InBlock(p, w)
    BY <1>1 DEF Mem!InBlock, Mem!Around
  <2>2. Mem!Max(Mem!Around(p, w)) \in DOMAIN mem_blocks[p] /\ w \in Mem!Span(b)
    BY <2>1, AroundFacts
  <2>3. w \in Mem!Spans(p, "shm") <=> b.kind = "shm"
    BY <2>2, SharedFacts
  <2>4. w \in Mem!Pages
    BY <1>2
  <2> HIDE DEF b
  <2>5. Mem!Held[p][w] = IF b.kind = "shm" THEN 0 ELSE pt[p][w]
    BY <2>3, <2>4, HeldFacts
  <2>6. \A f : f \in Mem!Freed(p, b.kind, {w}) <=> b.kind # "shm" /\ f # 0 /\ pt[p][w] = f
    BY DEF Mem!Freed
  <2>7. \A f : f \in Mem!Freed(p, b.kind, {w}) <=> f # 0 /\ Mem!Held[p][w] = f
    BY <2>5, <2>6
  <2> QED
    BY <2>7 DEF b
<1>5. \A f : f \in Mem!GivenBack(p) <=> f # 0 /\ \E w \in Mem!BlockPages(p) : Mem!Held[p][w] = f
  <2>1. \A f : f \in Mem!GivenBack(p) <=> \E w \in Mem!BlockPages(p) :
          f \in Mem!Freed(p, mem_blocks[p][Mem!Max(Mem!Around(p, w))].kind, {w})
    BY Zenon DEF Mem!GivenBack
  <2>2. \A f : (\E w \in Mem!BlockPages(p) :
                   f \in Mem!Freed(p, mem_blocks[p][Mem!Max(Mem!Around(p, w))].kind, {w}))
              <=> \E w \in Mem!BlockPages(p) : f # 0 /\ Mem!Held[p][w] = f
    BY <1>4, Zenon
  <2> QED
    BY <2>1, <2>2, Zenon
<1>6. \A f : f \in Mem!Released(p) <=> f # 0 /\ \E w \in Mem!Pages : w \notin Mem!BlockPages(p) /\ pt[p][w] = f
  BY DEF Mem!Released, Mem!Present
<1> QED
  BY <1>2, <1>3, <1>5, <1>6

(***************************************************************************)
(* The shared memory object                                                *)
(***************************************************************************)
LEMMA SizedIn ==
  ASSUME NEW ns
  PROVE  /\ \A n \in ShmNodes, k \in 1..MaxShm : <<n, k>> \in Mem!Sized(ns) <=> k <= ns[n].size
         /\ Mem!Sized(ns) \subseteq ShmNodes \X (1..MaxShm)
         /\ IsFiniteSet(Mem!Sized(ns)) /\ Cardinality(Mem!Sized(ns)) \in Nat
<1>1. /\ \A n \in ShmNodes, k \in 1..MaxShm : <<n, k>> \in Mem!Sized(ns) <=> k <= ns[n].size
      /\ Mem!Sized(ns) \subseteq ShmNodes \X (1..MaxShm)
  BY DEF Mem!Sized
<1>2. IsFiniteSet(1..MaxShm) /\ IsFiniteSet(ShmNodes)
  BY MemBasics, FS_Interval
<1>3. IsFiniteSet(ShmNodes \X (1..MaxShm))
  BY <1>2, FS_Product
<1>4. IsFiniteSet(Mem!Sized(ns))
  BY <1>1, <1>3, FS_Subset
<1> QED
  BY <1>1, <1>4, FS_CardinalityType

LEMMA ShmFacts ==
  ASSUME Mem!MemoryInv
  PROVE  /\ mem_fds \in [MemProcs -> SUBSET ShmNodes]
         /\ mem_nodes \in [ShmNodes -> [links : Nat, size : 0..MaxShm]]
         /\ shm.frames \in Seq(Mem!AllFrames) /\ shm.links \in Nat /\ Len(shm.frames) \in Nat
         /\ shm = [frames |-> shm.frames, links |-> shm.links]
         /\ \A n \in ShmNodes : /\ mem_nodes[n].links \in Nat /\ mem_nodes[n].size \in 0..MaxShm
                                /\ IsFiniteSet(Mem!Openers(n))
                                /\ mem_nodes[n].links = Cardinality(Mem!Openers(n))
                                /\ mem_nodes[n].links = 0 => mem_nodes[n].size = 0
         /\ \A n : \A q : q \in Mem!Openers(n) <=> q \in MemProcs /\ n \in mem_fds[q]
         /\ Mem!Linked \subseteq ShmNodes /\ IsFiniteSet(Mem!Linked)
         /\ \A n \in ShmNodes : n \in Mem!Linked <=> mem_nodes[n].links > 0
         /\ shm.links = Cardinality(Mem!Linked)
         /\ Cardinality(Mem!Sized(mem_nodes)) <= Len(shm.frames)
<1>1. /\ mem_fds \in [MemProcs -> SUBSET ShmNodes]
      /\ mem_nodes \in [ShmNodes -> [links : Nat, size : 0..MaxShm]]
      /\ shm \in [frames : Seq(Mem!AllFrames), links : Nat]
  BY DEF Mem!MemoryInv, Mem!TypeOK
<1>2. /\ shm.frames \in Seq(Mem!AllFrames) /\ shm.links \in Nat
      /\ shm = [frames |-> shm.frames, links |-> shm.links]
  BY <1>1
<1>3. Len(shm.frames) \in Nat
  BY <1>2
<1>4. \A n \in ShmNodes : mem_nodes[n].links \in Nat /\ mem_nodes[n].size \in 0..MaxShm
  BY <1>1
<1>5. \A n : \A q : q \in Mem!Openers(n) <=> q \in MemProcs /\ n \in mem_fds[q]
  BY DEF Mem!Openers
<1>6. \A n : IsFiniteSet(Mem!Openers(n))
  <2> SUFFICES ASSUME NEW n
               PROVE  IsFiniteSet(Mem!Openers(n))
    OBVIOUS
  <2>1. Mem!Openers(n) \subseteq MemProcs
    BY <1>5
  <2> QED
    BY <2>1, MemBasics, FS_Subset
<1>7. /\ Mem!Linked \subseteq ShmNodes
      /\ \A n \in ShmNodes : n \in Mem!Linked <=> mem_nodes[n].links > 0
  BY DEF Mem!Linked
<1>8. IsFiniteSet(Mem!Linked)
  BY <1>7, MemBasics, FS_Subset
<1>9. Mem!ShmIsCounted
  BY DEF Mem!MemoryInv
<1>10. /\ \A n \in ShmNodes : mem_nodes[n].links = Cardinality(Mem!Openers(n))
       /\ \A n \in ShmNodes : mem_nodes[n].links = 0 => mem_nodes[n].size = 0
       /\ shm.links = Cardinality(Mem!Linked)
       /\ Cardinality(Mem!Sized(mem_nodes)) <= Len(shm.frames)
  BY <1>9, MemCounts DEF Mem!ShmIsCounted
<1> QED
  BY <1>1, <1>2, <1>3, <1>4, <1>5, <1>6, <1>7, <1>8, <1>10

LEMMA CountsPrime ==
  /\ \A n : Mem!Openers(n)' = {q \in MemProcs : n \in mem_fds'[q]}
  /\ Mem!Linked' = {n \in ShmNodes : mem_nodes'[n].links > 0}
  /\ Mem!Sized(mem_nodes)' = Mem!Sized(mem_nodes')
  /\ (/\ \A n \in ShmNodes : mem_nodes'[n].links = Cardinality(Mem!Openers(n)')
      /\ \A n \in ShmNodes : mem_nodes'[n].links = 0 => mem_nodes'[n].size = 0
      /\ shm'.links = Cardinality(Mem!Linked')
      /\ Cardinality(Mem!Sized(mem_nodes')) <= Len(shm'.frames))
     => Mem!ShmIsCounted'
<1>1. /\ \A n : Mem!Openers(n)' = {q \in MemProcs : n \in mem_fds'[q]}
      /\ Mem!Linked' = {n \in ShmNodes : mem_nodes'[n].links > 0}
  BY DEF Mem!Openers, Mem!Linked
<1>2. Mem!Sized(mem_nodes)' = Mem!Sized(mem_nodes')
  BY DEF Mem!Sized
<1>3. ASSUME /\ \A n \in ShmNodes : mem_nodes'[n].links = Cardinality(Mem!Openers(n)')
             /\ \A n \in ShmNodes : mem_nodes'[n].links = 0 => mem_nodes'[n].size = 0
             /\ shm'.links = Cardinality(Mem!Linked')
             /\ Cardinality(Mem!Sized(mem_nodes')) <= Len(shm'.frames)
      PROVE  Mem!ShmIsCounted'
  BY <1>2, <1>3, MemCounts DEF Mem!ShmIsCounted
<1> QED
  BY <1>1, <1>2, <1>3

LEMMA ClosedKeeps ==
  ASSUME Mem!MemoryInv, NEW p \in MemProcs, NEW ns, ns \subseteq mem_fds[p], Mem!Closed(ns),
         mem_fds' = [mem_fds EXCEPT ![p] = @ \ ns]
  PROVE  /\ Mem!ShmIsCounted'
         /\ mem_fds' \in [MemProcs -> SUBSET ShmNodes]
         /\ mem_nodes' \in [ShmNodes -> [links : Nat, size : 0..MaxShm]]
         /\ shm' \in [frames : Seq(Mem!AllFrames), links : Nat]
         /\ shm'.frames = IF Mem!Removed(ns) THEN << >> ELSE shm.frames
<1> DEFINE U == Mem!Unlinked(ns)
           L0 == Mem!Linked
<1>1. /\ ns \subseteq ShmNodes /\ mem_fds \in [MemProcs -> SUBSET ShmNodes]
      /\ mem_nodes \in [ShmNodes -> [links : Nat, size : 0..MaxShm]]
      /\ shm.frames \in Seq(Mem!AllFrames) /\ shm.links \in Nat /\ Len(shm.frames) \in Nat
      /\ shm = [frames |-> shm.frames, links |-> shm.links]
  BY ShmFacts
<1>2. \A n \in ShmNodes : /\ mem_nodes[n].links \in Nat /\ mem_nodes[n].size \in 0..MaxShm
                          /\ IsFiniteSet(Mem!Openers(n))
                          /\ mem_nodes[n].links = Cardinality(Mem!Openers(n))
                          /\ mem_nodes[n].links = 0 => mem_nodes[n].size = 0
  BY ShmFacts
<1>3. /\ U \subseteq ns /\ U \subseteq ShmNodes
      /\ \A n : n \in U <=> n \in ns /\ mem_nodes[n].links = 1
  BY <1>1 DEF Mem!Unlinked
<1>4. /\ L0 \subseteq ShmNodes /\ IsFiniteSet(L0)
      /\ \A n \in ShmNodes : n \in L0 <=> mem_nodes[n].links > 0
      /\ shm.links = Cardinality(L0) /\ Cardinality(Mem!Sized(mem_nodes)) <= Len(shm.frames)
  BY ShmFacts
<1>5. U \subseteq L0
  BY <1>2, <1>3, <1>4
<1> HIDE DEF L0
<1>6. /\ IsFiniteSet(U) /\ Cardinality(U) \in Nat /\ Cardinality(L0) \in Nat
      /\ Cardinality(L0) = Cardinality(U) => L0 = U
      /\ Cardinality(U) <= Cardinality(L0)
  <2> HIDE DEF U
  <2>1. IsFiniteSet(U) /\ (Cardinality(L0) = Cardinality(U) => L0 = U) /\ Cardinality(U) <= Cardinality(L0)
    BY <1>4, <1>5, FS_Subset
  <2> QED
    BY <1>4, <2>1, FS_CardinalityType
<1>7. Mem!Cardinality(U) = Cardinality(U)
  BY MemCounts
<1>8. /\ mem_nodes' = [n \in ShmNodes |-> IF n \in U THEN Mem!NoNode
                               ELSE IF n \in ns THEN [mem_nodes[n] EXCEPT !.links = @ - 1]
                               ELSE mem_nodes[n]]
      /\ shm' = IF Mem!Removed(ns) THEN Mem!NoShm ELSE [shm EXCEPT !.links = @ - Cardinality(U)]
      /\ Mem!Removed(ns) <=> U # {} /\ shm.links = Cardinality(U)
  BY <1>7 DEF Mem!Closed, Mem!Removed
<1> HIDE DEF U
<1>9. /\ \A n \in U : mem_nodes'[n].links = 0 /\ mem_nodes'[n].size = 0
      /\ \A n \in ns : n \notin U => mem_nodes'[n].links = mem_nodes[n].links - 1
                                    /\ mem_nodes'[n].size = mem_nodes[n].size
      /\ \A n \in ShmNodes : n \notin ns => mem_nodes'[n] = mem_nodes[n]
  <2>1. \A n \in U : mem_nodes'[n] = Mem!NoNode
    BY <1>3, <1>8
  <2>2. \A n \in ns : n \notin U => mem_nodes'[n] = [mem_nodes[n] EXCEPT !.links = @ - 1]
    BY <1>1, <1>8
  <2>3. \A n \in ns : mem_nodes[n] \in [links : Nat, size : 0..MaxShm]
    BY <1>1
  <2>4. \A n \in ShmNodes : n \notin ns => mem_nodes'[n] = mem_nodes[n]
    BY <1>3, <1>8
  <2>5. \A n \in U : mem_nodes'[n].links = 0 /\ mem_nodes'[n].size = 0
    BY <2>1 DEF Mem!NoNode
  <2>6. \A n \in ns : n \notin U => mem_nodes'[n].links = mem_nodes[n].links - 1
                                    /\ mem_nodes'[n].size = mem_nodes[n].size
    BY <2>2, <2>3
  <2> QED
    BY <2>4, <2>5, <2>6
<1>10. mem_fds' \in [MemProcs -> SUBSET ShmNodes]
       /\ (\A q \in MemProcs : q # p => mem_fds'[q] = mem_fds[q]) /\ mem_fds'[p] = mem_fds[p] \ ns
  BY <1>1
<1>11. \A n \in ns : mem_nodes[n].links > 0
  <2> SUFFICES ASSUME NEW n \in ns
               PROVE  mem_nodes[n].links > 0
    OBVIOUS
  <2>1. n \in ShmNodes /\ p \in Mem!Openers(n)
    BY <1>1 DEF Mem!Openers
  <2>2. Cardinality(Mem!Openers(n)) # 0
    BY <1>2, <2>1, FS_EmptySet
  <2> QED
    BY <1>2, <2>1, <2>2
<1>12. \A n \in ShmNodes :
         /\ mem_nodes'[n].links = IF n \in ns THEN mem_nodes[n].links - 1 ELSE mem_nodes[n].links
         /\ mem_nodes'[n].links \in Nat /\ mem_nodes'[n].size \in 0..MaxShm
         /\ mem_nodes'[n].size <= mem_nodes[n].size
         /\ mem_nodes'[n].links = 0 => mem_nodes'[n].size = 0
  <2> SUFFICES ASSUME NEW n \in ShmNodes
               PROVE  /\ mem_nodes'[n].links = IF n \in ns THEN mem_nodes[n].links - 1 ELSE mem_nodes[n].links
                      /\ mem_nodes'[n].links \in Nat /\ mem_nodes'[n].size \in 0..MaxShm
                      /\ mem_nodes'[n].size <= mem_nodes[n].size
                      /\ mem_nodes'[n].links = 0 => mem_nodes'[n].size = 0
    OBVIOUS
  <2>1. MaxShm \in Nat /\ 0 \in 0..MaxShm
    BY MemBasics
  <2>2. mem_nodes[n].links \in Nat /\ mem_nodes[n].size \in 0..MaxShm
        /\ (mem_nodes[n].links = 0 => mem_nodes[n].size = 0)
    BY <1>2
  <2>3. CASE n \in U
    <3>1. n \in ns /\ mem_nodes[n].links = 1
      BY <1>3, <2>3
    <3> QED
      BY <1>9, <2>1, <2>2, <2>3, <3>1
  <2>4. CASE n \in ns /\ n \notin U
    <3>1. mem_nodes[n].links # 1 /\ mem_nodes[n].links > 0
      BY <1>3, <1>11, <2>4
    <3> QED
      BY <1>9, <2>1, <2>2, <2>4, <3>1
  <2>5. CASE n \notin ns
    <3>1. mem_nodes'[n] = mem_nodes[n]
      BY <1>9, <2>5
    <3> QED
      BY <2>1, <2>2, <2>5, <3>1
  <2> QED
    BY <1>3, <2>3, <2>4, <2>5
<1>13. mem_nodes' \in [ShmNodes -> [links : Nat, size : 0..MaxShm]]
  <2>1. \A n \in ShmNodes : mem_nodes'[n] \in [links : Nat, size : 0..MaxShm]
    <3> SUFFICES ASSUME NEW n \in ShmNodes
                 PROVE  mem_nodes'[n] \in [links : Nat, size : 0..MaxShm]
      OBVIOUS
    <3>1. mem_nodes'[n] = [links |-> mem_nodes'[n].links, size |-> mem_nodes'[n].size]
      <4>1. mem_nodes[n] \in [links : Nat, size : 0..MaxShm]
        BY <1>1
      <4> QED
        BY <1>8, <4>1 DEF Mem!NoNode
    <3> QED
      BY <1>12, <3>1
  <2> QED
    BY <1>8, <2>1
<1>14. \A n \in ShmNodes : mem_nodes'[n].links = Cardinality(Mem!Openers(n)')
  <2> SUFFICES ASSUME NEW n \in ShmNodes
               PROVE  mem_nodes'[n].links = Cardinality(Mem!Openers(n)')
    OBVIOUS
  <2>1. Mem!Openers(n)' = {q \in MemProcs : n \in mem_fds'[q]}
    BY CountsPrime
  <2>2. Mem!Openers(n) = {q \in MemProcs : n \in mem_fds[q]}
    BY DEF Mem!Openers
  <2>3. CASE n \in ns
    <3>1. Mem!Openers(n)' = Mem!Openers(n) \ {p} /\ p \in Mem!Openers(n)
      BY <1>10, <2>1, <2>2, <2>3
    <3>2. Cardinality(Mem!Openers(n) \ {p}) = Cardinality(Mem!Openers(n)) - 1
      BY <1>2, <3>1, FS_RemoveElement
    <3> QED
      BY <1>2, <1>12, <2>3, <3>1, <3>2
  <2>4. CASE n \notin ns
    <3>1. Mem!Openers(n)' = Mem!Openers(n)
      BY <1>10, <2>1, <2>2, <2>4
    <3> QED
      BY <1>2, <1>12, <2>4, <3>1
  <2> QED
    BY <2>3, <2>4
<1>15. Mem!Linked' = L0 \ U
  <2>1. \A n \in ShmNodes : mem_nodes'[n].links > 0 <=> n \in L0 /\ n \notin U
    <3> SUFFICES ASSUME NEW n \in ShmNodes
                 PROVE  mem_nodes'[n].links > 0 <=> n \in L0 /\ n \notin U
      OBVIOUS
    <3>1. mem_nodes[n].links \in Nat /\ (n \in L0 <=> mem_nodes[n].links > 0)
          /\ (n \in U <=> n \in ns /\ mem_nodes[n].links = 1)
      BY <1>2, <1>3, <1>4
    <3> QED
      BY <1>11, <1>12, <3>1
  <2> QED
    BY <1>4, <2>1, CountsPrime
<1>16. /\ IsFiniteSet(Mem!Sized(mem_nodes)) /\ IsFiniteSet(Mem!Sized(mem_nodes'))
       /\ Cardinality(Mem!Sized(mem_nodes')) \in Nat
       /\ Cardinality(Mem!Sized(mem_nodes)) \in Nat
       /\ Cardinality(Mem!Sized(mem_nodes')) <= Cardinality(Mem!Sized(mem_nodes))
  <2>1. \A nk \in ShmNodes \X (1..MaxShm) : nk[2] <= mem_nodes'[nk[1]].size => nk[2] <= mem_nodes[nk[1]].size
    <3>1. ASSUME NEW n \in ShmNodes, NEW k \in 1..MaxShm, k <= mem_nodes'[n].size
          PROVE  k <= mem_nodes[n].size
      <4>1. mem_nodes'[n].size \in Nat /\ mem_nodes[n].size \in Nat /\ MaxShm \in Nat
        BY <1>2, <1>12, MemBasics
      <4> QED
        BY <1>12, <3>1, <4>1
    <3> QED
      BY <3>1
  <2>2. Mem!Sized(mem_nodes') \subseteq Mem!Sized(mem_nodes)
    BY <2>1 DEF Mem!Sized
  <2>3. IsFiniteSet(Mem!Sized(mem_nodes)) /\ IsFiniteSet(Mem!Sized(mem_nodes'))
        /\ Cardinality(Mem!Sized(mem_nodes')) \in Nat /\ Cardinality(Mem!Sized(mem_nodes)) \in Nat
    BY SizedIn
  <2>4. Cardinality(Mem!Sized(mem_nodes')) <= Cardinality(Mem!Sized(mem_nodes))
    BY <2>2, <2>3, FS_Subset
  <2> QED
    BY <2>3, <2>4
<1>17. CASE Mem!Removed(ns)
  <2>1. L0 = U /\ shm' = Mem!NoShm
    BY <1>4, <1>6, <1>8, <1>17
  <2>2. shm'.frames = << >> /\ shm'.links = 0 /\ shm' \in [frames : Seq(Mem!AllFrames), links : Nat]
    BY <2>1 DEF Mem!NoShm
  <2>3. Cardinality(Mem!Linked') = 0
    <3>1. Mem!Linked' = {}
      BY <1>15, <2>1
    <3> QED
      BY <3>1, FS_EmptySet
  <2>4. \A n \in ShmNodes : mem_nodes'[n].size = 0
    <3>1. \A n \in ShmNodes : mem_nodes'[n].links \in Nat /\ ~(mem_nodes'[n].links > 0)
      BY <1>12, <1>15, <2>1, CountsPrime
    <3>2. \A n \in ShmNodes : mem_nodes'[n].links = 0
      BY <3>1
    <3> QED
      BY <1>12, <3>2
  <2>5. Mem!Sized(mem_nodes') = {}
    <3>1. \A nk \in ShmNodes \X (1..MaxShm) : nk[1] \in ShmNodes /\ nk[2] \in 1..MaxShm
      OBVIOUS
    <3>2. \A k \in 1..MaxShm : ~(k <= 0)
      BY MemBasics
    <3>3. \A nk \in ShmNodes \X (1..MaxShm) : ~(nk[2] <= mem_nodes'[nk[1]].size)
      BY <2>4, <3>1, <3>2, Zenon
    <3> QED
      BY <3>3 DEF Mem!Sized
  <2>6. Cardinality(Mem!Sized(mem_nodes')) <= Len(shm'.frames)
    <3>1. Cardinality(Mem!Sized(mem_nodes')) = 0
      BY <2>5, FS_EmptySet
    <3>2. Len(shm'.frames) = 0
      BY <2>2
    <3> QED
      BY <3>1, <3>2
  <2>7. Mem!ShmIsCounted'
    BY <1>12, <1>14, <2>2, <2>3, <2>6, CountsPrime
  <2> QED
    BY <1>10, <1>13, <1>17, <2>2, <2>7
<1>18. CASE ~Mem!Removed(ns)
  <2>1. shm' = [shm EXCEPT !.links = @ - Cardinality(U)]
    BY <1>8, <1>18
  <2>2. shm'.frames = shm.frames /\ shm'.links = Cardinality(L0) - Cardinality(U)
        /\ shm' \in [frames : Seq(Mem!AllFrames), links : Nat]
    <3>1. Cardinality(L0) - Cardinality(U) \in Nat
      BY <1>6
    <3>2. shm.frames \in Seq(Mem!AllFrames) /\ shm.links = Cardinality(L0)
          /\ shm = [frames |-> shm.frames, links |-> shm.links]
      BY <1>1, <1>4
    <3>3. shm' = [frames |-> shm.frames, links |-> Cardinality(L0) - Cardinality(U)]
      BY <2>1, <3>2
    <3> QED
      BY <3>1, <3>2, <3>3
  <2>3. Cardinality(L0 \ U) = Cardinality(L0) - Cardinality(U)
    <3>1. Cardinality(L0 \ U) = Cardinality(L0) - Cardinality(L0 \cap U)
      BY <1>4, FS_Difference
    <3>2. L0 \cap U = U
      BY <1>5
    <3> QED
      BY <3>1, <3>2
  <2>4. shm'.links = Cardinality(Mem!Linked')
    BY <1>15, <2>2, <2>3
  <2>5. Cardinality(Mem!Sized(mem_nodes')) <= Len(shm'.frames)
    BY <1>1, <1>4, <1>16, <2>2
  <2>6. Mem!ShmIsCounted'
    BY <1>12, <1>14, <2>4, <2>5, CountsPrime
  <2> QED
    BY <1>10, <1>13, <1>18, <2>2, <2>6
<1> QED
  BY <1>17, <1>18

(* A step that changes the object and leaves the address spaces alone.     *)
LEMMA ObjectKeeps ==
  ASSUME Mem!MemoryInv, UNCHANGED <<kinds, mem_state, pt, mem_blocks, mem_start>>,
         \A q \in MemProcs : mem_state[q] # "live" => mem_fds'[q] = {},
         Mem!ShmIsCounted', mem_fds' \in [MemProcs -> SUBSET ShmNodes],
         mem_nodes' \in [ShmNodes -> [links : Nat, size : 0..MaxShm]],
         shm' \in [frames : Seq(Mem!AllFrames), links : Nat],
         used' \subseteq Mem!AllFrames, Mem!Own(Mem!Held, shm'.frames, used')
  PROVE  Mem!MemoryInv'
<1>1. /\ Mem!MappingsFit' /\ Mem!EndedIsClean' /\ Mem!HeapIsDense'
      /\ ("file" \notin kinds => Mem!MappingsArePresent /\ Mem!MappingsAreDisjoint)'
      /\ Mem!Held' = Mem!Held
      /\ kinds' \in Uses
      /\ mem_state' \in [MemProcs -> {"none", "live", "finished"}]
      /\ pt' \in [MemProcs -> [Mem!Pages -> 0..NFrames]]
      /\ mem_blocks' \in [MemProcs -> Seq(Mem!Block)]
      /\ mem_start' \in [MemProcs -> Nat]
  BY SpaceKept
<1>2. Mem!TypeOK'
  BY <1>1 DEF Mem!TypeOK
<1>3. Mem!Own(Mem!Held, shm.frames, used)'
  BY <1>1
<1> QED
  BY <1>1, <1>2, <1>3 DEF Mem!MemoryInv

LEMMA OwnEmpties ==
  ASSUME NEW h, NEW fr \in Seq(Mem!AllFrames), NEW u, Mem!Own(h, fr, u)
  PROVE  Mem!Own(h, << >>, u \ Mem!Range(fr))
<1> DEFINE n == Len(fr)
<1>1. n \in Nat /\ n \in 0..Len(fr) /\ DOMAIN fr = 1..n
  OBVIOUS
<1>2. SubSeq(fr, n + 1, n) = << >>
  OBVIOUS
<1>3. Mem!Range(fr) = {fr[i] : i \in 1..n}
  BY <1>1 DEF Mem!Range
<1>4. Mem!Own(h, SubSeq(fr, n + 1, n), u \ {fr[i] : i \in 1..n})
  BY <1>1, OwnDrops
<1> HIDE DEF n
<1> QED
  BY <1>2, <1>3, <1>4

LEMMA ShmCloseKeeps ==
  ASSUME Mem!MemoryInv, NEW p \in MemProcs, NEW n, Mem!shm_close(p, n), UNCHANGED kinds
  PROVE  Mem!MemoryInv'
<1>1. /\ mem_state[p] = "live" /\ {n} \subseteq mem_fds[p] /\ Mem!Closed({n})
      /\ mem_fds' = [mem_fds EXCEPT ![p] = @ \ {n}]
      /\ used' = IF Mem!Removed({n}) THEN used \ Mem!Range(shm.frames) ELSE used
      /\ UNCHANGED <<kinds, mem_state, pt, mem_blocks, mem_start>>
  BY DEF Mem!shm_close
<1>2. /\ Mem!ShmIsCounted'
      /\ mem_fds' \in [MemProcs -> SUBSET ShmNodes]
      /\ mem_nodes' \in [ShmNodes -> [links : Nat, size : 0..MaxShm]]
      /\ shm' \in [frames : Seq(Mem!AllFrames), links : Nat]
      /\ shm'.frames = IF Mem!Removed({n}) THEN << >> ELSE shm.frames
  BY <1>1, ClosedKeeps
<1>3. /\ used \subseteq Mem!AllFrames /\ shm.frames \in Seq(Mem!AllFrames)
      /\ Mem!Own(Mem!Held, shm.frames, used)
  BY DEF Mem!MemoryInv, Mem!TypeOK
<1>4. used' \subseteq Mem!AllFrames
  BY <1>1, <1>3
<1>5. Mem!Own(Mem!Held, shm'.frames, used')
  <2>1. Mem!Own(Mem!Held, << >>, used \ Mem!Range(shm.frames))
    BY <1>3, OwnEmpties
  <2> QED
    BY <1>1, <1>2, <1>3, <2>1
<1>6. \A q \in MemProcs : mem_state[q] # "live" => mem_fds'[q] = {}
  <2>1. mem_fds \in [MemProcs -> SUBSET ShmNodes]
    BY ShmFacts
  <2> QED
    BY <1>1, <2>1 DEF Mem!MemoryInv, Mem!EndedIsClean
<1> QED
  BY <1>1, <1>2, <1>4, <1>5, <1>6, ObjectKeeps

LEMMA ShmOpenKeeps ==
  ASSUME Mem!MemoryInv, NEW p \in MemProcs, NEW n \in ShmNodes, Mem!shm_open(p, n), UNCHANGED kinds
  PROVE  Mem!MemoryInv'
<1>1. /\ mem_state[p] = "live" /\ mem_nodes[n].links = 0
      /\ mem_nodes' = [mem_nodes EXCEPT ![n] = [links |-> 1, size |-> 0]]
      /\ mem_fds' = [mem_fds EXCEPT ![p] = @ \cup {n}]
      /\ shm' = [shm EXCEPT !.links = @ + 1]
      /\ UNCHANGED <<kinds, mem_state, used, pt, mem_blocks, mem_start>>
  BY DEF Mem!shm_open
<1>2. /\ mem_fds \in [MemProcs -> SUBSET ShmNodes]
      /\ mem_nodes \in [ShmNodes -> [links : Nat, size : 0..MaxShm]]
      /\ shm.frames \in Seq(Mem!AllFrames) /\ shm.links \in Nat
      /\ shm = [frames |-> shm.frames, links |-> shm.links]
  BY ShmFacts
<1>3. shm'.frames = shm.frames /\ shm'.links = shm.links + 1 /\ shm' \in [frames : Seq(Mem!AllFrames), links : Nat]
  <2>1. shm' = [frames |-> shm.frames, links |-> shm.links + 1]
    BY <1>1, <1>2
  <2>2. shm.links + 1 \in Nat
    BY <1>2
  <2> QED
    BY <1>2, <2>1, <2>2
<1>4. /\ mem_nodes' \in [ShmNodes -> [links : Nat, size : 0..MaxShm]]
      /\ mem_nodes'[n].links = 1 /\ mem_nodes'[n].size = 0
      /\ \A m \in ShmNodes : m # n => mem_nodes'[m] = mem_nodes[m]
  BY <1>1, <1>2, MemBasics
<1>5. /\ mem_fds' \in [MemProcs -> SUBSET ShmNodes]
      /\ mem_fds'[p] = mem_fds[p] \cup {n}
      /\ \A q \in MemProcs : q # p => mem_fds'[q] = mem_fds[q]
  BY <1>1, <1>2
<1>6. \A m \in ShmNodes : /\ IsFiniteSet(Mem!Openers(m))
                          /\ mem_nodes[m].links = Cardinality(Mem!Openers(m))
                          /\ mem_nodes[m].links = 0 => mem_nodes[m].size = 0
  BY ShmFacts
<1>7. Mem!Openers(n) = {}
  BY <1>1, <1>6, FS_EmptySet
<1>8. \A m \in ShmNodes : mem_nodes'[m].links = Cardinality(Mem!Openers(m)')
  <2> SUFFICES ASSUME NEW m \in ShmNodes
               PROVE  mem_nodes'[m].links = Cardinality(Mem!Openers(m)')
    OBVIOUS
  <2>1. Mem!Openers(m)' = {q \in MemProcs : m \in mem_fds'[q]} /\ Mem!Openers(m) = {q \in MemProcs : m \in mem_fds[q]}
    BY CountsPrime DEF Mem!Openers
  <2>2. CASE m = n
    <3>1. Mem!Openers(m)' = {p}
      BY <1>5, <1>7, <2>1, <2>2
    <3> QED
      BY <1>4, <2>2, <3>1, FS_Singleton
  <2>3. CASE m # n
    <3>1. Mem!Openers(m)' = Mem!Openers(m)
      BY <1>5, <2>1, <2>3
    <3> QED
      BY <1>4, <1>6, <2>3, <3>1
  <2> QED
    BY <2>2, <2>3
<1>9. shm'.links = Cardinality(Mem!Linked')
  <2>1. /\ Mem!Linked \subseteq ShmNodes /\ IsFiniteSet(Mem!Linked)
        /\ \A m \in ShmNodes : m \in Mem!Linked <=> mem_nodes[m].links > 0
        /\ shm.links = Cardinality(Mem!Linked)
    BY ShmFacts
  <2>2. n \notin Mem!Linked
    BY <1>1, <2>1
  <2>3. Mem!Linked' = Mem!Linked \cup {n}
    <3>1. \A m \in ShmNodes : mem_nodes'[m].links > 0 <=> m \in Mem!Linked \/ m = n
      BY <1>4, <2>1
    <3> QED
      BY <2>1, <3>1, CountsPrime
  <2>4. Cardinality(Mem!Linked \cup {n}) = Cardinality(Mem!Linked) + 1
    BY <2>1, <2>2, FS_AddElement
  <2> QED
    BY <1>3, <2>1, <2>3, <2>4
<1>10. Cardinality(Mem!Sized(mem_nodes')) <= Len(shm'.frames)
  <2>1. \A m \in ShmNodes : mem_nodes'[m].size = mem_nodes[m].size
    BY <1>1, <1>4, <1>6
  <2>2. Mem!Sized(mem_nodes') = Mem!Sized(mem_nodes)
    BY <2>1 DEF Mem!Sized
  <2>3. Cardinality(Mem!Sized(mem_nodes)) <= Len(shm.frames)
    BY ShmFacts
  <2> QED
    BY <1>3, <2>2, <2>3
<1>11. \A m \in ShmNodes : mem_nodes'[m].links = 0 => mem_nodes'[m].size = 0
  BY <1>4, <1>6
<1>12. Mem!ShmIsCounted'
  BY <1>8, <1>9, <1>10, <1>11, CountsPrime
<1>13. \A q \in MemProcs : mem_state[q] # "live" => mem_fds'[q] = {}
  BY <1>1, <1>5 DEF Mem!MemoryInv, Mem!EndedIsClean
<1>14. used' \subseteq Mem!AllFrames /\ Mem!Own(Mem!Held, shm'.frames, used')
  BY <1>1, <1>3 DEF Mem!MemoryInv, Mem!TypeOK
<1> QED
  BY <1>1, <1>3, <1>4, <1>5, <1>12, <1>13, <1>14, ObjectKeeps

LEMMA SizedGrows ==
  ASSUME NEW ns, NEW ms, NEW n \in ShmNodes, NEW a \in 0..MaxShm, NEW b \in 0..MaxShm, a <= b,
         ns[n].size = a, ms[n].size = b, \A m \in ShmNodes : m # n => ms[m].size = ns[m].size
  PROVE  Cardinality(Mem!Sized(ms)) = Cardinality(Mem!Sized(ns)) + (b - a)
<1> DEFINE X == {n} \X ((a + 1)..b)
           A == Mem!Sized(ns)
           B == Mem!Sized(ms)
<1>1. MaxShm \in Nat /\ a \in Nat /\ b \in Nat /\ b <= MaxShm
  BY MemBasics
<1>2. IsFiniteSet(A) /\ Cardinality(A) \in Nat /\ IsFiniteSet(B)
  BY SizedIn
<1>3. IsFiniteSet(X) /\ Cardinality(X) = b - a
  <2>1. IsFiniteSet((a + 1)..b) /\ Cardinality((a + 1)..b) = b - a
    <3> DEFINE c == a + 1
    <3>1. c \in Int /\ b \in Int
      BY <1>1
    <3> HIDE DEF c
    <3>2. IsFiniteSet(c..b) /\ Cardinality(c..b) = IF c > b THEN 0 ELSE b - c + 1
      BY <3>1, FS_Interval
    <3>3. IsFiniteSet((a + 1)..b) /\ Cardinality((a + 1)..b) = IF a + 1 > b THEN 0 ELSE b - (a + 1) + 1
      BY <3>2 DEF c
    <3> QED
      BY <1>1, <3>3
  <2>2. IsFiniteSet({n}) /\ Cardinality({n}) = 1
    BY FS_Singleton
  <2>3. IsFiniteSet(X) /\ Cardinality(X) = Cardinality({n}) * Cardinality((a + 1)..b)
    BY <2>1, <2>2, FS_Product
  <2> HIDE DEF X
  <2> QED
    BY <1>1, <2>1, <2>2, <2>3
<1>4. \A m \in ShmNodes, k \in 1..MaxShm : <<m, k>> \in B <=> <<m, k>> \in A \/ <<m, k>> \in X
  <2> SUFFICES ASSUME NEW m \in ShmNodes, NEW k \in 1..MaxShm
               PROVE  <<m, k>> \in B <=> <<m, k>> \in A \/ <<m, k>> \in X
    OBVIOUS
  <2>1. (<<m, k>> \in B <=> k <= ms[m].size) /\ (<<m, k>> \in A <=> k <= ns[m].size)
    BY SizedIn
  <2>2. <<m, k>> \in X <=> m = n /\ k \in (a + 1)..b
    OBVIOUS
  <2> HIDE DEF A, B, X
  <2> QED
    BY <1>1, <2>1, <2>2
<1>5. \A m \in ShmNodes, k \in 1..MaxShm : <<m, k>> \notin A \cap X
  <2> SUFFICES ASSUME NEW m \in ShmNodes, NEW k \in 1..MaxShm, <<m, k>> \in A, <<m, k>> \in X
               PROVE  FALSE
    OBVIOUS
  <2>1. k <= ns[m].size
    BY SizedIn
  <2>2. m = n /\ k \in (a + 1)..b
    OBVIOUS
  <2> HIDE DEF A, X
  <2> QED
    BY <1>1, <2>1, <2>2
<1>6. A \subseteq ShmNodes \X (1..MaxShm) /\ B \subseteq ShmNodes \X (1..MaxShm) /\ X \subseteq ShmNodes \X (1..MaxShm)
  <2>1. A \subseteq ShmNodes \X (1..MaxShm) /\ B \subseteq ShmNodes \X (1..MaxShm)
    BY SizedIn
  <2>2. (a + 1)..b \subseteq 1..MaxShm
    BY <1>1
  <2> QED
    BY <2>1, <2>2
<1>7. \A nk \in ShmNodes \X (1..MaxShm) : \E m \in ShmNodes, k \in 1..MaxShm : nk = <<m, k>>
  OBVIOUS
<1> HIDE DEF A, B, X
<1>8. B = A \cup X
  <2>1. \A nk \in ShmNodes \X (1..MaxShm) : nk \in B <=> nk \in A \/ nk \in X
    BY <1>4, <1>7
  <2> QED
    BY <1>6, <2>1
<1>9. A \cap X = {}
  <2>1. \A nk \in ShmNodes \X (1..MaxShm) : ~(nk \in A /\ nk \in X)
    BY <1>5, <1>7
  <2> QED
    BY <1>6, <2>1
<1>10. Cardinality(A \cup X) = Cardinality(A) + Cardinality(X) - Cardinality(A \cap X)
  BY <1>2, <1>3, FS_Union
<1>11. Cardinality(A \cap X) = 0
  BY <1>9, FS_EmptySet
<1>12. Cardinality(B) = Cardinality(A) + (b - a)
  BY <1>1, <1>2, <1>3, <1>8, <1>10, <1>11
<1> QED
  BY <1>12 DEF A, B

LEMMA TruncateKeeps ==
  ASSUME Mem!MemoryInv, NEW p \in MemProcs, NEW n \in ShmNodes, NEW size \in 0..MaxShm,
         Mem!shm_truncate(p, n, size), UNCHANGED kinds
  PROVE  Mem!MemoryInv'
<1> DEFINE old == mem_nodes[n].size
           diff == size - old
           fr == shm.frames
<1>1. /\ mem_state[p] = "live" /\ n \in mem_fds[p] /\ diff # 0
      /\ mem_nodes' = [mem_nodes EXCEPT ![n].size = size]
      /\ UNCHANGED <<kinds, mem_state, pt, mem_blocks, mem_start, mem_fds>>
  BY DEF Mem!shm_truncate
<1>2. \/ /\ diff > 0 /\ Mem!HasFree(diff)
         /\ shm' = [shm EXCEPT !.frames = @ \o Mem!Lowest(diff)]
         /\ used' = used \cup Mem!Range(Mem!Lowest(diff))
      \/ /\ diff < 0
         /\ shm' = [shm EXCEPT !.frames = SubSeq(@, 1 - diff, Len(@))]
         /\ used' = used \ Mem!Range(SubSeq(fr, 1, -diff))
  BY DEF Mem!shm_truncate
<1>3. /\ mem_fds \in [MemProcs -> SUBSET ShmNodes]
      /\ mem_nodes \in [ShmNodes -> [links : Nat, size : 0..MaxShm]]
      /\ fr \in Seq(Mem!AllFrames) /\ shm.links \in Nat /\ Len(fr) \in Nat
      /\ shm = [frames |-> fr, links |-> shm.links]
      /\ old \in 0..MaxShm
  BY ShmFacts
<1>4. /\ used \subseteq Mem!AllFrames /\ Mem!Own(Mem!Held, fr, used)
      /\ MaxShm \in Nat
  BY MemBasics DEF Mem!MemoryInv, Mem!TypeOK
<1>5. /\ mem_nodes' \in [ShmNodes -> [links : Nat, size : 0..MaxShm]]
      /\ mem_nodes'[n].size = size
      /\ \A m \in ShmNodes : mem_nodes'[m].links = mem_nodes[m].links
      /\ \A m \in ShmNodes : m # n => mem_nodes'[m] = mem_nodes[m]
  <2>1. mem_nodes'[n] = [links |-> mem_nodes[n].links, size |-> size]
    BY <1>1, <1>3
  <2> QED
    BY <1>1, <1>3, <2>1
<1>6. \A m \in ShmNodes : /\ mem_nodes[m].links \in Nat /\ IsFiniteSet(Mem!Openers(m))
                          /\ mem_nodes[m].links = Cardinality(Mem!Openers(m))
                          /\ mem_nodes[m].links = 0 => mem_nodes[m].size = 0
  BY ShmFacts
<1>7. mem_nodes[n].links # 0
  <2>1. p \in Mem!Openers(n)
    BY <1>1 DEF Mem!Openers
  <2> QED
    BY <1>6, <2>1, FS_EmptySet
<1>8. \A m \in ShmNodes : /\ mem_nodes'[m].links = Cardinality(Mem!Openers(m)')
                          /\ mem_nodes'[m].links = 0 => mem_nodes'[m].size = 0
  <2>1. \A m : Mem!Openers(m)' = Mem!Openers(m)
    BY <1>1 DEF Mem!Openers
  <2> QED
    BY <1>5, <1>6, <1>7, <2>1
<1>9. Mem!Linked' = Mem!Linked
  BY <1>5 DEF Mem!Linked
<1>10. shm.links = Cardinality(Mem!Linked) /\ Cardinality(Mem!Sized(mem_nodes)) <= Len(fr)
       /\ Cardinality(Mem!Sized(mem_nodes)) \in Nat /\ Cardinality(Mem!Sized(mem_nodes')) \in Nat
  BY ShmFacts, SizedIn
<1>11. \A q \in MemProcs : mem_state[q] # "live" => mem_fds'[q] = {}
  BY <1>1 DEF Mem!MemoryInv, Mem!EndedIsClean
<1>12. ASSUME shm'.links = shm.links, shm'.frames \in Seq(Mem!AllFrames), shm' \in [frames : Seq(Mem!AllFrames), links : Nat],
              Cardinality(Mem!Sized(mem_nodes')) <= Len(shm'.frames),
              used' \subseteq Mem!AllFrames, Mem!Own(Mem!Held, shm'.frames, used')
       PROVE  Mem!MemoryInv'
  <2>1. Mem!ShmIsCounted'
    BY <1>8, <1>9, <1>10, <1>12, CountsPrime
  <2>2. mem_fds' \in [MemProcs -> SUBSET ShmNodes]
    BY <1>1, <1>3
  <2> QED
    BY <1>1, <1>5, <1>11, <1>12, <2>1, <2>2, ObjectKeeps
<1> HIDE DEF fr, old
<1>13. CASE /\ diff > 0 /\ Mem!HasFree(diff)
            /\ shm' = [shm EXCEPT !.frames = @ \o Mem!Lowest(diff)]
            /\ used' = used \cup Mem!Range(Mem!Lowest(diff))
  <2> DEFINE new == Mem!Lowest(diff)
  <2>1. diff \in Nat /\ old <= size /\ old \in Nat
    BY <1>3, <1>4, <1>13
  <2>2. /\ DOMAIN new = 1..diff /\ new \in Seq(Mem!AllFrames) /\ Len(new) = diff
        /\ \A i \in 1..diff : new[i] \in Mem!AllFrames /\ new[i] \notin used
        /\ \A i, j \in 1..diff : new[i] = new[j] => i = j
    <3> HIDE DEF diff
    <3> QED
      BY <1>4, <1>13, <2>1, LowestFacts
  <2>3. shm' = [frames |-> fr \o new, links |-> shm.links] /\ used' = used \cup {new[i] : i \in DOMAIN new}
    <3>1. used' = used \cup {new[i] : i \in DOMAIN new} /\ shm' = [shm EXCEPT !.frames = @ \o new]
      BY <1>13 DEF Mem!Range
    <3> HIDE DEF new
    <3>2. shm' = [frames |-> shm.frames \o new, links |-> shm.links]
      BY <1>3, <3>1
    <3> QED
      BY <3>1, <3>2 DEF fr
  <2>4. Cardinality(Mem!Sized(mem_nodes')) = Cardinality(Mem!Sized(mem_nodes)) + diff
    <3>1. /\ mem_nodes[n].size = old /\ mem_nodes'[n].size = size /\ old \in 0..MaxShm /\ old <= size
          /\ \A m \in ShmNodes : m # n => mem_nodes'[m].size = mem_nodes[m].size
      BY <1>3, <1>5, <2>1 DEF old
    <3>2. Cardinality(Mem!Sized(mem_nodes')) = Cardinality(Mem!Sized(mem_nodes)) + (size - old)
      <4> DEFINE ms == mem_nodes'
                 ns == mem_nodes
      <4>1. /\ ns[n].size = old /\ ms[n].size = size
            /\ \A m \in ShmNodes : m # n => ms[m].size = ns[m].size
        BY <3>1
      <4> HIDE DEF ms, ns
      <4>2. Cardinality(Mem!Sized(ms)) = Cardinality(Mem!Sized(ns)) + (size - old)
        BY <3>1, <4>1, SizedGrows
      <4> QED
        BY <4>2 DEF ms, ns
    <3> QED
      BY <3>2
  <2> HIDE DEF new, diff
  <2>5. Mem!Own(Mem!Held, fr \o new, used \cup {new[i] : i \in DOMAIN new})
    <3>1. /\ new \in Seq(Mem!AllFrames) /\ \A i \in DOMAIN new : new[i] \notin used
          /\ \A i, j \in DOMAIN new : new[i] = new[j] => i = j
      BY <2>2
    <3>2. fr \in Seq(Mem!AllFrames)
      BY <1>3
    <3> QED
      BY <1>4, <3>1, <3>2, OwnAppends
  <2>6. fr \o new \in Seq(Mem!AllFrames) /\ Len(fr \o new) = Len(fr) + diff
    <3>1. fr \in Seq(Mem!AllFrames) /\ new \in Seq(Mem!AllFrames)
      BY <1>3, <2>2
    <3>2. fr \o new \in Seq(Mem!AllFrames) /\ Len(fr \o new) = Len(fr) + Len(new)
      BY <3>1
    <3> QED
      BY <2>2, <3>2
  <2>7. used' \subseteq Mem!AllFrames
    <3>1. {new[i] : i \in DOMAIN new} \subseteq Mem!AllFrames
      BY <2>2
    <3> QED
      BY <1>4, <2>3, <3>1
  <2>8. Cardinality(Mem!Sized(mem_nodes')) <= Len(fr \o new)
    BY <1>3, <1>10, <2>1, <2>4, <2>6
  <2>9. /\ shm'.links = shm.links /\ shm'.frames = fr \o new
        /\ shm' \in [frames : Seq(Mem!AllFrames), links : Nat]
    BY <1>3, <2>3, <2>6
  <2> QED
    BY <1>12, <2>3, <2>5, <2>6, <2>7, <2>8, <2>9
<1>14. CASE /\ diff < 0
            /\ shm' = [shm EXCEPT !.frames = SubSeq(@, 1 - diff, Len(@))]
            /\ used' = used \ Mem!Range(SubSeq(fr, 1, -diff))
  <2> DEFINE d == old - size
             t == SubSeq(fr, d + 1, Len(fr))
             X == {fr[i] : i \in 1..d}
  <2>1. d \in Nat /\ size <= old /\ -diff = d /\ 1 - diff = d + 1 /\ size \in Nat /\ old \in Nat
    BY <1>3, <1>4, <1>14
  <2>2. Cardinality(Mem!Sized(mem_nodes)) = Cardinality(Mem!Sized(mem_nodes')) + d
    <3>1. /\ mem_nodes[n].size = old /\ mem_nodes'[n].size = size /\ old \in 0..MaxShm /\ size <= old
          /\ \A m \in ShmNodes : m # n => mem_nodes[m].size = mem_nodes'[m].size
      BY <1>3, <1>5, <2>1 DEF old
    <3>2. Cardinality(Mem!Sized(mem_nodes)) = Cardinality(Mem!Sized(mem_nodes')) + (old - size)
      <4> DEFINE ns == mem_nodes'
                 ms == mem_nodes
      <4>1. /\ ns[n].size = size /\ ms[n].size = old
            /\ \A m \in ShmNodes : m # n => ms[m].size = ns[m].size
        BY <3>1
      <4> HIDE DEF ms, ns, old
      <4>2. Cardinality(Mem!Sized(ms)) = Cardinality(Mem!Sized(ns)) + (old - size)
        BY <3>1, <4>1, SizedGrows
      <4> QED
        BY <4>2 DEF ms, ns
    <3> QED
      BY <3>2
  <2> HIDE DEF d, diff
  <2>3. d \in 0..Len(fr)
    BY <1>3, <1>10, <2>1, <2>2
  <2>4. t \in Seq(Mem!AllFrames) /\ Len(t) = Len(fr) - d
    <3>1. \A i \in (d + 1)..Len(fr) : fr[i] \in Mem!AllFrames
      BY <1>3, <2>3
    <3> QED
      BY <1>3, <2>3, <3>1
  <2>5. Mem!Range(SubSeq(fr, 1, d)) = X
    <3>1. /\ DOMAIN SubSeq(fr, 1, d) = 1..d
          /\ \A i \in 1..d : SubSeq(fr, 1, d)[i] = fr[i]
      BY <1>3, <2>3
    <3> QED
      BY <3>1 DEF Mem!Range
  <2>6. shm' = [frames |-> t, links |-> shm.links] /\ used' = used \ X
    <3>1. shm' = [shm EXCEPT !.frames = t]
      BY <1>14, <2>1 DEF fr
    <3> HIDE DEF t
    <3> QED
      BY <1>3, <1>14, <2>1, <2>5, <3>1
  <2>7. Mem!Own(Mem!Held, t, used \ X)
    BY <1>3, <1>4, <2>3, OwnDrops
  <2> HIDE DEF t, X
  <2>8. Cardinality(Mem!Sized(mem_nodes')) <= Len(t)
    BY <1>3, <1>10, <2>1, <2>2, <2>4
  <2>9. /\ shm'.links = shm.links /\ shm'.frames = t
        /\ shm' \in [frames : Seq(Mem!AllFrames), links : Nat]
    BY <1>3, <2>4, <2>6
  <2>10. used' \subseteq Mem!AllFrames
    BY <1>4, <2>6
  <2> QED
    BY <1>12, <2>4, <2>6, <2>7, <2>8, <2>9, <2>10
<1> QED
  BY <1>2, <1>13, <1>14

(***************************************************************************)
(* A process gives up its pages                                            *)
(***************************************************************************)
LEMMA GivesBack ==
  ASSUME Mem!MemoryInv, NEW p \in MemProcs, NEW W, W \subseteq Mem!Pages, NEW t, NEW k,
         \A q \in MemProcs, w \in Mem!Pages : k[q][w] = IF q = p /\ w \in W THEN 0 ELSE Mem!Held[q][w],
         \A f : f \in t <=> f \in used /\ ~(f # 0 /\ \E w \in W : Mem!Held[p][w] = f)
  PROVE  Mem!Own(k, shm.frames, t)
<1>1. Mem!Own(Mem!Held, shm.frames, used) /\ 0 \notin used
  BY MemBasics DEF Mem!MemoryInv, Mem!TypeOK
<1>2. \A q \in MemProcs, w \in Mem!Pages : k[q][w] = Mem!Held[q][w] \/ k[q][w] = 0
  OBVIOUS
<1>3. \A f : f \in t <=>
        f \in used /\ ~\E q \in MemProcs, w \in Mem!Pages : Mem!Held[q][w] = f /\ k[q][w] = 0
  <2>1. ASSUME NEW f \in t, NEW q \in MemProcs, NEW w \in Mem!Pages, Mem!Held[q][w] = f, k[q][w] = 0
        PROVE  FALSE
    <3>1. f \in used /\ f # 0
      BY <1>1, <2>1
    <3>2. q = p /\ w \in W
      BY <2>1, <3>1
    <3> QED
      BY <2>1, <3>1, <3>2
  <2>2. ASSUME NEW f \in used, f \notin t
        PROVE  \E q \in MemProcs, w \in Mem!Pages : Mem!Held[q][w] = f /\ k[q][w] = 0
    <3>1. PICK w \in W : Mem!Held[p][w] = f
      BY <2>2
    <3>2. w \in Mem!Pages /\ k[p][w] = 0
      BY <3>1
    <3> QED
      BY <3>1, <3>2
  <2>3. \A f : f \in t => f \in used
    OBVIOUS
  <2> QED
    BY <2>1, <2>2, <2>3
<1> QED
  BY <1>1, <1>2, <1>3, OwnShrinks

(* A step that leaves the other processes alone and one without mappings.  *)
LEMMA ClearedKeeps ==
  ASSUME Mem!MemoryInv, NEW p \in MemProcs, UNCHANGED kinds,
         mem_blocks' \in [MemProcs -> Seq(Mem!Block)], mem_blocks'[p] = << >>,
         \A q \in MemProcs : q # p => /\ mem_blocks'[q] = mem_blocks[q] /\ pt'[q] = pt[q]
                                      /\ mem_state'[q] = mem_state[q] /\ mem_fds'[q] = mem_fds[q],
         \A q \in MemProcs : MmapStart <= mem_start'[q],
         mem_state'[p] # "live" => mem_fds'[p] = {},
         mem_state'[p] = "none" => pt'[p] = Mem!Empty,
         mem_state'[p] = "live" => pt'[p][0] # 0,
         \A v \in 0..(MmapStart - 1) : \A w \in 0..v : pt'[p][v] # 0 => pt'[p][w] # 0
  PROVE  /\ Mem!MappingsFit' /\ Mem!EndedIsClean' /\ Mem!HeapIsDense'
         /\ ("file" \notin kinds => Mem!MappingsArePresent /\ Mem!MappingsAreDisjoint)'
         /\ \A q \in MemProcs, w \in Mem!Pages : q # p => Mem!Held'[q][w] = Mem!Held[q][w]
         /\ \A w \in Mem!Pages : Mem!Held'[p][w] = pt'[p][w]
<1>1. DOMAIN mem_blocks'[p] = {}
  OBVIOUS
<1>2. \A q \in MemProcs : \A i : i \in DOMAIN mem_blocks'[q] =>
        q # p /\ i \in DOMAIN mem_blocks[q] /\ mem_blocks'[q][i] = mem_blocks[q][i] /\ pt'[q] = pt[q]
  BY <1>1
<1>3. Mem!MappingsFit'
  <2>1. ASSUME NEW q \in MemProcs, NEW i \in DOMAIN mem_blocks'[q]
        PROVE  LET c == mem_blocks'[q][i]
               IN  c.kind \in kinds /\ MmapStart <= c.start /\ c.start + c.len < Top
    <3>1. i \in DOMAIN mem_blocks[q] /\ mem_blocks'[q][i] = mem_blocks[q][i]
      BY <1>2, <2>1
    <3> QED
      BY <3>1, BlockFacts
  <2> QED
    BY <2>1 DEF Mem!MappingsFit
<1>4. Mem!EndedIsClean'
  BY DEF Mem!MemoryInv, Mem!EndedIsClean
<1>5. Mem!HeapIsDense'
  <2>1. Mem!HeapIsDense
    BY DEF Mem!MemoryInv
  <2> QED
    BY <2>1 DEF Mem!HeapIsDense
<1>6. ("file" \notin kinds => Mem!MappingsArePresent /\ Mem!MappingsAreDisjoint)'
  <2> SUFFICES ASSUME "file" \notin kinds
               PROVE  Mem!MappingsArePresent' /\ Mem!MappingsAreDisjoint'
    OBVIOUS
  <2>1. Mem!MappingsArePresent /\ Mem!MappingsAreDisjoint
    BY DEF Mem!MemoryInv
  <2>2. Mem!MappingsArePresent'
    BY <1>2, <2>1 DEF Mem!MappingsArePresent, Mem!Span
  <2>3. Mem!MappingsAreDisjoint'
    BY <1>2, <2>1 DEF Mem!MappingsAreDisjoint, Mem!Span
  <2> QED
    BY <2>2, <2>3
<1>7. \A w : w \notin Mem!Spans(p, "shm")'
  BY <1>1, SpansHas
<1>8. \A w \in Mem!Pages : Mem!Held'[p][w] = pt'[p][w]
  BY <1>7, HeldFacts
<1>9. ASSUME NEW q \in MemProcs, NEW w \in Mem!Pages, q # p
      PROVE  Mem!Held'[q][w] = Mem!Held[q][w]
  <2>1. mem_blocks'[q] = mem_blocks[q] /\ pt'[q] = pt[q]
    BY <1>9
  <2>2. w \in Mem!Spans(q, "shm")' <=> w \in Mem!Spans(q, "shm")
    BY <2>1, SpansHas
  <2> QED
    BY <2>1, <2>2, HeldFacts
<1> QED
  BY <1>3, <1>4, <1>5, <1>6, <1>8, <1>9

LEMMA DestroyKeeps ==
  ASSUME Mem!MemoryInv, NEW p \in MemProcs, Mem!destroy(p), UNCHANGED kinds
  PROVE  Mem!MemoryInv'
<1>1. /\ mem_state[p] = "finished"
      /\ mem_state' = [mem_state EXCEPT ![p] = "none"]
      /\ used' = used \ Mem!Released(p)
      /\ pt' = [pt EXCEPT ![p] = Mem!Empty]
      /\ UNCHANGED <<kinds, mem_blocks, mem_start, mem_fds, mem_nodes, shm>>
  BY DEF Mem!destroy
<1>2. Mem!TypeOK
  BY DEF Mem!MemoryInv
<1>3. mem_blocks[p] = << >> /\ mem_fds[p] = {}
  BY <1>1 DEF Mem!MemoryInv, Mem!EndedIsClean
<1>4. \A w : w \notin Mem!BlockPages(p)
  <2>1. DOMAIN mem_blocks[p] = {}
    BY <1>3
  <2> QED
    BY <2>1, SpanFacts
<1>5. /\ mem_state' \in [MemProcs -> {"none", "live", "finished"}] /\ mem_state'[p] = "none"
      /\ \A q \in MemProcs : q # p => mem_state'[q] = mem_state[q]
  BY <1>1, <1>2 DEF Mem!TypeOK
<1>6. /\ pt' \in [MemProcs -> [Mem!Pages -> 0..NFrames]] /\ pt'[p] = Mem!Empty
      /\ \A q \in MemProcs : q # p => pt'[q] = pt[q]
  BY <1>1, <1>2, MemBasics DEF Mem!TypeOK
<1>7. \A w \in Mem!Pages : pt'[p][w] = 0
  BY <1>6, MemBasics
<1>8. \A v \in 0..(MmapStart - 1) : pt'[p][v] = 0
  <2>1. \A v \in 0..(MmapStart - 1) : v \in Mem!Pages
    BY MemBasics
  <2> QED
    BY <1>7, <2>1
<1>9. /\ Mem!MappingsFit' /\ Mem!EndedIsClean' /\ Mem!HeapIsDense'
      /\ ("file" \notin kinds => Mem!MappingsArePresent /\ Mem!MappingsAreDisjoint)'
      /\ \A q \in MemProcs, w \in Mem!Pages : q # p => Mem!Held'[q][w] = Mem!Held[q][w]
      /\ \A w \in Mem!Pages : Mem!Held'[p][w] = pt'[p][w]
  <2>1. mem_blocks' \in [MemProcs -> Seq(Mem!Block)] /\ mem_blocks'[p] = << >>
    BY <1>1, <1>2, <1>3 DEF Mem!TypeOK
  <2>2. \A q \in MemProcs : MmapStart <= mem_start'[q]
    BY <1>1 DEF Mem!MemoryInv, Mem!MappingsFit
  <2>3. \A q \in MemProcs : q # p => /\ mem_blocks'[q] = mem_blocks[q] /\ pt'[q] = pt[q]
                                     /\ mem_state'[q] = mem_state[q] /\ mem_fds'[q] = mem_fds[q]
    BY <1>1, <1>5, <1>6
  <2>4. mem_fds'[p] = {}
    BY <1>1, <1>3
  <2> QED
    BY <1>1, <1>5, <1>6, <1>8, <2>1, <2>2, <2>3, <2>4, ClearedKeeps
<1>10. Mem!Own(Mem!Held, shm.frames, used)'
  <2>1. \A q \in MemProcs, w \in Mem!Pages :
          Mem!Held'[q][w] = IF q = p /\ w \in Mem!Pages THEN 0 ELSE Mem!Held[q][w]
    BY <1>7, <1>9
  <2>2. \A f : f \in Mem!Released(p) <=> f # 0 /\ \E w \in Mem!Pages : Mem!Held[p][w] = f
    <3>1. \A f : f \in Mem!Released(p)
            <=> f # 0 /\ \E w \in Mem!Pages : w \notin Mem!BlockPages(p) /\ pt[p][w] = f
      BY GivenBackFacts
    <3>2. \A w \in Mem!Pages : Mem!Held[p][w] = pt[p][w]
      BY <1>4, GivenBackFacts
    <3> QED
      BY <1>4, <3>1, <3>2
  <2>3. \A f : f \in used' <=> f \in used /\ ~(f # 0 /\ \E w \in Mem!Pages : Mem!Held[p][w] = f)
    BY <1>1, <2>2
  <2>4. Mem!Own(Mem!Held', shm.frames, used')
    BY <2>1, <2>3, GivesBack
  <2> QED
    BY <1>1, <2>4
<1>11. /\ Mem!ShmIsCounted'
       /\ mem_fds' \in [MemProcs -> SUBSET ShmNodes]
       /\ mem_nodes' \in [ShmNodes -> [links : Nat, size : 0..MaxShm]]
       /\ shm' \in [frames : Seq(Mem!AllFrames), links : Nat]
  BY <1>1, ShmKept
<1>12. Mem!TypeOK'
  <2>1. /\ kinds' \in Uses /\ mem_blocks' \in [MemProcs -> Seq(Mem!Block)]
        /\ mem_start' \in [MemProcs -> Nat] /\ used' \subseteq Mem!AllFrames
    BY <1>1, <1>2 DEF Mem!TypeOK
  <2> QED
    BY <1>5, <1>6, <1>11, <2>1 DEF Mem!TypeOK
<1> QED
  BY <1>9, <1>10, <1>11, <1>12 DEF Mem!MemoryInv

LEMMA ExecKeeps ==
  ASSUME Mem!MemoryInv, NEW p \in MemProcs, Mem!exec(p), UNCHANGED kinds
  PROVE  Mem!MemoryInv'
<1> DEFINE kept == used \ (Mem!GivenBack(p) \cup Mem!Released(p))
           fr1 == Mem!Ascending(Mem!Free(kept), 1)
           x == fr1[1]
           k == [q \in MemProcs |-> [w \in Mem!Pages |->
                  IF q = p /\ w \in Mem!Pages THEN 0 ELSE Mem!Held[q][w]]]
<1>1. /\ mem_state[p] = "live" /\ Mem!Free(kept) # {}
      /\ pt' = [pt EXCEPT ![p] = [Mem!Empty EXCEPT ![0] = x]]
      /\ used' = kept \cup Mem!Range(fr1)
      /\ mem_blocks' = [mem_blocks EXCEPT ![p] = << >>]
      /\ mem_start' = [mem_start EXCEPT ![p] = MmapStart]
      /\ UNCHANGED <<kinds, mem_state, mem_fds, mem_nodes, shm>>
  BY DEF Mem!exec
<1>2. Mem!TypeOK
  BY DEF Mem!MemoryInv
<1>3. \A f : f \in kept <=> f \in used /\ ~(f # 0 /\ \E w \in Mem!Pages : Mem!Held[p][w] = f)
  <2>1. \A w \in Mem!BlockPages(p) : w \in Mem!Pages
    BY GivenBackFacts
  <2>2. \A f : f \in Mem!GivenBack(p) <=> f # 0 /\ \E w \in Mem!BlockPages(p) : Mem!Held[p][w] = f
    BY GivenBackFacts
  <2>3. \A f : f \in Mem!Released(p) <=>
          f # 0 /\ \E w \in Mem!Pages : w \notin Mem!BlockPages(p) /\ Mem!Held[p][w] = f
    <3>1. \A w \in Mem!Pages : w \notin Mem!BlockPages(p) => Mem!Held[p][w] = pt[p][w]
      BY GivenBackFacts
    <3>2. \A f : f \in Mem!Released(p)
            <=> f # 0 /\ \E w \in Mem!Pages : w \notin Mem!BlockPages(p) /\ pt[p][w] = f
      BY GivenBackFacts
    <3> QED
      BY <3>1, <3>2
  <2>4. \A f : f \in Mem!GivenBack(p) \cup Mem!Released(p)
          <=> f # 0 /\ \E w \in Mem!Pages : Mem!Held[p][w] = f
    BY <2>1, <2>2, <2>3
  <2> QED
    BY <2>4
<1>4. /\ kept \subseteq Mem!AllFrames /\ used \subseteq Mem!AllFrames /\ 0 \notin kept
  BY <1>2, MemBasics DEF Mem!TypeOK
<1> HIDE DEF kept
<1>5. x \in Mem!AllFrames /\ x \notin kept /\ Mem!Range(fr1) = {x} /\ x # 0
  <2> DEFINE Z == Mem!Free(kept)
  <2>3. Z \subseteq Mem!AllFrames \ kept
    BY DEF Mem!Free
  <2>4. Z \subseteq Nat /\ IsFiniteSet(Z) /\ Z \subseteq Mem!AllFrames
    BY <2>3, MemBasics, FS_Subset
  <2>5. 1 \in 0..Cardinality(Z)
    <3>1. Z # {}
      BY <1>1
    <3> HIDE DEF Z
    <3>2. Cardinality(Z) \in Nat /\ Cardinality(Z) # 0
      BY <2>4, <3>1, FS_CardinalityType, FS_EmptySet
    <3> QED
      BY <3>2
  <2>6. DOMAIN fr1 = 1..1 /\ \A i \in 1..1 : fr1[i] \in Z
    <3>1. fr1 = Mem!Ascending(Z, 1)
      OBVIOUS
    <3> HIDE DEF Z, fr1
    <3> QED
      BY <2>4, <2>5, <3>1, AscendingFacts
  <2> HIDE DEF fr1
  <2>7. x \in Z
    BY <2>6
  <2>8. Mem!Range(fr1) = {x}
    BY <2>6 DEF Mem!Range
  <2> HIDE DEF Z
  <2> QED
    BY <2>3, <2>7, <2>8, MemBasics
<1> HIDE DEF x, fr1
<1>6. /\ pt' \in [MemProcs -> [Mem!Pages -> 0..NFrames]]
      /\ \A q \in MemProcs : q # p => pt'[q] = pt[q]
      /\ \A w \in Mem!Pages : pt'[p][w] = IF w = 0 THEN x ELSE 0
  <2> DEFINE new == [Mem!Empty EXCEPT ![0] = x]
  <2>1. new \in [Mem!Pages -> 0..NFrames] /\ \A w \in Mem!Pages : new[w] = IF w = 0 THEN x ELSE 0
    BY <1>5, MemBasics
  <2>2. pt \in [MemProcs -> [Mem!Pages -> 0..NFrames]] /\ pt' = [pt EXCEPT ![p] = new]
    BY <1>1, <1>2 DEF Mem!TypeOK
  <2> HIDE DEF new
  <2> QED
    BY <2>1, <2>2
<1>7. /\ mem_blocks' \in [MemProcs -> Seq(Mem!Block)] /\ mem_blocks'[p] = << >>
      /\ \A q \in MemProcs : q # p => mem_blocks'[q] = mem_blocks[q]
  BY <1>1, <1>2 DEF Mem!TypeOK
<1>8. mem_start' \in [MemProcs -> Nat] /\ \A q \in MemProcs : MmapStart <= mem_start'[q]
  <2>1. /\ mem_start \in [MemProcs -> Nat] /\ \A q \in MemProcs : MmapStart <= mem_start[q]
        /\ MmapStart \in Nat
    BY <1>2, MemBasics DEF Mem!TypeOK, Mem!MemoryInv, Mem!MappingsFit
  <2> QED
    BY <1>1, <2>1
<1>9. /\ Mem!MappingsFit' /\ Mem!EndedIsClean' /\ Mem!HeapIsDense'
      /\ ("file" \notin kinds => Mem!MappingsArePresent /\ Mem!MappingsAreDisjoint)'
      /\ \A q \in MemProcs, w \in Mem!Pages : q # p => Mem!Held'[q][w] = Mem!Held[q][w]
      /\ \A w \in Mem!Pages : Mem!Held'[p][w] = pt'[p][w]
  <2>1. pt'[p][0] # 0
    BY <1>5, <1>6, MemBasics
  <2>2. \A v \in 0..(MmapStart - 1) : \A w \in 0..v : pt'[p][v] # 0 => pt'[p][w] # 0
    <3> SUFFICES ASSUME NEW v \in 0..(MmapStart - 1), NEW w \in 0..v, pt'[p][v] # 0
                 PROVE  pt'[p][w] # 0
      OBVIOUS
    <3>1. v \in Mem!Pages
      BY MemBasics
    <3>2. v = 0
      BY <1>6, <3>1
    <3>3. w = 0
      BY <3>2
    <3> QED
      BY <2>1, <3>3
  <2>3. \A q \in MemProcs : q # p => /\ mem_blocks'[q] = mem_blocks[q] /\ pt'[q] = pt[q]
                                     /\ mem_state'[q] = mem_state[q] /\ mem_fds'[q] = mem_fds[q]
    BY <1>1, <1>6, <1>7
  <2>4. mem_state'[p] = "live"
    BY <1>1
  <2> QED
    BY <1>1, <1>7, <1>8, <2>1, <2>2, <2>3, <2>4, ClearedKeeps
<1>10. Mem!Own(Mem!Held, shm.frames, used)'
  <2>1. \A q \in MemProcs, w \in Mem!Pages :
          k[q][w] = IF q = p /\ w \in Mem!Pages THEN 0 ELSE Mem!Held[q][w]
    OBVIOUS
  <2> HIDE DEF k
  <2>2. Mem!Own(k, shm.frames, kept)
    BY <1>3, <2>1, GivesBack
  <2>3. \A q \in MemProcs, w \in Mem!Pages :
          Mem!Held'[q][w] = IF q = p /\ w = 0 THEN x ELSE k[q][w]
    BY <1>6, <1>9, <2>1
  <2>4. \A w \in Mem!Pages : k[p][w] = 0
    BY <2>1
  <2>5. \A q \in MemProcs, w \in Mem!Pages : k[q][w] # x
    BY <1>5, <2>2 DEF Mem!Own
  <2>6. 0 \in Mem!Pages
    BY MemBasics
  <2> DEFINE h == Mem!Held'
             new == {x}
             fr == shm.frames
  <2>7. \A q \in MemProcs, w \in Mem!Pages : h[q][w] = k[q][w] \/ (k[q][w] = 0 /\ h[q][w] \in new)
    BY <2>3, <2>4
  <2>8. \A q, r \in MemProcs, v, w \in Mem!Pages :
          h[q][v] \in new /\ h[q][v] = h[r][w] => q = r /\ v = w
    BY <2>3, <2>5
  <2>9. \A f \in new : \E q \in MemProcs, v \in Mem!Pages : h[q][v] = f
    BY <2>3, <2>6
  <2>10. 0 \notin kept /\ 0 \notin new /\ new \cap kept = {} /\ Mem!Own(k, fr, kept)
    BY <1>4, <1>5, <2>2
  <2> HIDE DEF h, new, fr
  <2>11. Mem!Own(h, fr, kept \cup new)
    BY <2>7, <2>8, <2>9, <2>10, OwnGrows
  <2> QED
    BY <1>1, <1>5, <2>11 DEF h, new, fr
<1>11. /\ Mem!ShmIsCounted'
       /\ mem_fds' \in [MemProcs -> SUBSET ShmNodes]
       /\ mem_nodes' \in [ShmNodes -> [links : Nat, size : 0..MaxShm]]
       /\ shm' \in [frames : Seq(Mem!AllFrames), links : Nat]
  BY <1>1, ShmKept
<1>12. Mem!TypeOK'
  <2>1. /\ kinds' \in Uses /\ mem_state' \in [MemProcs -> {"none", "live", "finished"}]
        /\ used' \subseteq Mem!AllFrames
    BY <1>1, <1>2, <1>4, <1>5 DEF Mem!TypeOK
  <2> QED
    BY <1>6, <1>7, <1>8, <1>11, <2>1 DEF Mem!TypeOK
<1> QED
  BY <1>9, <1>10, <1>11, <1>12 DEF Mem!MemoryInv

LEMMA ExitKeeps ==
  ASSUME Mem!MemoryInv, NEW p \in MemProcs, Mem!exit(p), UNCHANGED kinds
  PROVE  Mem!MemoryInv'
<1> DEFINE ns == mem_fds[p]
           gone == IF Mem!Removed(ns) THEN Mem!Range(shm.frames) ELSE {}
           t == used \ Mem!GivenBack(p)
<1>1. /\ mem_state' = [mem_state EXCEPT ![p] = "finished"]
      /\ Mem!Closed(ns)
      /\ mem_fds' = [mem_fds EXCEPT ![p] = {}]
      /\ used' = used \ (Mem!GivenBack(p) \cup gone)
      /\ pt' = [pt EXCEPT ![p] = Mem!Unmapped(p, Mem!BlockPages(p))]
      /\ mem_blocks' = [mem_blocks EXCEPT ![p] = << >>]
      /\ UNCHANGED <<kinds, mem_start>>
  BY DEF Mem!exit
<1>2. Mem!TypeOK
  BY DEF Mem!MemoryInv
<1>3. /\ mem_fds' \in [MemProcs -> SUBSET ShmNodes] /\ mem_fds'[p] = {}
      /\ \A q \in MemProcs : q # p => mem_fds'[q] = mem_fds[q]
  BY <1>1, <1>2 DEF Mem!TypeOK
<1>4. /\ Mem!ShmIsCounted'
      /\ mem_nodes' \in [ShmNodes -> [links : Nat, size : 0..MaxShm]]
      /\ shm' \in [frames : Seq(Mem!AllFrames), links : Nat]
      /\ shm'.frames = IF Mem!Removed(ns) THEN << >> ELSE shm.frames
  <2>1. mem_fds' = [mem_fds EXCEPT ![p] = @ \ ns]
    BY <1>1
  <2> QED
    BY <1>1, <2>1, ClosedKeeps
<1>5. /\ mem_state' \in [MemProcs -> {"none", "live", "finished"}] /\ mem_state'[p] = "finished"
      /\ \A q \in MemProcs : q # p => mem_state'[q] = mem_state[q]
  BY <1>1, <1>2 DEF Mem!TypeOK
<1>6. /\ pt' \in [MemProcs -> [Mem!Pages -> 0..NFrames]]
      /\ \A q \in MemProcs : q # p => pt'[q] = pt[q]
      /\ \A w \in Mem!Pages : pt'[p][w] = IF w \in Mem!BlockPages(p) THEN 0 ELSE pt[p][w]
  <2> DEFINE new == Mem!Unmapped(p, Mem!BlockPages(p))
  <2>1. pt \in [MemProcs -> [Mem!Pages -> 0..NFrames]] /\ pt' = [pt EXCEPT ![p] = new]
    BY <1>1, <1>2 DEF Mem!TypeOK
  <2>2. /\ new \in [Mem!Pages -> 0..NFrames]
        /\ \A w \in Mem!Pages : new[w] = IF w \in Mem!BlockPages(p) THEN 0 ELSE pt[p][w]
    BY <2>1, MemBasics DEF Mem!Unmapped
  <2> HIDE DEF new
  <2> QED
    BY <2>1, <2>2
<1>7. /\ mem_blocks' \in [MemProcs -> Seq(Mem!Block)] /\ mem_blocks'[p] = << >>
      /\ \A q \in MemProcs : q # p => mem_blocks'[q] = mem_blocks[q]
  BY <1>1, <1>2 DEF Mem!TypeOK
<1>8. mem_start' \in [MemProcs -> Nat] /\ \A q \in MemProcs : MmapStart <= mem_start'[q]
  BY <1>1, <1>2 DEF Mem!TypeOK, Mem!MemoryInv, Mem!MappingsFit
<1>9. /\ Mem!MappingsFit' /\ Mem!EndedIsClean' /\ Mem!HeapIsDense'
      /\ ("file" \notin kinds => Mem!MappingsArePresent /\ Mem!MappingsAreDisjoint)'
      /\ \A q \in MemProcs, w \in Mem!Pages : q # p => Mem!Held'[q][w] = Mem!Held[q][w]
      /\ \A w \in Mem!Pages : Mem!Held'[p][w] = pt'[p][w]
  <2>1. \A v \in 0..(MmapStart - 1) : v \in Mem!Pages /\ v \notin Mem!BlockPages(p)
    <3>1. \A v \in 0..(MmapStart - 1) : v \in Mem!Pages /\ ~(v >= MmapStart)
      BY MemBasics
    <3> QED
      BY <3>1, GivenBackFacts
  <2>2. \A v \in 0..(MmapStart - 1) : pt'[p][v] = pt[p][v]
    BY <1>6, <2>1
  <2>3. \A v \in 0..(MmapStart - 1) : \A w \in 0..v : pt'[p][v] # 0 => pt'[p][w] # 0
    <3> SUFFICES ASSUME NEW v \in 0..(MmapStart - 1), NEW w \in 0..v
                 PROVE  pt'[p][v] # 0 => pt'[p][w] # 0
      OBVIOUS
    <3>1. w \in 0..(MmapStart - 1)
      BY MemBasics
    <3>2. pt[p][v] # 0 => pt[p][w] # 0
      BY DEF Mem!MemoryInv, Mem!HeapIsDense
    <3> QED
      BY <2>2, <3>1, <3>2
  <2>4. \A q \in MemProcs : q # p => /\ mem_blocks'[q] = mem_blocks[q] /\ pt'[q] = pt[q]
                                     /\ mem_state'[q] = mem_state[q] /\ mem_fds'[q] = mem_fds[q]
    BY <1>3, <1>5, <1>6, <1>7
  <2> QED
    BY <1>1, <1>3, <1>5, <1>7, <1>8, <2>3, <2>4, ClearedKeeps
<1>10. Mem!Own(Mem!Held', shm.frames, t)
  <2>1. \A w \in Mem!Pages : w \notin Mem!BlockPages(p) => Mem!Held[p][w] = pt[p][w]
    BY GivenBackFacts
  <2>2. \A q \in MemProcs, w \in Mem!Pages :
          Mem!Held'[q][w] = IF q = p /\ w \in Mem!BlockPages(p) THEN 0 ELSE Mem!Held[q][w]
    BY <1>6, <1>9, <2>1
  <2>3. \A f : f \in t <=> f \in used /\ ~(f # 0 /\ \E w \in Mem!BlockPages(p) : Mem!Held[p][w] = f)
    BY GivenBackFacts
  <2>4. Mem!BlockPages(p) \subseteq Mem!Pages
    BY GivenBackFacts
  <2> HIDE DEF t
  <2> QED
    BY <2>2, <2>3, <2>4, GivesBack
<1>11. Mem!Own(Mem!Held, shm.frames, used)'
  <2>1. shm.frames \in Seq(Mem!AllFrames)
    BY ShmFacts
  <2>2. CASE Mem!Removed(ns)
    <3> DEFINE h == Mem!Held'
    <3>1. Mem!Own(h, shm.frames, t)
      BY <1>10
    <3>2. used' = t \ Mem!Range(shm.frames)
      BY <1>1, <2>2
    <3> HIDE DEF h, t
    <3>3. Mem!Own(h, << >>, t \ Mem!Range(shm.frames))
      BY <2>1, <3>1, OwnEmpties
    <3>4. shm'.frames = << >>
      BY <1>4, <2>2
    <3> QED
      BY <3>2, <3>3, <3>4 DEF h
  <2>3. CASE ~Mem!Removed(ns)
    <3>1. used' = t /\ shm'.frames = shm.frames
      BY <1>1, <1>4, <2>3
    <3> QED
      BY <1>10, <3>1
  <2> QED
    BY <2>2, <2>3
<1>12. Mem!TypeOK'
  <2>1. kinds' \in Uses /\ used' \subseteq Mem!AllFrames
    BY <1>1, <1>2 DEF Mem!TypeOK
  <2> QED
    BY <1>3, <1>4, <1>5, <1>6, <1>7, <1>8, <2>1 DEF Mem!TypeOK
<1> QED
  BY <1>4, <1>9, <1>11, <1>12 DEF Mem!MemoryInv

(***************************************************************************)
(* fork                                                                    *)
(***************************************************************************)
(* The copies of the pages lie in frames of their own.                     *)
LEMMA CloneFacts ==
  ASSUME used \subseteq Mem!AllFrames, NEW p, Mem!HasFree(Mem!Cardinality(Mem!Present(p))),
         NEW new, new = Mem!Cloned(p)
  PROVE  LET fresh == Mem!Range(Mem!Lowest(Mem!Cardinality(Mem!Present(p))))
         IN  /\ new \in [Mem!Pages -> 0..NFrames]
             /\ \A v \in Mem!Pages : new[v] # 0 <=> pt[p][v] # 0
             /\ \A v \in Mem!Pages : new[v] # 0 => new[v] \in fresh
             /\ \A v, w \in Mem!Pages : new[v] # 0 /\ new[v] = new[w] => v = w
             /\ \A f \in fresh : f \in Mem!AllFrames /\ f \notin used /\ \E v \in Mem!Pages : new[v] = f
<1> DEFINE Z == Mem!Present(p)
           m == Cardinality(Z)
           r(v) == Cardinality({w \in Z : w < v})
           a == Mem!Lowest(m)
<1>1. /\ Z \subseteq Mem!Pages /\ \A v \in Mem!Pages : v \in Z <=> pt[p][v] # 0
  BY DEF Mem!Present
<1>2. Z \subseteq Nat /\ IsFiniteSet(Z)
  BY <1>1, MemBasics, FS_Subset
<1>3. Mem!Cardinality(Z) = m /\ \A v : Mem!Cardinality({w \in Z : w < v}) = r(v)
  BY MemCounts
<1>4. Mem!HasFree(m)
  BY <1>3
<1>5. new = [v \in Mem!Pages |-> IF v \in Z THEN a[r(v) + 1] ELSE 0]
  BY <1>3 DEF Mem!Cloned
<1> HIDE DEF Z
<1>6. /\ m \in Nat
      /\ \A v \in Z : r(v) \in 0..(m - 1)
      /\ \A v, w \in Z : r(v) = r(w) => v = w
  BY <1>2, RankFacts
<1>7. \A i \in 1..m : \E v \in Z : r(v) = i - 1
  BY <1>2, RankExists
<1> HIDE DEF m, r
<1>8. /\ \A i \in 1..m : a[i] \in Mem!AllFrames /\ a[i] \notin used /\ a[i] # 0
      /\ \A i, j \in 1..m : a[i] = a[j] => i = j
      /\ \A f : f \in Mem!Range(a) <=> \E i \in 1..m : a[i] = f
  BY <1>4, <1>6, LowestFacts
<1> HIDE DEF a
<1>9. \A v \in Z : r(v) + 1 \in 1..m
  BY <1>6
<1>10. \A v \in Z : new[v] = a[r(v) + 1] /\ new[v] \in Mem!AllFrames /\ new[v] # 0 /\ new[v] \in Mem!Range(a)
  BY <1>1, <1>5, <1>8, <1>9
<1>11. \A v \in Mem!Pages : v \notin Z => new[v] = 0
  BY <1>5
<1>12. new \in [Mem!Pages -> 0..NFrames]
  <2>1. NFrames \in Nat /\ \A f \in Mem!AllFrames : f \in 0..NFrames
    BY MemBasics
  <2>2. ASSUME NEW v \in Mem!Pages
        PROVE  new[v] \in 0..NFrames
    <3>1. CASE v \in Z
      <4>1. new[v] \in Mem!AllFrames
        BY <1>10, <3>1
      <4> QED
        BY <2>1, <4>1
    <3>2. CASE v \notin Z
      <4>1. new[v] = 0
        BY <1>11, <3>2
      <4> QED
        BY <2>1, <4>1
    <3> QED
      BY <3>1, <3>2
  <2>3. new = [v \in Mem!Pages |-> new[v]]
    BY <1>5
  <2> QED
    BY <2>2, <2>3
<1>13. ASSUME NEW v \in Mem!Pages, NEW w \in Mem!Pages, new[v] # 0, new[v] = new[w]
       PROVE  v = w
  <2>1. v \in Z /\ w \in Z
    BY <1>11, <1>13
  <2>2. a[r(v) + 1] = a[r(w) + 1] /\ r(v) + 1 \in 1..m /\ r(w) + 1 \in 1..m
    BY <1>9, <1>10, <1>13, <2>1
  <2>3. r(v) + 1 = r(w) + 1
    BY <1>8, <2>2
  <2>4. r(v) = r(w)
    BY <1>6, <2>1, <2>3
  <2> QED
    BY <1>6, <2>1, <2>4
<1>14. ASSUME NEW f \in Mem!Range(a)
       PROVE  f \in Mem!AllFrames /\ f \notin used /\ \E v \in Mem!Pages : new[v] = f
  <2>1. PICK i \in 1..m : a[i] = f
    BY <1>8
  <2>2. PICK v \in Z : r(v) = i - 1
    BY <1>7
  <2>3. r(v) + 1 = i
    BY <1>6, <2>2
  <2>4. new[v] = f /\ v \in Mem!Pages
    BY <1>1, <1>10, <2>1, <2>3
  <2> QED
    BY <1>8, <2>1, <2>4
<1>15. /\ \A v \in Mem!Pages : new[v] # 0 <=> pt[p][v] # 0
       /\ \A v \in Mem!Pages : new[v] # 0 => new[v] \in Mem!Range(a)
  BY <1>1, <1>10, <1>11
<1>16. Mem!Range(Mem!Lowest(Mem!Cardinality(Mem!Present(p)))) = Mem!Range(a)
  BY <1>3 DEF Z, a
<1> QED
  BY <1>12, <1>13, <1>14, <1>15, <1>16

(* The child opens the nodes its parent has open.                          *)
LEMMA SharesNodes ==
  ASSUME Mem!MemoryInv, NEW p \in MemProcs, NEW q \in MemProcs, mem_fds[q] = {},
         mem_fds' = [mem_fds EXCEPT ![q] = mem_fds[p]],
         mem_nodes' = [n \in ShmNodes |-> IF n \in mem_fds[p] THEN [mem_nodes[n] EXCEPT !.links = @ + 1]
                                          ELSE mem_nodes[n]],
         UNCHANGED shm
  PROVE  /\ Mem!ShmIsCounted'
         /\ mem_fds' \in [MemProcs -> SUBSET ShmNodes]
         /\ mem_nodes' \in [ShmNodes -> [links : Nat, size : 0..MaxShm]]
<1>1. /\ mem_fds \in [MemProcs -> SUBSET ShmNodes]
      /\ mem_nodes \in [ShmNodes -> [links : Nat, size : 0..MaxShm]]
      /\ shm.links = Cardinality(Mem!Linked)
      /\ Cardinality(Mem!Sized(mem_nodes)) <= Len(shm.frames)
  BY ShmFacts
<1>2. \A n \in ShmNodes : /\ mem_nodes[n].links \in Nat
                          /\ IsFiniteSet(Mem!Openers(n))
                          /\ mem_nodes[n].links = Cardinality(Mem!Openers(n))
                          /\ mem_nodes[n].links = 0 => mem_nodes[n].size = 0
  BY ShmFacts
<1>3. /\ mem_fds' \in [MemProcs -> SUBSET ShmNodes] /\ mem_fds'[q] = mem_fds[p]
      /\ \A r \in MemProcs : r # q => mem_fds'[r] = mem_fds[r]
  BY <1>1
<1>4. \A n \in ShmNodes : /\ mem_nodes'[n] \in [links : Nat, size : 0..MaxShm]
                          /\ mem_nodes'[n].size = mem_nodes[n].size
                          /\ n \in mem_fds[p] => mem_nodes'[n].links = mem_nodes[n].links + 1
                          /\ n \notin mem_fds[p] => mem_nodes'[n] = mem_nodes[n]
  <2> SUFFICES ASSUME NEW n \in ShmNodes
               PROVE  /\ mem_nodes'[n] \in [links : Nat, size : 0..MaxShm]
                      /\ mem_nodes'[n].size = mem_nodes[n].size
                      /\ n \in mem_fds[p] => mem_nodes'[n].links = mem_nodes[n].links + 1
                      /\ n \notin mem_fds[p] => mem_nodes'[n] = mem_nodes[n]
    OBVIOUS
  <2>1. mem_nodes[n] \in [links : Nat, size : 0..MaxShm]
    BY <1>1
  <2>2. CASE n \in mem_fds[p]
    <3>1. mem_nodes'[n] = [mem_nodes[n] EXCEPT !.links = @ + 1]
      BY <2>2
    <3> QED
      BY <2>1, <2>2, <3>1
  <2>3. CASE n \notin mem_fds[p]
    <3>1. mem_nodes'[n] = mem_nodes[n]
      BY <2>3
    <3> QED
      BY <2>1, <2>3, <3>1
  <2> QED
    BY <2>2, <2>3
<1>5. mem_nodes' \in [ShmNodes -> [links : Nat, size : 0..MaxShm]]
  <2>1. mem_nodes' = [n \in ShmNodes |-> mem_nodes'[n]]
    OBVIOUS
  <2> QED
    BY <1>4, <2>1
<1>6. \A n \in mem_fds[p] : n \in ShmNodes /\ mem_nodes[n].links > 0
  <2> SUFFICES ASSUME NEW n \in mem_fds[p]
               PROVE  n \in ShmNodes /\ mem_nodes[n].links > 0
    OBVIOUS
  <2>1. n \in ShmNodes /\ p \in Mem!Openers(n)
    BY <1>1 DEF Mem!Openers
  <2> QED
    BY <1>2, <2>1, FS_EmptySet
<1>7. ASSUME NEW n \in ShmNodes
      PROVE  /\ mem_nodes'[n].links = Cardinality(Mem!Openers(n)')
             /\ mem_nodes'[n].links = 0 => mem_nodes'[n].size = 0
             /\ mem_nodes'[n].links > 0 <=> mem_nodes[n].links > 0
  <2> DEFINE old == Mem!Openers(n)
             new == Mem!Openers(n)'
  <2>1. /\ q \notin old /\ IsFiniteSet(old) /\ Cardinality(old) = mem_nodes[n].links
        /\ mem_nodes[n].links \in Nat
    BY <1>2 DEF Mem!Openers
  <2>2. CASE n \in mem_fds[p]
    <3>1. new = old \cup {q}
      BY <1>3, <2>2 DEF Mem!Openers
    <3> HIDE DEF old, new
    <3>2. Cardinality(new) = Cardinality(old) + 1
      BY <2>1, <3>1, FS_AddElement
    <3>3. mem_nodes'[n].links = mem_nodes[n].links + 1 /\ mem_nodes[n].links > 0
      BY <1>4, <1>6, <2>2
    <3> QED
      BY <2>1, <3>2, <3>3 DEF new
  <2>3. CASE n \notin mem_fds[p]
    <3>1. new = old
      BY <1>3, <2>3 DEF Mem!Openers
    <3> QED
      BY <1>2, <1>4, <2>3, <3>1
  <2> QED
    BY <2>2, <2>3
<1>8. Mem!Linked' = Mem!Linked
  BY <1>7 DEF Mem!Linked
<1>9. Mem!Sized(mem_nodes') = Mem!Sized(mem_nodes)
  BY <1>4 DEF Mem!Sized
<1>10. Mem!ShmIsCounted'
  <2>1. shm'.links = Cardinality(Mem!Linked') /\ Cardinality(Mem!Sized(mem_nodes')) <= Len(shm'.frames)
    BY <1>1, <1>8, <1>9
  <2> QED
    BY <1>7, <2>1, CountsPrime
<1> QED
  BY <1>3, <1>5, <1>10

LEMMA ForkKeeps ==
  ASSUME Mem!MemoryInv, NEW p \in MemProcs, NEW q \in MemProcs \ {p}, Mem!fork(p, q), UNCHANGED kinds
  PROVE  Mem!MemoryInv'
<1> DEFINE cnt == Mem!Cardinality(Mem!Present(p))
           fresh == Mem!Range(Mem!Lowest(cnt))
           new == Mem!Cloned(p)
           copies == {new[v] : v \in Mem!Spans(p, "shm") \cap Mem!Present(p)}
           own == {new[v] : v \in Mem!Present(p)} \ copies
           copy == [i \in DOMAIN mem_blocks[p] |-> [mem_blocks[p][i] EXCEPT !.listed = FALSE]]
<1>1. /\ mem_state[p] = "live" /\ mem_state[q] = "none" /\ q # p /\ q \in MemProcs
      /\ Mem!HasFree(cnt)
      /\ mem_state' = [mem_state EXCEPT ![q] = "live"]
      /\ pt' = [pt EXCEPT ![q] = new]
      /\ used' = used \cup own
      /\ mem_blocks' = [mem_blocks EXCEPT ![q] = copy]
      /\ mem_start' = [mem_start EXCEPT ![q] = mem_start[p]]
      /\ mem_fds' = [mem_fds EXCEPT ![q] = mem_fds[p]]
      /\ mem_nodes' = [n \in ShmNodes |-> IF n \in mem_fds[p] THEN [mem_nodes[n] EXCEPT !.links = @ + 1]
                                          ELSE mem_nodes[n]]
      /\ UNCHANGED <<kinds, shm>>
  BY DEF Mem!fork
<1>2. Mem!TypeOK
  BY DEF Mem!MemoryInv
<1>3. mem_blocks[q] = << >> /\ mem_fds[q] = {} /\ pt[q] = Mem!Empty
  BY <1>1 DEF Mem!MemoryInv, Mem!EndedIsClean
<1>4. /\ new \in [Mem!Pages -> 0..NFrames]
      /\ \A v \in Mem!Pages : new[v] # 0 <=> pt[p][v] # 0
      /\ \A v \in Mem!Pages : new[v] # 0 => new[v] \in fresh
      /\ \A v, w \in Mem!Pages : new[v] # 0 /\ new[v] = new[w] => v = w
      /\ \A f \in fresh : f \in Mem!AllFrames /\ f \notin used /\ \E v \in Mem!Pages : new[v] = f
  <2>1. used \subseteq Mem!AllFrames
    BY <1>2 DEF Mem!TypeOK
  <2>2. new = Mem!Cloned(p)
    OBVIOUS
  <2> HIDE DEF new
  <2> QED
    BY <1>1, <2>1, <2>2, CloneFacts
<1> HIDE DEF new, fresh, cnt
<1>own. /\ own \subseteq fresh
        /\ \A v \in Mem!Pages : v \notin Mem!Spans(p, "shm") /\ new[v] # 0 => new[v] \in own
        /\ \A f \in own : \E v \in Mem!Pages : v \notin Mem!Spans(p, "shm") /\ new[v] = f
  <2>1. \A v \in Mem!Pages : v \in Mem!Present(p) <=> pt[p][v] # 0
    BY DEF Mem!Present
  <2>2. Mem!Present(p) \subseteq Mem!Pages
    BY DEF Mem!Present
  <2>3. own \subseteq fresh
    BY <1>4, <2>1, <2>2
  <2>4. ASSUME NEW v \in Mem!Pages, v \notin Mem!Spans(p, "shm"), new[v] # 0
        PROVE  new[v] \in own
    <3>1. v \in Mem!Present(p)
      BY <1>4, <2>1, <2>4
    <3>2. new[v] \notin copies
      BY <1>4, <2>2, <2>4
    <3> QED
      BY <3>1, <3>2
  <2>5. ASSUME NEW f \in own
        PROVE  \E v \in Mem!Pages : v \notin Mem!Spans(p, "shm") /\ new[v] = f
    BY <2>2, <2>5
  <2> QED
    BY <2>3, <2>4, <2>5
<1> HIDE DEF own, copies
<1>5. /\ mem_state' \in [MemProcs -> {"none", "live", "finished"}] /\ mem_state'[q] = "live"
      /\ \A r \in MemProcs : r # q => mem_state'[r] = mem_state[r]
  BY <1>1, <1>2 DEF Mem!TypeOK
<1>6. /\ pt' \in [MemProcs -> [Mem!Pages -> 0..NFrames]] /\ pt'[q] = new
      /\ \A r \in MemProcs : r # q => pt'[r] = pt[r]
  BY <1>1, <1>2, <1>4 DEF Mem!TypeOK
<1>7. /\ mem_start' \in [MemProcs -> Nat] /\ \A r \in MemProcs : MmapStart <= mem_start'[r]
  <2>1. mem_start \in [MemProcs -> Nat] /\ \A r \in MemProcs : MmapStart <= mem_start[r]
    BY <1>2 DEF Mem!TypeOK, Mem!MemoryInv, Mem!MappingsFit
  <2> QED
    BY <1>1, <2>1
<1>8. /\ copy \in Seq(Mem!Block)
      /\ \A i : i \in DOMAIN copy <=> i \in DOMAIN mem_blocks[p]
      /\ \A i \in DOMAIN mem_blocks[p] : /\ copy[i].kind = mem_blocks[p][i].kind
                                         /\ copy[i].start = mem_blocks[p][i].start
                                         /\ copy[i].len = mem_blocks[p][i].len
  <2>1. mem_blocks[p] \in Seq(Mem!Block)
    BY BlockFacts
  <2>2. ASSUME NEW i \in DOMAIN mem_blocks[p]
        PROVE  /\ copy[i] \in Mem!Block /\ copy[i].kind = mem_blocks[p][i].kind
               /\ copy[i].start = mem_blocks[p][i].start /\ copy[i].len = mem_blocks[p][i].len
    <3> DEFINE b == mem_blocks[p][i]
    <3>1. b \in Mem!Block
      BY <2>1
    <3>2. copy[i] = [b EXCEPT !.listed = FALSE]
      OBVIOUS
    <3> HIDE DEF b, copy
    <3>3. /\ copy[i] \in Mem!Block /\ copy[i].kind = b.kind
          /\ copy[i].start = b.start /\ copy[i].len = b.len
      BY <3>1, <3>2 DEF Mem!Block
    <3> QED
      BY <3>3 DEF b
  <2>3. DOMAIN mem_blocks[p] = 1..Len(mem_blocks[p]) /\ Len(mem_blocks[p]) \in Nat
    BY <2>1
  <2>4. copy \in Seq(Mem!Block)
    <3> DEFINE m == Len(mem_blocks[p])
    <3>1. copy = [i \in 1..m |-> copy[i]] /\ m \in Nat
      BY <2>3
    <3>2. \A i \in 1..m : copy[i] \in Mem!Block
      BY <2>2, <2>3
    <3> HIDE DEF copy, m
    <3>3. copy \in [1..m -> Mem!Block]
      BY <3>1, <3>2
    <3> QED
      BY <3>1, <3>3
  <2>5. \A i : i \in DOMAIN copy <=> i \in DOMAIN mem_blocks[p]
    OBVIOUS
  <2> HIDE DEF copy
  <2> QED
    BY <2>2, <2>4, <2>5
<1> HIDE DEF copy
<1>9. /\ mem_blocks' \in [MemProcs -> Seq(Mem!Block)] /\ mem_blocks'[q] = copy
      /\ \A r \in MemProcs : r # q => mem_blocks'[r] = mem_blocks[r]
  BY <1>1, <1>2, <1>8 DEF Mem!TypeOK
<1> DEFINE like(r) == IF r = q THEN p ELSE r
<1>10. ASSUME NEW r \in MemProcs
       PROVE  /\ like(r) \in MemProcs
              /\ \A i : i \in DOMAIN mem_blocks'[r] <=> i \in DOMAIN mem_blocks[like(r)]
              /\ \A i \in DOMAIN mem_blocks'[r] :
                   LET b == mem_blocks'[r][i]
                       c == mem_blocks[like(r)][i]
                   IN  /\ b.kind = c.kind /\ b.start = c.start /\ b.len = c.len
                       /\ \A v : v \in Mem!Span(b) <=> v \in Mem!Span(c)
              /\ \A v \in Mem!Pages : pt'[r][v] # 0 <=> pt[like(r)][v] # 0
              /\ mem_state'[r] = mem_state[like(r)]
  <2>1. /\ like(r) \in MemProcs
        /\ \A i : i \in DOMAIN mem_blocks'[r] <=> i \in DOMAIN mem_blocks[like(r)]
        /\ \A v \in Mem!Pages : pt'[r][v] # 0 <=> pt[like(r)][v] # 0
        /\ mem_state'[r] = mem_state[like(r)]
    BY <1>1, <1>4, <1>5, <1>6, <1>8, <1>9
  <2>2. ASSUME NEW i \in DOMAIN mem_blocks'[r]
        PROVE  /\ mem_blocks'[r][i].kind = mem_blocks[like(r)][i].kind
               /\ mem_blocks'[r][i].start = mem_blocks[like(r)][i].start
               /\ mem_blocks'[r][i].len = mem_blocks[like(r)][i].len
    BY <1>8, <1>9, <2>1, <2>2
  <2> HIDE DEF like
  <2>3. ASSUME NEW i \in DOMAIN mem_blocks'[r], NEW v
        PROVE  v \in Mem!Span(mem_blocks'[r][i]) <=> v \in Mem!Span(mem_blocks[like(r)][i])
    BY <2>2, SpanFacts
  <2> QED
    BY <2>1, <2>2, <2>3
<1> HIDE DEF like
<1>11. Mem!MappingsFit'
  <2>1. ASSUME NEW r \in MemProcs, NEW i \in DOMAIN mem_blocks'[r]
        PROVE  LET c == mem_blocks'[r][i]
               IN  c.kind \in kinds /\ MmapStart <= c.start /\ c.start + c.len < Top
    <3>1. like(r) \in MemProcs /\ i \in DOMAIN mem_blocks[like(r)]
      BY <1>10, <2>1
    <3>2. LET c == mem_blocks[like(r)][i]
          IN  c.kind \in kinds /\ MmapStart <= c.start /\ c.start + c.len < Top
      BY <3>1, BlockFacts
    <3> QED
      BY <1>10, <2>1, <3>2
  <2> QED
    BY <1>1, <1>7, <2>1 DEF Mem!MappingsFit
<1>12. Mem!EndedIsClean'
  <2>1. \A r \in MemProcs : r # q => mem_fds'[r] = mem_fds[r]
    BY <1>1, <1>2 DEF Mem!TypeOK
  <2> QED
    BY <1>5, <1>6, <1>9, <2>1 DEF Mem!MemoryInv, Mem!EndedIsClean
<1>13. Mem!HeapIsDense'
  <2>1. Mem!HeapIsDense
    BY DEF Mem!MemoryInv
  <2> SUFFICES ASSUME NEW r \in MemProcs
               PROVE  /\ mem_state'[r] = "live" => pt'[r][0] # 0
                      /\ \A v \in 0..(MmapStart - 1) : \A w \in 0..v : pt'[r][v] # 0 => pt'[r][w] # 0
    BY DEF Mem!HeapIsDense
  <2>2. /\ mem_state[like(r)] = "live" => pt[like(r)][0] # 0
        /\ \A v \in 0..(MmapStart - 1) : \A w \in 0..v : pt[like(r)][v] # 0 => pt[like(r)][w] # 0
    BY <1>10, <2>1 DEF Mem!HeapIsDense
  <2>3. \A v \in 0..(MmapStart - 1) : v \in Mem!Pages /\ \A w \in 0..v : w \in Mem!Pages
    BY MemBasics
  <2>4. 0 \in Mem!Pages
    BY MemBasics
  <2>5. mem_state'[r] = "live" => pt'[r][0] # 0
    BY <1>10, <2>2, <2>4
  <2>6. ASSUME NEW v \in 0..(MmapStart - 1), NEW w \in 0..v, pt'[r][v] # 0
        PROVE  pt'[r][w] # 0
    BY <1>10, <2>2, <2>3, <2>6
  <2> QED
    BY <2>5, <2>6
<1>14. ("file" \notin kinds => Mem!MappingsArePresent /\ Mem!MappingsAreDisjoint)'
  <2> SUFFICES ASSUME "file" \notin kinds
               PROVE  Mem!MappingsArePresent' /\ Mem!MappingsAreDisjoint'
    BY <1>1
  <2>1. Mem!MappingsArePresent /\ Mem!MappingsAreDisjoint
    BY DEF Mem!MemoryInv
  <2>2. ASSUME NEW r \in MemProcs, NEW i \in DOMAIN mem_blocks'[r], NEW v \in Mem!Span(mem_blocks'[r][i])
        PROVE  pt'[r][v] # 0
    <3>1. like(r) \in MemProcs /\ i \in DOMAIN mem_blocks[like(r)] /\ v \in Mem!Span(mem_blocks[like(r)][i])
      BY <1>10, <2>2
    <3>2. v \in Mem!Pages
      BY <3>1, BlockFacts
    <3>3. pt[like(r)][v] # 0
      BY <2>1, <3>1 DEF Mem!MappingsArePresent
    <3> QED
      BY <1>10, <3>2, <3>3
  <2>3. ASSUME NEW r \in MemProcs, NEW i \in DOMAIN mem_blocks'[r], NEW j \in DOMAIN mem_blocks'[r],
               i # j, NEW v, v \in Mem!Span(mem_blocks'[r][i]), v \in Mem!Span(mem_blocks'[r][j])
        PROVE  FALSE
    <3>1. /\ like(r) \in MemProcs /\ i \in DOMAIN mem_blocks[like(r)] /\ j \in DOMAIN mem_blocks[like(r)]
          /\ v \in Mem!Span(mem_blocks[like(r)][i]) /\ v \in Mem!Span(mem_blocks[like(r)][j])
      BY <1>10, <2>3
    <3> QED
      BY <2>1, <2>3, <3>1 DEF Mem!MappingsAreDisjoint
  <2>4. Mem!MappingsArePresent'
    BY <2>2 DEF Mem!MappingsArePresent, Mem!Span
  <2>5. Mem!MappingsAreDisjoint'
    <3>1. \A r \in MemProcs : \A i, j \in DOMAIN mem_blocks'[r] :
            i # j => Mem!Span(mem_blocks'[r][i]) \cap Mem!Span(mem_blocks'[r][j]) = {}
      BY <2>3
    <3> QED
      BY <3>1 DEF Mem!MappingsAreDisjoint, Mem!Span
  <2> QED
    BY <2>4, <2>5
<1>15. \A r \in MemProcs, v \in Mem!Pages :
         Mem!Held'[r][v] = IF r # q THEN Mem!Held[r][v]
                           ELSE IF v \in Mem!Spans(p, "shm") THEN 0 ELSE new[v]
  <2> SUFFICES ASSUME NEW r \in MemProcs, NEW v \in Mem!Pages
               PROVE  Mem!Held'[r][v] = IF r # q THEN Mem!Held[r][v]
                                        ELSE IF v \in Mem!Spans(p, "shm") THEN 0 ELSE new[v]
    OBVIOUS
  <2>1. v \in Mem!Spans(r, "shm")' <=> v \in Mem!Spans(like(r), "shm")
    <3>1. v \in Mem!Spans(r, "shm")' <=>
            \E i \in DOMAIN mem_blocks'[r] :
              mem_blocks'[r][i].kind = "shm" /\ v \in Mem!Span(mem_blocks'[r][i])
      BY SpansHas
    <3>2. v \in Mem!Spans(like(r), "shm") <=>
            \E i \in DOMAIN mem_blocks[like(r)] :
              mem_blocks[like(r)][i].kind = "shm" /\ v \in Mem!Span(mem_blocks[like(r)][i])
      BY SpansHas
    <3>3. \A i : i \in DOMAIN mem_blocks'[r] <=> i \in DOMAIN mem_blocks[like(r)]
      BY <1>10
    <3>4. \A i \in DOMAIN mem_blocks'[r] :
            /\ mem_blocks'[r][i].kind = mem_blocks[like(r)][i].kind
            /\ v \in Mem!Span(mem_blocks'[r][i]) <=> v \in Mem!Span(mem_blocks[like(r)][i])
      BY <1>10
    <3> QED
      BY <3>1, <3>2, <3>3, <3>4
  <2> QED
    BY <1>1, <1>6, <2>1, HeldFacts DEF like
<1>16. \A v \in Mem!Pages : Mem!Held[q][v] = 0
  BY <1>1, <1>3, HeldFacts, MemBasics
<1>17. Mem!Own(Mem!Held, shm.frames, used)'
  <2> DEFINE h == Mem!Held
             k == Mem!Held'
             fr == shm.frames
             S == Mem!Spans(p, "shm")
  <2>1. Mem!Own(h, fr, used) /\ 0 \notin used /\ 0 \notin own /\ own \cap used = {}
    BY <1>2, <1>4, <1>own, MemBasics DEF Mem!MemoryInv, Mem!TypeOK
  <2>2. \A r \in MemProcs, v \in Mem!Pages : h[r][v] \notin own
    BY <2>1 DEF Mem!Own
  <2>3. /\ \A r \in MemProcs, v \in Mem!Pages :
             k[r][v] = IF r # q THEN h[r][v] ELSE IF v \in S THEN 0 ELSE new[v]
        /\ \A v \in Mem!Pages : h[q][v] = 0
    BY <1>15, <1>16
  <2>o. /\ \A v \in Mem!Pages : v \notin S /\ new[v] # 0 => new[v] \in own
        /\ \A f \in own : \E v \in Mem!Pages : v \notin S /\ new[v] = f
    BY <1>own
  <2> HIDE DEF h, k, fr, S
  <2>4. \A r \in MemProcs, v \in Mem!Pages : k[r][v] = h[r][v] \/ (h[r][v] = 0 /\ k[r][v] \in own)
    BY <2>3, <2>o
  <2>5. \A r, s \in MemProcs, v, w \in Mem!Pages :
          k[r][v] \in own /\ k[r][v] = k[s][w] => r = s /\ v = w
    <3> SUFFICES ASSUME NEW r \in MemProcs, NEW s \in MemProcs, NEW v \in Mem!Pages, NEW w \in Mem!Pages,
                        k[r][v] \in own, k[r][v] = k[s][w]
                 PROVE  r = s /\ v = w
      OBVIOUS
    <3>1. r = q /\ s = q
      BY <2>2, <2>3
    <3>2. new[v] # 0 /\ new[v] = new[w]
      BY <2>1, <2>3, <3>1
    <3> QED
      BY <1>4, <3>1, <3>2
  <2>6. \A f \in own : \E r \in MemProcs, v \in Mem!Pages : k[r][v] = f
    BY <1>1, <2>3, <2>o
  <2>7. Mem!Own(k, fr, used \cup own)
    BY <2>1, <2>4, <2>5, <2>6, OwnGrows
  <2> QED
    BY <1>1, <2>7 DEF k, fr
<1>18. /\ Mem!ShmIsCounted'
       /\ mem_fds' \in [MemProcs -> SUBSET ShmNodes]
       /\ mem_nodes' \in [ShmNodes -> [links : Nat, size : 0..MaxShm]]
  BY <1>1, <1>3, SharesNodes
<1>19. Mem!TypeOK'
  <2>1. /\ kinds' \in Uses /\ used' \subseteq Mem!AllFrames /\ shm' \in [frames : Seq(Mem!AllFrames), links : Nat]
    BY <1>1, <1>2, <1>4, <1>own DEF Mem!TypeOK
  <2> QED
    BY <1>5, <1>6, <1>7, <1>9, <1>18, <2>1 DEF Mem!TypeOK
<1> QED
  BY <1>11, <1>12, <1>13, <1>14, <1>17, <1>18, <1>19 DEF Mem!MemoryInv

(***************************************************************************)
(* Every step, and what it keeps                                           *)
(***************************************************************************)
LEMMA NextMemory ==
  ASSUME Mem!MemoryInv, Mem!Next
  PROVE  Mem!MemoryInv'
<1>1. UNCHANGED kinds
  BY DEF Mem!Next
<1>2. PICK p \in MemProcs :
       \/ \E kind \in kinds, len \in Lens \cup 1..MaxShm :
            Mem!sys_mmap(p, kind, len) \/ \E v \in FixedAt : Mem!sys_mmap_fixed(p, kind, v, len)
       \/ \E v \in Mem!Pages : Mem!sys_munmap(p, v) \/ Mem!sys_msync(p, v) \/ Mem!handle_pagefault(p, v)
       \/ \E n \in ShmNodes : Mem!shm_open(p, n) \/ Mem!shm_close(p, n)
                              \/ \E size \in 0..MaxShm : Mem!shm_truncate(p, n, size)
       \/ \E q \in MemProcs \ {p} : Mem!fork(p, q)
       \/ Mem!grow_heap(p) \/ Mem!close_file(p) \/ Mem!exec(p) \/ Mem!exit(p) \/ Mem!destroy(p)
  BY DEF Mem!Next
<1>3. CASE \E kind \in kinds, len \in Lens \cup 1..MaxShm :
             Mem!sys_mmap(p, kind, len) \/ \E v \in FixedAt : Mem!sys_mmap_fixed(p, kind, v, len)
  BY <1>1, <1>3, MmapKeeps, MmapFixedKeeps
<1>4. CASE \E v \in Mem!Pages : Mem!sys_munmap(p, v) \/ Mem!sys_msync(p, v) \/ Mem!handle_pagefault(p, v)
  BY <1>1, <1>4, MunmapKeeps, MsyncKeeps, PagefaultKeeps
<1>5. CASE \E n \in ShmNodes : Mem!shm_open(p, n) \/ Mem!shm_close(p, n)
                               \/ \E size \in 0..MaxShm : Mem!shm_truncate(p, n, size)
  BY <1>1, <1>5, ShmOpenKeeps, ShmCloseKeeps, TruncateKeeps
<1>6. CASE \E q \in MemProcs \ {p} : Mem!fork(p, q)
  BY <1>1, <1>6, ForkKeeps
<1>7. CASE Mem!grow_heap(p)
  BY <1>1, <1>7, GrowHeapKeeps
<1>8. CASE Mem!close_file(p)
  <2>1. UNCHANGED <<kinds, mem_state, used, pt, mem_blocks, mem_start, mem_fds, mem_nodes, shm>>
    BY <1>1, <1>8 DEF Mem!close_file
  <2> QED
    BY <2>1, MemStutters
<1>9. CASE Mem!exec(p)
  BY <1>1, <1>9, ExecKeeps
<1>10. CASE Mem!exit(p)
  BY <1>1, <1>10, ExitKeeps
<1>11. CASE Mem!destroy(p)
  BY <1>1, <1>11, DestroyKeeps
<1> QED
  BY <1>2, <1>3, <1>4, <1>5, <1>6, <1>7, <1>8, <1>9, <1>10, <1>11

LEMMA MemPromises ==
  ASSUME Mem!MemoryInv
  PROVE  /\ Mem!OneOwner /\ Mem!NoFrameLost
         /\ "file" \notin kinds => Mem!MappingsAreDisjoint
<1> DEFINE fr == shm.frames
<1>1. /\ Mem!Own(Mem!Held, fr, used) /\ used \subseteq Mem!AllFrames /\ fr \in Seq(Mem!AllFrames)
      /\ 0 \notin Mem!AllFrames
  BY ShmFacts, MemBasics DEF Mem!MemoryInv, Mem!TypeOK
<1>2. ASSUME NEW f \in Mem!AllFrames
      PROVE  /\ Mem!Owners(f) <= (IF f \in used THEN 1 ELSE 0)
             /\ f \in used => Mem!Owners(f) > 0
  <2> DEFINE A == {pv \in MemProcs \X Mem!Pages :
                     pt[pv[1]][pv[2]] = f /\ pv[2] \notin Mem!Spans(pv[1], "shm")}
             B == {i \in DOMAIN fr : fr[i] = f}
  <2>1. Mem!Owners(f) = Cardinality(A) + Cardinality(B)
    BY MemCounts DEF Mem!Owners
  <2>2. f # 0
    BY <1>1
  <2>3. \A p \in MemProcs, v \in Mem!Pages : <<p, v>> \in A <=> Mem!Held[p][v] = f
    BY <2>2, HeldFacts
  <2>4. \A x \in A : \E p \in MemProcs, v \in Mem!Pages : x = <<p, v>>
    OBVIOUS
  <2>5. \A i : i \in B <=> i \in DOMAIN fr /\ fr[i] = f
    OBVIOUS
  <2> HIDE DEF A, B, fr
  <2>6. \A x, y \in A : x = y
    BY <1>1, <2>2, <2>3, <2>4 DEF Mem!Own
  <2>7. \A i, j \in B : i = j
    BY <1>1, <2>5 DEF Mem!Own
  <2>8. A = {} \/ B = {}
    BY <1>1, <2>3, <2>4, <2>5 DEF Mem!Own
  <2>9. f \in used <=> A # {} \/ B # {}
    <3>1. f \in used => (\E p \in MemProcs, v \in Mem!Pages : Mem!Held[p][v] = f) \/ (\E i \in DOMAIN fr : fr[i] = f)
      BY <1>1 DEF Mem!Own
    <3>2. f \in used => A # {} \/ B # {}
      BY <2>3, <2>5, <3>1
    <3>3. B # {} => f \in used
      BY <1>1, <2>5 DEF Mem!Own
    <3>4. A # {} => f \in used
      <4>1. \A p \in MemProcs, v \in Mem!Pages : Mem!Held[p][v] = f => f \in used
        BY <1>1, <2>2 DEF Mem!Own
      <4> QED
        BY <2>3, <2>4, <4>1
    <3> QED
      BY <3>2, <3>3, <3>4
  <2>10. Cardinality({}) = 0
    BY FS_EmptySet
  <2>11. A # {} => Cardinality(A) = 1
    <3>1. A # {} => \E x : A = {x}
      BY <2>6
    <3> QED
      BY <3>1, FS_Singleton
  <2>12. B # {} => Cardinality(B) = 1
    <3>1. B # {} => \E x : B = {x}
      BY <2>7
    <3> QED
      BY <3>1, FS_Singleton
  <2> QED
    BY <2>1, <2>8, <2>9, <2>10, <2>11, <2>12
<1>3. Mem!OneOwner
  BY <1>2 DEF Mem!OneOwner
<1>4. Mem!NoFrameLost
  BY <1>1, <1>2 DEF Mem!NoFrameLost
<1> QED
  BY <1>3, <1>4 DEF Mem!MemoryInv

(***************************************************************************)
(* The kernel heap                                                         *)
(***************************************************************************)

LEMMA HeapBasics ==
  /\ Header \in Nat /\ Header > 0 /\ Pointer \in Nat /\ Pointer > 0 /\ Page \in Nat /\ Page > 0
  /\ Sizes \subseteq Nat \ {0} /\ Alignments \subseteq Nat \ {0}
  /\ InitialSize \in Nat /\ InitialSize > Header /\ HeapEnd \in Nat /\ HeapEnd >= InitialSize
BY KernelAssumption DEF Hp!HeapAssumption

LEMMA HeapBlockFacts ==
  ASSUME NEW b \in Hp!Blocks
  PROVE  /\ b.addr \in Nat /\ b.size \in Nat /\ b.free \in BOOLEAN
         /\ Hp!End(b) = b.addr + Header + b.size /\ Hp!End(b) \in Nat
         /\ Hp!M_MEMORY(b) = b.addr + Header
BY HeapBasics DEF Hp!Blocks, Hp!End, Hp!M_MEMORY

LEMMA TileFacts ==
  ASSUME NEW B, NEW e, Hp!Tiles(B, e)
  PROVE  /\ B \in Seq(Hp!Blocks) /\ Len(B) \in Nat /\ Len(B) > 0 /\ B[1].addr = 0
         /\ \A i \in 1..Len(B) : B[i] \in Hp!Blocks /\ B[i].size > 0 /\ B[i].addr \in Nat /\ B[i].size \in Nat
         /\ \A i \in 2..Len(B) : B[i].addr = Hp!End(B[i - 1])
         /\ Hp!End(B[Len(B)]) = e
<1>1. B \in Seq(Hp!Blocks)
  BY DEF Hp!Tiles
<1>2. Len(B) \in Nat /\ \A i \in 1..Len(B) : B[i] \in Hp!Blocks
  BY <1>1
<1>3. \A i \in 1..Len(B) : B[i].addr \in Nat /\ B[i].size \in Nat
  BY <1>2, HeapBlockFacts
<1> QED
  BY <1>1, <1>2, <1>3 DEF Hp!Tiles

(* Blocks lie in the order of the list, and an address tells which one.    *)
LEMMA TilesAreOrdered ==
  ASSUME NEW B, NEW e, Hp!Tiles(B, e)
  PROVE  /\ \A j \in 1..Len(B) : \A i \in 1..(j - 1) : Hp!End(B[i]) <= B[j].addr
         /\ \A i, j \in 1..Len(B) : B[i].addr = B[j].addr => i = j
<1>1. /\ Len(B) \in Nat
      /\ \A i \in 1..Len(B) : B[i] \in Hp!Blocks /\ B[i].size > 0 /\ B[i].addr \in Nat /\ B[i].size \in Nat
      /\ \A i \in 2..Len(B) : B[i].addr = Hp!End(B[i - 1])
  BY TileFacts
<1>2. \A i \in 1..Len(B) : Hp!End(B[i]) = B[i].addr + Header + B[i].size /\ Hp!End(B[i]) \in Nat /\ Hp!End(B[i]) > B[i].addr
  BY <1>1, HeapBlockFacts, HeapBasics
<1> DEFINE Bad == {j \in 1..Len(B) : \E i \in 1..(j - 1) : ~(Hp!End(B[i]) <= B[j].addr)}
<1>3. Bad = {}
  <2> SUFFICES ASSUME Bad # {}
               PROVE  FALSE
    OBVIOUS
  <2>1. Bad \subseteq Nat
    OBVIOUS
  <2>2. PICK j \in Bad : \A l \in Bad : j <= l
    <3> HIDE DEF Bad
    <3> QED
      BY <2>1, LeastElement
  <2>3. j \in 1..Len(B)
    OBVIOUS
  <2>4. PICK i \in 1..(j - 1) : ~(Hp!End(B[i]) <= B[j].addr)
    OBVIOUS
  <2>5. j \in 2..Len(B) /\ j - 1 \in 1..Len(B) /\ i \in 1..Len(B)
    <3>1. \A n \in Nat : \A k \in 1..n : \A l \in 1..(k - 1) : k \in 2..n /\ k - 1 \in 1..n /\ l \in 1..n
      OBVIOUS
    <3> HIDE DEF Bad
    <3>2. Len(B) \in Nat
      BY <1>1
    <3> QED
      BY <2>3, <2>4, <3>1, <3>2, Zenon
  <2>6. B[j].addr = Hp!End(B[j - 1])
    BY <1>1, <2>5
  <2>7. i # j - 1
    <3> HIDE DEF Bad
    <3>1. Hp!End(B[j - 1]) \in Nat
      BY <1>2, <2>5
    <3> QED
      BY <2>4, <2>6, <3>1
  <2>8. j - 1 \notin Bad
    <3> HIDE DEF Bad
    <3> QED
      BY <2>1, <2>2, <2>3
  <2>9. i \in 1..(j - 1 - 1)
    BY <2>3, <2>4, <2>7
  <2>10. Hp!End(B[i]) <= B[j - 1].addr
    BY <2>5, <2>8, <2>9
  <2> HIDE DEF Bad
  <2>11. Hp!End(B[i]) \in Nat /\ Hp!End(B[j - 1]) \in Nat /\ Hp!End(B[j - 1]) > B[j - 1].addr /\ B[j - 1].addr \in Nat
    BY <1>1, <1>2, <2>5
  <2> QED
    BY <2>4, <2>6, <2>10, <2>11
<1>4. \A j \in 1..Len(B) : \A i \in 1..(j - 1) : Hp!End(B[i]) <= B[j].addr
  BY <1>3
<1> HIDE DEF Bad
<1>5. ASSUME NEW i \in 1..Len(B), NEW j \in 1..Len(B), i < j
      PROVE  B[i].addr # B[j].addr
  <2>1. i \in 1..(j - 1)
    BY <1>1, <1>5
  <2>2. Hp!End(B[i]) <= B[j].addr
    BY <1>4, <2>1
  <2>3. Hp!End(B[i]) > B[i].addr /\ Hp!End(B[i]) \in Nat /\ B[i].addr \in Nat /\ B[j].addr \in Nat
    BY <1>1, <1>2
  <2> QED
    BY <2>2, <2>3
<1>6. ASSUME NEW i \in 1..Len(B), NEW j \in 1..Len(B), B[i].addr = B[j].addr
      PROVE  i = j
  <2>1. ~(i < j) /\ ~(j < i)
    BY <1>5, <1>6
  <2> QED
    BY <1>1, <2>1
<1> QED
  BY <1>4, <1>6

LEMMA UsedFacts ==
  ASSUME NEW B \in Seq(Hp!Blocks)
  PROVE  \A b : b \in Hp!Used(B) <=> ~b.free /\ \E i \in 1..Len(B) : B[i] = b
<1>1. DOMAIN B = 1..Len(B)
  OBVIOUS
<1> QED
  BY <1>1, Zenon DEF Hp!Used, Hp!Range

(* The states of the walk of __mem_merge over a list.                      *)
Start == [joined |-> FALSE, list |-> << >>]
Walked(B, m, h) == \A k \in 0..m : h[k] = IF k = 0 THEN Start ELSE Hp!JoinNext(h[k - 1], B[k])

LEMMA WalkExists ==
  ASSUME NEW B, NEW K \in Nat
  PROVE  \E h : h = [k \in 0..K |-> h[k]] /\ Walked(B, K, h)
<1> DEFINE Good(m, h) == h = [k \in 0..m |-> h[k]] /\ Walked(B, m, h)
           Bad == {m \in Nat : ~\E h : Good(m, h)}
<1>1. SUFFICES ASSUME Bad # {}
               PROVE  FALSE
  OBVIOUS
<1>2. PICK m \in Bad : \A l \in Bad : m <= l
  <2>1. Bad \subseteq Nat
    OBVIOUS
  <2> HIDE DEF Bad
  <2> QED
    BY <1>1, <2>1, LeastElement
<1>3. m # 0
  <2> SUFFICES ASSUME m = 0
               PROVE  FALSE
    OBVIOUS
  <2> DEFINE h == [k \in 0..0 |-> Start]
  <2>1. Good(0, h)
    BY DEF Walked
  <2> HIDE DEF Good
  <2> QED
    BY <1>2, <2>1
<1>4. m - 1 \in Nat /\ m - 1 \notin Bad
  <2>1. m \in Nat
    OBVIOUS
  <2> HIDE DEF Bad
  <2> QED
    BY <1>2, <1>3, <2>1
<1>5. PICK g : Good(m - 1, g)
  <2> HIDE DEF Good
  <2> QED
    BY <1>4, Zenon
<1> DEFINE h == [k \in 0..m |-> IF k = m THEN Hp!JoinNext(g[m - 1], B[m]) ELSE g[k]]
<1>6. \A k \in 0..m : h[k] = IF k = 0 THEN Start ELSE Hp!JoinNext(h[k - 1], B[k])
  <2>1. m \in Nat \ {0} /\ \A k \in 0..(m - 1) : g[k] = IF k = 0 THEN Start ELSE Hp!JoinNext(g[k - 1], B[k])
    BY <1>3, <1>5 DEF Walked
  <2>2. \A k \in 0..m : h[k] = IF k = m THEN Hp!JoinNext(g[m - 1], B[m]) ELSE g[k]
    OBVIOUS
  <2> HIDE DEF h, Good, Bad
  <2> SUFFICES ASSUME NEW k \in 0..m
               PROVE  h[k] = IF k = 0 THEN Start ELSE Hp!JoinNext(h[k - 1], B[k])
    OBVIOUS
  <2>3. CASE k = m
    <3>1. h[k - 1] = g[m - 1] /\ k # 0
      BY <2>1, <2>2, <2>3
    <3> QED
      BY <2>2, <2>3, <3>1
  <2>4. CASE k # m
    <3>1. k \in 0..(m - 1) /\ h[k] = g[k] /\ (k # 0 => h[k - 1] = g[k - 1])
      BY <2>1, <2>2, <2>4
    <3>2. g[k] = IF k = 0 THEN Start ELSE Hp!JoinNext(g[k - 1], B[k])
      BY <2>1, <3>1
    <3> QED
      BY <3>1, <3>2
  <2> QED
    BY <2>3, <2>4
<1>7. Good(m, h)
  <2>1. h = [k \in 0..m |-> h[k]]
    OBVIOUS
  <2> HIDE DEF h
  <2> QED
    BY <1>6, <2>1 DEF Walked
<1> HIDE DEF Good, h
<1> QED
  BY <1>2, <1>7

LEMMA MergeIsWalk ==
  ASSUME NEW B, Len(B) \in Nat
  PROVE  \E h : Walked(B, Len(B), h) /\ Hp!__mem_merge(B) = h[Len(B)].list
<1> DEFINE F(w) == [k \in 0..Len(B) |-> IF k = 0 THEN Start ELSE Hp!JoinNext(w[k - 1], B[k])]
           h == CHOOSE w : w = F(w)
<1>1. PICK g : g = [k \in 0..Len(B) |-> g[k]] /\ Walked(B, Len(B), g)
  BY WalkExists
<1>2. g = F(g)
  <2>1. \A k \in 0..Len(B) : g[k] = IF k = 0 THEN Start ELSE Hp!JoinNext(g[k - 1], B[k])
    BY <1>1 DEF Walked
  <2>2. [k \in 0..Len(B) |-> g[k]] = F(g)
    BY <2>1
  <2> HIDE DEF F
  <2> QED
    BY <1>1, <2>2
<1>3. h = F(h)
  <2> HIDE DEF F
  <2> QED
    BY <1>2
<1>4. Walked(B, Len(B), h)
  <2> HIDE DEF h
  <2>1. \A k \in 0..Len(B) : F(h)[k] = IF k = 0 THEN Start ELSE Hp!JoinNext(h[k - 1], B[k])
    OBVIOUS
  <2> HIDE DEF F
  <2> QED
    BY <1>3, <2>1 DEF Walked
<1>5. Hp!__mem_merge(B) = h[Len(B)].list
  BY DEF Hp!__mem_merge, Start
<1> HIDE DEF h
<1> QED
  BY <1>4, <1>5

(* What the walk has made of the first k blocks: a list that tiles the     *)
(* same memory and has the same used blocks.  Where two free blocks still  *)
(* meet, the first had just taken in another one.                          *)
SameUsed(B, k, L) == \A b \in Hp!Blocks : ~b.free => ((\E i \in 1..Len(L) : L[i] = b) <=> (\E i \in 1..k : B[i] = b))
Stem(B, k, L) == \A m \in 1..Len(L) : \E i \in 1..k : L[m].addr = B[i].addr
Gone(B, i, L) == \A m \in 1..Len(L) : L[m].addr # B[i].addr
Survive(B, k, L) ==
  \A j \in 2..Len(L) : Hp!Meet(L, j) =>
    \E i \in 3..k : L[j].addr = B[i].addr /\ Hp!Meet(B, i) /\ Hp!Meet(B, i - 1) /\ Gone(B, i - 1, L)
LastOf(B, k, s) ==
  IF s.joined THEN k >= 2 /\ s.list[Len(s.list)].free /\ Hp!Meet(B, k) /\ Gone(B, k, s.list)
  ELSE s.list[Len(s.list)] = B[k]
Reached(B, k, s) ==
  /\ s.joined \in BOOLEAN /\ Hp!Tiles(s.list, Hp!End(B[k]))
  /\ SameUsed(B, k, s.list) /\ Stem(B, k, s.list) /\ LastOf(B, k, s) /\ Survive(B, k, s.list)

LEMMA WalkBegins ==
  ASSUME NEW B, NEW e, Hp!Tiles(B, e)
  PROVE  Reached(B, 1, Hp!JoinNext(Start, B[1]))
<1> DEFINE s == Hp!JoinNext(Start, B[1])
<1>1. B[1] \in Hp!Blocks /\ B[1].size > 0 /\ B[1].addr = 0 /\ Len(B) \in Nat /\ Len(B) > 0
  BY TileFacts
<1>2. s = [joined |-> FALSE, list |-> <<B[1]>>]
  BY DEF Hp!JoinNext, Start
<1>3. s.joined = FALSE /\ s.list = <<B[1]>>
  BY <1>2
<1> HIDE DEF s
<1>4. s.list \in Seq(Hp!Blocks) /\ Len(s.list) = 1 /\ s.list[1] = B[1]
  BY <1>1, <1>3
<1>5. Hp!Tiles(s.list, Hp!End(B[1]))
  BY <1>1, <1>4 DEF Hp!Tiles
<1>6. SameUsed(B, 1, s.list)
  BY <1>4 DEF SameUsed
<1>7. Stem(B, 1, s.list)
  BY <1>4 DEF Stem
<1>8. LastOf(B, 1, s)
  BY <1>3, <1>4 DEF LastOf
<1>9. Survive(B, 1, s.list)
  BY <1>4 DEF Survive
<1>10. Reached(B, 1, s)
  BY <1>3, <1>5, <1>6, <1>7, <1>8, <1>9 DEF Reached
<1> QED
  BY <1>10 DEF s

LEMMA Resized ==
  ASSUME NEW x \in Hp!Blocks, NEW y \in Nat
  PROVE  [x EXCEPT !.size = y] = [addr |-> x.addr, size |-> y, free |-> x.free]
BY SMT DEF Hp!Blocks

LEMMA JoinedEnd ==
  ASSUME NEW x \in Hp!Blocks, NEW y \in Hp!Blocks, NEW z, y.addr = Hp!End(x), z.addr = x.addr,
         z.size = x.size + Header + y.size
  PROVE  Hp!End(z) = Hp!End(y)
<1>1. x.addr \in Nat /\ x.size \in Nat /\ y.size \in Nat /\ Header \in Nat
  BY HeapBlockFacts, HeapBasics
<1>2. Hp!End(z) = x.addr + Header + (x.size + Header + y.size)
  BY DEF Hp!End
<1>3. Hp!End(y) = (x.addr + Header + x.size) + Header + y.size
  BY DEF Hp!End
<1> QED
  BY <1>1, <1>2, <1>3

(* The step that joins.                                                    *)
LEMMA WalkJoins ==
  ASSUME NEW B, NEW e, Hp!Tiles(B, e), NEW k \in 1..(Len(B) - 1), NEW s, Reached(B, k, s),
         ~s.joined, s.list[Len(s.list)].free, B[k + 1].free
  PROVE  Reached(B, k + 1, Hp!JoinNext(s, B[k + 1]))
<1> DEFINE L == s.list
           n == Len(L)
           c == B[k + 1]
           b == [addr |-> B[k].addr, size |-> B[k].size + Header + c.size, free |-> TRUE]
           M == [L EXCEPT ![n] = b]
           t == Hp!JoinNext(s, c)
<1>1. /\ Len(B) \in Nat /\ k \in 1..Len(B) /\ k + 1 \in 1..Len(B) /\ k + 1 \in 2..Len(B) /\ k + 1 - 1 = k
      /\ k \in Nat
  BY TileFacts
<1>2. /\ B[k] \in Hp!Blocks /\ c \in Hp!Blocks /\ B[k].size > 0 /\ c.size > 0 /\ c.addr = Hp!End(B[k])
      /\ B[k].addr \in Nat /\ B[k].size \in Nat /\ c.addr \in Nat /\ c.size \in Nat
  BY <1>1, TileFacts
<1>3. /\ Hp!Tiles(L, Hp!End(B[k])) /\ SameUsed(B, k, L) /\ Stem(B, k, L) /\ Survive(B, k, L)
      /\ L[n] = B[k] /\ s.joined = FALSE
  BY DEF Reached, LastOf
<1>4. /\ L \in Seq(Hp!Blocks) /\ n \in Nat /\ n > 0 /\ L[1].addr = 0
      /\ \A i \in 1..n : L[i] \in Hp!Blocks /\ L[i].size > 0
      /\ \A i \in 2..n : L[i].addr = Hp!End(L[i - 1])
  BY <1>3, TileFacts
<1>5. t = [joined |-> TRUE, list |-> M]
  <2>1. [L EXCEPT ![n].size = @ + Header + c.size] = M
    <3>1. [L[n] EXCEPT !.size = @ + Header + c.size] = b
      <4>1. B[k].free = TRUE
        BY <1>2, <1>3 DEF Hp!Blocks
      <4>2. B[k].size + Header + c.size \in Nat
        BY <1>2, HeapBasics
      <4>3. [B[k] EXCEPT !.size = B[k].size + Header + c.size]
              = [addr |-> B[k].addr, size |-> B[k].size + Header + c.size, free |-> B[k].free]
        BY <1>2, <4>2, Resized
      <4>4. [B[k] EXCEPT !.size = B[k].size + Header + c.size] = b
        BY <4>1, <4>3, Zenon
      <4> QED
        BY <1>3, <4>4
    <3> HIDE DEF b, c
    <3> QED
      BY <3>1
  <2>2. Hp!End(L[n]) = c.addr /\ L[n].free /\ c.free /\ ~s.joined /\ n > 0
    BY <1>2, <1>3, <1>4
  <2> HIDE DEF M, c
  <2> QED
    BY <2>1, <2>2 DEF Hp!JoinNext
<1>6. t.joined = TRUE /\ t.list = M
  BY <1>5
<1>7. b \in Hp!Blocks /\ b.size > 0 /\ b.addr = B[k].addr /\ b.free = TRUE /\ Hp!End(b) = Hp!End(c)
  <2>1. b.addr = B[k].addr /\ b.free = TRUE /\ b.size = B[k].size + Header + c.size
    OBVIOUS
  <2>2. b.size \in Nat /\ b.size > 0
    BY <1>2, <2>1, HeapBasics
  <2>3. b \in Hp!Blocks
    BY <1>2, <2>2 DEF Hp!Blocks
  <2>5. Hp!End(b) = Hp!End(c)
    BY <1>2, <2>1, JoinedEnd
  <2> HIDE DEF b, c
  <2> QED
    BY <2>1, <2>2, <2>3, <2>5
<1> HIDE DEF t, b, c
<1>8. /\ M \in Seq(Hp!Blocks) /\ Len(M) = n
      /\ \A i \in 1..n : M[i] = IF i = n THEN b ELSE L[i]
  BY <1>4, <1>7
<1> HIDE DEF M, L, n
<1>9. \A i \in 1..n : M[i].addr = L[i].addr
  BY <1>3, <1>4, <1>7, <1>8
<1>10. \A i \in 1..n : M[i].free <=> L[i].free
  BY <1>3, <1>4, <1>7, <1>8, Zenon DEF L, n
<1>11. Hp!Tiles(M, Hp!End(c))
  <2>1. M[1].addr = 0
    BY <1>4, <1>9
  <2>2. ASSUME NEW i \in 2..n
        PROVE  M[i].addr = Hp!End(M[i - 1])
    <3>1. i \in 1..n /\ i - 1 \in 1..n /\ i - 1 # n
      BY <1>4
    <3> QED
      BY <1>4, <1>8, <1>9, <3>1
  <2>3. Hp!End(M[n]) = Hp!End(c)
    <3>1. M[n] = b
      BY <1>4, <1>8
    <3> QED
      BY <1>7, <3>1
  <2>4. \A i \in 1..n : M[i].size > 0
    <3>1. \A i \in 1..n : L[i].size > 0
      BY <1>4
    <3> QED
      BY <1>7, <1>8, <3>1
  <2> QED
    BY <1>4, <1>8, <2>1, <2>2, <2>3, <2>4 DEF Hp!Tiles
<1>12. SameUsed(B, k + 1, M)
  <2> SUFFICES ASSUME NEW x \in Hp!Blocks, ~x.free
               PROVE  (\E i \in 1..n : M[i] = x) <=> (\E i \in 1..(k + 1) : B[i] = x)
    BY <1>8 DEF SameUsed
  <2>1. (\E i \in 1..n : L[i] = x) <=> (\E i \in 1..k : B[i] = x)
    BY <1>3 DEF SameUsed, L, n
  <2>2. x # b /\ x # c /\ x # L[n]
    BY <1>7 DEF c, L, n
  <2>3. (\E i \in 1..n : M[i] = x) <=> (\E i \in 1..n : L[i] = x)
    BY <1>8, <2>2
  <2>4. (\E i \in 1..(k + 1) : B[i] = x) <=> (\E i \in 1..k : B[i] = x)
    <3>1. \A i \in 1..(k + 1) : i \in 1..k \/ i = k + 1
      BY <1>1
    <3>2. \A i \in 1..k : i \in 1..(k + 1)
      BY <1>1
    <3> QED
      BY <2>2, <3>1, <3>2 DEF c
  <2> QED
    BY <2>1, <2>3, <2>4
<1>13. Stem(B, k + 1, M)
  <2> SUFFICES ASSUME NEW m \in 1..n
               PROVE  \E i \in 1..(k + 1) : M[m].addr = B[i].addr
    BY <1>8 DEF Stem
  <2>1. PICK i \in 1..k : L[m].addr = B[i].addr
    BY <1>3 DEF Stem, L, n
  <2> QED
    BY <1>1, <1>9, <2>1
<1>14. \A i : Gone(B, i, M) <=> Gone(B, i, L)
  BY <1>8, <1>9 DEF Gone, n
<1>15. Gone(B, k + 1, M)
  <2> SUFFICES ASSUME NEW m \in 1..n
               PROVE  M[m].addr # B[k + 1].addr
    BY <1>8 DEF Gone
  <2>1. PICK i \in 1..k : L[m].addr = B[i].addr
    BY <1>3 DEF Stem, L, n
  <2>2. i \in 1..Len(B) /\ i # k + 1
    BY <1>1
  <2> QED
    BY <1>1, <1>9, <2>1, <2>2, TilesAreOrdered
<1>16. LastOf(B, k + 1, t)
  <2>1. M[n].free
    BY <1>4, <1>7, <1>8
  <2>2. Hp!Meet(B, k + 1)
    BY <1>1, <1>3 DEF Hp!Meet, L, n
  <2> QED
    BY <1>1, <1>6, <1>8, <1>15, <2>1, <2>2 DEF LastOf
<1>17. Survive(B, k + 1, M)
  <2> SUFFICES ASSUME NEW j \in 2..n, Hp!Meet(M, j)
               PROVE  \E i \in 3..(k + 1) : /\ M[j].addr = B[i].addr /\ Hp!Meet(B, i)
                                            /\ Hp!Meet(B, i - 1) /\ Gone(B, i - 1, M)
    BY <1>8 DEF Survive
  <2>1. Hp!Meet(L, j)
    <3>1. j \in 1..n /\ j - 1 \in 1..n
      BY <1>4
    <3> QED
      BY <1>10, <3>1 DEF Hp!Meet
  <2>2. PICK i \in 3..k : L[j].addr = B[i].addr /\ Hp!Meet(B, i) /\ Hp!Meet(B, i - 1) /\ Gone(B, i - 1, L)
    BY <1>3, <2>1 DEF Survive, L, n
  <2>3. i \in 3..(k + 1) /\ M[j].addr = B[i].addr
    BY <1>1, <1>4, <1>9, <2>2
  <2> QED
    BY <1>14, <2>2, <2>3
<1>18. Reached(B, k + 1, t)
  BY <1>6, <1>11, <1>12, <1>13, <1>16, <1>17 DEF Reached, c
<1> QED
  BY <1>18 DEF t, c

(* The step that goes on to the next block.                                *)
LEMMA WalkAppends ==
  ASSUME NEW B, NEW e, Hp!Tiles(B, e), NEW k \in 1..(Len(B) - 1), NEW s, Reached(B, k, s),
         ~(~s.joined /\ s.list[Len(s.list)].free /\ B[k + 1].free)
  PROVE  Reached(B, k + 1, Hp!JoinNext(s, B[k + 1]))
<1> DEFINE L == s.list
           n == Len(L)
           c == B[k + 1]
           M == Append(L, c)
           t == Hp!JoinNext(s, c)
<1>1. /\ Len(B) \in Nat /\ k \in 1..Len(B) /\ k + 1 \in 1..Len(B) /\ k + 1 \in 2..Len(B) /\ k + 1 - 1 = k
      /\ k \in Nat
  BY TileFacts
<1>2. /\ B[k] \in Hp!Blocks /\ c \in Hp!Blocks /\ c.size > 0 /\ c.addr = Hp!End(B[k])
  BY <1>1, TileFacts
<1>3. /\ Hp!Tiles(L, Hp!End(B[k])) /\ SameUsed(B, k, L) /\ Stem(B, k, L) /\ Survive(B, k, L)
      /\ LastOf(B, k, s)
  BY DEF Reached
<1>4. /\ L \in Seq(Hp!Blocks) /\ n \in Nat /\ n > 0 /\ L[1].addr = 0 /\ Hp!End(L[n]) = Hp!End(B[k])
      /\ \A i \in 1..n : L[i] \in Hp!Blocks /\ L[i].size > 0
      /\ \A i \in 2..n : L[i].addr = Hp!End(L[i - 1])
  BY <1>3, TileFacts
<1>5. t = [joined |-> FALSE, list |-> M]
  <2> HIDE DEF M, c
  <2> QED
    BY DEF Hp!JoinNext, M, c
<1>6. t.joined = FALSE /\ t.list = M
  BY <1>5
<1> HIDE DEF t, c
<1>7. /\ M \in Seq(Hp!Blocks) /\ Len(M) = n + 1 /\ M[n + 1] = c
      /\ \A i \in 1..n : M[i] = L[i]
  BY <1>2, <1>4
<1> HIDE DEF M, L, n
<1>8. \A i \in 1..(n + 1) : i \in 1..n \/ i = n + 1
  BY <1>4
<1>9. Hp!Tiles(M, Hp!End(c))
  <2>1. M[1].addr = 0
    BY <1>4, <1>7
  <2>2. ASSUME NEW i \in 2..(n + 1)
        PROVE  M[i].addr = Hp!End(M[i - 1])
    <3>1. i - 1 \in 1..n /\ (i = n + 1 \/ i \in 2..n) /\ (i = n + 1 => i - 1 = n)
      BY <1>4
    <3>2. CASE i = n + 1
      BY <1>2, <1>4, <1>7, <3>1, <3>2
    <3>3. CASE i \in 2..n
      <4>1. i \in 1..n /\ M[i] = L[i] /\ M[i - 1] = L[i - 1]
        BY <1>4, <1>7, <3>1, <3>3
      <4> QED
        BY <1>4, <3>3, <4>1
    <3> QED
      BY <3>1, <3>2, <3>3
  <2>3. \A i \in 1..(n + 1) : M[i].size > 0
    BY <1>2, <1>4, <1>7, <1>8
  <2> QED
    BY <1>4, <1>7, <2>1, <2>2, <2>3 DEF Hp!Tiles
<1>10. SameUsed(B, k + 1, M)
  <2> SUFFICES ASSUME NEW x \in Hp!Blocks, ~x.free
               PROVE  (\E i \in 1..(n + 1) : M[i] = x) <=> (\E i \in 1..(k + 1) : B[i] = x)
    BY <1>7 DEF SameUsed
  <2>1. (\E i \in 1..n : L[i] = x) <=> (\E i \in 1..k : B[i] = x)
    BY <1>3 DEF SameUsed, L, n
  <2>2. (\E i \in 1..(n + 1) : M[i] = x) <=> (\E i \in 1..n : L[i] = x) \/ c = x
    <3>1. n + 1 \in 1..(n + 1) /\ \A i \in 1..n : i \in 1..(n + 1)
      BY <1>4
    <3> QED
      BY <1>7, <1>8, <3>1
  <2>3. (\E i \in 1..(k + 1) : B[i] = x) <=> (\E i \in 1..k : B[i] = x) \/ c = x
    <3>1. \A i \in 1..(k + 1) : i \in 1..k \/ i = k + 1
      BY <1>1
    <3>2. k + 1 \in 1..(k + 1) /\ \A i \in 1..k : i \in 1..(k + 1)
      BY <1>1
    <3> QED
      BY <3>1, <3>2 DEF c
  <2> QED
    BY <2>1, <2>2, <2>3
<1>11. Stem(B, k + 1, M)
  <2> SUFFICES ASSUME NEW m \in 1..(n + 1)
               PROVE  \E i \in 1..(k + 1) : M[m].addr = B[i].addr
    BY <1>7 DEF Stem
  <2>1. CASE m = n + 1
    BY <1>1, <1>7, <2>1 DEF c
  <2>2. CASE m \in 1..n
    <3>1. PICK i \in 1..k : L[m].addr = B[i].addr
      BY <1>3, <2>2 DEF Stem, L, n
    <3>2. i \in 1..(k + 1) /\ M[m] = L[m]
      BY <1>1, <1>7, <2>2
    <3> QED
      BY <3>1, <3>2
  <2> QED
    BY <1>8, <2>1, <2>2
<1>12. ASSUME NEW i \in 1..k, Gone(B, i, L)
       PROVE  Gone(B, i, M)
  <2> SUFFICES ASSUME NEW m \in 1..(n + 1)
               PROVE  M[m].addr # B[i].addr
    BY <1>7 DEF Gone
  <2>1. CASE m = n + 1
    <3>1. i \in 1..Len(B) /\ i # k + 1
      BY <1>1
    <3>2. B[k + 1].addr # B[i].addr
      BY <1>1, <3>1, TilesAreOrdered
    <3> QED
      BY <1>7, <2>1, <3>2 DEF c
  <2>2. CASE m \in 1..n
    <3>1. M[m] = L[m]
      BY <1>7, <2>2
    <3>2. L[m].addr # B[i].addr
      BY <1>12, <2>2 DEF Gone, L, n
    <3> QED
      BY <3>1, <3>2
  <2> QED
    BY <1>8, <2>1, <2>2
<1>13. LastOf(B, k + 1, t)
  <2>1. t.list[Len(t.list)] = c /\ ~t.joined
    BY <1>6, <1>7
  <2> QED
    BY <2>1 DEF LastOf, c
<1>14. Survive(B, k + 1, M)
  <2> SUFFICES ASSUME NEW j \in 2..(n + 1), Hp!Meet(M, j)
               PROVE  \E i \in 3..(k + 1) : /\ M[j].addr = B[i].addr /\ Hp!Meet(B, i)
                                            /\ Hp!Meet(B, i - 1) /\ Gone(B, i - 1, M)
    BY <1>7 DEF Survive
  <2>1. CASE j \in 2..n
    <3>1. j \in 1..n /\ j - 1 \in 1..n
      BY <1>4, <2>1
    <3>2. M[j] = L[j] /\ M[j - 1] = L[j - 1]
      BY <1>7, <3>1
    <3>3. Hp!Meet(L, j)
      BY <3>2 DEF Hp!Meet
    <3>4. PICK i \in 3..k : L[j].addr = B[i].addr /\ Hp!Meet(B, i) /\ Hp!Meet(B, i - 1) /\ Gone(B, i - 1, L)
      BY <1>3, <2>1, <3>3 DEF Survive, L, n
    <3>5. i \in 3..(k + 1) /\ i - 1 \in 1..k
      BY <1>1
    <3> QED
      BY <1>12, <3>2, <3>4, <3>5
  <2>2. CASE j = n + 1
    <3>1. M[j] = c /\ M[j - 1] = L[n]
      <4>1. j - 1 = n /\ n \in 1..n
        BY <1>4, <2>2
      <4> QED
        BY <1>7, <2>2, <4>1
    <3>2. L[n].free /\ c.free
      BY <3>1 DEF Hp!Meet
    <3>3. s.joined
      BY <3>2 DEF L, n, c
    <3>4. k >= 2 /\ Hp!Meet(B, k) /\ Gone(B, k, L)
      BY <1>3, <3>3 DEF LastOf, L
    <3>5. Hp!Meet(B, k + 1)
      <4>1. B[k].free
        BY <3>4 DEF Hp!Meet
      <4> QED
        BY <1>1, <3>2, <4>1 DEF Hp!Meet, c
    <3>6. k + 1 \in 3..(k + 1) /\ k \in 1..k /\ k + 1 - 1 = k
      BY <1>1, <3>4
    <3>7. Gone(B, k, M)
      BY <1>12, <3>4, <3>6
    <3> QED
      BY <3>1, <3>4, <3>5, <3>6, <3>7 DEF c
  <2>3. j \in 2..n \/ j = n + 1
    BY <1>4
  <2> QED
    BY <2>1, <2>2, <2>3
<1>15. Reached(B, k + 1, t)
  <2>1. t.joined \in BOOLEAN
    BY <1>6
  <2>2. Hp!Tiles(t.list, Hp!End(B[k + 1])) /\ SameUsed(B, k + 1, t.list) /\ Stem(B, k + 1, t.list) /\ Survive(B, k + 1, t.list)
    BY <1>6, <1>9, <1>10, <1>11, <1>14 DEF c
  <2> QED
    BY <1>13, <2>1, <2>2 DEF Reached
<1> QED
  BY <1>15 DEF t, c

(* What __mem_merge makes of a list.                                       *)
LEMMA MergeFacts ==
  ASSUME NEW B, NEW e, Hp!Tiles(B, e)
  PROVE  /\ Hp!Tiles(Hp!__mem_merge(B), e)
         /\ Hp!Used(Hp!__mem_merge(B)) = Hp!Used(B)
         /\ Survive(B, Len(B), Hp!__mem_merge(B))
<1>1. Len(B) \in Nat /\ Len(B) > 0 /\ B \in Seq(Hp!Blocks) /\ Hp!End(B[Len(B)]) = e
  BY TileFacts
<1>2. PICK h : Walked(B, Len(B), h) /\ Hp!__mem_merge(B) = h[Len(B)].list
  BY <1>1, MergeIsWalk
<1> DEFINE Bad == {k \in 1..Len(B) : ~Reached(B, k, h[k])}
<1>3. Bad = {}
  <2> SUFFICES ASSUME Bad # {}
               PROVE  FALSE
    OBVIOUS
  <2>1. Bad \subseteq Nat
    OBVIOUS
  <2>2. PICK k \in Bad : \A l \in Bad : k <= l
    <3> HIDE DEF Bad
    <3> QED
      BY <2>1, LeastElement
  <2>3. k \in 1..Len(B) /\ ~Reached(B, k, h[k]) /\ k \in Nat
    OBVIOUS
  <2>4. h[k] = Hp!JoinNext(h[k - 1], B[k]) /\ h[0] = Start
    BY <1>1, <1>2, <2>3 DEF Walked
  <2>5. k # 1
    <3> SUFFICES ASSUME k = 1
                 PROVE  FALSE
      OBVIOUS
    <3>1. h[1] = Hp!JoinNext(Start, B[1])
      BY <2>4
    <3> QED
      BY <2>3, <3>1, WalkBegins
  <2>6. k - 1 \in 1..(Len(B) - 1) /\ k - 1 \in 1..Len(B) /\ k - 1 + 1 = k
    BY <1>1, <2>3, <2>5
  <2>7. k - 1 \notin Bad
    <3> HIDE DEF Bad
    <3> QED
      BY <2>2, <2>3
  <2>8. Reached(B, k - 1, h[k - 1])
    BY <2>6, <2>7
  <2> HIDE DEF Bad
  <2> DEFINE q == k - 1
             r == h[k - 1]
  <2>9. q \in 1..(Len(B) - 1) /\ q + 1 = k /\ Reached(B, q, r)
    BY <2>6, <2>8
  <2> HIDE DEF q, r
  <2>10. Reached(B, q + 1, Hp!JoinNext(r, B[q + 1]))
    BY <2>9, WalkJoins, WalkAppends
  <2> QED
    BY <2>3, <2>4, <2>9, <2>10 DEF r
<1>4. Reached(B, Len(B), h[Len(B)])
  BY <1>1, <1>3
<1> HIDE DEF Bad
<1> DEFINE M == Hp!__mem_merge(B)
<1>5. Hp!Tiles(M, e) /\ SameUsed(B, Len(B), M) /\ Survive(B, Len(B), M)
  BY <1>1, <1>2, <1>4 DEF Reached
<1> HIDE DEF M
<1>6. Hp!Used(M) = Hp!Used(B)
  <2>1. M \in Seq(Hp!Blocks)
    BY <1>5, TileFacts
  <2>2. \A x : x \in Hp!Used(M) <=> ~x.free /\ \E i \in 1..Len(M) : M[i] = x
    BY <2>1, UsedFacts
  <2>3. \A x : x \in Hp!Used(B) <=> ~x.free /\ \E i \in 1..Len(B) : B[i] = x
    BY <1>1, UsedFacts
  <2>4. (\A i \in 1..Len(M) : M[i] \in Hp!Blocks) /\ (\A i \in 1..Len(B) : B[i] \in Hp!Blocks)
    BY <1>1, <2>1
  <2>5. \A x \in Hp!Blocks : ~x.free => ((\E i \in 1..Len(M) : M[i] = x) <=> (\E i \in 1..Len(B) : B[i] = x))
    BY <1>5 DEF SameUsed
  <2>6. \A x : x \in Hp!Used(M) <=> x \in Hp!Used(B)
    BY <2>2, <2>3, <2>4, <2>5
  <2> QED
    BY <2>6
<1> QED
  BY <1>5, <1>6 DEF M

(* Three places where free blocks meet are not enough for two to be left.  *)
LEMMA TooMany ==
  ASSUME NEW B, NEW n \in Nat, NEW f \in Nat, NEW C,
         \A p \in 2..n : Hp!Meet(C, p) => p = f \/ p = f + 1 \/ Hp!Meet(B, p),
         \A p, q \in 2..n : Hp!Meet(B, p) /\ Hp!Meet(B, q) => p = q,
         NEW i \in 3..n, NEW j \in 3..n, i < j - 1,
         Hp!Meet(C, i), Hp!Meet(C, i - 1), Hp!Meet(C, j), Hp!Meet(C, j - 1)
  PROVE  FALSE
<1>1. i \in 2..n /\ i - 1 \in 2..n /\ j \in 2..n /\ j - 1 \in 2..n
  OBVIOUS
<1>2. /\ i = f \/ i = f + 1 \/ Hp!Meet(B, i)
      /\ i - 1 = f \/ i - 1 = f + 1 \/ Hp!Meet(B, i - 1)
      /\ j = f \/ j = f + 1 \/ Hp!Meet(B, j)
      /\ j - 1 = f \/ j - 1 = f + 1 \/ Hp!Meet(B, j - 1)
  BY <1>1
<1>3. /\ ~(Hp!Meet(B, i) /\ Hp!Meet(B, j)) /\ ~(Hp!Meet(B, i) /\ Hp!Meet(B, j - 1))
      /\ ~(Hp!Meet(B, i - 1) /\ Hp!Meet(B, j)) /\ ~(Hp!Meet(B, i - 1) /\ Hp!Meet(B, j - 1))
      /\ ~(Hp!Meet(B, i - 1) /\ Hp!Meet(B, i)) /\ ~(Hp!Meet(B, j - 1) /\ Hp!Meet(B, j))
  BY <1>1
<1> QED
  BY <1>2, <1>3

LEMMA SeqOf ==
  ASSUME NEW S, NEW n \in Nat, NEW s \in [1..n -> S]
  PROVE  s \in Seq(S) /\ Len(s) = n
OBVIOUS

LEMMA FreedFacts ==
  ASSUME NEW B, NEW e, Hp!Tiles(B, e), Hp!MeetOnce(B), NEW x \in Hp!Used(B)
  PROVE  /\ Hp!Tiles(Hp!Freed(B, Hp!M_MEMORY(x)), e)
         /\ Hp!MeetOnce(Hp!Freed(B, Hp!M_MEMORY(x)))
         /\ Hp!Used(Hp!Freed(B, Hp!M_MEMORY(x))) = Hp!Used(B) \ {x}
<1> DEFINE n == Len(B)
           C == Hp!SetFree(B, Hp!M_MEMORY(x))
           M == Hp!__mem_merge(C)
<1>1. /\ B \in Seq(Hp!Blocks) /\ n \in Nat /\ n > 0 /\ B[1].addr = 0
      /\ \A i \in 1..n : B[i] \in Hp!Blocks /\ B[i].size > 0 /\ B[i].addr \in Nat /\ B[i].size \in Nat
      /\ \A i \in 2..n : B[i].addr = Hp!End(B[i - 1])
      /\ Hp!End(B[n]) = e
  BY TileFacts
<1>2. PICK f \in 1..n : B[f] = x /\ ~x.free
  BY <1>1, UsedFacts
<1> DEFINE b == [addr |-> B[f].addr, size |-> B[f].size, free |-> TRUE]
<1>3. b \in Hp!Blocks /\ b.addr = B[f].addr /\ b.size = B[f].size /\ b.free = TRUE /\ Hp!End(b) = Hp!End(B[f])
  BY <1>1, <1>2 DEF Hp!Blocks, Hp!End
<1>4. ASSUME NEW i \in 1..n
      PROVE  Hp!M_MEMORY(B[i]) = Hp!M_MEMORY(x) <=> i = f
  <2>1. Hp!M_MEMORY(B[i]) = B[i].addr + Header /\ Hp!M_MEMORY(x) = B[f].addr + Header
    BY <1>2 DEF Hp!M_MEMORY
  <2>2. B[i].addr = B[f].addr => i = f
    BY <1>2, TilesAreOrdered
  <2>3. B[i].addr \in Nat /\ B[f].addr \in Nat /\ Header \in Nat
    BY <1>1, <1>2, HeapBasics
  <2> QED
    BY <2>1, <2>2, <2>3
<1>5. C = [i \in 1..n |-> IF i = f THEN b ELSE B[i]]
  <2>1. DOMAIN B = 1..n
    BY <1>1
  <2> DEFINE g(i) == IF Hp!M_MEMORY(B[i]) = Hp!M_MEMORY(x) THEN [addr |-> B[i].addr, size |-> B[i].size, free |-> TRUE] ELSE B[i]
  <2>2. C = [i \in 1..n |-> g(i)]
    BY <2>1, Zenon DEF Hp!SetFree, Hp!Block
  <2>3. \A i \in 1..n : g(i) = IF i = f THEN b ELSE B[i]
    BY <1>4, Zenon
  <2> HIDE DEF C, n, g, b
  <2>4. [i \in 1..n |-> g(i)] = [i \in 1..n |-> IF i = f THEN b ELSE B[i]]
    BY <2>3
  <2> QED
    BY <2>2, <2>4
<1> HIDE DEF b, C, n
<1>6. \A i \in 1..n : C[i] = IF i = f THEN b ELSE B[i]
  BY <1>5
<1>7. \A i \in 1..n : C[i] \in Hp!Blocks /\ C[i].size > 0 /\ C[i].addr = B[i].addr /\ Hp!End(C[i]) = Hp!End(B[i])
  BY <1>1, <1>3, <1>6
<1>8. C \in Seq(Hp!Blocks) /\ Len(C) = n
  <2>1. C \in [1..n -> Hp!Blocks]
    BY <1>5, <1>7
  <2>2. n \in Nat
    BY <1>1
  <2> QED
    BY <2>1, <2>2, SeqOf, Zenon
<1>9. Hp!Tiles(C, e)
  <2>1. C[1].addr = 0 /\ Hp!End(C[n]) = e
    BY <1>1, <1>7
  <2>2. ASSUME NEW i \in 2..n
        PROVE  C[i].addr = Hp!End(C[i - 1])
    <3>1. i \in 1..n /\ i - 1 \in 1..n
      BY <1>1
    <3> QED
      BY <1>1, <1>7, <3>1
  <2> QED
    BY <1>1, <1>7, <1>8, <2>1, <2>2 DEF Hp!Tiles
<1>10. Hp!Tiles(M, e) /\ Hp!Used(M) = Hp!Used(C) /\ Survive(C, n, M)
  BY <1>8, <1>9, MergeFacts
<1>11. Hp!Used(C) = Hp!Used(B) \ {x}
  <2>1. \A y : y \in Hp!Used(C) <=> ~y.free /\ \E i \in 1..n : C[i] = y
    BY <1>8, UsedFacts
  <2>2. \A y : y \in Hp!Used(B) <=> ~y.free /\ \E i \in 1..n : B[i] = y
    BY <1>1, UsedFacts DEF n
  <2>3. \A i \in 1..n : B[i] = x => i = f
    BY <1>2, TilesAreOrdered DEF n
  <2>4. ASSUME NEW y \in Hp!Used(C)
        PROVE  y \in Hp!Used(B) \ {x}
    <3>1. PICK i \in 1..n : C[i] = y /\ ~y.free
      BY <2>1
    <3>2. i # f
      BY <1>3, <1>6, <3>1
    <3>3. B[i] = y
      BY <1>6, <3>1, <3>2
    <3> QED
      BY <2>2, <2>3, <3>1, <3>2, <3>3
  <2>5. ASSUME NEW y \in Hp!Used(B), y # x
        PROVE  y \in Hp!Used(C)
    <3>1. PICK i \in 1..n : B[i] = y /\ ~y.free
      BY <2>2
    <3>2. C[i] = y
      BY <1>2, <1>6, <2>5, <3>1
    <3> QED
      BY <2>1, <3>1, <3>2
  <2> QED
    BY <2>4, <2>5
<1>12. \A p \in 2..n : Hp!Meet(C, p) => p = f \/ p = f + 1 \/ Hp!Meet(B, p)
  <2> SUFFICES ASSUME NEW p \in 2..n, Hp!Meet(C, p), p # f, p # f + 1
               PROVE  Hp!Meet(B, p)
    OBVIOUS
  <2>1. p \in 1..n /\ p - 1 \in 1..n /\ p - 1 # f
    BY <1>1, <1>2
  <2>2. C[p] = B[p] /\ C[p - 1] = B[p - 1]
    BY <1>6, <2>1
  <2> QED
    BY <2>2 DEF Hp!Meet
<1>13. \A p, q \in 2..n : Hp!Meet(B, p) /\ Hp!Meet(B, q) => p = q
  BY DEF Hp!MeetOnce, n
<1> HIDE DEF M
<1>14. Hp!MeetOnce(M)
  <2> SUFFICES ASSUME NEW j \in 2..Len(M), NEW l \in 2..Len(M), Hp!Meet(M, j), Hp!Meet(M, l), j # l
               PROVE  FALSE
    BY DEF Hp!MeetOnce
  <2>1. PICK p \in 3..n : M[j].addr = C[p].addr /\ Hp!Meet(C, p) /\ Hp!Meet(C, p - 1) /\ Gone(C, p - 1, M)
    BY <1>10 DEF Survive
  <2>2. PICK q \in 3..n : M[l].addr = C[q].addr /\ Hp!Meet(C, q) /\ Hp!Meet(C, q - 1) /\ Gone(C, q - 1, M)
    BY <1>10 DEF Survive
  <2>3. Len(M) \in Nat
    BY <1>10, TileFacts
  <2>4. j \in 1..Len(M) /\ l \in 1..Len(M)
    BY <2>3
  <2>5. M[j].addr # M[l].addr
    BY <1>10, <2>4, TilesAreOrdered
  <2>6. p # q /\ p # q - 1 /\ q # p - 1
    BY <2>1, <2>2, <2>4, <2>5 DEF Gone
  <2>7. p < q - 1 \/ q < p - 1
    BY <1>1, <2>6
  <2>10. n \in Nat /\ f \in Nat
    BY <1>1
  <2>8. CASE p < q - 1
    BY <1>12, <1>13, <2>1, <2>2, <2>8, <2>10, TooMany, Zenon
  <2>9. CASE q < p - 1
    BY <1>12, <1>13, <2>1, <2>2, <2>9, <2>10, TooMany, Zenon
  <2> QED
    BY <2>7, <2>8, <2>9
<1> QED
  BY <1>10, <1>11, <1>14 DEF Hp!Freed, M, C

LEMMA PagesFacts ==
  ASSUME NEW size \in Nat
  PROVE  Hp!Pages(size) * Page \in Nat /\ Hp!Pages(size) * Page > size + Header + 1
<1> DEFINE x == size + Header + 1
<1>1. x \in Nat /\ Page \in Nat /\ Page > 0
  BY HeapBasics
<1>2. Hp!Pages(size) = x \div Page + 1
  BY DEF Hp!Pages
<1> HIDE DEF x
<1>3. x \div Page \in Nat
  BY <1>1
<1>4. (x \div Page + 1) * Page \in Nat /\ (x \div Page + 1) * Page > x
  BY <1>1, <1>3
<1> QED
  BY <1>2, <1>4 DEF x

(* The list in which malloc finds its block, and that block.               *)
Found(B, i, end, size) ==
  /\ Hp!Tiles(B, end) /\ i \in 1..Len(B)
  /\ B[i].free = TRUE /\ B[i].size >= size
  /\ Hp!Used(B) = Hp!Used(heap_blocks)
  /\ \A p, q \in 2..Len(B) : Hp!Meet(B, p) /\ Hp!Meet(B, q) /\ p # i /\ q # i => p = q

LEMMA GrownFacts ==
  ASSUME Hp!HeapInv, NEW size \in Nat, size > 0
  PROVE  Found(Hp!Grown(size), Hp!Chosen(size), heap_size + Hp!Growth(size), size)
<1> DEFINE B == Hp!Grown(size)
           i == Hp!Chosen(size)
           n == Len(heap_blocks)
<1>1. heap_size \in Nat /\ Hp!Tiles(heap_blocks, heap_size) /\ Hp!MeetOnce(heap_blocks)
  BY DEF Hp!HeapInv
<1>2. /\ heap_blocks \in Seq(Hp!Blocks) /\ n \in Nat /\ n > 0 /\ heap_blocks[1].addr = 0
      /\ \A k \in 1..n : heap_blocks[k] \in Hp!Blocks /\ heap_blocks[k].size > 0
      /\ \A k \in 2..n : heap_blocks[k].addr = Hp!End(heap_blocks[k - 1])
      /\ Hp!End(heap_blocks[n]) = heap_size /\ DOMAIN heap_blocks = 1..n
  BY <1>1, TileFacts
<1>3. \A p, q \in 2..n : Hp!Meet(heap_blocks, p) /\ Hp!Meet(heap_blocks, q) => p = q
  BY <1>1 DEF Hp!MeetOnce
<1>4. CASE Hp!Fitting(size) # {}
  <2>1. B = heap_blocks /\ Hp!Growth(size) = 0 /\ i = Hp!Min(Hp!Fitting(size))
    BY <1>4 DEF Hp!Grown, Hp!Growth, Hp!Chosen
  <2>2. Hp!Fitting(size) \subseteq 1..n
    BY <1>2 DEF Hp!Fitting
  <2>3. i \in Hp!Fitting(size)
    <3> DEFINE F == Hp!Fitting(size)
    <3>1. F \subseteq Nat /\ F # {}
      BY <1>2, <1>4, <2>2
    <3>2. i = CHOOSE y \in F : \A z \in F : y <= z
      BY <2>1 DEF Hp!Min
    <3> HIDE DEF F
    <3>3. \E y \in F : \A z \in F : y <= z
      BY <3>1, LeastElement
    <3>4. i \in F
      BY <3>2, <3>3
    <3> QED
      BY <3>4 DEF F
  <2>4. i \in 1..n /\ heap_blocks[i].free /\ (heap_blocks[i].size = size \/ heap_blocks[i].size >= size + Header + 1)
    BY <2>2, <2>3 DEF Hp!Fitting
  <2> HIDE DEF i, B
  <2>5. heap_blocks[i].free = TRUE /\ heap_blocks[i].size \in Nat
    <3>1. heap_blocks[i].free \in BOOLEAN /\ heap_blocks[i].size \in Nat
      BY <1>2, <2>4, HeapBlockFacts
    <3> QED
      BY <2>4, <3>1
  <2>6. heap_blocks[i].size >= size
    BY <2>4, <2>5, HeapBasics
  <2>7. heap_size + Hp!Growth(size) = heap_size
    BY <1>1, <2>1
  <2> QED
    BY <1>1, <1>2, <1>3, <2>1, <2>4, <2>5, <2>6, <2>7 DEF Found, i, B
<1>5. CASE Hp!Fitting(size) = {}
  <2> DEFINE w == Hp!Pages(size) * Page
             b == [addr |-> heap_size, size |-> w - Header, free |-> TRUE]
  <2>1. B = Append(heap_blocks, b) /\ Hp!Growth(size) = w /\ i = n + 1
    BY <1>5 DEF Hp!Grown, Hp!Growth, Hp!Chosen, Hp!Block
  <2>2. w \in Nat /\ w > size + Header + 1
    BY PagesFacts
  <2> HIDE DEF w
  <2>3. w - Header \in Nat /\ w - Header > 0 /\ w - Header >= size
    BY <2>2, HeapBasics
  <2>4. b \in Hp!Blocks /\ b.addr = heap_size /\ b.size = w - Header /\ b.free = TRUE
    BY <1>1, <2>3 DEF Hp!Blocks
  <2>5. Hp!End(b) = heap_size + w
    <3>1. Hp!End(b) = heap_size + Header + (w - Header)
      BY <2>4 DEF Hp!End
    <3> HIDE DEF b
    <3> QED
      BY <1>1, <2>2, <3>1, HeapBasics
  <2> HIDE DEF b, B, i
  <2>6. B \in Seq(Hp!Blocks) /\ Len(B) = n + 1 /\ B[n + 1] = b /\ \A k \in 1..n : B[k] = heap_blocks[k]
    <3> HIDE DEF n
    <3>1. heap_blocks \in Seq(Hp!Blocks) /\ n = Len(heap_blocks) /\ b \in Hp!Blocks
      BY <1>2, <2>4 DEF n
    <3> QED
      BY <2>1, <3>1
  <2> HIDE DEF n
  <2>7. Hp!Tiles(B, heap_size + w)
    <3>1. B[1].addr = 0
      BY <1>2, <2>6
    <3>2. ASSUME NEW k \in 2..(n + 1)
          PROVE  B[k].addr = Hp!End(B[k - 1])
      <4>1. k - 1 \in 1..n /\ (k = n + 1 \/ k \in 2..n) /\ (k = n + 1 => k - 1 = n)
        BY <1>2
      <4>2. CASE k = n + 1
        BY <1>2, <2>4, <2>6, <4>1, <4>2
      <4>3. CASE k \in 2..n
        <5>1. k \in 1..n /\ B[k] = heap_blocks[k] /\ B[k - 1] = heap_blocks[k - 1]
          BY <1>2, <2>6, <4>1, <4>3
        <5> QED
          BY <1>2, <4>3, <5>1
      <4> QED
        BY <4>1, <4>2, <4>3
    <3>3. \A k \in 1..(n + 1) : B[k].size > 0
      <4>1. \A k \in 1..(n + 1) : k \in 1..n \/ k = n + 1
        BY <1>2
      <4> QED
        BY <1>2, <2>3, <2>4, <2>6, <4>1
    <3> QED
      BY <1>2, <2>5, <2>6, <3>1, <3>2, <3>3 DEF Hp!Tiles
  <2>8. Hp!Used(B) = Hp!Used(heap_blocks)
    <3>1. \A x : x \in Hp!Used(B) <=> ~x.free /\ \E k \in 1..(n + 1) : B[k] = x
      BY <2>6, UsedFacts
    <3>2. \A x : x \in Hp!Used(heap_blocks) <=> ~x.free /\ \E k \in 1..n : heap_blocks[k] = x
      BY <1>2, UsedFacts DEF n
    <3>3. (\A k \in 1..(n + 1) : k \in 1..n \/ k = n + 1) /\ (\A k \in 1..n : k \in 1..(n + 1))
      BY <1>2
    <3>4. \A x : x \in Hp!Used(B) <=> x \in Hp!Used(heap_blocks)
      BY <2>4, <2>6, <3>1, <3>2, <3>3
    <3> QED
      BY <3>4
  <2>9. ASSUME NEW p \in 2..(n + 1), Hp!Meet(B, p), p # n + 1
        PROVE  p \in 2..n /\ Hp!Meet(heap_blocks, p)
    <3>1. p \in 2..n /\ p \in 1..n /\ p - 1 \in 1..n
      BY <1>2, <2>9
    <3>2. B[p] = heap_blocks[p] /\ B[p - 1] = heap_blocks[p - 1]
      BY <2>6, <3>1
    <3> QED
      BY <2>9, <3>1, <3>2 DEF Hp!Meet
  <2>10. \A p, q \in 2..Len(B) : Hp!Meet(B, p) /\ Hp!Meet(B, q) /\ p # i /\ q # i => p = q
    BY <1>3, <2>1, <2>6, <2>9
  <2>11. i \in 1..Len(B) /\ B[i].free = TRUE /\ B[i].size >= size
    BY <1>2, <2>1, <2>3, <2>4, <2>6
  <2> QED
    BY <2>1, <2>7, <2>8, <2>10, <2>11 DEF Found, B, i
<1> QED
  BY <1>4, <1>5

(* A list with one element replaced by one or two.                         *)
Spliced(B, i, D) == SubSeq(B, 1, i - 1) \o D \o SubSeq(B, i + 1, Len(B))

OneForOne(S, B, i, u, C) ==
  /\ C \in Seq(S) /\ Len(C) = Len(B)
  /\ \A k \in 1..Len(B) : C[k] = IF k = i THEN u ELSE B[k]

TwoForOne(S, B, i, u, r, C) ==
  /\ C \in Seq(S) /\ Len(C) = Len(B) + 1
  /\ \A k \in 1..(Len(B) + 1) :
       C[k] = IF k < i THEN B[k] ELSE IF k = i THEN u ELSE IF k = i + 1 THEN r ELSE B[k - 1]

LEMMA SpliceOne ==
  ASSUME NEW S, NEW B \in Seq(S), NEW i \in 1..Len(B), NEW u \in S
  PROVE  OneForOne(S, B, i, u, Spliced(B, i, <<u>>))
<1> DEFINE n == Len(B)
           P == SubSeq(B, 1, i - 1)
           Q == SubSeq(B, i + 1, n)
           C == (P \o <<u>>) \o Q
<1>1. n \in Nat /\ i \in 1..n /\ \A k \in 1..n : B[k] \in S
  OBVIOUS
<1>2. P \in Seq(S) /\ Len(P) = i - 1 /\ \A k \in 1..(i - 1) : P[k] = B[k]
  BY <1>1
<1>3. Q \in Seq(S) /\ Len(Q) = n - i /\ \A k \in 1..(n - i) : Q[k] = B[k + i]
  BY <1>1
<1> HIDE DEF P, Q, n
<1>4. P \o <<u>> \in Seq(S) /\ Len(P \o <<u>>) = i /\ \A k \in 1..i : (P \o <<u>>)[k] = IF k = i THEN u ELSE B[k]
  BY <1>1, <1>2
<1>5. C \in Seq(S) /\ Len(C) = n
  BY <1>1, <1>3, <1>4
<1>6. ASSUME NEW k \in 1..n
      PROVE  C[k] = IF k = i THEN u ELSE B[k]
  <2>1. CASE k \in 1..i
    BY <1>1, <1>3, <1>4, <2>1
  <2>2. CASE k \in (i + 1)..n
    <3>1. C[k] = Q[k - i]
      BY <1>1, <1>3, <1>4, <2>2
    <3>2. Q[k - i] = B[k - i + i] /\ k - i + i = k /\ k # i
      BY <1>1, <1>3, <2>2
    <3> QED
      BY <3>1, <3>2
  <2>3. k \in 1..i \/ k \in (i + 1)..n
    BY <1>1
  <2> QED
    BY <2>1, <2>2, <2>3
<1>7. Spliced(B, i, <<u>>) = C
  BY DEF Spliced, P, Q, n
<1> HIDE DEF C
<1> QED
  BY <1>5, <1>6, <1>7 DEF n, OneForOne

LEMMA SpliceTwo ==
  ASSUME NEW S, NEW B \in Seq(S), NEW i \in 1..Len(B), NEW u \in S, NEW r \in S
  PROVE  TwoForOne(S, B, i, u, r, Spliced(B, i, <<u, r>>))
<1> DEFINE n == Len(B)
           P == SubSeq(B, 1, i - 1)
           Q == SubSeq(B, i + 1, n)
           R == P \o <<u, r>>
           C == R \o Q
<1>1. n \in Nat /\ i \in 1..n /\ \A k \in 1..n : B[k] \in S
  OBVIOUS
<1>2. P \in Seq(S) /\ Len(P) = i - 1 /\ \A k \in 1..(i - 1) : P[k] = B[k]
  BY <1>1
<1>3. Q \in Seq(S) /\ Len(Q) = n - i /\ \A k \in 1..(n - i) : Q[k] = B[k + i]
  BY <1>1
<1> HIDE DEF P, Q, n
<1>4. R \in Seq(S) /\ Len(R) = i + 1 /\ R[i] = u /\ R[i + 1] = r /\ \A k \in 1..(i - 1) : R[k] = B[k]
  <2>1. <<u, r>> \in Seq(S) /\ Len(<<u, r>>) = 2
    OBVIOUS
  <2>2. R \in Seq(S) /\ Len(R) = i + 1
    BY <1>1, <1>2, <2>1
  <2>3. R[i] = u /\ R[i + 1] = r
    BY <1>1, <1>2
  <2>4. ASSUME NEW k \in 1..(i - 1)
        PROVE  R[k] = B[k]
    BY <1>1, <1>2
  <2> QED
    BY <2>2, <2>3, <2>4
<1> HIDE DEF R
<1>5. C \in Seq(S) /\ Len(C) = n + 1
  <2>1. R \in Seq(S) /\ Q \in Seq(S) /\ Len(R) = i + 1 /\ Len(Q) = n - i
    BY <1>3, <1>4
  <2>2. n \in Nat /\ i \in 1..n
    BY <1>1
  <2>3. C \in Seq(S) /\ Len(C) = Len(R) + Len(Q)
    BY <2>1
  <2> QED
    BY <2>1, <2>2, <2>3
<1>6. ASSUME NEW k \in 1..(n + 1)
      PROVE  C[k] = IF k < i THEN B[k] ELSE IF k = i THEN u ELSE IF k = i + 1 THEN r ELSE B[k - 1]
  <2>1. CASE k \in 1..(i + 1)
    <3>1. C[k] = R[k]
      BY <1>1, <1>3, <1>4, <2>1
    <3>2. k \in 1..(i - 1) \/ k = i \/ k = i + 1
      BY <1>1, <2>1
    <3> QED
      BY <1>1, <1>4, <3>1, <3>2
  <2>2. CASE k \in (i + 2)..(n + 1)
    <3>1. C[k] = Q[k - (i + 1)]
      BY <1>1, <1>3, <1>4, <2>2
    <3>2. k - (i + 1) \in 1..(n - i) /\ k - (i + 1) + i = k - 1 /\ ~(k < i) /\ k # i /\ k # i + 1
      BY <1>1, <2>2
    <3>3. Q[k - (i + 1)] = B[k - (i + 1) + i]
      BY <1>3, <3>2
    <3> QED
      BY <3>1, <3>2, <3>3
  <2>3. k \in 1..(i + 1) \/ k \in (i + 2)..(n + 1)
    BY <1>1
  <2> QED
    BY <2>1, <2>2, <2>3
<1>7. Spliced(B, i, <<u, r>>) = C
  BY DEF Spliced, P, Q, n, R
<1> HIDE DEF C
<1> QED
  BY <1>5, <1>6, <1>7 DEF n, TwoForOne

(* What malloc makes of the list: one more used block, of at least the     *)
(* size, and no other place where free blocks meet.                        *)
Given(C, end, u, size) ==
  /\ Hp!Tiles(C, end) /\ Hp!MeetOnce(C)
  /\ u \in Hp!Blocks /\ u.free = FALSE /\ u.size >= size
  /\ Hp!Used(C) = Hp!Used(heap_blocks) \cup {u}
  /\ \A x \in Hp!Used(heap_blocks) : x.addr # u.addr

(* The block is given whole.                                               *)
LEMMA WholeFacts ==
  ASSUME NEW B, NEW i, NEW e, NEW size \in Nat, Found(B, i, e, size)
  PROVE  LET u == [addr |-> B[i].addr, size |-> B[i].size, free |-> FALSE]
         IN  Given(Spliced(B, i, <<u>>), e, u, size)
<1> DEFINE u == [addr |-> B[i].addr, size |-> B[i].size, free |-> FALSE]
           C == Spliced(B, i, <<u>>)
           n == Len(B)
<1>1. /\ Hp!Tiles(B, e) /\ i \in 1..n /\ B[i].free = TRUE /\ B[i].size >= size
      /\ Hp!Used(B) = Hp!Used(heap_blocks)
      /\ \A p, q \in 2..n : Hp!Meet(B, p) /\ Hp!Meet(B, q) /\ p # i /\ q # i => p = q
  BY DEF Found
<1>2. /\ B \in Seq(Hp!Blocks) /\ n \in Nat /\ n > 0 /\ B[1].addr = 0
      /\ \A k \in 1..n : B[k] \in Hp!Blocks /\ B[k].size > 0 /\ B[k].addr \in Nat /\ B[k].size \in Nat
      /\ \A k \in 2..n : B[k].addr = Hp!End(B[k - 1])
      /\ Hp!End(B[n]) = e
  BY <1>1, TileFacts
<1>3. u \in Hp!Blocks /\ u.addr = B[i].addr /\ u.size = B[i].size /\ u.free = FALSE /\ Hp!End(u) = Hp!End(B[i])
  BY <1>1, <1>2 DEF Hp!Blocks, Hp!End
<1> HIDE DEF u, n
<1>4. C \in Seq(Hp!Blocks) /\ Len(C) = n /\ \A k \in 1..n : C[k] = IF k = i THEN u ELSE B[k]
  <2>1. B \in Seq(Hp!Blocks) /\ i \in 1..Len(B) /\ u \in Hp!Blocks
    BY <1>1, <1>2, <1>3 DEF n
  <2> HIDE DEF C
  <2>2. OneForOne(Hp!Blocks, B, i, u, C)
    BY <2>1, SpliceOne DEF C
  <2> QED
    BY <2>2 DEF n, OneForOne
<1> HIDE DEF C
<1>5. \A k \in 1..n : C[k].addr = B[k].addr /\ C[k].size = B[k].size /\ Hp!End(C[k]) = Hp!End(B[k])
  BY <1>3, <1>4
<1>6. Hp!Tiles(C, e)
  <2>1. C[1].addr = 0 /\ Hp!End(C[n]) = e
    BY <1>2, <1>5
  <2>2. ASSUME NEW k \in 2..n
        PROVE  C[k].addr = Hp!End(C[k - 1])
    <3>1. k \in 1..n /\ k - 1 \in 1..n
      BY <1>2
    <3> QED
      BY <1>2, <1>5, <3>1
  <2>3. \A k \in 1..n : C[k].size > 0
    BY <1>2, <1>5
  <2> QED
    BY <1>2, <1>4, <2>1, <2>2, <2>3 DEF Hp!Tiles
<1>7. ASSUME NEW p \in 2..n, Hp!Meet(C, p)
      PROVE  Hp!Meet(B, p) /\ p # i
  <2>1. p \in 1..n /\ p - 1 \in 1..n
    BY <1>2
  <2>2. p # i
    BY <1>3, <1>4, <1>7, <2>1 DEF Hp!Meet
  <2>3. p - 1 # i
    BY <1>3, <1>4, <1>7, <2>1 DEF Hp!Meet
  <2>4. C[p] = B[p] /\ C[p - 1] = B[p - 1]
    BY <1>4, <2>1, <2>2, <2>3
  <2> QED
    BY <1>7, <2>2, <2>4 DEF Hp!Meet
<1>8. Hp!MeetOnce(C)
  BY <1>1, <1>4, <1>7 DEF Hp!MeetOnce
<1>9. \A x : x \in Hp!Used(B) <=> ~x.free /\ \E k \in 1..n : B[k] = x
  BY <1>2, UsedFacts DEF n
<1>10. \A x : x \in Hp!Used(C) <=> ~x.free /\ \E k \in 1..n : C[k] = x
  BY <1>4, UsedFacts
<1>11. ASSUME NEW x \in Hp!Used(B)
       PROVE  x.addr # u.addr /\ x \in Hp!Used(C)
  <2>1. PICK k \in 1..n : B[k] = x /\ ~x.free
    BY <1>9
  <2>2. k # i
    BY <1>1, <2>1
  <2>3. B[k].addr # B[i].addr
    BY <1>1, <2>2, TilesAreOrdered DEF n
  <2>4. C[k] = x
    BY <1>4, <2>1, <2>2
  <2> QED
    BY <1>3, <1>10, <2>1, <2>3, <2>4
<1>12. u \in Hp!Used(C)
  <2>1. C[i] = u
    BY <1>1, <1>4
  <2> QED
    BY <1>1, <1>3, <1>10, <2>1
<1>13. ASSUME NEW x \in Hp!Used(C), x # u
       PROVE  x \in Hp!Used(B)
  <2>1. PICK k \in 1..n : C[k] = x /\ ~x.free
    BY <1>10
  <2>2. B[k] = x
    BY <1>4, <1>13, <2>1
  <2> QED
    BY <1>9, <2>1, <2>2
<1>14. Hp!Used(C) = Hp!Used(B) \cup {u}
  BY <1>11, <1>12, <1>13
<1>15. Given(C, e, u, size)
  BY <1>1, <1>3, <1>6, <1>8, <1>11, <1>14 DEF Given
<1> QED
  BY <1>15 DEF C, u

(* The block is split.                                                     *)
LEMMA SplitFacts ==
  ASSUME NEW B, NEW i, NEW e, NEW size \in Nat, size > 0, Found(B, i, e, size),
         B[i].size >= size + Header + 1
  PROVE  LET u == [addr |-> B[i].addr, size |-> size, free |-> FALSE]
             r == [addr |-> B[i].addr + Header + size, size |-> B[i].size - size - Header, free |-> TRUE]
         IN  Given(Spliced(B, i, <<u, r>>), e, u, size)
<1> DEFINE u == [addr |-> B[i].addr, size |-> size, free |-> FALSE]
           r == [addr |-> B[i].addr + Header + size, size |-> B[i].size - size - Header, free |-> TRUE]
           C == Spliced(B, i, <<u, r>>)
           n == Len(B)
<1>1. /\ Hp!Tiles(B, e) /\ i \in 1..n /\ B[i].free = TRUE
      /\ Hp!Used(B) = Hp!Used(heap_blocks)
      /\ \A p, q \in 2..n : Hp!Meet(B, p) /\ Hp!Meet(B, q) /\ p # i /\ q # i => p = q
  BY DEF Found
<1>2. /\ B \in Seq(Hp!Blocks) /\ n \in Nat /\ n > 0 /\ B[1].addr = 0
      /\ \A k \in 1..n : B[k] \in Hp!Blocks /\ B[k].size > 0 /\ B[k].addr \in Nat /\ B[k].size \in Nat
      /\ \A k \in 2..n : B[k].addr = Hp!End(B[k - 1])
      /\ Hp!End(B[n]) = e
  BY <1>1, TileFacts
<1>3. /\ B[i].addr \in Nat /\ B[i].size \in Nat /\ Header \in Nat /\ Header > 0
      /\ B[i].addr + Header + size \in Nat /\ B[i].size - size - Header \in Nat /\ B[i].size - size - Header > 0
  <2>1. /\ B[i].addr \in Nat /\ B[i].size \in Nat /\ Header \in Nat /\ Header > 0
    BY <1>1, <1>2, HeapBasics
  <2>2. ASSUME NEW a \in Nat, NEW s \in Nat, NEW h \in Nat, s >= size + h + 1
        PROVE  a + h + size \in Nat /\ s - size - h \in Nat /\ s - size - h > 0
    BY <2>2
  <2> QED
    BY <2>1, <2>2
<1>4. /\ u \in Hp!Blocks /\ u.addr = B[i].addr /\ u.size = size /\ u.free = FALSE
      /\ r \in Hp!Blocks /\ r.addr = B[i].addr + Header + size
      /\ r.size = B[i].size - size - Header /\ r.free = TRUE
  BY <1>3 DEF Hp!Blocks
<1>5. Hp!End(u) = r.addr /\ Hp!End(r) = Hp!End(B[i])
  <2> HIDE DEF u, r
  <2>1. Hp!End(u) = B[i].addr + Header + size
    BY <1>4 DEF Hp!End
  <2>2. Hp!End(r) = B[i].addr + Header + size + Header + (B[i].size - size - Header)
    BY <1>4 DEF Hp!End
  <2>3. Hp!End(B[i]) = B[i].addr + Header + B[i].size
    BY DEF Hp!End
  <2> QED
    BY <1>3, <1>4, <2>1, <2>2, <2>3
<1> HIDE DEF u, r, n
<1>6. /\ C \in Seq(Hp!Blocks) /\ Len(C) = n + 1
      /\ \A k \in 1..(n + 1) : C[k] = IF k < i THEN B[k] ELSE IF k = i THEN u ELSE IF k = i + 1 THEN r ELSE B[k - 1]
  <2>1. B \in Seq(Hp!Blocks) /\ i \in 1..Len(B) /\ u \in Hp!Blocks /\ r \in Hp!Blocks
    BY <1>1, <1>2, <1>4 DEF n
  <2> HIDE DEF C
  <2>2. TwoForOne(Hp!Blocks, B, i, u, r, C)
    BY <2>1, SpliceTwo DEF C
  <2> QED
    BY <2>2 DEF n, TwoForOne
<1> HIDE DEF C
<1>7. /\ \A k \in 1..(i - 1) : C[k] = B[k]
      /\ C[i] = u /\ C[i + 1] = r
      /\ \A k \in (i + 2)..(n + 1) : C[k] = B[k - 1]
  <2>1. i \in 1..n /\ n \in Nat /\ i \in Nat
    BY <1>1, <1>2
  <2>2. \A k \in 1..(i - 1) : C[k] = B[k]
    <3>1. \A k \in 1..(i - 1) : k \in 1..(n + 1) /\ k < i
      BY <2>1
    <3> QED
      BY <1>6, <3>1
  <2>3. C[i] = u
    <3>1. i \in 1..(n + 1) /\ ~(i < i)
      BY <2>1
    <3> QED
      BY <1>6, <3>1
  <2>4. C[i + 1] = r
    <3>1. i + 1 \in 1..(n + 1) /\ ~(i + 1 < i) /\ i + 1 # i
      BY <2>1
    <3> QED
      BY <1>6, <3>1
  <2>5. \A k \in (i + 2)..(n + 1) : C[k] = B[k - 1]
    <3>1. \A k \in (i + 2)..(n + 1) : k \in 1..(n + 1) /\ ~(k < i) /\ k # i /\ k # i + 1
      BY <2>1
    <3> QED
      BY <1>6, <3>1
  <2> QED
    BY <2>2, <2>3, <2>4, <2>5
<1>8. \A k \in 1..(n + 1) : k \in 1..(i - 1) \/ k = i \/ k = i + 1 \/ k \in (i + 2)..(n + 1)
  BY <1>1, <1>2
<1>9. Hp!Tiles(C, e)
  <2>1. C[1].addr = 0
    <3>1. i = 1 \/ 1 \in 1..(i - 1)
      BY <1>1, <1>2
    <3> QED
      BY <1>2, <1>4, <1>7, <3>1
  <2>2. Hp!End(C[n + 1]) = e
    <3>1. (i = n /\ n + 1 = i + 1) \/ (n + 1 \in (i + 2)..(n + 1) /\ n + 1 - 1 = n)
      BY <1>1, <1>2
    <3> QED
      BY <1>2, <1>5, <1>7, <3>1
  <2>3. ASSUME NEW k \in 2..(n + 1)
        PROVE  C[k].addr = Hp!End(C[k - 1])
    <3>1. k \in 1..(n + 1)
      BY <1>2
    <3>2. CASE k \in 1..(i - 1)
      <4>1. k \in 2..n /\ k - 1 \in 1..(i - 1)
        BY <1>1, <1>2, <3>2
      <4> QED
        BY <1>2, <1>7, <3>2, <4>1
    <3>3. CASE k = i
      <4>1. k \in 2..n /\ k - 1 \in 1..(i - 1)
        BY <1>1, <1>2, <3>3
      <4> QED
        BY <1>2, <1>4, <1>7, <3>3, <4>1
    <3>4. CASE k = i + 1
      <4>1. k - 1 = i
        BY <1>1, <1>2, <3>4
      <4> QED
        BY <1>5, <1>7, <3>4, <4>1
    <3>5. CASE k \in (i + 2)..(n + 1)
      <4>1. k - 1 \in 2..n /\ C[k] = B[k - 1]
        BY <1>1, <1>2, <1>7, <3>5
      <4>2. B[k - 1].addr = Hp!End(B[k - 1 - 1])
        BY <1>2, <4>1
      <4>3. CASE k = i + 2
        <5>1. k - 1 = i + 1 /\ k - 1 - 1 = i
          BY <1>1, <1>2, <4>3
        <5> QED
          BY <1>5, <1>7, <4>1, <4>2, <5>1
      <4>4. CASE k # i + 2
        <5>1. k - 1 \in (i + 2)..(n + 1)
          BY <1>1, <1>2, <3>5, <4>4
        <5>2. C[k - 1] = B[k - 1 - 1]
          BY <1>7, <5>1
        <5> QED
          BY <4>1, <4>2, <5>2
      <4> QED
        BY <4>3, <4>4
    <3> QED
      BY <1>8, <3>1, <3>2, <3>3, <3>4, <3>5
  <2>4. ASSUME NEW k \in 1..(n + 1)
        PROVE  C[k].size > 0
    <3>1. k \in 1..(i - 1) => k \in 1..n
      BY <1>1, <1>2
    <3>2. k \in (i + 2)..(n + 1) => k - 1 \in 1..n
      BY <1>1, <1>2
    <3> QED
      BY <1>2, <1>3, <1>4, <1>7, <1>8, <3>1, <3>2
  <2> QED
    BY <1>2, <1>6, <2>1, <2>2, <2>3, <2>4 DEF Hp!Tiles
<1>10. ASSUME NEW p \in 2..(n + 1), Hp!Meet(C, p)
       PROVE  \/ p < i /\ p \in 2..n /\ Hp!Meet(B, p)
              \/ p >= i + 2 /\ p - 1 \in 2..n /\ Hp!Meet(B, p - 1)
  <2>1. C[p].free /\ C[p - 1].free
    BY <1>10 DEF Hp!Meet
  <2>2. p # i
    BY <1>4, <1>7, <2>1
  <2>3. p # i + 1
    <3>1. p = i + 1 => p - 1 = i
      BY <1>1, <1>2
    <3> QED
      BY <1>4, <1>7, <2>1, <3>1
  <2>4. p < i \/ p >= i + 2
    BY <1>1, <1>2, <2>2, <2>3
  <2>5. CASE p < i
    <3>1. p \in 1..(i - 1) /\ p - 1 \in 1..(i - 1) /\ p \in 2..n
      BY <1>1, <1>2, <2>5
    <3>2. C[p] = B[p] /\ C[p - 1] = B[p - 1]
      BY <1>7, <3>1
    <3> QED
      BY <2>1, <2>5, <3>1, <3>2 DEF Hp!Meet
  <2>6. CASE p >= i + 2
    <3>1. p \in (i + 2)..(n + 1) /\ p - 1 \in 2..n
      BY <1>1, <1>2, <2>6
    <3>2. C[p] = B[p - 1]
      BY <1>7, <3>1
    <3>3. B[p - 1 - 1].free
      <4>1. CASE p = i + 2
        <5>1. p - 1 - 1 = i
          BY <1>1, <1>2, <4>1
        <5> QED
          BY <1>1, <5>1
      <4>2. CASE p # i + 2
        <5>1. p - 1 \in (i + 2)..(n + 1)
          BY <1>1, <1>2, <3>1, <4>2
        <5>2. C[p - 1] = B[p - 1 - 1]
          BY <1>7, <5>1
        <5> QED
          BY <2>1, <5>2
      <4> QED
        BY <4>1, <4>2
    <3> QED
      BY <2>1, <2>6, <3>1, <3>2, <3>3 DEF Hp!Meet
  <2> QED
    BY <2>4, <2>5, <2>6
<1>11. Hp!MeetOnce(C)
  <2> SUFFICES ASSUME NEW p \in 2..(n + 1), NEW q \in 2..(n + 1), Hp!Meet(C, p), Hp!Meet(C, q)
               PROVE  p = q
    BY <1>6 DEF Hp!MeetOnce
  <2> DEFINE f(x) == IF x < i THEN x ELSE x - 1
  <2>1. f(p) \in 2..n /\ Hp!Meet(B, f(p)) /\ f(p) # i /\ (p < i \/ p >= i + 2)
    BY <1>1, <1>2, <1>10
  <2>2. f(q) \in 2..n /\ Hp!Meet(B, f(q)) /\ f(q) # i /\ (q < i \/ q >= i + 2)
    BY <1>1, <1>2, <1>10
  <2>3. f(p) = f(q)
    <3> HIDE DEF f
    <3> QED
      BY <1>1, <2>1, <2>2
  <2>4. p \in Nat /\ q \in Nat /\ i \in Nat
    BY <1>1, <1>2
  <2> QED
    BY <2>1, <2>2, <2>3, <2>4
<1>12. \A x : x \in Hp!Used(B) <=> ~x.free /\ \E k \in 1..n : B[k] = x
  BY <1>2, UsedFacts DEF n
<1>13. \A x : x \in Hp!Used(C) <=> ~x.free /\ \E k \in 1..(n + 1) : C[k] = x
  BY <1>6, UsedFacts
<1>14. ASSUME NEW x \in Hp!Used(B)
       PROVE  x.addr # u.addr /\ x \in Hp!Used(C)
  <2>1. PICK k \in 1..n : B[k] = x /\ ~x.free
    BY <1>12
  <2>2. k # i
    BY <1>1, <2>1
  <2>3. B[k].addr # B[i].addr
    BY <1>1, <2>2, TilesAreOrdered DEF n
  <2>4. \E l \in 1..(n + 1) : C[l] = x
    <3>1. CASE k < i
      <4>1. k \in 1..(i - 1) /\ k \in 1..(n + 1)
        BY <1>1, <1>2, <3>1
      <4> QED
        BY <1>7, <2>1, <4>1
    <3>2. CASE k > i
      <4>1. k + 1 \in (i + 2)..(n + 1) /\ k + 1 \in 1..(n + 1) /\ k + 1 - 1 = k
        BY <1>1, <1>2, <3>2
      <4> QED
        BY <1>7, <2>1, <4>1
    <3> QED
      BY <1>1, <1>2, <2>2, <3>1, <3>2
  <2> QED
    BY <1>4, <1>13, <2>1, <2>3, <2>4
<1>15. u \in Hp!Used(C)
  <2>1. i \in 1..(n + 1)
    BY <1>1, <1>2
  <2> QED
    BY <1>4, <1>7, <1>13, <2>1
<1>16. ASSUME NEW x \in Hp!Used(C), x # u
       PROVE  x \in Hp!Used(B)
  <2>1. PICK k \in 1..(n + 1) : C[k] = x /\ ~x.free
    BY <1>13
  <2>2. k # i /\ k # i + 1
    BY <1>4, <1>7, <1>16, <2>1
  <2>3. CASE k \in 1..(i - 1)
    <3>1. k \in 1..n /\ B[k] = x
      BY <1>1, <1>2, <1>7, <2>1, <2>3
    <3> QED
      BY <1>12, <2>1, <3>1
  <2>4. CASE k \in (i + 2)..(n + 1)
    <3>1. k - 1 \in 1..n /\ B[k - 1] = x
      BY <1>1, <1>2, <1>7, <2>1, <2>4
    <3> QED
      BY <1>12, <2>1, <3>1
  <2> QED
    BY <1>8, <2>2, <2>3, <2>4
<1>17. Hp!Used(C) = Hp!Used(B) \cup {u}
  BY <1>14, <1>15, <1>16
<1>18. u.size >= size
  BY <1>4
<1>19. Given(C, e, u, size)
  BY <1>1, <1>4, <1>9, <1>11, <1>14, <1>17, <1>18 DEF Given
<1> QED
  BY <1>19 DEF C, u, r

(* The list after malloc, and the block it returns.                        *)
LEMMA PlacedFacts ==
  ASSUME Hp!HeapInv, NEW size \in Nat, size > 0
  PROVE  \E u : /\ Given(Hp!Placed(size), heap_size + Hp!Growth(size), u, size)
                /\ Hp!Returned(size) = Hp!M_MEMORY(u)
<1> DEFINE B == Hp!Grown(size)
           i == Hp!Chosen(size)
           e == heap_size + Hp!Growth(size)
           D == Hp!__mem_split_block(B[i], size)
<1>1. Found(B, i, e, size)
  BY GrownFacts
<1>2. Hp!Placed(size) = Spliced(B, i, D) /\ Hp!Returned(size) = Hp!M_MEMORY(B[i])
  BY DEF Hp!Placed, Hp!Returned, Spliced
<1> HIDE DEF B, i, e
<1>3. B[i].size \in Nat
  <2>1. Hp!Tiles(B, e) /\ i \in 1..Len(B)
    BY <1>1 DEF Found
  <2> QED
    BY <2>1, TileFacts
<1>4. CASE B[i].size < size + Header + 1
  <2> DEFINE u == [addr |-> B[i].addr, size |-> B[i].size, free |-> FALSE]
  <2>1. D = <<u>>
    BY <1>4 DEF Hp!__mem_split_block, Hp!Block
  <2>2. Given(Spliced(B, i, <<u>>), e, u, size)
    BY <1>1, WholeFacts
  <2>3. Hp!M_MEMORY(u) = Hp!M_MEMORY(B[i])
    BY DEF Hp!M_MEMORY
  <2> HIDE DEF u, D
  <2> QED
    BY <1>2, <2>1, <2>2, <2>3 DEF e
<1>5. CASE ~(B[i].size < size + Header + 1)
  <2> DEFINE u == [addr |-> B[i].addr, size |-> size, free |-> FALSE]
             r == [addr |-> B[i].addr + Header + size, size |-> B[i].size - size - Header, free |-> TRUE]
  <2>1. D = <<u, r>>
    BY <1>5 DEF Hp!__mem_split_block, Hp!Block
  <2>2. B[i].size >= size + Header + 1
    BY <1>3, <1>5, HeapBasics
  <2>3. Given(Spliced(B, i, <<u, r>>), e, u, size)
    BY <1>1, <2>2, SplitFacts
  <2>4. Hp!M_MEMORY(u) = Hp!M_MEMORY(B[i])
    BY DEF Hp!M_MEMORY
  <2> HIDE DEF u, r, D
  <2> QED
    BY <1>2, <2>1, <2>3, <2>4 DEF e
<1> QED
  BY <1>4, <1>5

(* malloc succeeds or finds no memory: it never panics about its own list. *)
LEMMA OutcomeFacts ==
  ASSUME Hp!HeapInv, NEW size \in Nat, size > 0
  PROVE  Hp!Outcome(size) \in {"none", "out of memory"}
<1> DEFINE B == Hp!Grown(size)
           i == Hp!Chosen(size)
           C == Hp!Placed(size)
<1>1. ~(B[i].size < size)
  <2>1. Found(B, i, heap_size + Hp!Growth(size), size)
    BY GrownFacts
  <2> HIDE DEF B, i
  <2>2. Hp!Tiles(B, heap_size + Hp!Growth(size)) /\ i \in 1..Len(B) /\ B[i].size >= size
    BY <2>1 DEF Found
  <2>3. B[i].size \in Nat
    BY <2>2, TileFacts
  <2> QED
    BY <2>2, <2>3
<1>2. ASSUME NEW b \in Hp!Range(C)
      PROVE  b.size # 0
  <2>1. PICK u : Given(C, heap_size + Hp!Growth(size), u, size)
    BY PlacedFacts
  <2> HIDE DEF C
  <2>2. C \in Seq(Hp!Blocks) /\ \A k \in 1..Len(C) : C[k].size > 0 /\ C[k].size \in Nat
    BY <2>1, TileFacts DEF Given
  <2>3. DOMAIN C = 1..Len(C)
    BY <2>2
  <2>4. PICK k \in 1..Len(C) : C[k] = b
    BY <2>3, Zenon DEF Hp!Range
  <2> QED
    BY <2>2, <2>4
<1> HIDE DEF B, i, C
<1> QED
  BY <1>1, <1>2, Zenon DEF Hp!Outcome, B, i, C

(* A caller is given a block.                                              *)
LEMMA HolderGains ==
  ASSUME NEW G, NEW U, Hp!HoldersFit(G, U), U \subseteq Hp!Blocks,
         NEW u \in Hp!Blocks, \A x \in U : x.addr # u.addr,
         NEW g \in Hp!Grants, g.base = Hp!M_MEMORY(u),
         g.at + g.size <= Hp!End(u), g.at - g.hidden >= g.base, g.hidden = 0 => g.at = g.base
  PROVE  Hp!HoldersFit(G \cup {g}, U \cup {u})
<1>1. /\ G \subseteq Hp!Grants
      /\ \A h \in G : \E x \in U : /\ Hp!M_MEMORY(x) = h.base
                                   /\ h.at + h.size <= Hp!End(x) /\ h.at - h.hidden >= h.base
      /\ \A x \in U : \E h \in G : h.base = Hp!M_MEMORY(x)
      /\ \A h, k \in G : h.base = k.base => h = k
      /\ \A h \in G : h.hidden = 0 => h.at = h.base
  BY DEF Hp!HoldersFit
<1>2. \A x \in U : Hp!M_MEMORY(x) # Hp!M_MEMORY(u)
  <2>1. \A x \in U : x.addr \in Nat /\ Hp!M_MEMORY(x) = x.addr + Header
    BY HeapBlockFacts
  <2>2. u.addr \in Nat /\ Hp!M_MEMORY(u) = u.addr + Header
    BY HeapBlockFacts
  <2> QED
    BY <2>1, <2>2, HeapBasics
<1>3. \A h \in G : h.base # g.base
  BY <1>1, <1>2
<1>4. G \cup {g} \subseteq Hp!Grants
  BY <1>1
<1>5. ASSUME NEW h \in G \cup {g}
      PROVE  \E x \in U \cup {u} : /\ Hp!M_MEMORY(x) = h.base
                                   /\ h.at + h.size <= Hp!End(x) /\ h.at - h.hidden >= h.base
  <2>1. CASE h \in G
    BY <1>1, <2>1, Zenon
  <2>2. CASE h = g
    BY <2>2, Zenon
  <2> QED
    BY <2>1, <2>2
<1>6. \A x \in U \cup {u} : \E h \in G \cup {g} : h.base = Hp!M_MEMORY(x)
  BY <1>1
<1>7. \A h, k \in G \cup {g} : h.base = k.base => h = k
  BY <1>1, <1>3
<1>8. \A h \in G \cup {g} : h.hidden = 0 => h.at = h.base
  BY <1>1
<1> QED
  BY <1>4, <1>5, <1>6, <1>7, <1>8 DEF Hp!HoldersFit

(* A caller gives up what it holds.                                        *)
LEMMA HolderLoses ==
  ASSUME NEW G, NEW U, Hp!HoldersFit(G, U), U \subseteq Hp!Blocks, NEW h \in G,
         NEW x \in U, Hp!M_MEMORY(x) = h.base,
         \A y, z \in U : y.addr = z.addr => y = z
  PROVE  Hp!HoldersFit(G \ {h}, U \ {x})
<1>1. /\ G \subseteq Hp!Grants
      /\ \A k \in G : \E y \in U : /\ Hp!M_MEMORY(y) = k.base
                                   /\ k.at + k.size <= Hp!End(y) /\ k.at - k.hidden >= k.base
      /\ \A y \in U : \E k \in G : k.base = Hp!M_MEMORY(y)
      /\ \A k, l \in G : k.base = l.base => k = l
      /\ \A k \in G : k.hidden = 0 => k.at = k.base
  BY DEF Hp!HoldersFit
<1>2. \A y \in U : Hp!M_MEMORY(y) = Hp!M_MEMORY(x) => y = x
  <2>1. \A y \in U : y.addr \in Nat /\ Hp!M_MEMORY(y) = y.addr + Header
    BY HeapBlockFacts
  <2> QED
    BY <2>1, HeapBasics
<1>3. ASSUME NEW k \in G \ {h}
      PROVE  \E y \in U \ {x} : /\ Hp!M_MEMORY(y) = k.base
                                /\ k.at + k.size <= Hp!End(y) /\ k.at - k.hidden >= k.base
  <2>1. PICK y \in U : /\ Hp!M_MEMORY(y) = k.base
                       /\ k.at + k.size <= Hp!End(y) /\ k.at - k.hidden >= k.base
    BY <1>1
  <2>2. y # x
    BY <1>1, <2>1
  <2> QED
    BY <2>1, <2>2
<1>4. ASSUME NEW y \in U \ {x}
      PROVE  \E k \in G \ {h} : k.base = Hp!M_MEMORY(y)
  <2>1. PICK k \in G : k.base = Hp!M_MEMORY(y)
    BY <1>1
  <2>2. k # h
    BY <1>2, <2>1
  <2> QED
    BY <2>1, <2>2
<1> QED
  BY <1>1, <1>3, <1>4 DEF Hp!HoldersFit

(* Used blocks are blocks, and each has an address of its own.             *)
LEMMA UsedIsOwn ==
  ASSUME NEW B, NEW e, Hp!Tiles(B, e)
  PROVE  Hp!Used(B) \subseteq Hp!Blocks /\ \A y, z \in Hp!Used(B) : y.addr = z.addr => y = z
<1>1. B \in Seq(Hp!Blocks) /\ \A i \in 1..Len(B) : B[i] \in Hp!Blocks
  BY TileFacts
<1>2. \A b \in Hp!Used(B) : \E i \in 1..Len(B) : B[i] = b
  BY <1>1, UsedFacts
<1>3. \A i, j \in 1..Len(B) : B[i].addr = B[j].addr => i = j
  BY TilesAreOrdered
<1> QED
  BY <1>1, <1>2, <1>3

LEMMA HeapInvFacts ==
  ASSUME Hp!HeapInv
  PROVE  /\ heap_size \in Nat /\ Hp!Tiles(heap_blocks, heap_size) /\ Hp!MeetOnce(heap_blocks)
         /\ Hp!HoldersFit(heap_held, Hp!Used(heap_blocks))
         /\ heap_panic \in {"none", "out of memory", "empty block"} /\ heap_held \subseteq Hp!Grants
         /\ Hp!Used(heap_blocks) \subseteq Hp!Blocks
         /\ \A y, z \in Hp!Used(heap_blocks) : y.addr = z.addr => y = z
         /\ \A h \in heap_held : \E x \in Hp!Used(heap_blocks) : Hp!M_MEMORY(x) = h.base
         /\ \A h \in heap_held : h.hidden = 0 => h.at = h.base
<1>1. /\ heap_size \in Nat /\ Hp!Tiles(heap_blocks, heap_size) /\ Hp!MeetOnce(heap_blocks)
      /\ Hp!HoldersFit(heap_held, Hp!Used(heap_blocks))
      /\ heap_panic \in {"none", "out of memory", "empty block"}
  BY DEF Hp!HeapInv, Hp!NoInternalPanic
<1>2. /\ Hp!Used(heap_blocks) \subseteq Hp!Blocks
      /\ \A y, z \in Hp!Used(heap_blocks) : y.addr = z.addr => y = z
  BY <1>1, UsedIsOwn
<1>3. /\ heap_held \subseteq Hp!Grants
      /\ \A h \in heap_held : \E x \in Hp!Used(heap_blocks) : Hp!M_MEMORY(x) = h.base
      /\ \A h \in heap_held : h.hidden = 0 => h.at = h.base
  BY <1>1 DEF Hp!HoldersFit
<1> QED
  BY <1>1, <1>2, <1>3

LEMMA GrowthFacts ==
  ASSUME Hp!HeapInv, NEW size \in Nat
  PROVE  heap_size + Hp!Growth(size) \in Nat
<1>1. heap_size \in Nat /\ Hp!Pages(size) * Page \in Nat
  BY HeapInvFacts, PagesFacts
<1>2. Hp!Growth(size) = Hp!Pages(size) * Page \/ Hp!Growth(size) = 0
  BY DEF Hp!Growth
<1> QED
  BY <1>1, <1>2

(* The grant of a whole block and that of an aligned piece of it.          *)
LEMMA GrantFacts ==
  ASSUME NEW u \in Hp!Blocks, NEW size \in Nat, u.size >= size
  PROVE  LET g == Hp!Grant(Hp!M_MEMORY(u), size, Hp!M_MEMORY(u), 0)
         IN  /\ g \in Hp!Grants /\ g.base = Hp!M_MEMORY(u) /\ g.at + g.size <= Hp!End(u)
             /\ g.at - g.hidden >= g.base /\ (g.hidden = 0 => g.at = g.base)
<1> DEFINE p == Hp!M_MEMORY(u)
           g == Hp!Grant(p, size, p, 0)
<1>1. p \in Nat /\ Hp!End(u) = p + u.size /\ u.size \in Nat
  BY HeapBlockFacts, HeapBasics
<1> HIDE DEF p
<1>2. g \in Hp!Grants /\ g.base = p /\ g.at = p /\ g.size = size /\ g.hidden = 0
  BY <1>1 DEF Hp!Grant, Hp!Grants
<1> HIDE DEF g
<1>3. /\ g \in Hp!Grants /\ g.base = p /\ g.at + g.size <= Hp!End(u)
      /\ g.at - g.hidden >= g.base /\ (g.hidden = 0 => g.at = g.base)
  BY <1>1, <1>2
<1> QED
  BY <1>3 DEF g, p

LEMMA AlignedGrantFacts ==
  ASSUME NEW u \in Hp!Blocks, NEW size \in Nat, NEW al \in Nat, al > 0,
         u.size >= size + Hp!Slack(al)
  PROVE  LET p == Hp!M_MEMORY(u)
             g == Hp!Grant(Hp!AlignDown(p + Hp!Slack(al), al), size, p, Pointer)
         IN  /\ g \in Hp!Grants /\ g.base = p /\ g.at + g.size <= Hp!End(u)
             /\ g.at - g.hidden >= g.base /\ (g.hidden = 0 => g.at = g.base)
<1> DEFINE p == Hp!M_MEMORY(u)
           s == Hp!Slack(al)
           t == Hp!AlignDown(p + s, al)
           g == Hp!Grant(t, size, p, Pointer)
<1>1. p \in Nat /\ Hp!End(u) = p + u.size /\ u.size \in Nat
  BY HeapBlockFacts, HeapBasics
<1>2. s = al - 1 + Pointer /\ s \in Nat /\ Pointer \in Nat /\ Pointer > 0
  BY HeapBasics DEF Hp!Slack
<1>3. t = (p + s) - ((p + s) % al)
  BY DEF Hp!AlignDown
<1> HIDE DEF p, s, t
<1>4. (p + s) % al \in 0..(al - 1)
  BY <1>1, <1>2
<1>5. t \in Nat /\ t <= p + s /\ t >= p + Pointer
  BY <1>1, <1>2, <1>3, <1>4
<1>6. g \in Hp!Grants /\ g.base = p /\ g.at = t /\ g.size = size /\ g.hidden = Pointer
  BY <1>1, <1>2, <1>5 DEF Hp!Grant, Hp!Grants
<1> HIDE DEF g
<1>7. /\ g \in Hp!Grants /\ g.base = p /\ g.at + g.size <= Hp!End(u)
      /\ g.at - g.hidden >= g.base /\ (g.hidden = 0 => g.at = g.base)
  <2>1. u.size >= size + s
    BY DEF s
  <2> QED
    BY <1>1, <1>2, <1>5, <1>6, <2>1
<1> QED
  BY <1>7 DEF g, t, s, p

(* A panic leaves the heap as it is.                                       *)
LEMMA PanicKeeps ==
  ASSUME Hp!HeapInv, NEW size \in Nat, size > 0, heap_panic' = Hp!Outcome(size),
         UNCHANGED <<heap_blocks, heap_size, heap_held>>
  PROVE  Hp!HeapInv'
<1>1. heap_panic' \in {"none", "out of memory"}
  BY OutcomeFacts
<1> QED
  BY <1>1, HeapInvFacts DEF Hp!HeapInv, Hp!NoInternalPanic

(* What malloc and valloc do when they succeed.                            *)
LEMMA GivenKeeps ==
  ASSUME Hp!HeapInv, NEW size \in Nat, size > 0, NEW u,
         Given(Hp!Placed(size), heap_size + Hp!Growth(size), u, size), heap_panic' = "none",
         heap_blocks' = Hp!Placed(size), heap_size' = heap_size + Hp!Growth(size),
         NEW g \in Hp!Grants, g.base = Hp!M_MEMORY(u), g.at + g.size <= Hp!End(u),
         g.at - g.hidden >= g.base, g.hidden = 0 => g.at = g.base,
         heap_held' = heap_held \cup {g}
  PROVE  Hp!HeapInv'
<1> DEFINE U == Hp!Used(heap_blocks)
           C == Hp!Placed(size)
           e == heap_size + Hp!Growth(size)
<1>1. /\ Hp!Tiles(C, e) /\ Hp!MeetOnce(C) /\ u \in Hp!Blocks /\ Hp!Used(C) = U \cup {u}
      /\ \A x \in U : x.addr # u.addr
  BY DEF Given
<1>2. Hp!HoldersFit(heap_held, U) /\ U \subseteq Hp!Blocks
  BY HeapInvFacts
<1>3. e \in Nat
  BY GrowthFacts
<1> HIDE DEF U, C, e
<1>4. Hp!HoldersFit(heap_held \cup {g}, U \cup {u})
  BY <1>1, <1>2, HolderGains
<1>5. Hp!Tiles(heap_blocks', heap_size') /\ Hp!MeetOnce(heap_blocks') /\ heap_size' \in Nat
  BY <1>1, <1>3 DEF C, e
<1>6. Hp!HoldersFit(heap_held', Hp!Used(heap_blocks'))
  BY <1>1, <1>4 DEF C
<1> QED
  BY <1>5, <1>6 DEF Hp!HeapInv, Hp!NoInternalPanic

LEMMA MallocKeeps ==
  ASSUME Hp!HeapInv, NEW size \in Sizes, Hp!malloc(size)
  PROVE  Hp!HeapInv'
<1>1. size \in Nat /\ size > 0
  BY HeapBasics
<1>2. heap_panic' = Hp!Outcome(size)
  BY DEF Hp!malloc
<1>3. CASE heap_panic' = "none"
  <2>1. /\ heap_blocks' = Hp!Placed(size) /\ heap_size' = heap_size + Hp!Growth(size)
        /\ heap_held' = heap_held \cup {Hp!Grant(Hp!Returned(size), size, Hp!Returned(size), 0)}
    BY <1>3 DEF Hp!malloc
  <2>2. PICK u : /\ Given(Hp!Placed(size), heap_size + Hp!Growth(size), u, size)
                 /\ Hp!Returned(size) = Hp!M_MEMORY(u)
    BY <1>1, PlacedFacts
  <2> DEFINE g == Hp!Grant(Hp!M_MEMORY(u), size, Hp!M_MEMORY(u), 0)
  <2>3. u \in Hp!Blocks /\ u.size >= size
    BY <2>2 DEF Given
  <2>4. /\ g \in Hp!Grants /\ g.base = Hp!M_MEMORY(u) /\ g.at + g.size <= Hp!End(u)
        /\ g.at - g.hidden >= g.base /\ (g.hidden = 0 => g.at = g.base)
    BY <1>1, <2>3, GrantFacts
  <2>5. heap_held' = heap_held \cup {g}
    BY <2>1, <2>2
  <2> HIDE DEF g
  <2> QED
    BY <1>1, <1>3, <2>1, <2>2, <2>4, <2>5, GivenKeeps
<1>4. CASE heap_panic' # "none"
  <2>1. UNCHANGED <<heap_blocks, heap_size, heap_held>>
    BY <1>4 DEF Hp!malloc
  <2> QED
    BY <1>1, <1>2, <2>1, PanicKeeps
<1> QED
  BY <1>3, <1>4

LEMMA VallocKeeps ==
  ASSUME Hp!HeapInv, NEW size \in Sizes, NEW al \in Alignments, Hp!valloc(size, al)
  PROVE  Hp!HeapInv'
<1> DEFINE s == size + Hp!Slack(al)
<1>1. size \in Nat /\ size > 0 /\ al \in Nat /\ al > 0
  BY HeapBasics
<1>2. s \in Nat /\ s > 0
  BY <1>1, HeapBasics DEF Hp!Slack
<1>3. heap_panic' = Hp!Outcome(s)
  BY DEF Hp!valloc
<1>4. CASE heap_panic' = "none"
  <2>1. /\ heap_blocks' = Hp!Placed(s) /\ heap_size' = heap_size + Hp!Growth(s)
        /\ heap_held' = heap_held \cup {Hp!Grant(Hp!AlignDown(Hp!Returned(s) + Hp!Slack(al), al), size,
                                                 Hp!Returned(s), Pointer)}
    BY <1>4 DEF Hp!valloc
  <2>2. PICK u : Given(Hp!Placed(s), heap_size + Hp!Growth(s), u, s) /\ Hp!Returned(s) = Hp!M_MEMORY(u)
    <3> HIDE DEF s
    <3> QED
      BY <1>2, PlacedFacts
  <2> DEFINE p == Hp!M_MEMORY(u)
             g == Hp!Grant(Hp!AlignDown(p + Hp!Slack(al), al), size, p, Pointer)
  <2>3. u \in Hp!Blocks /\ u.size >= s
    BY <2>2 DEF Given
  <2>4. /\ g \in Hp!Grants /\ g.base = p /\ g.at + g.size <= Hp!End(u)
        /\ g.at - g.hidden >= g.base /\ (g.hidden = 0 => g.at = g.base)
    BY <1>1, <2>3, AlignedGrantFacts
  <2>5. heap_held' = heap_held \cup {g}
    BY <2>1, <2>2
  <2> HIDE DEF g, s
  <2> QED
    BY <1>2, <1>4, <2>1, <2>2, <2>4, <2>5, GivenKeeps
<1>5. CASE heap_panic' # "none"
  <2>1. UNCHANGED <<heap_blocks, heap_size, heap_held>>
    BY <1>5 DEF Hp!valloc
  <2> HIDE DEF s
  <2> QED
    BY <1>2, <1>3, <2>1, PanicKeeps
<1> QED
  BY <1>4, <1>5

LEMMA FreeKeeps ==
  ASSUME Hp!HeapInv, NEW h \in heap_held, Hp!free(h) \/ Hp!vfree(h)
  PROVE  Hp!HeapInv'
<1>1. /\ heap_blocks' = Hp!Freed(heap_blocks, h.base) /\ heap_held' = heap_held \ {h}
      /\ UNCHANGED <<heap_size, heap_panic>>
  BY DEF Hp!free, Hp!vfree
<1> DEFINE U == Hp!Used(heap_blocks)
<1>2. /\ heap_size \in Nat /\ Hp!Tiles(heap_blocks, heap_size) /\ Hp!MeetOnce(heap_blocks)
      /\ Hp!HoldersFit(heap_held, U) /\ heap_panic \in {"none", "out of memory", "empty block"}
      /\ U \subseteq Hp!Blocks /\ \A y, z \in U : y.addr = z.addr => y = z
  BY HeapInvFacts
<1>3. PICK x \in U : Hp!M_MEMORY(x) = h.base
  BY HeapInvFacts
<1>4. /\ Hp!Tiles(heap_blocks', heap_size) /\ Hp!MeetOnce(heap_blocks')
      /\ Hp!Used(heap_blocks') = U \ {x}
  BY <1>1, <1>2, <1>3, FreedFacts
<1> HIDE DEF U
<1>5. Hp!HoldersFit(heap_held \ {h}, U \ {x})
  BY <1>2, <1>3, HolderLoses
<1>6. Hp!HoldersFit(heap_held', Hp!Used(heap_blocks'))
  BY <1>1, <1>4, <1>5
<1> QED
  BY <1>1, <1>2, <1>4, <1>6 DEF Hp!HeapInv, Hp!NoInternalPanic

LEMMA ReallocKeeps ==
  ASSUME Hp!HeapInv, NEW h \in heap_held, NEW size \in Sizes, Hp!realloc(h, size)
  PROVE  Hp!HeapInv'
<1> DEFINE U == Hp!Used(heap_blocks)
<1>1. size \in Nat /\ size > 0
  BY HeapBasics
<1>2. /\ heap_size \in Nat /\ Hp!Tiles(heap_blocks, heap_size) /\ Hp!MeetOnce(heap_blocks)
      /\ Hp!HoldersFit(heap_held, U) /\ heap_panic \in {"none", "out of memory", "empty block"}
      /\ U \subseteq Hp!Blocks /\ \A y, z \in U : y.addr = z.addr => y = z
  BY HeapInvFacts
<1>3. PICK x \in U : Hp!M_MEMORY(x) = h.base
  BY HeapInvFacts
<1>4. h.hidden = 0 /\ h.at = h.base
  BY HeapInvFacts DEF Hp!realloc
<1>5. Hp!HoldersFit(heap_held \ {h}, U \ {x})
  <2> HIDE DEF U
  <2> QED
    BY <1>2, <1>3, HolderLoses
<1>6. CASE \E b \in Hp!Range(heap_blocks) : Hp!M_MEMORY(b) = h.base /\ b.size = size
  <2>1. /\ heap_held' = (heap_held \ {h}) \cup {Hp!Grant(h.at, size, h.base, 0)}
        /\ UNCHANGED <<heap_blocks, heap_size, heap_panic>>
    BY <1>6 DEF Hp!realloc
  <2>2. x.size = size
    <3>1. /\ heap_blocks \in Seq(Hp!Blocks) /\ \A i \in 1..Len(heap_blocks) : heap_blocks[i] \in Hp!Blocks
      BY <1>2, TileFacts
    <3>2. DOMAIN heap_blocks = 1..Len(heap_blocks)
      BY <3>1
    <3>3. PICK i \in 1..Len(heap_blocks) : Hp!M_MEMORY(heap_blocks[i]) = h.base /\ heap_blocks[i].size = size
      BY <1>6, <3>2, Zenon DEF Hp!Range
    <3>4. PICK j \in 1..Len(heap_blocks) : heap_blocks[j] = x
      BY <3>1, UsedFacts
    <3>5. heap_blocks[i].addr = heap_blocks[j].addr
      <4>1. /\ heap_blocks[i].addr \in Nat /\ Hp!M_MEMORY(heap_blocks[i]) = heap_blocks[i].addr + Header
            /\ heap_blocks[j].addr \in Nat /\ Hp!M_MEMORY(heap_blocks[j]) = heap_blocks[j].addr + Header
        BY <3>1, HeapBlockFacts
      <4>2. Hp!M_MEMORY(heap_blocks[i]) = Hp!M_MEMORY(heap_blocks[j])
        BY <1>3, <3>3, <3>4
      <4> QED
        BY <4>1, <4>2, HeapBasics
    <3>6. i = j
      BY <1>2, <3>5, TilesAreOrdered
    <3> QED
      BY <3>3, <3>4, <3>6
  <2> DEFINE g == Hp!Grant(Hp!M_MEMORY(x), size, Hp!M_MEMORY(x), 0)
  <2>3. x \in Hp!Blocks /\ x.size >= size
    <3>1. x \in Hp!Blocks
      BY <1>2
    <3>2. \A k \in Nat : k >= k
      OBVIOUS
    <3> QED
      BY <1>1, <2>2, <3>1, <3>2
  <2>4. /\ g \in Hp!Grants /\ g.base = Hp!M_MEMORY(x) /\ g.at + g.size <= Hp!End(x)
        /\ g.at - g.hidden >= g.base /\ (g.hidden = 0 => g.at = g.base)
    BY <1>1, <2>3, GrantFacts
  <2>5. heap_held' = (heap_held \ {h}) \cup {g}
    BY <1>3, <1>4, <2>1
  <2> HIDE DEF g, U
  <2>6. \A y \in U \ {x} : y.addr # x.addr
    BY <1>2
  <2>7. U \ {x} \subseteq Hp!Blocks
    BY <1>2
  <2>8. Hp!HoldersFit((heap_held \ {h}) \cup {g}, (U \ {x}) \cup {x})
    BY <1>5, <2>3, <2>4, <2>6, <2>7, HolderGains
  <2>9. (U \ {x}) \cup {x} = U
    OBVIOUS
  <2>10. Hp!HoldersFit(heap_held', Hp!Used(heap_blocks'))
    BY <2>1, <2>5, <2>8, <2>9 DEF U
  <2> QED
    BY <1>2, <2>1, <2>10 DEF Hp!HeapInv, Hp!NoInternalPanic
<1>7. CASE ~ \E b \in Hp!Range(heap_blocks) : Hp!M_MEMORY(b) = h.base /\ b.size = size
  <2>1. heap_panic' = Hp!Outcome(size)
    BY <1>7 DEF Hp!realloc
  <2>2. CASE heap_panic' = "none"
    <3> DEFINE C == Hp!Placed(size)
               e == heap_size + Hp!Growth(size)
    <3>1. /\ heap_blocks' = Hp!Freed(C, h.base) /\ heap_size' = e
          /\ heap_held' = (heap_held \ {h}) \cup {Hp!Grant(Hp!Returned(size), size, Hp!Returned(size), 0)}
      BY <1>7, <2>2 DEF Hp!realloc
    <3>2. PICK u : Given(C, e, u, size) /\ Hp!Returned(size) = Hp!M_MEMORY(u)
      BY <1>1, PlacedFacts
    <3>3. e \in Nat
      BY <1>1, GrowthFacts
    <3>4. /\ Hp!Tiles(C, e) /\ Hp!MeetOnce(C) /\ u \in Hp!Blocks /\ u.size >= size
          /\ Hp!Used(C) = U \cup {u} /\ \A y \in U : y.addr # u.addr
      BY <3>2 DEF Given
    <3> DEFINE g == Hp!Grant(Hp!M_MEMORY(u), size, Hp!M_MEMORY(u), 0)
    <3>5. /\ g \in Hp!Grants /\ g.base = Hp!M_MEMORY(u) /\ g.at + g.size <= Hp!End(u)
          /\ g.at - g.hidden >= g.base /\ (g.hidden = 0 => g.at = g.base)
      BY <1>1, <3>4, GrantFacts
    <3>6. heap_held' = (heap_held \ {h}) \cup {g}
      BY <3>1, <3>2
    <3> HIDE DEF g, U, C, e
    <3>7. x \in Hp!Used(C)
      BY <3>4
    <3>8. /\ Hp!Tiles(Hp!Freed(C, Hp!M_MEMORY(x)), e) /\ Hp!MeetOnce(Hp!Freed(C, Hp!M_MEMORY(x)))
          /\ Hp!Used(Hp!Freed(C, Hp!M_MEMORY(x))) = Hp!Used(C) \ {x}
      BY <3>4, <3>7, FreedFacts
    <3>9. /\ Hp!Tiles(heap_blocks', heap_size') /\ Hp!MeetOnce(heap_blocks')
          /\ Hp!Used(heap_blocks') = Hp!Used(C) \ {x}
      BY <1>3, <3>1, <3>8
    <3>10. x # u
      BY <3>4
    <3>11. Hp!Used(C) \ {x} = (U \ {x}) \cup {u}
      BY <3>4, <3>10
    <3>12. U \ {x} \subseteq Hp!Blocks /\ \A y \in U \ {x} : y.addr # u.addr
      BY <1>2, <3>4
    <3>13. Hp!HoldersFit((heap_held \ {h}) \cup {g}, (U \ {x}) \cup {u})
      BY <1>5, <3>4, <3>5, <3>12, HolderGains
    <3>14. Hp!HoldersFit(heap_held', Hp!Used(heap_blocks'))
      BY <3>6, <3>9, <3>11, <3>13
    <3>15. heap_size' \in Nat
      BY <3>1, <3>3
    <3> QED
      BY <2>2, <3>9, <3>14, <3>15 DEF Hp!HeapInv, Hp!NoInternalPanic
  <2>3. CASE heap_panic' # "none"
    <3>1. UNCHANGED <<heap_blocks, heap_size, heap_held>>
      BY <1>7, <2>3 DEF Hp!realloc
    <3> QED
      BY <1>1, <2>1, <3>1, PanicKeeps
  <2> QED
    BY <2>2, <2>3
<1> QED
  BY <1>6, <1>7

LEMMA NextHeap ==
  ASSUME Hp!HeapInv, Hp!Next
  PROVE  Hp!HeapInv'
<1>1. CASE \E size \in Sizes : Hp!malloc(size)
  BY <1>1, MallocKeeps
<1>2. CASE \E h \in heap_held : Hp!free(h)
  BY <1>2, FreeKeeps
<1>3. CASE \E h \in heap_held, size \in Sizes : Hp!realloc(h, size)
  BY <1>3, ReallocKeeps
<1>4. CASE \E size \in Sizes, al \in Alignments : Hp!valloc(size, al)
  BY <1>4, VallocKeeps
<1>5. CASE \E h \in heap_held : Hp!vfree(h)
  BY <1>5, FreeKeeps
<1>6. CASE Hp!malloc_empty
  BY <1>6, HeapInvFacts DEF Hp!malloc_empty, Hp!HeapInv, Hp!NoInternalPanic
<1> QED
  BY <1>1, <1>2, <1>3, <1>4, <1>5, <1>6 DEF Hp!Next

LEMMA HeapStutters ==
  ASSUME Hp!HeapInv, UNCHANGED heapVars
  PROVE  Hp!HeapInv'
<1>1. UNCHANGED <<heap_blocks, heap_size, heap_panic, heap_held>>
  BY DEF heapVars
<1> QED
  BY <1>1, HeapInvFacts DEF Hp!HeapInv, Hp!NoInternalPanic

LEMMA InitHeap == Hp!Init => Hp!HeapInv
<1> SUFFICES ASSUME Hp!Init
             PROVE  Hp!HeapInv
  OBVIOUS
<1> DEFINE b == [addr |-> 0, size |-> InitialSize - Header, free |-> TRUE]
<1>1. heap_blocks = <<b>> /\ heap_size = InitialSize /\ heap_panic = "none" /\ heap_held = {}
  BY DEF Hp!Init, Hp!Block
<1>2. InitialSize - Header \in Nat /\ InitialSize - Header > 0 /\ InitialSize \in Nat
  BY HeapBasics
<1>3. b \in Hp!Blocks /\ b.addr = 0 /\ b.size = InitialSize - Header /\ b.free = TRUE
  BY <1>2 DEF Hp!Blocks
<1> HIDE DEF b
<1>4. Hp!End(b) = InitialSize
  BY <1>2, <1>3, HeapBasics DEF Hp!End
<1>5. heap_blocks \in Seq(Hp!Blocks) /\ Len(heap_blocks) = 1 /\ heap_blocks[1] = b
  BY <1>1, <1>3
<1>6. Hp!Tiles(heap_blocks, heap_size)
  <2>1. (\A i \in 2..Len(heap_blocks) : FALSE) /\ (\A i \in 1..Len(heap_blocks) : i = 1)
    BY <1>5
  <2> QED
    BY <1>1, <1>2, <1>3, <1>4, <1>5, <2>1 DEF Hp!Tiles
<1>7. Hp!MeetOnce(heap_blocks)
  <2>1. \A i \in 2..Len(heap_blocks) : FALSE
    BY <1>5
  <2> QED
    BY <2>1 DEF Hp!MeetOnce
<1>8. Hp!Used(heap_blocks) = {}
  <2>1. \A i \in 1..Len(heap_blocks) : i = 1
    BY <1>5
  <2>2. \A x : x \notin Hp!Used(heap_blocks)
    BY <1>3, <1>5, <2>1, UsedFacts
  <2> QED
    BY <2>2
<1>9. Hp!HoldersFit(heap_held, Hp!Used(heap_blocks))
  BY <1>1, <1>8 DEF Hp!HoldersFit
<1> QED
  BY <1>1, <1>2, <1>6, <1>7, <1>9 DEF Hp!HeapInv, Hp!NoInternalPanic

LEMMA HpCounts == \A T : Hp!Cardinality(T) = Cardinality(T)
  BY DEF Hp!Cardinality, Cardinality, Hp!IsFiniteSet, IsFiniteSet

LEMMA HeapPromises ==
  ASSUME Hp!HeapInv
  PROVE  Hp!HeapIsTiled /\ Hp!HeldIsUsed /\ Hp!FreeMemoryIsMerged /\ Hp!NoInternalPanic
<1> DEFINE n == Len(heap_blocks)
           U == Hp!Used(heap_blocks)
<1>1. /\ heap_size \in Nat /\ Hp!Tiles(heap_blocks, heap_size) /\ Hp!MeetOnce(heap_blocks)
      /\ Hp!HoldersFit(heap_held, U)
      /\ U \subseteq Hp!Blocks /\ \A y, z \in U : y.addr = z.addr => y = z
  BY HeapInvFacts
<1>2. /\ heap_blocks \in Seq(Hp!Blocks) /\ n \in Nat /\ n > 0 /\ heap_blocks[1].addr = 0
      /\ \A k \in 1..n : heap_blocks[k] \in Hp!Blocks /\ heap_blocks[k].size > 0
      /\ \A k \in 2..n : heap_blocks[k].addr = Hp!End(heap_blocks[k - 1])
      /\ Hp!End(heap_blocks[n]) = heap_size
  BY <1>1, TileFacts
<1>3. DOMAIN heap_blocks = 1..n
  BY <1>2
<1>4. Hp!HeapIsTiled
  <2>1. \A b \in Hp!Range(heap_blocks) : b.size > 0
    <3>1. \A b \in Hp!Range(heap_blocks) : \E k \in 1..n : b = heap_blocks[k]
      BY <1>3, Zenon DEF Hp!Range
    <3> QED
      BY <1>2, <3>1
  <2>2. heap_blocks # << >>
    BY <1>2
  <2> QED
    BY <1>2, <2>1, <2>2 DEF Hp!HeapIsTiled
<1>5. Hp!FreeMemoryIsMerged
  <2> DEFINE F == Hp!FreePairs
  <2>1. \A i, j \in F : i = j
    BY <1>1 DEF Hp!FreePairs, Hp!MeetOnce, Hp!Meet
  <2> HIDE DEF F
  <2>2. F = {} \/ \E i : F = {i}
    BY <2>1
  <2>3. Cardinality({}) = 0 /\ \A i : Cardinality({i}) = 1
    BY FS_EmptySet, FS_Singleton
  <2>4. Cardinality(F) <= 1
    <3>1. Cardinality(F) = 0 \/ Cardinality(F) = 1
      BY <2>2, <2>3, Zenon
    <3> QED
      BY <3>1
  <2> QED
    BY <2>4, HpCounts DEF Hp!FreeMemoryIsMerged, F
<1>6. Hp!HeldIsUsed
  <2> DEFINE I == {i \in DOMAIN heap_blocks : ~heap_blocks[i].free}
             f == [i \in I |-> CHOOSE h \in heap_held : h.base = Hp!M_MEMORY(heap_blocks[i])]
  <2>1. /\ \A h \in heap_held : \E u \in U : /\ Hp!M_MEMORY(u) = h.base
                                             /\ h.at + h.size <= Hp!End(u) /\ h.at - h.hidden >= h.base
        /\ \A u \in U : \E h \in heap_held : h.base = Hp!M_MEMORY(u)
        /\ \A h, g \in heap_held : h.base = g.base => h = g
    BY <1>1 DEF Hp!HoldersFit
  <2>2. \A x : x \in U <=> ~x.free /\ \E k \in 1..n : heap_blocks[k] = x
    BY <1>2, UsedFacts
  <2>3. \A i : i \in I <=> i \in 1..n /\ ~heap_blocks[i].free
    BY <1>3
  <2>4. \A i, j \in I : Hp!M_MEMORY(heap_blocks[i]) = Hp!M_MEMORY(heap_blocks[j]) => i = j
    <3>1. \A i \in 1..n : heap_blocks[i].addr \in Nat /\ Hp!M_MEMORY(heap_blocks[i]) = heap_blocks[i].addr + Header
      BY <1>2, HeapBlockFacts
    <3>2. \A i, j \in 1..n : heap_blocks[i].addr = heap_blocks[j].addr => i = j
      BY <1>1, TilesAreOrdered
    <3> HIDE DEF I, n
    <3>3. ASSUME NEW i \in I, NEW j \in I, Hp!M_MEMORY(heap_blocks[i]) = Hp!M_MEMORY(heap_blocks[j])
          PROVE  i = j
      <4>1. i \in 1..n /\ j \in 1..n
        BY <2>3
      <4>2. heap_blocks[i].addr = heap_blocks[j].addr
        BY <3>1, <3>3, <4>1, HeapBasics
      <4> QED
        BY <3>2, <4>1, <4>2
    <3> QED
      BY <3>3
  <2>5. \A i \in I : heap_blocks[i] \in U
    BY <2>2, <2>3
  <2>6. \A h \in heap_held : \E i \in I : h.base = Hp!M_MEMORY(heap_blocks[i])
    BY <2>1, <2>2, <2>3
  <2> HIDE DEF I
  <2>7. ASSUME NEW i \in I
        PROVE  f[i] \in heap_held /\ f[i].base = Hp!M_MEMORY(heap_blocks[i])
    <3>1. \E h \in heap_held : h.base = Hp!M_MEMORY(heap_blocks[i])
      BY <2>1, <2>5
    <3>2. f[i] = CHOOSE h \in heap_held : h.base = Hp!M_MEMORY(heap_blocks[i])
      OBVIOUS
    <3> HIDE DEF f
    <3> QED
      BY <3>1, <3>2
  <2>8. f \in [I -> heap_held]
    BY <2>7
  <2> HIDE DEF f
  <2>9. \A i, j \in I : f[i] = f[j] => i = j
    BY <2>4, <2>7
  <2>10. \A h \in heap_held : \E i \in I : f[i] = h
    <3>1. ASSUME NEW h \in heap_held
          PROVE  \E i \in I : f[i] = h
      <4>1. PICK i \in I : h.base = Hp!M_MEMORY(heap_blocks[i])
        BY <2>6
      <4>2. f[i] \in heap_held /\ f[i].base = h.base
        BY <2>7, <4>1
      <4> QED
        BY <2>1, <4>2
    <3> QED
      BY <3>1
  <2>11. f \in Bijection(I, heap_held)
    <3>1. f \in Injection(I, heap_held)
      BY <2>8, <2>9, Zenon DEF Injection, IsInjective
    <3>2. f \in Surjection(I, heap_held)
      BY <2>8, <2>10, Zenon DEF Surjection
    <3> QED
      BY <3>1, <3>2, Zenon DEF Bijection
  <2>12. IsFiniteSet(I)
    <3>1. IsFiniteSet(1..n)
      BY <1>2, FS_Interval
    <3>2. I \subseteq 1..n
      BY <2>3
    <3> QED
      BY <3>1, <3>2, FS_Subset
  <2>13. Cardinality(heap_held) = Cardinality(I)
    <3>1. ExistsBijection(I, heap_held)
      BY <2>11, Zenon DEF ExistsBijection
    <3> QED
      BY <2>12, <3>1, FS_Bijection
  <2>14. ASSUME NEW h \in heap_held
         PROVE  \E b \in Hp!Range(heap_blocks) :
                  ~b.free /\ Hp!M_MEMORY(b) = h.base /\ h.at + h.size <= Hp!End(b) /\ h.at - h.hidden >= h.base
    BY <2>1 DEF Hp!Used
  <2> QED
    BY <2>13, <2>14, HpCounts DEF Hp!HeldIsUsed, I
<1> QED
  BY <1>4, <1>5, <1>6 DEF Hp!HeapInv

(* Memory has one owner and none is lost.  Whatever processes map, share,  *)
(* fork, replace and end, no frame has two owners and none that is used    *)
(* has lost its owner, but for the copies that fork makes of the pages of  *)
(* a shared memory mapping, which nobody frees; and unless files are       *)
(* mapped no two mappings overlap (mmap.c, shm.c, paging.c).  Whatever     *)
(* callers ask of the kernel heap, until one asks for no bytes and for any *)
(* sizes and alignments, its blocks tile it, each in use has its own       *)
(* holder, free ones meet in one place at most and no panic about the      *)
(* allocator's own state is reached (alloc.c).                             *)
THEOREM MemoryStaysOwned == Spec => []MemoryIsOwned
<1> DEFINE Inv == (part = "memory" => Mem!MemoryInv) /\ (part = "heap" => Hp!HeapInv)
<1>1. Init => Inv
  BY InitMemory, InitHeap DEF Init
<1>2. Inv /\ [Next]_vars => Inv'
  <2> SUFFICES ASSUME Inv, [Next]_vars
               PROVE  Inv'
    OBVIOUS
  <2>1. part' = part
    BY DEF Next, vars
  <2>2. CASE part = "memory"
    <3>1. Mem!Next \/ UNCHANGED memVars
      BY <2>2 DEF Next, vars
    <3>2. CASE UNCHANGED memVars
      <4>1. UNCHANGED <<kinds, mem_state, used, pt, mem_blocks, mem_start, mem_fds, mem_nodes, shm>>
        BY <3>2 DEF memVars
      <4> QED
        BY <2>1, <2>2, <4>1, MemStutters
    <3> QED
      BY <2>1, <2>2, <3>1, <3>2, NextMemory
  <2>3. CASE part = "heap"
    <3>1. Hp!Next \/ UNCHANGED heapVars
      BY <2>3 DEF Next, vars
    <3> QED
      BY <2>1, <2>3, <3>1, NextHeap, HeapStutters
  <2>4. CASE part \notin {"memory", "heap"}
    BY <2>1, <2>4
  <2> QED
    BY <2>2, <2>3, <2>4
<1>3. Inv => MemoryIsOwned
  BY MemPromises, HeapPromises DEF MemoryIsOwned
<1> QED
  BY <1>1, <1>2, <1>3, PTL DEF Spec

(***************************************************************************)
(* Starting a program                                                      *)
(***************************************************************************)

(* Two sequences joined.                                                   *)
LEMMA JoinFacts ==
  ASSUME NEW W, NEW s \in Seq(W), NEW t \in Seq(W)
  PROVE  /\ s \o t \in Seq(W) /\ Len(s \o t) = Len(s) + Len(t)
         /\ \A k \in 1..Len(s) : (s \o t)[k] = s[k]
         /\ \A k \in 1..Len(t) : (s \o t)[Len(s) + k] = t[k]
<1>1. s \o t \in Seq(W)
  OBVIOUS
<1>2. Len(s \o t) = Len(s) + Len(t)
  OBVIOUS
<1>3. \A k \in 1..Len(s) : (s \o t)[k] = s[k]
  OBVIOUS
<1>4. \A k \in 1..Len(t) : (s \o t)[Len(s) + k] = t[k]
  OBVIOUS
<1> QED
  BY <1>1, <1>2, <1>3, <1>4

(* Strings and their addresses on the stack of a new image.                *)
Pushed(r, s, t, l, n) ==
  /\ Len(r) = l + 2 * n
  /\ \A k \in 1..n : r[k] = l + n - k + 1 /\ r[n + k] = t[k]
  /\ \A k \in 1..l : r[2 * n + k] = s[k]

LEMMA PushFacts ==
  ASSUME NEW W, Nat \subseteq W, NEW s \in Seq(W), NEW t \in Seq(W),
         NEW l \in Nat, NEW n \in Nat, l = Len(s), n = Len(t)
  PROVE  Ex!PushAll(s, t) \in Seq(W) /\ Pushed(Ex!PushAll(s, t), s, t, l, n)
<1> DEFINE p == [k \in 1..n |-> l + n - k + 1]
           q == p \o t
<1>1. n \in Nat /\ l \in Nat
  OBVIOUS
<1>2. Ex!PushAll(s, t) = q \o s
  BY DEF Ex!PushAll, Ex!Pointers, Ex!Here
<1>3. p \in Seq(W) /\ Len(p) = n /\ \A k \in 1..n : p[k] = l + n - k + 1
  <2>1. \A k \in 1..n : l + n - k + 1 \in W
    BY <1>1
  <2> QED
    BY <1>1, <2>1
<1> HIDE DEF p
<1>4. /\ q \in Seq(W) /\ Len(q) = n + n
      /\ \A k \in 1..n : q[k] = p[k] /\ q[n + k] = t[k]
  <2>1. p \in Seq(W) /\ t \in Seq(W)
    BY <1>3
  <2>2. /\ q \in Seq(W) /\ Len(q) = Len(p) + Len(t)
        /\ \A k \in 1..Len(p) : q[k] = p[k]
        /\ \A k \in 1..Len(t) : q[Len(p) + k] = t[k]
    BY <2>1, JoinFacts
  <2> HIDE DEF q
  <2> QED
    BY <1>1, <1>3, <2>2
<1> HIDE DEF q
<1>5. q \o s \in Seq(W) /\ Len(q \o s) = l + 2 * n
  <2>1. q \o s \in Seq(W) /\ Len(q \o s) = Len(q) + l
    BY <1>4, JoinFacts
  <2> QED
    BY <1>1, <1>4, <2>1
<1>6. ASSUME NEW k \in 1..n
      PROVE  (q \o s)[k] = l + n - k + 1 /\ (q \o s)[n + k] = t[k]
  <2>1. k \in 1..Len(q) /\ n + k \in 1..Len(q)
    BY <1>1, <1>4
  <2>2. (q \o s)[k] = q[k] /\ (q \o s)[n + k] = q[n + k]
    BY <1>4, <2>1, JoinFacts
  <2> QED
    BY <1>3, <1>4, <2>2
<1>7. ASSUME NEW k \in 1..l
      PROVE  (q \o s)[2 * n + k] = s[k]
  <2>1. (q \o s)[Len(q) + k] = s[k]
    BY <1>4, JoinFacts
  <2>2. Len(q) + k = 2 * n + k
    BY <1>1, <1>4
  <2> QED
    BY <2>1, <2>2
<1> QED
  BY <1>2, <1>5, <1>6, <1>7 DEF Pushed

(* A program finds on its stack the arguments and the environment that     *)
(* exec put there.                                                         *)
LEMMA StackIsRead ==
  ASSUME NEW W, NEW argv \in Seq(W), NEW envp \in Seq(W)
  PROVE  /\ Ex!Argv(Ex!Stack(argv, envp)) = argv
         /\ Ex!Envp(Ex!Stack(argv, envp)) = envp
<1> DEFINE U == Nat \cup W
           n == Len(argv)
           m == Len(envp)
           e == Ex!PushAll(<< >>, envp)
           a == Ex!PushAll(e, argv)
           h == <<n, Len(a), m, Len(e)>>
           s == h \o a
<1>1. /\ n \in Nat /\ m \in Nat /\ argv \in Seq(U) /\ envp \in Seq(U) /\ Nat \subseteq U
      /\ << >> \in Seq(U) /\ Len(<< >>) = 0
  OBVIOUS
<1>2. Ex!Stack(argv, envp) = s
  BY DEF Ex!Stack, Ex!Here, Ex!EnvAt
<1> HIDE DEF U
<1>3. /\ e \in Seq(U) /\ Len(e) = 2 * m
      /\ \A k \in 1..m : e[k] = m - k + 1 /\ e[m + k] = envp[k]
  <2> DEFINE z == << >>
  <2>1. z \in Seq(U) /\ Len(z) = 0 /\ e = Ex!PushAll(z, envp)
    BY <1>1
  <2> HIDE DEF z, e
  <2>2. z \in Seq(U) /\ envp \in Seq(U) /\ Nat \subseteq U
    BY <1>1, <2>1
  <2>3. 0 \in Nat /\ m \in Nat /\ Len(z) = 0 /\ m = Len(envp)
    BY <1>1, <2>1
  <2> HIDE DEF m
  <2>4. e \in Seq(U) /\ Pushed(e, z, envp, 0, m)
    BY <2>1, <2>2, <2>3, PushFacts
  <2> QED
    BY <2>3, <2>4 DEF Pushed
<1> HIDE DEF e
<1>4. /\ a \in Seq(U) /\ Len(a) = Len(e) + 2 * n
      /\ \A k \in 1..n : a[k] = Len(e) + n - k + 1 /\ a[n + k] = argv[k]
      /\ \A k \in 1..Len(e) : a[2 * n + k] = e[k]
  <2> DEFINE l == Len(e)
  <2>1. /\ e \in Seq(U) /\ argv \in Seq(U) /\ Nat \subseteq U
        /\ l \in Nat /\ n \in Nat /\ l = Len(e) /\ n = Len(argv)
    BY <1>1, <1>3
  <2> HIDE DEF l, n
  <2>2. a \in Seq(U) /\ Pushed(a, e, argv, l, n)
    BY <2>1, PushFacts
  <2> QED
    BY <2>2 DEF l, Pushed
<1> HIDE DEF a
<1>5. Len(a) = 2 * m + 2 * n
  BY <1>1, <1>3, <1>4
<1>6. /\ Len(s) = 4 + 2 * m + 2 * n
      /\ s[1] = n /\ s[2] = 2 * m + 2 * n /\ s[3] = m /\ s[4] = 2 * m
      /\ \A k \in 1..(2 * m + 2 * n) : s[4 + k] = a[k]
  <2> HIDE DEF n, m
  <2>1. h \in Seq(U) /\ Len(h) = 4
    BY <1>1, <1>3, <1>5
  <2>2. s[1] = n /\ s[2] = Len(a) /\ s[3] = m /\ s[4] = Len(e)
    BY <1>4, <2>1
  <2>3. Len(s) = 4 + Len(a)
    BY <1>4, <2>1
  <2>4. \A k \in 1..Len(a) : s[4 + k] = a[k]
    <3> HIDE DEF h
    <3>1. h \in Seq(U) /\ a \in Seq(U)
      BY <1>4, <2>1
    <3>2. \A k \in 1..Len(a) : s[Len(h) + k] = a[k]
      BY <3>1, JoinFacts
    <3> QED
      BY <2>1, <3>2
  <2> HIDE DEF s, h
  <2> QED
    BY <1>1, <1>3, <1>5, <2>2, <2>3, <2>4
<1> HIDE DEF s
<1>7. ASSUME NEW k \in 1..n
      PROVE  Ex!At(s, Ex!At(s, s[2] - k + 1)) = argv[k]
  <2>1. Ex!At(s, s[2] - k + 1) = s[4 + k]
    <3>1. Len(s) - (s[2] - k + 1) + 1 = 4 + k
      BY <1>1, <1>6
    <3> QED
      BY <3>1 DEF Ex!At
  <2>2. s[4 + k] = a[k] /\ a[k] = 2 * m + n - k + 1
    BY <1>1, <1>3, <1>4, <1>6
  <2>3. Ex!At(s, 2 * m + n - k + 1) = s[4 + (n + k)]
    <3>1. Len(s) - (2 * m + n - k + 1) + 1 = 4 + (n + k)
      BY <1>1, <1>6
    <3> QED
      BY <3>1 DEF Ex!At
  <2>4. s[4 + (n + k)] = a[n + k]
    BY <1>1, <1>6
  <2> QED
    BY <1>4, <2>1, <2>2, <2>3, <2>4
<1>8. ASSUME NEW k \in 1..m
      PROVE  Ex!At(s, Ex!At(s, s[4] - k + 1)) = envp[k]
  <2>1. Ex!At(s, s[4] - k + 1) = s[4 + (2 * n + k)]
    <3>1. Len(s) - (s[4] - k + 1) + 1 = 4 + (2 * n + k)
      BY <1>1, <1>6
    <3> QED
      BY <3>1 DEF Ex!At
  <2>2. s[4 + (2 * n + k)] = a[2 * n + k] /\ a[2 * n + k] = e[k] /\ e[k] = m - k + 1
    BY <1>1, <1>3, <1>4, <1>6
  <2>3. Ex!At(s, m - k + 1) = s[4 + (2 * n + (m + k))]
    <3>1. Len(s) - (m - k + 1) + 1 = 4 + (2 * n + (m + k))
      BY <1>1, <1>6
    <3> QED
      BY <3>1 DEF Ex!At
  <2>4. s[4 + (2 * n + (m + k))] = a[2 * n + (m + k)] /\ a[2 * n + (m + k)] = e[m + k]
    <3>1. m + k \in 1..Len(e) /\ 2 * n + (m + k) \in 1..(2 * m + 2 * n)
      BY <1>1, <1>3
    <3> QED
      BY <1>4, <1>6, <3>1
  <2> QED
    BY <1>3, <2>1, <2>2, <2>3, <2>4
<1>9. argv = [k \in 1..n |-> argv[k]] /\ envp = [k \in 1..m |-> envp[k]]
  OBVIOUS
<1>10. Ex!Argv(s) = argv
  BY <1>6, <1>7, <1>9 DEF Ex!Argv, Ex!ReadArray
<1>11. Ex!Envp(s) = envp
  BY <1>6, <1>8, <1>9 DEF Ex!Envp, Ex!ReadArray
<1> QED
  BY <1>2, <1>10, <1>11

LEMMA ExecBasics ==
  /\ Ld \in Paths /\ MaxDepth \in Nat \ {0} /\ MaxArgs \in Nat
  /\ Args \cap Paths = {} /\ "shell" \notin Paths /\ "none" \notin Paths
BY KernelAssumption DEF Ex!ExecAssumption

(* The chain of interpreters is what its recursive definition says, and    *)
(* does not go on from a file that is no script.                           *)
Chained(c, p, a) ==
  /\ c[0] = [path |-> p, argv |-> a]
  /\ \A n \in 0..MaxDepth : c[n] \in [path : Paths, argv : Seq(Ex!Words)]
  /\ \A n \in 0..MaxDepth : n # 0 => c[n] = Ex!Onward(c[n - 1])
  /\ \A n \in 0..MaxDepth : exec_kind[c[n].path] # "script" => c[MaxDepth] = c[n]

LEMMA ChainFacts ==
  ASSUME Ex!TypeOK, NEW p \in Paths, NEW a \in Seq(Args), NEW c, c = Ex!Chain(p, a)
  PROVE  Chained(c, p, a)
<1> DEFINE D == [path : Paths, argv : Seq(Ex!Words)]
           d == [path |-> p, argv |-> a]
           step == [r \in D |-> Ex!Onward(r)]
           P(h) == h = [n \in 0..MaxDepth |-> IF n = 0 THEN d ELSE Ex!Onward(h[n - 1])]
           K == MaxDepth
<1>1. K \in Nat
  BY ExecBasics
<1>2. d \in D
  <2>1. Args \subseteq Ex!Words
    BY DEF Ex!Words
  <2>2. a \in Seq(Ex!Words)
    BY <2>1
  <2> QED
    BY <2>2
<1>3. ASSUME NEW r \in D
      PROVE  Ex!Onward(r) \in D
  <2>1. CASE exec_kind[r.path] = "script"
    <3>1. r.path \in Paths /\ r.path \in Ex!Words /\ r.argv \in Seq(Ex!Words) /\ interp[r.path] \in Paths
      BY <2>1 DEF Ex!Words, Ex!TypeOK
    <3>2. <<r.path>> \o r.argv \in Seq(Ex!Words)
      BY <3>1
    <3> QED
      BY <2>1, <3>1, <3>2 DEF Ex!Onward
  <2>2. CASE exec_kind[r.path] # "script"
    BY <2>2 DEF Ex!Onward
  <2> QED
    BY <2>1, <2>2
<1>4. step \in [D -> D]
  BY <1>3
<1>5. \A r \in D : step[r] = Ex!Onward(r)
  OBVIOUS
<1>6. c = CHOOSE h : P(h)
  BY DEF Ex!Chain
<1> HIDE DEF D, step, d, K
<1>7. PICK g : Rounds(step, d, K, g)
  BY <1>1, RoundsExist
<1>8. \A n \in 0..K : g[n] = IF n = 0 THEN d ELSE step[g[n - 1]]
  BY <1>7 DEF Rounds
<1>9. ASSUME NEW n \in 0..K
      PROVE  g[n] \in D
  <2>1. n \in Nat /\ \A k \in 0..n : g[k] = IF k = 0 THEN d ELSE step[g[k - 1]]
    BY <1>1, <1>8
  <2> QED
    BY <1>2, <1>4, <2>1, RoundsStay
<1>10. \A n \in 0..K : g[n] = IF n = 0 THEN d ELSE Ex!Onward(g[n - 1])
  <2>1. ASSUME NEW n \in 0..K, n # 0
        PROVE  n - 1 \in 0..K
    BY <1>1, <2>1
  <2> QED
    BY <1>5, <1>8, <1>9, <2>1
<1>11. P(g)
  <2>1. g = [n \in 0..K |-> g[n]]
    BY <1>7 DEF Rounds
  <2>2. g = [n \in 0..K |-> IF n = 0 THEN d ELSE Ex!Onward(g[n - 1])]
    BY <1>10, <2>1
  <2> QED
    BY <2>2 DEF K
<1>12. P(c)
  <2> HIDE DEF P
  <2> QED
    BY <1>6, <1>11
<1>13. \A n \in 0..K : c[n] = IF n = 0 THEN d ELSE Ex!Onward(c[n - 1])
  BY <1>12 DEF K
<1>14. c[0] = d /\ \A n \in 0..K : n # 0 => c[n] = Ex!Onward(c[n - 1])
  BY <1>1, <1>13
<1>15. ASSUME NEW n \in 0..K
       PROVE  c[n] \in D
  <2> DEFINE Bad == {l \in 0..K : c[l] \notin D}
  <2> SUFFICES ASSUME Bad # {} PROVE FALSE
    BY Zenon
  <2>1. PICK l \in Bad : \A k \in Bad : l <= k
    <3>1. Bad \subseteq Nat
      BY <1>1
    <3> HIDE DEF Bad
    <3> QED
      BY <3>1, LeastElement
  <2>2. l \in 0..K /\ c[l] \notin D
    OBVIOUS
  <2>3. l # 0
    BY <1>2, <1>14, <2>2
  <2>4. l - 1 \in 0..K /\ l - 1 \notin Bad
    <3> HIDE DEF Bad
    <3> QED
      BY <1>1, <2>1, <2>2, <2>3
  <2> QED
    BY <1>3, <1>14, <2>2, <2>3, <2>4
<1>16. ASSUME NEW n \in 0..K, exec_kind[c[n].path] # "script"
       PROVE  c[K] = c[n]
  <2> DEFINE Bad == {l \in n..K : c[l] # c[n]}
  <2> SUFFICES ASSUME Bad # {} PROVE FALSE
    <3>1. K \in n..K
      BY <1>1
    <3> QED
      BY <3>1, Zenon
  <2>1. PICK l \in Bad : \A k \in Bad : l <= k
    <3>1. Bad \subseteq Nat
      BY <1>1
    <3> HIDE DEF Bad
    <3> QED
      BY <3>1, LeastElement
  <2>2. l \in n..K /\ c[l] # c[n]
    OBVIOUS
  <2>3. l # n
    BY <2>2
  <2>4. l \in 0..K /\ l # 0 /\ l - 1 \in n..K /\ l - 1 \notin Bad
    <3> HIDE DEF Bad
    <3> QED
      BY <1>1, <2>1, <2>2, <2>3
  <2>5. c[l - 1] = c[n] /\ c[l] = Ex!Onward(c[l - 1])
    BY <1>14, <2>4
  <2> QED
    BY <1>16, <2>2, <2>5 DEF Ex!Onward
<1> QED
  BY <1>14, <1>15, <1>16 DEF D, d, K, Chained

LEMMA ChainStays ==
  ASSUME UNCHANGED <<exec_kind, interp>>, NEW p, NEW a, asked'[1] = p, asked'[2] = a
  PROVE  Ex!Chain(asked[1], asked[2])' = Ex!Chain(p, a)
BY DEF Ex!Chain, Ex!Onward

LEMMA InitExec == Ex!Init => Ex!ExecInv
<1> SUFFICES ASSUME Ex!Init PROVE Ex!ExecInv
  OBVIOUS
<1>1. << >> \in Seq(Args)
  OBVIOUS
<1>2. Ex!TypeOK
  BY <1>1 DEF Ex!Init, Ex!TypeOK, Ex!Formats
<1>3. Ex!CallIsChained /\ Ex!ImageIsMeant
  BY DEF Ex!Init, Ex!CallIsChained, Ex!ImageIsMeant
<1> QED
  BY <1>2, <1>3 DEF Ex!ExecInv

(* What the innermost call is, while exec runs.                            *)
LEMMA CallFacts ==
  ASSUME Ex!ExecInv, exec_at = "exec", NEW c, c = Ex!Chain(asked[1], asked[2]),
         NEW n, n = Len(call)
  PROVE  /\ asked[1] \in Paths /\ asked[2] \in Seq(Args)
         /\ n \in 1..MaxDepth /\ call \in Seq([path : Paths, argv : Seq(Args \cup Paths)])
         /\ Ex!top = call[n] /\ Ex!top \in [path : Paths, argv : Seq(Args \cup Paths)]
         /\ image = Ex!Shell /\ asked # << >>
         /\ \/ Ex!top = c[n - 1]
            \/ /\ n > 1 /\ exec_kind[c[n - 2].path] = "dynamic"
               /\ Ex!top = Ex!ForLd(c[n - 2])
         /\ exec_kind[Ex!top.path] \notin {"static", "none"} => Ex!top = c[n - 1]
<1>1. /\ image = Ex!Shell /\ n \in 1..MaxDepth /\ asked # << >>
      /\ call \in Seq([path : Paths, argv : Seq(Args \cup Paths)])
      /\ \/ Ex!top = c[n - 1]
         \/ /\ n > 1 /\ exec_kind[c[n - 2].path] = "dynamic"
            /\ Ex!top = Ex!ForLd(c[n - 2])
  BY DEF Ex!ExecInv, Ex!CallIsChained
<1>2. asked[1] \in Paths /\ asked[2] \in Seq(Args)
  BY <1>1 DEF Ex!ExecInv, Ex!TypeOK
<1>3. Ex!top = call[n]
  BY DEF Ex!top
<1>4. Ex!top \in [path : Paths, argv : Seq(Args \cup Paths)]
  <2> DEFINE X == [path : Paths, argv : Seq(Args \cup Paths)]
  <2>1. call \in Seq(X) /\ Len(call) = n /\ n \in 1..n
    BY <1>1, ExecBasics
  <2> HIDE DEF X
  <2>2. call[n] \in X
    BY <2>1
  <2> QED
    BY <1>3, <2>2 DEF X
<1>5. exec_kind[Ex!top.path] \notin {"static", "none"} => Ex!top # Ex!ForLd(c[n - 2])
  <2>1. Ex!ForLd(c[n - 2]).path = Ld
    BY DEF Ex!ForLd
  <2>2. exec_kind[Ld] \in {"static", "none"}
    BY DEF Ex!ExecInv, Ex!TypeOK
  <2> QED
    BY <2>1, <2>2
<1> QED
  BY <1>1, <1>2, <1>3, <1>4, <1>5

LEMMA SysExecKeeps ==
  ASSUME Ex!ExecInv, NEW p \in Paths, NEW a \in Ex!Lists, NEW e \in Ex!Lists, Ex!sys_exec(p, a, e)
  PROVE  Ex!ExecInv'
<1>1. a \in Seq(Args) /\ e \in Seq(Args)
  <2>1. \A n \in 0..MaxArgs : [1..n -> Args] \subseteq Seq(Args)
    BY ExecBasics
  <2> QED
    BY <2>1 DEF Ex!Lists
<1>2. /\ exec_at' = "exec" /\ asked' = <<p, a>> /\ env' = e /\ UNCHANGED <<exec_kind, interp, image>>
      /\ call' = <<[path |-> p, argv |-> a]>> /\ image = Ex!Shell
  BY DEF Ex!sys_exec, Ex!files
<1>3. Ex!TypeOK'
  BY <1>1, <1>2 DEF Ex!ExecInv, Ex!TypeOK, Ex!Formats
<1> DEFINE c == Ex!Chain(p, a)
<1>4. Ex!Chain(asked[1], asked[2])' = c
  BY <1>2, ChainStays
<1>5. c[0] = [path |-> p, argv |-> a]
  BY <1>1, ChainFacts DEF Ex!ExecInv, Chained
<1> HIDE DEF c
<1>6. /\ call' \in Seq([path : Paths, argv : Seq(Args \cup Paths)]) /\ Len(call') = 1
      /\ call'[1] = [path |-> p, argv |-> a]
  <2>1. a \in Seq(Args \cup Paths)
    BY <1>1
  <2>2. [path |-> p, argv |-> a] \in [path : Paths, argv : Seq(Args \cup Paths)]
    BY <2>1
  <2> QED
    BY <1>2, <2>2
<1>7. Ex!CallIsChained'
  <2>1. Ex!top' = c[Len(call') - 1]
    BY <1>5, <1>6 DEF Ex!top
  <2>2. Ex!Shell' = Ex!Shell /\ asked' # << >> /\ Len(call') \in 1..MaxDepth
    BY <1>2, <1>6, ExecBasics DEF Ex!Shell
  <2> QED
    BY <1>2, <1>4, <1>6, <2>1, <2>2 DEF Ex!CallIsChained
<1>8. Ex!ImageIsMeant'
  BY <1>2 DEF Ex!ImageIsMeant
<1> QED
  BY <1>3, <1>7, <1>8 DEF Ex!ExecInv

(* One call deeper, or over the end of the kernel stack.                   *)
LEMMA NestedKeeps ==
  ASSUME Ex!ExecInv, exec_at = "exec", NEW p \in Paths, NEW a \in Seq(Args \cup Paths),
         Ex!Nested(p, a), UNCHANGED <<exec_kind, interp, env, image, asked>>,
         LET c == Ex!Chain(asked[1], asked[2])
             new == [path |-> p, argv |-> a]
         IN  Len(call) < MaxDepth =>
               \/ new = c[Len(call)]
               \/ exec_kind[c[Len(call) - 1].path] = "dynamic" /\ new = Ex!ForLd(c[Len(call) - 1])
  PROVE  Ex!ExecInv'
<1> DEFINE c == Ex!Chain(asked[1], asked[2])
           n == Len(call)
           new == [path |-> p, argv |-> a]
<1>1. /\ n \in 1..MaxDepth /\ call \in Seq([path : Paths, argv : Seq(Args \cup Paths)])
      /\ image = Ex!Shell /\ asked # << >>
  BY CallFacts
<1>2. Ex!Chain(asked[1], asked[2])' = c
  BY ChainStays
<1>3. /\ n < MaxDepth =>
           \/ new = c[n]
           \/ exec_kind[c[n - 1].path] = "dynamic" /\ new = Ex!ForLd(c[n - 1])
      /\ new \in [path : Paths, argv : Seq(Args \cup Paths)]
  OBVIOUS
<1>4. \/ n = MaxDepth /\ exec_at' = "overflow" /\ UNCHANGED call
      \/ n # MaxDepth /\ call' = Append(call, new) /\ exec_at' = "exec"
  BY DEF Ex!Nested
<1>5. Ex!TypeOK'
  BY <1>1, <1>4 DEF Ex!ExecInv, Ex!TypeOK, Ex!Formats
<1>6. Ex!ImageIsMeant'
  BY <1>4 DEF Ex!ImageIsMeant
<1> HIDE DEF c, new
<1>7. CASE n # MaxDepth /\ call' = Append(call, new)
  <2>1. n < MaxDepth /\ n \in Nat
    BY <1>1, <1>7, ExecBasics
  <2>2. /\ call' \in Seq([path : Paths, argv : Seq(Args \cup Paths)])
        /\ Len(call') = n + 1 /\ call'[n + 1] = new
    BY <1>1, <1>3, <1>7
  <2> HIDE DEF n
  <2>3. Ex!top' = new /\ Ex!Shell' = Ex!Shell
    BY <2>2 DEF Ex!top, Ex!Shell
  <2>4. /\ Len(call') \in 1..MaxDepth /\ Len(call') - 1 = n /\ Len(call') - 2 = n - 1
        /\ Len(call') > 1
    BY <1>1, <2>1, <2>2, ExecBasics
  <2>5. \/ Ex!top' = c[Len(call') - 1]
        \/ /\ Len(call') > 1 /\ exec_kind'[c[Len(call') - 2].path] = "dynamic"
           /\ Ex!top' = Ex!ForLd(c[Len(call') - 2])
    BY <1>3, <2>1, <2>3, <2>4
  <2> QED
    BY <1>1, <1>2, <1>5, <1>6, <2>2, <2>3, <2>4, <2>5 DEF Ex!ExecInv, Ex!CallIsChained, Ex!ForLd
<1>8. CASE n = MaxDepth /\ exec_at' = "overflow"
  BY <1>5, <1>6, <1>8 DEF Ex!ExecInv, Ex!CallIsChained
<1> QED
  BY <1>4, <1>7, <1>8

LEMMA ShebangKeeps ==
  ASSUME Ex!ExecInv, Ex!shebang
  PROVE  Ex!ExecInv'
<1> DEFINE c == Ex!Chain(asked[1], asked[2])
           n == Len(call)
           t == Ex!top
<1>1. /\ exec_at = "exec" /\ exec_kind[t.path] = "script"
      /\ Ex!Nested(interp[t.path], <<t.path>> \o t.argv)
      /\ UNCHANGED <<exec_kind, interp, env, image, asked>>
  BY DEF Ex!shebang, Ex!files
<1>2. /\ asked[1] \in Paths /\ asked[2] \in Seq(Args) /\ n \in 1..MaxDepth
      /\ t \in [path : Paths, argv : Seq(Args \cup Paths)] /\ t = c[n - 1]
  BY <1>1, CallFacts
<1>3. interp[t.path] \in Paths /\ <<t.path>> \o t.argv \in Seq(Args \cup Paths)
  <2> HIDE DEF t
  <2>1. t.path \in Paths /\ t.argv \in Seq(Args \cup Paths)
    BY <1>2
  <2>2. interp[t.path] \in Paths
    BY <2>1 DEF Ex!ExecInv, Ex!TypeOK
  <2>3. <<t.path>> \in Seq(Args \cup Paths)
    BY <2>1
  <2> QED
    BY <2>1, <2>2, <2>3
<1>4. n < MaxDepth => [path |-> interp[t.path], argv |-> <<t.path>> \o t.argv] = c[n]
  <2> SUFFICES ASSUME n < MaxDepth
               PROVE  [path |-> interp[t.path], argv |-> <<t.path>> \o t.argv] = c[n]
    OBVIOUS
  <2>1. n \in 0..MaxDepth /\ n # 0
    BY <1>2, ExecBasics
  <2>2. c[n] = Ex!Onward(c[n - 1])
    <3>1. Chained(c, asked[1], asked[2])
      BY <1>2, ChainFacts DEF Ex!ExecInv
    <3> HIDE DEF c, n
    <3> QED
      BY <2>1, <3>1 DEF Chained
  <2> HIDE DEF c, t, n
  <2>3. c[n] = Ex!Onward(t)
    BY <1>2, <2>2
  <2> QED
    BY <1>1, <2>3 DEF Ex!Onward
<1> QED
  BY <1>1, <1>3, <1>4, NestedKeeps

LEMMA DynamicKeeps ==
  ASSUME Ex!ExecInv, Ex!dynamic
  PROVE  Ex!ExecInv'
<1> DEFINE c == Ex!Chain(asked[1], asked[2])
           n == Len(call)
           t == Ex!top
<1>1. /\ exec_at = "exec" /\ exec_kind[t.path] = "dynamic"
      /\ Ex!Nested(interp[t.path], <<t.path, t.path>> \o t.argv)
      /\ UNCHANGED <<exec_kind, interp, env, image, asked>>
  BY DEF Ex!dynamic, Ex!files, Ex!Interp
<1>2. /\ asked[1] \in Paths /\ asked[2] \in Seq(Args) /\ n \in 1..MaxDepth
      /\ t \in [path : Paths, argv : Seq(Args \cup Paths)] /\ t = c[n - 1]
  BY <1>1, CallFacts
<1>3. interp[t.path] = Ld /\ Ld \in Paths /\ <<t.path, t.path>> \o t.argv \in Seq(Args \cup Paths)
  <2> HIDE DEF t
  <2>1. t.path \in Paths /\ t.argv \in Seq(Args \cup Paths)
    BY <1>2
  <2>2. interp[t.path] = Ld
    BY <1>1, <2>1 DEF Ex!ExecInv, Ex!TypeOK
  <2>3. <<t.path, t.path>> \in Seq(Args \cup Paths)
    BY <2>1
  <2> QED
    BY <2>1, <2>2, <2>3, ExecBasics
<1>4. /\ exec_kind[c[n - 1].path] = "dynamic"
      /\ [path |-> interp[t.path], argv |-> <<t.path, t.path>> \o t.argv] = Ex!ForLd(c[n - 1])
  <2> HIDE DEF c, t, n
  <2> QED
    BY <1>1, <1>2, <1>3 DEF Ex!ForLd
<1> QED
  BY <1>1, <1>3, <1>4, NestedKeeps

LEMMA FailKeeps ==
  ASSUME Ex!ExecInv, Ex!fail
  PROVE  Ex!ExecInv'
<1>1. /\ exec_at = "exec" /\ exec_at' = "run" /\ UNCHANGED <<exec_kind, interp, env, image, asked>>
  BY DEF Ex!fail, Ex!files
<1>2. image = Ex!Shell /\ image' = Ex!Shell' /\ asked # << >>
  BY <1>1, CallFacts DEF Ex!Shell
<1>3. Ex!TypeOK'
  BY <1>1, <1>2 DEF Ex!ExecInv, Ex!TypeOK, Ex!Formats
<1> QED
  BY <1>1, <1>2, <1>3 DEF Ex!ExecInv, Ex!CallIsChained, Ex!ImageIsMeant

(* The image that a static program gets, which may be ld.                  *)
LEMMA StaticKeeps ==
  ASSUME Ex!ExecInv, Ex!static
  PROVE  Ex!ExecInv'
<1> DEFINE c == Ex!Chain(asked[1], asked[2])
           n == Len(call)
           t == Ex!top
           r == Ex!Resolved(asked[1], asked[2])
           X == Args \cup Paths
           W == X \cup {Ex!Name(t.path)}
           argv == <<Ex!Name(t.path)>> \o t.argv
<1>1. /\ exec_at = "exec" /\ exec_kind[t.path] = "static" /\ exec_at' = "run"
      /\ image' = [file |-> t.path, argv |-> Ex!Argv(Ex!Stack(argv, env)),
                   env |-> Ex!Envp(Ex!Stack(argv, env))]
      /\ UNCHANGED <<exec_kind, interp, env, asked>>
  BY DEF Ex!static, Ex!files
<1>2. /\ asked[1] \in Paths /\ asked[2] \in Seq(Args) /\ n \in 1..MaxDepth /\ asked # << >>
      /\ t \in [path : Paths, argv : Seq(X)]
      /\ \/ t = c[n - 1]
         \/ n > 1 /\ exec_kind[c[n - 2].path] = "dynamic" /\ t = Ex!ForLd(c[n - 2])
  BY <1>1, CallFacts
<1>3. argv \in Seq(W) /\ env \in Seq(W)
  <2> HIDE DEF t
  <2>0. t.argv \in Seq(X) /\ X \subseteq W
    BY <1>2
  <2> HIDE DEF X
  <2>1. Ex!Name(t.path) \in W /\ t.argv \in Seq(W)
    BY <2>0
  <2>2. <<Ex!Name(t.path)>> \in Seq(W)
    BY <2>1
  <2>3. env \in Seq(Args) /\ Args \subseteq W
    BY DEF Ex!ExecInv, Ex!TypeOK, X
  <2> HIDE DEF W
  <2> QED
    BY <2>1, <2>2, <2>3
<1>4. image' = [file |-> t.path, argv |-> argv, env |-> env]
  <2> HIDE DEF argv, W, t
  <2>1. Ex!Argv(Ex!Stack(argv, env)) = argv /\ Ex!Envp(Ex!Stack(argv, env)) = env
    BY <1>3, StackIsRead
  <2> QED
    BY <1>1, <2>1
<1>5. Ex!TypeOK'
  BY <1>1, <1>2 DEF Ex!ExecInv, Ex!TypeOK, Ex!Formats
<1>6. r = c[MaxDepth] /\ Ex!Resolved(asked[1], asked[2])' = r
  <2>1. Ex!Chain(asked[1], asked[2])' = c
    BY <1>1, ChainStays
  <2> QED
    BY <2>1 DEF Ex!Resolved
<1>7. \A k \in 0..MaxDepth : exec_kind[c[k].path] # "script" => c[MaxDepth] = c[k]
  <2>1. Chained(c, asked[1], asked[2])
    BY <1>2, ChainFacts DEF Ex!ExecInv
  <2> HIDE DEF c
  <2> QED
    BY <2>1 DEF Chained
<1>8. n - 1 \in 0..MaxDepth /\ (n > 1 => n - 2 \in 0..MaxDepth)
  <2> HIDE DEF n, t, c
  <2> QED
    BY <1>2, ExecBasics
<1>9. \/ t = r
      \/ exec_kind[r.path] = "dynamic" /\ t = Ex!ForLd(r)
  <2> HIDE DEF c, n, t, r
  <2>1. CASE t = c[n - 1]
    BY <1>1, <1>6, <1>7, <1>8, <2>1
  <2>2. CASE n > 1 /\ exec_kind[c[n - 2].path] = "dynamic" /\ t = Ex!ForLd(c[n - 2])
    BY <1>6, <1>7, <1>8, <2>2
  <2> QED
    BY <1>2, <2>1, <2>2
<1> HIDE DEF r, t, c, n, W
<1>10. Ex!ImageIsMeant'
  <2>1. CASE t = r
    <3>1. exec_kind'[r.path] = "static"
      BY <1>1, <2>1
    <3>2. image' = [file |-> r.path, argv |-> <<Ex!Name(r.path)>> \o r.argv, env |-> env']
      BY <1>1, <1>4, <2>1
    <3> QED
      BY <1>6, <3>1, <3>2 DEF Ex!ImageIsMeant, Ex!IsImage, Ex!Argv0
  <2>2. CASE exec_kind[r.path] = "dynamic" /\ t = Ex!ForLd(r)
    <3>1. t.path = Ld /\ t.argv = Ex!ForLd(r).argv
      BY <2>2 DEF Ex!ForLd
    <3>2. image' = [file |-> Ld, argv |-> <<Ex!Name(Ld)>> \o Ex!ForLd(r).argv, env |-> env']
      BY <1>1, <1>4, <3>1
    <3>3. exec_kind'[r.path] = "dynamic"
      BY <1>1, <2>2
    <3> QED
      BY <1>6, <3>2, <3>3 DEF Ex!ImageIsMeant, Ex!ForLd
  <2> QED
    BY <1>9, <2>1, <2>2
<1>11. Ex!CallIsChained'
  BY <1>1 DEF Ex!CallIsChained
<1> QED
  BY <1>5, <1>10, <1>11 DEF Ex!ExecInv

(* What the program that is meant gets, and what ld gets for it.           *)
LEMMA MeantFacts ==
  ASSUME Ex!ExecInv, exec_at = "run", asked # << >>, NEW r, r = Ex!Resolved(asked[1], asked[2])
  PROVE  /\ r.path \in Paths /\ r.argv \in Seq(Ex!Words)
         /\ \/ image = Ex!Shell
            \/ exec_kind[r.path] \in {"static", "dynamic"} /\ Ex!IsImage(r) /\ ~Ex!Linking
            \/ /\ exec_kind[r.path] = "dynamic" /\ Ex!Linking
               /\ image = [file |-> Ld, argv |-> <<Ex!Name(Ld)>> \o (<<r.path, r.path>> \o r.argv), env |-> env]
               /\ image.argv[2] = r.path
<1>1. asked[1] \in Paths /\ asked[2] \in Seq(Args)
  BY DEF Ex!ExecInv, Ex!TypeOK
<1>2. r \in [path : Paths, argv : Seq(Ex!Words)]
  <2>1. MaxDepth \in 0..MaxDepth
    BY ExecBasics
  <2> QED
    BY <1>1, <2>1, ChainFacts DEF Ex!ExecInv, Ex!Resolved, Chained
<1>3. r.path \in Paths /\ r.argv \in Seq(Ex!Words)
  BY <1>2
<1>4. \/ image = Ex!Shell
      \/ exec_kind[r.path] \in {"static", "dynamic"} /\ Ex!IsImage(r)
      \/ /\ exec_kind[r.path] = "dynamic"
         /\ image = [file |-> Ld, argv |-> <<Ex!Name(Ld)>> \o Ex!ForLd(r).argv, env |-> env]
  BY DEF Ex!ExecInv, Ex!ImageIsMeant
<1>5. CASE exec_kind[r.path] \in {"static", "dynamic"} /\ Ex!IsImage(r)
  <2> DEFINE s == <<Ex!Argv0(r.path)>> \o r.argv
  <2>1. image.file = r.path /\ image.argv = s
    BY <1>5 DEF Ex!IsImage
  <2>2. Len(s) > 1 => s[2] \in Ex!Words
    BY <1>3
  <2>3. \A w \in Ex!Words : w \in Paths => exec_kind[w] = "script"
    BY ExecBasics DEF Ex!Words
  <2> HIDE DEF s
  <2>4. ~Ex!Linking
    BY <2>1, <2>2, <2>3 DEF Ex!Linking
  <2> QED
    BY <1>3, <1>5, <2>4
<1>6. CASE /\ exec_kind[r.path] = "dynamic"
           /\ image = [file |-> Ld, argv |-> <<Ex!Name(Ld)>> \o Ex!ForLd(r).argv, env |-> env]
  <2> DEFINE s == <<Ex!Name(Ld)>> \o (<<r.path, r.path>> \o r.argv)
  <2>1. image = [file |-> Ld, argv |-> s, env |-> env]
    BY <1>6 DEF Ex!ForLd
  <2>2. Len(s) > 1 /\ s[2] = r.path
    <3>1. Len(<<r.path, r.path>> \o r.argv) >= 2 /\ (<<r.path, r.path>> \o r.argv)[1] = r.path
      BY <1>3
    <3> QED
      BY <1>3, <3>1
  <2> HIDE DEF s
  <2>3. image.file = Ld /\ image.argv = s
    BY <2>1
  <2>4. Ex!Linking /\ image.argv[2] = r.path
    BY <1>3, <1>6, <2>2, <2>3 DEF Ex!Linking
  <2> QED
    BY <1>3, <1>6, <2>1, <2>4 DEF s
<1> QED
  BY <1>3, <1>4, <1>5, <1>6

LEMMA JumpKeeps ==
  ASSUME Ex!ExecInv, Ex!jump
  PROVE  Ex!ExecInv'
<1> DEFINE r == Ex!Resolved(asked[1], asked[2])
<1>1. /\ exec_at = "run" /\ Ex!Linking /\ UNCHANGED <<exec_kind, interp, call, env, asked, exec_at>>
      /\ image' = [image EXCEPT !.file = image.argv[2], !.env = << >>,
                                !.argv = SubSeq(@, 3, Len(@))]
  BY DEF Ex!jump, Ex!Linking, Ex!files, Ex!Skip
<1>2. image # Ex!Shell
  BY <1>1, ExecBasics DEF Ex!Linking, Ex!Shell
<1>3. asked # << >>
  BY <1>2 DEF Ex!ExecInv, Ex!TypeOK
<1> DEFINE s == <<Ex!Name(Ld)>> \o (<<r.path, r.path>> \o r.argv)
<1>4. /\ r.path \in Paths /\ r.argv \in Seq(Ex!Words)
      /\ exec_kind[r.path] = "dynamic" /\ image = [file |-> Ld, argv |-> s, env |-> env]
      /\ image.argv[2] = r.path
  BY <1>1, <1>2, <1>3, MeantFacts
<1>5. Ex!Resolved(asked[1], asked[2])' = r
  <2>1. Ex!Chain(asked[1], asked[2])' = Ex!Chain(asked[1], asked[2])
    BY <1>1, ChainStays
  <2> QED
    BY <2>1 DEF Ex!Resolved
<1> HIDE DEF r
<1>6. SubSeq(s, 3, Len(s)) = <<r.path>> \o r.argv
  <2> DEFINE W == Ex!Words \cup Paths \cup {Ex!Name(Ld)}
             u == <<r.path>> \o r.argv
  <2>1. r.path \in W /\ Ex!Name(Ld) \in W /\ r.argv \in Seq(W)
    <3>1. Ex!Words \subseteq W
      OBVIOUS
    <3>2. r.argv \in Seq(W)
      BY <1>4, <3>1
    <3> QED
      BY <1>4, <3>2, ExecBasics
  <2> HIDE DEF W
  <2>2. s \in Seq(W) /\ u \in Seq(W) /\ Len(s) = 3 + Len(r.argv) /\ Len(u) = 1 + Len(r.argv)
    BY <2>1
  <2>3. ASSUME NEW k \in 1..Len(u)
        PROVE  s[k + 2] = u[k]
    BY <2>1
  <2>4. Len(SubSeq(s, 3, Len(s))) = Len(u) /\ SubSeq(s, 3, Len(s)) \in Seq(W)
    <3> HIDE DEF s, u
    <3> QED
      BY <2>1, <2>2
  <2>5. ASSUME NEW k \in 1..Len(u)
        PROVE  SubSeq(s, 3, Len(s))[k] = s[k + 2]
    <3> HIDE DEF s, u
    <3> QED
      BY <2>1, <2>2
  <2> HIDE DEF s
  <2>6. SubSeq(s, 3, Len(s)) = u
    <3> HIDE DEF u
    <3> QED
      BY <2>2, <2>3, <2>4, <2>5
  <2> QED
    BY <2>6
<1>7. image' = [file |-> r.path, argv |-> <<r.path>> \o r.argv, env |-> << >>]
  <2> HIDE DEF s
  <2> QED
    BY <1>1, <1>4, <1>6
<1>8. Ex!ImageIsMeant'
  <2>1. exec_kind'[r.path] = "dynamic" /\ Ex!IsImage(r)'
    BY <1>1, <1>4, <1>5, <1>7 DEF Ex!IsImage, Ex!Argv0, r
  <2> QED
    BY <1>1, <1>4, <1>5, <1>7 DEF Ex!ImageIsMeant, Ex!IsImage, Ex!Argv0
<1>9. Ex!TypeOK'
  BY <1>1, <1>3 DEF Ex!ExecInv, Ex!TypeOK, Ex!Formats
<1>10. Ex!CallIsChained'
  BY <1>1 DEF Ex!CallIsChained
<1> QED
  BY <1>8, <1>9, <1>10 DEF Ex!ExecInv

LEMMA NextExec ==
  ASSUME Ex!ExecInv, Ex!Next
  PROVE  Ex!ExecInv'
BY SysExecKeeps, ShebangKeeps, DynamicKeeps, FailKeeps, StaticKeeps, JumpKeeps DEF Ex!Next, Ex!Loader

LEMMA ExecPromises ==
  ASSUME Ex!ExecInv
  PROVE  Ex!ArgumentsArrive /\ Ex!EnvironmentArrives
<1> DEFINE r == Ex!Resolved(asked[1], asked[2])
<1>1. "shell" \notin Paths /\ "none" \notin Paths /\ Ld \in Paths /\ Ex!Shell.file = "shell"
  BY ExecBasics DEF Ex!Shell
<1>2. ASSUME exec_at = "run", asked # << >>
      PROVE  /\ r.path \in Paths
             /\ \/ image = Ex!Shell
                \/ exec_kind[r.path] \in {"static", "dynamic"} /\ Ex!IsImage(r)
                \/ Ex!Linking
  <2>1. /\ r.path \in Paths /\ r.argv \in Seq(Ex!Words)
        /\ \/ image = Ex!Shell
           \/ exec_kind[r.path] \in {"static", "dynamic"} /\ Ex!IsImage(r) /\ ~Ex!Linking
           \/ /\ exec_kind[r.path] = "dynamic" /\ Ex!Linking
              /\ image = [file |-> Ld, argv |-> <<Ex!Name(Ld)>> \o (<<r.path, r.path>> \o r.argv), env |-> env]
              /\ image.argv[2] = r.path
    BY <1>2, MeantFacts
  <2> HIDE DEF r
  <2> QED
    BY <2>1
<1> HIDE DEF r
<1>3. Ex!ArgumentsArrive
  <2>1. Ex!IsImage(r) => image.file = r.path /\ image.argv = <<Ex!Argv0(r.path)>> \o r.argv
    BY DEF Ex!IsImage
  <2>2. Ex!Started => image.file = r.path /\ image.argv = <<Ex!Argv0(r.path)>> \o r.argv
    BY <1>1, <1>2, <2>1 DEF Ex!Started
  <2> QED
    BY <2>2 DEF Ex!ArgumentsArrive, r
<1>4. Ex!EnvironmentArrives
  BY <1>1, <1>2 DEF Ex!EnvironmentArrives, Ex!Started, Ex!IsImage
<1> QED
  BY <1>3, <1>4

LEMMA ExecStutters ==
  ASSUME Ex!ExecInv, UNCHANGED execVars
  PROVE  Ex!ExecInv'
<1>1. UNCHANGED <<exec_kind, interp, call, env, image, asked, exec_at>>
  BY DEF execVars
<1>2. Ex!Chain(asked[1], asked[2])' = Ex!Chain(asked[1], asked[2])
  BY <1>1, ChainStays
<1>3. Ex!TypeOK'
  BY <1>1 DEF Ex!ExecInv, Ex!TypeOK, Ex!Formats, Ex!Shell
<1>4. Ex!CallIsChained'
  BY <1>1, <1>2 DEF Ex!ExecInv, Ex!CallIsChained, Ex!Shell, Ex!top, Ex!ForLd
<1>5. Ex!ImageIsMeant'
  BY <1>1, <1>2 DEF Ex!ExecInv, Ex!ImageIsMeant, Ex!IsImage, Ex!Argv0, Ex!Shell, Ex!ForLd,
                      Ex!Resolved
<1> QED
  BY <1>3, <1>4, <1>5 DEF Ex!ExecInv

(***************************************************************************)
(* The boot sequence                                                       *)
(***************************************************************************)

Names == Seq(Nat \ {0})

(* A name is less than another in the first letter in which they differ.   *)
Less(a, b) ==
  \E c \in Nat : Bt!Letter(a, c) < Bt!Letter(b, c) /\ \A d \in 0..(c - 1) : Bt!Letter(a, d) = Bt!Letter(b, d)
Same(a, b) == \A c \in Nat : Bt!Letter(a, c) = Bt!Letter(b, c)

(* Where two names differ first.                                           *)
Differs(a, b, d) ==
  /\ d \in Nat
  /\ \A k \in 0..(d - 1) : Bt!Letter(a, k) = Bt!Letter(b, k)
  /\ Bt!Letter(a, d) # Bt!Letter(b, d) \/ Same(a, b)

LEMMA LetterType ==
  ASSUME NEW a \in Names, NEW c \in Nat
  PROVE  Bt!Letter(a, c) \in Nat
BY DEF Bt!Letter, Names

LEMMA GreatestElement ==
  ASSUME NEW X, X # {}, NEW m \in Nat, X \subseteq 0..m
  PROVE  \E s \in X : \A t \in X : t <= s
<1> DEFINE Y == {m - x : x \in X}
<1>1. Y \subseteq Nat /\ Y # {}
  <2>1. \A x \in X : m - x \in Nat
    OBVIOUS
  <2> QED
    BY <2>1, Zenon
<1>2. PICK y \in Y : \A t \in Y : y <= t
  <2> HIDE DEF Y
  <2> QED
    BY <1>1, LeastElement
<1>3. PICK s \in X : y = m - s
  OBVIOUS
<1>4. ASSUME NEW t \in X
      PROVE  t <= s
  <2>1. m - t \in Y /\ t \in 0..m /\ s \in 0..m
    OBVIOUS
  <2>2. m - s <= m - t
    BY <1>2, <1>3, <2>1
  <2> HIDE DEF Y
  <2> QED
    BY <2>1, <2>2
<1> QED
  BY <1>4

LEMMA DifferFacts ==
  ASSUME NEW a \in Names, NEW b \in Names
  PROVE  Differs(a, b, Bt!Differ(a, b))
<1> DEFINE max == IF Len(a) > Len(b) THEN Len(b) ELSE Len(a)
           same == {c \in 0..max : \A k \in 1..c : a[k] = b[k]}
           d == Bt!Differ(a, b)
<1>1. /\ Len(a) \in Nat /\ Len(b) \in Nat /\ max \in Nat /\ max <= Len(a) /\ max <= Len(b)
      /\ (max = Len(a) \/ max = Len(b))
  BY DEF Names
<1>2. d = CHOOSE c \in same : \A e \in same : e <= c
  BY DEF Bt!Differ
<1>3. same \subseteq 0..max /\ 0 \in same
  BY <1>1
<1>4. d \in same /\ \A e \in same : e <= d
  <2> HIDE DEF same, d, max
  <2>1. \E s \in same : \A t \in same : t <= s
    BY <1>1, <1>3, GreatestElement
  <2> QED
    BY <1>2, <2>1
<1>5. d \in 0..max /\ (\A k \in 1..d : a[k] = b[k])
  BY <1>4
<1>6. ~(d + 1 <= max /\ \A k \in 1..(d + 1) : a[k] = b[k])
  <2> SUFFICES ASSUME d + 1 <= max, \A k \in 1..(d + 1) : a[k] = b[k]
               PROVE  FALSE
    OBVIOUS
  <2> HIDE DEF d, max
  <2>1. d + 1 \in same
    BY <1>1, <1>5
  <2> HIDE DEF same
  <2> QED
    BY <1>1, <1>4, <1>5, <2>1
<1> HIDE DEF d, max, same
<1>7. ASSUME NEW k \in 0..(d - 1)
      PROVE  Bt!Letter(a, k) = Bt!Letter(b, k)
  BY <1>1, <1>5 DEF Bt!Letter
<1>8. ASSUME Bt!Letter(a, d) = Bt!Letter(b, d)
      PROVE  Len(a) = d /\ Len(b) = d
  <2>1. CASE d < max
    <3>1. a[d + 1] = b[d + 1]
      BY <1>1, <1>5, <1>8, <2>1 DEF Bt!Letter
    <3>2. \A k \in 1..(d + 1) : a[k] = b[k]
      BY <1>1, <1>5, <3>1
    <3> QED
      BY <1>1, <1>5, <1>6, <2>1, <3>2
  <2>2. CASE d = max
    <3>1. \A k \in 1..Len(a) : a[k] # 0
      BY DEF Names
    <3>2. \A k \in 1..Len(b) : b[k] # 0
      BY DEF Names
    <3>3. CASE d < Len(a)
      <4>1. a[d + 1] # 0 /\ d = Len(b)
        BY <1>1, <1>5, <2>2, <3>1, <3>3
      <4> QED
        BY <1>1, <1>5, <1>8, <3>3, <4>1 DEF Bt!Letter
    <3>4. CASE d < Len(b)
      <4>1. b[d + 1] # 0 /\ d = Len(a)
        BY <1>1, <1>5, <2>2, <3>2, <3>4
      <4> QED
        BY <1>1, <1>5, <1>8, <3>4, <4>1 DEF Bt!Letter
    <3> QED
      BY <1>1, <1>5, <2>2, <3>3, <3>4
  <2> QED
    BY <1>1, <1>5, <2>1, <2>2
<1>9. ASSUME Bt!Letter(a, d) = Bt!Letter(b, d)
      PROVE  Same(a, b)
  <2> SUFFICES ASSUME NEW c \in Nat
               PROVE  Bt!Letter(a, c) = Bt!Letter(b, c)
    BY DEF Same
  <2>1. Len(a) = d /\ Len(b) = d
    BY <1>8, <1>9
  <2>2. CASE c < d
    BY <1>1, <1>5, <1>7, <2>2
  <2>3. CASE ~(c < d)
    BY <2>1, <2>3 DEF Bt!Letter
  <2> QED
    BY <2>2, <2>3
<1>10. Differs(a, b, d)
  BY <1>1, <1>5, <1>7, <1>9 DEF Differs
<1> QED
  BY <1>10 DEF d

(* What sort takes for the order of names is the order of their letters.   *)
LEMMA AboveIsLess ==
  ASSUME NEW a \in Names, NEW b \in Names
  PROVE  Bt!Above(a, b) <=> Less(b, a)
<1> DEFINE d == Bt!Differ(a, b)
<1>1. Differs(a, b, d)
  BY DifferFacts
<1>2. Bt!Above(a, b) <=> Bt!Letter(b, d) < Bt!Letter(a, d)
  <2>1. Bt!Letter(a, d) \in Nat /\ Bt!Letter(b, d) \in Nat
    BY <1>1, LetterType DEF Differs
  <2> QED
    BY <2>1 DEF Bt!Above
<1> HIDE DEF d
<1>3. Bt!Above(a, b) => Less(b, a)
  BY <1>1, <1>2 DEF Differs, Less
<1>4. ASSUME Less(b, a)
      PROVE  Bt!Letter(b, d) < Bt!Letter(a, d)
  <2>1. PICK c \in Nat : /\ Bt!Letter(b, c) < Bt!Letter(a, c)
                         /\ \A k \in 0..(c - 1) : Bt!Letter(b, k) = Bt!Letter(a, k)
    BY <1>4 DEF Less
  <2>2. Bt!Letter(a, c) \in Nat /\ Bt!Letter(b, c) \in Nat
    BY LetterType
  <2>3. ~Same(a, b) /\ d \in Nat
    BY <1>1, <2>1, <2>2 DEF Same, Differs
  <2>4. ~(c < d)
    BY <1>1, <2>1, <2>2, <2>3 DEF Differs
  <2>5. ~(d < c)
    BY <1>1, <2>1, <2>2, <2>3 DEF Differs
  <2> QED
    BY <2>1, <2>3, <2>4, <2>5
<1> QED
  BY <1>2, <1>3, <1>4

LEMMA LessIsStrict ==
  ASSUME NEW a \in Names, NEW b \in Names, Less(a, b)
  PROVE  ~Less(b, a)
<1> SUFFICES ASSUME Less(b, a)
             PROVE  FALSE
  OBVIOUS
<1>1. PICK c \in Nat : /\ Bt!Letter(a, c) < Bt!Letter(b, c)
                       /\ \A k \in 0..(c - 1) : Bt!Letter(a, k) = Bt!Letter(b, k)
  BY DEF Less
<1>2. PICK d \in Nat : /\ Bt!Letter(b, d) < Bt!Letter(a, d)
                       /\ \A k \in 0..(d - 1) : Bt!Letter(b, k) = Bt!Letter(a, k)
  BY DEF Less
<1>3. /\ Bt!Letter(a, c) \in Nat /\ Bt!Letter(b, c) \in Nat
      /\ Bt!Letter(a, d) \in Nat /\ Bt!Letter(b, d) \in Nat
  BY LetterType
<1>4. CASE c < d
  BY <1>1, <1>2, <1>3, <1>4
<1>5. CASE d < c
  BY <1>1, <1>2, <1>3, <1>5
<1>6. CASE c = d
  BY <1>1, <1>2, <1>3, <1>6
<1> QED
  BY <1>4, <1>5, <1>6

LEMMA LessIsTransitive ==
  ASSUME NEW a \in Names, NEW b \in Names, NEW c \in Names, Less(a, b), Less(b, c)
  PROVE  Less(a, c)
<1>1. PICK d \in Nat : /\ Bt!Letter(a, d) < Bt!Letter(b, d)
                       /\ \A k \in 0..(d - 1) : Bt!Letter(a, k) = Bt!Letter(b, k)
  BY DEF Less
<1>2. PICK e \in Nat : /\ Bt!Letter(b, e) < Bt!Letter(c, e)
                       /\ \A k \in 0..(e - 1) : Bt!Letter(b, k) = Bt!Letter(c, k)
  BY DEF Less
<1>3. \A k \in Nat : Bt!Letter(a, k) \in Nat /\ Bt!Letter(b, k) \in Nat /\ Bt!Letter(c, k) \in Nat
  BY LetterType
<1> DEFINE m == IF d < e THEN d ELSE e
<1>4. m \in Nat /\ m <= d /\ m <= e
  OBVIOUS
<1>5. Bt!Letter(a, m) < Bt!Letter(c, m)
  <2>1. CASE d < e
    BY <1>1, <1>2, <1>3, <2>1
  <2>2. CASE e < d
    BY <1>1, <1>2, <1>3, <2>2
  <2>3. CASE d = e
    <3>1. Bt!Letter(a, d) < Bt!Letter(b, d) /\ Bt!Letter(b, d) < Bt!Letter(c, d)
      BY <1>1, <1>2, <2>3
    <3> QED
      BY <1>3, <2>3, <3>1
  <2> QED
    BY <2>1, <2>2, <2>3
<1> HIDE DEF m
<1>6. ASSUME NEW k \in 0..(m - 1)
      PROVE  Bt!Letter(a, k) = Bt!Letter(c, k)
  <2>1. k \in 0..(d - 1) /\ k \in 0..(e - 1)
    BY <1>4
  <2> QED
    BY <1>1, <1>2, <2>1
<1> QED
  BY <1>4, <1>5, <1>6 DEF Less

(* Not to be above is a total order of the names, as sort needs it.        *)
LEMMA AboveIsStrict ==
  ASSUME NEW a \in Names, NEW b \in Names, Bt!Above(a, b)
  PROVE  ~Bt!Above(b, a)
BY AboveIsLess, LessIsStrict

LEMMA OrderIsTransitive ==
  ASSUME NEW a \in Names, NEW b \in Names, NEW c \in Names, ~Bt!Above(a, b), ~Bt!Above(b, c)
  PROVE  ~Bt!Above(a, c)
<1> SUFFICES ASSUME Bt!Above(a, c)
             PROVE  FALSE
  OBVIOUS
<1>1. Less(c, a) /\ ~Less(b, a) /\ ~Less(c, b)
  BY AboveIsLess
<1>2. Less(a, b) \/ Same(a, b)
  <2> DEFINE d == Bt!Differ(a, b)
  <2>1. Differs(a, b, d)
    BY DifferFacts
  <2> HIDE DEF d
  <2>2. /\ d \in Nat /\ Bt!Letter(a, d) \in Nat /\ Bt!Letter(b, d) \in Nat
        /\ \A k \in 0..(d - 1) : Bt!Letter(a, k) = Bt!Letter(b, k)
    BY <2>1, LetterType DEF Differs
  <2>3. Bt!Letter(a, d) < Bt!Letter(b, d) => Less(a, b)
    BY <2>2 DEF Less
  <2>4. Bt!Letter(b, d) < Bt!Letter(a, d) => Less(b, a)
    BY <2>2 DEF Less
  <2>5. Bt!Letter(a, d) = Bt!Letter(b, d) => Same(a, b)
    BY <2>1 DEF Differs
  <2> QED
    BY <1>1, <2>2, <2>3, <2>4, <2>5
<1>3. ~Less(a, b)
  BY <1>1, LessIsTransitive
<1>4. Same(a, b)
  BY <1>2, <1>3
<1>5. PICK e \in Nat : /\ Bt!Letter(c, e) < Bt!Letter(a, e)
                       /\ \A k \in 0..(e - 1) : Bt!Letter(c, k) = Bt!Letter(a, k)
  BY <1>1 DEF Less
<1>6. /\ Bt!Letter(c, e) < Bt!Letter(b, e)
      /\ \A k \in 0..(e - 1) : Bt!Letter(c, k) = Bt!Letter(b, k)
  BY <1>4, <1>5 DEF Same
<1> QED
  BY <1>1, <1>6 DEF Less

(* A name before another in the dictionary is below it for sort.           *)
LEMMA BeforeIsBelow ==
  ASSUME NEW a \in Names, NEW b \in Names, Bt!Before(a, b)
  PROVE  Bt!Above(b, a)
<1>1. SUFFICES Less(a, b)
  BY AboveIsLess
<1>2. /\ Len(a) \in Nat /\ Len(b) \in Nat /\ DOMAIN a = 1..Len(a) /\ DOMAIN b = 1..Len(b)
      /\ (\A k \in 1..Len(a) : a[k] \in Nat) /\ (\A k \in 1..Len(b) : b[k] \in Nat /\ b[k] > 0)
  BY DEF Names
<1>3. CASE Len(a) < Len(b) /\ \A k \in 1..Len(a) : a[k] = b[k]
  <2>1. Bt!Letter(a, Len(a)) < Bt!Letter(b, Len(a))
    BY <1>2, <1>3 DEF Bt!Letter
  <2>2. ASSUME NEW d \in 0..(Len(a) - 1)
        PROVE  Bt!Letter(a, d) = Bt!Letter(b, d)
    BY <1>2, <1>3 DEF Bt!Letter
  <2> QED
    BY <1>2, <2>1, <2>2 DEF Less
<1>4. ASSUME NEW k \in DOMAIN a \cap DOMAIN b, a[k] < b[k], \A l \in 1..(k - 1) : a[l] = b[l]
      PROVE  Less(a, b)
  <2>1. k \in 1..Len(a) /\ k \in 1..Len(b) /\ k - 1 \in Nat
    BY <1>2
  <2>2. Bt!Letter(a, k - 1) < Bt!Letter(b, k - 1)
    BY <1>2, <1>4, <2>1 DEF Bt!Letter
  <2>3. ASSUME NEW d \in 0..(k - 1 - 1)
        PROVE  Bt!Letter(a, d) = Bt!Letter(b, d)
    BY <1>2, <1>4, <2>1 DEF Bt!Letter
  <2> QED
    BY <2>1, <2>2, <2>3 DEF Less
<1> QED
  BY <1>3, <1>4 DEF Bt!Before

(* An order of a finite set lists every element once.                      *)
LEMMA BtCounts == \A T : Bt!Cardinality(T) = Cardinality(T) /\ (Bt!IsFiniteSet(T) <=> IsFiniteSet(T))
  BY DEF Bt!Cardinality, Cardinality, Bt!IsFiniteSet, IsFiniteSet

LEMMA OrdersAreComplete ==
  ASSUME NEW S, IsFiniteSet(S), NEW s
  PROVE  /\ Cardinality(S) \in Nat
         /\ s \in Bt!Orders(S) <=> /\ s \in [1..Cardinality(S) -> S]
                                   /\ \A k, l \in 1..Cardinality(S) : s[k] = s[l] => k = l
         /\ s \in Bt!Orders(S) => /\ s \in Seq(S) /\ Len(s) = Cardinality(S)
                                  /\ \A x \in S : \E k \in 1..Len(s) : s[k] = x
<1> DEFINE n == Cardinality(S)
<1>1. n \in Nat
  BY FS_CardinalityType
<1> HIDE DEF n
<1>2. s \in Bt!Orders(S) <=> s \in [1..n -> S] /\ \A k, l \in 1..n : s[k] = s[l] => k = l
  BY BtCounts DEF Bt!Orders, Bt!IsInjective, n
<1>3. ASSUME s \in Bt!Orders(S)
      PROVE  /\ s \in Seq(S) /\ Len(s) = n
             /\ \A x \in S : \E k \in 1..Len(s) : s[k] = x
  <2>1. s \in [1..n -> S] /\ \A k, l \in 1..n : s[k] = s[l] => k = l
    BY <1>2, <1>3
  <2>2. s \in Seq(S) /\ Len(s) = n
    BY <1>1, <2>1
  <2>3. s \in Injection(1..n, S)
    BY <2>1 DEF Injection, IsInjective
  <2>4. IsFiniteSet(1..n) /\ Cardinality(1..n) = n
    BY <1>1, FS_Interval
  <2>5. s \in Surjection(1..n, S)
    BY <2>3, <2>4, FS_Injection DEF n
  <2> QED
    BY <2>2, <2>5 DEF Surjection
<1> QED
  BY <1>1, <1>2, <1>3 DEF n

LEMMA BootBasics ==
  /\ IsFiniteSet(Modules) /\ IsFiniteSet(Scripts) /\ Scripts \subseteq Names
BY KernelAssumption, BtCounts DEF Bt!BootAssumption, Names

LEMMA ScriptFacts ==
  ASSUME NEW s \in Bt!Orders(Scripts)
  PROVE  /\ s \in Seq(Scripts) /\ Len(s) = Cardinality(Scripts) /\ Len(s) \in Nat
         /\ s \in [1..Len(s) -> Scripts] /\ (\A k \in 1..Len(s) : s[k] \in Scripts /\ s[k] \in Names)
         /\ (\A k, l \in 1..Len(s) : s[k] = s[l] => k = l)
         /\ \A x \in Scripts : \E k \in 1..Len(s) : s[k] = x
<1>1. /\ s \in Seq(Scripts) /\ Len(s) = Cardinality(Scripts) /\ Cardinality(Scripts) \in Nat
      /\ s \in [1..Cardinality(Scripts) -> Scripts]
      /\ \A k, l \in 1..Cardinality(Scripts) : s[k] = s[l] => k = l
      /\ \A x \in Scripts : \E k \in 1..Len(s) : s[k] = x
  BY OrdersAreComplete, BootBasics
<1>2. \A k \in 1..Len(s) : s[k] \in Scripts /\ s[k] \in Names
  BY <1>1, BootBasics
<1> QED
  BY <1>1, <1>2, Zenon

LEMMA InitBoot ==
  ASSUME Bt!Init
  PROVE  Bt!BootInv
<1>1. /\ boot_pc = "modules" /\ boot_kind \in [Modules -> ModKinds] /\ dir \in Bt!Orders(Modules)
      /\ loaded = << >> /\ scripts \in Bt!Orders(Scripts) /\ sort_i = 0 /\ sort_j = 0
      /\ swapped = FALSE /\ boot_next = 1 /\ child = "none" /\ ended = {}
  BY DEF Bt!Init
<1>2. Len(scripts) \in Nat
  BY <1>1, ScriptFacts
<1>3. dir \in Seq(Modules) /\ (\A x \in Modules : \E k \in 1..Len(dir) : dir[k] = x)
  BY <1>1, OrdersAreComplete, BootBasics
<1>4. Bt!TypeOK
  <2>1. 1 \in 1..(Len(scripts) + 1)
    BY <1>2
  <2>2. loaded \in Seq(Modules) /\ sort_i \in Nat /\ sort_j \in Nat
    BY <1>1
  <2> QED
    BY <1>1, <1>3, <2>1, <2>2, Zenon DEF Bt!TypeOK
<1>5. Bt!ModulesAreAccounted
  <2>1. DOMAIN dir = 1..Len(dir) /\ DOMAIN loaded = {} /\ \A k \in 1..Len(dir) : dir[k] \in Modules
    BY <1>1, <1>3
  <2>2. Bt!Range(dir) = Modules /\ Bt!Range(loaded) = {}
    BY <1>3, <2>1, Zenon DEF Bt!Range
  <2> QED
    BY <1>1, <2>2 DEF Bt!ModulesAreAccounted
<1>6. Bt!SortIsSound
  <2>1. ASSUME NEW b \in Bt!Place
        PROVE  ~(b > Len(scripts) - 0) /\ b \in Nat /\ (b <= 0 + 1 => Bt!InPlace(b))
    BY <1>2 DEF Bt!Place, Bt!InPlace
  <2> QED
    BY <1>1, <2>1 DEF Bt!SortIsSound
<1>7. Bt!RunIsSound
  BY <1>1 DEF Bt!RunIsSound
<1> QED
  BY <1>4, <1>5, <1>6, <1>7 DEF Bt!BootInv

(* What a step leaves as it is, if it does not touch the variables of it.  *)
LEMMA SortStays ==
  ASSUME Bt!SortIsSound, UNCHANGED <<scripts, sort_i, sort_j, swapped>>,
         boot_pc' \in {"modules", "sort"} => boot_pc \in {"modules", "sort"},
         boot_pc' \in {"fork", "scan", "asleep", "spin"} => boot_pc \in {"fork", "scan", "asleep", "spin"}
  PROVE  Bt!SortIsSound'
<1>1. \A b : Bt!InPlace(b)' <=> Bt!InPlace(b)
  BY DEF Bt!InPlace, Bt!InOrder, Bt!Above
<1>2. Bt!Place' = Bt!Place /\ Bt!Upto' = Bt!Upto
  BY DEF Bt!Place, Bt!Upto
<1> QED
  BY <1>1, <1>2 DEF Bt!SortIsSound

LEMMA ModulesStay ==
  ASSUME Bt!ModulesAreAccounted, UNCHANGED <<boot_kind, dir, loaded>>,
         boot_pc' \in {"modules", "crashed"} \/ boot_pc \notin {"modules", "crashed"} \/ dir = << >>
  PROVE  Bt!ModulesAreAccounted'
BY DEF Bt!ModulesAreAccounted, Bt!Range

LEMMA BootStutters ==
  ASSUME Bt!BootInv, UNCHANGED bootVars
  PROVE  Bt!BootInv'
<1>1. UNCHANGED <<boot_pc, boot_kind, dir, loaded, scripts, sort_i, sort_j, swapped, boot_next, child, ended>>
  BY DEF bootVars
<1>2. Bt!SortIsSound'
  BY <1>1, SortStays DEF Bt!BootInv
<1>3. Bt!ModulesAreAccounted'
  BY <1>1, ModulesStay DEF Bt!BootInv
<1>4. Bt!TypeOK'
  BY <1>1 DEF Bt!BootInv, Bt!TypeOK, Bt!Orders
<1>5. Bt!RunIsSound'
  BY <1>1 DEF Bt!BootInv, Bt!RunIsSound
<1> QED
  BY <1>2, <1>3, <1>4, <1>5 DEF Bt!BootInv

LEMMA LoadModuleKeeps ==
  ASSUME Bt!BootInv, Bt!load_module
  PROVE  Bt!BootInv'
<1> DEFINE m == dir[1]
<1>1. /\ boot_pc = "modules" /\ dir # << >> /\ dir' = Tail(dir)
      /\ boot_pc' \in {"modules", "crashed"}
      /\ IF boot_kind[m] = "ok" THEN loaded' = Append(loaded, m) ELSE UNCHANGED loaded
      /\ UNCHANGED <<boot_kind, scripts, sort_i, sort_j, swapped, boot_next, child, daemon, ended>>
  BY DEF Bt!load_module, Bt!sortVars, Bt!runVars
<1>2. dir \in Seq(Modules) /\ loaded \in Seq(Modules) /\ Bt!TypeOK
  BY DEF Bt!BootInv, Bt!TypeOK
<1>3. m \in Modules /\ Tail(dir) \in Seq(Modules) /\ Append(loaded, m) \in Seq(Modules)
  BY <1>1, <1>2
<1>4. Bt!Range(dir) = {m} \cup Bt!Range(Tail(dir))
  <2>1. /\ Len(dir) \in Nat \ {0} /\ DOMAIN dir = 1..Len(dir) /\ DOMAIN Tail(dir) = 1..(Len(dir) - 1)
        /\ \A k \in 1..(Len(dir) - 1) : Tail(dir)[k] = dir[k + 1]
    BY <1>1, <1>2
  <2>2. \A k \in 1..Len(dir) : k = 1 \/ (k - 1 \in 1..(Len(dir) - 1) /\ dir[k] = Tail(dir)[k - 1])
    BY <2>1
  <2>3. \A k \in 1..(Len(dir) - 1) : k + 1 \in 1..Len(dir) /\ Tail(dir)[k] = dir[k + 1]
    BY <2>1
  <2>4. 1 \in 1..Len(dir)
    BY <2>1
  <2>5. \A x : x \in Bt!Range(dir) <=> \E k \in 1..Len(dir) : x = dir[k]
    BY <2>1, Zenon DEF Bt!Range
  <2>6. \A x : x \in Bt!Range(Tail(dir)) <=> \E k \in 1..(Len(dir) - 1) : x = Tail(dir)[k]
    BY <2>1, Zenon DEF Bt!Range
  <2>7. Bt!Range(dir) \subseteq {m} \cup Bt!Range(Tail(dir))
    BY <2>2, <2>5, <2>6
  <2>8. {m} \cup Bt!Range(Tail(dir)) \subseteq Bt!Range(dir)
    BY <2>3, <2>4, <2>5, <2>6
  <2> QED
    BY <2>7, <2>8, Zenon
<1>5. Bt!Range(Append(loaded, m)) = Bt!Range(loaded) \cup {m}
  <2>1. /\ Len(loaded) \in Nat /\ DOMAIN loaded = 1..Len(loaded)
        /\ DOMAIN Append(loaded, m) = 1..(Len(loaded) + 1)
        /\ \A k \in 1..(Len(loaded) + 1) : Append(loaded, m)[k] = IF k = Len(loaded) + 1 THEN m ELSE loaded[k]
    BY <1>2, <1>3
  <2>2. \A k \in 1..(Len(loaded) + 1) : (k = Len(loaded) + 1 /\ Append(loaded, m)[k] = m)
                                      \/ (k \in 1..Len(loaded) /\ Append(loaded, m)[k] = loaded[k])
    BY <2>1
  <2>3. \A k \in 1..Len(loaded) : k \in 1..(Len(loaded) + 1) /\ Append(loaded, m)[k] = loaded[k]
    BY <2>1
  <2>4. Len(loaded) + 1 \in 1..(Len(loaded) + 1) /\ Append(loaded, m)[Len(loaded) + 1] = m
    BY <2>1
  <2>5. \A x : x \in Bt!Range(loaded) <=> \E k \in 1..Len(loaded) : x = loaded[k]
    BY <2>1, Zenon DEF Bt!Range
  <2>6. \A x : x \in Bt!Range(Append(loaded, m)) <=> \E k \in 1..(Len(loaded) + 1) : x = Append(loaded, m)[k]
    BY <2>1, Zenon DEF Bt!Range
  <2>7. Bt!Range(Append(loaded, m)) \subseteq Bt!Range(loaded) \cup {m}
    BY <2>2, <2>5, <2>6
  <2>8. Bt!Range(loaded) \cup {m} \subseteq Bt!Range(Append(loaded, m))
    BY <2>3, <2>4, <2>5, <2>6
  <2> QED
    BY <2>7, <2>8, Zenon
<1>6. Bt!TypeOK'
  BY <1>1, <1>2, <1>3 DEF Bt!TypeOK, Bt!Orders
<1>7. Bt!ModulesAreAccounted'
  <2> DEFINE Ok(X) == {x \in X : boot_kind[x] = "ok"}
  <2>1. Bt!Range(loaded) \cup Ok(Bt!Range(dir)) = Ok(Modules)
    BY DEF Bt!BootInv, Bt!ModulesAreAccounted
  <2>2. Bt!Range(loaded') \cup Ok(Bt!Range(dir')) = Ok(Modules)
    <3>1. CASE boot_kind[m] = "ok"
      <4>1. loaded' = Append(loaded, m) /\ dir' = Tail(dir)
        BY <1>1, <3>1
      <4>2. Ok(Bt!Range(dir)) = {m} \cup Ok(Bt!Range(Tail(dir)))
        BY <1>4, <3>1
      <4> HIDE DEF Ok, m
      <4>3. Bt!Range(loaded') = Bt!Range(loaded) \cup {m} /\ Ok(Bt!Range(dir')) = Ok(Bt!Range(Tail(dir)))
        BY <1>5, <4>1
      <4> QED
        BY <2>1, <4>2, <4>3
    <3>2. CASE boot_kind[m] # "ok"
      <4>1. loaded' = loaded /\ dir' = Tail(dir)
        BY <1>1, <3>2
      <4>2. Ok(Bt!Range(dir)) = Ok(Bt!Range(Tail(dir)))
        BY <1>4, <3>2
      <4> HIDE DEF Ok
      <4> QED
        BY <2>1, <4>1, <4>2
    <3> QED
      BY <3>1, <3>2
  <2>3. Bt!Range(loaded)' = Bt!Range(loaded') /\ Bt!Range(dir)' = Bt!Range(dir')
    BY DEF Bt!Range
  <2> QED
    BY <1>1, <2>2, <2>3 DEF Bt!ModulesAreAccounted
<1>8. Bt!SortIsSound'
  BY <1>1, SortStays DEF Bt!BootInv
<1>9. Bt!RunIsSound'
  BY <1>1 DEF Bt!BootInv, Bt!RunIsSound
<1> QED
  BY <1>6, <1>7, <1>8, <1>9 DEF Bt!BootInv

LEMMA ListScriptsKeeps ==
  ASSUME Bt!BootInv, Bt!list_scripts
  PROVE  Bt!BootInv'
<1>1. /\ boot_pc = "modules" /\ dir = << >> /\ boot_pc' = "sort"
      /\ UNCHANGED <<boot_kind, dir, loaded, scripts, sort_i, sort_j, swapped, boot_next, child, ended>>
  BY DEF Bt!list_scripts, Bt!modVars, Bt!sortVars, Bt!runVars
<1>2. Bt!SortIsSound'
  BY <1>1, SortStays DEF Bt!BootInv
<1>3. Bt!ModulesAreAccounted'
  BY <1>1, ModulesStay DEF Bt!BootInv
<1>4. Bt!TypeOK'
  BY <1>1 DEF Bt!BootInv, Bt!TypeOK, Bt!Orders
<1>5. Bt!RunIsSound'
  BY <1>1 DEF Bt!BootInv, Bt!RunIsSound
<1> QED
  BY <1>2, <1>3, <1>4, <1>5 DEF Bt!BootInv

(* A turn of the inner loop: the name after it is above all before it.     *)
LEMMA SortTurnKeeps ==
  ASSUME Bt!BootInv, Bt!sort, sort_j < Bt!Upto
  PROVE  Bt!BootInv'
<1>0. PICK p \in Nat : p = sort_j + 1
  BY DEF Bt!BootInv, Bt!TypeOK
<1> DEFINE n == Len(scripts)
           q == p + 1
<1>1. /\ boot_pc = "sort" /\ boot_pc' = "sort" /\ sort_j' = sort_j + 1 /\ sort_i' = sort_i
      /\ UNCHANGED <<boot_kind, dir, loaded, boot_next, child, ended>>
      /\ \/ /\ Bt!Above(scripts[p], scripts[q]) /\ swapped' = TRUE
            /\ scripts' = [scripts EXCEPT ![p] = scripts[q], ![q] = scripts[p]]
         \/ ~Bt!Above(scripts[p], scripts[q]) /\ scripts' = scripts /\ swapped' = swapped
  <2>1. sort_j + 1 = p /\ sort_j + 2 = q
    BY <1>0 DEF Bt!BootInv, Bt!TypeOK
  <2> HIDE DEF q
  <2> QED
    BY <2>1 DEF Bt!sort, Bt!modVars, Bt!runVars
<1>2. /\ scripts \in Bt!Orders(Scripts) /\ sort_i \in Nat /\ sort_j \in Nat /\ swapped \in BOOLEAN
      /\ Bt!TypeOK
  BY DEF Bt!BootInv, Bt!TypeOK
<1>3. /\ n = Cardinality(Scripts) /\ n \in Nat /\ scripts \in [1..n -> Scripts]
      /\ (\A k \in 1..n : scripts[k] \in Scripts /\ scripts[k] \in Names)
      /\ (\A k, l \in 1..n : scripts[k] = scripts[l] => k = l)
  BY <1>2, ScriptFacts
<1>4. sort_j < n - sort_i - 1
  BY DEF Bt!Upto
<1> HIDE DEF n
<1>5. p \in 1..n /\ q \in 1..n /\ q <= n - sort_i /\ q = p + 1
  BY <1>0, <1>2, <1>3, <1>4
<1>6. /\ \A b \in 1..n : b > n - sort_i => Bt!InPlace(b)
      /\ Bt!InPlace(p)
      /\ ~swapped => \A b \in 1..n : b <= p => Bt!InPlace(b)
  <2>1. /\ \A b \in 1..n : b > n - sort_i => Bt!InPlace(b)
        /\ sort_j > 0 => Bt!InPlace(p)
        /\ ~swapped => \A b \in 1..n : b <= p => Bt!InPlace(b)
    BY <1>0, <1>1 DEF Bt!BootInv, Bt!SortIsSound, Bt!Place, n
  <2>2. sort_j = 0 => Bt!InPlace(p)
    BY <1>0 DEF Bt!InPlace
  <2> QED
    BY <1>2, <2>1, <2>2
<1>7. \A a, b : Bt!InOrder(a, b) <=> ~Bt!Above(scripts[a], scripts[b])
  BY DEF Bt!InOrder
<1>8. \A a, b : Bt!InOrder(a, b)' <=> ~Bt!Above(scripts'[a], scripts'[b])
  BY DEF Bt!InOrder, Bt!Above
<1>9. \A b : Bt!InPlace(b) <=> \A a \in 1..(b - 1) : ~Bt!Above(scripts[a], scripts[b])
  BY <1>7 DEF Bt!InPlace
<1>10. \A b : Bt!InPlace(b)' <=> \A a \in 1..(b - 1) : ~Bt!Above(scripts'[a], scripts'[b])
  BY <1>8 DEF Bt!InPlace
<1> DEFINE swap(k) == IF k = p THEN q ELSE IF k = q THEN p ELSE k
<1>11. /\ scripts' \in Bt!Orders(Scripts) /\ Len(scripts') = n
       /\ \/ scripts' = scripts
          \/ \A k \in 1..n : scripts'[k] = scripts[swap(k)]
  <2>1. CASE scripts' = scripts
    BY <1>2, <2>1 DEF n
  <2>2. CASE scripts' = [scripts EXCEPT ![p] = scripts[q], ![q] = scripts[p]]
    <3> HIDE DEF q
    <3>1. \A k \in 1..n : scripts'[k] = scripts[swap(k)] /\ swap(k) \in 1..n
      BY <1>3, <1>5, <2>2
    <3>2. scripts' \in [1..n -> Scripts]
      BY <1>3, <1>5, <2>2
    <3>3. \A k, l \in 1..n : swap(k) = swap(l) => k = l
      OBVIOUS
    <3> HIDE DEF swap
    <3>4. \A k, l \in 1..n : scripts'[k] = scripts'[l] => k = l
      BY <1>3, <3>1, <3>3
    <3>5. scripts' \in Bt!Orders(Scripts)
      BY <1>3, <3>2, <3>4, OrdersAreComplete, BootBasics
    <3> QED
      BY <1>3, <3>1, <3>5, ScriptFacts
  <2> QED
    BY <1>1, <2>1, <2>2
<1>12. ASSUME NEW b \in 1..n, b > n - sort_i
       PROVE  Bt!InPlace(b)'
  <2> SUFFICES ASSUME NEW a \in 1..(b - 1)
               PROVE  ~Bt!Above(scripts'[a], scripts'[b])
    BY <1>10
  <2>1. \A e \in 1..(b - 1) : ~Bt!Above(scripts[e], scripts[b])
    BY <1>6, <1>9, <1>12
  <2>2. swap(b) = b /\ swap(a) \in 1..(b - 1) /\ a \in 1..n
    BY <1>2, <1>3, <1>5, <1>12
  <2> HIDE DEF swap
  <2> QED
    BY <1>11, <2>1, <2>2
<1>13. Bt!InPlace(q)'
  <2> SUFFICES ASSUME NEW a \in 1..(q - 1)
               PROVE  ~Bt!Above(scripts'[a], scripts'[q])
    BY <1>10
  <2>1. \A e \in 1..(p - 1) : ~Bt!Above(scripts[e], scripts[p])
    BY <1>6, <1>9
  <2>2. a = p \/ a \in 1..(p - 1)
    BY <1>3, <1>5
  <2>3. a \in 1..n
    BY <1>3, <1>5
  <2>4. scripts[a] \in Names /\ scripts[p] \in Names /\ scripts[q] \in Names
    BY <1>3, <1>5, <2>3
  <2>5. CASE ~Bt!Above(scripts[p], scripts[q]) /\ scripts' = scripts
    <3>1. a \in 1..(p - 1) => ~Bt!Above(scripts[a], scripts[q])
      BY <2>1, <2>4, <2>5, OrderIsTransitive
    <3> QED
      BY <2>2, <2>5, <3>1
  <2>6. CASE /\ Bt!Above(scripts[p], scripts[q])
             /\ scripts' = [scripts EXCEPT ![p] = scripts[q], ![q] = scripts[p]]
    <3>1. scripts'[q] = scripts[p] /\ scripts'[p] = scripts[q] /\ (a \in 1..(p - 1) => scripts'[a] = scripts[a])
      <4>1. a \in 1..(p - 1) => a # p /\ a # q
        BY <1>3, <1>5
      <4> HIDE DEF q
      <4>2. p # q
        BY <1>3, <1>5
      <4> QED
        BY <1>3, <1>5, <2>3, <2>6, <4>1, <4>2
    <3>2. ~Bt!Above(scripts[q], scripts[p])
      BY <2>4, <2>6, AboveIsStrict
    <3> HIDE DEF q
    <3> QED
      BY <2>1, <2>2, <3>1, <3>2
  <2> QED
    BY <1>1, <2>5, <2>6
<1>14. ASSUME ~swapped', NEW b \in 1..n, b <= q
       PROVE  Bt!InPlace(b)'
  <2>1. ~swapped /\ scripts' = scripts
    BY <1>1, <1>14
  <2>2. CASE b = q
    BY <1>13, <2>2
  <2>3. CASE b # q
    <3>1. b <= p
      BY <1>2, <1>3, <1>5, <1>14, <2>3
    <3>2. Bt!InPlace(b)
      BY <1>6, <2>1, <3>1
    <3> QED
      BY <1>9, <1>10, <2>1, <3>2
  <2> QED
    BY <2>2, <2>3
<1>15. Bt!SortIsSound'
  <2>1. Bt!Place' = 1..n /\ Bt!Upto' = n - sort_i - 1 /\ Len(scripts') = n
    BY <1>1, <1>11 DEF Bt!Place, Bt!Upto
  <2>2. sort_j' = p /\ sort_j' + 1 = q /\ sort_j' <= n - sort_i - 1
    BY <1>0, <1>1, <1>2, <1>3, <1>4
  <2> HIDE DEF q
  <2>3. Bt!InPlace(sort_j + 1)'
    <3>1. \A a \in 1..(q - 1) : ~Bt!Above(scripts'[a], scripts'[q])
      BY <1>10, <1>13
    <3>2. \A a \in 1..(q - 1) : Bt!InOrder(a, q)'
      BY <1>8, <3>1
    <3> QED
      BY <2>2, <3>2 DEF Bt!InPlace, Bt!InOrder
  <2>4. /\ sort_j' = 0 \/ sort_j' <= Bt!Upto'
        /\ \A b \in Bt!Place' : b > Len(scripts') - sort_i' => Bt!InPlace(b)'
        /\ ~swapped' => \A b \in Bt!Place' : b <= sort_j' + 1 => Bt!InPlace(b)'
    BY <1>1, <1>12, <1>14, <2>1, <2>2
  <2> QED
    BY <1>1, <2>3, <2>4 DEF Bt!SortIsSound
<1>16. Bt!ModulesAreAccounted'
  BY <1>1, ModulesStay DEF Bt!BootInv
<1>17. Bt!TypeOK'
  <2>1. swapped' \in BOOLEAN /\ sort_j' \in Nat /\ Len(scripts') = Len(scripts)
    <3>1. swapped' \in BOOLEAN
      BY <1>1, <1>2, Zenon
    <3>2. sort_j' \in Nat
      BY <1>1, <1>2
    <3> QED
      BY <1>11, <3>1, <3>2 DEF n
  <2>2. Bt!Orders(Scripts)' = Bt!Orders(Scripts)
    BY DEF Bt!Orders
  <2> QED
    BY <1>1, <1>2, <1>11, <2>1, <2>2 DEF Bt!TypeOK
<1>18. Bt!RunIsSound'
  <2>1. child = "none" /\ boot_next = 1 /\ ended = {scripts[k] : k \in 1..(1 - 1)}
    BY <1>1 DEF Bt!BootInv, Bt!RunIsSound
  <2>2. {scripts[k] : k \in 1..(1 - 1)} = {} /\ {scripts'[k] : k \in 1..(1 - 1)} = {}
    OBVIOUS
  <2> QED
    BY <1>1, <2>1, <2>2 DEF Bt!RunIsSound
<1> QED
  BY <1>15, <1>16, <1>17, <1>18 DEF Bt!BootInv

(* The end of a pass: one more name is in its place, and all are when      *)
(* nothing was exchanged or one is left.                                   *)
LEMMA SortPassKeeps ==
  ASSUME Bt!BootInv, Bt!sort, ~(sort_j < Bt!Upto)
  PROVE  Bt!BootInv'
<1> DEFINE n == Len(scripts)
<1>1. /\ boot_pc = "sort" /\ sort_j' = 0 /\ sort_i' = sort_i + 1 /\ swapped' = FALSE
      /\ boot_pc' = IF swapped /\ sort_i + 1 < n - 1 THEN "sort" ELSE "fork"
      /\ UNCHANGED <<boot_kind, dir, loaded, scripts, boot_next, child, ended>>
  BY DEF Bt!sort, Bt!modVars, Bt!runVars
<1>2. /\ scripts \in Bt!Orders(Scripts) /\ sort_i \in Nat /\ sort_j \in Nat /\ Bt!TypeOK
  BY DEF Bt!BootInv, Bt!TypeOK
<1>3. n \in Nat
  BY <1>2, ScriptFacts
<1>4. /\ ~(sort_j < n - sort_i - 1)
      /\ sort_j = 0 \/ sort_j <= n - sort_i - 1
      /\ \A b \in 1..n : b > n - sort_i => Bt!InPlace(b)
      /\ sort_j > 0 => Bt!InPlace(sort_j + 1)
      /\ ~swapped => \A b \in 1..n : b <= sort_j + 1 => Bt!InPlace(b)
  BY <1>1 DEF Bt!BootInv, Bt!SortIsSound, Bt!Place, Bt!Upto
<1>5. Bt!InPlace(1)
  BY DEF Bt!InPlace
<1> HIDE DEF n
<1>6. ASSUME NEW b \in 1..n, b > n - (sort_i + 1)
      PROVE  Bt!InPlace(b)
  <2>1. b > n - sort_i \/ b = n - sort_i
    BY <1>2, <1>3, <1>6
  <2>2. ASSUME b = n - sort_i
        PROVE  b = sort_j + 1
    BY <1>2, <1>3, <1>4, <2>2
  <2>3. CASE sort_j = 0
    BY <1>4, <1>5, <2>1, <2>2, <2>3
  <2>4. CASE sort_j > 0
    BY <1>4, <2>1, <2>2, <2>4
  <2> QED
    BY <1>2, <2>3, <2>4
<1>7. ASSUME ~(swapped /\ sort_i + 1 < n - 1), NEW b \in 1..n
      PROVE  Bt!InPlace(b)
  <2>1. CASE ~swapped
    <3>1. b <= sort_j + 1 => Bt!InPlace(b)
      BY <1>4, <2>1
    <3>2. ~(b <= sort_j + 1) => b > n - sort_i
      BY <1>2, <1>3, <1>4
    <3> QED
      BY <1>4, <3>1, <3>2
  <2>2. CASE ~(sort_i + 1 < n - 1)
    <3>1. b = 1 \/ b > n - (sort_i + 1)
      BY <1>2, <1>3, <2>2
    <3> QED
      BY <1>5, <1>6, <3>1
  <2> QED
    BY <1>7, <2>1, <2>2
<1>8. \A b : Bt!InPlace(b)' <=> Bt!InPlace(b)
  BY <1>1 DEF Bt!InPlace, Bt!InOrder, Bt!Above
<1>9. Bt!SortIsSound'
  <2>1. Bt!Place' = 1..n /\ Len(scripts') = n
    BY <1>1 DEF Bt!Place, n
  <2>2. boot_pc' \in {"fork", "scan", "asleep", "spin"} => \A b \in Bt!Place' : Bt!InPlace(b)'
    BY <1>1, <1>7, <1>8, <2>1
  <2>3. \A b \in Bt!Place' : b > Len(scripts') - sort_i' => Bt!InPlace(b)'
    BY <1>1, <1>6, <1>8, <2>1
  <2>4. \A b \in Bt!Place' : b <= sort_j' + 1 => Bt!InPlace(b)'
    <3>1. \A b \in 1..n : b <= 0 + 1 => b = 1
      BY <1>3
    <3> QED
      BY <1>1, <1>5, <1>8, <2>1, <3>1
  <2>5. ~(sort_j' > 0)
    BY <1>1
  <2> QED
    BY <1>1, <2>2, <2>3, <2>4, <2>5 DEF Bt!SortIsSound
<1>10. Bt!ModulesAreAccounted'
  BY <1>1, ModulesStay DEF Bt!BootInv
<1>11. Bt!TypeOK'
  <2>1. sort_i' \in Nat /\ sort_j' \in Nat /\ boot_pc' \in {"sort", "fork"} /\ Bt!Orders(Scripts)' = Bt!Orders(Scripts)
    BY <1>1, <1>2 DEF Bt!Orders
  <2> QED
    BY <1>1, <1>2, <2>1 DEF Bt!TypeOK
<1>12. Bt!RunIsSound'
  <2>1. boot_pc' \in {"sort", "fork"}
    BY <1>1
  <2> QED
    BY <1>1, <2>1 DEF Bt!BootInv, Bt!RunIsSound
<1> QED
  BY <1>9, <1>10, <1>11, <1>12 DEF Bt!BootInv

LEMMA BootForkKeeps ==
  ASSUME Bt!BootInv, Bt!fork
  PROVE  Bt!BootInv'
<1>1. /\ boot_pc = "fork"
      /\ IF Bt!Left THEN boot_pc' = "scan" /\ child' = "run" ELSE boot_pc' = "spin" /\ child' = child
      /\ UNCHANGED <<boot_kind, dir, loaded, scripts, sort_i, sort_j, swapped, boot_next, ended>>
  BY DEF Bt!fork, Bt!modVars, Bt!sortVars
<1>2. Bt!SortIsSound'
  BY <1>1, SortStays DEF Bt!BootInv
<1>3. Bt!ModulesAreAccounted'
  BY <1>1, ModulesStay DEF Bt!BootInv
<1>4. child = "none" /\ ended = {scripts[k] : k \in 1..(boot_next - 1)}
  BY <1>1 DEF Bt!BootInv, Bt!RunIsSound
<1>5. Bt!TypeOK'
  BY <1>1, <1>4 DEF Bt!BootInv, Bt!TypeOK, Bt!Orders
<1>6. /\ boot_next \in 1..(Len(scripts) + 1) /\ Len(scripts) \in Nat
      /\ Bt!Left <=> boot_next <= Len(scripts)
  BY ScriptFacts DEF Bt!BootInv, Bt!TypeOK, Bt!Left
<1>7. ~Bt!Left => boot_next = Len(scripts) + 1
  BY <1>6
<1>8. Bt!RunIsSound'
  BY <1>1, <1>4, <1>6, <1>7 DEF Bt!RunIsSound
<1> QED
  BY <1>2, <1>3, <1>5, <1>8 DEF Bt!BootInv

LEMMA WaitpidKeeps ==
  ASSUME Bt!BootInv, Bt!waitpid
  PROVE  Bt!BootInv'
<1>1. /\ boot_pc = "scan"
      /\ IF child = "zombie" THEN boot_pc' = "fork" /\ boot_next' = boot_next + 1 /\ child' = "none"
         ELSE boot_pc' = "asleep" /\ boot_next' = boot_next /\ child' = child
      /\ UNCHANGED <<boot_kind, dir, loaded, scripts, sort_i, sort_j, swapped, ended>>
  BY DEF Bt!waitpid, Bt!Picked, Bt!modVars, Bt!sortVars
<1>2. Bt!SortIsSound'
  BY <1>1, SortStays DEF Bt!BootInv
<1>3. Bt!ModulesAreAccounted'
  BY <1>1, ModulesStay DEF Bt!BootInv
<1>4. /\ child # "none" /\ boot_next <= Len(scripts) /\ boot_next \in 1..(Len(scripts) + 1) /\ Len(scripts) \in Nat
      /\ ended = {scripts[k] : k \in 1..(IF child = "zombie" THEN boot_next ELSE boot_next - 1)}
  BY <1>1, ScriptFacts DEF Bt!BootInv, Bt!RunIsSound, Bt!TypeOK
<1>5. boot_next + 1 \in 1..(Len(scripts) + 1) /\ boot_next + 1 - 1 = boot_next
  BY <1>4
<1>6. Bt!TypeOK'
  BY <1>1, <1>5 DEF Bt!BootInv, Bt!TypeOK, Bt!Orders
<1>7. Bt!RunIsSound'
  <2>1. CASE child = "zombie"
    <3>1. boot_pc' = "fork" /\ boot_next' = boot_next + 1 /\ child' = "none" /\ ended' = {scripts[k] : k \in 1..boot_next}
      BY <1>1, <1>4, <2>1
    <3>2. boot_next' - 1 = boot_next
      <4>1. boot_next \in Nat /\ boot_next' = boot_next + 1
        BY <1>4, <3>1
      <4> QED
        BY <4>1
    <3>3. ended' = {scripts'[k] : k \in 1..(IF child' = "zombie" THEN boot_next' ELSE boot_next' - 1)}
      <4>1. (IF child' = "zombie" THEN boot_next' ELSE boot_next' - 1) = boot_next /\ scripts' = scripts
        BY <1>1, <3>1, <3>2
      <4> QED
        BY <3>1, <4>1, Zenon
    <3> QED
      BY <3>1, <3>3 DEF Bt!RunIsSound
  <2>2. CASE child # "zombie"
    BY <1>1, <1>4, <2>2 DEF Bt!RunIsSound
  <2> QED
    BY <2>1, <2>2
<1> QED
  BY <1>2, <1>3, <1>6, <1>7 DEF Bt!BootInv

LEMMA LeaveKeeps ==
  ASSUME Bt!BootInv, NEW d \in Daemons, Bt!leave(d)
  PROVE  Bt!BootInv'
<1>1. UNCHANGED <<boot_pc, boot_kind, dir, loaded, scripts, sort_i, sort_j, swapped, boot_next, child, ended>>
  BY DEF Bt!leave, Bt!modVars, Bt!sortVars
<1>2. Bt!SortIsSound'
  BY <1>1, SortStays DEF Bt!BootInv
<1>3. Bt!ModulesAreAccounted'
  BY <1>1, ModulesStay DEF Bt!BootInv
<1>4. Bt!TypeOK'
  BY <1>1 DEF Bt!BootInv, Bt!TypeOK, Bt!Orders
<1>5. Bt!RunIsSound'
  BY <1>1 DEF Bt!BootInv, Bt!RunIsSound
<1> QED
  BY <1>2, <1>3, <1>4, <1>5 DEF Bt!BootInv

LEMMA ExitScriptKeeps ==
  ASSUME Bt!BootInv, Bt!exit_script
  PROVE  Bt!BootInv'
<1>1. /\ child = "run" /\ child' = "zombie" /\ ended' = ended \cup {scripts[boot_next]} /\ boot_pc' = Bt!Woken
      /\ UNCHANGED <<boot_kind, dir, loaded, scripts, sort_i, sort_j, swapped, boot_next>>
  BY DEF Bt!exit_script, Bt!modVars, Bt!sortVars
<1>2. /\ boot_pc \in {"scan", "asleep"} /\ boot_next <= Len(scripts) /\ boot_next \in Nat /\ boot_next > 0
      /\ ended = {scripts[k] : k \in 1..(boot_next - 1)}
  BY <1>1, ScriptFacts DEF Bt!BootInv, Bt!RunIsSound, Bt!TypeOK
<1>3. boot_pc' = "scan"
  BY <1>1, <1>2 DEF Bt!Woken
<1>4. Bt!SortIsSound'
  BY <1>1, <1>2, <1>3, SortStays DEF Bt!BootInv
<1>5. Bt!ModulesAreAccounted'
  BY <1>1, <1>2, <1>3, ModulesStay DEF Bt!BootInv
<1>6. Bt!TypeOK'
  BY <1>1, <1>3 DEF Bt!BootInv, Bt!TypeOK, Bt!Orders
<1>7. ended' = {scripts[k] : k \in 1..boot_next}
  <2>1. /\ \A k \in 1..boot_next : k = boot_next \/ k \in 1..(boot_next - 1)
        /\ \A k \in 1..(boot_next - 1) : k \in 1..boot_next
        /\ boot_next \in 1..boot_next
    BY <1>2
  <2>2. ended \cup {scripts[boot_next]} \subseteq {scripts[k] : k \in 1..boot_next}
    BY <1>2, <2>1, Zenon
  <2>3. {scripts[k] : k \in 1..boot_next} \subseteq ended \cup {scripts[boot_next]}
    BY <1>2, <2>1
  <2> QED
    BY <1>1, <2>2, <2>3, Zenon
<1>8. Bt!RunIsSound'
  BY <1>1, <1>2, <1>3, <1>7 DEF Bt!RunIsSound
<1> QED
  BY <1>4, <1>5, <1>6, <1>8 DEF Bt!BootInv

LEMMA ExitDaemonKeeps ==
  ASSUME Bt!BootInv, NEW d \in Daemons, Bt!exit_daemon(d)
  PROVE  Bt!BootInv'
<1>1. /\ boot_pc' = IF boot_pc = "asleep" THEN "scan" ELSE boot_pc
      /\ UNCHANGED <<boot_kind, dir, loaded, scripts, sort_i, sort_j, swapped, boot_next, child, ended>>
  BY DEF Bt!exit_daemon, Bt!modVars, Bt!sortVars, Bt!Woken
<1>2. Bt!SortIsSound'
  BY <1>1, SortStays DEF Bt!BootInv
<1>3. Bt!ModulesAreAccounted'
  BY <1>1, ModulesStay DEF Bt!BootInv
<1>4. Bt!TypeOK'
  BY <1>1 DEF Bt!BootInv, Bt!TypeOK, Bt!Orders
<1>5. Bt!RunIsSound'
  BY <1>1 DEF Bt!BootInv, Bt!RunIsSound
<1> QED
  BY <1>2, <1>3, <1>4, <1>5 DEF Bt!BootInv

LEMMA NextBoot ==
  ASSUME Bt!BootInv, Bt!Next
  PROVE  Bt!BootInv'
BY LoadModuleKeeps, ListScriptsKeeps, SortTurnKeeps, SortPassKeeps, BootForkKeeps, WaitpidKeeps,
   LeaveKeeps, ExitScriptKeeps, ExitDaemonKeeps DEF Bt!Next, Bt!InitStep

LEMMA BootPromises ==
  ASSUME Bt!BootInv
  PROVE  Bt!ScriptsInOrder /\ Bt!BootIsComplete
<1> DEFINE n == Len(scripts)
<1>1. /\ n \in Nat /\ (\A k \in 1..n : scripts[k] \in Scripts /\ scripts[k] \in Names)
      /\ (\A x \in Scripts : \E k \in 1..n : scripts[k] = x)
  BY ScriptFacts DEF Bt!BootInv, Bt!TypeOK
<1>2. Bt!ScriptsInOrder
  <2> SUFFICES ASSUME child = "run", NEW s \in Scripts, Bt!Before(s, scripts[boot_next])
               PROVE  s \in ended
    BY DEF Bt!ScriptsInOrder
  <2>1. /\ boot_pc \in {"scan", "asleep"} /\ boot_next <= n /\ boot_next \in 1..(n + 1)
        /\ ended = {scripts[k] : k \in 1..(boot_next - 1)}
        /\ \A b \in 1..n : Bt!InPlace(b)
    BY DEF Bt!BootInv, Bt!RunIsSound, Bt!TypeOK, Bt!SortIsSound, Bt!Place
  <2>2. PICK k \in 1..n : scripts[k] = s
    BY <1>1
  <2> HIDE DEF n
  <2>3. boot_next \in 1..n
    BY <1>1, <2>1
  <2>4. Bt!Above(scripts[boot_next], scripts[k])
    BY <1>1, <2>2, <2>3, BeforeIsBelow
  <2>5. k # boot_next
    BY <1>1, <2>2, <2>4, AboveIsStrict
  <2>6. ~(boot_next < k)
    <3> SUFFICES ASSUME boot_next < k
                 PROVE  FALSE
      OBVIOUS
    <3>1. boot_next \in 1..(k - 1) /\ Bt!InPlace(k)
      BY <1>1, <2>1, <2>2, <2>3
    <3> QED
      BY <2>4, <3>1 DEF Bt!InPlace, Bt!InOrder
  <2>7. k \in 1..(boot_next - 1)
    BY <1>1, <2>2, <2>3, <2>5, <2>6
  <2> QED
    BY <2>1, <2>2, <2>7
<1>3. Bt!BootIsComplete
  <2> SUFFICES ASSUME boot_pc = "spin"
               PROVE  ended = Scripts /\ Bt!Range(loaded) = {m \in Modules : boot_kind[m] = "ok"}
    BY DEF Bt!BootIsComplete
  <2>1. child = "none" /\ boot_next = n + 1 /\ ended = {scripts[k] : k \in 1..(boot_next - 1)}
    BY DEF Bt!BootInv, Bt!RunIsSound
  <2>2. ended = Scripts
    <3>1. n + 1 - 1 = n
      BY <1>1
    <3>2. ended = {scripts[k] : k \in 1..n}
      BY <2>1, <3>1
    <3> HIDE DEF n
    <3> QED
      BY <1>1, <3>2, Zenon
  <2>3. dir = << >> /\ Bt!Range(loaded) \cup {m \in Bt!Range(dir) : boot_kind[m] = "ok"} = {m \in Modules : boot_kind[m] = "ok"}
    BY DEF Bt!BootInv, Bt!ModulesAreAccounted
  <2>4. Bt!Range(dir) = {}
    BY <2>3 DEF Bt!Range
  <2> QED
    BY <2>2, <2>3, <2>4
<1> QED
  BY <1>2, <1>3

(* Programs start as they should: for any set of modules and scripts and   *)
(* whatever daemons end meanwhile, init runs the scripts in the order of   *)
(* their names and leaves none out (user/init/src/main.c), and for any     *)
(* chain of interpreters execve starts the program meant and gives it the  *)
(* arguments it was called with after its path or, if it is static, the    *)
(* name of its node, and the environment only if it is static (exec.c,     *)
(* user/ld).                                                               *)
THEOREM StartsStayRight == Spec => []StartsAreRight
<1> DEFINE Inv == (part = "boot" => Bt!BootInv) /\ (part = "exec" => Ex!ExecInv)
<1>1. Init => Inv
  BY InitBoot, InitExec DEF Init
<1>2. Inv /\ [Next]_vars => Inv'
  <2> SUFFICES ASSUME Inv, [Next]_vars
               PROVE  Inv'
    OBVIOUS
  <2>1. part' = part
    BY DEF Next, vars
  <2>2. CASE part = "boot"
    <3>1. Bt!Next \/ UNCHANGED bootVars
      BY <2>2 DEF Next, vars
    <3> QED
      BY <2>1, <2>2, <3>1, NextBoot, BootStutters
  <2>3. CASE part = "exec"
    <3>1. Ex!Next \/ UNCHANGED execVars
      BY <2>3 DEF Next, vars
    <3> QED
      BY <2>1, <2>3, <3>1, NextExec, ExecStutters
  <2>4. CASE part \notin {"boot", "exec"}
    BY <2>1, <2>4
  <2> QED
    BY <2>2, <2>3, <2>4
<1>3. Inv => StartsAreRight
  BY BootPromises, ExecPromises DEF StartsAreRight
<1> QED
  BY <1>1, <1>2, <1>3, PTL DEF Spec
=============================================================================
