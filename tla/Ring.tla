-------------------------------- MODULE Ring --------------------------------
(***************************************************************************)
(* The circular byte buffer behind terminals and sockets                   *)
(* (kernel/src/util/types/ringbuffer.c) and, with its own copy of the same *)
(* code, behind pipes (kernel/src/fs/pipe.c).  One slot is always kept     *)
(* free, so that equal pointers mean an empty buffer.                      *)
(* write_available_NoGap is a faulty variant of write_available.           *)
(***************************************************************************)
EXTENDS Integers, Sequences, SequenceTheorems, TLAPS

CONSTANTS
  Size,     \* rb->size
  Bytes     \* byte values

ASSUME SizeAssumption == Size \in Nat \ {0}

VARIABLES
  buffer,     \* rb->buffer
  read_ptr,
  write_ptr

ringVars == <<buffer, read_ptr, write_ptr>>

(* A new buffer; k_malloc leaves its contents arbitrary.                   *)
RingInit ==
  /\ buffer \in [0..(Size - 1) -> Bytes]
  /\ read_ptr = 0
  /\ write_ptr = 0

read_available ==
  IF read_ptr = write_ptr THEN 0
  ELSE IF read_ptr > write_ptr THEN Size - read_ptr + write_ptr
       ELSE write_ptr - read_ptr

write_available_NoGap ==
  IF read_ptr = write_ptr THEN Size
  ELSE IF read_ptr > write_ptr THEN read_ptr - write_ptr
       ELSE (Size - write_ptr) + read_ptr

write_available ==
  IF read_ptr = write_ptr THEN Size - 1
  ELSE IF read_ptr > write_ptr THEN read_ptr - write_ptr - 1
       ELSE (Size - write_ptr) + read_ptr - 1

bump(ptr) == IF ptr + 1 = Size THEN 0 ELSE ptr + 1

(* The body of the copy loops of write and read.                           *)
PutByte(b) ==
  /\ buffer' = [buffer EXCEPT ![write_ptr] = b]
  /\ write_ptr' = bump(write_ptr)
  /\ UNCHANGED read_ptr

TakeByte ==
  /\ read_ptr' = bump(read_ptr)
  /\ UNCHANGED <<buffer, write_ptr>>

NextByte == buffer[read_ptr]
----------------------------------------------------------------------------
RingTypeOK ==
  /\ buffer \in [0..(Size - 1) -> Bytes]
  /\ read_ptr \in 0..(Size - 1)
  /\ write_ptr \in 0..(Size - 1)

(* The bytes in the buffer, oldest first.                                  *)
Slot(i) == IF read_ptr + i - 1 < Size THEN read_ptr + i - 1 ELSE read_ptr + i - 1 - Size

Contents == [i \in 1..read_available |-> buffer[Slot(i)]]
----------------------------------------------------------------------------
(* The buffer holds a sequence: what PutByte and TakeByte do to it, for a   *)
(* buffer of any size.                                                     *)

(* The bytes between two pointers r and w of a buffer B.                   *)
Held(r, w) == IF r = w THEN 0 ELSE IF r > w THEN Size - r + w ELSE w - r

At(r, i) == IF r + i - 1 < Size THEN r + i - 1 ELSE r + i - 1 - Size

Stored(B, r, w) == [i \in 1..Held(r, w) |-> B[At(r, i)]]

Ptrs == 0..(Size - 1)

LEMMA StoredSeq ==
  ASSUME NEW B \in [Ptrs -> Bytes], NEW r \in Ptrs, NEW w \in Ptrs
  PROVE  /\ Held(r, w) \in Ptrs
         /\ Stored(B, r, w) \in Seq(Bytes)
         /\ Len(Stored(B, r, w)) = Held(r, w)
         /\ \A i \in 1..Held(r, w) : Stored(B, r, w)[i] = B[At(r, i)]
         /\ \A i \in 1..Size : At(r, i) \in Ptrs
<1> DEFINE n == Held(r, w)
           s == Stored(B, r, w)
<1>1. n \in Ptrs
  BY SizeAssumption DEF Held, Ptrs
<1>2. \A i \in 1..Size : At(r, i) \in Ptrs
  BY SizeAssumption DEF At, Ptrs
<1>3. n \in Nat /\ 1..n \subseteq 1..Size
  BY <1>1, SizeAssumption DEF Ptrs
<1> HIDE DEF n
<1>4. s = [i \in 1..n |-> B[At(r, i)]]
  BY DEF Stored, n
<1>5. s \in [1..n -> Bytes]
  BY <1>2, <1>3, <1>4
<1>6. s \in Seq(Bytes)
  BY <1>3, <1>5, SeqDef
<1>7. Len(s) = n
  BY <1>3, <1>5, <1>6, LenProperties
<1> HIDE DEF s
<1>8. \A i \in 1..n : s[i] = B[At(r, i)]
  BY <1>4
<1> QED  BY <1>1, <1>2, <1>6, <1>7, <1>8 DEF n, s

(* Writing a byte while a slot is free appends it.                         *)
LEMMA StoredPut ==
  ASSUME NEW B \in [Ptrs -> Bytes], NEW r \in Ptrs, NEW w \in Ptrs, NEW b \in Bytes,
         Held(r, w) < Size - 1
  PROVE  Stored([B EXCEPT ![w] = b], r, bump(w)) = Append(Stored(B, r, w), b)
<1> DEFINE n == Held(r, w)
           w1 == bump(w)
           B1 == [B EXCEPT ![w] = b]
           s == Stored(B, r, w)
           t == Stored(B1, r, w1)
           u == Append(s, b)
<1>1. w1 \in Ptrs
  BY SizeAssumption DEF bump, Ptrs
<1>2. Held(r, w1) = n + 1 /\ At(r, n + 1) = w
  BY SizeAssumption DEF Held, bump, At, Ptrs
<1>3. B1 \in [Ptrs -> Bytes]
  OBVIOUS
<1>4. /\ n \in Ptrs /\ s \in Seq(Bytes) /\ Len(s) = n
      /\ \A i \in 1..n : s[i] = B[At(r, i)]
      /\ \A i \in 1..Size : At(r, i) \in Ptrs
  BY StoredSeq
<1> HIDE DEF w1, B1
<1>5. /\ t \in Seq(Bytes) /\ Len(t) = n + 1
      /\ \A i \in 1..(n + 1) : t[i] = B1[At(r, i)]
  <2>1. /\ t \in Seq(Bytes) /\ Len(t) = Held(r, w1)
        /\ \A i \in 1..Held(r, w1) : t[i] = B1[At(r, i)]
    BY <1>1, <1>3, StoredSeq
  <2> QED  BY <1>2, <2>1
<1> HIDE DEF s, t
<1>6. /\ u \in Seq(Bytes) /\ Len(u) = n + 1
      /\ \A i \in 1..n : u[i] = s[i]
      /\ u[n + 1] = b
  BY <1>4, AppendProperties
<1>7. \A i \in 1..n : At(r, i) # w
  BY SizeAssumption DEF Held, At, Ptrs
<1>8. n \in Int /\ n >= 0 /\ n < Size
  BY <1>4, SizeAssumption DEF Ptrs
<1> HIDE DEF u, n
<1>9. ASSUME NEW i \in 1..(n + 1)
      PROVE  t[i] = u[i]
  <2>1. CASE i = n + 1
    BY <1>2, <1>3, <1>5, <1>6, <1>8, <2>1 DEF B1
  <2>2. CASE i # n + 1
    <3>1. i \in 1..n /\ i \in 1..Size
      BY <1>8, <2>2, SizeAssumption
    <3>2. B1[At(r, i)] = B[At(r, i)]
      BY <1>4, <1>7, <3>1 DEF B1
    <3> QED  BY <1>4, <1>5, <1>6, <3>1, <3>2
  <2> QED  BY <2>1, <2>2
<1>10. t = u
  BY <1>5, <1>6, <1>9, SeqEqual
<1> QED  BY <1>10 DEF t, u, s, w1, B1

(* Reading a byte removes the oldest one.                                  *)
LEMMA StoredTake ==
  ASSUME NEW B \in [Ptrs -> Bytes], NEW r \in Ptrs, NEW w \in Ptrs, Held(r, w) # 0
  PROVE  /\ Stored(B, r, w) # << >>
         /\ Head(Stored(B, r, w)) = B[r]
         /\ Stored(B, bump(r), w) = Tail(Stored(B, r, w))
<1> DEFINE n == Held(r, w)
           r1 == bump(r)
           s == Stored(B, r, w)
           t == Stored(B, r1, w)
           u == Tail(s)
<1>1. r1 \in Ptrs
  BY SizeAssumption DEF bump, Ptrs
<1>2. Held(r1, w) = n - 1 /\ At(r, 1) = r
  BY SizeAssumption DEF Held, bump, At, Ptrs
<1>3. /\ n \in Ptrs /\ s \in Seq(Bytes) /\ Len(s) = n
      /\ \A i \in 1..n : s[i] = B[At(r, i)]
  BY StoredSeq
<1>4. n \in Nat /\ n >= 1
  BY <1>3, SizeAssumption DEF Ptrs
<1> HIDE DEF r1
<1>5. /\ t \in Seq(Bytes) /\ Len(t) = n - 1
      /\ \A i \in 1..(n - 1) : t[i] = B[At(r1, i)]
  <2>1. /\ t \in Seq(Bytes) /\ Len(t) = Held(r1, w)
        /\ \A i \in 1..Held(r1, w) : t[i] = B[At(r1, i)]
    BY <1>1, StoredSeq
  <2> QED  BY <1>2, <2>1
<1>6. \A i \in 1..(n - 1) : At(r1, i) = At(r, i + 1)
  BY <1>3, SizeAssumption DEF r1, bump, At, Ptrs
<1> HIDE DEF s, t, n
<1>7. s # << >>
  BY <1>3, <1>4, EmptySeq
<1>8. Head(s) = s[1]
  BY <1>3, <1>7
<1>9. /\ u \in Seq(Bytes) /\ Len(u) = n - 1
      /\ \A i \in 1..(n - 1) : u[i] = s[i + 1]
  BY <1>3, <1>7, HeadTailProperties
<1> HIDE DEF u
<1>10. \A i \in 1..(n - 1) : t[i] = u[i]
  BY <1>3, <1>4, <1>5, <1>6, <1>9
<1>11. t = u
  BY <1>5, <1>9, <1>10, SeqEqual
<1>12. Head(s) = B[r]
  BY <1>2, <1>3, <1>4, <1>8
<1> QED  BY <1>7, <1>11, <1>12 DEF s, t, u, r1

(* The two counters of the code against the abstract contents.             *)
LEMMA Available ==
  ASSUME RingTypeOK
  PROVE  /\ read_available = Held(read_ptr, write_ptr)
         /\ write_available = Size - 1 - read_available
         /\ Contents = Stored(buffer, read_ptr, write_ptr)
BY SizeAssumption DEF RingTypeOK, read_available, write_available, Held, Contents, Stored, Slot, At

(* What one copied byte does to the counters.                              *)
LEMMA PutCounts ==
  ASSUME RingTypeOK, write_available # 0, NEW b \in Bytes, PutByte(b)
  PROVE  RingTypeOK' /\ write_available' = write_available - 1
                     /\ read_available' = read_available + 1
BY SizeAssumption DEF RingTypeOK, PutByte, bump, read_available, write_available

LEMMA TakeCounts ==
  ASSUME RingTypeOK, read_available # 0, TakeByte
  PROVE  RingTypeOK' /\ write_available' = write_available + 1
                     /\ read_available' = read_available - 1
BY SizeAssumption DEF RingTypeOK, TakeByte, bump, read_available, write_available

LEMMA CountsAreBounded ==
  ASSUME RingTypeOK
  PROVE  /\ read_available \in 0..(Size - 1)
         /\ write_available \in 0..(Size - 1)
         /\ write_available = Size - 1 - read_available
BY SizeAssumption DEF RingTypeOK, read_available, write_available
=============================================================================
