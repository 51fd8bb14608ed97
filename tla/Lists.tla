------------------------------- MODULE Lists -------------------------------
(***************************************************************************)
(* The array list of types/src/list.c, on which every queue of the kernel  *)
(* is built: the ready queue, the wait queues of drivers and processes and *)
(* the child lists of the process tree.  A list_t is the sequence of its   *)
(* data pointers; the storage (EXTEND, realloc, memmove) is left out.      *)
(* An operation that both returns and removes an element is split into the *)
(* element (list_head, list_tail) and the list it leaves.                  *)
(***************************************************************************)
EXTENDS Integers, Sequences, SequencesExt, SequenceTheorems, TLAPS

(* The element the two pops return: NULL, that is no element, when empty.  *)
list_head(l) == Head(l)
list_tail(l) == Last(l)

(* list_push_front: the elements move up by one.                           *)
list_push_front(l, x) == <<x>> \o l

list_push_back(l, x) == Append(l, x)

(* What list_pop_front and list_pop_back leave of a list.                  *)
list_pop_front(l) == IF l = << >> THEN l ELSE Tail(l)
list_pop_back(l)  == IF l = << >> THEN l ELSE Front(l)

(* Only the first occurrence goes: the loop breaks after it.               *)
list_delete_element(l, x) == RemoveFirst(l, x)

(* The nodes of a singly linked list after `new' has been linked in front  *)
(* of position i (prev->next = new; new->next = node).                     *)
list_link_before(l, i, x) == InsertAt(l, i, x)

(***************************************************************************)
(* What the list operations do to the set of elements of a list and to its *)
(* freedom from duplicates, for lists of any length.                       *)
(***************************************************************************)

(* Membership in the range of a list, by position.                         *)
LEMMA InRange ==
  ASSUME NEW l, NEW n, DOMAIN l = 1..n
  PROVE  \A y : y \in Range(l) <=> \E j \in 1..n : l[j] = y
BY DEF Range

(* list_push_back adds exactly one element, and a new one keeps the list   *)
(* free of duplicates.                                                     *)
LEMMA PushBack ==
  ASSUME NEW S, NEW l \in Seq(S), NEW x \in S
  PROVE  /\ list_push_back(l, x) \in Seq(S)
         /\ Range(list_push_back(l, x)) = Range(l) \cup {x}
         /\ IsInjective(l) /\ x \notin Range(l) => IsInjective(list_push_back(l, x))
<1> DEFINE m == Append(l, x)
<1>1. /\ m \in Seq(S) /\ Len(m) = Len(l) + 1
      /\ \A i \in 1..Len(l) : m[i] = l[i]
      /\ m[Len(l) + 1] = x
  BY AppendProperties
<1>2. Len(l) \in Nat /\ DOMAIN l = 1..Len(l) /\ DOMAIN m = 1..(Len(l) + 1)
  BY <1>1, LenProperties
<1>3. Range(m) = Range(l) \cup {x}
  BY <1>1, <1>2 DEF Range
<1>4. IsInjective(l) /\ x \notin Range(l) => IsInjective(m)
  BY <1>1, <1>2 DEF Range, IsInjective
<1> QED  BY <1>1, <1>3, <1>4 DEF list_push_back

(* list_pop_front takes away the head, and all of it when there are no     *)
(* duplicates.                                                             *)
LEMMA PopFront ==
  ASSUME NEW S, NEW l \in Seq(S), l # << >>
  PROVE  /\ list_head(l) \in S
         /\ list_head(l) \in Range(l)
         /\ list_pop_front(l) \in Seq(S)
         /\ IsInjective(l) => /\ IsInjective(list_pop_front(l))
                              /\ Range(list_pop_front(l)) = Range(l) \ {list_head(l)}
<1> DEFINE m == Tail(l)
<1>1. /\ Head(l) \in S /\ m \in Seq(S) /\ Len(m) = Len(l) - 1
      /\ \A i \in 1..Len(m) : m[i] = l[i + 1]
  BY HeadTailProperties
<1>2. Len(l) \in Nat \ {0} /\ DOMAIN l = 1..Len(l) /\ DOMAIN m = 1..(Len(l) - 1)
  BY <1>1, LenProperties, EmptySeq
<1>3. Head(l) = l[1]
  BY <1>2
<1>4. Head(l) \in Range(l)
  BY <1>2, <1>3 DEF Range
<1>5. ASSUME IsInjective(l)
      PROVE  IsInjective(m) /\ Range(m) = Range(l) \ {Head(l)}
  <2>1. IsInjective(m)
    BY <1>1, <1>2, <1>5 DEF IsInjective
  <2>2. \A i \in 1..(Len(l) - 1) : m[i] # l[1]
    BY <1>1, <1>2, <1>5 DEF IsInjective
  <2>3. \A j \in 1..Len(l) : l[j] # l[1] => j - 1 \in 1..(Len(l) - 1) /\ m[j - 1] = l[j]
    BY <1>1, <1>2
  <2>4. \A j \in 1..(Len(l) - 1) : j + 1 \in 1..Len(l) /\ m[j] = l[j + 1]
    BY <1>1, <1>2
  <2>5. \A y : y \in Range(m) <=> y \in Range(l) /\ y # l[1]
    <3> TAKE y
    <3>1. y \in Range(m) <=> \E j \in 1..(Len(l) - 1) : m[j] = y
      BY <1>2, InRange
    <3>2. y \in Range(l) <=> \E j \in 1..Len(l) : l[j] = y
      BY <1>2, InRange
    <3> HIDE DEF m
    <3> QED  BY <2>2, <2>3, <2>4, <3>1, <3>2
  <2>6. Range(m) = Range(l) \ {l[1]}
    BY <2>5
  <2> QED  BY <2>1, <2>6, <1>3
<1> QED  BY <1>1, <1>4, <1>5 DEF list_head, list_pop_front

(* The same for list_pop_back and the tail.                                *)
LEMMA PopBack ==
  ASSUME NEW S, NEW l \in Seq(S), l # << >>
  PROVE  /\ list_tail(l) \in S
         /\ list_tail(l) \in Range(l)
         /\ list_pop_back(l) \in Seq(S)
         /\ IsInjective(l) => /\ IsInjective(list_pop_back(l))
                              /\ Range(list_pop_back(l)) = Range(l) \ {list_tail(l)}
<1> DEFINE n == Len(l)
           m == SubSeq(l, 1, n - 1)
<1>1. n \in Nat \ {0} /\ DOMAIN l = 1..n /\ \A i \in 1..n : l[i] \in S
  BY LenProperties, EmptySeq, ElementOfSeq
<1>2. /\ m \in Seq(S) /\ Len(m) = n - 1
      /\ \A i \in 1..(n - 1) : m[i] = l[i]
  <2>1. \A i \in 1..(n - 1) : l[i] \in S
    BY <1>1
  <2> HIDE DEF n
  <2>2. /\ m \in Seq(S)
        /\ Len(m) = IF 1 <= n - 1 THEN (n - 1) - 1 + 1 ELSE 0
        /\ \A i \in 1..((n - 1) - 1 + 1) : m[i] = l[1 + i - 1]
    BY <1>1, <2>1, SubSeqProperties
  <2> QED  BY <1>1, <2>2
<1>3. DOMAIN m = 1..(n - 1)
  BY <1>2, LenProperties
<1>4. l[n] \in S /\ l[n] \in Range(l)
  BY <1>1 DEF Range
<1>5. ASSUME IsInjective(l)
      PROVE  IsInjective(m) /\ Range(m) = Range(l) \ {l[n]}
  <2>1. IsInjective(m)
    BY <1>1, <1>2, <1>3, <1>5 DEF IsInjective
  <2>2. \A i \in 1..(n - 1) : m[i] # l[n]
    BY <1>1, <1>2, <1>5 DEF IsInjective
  <2>3. \A j \in 1..n : l[j] # l[n] => j \in 1..(n - 1) /\ m[j] = l[j]
    BY <1>1, <1>2
  <2>4. Range(m) = Range(l) \ {l[n]}
    <3>1. \A y : y \in Range(m) <=> \E j \in 1..(n - 1) : m[j] = y
      BY <1>3, InRange
    <3>2. \A y : y \in Range(l) <=> \E j \in 1..n : l[j] = y
      BY <1>1, InRange
    <3>3. \A j \in 1..(n - 1) : j \in 1..n
      BY <1>1
    <3> HIDE DEF m, n
    <3> QED  BY <1>2, <2>2, <2>3, <3>1, <3>2, <3>3
  <2> QED  BY <2>1, <2>4
<1> QED  BY <1>2, <1>4, <1>5 DEF list_tail, list_pop_back, Last, Front

(* Linking a new element in at any position adds exactly that element.     *)
LEMMA LinkBefore ==
  ASSUME NEW S, NEW l \in Seq(S), NEW x \in S, NEW i \in 1..(Len(l) + 1)
  PROVE  /\ list_link_before(l, i, x) \in Seq(S)
         /\ Range(list_link_before(l, i, x)) = Range(l) \cup {x}
         /\ IsInjective(l) /\ x \notin Range(l) => IsInjective(list_link_before(l, i, x))
<1> DEFINE n == Len(l)
           f == SubSeq(l, 1, i - 1)
           g == SubSeq(l, i, n)
           m == f \o <<x>> \o g
<1>1. n \in Nat /\ DOMAIN l = 1..n /\ i \in Int /\ \A j \in 1..n : l[j] \in S
  BY LenProperties, ElementOfSeq
<1>2. /\ f \in Seq(S) /\ Len(f) = i - 1 /\ \A j \in 1..(i - 1) : f[j] = l[j]
  <2>1. \A j \in 1..(i - 1) : l[j] \in S
    BY <1>1
  <2>2. /\ f \in Seq(S)
        /\ Len(f) = IF 1 <= i - 1 THEN (i - 1) - 1 + 1 ELSE 0
        /\ \A j \in 1..((i - 1) - 1 + 1) : f[j] = l[1 + j - 1]
    BY <1>1, <2>1, SubSeqProperties
  <2> QED  BY <1>1, <2>2
<1>3. /\ g \in Seq(S) /\ Len(g) = n - i + 1 /\ \A j \in 1..(n - i + 1) : g[j] = l[i + j - 1]
  <2>1. \A j \in i..n : l[j] \in S
    BY <1>1
  <2> HIDE DEF n
  <2>2. /\ g \in Seq(S)
        /\ Len(g) = IF i <= n THEN n - i + 1 ELSE 0
        /\ \A j \in 1..(n - i + 1) : g[j] = l[i + j - 1]
    BY <1>1, <2>1, SubSeqProperties
  <2> QED  BY <1>1, <2>2 DEF n
<1>4. /\ m \in Seq(S) /\ Len(m) = n + 1
      /\ \A j \in 1..(n + 1) :
           m[j] = IF j < i THEN l[j] ELSE IF j = i THEN x ELSE l[j - 1]
  <2> HIDE DEF n, f, g
  <2>1. /\ f \o <<x>> \in Seq(S) /\ Len(f \o <<x>>) = i
        /\ \A j \in 1..i : (f \o <<x>>)[j] = IF j < i THEN f[j] ELSE x
    BY <1>1, <1>2
  <2> DEFINE h == f \o <<x>>
  <2> HIDE DEF h
  <2>2. /\ h \o g \in Seq(S) /\ Len(h \o g) = n + 1
        /\ \A j \in 1..(n + 1) : (h \o g)[j] = IF j <= i THEN h[j] ELSE g[j - i]
    <3>1. h \in Seq(S) /\ Len(h) = i /\ g \in Seq(S) /\ Len(g) = n - i + 1
      BY <1>3, <2>1 DEF h
    <3>2. h \o g \in Seq(S) /\ Len(h \o g) = n + 1
      BY <1>1, <3>1
    <3> QED  BY <1>1, <3>1, <3>2
  <2> QED  BY <1>1, <1>2, <1>3, <2>1, <2>2 DEF h
<1> HIDE DEF m
<1>5. DOMAIN m = 1..(n + 1)
  BY <1>4, LenProperties
<1>6. Range(m) = Range(l) \cup {x}
  <2>1. \A j \in 1..(n + 1) : m[j] \in Range(l) \cup {x}
    <3>1. \A y : y \in Range(l) <=> \E j \in 1..n : l[j] = y
      BY <1>1, InRange
    <3> QED  BY <1>1, <1>4, <3>1
  <2>2. \A j \in 1..n : l[j] = IF j < i THEN m[j] ELSE m[j + 1]
    BY <1>1, <1>4
  <2>3. \A j \in 1..n : l[j] \in Range(m)
    BY <1>1, <1>5, <2>2 DEF Range
  <2>4. x \in Range(m)
    BY <1>1, <1>4, <1>5 DEF Range
  <2> QED  BY <1>1, <1>5, <2>1, <2>3, <2>4 DEF Range
<1>7. IsInjective(l) /\ x \notin Range(l) => IsInjective(m)
  <2> SUFFICES ASSUME IsInjective(l), x \notin Range(l), NEW a \in 1..(n + 1),
                      NEW b \in 1..(n + 1), m[a] = m[b]
               PROVE  a = b
    BY <1>5 DEF IsInjective
  <2>1. \A j \in 1..n : l[j] # x
    BY <1>1 DEF Range
  <2>2. \A j, k \in 1..n : l[j] = l[k] => j = k
    BY <1>1 DEF IsInjective
  <2> DEFINE k(j) == IF j < i THEN j ELSE j - 1
  <2>3. \A j \in 1..(n + 1) : j # i => k(j) \in 1..n /\ m[j] = l[k(j)]
    BY <1>1, <1>4
  <2>4. m[i] = x
    BY <1>1, <1>4
  <2>5. CASE a = i \/ b = i
    BY <2>1, <2>3, <2>4, <2>5
  <2>6. CASE a # i /\ b # i
    <3>1. k(a) = k(b)
      BY <2>2, <2>3, <2>6
    <3> QED  BY <1>1, <2>6, <3>1
  <2> QED  BY <2>5, <2>6
<1> QED  BY <1>4, <1>6, <1>7 DEF m, list_link_before, InsertAt

(* list_delete_element of a list without duplicates removes the element    *)
(* and nothing else.                                                       *)
LEMMA DeleteElement ==
  ASSUME NEW S, NEW l \in Seq(S), NEW x, IsInjective(l)
  PROVE  /\ list_delete_element(l, x) \in Seq(S)
         /\ Range(list_delete_element(l, x)) = Range(l) \ {x}
         /\ IsInjective(list_delete_element(l, x))
<1> DEFINE n == Len(l)
<1>1. n \in Nat /\ DOMAIN l = 1..n /\ \A j \in 1..n : l[j] \in S
  BY LenProperties, ElementOfSeq
<1>2. CASE ~ \E j \in 1..n : l[j] = x
  <2>1. list_delete_element(l, x) = l
    BY <1>2 DEF list_delete_element, RemoveFirst
  <2> QED  BY <1>1, <1>2, <2>1 DEF Range
<1>3. CASE \E j \in 1..n : l[j] = x
  <2> DEFINE I == {j \in 1..n : l[j] = x}
  <2>1. PICK i \in 1..n : l[i] = x
    BY <1>3
  <2>2. I = {i}
    BY <1>1, <2>1 DEF IsInjective
  <2>3. SelectInSeq(l, LAMBDA v : v = x) = i
    <3>1. SelectInSeq(l, LAMBDA v : v = x) = IF I # {} THEN Min(I) ELSE 0
      BY DEF SelectInSeq
    <3>2. Min({i}) = i
      BY DEF Min
    <3> QED  BY <2>2, <3>1, <3>2
  <2> DEFINE f == SubSeq(l, 1, i - 1)
             g == SubSeq(l, i + 1, n)
             m == f \o g
  <2>4. list_delete_element(l, x) = m
    BY <1>3, <2>3 DEF list_delete_element, RemoveFirst, RemoveAt
  <2>5. /\ f \in Seq(S) /\ Len(f) = i - 1 /\ \A j \in 1..(i - 1) : f[j] = l[j]
    <3>1. \A j \in 1..(i - 1) : l[j] \in S
      BY <1>1
    <3>2. /\ f \in Seq(S)
          /\ Len(f) = IF 1 <= i - 1 THEN (i - 1) - 1 + 1 ELSE 0
          /\ \A j \in 1..((i - 1) - 1 + 1) : f[j] = l[1 + j - 1]
      BY <1>1, <3>1, SubSeqProperties
    <3> QED  BY <1>1, <3>2
  <2>6. /\ g \in Seq(S) /\ Len(g) = n - i /\ \A j \in 1..(n - i) : g[j] = l[i + j]
    <3>1. \A j \in (i + 1)..n : l[j] \in S
      BY <1>1
    <3> HIDE DEF n
    <3>2. /\ g \in Seq(S)
          /\ Len(g) = IF i + 1 <= n THEN n - (i + 1) + 1 ELSE 0
          /\ \A j \in 1..(n - (i + 1) + 1) : g[j] = l[(i + 1) + j - 1]
      BY <1>1, <3>1, SubSeqProperties
    <3> QED  BY <1>1, <3>2
  <2>7. /\ m \in Seq(S) /\ Len(m) = n - 1
        /\ \A j \in 1..(n - 1) : m[j] = IF j < i THEN l[j] ELSE l[j + 1]
    <3> HIDE DEF n, f, g
    <3>1. /\ m \in Seq(S) /\ Len(m) = n - 1
          /\ \A j \in 1..(n - 1) : m[j] = IF j <= i - 1 THEN f[j] ELSE g[j - (i - 1)]
      BY <1>1, <2>5, <2>6
    <3> QED  BY <1>1, <2>5, <2>6, <3>1
  <2> HIDE DEF m
  <2>8. DOMAIN m = 1..(n - 1)
    BY <2>7, LenProperties
  <2>9. \A j \in 1..n : l[j] = x <=> j = i
    BY <2>1, <2>2
  <2>10. Range(m) = Range(l) \ {x}
    <3>1. \A j \in 1..(n - 1) : m[j] \in Range(l) /\ m[j] # x
      BY <1>1, <2>7, <2>9 DEF Range
    <3>2. \A j \in 1..n : j # i => l[j] = IF j < i THEN m[j] ELSE m[j - 1]
      BY <1>1, <2>7
    <3>3. \A j \in 1..n : j # i => l[j] \in Range(m)
      BY <1>1, <2>8, <3>2 DEF Range
    <3> QED  BY <1>1, <2>8, <2>9, <3>1, <3>3 DEF Range
  <2>11. IsInjective(m)
    <3> SUFFICES ASSUME NEW a \in 1..(n - 1), NEW b \in 1..(n - 1), m[a] = m[b]
                 PROVE  a = b
      BY <2>8 DEF IsInjective
    <3>1. \A j, k \in 1..n : l[j] = l[k] => j = k
      BY <1>1 DEF IsInjective
    <3> QED  BY <1>1, <2>7, <3>1
  <2> QED  BY <2>4, <2>7, <2>10, <2>11
<1> QED  BY <1>2, <1>3

(* The empty list has no elements and no duplicates.                       *)
LEMMA EmptyList == Range(<< >>) = {} /\ IsInjective(<< >>)
BY DEF Range, IsInjective
============================================================================
