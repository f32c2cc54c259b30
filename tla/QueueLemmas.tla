---------------------------- MODULE QueueLemmas ----------------------------
(***************************************************************************)
(* Facts about sequences used as queues of distinct elements: what joining,*)
(* leaving at the front and leaving in the middle do to the elements, and  *)
(* to their order.                                                         *)
(***************************************************************************)
EXTENDS Naturals, SequencesExt, SequenceTheorems, TLAPS

\* A member has a position.
LEMMA Member ==
  ASSUME NEW S, NEW s \in Seq(S), NEW e
  PROVE  e \in ToSet(s) <=> \E i \in 1..Len(s) : s[i] = e
BY DEF ToSet

\* Append adds its element and keeps the elements distinct.
LEMMA AppendSet ==
  ASSUME NEW S, NEW s \in Seq(S), NEW e \in S
  PROVE  /\ Append(s, e) \in Seq(S)
         /\ ToSet(Append(s, e)) = ToSet(s) \union {e}
         /\ IsInjective(s) /\ e \notin ToSet(s) => IsInjective(Append(s, e))
<1>1. /\ Append(s, e) \in Seq(S)
      /\ Len(Append(s, e)) = Len(s) + 1
      /\ \A i \in 1..Len(s) : Append(s, e)[i] = s[i]
      /\ Append(s, e)[Len(s) + 1] = e
  OBVIOUS
<1>2. Len(s) \in Nat /\ DOMAIN s = 1..Len(s)
      /\ DOMAIN Append(s, e) = 1..(Len(s) + 1)
  BY <1>1
<1>3. ToSet(Append(s, e)) = ToSet(s) \union {e}
  <2>1. ASSUME NEW x \in ToSet(Append(s, e)) PROVE x \in ToSet(s) \union {e}
    <3>1. PICK i \in 1..(Len(s) + 1) : Append(s, e)[i] = x
      BY <1>2 DEF ToSet
    <3>2. CASE i = Len(s) + 1 BY <3>1, <3>2, <1>1
    <3>3. CASE i \in 1..Len(s) BY <3>1, <3>3, <1>1, <1>2 DEF ToSet
    <3> QED BY <3>2, <3>3, <1>2
  <2>2. ASSUME NEW x \in ToSet(s) PROVE x \in ToSet(Append(s, e))
    <3>1. PICK i \in 1..Len(s) : s[i] = x
      BY <1>2 DEF ToSet
    <3>2. i \in 1..(Len(s) + 1) /\ Append(s, e)[i] = x
      BY <3>1, <1>1, <1>2
    <3> QED BY <3>2, <1>2 DEF ToSet
  <2>3. e \in ToSet(Append(s, e))
    <3>1. Len(s) + 1 \in 1..(Len(s) + 1) BY <1>2
    <3> QED BY <3>1, <1>1, <1>2 DEF ToSet
  <2> QED BY <2>1, <2>2, <2>3
<1>4. ASSUME IsInjective(s), e \notin ToSet(s) PROVE IsInjective(Append(s, e))
  <2>1. \A i \in 1..Len(s) : s[i] # e
    BY <1>4, <1>2 DEF ToSet
  <2> QED BY <2>1, <1>1, <1>2, <1>4 DEF IsInjective
<1> QED BY <1>1, <1>3, <1>4

\* Tail takes out the head, and only it.
LEMMA TailSet ==
  ASSUME NEW S, NEW s \in Seq(S), s # <<>>
  PROVE  /\ Tail(s) \in Seq(S)
         /\ Head(s) \in S /\ Head(s) \in ToSet(s)
         /\ IsInjective(s) => /\ ToSet(Tail(s)) = ToSet(s) \ {Head(s)}
                              /\ IsInjective(Tail(s))
<1>1. /\ Tail(s) \in Seq(S)
      /\ Len(Tail(s)) = Len(s) - 1
      /\ \A i \in 1..Len(s)-1 : Tail(s)[i] = s[i+1]
      /\ Head(s) = s[1]
      /\ Len(s) \in Nat \ {0}
  OBVIOUS
<1>2. DOMAIN s = 1..Len(s) /\ DOMAIN Tail(s) = 1..(Len(s) - 1)
  BY <1>1
<1>3. 1 \in 1..Len(s) BY <1>1
<1>4. Head(s) \in S /\ Head(s) \in ToSet(s)
  BY <1>1, <1>2, <1>3 DEF ToSet
<1>5. ASSUME IsInjective(s)
      PROVE  ToSet(Tail(s)) = ToSet(s) \ {Head(s)} /\ IsInjective(Tail(s))
  <2>1. ASSUME NEW x \in ToSet(Tail(s)) PROVE x \in ToSet(s) \ {Head(s)}
    <3>1. PICK i \in 1..(Len(s) - 1) : Tail(s)[i] = x
      BY <1>2 DEF ToSet
    <3>2. i + 1 \in 1..Len(s) /\ s[i+1] = x /\ i + 1 # 1
      BY <3>1, <1>1
    <3>3. x # s[1] BY <3>2, <1>2, <1>3, <1>5 DEF IsInjective
    <3> QED BY <3>2, <3>3, <1>1, <1>2 DEF ToSet
  <2>2. ASSUME NEW x \in ToSet(s) \ {Head(s)} PROVE x \in ToSet(Tail(s))
    <3>1. PICK i \in 1..Len(s) : s[i] = x
      BY <1>2 DEF ToSet
    <3>2. i # 1 BY <3>1, <2>2, <1>1
    <3>3. i - 1 \in 1..(Len(s) - 1) /\ Tail(s)[i-1] = x
      BY <3>1, <3>2, <1>1
    <3> QED BY <3>3, <1>2 DEF ToSet
  <2>3. IsInjective(Tail(s))
    BY <1>1, <1>2, <1>5 DEF IsInjective
  <2> QED BY <2>1, <2>2, <2>3
<1> QED BY <1>1, <1>4, <1>5

\* What RemoveAt leaves, position by position.
LEMMA RemoveAtElements ==
  ASSUME NEW S, NEW s \in Seq(S), NEW i \in 1..Len(s)
  PROVE  /\ RemoveAt(s, i) \in Seq(S)
         /\ Len(RemoveAt(s, i)) = Len(s) - 1
         /\ \A j \in 1..i-1 : RemoveAt(s, i)[j] = s[j]
         /\ \A j \in i..Len(s)-1 : RemoveAt(s, i)[j] = s[j+1]
<1> DEFINE a == SubSeq(s, 1, i-1)
           b == SubSeq(s, i+1, Len(s))
<1>1. Len(s) \in Nat /\ i \in Nat /\ 1 <= i /\ i <= Len(s)
  OBVIOUS
<1>2. /\ a \in Seq(S) /\ Len(a) = i - 1
      /\ \A j \in 1..i-1 : a[j] = s[j]
  BY <1>1
<1>3. /\ b \in Seq(S) /\ Len(b) = Len(s) - i
      /\ \A j \in 1..Len(s)-i : b[j] = s[i+j]
  BY <1>1
<1> HIDE DEF a, b
<1>4. /\ a \o b \in Seq(S) /\ Len(a \o b) = Len(s) - 1
      /\ \A j \in 1..i-1 : (a \o b)[j] = a[j]
      /\ \A j \in i..Len(s)-1 : (a \o b)[j] = b[j-i+1]
  <2>1. /\ a \o b \in Seq(S) /\ Len(a \o b) = Len(a) + Len(b)
        /\ \A j \in 1..Len(a) + Len(b) :
             (a \o b)[j] = IF j <= Len(a) THEN a[j] ELSE b[j - Len(a)]
    BY <1>2, <1>3, ConcatProperties
  <2>2. \A j \in i..Len(s)-1 : j - (i - 1) = j - i + 1
    BY <1>1
  <2> QED BY <2>1, <2>2, <1>1, <1>2, <1>3
<1>5. \A j \in i..Len(s)-1 : b[j-i+1] = s[j+1]
  BY <1>1, <1>3
<1> QED BY <1>2, <1>4, <1>5 DEF RemoveAt, a, b

\* What InsertAt makes, position by position.
LEMMA InsertAtElements ==
  ASSUME NEW S, NEW s \in Seq(S), NEW i \in 1..Len(s)+1, NEW e \in S
  PROVE  /\ InsertAt(s, i, e) \in Seq(S)
         /\ Len(InsertAt(s, i, e)) = Len(s) + 1
         /\ \A j \in 1..i-1 : InsertAt(s, i, e)[j] = s[j]
         /\ InsertAt(s, i, e)[i] = e
         /\ \A j \in i+1..Len(s)+1 : InsertAt(s, i, e)[j] = s[j-1]
<1> DEFINE a == SubSeq(s, 1, i-1)
           b == SubSeq(s, i, Len(s))
<1>1. Len(s) \in Nat /\ i \in Nat /\ 1 <= i /\ i <= Len(s) + 1
  OBVIOUS
<1>2. /\ a \in Seq(S) /\ Len(a) = i - 1
      /\ \A j \in 1..i-1 : a[j] = s[j]
  BY <1>1
<1>3. /\ b \in Seq(S) /\ Len(b) = Len(s) - i + 1
      /\ \A j \in 1..Len(s)-i+1 : b[j] = s[i+j-1]
  BY <1>1
<1> HIDE DEF a, b
<1> DEFINE c == a \o <<e>>
<1>4. /\ c \in Seq(S) /\ Len(c) = i
      /\ \A j \in 1..i-1 : c[j] = a[j]
      /\ c[i] = e
  BY <1>1, <1>2
<1> HIDE DEF c
<1>5. /\ c \o b \in Seq(S) /\ Len(c \o b) = Len(s) + 1
      /\ \A j \in 1..i : (c \o b)[j] = c[j]
      /\ \A j \in i+1..Len(s)+1 : (c \o b)[j] = b[j-i]
  BY <1>1, <1>3, <1>4
<1>6. \A j \in i+1..Len(s)+1 : b[j-i] = s[j-1]
  BY <1>1, <1>3
<1>7. c \o b = InsertAt(s, i, e)
  BY DEF InsertAt, a, b, c
<1>8. /\ \A j \in 1..i-1 : (c \o b)[j] = s[j]
      /\ (c \o b)[i] = e
      /\ \A j \in i+1..Len(s)+1 : (c \o b)[j] = s[j-1]
  BY <1>1, <1>2, <1>4, <1>5, <1>6
<1> QED BY <1>5, <1>7, <1>8

\* Taking out the element at position i takes out that element only.
LEMMA RemoveAtSet ==
  ASSUME NEW S, NEW s \in Seq(S), IsInjective(s), NEW i \in 1..Len(s)
  PROVE  /\ ToSet(RemoveAt(s, i)) = ToSet(s) \ {s[i]}
         /\ IsInjective(RemoveAt(s, i))
<1> DEFINE r == RemoveAt(s, i)
<1>1. /\ r \in Seq(S) /\ Len(r) = Len(s) - 1
      /\ \A j \in 1..i-1 : r[j] = s[j]
      /\ \A j \in i..Len(s)-1 : r[j] = s[j+1]
  BY RemoveAtElements
<1> HIDE DEF r
<1>2. /\ Len(s) \in Nat /\ i \in Nat /\ 1 <= i /\ i <= Len(s)
      /\ DOMAIN s = 1..Len(s) /\ DOMAIN r = 1..(Len(s) - 1)
  BY <1>1
<1>3. ASSUME NEW x \in ToSet(r) PROVE x \in ToSet(s) \ {s[i]}
  <2>1. PICK j \in 1..(Len(s) - 1) : r[j] = x
    BY <1>2 DEF ToSet
  <2>2. CASE j < i
    <3>1. j \in 1..Len(s) /\ j # i /\ s[j] = x BY <2>1, <2>2, <1>1, <1>2
    <3> QED BY <3>1, <1>2 DEF ToSet, IsInjective
  <2>3. CASE j >= i
    <3>1. j+1 \in 1..Len(s) /\ j+1 # i /\ s[j+1] = x BY <2>1, <2>3, <1>1, <1>2
    <3> QED BY <3>1, <1>2 DEF ToSet, IsInjective
  <2> QED BY <2>2, <2>3, <1>2
<1>4. ASSUME NEW x \in ToSet(s) \ {s[i]} PROVE x \in ToSet(r)
  <2>1. PICK j \in 1..Len(s) : s[j] = x /\ j # i
    BY <1>2 DEF ToSet
  <2>2. CASE j < i
    <3>1. j \in 1..(Len(s) - 1) /\ r[j] = x BY <2>1, <2>2, <1>1, <1>2
    <3> QED BY <3>1, <1>2 DEF ToSet
  <2>3. CASE j > i
    <3>1. j-1 \in 1..(Len(s) - 1) /\ r[j-1] = x BY <2>1, <2>3, <1>1, <1>2
    <3> QED BY <3>1, <1>2 DEF ToSet
  <2> QED BY <2>1, <2>2, <2>3, <1>2
<1>5. IsInjective(r)
  <2>1. SUFFICES ASSUME NEW j \in 1..(Len(s) - 1), NEW k \in 1..(Len(s) - 1),
                        r[j] = r[k]
                 PROVE  j = k
    BY <1>2 DEF IsInjective
  <2> DEFINE P(n) == IF n < i THEN n ELSE n + 1
  <2>2. \A n \in 1..(Len(s) - 1) : P(n) \in 1..Len(s) /\ r[n] = s[P(n)]
    <3> TAKE n \in 1..(Len(s) - 1)
    <3>1. CASE n < i BY <3>1, <1>1, <1>2
    <3>2. CASE n >= i BY <3>2, <1>1, <1>2
    <3> QED BY <3>1, <3>2, <1>2
  <2>3. P(j) = P(k) BY <2>1, <2>2, <1>2 DEF IsInjective
  <2> QED BY <2>3, <1>2
<1> QED BY <1>3, <1>4, <1>5 DEF r

\* Taking out a member of a queue, wherever it stands.
LEMMA ExtractSet ==
  ASSUME NEW S, NEW s \in Seq(S), IsInjective(s), NEW e \in ToSet(s)
  PROVE  LET i == CHOOSE i \in DOMAIN s : s[i] = e IN
         /\ RemoveAt(s, i) \in Seq(S)
         /\ ToSet(RemoveAt(s, i)) = ToSet(s) \ {e}
         /\ IsInjective(RemoveAt(s, i))
<1> DEFINE i == CHOOSE i \in DOMAIN s : s[i] = e
<1>1. \E j \in DOMAIN s : s[j] = e
  BY DEF ToSet
<1>2. i \in 1..Len(s) /\ s[i] = e
  BY <1>1
<1> HIDE DEF i
<1>3. /\ RemoveAt(s, i) \in Seq(S)
      /\ ToSet(RemoveAt(s, i)) = ToSet(s) \ {e}
      /\ IsInjective(RemoveAt(s, i))
  BY <1>2, RemoveAtElements, RemoveAtSet
<1> QED BY <1>3 DEF i

\* Joining a queue at any place adds that element only.
LEMMA InsertAtSet ==
  ASSUME NEW S, NEW s \in Seq(S), NEW i \in 1..Len(s)+1, NEW e \in S
  PROVE  /\ ToSet(InsertAt(s, i, e)) = ToSet(s) \union {e}
         /\ IsInjective(s) /\ e \notin ToSet(s) => IsInjective(InsertAt(s, i, e))
<1> DEFINE r == InsertAt(s, i, e)
<1>1. /\ r \in Seq(S) /\ Len(r) = Len(s) + 1
      /\ \A j \in 1..i-1 : r[j] = s[j]
      /\ r[i] = e
      /\ \A j \in i+1..Len(s)+1 : r[j] = s[j-1]
  BY InsertAtElements
<1> HIDE DEF r
<1>2. /\ Len(s) \in Nat /\ i \in Nat /\ 1 <= i /\ i <= Len(s) + 1
      /\ DOMAIN s = 1..Len(s) /\ DOMAIN r = 1..(Len(s) + 1)
  BY <1>1
<1>3. ASSUME NEW x \in ToSet(r) PROVE x \in ToSet(s) \union {e}
  <2>1. PICK j \in 1..(Len(s) + 1) : r[j] = x
    BY <1>2 DEF ToSet
  <2>2. CASE j < i
    <3>1. j \in 1..Len(s) /\ s[j] = x BY <2>1, <2>2, <1>1, <1>2
    <3> QED BY <3>1, <1>2 DEF ToSet
  <2>3. CASE j = i BY <2>1, <2>3, <1>1
  <2>4. CASE j > i
    <3>1. j-1 \in 1..Len(s) /\ s[j-1] = x BY <2>1, <2>4, <1>1, <1>2
    <3> QED BY <3>1, <1>2 DEF ToSet
  <2> QED BY <2>2, <2>3, <2>4, <1>2
<1>4. ASSUME NEW x \in ToSet(s) PROVE x \in ToSet(r)
  <2>1. PICK j \in 1..Len(s) : s[j] = x
    BY <1>2 DEF ToSet
  <2>2. CASE j < i
    <3>1. j \in 1..(Len(s) + 1) /\ r[j] = x BY <2>1, <2>2, <1>1, <1>2
    <3> QED BY <3>1, <1>2 DEF ToSet
  <2>3. CASE j >= i
    <3>1. j+1 \in 1..(Len(s) + 1) /\ r[j+1] = x BY <2>1, <2>3, <1>1, <1>2
    <3> QED BY <3>1, <1>2 DEF ToSet
  <2> QED BY <2>2, <2>3, <1>2
<1>5. e \in ToSet(r)
  BY <1>1, <1>2 DEF ToSet
<1>6. ASSUME IsInjective(s), e \notin ToSet(s) PROVE IsInjective(r)
  <2>1. SUFFICES ASSUME NEW j \in 1..(Len(s) + 1), NEW k \in 1..(Len(s) + 1),
                        r[j] = r[k]
                 PROVE  j = k
    BY <1>2 DEF IsInjective
  <2>2. \A n \in 1..Len(s) : s[n] # e
    BY <1>6, <1>2 DEF ToSet
  <2>3. CASE j = i \/ k = i
    BY <2>1, <2>2, <2>3, <1>1, <1>2
  <2>4. CASE j # i /\ k # i
    <3> DEFINE P(n) == IF n < i THEN n ELSE n - 1
    <3>1. /\ P(j) \in 1..Len(s) /\ r[j] = s[P(j)]
          /\ P(k) \in 1..Len(s) /\ r[k] = s[P(k)]
      BY <1>1, <1>2, <2>4
    <3>2. P(j) = P(k) BY <2>1, <3>1, <1>2, <1>6 DEF IsInjective
    <3> QED BY <3>2, <1>2, <2>4
  <2> QED BY <2>3, <2>4
<1> QED BY <1>3, <1>4, <1>5, <1>6 DEF r
-----------------------------------------------------------------------------
(* Queues in order of the times their elements wait for.                     *)

\* The length and the elements of a sequence.
LEMMA SeqElements ==
  ASSUME NEW S, NEW s \in Seq(S)
  PROVE  /\ Len(s) \in Nat /\ DOMAIN s = 1..Len(s)
         /\ s = <<>> <=> Len(s) = 0
         /\ \A i \in 1..Len(s) : s[i] \in S
OBVIOUS

\* The elements of s are in order of the times w.
Sorted(s, w) == \A i, j \in 1..Len(s) : i < j => w[s[i]] <= w[s[j]]

\* The first element is the one due first, and the rest stay in order.
LEMMA SortedTail ==
  ASSUME NEW S, NEW s \in Seq(S), s # <<>>, NEW w, Sorted(s, w)
  PROVE  Sorted(Tail(s), w)
<1> DEFINE m == Len(s)
           a == Tail(s)
<1>1. m \in Nat /\ m >= 1
  BY SeqElements
<1>2. Len(a) = m - 1 /\ \A i \in 1..m-1 : a[i] = s[i+1]
  OBVIOUS
<1> HIDE DEF m, a
<1>3. SUFFICES ASSUME NEW i \in 1..m-1, NEW j \in 1..m-1, i < j
               PROVE  w[a[i]] <= w[a[j]]
  BY <1>2 DEF Sorted, a
<1>4. i+1 \in 1..m /\ j+1 \in 1..m /\ i+1 < j+1
  BY <1>1, <1>3
<1> QED BY <1>2, <1>3, <1>4 DEF Sorted, m

\* The times of elements that do not wait here do not matter.
LEMMA SortedKept ==
  ASSUME NEW S, NEW s \in Seq(S), NEW w, NEW v, Sorted(s, w),
         \A e \in ToSet(s) : v[e] = w[e]
  PROVE  Sorted(s, v)
<1>1. \A i \in 1..Len(s) : s[i] \in ToSet(s)
  BY DEF ToSet
<1> QED BY <1>1 DEF Sorted

\* Joining behind the last thread due no later, in front of those due later.
LEMMA SortedInsert ==
  ASSUME NEW S, NEW s \in Seq(S), NEW k \in 1..Len(s)+1, NEW t \in S,
         NEW w \in [S -> Nat], Sorted(s, w),
         k > 1 => w[s[k-1]] <= w[t],
         \A j \in k..Len(s) : w[s[j]] > w[t]
  PROVE  Sorted(InsertAt(s, k, t), w)
<1> DEFINE m == Len(s)
           a == InsertAt(s, k, t)
<1>1. m \in Nat /\ k \in Nat /\ 1 <= k /\ k <= m+1
  BY SeqElements
<1>2. /\ Len(a) = m + 1
      /\ \A j \in 1..k-1 : a[j] = s[j]
      /\ a[k] = t
      /\ \A j \in k+1..m+1 : a[j] = s[j-1]
  BY InsertAtElements
<1>3. \A i \in 1..m : w[s[i]] \in Nat
  BY SeqElements
<1>4. w[t] \in Nat
  OBVIOUS
<1> HIDE DEF m, a
<1>5. \A i, j \in 1..m : i < j => w[s[i]] <= w[s[j]]
  BY DEF Sorted, m
<1>6. \A i \in 1..k-1 : w[s[i]] <= w[t]
  <2>1. SUFFICES ASSUME NEW i \in 1..k-1 PROVE w[s[i]] <= w[t]
    OBVIOUS
  <2>2. i \in 1..m /\ k-1 \in 1..m /\ k > 1 /\ (i < k-1 \/ i = k-1)
    BY <1>1
  <2>3. w[s[i]] <= w[s[k-1]]
    BY <2>2, <1>3, <1>5
  <2> QED BY <2>2, <2>3, <1>3, <1>4
<1>7. SUFFICES ASSUME NEW i \in 1..m+1, NEW j \in 1..m+1, i < j
               PROVE  w[a[i]] <= w[a[j]]
  BY <1>2 DEF Sorted, a
<1>8. CASE j <= k-1
  <2>1. i \in 1..k-1 /\ j \in 1..k-1 /\ i \in 1..m /\ j \in 1..m
    BY <1>1, <1>7, <1>8
  <2> QED BY <2>1, <1>2, <1>5, <1>7
<1>9. CASE j = k
  <2>1. i \in 1..k-1
    BY <1>1, <1>7, <1>9
  <2> QED BY <2>1, <1>2, <1>6, <1>9
<1>10. CASE j > k /\ i <= k
  <2>1. j \in k+1..m+1 /\ j-1 \in k..m /\ j-1 \in 1..m /\ (i \in 1..k-1 \/ i = k)
    BY <1>1, <1>7, <1>10
  <2>2. w[s[j-1]] > w[t] /\ w[a[j]] = w[s[j-1]]
    BY <2>1, <1>2 DEF m
  <2>3. w[a[i]] <= w[t] /\ w[a[i]] \in Nat
    <3>1. CASE i = k
      BY <3>1, <1>2, <1>4
    <3>2. CASE i \in 1..k-1
      <4>1. i \in 1..m
        BY <3>2, <1>1
      <4> QED BY <3>2, <4>1, <1>2, <1>3, <1>6
    <3> QED BY <2>1, <3>1, <3>2
  <2> QED BY <2>1, <2>2, <2>3, <1>3, <1>4
<1>11. CASE i > k
  <2>1. /\ i \in k+1..m+1 /\ j \in k+1..m+1
        /\ i-1 \in 1..m /\ j-1 \in 1..m /\ i-1 < j-1
    BY <1>1, <1>7, <1>11
  <2> QED BY <2>1, <1>2, <1>5
<1> QED BY <1>1, <1>7, <1>8, <1>9, <1>10, <1>11
=============================================================================
