------------------------ MODULE ThreadQueues_proofs ------------------------
(***************************************************************************)
(* Theorems about ThreadQueues, for any threads, queues and wake-up times: *)
(* the links of dos/mthread.c stand for the sequences, the sleep queue is  *)
(* sorted, and the whole implements FifoQueues.                            *)
(***************************************************************************)
EXTENDS ThreadQueues, QueueLemmas

-----------------------------------------------------------------------------
(* Doubly-linked lists.  Each lemma says what the assignments of one         *)
(* operation of the code do to the list it is called on.                     *)

\* The list from h to l, linked by p and n, stands for s.
Chain(s, h, l, p, n) ==
  /\ IF s = <<>> THEN h = 0
     ELSE /\ h = s[1] /\ l = s[Len(s)]
          /\ p[s[1]] = 0 /\ n[s[Len(s)]] = 0
  /\ \A i \in 1..Len(s)-1 : n[s[i]] = s[i+1] /\ p[s[i+1]] = s[i]

Links == [Threads -> ThreadID]

LEMMA ChainIsRepresents ==
  \A q, s : Represents(q, s) <=> Chain(s, QHead[q], QTail[q], prevID, nextID)
BY DEF Represents, Chain

\* Elements of a sequence of threads, and that none of them is 0.
LEMMA Elements ==
  ASSUME NEW s \in Seq(Threads)
  PROVE  /\ Len(s) \in Nat /\ DOMAIN s = 1..Len(s)
         /\ s = <<>> <=> Len(s) = 0
         /\ \A i \in 1..Len(s) : s[i] \in Threads /\ s[i] # 0 /\ s[i] \in ToSet(s)
         /\ \A t : t \in ToSet(s) <=> \E i \in 1..Len(s) : s[i] = t
         /\ \A t \in ToSet(s) : t \in Threads
<1>1. Len(s) \in Nat /\ DOMAIN s = 1..Len(s) /\ (s = <<>> <=> Len(s) = 0)
  OBVIOUS
<1>2. \A i \in 1..Len(s) : s[i] \in Threads
  OBVIOUS
<1> QED BY <1>1, <1>2, LinksAssumption DEF ToSet

\* A list is left alone by assignments to the links of other threads.
LEMMA ChainKept ==
  ASSUME NEW s \in Seq(Threads), NEW h, NEW l, NEW p, NEW n, NEW pp, NEW nn,
         Chain(s, h, l, p, n),
         \A t \in ToSet(s) : pp[t] = p[t] /\ nn[t] = n[t]
  PROVE  Chain(s, h, l, pp, nn)
<1>1. CASE s = <<>>
  BY <1>1, Elements DEF Chain
<1>2. CASE s # <<>>
  <2>1. Len(s) \in Nat /\ Len(s) >= 1
    BY <1>2, Elements
  <2>2. \A i \in 1..Len(s) : pp[s[i]] = p[s[i]] /\ nn[s[i]] = n[s[i]]
    BY Elements
  <2> QED BY <1>2, <2>1, <2>2 DEF Chain
<1> QED BY <1>1, <1>2

\* Where the i-th thread stands can be read off its links.
Place(s, h, l, p, n, i) ==
  /\ h = s[1] /\ l = s[Len(s)]
  /\ p[s[i]] = 0 <=> i = 1
  /\ n[s[i]] = 0 <=> i = Len(s)
  /\ h = s[i] <=> i = 1
  /\ l = s[i] <=> i = Len(s)
  /\ i # 1 => i-1 \in 1..Len(s) /\ p[s[i]] = s[i-1]
  /\ i # Len(s) => i+1 \in 1..Len(s) /\ n[s[i]] = s[i+1]

LEMMA ChainEnds ==
  ASSUME NEW s \in Seq(Threads), IsInjective(s), NEW h, NEW l,
         NEW p \in Links, NEW n \in Links, Chain(s, h, l, p, n),
         NEW i \in 1..Len(s)
  PROVE  Place(s, h, l, p, n, i)
<1> DEFINE m == Len(s)
<1>0. m \in Nat /\ i \in Nat /\ 1 <= i /\ i <= m
  BY Elements
<1>1. /\ m \in Nat /\ i \in Nat /\ 1 <= i /\ i <= m /\ s # <<>>
      /\ DOMAIN s = 1..m
      /\ \A j \in 1..m : s[j] # 0
  BY Elements
<1>2. /\ h = s[1] /\ l = s[Len(s)] /\ p[s[1]] = 0 /\ n[s[Len(s)]] = 0
  BY <1>1 DEF Chain
<1>3. \A j \in 1..Len(s) : s[j] = s[i] => j = i
  BY <1>1 DEF IsInjective
<1>4. h = s[i] <=> i = 1
  <2>1. 1 \in 1..Len(s) BY <1>1
  <2> QED BY <2>1, <1>2, <1>3
<1>5. l = s[i] <=> i = Len(s)
  <2>1. Len(s) \in 1..Len(s) BY <1>1
  <2> QED BY <2>1, <1>2, <1>3
<1>6. ASSUME i # 1
      PROVE  i-1 \in 1..Len(s) /\ p[s[i]] = s[i-1] /\ p[s[i]] # 0
  <2>1. i-1 \in 1..Len(s)-1 /\ i-1 \in 1..Len(s) /\ (i-1)+1 = i
    BY <1>1, <1>6
  <2>2. p[s[(i-1)+1]] = s[i-1]
    BY <2>1 DEF Chain
  <2> QED BY <2>1, <2>2, <1>1
<1>7. ASSUME i # Len(s)
      PROVE  i+1 \in 1..Len(s) /\ n[s[i]] = s[i+1] /\ n[s[i]] # 0
  <2> HIDE DEF m
  <2>1. i \in 1..m-1 /\ i+1 \in 1..m
    BY <1>0, <1>7 DEF m
  <2>2. n[s[i]] = s[i+1]
    BY <2>1 DEF Chain, m
  <2> QED BY <2>1, <2>2, <1>1 DEF m
<1> QED BY <1>2, <1>4, <1>5, <1>6, <1>7 DEF Place

\* A list of one thread: EnqueueFirst.
LEMMA ChainSingle ==
  ASSUME NEW t \in Threads, NEW p \in Links, NEW n \in Links
  PROVE  Chain(<<t>>, t, t, [p EXCEPT ![t] = 0], [n EXCEPT ![t] = 0])
<1>1. /\ Len(<<t>>) = 1 /\ <<t>>[1] = t /\ <<t>> # <<>> /\ 1..1-1 = {}
  OBVIOUS
<1>2. [p EXCEPT ![t] = 0][t] = 0 /\ [n EXCEPT ![t] = 0][t] = 0
  BY DEF Links
<1> QED BY <1>1, <1>2 DEF Chain

\* EnqueueLast: behind the tail.
LEMMA ChainAppend ==
  ASSUME NEW s \in Seq(Threads), IsInjective(s), s # <<>>,
         NEW h, NEW l, NEW p \in Links, NEW n \in Links, Chain(s, h, l, p, n),
         NEW t \in Threads \ ToSet(s)
  PROVE  Chain(Append(s, t), h, t,
               [p EXCEPT ![t] = l], [n EXCEPT ![l] = t, ![t] = 0])
<1> DEFINE m == Len(s)
           a == Append(s, t)
           pp == [p EXCEPT ![t] = l]
           nn == [n EXCEPT ![l] = t, ![t] = 0]
<1>1. /\ m \in Nat /\ m >= 1 /\ m \in 1..m /\ 1 \in 1..m
      /\ \A i \in 1..m : s[i] \in Threads /\ s[i] # t
      /\ \A i, j \in 1..m : s[i] = s[j] => i = j
  BY Elements DEF IsInjective
<1>2. /\ Len(a) = m + 1 /\ a # <<>> /\ a[m + 1] = t
      /\ \A i \in 1..m : a[i] = s[i]
  OBVIOUS
<1>3. /\ h = s[1] /\ l = s[m] /\ p[s[1]] = 0 /\ n[s[m]] = 0
      /\ \A i \in 1..m-1 : n[s[i]] = s[i+1] /\ p[s[i+1]] = s[i]
  BY DEF Chain
<1>4. l \in Threads /\ l # t
  BY <1>1, <1>3
<1>5. /\ pp[t] = l /\ nn[t] = 0 /\ nn[l] = t
      /\ \A u \in Threads : u # t => pp[u] = p[u]
      /\ \A u \in Threads : u # t /\ u # l => nn[u] = n[u]
  BY <1>4 DEF Links
<1> HIDE DEF m, a, pp, nn
<1>6. a[1] = s[1] /\ pp[a[1]] = 0
  BY <1>1, <1>2, <1>3, <1>5
<1>7. ASSUME NEW i \in 1..m PROVE nn[a[i]] = a[i+1] /\ pp[a[i+1]] = a[i]
  <2>1. CASE i = m
    BY <2>1, <1>1, <1>2, <1>3, <1>5
  <2>2. CASE i # m
    <3>1. i \in 1..m-1 /\ i+1 \in 1..m
      BY <2>2, <1>1
    <3>2. s[i] # l
      BY <2>2, <1>1, <1>3
    <3> QED BY <3>1, <3>2, <1>1, <1>2, <1>3, <1>5
  <2> QED BY <2>1, <2>2
<1>8. Len(a) - 1 = m
  BY <1>1, <1>2
<1>9. h = a[1] /\ t = a[Len(a)] /\ nn[a[Len(a)]] = 0
  BY <1>2, <1>3, <1>5, <1>6
<1>10. Chain(a, h, t, pp, nn)
  BY <1>2, <1>6, <1>7, <1>8, <1>9 DEF Chain
<1> QED BY <1>10 DEF a, pp, nn

\* DequeueThread, when it is not the last thread it takes.
LEMMA ChainTail ==
  ASSUME NEW s \in Seq(Threads), IsInjective(s), s # <<>>,
         NEW h, NEW l, NEW p \in Links, NEW n \in Links, Chain(s, h, l, p, n),
         h # l
  PROVE  /\ n[h] \in ToSet(s)
         /\ Chain(Tail(s), n[h], l, [p EXCEPT ![n[h]] = 0], n)
<1> DEFINE m == Len(s)
           a == Tail(s)
           pp == [p EXCEPT ![n[h]] = 0]
<1>1. /\ m \in Nat /\ m >= 1 /\ 1 \in 1..m
      /\ \A i \in 1..m : s[i] \in Threads /\ s[i] \in ToSet(s)
      /\ \A i, j \in 1..m : s[i] = s[j] => i = j
  BY Elements DEF IsInjective
<1>2. /\ a \in Seq(Threads) /\ Len(a) = m - 1
      /\ \A i \in 1..m-1 : a[i] = s[i+1]
  OBVIOUS
<1> HIDE DEF m, a, pp
<1>3. m > 1 /\ h = s[1] /\ l = s[m] /\ n[h] = s[2] /\ 2 \in 1..m
  <2>1. h = s[1] /\ l = s[m]
    BY <1>1 DEF Chain, m
  <2>2. m # 1
    BY <2>1
  <2>3. n[s[1]] = s[1+1]
    BY <1>1, <2>2 DEF Chain, m
  <2> QED BY <2>1, <2>2, <2>3, <1>1
<1>4. /\ n[s[m]] = 0
      /\ \A i \in 1..m-1 : n[s[i]] = s[i+1] /\ p[s[i+1]] = s[i]
  BY DEF Chain, m
<1>5. pp[s[2]] = 0 /\ \A u \in Threads : u # s[2] => pp[u] = p[u]
  BY <1>1, <1>3 DEF Links, pp
<1>6. a[1] = s[2] /\ a[m-1] = s[m] /\ a # <<>>
  <2>1. 1 \in 1..m-1 /\ m-1 \in 1..m-1 /\ (m-1)+1 = m
    BY <1>1, <1>3
  <2> QED BY <2>1, <1>2
<1>7. ASSUME NEW i \in 1..Len(a)-1 PROVE n[a[i]] = a[i+1] /\ pp[a[i+1]] = a[i]
  <2>1. i \in 1..m-1 /\ i+1 \in 1..m-1 /\ i+2 \in 1..m /\ i+2 # 2 /\ (i+1)+1 = i+2
    BY <1>1, <1>2
  <2>2. a[i] = s[i+1] /\ a[i+1] = s[i+2] /\ s[i+2] # s[2] /\ s[i+2] \in Threads
    BY <2>1, <1>1, <1>2, <1>3
  <2>3. n[s[i+1]] = s[i+2] /\ p[s[i+2]] = s[i+1]
    BY <2>1, <1>4
  <2> QED BY <2>2, <2>3, <1>5
<1>8. Chain(a, n[h], l, pp, n)
  BY <1>2, <1>3, <1>4, <1>5, <1>6, <1>7 DEF Chain
<1> QED BY <1>1, <1>3, <1>8 DEF a, pp

\* ExtractThread: its four cases, by the links of the thread that leaves.
LEMMA ChainRemove ==
  ASSUME NEW s \in Seq(Threads), IsInjective(s), NEW i \in 1..Len(s),
         NEW h, NEW l, NEW p \in Links, NEW n \in Links, Chain(s, h, l, p, n)
  PROVE  LET t == s[i] IN
         /\ p[t] # 0 => p[t] \in ToSet(s)
         /\ n[t] # 0 => n[t] \in ToSet(s)
         /\ Chain(RemoveAt(s, i),
                  IF p[t] = 0 THEN n[t] ELSE h,
                  IF n[t] = 0 THEN p[t] ELSE l,
                  IF n[t] = 0 THEN p ELSE [p EXCEPT ![n[t]] = p[t]],
                  IF p[t] = 0 THEN n ELSE [n EXCEPT ![p[t]] = n[t]])
<1> DEFINE m == Len(s)
           t == s[i]
           r == RemoveAt(s, i)
           hh == IF p[t] = 0 THEN n[t] ELSE h
           ll == IF n[t] = 0 THEN p[t] ELSE l
           pp == IF n[t] = 0 THEN p ELSE [p EXCEPT ![n[t]] = p[t]]
           nn == IF p[t] = 0 THEN n ELSE [n EXCEPT ![p[t]] = n[t]]
<1>1. /\ m \in Nat /\ i \in Nat /\ 1 <= i /\ i <= m /\ 1 \in 1..m /\ m \in 1..m
      /\ \A j \in 1..m : s[j] \in Threads /\ s[j] \in ToSet(s) /\ s[j] # 0
      /\ \A j, k \in 1..m : s[j] = s[k] => j = k
  BY Elements DEF IsInjective
<1>2. /\ r \in Seq(Threads) /\ Len(r) = m - 1
      /\ \A j \in 1..i-1 : r[j] = s[j]
      /\ \A j \in i..m-1 : r[j] = s[j+1]
  BY RemoveAtElements
<1>3. /\ h = s[1] /\ l = s[m]
      /\ p[t] = 0 <=> i = 1
      /\ n[t] = 0 <=> i = m
      /\ i # 1 => i-1 \in 1..m /\ p[t] = s[i-1]
      /\ i # m => i+1 \in 1..m /\ n[t] = s[i+1]
  <2>1. Place(s, h, l, p, n, i)
    BY ChainEnds
  <2> QED BY <2>1 DEF Place
<1>4. /\ p[s[1]] = 0 /\ n[s[m]] = 0
      /\ \A j \in 1..m-1 : n[s[j]] = s[j+1] /\ p[s[j+1]] = s[j]
  BY <1>1, Elements DEF Chain
<1>5. /\ i # m => pp[s[i+1]] = p[t]
      /\ \A j \in 1..m : j # i+1 => pp[s[j]] = p[s[j]]
  BY <1>1, <1>3 DEF Links
<1>6. /\ i # 1 => nn[s[i-1]] = n[t]
      /\ \A j \in 1..m : j # i-1 => nn[s[j]] = n[s[j]]
  BY <1>1, <1>3 DEF Links
<1> HIDE DEF m, t, r, pp, nn
<1>7. ASSUME NEW j \in 1..Len(r)-1 PROVE nn[r[j]] = r[j+1] /\ pp[r[j+1]] = r[j]
  <2>1. CASE j < i-1
    <3>1. /\ j \in 1..i-1 /\ j+1 \in 1..i-1 /\ j \in 1..m /\ j+1 \in 1..m
          /\ j \in 1..m-1 /\ j # i-1 /\ j+1 # i+1
      BY <2>1, <1>1, <1>2
    <3>2. r[j] = s[j] /\ r[j+1] = s[j+1]
      BY <3>1, <1>2
    <3>3. nn[s[j]] = n[s[j]] /\ pp[s[j+1]] = p[s[j+1]]
      BY <3>1, <1>5, <1>6
    <3>4. n[s[j]] = s[j+1] /\ p[s[j+1]] = s[j]
      BY <3>1, <1>4
    <3> QED BY <3>2, <3>3, <3>4
  <2>2. CASE j = i-1
    <3>1. j \in 1..i-1 /\ j+1 = i /\ i \in i..m-1 /\ i # 1 /\ i # m
      BY <2>2, <1>1, <1>2
    <3>2. r[j] = s[i-1] /\ r[j+1] = s[i+1]
      BY <3>1, <2>2, <1>2
    <3> QED BY <3>1, <3>2, <1>3, <1>5, <1>6
  <2>3. CASE j >= i
    <3>1. /\ j \in i..m-1 /\ j+1 \in i..m-1 /\ j+1 \in 1..m-1 /\ j+1 \in 1..m
          /\ (j+1)+1 \in 1..m /\ j+1 # i-1 /\ (j+1)+1 # i+1
      BY <2>3, <1>1, <1>2
    <3>2. r[j] = s[j+1] /\ r[j+1] = s[(j+1)+1]
      BY <3>1, <1>2
    <3>3. n[s[j+1]] = s[(j+1)+1] /\ p[s[(j+1)+1]] = s[j+1]
      BY <3>1, <1>4
    <3> QED BY <3>1, <3>2, <3>3, <1>5, <1>6
  <2> QED BY <2>1, <2>2, <2>3, <1>1, <1>2
<1>8. CASE m = 1
  <2>1. i = 1 /\ r = <<>> /\ hh = 0
    BY <1>8, <1>1, <1>2, <1>3
  <2> QED BY <2>1, <1>2, <1>3, <1>7, <1>8 DEF Chain, m, t, r, pp, nn
<1>9. CASE m > 1
  <2>1. r # <<>> /\ 1 \in 1..Len(r)
    BY <1>9, <1>1, <1>2
  <2>2. hh = r[1] /\ pp[r[1]] = 0
    <3>1. CASE i = 1
      <4>1. r[1] = s[2] /\ 2 = i+1 /\ i # m
        BY <3>1, <1>9, <1>1, <1>2
      <4> QED BY <3>1, <4>1, <1>3, <1>5
    <3>2. CASE i # 1
      <4>1. r[1] = s[1] /\ 1 # i+1
        BY <3>2, <1>1, <1>2
      <4> QED BY <3>2, <4>1, <1>1, <1>3, <1>4, <1>5
    <3> QED BY <3>1, <3>2
  <2>3. ll = r[Len(r)] /\ nn[r[Len(r)]] = 0
    <3>1. CASE i = m
      <4>1. r[m-1] = s[i-1] /\ i # 1
        BY <3>1, <1>9, <1>1, <1>2
      <4> QED BY <3>1, <4>1, <1>2, <1>3, <1>6
    <3>2. CASE i # m
      <4>1. m-1 \in i..m-1 /\ (m-1)+1 = m /\ m # i-1
        BY <3>2, <1>1
      <4>2. r[m-1] = s[m]
        BY <4>1, <1>2
      <4> QED BY <3>2, <4>1, <4>2, <1>1, <1>2, <1>3, <1>4, <1>6
    <3> QED BY <3>1, <3>2
  <2>4. Chain(r, hh, ll, pp, nn)
    BY <2>1, <2>2, <2>3, <1>7 DEF Chain
  <2> QED BY <2>4, <1>1, <1>3 DEF m, t, r, pp, nn
<1> QED BY <1>1, <1>8, <1>9

\* MTSleep in front of all others.
LEMMA ChainInFront ==
  ASSUME NEW s \in Seq(Threads), IsInjective(s), s # <<>>,
         NEW h, NEW l, NEW p \in Links, NEW n \in Links, Chain(s, h, l, p, n),
         NEW t \in Threads \ ToSet(s)
  PROVE  Chain(<<t>> \o s, t, l, [p EXCEPT ![t] = 0, ![h] = t],
               [n EXCEPT ![t] = h])
<1> DEFINE m == Len(s)
           a == <<t>> \o s
           pp == [p EXCEPT ![t] = 0, ![h] = t]
           nn == [n EXCEPT ![t] = h]
<1>1. /\ m \in Nat /\ m >= 1 /\ m \in 1..m /\ 1 \in 1..m
      /\ \A i \in 1..m : s[i] \in Threads /\ s[i] # t
      /\ \A i, j \in 1..m : s[i] = s[j] => i = j
  BY Elements DEF IsInjective
<1>2. /\ Len(a) = m + 1 /\ a # <<>> /\ a[1] = t
      /\ \A i \in 1..m : a[i+1] = s[i]
  BY <1>1
<1>3. /\ h = s[1] /\ l = s[m] /\ p[s[1]] = 0 /\ n[s[m]] = 0
      /\ \A i \in 1..m-1 : n[s[i]] = s[i+1] /\ p[s[i+1]] = s[i]
  BY DEF Chain
<1>4. h \in Threads /\ h # t
  BY <1>1, <1>3
<1>5. /\ pp[t] = 0 /\ pp[h] = t /\ nn[t] = h
      /\ \A u \in Threads : u # t /\ u # h => pp[u] = p[u]
      /\ \A u \in Threads : u # t => nn[u] = n[u]
  BY <1>4 DEF Links
<1> HIDE DEF m, a, pp, nn
<1>6. ASSUME NEW i \in 1..m PROVE nn[a[i]] = a[i+1] /\ pp[a[i+1]] = a[i]
  <2>1. CASE i = 1
    BY <2>1, <1>1, <1>2, <1>3, <1>5
  <2>2. CASE i # 1
    <3> DEFINE k == i-1
    <3>1. k \in 1..m-1 /\ k \in 1..m /\ k+1 \in 1..m /\ k+1 = i /\ k+1 # 1
      BY <2>2, <1>1
    <3> HIDE DEF k
    <3>2. a[i] = s[k] /\ a[i+1] = s[k+1] /\ s[k+1] # h
      BY <3>1, <1>1, <1>2, <1>3
    <3>3. n[s[k]] = s[k+1] /\ p[s[k+1]] = s[k]
      BY <3>1, <1>3
    <3> QED BY <3>1, <3>2, <3>3, <1>1, <1>5
  <2> QED BY <2>1, <2>2
<1>7. l = a[Len(a)] /\ nn[a[Len(a)]] = 0
  <2>1. a[m+1] = s[m]
    BY <1>1, <1>2
  <2> QED BY <2>1, <1>1, <1>2, <1>3, <1>5
<1>8. Len(a) - 1 = m
  BY <1>1, <1>2
<1>9. Chain(a, t, l, pp, nn)
  BY <1>2, <1>5, <1>6, <1>7, <1>8 DEF Chain
<1> QED BY <1>9 DEF a, pp, nn

\* MTSleep behind the i-th sleeping thread.
LEMMA ChainBehind ==
  ASSUME NEW s \in Seq(Threads), IsInjective(s), NEW i \in 1..Len(s),
         NEW h, NEW l, NEW p \in Links, NEW n \in Links, Chain(s, h, l, p, n),
         NEW t \in Threads \ ToSet(s)
  PROVE  LET x == s[i] IN
         /\ n[x] # 0 => n[x] \in ToSet(s)
         /\ Chain(InsertAt(s, i + 1, t), h, IF x = l THEN t ELSE l,
                  IF x = l THEN [p EXCEPT ![t] = x]
                           ELSE [p EXCEPT ![t] = x, ![n[x]] = t],
                  [n EXCEPT ![t] = n[x], ![x] = t])
<1> DEFINE m == Len(s)
           x == s[i]
           a == InsertAt(s, i + 1, t)
           ll == IF x = l THEN t ELSE l
           pp == IF x = l THEN [p EXCEPT ![t] = x]
                          ELSE [p EXCEPT ![t] = x, ![n[x]] = t]
           nn == [n EXCEPT ![t] = n[x], ![x] = t]
<1>0. m \in Nat /\ i \in Nat /\ 1 <= i /\ i <= m
  BY Elements
<1>1. /\ m \in 1..m /\ 1 \in 1..m /\ i \in 1..m
      /\ \A j \in 1..m : s[j] \in Threads /\ s[j] \in ToSet(s) /\ s[j] # t
      /\ \A j, k \in 1..m : s[j] = s[k] => j = k
  BY <1>0, Elements DEF IsInjective
<1>2. /\ Len(a) = m + 1
      /\ \A j \in 1..i : a[j] = s[j]
      /\ a[i+1] = t
      /\ \A j \in i+2..m+1 : a[j] = s[j-1]
  <2>1. \A k \in 1..Len(s)+1 :
          /\ Len(InsertAt(s, k, t)) = Len(s) + 1
          /\ \A j \in 1..k-1 : InsertAt(s, k, t)[j] = s[j]
          /\ InsertAt(s, k, t)[k] = t
          /\ \A j \in k+1..Len(s)+1 : InsertAt(s, k, t)[j] = s[j-1]
    BY InsertAtElements
  <2>2. i+1 \in 1..Len(s)+1 /\ (i+1)-1 = i /\ (i+1)+1 = i+2
    BY <1>0
  <2> QED BY <2>1, <2>2
<1>3. /\ h = s[1] /\ l = s[m]
      /\ n[x] = 0 <=> i = m
      /\ x = l <=> i = m
      /\ i # m => i+1 \in 1..m /\ n[x] = s[i+1]
  <2>1. Place(s, h, l, p, n, i)
    BY ChainEnds
  <2> QED BY <2>1 DEF Place
<1>4. /\ p[s[1]] = 0 /\ n[s[m]] = 0
      /\ \A j \in 1..m-1 : n[s[j]] = s[j+1] /\ p[s[j+1]] = s[j]
  BY <1>0, Elements DEF Chain
<1>5. /\ pp[t] = x
      /\ i # m => pp[s[i+1]] = t
      /\ \A j \in 1..m : j # i+1 => pp[s[j]] = p[s[j]]
  BY <1>1, <1>3 DEF Links
<1>6. /\ nn[x] = t /\ nn[t] = n[x]
      /\ \A j \in 1..m : j # i => nn[s[j]] = n[s[j]]
  BY <1>1 DEF Links
<1> HIDE DEF m, x, a, ll, pp, nn
<1>7. ASSUME NEW j \in 1..m PROVE nn[a[j]] = a[j+1] /\ pp[a[j+1]] = a[j]
  <2>1. CASE j < i
    <3>1. /\ j \in 1..i /\ j+1 \in 1..i /\ j \in 1..m-1 /\ j+1 \in 1..m
          /\ j # i /\ j+1 # i+1
      BY <2>1, <1>0
    <3>2. a[j] = s[j] /\ a[j+1] = s[j+1]
      BY <3>1, <1>2
    <3>3. nn[s[j]] = n[s[j]] /\ pp[s[j+1]] = p[s[j+1]]
      BY <3>1, <1>5, <1>6
    <3>4. n[s[j]] = s[j+1] /\ p[s[j+1]] = s[j]
      BY <3>1, <1>4
    <3> QED BY <3>2, <3>3, <3>4
  <2>2. CASE j = i
    <3>1. a[j] = x /\ a[j+1] = t
      BY <2>2, <1>0, <1>2 DEF x
    <3> QED BY <3>1, <1>5, <1>6
  <2>3. CASE j = i + 1
    <3>1. j+1 \in i+2..m+1 /\ (j+1)-1 = i+1 /\ i # m
      BY <2>3, <1>0
    <3>2. a[j] = t /\ a[j+1] = s[i+1]
      BY <3>1, <2>3, <1>2
    <3> QED BY <3>1, <3>2, <1>3, <1>5, <1>6
  <2>4. CASE j > i + 1
    <3> DEFINE k == j-1
    <3>1. /\ j \in i+2..m+1 /\ j+1 \in i+2..m+1 /\ (j+1)-1 = k+1
          /\ k \in 1..m-1 /\ k \in 1..m /\ k+1 \in 1..m /\ k # i /\ k+1 # i+1
      BY <2>4, <1>0
    <3>2. a[j] = s[k] /\ a[j+1] = s[k+1]
      BY <3>1, <1>2
    <3> HIDE DEF k
    <3>3. nn[s[k]] = n[s[k]] /\ pp[s[k+1]] = p[s[k+1]]
      BY <3>1, <1>5, <1>6
    <3>4. n[s[k]] = s[k+1] /\ p[s[k+1]] = s[k]
      BY <3>1, <1>4
    <3> QED BY <3>2, <3>3, <3>4
  <2> QED BY <2>1, <2>2, <2>3, <2>4, <1>0
<1>8. a # <<>> /\ a[1] = s[1] /\ pp[a[1]] = 0
  <2>1. 1 \in 1..i /\ 1 # i+1
    BY <1>0
  <2>2. Len(a) # 0
    BY <1>0, <1>2
  <2> QED BY <2>1, <2>2, <1>1, <1>2, <1>4, <1>5
<1>9. ll = a[m+1] /\ nn[a[m+1]] = 0
  <2>1. CASE i = m
    BY <2>1, <1>2, <1>3, <1>6 DEF ll
  <2>2. CASE i # m
    <3>1. m+1 \in i+2..m+1 /\ (m+1)-1 = m
      BY <2>2, <1>0
    <3>2. a[m+1] = s[m]
      BY <3>1, <1>2
    <3> QED BY <2>2, <3>2, <1>1, <1>3, <1>4, <1>6 DEF ll
  <2> QED BY <2>1, <2>2
<1>10. Len(a) - 1 = m
  BY <1>0, <1>2
<1>11. Chain(a, h, ll, pp, nn)
  BY <1>2, <1>3, <1>7, <1>8, <1>9, <1>10 DEF Chain
<1>12. n[x] # 0 => n[x] \in ToSet(s)
  BY <1>1, <1>3
<1> QED BY <1>11, <1>12 DEF x, a, ll, pp, nn
-----------------------------------------------------------------------------
(* The inductive invariant.  The links of a queue survive an operation on    *)
(* another because no thread is in two queues; the position where MTSleep    *)
(* inserts is found in the queue because the walk never left it.             *)

LinksInv == LinkTypeOK /\ QueuedOnce /\ LinksRepresent
QueueInv == LinksInv /\ SleepSorted /\ WalkBetween

\* The list of each queue, with what its elements and their positions obey.
LEMMA QueueOf ==
  ASSUME LinksInv, NEW q \in AllQueues
  PROVE  /\ queue[q] \in Seq(Threads) /\ IsInjective(queue[q])
         /\ prevID \in Links /\ nextID \in Links
         /\ Chain(queue[q], QHead[q], QTail[q], prevID, nextID)
         /\ \A t : t \in ToSet(queue[q]) => Queued(t)
         /\ QHead[q] = 0 <=> queue[q] = <<>>
<1>1. /\ queue[q] \in Seq(Threads) /\ IsInjective(queue[q])
      /\ prevID \in Links /\ nextID \in Links
      /\ \A t : t \in ToSet(queue[q]) => Queued(t)
  BY DEF LinksInv, LinkTypeOK, QueuedOnce, Links, Queued
<1>2. Chain(queue[q], QHead[q], QTail[q], prevID, nextID)
  BY ChainIsRepresents DEF LinksInv, LinksRepresent
<1>3. QHead[q] = 0 <=> queue[q] = <<>>
  <2>1. CASE queue[q] = <<>>
    BY <2>1, <1>2 DEF Chain
  <2>2. CASE queue[q] # <<>>
    <3>1. 1 \in 1..Len(queue[q])
      BY <2>2, <1>1, Elements
    <3>2. queue[q][1] # 0
      BY <3>1, <1>1, Elements
    <3> QED BY <2>2, <3>2, <1>2 DEF Chain
  <2> QED BY <2>1, <2>2
<1> QED BY <1>1, <1>2, <1>3

\* Where a thread of a queue stands can be read off its links.
LEMMA Positions ==
  ASSUME LinksInv, NEW q \in AllQueues, NEW i \in 1..Len(queue[q])
  PROVE  /\ QHead[q] = queue[q][1]
         /\ QHead[q] = queue[q][i] <=> i = 1
         /\ QTail[q] = queue[q][i] <=> i = Len(queue[q])
         /\ nextID[queue[q][i]] = 0 <=> i = Len(queue[q])
         /\ i # 1 => i-1 \in 1..Len(queue[q])
                     /\ prevID[queue[q][i]] = queue[q][i-1]
<1> DEFINE s == queue[q]
           h == QHead[q]
           l == QTail[q]
<1>1. /\ s \in Seq(Threads) /\ IsInjective(s)
      /\ prevID \in Links /\ nextID \in Links /\ Chain(s, h, l, prevID, nextID)
  BY QueueOf
<1>2. i \in 1..Len(s)
  OBVIOUS
<1> HIDE DEF s, h, l
<1>3. Place(s, h, l, prevID, nextID, i)
  BY <1>1, <1>2, ChainEnds
<1> QED BY <1>3 DEF Place, s, h, l

\* An operation that turns queue q into s2, which only threads that were in no
\* queue join, and sets links of no thread of another queue.
LEMMA OneQueue ==
  ASSUME LinksInv, NEW q \in AllQueues, NEW s2 \in Seq(Threads),
         queue' = [queue EXCEPT ![q] = s2],
         IsInjective(s2),
         \A t \in ToSet(s2) : t \in ToSet(queue[q]) \/ ~Queued(t),
         \A r \in AllQueues : r # q => QHead'[r] = QHead[r] /\ QTail'[r] = QTail[r],
         \A t \in Threads : Queued(t) /\ t \notin ToSet(queue[q]) =>
                              prevID'[t] = prevID[t] /\ nextID'[t] = nextID[t],
         Chain(s2, QHead'[q], QTail'[q], prevID', nextID')
  PROVE  /\ queue' \in [AllQueues -> Seq(Threads)]
         /\ QueuedOnce' /\ LinksRepresent'
<1>1. /\ queue' \in [AllQueues -> Seq(Threads)]
      /\ queue'[q] = s2 /\ \A r \in AllQueues : r # q => queue'[r] = queue[r]
  BY DEF LinksInv, LinkTypeOK
<1>2. \A r \in AllQueues : IsInjective(queue'[r])
  BY <1>1, QueueOf
<1>3. ASSUME NEW r \in AllQueues, r # q
      PROVE  ToSet(s2) \intersect ToSet(queue[r]) = {}
  BY <1>3, QueueOf DEF LinksInv, QueuedOnce
<1>4. QueuedOnce'
  <2>1. ASSUME NEW r \in AllQueues, NEW u \in AllQueues, r # u
        PROVE  ToSet(queue'[r]) \intersect ToSet(queue'[u]) = {}
    BY <2>1, <1>1, <1>3 DEF LinksInv, QueuedOnce
  <2> QED BY <1>2, <2>1 DEF QueuedOnce
<1>5. ASSUME NEW r \in AllQueues
      PROVE  Chain(queue'[r], QHead'[r], QTail'[r], prevID', nextID')
  <2>1. CASE r = q
    BY <2>1, <1>1
  <2>2. CASE r # q
    <3>0. /\ queue[r] \in Seq(Threads)
          /\ Chain(queue[r], QHead[r], QTail[r], prevID, nextID)
          /\ \A t \in ToSet(queue[r]) : Queued(t)
      BY QueueOf
    <3>1. \A t \in ToSet(queue[r]) : t \in Threads /\ Queued(t)
                                     /\ t \notin ToSet(queue[q])
      <4>1. \A t \in ToSet(queue[r]) : t \in Threads
        BY <3>0, Elements
      <4>2. \A t \in ToSet(queue[r]) : t \notin ToSet(queue[q])
        BY <2>2 DEF LinksInv, QueuedOnce
      <4> QED BY <4>1, <4>2, <3>0
    <3>2. \A t \in ToSet(queue[r]) :
            prevID'[t] = prevID[t] /\ nextID'[t] = nextID[t]
      BY <3>1
    <3>3. Chain(queue[r], QHead[r], QTail[r], prevID', nextID')
      BY <3>0, <3>2, ChainKept
    <3> QED BY <2>2, <3>3, <1>1
  <2> QED BY <2>1, <2>2
<1>6. LinksRepresent'
  BY <1>5 DEF LinksRepresent, Represents, Chain
<1> QED BY <1>1, <1>4, <1>6

LEMMA EnqueueLinks ==
  ASSUME QueueInv, NEW t \in Threads, NEW q \in AllQueues, ~Queued(t),
         IF QHead[q] = 0 THEN EnqueueFirst(t, q) ELSE EnqueueLast(t, q),
         queue' = [queue EXCEPT ![q] = Append(queue[q], t)]
  PROVE  /\ queue' \in [AllQueues -> Seq(Threads)]
         /\ prevID' \in Links /\ nextID' \in Links
         /\ QHead' \in [AllQueues -> ThreadID] /\ QTail' \in [AllQueues -> ThreadID]
         /\ QueuedOnce' /\ LinksRepresent'
<1> DEFINE s == queue[q]
<1>1. /\ s \in Seq(Threads) /\ IsInjective(s)
      /\ prevID \in Links /\ nextID \in Links
      /\ Chain(s, QHead[q], QTail[q], prevID, nextID)
      /\ t \notin ToSet(s)
      /\ QHead[q] = 0 <=> s = <<>>
  BY QueueOf DEF QueueInv
<1>2. /\ QHead \in [AllQueues -> ThreadID] /\ QTail \in [AllQueues -> ThreadID]
      /\ 0 \in ThreadID /\ t \in ThreadID /\ QTail[q] \in ThreadID
  BY DEF QueueInv, LinksInv, LinkTypeOK, ThreadID
<1>3. /\ Append(s, t) \in Seq(Threads) /\ IsInjective(Append(s, t))
      /\ ToSet(Append(s, t)) = ToSet(s) \union {t}
  BY <1>1, AppendSet
<1>4. CASE QHead[q] = 0
  <2>1. /\ QHead' = [QHead EXCEPT ![q] = t] /\ QTail' = [QTail EXCEPT ![q] = t]
        /\ prevID' = [prevID EXCEPT ![t] = 0] /\ nextID' = [nextID EXCEPT ![t] = 0]
    BY <1>4 DEF EnqueueFirst
  <2>2. Append(s, t) = <<t>>
    <3>1. Append(<<>>, t) = <<t>>
      OBVIOUS
    <3> QED BY <3>1, <1>1, <1>4
  <2>3. Chain(Append(s, t), QHead'[q], QTail'[q], prevID', nextID')
    BY <2>1, <2>2, <1>1, <1>2, ChainSingle
  <2>4. /\ prevID' \in Links /\ nextID' \in Links
        /\ QHead' \in [AllQueues -> ThreadID] /\ QTail' \in [AllQueues -> ThreadID]
    BY <2>1, <1>1, <1>2 DEF Links
  <2>5. \A u \in Threads : Queued(u) =>
          prevID'[u] = prevID[u] /\ nextID'[u] = nextID[u]
    BY <2>1, <1>1 DEF Links
  <2>6. \A r \in AllQueues : r # q => QHead'[r] = QHead[r] /\ QTail'[r] = QTail[r]
    BY <2>1, <1>2
  <2> QED BY <2>3, <2>4, <2>5, <2>6, <1>3, OneQueue DEF QueueInv
<1>5. CASE QHead[q] # 0
  <2>1. /\ QHead' = QHead /\ QTail' = [QTail EXCEPT ![q] = t]
        /\ prevID' = [prevID EXCEPT ![t] = QTail[q]]
        /\ nextID' = [nextID EXCEPT ![QTail[q]] = t, ![t] = 0]
    BY <1>5 DEF EnqueueLast
  <2>2. Chain(Append(s, t), QHead'[q], QTail'[q], prevID', nextID')
    BY <2>1, <1>1, <1>2, <1>5, ChainAppend
  <2>3. /\ prevID' \in Links /\ nextID' \in Links
        /\ QTail' \in [AllQueues -> ThreadID]
    BY <2>1, <1>1, <1>2 DEF Links
  <2>4. QTail[q] \in ToSet(s)
    BY <1>1, <1>5, Elements DEF Chain
  <2>5. \A u \in Threads : Queued(u) /\ u \notin ToSet(s) =>
          prevID'[u] = prevID[u] /\ nextID'[u] = nextID[u]
    BY <2>1, <2>4, <1>1 DEF Links
  <2>6. \A r \in AllQueues : r # q => QHead'[r] = QHead[r] /\ QTail'[r] = QTail[r]
    BY <2>1, <1>2
  <2> QED BY <2>1, <2>2, <2>3, <2>5, <2>6, <1>2, <1>3, OneQueue DEF QueueInv
<1> QED BY <1>4, <1>5

\* The thread that DequeueThread takes, if any, is the head of the queue.
LEMMA DequeueLinks ==
  ASSUME QueueInv, NEW q \in AllQueues, DequeueThread(q)
  PROVE  /\ LinksInv'
         /\ IF queue[q] = <<>> THEN out' = 0 /\ queue' = queue
            ELSE /\ out' = Head(queue[q])
                 /\ queue' = [queue EXCEPT ![q] = Tail(queue[q])]
<1> DEFINE s == queue[q]
<1>1. /\ s \in Seq(Threads) /\ IsInjective(s)
      /\ prevID \in Links /\ nextID \in Links
      /\ Chain(s, QHead[q], QTail[q], prevID, nextID)
      /\ \A u \in ToSet(s) : Queued(u)
      /\ QHead[q] = 0 <=> s = <<>>
  BY QueueOf DEF QueueInv
<1>2. LinkTypeOK /\ 0 \in ThreadID /\ QHead[q] \in ThreadID
  BY DEF QueueInv, LinksInv, LinkTypeOK, ThreadID
<1>3. /\ nextID' = nextID /\ wakeUpTime' = wakeUpTime /\ sleeper' = sleeper
      /\ threadIdx' = threadIdx /\ out' = QHead[q]
  BY DEF DequeueThread, walkVars
<1>4. CASE s = <<>>
  <2>1. UNCHANGED <<QHead, QTail, prevID, queue>>
    BY <1>1, <1>4 DEF DequeueThread
  <2>2. out' = 0
    BY <1>1, <1>3, <1>4
  <2>3. LinkTypeOK'
    BY <2>1, <2>2, <1>2, <1>3 DEF LinkTypeOK
  <2>4. QueuedOnce' /\ LinksRepresent'
    BY <2>1, <1>3 DEF QueueInv, LinksInv, QueuedOnce, LinksRepresent, Represents
  <2> QED BY <2>1, <2>2, <2>3, <2>4, <1>4 DEF LinksInv
<1>5. CASE s # <<>>
  <2>1. /\ Tail(s) \in Seq(Threads) /\ IsInjective(Tail(s))
        /\ ToSet(Tail(s)) = ToSet(s) \ {Head(s)}
    BY <1>1, <1>5, TailSet
  <2>2. QHead[q] = Head(s) /\ QHead[q] # 0
    BY <1>1, <1>5 DEF Chain
  <2>3. /\ queue' = [queue EXCEPT ![q] = Tail(s)]
        /\ QHead' \in [AllQueues -> ThreadID] /\ QTail' \in [AllQueues -> ThreadID]
        /\ prevID' \in Links
        /\ Chain(Tail(s), QHead'[q], QTail'[q], prevID', nextID')
        /\ \A r \in AllQueues : r # q => QHead'[r] = QHead[r] /\ QTail'[r] = QTail[r]
        /\ \A u \in Threads : Queued(u) /\ u \notin ToSet(s) =>
             prevID'[u] = prevID[u] /\ nextID'[u] = nextID[u]
    <3>1. CASE QHead[q] = QTail[q]
      <4>1. /\ QHead' = [QHead EXCEPT ![q] = 0] /\ QTail' = [QTail EXCEPT ![q] = 0]
            /\ queue' = [queue EXCEPT ![q] = Tail(s)] /\ prevID' = prevID
        BY <3>1, <2>2 DEF DequeueThread
      <4>2. Len(s) = 1
        <5>1. /\ Len(s) \in Nat /\ 1 \in 1..Len(s)
          BY <1>1, <1>5, Elements
        <5>2. ASSUME NEW i \in 1..Len(s) PROVE QTail[q] = s[i] <=> i = Len(s)
          BY Positions DEF QueueInv
        <5>3. QHead[q] = s[1]
          BY <1>1, <1>5 DEF Chain
        <5> QED BY <5>1, <5>2, <5>3, <3>1
      <4>3. Tail(s) = <<>>
        <5>1. Len(Tail(s)) = 0
          BY <4>2, <1>1, <1>5
        <5> QED BY <5>1, <2>1, Elements
      <4>4. Chain(Tail(s), QHead'[q], QTail'[q], prevID', nextID')
        <5>1. QHead'[q] = 0
          BY <4>1, <1>2 DEF LinkTypeOK
        <5>2. Len(<<>>) = 0 /\ 1..0-1 = {}
          OBVIOUS
        <5> QED BY <5>1, <5>2, <4>3 DEF Chain
      <4> QED BY <4>1, <4>4, <1>1, <1>2, <1>3 DEF LinkTypeOK
    <3>2. CASE QHead[q] # QTail[q]
      <4>1. /\ QHead' = [QHead EXCEPT ![q] = nextID[QHead[q]]] /\ QTail' = QTail
            /\ queue' = [queue EXCEPT ![q] = Tail(s)]
            /\ prevID' = [prevID EXCEPT ![nextID[QHead[q]]] = 0]
        BY <3>2, <2>2 DEF DequeueThread
      <4>2. /\ nextID[QHead[q]] \in ToSet(s)
            /\ Chain(Tail(s), nextID[QHead[q]], QTail[q],
                     [prevID EXCEPT ![nextID[QHead[q]]] = 0], nextID)
        BY <3>2, <1>1, <1>5, ChainTail
      <4>3. nextID[QHead[q]] \in ThreadID
        BY <2>2, <1>1, <1>2 DEF Links, ThreadID
      <4>4. QHead'[q] = nextID[QHead[q]] /\ QTail'[q] = QTail[q]
        BY <4>1, <1>2 DEF LinkTypeOK
      <4>5. /\ QHead' \in [AllQueues -> ThreadID] /\ QTail' \in [AllQueues -> ThreadID]
            /\ prevID' \in Links
        BY <4>1, <4>3, <1>1, <1>2 DEF LinkTypeOK, Links
      <4>6. \A r \in AllQueues : r # q => QHead'[r] = QHead[r] /\ QTail'[r] = QTail[r]
        BY <4>1, <1>2 DEF LinkTypeOK
      <4>7. \A u \in Threads : u \notin ToSet(s) =>
             prevID'[u] = prevID[u] /\ nextID'[u] = nextID[u]
        BY <4>1, <4>2, <1>1, <1>3 DEF Links
      <4> QED BY <4>1, <4>2, <4>4, <4>5, <4>6, <4>7, <1>3
    <3> QED BY <3>1, <3>2
  <2>4. /\ queue' \in [AllQueues -> Seq(Threads)]
        /\ QueuedOnce' /\ LinksRepresent'
    BY <2>1, <2>3, OneQueue DEF QueueInv
  <2>5. LinkTypeOK'
    BY <2>3, <2>4, <1>2, <1>3 DEF LinkTypeOK, Links
  <2> QED BY <2>2, <2>3, <2>4, <2>5, <1>3, <1>5 DEF LinksInv
<1> QED BY <1>4, <1>5

LEMMA ExtractLinks ==
  ASSUME QueueInv, NEW t \in Threads, NEW q \in AllQueues, ExtractThread(t, q)
  PROVE  LinksInv'
<1> DEFINE s == queue[q]
           p == prevID[t]
           n == nextID[t]
<1>1. /\ s \in Seq(Threads) /\ IsInjective(s)
      /\ prevID \in Links /\ nextID \in Links
      /\ Chain(s, QHead[q], QTail[q], prevID, nextID)
  BY QueueOf DEF QueueInv
<1>2. PICK i \in 1..Len(s) :
        s[i] = t /\ queue' = [queue EXCEPT ![q] = RemoveAt(s, i)]
  BY <1>1, Elements DEF ExtractThread
<1>3. /\ LinkTypeOK /\ 0 \in ThreadID /\ p \in ThreadID /\ n \in ThreadID
      /\ p # 0 => p \in Threads
      /\ n # 0 => n \in Threads
  BY <1>1 DEF QueueInv, LinksInv, LinkTypeOK, ThreadID, Links
<1>4. /\ wakeUpTime' = wakeUpTime /\ sleeper' = sleeper
      /\ threadIdx' = threadIdx /\ out' = 0
  BY DEF ExtractThread, walkVars
<1>5. /\ QHead' = IF p = 0 THEN [QHead EXCEPT ![q] = n] ELSE QHead
      /\ QTail' = IF n = 0 THEN [QTail EXCEPT ![q] = p] ELSE QTail
      /\ prevID' = IF n = 0 THEN prevID ELSE [prevID EXCEPT ![n] = p]
      /\ nextID' = IF p = 0 THEN nextID ELSE [nextID EXCEPT ![p] = n]
  BY DEF ExtractThread, ExtractTail
<1>6. /\ RemoveAt(s, i) \in Seq(Threads) /\ IsInjective(RemoveAt(s, i))
      /\ ToSet(RemoveAt(s, i)) = ToSet(s) \ {t}
  BY <1>1, <1>2, RemoveAtElements, RemoveAtSet
<1>7. /\ p # 0 => p \in ToSet(s)
      /\ n # 0 => n \in ToSet(s)
      /\ Chain(RemoveAt(s, i),
               IF p = 0 THEN n ELSE QHead[q], IF n = 0 THEN p ELSE QTail[q],
               prevID', nextID')
  BY <1>1, <1>2, <1>5, ChainRemove
<1>8. /\ QHead' \in [AllQueues -> ThreadID] /\ QTail' \in [AllQueues -> ThreadID]
      /\ QHead'[q] = IF p = 0 THEN n ELSE QHead[q]
      /\ QTail'[q] = IF n = 0 THEN p ELSE QTail[q]
      /\ \A r \in AllQueues : r # q => QHead'[r] = QHead[r] /\ QTail'[r] = QTail[r]
  BY <1>3, <1>5 DEF LinkTypeOK
<1>9. /\ prevID' \in Links /\ nextID' \in Links
      /\ \A u \in Threads : u \notin ToSet(s) =>
             prevID'[u] = prevID[u] /\ nextID'[u] = nextID[u]
  BY <1>1, <1>3, <1>5, <1>7 DEF Links
<1>10. /\ queue' \in [AllQueues -> Seq(Threads)]
       /\ QueuedOnce' /\ LinksRepresent'
  BY <1>2, <1>6, <1>7, <1>8, <1>9, OneQueue DEF QueueInv
<1>11. LinkTypeOK'
  BY <1>3, <1>4, <1>8, <1>9, <1>10 DEF LinkTypeOK, Links
<1> QED BY <1>10, <1>11 DEF LinksInv

\* MTSleep puts the thread it has found the place for into the sleep queue.
LEMMA InsertLinks ==
  ASSUME QueueInv, sleeper # 0, SleepInsert
  PROVE  /\ LinksInv' /\ sleeper' = 0 /\ out' = 0 /\ wakeUpTime' = wakeUpTime
         /\ sleeper \in Threads /\ ~Queued(sleeper)
         /\ \E k \in 1..Len(queue[SleepQ])+1 :
              /\ queue' = [queue EXCEPT ![SleepQ] =
                             InsertAt(queue[SleepQ], k, sleeper)]
              /\ k > 1 => wakeUpTime[queue[SleepQ][k-1]] <= wakeUpTime[sleeper]
              /\ \A j \in k..Len(queue[SleepQ]) :
                   wakeUpTime[queue[SleepQ][j]] > wakeUpTime[sleeper]
<1> DEFINE s == queue[SleepQ]
           t == sleeper
           x == threadIdx
           n == nextID[x]
<1>1. SleepQ \in AllQueues
  BY DEF AllQueues
<1>2. /\ s \in Seq(Threads) /\ IsInjective(s)
      /\ prevID \in Links /\ nextID \in Links
      /\ Chain(s, QHead[SleepQ], QTail[SleepQ], prevID, nextID)
      /\ \A u \in ToSet(s) : Queued(u)
  BY <1>1, QueueOf DEF QueueInv
<1>3. LinkTypeOK /\ t \in Threads /\ t # 0 /\ ~Queued(t) /\ t \notin ToSet(s)
  BY <1>2 DEF QueueInv, LinksInv, LinkTypeOK, ThreadID, WalkBetween
<1>4. PICK i \in 1..Len(s) :
        s[i] = x /\ \A j \in i+1..Len(s) : wakeUpTime[s[j]] > wakeUpTime[t]
  BY <1>2, Elements DEF QueueInv, WalkBetween
<1>5. /\ x \in Threads /\ x \in ToSet(s) /\ x # t /\ i \in Nat /\ i >= 1
      /\ Len(s) \in Nat /\ i <= Len(s) /\ s # <<>>
  BY <1>2, <1>3, <1>4, Elements
<1>6. /\ QHead[SleepQ] = s[1]
      /\ x = QHead[SleepQ] <=> i = 1
      /\ x = QTail[SleepQ] <=> i = Len(s)
      /\ n = 0 <=> i = Len(s)
  BY <1>1, <1>4, Positions DEF QueueInv
<1>7. sleeper' = 0 /\ threadIdx' = 0 /\ out' = 0 /\ wakeUpTime' = wakeUpTime
  BY DEF SleepInsert
<1>8. n \in ThreadID /\ t \in ThreadID /\ x \in ThreadID /\ 0 \in ThreadID
  BY <1>2, <1>3, <1>5 DEF ThreadID, Links
<1>9. CASE SleepInFront
  <2>1. /\ QHead' = [QHead EXCEPT ![SleepQ] = t] /\ QTail' = QTail
        /\ prevID' = [prevID EXCEPT ![t] = 0, ![x] = t]
        /\ nextID' = [nextID EXCEPT ![t] = x]
        /\ queue' = [queue EXCEPT ![SleepQ] = <<t>> \o s]
        /\ x = QHead[SleepQ] /\ wakeUpTime[x] > wakeUpTime[t]
    BY <1>9 DEF SleepInFront, InFront
  <2>2. i = 1
    BY <2>1, <1>6
  <2>3. InsertAt(s, 1, t) = <<t>> \o s
    <3>1. SubSeq(s, 1, 1-1) = <<>> /\ SubSeq(s, 1, Len(s)) = s
      BY <1>2, SubSeqEmpty, SubSeqFull
    <3>2. <<>> \o <<t>> = <<t>>
      OBVIOUS
    <3> QED BY <3>1, <3>2 DEF InsertAt
  <2>4. /\ InsertAt(s, 1, t) \in Seq(Threads) /\ IsInjective(InsertAt(s, 1, t))
        /\ ToSet(InsertAt(s, 1, t)) = ToSet(s) \union {t}
    <3>1. 1 \in 1..Len(s)+1
      BY <1>5
    <3> HIDE DEF s, t
    <3>2. \A k \in 1..Len(s)+1 :
            /\ InsertAt(s, k, t) \in Seq(Threads) /\ IsInjective(InsertAt(s, k, t))
            /\ ToSet(InsertAt(s, k, t)) = ToSet(s) \union {t}
      BY <1>2, <1>3, InsertAtElements, InsertAtSet
    <3> QED BY <3>1, <3>2
  <2>5. Chain(<<t>> \o s, t, QTail[SleepQ], prevID', nextID')
    BY <2>1, <1>2, <1>3, <1>5, ChainInFront
  <2>6. /\ QHead' \in [AllQueues -> ThreadID] /\ QTail' \in [AllQueues -> ThreadID]
        /\ QHead'[SleepQ] = t /\ QTail'[SleepQ] = QTail[SleepQ]
        /\ \A r \in AllQueues : r # SleepQ =>
             QHead'[r] = QHead[r] /\ QTail'[r] = QTail[r]
    BY <2>1, <1>1, <1>3, <1>8 DEF LinkTypeOK
  <2>7. /\ prevID' \in Links /\ nextID' \in Links
        /\ \A u \in Threads : u \notin ToSet(s) /\ u # t =>
             prevID'[u] = prevID[u] /\ nextID'[u] = nextID[u]
    BY <2>1, <1>2, <1>5, <1>8 DEF Links
  <2>8. /\ queue' \in [AllQueues -> Seq(Threads)]
        /\ QueuedOnce' /\ LinksRepresent'
    BY <2>1, <2>3, <2>4, <2>5, <2>6, <2>7, <1>1, <1>3, OneQueue DEF QueueInv
  <2>9. LinkTypeOK'
    BY <2>6, <2>7, <2>8, <1>3, <1>7, <1>8 DEF LinkTypeOK, Links
  <2>10. /\ 1 \in 1..Len(s)+1
         /\ \A j \in 1..Len(s) : wakeUpTime[s[j]] > wakeUpTime[t]
    <3>1. ASSUME NEW j \in 1..Len(s) PROVE wakeUpTime[s[j]] > wakeUpTime[t]
      BY <2>1, <2>2, <1>4, <1>5
    <3> QED BY <3>1, <1>5
  <2>11. queue' = [queue EXCEPT ![SleepQ] = InsertAt(s, 1, t)]
    BY <2>1, <2>3
  <2>12. ~(1 > 1)
    OBVIOUS
  <2> HIDE DEF s, t
  <2>13. \E k \in 1..Len(s)+1 :
           /\ queue' = [queue EXCEPT ![SleepQ] = InsertAt(s, k, t)]
           /\ k > 1 => wakeUpTime[s[k-1]] <= wakeUpTime[t]
           /\ \A j \in k..Len(s) : wakeUpTime[s[j]] > wakeUpTime[t]
    BY <2>10, <2>11, <2>12
  <2> QED BY <2>8, <2>9, <2>13, <1>3, <1>7 DEF LinksInv, s, t
<1>10. CASE SleepBehind
  <2>1. /\ QTail' = IF x = QTail[SleepQ] THEN [QTail EXCEPT ![SleepQ] = t] ELSE QTail
        /\ QHead' = QHead
        /\ prevID' = IF x = QTail[SleepQ] THEN [prevID EXCEPT ![t] = x]
                     ELSE [prevID EXCEPT ![t] = x, ![n] = t]
        /\ nextID' = [nextID EXCEPT ![t] = n, ![x] = t]
        /\ ~WalksOn /\ ~InFront
    BY <1>10 DEF SleepBehind, SleepPrev
  <2>2. queue' = [queue EXCEPT ![SleepQ] = InsertAt(s, i + 1, t)]
    <3>1. PICK k \in 1..Len(s) :
            s[k] = x /\ queue' = [queue EXCEPT ![SleepQ] = InsertAt(s, k + 1, t)]
      BY <1>2, <1>10, Elements DEF SleepBehind
    <3>2. k = i
      BY <3>1, <1>2, <1>4, Elements DEF IsInjective
    <3> QED BY <3>1, <3>2
  <2>3. i+1 \in 1..Len(s)+1 /\ i+1 > 1 /\ (i+1)-1 = i
    BY <1>5
  <2>4. wakeUpTime[x] <= wakeUpTime[t]
    <3>1. wakeUpTime[x] \in Nat /\ wakeUpTime[t] \in Nat
      BY <1>3, <1>5 DEF LinkTypeOK
    <3>2. ~(wakeUpTime[x] > wakeUpTime[t])
      BY <2>1, <1>6 DEF WalksOn, InFront
    <3> QED BY <3>1, <3>2
  <2>5. /\ InsertAt(s, i+1, t) \in Seq(Threads) /\ IsInjective(InsertAt(s, i+1, t))
        /\ ToSet(InsertAt(s, i+1, t)) = ToSet(s) \union {t}
    BY <2>3, <1>2, <1>3, InsertAtElements, InsertAtSet
  <2>6. /\ n # 0 => n \in ToSet(s)
        /\ Chain(InsertAt(s, i+1, t), QHead[SleepQ],
                 IF x = QTail[SleepQ] THEN t ELSE QTail[SleepQ], prevID', nextID')
    BY <2>1, <1>2, <1>3, <1>4, ChainBehind
  <2>7. /\ QHead' \in [AllQueues -> ThreadID] /\ QTail' \in [AllQueues -> ThreadID]
        /\ QHead'[SleepQ] = QHead[SleepQ]
        /\ QTail'[SleepQ] = IF x = QTail[SleepQ] THEN t ELSE QTail[SleepQ]
        /\ \A r \in AllQueues : r # SleepQ =>
             QHead'[r] = QHead[r] /\ QTail'[r] = QTail[r]
    BY <2>1, <1>1, <1>3, <1>8 DEF LinkTypeOK
  <2>8. /\ prevID' \in Links /\ nextID' \in Links
        /\ \A u \in Threads : u \notin ToSet(s) /\ u # t =>
             prevID'[u] = prevID[u] /\ nextID'[u] = nextID[u]
    BY <2>1, <2>6, <1>2, <1>5, <1>6, <1>8 DEF Links
  <2>9. /\ queue' \in [AllQueues -> Seq(Threads)]
        /\ QueuedOnce' /\ LinksRepresent'
    BY <2>2, <2>5, <2>6, <2>7, <2>8, <1>1, <1>3, OneQueue DEF QueueInv
  <2>10. LinkTypeOK'
    BY <2>7, <2>8, <2>9, <1>3, <1>7, <1>8 DEF LinkTypeOK, Links
  <2> QED BY <2>2, <2>3, <2>4, <2>9, <2>10, <1>3, <1>4, <1>7 DEF LinksInv
<1> QED BY <1>9, <1>10 DEF SleepInsert

-----------------------------------------------------------------------------
(* Order in the sleep queue.                                                 *)

LEMMA SleepIsSorted ==
  ASSUME queue[SleepQ] \in Seq(Threads)
  PROVE  SleepSorted <=> Sorted(queue[SleepQ], wakeUpTime)
BY Elements DEF SleepSorted, Sorted

-----------------------------------------------------------------------------
(* Each action preserves the invariant.                                      *)

LEMMA QueueInit == Init => QueueInv
<1> SUFFICES ASSUME Init PROVE QueueInv
  OBVIOUS
<1>1. 0 \in ThreadID /\ 0 \in Nat
  BY DEF ThreadID
<1>2. LinkTypeOK
  BY <1>1 DEF Init, LinkTypeOK
<1>3. \A q \in AllQueues : queue[q] = <<>>
  BY DEF Init
<1>4. ToSet(<<>>) = {} /\ IsInjective(<<>>) /\ Len(<<>>) = 0 /\ 1..0-1 = {}
  BY DEF ToSet, IsInjective
<1>5. QueuedOnce
  BY <1>3, <1>4 DEF QueuedOnce
<1>6. LinksRepresent
  BY <1>3, <1>4 DEF Init, LinksRepresent, Represents
<1>7. SleepSorted /\ WalkBetween
  BY <1>3 DEF Init, SleepSorted, WalkBetween, AllQueues
<1> QED BY <1>2, <1>5, <1>6, <1>7 DEF QueueInv, LinksInv

\* Outside MTSleep's loop there is no walk, and the times of the threads in the
\* sleep queue are in order if that queue or they did not change.
LEMMA SleepKept ==
  ASSUME QueueInv, LinksInv', sleeper' = 0,
         queue'[SleepQ] = queue[SleepQ],
         \A u \in ToSet(queue[SleepQ]) : wakeUpTime'[u] = wakeUpTime[u]
  PROVE  QueueInv'
<1>1. SleepQ \in AllQueues
  BY DEF AllQueues
<1>2. queue[SleepQ] \in Seq(Threads)
  BY <1>1 DEF QueueInv, LinksInv, LinkTypeOK
<1>3. \A i \in DOMAIN queue[SleepQ] :
        wakeUpTime'[queue[SleepQ][i]] = wakeUpTime[queue[SleepQ][i]]
  BY <1>2, Elements
<1>4. SleepSorted'
  BY <1>3 DEF QueueInv, SleepSorted
<1> QED BY <1>4 DEF QueueInv, WalkBetween

LEMMA QueueNext == QueueInv /\ [Next]_linkVars => QueueInv'
<1> SUFFICES ASSUME QueueInv, [Next]_linkVars PROVE QueueInv'
  OBVIOUS
<1> DEFINE s == queue[SleepQ]
<1>1. SleepQ \in AllQueues /\ \A q \in Queues : q \in AllQueues /\ q # SleepQ
  BY LinksAssumption DEF AllQueues
<1>2. /\ LinksInv /\ LinkTypeOK /\ s \in Seq(Threads)
      /\ wakeUpTime \in [Threads -> Nat]
  BY <1>1 DEF QueueInv, LinksInv, LinkTypeOK
<1>3. ASSUME NEW t \in Threads, NEW q \in Queues, EnqueueThread(t, q)
      PROVE  QueueInv'
  <2>1. /\ sleeper' = 0 /\ threadIdx' = threadIdx /\ out' = 0
        /\ wakeUpTime' = wakeUpTime /\ ~Queued(t)
        /\ queue' = [queue EXCEPT ![q] = Append(queue[q], t)]
        /\ IF QHead[q] = 0 THEN EnqueueFirst(t, q) ELSE EnqueueLast(t, q)
    BY <1>3 DEF EnqueueThread, walkVars
  <2>2. LinksInv'
    <3>1. /\ queue' \in [AllQueues -> Seq(Threads)]
          /\ prevID' \in Links /\ nextID' \in Links
          /\ QHead' \in [AllQueues -> ThreadID] /\ QTail' \in [AllQueues -> ThreadID]
          /\ QueuedOnce' /\ LinksRepresent'
      BY <2>1, <1>1, EnqueueLinks
    <3> QED BY <2>1, <3>1, <1>2 DEF LinksInv, LinkTypeOK, Links, ThreadID
  <2>3. queue'[SleepQ] = queue[SleepQ]
    BY <2>1, <1>1, <1>2 DEF LinkTypeOK
  <2> QED BY <2>1, <2>2, <2>3, SleepKept
<1>4. ASSUME NEW t \in Threads, NEW q \in Queues, ExtractThread(t, q)
      PROVE  QueueInv'
  <2>1. LinksInv'
    BY <1>1, <1>4, ExtractLinks
  <2>2. sleeper' = 0 /\ wakeUpTime' = wakeUpTime
    BY <1>4 DEF ExtractThread, walkVars
  <2>3. queue'[SleepQ] = queue[SleepQ]
    BY <1>1, <1>2, <1>4 DEF ExtractThread, LinkTypeOK
  <2> QED BY <2>1, <2>2, <2>3, SleepKept
<1>5. ASSUME NEW q \in AllQueues, DequeueThread(q)
      PROVE  QueueInv'
  <2>1. /\ LinksInv'
        /\ IF queue[q] = <<>> THEN out' = 0 /\ queue' = queue
           ELSE /\ out' = Head(queue[q])
                /\ queue' = [queue EXCEPT ![q] = Tail(queue[q])]
    BY <1>5, DequeueLinks
  <2>2. sleeper' = 0 /\ wakeUpTime' = wakeUpTime
    BY <1>5 DEF DequeueThread, walkVars
  <2>3. CASE queue'[SleepQ] = queue[SleepQ]
    BY <2>1, <2>2, <2>3, SleepKept
  <2>4. CASE queue'[SleepQ] # queue[SleepQ]
    <3>1. s # <<>> /\ queue'[SleepQ] = Tail(s)
      BY <2>1, <2>4, <1>1, <1>2 DEF LinkTypeOK
    <3>2. Sorted(Tail(s), wakeUpTime)
      BY <3>1, <1>2, SortedTail, SleepIsSorted DEF QueueInv
    <3>3. queue'[SleepQ] \in Seq(Threads)
      BY <2>1, <1>1 DEF LinksInv, LinkTypeOK
    <3>4. SleepSorted'
      BY <2>2, <3>1, <3>2, <3>3, Elements DEF SleepSorted, Sorted
    <3> QED BY <2>1, <2>2, <3>4 DEF QueueInv, WalkBetween
  <2> QED BY <2>3, <2>4
<1>6. ASSUME NEW t \in Threads, NEW due \in Times, SleepFirst(t, due)
      PROVE  QueueInv'
  <2>1. /\ sleeper' = 0 /\ threadIdx' = threadIdx /\ out' = 0 /\ ~Queued(t)
        /\ wakeUpTime' = [wakeUpTime EXCEPT ![t] = due]
        /\ queue' = [queue EXCEPT ![SleepQ] = <<t>>]
        /\ EnqueueFirst(t, SleepQ) /\ QHead[SleepQ] = 0
    BY <1>6 DEF SleepFirst, walkVars
  <2>2. s = <<>> /\ Append(s, t) = <<t>>
    <3>1. s = <<>>
      BY <2>1, <1>1, <1>2, QueueOf
    <3>2. Append(<<>>, t) = <<t>>
      OBVIOUS
    <3> QED BY <3>1, <3>2
  <2>3. /\ queue' \in [AllQueues -> Seq(Threads)]
        /\ prevID' \in Links /\ nextID' \in Links
        /\ QHead' \in [AllQueues -> ThreadID] /\ QTail' \in [AllQueues -> ThreadID]
        /\ QueuedOnce' /\ LinksRepresent'
    BY <2>1, <2>2, <1>1, EnqueueLinks
  <2>4. wakeUpTime' \in [Threads -> Nat]
    BY <2>1, <1>2, LinksAssumption
  <2>5. LinksInv'
    BY <2>1, <2>3, <2>4, <1>2 DEF LinksInv, LinkTypeOK, Links, ThreadID
  <2>6. SleepSorted'
    <3>1. queue'[SleepQ] = <<t>> /\ DOMAIN <<t>> = 1..1
      BY <2>1, <1>1, <1>2 DEF LinkTypeOK
    <3> QED BY <3>1 DEF SleepSorted
  <2> QED BY <2>1, <2>5, <2>6 DEF QueueInv, WalkBetween
<1>7. ASSUME NEW t \in Threads, NEW due \in Times, SleepWalk(t, due)
      PROVE  QueueInv'
  <2>1. /\ sleeper = 0 /\ ~Queued(t) /\ QHead[SleepQ] # 0
        /\ wakeUpTime' = [wakeUpTime EXCEPT ![t] = due]
        /\ sleeper' = t /\ threadIdx' = QTail[SleepQ]
        /\ UNCHANGED <<prevID, nextID, QHead, QTail, out, queue>>
    BY <1>7 DEF SleepWalk
  <2>2. wakeUpTime' \in [Threads -> Nat]
    BY <2>1, <1>2, LinksAssumption
  <2>3. LinksInv'
    <3>1. LinkTypeOK'
      BY <2>1, <2>2, <1>1, <1>2 DEF LinkTypeOK, ThreadID
    <3>2. QueuedOnce' /\ LinksRepresent'
      BY <2>1 DEF QueueInv, LinksInv, QueuedOnce, LinksRepresent, Represents
    <3> QED BY <3>1, <3>2 DEF LinksInv
  <2>4. \A u \in ToSet(s) : wakeUpTime'[u] = wakeUpTime[u]
    BY <2>1, <1>1, <1>2, Elements DEF Queued
  <2>5. SleepSorted'
    <3>1. \A i \in DOMAIN s : wakeUpTime'[s[i]] = wakeUpTime[s[i]]
      BY <2>4, <1>2, Elements
    <3> QED BY <3>1, <2>1 DEF QueueInv, SleepSorted
  <2>6. WalkBetween'
    <3>1. s # <<>> /\ Len(s) \in 1..Len(s) /\ Len(s) \in DOMAIN s
          /\ Len(s)+1..Len(s) = {}
      BY <2>1, <1>1, <1>2, QueueOf, Elements
    <3>2. s[Len(s)] = QTail[SleepQ]
      BY <3>1, <1>1, <1>2, Positions
    <3> QED BY <2>1, <3>1, <3>2 DEF WalkBetween, Queued
  <2> QED BY <2>3, <2>5, <2>6 DEF QueueInv
<1>8. ASSUME SleepWalkOn PROVE QueueInv'
  <2>1. /\ sleeper # 0 /\ WalksOn /\ threadIdx' = prevID[threadIdx]
        /\ UNCHANGED <<prevID, nextID, wakeUpTime, QHead, QTail, sleeper, out,
                       queue>>
    BY <1>8 DEF SleepWalkOn
  <2>2. PICK i \in 1..Len(s) :
          /\ s[i] = threadIdx
          /\ \A j \in i+1..Len(s) : wakeUpTime[s[j]] > wakeUpTime[sleeper]
    BY <2>1, <1>2, Elements DEF QueueInv, WalkBetween
  <2>3. i # 1 /\ i-1 \in 1..Len(s) /\ threadIdx' = s[i-1]
    BY <2>1, <2>2, <1>1, <1>2, Positions DEF WalksOn
  <2>4. threadIdx' \in ThreadID
    BY <2>3, <1>2, Elements DEF ThreadID
  <2>5. LinksInv'
    <3>1. LinkTypeOK'
      BY <2>1, <2>4, <1>2 DEF LinkTypeOK
    <3>2. QueuedOnce' /\ LinksRepresent'
      BY <2>1 DEF QueueInv, LinksInv, QueuedOnce, LinksRepresent, Represents
    <3> QED BY <3>1, <3>2 DEF LinksInv
  <2>6. SleepSorted'
    BY <2>1 DEF QueueInv, SleepSorted
  <2>7. ~Queued(sleeper)'
    BY <2>1 DEF QueueInv, WalkBetween, Queued
  <2>8. \A j \in (i-1)+1..Len(s) : wakeUpTime[s[j]] > wakeUpTime[sleeper]
    <3>1. ASSUME NEW j \in (i-1)+1..Len(s)
          PROVE  wakeUpTime[s[j]] > wakeUpTime[sleeper]
      <4>1. j = i \/ j \in i+1..Len(s)
        BY <1>2, Elements
      <4> QED BY <4>1, <2>1, <2>2 DEF WalksOn
    <3> QED BY <3>1
  <2>9. WalkBetween'
    <3>1. i-1 \in DOMAIN s
      BY <2>3, <1>2, Elements
    <3> QED BY <2>1, <2>3, <2>7, <2>8, <3>1 DEF WalkBetween
  <2> QED BY <2>5, <2>6, <2>9 DEF QueueInv
<1>9. ASSUME SleepInsert PROVE QueueInv'
  <2>1. sleeper # 0
    BY <1>9 DEF SleepInsert, SleepInFront, SleepBehind
  <2>2. /\ LinksInv' /\ sleeper' = 0 /\ wakeUpTime' = wakeUpTime /\ sleeper \in Threads
    BY <2>1, <1>9, InsertLinks
  <2>3. PICK k \in 1..Len(s)+1 :
          /\ queue' = [queue EXCEPT ![SleepQ] = InsertAt(s, k, sleeper)]
          /\ k > 1 => wakeUpTime[s[k-1]] <= wakeUpTime[sleeper]
          /\ \A j \in k..Len(s) : wakeUpTime[s[j]] > wakeUpTime[sleeper]
    BY <2>1, <1>9, InsertLinks
  <2>4. Sorted(InsertAt(s, k, sleeper), wakeUpTime)
    <3>1. Sorted(s, wakeUpTime)
      BY <1>2, SleepIsSorted DEF QueueInv
    <3> QED BY <3>1, <2>2, <2>3, <1>2, SortedInsert
  <2>5. queue'[SleepQ] = InsertAt(s, k, sleeper) /\ queue'[SleepQ] \in Seq(Threads)
    BY <2>2, <2>3, <1>1, <1>2 DEF LinksInv, LinkTypeOK
  <2>6. SleepSorted'
    BY <2>2, <2>4, <2>5, Elements DEF SleepSorted, Sorted
  <2> QED BY <2>2, <2>6 DEF QueueInv, WalkBetween
<1>10. CASE UNCHANGED linkVars
  BY <1>10 DEF linkVars, walkVars, QueueInv, LinksInv, LinkTypeOK, QueuedOnce,
     LinksRepresent, Represents, SleepSorted, WalkBetween, Queued
<1> QED BY <1>3, <1>4, <1>5, <1>6, <1>7, <1>8, <1>9, <1>10 DEF Next

LEMMA QueuesCorrect == Spec => []QueueInv
BY QueueInit, QueueNext, PTL DEF Spec

\* Whatever EnqueueThread, DequeueThread, ExtractThread and MTSleep are called on
\* however many queues share the links, in whatever order, every queue can be
\* walked from QHead to QTail and back, and holds the threads it should.
THEOREM LinksCorrect == Spec => []LinksRepresent
<1>1. QueueInv => LinksRepresent
  BY DEF QueueInv, LinksInv
<1> QED BY <1>1, QueuesCorrect, PTL

\* MTSleep keeps the sleep queue in order of wake-up time, which is why
\* WakeUpSleepingThreads may stop at the first thread that is not due.
THEOREM SleepQueueSorted == Spec => []SleepSorted
<1>1. QueueInv => SleepSorted
  BY DEF QueueInv
<1> QED BY <1>1, QueuesCorrect, PTL

\* In its loop MTSleep stands on a thread of the sleep queue, with only threads
\* due later than the sleeper behind: threads due together wake in order.
THEOREM WalkStaysInQueue == Spec => []WalkBetween
<1>1. QueueInv => WalkBetween
  BY DEF QueueInv
<1> QED BY <1>1, QueuesCorrect, PTL

-----------------------------------------------------------------------------
(* The refinement.                                                           *)

LEMMA FifoStep == QueueInv /\ [Next]_linkVars => [Fifo!Next]_<<queue, out>>
<1> SUFFICES ASSUME QueueInv, [Next]_linkVars
             PROVE  Fifo!Next \/ UNCHANGED <<queue, out>>
  OBVIOUS
<1>1. SleepQ \in AllQueues /\ \A q \in Queues : q \in AllQueues
  BY DEF AllQueues
<1>2. \A t : Fifo!Queued(t) <=> Queued(t)
  BY DEF Fifo!Queued, Queued, Fifo!ToSet, ToSet
<1>3. /\ queue \in [AllQueues -> Seq(Threads)] /\ queue[SleepQ] \in Seq(Threads)
      /\ LinksInv
  BY <1>1 DEF QueueInv, LinksInv, LinkTypeOK
<1>4. ASSUME NEW t \in Threads, NEW q \in Queues, EnqueueThread(t, q)
      PROVE  Fifo!Next
  <2>1. Fifo!Enqueue(t, q)
    BY <1>2, <1>4 DEF EnqueueThread, Fifo!Enqueue
  <2> QED BY <2>1, <1>1 DEF Fifo!Next
<1>5. ASSUME NEW t \in Threads, NEW q \in Queues, ExtractThread(t, q)
      PROVE  Fifo!Next
  <2>1. Fifo!Extract(t, q)
    BY <1>5 DEF ExtractThread, Fifo!Extract, RemoveAt, Fifo!RemoveAt
  <2> QED BY <2>1, <1>1 DEF Fifo!Next
<1>6. ASSUME NEW q \in AllQueues, DequeueThread(q)
      PROVE  Fifo!Next
  <2>1. Fifo!Dequeue(q)
    BY <1>6, DequeueLinks DEF Fifo!Dequeue
  <2> QED BY <2>1 DEF Fifo!Next
<1>7. ASSUME NEW t \in Threads, NEW due \in Times, SleepFirst(t, due)
      PROVE  Fifo!Next
  <2>1. queue[SleepQ] = <<>>
    BY <1>7, <1>1, <1>3, QueueOf DEF SleepFirst
  <2>2. Append(<<>>, t) = <<t>>
    OBVIOUS
  <2>3. Fifo!Enqueue(t, SleepQ)
    BY <1>2, <1>7, <2>1, <2>2 DEF SleepFirst, Fifo!Enqueue
  <2> QED BY <2>3, <1>1 DEF Fifo!Next
<1>8. ASSUME NEW t \in Threads, NEW due \in Times, SleepWalk(t, due)
      PROVE  UNCHANGED <<queue, out>>
  BY <1>8 DEF SleepWalk
<1>9. ASSUME SleepWalkOn PROVE UNCHANGED <<queue, out>>
  BY <1>9 DEF SleepWalkOn
<1>10. ASSUME SleepInsert PROVE Fifo!Next
  <2>1. sleeper # 0
    BY <1>10 DEF SleepInsert, SleepInFront, SleepBehind
  <2>2. /\ out' = 0 /\ sleeper \in Threads /\ ~Queued(sleeper)
        /\ \E k \in 1..Len(queue[SleepQ])+1 :
             queue' = [queue EXCEPT ![SleepQ] =
                         InsertAt(queue[SleepQ], k, sleeper)]
    BY <2>1, <1>10, InsertLinks
  <2>3. Fifo!Insert(sleeper, SleepQ)
    BY <2>2, <1>2 DEF Fifo!Insert, InsertAt, Fifo!InsertAt
  <2> QED BY <2>2, <2>3, <1>1 DEF Fifo!Next
<1>11. CASE UNCHANGED linkVars
  BY <1>11 DEF linkVars
<1> QED BY <1>4, <1>5, <1>6, <1>7, <1>8, <1>9, <1>10, <1>11 DEF Next

\* Every step of the links is an operation of the abstract queues or changes
\* neither them nor what the last DequeueThread returned.
THEOREM FifoImplemented == Spec => ImplementsFifo
<1>1. Init => Fifo!Init
  BY DEF Init, Fifo!Init
<1>2. QueueInv /\ [Next]_linkVars => [Fifo!Next]_<<queue, out>>
  BY FifoStep
<1> QED BY <1>1, <1>2, QueuesCorrect, PTL DEF Spec, ImplementsFifo, Fifo!Spec
=============================================================================
