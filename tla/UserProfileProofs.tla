-------------------------- MODULE UserProfileProofs --------------------------
(***************************************************************************)
(* Proofs about a profile in memory, for any runs handed to it.            *)
(*                                                                         *)
(* The lemmas are about one list (upper_bound, insertion, removal), then   *)
(* about addRun and about a merge, which both keep ProfileInv; the         *)
(* theorems follow.  Order and completeness of a list need each other: a   *)
(* position found by bisection is right only in an ordered list, and a run *)
(* is taken out of its list once only because it is there once.            *)
(*                                                                         *)
(* The sums of playtime are compared with a fold over a set of positions.  *)
(* A fold is a CHOOSE; Folds says of the function it chooses what a turn   *)
(* of the fold does, FoldExists that there is one for numbers, and the     *)
(* rest is what one more or one changed position does to it.               *)
(***************************************************************************)
EXTENDS UserProfile, SequenceTheorems, FiniteSetTheorems, WellFoundedInduction, TLAPS

Ordered(runs, list) ==
  \A j, k \in DOMAIN list : j <= k => runs[list[j]].start <= runs[list[k]].start

Lists(list, S) ==
  /\ list \in Seq(Nat)
  /\ \A k \in DOMAIN list : list[k] \in S
  /\ \A i \in S : \E k \in DOMAIN list : list[k] = i
  /\ \A j, k \in DOMAIN list : list[j] = list[k] => j = k

\* In an ordered list the bisection finds the place after all that started no later.
LEMMA UpperBoundSplits ==
  ASSUME NEW runs, NEW list \in Seq(Nat), NEW start \in Nat,
         \A k \in DOMAIN list : runs[list[k]].start \in Nat,
         Ordered(runs, list)
  PROVE  LET k == UpperBound(runs, list, start) IN
         /\ k \in 1 .. Len(list) + 1
         /\ \A j \in 1 .. k - 1 : runs[list[j]].start <= start
         /\ \A j \in k .. Len(list) : runs[list[j]].start > start
<1> DEFINE After == {k \in 1 .. Len(list) + 1 :
                       \A j \in k .. Len(list) : runs[list[j]].start > start}
<1>0. Len(list) \in Nat /\ DOMAIN list = 1 .. Len(list)
  OBVIOUS
<1>1. Len(list) + 1 \in After
  BY <1>0
<1>2. PICK m \in After : \A k \in After : ~(k < m)
  <2>1. PICK m \in After : \A k \in After : ~(<<k, m>> \in OpToRel(<, Nat))
    <3>1. After \subseteq Nat /\ After # {} BY <1>0, <1>1
    <3> HIDE DEF After
    <3>2. QED BY <3>1, WFMin, NatLessThanWellFounded, Zenon
  <2>2. After \subseteq Nat BY <1>0
  <2>3. QED BY <2>1, <2>2 DEF OpToRel
<1>3. \A j \in 1 .. m - 1 : runs[list[j]].start <= start
  <2> SUFFICES ASSUME NEW j \in 1 .. m - 1, ~(runs[list[j]].start <= start) PROVE FALSE
    OBVIOUS
  <2>1. j \in DOMAIN list /\ j \in 1 .. Len(list) + 1 /\ j < m
    BY <1>0
  <2>2. \A k \in j .. Len(list) : runs[list[k]].start > start
    <3> SUFFICES ASSUME NEW k \in j .. Len(list) PROVE runs[list[k]].start > start
      OBVIOUS
    <3>1. k \in DOMAIN list /\ j <= k
      BY <1>0, <2>1
    <3>2. runs[list[j]].start <= runs[list[k]].start
      BY <2>1, <3>1 DEF Ordered
    <3>3. runs[list[j]].start \in Nat /\ runs[list[k]].start \in Nat
      BY <2>1, <3>1
    <3> QED
      BY <3>2, <3>3
  <2>3. j \in After
    BY <2>1, <2>2
  <2>4. QED BY <1>2, <2>1, <2>3
<1>4. QED
  BY <1>2, <1>3 DEF UpperBound

\* Where the entries of a list are after an insertion.
LEMMA InsertAtEntries ==
  ASSUME NEW list \in Seq(Nat), NEW k \in 1 .. Len(list) + 1, NEW i \in Nat
  PROVE  /\ InsertAt(list, k, i) \in Seq(Nat)
         /\ Len(InsertAt(list, k, i)) = Len(list) + 1
         /\ \A j \in 1 .. Len(list) + 1 :
              InsertAt(list, k, i)[j] = IF j < k THEN list[j]
                                        ELSE IF j = k THEN i ELSE list[j - 1]
<1>1. /\ SubSeq(list, 1, k - 1) \in Seq(Nat)
      /\ Len(SubSeq(list, 1, k - 1)) = k - 1
      /\ \A j \in 1 .. k - 1 : SubSeq(list, 1, k - 1)[j] = list[j]
  BY SubSeqProperties
<1>2. /\ SubSeq(list, k, Len(list)) \in Seq(Nat)
      /\ Len(SubSeq(list, k, Len(list))) = Len(list) - k + 1
      /\ \A j \in 1 .. Len(list) - k + 1 : SubSeq(list, k, Len(list))[j] = list[k + j - 1]
  BY SubSeqProperties
<1> DEFINE front == SubSeq(list, 1, k - 1)
           back == SubSeq(list, k, Len(list))
<1> HIDE DEF front, back
<1>3. /\ front \o <<i>> \in Seq(Nat)
      /\ Len(front \o <<i>>) = k
      /\ \A j \in 1 .. k : (front \o <<i>>)[j] = IF j < k THEN list[j] ELSE i
  BY <1>1 DEF front
<1> DEFINE first == front \o <<i>>
<1>4. /\ back \in Seq(Nat) /\ Len(back) = Len(list) - k + 1
      /\ \A j \in 1 .. Len(list) - k + 1 : back[j] = list[k + j - 1]
  BY <1>2 DEF back
<1> HIDE DEF first
<1>5. first \in Seq(Nat) /\ Len(first) = k /\ k \in Nat /\ Len(list) \in Nat
  BY <1>3 DEF first
<1>6. /\ first \o back \in Seq(Nat)
      /\ Len(first \o back) = Len(first) + Len(back)
      /\ \A j \in 1 .. Len(first) + Len(back) :
           (first \o back)[j] = IF j <= Len(first) THEN first[j] ELSE back[j - Len(first)]
  BY <1>4, <1>5, ConcatProperties
<1>7. InsertAt(list, k, i) = first \o back
  BY Zenon DEF InsertAt, first, front, back
<1>8. Len(first) + Len(back) = Len(list) + 1
  BY <1>4, <1>5
<1>9. ASSUME NEW j \in 1 .. Len(list) + 1
      PROVE  (first \o back)[j] = IF j < k THEN list[j] ELSE IF j = k THEN i ELSE list[j - 1]
  <2>1. CASE j <= k
    <3>1. (first \o back)[j] = first[j]
      BY <1>5, <1>6, <1>8, <2>1
    <3>2. first[j] = IF j < k THEN list[j] ELSE i
      BY <1>3, <2>1 DEF first
    <3>3. QED BY <3>1, <3>2, <2>1
  <2>2. CASE j > k
    <3>1. (first \o back)[j] = back[j - k]
      BY <1>5, <1>6, <1>8, <2>2
    <3>2. j - k \in 1 .. Len(list) - k + 1 /\ k + (j - k) - 1 = j - 1
      BY <1>5, <2>2
    <3>3. back[j - k] = list[k + (j - k) - 1]
      BY <1>4, <3>2
    <3>4. QED BY <3>1, <3>2, <3>3, <2>2, <1>5
  <2>3. j <= k \/ j > k BY <1>5
  <2>4. QED BY <2>1, <2>2, <2>3, Zenon
<1>10. QED
  BY <1>6, <1>7, <1>8, <1>9

\* Inserting a position keeps a list ordered and adds that one entry to it.
LEMMA InsertKeepsOrder ==
  ASSUME NEW runs, NEW list, NEW S, NEW i \in Nat,
         Lists(list, S), i \notin S, runs[i].start \in Nat,
         \A j \in S : runs[j].start \in Nat,
         Ordered(runs, list)
  PROVE  Lists(Insert(runs, list, i), S \cup {i}) /\ Ordered(runs, Insert(runs, list, i))
<1> DEFINE start == runs[i].start
           k == UpperBound(runs, list, start)
           new == InsertAt(list, k, i)
<1>1. list \in Seq(Nat) /\ Len(list) \in Nat /\ DOMAIN list = 1 .. Len(list)
  BY DEF Lists
<1>2. /\ k \in 1 .. Len(list) + 1
      /\ \A j \in 1 .. k - 1 : runs[list[j]].start <= start
      /\ \A j \in k .. Len(list) : runs[list[j]].start > start
  BY <1>1, UpperBoundSplits DEF Lists
<1> HIDE DEF k
<1>3. /\ new \in Seq(Nat)
      /\ Len(new) = Len(list) + 1
      /\ \A j \in 1 .. Len(list) + 1 :
           new[j] = IF j < k THEN list[j] ELSE IF j = k THEN i ELSE list[j - 1]
  <2>1. list \in Seq(Nat) BY <1>1
  <2>2. k \in 1 .. Len(list) + 1 BY <1>2
  <2> HIDE <1>1, <1>2
  <2>3. QED BY <2>1, <2>2, InsertAtEntries
<1>4. Insert(runs, list, i) = new
  BY DEF Insert, k
<1> HIDE DEF new
<1>5. DOMAIN new = 1 .. Len(list) + 1
  BY <1>3
<1>0. /\ \A h \in DOMAIN new : h < k => h \in DOMAIN list /\ new[h] = list[h]
      /\ \A h \in DOMAIN new : h > k => h - 1 \in DOMAIN list /\ new[h] = list[h - 1]
      /\ k \in DOMAIN new /\ new[k] = i
      /\ k \in Nat /\ \A h \in DOMAIN new : h \in Nat
  BY <1>1, <1>2, <1>3, <1>5
<1>6. ASSUME NEW j \in DOMAIN new PROVE new[j] \in S \cup {i}
  <2>1. \A h \in DOMAIN list : list[h] \in S BY DEF Lists
  <2>2. j < k \/ j = k \/ j > k BY <1>0
  <2>3. QED BY <1>0, <2>1, <2>2
<1>7. ASSUME NEW x \in S \cup {i} PROVE \E j \in DOMAIN new : new[j] = x
  <2>1. CASE x = i
    BY <1>0, <2>1
  <2>2. CASE x \in S
    <3>1. PICK j \in DOMAIN list : list[j] = x
      BY <2>2 DEF Lists
    <3>2. CASE j < k
      <4>1. j \in DOMAIN new BY <1>1, <1>5, <3>1
      <4>2. QED BY <1>0, <3>1, <3>2, <4>1
    <3>3. CASE ~(j < k)
      <4>1. j + 1 \in DOMAIN new /\ j + 1 > k /\ (j + 1) - 1 = j BY <1>0, <1>1, <1>5, <3>1, <3>3
      <4>2. QED BY <1>0, <3>1, <4>1
    <3>4. QED BY <3>2, <3>3
  <2>3. QED BY <2>1, <2>2
<1>8. ASSUME NEW j \in DOMAIN new, NEW m \in DOMAIN new, new[j] = new[m] PROVE j = m
  <2>1. \A a \in DOMAIN list : list[a] # i
    BY DEF Lists
  <2>2. \A a, b \in DOMAIN list : list[a] = list[b] => a = b
    BY DEF Lists
  <2>3. CASE j < k
    <3>1. m < k \/ m > k BY <1>0, <1>8, <2>1, <2>3
    <3>2. CASE m < k BY <1>0, <1>8, <2>2, <2>3, <3>2
    <3>3. CASE m > k
      <4>1. j = m - 1 BY <1>0, <1>8, <2>2, <2>3, <3>3
      <4>2. QED BY <1>0, <2>3, <3>3, <4>1
    <3>4. QED BY <3>1, <3>2, <3>3
  <2>4. CASE j = k
    <3>1. ~(m < k) /\ ~(m > k) BY <1>0, <1>8, <2>1, <2>4
    <3>2. QED BY <1>0, <2>4, <3>1
  <2>5. CASE j > k
    <3>1. m < k \/ m > k BY <1>0, <1>8, <2>1, <2>5
    <3>2. CASE m > k
      <4>1. j - 1 = m - 1 BY <1>0, <1>8, <2>2, <2>5, <3>2
      <4>2. QED BY <1>0, <4>1
    <3>3. CASE m < k
      <4>1. j - 1 = m BY <1>0, <1>8, <2>2, <2>5, <3>3
      <4>2. QED BY <1>0, <2>5, <3>3, <4>1
    <3>4. QED BY <3>1, <3>2, <3>3
  <2>6. QED BY <1>0, <2>3, <2>4, <2>5
<1>9. ASSUME NEW j \in DOMAIN new, NEW m \in DOMAIN new, j <= m
      PROVE  runs[new[j]].start <= runs[new[m]].start
  <2>1. \A a, b \in DOMAIN list : a <= b => runs[list[a]].start <= runs[list[b]].start
    BY DEF Ordered
  <2>2. \A a \in DOMAIN list : runs[list[a]].start \in Nat
    BY DEF Lists
  <2>3. CASE m < k
    <3>1. j < k BY <1>0, <1>9, <2>3
    <3>2. QED BY <1>0, <1>9, <2>1, <2>3, <3>1
  <2>4. CASE m = k
    <3>1. new[m] = i BY <1>0, <2>4
    <3>2. CASE j = k
      <4>1. new[j] = i BY <1>0, <3>2
      <4>2. QED BY <1>1, <3>1, <4>1
    <3>3. CASE j < k
      <4>1. new[j] = list[j] /\ j \in 1 .. k - 1 BY <1>0, <1>2, <1>5, <1>9, <3>3
      <4>2. QED BY <1>2, <3>1, <4>1
    <3>4. QED BY <1>0, <1>9, <2>4, <3>2, <3>3
  <2>5. CASE m > k
    <3>1. new[m] = list[m - 1] /\ m - 1 \in k .. Len(list) /\ m - 1 \in DOMAIN list
      BY <1>1, <1>2, <1>3, <1>5, <2>5
    <3>2. CASE j < k
      <4>1. new[j] = list[j] /\ j \in DOMAIN list /\ j <= m - 1
        BY <1>1, <1>2, <1>3, <1>5, <2>5, <3>2
      <4>2. QED BY <2>1, <3>1, <4>1
    <3>3. CASE j = k
      <4>1. new[j] = i
        BY <1>3, <1>5, <3>3
      <4>2. runs[list[m - 1]].start > start
        BY <1>2, <3>1
      <4>3. QED BY <2>2, <3>1, <4>1, <4>2
    <3>4. CASE j > k
      <4>1. new[j] = list[j - 1] /\ j - 1 \in DOMAIN list /\ j - 1 <= m - 1
        BY <1>1, <1>2, <1>3, <1>5, <1>9, <3>4, SMTT(30)
      <4>2. QED BY <2>1, <3>1, <4>1
    <3>5. QED BY <1>2, <1>5, <3>2, <3>3, <3>4
  <2>6. QED BY <1>2, <1>5, <2>3, <2>4, <2>5
<1>10. Lists(new, S \cup {i})
  BY <1>3, <1>6, <1>7, <1>8 DEF Lists
<1>11. Ordered(runs, new)
  BY <1>9 DEF Ordered
<1>12. QED
  BY <1>4, <1>10, <1>11

\* Where the entries of a list are after the one entry i has been taken out.
LEMMA RemoveFirstEntries ==
  ASSUME NEW list \in Seq(Nat), NEW m \in DOMAIN list, NEW i \in Nat, list[m] = i,
         \A j \in DOMAIN list : list[j] = i => j = m
  PROVE  /\ RemoveFirst(list, i) \in Seq(Nat)
         /\ Len(RemoveFirst(list, i)) = Len(list) - 1
         /\ \A j \in 1 .. Len(list) - 1 :
              RemoveFirst(list, i)[j] = IF j < m THEN list[j] ELSE list[j + 1]
<1>1. Len(list) \in Nat /\ DOMAIN list = 1 .. Len(list) /\ m \in 1 .. Len(list) /\ m \in Nat
  OBVIOUS
<1>2. {j \in 1 .. Len(list) : list[j] = i} = {m}
  BY <1>1
<1>3. Min({m}) = m
  BY <1>1 DEF Min
<1>4. SelectInSeq(list, LAMBDA v : v = i) = m
  <2>1. SelectInSeq(list, LAMBDA v : v = i) =
          IF {j \in 1 .. Len(list) : list[j] = i} # {}
          THEN Min({j \in 1 .. Len(list) : list[j] = i}) ELSE 0
    BY Zenon DEF SelectInSeq
  <2>2. QED BY <1>2, <1>3, <2>1
<1>5. RemoveFirst(list, i) = SubSeq(list, 1, m - 1) \o SubSeq(list, m + 1, Len(list))
  BY <1>1, <1>4 DEF RemoveFirst, RemoveAt
<1> DEFINE front == SubSeq(list, 1, m - 1)
           back == SubSeq(list, m + 1, Len(list))
<1>6. /\ front \in Seq(Nat) /\ Len(front) = m - 1
      /\ \A j \in 1 .. m - 1 : front[j] = list[j]
  BY <1>1, SubSeqProperties
<1>7. /\ back \in Seq(Nat) /\ Len(back) = Len(list) - m
      /\ \A j \in 1 .. Len(list) - m : back[j] = list[m + j]
  <2>1. m + 1 \in Int /\ Len(list) \in Int /\ \A j \in m + 1 .. Len(list) : list[j] \in Nat
    BY <1>1
  <2>2. /\ back \in Seq(Nat)
        /\ Len(back) = IF m + 1 <= Len(list) THEN Len(list) - (m + 1) + 1 ELSE 0
        /\ \A j \in 1 .. Len(list) - (m + 1) + 1 : back[j] = list[(m + 1) + j - 1]
    BY <2>1, SubSeqProperties
  <2> HIDE DEF back
  <2>3. ASSUME NEW j \in 1 .. Len(list) - m PROVE back[j] = list[m + j]
    <3>1. j \in 1 .. Len(list) - (m + 1) + 1 /\ (m + 1) + j - 1 = m + j BY <1>1
    <3>2. QED BY <2>2, <3>1
  <2>4. Len(back) = Len(list) - m
    <3>1. Len(back) = IF m + 1 <= Len(list) THEN Len(list) - (m + 1) + 1 ELSE 0
      BY <2>2
    <3>2. CASE m + 1 <= Len(list) BY ONLY <1>1, <3>1, <3>2
    <3>3. CASE ~(m + 1 <= Len(list))
      <4>1. m = Len(list) /\ Len(list) - m = 0 BY ONLY <1>1, <3>3
      <4>2. QED BY <3>1, <3>3, <4>1
    <3>4. QED BY <3>2, <3>3
  <2>5. QED BY <2>2, <2>3, <2>4, Zenon
<1> HIDE DEF front, back
<1>8. /\ front \o back \in Seq(Nat)
      /\ Len(front \o back) = Len(front) + Len(back)
      /\ \A j \in 1 .. Len(front) + Len(back) :
           (front \o back)[j] = IF j <= Len(front) THEN front[j] ELSE back[j - Len(front)]
  BY <1>6, <1>7, ConcatProperties
<1>9. Len(front) + Len(back) = Len(list) - 1
  BY <1>1, <1>6, <1>7
<1>10. ASSUME NEW j \in 1 .. Len(list) - 1
       PROVE  (front \o back)[j] = IF j < m THEN list[j] ELSE list[j + 1]
  <2>1. CASE j < m
    <3>1. j \in 1 .. m - 1 /\ j <= Len(front) BY <1>1, <1>6, <2>1
    <3>2. QED BY <1>6, <1>8, <1>9, <2>1, <3>1
  <2>2. CASE ~(j < m)
    <3>1. /\ ~(j <= Len(front)) /\ j - Len(front) \in 1 .. Len(list) - m
          /\ m + (j - Len(front)) = j + 1
      BY <1>1, <1>6, <2>2
    <3>2. back[j - Len(front)] = list[j + 1] BY <1>7, <3>1
    <3>3. QED BY <1>8, <1>9, <2>2, <3>1, <3>2
  <2>3. QED BY <2>1, <2>2
<1>11. RemoveFirst(list, i) = front \o back
  BY <1>5 DEF front, back
<1>12. QED BY <1>8, <1>9, <1>10, <1>11

\* Taking a position out of a list keeps the order of the others, also when the
\* run at that position has already been given another start.
LEMMA RemoveKeepsOrder ==
  ASSUME NEW runs, NEW list, NEW S, NEW i \in S, i \in Nat,
         Lists(list, S),
         \A j, k \in DOMAIN list : j <= k /\ list[j] # i /\ list[k] # i
                                     => runs[list[j]].start <= runs[list[k]].start
  PROVE  Lists(RemoveFirst(list, i), S \ {i}) /\ Ordered(runs, RemoveFirst(list, i))
<1> DEFINE new == RemoveFirst(list, i)
<1>1. list \in Seq(Nat) /\ Len(list) \in Nat /\ DOMAIN list = 1 .. Len(list)
  BY DEF Lists
<1>2. PICK m \in DOMAIN list : list[m] = i
  BY DEF Lists
<1>3. \A j \in DOMAIN list : list[j] = i => j = m
  BY <1>2 DEF Lists
<1>4. /\ new \in Seq(Nat)
      /\ Len(new) = Len(list) - 1
      /\ \A j \in 1 .. Len(list) - 1 : new[j] = IF j < m THEN list[j] ELSE list[j + 1]
  <2>1. list \in Seq(Nat) BY <1>1
  <2>2. QED BY <2>1, <1>2, <1>3, RemoveFirstEntries
<1> HIDE DEF new
<1> DEFINE old(j) == IF j < m THEN j ELSE j + 1
<1>5. ASSUME NEW j \in DOMAIN new
      PROVE  /\ j \in Nat /\ old(j) \in DOMAIN list /\ old(j) # m
             /\ new[j] = list[old(j)] /\ new[j] # i
  <2>1. j \in 1 .. Len(list) - 1 /\ m \in Nat BY <1>1, <1>2, <1>4
  <2>2. old(j) \in DOMAIN list /\ old(j) # m BY <1>1, <2>1
  <2>3. new[j] = list[old(j)] BY <1>4, <2>1
  <2>4. QED BY <1>3, <2>1, <2>2, <2>3
<1>6. \A j \in DOMAIN new : new[j] \in S \ {i}
  <2>1. \A j \in DOMAIN list : list[j] \in S BY DEF Lists
  <2> HIDE DEF old
  <2>2. QED BY <1>5, <2>1
<1>7. ASSUME NEW x \in S \ {i} PROVE \E j \in DOMAIN new : new[j] = x
  <2>1. PICK k \in DOMAIN list : list[k] = x
    BY DEF Lists
  <2>2. k # m /\ k \in Nat /\ m \in Nat
    BY <1>1, <1>2, <2>1
  <2>3. CASE k < m
    <3>1. k \in 1 .. Len(list) - 1
      BY <1>1, <1>2, <2>2, <2>3
    <3>2. k \in DOMAIN new
      BY <1>1, <1>4, <3>1
    <3>3. new[k] = list[k]
      BY <1>4, <2>3, <3>1
    <3>4. QED BY <2>1, <3>2, <3>3
  <2>4. CASE k > m
    <3>1. k - 1 \in DOMAIN new /\ new[k - 1] = list[k]
      BY <1>1, <1>2, <1>4, <2>1, <2>2, <2>4
    <3>2. QED BY <2>1, <3>1
  <2>5. QED BY <2>2, <2>3, <2>4
<1>8. ASSUME NEW j \in DOMAIN new, NEW k \in DOMAIN new, new[j] = new[k] PROVE j = k
  <2>1. old(j) = old(k)
    <3>1. \A a, b \in DOMAIN list : list[a] = list[b] => a = b BY DEF Lists
    <3> HIDE DEF old
    <3>2. QED BY <1>5, <1>8, <3>1
  <2>2. j \in Nat /\ k \in Nat /\ m \in Nat BY <1>1, <1>2, <1>5
  <2>3. QED BY <2>1, <2>2
<1>9. ASSUME NEW j \in DOMAIN new, NEW k \in DOMAIN new, j <= k
      PROVE  runs[new[j]].start <= runs[new[k]].start
  <2>1. j \in Nat /\ k \in Nat /\ m \in Nat BY <1>1, <1>2, <1>5
  <2>2. old(j) <= old(k) BY <1>9, <2>1
  <2> HIDE DEF old
  <2>3. QED BY <1>5, <2>2
<1>10. QED
  BY <1>4, <1>6, <1>7, <1>8, <1>9 DEF new, Lists, Ordered
-----------------------------------------------------------------------------
(* The profile.                                                             *)

Shaped(p) ==
  /\ p = [runs |-> p.runs, index |-> p.index, history |-> p.history, time |-> p.time,
          count |-> p.count, total |-> p.total, latest |-> p.latest]
  /\ p.runs \in Seq(Runs)
  /\ p.index = [id \in DOMAIN p.index |-> p.index[id]]
  /\ p.history = [s \in Scenarios |-> p.history[s]]

RunsOf(p, s) == {i \in Positions(p) : p.runs[i].scenario = s}

HistoriesExact(p) ==
  \A s \in Scenarios : Lists(p.history[s], RunsOf(p, s)) /\ Ordered(p.runs, p.history[s])

ProfileInv(p) == Shaped(p) /\ HistoriesExact(p) /\ IndexExactIn(p) /\ LatestExactIn(p)

\* The runs of a well-shaped profile.
LEMMA RunsTyped ==
  ASSUME NEW p, Shaped(p)
  PROVE  /\ Len(p.runs) \in Nat /\ DOMAIN p.runs = Positions(p)
         /\ \A i \in Positions(p) : /\ p.runs[i] \in Runs
                                    /\ p.runs[i].start \in Nat
                                    /\ p.runs[i].scenario \in Scenarios
<1>1. p.runs \in Seq(Runs)
  BY DEF Shaped
<1>2. Len(p.runs) \in Nat /\ DOMAIN p.runs = Positions(p)
  BY <1>1 DEF Positions
<1>3. \A i \in Positions(p) : p.runs[i] \in Runs
  BY <1>1, <1>2 DEF Positions
<1>4. \A run \in Runs : run.start \in Nat /\ run.scenario \in Scenarios
  BY DEF Runs
<1>5. QED BY <1>2, <1>3, <1>4

\* addRun keeps the invariant.
LEMMA AddRunKeeps ==
  ASSUME NEW p, ProfileInv(p), NEW run \in Runs, Id(run) \notin DOMAIN p.index
  PROVE  ProfileInv(AddRun(p, run))
<1> DEFINE i == Len(p.runs) + 1
           runs == Append(p.runs, run)
           q == AddRun(p, run)
<1>1. /\ Shaped(p) /\ HistoriesExact(p) /\ IndexExactIn(p) /\ LatestExactIn(p)
      /\ Len(p.runs) \in Nat /\ DOMAIN p.runs = Positions(p)
      /\ \A j \in Positions(p) : /\ p.runs[j] \in Runs
                                 /\ p.runs[j].start \in Nat
                                 /\ p.runs[j].scenario \in Scenarios
  BY RunsTyped DEF ProfileInv
<1>2. run.scenario \in Scenarios /\ run.start \in Nat
  BY DEF Runs
<1>3. /\ runs \in Seq(Runs) /\ Len(runs) = i /\ runs[i] = run
      /\ \A j \in Positions(p) : runs[j] = p.runs[j]
  BY <1>1 DEF Shaped, Positions
<1>4. i \in Nat /\ i \notin Positions(p) /\ 1 .. i = Positions(p) \cup {i}
  BY <1>1 DEF Positions
<1>5. /\ q.runs = runs
      /\ q.index = [id \in DOMAIN p.index \cup {Id(run)} |->
                      IF id = Id(run) THEN i ELSE p.index[id]]
      /\ q.history = [p.history EXCEPT ![run.scenario] = Insert(runs, @, i)]
      /\ q.latest = IF p.latest = None \/ run.start > p.runs[p.latest].start THEN i ELSE p.latest
      /\ q = [runs |-> q.runs, index |-> q.index, history |-> q.history, time |-> q.time,
              count |-> q.count, total |-> q.total, latest |-> q.latest]
  BY DEF AddRun
<1> HIDE DEF q, runs, i
<1>6. Positions(q) = Positions(p) \cup {i}
  BY <1>3, <1>4, <1>5 DEF Positions
<1>7. Shaped(q)
  <2>1. q.index = [id \in DOMAIN q.index |-> q.index[id]] BY <1>5
  <2>2. q.history = [s \in Scenarios |-> q.history[s]] BY <1>1, <1>5 DEF Shaped
  <2>3. QED BY <1>3, <1>5, <2>1, <2>2 DEF Shaped
<1>8. IndexExactIn(q)
  <2>1. \A j \in Positions(q) : q.runs[j] = IF j = i THEN run ELSE p.runs[j]
    BY <1>3, <1>4, <1>5, <1>6
  <2>2. DOMAIN q.index = DOMAIN p.index \cup {Id(run)}
    BY <1>5
  <2>3. DOMAIN p.index = {Id(p.runs[j]) : j \in Positions(p)}
    BY <1>1 DEF IndexExactIn
  <2>4. DOMAIN q.index = {Id(q.runs[j]) : j \in Positions(q)}
    BY <1>4, <1>6, <2>1, <2>2, <2>3
  <2>5. ASSUME NEW j \in Positions(q) PROVE q.index[Id(q.runs[j])] = j
    <3>1. CASE j = i
      BY <1>5, <2>1, <3>1
    <3>2. CASE j # i
      <4>1. j \in Positions(p) /\ Id(q.runs[j]) = Id(p.runs[j]) BY <1>6, <2>1, <3>2
      <4>2. Id(p.runs[j]) \in DOMAIN p.index /\ Id(p.runs[j]) # Id(run) BY <2>3, <4>1
      <4>3. QED BY <1>1, <1>5, <4>1, <4>2 DEF IndexExactIn
    <3>3. QED BY <3>1, <3>2
  <2>6. QED BY <2>4, <2>5 DEF IndexExactIn
<1>9. HistoriesExact(q)
  <2> SUFFICES ASSUME NEW s \in Scenarios
               PROVE  Lists(q.history[s], RunsOf(q, s)) /\ Ordered(q.runs, q.history[s])
    BY DEF HistoriesExact
  <2>1. /\ Lists(p.history[s], RunsOf(p, s)) /\ Ordered(p.runs, p.history[s])
        /\ RunsOf(p, s) \subseteq Positions(p)
    BY <1>1 DEF HistoriesExact, RunsOf
  <2>2. Ordered(runs, p.history[s])
    <3>1. \A k \in DOMAIN p.history[s] : p.history[s][k] \in Positions(p)
      BY <2>1 DEF Lists
    <3>2. QED BY <1>3, <2>1, <3>1 DEF Ordered
  <2>3. CASE s # run.scenario
    <3>1. RunsOf(q, s) = RunsOf(p, s)
      BY <1>3, <1>5, <1>6, <2>3 DEF RunsOf
    <3>2. q.history[s] = p.history[s]
      BY <1>1, <1>5, <2>3 DEF Shaped
    <3>3. QED BY <1>5, <2>1, <2>2, <3>1, <3>2
  <2>4. CASE s = run.scenario
    <3>1. RunsOf(q, s) = RunsOf(p, s) \cup {i}
      BY <1>3, <1>5, <1>6, <2>4 DEF RunsOf
    <3>2. q.history[s] = Insert(runs, p.history[s], i)
      BY <1>1, <1>5, <2>4 DEF Shaped
    <3>3. /\ i \in Nat /\ i \notin RunsOf(p, s) /\ runs[i].start \in Nat
          /\ \A j \in RunsOf(p, s) : runs[j].start \in Nat
      BY <1>1, <1>2, <1>3, <1>4, <2>1
    <3>4. Lists(Insert(runs, p.history[s], i), RunsOf(p, s) \cup {i})
            /\ Ordered(runs, Insert(runs, p.history[s], i))
      BY <2>1, <2>2, <3>3, InsertKeepsOrder
    <3>5. QED BY <1>5, <3>1, <3>2, <3>4
  <2>5. QED BY <2>3, <2>4
<1>10. LatestExactIn(q)
  <2>1. q.runs # <<>>
    BY <1>3, <1>4, <1>5
  <2>2. CASE p.runs = <<>>
    <3>1. p.latest = None /\ Positions(p) = {} BY <1>1, <2>2 DEF LatestExactIn, Positions
    <3>2. QED BY <1>2, <1>3, <1>5, <1>6, <2>1, <3>1 DEF LatestExactIn
  <2>3. CASE p.runs # <<>>
    <3>1. /\ p.latest \in Positions(p)
          /\ \A j \in Positions(p) : p.runs[j].start <= p.runs[p.latest].start
      BY <1>1, <2>3 DEF LatestExactIn
    <3>2. p.latest # None BY <3>1 DEF Positions, None
    <3>3. \A j \in Positions(q) : q.runs[j].start = IF j = i THEN run.start ELSE p.runs[j].start
      BY <1>3, <1>4, <1>5, <1>6
    <3>4. p.runs[p.latest].start \in Nat /\ p.latest # i
      BY <1>1, <1>4, <3>1
    <3>5. CASE run.start > p.runs[p.latest].start
      <4>1. q.latest = i BY <1>5, <3>5
      <4>2. \A j \in Positions(q) : q.runs[j].start <= run.start
        BY <1>1, <1>2, <1>6, <3>1, <3>3, <3>4, <3>5
      <4>3. QED BY <1>3, <1>5, <1>6, <2>1, <4>1, <4>2 DEF LatestExactIn
    <3>6. CASE ~(run.start > p.runs[p.latest].start)
      <4>1. q.latest = p.latest BY <1>5, <3>2, <3>6
      <4>2. q.runs[q.latest].start = p.runs[p.latest].start BY <1>6, <3>1, <3>3, <3>4, <4>1
      <4>3. \A j \in Positions(q) : q.runs[j].start <= p.runs[p.latest].start
        BY <1>2, <1>6, <3>1, <3>3, <3>4, <3>6
      <4>4. QED BY <1>6, <2>1, <3>1, <4>1, <4>2, <4>3 DEF LatestExactIn
    <3>7. QED BY <3>5, <3>6
  <2>4. QED BY <2>2, <2>3
<1>11. QED BY <1>7, <1>8, <1>9, <1>10 DEF ProfileInv, q

LEMMA LeastExists ==
  ASSUME NEW T, T \subseteq Nat, T # {}
  PROVE  \E m \in T : \A k \in T : m <= k
<1>1. PICK m \in T : \A k \in T : ~(<<k, m>> \in OpToRel(<, Nat))
  BY WFMin, NatLessThanWellFounded, Zenon
<1>2. \A k \in T : ~(k < m)
  BY <1>1 DEF OpToRel
<1>3. QED BY <1>2

\* max_element finds a run that started last.
LEMMA FirstLatestExists ==
  ASSUME NEW runs, NEW n \in Nat \ {0}, DOMAIN runs = 1 .. n,
         \A j \in 1 .. n : runs[j].start \in Nat
  PROVE  /\ FirstLatest(runs) \in 1 .. n
         /\ \A j \in 1 .. n : runs[j].start <= runs[FirstLatest(runs)].start
<1> DEFINE Tops(k) == {i \in 1 .. n : \A j \in 1 .. k : runs[j].start <= runs[i].start}
           Lost == {k \in 1 .. n : Tops(k) = {}}
<1>1. Lost = {}
  <2> SUFFICES ASSUME Lost # {} PROVE FALSE
    OBVIOUS
  <2>1. PICK k \in Lost : \A h \in Lost : k <= h
    <3>1. Lost \subseteq Nat OBVIOUS
    <3> HIDE DEF Lost
    <3>2. QED BY <3>1, LeastExists
  <2>2. k \in 1 .. n /\ Tops(k) = {}
    OBVIOUS
  <2>3. CASE k = 1
    <3>1. 1 \in Tops(1) OBVIOUS
    <3>2. QED BY <2>2, <2>3, <3>1
  <2>4. CASE k # 1
    <3>1. k - 1 \in 1 .. n /\ k - 1 \notin Lost
      <4> HIDE DEF Lost
      <4>1. k - 1 \in 1 .. n /\ ~(k <= k - 1) BY <2>2, <2>4
      <4>2. QED BY <2>1, <4>1
    <3>2. PICK i \in 1 .. n : \A j \in 1 .. k - 1 : runs[j].start <= runs[i].start
      BY <3>1
    <3>3. CASE runs[k].start <= runs[i].start
      <4>1. i \in Tops(k) BY <2>2, <3>2, <3>3
      <4>2. QED BY <2>2, <4>1
    <3>4. CASE ~(runs[k].start <= runs[i].start)
      <4>1. k \in Tops(k) BY <2>2, <3>2, <3>4
      <4>2. QED BY <2>2, <4>1
    <3>5. QED BY <3>3, <3>4
  <2>5. QED BY <2>3, <2>4
<1>2. Tops(n) # {}
  BY <1>1
<1>3. PICK i \in Tops(n) : \A k \in Tops(n) : i <= k
  <2>1. Tops(n) \subseteq Nat OBVIOUS
  <2> HIDE DEF Tops
  <2>2. QED BY <1>2, <2>1, LeastExists
<1>4. \A j \in 1 .. i - 1 : runs[j].start < runs[i].start
  <2> SUFFICES ASSUME NEW j \in 1 .. i - 1, ~(runs[j].start < runs[i].start) PROVE FALSE
    OBVIOUS
  <2>1. j \in 1 .. n /\ j < i /\ i \in 1 .. n
    OBVIOUS
  <2>2. j \in Tops(n)
    BY <2>1
  <2>3. QED BY <1>3, <2>1, <2>2
<1>5. \E k \in DOMAIN runs : /\ \A j \in DOMAIN runs : runs[j].start <= runs[k].start
                             /\ \A j \in 1 .. k - 1 : runs[j].start < runs[k].start
  BY <1>3, <1>4
<1>6. QED BY <1>5 DEF FirstLatest

\* What an enrichment leaves alone.
LEMMA EnrichedFields ==
  ASSUME NEW p, NEW i, NEW run,
         p = [runs |-> p.runs, index |-> p.index, history |-> p.history, time |-> p.time,
              count |-> p.count, total |-> p.total, latest |-> p.latest]
  PROVE  LET e == Enriched(p, i, run) IN
         /\ e.runs = [p.runs EXCEPT ![i] = run]
         /\ e.index = p.index /\ e.history = p.history /\ e.latest = p.latest
         /\ e = [runs |-> e.runs, index |-> e.index, history |-> e.history, time |-> e.time,
                 count |-> e.count, total |-> e.total, latest |-> e.latest]
<1> DEFINE e == Enriched(p, i, run)
           runs == [p.runs EXCEPT ![i] = run]
           time == [p.time EXCEPT ![run.scenario] = @ + run.length - p.runs[i].length]
           total == p.total + run.length - p.runs[i].length
<1>1. e = [p EXCEPT !.runs = runs, !.time = time, !.total = total]
  BY Zenon DEF Enriched
<1> HIDE DEF e, runs, time, total
<1>2. e = [runs |-> runs, index |-> p.index, history |-> p.history, time |-> time,
           count |-> p.count, total |-> total, latest |-> p.latest]
  BY <1>1
<1>3. QED BY <1>2 DEF e, runs

LEMMA RekeyedRuns ==
  ASSUME NEW p, NEW i, NEW run, NEW oldId,
         p = [runs |-> p.runs, index |-> p.index, history |-> p.history, time |-> p.time,
              count |-> p.count, total |-> p.total, latest |-> p.latest]
  PROVE  Rekeyed(Enriched(p, i, run), i, oldId).runs = [p.runs EXCEPT ![i] = run]
<1> DEFINE e == Enriched(p, i, run)
<1>1. /\ e.runs = [p.runs EXCEPT ![i] = run]
      /\ e = [runs |-> e.runs, index |-> e.index, history |-> e.history, time |-> e.time,
              count |-> e.count, total |-> e.total, latest |-> e.latest]
  BY EnrichedFields
<1> HIDE DEF e
<1>2. Rekeyed(e, i, oldId).runs = e.runs
  BY <1>1 DEF Rekeyed
<1>3. QED BY <1>1, <1>2 DEF e

LEMMA RekeyedTimes ==
  ASSUME NEW p, NEW i, NEW run, NEW oldId,
         p = [runs |-> p.runs, index |-> p.index, history |-> p.history, time |-> p.time,
              count |-> p.count, total |-> p.total, latest |-> p.latest]
  PROVE  LET e == Enriched(p, i, run)
             r == Rekeyed(e, i, oldId) IN
         r.runs = e.runs /\ r.time = e.time /\ r.count = e.count /\ r.total = e.total
<1> DEFINE e == Enriched(p, i, run)
<1>1. /\ e.runs = [p.runs EXCEPT ![i] = run]
      /\ e = [runs |-> e.runs, index |-> e.index, history |-> e.history, time |-> e.time,
              count |-> e.count, total |-> e.total, latest |-> e.latest]
  BY EnrichedFields
<1> HIDE DEF e
<1> DEFINE r == Rekeyed(e, i, oldId)
<1>2. r.runs = e.runs /\ r.time = e.time /\ r.count = e.count /\ r.total = e.total
  BY <1>1 DEF Rekeyed
<1>3. QED BY <1>2 DEF e

\* Run i is given other sources, another length, and perhaps another start.
LEMMA MergeKeeps ==
  ASSUME NEW p, ProfileInv(p), NEW i \in Positions(p), NEW run \in Runs,
         run.scenario = p.runs[i].scenario,
         Id(run) = Id(p.runs[i]) \/ Id(run) \notin DOMAIN p.index
  PROVE  ProfileInv(IF Id(run) = Id(p.runs[i]) THEN Enriched(p, i, run)
                    ELSE Rekeyed(Enriched(p, i, run), i, Id(p.runs[i])))
<1> DEFINE known == Id(p.runs[i])
           e == Enriched(p, i, run)
           runs == [p.runs EXCEPT ![i] = run]
<1>1. /\ Shaped(p) /\ HistoriesExact(p) /\ IndexExactIn(p) /\ LatestExactIn(p)
      /\ Len(p.runs) \in Nat /\ DOMAIN p.runs = Positions(p)
      /\ \A j \in Positions(p) : /\ p.runs[j] \in Runs
                                 /\ p.runs[j].start \in Nat
                                 /\ p.runs[j].scenario \in Scenarios
  BY RunsTyped DEF ProfileInv
<1>2. run.scenario \in Scenarios /\ run.start \in Nat /\ i \in Nat
  BY DEF Runs, Positions
<1>3. /\ runs \in Seq(Runs) /\ Len(runs) = Len(p.runs) /\ DOMAIN runs = Positions(p)
      /\ \A j \in Positions(p) : runs[j] = IF j = i THEN run ELSE p.runs[j]
  <2>1. p.runs \in Seq(Runs) BY <1>1 DEF Shaped
  <2>2. runs \in Seq(Runs) /\ Len(runs) = Len(p.runs) BY <1>1, <2>1 DEF Positions
  <2>3. QED BY <1>1, <2>2
<1>4. /\ e.runs = runs /\ e.index = p.index /\ e.history = p.history /\ e.latest = p.latest
      /\ e = [runs |-> e.runs, index |-> e.index, history |-> e.history, time |-> e.time,
              count |-> e.count, total |-> e.total, latest |-> e.latest]
  BY <1>1, EnrichedFields DEF Shaped
<1> HIDE DEF e, runs
<1>5. /\ Positions(e) = Positions(p)
      /\ \A j \in Positions(p) : e.runs[j] = IF j = i THEN run ELSE p.runs[j]
  BY <1>3, <1>4 DEF Positions
<1>6. Shaped(e)
  BY <1>1, <1>3, <1>4 DEF Shaped
<1>7. \A s \in Scenarios : RunsOf(e, s) = RunsOf(p, s) /\ RunsOf(p, s) \subseteq Positions(p)
  BY <1>1, <1>5 DEF RunsOf
<1>8. e.runs # <<>> /\ p.runs # <<>>
  <2>1. Len(p.runs) # 0 BY <1>1 DEF Positions
  <2>2. QED BY <1>1, <1>3, <1>4, <2>1
<1>9. CASE Id(run) = known
  <2>1. run.start = p.runs[i].start
    BY <1>9 DEF Id
  <2>2. \A j \in Positions(p) : /\ e.runs[j].start = p.runs[j].start
                                /\ Id(e.runs[j]) = Id(p.runs[j])
    BY <1>5, <1>9, <2>1
  <2>3. IndexExactIn(e)
    BY <1>1, <1>4, <1>5, <2>2 DEF IndexExactIn
  <2>4. HistoriesExact(e)
    <3> SUFFICES ASSUME NEW s \in Scenarios
                 PROVE  Lists(e.history[s], RunsOf(e, s)) /\ Ordered(e.runs, e.history[s])
      BY DEF HistoriesExact
    <3>1. Lists(p.history[s], RunsOf(p, s)) /\ Ordered(p.runs, p.history[s])
      BY <1>1 DEF HistoriesExact
    <3>2. \A k \in DOMAIN p.history[s] : p.history[s][k] \in Positions(p)
      BY <1>7, <3>1 DEF Lists
    <3>3. Ordered(e.runs, p.history[s])
      BY <2>2, <3>1, <3>2 DEF Ordered
    <3>4. QED BY <1>4, <1>7, <3>1, <3>3
  <2>5. LatestExactIn(e)
    BY <1>1, <1>4, <1>5, <1>8, <2>2 DEF LatestExactIn
  <2>6. ProfileInv(e)
    BY <1>6, <2>3, <2>4, <2>5 DEF ProfileInv
  <2>7. QED BY <1>9, <2>6 DEF e
<1>10. CASE Id(run) # known
  <2> DEFINE q == Rekeyed(e, i, known)
             home == run.scenario
  <2>0. e.runs[i] = run /\ Id(run) \notin DOMAIN p.index
    BY <1>5, <1>10
  <2>1. /\ q.runs = e.runs
        /\ q.index = [id \in (DOMAIN p.index \ {known}) \cup {Id(run)} |->
                        IF id = Id(run) THEN i ELSE p.index[id]]
        /\ q.history = [p.history EXCEPT ![home] = Reinsert(e.runs, @, i)]
        /\ q.latest = FirstLatest(e.runs)
        /\ q = [runs |-> q.runs, index |-> q.index, history |-> q.history, time |-> q.time,
                count |-> q.count, total |-> q.total, latest |-> q.latest]
    <3>1. Id(run).scenario = home BY DEF Id
    <3>2. q = [e EXCEPT !.index = [id \in (DOMAIN e.index \ {known}) \cup {Id(run)} |->
                                     IF id = Id(run) THEN i ELSE e.index[id]],
                        !.history[home] = Reinsert(e.runs, @, i),
                        !.latest = FirstLatest(e.runs)]
      BY <2>0, <3>1, Zenon DEF Rekeyed
    <3> HIDE DEF q
    <3>3. QED BY <1>4, <3>2
  <2> HIDE DEF q
  <2>2. Positions(q) = Positions(p) /\ q.runs = e.runs
    BY <1>5, <2>1 DEF Positions
  <2>3. Shaped(q)
    <3>1. q.index = [id \in DOMAIN q.index |-> q.index[id]] BY <2>1
    <3>2. q.history = [s \in Scenarios |-> q.history[s]] BY <1>1, <2>1 DEF Shaped
    <3>3. q.runs \in Seq(Runs) BY <1>3, <1>4, <2>1
    <3>4. QED BY <2>1, <3>1, <3>2, <3>3 DEF Shaped
  <2>4. IndexExactIn(q)
    <3>1. /\ DOMAIN p.index = {Id(p.runs[j]) : j \in Positions(p)}
          /\ \A j \in Positions(p) : p.index[Id(p.runs[j])] = j
      BY <1>1 DEF IndexExactIn
    <3>2. \A j \in Positions(p) : j # i => Id(p.runs[j]) # known
      BY <3>1
    <3>3. \A j \in Positions(p) : Id(q.runs[j]) = IF j = i THEN Id(run) ELSE Id(p.runs[j])
      BY <1>5, <2>2
    <3>4. DOMAIN q.index = (DOMAIN p.index \ {known}) \cup {Id(run)}
      BY <2>1
    <3>5. DOMAIN q.index = {Id(q.runs[j]) : j \in Positions(q)}
      BY <2>2, <3>1, <3>2, <3>3, <3>4
    <3>6. ASSUME NEW j \in Positions(q) PROVE q.index[Id(q.runs[j])] = j
      <4>1. CASE j = i
        BY <2>1, <2>2, <3>3, <4>1
      <4>2. CASE j # i
        <5>1. /\ j \in Positions(p) /\ Id(q.runs[j]) = Id(p.runs[j])
              /\ Id(p.runs[j]) \in DOMAIN p.index /\ Id(p.runs[j]) # known
          BY <2>2, <3>1, <3>2, <3>3, <4>2
        <5>2. Id(p.runs[j]) # Id(run) BY <2>0, <5>1
        <5>3. QED BY <2>1, <3>1, <5>1, <5>2
      <4>3. QED BY <4>1, <4>2
    <3>7. QED BY <3>5, <3>6 DEF IndexExactIn
  <2>5. HistoriesExact(q)
    <3> SUFFICES ASSUME NEW s \in Scenarios
                 PROVE  Lists(q.history[s], RunsOf(q, s)) /\ Ordered(q.runs, q.history[s])
      BY DEF HistoriesExact
    <3> DEFINE list == p.history[s]
               S == RunsOf(p, s)
    <3>1. Lists(list, S) /\ Ordered(p.runs, list)
      BY <1>1 DEF HistoriesExact
    <3>2. RunsOf(q, s) = S
      <4>1. \A j \in Positions(p) : q.runs[j].scenario = p.runs[j].scenario
        BY <1>5, <2>2
      <4>2. QED BY <2>2, <4>1 DEF RunsOf
    <3>3. /\ \A j \in S : j \in Positions(p) /\ j \in Nat
          /\ \A k \in DOMAIN list : list[k] \in S
      BY <3>1 DEF RunsOf, Positions, Lists
    <3>4. \A j, k \in DOMAIN list : j <= k /\ list[j] # i /\ list[k] # i
                                      => e.runs[list[j]].start <= e.runs[list[k]].start
      <4>1. \A k \in DOMAIN list : list[k] # i => e.runs[list[k]] = p.runs[list[k]]
        BY <1>5, <3>3
      <4>2. QED BY <3>1, <4>1 DEF Ordered
    <3> HIDE DEF list, S
    <3>5. CASE s # home
      <4>1. q.history[s] = list BY <1>1, <2>1, <3>5 DEF Shaped, list
      <4>2. i \notin S BY <3>5 DEF S, RunsOf
      <4>3. Ordered(e.runs, list)
        BY <3>3, <3>4, <4>2 DEF Ordered
      <4>4. QED BY <2>2, <3>1, <3>2, <4>1, <4>3
    <3>6. CASE s = home
      <4>1. q.history[s] = Insert(e.runs, RemoveFirst(list, i), i)
        BY <1>1, <2>1, <3>6 DEF Shaped, Reinsert, list
      <4>2. i \in S BY <3>6 DEF S, RunsOf
      <4>3. Lists(RemoveFirst(list, i), S \ {i}) /\ Ordered(e.runs, RemoveFirst(list, i))
        BY <1>2, <3>1, <3>4, <4>2, RemoveKeepsOrder
      <4>4. /\ e.runs[i].start \in Nat /\ i \notin S \ {i}
            /\ \A j \in S \ {i} : e.runs[j].start \in Nat
        BY <1>1, <1>2, <1>5, <2>0, <3>3
      <4>5. Lists(Insert(e.runs, RemoveFirst(list, i), i), (S \ {i}) \cup {i})
              /\ Ordered(e.runs, Insert(e.runs, RemoveFirst(list, i), i))
        BY <1>2, <4>3, <4>4, InsertKeepsOrder
      <4>6. (S \ {i}) \cup {i} = S BY <4>2
      <4>7. QED BY <2>2, <3>2, <4>1, <4>5, <4>6
    <3>7. QED BY <3>5, <3>6
  <2>6. LatestExactIn(q)
    <3>1. Len(p.runs) \in Nat \ {0} /\ Positions(p) = 1 .. Len(p.runs)
      BY <1>1 DEF Positions
    <3>2. DOMAIN e.runs = 1 .. Len(p.runs) BY <1>3, <1>4, <3>1
    <3>3. \A j \in 1 .. Len(p.runs) : e.runs[j].start \in Nat
      BY <1>1, <1>2, <1>5, <3>1
    <3>4. /\ FirstLatest(e.runs) \in Positions(p)
          /\ \A j \in Positions(p) : e.runs[j].start <= e.runs[FirstLatest(e.runs)].start
      <4>1. /\ FirstLatest(e.runs) \in 1 .. Len(p.runs)
            /\ \A j \in 1 .. Len(p.runs) : e.runs[j].start <= e.runs[FirstLatest(e.runs)].start
        BY <3>1, <3>2, <3>3, FirstLatestExists
      <4>2. QED BY <3>1, <4>1
    <3>5. QED BY <1>8, <2>1, <2>2, <3>4 DEF LatestExactIn
  <2>7. ProfileInv(q)
    BY <2>3, <2>4, <2>5, <2>6 DEF ProfileInv
  <2>8. QED BY <1>10, <2>7 DEF q, e
<1>11. QED
  BY <1>9, <1>10, Zenon DEF e
-----------------------------------------------------------------------------
(* Any sequence of calls.                                                   *)

Inv == ProfileInv(profile)

\* mergeImportedRun keeps the invariant.
LEMMA ImportKeeps ==
  ASSUME NEW p, ProfileInv(p), NEW incoming \in Runs, NEW previous
  PROVE  ProfileInv(MergeImportedRun(p, incoming, previous))
<1> DEFINE key == Key(incoming, previous)
           i == p.index[key]
           old == p.runs[i]
           run == Merged(old, incoming)
           result == MergeResult(p, incoming, previous)
<1>1. CASE result = "Added"
  <2>1. key \notin DOMAIN p.index /\ key = Id(incoming)
    BY <1>1 DEF MergeResult, Key
  <2>2. MergeImportedRun(p, incoming, previous) = AddRun(p, incoming)
    BY <1>1 DEF MergeImportedRun
  <2>3. QED BY <2>1, <2>2, AddRunKeeps
<1>2. CASE result = "Enriched"
  <2>1. /\ key \in DOMAIN p.index
        /\ old.scenario = incoming.scenario
        /\ Id(old) = Id(incoming) \/ Id(incoming) \notin DOMAIN p.index
    BY <1>2 DEF MergeResult
  <2>2. i \in Positions(p) /\ Id(old) = key /\ old \in Runs
    <3>1. /\ DOMAIN p.index = {Id(p.runs[j]) : j \in Positions(p)}
          /\ \A j \in Positions(p) : p.index[Id(p.runs[j])] = j
      BY DEF ProfileInv, IndexExactIn
    <3>2. PICK j \in Positions(p) : key = Id(p.runs[j])
      BY <2>1, <3>1
    <3>3. i = j BY <3>1, <3>2
    <3>4. i \in Positions(p) /\ Id(old) = key BY <3>2, <3>3
    <3>5. QED BY <3>4, RunsTyped DEF ProfileInv
  <2>3. run \in Runs /\ run.scenario = old.scenario
    BY <2>2 DEF Merged, Runs
  <2>4. Id(run) = Id(old) \/ Id(run) = Id(incoming)
    BY <2>1 DEF Merged, Id
  <2>5. Id(run) = Id(old) \/ Id(run) \notin DOMAIN p.index
    BY <2>1, <2>4
  <2>6. MergeImportedRun(p, incoming, previous)
          = IF Id(run) = Id(old) THEN Enriched(p, i, run)
            ELSE Rekeyed(Enriched(p, i, run), i, Id(old))
    BY <1>2, <2>2 DEF MergeImportedRun, MergedInto
  <2> HIDE DEF run, i, key, result
  <2>7. QED BY <2>2, <2>3, <2>5, <2>6, MergeKeeps
<1>3. CASE result # "Added" /\ result # "Enriched"
  <2>1. MergeImportedRun(p, incoming, previous) = p
    BY <1>3 DEF MergeImportedRun
  <2>2. QED BY <2>1
<1>4. QED BY <1>1, <1>2, <1>3

LEMMA EmptyKeeps == ProfileInv(EmptyProfile)
<1>1. Shaped(EmptyProfile)
  BY DEF Shaped, EmptyProfile
<1>2. Positions(EmptyProfile) = {} /\ EmptyProfile.runs = <<>>
  BY DEF Positions, EmptyProfile
<1>3. HistoriesExact(EmptyProfile)
  BY <1>2 DEF HistoriesExact, Lists, Ordered, RunsOf, EmptyProfile
<1>4. IndexExactIn(EmptyProfile)
  <2>1. DOMAIN EmptyProfile.index = {} BY DEF EmptyProfile
  <2>2. QED BY <1>2, <2>1 DEF IndexExactIn
<1>5. LatestExactIn(EmptyProfile)
  BY <1>2 DEF LatestExactIn, EmptyProfile
<1>6. QED BY <1>1, <1>3, <1>4, <1>5 DEF ProfileInv

LEMMA InvAlways == Spec => []Inv
<1>1. Init => Inv
  BY EmptyKeeps DEF Init, Inv
<1>2. Inv /\ [Next]_vars => Inv'
  <2> SUFFICES ASSUME Inv, [Next]_vars PROVE Inv'
    OBVIOUS
  <2>1. ASSUME NEW run \in Incoming, RunAdded(run) PROVE Inv'
    <3>1. run \in Runs BY IncomingAssumption
    <3>2. CASE Id(run) \in DOMAIN profile.index
      BY <2>1, <3>2 DEF RunAdded, Inv
    <3>3. CASE Id(run) \notin DOMAIN profile.index
      <4>1. profile' = AddRun(profile, run) BY <2>1, <3>3 DEF RunAdded
      <4>2. QED BY <3>1, <3>3, <4>1, AddRunKeeps DEF Inv
    <3>4. QED BY <3>2, <3>3
  <2>2. ASSUME NEW run \in Incoming, NEW previous, RunImported(run, previous) PROVE Inv'
    <3>1. run \in Runs BY IncomingAssumption
    <3>2. profile' = MergeImportedRun(profile, run, previous) BY <2>2 DEF RunImported
    <3>3. QED BY <3>1, <3>2, ImportKeeps DEF Inv
  <2>3. CASE UNCHANGED vars
    BY <2>3 DEF vars, Inv
  <2>4. QED BY <2>1, <2>2, <2>3 DEF Next
<1>3. QED BY <1>1, <1>2, PTL DEF Spec

\* Looking a run up by its identity finds that run and no other, whatever was added,
\* enriched and re-keyed before (m_run_index, user_profile.cpp).
THEOREM IndexStaysExact == Spec => []IndexExact
<1>1. Inv => IndexExact
  BY DEF Inv, ProfileInv, IndexExact
<1>2. QED BY <1>1, InvAlways, PTL

\* A scenario's history is complete, free of repetitions and in order of start
\* (m_scenario_index), after any sequence of imports.
THEOREM HistoryStaysExact == Spec => []HistoryExact
<1>1. Inv => HistoryExact
  <2> SUFFICES ASSUME Inv PROVE HistoryCompleteIn(profile) /\ HistoryInOrderIn(profile)
    BY DEF HistoryExact
  <2>1. \A s \in Scenarios : /\ Lists(profile.history[s], RunsOf(profile, s))
                            /\ Ordered(profile.runs, profile.history[s])
    BY DEF Inv, ProfileInv, HistoriesExact
  <2>2. HistoryInOrderIn(profile)
    BY <2>1 DEF HistoryInOrderIn, Ordered
  <2>3. ASSUME NEW s \in Scenarios
        PROVE LET list == profile.history[s] IN
              /\ {list[k] : k \in DOMAIN list} = {i \in Positions(profile) : profile.runs[i].scenario = s}
              /\ \A j, k \in DOMAIN list : list[j] = list[k] => j = k
    <3> DEFINE list == profile.history[s]
    <3>1. /\ \A k \in DOMAIN list : list[k] \in RunsOf(profile, s)
          /\ \A i \in RunsOf(profile, s) : \E k \in DOMAIN list : list[k] = i
          /\ \A j, k \in DOMAIN list : list[j] = list[k] => j = k
      BY <2>1 DEF Lists
    <3>2. RunsOf(profile, s) = {i \in Positions(profile) : profile.runs[i].scenario = s}
      BY DEF RunsOf
    <3> HIDE DEF list
    <3>3. {list[k] : k \in DOMAIN list} = RunsOf(profile, s)
      BY <3>1
    <3>4. QED BY <3>1, <3>2, <3>3 DEF list
  <2>4. QED BY <2>2, <2>3 DEF HistoryCompleteIn
<1>2. QED BY <1>1, InvAlways, PTL

\* The most recent run is one that no run started after (m_most_recent_index), also
\* after the run that was the most recent moved back in time.
THEOREM LatestStaysExact == Spec => []LatestExact
<1>1. Inv => LatestExact
  BY DEF Inv, ProfileInv, LatestExact
<1>2. QED BY <1>1, InvAlways, PTL

\* The identity index, the scenarios' lists and the most recent run all stay those of
\* the runs, for any runs in any order of additions and merges.
THEOREM CachesStayExact == Spec => []CachesExact
BY IndexStaysExact, HistoryStaysExact, LatestStaysExact, PTL DEF CachesExact

-----------------------------------------------------------------------------
(* Folds over some positions: what a sum is, without induction.             *)

\* Some of the positions of a list.
Bounded(S) == \E n \in Nat : S \subseteq 1 .. n

LEMMA BoundedParts ==
  ASSUME NEW S, Bounded(S)
  PROVE  IsFiniteSet(S) /\ \A T \in SUBSET S : Bounded(T)
<1>1. PICK n \in Nat : S \subseteq 1 .. n BY DEF Bounded
<1>2. IsFiniteSet(1 .. n) BY FS_Interval
<1>3. IsFiniteSet(S) BY <1>1, <1>2, FS_Subset
<1>4. \A T \in SUBSET S : T \subseteq 1 .. n BY <1>1
<1>5. QED BY <1>3, <1>4 DEF Bounded

\* The greatest of some positions.
LEMMA MaxIs ==
  ASSUME NEW S, Bounded(S), S # {}
  PROVE  Max(S) \in S /\ \A y \in S : Max(S) >= y
<1>1. PICK n \in Nat : S \subseteq 1 .. n BY DEF Bounded
<1> DEFINE down == {n - x : x \in S}
<1>2. \A x \in S : x \in 1 .. n /\ n - x \in Nat BY <1>1
<1>3. down \subseteq Nat /\ down # {} BY <1>2
<1> HIDE DEF down
<1>4. PICK d \in down : \A k \in down : ~(<<k, d>> \in OpToRel(<, Nat))
  BY <1>3, WFMin, NatLessThanWellFounded, Zenon
<1>5. \A k \in down : d <= k
  <2>1. \A k \in down : ~(k < d) BY <1>3, <1>4 DEF OpToRel
  <2>2. QED BY <1>3, <2>1
<1>6. PICK x \in S : d = n - x BY <1>4 DEF down
<1>7. \A y \in S : x >= y
  <2>1. TAKE y \in S
  <2>2. n - y \in down BY DEF down
  <2>3. QED BY <1>2, <1>5, <1>6, <2>2
<1>8. QED BY <1>7 DEF Max

\* "iter" folds the subsets of S from "base", taking the elements in the order of "pick".
Folds(iter, S, base, pick, step) ==
  \A s \in SUBSET S :
    iter[s] = IF s = {} THEN base ELSE step[pick[s]][iter[s \ {pick[s]}]]

\* Among sets of positions there is a smallest one.
LEMMA SmallestSet ==
  ASSUME NEW S, Bounded(S), NEW Some, Some \subseteq SUBSET S, Some # {}
  PROVE  \E s \in Some : \A t \in Some : t \subseteq s => t = s
<1>0. IsFiniteSet(S) BY BoundedParts
<1> DEFINE sizes == {Cardinality(s) : s \in Some}
<1>1. \A s \in Some : IsFiniteSet(s) /\ Cardinality(s) \in Nat
  BY <1>0, FS_Subset, FS_CardinalityType
<1>2. PICK c \in sizes : \A k \in sizes : ~(k < c)
  <2>1. sizes \subseteq Nat /\ sizes # {} BY <1>1
  <2> HIDE DEF sizes
  <2>2. PICK c \in sizes : \A k \in sizes : ~(<<k, c>> \in OpToRel(<, Nat))
    BY <2>1, WFMin, NatLessThanWellFounded, Zenon
  <2>3. QED BY <2>1, <2>2 DEF OpToRel
<1>3. PICK s \in Some : Cardinality(s) = c BY <1>2
<1>4. ASSUME NEW t \in Some, t \subseteq s PROVE t = s
  <2>1. ~(Cardinality(t) < Cardinality(s)) BY <1>2, <1>3
  <2>2. Cardinality(t) <= Cardinality(s) BY <1>1, <1>4, FS_Subset
  <2>3. Cardinality(t) = Cardinality(s) BY <1>1, <1>4, <2>1, <2>2
  <2>4. IsFiniteSet(s) BY <1>1
  <2>5. QED BY <1>4, <2>3, <2>4, FS_Subset
<1>5. QED BY <1>4

\* The values of a fold do not depend on the function that holds them.
LEMMA FoldUnique ==
  ASSUME NEW S, Bounded(S), NEW base, NEW pick, NEW step, NEW T \in SUBSET S,
         \A s \in SUBSET S : s # {} => pick[s] \in s,
         NEW f, Folds(f, S, base, pick, step), NEW g, Folds(g, T, base, pick, step)
  PROVE  \A s \in SUBSET T : f[s] = g[s]
<1> DEFINE Bad == {s \in SUBSET T : f[s] # g[s]}
<1>1. SUFFICES ASSUME Bad # {} PROVE FALSE
  OBVIOUS
<1>2. PICK s \in Bad : \A t \in Bad : t \subseteq s => t = s
  <2>1. Bad \subseteq SUBSET S OBVIOUS
  <2> HIDE DEF Bad
  <2>2. QED BY <1>1, <2>1, SmallestSet
<1>3. f[s] = IF s = {} THEN base ELSE step[pick[s]][f[s \ {pick[s]}]] BY DEF Folds
<1>4. g[s] = IF s = {} THEN base ELSE step[pick[s]][g[s \ {pick[s]}]] BY DEF Folds
<1>5. s # {} => f[s \ {pick[s]}] = g[s \ {pick[s]}] BY <1>2
<1>6. QED BY <1>3, <1>4, <1>5

LEMMA FoldExists ==
  ASSUME NEW S, Bounded(S), NEW V, NEW base \in V, NEW pick, NEW step,
         \A s \in SUBSET S : s # {} => pick[s] \in s,
         \A x \in S, v \in V : step[x][v] \in V
  PROVE  \E iter \in [SUBSET S -> V] : Folds(iter, S, base, pick, step)
<1> DEFINE Good(s, iter) == iter \in [SUBSET s -> V] /\ Folds(iter, s, base, pick, step)
           Bad == {s \in SUBSET S : ~ \E iter : Good(s, iter)}
<1>1. SUFFICES ASSUME Bad # {} PROVE FALSE
  BY DEF Bad
<1>2. PICK s \in Bad : \A t \in Bad : t \subseteq s => t = s
  <2>1. Bad \subseteq SUBSET S OBVIOUS
  <2> HIDE DEF Bad
  <2>2. QED BY <1>1, <2>1, SmallestSet
<1> DEFINE held == [t \in SUBSET s |-> CHOOSE iter : Good(t, iter)]
           x == pick[s]
           whole == IF s = {} THEN base ELSE step[x][held[s \ {x}][s \ {x}]]
           iter == [t \in SUBSET s |-> IF t = s THEN whole ELSE held[t][t]]
<1>3. ASSUME NEW t \in SUBSET s, t # s PROVE Good(t, held[t])
  <2>1. t \notin Bad /\ t \in SUBSET S BY <1>2, <1>3
  <2>2. \E it : Good(t, it) BY <2>1
  <2> HIDE DEF Good
  <2>3. QED BY <2>2
<1>4. ASSUME NEW t \in SUBSET s, t # s, NEW u \in SUBSET t PROVE held[t][u] = held[u][u]
  <2>1. u \in SUBSET s /\ u # s BY <1>4
  <2>2. Folds(held[t], t, base, pick, step) /\ Folds(held[u], u, base, pick, step)
    BY <1>3, <1>4, <2>1
  <2>3. Bounded(t) BY <1>4, BoundedParts
  <2>4. \A w \in SUBSET t : w # {} => pick[w] \in w BY <1>4
  <2> DEFINE a == held[t]
             b == held[u]
  <2> HIDE DEF held, a, b
  <2>5. Folds(a, t, base, pick, step) /\ Folds(b, u, base, pick, step) BY <2>2 DEF a, b
  <2>6. u \in SUBSET t OBVIOUS
  <2>7. \A w \in SUBSET u : a[w] = b[w] BY <2>3, <2>4, <2>5, <2>6, FoldUnique
  <2>8. QED BY <2>7 DEF a, b
<1>5. whole \in V
  <2>1. CASE s = {} BY <2>1
  <2>2. CASE s # {}
    <3>1. s \ {x} \in SUBSET s /\ s \ {x} # s /\ x \in S BY <2>2
    <3>2. held[s \ {x}] \in [SUBSET (s \ {x}) -> V] BY <1>3, <3>1
    <3>3. held[s \ {x}][s \ {x}] \in V BY <3>2
    <3> HIDE DEF held
    <3>4. QED BY <2>2, <3>1, <3>3
  <2>3. QED BY <2>1, <2>2
<1>6. \A t \in SUBSET s : t # s => held[t][t] \in V BY <1>3
<1> HIDE DEF whole, held
<1>7. iter \in [SUBSET s -> V] BY <1>5, <1>6
<1>8. ASSUME NEW t \in SUBSET s
      PROVE  iter[t] = IF t = {} THEN base ELSE step[pick[t]][iter[t \ {pick[t]}]]
  <2>1. CASE t = s
    <3>1. CASE s = {} BY <2>1, <3>1 DEF whole
    <3>2. CASE s # {}
      <4>1. s \ {x} # s /\ s \ {x} \in SUBSET s BY <3>2
      <4>2. iter[s \ {x}] = held[s \ {x}][s \ {x}] BY <4>1
      <4>3. QED BY <2>1, <3>2, <4>2 DEF whole
    <3>3. QED BY <3>1, <3>2
  <2>2. CASE t # s
    <3>1. iter[t] = held[t][t] BY <2>2
    <3>2. held[t][t] = IF t = {} THEN base ELSE step[pick[t]][held[t][t \ {pick[t]}]]
      BY <1>3, <2>2 DEF Folds
    <3>3. CASE t = {} BY <3>1, <3>2, <3>3
    <3>4. CASE t # {}
      <4>1. t \ {pick[t]} \in SUBSET t /\ t \ {pick[t]} # s BY <2>2
      <4>2. held[t][t \ {pick[t]}] = held[t \ {pick[t]}][t \ {pick[t]}] BY <1>4, <2>2, <4>1
      <4>3. iter[t \ {pick[t]}] = held[t \ {pick[t]}][t \ {pick[t]}] BY <4>1
      <4>4. QED BY <3>1, <3>2, <3>4, <4>2, <4>3
    <3>5. QED BY <3>3, <3>4
  <2>3. QED BY <2>1, <2>2
<1>9. Good(s, iter) BY <1>7, <1>8 DEF Folds
<1> HIDE DEF Good, iter
<1>10. QED BY <1>2, <1>9
-----------------------------------------------------------------------------
(* The sums.                                                                *)

\* The lengths of the runs at some positions, added up as TimesExactIn does.
SumOf(runs, S) == LET LengthOf(i) == runs[i].length IN MapThenSumSet(LengthOf, S)

Lengths(runs, S) == Bounded(S) /\ \A i \in S : runs[i].length \in Nat

LEMMA SumDefined ==
  ASSUME NEW runs, NEW S, Lengths(runs, S)
  PROVE  /\ SumOf(runs, S) \in Nat
         /\ S = {} => SumOf(runs, S) = 0
         /\ S # {} => \E x \in S : /\ x = CHOOSE y \in S : TRUE
                                   /\ SumOf(runs, S) = runs[x].length + SumOf(runs, S \ {x})
<1> DEFINE pick == [s \in SUBSET S |-> CHOOSE y \in s : TRUE]
           step == [x \in S |-> [v \in Nat |-> runs[x].length + v]]
           eqn(T, iter) == [s \in SUBSET T |->
                              IF s = {} THEN 0
                              ELSE runs[CHOOSE y \in s : TRUE].length
                                     + iter[s \ {CHOOSE y \in s : TRUE}]]
           fold(T) == CHOOSE iter : iter = eqn(T, iter)
<1>1. \A T : SumOf(runs, T) = fold(T)[T]
  BY DEF SumOf, MapThenSumSet, MapThenFoldSet
<1>2. \A s \in SUBSET S : s # {} => pick[s] \in s OBVIOUS
<1>3. \A x \in S, v \in Nat : step[x][v] \in Nat BY DEF Lengths
<1>4. \A T \in SUBSET S : Bounded(T) BY BoundedParts DEF Lengths
<1>5. ASSUME NEW T \in SUBSET S
      PROVE  /\ fold(T) = eqn(T, fold(T))
             /\ fold(T) \in [SUBSET T -> Nat]
             /\ Folds(fold(T), T, 0, pick, step)
  <2>1. PICK iter \in [SUBSET T -> Nat] : Folds(iter, T, 0, pick, step)
    <3>1. (\A s \in SUBSET T : s # {} => pick[s] \in s) /\ \A x \in T, v \in Nat : step[x][v] \in Nat
      BY <1>2, <1>3
    <3> HIDE DEF pick, step
    <3>2. QED BY <1>4, <3>1, FoldExists, 0 \in Nat
  <2>2. \A s \in SUBSET T : s # {} =>
          /\ pick[s] = (CHOOSE y \in s : TRUE) /\ pick[s] \in S
          /\ \A v \in Nat : step[pick[s]][v] = runs[pick[s]].length + v
    BY <1>2
  <2> DEFINE right(it) == \A s \in SUBSET T :
                it[s] = IF s = {} THEN 0
                        ELSE runs[CHOOSE y \in s : TRUE].length
                               + it[s \ {CHOOSE y \in s : TRUE}]
  <2> HIDE DEF pick, step
  <2>3. \A s \in SUBSET T : iter[s] = IF s = {} THEN 0 ELSE step[pick[s]][iter[s \ {pick[s]}]]
    BY <2>1 DEF Folds
  <2>4. right(iter)
    <3>1. \A s \in SUBSET T : s # {} => iter[s \ {pick[s]}] \in Nat OBVIOUS
    <3>2. QED BY <2>2, <2>3, <3>1, ZenonT(40)
  <2>5. iter = eqn(T, iter) BY <2>4
  <2>6. fold(T) = eqn(T, fold(T)) BY <2>5
  <2> DEFINE it == fold(T)
  <2> HIDE DEF fold
  <2>7. right(it) /\ it = [s \in SUBSET T |-> it[s]] BY <2>6
  <2>8. \A s \in SUBSET T : it[s] = iter[s]
    <3> DEFINE Bad == {s \in SUBSET T : it[s] # iter[s]}
    <3>1. SUFFICES ASSUME Bad # {} PROVE FALSE OBVIOUS
    <3>2. Bad \subseteq SUBSET T /\ Bounded(T) BY <1>4
    <3>3. PICK s \in Bad : \A t \in Bad : t \subseteq s => t = s
      <4> HIDE DEF Bad
      <4>1. QED BY <3>1, <3>2, SmallestSet
    <3> DEFINE x == CHOOSE y \in s : TRUE
    <3>4. CASE s = {} BY <2>4, <2>7, <3>4
    <3>5. CASE s # {}
      <4>1. x \in s BY <3>5
      <4>2. it[s \ {x}] = iter[s \ {x}] BY <3>3, <4>1
      <4>3. /\ it[s] = runs[x].length + it[s \ {x}]
            /\ iter[s] = runs[x].length + iter[s \ {x}]
        BY <2>4, <2>7, <3>5
      <4>4. QED BY <4>2, <4>3
    <3>6. QED BY <3>4, <3>5
  <2>9. it = iter BY <2>7, <2>8
  <2>10. QED BY <2>1, <2>6, <2>9
<1> HIDE DEF pick, step, fold
<1>6. fold(S)[S] \in Nat BY <1>5
<1>7. S = {} => fold(S)[S] = 0
  <2>1. S \in SUBSET S /\ fold(S) = eqn(S, fold(S)) BY <1>5
  <2>2. fold(S)[S] = eqn(S, fold(S))[S] BY <2>1
  <2>3. QED BY <2>1, <2>2
<1>8. ASSUME S # {}
      PROVE  \E x \in S : /\ x = CHOOSE y \in S : TRUE
                          /\ fold(S)[S] = runs[x].length + fold(S \ {x})[S \ {x}]
  <2> DEFINE x == CHOOSE y \in S : TRUE
             rest == S \ {x}
             a == fold(S)
             b == fold(rest)
  <2>1. x \in S /\ rest \in SUBSET S /\ S \in SUBSET S BY <1>8
  <2>2. a = eqn(S, a) BY <1>5, <2>1
  <2>3. a[S] = eqn(S, a)[S] BY <2>2
  <2>4. a[S] = runs[x].length + a[rest] BY <1>8, <2>1, <2>3
  <2>5. Folds(a, S, 0, pick, step) /\ Folds(b, rest, 0, pick, step) BY <1>5, <2>1
  <2> HIDE DEF a, b, rest
  <2>6. \A s \in SUBSET rest : a[s] = b[s]
    <3>1. Bounded(S) /\ rest \in SUBSET S BY <1>4, <2>1
    <3>2. QED BY <1>2, <2>5, <3>1, FoldUnique
  <2>7. a[rest] = b[rest] BY <2>6
  <2>8. QED BY <2>1, <2>4, <2>7 DEF a, b, rest
<1>9. QED BY <1>1, <1>6, <1>7, <1>8

\* Any element may be taken out first.
LEMMA SumTake ==
  ASSUME NEW runs, NEW S, Lengths(runs, S), NEW y \in S
  PROVE  SumOf(runs, S) = runs[y].length + SumOf(runs, S \ {y})
<1> DEFINE Bad == {s \in SUBSET S : \E z \in s : SumOf(runs, s) # runs[z].length + SumOf(runs, s \ {z})}
<1>1. SUFFICES ASSUME Bad # {} PROVE FALSE
  <2>1. Bad = {} => S \notin Bad OBVIOUS
  <2>2. QED BY <2>1
<1>2. PICK s \in Bad : \A t \in Bad : t \subseteq s => t = s
  <2>1. Bad \subseteq SUBSET S /\ Bounded(S) BY DEF Lengths
  <2> HIDE DEF Bad
  <2>2. QED BY <1>1, <2>1, SmallestSet
<1>3. PICK z \in s : SumOf(runs, s) # runs[z].length + SumOf(runs, s \ {z})
  BY <1>2
<1>4. \A t \in SUBSET S : Lengths(runs, t) BY BoundedParts DEF Lengths
<1>5. PICK x \in s : SumOf(runs, s) = runs[x].length + SumOf(runs, s \ {x})
  BY <1>3, <1>4, SumDefined
<1>6. x # z BY <1>3, <1>5
<1>7. /\ s \ {x} \notin Bad /\ s \ {z} \notin Bad
      /\ s \ {x} \in SUBSET S /\ s \ {z} \in SUBSET S
      /\ z \in s \ {x} /\ x \in s \ {z}
  BY <1>2, <1>6
<1>8. SumOf(runs, s \ {x}) = runs[z].length + SumOf(runs, (s \ {x}) \ {z}) BY <1>7
<1>9. SumOf(runs, s \ {z}) = runs[x].length + SumOf(runs, (s \ {z}) \ {x}) BY <1>7
<1>10. (s \ {x}) \ {z} = (s \ {z}) \ {x} OBVIOUS
<1>11. SumOf(runs, (s \ {x}) \ {z}) \in Nat
  <2>1. Lengths(runs, (s \ {x}) \ {z}) BY <1>4
  <2>2. QED BY <2>1, SumDefined
<1>12. runs[x].length \in Nat /\ runs[z].length \in Nat BY DEF Lengths
<1> DEFINE rest == SumOf(runs, (s \ {x}) \ {z})
<1>13. SumOf(runs, s \ {x}) = runs[z].length + rest /\ SumOf(runs, s \ {z}) = runs[x].length + rest
  BY <1>8, <1>9, <1>10
<1> HIDE DEF rest, Bad
<1>14. rest \in Nat BY <1>11 DEF rest
<1>15. QED BY <1>3, <1>5, <1>12, <1>13, <1>14

\* A sum looks at nothing but the lengths.
LEMMA SumSame ==
  ASSUME NEW runs, NEW more, NEW S, Lengths(runs, S),
         \A i \in S : more[i].length = runs[i].length
  PROVE  SumOf(more, S) = SumOf(runs, S)
<1> DEFINE Bad == {s \in SUBSET S : SumOf(more, s) # SumOf(runs, s)}
<1>1. SUFFICES ASSUME Bad # {} PROVE FALSE
  <2>1. Bad = {} => S \notin Bad OBVIOUS
  <2>2. QED BY <2>1
<1>2. PICK s \in Bad : \A t \in Bad : t \subseteq s => t = s
  <2>1. Bad \subseteq SUBSET S /\ Bounded(S) BY DEF Lengths
  <2> HIDE DEF Bad
  <2>2. QED BY <1>1, <2>1, SmallestSet
<1>3. Lengths(runs, s) /\ Lengths(more, s) BY BoundedParts DEF Lengths
<1>4. CASE s = {} BY <1>2, <1>3, <1>4, SumDefined
<1>5. CASE s # {}
  <2>1. PICK x \in s : TRUE BY <1>5
  <2>2. SumOf(more, s \ {x}) = SumOf(runs, s \ {x}) BY <1>2, <2>1
  <2>3. SumOf(more, s) = more[x].length + SumOf(more, s \ {x}) BY <1>3, <2>1, SumTake
  <2>4. SumOf(runs, s) = runs[x].length + SumOf(runs, s \ {x}) BY <1>3, <2>1, SumTake
  <2>5. QED BY <1>2, <2>1, <2>2, <2>3, <2>4
<1>6. QED BY <1>4, <1>5

\* A run that comes, and one that changes its length.
LEMMA SumMore ==
  ASSUME NEW runs, NEW more, NEW S, Lengths(runs, S), NEW i, i \notin S,
         Bounded(S \cup {i}), more[i].length \in Nat,
         \A j \in S : more[j].length = runs[j].length
  PROVE  SumOf(more, S \cup {i}) = SumOf(runs, S) + more[i].length
<1>1. Lengths(more, S \cup {i}) BY DEF Lengths
<1>2. SumOf(more, S \cup {i}) = more[i].length + SumOf(more, (S \cup {i}) \ {i})
  BY <1>1, SumTake
<1>3. (S \cup {i}) \ {i} = S OBVIOUS
<1>4. SumOf(more, S) = SumOf(runs, S) BY SumSame
<1>5. SumOf(runs, S) \in Nat BY SumDefined
<1>6. SumOf(more, S \cup {i}) = more[i].length + SumOf(runs, S) BY <1>2, <1>3, <1>4
<1>7. QED BY <1>5, <1>6

LEMMA SumChanged ==
  ASSUME NEW runs, NEW more, NEW S, Lengths(runs, S), NEW i \in S,
         more[i].length \in Nat,
         \A j \in S \ {i} : more[j].length = runs[j].length
  PROVE  SumOf(more, S) = SumOf(runs, S) + more[i].length - runs[i].length
<1>1. Lengths(more, S) BY DEF Lengths
<1>2. SumOf(more, S) = more[i].length + SumOf(more, S \ {i}) BY <1>1, SumTake
<1>3. SumOf(runs, S) = runs[i].length + SumOf(runs, S \ {i}) BY SumTake
<1>4. Lengths(runs, S \ {i}) BY BoundedParts DEF Lengths
<1>5. SumOf(more, S \ {i}) = SumOf(runs, S \ {i}) BY <1>4, SumSame
<1>6. SumOf(runs, S \ {i}) \in Nat BY <1>4, SumDefined
<1>7. runs[i].length \in Nat BY DEF Lengths
<1>8. QED BY <1>2, <1>3, <1>5, <1>6, <1>7

\* The sums of a profile, as the values they ought to be.
Timed(p) ==
  /\ p.total = SumOf(p.runs, Positions(p))
  /\ p.time = [s \in Scenarios |-> SumOf(p.runs, RunsOf(p, s))]
  /\ p.count = [s \in Scenarios |-> Cardinality(RunsOf(p, s))]

LEMMA RunsHaveLengths ==
  ASSUME NEW p, Shaped(p)
  PROVE  /\ Lengths(p.runs, Positions(p))
         /\ \A s : Lengths(p.runs, RunsOf(p, s)) /\ IsFiniteSet(RunsOf(p, s))
<1>1. Len(p.runs) \in Nat /\ \A i \in Positions(p) : p.runs[i] \in Runs BY RunsTyped
<1>2. \A run \in Runs : run.length \in Nat BY DEF Runs
<1>3. Bounded(Positions(p)) BY <1>1 DEF Bounded, Positions
<1>4. \A s : RunsOf(p, s) \in SUBSET Positions(p) BY DEF RunsOf
<1>5. \A s : Bounded(RunsOf(p, s)) /\ IsFiniteSet(RunsOf(p, s)) BY <1>3, <1>4, BoundedParts
<1>6. QED BY <1>1, <1>2, <1>3, <1>4, <1>5 DEF Lengths

LEMMA AddRunTimes ==
  ASSUME NEW p, Shaped(p), Timed(p), NEW run \in Runs
  PROVE  Timed(AddRun(p, run))
<1> DEFINE i == Len(p.runs) + 1
           runs == Append(p.runs, run)
           q == AddRun(p, run)
<1>1. /\ Len(p.runs) \in Nat /\ p.runs \in Seq(Runs)
      /\ Positions(p) = 1 .. Len(p.runs)
  BY RunsTyped DEF Shaped, Positions
<1>2. /\ runs \in Seq(Runs) /\ Len(runs) = i /\ runs[i] = run
      /\ \A j \in Positions(p) : runs[j] = p.runs[j]
  BY <1>1
<1>3. run.length \in Nat /\ run.scenario \in Scenarios BY DEF Runs
<1>4. /\ q.runs = runs
      /\ q.time = [p.time EXCEPT ![run.scenario] = @ + run.length]
      /\ q.count = [p.count EXCEPT ![run.scenario] = @ + 1]
      /\ q.total = p.total + run.length
  BY DEF AddRun
<1> HIDE DEF runs, q
<1>5. /\ Positions(q) = Positions(p) \cup {i} /\ i \notin Positions(p)
      /\ \A s : RunsOf(q, s) = IF s = run.scenario THEN RunsOf(p, s) \cup {i} ELSE RunsOf(p, s)
  <2>1. Positions(q) = Positions(p) \cup {i} /\ i \notin Positions(p)
    BY <1>1, <1>2, <1>4 DEF Positions
  <2>2. QED BY <1>2, <1>4, <2>1 DEF RunsOf
<1>6. /\ Lengths(p.runs, Positions(p))
      /\ \A s : Lengths(p.runs, RunsOf(p, s)) /\ IsFiniteSet(RunsOf(p, s))
  BY RunsHaveLengths
<1>7. /\ Bounded(Positions(p) \cup {i})
      /\ \A s : Bounded(RunsOf(p, s) \cup {i}) /\ i \notin RunsOf(p, s) /\ RunsOf(p, s) \subseteq Positions(p)
  BY <1>1, <1>5 DEF Bounded, RunsOf
<1>8. SumOf(runs, Positions(p) \cup {i}) = SumOf(p.runs, Positions(p)) + run.length
  BY <1>2, <1>3, <1>5, <1>6, <1>7, SumMore
<1>9. ASSUME NEW s
      PROVE  SumOf(runs, RunsOf(p, s) \cup {i}) = SumOf(p.runs, RunsOf(p, s)) + run.length
  <2>1. \A j \in RunsOf(p, s) : runs[j].length = p.runs[j].length BY <1>2, <1>7
  <2>2. /\ Lengths(p.runs, RunsOf(p, s)) /\ i \notin RunsOf(p, s)
        /\ Bounded(RunsOf(p, s) \cup {i}) /\ runs[i].length \in Nat
    BY <1>2, <1>3, <1>6, <1>7
  <2>3. SumOf(runs, RunsOf(p, s) \cup {i}) = SumOf(p.runs, RunsOf(p, s)) + runs[i].length
    BY <2>1, <2>2, SumMore
  <2>4. QED BY <1>2, <2>3
<1>10. \A s : SumOf(runs, RunsOf(p, s)) = SumOf(p.runs, RunsOf(p, s))
  BY <1>2, <1>6, <1>7, SumSame
<1>11. \A s : Cardinality(RunsOf(p, s) \cup {i}) = Cardinality(RunsOf(p, s)) + 1
  BY <1>6, <1>7, FS_AddElement
<1>12. q.total = SumOf(q.runs, Positions(q)) BY <1>4, <1>5, <1>8 DEF Timed
<1>13. q.time = [s \in Scenarios |-> SumOf(q.runs, RunsOf(q, s))]
  <2>1. p.time = [s \in Scenarios |-> SumOf(p.runs, RunsOf(p, s))] BY DEF Timed
  <2>2. \A s \in Scenarios : q.time[s] = SumOf(q.runs, RunsOf(q, s))
    <3>1. TAKE s \in Scenarios
    <3>2. CASE s = run.scenario
      <4>1. q.time[s] = SumOf(p.runs, RunsOf(p, s)) + run.length BY <1>4, <2>1, <3>2
      <4>2. QED BY <1>4, <1>5, <1>9, <3>2, <4>1
    <3>3. CASE s # run.scenario
      <4>1. q.time[s] = SumOf(p.runs, RunsOf(p, s)) BY <1>4, <2>1, <3>3
      <4>2. QED BY <1>4, <1>5, <1>10, <3>3, <4>1
    <3>4. QED BY <3>2, <3>3
  <2>3. q.time = [s \in Scenarios |-> q.time[s]] BY <1>4, <2>1
  <2>4. QED BY <2>2, <2>3
<1>14. q.count = [s \in Scenarios |-> Cardinality(RunsOf(q, s))]
  <2>1. p.count = [s \in Scenarios |-> Cardinality(RunsOf(p, s))] BY DEF Timed
  <2>2. \A s \in Scenarios : q.count[s] = Cardinality(RunsOf(q, s))
    <3>1. TAKE s \in Scenarios
    <3>2. CASE s = run.scenario
      <4>1. q.count[s] = Cardinality(RunsOf(p, s)) + 1 BY <1>4, <2>1, <3>2
      <4>2. QED BY <1>5, <1>11, <3>2, <4>1
    <3>3. CASE s # run.scenario
      <4>1. q.count[s] = Cardinality(RunsOf(p, s)) BY <1>4, <2>1, <3>3
      <4>2. QED BY <1>5, <3>3, <4>1
    <3>4. QED BY <3>2, <3>3
  <2>3. q.count = [s \in Scenarios |-> q.count[s]] BY <1>4, <2>1
  <2>4. QED BY <2>2, <2>3
<1>15. QED BY <1>12, <1>13, <1>14 DEF Timed, q

LEMMA EnrichedTimes ==
  ASSUME NEW p, Shaped(p), Timed(p), NEW i \in Positions(p), NEW run \in Runs,
         run.scenario = p.runs[i].scenario
  PROVE  Timed(Enriched(p, i, run))
<1> DEFINE runs == [p.runs EXCEPT ![i] = run]
           time == [p.time EXCEPT ![run.scenario] = @ + run.length - p.runs[i].length]
           total == p.total + run.length - p.runs[i].length
           q == Enriched(p, i, run)
<1>1. /\ Len(p.runs) \in Nat /\ p.runs \in Seq(Runs)
      /\ Positions(p) = 1 .. Len(p.runs) /\ DOMAIN p.runs = Positions(p)
  BY RunsTyped DEF Shaped, Positions
<1>2. /\ Len(runs) = Len(p.runs) /\ runs[i] = run
      /\ \A j \in Positions(p) : j # i => runs[j] = p.runs[j]
  BY <1>1
<1>3. run.length \in Nat /\ run.scenario \in Scenarios BY DEF Runs
<1>4. q = [p EXCEPT !.runs = runs, !.time = time, !.total = total]
  BY Zenon DEF Enriched
<1> HIDE DEF runs, q, time, total
<1>5. q.runs = runs /\ q.time = time /\ q.count = p.count /\ q.total = total
  BY <1>4 DEF Shaped
<1>6. Positions(q) = Positions(p) BY <1>2, <1>5 DEF Positions
<1>7. \A s : RunsOf(q, s) = RunsOf(p, s) BY <1>2, <1>5, <1>6 DEF RunsOf
<1>8. Lengths(p.runs, Positions(p)) /\ \A s : Lengths(p.runs, RunsOf(p, s))
  BY RunsHaveLengths
<1>9. \A s : RunsOf(p, s) \subseteq Positions(p) /\ (i \in RunsOf(p, s) <=> s = run.scenario)
  BY DEF RunsOf
<1>10. SumOf(runs, Positions(p)) = SumOf(p.runs, Positions(p)) + run.length - p.runs[i].length
  BY <1>2, <1>3, <1>8, SumChanged
<1>11. ASSUME NEW s, s = run.scenario
       PROVE  SumOf(runs, RunsOf(p, s)) = SumOf(p.runs, RunsOf(p, s)) + run.length - p.runs[i].length
  BY <1>2, <1>3, <1>8, <1>9, <1>11, SumChanged
<1>12. ASSUME NEW s, s # run.scenario
       PROVE  SumOf(runs, RunsOf(p, s)) = SumOf(p.runs, RunsOf(p, s))
  <2>1. \A j \in RunsOf(p, s) : runs[j].length = p.runs[j].length BY <1>2, <1>9, <1>12
  <2>2. Lengths(p.runs, RunsOf(p, s)) BY <1>8
  <2>3. QED BY <2>1, <2>2, SumSame
<1>13. q.total = SumOf(q.runs, Positions(q)) BY <1>5, <1>6, <1>10 DEF Timed, total
<1>14. q.time = [s \in Scenarios |-> SumOf(q.runs, RunsOf(q, s))]
  <2>1. p.time = [s \in Scenarios |-> SumOf(p.runs, RunsOf(p, s))] BY DEF Timed
  <2>2. \A s \in Scenarios : time[s] = SumOf(runs, RunsOf(p, s))
    BY <1>11, <1>12, <2>1 DEF time
  <2>3. time = [s \in Scenarios |-> time[s]] BY <2>1 DEF time
  <2>4. QED BY <1>5, <1>7, <2>2, <2>3
<1>15. q.count = [s \in Scenarios |-> Cardinality(RunsOf(q, s))] BY <1>5, <1>7 DEF Timed
<1>16. QED BY <1>13, <1>14, <1>15 DEF Timed, q

LEMMA ImportTimes ==
  ASSUME NEW p, ProfileInv(p), Timed(p), NEW incoming \in Runs, NEW previous
  PROVE  Timed(MergeImportedRun(p, incoming, previous))
<1> DEFINE key == Key(incoming, previous)
           i == p.index[key]
           run == Merged(p.runs[i], incoming)
           e == Enriched(p, i, run)
           result == MergeResult(p, incoming, previous)
<1>1. Shaped(p) /\ IndexExactIn(p) BY DEF ProfileInv
<1>2. CASE result = "Added"
  <2>1. MergeImportedRun(p, incoming, previous) = AddRun(p, incoming)
    BY <1>2 DEF MergeImportedRun
  <2>2. QED BY <1>1, <2>1, AddRunTimes
<1>3. CASE result = "Enriched"
  <2>1. key \in DOMAIN p.index BY <1>3 DEF MergeResult
  <2>2. i \in Positions(p) BY <1>1, <2>1 DEF IndexExactIn
  <2>3. p.runs[i] \in Runs BY <1>1, <2>2, RunsTyped
  <2>4. run \in Runs /\ run.scenario = p.runs[i].scenario BY <2>3 DEF Merged, Runs
  <2>5. \/ MergeImportedRun(p, incoming, previous) = e
        \/ MergeImportedRun(p, incoming, previous) = Rekeyed(e, i, key)
    BY <1>3 DEF MergeImportedRun, MergedInto
  <2> HIDE DEF run, i, key, result
  <2>6. Timed(e) BY <1>1, <2>2, <2>4, EnrichedTimes
  <2>7. p = [runs |-> p.runs, index |-> p.index, history |-> p.history, time |-> p.time,
             count |-> p.count, total |-> p.total, latest |-> p.latest]
    BY <1>1 DEF Shaped
  <2> DEFINE r == Rekeyed(e, i, key)
  <2>8. r.runs = e.runs /\ r.time = e.time /\ r.count = e.count /\ r.total = e.total
    BY ONLY <2>7, RekeyedTimes DEF e
  <2> HIDE DEF e, r
  <2>9. Timed(r) BY <2>6, <2>8 DEF Timed, Positions, RunsOf
  <2>10. QED BY <2>5, <2>6, <2>9 DEF r
<1>4. CASE result # "Added" /\ result # "Enriched"
  BY <1>4 DEF MergeImportedRun
<1>5. QED BY <1>2, <1>3, <1>4

LEMMA TimedAlways == Spec => [](Inv /\ Timed(profile))
<1>1. Init => Timed(profile)
  <2>1. Shaped(EmptyProfile) BY EmptyKeeps DEF ProfileInv
  <2>2. Positions(EmptyProfile) = {} BY DEF Positions, EmptyProfile
  <2>3. \A s : RunsOf(EmptyProfile, s) = {} BY <2>2 DEF RunsOf
  <2>4. SumOf(EmptyProfile.runs, {}) = 0 BY <2>1, <2>2, RunsHaveLengths, SumDefined
  <2>5. Timed(EmptyProfile)
    BY <2>2, <2>3, <2>4, FS_EmptySet DEF Timed, EmptyProfile
  <2>6. QED BY <2>5 DEF Init
<1>2. Inv /\ Timed(profile) /\ [Next]_vars => Timed(profile)'
  <2> SUFFICES ASSUME Inv, Timed(profile), [Next]_vars PROVE Timed(profile')
    BY DEF Timed, Positions, RunsOf
  <2>1. ASSUME NEW run \in Incoming, RunAdded(run) PROVE Timed(profile')
    BY <2>1, IncomingAssumption, AddRunTimes DEF RunAdded, Inv, ProfileInv
  <2>2. ASSUME NEW run \in Incoming, NEW previous, RunImported(run, previous)
        PROVE  Timed(profile')
    BY <2>2, IncomingAssumption, ImportTimes DEF RunImported, Inv
  <2>3. CASE UNCHANGED vars BY <2>3 DEF vars
  <2>4. QED BY <2>1, <2>2, <2>3 DEF Next
<1>3. QED BY <1>1, <1>2, InvAlways, PTL DEF Spec

\* The playtime of a scenario, of all of them, and the number of a scenario's runs are those of
\* the runs, for any runs in any order, although addRun and mergeImportedRun only ever correct
\* them by what is new (m_scenario_aggregate, m_total_time_all_scenarios).
THEOREM TimesStayExact == Spec => []TimesExact
<1>1. Timed(profile) => TimesExact
  <2> SUFFICES ASSUME Timed(profile) PROVE TimesExactIn(profile)
    BY DEF TimesExact
  <2>1. \A S : SumOf(profile.runs, S)
                 = LET LengthOf(i) == profile.runs[i].length IN MapThenSumSet(LengthOf, S)
    BY DEF SumOf
  <2>2. QED BY <2>1 DEF TimesExactIn, Timed, RunsOf
<1>2. QED BY <1>1, TimedAlways, PTL

-----------------------------------------------------------------------------
(* What becomes of the runs themselves.                                     *)

\* addRun and mergeImportedRun leave every other run, and the sources of all, alone.
LEMMA ImportKeepsSources ==
  ASSUME NEW p, ProfileInv(p), NEW incoming, NEW previous
  PROVE  /\ RunsKept(p, AddRun(p, incoming))
         /\ RunsKept(p, MergeImportedRun(p, incoming, previous))
<1> DEFINE key == Key(incoming, previous)
           result == MergeResult(p, incoming, previous)
<1>1. Len(p.runs) \in Nat /\ DOMAIN p.runs = Positions(p) /\ p.runs \in Seq(Runs)
  BY RunsTyped DEF ProfileInv, Shaped
<1>2. RunsKept(p, AddRun(p, incoming))
  <2>1. AddRun(p, incoming).runs = Append(p.runs, incoming) BY DEF AddRun
  <2>2. \A i \in Positions(p) : AddRun(p, incoming).runs[i] = p.runs[i]
    BY <1>1, <2>1 DEF Positions
  <2>3. Len(Append(p.runs, incoming)) = Len(p.runs) + 1 BY <1>1
  <2>4. Positions(p) \subseteq Positions(AddRun(p, incoming))
    BY <1>1, <2>1, <2>3 DEF Positions
  <2>5. QED BY <2>2, <2>4 DEF RunsKept, Kept
<1>3. \A old : Kept(old, old)
  BY DEF Kept
<1>4. CASE result = "Added"
  BY <1>2, <1>4 DEF MergeImportedRun
<1>5. CASE result = "Enriched"
  <2> DEFINE i == p.index[key]
             old == p.runs[i]
             run == Merged(old, incoming)
  <2>1. MergeImportedRun(p, incoming, previous).runs = [p.runs EXCEPT ![i] = run]
    <3>1. MergeImportedRun(p, incoming, previous) = MergedInto(p, incoming, key)
      BY <1>5 DEF MergeImportedRun
    <3>2. Enriched(p, i, run).runs = [p.runs EXCEPT ![i] = run]
      <4>1. p = [runs |-> p.runs, index |-> p.index, history |-> p.history, time |-> p.time,
                 count |-> p.count, total |-> p.total, latest |-> p.latest]
        BY DEF ProfileInv, Shaped
      <4>2. \A a, b : Enriched(p, a, b).runs = [p.runs EXCEPT ![a] = b]
        BY ONLY <4>1, EnrichedFields
      <4>3. QED BY ONLY <4>2
    <3>3. Rekeyed(Enriched(p, i, run), i, key).runs = [p.runs EXCEPT ![i] = run]
      <4>1. p = [runs |-> p.runs, index |-> p.index, history |-> p.history, time |-> p.time,
                 count |-> p.count, total |-> p.total, latest |-> p.latest]
        BY DEF ProfileInv, Shaped
      <4>2. \A a, b, c : Rekeyed(Enriched(p, a, b), a, c).runs = [p.runs EXCEPT ![a] = b]
        BY ONLY <4>1, RekeyedRuns
      <4>3. QED BY ONLY <4>2
    <3>4. QED BY <3>1, <3>2, <3>3 DEF MergedInto
  <2>2. \A j \in Positions(p) :
          MergeImportedRun(p, incoming, previous).runs[j] = IF j = i THEN run ELSE p.runs[j]
    BY <1>1, <2>1
  <2>3. Kept(old, run)
    BY DEF Kept, Merged, TakesPerf, TakesCsv, Id
  <2> HIDE DEF run
  <2>4. Len([p.runs EXCEPT ![i] = run]) = Len(p.runs) BY <1>1
  <2>5. QED BY <1>2, <1>3, <2>1, <2>2, <2>3, <2>4 DEF RunsKept, Positions
<1>6. CASE result # "Added" /\ result # "Enriched"
  BY <1>2, <1>3, <1>6 DEF MergeImportedRun, RunsKept
<1>7. QED BY <1>2, <1>4, <1>5, <1>6

\* What a call answers, and what it does to the runs.
LEMMA ImportRuns ==
  ASSUME NEW p, ProfileInv(p), NEW incoming, NEW previous
  PROVE  LET q == MergeImportedRun(p, incoming, previous)
             result == MergeResult(p, incoming, previous)
             key == Key(incoming, previous) IN
         /\ result \in {"Added", "Enriched", "Unchanged", "Conflict"}
         /\ result = "Added" => /\ previous = NoId /\ Id(incoming) \notin DOMAIN p.index
                                /\ q.runs = Append(p.runs, incoming)
         /\ result \in {"Enriched", "Unchanged"} =>
              \E i \in Positions(p) :
                /\ Id(p.runs[i]) = key /\ p.runs[i].scenario = incoming.scenario
                /\ (result = "Enriched") <=>
                     TakesPerf(p.runs[i], incoming) \/ TakesCsv(p.runs[i], incoming)
                /\ result = "Enriched" => q.runs = [p.runs EXCEPT ![i] = Merged(p.runs[i], incoming)]
         /\ result \in {"Unchanged", "Conflict"} => q = p
<1> DEFINE q == MergeImportedRun(p, incoming, previous)
           result == MergeResult(p, incoming, previous)
           key == Key(incoming, previous)
           i == p.index[key]
           old == p.runs[i]
<1>1. result \in {"Added", "Enriched", "Unchanged", "Conflict"} BY DEF MergeResult
<1>2. result = "Added" => /\ previous = NoId /\ Id(incoming) \notin DOMAIN p.index
                          /\ q.runs = Append(p.runs, incoming)
  BY DEF MergeResult, MergeImportedRun, AddRun, Key
<1>3. result \in {"Unchanged", "Conflict"} => q = p BY DEF MergeImportedRun
<1>4. ASSUME result \in {"Enriched", "Unchanged"}
      PROVE  /\ i \in Positions(p) /\ Id(old) = key /\ old.scenario = incoming.scenario
             /\ (result = "Enriched") <=> TakesPerf(old, incoming) \/ TakesCsv(old, incoming)
  <2>1. /\ key \in DOMAIN p.index /\ old.scenario = incoming.scenario
        /\ (result = "Enriched") <=> TakesPerf(old, incoming) \/ TakesCsv(old, incoming)
    BY <1>4 DEF MergeResult
  <2>2. i \in Positions(p) /\ Id(old) = key
    BY <2>1 DEF ProfileInv, IndexExactIn
  <2>3. QED BY <2>1, <2>2
<1>5. ASSUME result = "Enriched" PROVE q.runs = [p.runs EXCEPT ![i] = Merged(old, incoming)]
  <2> DEFINE run == Merged(old, incoming)
  <2>1. q = MergedInto(p, incoming, key) BY <1>5 DEF MergeImportedRun
  <2>2. p = [runs |-> p.runs, index |-> p.index, history |-> p.history, time |-> p.time,
             count |-> p.count, total |-> p.total, latest |-> p.latest]
    BY DEF ProfileInv, Shaped
  <2>3. \A a, b : Enriched(p, a, b).runs = [p.runs EXCEPT ![a] = b]
    BY ONLY <2>2, EnrichedFields
  <2>4. \A a, b, c : Rekeyed(Enriched(p, a, b), a, c).runs = [p.runs EXCEPT ![a] = b]
    BY ONLY <2>2, RekeyedRuns
  <2> HIDE DEF i, key, q
  <2> DEFINE enriched == Enriched(p, p.index[key], Merged(p.runs[p.index[key]], incoming))
  <2>5. \/ MergedInto(p, incoming, key) = enriched
        \/ MergedInto(p, incoming, key) = Rekeyed(enriched, p.index[key], key)
    BY ONLY Zenon DEF MergedInto
  <2>6. q.runs = enriched.runs \/ q.runs = Rekeyed(enriched, p.index[key], key).runs
    BY ONLY <2>1, <2>5
  <2>7. enriched.runs = [p.runs EXCEPT ![p.index[key]] = Merged(p.runs[p.index[key]], incoming)]
    BY ONLY <2>3
  <2>8. Rekeyed(enriched, p.index[key], key).runs
          = [p.runs EXCEPT ![p.index[key]] = Merged(p.runs[p.index[key]], incoming)]
    BY ONLY <2>4
  <2>9. QED BY ONLY <2>6, <2>7, <2>8 DEF i, old
<1> HIDE DEF q, result, key, i
<1>6. QED BY <1>1, <1>2, <1>3, <1>4, <1>5 DEF q, result, key

\* No call drops a run, replaces a source a run has, or changes the identity of a run
\* that has a performance (the early returns of mergeImportedRun).
THEOREM SourcesStayKept == Spec => SourcesKept
<1>1. Inv /\ [Next]_vars => [RunsKept(profile, profile')]_vars
  <2> SUFFICES ASSUME Inv, [Next]_vars PROVE RunsKept(profile, profile')
    OBVIOUS
  <2>1. \A p : RunsKept(p, p)
    BY DEF RunsKept, Kept
  <2>2. ASSUME NEW run \in Incoming, RunAdded(run) PROVE RunsKept(profile, profile')
    BY <2>1, <2>2, ImportKeepsSources DEF RunAdded, Inv
  <2>3. ASSUME NEW run \in Incoming, NEW previous, RunImported(run, previous)
        PROVE  RunsKept(profile, profile')
    BY <2>3, ImportKeepsSources DEF RunImported, Inv
  <2>4. CASE UNCHANGED vars
    BY <2>1, <2>4 DEF vars
  <2>5. QED BY <2>2, <2>3, <2>4 DEF Next
<1>2. QED BY <1>1, InvAlways, PTL DEF Spec, SourcesKept

=============================================================================
