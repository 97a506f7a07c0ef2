---------------------------- MODULE Lists_proofs ----------------------------
(***************************************************************************)
(* What the list operations do to the contents of a list without           *)
(* repetition: pushing, taking the first, appending.  First for lists as   *)
(* sequences, then for lists threaded through links.                       *)
(***************************************************************************)
EXTENDS Links, FiniteSetTheorems, WellFoundedInduction, TLAPS

\* zero_strm_block_free: the block comes first, the others stay.
LEMMA Pushed ==
  ASSUME NEW S, NEW s \in Seq(S), NEW e \in S
  PROVE  /\ <<e>> \o s \in Seq(S)
         /\ Elems(<<e>> \o s) = Elems(s) \union {e}
         /\ Distinct(s) /\ e \notin Elems(s) => Distinct(<<e>> \o s)
<1> DEFINE t == <<e>> \o s
<1>1. t \in Seq(S) /\ Len(t) = Len(s) + 1 /\ t[1] = e
  OBVIOUS
<1>2. \A i \in 1 .. Len(s) : t[i + 1] = s[i]
  OBVIOUS
<1>3. \A i \in 2 .. Len(t) : t[i] = s[i - 1] /\ i - 1 \in 1 .. Len(s)
  BY <1>1
<1>4. Elems(t) = Elems(s) \union {e}
  <2>1. ASSUME NEW x \in Elems(t) PROVE x \in Elems(s) \union {e}
    <3>1. PICK i \in 1 .. Len(t) : x = t[i]
      BY <2>1 DEF Elems
    <3>2. CASE i = 1
      BY <1>1, <3>1, <3>2
    <3>3. CASE i \in 2 .. Len(t)
      BY <1>3, <3>1, <3>3 DEF Elems
    <3> QED BY <1>1, <3>1, <3>2, <3>3
  <2>2. e \in Elems(t)
    BY <1>1 DEF Elems
  <2>3. ASSUME NEW x \in Elems(s) PROVE x \in Elems(t)
    <3>1. PICK i \in 1 .. Len(s) : x = s[i]
      BY <2>3 DEF Elems
    <3>2. i + 1 \in 1 .. Len(t) /\ x = t[i + 1]
      BY <1>1, <1>2, <3>1
    <3> QED BY <3>2 DEF Elems
  <2> QED BY <2>1, <2>2, <2>3
<1>5. ASSUME Distinct(s), e \notin Elems(s) PROVE Distinct(t)
  BY <1>1, <1>3, <1>5 DEF Distinct, Elems
<1> QED BY <1>1, <1>4, <1>5

\* zero_strm_block_new and zero_strm_block_fetch: the first block goes.
LEMMA Taken ==
  ASSUME NEW S, NEW s \in Seq(S), s # << >>
  PROVE  /\ Head(s) \in S /\ Tail(s) \in Seq(S)
         /\ Elems(s) = Elems(Tail(s)) \union {Head(s)}
         /\ Distinct(s) => Distinct(Tail(s)) /\ Head(s) \notin Elems(Tail(s))
<1>1. /\ Len(s) \in Nat /\ Len(s) > 0 /\ Head(s) = s[1] /\ s[1] \in S
      /\ Tail(s) \in Seq(S) /\ Len(Tail(s)) = Len(s) - 1
  OBVIOUS
<1>2. \A i \in 1 .. Len(Tail(s)) : Tail(s)[i] = s[i + 1] /\ i + 1 \in 1 .. Len(s)
  OBVIOUS
<1>3. \A i \in 2 .. Len(s) : i - 1 \in 1 .. Len(Tail(s)) /\ s[i] = Tail(s)[i - 1]
  BY <1>1, <1>2
<1>4. Elems(s) = Elems(Tail(s)) \union {Head(s)}
  <2>1. ASSUME NEW x \in Elems(s) PROVE x \in Elems(Tail(s)) \union {Head(s)}
    <3>1. PICK i \in 1 .. Len(s) : x = s[i]
      BY <2>1 DEF Elems
    <3>2. CASE i = 1
      BY <1>1, <3>1, <3>2
    <3>3. CASE i \in 2 .. Len(s)
      BY <1>3, <3>1, <3>3 DEF Elems
    <3> QED BY <1>1, <3>1, <3>2, <3>3
  <2>2. Head(s) \in Elems(s)
    BY <1>1 DEF Elems
  <2>3. ASSUME NEW x \in Elems(Tail(s)) PROVE x \in Elems(s)
    <3>1. PICK i \in 1 .. Len(Tail(s)) : x = Tail(s)[i]
      BY <2>3 DEF Elems
    <3> QED BY <1>2, <3>1 DEF Elems
  <2> QED BY <2>1, <2>2, <2>3
<1>5. ASSUME Distinct(s) PROVE Distinct(Tail(s)) /\ Head(s) \notin Elems(Tail(s))
  BY <1>1, <1>2, <1>5 DEF Distinct, Elems
<1> QED BY <1>1, <1>4, <1>5

\* zero_strm_block_append: the block comes last, the others stay.
LEMMA AppendedLast ==
  ASSUME NEW S, NEW s \in Seq(S), NEW e \in S
  PROVE  /\ Append(s, e) \in Seq(S) /\ Append(s, e) # << >>
         /\ Elems(Append(s, e)) = Elems(s) \union {e}
         /\ Distinct(s) /\ e \notin Elems(s) => Distinct(Append(s, e))
<1> DEFINE t == Append(s, e)
<1>1. t \in Seq(S) /\ Len(t) = Len(s) + 1 /\ t[Len(t)] = e /\ Len(s) \in Nat
  OBVIOUS
<1>2. \A i \in 1 .. Len(s) : t[i] = s[i]
  OBVIOUS
<1>3. Elems(t) = Elems(s) \union {e}
  BY <1>1, <1>2 DEF Elems
<1>4. ASSUME Distinct(s), e \notin Elems(s) PROVE Distinct(t)
  BY <1>1, <1>2, <1>4 DEF Distinct, Elems
<1> QED BY <1>1, <1>3, <1>4

\* The head of a list that has a first block.
LEMMA HeadIsFirst ==
  ASSUME NEW S, NEW s \in Seq(S), 1 \in 1 .. Len(s)
  PROVE  s # << >> /\ Head(s) = s[1]
OBVIOUS

\* An empty list holds nothing.
LEMMA EmptyList == Elems(<< >>) = {} /\ Distinct(<< >>)
BY DEF Elems, Distinct

\* The user's buffer has room for N blocks: no list without repetition is longer,
LEMMA ListFits ==
  ASSUME NEW N \in Nat, NEW s \in Seq(0 .. N - 1), Distinct(s)
  PROVE  Len(s) <= N
<1>1. /\ IsFiniteSet(1 .. Len(s)) /\ Cardinality(1 .. Len(s)) = Len(s)
      /\ IsFiniteSet(0 .. N - 1) /\ Cardinality(0 .. N - 1) = N
  <2>1. /\ IsFiniteSet(1 .. Len(s))
        /\ Cardinality(1 .. Len(s)) = IF 1 > Len(s) THEN 0 ELSE Len(s) - 1 + 1
    BY FS_Interval
  <2>2. /\ IsFiniteSet(0 .. N - 1)
        /\ Cardinality(0 .. N - 1) = IF 0 > N - 1 THEN 0 ELSE N - 1 - 0 + 1
    BY FS_Interval
  <2> QED BY <2>1, <2>2
<1>2. s \in [1 .. Len(s) -> 0 .. N - 1]
  OBVIOUS
<1>3. CASE N < Len(s)
  <2>1. \E i, j \in 1 .. Len(s) : i # j /\ s[i] = s[j]
    BY <1>1, <1>2, <1>3, FS_PigeonHole
  <2> QED BY <2>1 DEF Distinct
<1> QED BY <1>3

\* and a list of them all is as long.
LEMMA ListOfAll ==
  ASSUME NEW N \in Nat, NEW s \in Seq(0 .. N - 1), 0 .. N - 1 \subseteq Elems(s)
  PROVE  N <= Len(s)
<1>1. /\ IsFiniteSet(1 .. Len(s)) /\ Cardinality(1 .. Len(s)) = Len(s)
      /\ Cardinality(0 .. N - 1) = N
  <2>1. /\ IsFiniteSet(1 .. Len(s))
        /\ Cardinality(1 .. Len(s)) = IF 1 > Len(s) THEN 0 ELSE Len(s) - 1 + 1
    BY FS_Interval
  <2>2. Cardinality(0 .. N - 1) = IF 0 > N - 1 THEN 0 ELSE N - 1 - 0 + 1
    BY FS_Interval
  <2> QED BY <2>1, <2>2
<1>2. s \in Surjection(1 .. Len(s), 0 .. N - 1)
  <2>1. s \in [1 .. Len(s) -> 0 .. N - 1]
    OBVIOUS
  <2>2. \A b \in 0 .. N - 1 : \E i \in 1 .. Len(s) : s[i] = b
    BY DEF Elems
  <2> QED BY <2>1, <2>2, Zenon DEF Surjection
<1>3. Cardinality(0 .. N - 1) <= Cardinality(1 .. Len(s))
  BY <1>1, <1>2, FS_Surjection
<1> QED BY <1>1, <1>3

\* One block more of bytes, one term more in the bound.
LEMMA OneMore == ASSUME NEW m \in Nat, NEW r \in Nat PROVE (m + 1) * r = m * r + r
OBVIOUS

\* More blocks hold no fewer bytes.
LEMMA MoreBlocks ==
  ASSUME NEW k \in Nat, NEW m \in Nat, NEW r \in Nat, k <= m
  PROVE  k * r <= m * r
<1>1. (m - k) * r >= 0 /\ m * r = k * r + (m - k) * r
  <2>1. PICK d \in Nat : d = m - k
    OBVIOUS
  <2>2. m = k + d /\ d * r \in Nat
    BY <2>1
  <2>3. (k + d) * r = k * r + d * r
    OBVIOUS
  <2> QED BY <2>1, <2>2, <2>3
<1> QED BY <1>1

---------------------------------------------------------------------------
(* Lists threaded through links.                                           *)

\* Induction over numbers, as a fact about sets of them.
LEMMA SetInduction ==
  ASSUME NEW S, 0 \in S, \A n \in Nat : n \in S => n + 1 \in S
  PROVE  Nat \subseteq S
<1> DEFINE R == OpToRel(<, Nat)
           T == Nat \ S
<1> SUFFICES ASSUME T # {} PROVE FALSE
  OBVIOUS
<1>1. \A x, y \in Nat : y < x => <<y, x>> \in R
  BY DEF OpToRel
<1>2. IsWellFoundedOn(R, Nat)
  BY NatLessThanWellFounded
<1> HIDE DEF R
<1>3. PICK x \in T : \A y \in T : ~ (<<y, x>> \in R)
  <2>1. T \subseteq Nat
    OBVIOUS
  <2> HIDE DEF T
  <2> QED BY <1>2, <2>1, WFMin
<1>4. x \in Nat /\ x # 0 /\ x - 1 \in Nat /\ x - 1 < x
  OBVIOUS
<1>5. <<x - 1, x>> \in R
  BY <1>1, <1>4
<1>6. x - 1 \in S
  BY <1>3, <1>4, <1>5
<1> QED BY <1>4, <1>6

\* A list without repetition has at most as many blocks as there are.
LEMMA ListFitsBlocks ==
  ASSUME NEW S, IsFiniteSet(S), NEW list \in Seq(S), Distinct(list)
  PROVE  Cardinality(S) \in Nat /\ Len(list) <= Cardinality(S)
<1>1. IsFiniteSet(1 .. Len(list)) /\ Cardinality(1 .. Len(list)) = Len(list)
  <2>1. /\ IsFiniteSet(1 .. Len(list))
        /\ Cardinality(1 .. Len(list)) = IF 1 > Len(list) THEN 0 ELSE Len(list) - 1 + 1
    BY FS_Interval
  <2> QED BY <2>1
<1>2. IsFiniteSet(S)
  OBVIOUS
<1>3. list \in Injection(1 .. Len(list), S)
  BY DEF Distinct, Injection, IsInjective
<1> QED BY <1>1, <1>2, <1>3, FS_Injection, FS_CardinalityType

\* A list threaded through next is what is found by following it.
LEMMA LinkedIsList ==
  ASSUME NEW S, IsFiniteSet(S), NULL \notin S, NEW next, DOMAIN next = S,
         NEW p, NEW list, LinkedIn(S, next, list, p)
  PROVE  Linked(next, p) = list
<1>1. /\ list \in Seq(S) /\ Distinct(list) /\ p = NextIn(list, 0)
      /\ \A i \in 1 .. Len(list) : next[list[i]] = NextIn(list, i)
  BY DEF LinkedIn
<1> DEFINE N == Cardinality(DOMAIN next) + 1
<1>2. N \in Nat
  BY <1>1, ListFitsBlocks
<1>3. PICK k \in Nat : k = Len(list)
  BY <1>1
<1>4. k <= N
  BY <1>1, <1>3, ListFitsBlocks
<1> DEFINE found == [n \in 0 .. N |-> NextIn(list, n)]
           hop == CHOOSE h : h = [n \in 0 .. N |->
                    IF n = 0 THEN p ELSE IF h[n - 1] = NULL THEN NULL ELSE next[h[n - 1]]]
<1>0. Linked(next, p) = [i \in 1 .. Cardinality({n \in 0 .. N : hop[n] # NULL}) |-> hop[i - 1]]
  BY Zenon DEF Linked
<1> HIDE DEF N
<1>5. \A n \in Nat : NextIn(list, n) = (IF n < k THEN list[n + 1] ELSE NULL)
                     /\ (n < k => list[n + 1] \in S)
  BY <1>1, <1>3 DEF NextIn
<1>6. found = [n \in 0 .. N |-> IF n = 0 THEN p ELSE IF found[n - 1] = NULL THEN NULL
                                                     ELSE next[found[n - 1]]]
  <2>1. ASSUME NEW n \in 0 .. N
        PROVE  NextIn(list, n) = IF n = 0 THEN p ELSE IF found[n - 1] = NULL THEN NULL
                                                      ELSE next[found[n - 1]]
    <3>1. CASE n = 0
      BY <1>1, <3>1
    <3>2. CASE n # 0
      <4>1. n - 1 \in 0 .. N /\ n - 1 \in Nat /\ n \in Nat
        BY <1>2, <3>2
      <4>2. found[n - 1] = NextIn(list, n - 1)
        BY <4>1
      <4>3. CASE n - 1 < k
        <5>1. found[n - 1] = list[n] /\ list[n] \in S
          BY <1>5, <4>1, <4>2, <4>3
        <5>2. n \in 1 .. k
          BY <1>3, <4>1, <4>3
        <5> HIDE DEF found
        <5> QED BY <1>1, <1>3, <3>2, <5>1, <5>2
      <4>4. CASE ~(n - 1 < k)
        <5>1. found[n - 1] = NULL /\ ~(n < k)
          BY <1>3, <1>5, <4>1, <4>2, <4>4
        <5>2. NextIn(list, n) = NULL
          BY <1>5, <4>1, <5>1
        <5> HIDE DEF found
        <5> QED BY <3>2, <5>1, <5>2
      <4> QED BY <4>3, <4>4
    <3> QED BY <3>1, <3>2
  <2> QED BY <2>1
<1>7. hop = [n \in 0 .. N |-> IF n = 0 THEN p ELSE IF hop[n - 1] = NULL THEN NULL
                                                   ELSE next[hop[n - 1]]]
  <2> HIDE DEF found
  <2> QED BY <1>6, Zenon
<1> HIDE DEF hop
<1>8. \A n \in 0 .. N : hop[n] = NextIn(list, n)
  <2> DEFINE Same == {n \in Nat : n \in 0 .. N => hop[n] = found[n]}
  <2>1. 0 \in Same
    <3>1. 0 \in 0 .. N
      BY <1>2
    <3>2. hop[0] = p
      BY <1>7, <3>1
    <3>3. found[0] = p
      BY <1>1, <3>1
    <3> QED BY <3>2, <3>3
  <2>2. ASSUME NEW n \in Nat, n \in Same PROVE n + 1 \in Same
    <3> SUFFICES ASSUME n + 1 \in 0 .. N PROVE hop[n + 1] = found[n + 1]
      OBVIOUS
    <3>1. n \in 0 .. N /\ n + 1 # 0 /\ (n + 1) - 1 = n
      BY <1>2
    <3>2. hop[n] = found[n]
      BY <2>2, <3>1
    <3>3. hop[n + 1] = IF hop[n] = NULL THEN NULL ELSE next[hop[n]]
      BY <1>7, <3>1
    <3> HIDE DEF found
    <3>4. found[n + 1] = IF found[n] = NULL THEN NULL ELSE next[found[n]]
      BY <1>6, <3>1
    <3> QED BY <3>2, <3>3, <3>4
  <2> HIDE DEF Same
  <2>3. Nat \subseteq Same
    BY <2>1, <2>2, SetInduction
  <2>4. \A n \in 0 .. N : n \in Same
    BY <1>2, <2>3
  <2>5. \A n \in 0 .. N : hop[n] = found[n]
    <3> HIDE DEF found
    <3> QED BY <2>4 DEF Same
  <2> QED BY <2>5
<1>9. Cardinality({n \in 0 .. N : hop[n] # NULL}) = k
  <2>1. {n \in 0 .. N : hop[n] # NULL} = 0 .. k - 1
    <3>1. \A n \in 0 .. N : hop[n] # NULL <=> n < k
      BY <1>1, <1>2, <1>5, <1>8
    <3> QED BY <1>2, <1>3, <1>4, <3>1
  <2>2. Cardinality(0 .. k - 1) = IF 0 > k - 1 THEN 0 ELSE k - 1 - 0 + 1
    <3>1. PICK last \in Int : last = k - 1
      BY <1>3
    <3>2. Cardinality(0 .. last) = IF 0 > last THEN 0 ELSE last - 0 + 1
      BY FS_Interval
    <3> QED BY <3>1, <3>2
  <2>3. (IF 0 > k - 1 THEN 0 ELSE k - 1 - 0 + 1) = k
    BY <1>3
  <2> QED BY <2>1, <2>2, <2>3
<1>10. \A i \in 1 .. k : hop[i - 1] = list[i]
  <2> SUFFICES ASSUME NEW i \in 1 .. k PROVE hop[i - 1] = list[i]
    OBVIOUS
  <2>1. i - 1 \in 0 .. N /\ i - 1 \in Nat /\ i - 1 < k /\ (i - 1) + 1 = i
    BY <1>2, <1>3, <1>4
  <2> QED BY <1>5, <1>8, <2>1
<1>11. Linked(next, p) = [i \in 1 .. k |-> list[i]]
  BY <1>0, <1>9, <1>10
<1> QED BY <1>1, <1>3, <1>11


---------------------------------------------------------------------------
(* What the calls do to a threaded list.                                    *)

\* A list's own facts, in one place.
LEMMA LinkedFacts ==
  ASSUME NEW S, NULL \notin S, NEW next, NEW p, NEW list, LinkedIn(S, next, list, p)
  PROVE  /\ list \in Seq(S) /\ Distinct(list) /\ Len(list) \in Nat
         /\ p = (IF Len(list) = 0 THEN NULL ELSE list[1])
         /\ \A i \in 1 .. Len(list) : list[i] \in S /\ list[i] \in Elems(list)
         /\ \A i \in 1 .. Len(list) :
              next[list[i]] = (IF i < Len(list) THEN list[i + 1] ELSE NULL)
         /\ p = NULL <=> list = <<>>
         /\ Elems(list) \subseteq S
         /\ list # <<>> => p = list[1] /\ p \in S /\ p \in Elems(list)
<1> USE DEF LinkedIn, NextIn, Elems
<1>1. /\ list \in Seq(S) /\ Distinct(list) /\ Len(list) \in Nat
      /\ \A i \in 1 .. Len(list) : list[i] \in S /\ list[i] \in Elems(list)
      /\ Elems(list) \subseteq S
  OBVIOUS
<1>2. p = (IF Len(list) = 0 THEN NULL ELSE list[1])
  BY <1>1
<1>3. list = <<>> <=> Len(list) = 0
  BY <1>1
<1>4. list # <<>> => p = list[1] /\ p \in S /\ p \in Elems(list)
  <2> HAVE list # <<>>
  <2>1. 1 \in 1 .. Len(list) /\ Len(list) # 0
    BY <1>1, <1>3
  <2>2. p = list[1]
    BY <1>2, <2>1
  <2> QED BY <1>1, <2>1, <2>2
<1>5. p = NULL <=> list = <<>>
  BY <1>2, <1>3, <1>4
<1> QED BY <1>1, <1>2, <1>4, <1>5

\* A link of a block that is not on the list does not matter.
LEMMA OtherLink ==
  ASSUME NEW S, NULL \notin S, NEW next, DOMAIN next = S,
         NEW p, NEW list, LinkedIn(S, next, list, p),
         NEW b \in S, b \notin Elems(list), NEW x
  PROVE  LinkedIn(S, [next EXCEPT ![b] = x], list, p)
<1>1. \A i \in 1 .. Len(list) : list[i] # b
  BY DEF Elems
<1>2. \A i \in 1 .. Len(list) : [next EXCEPT ![b] = x][list[i]] = next[list[i]]
  BY <1>1, LinkedFacts
<1> QED BY <1>2 DEF LinkedIn

\* zero_strm_block_free: a block linked to the head becomes the head.
LEMMA LinkedPush ==
  ASSUME NEW S, NULL \notin S, NEW next, NEW p, NEW list, LinkedIn(S, next, list, p),
         NEW b \in S, b \notin Elems(list), next[b] = p
  PROVE  /\ LinkedIn(S, next, <<b>> \o list, b)
         /\ Elems(<<b>> \o list) = Elems(list) \union {b}
<1> DEFINE new == <<b>> \o list
<1>1. /\ list \in Seq(S) /\ Distinct(list) /\ Len(list) \in Nat
      /\ p = NextIn(list, 0)
      /\ \A i \in 1 .. Len(list) : next[list[i]] = NextIn(list, i)
  BY DEF LinkedIn
<1>2. new \in Seq(S) /\ Distinct(new) /\ Elems(new) = Elems(list) \union {b}
  BY <1>1, Pushed
<1>3. /\ Len(new) = Len(list) + 1 /\ new[1] = b
      /\ \A i \in 1 .. Len(list) : new[i + 1] = list[i]
  BY <1>1
<1> HIDE DEF new
<1>4. \A i \in 0 .. Len(list) : NextIn(new, i + 1) = NextIn(list, i)
  BY <1>1, <1>3 DEF NextIn
<1>5. NextIn(new, 0) = b
  BY <1>1, <1>3 DEF NextIn
<1>6. ASSUME NEW i \in 1 .. Len(new) PROVE next[new[i]] = NextIn(new, i)
  <2>1. CASE i = 1
    <3>1. 0 \in 0 .. Len(list) /\ 0 + 1 = 1
      BY <1>1
    <3> QED BY <1>1, <1>3, <1>4, <2>1, <3>1
  <2>2. CASE i # 1
    <3>1. PICK j \in 1 .. Len(list) : i = j + 1
      <4>1. i - 1 \in 1 .. Len(list) /\ i = (i - 1) + 1
        BY <1>1, <1>3, <2>2
      <4> QED BY <4>1
    <3>2. j \in 0 .. Len(list)
      BY <1>1
    <3> QED BY <1>1, <1>3, <1>4, <3>1, <3>2
  <2> QED BY <2>1, <2>2
<1>7. LinkedIn(S, next, new, b)
  BY <1>2, <1>5, <1>6 DEF LinkedIn
<1> QED BY <1>2, <1>7 DEF new

\* zero_strm_block_new and _fetch: the head's link becomes the head.
LEMMA LinkedPop ==
  ASSUME NEW S, NULL \notin S, NEW next, NEW p, NEW list, LinkedIn(S, next, list, p),
         p # NULL
  PROVE  /\ LinkedIn(S, next, Tail(list), next[p])
         /\ list # <<>> /\ p = list[1] /\ p \in S
         /\ Elems(list) = Elems(Tail(list)) \union {p} /\ p \notin Elems(Tail(list))
<1> DEFINE new == Tail(list)
<1>1. /\ list \in Seq(S) /\ Distinct(list) /\ Len(list) \in Nat
      /\ \A i \in 1 .. Len(list) : next[list[i]] = NextIn(list, i)
      /\ list # <<>> /\ p = list[1] /\ p \in S
  BY LinkedFacts DEF LinkedIn
<1>2. Head(list) = list[1]
  BY <1>1
<1>3. /\ new \in Seq(S) /\ Distinct(new)
      /\ Elems(list) = Elems(new) \union {p} /\ p \notin Elems(new)
  BY <1>1, <1>2, Taken
<1>4. /\ Len(new) = Len(list) - 1 /\ Len(list) \in Nat \ {0}
      /\ \A i \in 1 .. Len(new) : new[i] = list[i + 1]
  BY <1>1
<1> HIDE DEF new
<1>5. \A i \in 0 .. Len(new) : NextIn(new, i) = NextIn(list, i + 1)
  BY <1>4 DEF NextIn
<1>6. next[p] = NextIn(new, 0)
  <2>1. 1 \in 1 .. Len(list) /\ 0 \in 0 .. Len(new) /\ 0 + 1 = 1
    BY <1>4
  <2> QED BY <1>1, <1>5, <2>1
<1>7. ASSUME NEW i \in 1 .. Len(new) PROVE next[new[i]] = NextIn(new, i)
  <2>1. i + 1 \in 1 .. Len(list) /\ i \in 0 .. Len(new)
    BY <1>4
  <2> QED BY <1>1, <1>4, <1>5, <2>1
<1>8. LinkedIn(S, next, new, next[p])
  BY <1>3, <1>6, <1>7 DEF LinkedIn
<1> QED BY <1>1, <1>3, <1>8 DEF new

\* zero_strm_block_append to a queue with something in it: the last block is
\* linked to the new one.
LEMMA LinkedAppend ==
  ASSUME NEW S, NULL \notin S, NEW next, DOMAIN next = S,
         NEW p, NEW list, LinkedIn(S, next, list, p),
         list # <<>>, NEW b \in S, b \notin Elems(list), next[b] = NULL
  PROVE  /\ LinkedIn(S, [next EXCEPT ![LastOf(list)] = b], Append(list, b), p)
         /\ Elems(Append(list, b)) = Elems(list) \union {b}
         /\ LastOf(list) \in Elems(list) /\ LastOf(list) \in S
<1> DEFINE new == Append(list, b)
           after == [next EXCEPT ![LastOf(list)] = b]
<1>1. /\ list \in Seq(S) /\ Distinct(list) /\ Len(list) \in Nat \ {0}
      /\ p = NextIn(list, 0)
      /\ \A i \in 1 .. Len(list) : next[list[i]] = NextIn(list, i)
      /\ \A i \in 1 .. Len(list) : list[i] \in S /\ list[i] \in Elems(list)
  BY LinkedFacts DEF LinkedIn
<1>2. LastOf(list) = list[Len(list)] /\ LastOf(list) \in Elems(list) /\ LastOf(list) \in S
  <2>1. Len(list) \in 1 .. Len(list)
    BY <1>1
  <2> QED BY <1>1, <2>1 DEF LastOf
<1>3. new \in Seq(S) /\ Distinct(new) /\ Elems(new) = Elems(list) \union {b}
  BY <1>1, AppendedLast
<1>4. /\ Len(new) = Len(list) + 1 /\ new[Len(list) + 1] = b
      /\ \A i \in 1 .. Len(list) : new[i] = list[i]
  BY <1>1
<1> HIDE DEF new
<1>5. /\ after[LastOf(list)] = b /\ after[b] = NULL
      /\ \A i \in 1 .. Len(list) - 1 : after[list[i]] = next[list[i]]
  <2>1. b # LastOf(list)
    BY <1>2
  <2>2. ASSUME NEW i \in 1 .. Len(list) - 1 PROVE list[i] # LastOf(list)
    <3>1. i \in 1 .. Len(list) /\ Len(list) \in 1 .. Len(list) /\ i # Len(list)
      BY <1>1
    <3> QED BY <1>1, <1>2, <3>1 DEF Distinct
  <2>3. \A i \in 1 .. Len(list) - 1 : list[i] \in S
    BY <1>1
  <2> QED BY <1>2, <2>1, <2>2, <2>3
<1> HIDE DEF after
<1>6. p = NextIn(new, 0)
  BY <1>1, <1>4 DEF NextIn
<1>7. ASSUME NEW i \in 1 .. Len(new) PROVE after[new[i]] = NextIn(new, i)
  <2>1. CASE i \in 1 .. Len(list) - 1
    <3>1. /\ i \in 1 .. Len(list) /\ i + 1 \in 1 .. Len(list)
          /\ i < Len(list) /\ i < Len(new)
      BY <1>1, <1>4, <2>1
    <3> QED BY <1>1, <1>4, <1>5, <2>1, <3>1 DEF NextIn
  <2>2. CASE i = Len(list)
    <3>1. i \in 1 .. Len(list) /\ i < Len(new)
      BY <1>1, <1>4, <2>2
    <3> QED BY <1>2, <1>4, <1>5, <2>2, <3>1 DEF NextIn
  <2>3. CASE i = Len(list) + 1
    BY <1>1, <1>4, <1>5, <2>3 DEF NextIn
  <2>4. i \in 1 .. Len(list) - 1 \/ i = Len(list) \/ i = Len(list) + 1
    BY <1>1, <1>4
  <2> QED BY <2>1, <2>2, <2>3, <2>4
<1>8. LinkedIn(S, after, new, p)
  BY <1>3, <1>6, <1>7 DEF LinkedIn
<1> QED BY <1>2, <1>3, <1>8 DEF new, after

\* A block linked to nothing is a list, and no block is one.
LEMMA LinkedOne ==
  ASSUME NEW S, NEW next
  PROVE  /\ LinkedIn(S, next, <<>>, NULL)
         /\ \A b \in S : next[b] = NULL => LinkedIn(S, next, <<b>>, b)
<1>1. LinkedIn(S, next, <<>>, NULL)
  BY EmptyList DEF LinkedIn, NextIn
<1>2. ASSUME NEW b \in S, next[b] = NULL PROVE LinkedIn(S, next, <<b>>, b)
  <2>1. <<b>> \in Seq(S) /\ Len(<<b>>) = 1 /\ <<b>>[1] = b
    OBVIOUS
  <2>2. Distinct(<<b>>)
    BY <2>1 DEF Distinct
  <2>3. NextIn(<<b>>, 0) = b /\ NextIn(<<b>>, 1) = NULL
    BY <2>1 DEF NextIn
  <2> QED BY <1>2, <2>1, <2>2, <2>3 DEF LinkedIn
<1> QED BY <1>1, <1>2

\* The end of a list whose head is removed, and of one appended to.
LEMMA LastOfLists ==
  ASSUME NEW S, NULL \notin S, NEW list \in Seq(S), Distinct(list)
  PROVE  /\ list = <<>> <=> LastOf(list) = NULL
         /\ list # <<>> => (LastOf(Tail(list)) = IF LastOf(list) = list[1] THEN NULL
                                                 ELSE LastOf(list))
         /\ \A b \in S : LastOf(Append(list, b)) = b
<1>1. Len(list) \in Nat /\ (list = <<>> <=> Len(list) = 0)
  OBVIOUS
<1>2. ASSUME list # <<>> PROVE LastOf(list) = list[Len(list)] /\ LastOf(list) \in S
  <2>1. Len(list) \in 1 .. Len(list)
    BY <1>1, <1>2
  <2> QED BY <1>2, <2>1 DEF LastOf
<1>3. ASSUME list # <<>>
      PROVE  LastOf(Tail(list)) = IF LastOf(list) = list[1] THEN NULL ELSE LastOf(list)
  <2> DEFINE rest == Tail(list)
  <2>1. /\ rest \in Seq(S) /\ Len(rest) = Len(list) - 1
        /\ \A i \in 1 .. Len(list) - 1 : rest[i] = list[i + 1]
    BY <1>3
  <2> HIDE DEF rest
  <2>2. 1 \in 1 .. Len(list) /\ Len(list) \in 1 .. Len(list)
    BY <1>1, <1>3
  <2>3. CASE Len(list) = 1
    <3>1. rest = <<>>
      BY <2>1, <2>3
    <3> QED BY <1>2, <1>3, <2>3, <3>1 DEF LastOf, rest
  <2>4. CASE Len(list) # 1
    <3>1. list[Len(list)] # list[1]
      BY <2>2, <2>4 DEF Distinct
    <3>2. Len(list) - 1 \in 1 .. Len(list) - 1 /\ (Len(list) - 1) + 1 = Len(list)
      <4>1. PICK k \in Nat : k = Len(list)
        BY <1>1
      <4>2. k # 0 /\ k # 1
        BY <1>1, <1>3, <2>4, <4>1
      <4>3. k - 1 \in 1 .. k - 1 /\ (k - 1) + 1 = k
        BY <4>2
      <4> QED BY <4>1, <4>3
    <3>3. rest # <<>> /\ Len(rest) = Len(list) - 1
      BY <2>1, <3>2
    <3>4. rest[Len(list) - 1] = list[Len(list)]
      BY <2>1, <3>2
    <3>5. LastOf(rest) = list[Len(list)]
      BY <3>3, <3>4 DEF LastOf
    <3> QED BY <1>2, <1>3, <3>1, <3>5 DEF rest
  <2> QED BY <2>3, <2>4
<1>4. ASSUME NEW b \in S PROVE LastOf(Append(list, b)) = b
  <2>1. /\ Append(list, b) # <<>> /\ Len(Append(list, b)) = Len(list) + 1
        /\ Append(list, b)[Len(list) + 1] = b
    OBVIOUS
  <2> QED BY <2>1 DEF LastOf
<1>5. list = <<>> <=> LastOf(list) = NULL
  BY <1>2 DEF LastOf
<1> QED BY <1>3, <1>4, <1>5

\* A list without its i-th node.
Without(list, i) == [j \in 1 .. Len(list) - 1 |-> IF j < i THEN list[j] ELSE list[j + 1]]

\* Its nodes, in terms of those of the list.
LEMMA WithoutOne ==
  ASSUME NEW S, NEW list \in Seq(S), Distinct(list), NEW i \in 1 .. Len(list)
  PROVE  /\ Without(list, i) \in Seq(S) /\ Distinct(Without(list, i))
         /\ Len(Without(list, i)) = Len(list) - 1
         /\ \A j \in 1 .. Len(list) - 1 :
              Without(list, i)[j] = (IF j < i THEN list[j] ELSE list[j + 1])
         /\ Elems(Without(list, i)) = Elems(list) \ {list[i]}
<1> DEFINE out == Without(list, i)
<1>1. PICK n \in Nat : n = Len(list)
  OBVIOUS
<1>2. n # 0 /\ n - 1 \in Nat /\ i \in 1 .. n
  BY <1>1
<1>3. \A j \in 1 .. n : list[j] \in S
  BY <1>1
<1>4. ASSUME NEW j \in 1 .. n - 1
      PROVE  (IF j < i THEN list[j] ELSE list[j + 1]) \in S
  BY <1>2, <1>3
<1>5. out = [j \in 1 .. n - 1 |-> IF j < i THEN list[j] ELSE list[j + 1]]
  BY <1>1 DEF Without
<1> HIDE DEF out
<1>6. out \in Seq(S) /\ Len(out) = n - 1
  BY <1>2, <1>4, <1>5
<1>7. \A j \in 1 .. n - 1 : out[j] = (IF j < i THEN list[j] ELSE list[j + 1])
  BY <1>5
<1>8. Distinct(out)
  <2> SUFFICES ASSUME NEW j \in 1 .. n - 1, NEW k \in 1 .. n - 1, out[j] = out[k] PROVE j = k
    BY <1>6 DEF Distinct
  <2>1. \A a, b \in 1 .. n : list[a] = list[b] => a = b
    BY <1>1 DEF Distinct
  <2>2. j \in 1 .. n /\ k \in 1 .. n /\ j + 1 \in 1 .. n /\ k + 1 \in 1 .. n
    BY <1>2
  <2>3. CASE j < i /\ k < i
    BY <1>7, <2>1, <2>2, <2>3
  <2>4. CASE j < i /\ ~(k < i)
    <3>1. list[j] = list[k + 1] /\ j # k + 1
      BY <1>2, <1>7, <2>2, <2>4
    <3> QED BY <2>1, <2>2, <3>1
  <2>5. CASE ~(j < i) /\ k < i
    <3>1. list[k] = list[j + 1] /\ k # j + 1
      BY <1>2, <1>7, <2>2, <2>5
    <3> QED BY <2>1, <2>2, <3>1
  <2>6. CASE ~(j < i) /\ ~(k < i)
    <3>1. list[j + 1] = list[k + 1]
      BY <1>7, <2>6
    <3>2. j + 1 = k + 1
      BY <2>1, <2>2, <3>1
    <3> QED BY <3>2
  <2> QED BY <2>3, <2>4, <2>5, <2>6
<1>9. Elems(out) = Elems(list) \ {list[i]}
  <2>1. ASSUME NEW x \in Elems(out) PROVE x \in Elems(list) \ {list[i]}
    <3>1. PICK j \in 1 .. n - 1 : x = out[j]
      BY <1>6 DEF Elems
    <3>2. \E k \in 1 .. n : k # i /\ x = list[k]
      <4>1. CASE j < i
        BY <1>2, <1>7, <3>1, <4>1
      <4>2. CASE ~(j < i)
        <5>1. j + 1 \in 1 .. n /\ j + 1 # i /\ x = list[j + 1]
          BY <1>2, <1>7, <3>1, <4>2
        <5> QED BY <5>1
      <4> QED BY <4>1, <4>2
    <3> QED BY <1>1, <1>2, <3>2 DEF Elems, Distinct
  <2>2. ASSUME NEW x \in Elems(list), x # list[i] PROVE x \in Elems(out)
    <3>1. PICK k \in 1 .. n : x = list[k] /\ k # i
      BY <1>1, <2>2 DEF Elems
    <3>2. CASE k < i
      <4>1. k \in 1 .. n - 1 /\ out[k] = x
        BY <1>2, <1>7, <3>1, <3>2
      <4> QED BY <1>6, <4>1 DEF Elems
    <3>3. CASE ~(k < i)
      <4>1. k - 1 \in 1 .. n - 1 /\ ~(k - 1 < i) /\ (k - 1) + 1 = k
        BY <1>2, <3>1, <3>3
      <4>2. out[k - 1] = x
        BY <1>7, <3>1, <4>1
      <4> QED BY <1>6, <4>1, <4>2 DEF Elems
    <3> QED BY <3>2, <3>3
  <2> QED BY <2>1, <2>2
<1> QED BY <1>1, <1>6, <1>7, <1>8, <1>9 DEF out

\* A node is taken out of the middle of a list: the link that led to it leads past it.
LEMMA LinkedRemove ==
  ASSUME NEW S, NULL \notin S, NEW next, NEW p, NEW list, LinkedIn(S, next, list, p),
         NEW i \in 1 .. Len(list), NEW after, NEW q,
         i = 1 => q = next[list[i]],
         i # 1 => q = p /\ after[list[i - 1]] = next[list[i]],
         \A j \in 1 .. Len(list) : j # i /\ j # i - 1 => after[list[j]] = next[list[j]]
  PROVE  LinkedIn(S, after, Without(list, i), q)
<1>1. /\ list \in Seq(S) /\ Distinct(list) /\ p = NextIn(list, 0)
      /\ \A j \in 1 .. Len(list) : next[list[j]] = NextIn(list, j)
  BY DEF LinkedIn
<1> DEFINE out == Without(list, i)
<1>2. PICK n \in Nat : n = Len(list)
  BY <1>1
<1>3. /\ out \in Seq(S) /\ Distinct(out) /\ Len(out) = n - 1
      /\ \A j \in 1 .. n - 1 : out[j] = (IF j < i THEN list[j] ELSE list[j + 1])
  BY <1>1, <1>2, WithoutOne
<1> HIDE DEF out
<1>4. i \in 1 .. n /\ n # 0
  BY <1>2
<1>5. /\ \A j \in 0 .. n - 1 : j < i - 1 => NextIn(out, j) = NextIn(list, j)
      /\ \A j \in 0 .. n - 1 : i - 1 <= j => NextIn(out, j) = NextIn(list, j + 1)
  <2>1. ASSUME NEW j \in 0 .. n - 1, j < i - 1 PROVE NextIn(out, j) = NextIn(list, j)
    <3>1. j + 1 \in 1 .. n - 1 /\ j + 1 < i /\ j < n - 1 /\ j < n
      BY <1>4, <2>1
    <3> QED BY <1>2, <1>3, <3>1 DEF NextIn
  <2>2. ASSUME NEW j \in 0 .. n - 1, i - 1 <= j PROVE NextIn(out, j) = NextIn(list, j + 1)
    <3>1. CASE j < n - 1
      <4>1. j + 1 \in 1 .. n - 1 /\ ~(j + 1 < i) /\ j + 1 < n
        BY <1>4, <2>2, <3>1
      <4> QED BY <1>2, <1>3, <3>1, <4>1 DEF NextIn
    <3>2. CASE ~(j < n - 1)
      <4>1. ~(j + 1 < n)
        BY <1>4, <3>2
      <4> QED BY <1>2, <1>3, <3>2, <4>1 DEF NextIn
    <3> QED BY <3>1, <3>2
  <2> QED BY <2>1, <2>2
<1>6. q = NextIn(out, 0)
  <2>1. 0 \in 0 .. n - 1 /\ 0 + 1 = 1
    BY <1>4
  <2>2. CASE i = 1
    <3>1. q = NextIn(list, 1) /\ i - 1 <= 0
      BY <1>1, <1>2, <1>4, <2>2
    <3> QED BY <1>5, <2>1, <3>1
  <2>3. CASE i # 1
    <3>1. 0 < i - 1 /\ q = p
      BY <1>4, <2>3
    <3> QED BY <1>1, <1>5, <2>1, <3>1
  <2> QED BY <2>2, <2>3
<1>7. ASSUME NEW j \in 1 .. n - 1 PROVE after[out[j]] = NextIn(out, j)
  <2>1. j \in 0 .. n - 1 /\ j \in 1 .. n /\ j + 1 \in 1 .. n
    BY <1>4
  <2>2. CASE j < i - 1
    <3>1. out[j] = list[j] /\ after[list[j]] = next[list[j]]
      <4>1. j < i /\ j # i /\ j # i - 1
        BY <1>4, <2>2
      <4> QED BY <1>2, <1>3, <2>1, <4>1
    <3> QED BY <1>1, <1>2, <1>5, <2>1, <2>2, <3>1
  <2>3. CASE j = i - 1
    <3>1. j < i /\ i # 1 /\ i - 1 <= j /\ j + 1 = i
      BY <1>4, <2>3
    <3>2. out[j] = list[i - 1] /\ after[list[i - 1]] = next[list[i]]
      BY <1>3, <2>3, <3>1
    <3>3. next[list[i]] = NextIn(list, j + 1)
      BY <1>1, <1>2, <1>4, <3>1
    <3> QED BY <1>5, <2>1, <3>1, <3>2, <3>3
  <2>4. CASE j > i - 1
    <3>1. ~(j < i) /\ j + 1 # i /\ j + 1 # i - 1 /\ i - 1 <= j
      BY <1>4, <2>4
    <3>2. out[j] = list[j + 1] /\ after[list[j + 1]] = next[list[j + 1]]
      BY <1>2, <1>3, <2>1, <3>1
    <3> QED BY <1>1, <1>2, <1>5, <2>1, <3>1, <3>2
  <2> QED BY <1>4, <2>2, <2>3, <2>4
<1>8. LinkedIn(S, after, out, q)
  BY <1>3, <1>6, <1>7 DEF LinkedIn
<1> QED BY <1>8 DEF out

\* A list without repetition has as many nodes as it is long.
LEMMA CountNodes ==
  ASSUME NEW S, NEW list \in Seq(S), Distinct(list)
  PROVE  Cardinality(Elems(list)) = Len(list)
<1>1. IsFiniteSet(1 .. Len(list)) /\ Cardinality(1 .. Len(list)) = Len(list)
  <2>1. /\ IsFiniteSet(1 .. Len(list))
        /\ Cardinality(1 .. Len(list)) = IF 1 > Len(list) THEN 0 ELSE Len(list) - 1 + 1
    BY FS_Interval
  <2> QED BY <2>1
<1>2. list \in Bijection(1 .. Len(list), Elems(list))
  <2>1. list \in [1 .. Len(list) -> Elems(list)]
    BY DEF Elems
  <2>2. \A x \in Elems(list) : \E j \in 1 .. Len(list) : list[j] = x
    BY DEF Elems
  <2>3. list \in Surjection(1 .. Len(list), Elems(list))
    BY <2>1, <2>2, Zenon DEF Surjection
  <2>4. list \in Injection(1 .. Len(list), Elems(list))
    BY <2>1 DEF Injection, IsInjective, Distinct
  <2> QED BY <2>3, <2>4 DEF Bijection
<1>3. ExistsBijection(1 .. Len(list), Elems(list))
  BY <1>2, Zenon DEF ExistsBijection
<1>4. /\ IsFiniteSet(Elems(list))
      /\ Cardinality(1 .. Len(list)) = Cardinality(Elems(list))
  BY <1>1, <1>3, FS_Bijection, Zenon
<1> QED BY <1>1, <1>4
=============================================================================
