------------------------------ MODULE DataLemmas ------------------------------
(***************************************************************************)
(* Lemmas about data that the proofs of several modules need: what is in a *)
(* queue after reading from it and posting to it, and sets of numbers.     *)
(***************************************************************************)
EXTENDS Sequences, Functions, SequenceTheorems, WellFoundedInduction, TLAPS

-----------------------------------------------------------------------------
(***************************************************************************)
(* A window's queue of packages.                                           *)
(***************************************************************************)
\* Reading takes the head and leaves the rest.
LEMMA RangeOfTail ==
    ASSUME NEW S, NEW s \in Seq(S), s # <<>>
    PROVE  /\ Range(s) = {Head(s)} \cup Range(Tail(s))
           /\ Tail(s) \in Seq(S)
<1>1. /\ Tail(s) \in Seq(S)
      /\ Len(Tail(s)) = Len(s) - 1
      /\ \A i \in 1 .. Len(Tail(s)) : Tail(s)[i] = s[i + 1]
  BY HeadTailProperties
<1>2. Range(s) = {s[i] : i \in 1 .. Len(s)}
  BY RangeEquality
<1>3. Range(Tail(s)) = {Tail(s)[i] : i \in 1 .. Len(Tail(s))}
  BY <1>1, RangeEquality
<1>4. Head(s) = s[1] /\ Len(s) \in Nat /\ Len(s) >= 1
  BY EmptySeq
<1>5. Range(s) \subseteq {Head(s)} \cup Range(Tail(s))
  <2>1. SUFFICES ASSUME NEW i \in 1 .. Len(s), i # 1
                 PROVE  s[i] \in Range(Tail(s))
    BY <1>2, <1>4
  <2>2. i - 1 \in 1 .. Len(Tail(s)) /\ Tail(s)[i - 1] = s[i]
    BY <2>1, <1>1, <1>4
  <2> QED BY <2>2, <1>3
<1>6. {Head(s)} \cup Range(Tail(s)) \subseteq Range(s)
  <2>1. Head(s) \in Range(s)
    BY <1>2, <1>4
  <2>2. \A i \in 1 .. Len(Tail(s)) : i + 1 \in 1 .. Len(s) /\ Tail(s)[i] = s[i + 1]
    BY <1>1, <1>4
  <2> QED BY <2>1, <2>2, <1>2, <1>3
<1> QED BY <1>1, <1>5, <1>6

\* Nothing is in an empty queue.
LEMMA RangeOfEmpty == Range(<<>>) = {}
<1>1. <<>> \in Seq({}) /\ Len(<<>>) = 0
  BY EmptySeq
<1>2. Range(<<>>) = {<<>>[i] : i \in 1 .. 0}
  BY <1>1, RangeEquality
<1> QED BY <1>2

\* A queue of one package has that package in it.
LEMMA RangeOfOne ==
    ASSUME NEW S, NEW m \in S
    PROVE  <<m>> \in Seq(S) /\ Range(<<m>>) = {m}
<1>1. <<m>> \in Seq(S) /\ Len(<<m>>) = 1 /\ <<m>>[1] = m
  OBVIOUS
<1>2. Range(<<m>>) = {<<m>>[i] : i \in 1 .. 1}
  BY <1>1, RangeEquality
<1> QED BY <1>1, <1>2

\* A queue of two packages has these in it.
LEMMA RangeOfTwo ==
    ASSUME NEW S, NEW m \in S, NEW n \in S
    PROVE  <<m, n>> \in Seq(S) /\ Range(<<m, n>>) = {m, n}
<1>1. <<m, n>> \in Seq(S) /\ Len(<<m, n>>) = 2 /\ <<m, n>>[1] = m /\ <<m, n>>[2] = n
  OBVIOUS
<1>2. Range(<<m, n>>) = {<<m, n>>[i] : i \in 1 .. 2}
  BY <1>1, RangeEquality
<1>3. 1 .. 2 = {1, 2}
  OBVIOUS
<1> QED BY <1>1, <1>2, <1>3

\* Posting adds the package, and nothing is lost.
LEMMA RangeOfAppend ==
    ASSUME NEW S, NEW s \in Seq(S), NEW m \in S
    PROVE  /\ Range(Append(s, m)) = Range(s) \cup {m}
           /\ Append(s, m) \in Seq(S)
<1>1. Append(s, m) = s \o <<m>>
  BY AppendIsConcat
<1>2. <<m>> \in Seq(S) /\ Range(<<m>>) = {m}
  BY RangeOfOne
<1>3. Range(s \o <<m>>) = Range(s) \cup Range(<<m>>)
  <2>1. PICK t \in Seq(S) : t = <<m>>
    BY <1>2
  <2>2. Range(s \o t) = Range(s) \cup Range(t)
    BY RangeConcatenation
  <2> QED BY <2>1, <2>2
<1>4. s \o <<m>> \in Seq(S)
  BY <1>2, ConcatProperties
<1> QED BY <1>1, <1>2, <1>3, <1>4

\* Posting several packages adds them all, and nothing is lost.
LEMMA RangeOfPosted ==
    ASSUME NEW S, NEW s \in Seq(S), NEW ms \in Seq(S)
    PROVE  /\ s \o ms \in Seq(S)
           /\ Range(s \o ms) = Range(s) \cup Range(ms)
  BY ConcatProperties, RangeConcatenation

-----------------------------------------------------------------------------
(***************************************************************************)
(* The order of the packages in a queue.                                   *)
(***************************************************************************)
\* No package of B comes anywhere after one of A.
NeverBefore(s, A, B) == \A i, k \in DOMAIN s : i < k /\ s[i] \in A => s[k] \notin B

\* Every package of A has one of B before it.
Preceded(s, A, B) == \A k \in DOMAIN s : s[k] \in A => \E i \in DOMAIN s : i < k /\ s[i] \in B

\* The places of the packages after reading.
LEMMA PlacesAfterRead ==
    ASSUME NEW S, NEW s \in Seq(S), s # <<>>
    PROVE  /\ Tail(s) \in Seq(S)
           /\ 1 \in DOMAIN s /\ s[1] = Head(s)
           /\ \A i \in DOMAIN Tail(s) : i \in Nat \ {0} /\ i + 1 \in DOMAIN s /\ Tail(s)[i] = s[i + 1]
           /\ \A k \in DOMAIN s : k \in Nat /\ (k # 1 => k - 1 \in DOMAIN Tail(s))
<1>1. /\ Tail(s) \in Seq(S)
      /\ Len(Tail(s)) = Len(s) - 1
      /\ \A i \in 1 .. Len(Tail(s)) : Tail(s)[i] = s[i + 1]
  BY HeadTailProperties
<1>2. Len(s) \in Nat /\ Len(s) >= 1 /\ Head(s) = s[1]
  BY EmptySeq
<1>3. DOMAIN s = 1 .. Len(s) /\ DOMAIN Tail(s) = 1 .. Len(Tail(s))
  BY <1>1, LenProperties
<1> QED BY <1>1, <1>2, <1>3

\* The places of the packages after posting: the old ones stay where they are.
LEMMA PlacesAfterPost ==
    ASSUME NEW S, NEW s \in Seq(S), NEW t \in Seq(S)
    PROVE  /\ s \o t \in Seq(S)
           /\ \A i \in DOMAIN s : i \in DOMAIN (s \o t) /\ (s \o t)[i] = s[i]
           /\ \A k \in DOMAIN t : k + Len(s) \in DOMAIN (s \o t) /\ (s \o t)[k + Len(s)] = t[k]
           /\ \A i \in DOMAIN (s \o t) :
                 i \in DOMAIN s \/ (i - Len(s) \in DOMAIN t /\ (s \o t)[i] = t[i - Len(s)])
           /\ Len(s) \in Nat
           /\ \A i \in DOMAIN s : i \in Nat /\ i <= Len(s)
           /\ \A k \in DOMAIN t : k \in Nat /\ k >= 1
           /\ DOMAIN (s \o t) \subseteq Nat
<1>1. /\ s \o t \in Seq(S)
      /\ Len(s \o t) = Len(s) + Len(t)
      /\ \A i \in 1 .. Len(s) + Len(t) :
            (s \o t)[i] = IF i <= Len(s) THEN s[i] ELSE t[i - Len(s)]
  BY ConcatProperties
<1>2. Len(s) \in Nat /\ Len(t) \in Nat
  BY LenProperties
<1>3. DOMAIN s = 1 .. Len(s) /\ DOMAIN t = 1 .. Len(t) /\ DOMAIN (s \o t) = 1 .. Len(s \o t)
  BY <1>1, LenProperties
<1> QED BY <1>1, <1>2, <1>3

\* Everything in a queue has a place.
LEMMA PlaceInQueue ==
    ASSUME NEW S, NEW s \in Seq(S), NEW m
    PROVE  m \in Range(s) <=> \E i \in DOMAIN s : s[i] = m
  BY RangeEquality, LenProperties

\* Reading keeps the order, and what was read is before all that is left.
LEMMA OrderAfterRead ==
    ASSUME NEW S, NEW s \in Seq(S), s # <<>>, NEW A, NEW B, NeverBefore(s, A, B)
    PROVE  /\ NeverBefore(Tail(s), A, B)
           /\ Head(s) \in A => Range(Tail(s)) \cap B = {}
<1>1. NeverBefore(Tail(s), A, B)
  <2> SUFFICES ASSUME NEW i \in DOMAIN Tail(s), NEW k \in DOMAIN Tail(s), i < k, Tail(s)[i] \in A
               PROVE  Tail(s)[k] \notin B
    BY DEF NeverBefore
  <2> QED BY PlacesAfterRead DEF NeverBefore
<1>2. ASSUME Head(s) \in A, NEW m \in Range(Tail(s)) PROVE m \notin B
  <2>1. Tail(s) \in Seq(S)
    BY PlacesAfterRead
  <2>2. PICK k \in DOMAIN Tail(s) : Tail(s)[k] = m
    BY <2>1, PlaceInQueue
  <2> QED BY <1>2, <2>2, PlacesAfterRead DEF NeverBefore
<1> QED BY <1>1, <1>2

\* Posting keeps the order, if nothing of B is posted behind something of A.
LEMMA OrderAfterPost ==
    ASSUME NEW S, NEW s \in Seq(S), NEW t \in Seq(S), NEW A, NEW B,
           NeverBefore(s, A, B), NeverBefore(t, A, B),
           Range(s) \cap A = {} \/ Range(t) \cap B = {}
    PROVE  NeverBefore(s \o t, A, B)
<1> SUFFICES ASSUME NEW i \in DOMAIN (s \o t), NEW k \in DOMAIN (s \o t), i < k, (s \o t)[i] \in A
             PROVE  (s \o t)[k] \notin B
  BY DEF NeverBefore
<1>1. CASE k \in DOMAIN s
  <2>1. i \in DOMAIN s
    BY <1>1, PlacesAfterPost
  <2> QED BY <1>1, <2>1, PlacesAfterPost DEF NeverBefore
<1>2. CASE i \notin DOMAIN s
  <2>1. /\ i - Len(s) \in DOMAIN t /\ (s \o t)[i] = t[i - Len(s)]
        /\ k - Len(s) \in DOMAIN t /\ (s \o t)[k] = t[k - Len(s)]
    BY <1>2, PlacesAfterPost
  <2>2. i - Len(s) < k - Len(s)
    BY PlacesAfterPost
  <2> QED BY <2>1, <2>2 DEF NeverBefore
<1>3. CASE i \in DOMAIN s /\ k \notin DOMAIN s
  <2>1. s[i] \in Range(s) /\ s[i] \in A
    BY <1>3, PlacesAfterPost, PlaceInQueue
  <2>2. (s \o t)[k] \in Range(t)
    BY <1>3, PlacesAfterPost, PlaceInQueue
  <2> QED BY <2>1, <2>2
<1> QED BY <1>1, <1>2, <1>3

\* Where there is nothing of A, or nothing of B, the order is kept.
LEMMA OrderVoid ==
    ASSUME NEW S, NEW s \in Seq(S), NEW A, NEW B, Range(s) \cap A = {} \/ Range(s) \cap B = {}
    PROVE  NeverBefore(s, A, B)
  BY PlaceInQueue DEF NeverBefore

\* Nothing comes after anything in a queue of at most one package.
LEMMA OrderOfFew ==
    ASSUME NEW S, NEW m \in S, NEW A, NEW B
    PROVE  NeverBefore(<<>>, A, B) /\ NeverBefore(<<m>>, A, B)
<1>1. DOMAIN <<>> = {}
  OBVIOUS
<1>2. <<m>> \in Seq(S) /\ Len(<<m>>) = 1
  OBVIOUS
<1>3. DOMAIN <<m>> = 1 .. 1
  BY <1>2, LenProperties
<1> QED BY <1>1, <1>3 DEF NeverBefore

\* What is before a package stays before it, unless it is read; the package
\* read itself has nothing before it.
LEMMA PrecededAfterRead ==
    ASSUME NEW S, NEW s \in Seq(S), s # <<>>, NEW A, NEW B, Preceded(s, A, B)
    PROVE  /\ Head(s) \notin A
           /\ Head(s) \notin B => Preceded(Tail(s), A, B)
<1>1. Head(s) \notin A
  BY PlacesAfterRead DEF Preceded
<1>2. ASSUME Head(s) \notin B PROVE Preceded(Tail(s), A, B)
  <2> SUFFICES ASSUME NEW k \in DOMAIN Tail(s), Tail(s)[k] \in A
               PROVE  \E i \in DOMAIN Tail(s) : i < k /\ Tail(s)[i] \in B
    BY DEF Preceded
  <2>1. k + 1 \in DOMAIN s /\ s[k + 1] \in A /\ k \in Nat
    BY PlacesAfterRead
  <2>2. PICK i \in DOMAIN s : i < k + 1 /\ s[i] \in B
    BY <2>1 DEF Preceded
  <2>3. i # 1 /\ i \in Nat
    BY <1>2, <2>2, PlacesAfterRead
  <2>4. i - 1 \in DOMAIN Tail(s) /\ i - 1 < k /\ Tail(s)[i - 1] = s[i]
    BY <2>1, <2>2, <2>3, PlacesAfterRead
  <2> QED BY <2>2, <2>4
<1> QED BY <1>1, <1>2

\* Posting leaves before each package what was before it.
LEMMA PrecededAfterPost ==
    ASSUME NEW S, NEW s \in Seq(S), NEW t \in Seq(S), NEW A, NEW B,
           Preceded(s, A, B), Preceded(t, A, B)
    PROVE  Preceded(s \o t, A, B)
<1> SUFFICES ASSUME NEW k \in DOMAIN (s \o t), (s \o t)[k] \in A
             PROVE  \E i \in DOMAIN (s \o t) : i < k /\ (s \o t)[i] \in B
  BY DEF Preceded
<1>1. CASE k \in DOMAIN s
  <2>1. PICK i \in DOMAIN s : i < k /\ s[i] \in B
    BY <1>1, PlacesAfterPost DEF Preceded
  <2> QED BY <2>1, PlacesAfterPost
<1>2. CASE k \notin DOMAIN s
  <2>1. k - Len(s) \in DOMAIN t /\ t[k - Len(s)] \in A
    BY <1>2, PlacesAfterPost
  <2>2. PICK i \in DOMAIN t : i < k - Len(s) /\ t[i] \in B
    BY <2>1 DEF Preceded
  <2>3. i + Len(s) \in DOMAIN (s \o t) /\ (s \o t)[i + Len(s)] \in B /\ i + Len(s) < k
    BY <2>2, PlacesAfterPost
  <2> QED BY <2>3
<1> QED BY <1>1, <1>2

\* A queue without packages of A has nothing of A that lacks one before it.
LEMMA PrecededVoid ==
    ASSUME NEW S, NEW s \in Seq(S), NEW A, NEW B, Range(s) \cap A = {}
    PROVE  Preceded(s, A, B)
  BY PlaceInQueue DEF Preceded

-----------------------------------------------------------------------------
(***************************************************************************)
(* The last of some packages in a queue.                                   *)
(***************************************************************************)
\* There are packages of P, and the last one of them is in A.
LastIn(s, P, A) == \E i \in DOMAIN s : s[i] \in A /\ \A k \in DOMAIN s : s[k] \in P => k <= i

\* Where there is no package of P there is no last one, and one package is the last.
LEMMA LastOfFew ==
    ASSUME NEW S, NEW P, NEW A, A \subseteq P
    PROVE  /\ \A s \in Seq(S) : Range(s) \cap P = {} => ~LastIn(s, P, A)
           /\ \A m \in S : LastIn(<<m>>, P, A) <=> m \in A
<1>1. ASSUME NEW s \in Seq(S), Range(s) \cap P = {} PROVE ~LastIn(s, P, A)
  BY <1>1, PlaceInQueue DEF LastIn
<1>2. ASSUME NEW m \in S PROVE LastIn(<<m>>, P, A) <=> m \in A
  <2>1. DOMAIN <<m>> = 1 .. 1 /\ <<m>>[1] = m
    <3>1. <<m>> \in Seq(S) /\ Len(<<m>>) = 1 /\ <<m>>[1] = m
      OBVIOUS
    <3> QED BY <3>1, LenProperties
  <2> QED BY <2>1 DEF LastIn
<1> QED BY <1>1, <1>2

\* Posting a package of P makes the last one anew, posting others leaves it.
LEMMA LastAfterPost ==
    ASSUME NEW S, NEW s \in Seq(S), NEW t \in Seq(S), NEW P, NEW A, A \subseteq P
    PROVE  /\ Range(t) \cap P = {} => (LastIn(s \o t, P, A) <=> LastIn(s, P, A))
           /\ Range(t) \cap P # {} => (LastIn(s \o t, P, A) <=> LastIn(t, P, A))
<1>1. ASSUME Range(t) \cap P = {} PROVE LastIn(s \o t, P, A) <=> LastIn(s, P, A)
  <2>1. \A i \in DOMAIN (s \o t) : (s \o t)[i] \in P => i \in DOMAIN s
    BY <1>1, PlacesAfterPost, PlaceInQueue
  <2> QED BY <2>1, PlacesAfterPost DEF LastIn
<1>2. ASSUME Range(t) \cap P # {} PROVE LastIn(s \o t, P, A) <=> LastIn(t, P, A)
  <2>1. PICK m \in DOMAIN t : t[m] \in P
    BY <1>2, PlaceInQueue
  <2>2. m + Len(s) \in DOMAIN (s \o t) /\ (s \o t)[m + Len(s)] \in P
    BY <2>1, PlacesAfterPost
  <2>3. ASSUME LastIn(s \o t, P, A) PROVE LastIn(t, P, A)
    <3>1. PICK i \in DOMAIN (s \o t) : /\ (s \o t)[i] \in A
                                       /\ \A k \in DOMAIN (s \o t) : (s \o t)[k] \in P => k <= i
      BY <2>3 DEF LastIn
    <3>2. m + Len(s) <= i
      BY <2>2, <3>1
    <3>3. i \notin DOMAIN s
      BY <3>2, PlacesAfterPost
    <3>4. i - Len(s) \in DOMAIN t /\ t[i - Len(s)] \in A
      BY <3>1, <3>3, PlacesAfterPost
    <3>5. ASSUME NEW k \in DOMAIN t, t[k] \in P PROVE k <= i - Len(s)
      <4>1. k + Len(s) \in DOMAIN (s \o t) /\ (s \o t)[k + Len(s)] \in P
        BY <3>5, PlacesAfterPost
      <4>2. k + Len(s) <= i
        BY <3>1, <4>1
      <4>3. i \in Nat /\ k \in Nat /\ Len(s) \in Nat
        BY PlacesAfterPost
      <4> QED BY <4>2, <4>3
    <3> QED BY <3>4, <3>5 DEF LastIn
  <2>4. ASSUME LastIn(t, P, A) PROVE LastIn(s \o t, P, A)
    <3>1. PICK i \in DOMAIN t : t[i] \in A /\ \A k \in DOMAIN t : t[k] \in P => k <= i
      BY <2>4 DEF LastIn
    <3>2. i + Len(s) \in DOMAIN (s \o t) /\ (s \o t)[i + Len(s)] \in A
      BY <3>1, PlacesAfterPost
    <3>3. ASSUME NEW k \in DOMAIN (s \o t), (s \o t)[k] \in P PROVE k <= i + Len(s)
      <4>1. CASE k \in DOMAIN s
        BY <4>1, PlacesAfterPost
      <4>2. CASE k \notin DOMAIN s
        <5>1. k - Len(s) \in DOMAIN t /\ t[k - Len(s)] \in P
          BY <3>3, <4>2, PlacesAfterPost
        <5>2. k - Len(s) <= i
          BY <3>1, <5>1
        <5>3. i \in Nat /\ k \in Nat /\ Len(s) \in Nat
          BY PlacesAfterPost
        <5> QED BY <5>2, <5>3
      <4> QED BY <4>1, <4>2
    <3> QED BY <3>2, <3>3 DEF LastIn
  <2> QED BY <2>3, <2>4
<1> QED BY <1>1, <1>2

\* Reading leaves the last one, unless it is the one that was read.
LEMMA LastAfterRead ==
    ASSUME NEW S, NEW s \in Seq(S), s # <<>>, NEW P, NEW A, A \subseteq P
    PROVE  /\ Range(Tail(s)) \cap P = {} => (LastIn(s, P, A) <=> Head(s) \in A)
           /\ Range(Tail(s)) \cap P # {} => (LastIn(s, P, A) <=> LastIn(Tail(s), P, A))
<1>1. Tail(s) \in Seq(S)
  BY PlacesAfterRead
<1>2. ASSUME Range(Tail(s)) \cap P = {} PROVE LastIn(s, P, A) <=> Head(s) \in A
  <2>1. ASSUME NEW i \in DOMAIN s, s[i] \in P, i # 1 PROVE FALSE
    <3>1. i - 1 \in DOMAIN Tail(s) /\ i \in Nat
      BY <2>1, PlacesAfterRead
    <3>2. Tail(s)[i - 1] = s[i]
      BY <3>1, PlacesAfterRead
    <3>3. s[i] \in Range(Tail(s))
      BY <1>1, <3>1, <3>2, PlaceInQueue
    <3> QED BY <1>2, <2>1, <3>3
  <2> QED BY <2>1, PlacesAfterRead DEF LastIn
<1>3. ASSUME Range(Tail(s)) \cap P # {} PROVE LastIn(s, P, A) <=> LastIn(Tail(s), P, A)
  <2>1. PICK m \in DOMAIN Tail(s) : Tail(s)[m] \in P
    <3>1. PICK p \in P : p \in Range(Tail(s))
      BY <1>3
    <3>2. \E k \in DOMAIN Tail(s) : Tail(s)[k] = p
      BY <1>1, <3>1, PlaceInQueue
    <3> QED BY <3>2
  <2>2. m + 1 \in DOMAIN s /\ s[m + 1] \in P /\ m >= 1
    BY <2>1, PlacesAfterRead
  <2>3. ASSUME LastIn(s, P, A) PROVE LastIn(Tail(s), P, A)
    <3>1. PICK i \in DOMAIN s : s[i] \in A /\ \A k \in DOMAIN s : s[k] \in P => k <= i
      BY <2>3 DEF LastIn
    <3>2. m + 1 <= i
      BY <2>2, <3>1
    <3>3. i - 1 \in DOMAIN Tail(s) /\ i \in Nat
      BY <2>2, <3>2, PlacesAfterRead
    <3>4. Tail(s)[i - 1] = s[i]
      BY <3>3, PlacesAfterRead
    <3>5. \A k \in DOMAIN Tail(s) : Tail(s)[k] \in P => k <= i - 1
      BY <3>1, <3>3, PlacesAfterRead
    <3> QED BY <3>1, <3>3, <3>4, <3>5 DEF LastIn
  <2>4. ASSUME LastIn(Tail(s), P, A) PROVE LastIn(s, P, A)
    <3>1. PICK i \in DOMAIN Tail(s) : /\ Tail(s)[i] \in A
                                      /\ \A k \in DOMAIN Tail(s) : Tail(s)[k] \in P => k <= i
      BY <2>4 DEF LastIn
    <3>2. i + 1 \in DOMAIN s /\ s[i + 1] \in A /\ i \in Nat
      BY <3>1, PlacesAfterRead
    <3>3. ASSUME NEW k \in DOMAIN s, s[k] \in P PROVE k <= i + 1
      <4>1. CASE k = 1
        BY <3>2, <4>1
      <4>2. CASE k # 1
        <5>1. k - 1 \in DOMAIN Tail(s) /\ k \in Nat
          BY <4>2, PlacesAfterRead
        <5>2. Tail(s)[k - 1] = s[(k - 1) + 1]
          BY <5>1, PlacesAfterRead
        <5>3. Tail(s)[k - 1] = s[k]
          BY <5>1, <5>2
        <5>4. k - 1 <= i
          BY <3>1, <3>3, <5>1, <5>3
        <5> QED BY <3>2, <5>1, <5>4
      <4> QED BY <4>1, <4>2
    <3> QED BY <3>2, <3>3 DEF LastIn
  <2> QED BY <2>3, <2>4
<1> QED BY <1>2, <1>3


-----------------------------------------------------------------------------
(***************************************************************************)
(* Sets of numbers.                                                        *)
(***************************************************************************)
\* A set of numbers has a least one ...
LEMMA LeastNumber ==
    ASSUME NEW T \in SUBSET Nat, T # {}
    PROVE  \E n \in T : \A m \in T : n <= m
<1> DEFINE less == OpToRel(<, Nat)
<1>1. IsWellFoundedOn(less, Nat)
  BY NatLessThanWellFounded
<1>2. \A m, n \in Nat : m < n => <<m, n>> \in less
  BY DEF OpToRel
<1> HIDE DEF less
<1>3. PICK n \in T : \A m \in T : ~ (<<m, n>> \in less)
  BY <1>1, WFMin
<1>4. \A m \in T : ~ (m < n)
  BY <1>2, <1>3
<1> QED BY <1>3, <1>4

\* ... so that a set with 0 and with the number after each of its has all.
LEMMA SetInduction ==
    ASSUME NEW S \in SUBSET Nat, 0 \in S, \A n \in S : n + 1 \in S
    PROVE  S = Nat
<1> SUFFICES ASSUME Nat \ S # {} PROVE FALSE
  OBVIOUS
<1>1. PICK n \in Nat \ S : \A m \in Nat \ S : n <= m
  BY LeastNumber
<1>2. n - 1 \in Nat /\ n - 1 < n
  BY <1>1
<1>3. n - 1 \in S
  BY <1>1, <1>2
<1> QED BY <1>1, <1>3
=============================================================================
