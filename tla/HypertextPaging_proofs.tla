------------------------ MODULE HypertextPaging_proofs ------------------------
(***************************************************************************)
(* Theorems about the iteration through the hyperlinks of a component, for *)
(* every set of links, every size of a page and every series of edits.     *)
(***************************************************************************)
EXTENDS HypertextPaging, SequenceTheorems, TLAPS

-----------------------------------------------------------------------------
(***************************************************************************)
(* The document after an edit, and a page of it, link by link.             *)
(***************************************************************************)
\* The lesser of two numbers.
LEMMA MinOfTwo ==
    ASSUME NEW m \in Int, NEW n \in Int
    PROVE  Min({m, n}) = IF m <= n THEN m ELSE n
<1>1. \A x \in {m, n} : (\A y \in {m, n} : x <= y) <=> x = IF m <= n THEN m ELSE n
  OBVIOUS
<1> QED BY <1>1 DEF Min

\* What is up to the lesser of two numbers is up to both.
LEMMA UpToMin ==
    ASSUME NEW m \in Nat, NEW n \in Nat
    PROVE  \A k : k \in 1 .. Min({m, n}) <=> k \in Nat /\ k >= 1 /\ k <= m /\ k <= n
<1>1. Min({m, n}) = IF m <= n THEN m ELSE n
  BY MinOfTwo
<1> QED BY <1>1

\* What is in a document has an index.
LEMMA LinkHasIndex ==
    ASSUME NEW d \in Seq(Links)
    PROVE  /\ Len(d) \in Nat /\ DOMAIN d = 1 .. Len(d)
           /\ \A i \in 1 .. Len(d) : d[i] \in Links
           /\ Range(d) = {d[i] : i \in 1 .. Len(d)}
<1>1. Len(d) \in Nat /\ DOMAIN d = 1 .. Len(d)
  BY LenProperties
<1>2. \A i \in 1 .. Len(d) : d[i] \in Links
  BY ElementOfSeq
<1> QED BY <1>1, <1>2 DEF Range

\* Two parts of a document put together: the link at each place.
LEMMA LinksTogether ==
    ASSUME NEW a \in Seq(Links), NEW b \in Seq(Links)
    PROVE  /\ a \o b \in Seq(Links) /\ Len(a \o b) = Len(a) + Len(b)
           /\ Len(a) \in Nat /\ Len(b) \in Nat
           /\ \A k \in Nat : /\ k >= 1 /\ k <= Len(a) => (a \o b)[k] = a[k]
                             /\ k > Len(a) /\ k <= Len(a) + Len(b) => (a \o b)[k] = b[k - Len(a)]
<1>1. /\ a \o b \in Seq(Links) /\ Len(a \o b) = Len(a) + Len(b)
      /\ \A k \in 1 .. Len(a) + Len(b) :
            (a \o b)[k] = IF k <= Len(a) THEN a[k] ELSE b[k - Len(a)]
  BY ConcatProperties
<1>2. Len(a) \in Nat /\ Len(b) \in Nat
  BY LenProperties
<1>3. ASSUME NEW k \in Nat, k >= 1, k <= Len(a) PROVE (a \o b)[k] = a[k]
  BY <1>1, <1>2, <1>3
<1>4. ASSUME NEW k \in Nat, k > Len(a), k <= Len(a) + Len(b) PROVE (a \o b)[k] = b[k - Len(a)]
  BY <1>1, <1>2, <1>4
<1> QED BY <1>1, <1>2, <1>3, <1>4

\* e is document d with link l inserted at index i: the links behind it move up.
Inserted(d, i, l, e) ==
    /\ e \in Seq(Links) /\ Len(e) = Len(d) + 1
    /\ \A k \in 1 .. Len(e) : e[k] = IF k <= i THEN d[k] ELSE IF k = i + 1 THEN l ELSE d[k - 1]

\* e is document d without the link at index i: the links behind it move down.
Removed(d, i, e) ==
    /\ e \in Seq(Links) /\ Len(e) = Len(d) - 1
    /\ \A k \in 1 .. Len(e) : e[k] = IF k <= i THEN d[k] ELSE d[k + 1]

\* That is what InsertAt does ...
LEMMA LinksAfterInsertion ==
    ASSUME NEW d \in Seq(Links), NEW i \in 0 .. Len(d), NEW l \in Links
    PROVE  Inserted(d, i, l, InsertAt(d, i + 1, l))
<1> DEFINE a == SubSeq(d, 1, i)
           b == <<l>>
           c == SubSeq(d, i + 1, Len(d))
<1>1. Len(d) \in Nat /\ i \in Nat /\ \A k \in 1 .. Len(d) : d[k] \in Links
  BY LinkHasIndex
<1>2. a \in Seq(Links) /\ Len(a) = i /\ \A k \in 1 .. i : a[k] = d[k]
  BY <1>1, SubSeqProperties
<1>3. b \in Seq(Links) /\ Len(b) = 1 /\ b[1] = l
  OBVIOUS
<1>4. /\ c \in Seq(Links) /\ Len(c) = Len(d) - i
      /\ \A k \in 1 .. Len(d) - i : c[k] = d[i + k]
  <2>1. /\ c \in Seq(Links)
        /\ Len(c) = IF i + 1 <= Len(d) THEN Len(d) - (i + 1) + 1 ELSE 0
        /\ \A k \in 1 .. Len(d) - (i + 1) + 1 : c[k] = d[(i + 1) + k - 1]
    BY <1>1, SubSeqProperties
  <2>2. Len(c) = Len(d) - i
    BY <1>1, <2>1
  <2>3. ASSUME NEW k \in 1 .. Len(d) - i PROVE c[k] = d[i + k]
    <3>1. k \in 1 .. Len(d) - (i + 1) + 1 /\ (i + 1) + k - 1 = i + k
      BY <1>1
    <3> QED BY <2>1, <3>1
  <2> QED BY <2>1, <2>2, <2>3
<1>5. InsertAt(d, i + 1, l) = (a \o b) \o c
  <2>1. (i + 1) - 1 = i
    BY <1>1
  <2> QED BY <2>1, Zenon DEF InsertAt
<1> HIDE DEF a, b, c
<1>6. /\ a \o b \in Seq(Links) /\ Len(a \o b) = i + 1
      /\ \A k \in 1 .. i : (a \o b)[k] = d[k]
      /\ (a \o b)[i + 1] = l
  <2>1. /\ a \o b \in Seq(Links) /\ Len(a \o b) = Len(a) + Len(b)
        /\ \A k \in Nat : /\ k >= 1 /\ k <= Len(a) => (a \o b)[k] = a[k]
                          /\ k > Len(a) /\ k <= Len(a) + Len(b) => (a \o b)[k] = b[k - Len(a)]
    BY <1>2, <1>3, LinksTogether
  <2>2. Len(a \o b) = i + 1
    BY <1>1, <1>2, <1>3, <2>1
  <2>3. \A k \in 1 .. i : (a \o b)[k] = d[k]
    BY <1>1, <1>2, <2>1
  <2>4. (a \o b)[i + 1] = l
    <3>1. i + 1 \in Nat /\ i + 1 > Len(a) /\ i + 1 <= Len(a) + Len(b) /\ (i + 1) - Len(a) = 1
      BY <1>1, <1>2, <1>3
    <3>2. (a \o b)[i + 1] = b[(i + 1) - Len(a)]
      BY <2>1, <3>1
    <3> QED BY <1>3, <3>1, <3>2
  <2> QED BY <2>1, <2>2, <2>3, <2>4
<1> DEFINE ab == a \o b
<1> HIDE DEF ab
<1>7. /\ ab \in Seq(Links) /\ Len(ab) = i + 1 /\ ab[i + 1] = l
      /\ \A k \in 1 .. i : ab[k] = d[k]
      /\ InsertAt(d, i + 1, l) = ab \o c
  BY <1>5, <1>6 DEF ab
<1>8. ab \o c \in Seq(Links) /\ Len(ab \o c) = Len(d) + 1
  BY <1>1, <1>4, <1>7, LinksTogether
<1>9. ASSUME NEW k \in 1 .. Len(d) + 1
      PROVE  (ab \o c)[k] = IF k <= i THEN d[k] ELSE IF k = i + 1 THEN l ELSE d[k - 1]
  <2>1. CASE k <= i + 1
    <3>1. (ab \o c)[k] = ab[k]
      BY <1>1, <1>4, <1>7, <2>1, LinksTogether
    <3> QED BY <1>1, <1>7, <2>1, <3>1
  <2>2. CASE ~(k <= i + 1)
    <3>1. (ab \o c)[k] = c[k - (i + 1)]
      BY <1>1, <1>4, <1>7, <2>2, LinksTogether
    <3>2. k - (i + 1) \in 1 .. Len(d) - i /\ i + (k - (i + 1)) = k - 1
      BY <1>1, <2>2
    <3>3. c[k - (i + 1)] = d[k - 1]
      BY <1>4, <3>2
    <3> QED BY <1>1, <2>2, <3>1, <3>3
  <2> QED BY <2>1, <2>2
<1> DEFINE e == ab \o c
<1> HIDE DEF e
<1>10. /\ e \in Seq(Links) /\ Len(e) = Len(d) + 1 /\ InsertAt(d, i + 1, l) = e
       /\ \A k \in 1 .. Len(d) + 1 :
             e[k] = IF k <= i THEN d[k] ELSE IF k = i + 1 THEN l ELSE d[k - 1]
  BY <1>7, <1>8, <1>9 DEF e
<1>11. Inserted(d, i, l, e)
  BY <1>10 DEF Inserted
<1> QED BY <1>10, <1>11

\* ... and RemoveAt.
LEMMA LinksAfterRemoval ==
    ASSUME NEW d \in Seq(Links), NEW i \in 0 .. Len(d) - 1
    PROVE  Removed(d, i, RemoveAt(d, i + 1))
<1> DEFINE a == SubSeq(d, 1, i)
           c == SubSeq(d, i + 2, Len(d))
<1>1. Len(d) \in Nat /\ i \in Nat /\ \A k \in 1 .. Len(d) : d[k] \in Links
  BY LinkHasIndex
<1>2. a \in Seq(Links) /\ Len(a) = i /\ \A k \in 1 .. i : a[k] = d[k]
  BY <1>1, SubSeqProperties
<1>3. /\ c \in Seq(Links) /\ Len(c) = Len(d) - i - 1
      /\ \A k \in 1 .. Len(d) - i - 1 : c[k] = d[i + 1 + k]
  <2>1. /\ c \in Seq(Links)
        /\ Len(c) = IF i + 2 <= Len(d) THEN Len(d) - (i + 2) + 1 ELSE 0
        /\ \A k \in 1 .. Len(d) - (i + 2) + 1 : c[k] = d[(i + 2) + k - 1]
    BY <1>1, SubSeqProperties
  <2>2. Len(c) = Len(d) - i - 1
    BY <1>1, <2>1
  <2>3. ASSUME NEW k \in 1 .. Len(d) - i - 1 PROVE c[k] = d[i + 1 + k]
    <3>1. k \in 1 .. Len(d) - (i + 2) + 1 /\ (i + 2) + k - 1 = i + 1 + k
      BY <1>1
    <3> QED BY <2>1, <3>1
  <2> QED BY <2>1, <2>2, <2>3
<1>4. RemoveAt(d, i + 1) = a \o c
  <2>1. (i + 1) - 1 = i /\ (i + 1) + 1 = i + 2
    BY <1>1
  <2> QED BY <2>1 DEF RemoveAt
<1> HIDE DEF a, c
<1>5. a \o c \in Seq(Links) /\ Len(a \o c) = Len(d) - 1
  <2>1. a \o c \in Seq(Links) /\ Len(a \o c) = Len(a) + Len(c)
    BY <1>2, <1>3, LinksTogether
  <2>2. Len(a) + Len(c) = Len(d) - 1
    BY <1>1, <1>2, <1>3
  <2> QED BY <2>1, <2>2
<1>6. ASSUME NEW k \in 1 .. Len(d) - 1 PROVE (a \o c)[k] = IF k <= i THEN d[k] ELSE d[k + 1]
  <2>1. CASE k <= i
    <3>1. (a \o c)[k] = a[k]
      BY <1>1, <1>2, <1>3, <2>1, LinksTogether
    <3> QED BY <1>1, <1>2, <2>1, <3>1
  <2>2. CASE ~(k <= i)
    <3>1. (a \o c)[k] = c[k - i]
      BY <1>1, <1>2, <1>3, <2>2, LinksTogether
    <3>2. k - i \in 1 .. Len(d) - i - 1 /\ i + 1 + (k - i) = k + 1
      BY <1>1, <2>2
    <3>3. c[k - i] = d[k + 1]
      BY <1>3, <3>2
    <3> QED BY <2>2, <3>1, <3>3
  <2> QED BY <2>1, <2>2
<1> DEFINE e == a \o c
<1> HIDE DEF e
<1>7. /\ e \in Seq(Links) /\ Len(e) = Len(d) - 1 /\ RemoveAt(d, i + 1) = e
      /\ \A k \in 1 .. Len(d) - 1 : e[k] = IF k <= i THEN d[k] ELSE d[k + 1]
  BY <1>4, <1>5, <1>6 DEF e
<1>8. Removed(d, i, e)
  BY <1>7 DEF Removed
<1> QED BY <1>7, <1>8

\* A page has the next links of the document, at least one and no more than fit.
LEMMA LinksOfPage ==
    ASSUME document \in Seq(Links), start \in Nat, start < Len(document)
    PROVE  LET p == Page(start)
           IN  /\ p \in Seq(Links) /\ Len(p) \in 1 .. MAX_HYPERLINKS
               /\ start + Len(p) <= Len(document)
               /\ start + Len(p) \in {start + MAX_HYPERLINKS, Len(document)}
               /\ \A k \in 1 .. Len(p) : p[k] = document[start + k]
<1> DEFINE n == Min({start + MAX_HYPERLINKS, Len(document)})
           p == Page(start)
<1>1. /\ Len(document) \in Nat /\ MAX_HYPERLINKS \in Nat /\ MAX_HYPERLINKS >= 1
      /\ \A k \in 1 .. Len(document) : document[k] \in Links
  BY LinkHasIndex, PageIsNotEmpty
<1>2. n = IF start + MAX_HYPERLINKS <= Len(document) THEN start + MAX_HYPERLINKS ELSE Len(document)
  BY <1>1, MinOfTwo
<1>3. n \in Nat /\ n <= Len(document) /\ n > start /\ n - start <= MAX_HYPERLINKS
  BY <1>1, <1>2
<1>4. p = SubSeq(document, start + 1, n)
  BY DEF Page
<1> HIDE DEF n
<1>5. /\ p \in Seq(Links)
      /\ Len(p) = IF start + 1 <= n THEN n - (start + 1) + 1 ELSE 0
      /\ \A k \in 1 .. n - (start + 1) + 1 : p[k] = document[(start + 1) + k - 1]
  <2>1. \A k \in start + 1 .. n : document[k] \in Links
    BY <1>1, <1>3
  <2> QED BY <1>3, <1>4, <2>1, SubSeqProperties
<1> HIDE DEF p
<1>6. Len(p) = n - start
  BY <1>3, <1>5
<1>7. ASSUME NEW k \in 1 .. Len(p) PROVE p[k] = document[start + k]
  <2>1. k \in 1 .. n - (start + 1) + 1 /\ (start + 1) + k - 1 = start + k
    BY <1>3, <1>6
  <2> QED BY <1>5, <2>1
<1>8. start + Len(p) \in {start + MAX_HYPERLINKS, Len(document)}
  BY <1>1, <1>2, <1>3, <1>6
<1> QED BY <1>1, <1>3, <1>5, <1>6, <1>7, <1>8 DEF p

-----------------------------------------------------------------------------
(***************************************************************************)
(* Type correctness.                                                       *)
(***************************************************************************)
\* An edited document has each of its links once, and none that it lacked.
LEMMA InsertionIsInjective ==
    ASSUME NEW d \in Seq(Links), IsInjective(d), NEW i \in 0 .. Len(d),
           NEW l \in Links, l \notin Range(d), NEW e, Inserted(d, i, l, e)
    PROVE  IsInjective(e) /\ Range(e) = Range(d) \cup {l}
<1>1. /\ e \in Seq(Links) /\ Len(e) = Len(d) + 1
      /\ \A k \in 1 .. Len(e) :
            e[k] = IF k <= i THEN d[k] ELSE IF k = i + 1 THEN l ELSE d[k - 1]
  BY DEF Inserted
<1>2. /\ Len(d) \in Nat /\ DOMAIN d = 1 .. Len(d) /\ Range(d) = {d[k] : k \in 1 .. Len(d)}
      /\ DOMAIN e = 1 .. Len(e) /\ Range(e) = {e[k] : k \in 1 .. Len(e)}
  BY <1>1, LinkHasIndex
<1>3. \A k \in 1 .. Len(d) : d[k] # l
  BY <1>2
<1>4. IsInjective(e)
  <2> SUFFICES ASSUME NEW x \in 1 .. Len(e), NEW y \in 1 .. Len(e), x < y, e[x] = e[y]
               PROVE  FALSE
    BY <1>1, <1>2 DEF IsInjective
  <2>1. \A k, m \in 1 .. Len(d) : d[k] = d[m] => k = m
    BY <1>2 DEF IsInjective
  <2>2. CASE y <= i
    <3>1. x \in 1 .. Len(d) /\ y \in 1 .. Len(d) /\ e[x] = d[x] /\ e[y] = d[y]
      BY <1>1, <1>2, <2>2
    <3>2. x = y
      BY <2>1, <3>1
    <3> QED BY <1>1, <1>2, <3>2
  <2>3. CASE y = i + 1
    <3>1. x \in 1 .. Len(d) /\ e[x] = d[x] /\ e[y] = l
      BY <1>1, <1>2, <2>3
    <3> QED BY <1>3, <3>1
  <2>4. CASE y > i + 1
    <3>1. y - 1 \in 1 .. Len(d) /\ e[y] = d[y - 1]
      BY <1>1, <1>2, <2>4
    <3>2. CASE x <= i
      <4>1. x \in 1 .. Len(d) /\ e[x] = d[x] /\ x < y - 1
        BY <1>1, <1>2, <2>4, <3>2
      <4> QED BY <2>1, <3>1, <4>1
    <3>3. CASE x = i + 1
      <4>1. e[x] = l
        BY <1>1, <3>3
      <4> QED BY <1>3, <3>1, <4>1
    <3>4. CASE x > i + 1
      <4>1. x - 1 \in 1 .. Len(d) /\ e[x] = d[x - 1] /\ x - 1 < y - 1
        BY <1>1, <1>2, <3>4
      <4> QED BY <2>1, <3>1, <4>1
    <3> QED BY <3>2, <3>3, <3>4
  <2> QED BY <2>2, <2>3, <2>4
<1>5. Range(e) \subseteq Range(d) \cup {l}
  BY <1>1, <1>2
<1>6. l \in Range(e)
  <2>1. i + 1 \in 1 .. Len(e) /\ e[i + 1] = l
    BY <1>1, <1>2
  <2> QED BY <1>2, <2>1
<1>7. ASSUME NEW k \in 1 .. Len(d) PROVE d[k] \in Range(e)
  <2>1. CASE k <= i
    <3>1. k \in 1 .. Len(e) /\ e[k] = d[k]
      BY <1>1, <1>2, <2>1
    <3> QED BY <1>2, <3>1
  <2>2. CASE ~(k <= i)
    <3>1. k + 1 \in 1 .. Len(e) /\ e[k + 1] = d[k]
      BY <1>1, <1>2, <2>2
    <3> QED BY <1>2, <3>1
  <2> QED BY <2>1, <2>2
<1>8. Range(d) \subseteq Range(e)
  BY <1>2, <1>7
<1> QED BY <1>4, <1>5, <1>6, <1>8

\* The same for a removal.
LEMMA RemovalIsInjective ==
    ASSUME NEW d \in Seq(Links), IsInjective(d), NEW i \in 0 .. Len(d) - 1,
           NEW e, Removed(d, i, e)
    PROVE  IsInjective(e) /\ Range(e) \subseteq Range(d)
<1>1. /\ e \in Seq(Links) /\ Len(e) = Len(d) - 1
      /\ \A k \in 1 .. Len(e) : e[k] = IF k <= i THEN d[k] ELSE d[k + 1]
  BY DEF Removed
<1>2. /\ Len(d) \in Nat /\ DOMAIN d = 1 .. Len(d) /\ Range(d) = {d[k] : k \in 1 .. Len(d)}
      /\ DOMAIN e = 1 .. Len(e) /\ Range(e) = {e[k] : k \in 1 .. Len(e)}
  BY <1>1, LinkHasIndex
<1>3. IsInjective(e)
  <2> SUFFICES ASSUME NEW x \in 1 .. Len(e), NEW y \in 1 .. Len(e), x < y, e[x] = e[y]
               PROVE  FALSE
    BY <1>1, <1>2 DEF IsInjective
  <2>1. \A k, m \in 1 .. Len(d) : d[k] = d[m] => k = m
    BY <1>2 DEF IsInjective
  <2> DEFINE At(k) == IF k <= i THEN k ELSE k + 1
  <2>2. \A k \in 1 .. Len(e) : At(k) \in 1 .. Len(d) /\ e[k] = d[At(k)]
    BY <1>1, <1>2
  <2>3. At(x) < At(y)
    OBVIOUS
  <2> HIDE DEF At
  <2>4. At(x) = At(y)
    BY <2>1, <2>2
  <2> QED BY <2>2, <2>3, <2>4
<1>4. Range(e) \subseteq Range(d)
  BY <1>1, <1>2
<1> QED BY <1>3, <1>4

\* The initial state is well typed ...
LEMMA TypingInit == Init => TypeOK
<1> SUFFICES ASSUME Init PROVE TypeOK
  OBVIOUS
<1>1. document \in Seq(Links)
  <2>1. PICK m \in 0 .. Cardinality(Links) : document \in [1 .. m -> Links]
    BY DEF Init, SeqOf
  <2> QED BY <2>1
<1>2. start \in 0 .. linkCount + MAX_HYPERLINKS - 1
  BY PageIsNotEmpty DEF Init
<1>3. got \in Seq(Links)
  BY EmptySeq DEF Init
<1> QED BY <1>1, <1>2, <1>3 DEF Init, TypeOK

\* ... and every step keeps the types.
LEMMA TypingStep == TypeOK /\ [Next]_vars => TypeOK'
<1> SUFFICES ASSUME TypeOK, [Next]_vars PROVE TypeOK'
  OBVIOUS
<1>1. /\ MAX_HYPERLINKS \in Nat /\ MAX_HYPERLINKS >= 1 /\ linkCount \in Nat /\ start \in Nat
      /\ document \in Seq(Links) /\ Len(document) \in Nat
      /\ Range(document) \subseteq Links
  BY PageIsNotEmpty, LinkHasIndex DEF TypeOK
<1>2. CASE Begin
  <2>1. got' \in Seq(Links)
    BY <1>2, EmptySeq DEF Begin
  <2>2. linkCount' \in Nat /\ start' \in 0 .. linkCount' + MAX_HYPERLINKS - 1 /\ had' \in SUBSET Links
    BY <1>1, <1>2 DEF Begin
  <2> QED BY <1>2, <2>1, <2>2 DEF Begin, edited, TypeOK
<1>3. CASE NextPage
  <2>1. PICK p : p = Page(start)
    OBVIOUS
  <2>2. p \in Seq(Links) /\ Len(p) \in 1 .. MAX_HYPERLINKS
    BY <1>1, <1>3, <2>1, LinksOfPage DEF NextPage
  <2>3. got' = got \o p /\ start' = start + Len(p) /\ start < linkCount
    BY <1>3, <2>1 DEF NextPage, After
  <2>4. got' \in Seq(Links)
    BY <2>2, <2>3, ConcatProperties DEF TypeOK
  <2>5. start' \in 0 .. linkCount + MAX_HYPERLINKS - 1
    BY <1>1, <2>2, <2>3
  <2> QED BY <1>3, <2>4, <2>5 DEF NextPage, edited, TypeOK
<1>4. CASE NoCount \/ NoPage \/ Finish
  BY <1>4 DEF NoCount, NoPage, Finish, edited, TypeOK
<1>5. ASSUME NEW i \in 0 .. Len(document), NEW l \in fresh, InsertLink(i, l) PROVE TypeOK'
  <2>1. l \in Links /\ l \notin Range(document)
    BY DEF TypeOK
  <2>2. /\ document' \in Seq(Links) /\ IsInjective(document')
        /\ Range(document') = Range(document) \cup {l}
    <3>1. Inserted(document, i, l, document')
      BY <1>1, <1>5, <2>1, LinksAfterInsertion DEF InsertLink
    <3>2. document' \in Seq(Links)
      BY <3>1 DEF Inserted
    <3> QED BY <1>1, <2>1, <3>1, <3>2, InsertionIsInjective DEF TypeOK
  <2>3. fresh' \in SUBSET (Links \ Range(document'))
    BY <1>5, <2>2 DEF InsertLink, TypeOK
  <2>4. shifted' \in SUBSET {"insertion", "removal"}
    BY <1>5 DEF InsertLink, Shift, TypeOK
  <2> QED BY <1>5, <2>2, <2>3, <2>4 DEF InsertLink, TypeOK
<1>6. ASSUME NEW i \in 0 .. Len(document) - 1, RemoveLink(i) PROVE TypeOK'
  <2>1. /\ document' \in Seq(Links) /\ IsInjective(document')
        /\ Range(document') \subseteq Range(document)
    <3>1. Removed(document, i, document')
      BY <1>1, <1>6, LinksAfterRemoval DEF RemoveLink
    <3>2. document' \in Seq(Links)
      BY <3>1 DEF Removed
    <3> QED BY <1>1, <3>1, <3>2, RemovalIsInjective DEF TypeOK
  <2>2. fresh' \in SUBSET (Links \ Range(document'))
    BY <1>6, <2>1 DEF RemoveLink, TypeOK
  <2>3. shifted' \in SUBSET {"insertion", "removal"}
    BY <1>6 DEF RemoveLink, Shift, TypeOK
  <2> QED BY <1>6, <2>1, <2>2, <2>3 DEF RemoveLink, TypeOK
<1>7. CASE UNCHANGED vars
  BY <1>7 DEF vars, TypeOK
<1> QED BY <1>2, <1>3, <1>4, <1>5, <1>6, <1>7 DEF Next, Iterate

\* The iteration and the edits keep their types: the document has each link at
\* most once, and the AT never asks for an index beyond one page after the last.
THEOREM TypeCorrect == Spec => []TypeOK
  BY TypingInit, TypingStep, PTL DEF Spec

-----------------------------------------------------------------------------
(***************************************************************************)
(* The pages received, and the document as it is by now.                   *)
(***************************************************************************)
Paging == pc = "paging"

\* The AT has received one link for each index it has passed, and as long as no
\* edit was behind it these are the links that the document has there.
InStep ==
    Paging => /\ Len(got) = start
              /\ shifted = {} => /\ start <= Len(document)
                                 /\ \A k \in 1 .. start : got[k] = document[k]

\* The links still ahead are ones the AT has not received ...
AheadIsNew ==
    Paging /\ "insertion" \notin shifted =>
        \A k \in 1 .. Len(document) : k > start => document[k] \notin Range(got)

\* ... nor has it received, or counted on, one that is yet to be inserted.
FreshIsNew == fresh \cap (Range(got) \cup had) = {}

PagesInv == TypeOK /\ InStep /\ AheadIsNew /\ FreshIsNew /\ ReceivedOnce /\ NothingSkipped

\* What the next page adds to the links received.
LEMMA LinksReceived ==
    ASSUME TypeOK, InStep, NextPage
    PROVE  /\ got' \in Seq(Links) /\ start' \in Nat /\ start' > start
           /\ start' <= Len(document) /\ Len(got') = start' /\ Len(got) = start /\ start \in Nat
           /\ \A k \in 1 .. start : got'[k] = got[k]
           /\ \A k \in start + 1 .. start' : got'[k] = document[k]
<1>1. PICK p : p = Page(start)
  OBVIOUS
<1>2. /\ start \in Nat /\ Len(got) = start /\ got \in Seq(Links) /\ Len(document) \in Nat
      /\ document \in Seq(Links) /\ start < Len(document)
      /\ got' = got \o p /\ start' = start + Len(p)
  <2>1. start \in Nat
    BY PageIsNotEmpty DEF TypeOK
  <2> QED BY <1>1, <2>1, LinkHasIndex DEF TypeOK, InStep, Paging, NextPage, After
<1>3. /\ p \in Seq(Links) /\ Len(p) \in Nat /\ Len(p) >= 1 /\ start + Len(p) <= Len(document)
      /\ \A k \in 1 .. Len(p) : p[k] = document[start + k]
  <2>1. /\ p \in Seq(Links) /\ Len(p) \in 1 .. MAX_HYPERLINKS /\ start + Len(p) <= Len(document)
        /\ \A k \in 1 .. Len(p) : p[k] = document[start + k]
    BY <1>1, <1>2, LinksOfPage
  <2>2. Len(p) \in Nat /\ Len(p) >= 1
    BY <2>1, PageIsNotEmpty
  <2> QED BY <2>1, <2>2
<1>4. /\ got \o p \in Seq(Links) /\ Len(got \o p) = start + Len(p)
      /\ \A k \in Nat : /\ k >= 1 /\ k <= start => (got \o p)[k] = got[k]
                        /\ k > start /\ k <= start + Len(p) => (got \o p)[k] = p[k - start]
  <2>1. got \in Seq(Links) /\ p \in Seq(Links) /\ Len(got) = start
    BY <1>2, <1>3
  <2> QED BY <2>1, LinksTogether
<1>5. ASSUME NEW k \in start + 1 .. start' PROVE got'[k] = document[k]
  <2>1. k \in Nat /\ k > start /\ k <= start + Len(p)
    BY <1>2, <1>3
  <2>2. got'[k] = p[k - start]
    BY <1>2, <1>4, <2>1
  <2>3. k - start \in 1 .. Len(p) /\ start + (k - start) = k
    BY <1>2, <1>3, <2>1
  <2> QED BY <1>3, <2>2, <2>3
<1>6. \A k \in 1 .. start : got'[k] = got[k]
  BY <1>2, <1>4
<1> QED BY <1>2, <1>3, <1>4, <1>5, <1>6

\* The AT receives a page.
LEMMA PageKeepsPages == PagesInv /\ NextPage => PagesInv'
<1> SUFFICES ASSUME PagesInv, NextPage PROVE PagesInv'
  OBVIOUS
<1>1. /\ TypeOK /\ TypeOK' /\ InStep /\ document' = document /\ fresh' = fresh /\ had' = had
      /\ shifted' = shifted /\ pc = "paging" /\ pc' = "paging"
  BY TypingStep DEF PagesInv, NextPage, Next, Iterate, edited
<1>2. /\ got' \in Seq(Links) /\ start' \in Nat /\ start' > start
      /\ start' <= Len(document) /\ Len(got') = start' /\ Len(got) = start /\ start \in Nat
      /\ \A k \in 1 .. start : got'[k] = got[k]
      /\ \A k \in start + 1 .. start' : got'[k] = document[k]
  BY <1>1, LinksReceived
<1>3. /\ got \in Seq(Links) /\ document \in Seq(Links) /\ Len(document) \in Nat
      /\ DOMAIN got = 1 .. start /\ Range(got) = {got[k] : k \in 1 .. start}
      /\ DOMAIN got' = 1 .. start' /\ Range(got') = {got'[k] : k \in 1 .. start'}
      /\ DOMAIN document = 1 .. Len(document)
      /\ Range(document) = {document[k] : k \in 1 .. Len(document)}
      /\ \A k, m \in 1 .. Len(document) : document[k] = document[m] => k = m
  BY <1>1, <1>2, LinkHasIndex DEF TypeOK, IsInjective
<1>4. \A k \in 1 .. start' : k \in 1 .. start \/ k \in start + 1 .. start'
  BY <1>2
<1>5. InStep'
  <2>1. CASE shifted = {}
    <3>1. start <= Len(document) /\ \A k \in 1 .. start : got[k] = document[k]
      BY <1>1, <2>1 DEF InStep, Paging
    <3>2. \A k \in 1 .. start' : got'[k] = document[k]
      BY <1>2, <1>4, <3>1
    <3> QED BY <1>1, <1>2, <3>2 DEF InStep
  <2>2. CASE shifted # {}
    BY <1>1, <1>2, <2>2 DEF InStep
  <2> QED BY <2>1, <2>2
<1>6. ASSUME "insertion" \notin shifted, NEW k \in 1 .. Len(document), k > start',
             NEW m \in 1 .. start'
      PROVE  got'[m] # document[k]
  <2>1. CASE m \in 1 .. start
    <3>1. got[m] \in Range(got) /\ document[k] \notin Range(got)
      BY <1>1, <1>2, <1>3, <1>6, <2>1 DEF PagesInv, AheadIsNew, Paging
    <3> QED BY <1>2, <2>1, <3>1
  <2>2. CASE m \in start + 1 .. start'
    <3>1. got'[m] = document[m] /\ m \in 1 .. Len(document) /\ m # k
      BY <1>2, <1>3, <1>6, <2>2
    <3> QED BY <1>3, <3>1
  <2> QED BY <1>4, <2>1, <2>2
<1>7. AheadIsNew'
  BY <1>1, <1>3, <1>6 DEF AheadIsNew
<1>8. Range(got') \subseteq Range(got) \cup Range(document)
  <2>1. ASSUME NEW k \in 1 .. start' PROVE got'[k] \in Range(got) \cup Range(document)
    <3>1. CASE k \in 1 .. start
      BY <1>2, <1>3, <3>1
    <3>2. CASE k \in start + 1 .. start'
      <4>1. k \in 1 .. Len(document) /\ got'[k] = document[k]
        BY <1>2, <1>3, <3>2
      <4> QED BY <1>3, <4>1
    <3> QED BY <1>4, <3>1, <3>2
  <2> QED BY <1>3, <2>1
<1>9. FreshIsNew'
  BY <1>1, <1>8 DEF PagesInv, FreshIsNew, TypeOK
<1>10. ASSUME "insertion" \notin shifted, NEW k \in 1 .. start', NEW m \in 1 .. start',
              k < m, got'[k] = got'[m]
       PROVE  FALSE
  <2>1. CASE m \in 1 .. start
    <3>1. k \in 1 .. start /\ got[k] = got[m]
      BY <1>2, <1>10, <2>1
    <3>2. IsInjective(got)
      BY <1>10 DEF PagesInv, ReceivedOnce
    <3>3. k = m
      BY <1>3, <2>1, <3>1, <3>2 DEF IsInjective
    <3> QED BY <1>10, <3>3
  <2>2. CASE m \in start + 1 .. start' /\ k \in 1 .. start
    <3>1. m \in 1 .. Len(document) /\ m > start /\ got'[m] = document[m]
      BY <1>2, <1>3, <2>2
    <3>2. got[k] \in Range(got) /\ document[m] \notin Range(got)
      BY <1>1, <1>3, <1>10, <2>2, <3>1 DEF PagesInv, AheadIsNew, Paging
    <3> QED BY <1>2, <1>10, <2>2, <3>1, <3>2
  <2>3. CASE m \in start + 1 .. start' /\ k \in start + 1 .. start'
    <3>1. /\ m \in 1 .. Len(document) /\ got'[m] = document[m]
          /\ k \in 1 .. Len(document) /\ got'[k] = document[k]
      BY <1>2, <1>3, <2>3
    <3>2. k = m
      BY <1>3, <1>10, <3>1
    <3> QED BY <1>10, <3>2
  <2> QED BY <1>4, <2>1, <2>2, <2>3
<1>11. ReceivedOnce'
  <2>1. ASSUME "insertion" \notin shifted PROVE IsInjective(got')
    BY <1>2, <1>3, <1>10, <2>1 DEF IsInjective
  <2> QED BY <1>1, <2>1 DEF ReceivedOnce
<1>12. ASSUME "removal" \notin shifted, NEW k \in 1 .. Min({start', Len(document)}),
              document[k] \in had
       PROVE  document[k] \in Range(got')
  <2>1. k \in 1 .. start' /\ k \in 1 .. Len(document)
    BY <1>2, <1>3, MinOfTwo
  <2>2. CASE k \in 1 .. start
    <3>1. k \in 1 .. Min({start, Len(document)})
      BY <1>2, <1>3, <2>1, <2>2, MinOfTwo
    <3>2. document[k] \in Range(got)
      BY <1>1, <1>12, <3>1 DEF PagesInv, NothingSkipped
    <3>3. PICK m \in 1 .. start : got[m] = document[k]
      BY <1>3, <3>2
    <3>4. m \in 1 .. start' /\ got'[m] = document[k]
      BY <1>2, <3>3
    <3> QED BY <1>3, <3>4
  <2>3. CASE k \in start + 1 .. start'
    BY <1>2, <1>3, <2>1, <2>3
  <2> QED BY <1>4, <2>1, <2>2, <2>3
<1>13. NothingSkipped'
  BY <1>1, <1>12 DEF NothingSkipped
<1> QED BY <1>1, <1>5, <1>7, <1>9, <1>11, <1>13 DEF PagesInv

\* The application inserts a link.
LEMMA InsertionKeepsPages ==
    ASSUME PagesInv, NEW i \in 0 .. Len(document), NEW l \in fresh, InsertLink(i, l)
    PROVE  PagesInv'
<1>1. /\ TypeOK /\ TypeOK' /\ fresh' = fresh \ {l} /\ UNCHANGED <<pc, linkCount, start, got, had>>
      /\ shifted' = IF Paging /\ i < start THEN shifted \cup {"insertion"} ELSE shifted
      /\ l \in Links /\ l \notin Range(got) /\ l \notin had
  BY TypingStep DEF PagesInv, InsertLink, Next, Shift, Paging, TypeOK, FreshIsNew
<1>2. /\ document \in Seq(Links) /\ Len(document) \in Nat /\ i \in Nat /\ start \in Nat
      /\ Inserted(document, i, l, document')
  BY <1>1, LinkHasIndex, LinksAfterInsertion, PageIsNotEmpty DEF TypeOK, InsertLink
<1>3. /\ document' \in Seq(Links) /\ Len(document') = Len(document) + 1
      /\ \A k \in 1 .. Len(document) + 1 :
            document'[k] = IF k <= i THEN document[k]
                           ELSE IF k = i + 1 THEN l ELSE document[k - 1]
  BY <1>2 DEF Inserted
<1>4. InStep'
  <2>1. ASSUME Paging, ~(i < start), shifted = {}
        PROVE  start <= Len(document') /\ \A k \in 1 .. start : got[k] = document'[k]
    <3>1. start <= Len(document) /\ \A k \in 1 .. start : got[k] = document[k]
      BY <2>1 DEF PagesInv, InStep
    <3>2. \A k \in 1 .. start : document'[k] = document[k]
      BY <1>2, <1>3, <2>1, <3>1
    <3> QED BY <1>2, <1>3, <3>1, <3>2
  <2>2. Paging => Len(got) = start
    BY DEF PagesInv, InStep
  <2> QED BY <1>1, <2>1, <2>2 DEF InStep, Paging
<1>5. AheadIsNew'
  <2>1. ASSUME Paging, ~(i < start), "insertion" \notin shifted,
               NEW k \in 1 .. Len(document'), k > start
        PROVE  document'[k] \notin Range(got)
    <3>1. \A m \in 1 .. Len(document) : m > start => document[m] \notin Range(got)
      BY <2>1 DEF PagesInv, AheadIsNew
    <3>2. CASE k <= i
      <4>1. k \in 1 .. Len(document) /\ document'[k] = document[k]
        BY <1>2, <1>3, <3>2
      <4> QED BY <2>1, <3>1, <4>1
    <3>3. CASE k = i + 1
      <4>1. document'[k] = l
        BY <1>2, <1>3, <3>3
      <4> QED BY <1>1, <4>1
    <3>4. CASE k > i + 1
      <4>1. k - 1 \in 1 .. Len(document) /\ k - 1 > start /\ document'[k] = document[k - 1]
        BY <1>2, <1>3, <2>1, <3>4
      <4> QED BY <3>1, <4>1
    <3> QED BY <1>2, <1>3, <3>2, <3>3, <3>4
  <2> QED BY <1>1, <2>1 DEF AheadIsNew, Paging
<1>6. FreshIsNew'
  BY <1>1 DEF PagesInv, FreshIsNew
<1>7. ReceivedOnce'
  BY <1>1 DEF PagesInv, ReceivedOnce
<1>8. NothingSkipped'
  <2>1. ASSUME Paging, "removal" \notin shifted', NEW k \in 1 .. Min({start, Len(document')}),
               document'[k] \in had
        PROVE  document'[k] \in Range(got)
    <3>1. /\ k \in Nat /\ k >= 1 /\ k <= start /\ k <= Len(document) + 1
          /\ \A m \in Nat : m >= 1 /\ m <= start /\ m <= Len(document) =>
                m \in 1 .. Min({start, Len(document)})
      <4>1. Len(document') \in Nat
        BY <1>2, <1>3
      <4>2. /\ \A m : m \in 1 .. Min({start, Len(document)}) <=>
                         m \in Nat /\ m >= 1 /\ m <= start /\ m <= Len(document)
            /\ \A m : m \in 1 .. Min({start, Len(document')}) <=>
                         m \in Nat /\ m >= 1 /\ m <= start /\ m <= Len(document')
        BY <1>2, <4>1, UpToMin
      <4> QED BY <1>3, <2>1, <4>2
    <3>2. ASSUME NEW m \in Nat, m >= 1, m <= start, m <= Len(document), document[m] \in had
          PROVE  document[m] \in Range(got)
      BY <1>1, <2>1, <3>1, <3>2 DEF PagesInv, NothingSkipped, Paging
    <3>3. CASE k <= i
      <4>1. k <= Len(document) /\ document'[k] = document[k]
        BY <1>2, <1>3, <3>1, <3>3
      <4> QED BY <2>1, <3>1, <3>2, <4>1
    <3>4. CASE k = i + 1
      <4>1. document'[k] = l
        BY <1>2, <1>3, <3>1, <3>4
      <4> QED BY <1>1, <2>1, <4>1
    <3>5. CASE k > i + 1
      <4>1. /\ k - 1 \in Nat /\ k - 1 >= 1 /\ k - 1 <= start /\ k - 1 <= Len(document)
            /\ document'[k] = document[k - 1]
        BY <1>2, <1>3, <3>1, <3>5
      <4> QED BY <2>1, <3>2, <4>1
    <3> QED BY <1>2, <3>1, <3>3, <3>4, <3>5
  <2> QED BY <1>1, <2>1 DEF NothingSkipped, Paging
<1> QED BY <1>1, <1>4, <1>5, <1>6, <1>7, <1>8 DEF PagesInv

\* The application removes a link.
LEMMA RemovalKeepsPages ==
    ASSUME PagesInv, NEW i \in 0 .. Len(document) - 1, RemoveLink(i)
    PROVE  PagesInv'
<1>1. /\ TypeOK /\ TypeOK' /\ UNCHANGED <<fresh, pc, linkCount, start, got, had>>
      /\ shifted' = IF Paging /\ i < start THEN shifted \cup {"removal"} ELSE shifted
  BY TypingStep DEF PagesInv, RemoveLink, Next, Shift, Paging, TypeOK
<1>2. /\ document \in Seq(Links) /\ Len(document) \in Nat /\ i \in Nat /\ start \in Nat
      /\ i < Len(document) /\ Removed(document, i, document')
  <2>1. /\ document \in Seq(Links) /\ Len(document) \in Nat /\ start \in Nat
        /\ i \in Nat /\ i < Len(document)
    BY <1>1, LinkHasIndex, PageIsNotEmpty DEF TypeOK
  <2>2. Removed(document, i, document')
    BY <2>1, LinksAfterRemoval DEF RemoveLink
  <2> QED BY <2>1, <2>2
<1>3. /\ document' \in Seq(Links) /\ Len(document') = Len(document) - 1
      /\ \A k \in 1 .. Len(document) - 1 :
            document'[k] = IF k <= i THEN document[k] ELSE document[k + 1]
  BY <1>2 DEF Removed
<1>4. InStep'
  <2>1. ASSUME Paging, ~(i < start), shifted = {}
        PROVE  start <= Len(document') /\ \A k \in 1 .. start : got[k] = document'[k]
    <3>1. start <= Len(document) - 1 /\ \A k \in 1 .. start : got[k] = document[k]
      BY <1>2, <2>1 DEF PagesInv, InStep
    <3>2. \A k \in 1 .. start : document'[k] = document[k]
      BY <1>2, <1>3, <2>1, <3>1
    <3> QED BY <1>2, <1>3, <3>1, <3>2
  <2>2. Paging => Len(got) = start
    BY DEF PagesInv, InStep
  <2> QED BY <1>1, <2>1, <2>2 DEF InStep, Paging
<1>5. AheadIsNew'
  <2>1. ASSUME Paging, "insertion" \notin shifted, NEW k \in 1 .. Len(document'), k > start
        PROVE  document'[k] \notin Range(got)
    <3>1. \A m \in 1 .. Len(document) : m > start => document[m] \notin Range(got)
      BY <2>1 DEF PagesInv, AheadIsNew
    <3>2. CASE k <= i
      <4>1. k \in 1 .. Len(document) /\ document'[k] = document[k]
        BY <1>2, <1>3, <3>2
      <4> QED BY <2>1, <3>1, <4>1
    <3>3. CASE k > i
      <4>1. k + 1 \in 1 .. Len(document) /\ k + 1 > start /\ document'[k] = document[k + 1]
        BY <1>2, <1>3, <2>1, <3>3
      <4> QED BY <3>1, <4>1
    <3> QED BY <1>2, <3>2, <3>3
  <2>2. "insertion" \in shifted' <=> "insertion" \in shifted
    BY <1>1
  <2> QED BY <1>1, <2>1, <2>2 DEF AheadIsNew, Paging
<1>6. FreshIsNew'
  BY <1>1 DEF PagesInv, FreshIsNew
<1>7. ReceivedOnce'
  BY <1>1 DEF PagesInv, ReceivedOnce
<1>8. NothingSkipped'
  <2>1. ASSUME Paging, "removal" \notin shifted', NEW k \in 1 .. Min({start, Len(document')}),
               document'[k] \in had
        PROVE  document'[k] \in Range(got)
    <3>1. ~(i < start) /\ "removal" \notin shifted
      BY <1>1, <2>1
    <3>2. k \in Nat /\ k >= 1 /\ k <= start /\ k <= Len(document) - 1
      <4>1. Len(document') \in Nat
        BY <1>2, <1>3
      <4>2. k \in Nat /\ k >= 1 /\ k <= start /\ k <= Len(document')
        BY <1>2, <2>1, <4>1, UpToMin
      <4> QED BY <1>3, <4>2
    <3>3. k \in 1 .. Min({start, Len(document)}) /\ document'[k] = document[k]
      <4>1. k <= Len(document) /\ k <= i /\ k \in 1 .. Len(document) - 1
        BY <1>2, <3>1, <3>2
      <4>2. k \in 1 .. Min({start, Len(document)})
        BY <1>2, <3>2, <4>1, UpToMin
      <4> QED BY <1>3, <4>1, <4>2
    <3> QED BY <2>1, <3>1, <3>3 DEF PagesInv, NothingSkipped, Paging
  <2> QED BY <1>1, <2>1 DEF NothingSkipped, Paging
<1> QED BY <1>1, <1>4, <1>5, <1>6, <1>7, <1>8 DEF PagesInv

\* An iteration begins.
LEMMA BeginKeepsPages == PagesInv /\ Begin => PagesInv'
<1> SUFFICES ASSUME PagesInv, Begin PROVE PagesInv'
  OBVIOUS
<1> DEFINE none == <<>>
<1>1. /\ TypeOK /\ TypeOK' /\ document' = document /\ fresh' = fresh /\ had' = Range(document)
      /\ got' = none /\ start' = 0 /\ shifted' = {}
  BY TypingStep DEF PagesInv, Begin, Next, Iterate, edited
<1>2. Len(none) = 0 /\ DOMAIN none = {} /\ Len(document) \in Nat
  BY <1>1, LinkHasIndex DEF TypeOK
<1> HIDE DEF none
<1>3. Range(none) = {} /\ IsInjective(none)
  BY <1>2 DEF Range, IsInjective
<1>4. InStep'
  BY <1>1, <1>2 DEF InStep
<1>5. AheadIsNew' /\ FreshIsNew' /\ ReceivedOnce'
  BY <1>1, <1>3 DEF AheadIsNew, FreshIsNew, ReceivedOnce, TypeOK
<1>6. NothingSkipped'
  <2>1. Min({0, Len(document)}) = 0
    BY <1>2, MinOfTwo
  <2> QED BY <1>1, <2>1 DEF NothingSkipped
<1> QED BY <1>1, <1>4, <1>5, <1>6 DEF PagesInv

\* Initially nothing is received ...
LEMMA PagesInit == Init => PagesInv
<1> SUFFICES ASSUME Init PROVE PagesInv
  OBVIOUS
<1> DEFINE none == <<>>
<1>1. TypeOK /\ pc = "idle" /\ got = none /\ had = {}
  BY TypingInit DEF Init
<1>2. DOMAIN none = {}
  OBVIOUS
<1> HIDE DEF none
<1>3. Range(none) = {} /\ IsInjective(none)
  BY <1>2 DEF Range, IsInjective
<1> QED BY <1>1, <1>3 DEF PagesInv, InStep, AheadIsNew, FreshIsNew, ReceivedOnce, NothingSkipped, Paging

\* ... and every step keeps the pages in step with the document.
LEMMA PagesStep == PagesInv /\ [Next]_vars => PagesInv'
<1> SUFFICES ASSUME PagesInv, [Next]_vars PROVE PagesInv'
  OBVIOUS
<1>1. CASE NoCount \/ NoPage \/ Finish
  <2>1. /\ TypeOK' /\ UNCHANGED <<document, fresh, linkCount, start, got, had, shifted>>
        /\ ~Paging'
    BY <1>1, TypingStep DEF PagesInv, NoCount, NoPage, Finish, edited, Next, Iterate, Paging
  <2> QED BY <2>1 DEF PagesInv, InStep, AheadIsNew, FreshIsNew, ReceivedOnce, NothingSkipped, Paging
<1>2. CASE UNCHANGED vars
  BY <1>2, TypingStep
     DEF vars, PagesInv, InStep, AheadIsNew, FreshIsNew, ReceivedOnce, NothingSkipped, Paging
<1> QED BY <1>1, <1>2, PageKeepsPages, InsertionKeepsPages, RemovalKeepsPages, BeginKeepsPages
        DEF Next, Iterate

\* As long as every edit was behind the pages received, these are exactly the
\* document up to the index that getAccessibleHypertextExt is called with next.
THEOREM PagesArePrefix == Spec => []PrefixReceived
<1>1. PagesInv => PrefixReceived
  <2> SUFFICES ASSUME PagesInv, Paging, shifted = {} PROVE got = SubSeq(document, 1, start)
    BY DEF PrefixReceived, Paging
  <2>1. /\ got \in Seq(Links) /\ Len(got) = start /\ start \in Nat
        /\ document \in Seq(Links) /\ Len(document) \in Nat
        /\ start <= Len(document) /\ \A k \in 1 .. start : got[k] = document[k]
        /\ \A k \in 1 .. Len(document) : document[k] \in Links
    BY LinkHasIndex, PageIsNotEmpty DEF PagesInv, TypeOK, InStep
  <2>2. PICK p : p = SubSeq(document, 1, start)
    OBVIOUS
  <2>3. p \in Seq(Links) /\ Len(p) = start /\ \A k \in 1 .. start : p[k] = document[k]
    BY <2>1, <2>2, SubSeqProperties
  <2>4. got = p
    BY <2>1, <2>3, SeqEqual
  <2> QED BY <2>2, <2>4
<1> QED BY <1>1, PagesInit, PagesStep, PTL DEF Spec

\* No link is received twice, unless one was inserted before the index that is
\* asked for next: removals and edits further on never bring one back.
THEOREM LinksAreReceivedOnce == Spec => []ReceivedOnce
<1>1. PagesInv => ReceivedOnce
  BY DEF PagesInv
<1> QED BY <1>1, PagesInit, PagesStep, PTL DEF Spec

\* No link that was there when the iteration began is passed over, unless one
\* was removed before the index that is asked for next.
THEOREM NoLinkIsSkipped == Spec => []NothingSkipped
<1>1. PagesInv => NothingSkipped
  BY DEF PagesInv
<1> QED BY <1>1, PagesInit, PagesStep, PTL DEF Spec

-----------------------------------------------------------------------------
(***************************************************************************)
(* Why an iteration ends.  A call brings links the AT did not have, and as *)
(* many as fit unless these are the last; the count the AT goes by stays,  *)
(* whatever the application does, so there are no more calls than links.   *)
(***************************************************************************)
PageCounts ==
    pc = "paging" =>
        /\ linkCount' = linkCount
        /\ \/ start' = start /\ got' = got
           \/ /\ pc' = "paging"
              /\ start < linkCount
              /\ start < start'
              /\ start' \in {start + MAX_HYPERLINKS, Len(document)}
              /\ got = SubSeq(got', 1, Len(got))

LEMMA PagesCount ==
    ASSUME PagesInv, [Next]_vars
    PROVE  PageCounts
<1>1. CASE NextPage
  <2>1. /\ got' \in Seq(Links) /\ start' > start /\ Len(got') = start' /\ Len(got) = start
        /\ start' \in Nat /\ start \in Nat /\ \A k \in 1 .. start : got'[k] = got[k]
    BY <1>1, LinksReceived DEF PagesInv
  <2>2. start' \in {start + MAX_HYPERLINKS, Len(document)}
    <3>1. document \in Seq(Links) /\ start < Len(document)
      BY <1>1 DEF PagesInv, TypeOK, NextPage
    <3>2. start' = start + Len(Page(start))
      BY <1>1 DEF NextPage, After
    <3> QED BY <2>1, <3>1, <3>2, LinksOfPage
  <2>3. got = SubSeq(got', 1, Len(got))
    <3>1. got \in Seq(Links) /\ \A k \in 1 .. start : got'[k] \in Links
      BY <2>1, LinkHasIndex DEF PagesInv, TypeOK
    <3>2. PICK s : s = SubSeq(got', 1, start)
      OBVIOUS
    <3>3. s \in Seq(Links) /\ Len(s) = start /\ \A k \in 1 .. start : s[k] = got'[k]
      BY <2>1, <3>1, <3>2, SubSeqProperties
    <3>4. s = got
      BY <2>1, <3>1, <3>3, SeqEqual
    <3> QED BY <2>1, <3>2, <3>4
  <2> QED BY <1>1, <2>1, <2>2, <2>3 DEF PageCounts, NextPage
<1>2. CASE Begin \/ NoCount \/ NoPage \/ Finish
  BY <1>2 DEF Begin, NoCount, NoPage, Finish, PageCounts
<1>3. CASE \E i \in 0 .. Len(document), l \in fresh : InsertLink(i, l)
  BY <1>3 DEF InsertLink, PageCounts
<1>4. CASE \E i \in 0 .. Len(document) - 1 : RemoveLink(i)
  BY <1>4 DEF RemoveLink, PageCounts
<1>5. CASE UNCHANGED vars
  BY <1>5 DEF vars, PageCounts
<1> QED BY <1>1, <1>2, <1>3, <1>4, <1>5 DEF Next, Iterate

\* However the document is edited between the calls, each call that succeeds leads the
\* iteration on towards the count it began with, and no page but the last is short
\* (GetAccessibleHypertextExt and its nStartIndex in AccessBridgeCalls.h).
THEOREM EveryPageCounts == Spec => [][PageCounts]_vars
<1>1. PagesInv /\ [Next]_vars => [PageCounts]_vars
  BY PagesCount
<1> QED BY <1>1, PagesInit, PagesStep, PTL DEF Spec
=============================================================================
