------------------------ MODULE StaticSearcherProofs ------------------------
(***************************************************************************)
(* Proofs about the layout of a static index: the loop of                  *)
(* SelectPostingOffset keeps lists apart and within the pages their header *)
(* entries count, and never leaves more than a page between two of them,   *)
(* so that OutputSSDIndexFile always writes what was laid out.             *)
(***************************************************************************)
EXTENDS StaticSearcher, WellFoundedInduction, FiniteSetTheorems, TLAPS

----------------------------------------------------------------------------
(* Pages *)

LEMMA DivMod ==
    ASSUME NEW b \in Nat, NEW P \in Nat \ {0}
    PROVE  /\ b \div P \in Nat /\ b % P \in 0..P - 1
           /\ b = (b \div P) * P + (b % P)
  BY SMT

\* A list that begins so far into a page that its rest still fits ends
\* within the pages that its length alone needs.
LEMMA PagesSuffice ==
    ASSUME NEW b \in Nat, NEW o \in 0..PageSize - 1,
           o + (b % PageSize) <= PageSize, o # 0 => b % PageSize # 0
    PROVE  o + b <= ((b + PageSize - 1) \div PageSize) * PageSize
<1> DEFINE q == b \div PageSize
           r == b % PageSize
           p == (b + PageSize - 1) \div PageSize
           x == (b + PageSize - 1) % PageSize
<1>1. PageSize \in Nat \ {0} BY PageSizeAssumption
<1>2. q \in Nat /\ r \in 0..PageSize - 1 /\ b = q * PageSize + r BY <1>1, DivMod
<1>3. b + PageSize - 1 \in Nat BY <1>1
<1>4. p \in Nat /\ x \in 0..PageSize - 1 /\ b + PageSize - 1 = p * PageSize + x BY <1>1, <1>3, DivMod
<1> HIDE DEF q, r, p, x
<1>5. p * PageSize > b - 1 BY <1>1, <1>2, <1>4
<1>6. CASE r = 0
  <2>1. o = 0 BY <1>6 DEF r
  <2> QED BY <2>1, <1>5, <1>4, <1>1 DEF p
<1>7. CASE r # 0
  <2>1. p > q
    <3>1. SUFFICES ASSUME p <= q PROVE FALSE BY <1>2, <1>4
    <3>2. p * PageSize <= q * PageSize BY <3>1, <1>1, <1>2, <1>4
    <3> QED BY <3>2, <1>5, <1>7, <1>1, <1>2, <1>4
  <2>2. p * PageSize >= (q + 1) * PageSize BY <2>1, <1>1, <1>2, <1>4
  <2>3. (q + 1) * PageSize = q * PageSize + PageSize BY <1>1, <1>2
  <2>4. o + r <= PageSize BY DEF r
  <2>5. o \in Nat BY <1>1
  <2> QED BY <2>2, <2>3, <2>4, <2>5, <1>1, <1>2, <1>4 DEF p
<1> QED BY <1>6, <1>7
----------------------------------------------------------------------------
(* The loop of SelectPostingOffset *)

\* Where the n-th list placed ends.
ListEnd(bytes, cur, n) == Begin(cur, cur.order[n]) + bytes[cur.order[n]]

LayoutType(bytes, cur) ==
    /\ DOMAIN bytes \subseteq Nat
    /\ bytes \in [DOMAIN bytes -> Nat]
    /\ cur \in [left : SUBSET DOMAIN bytes, page : Nat, offset : 0..PageSize - 1,
                num : [DOMAIN bytes -> Nat], off : [DOMAIN bytes -> Nat], order : Seq(DOMAIN bytes)]
    /\ \A n \in DOMAIN cur.order : cur.order[n] \notin cur.left

\* In the order of the file, every list begins at most a page after the end
\* of the one before, and the next will too.
LayoutChain(bytes, cur) ==
    /\ cur.order = <<>> => NextPlace(cur) = 0
    /\ \A n \in DOMAIN cur.order :
          IF n = 1 THEN Begin(cur, cur.order[n]) = 0
          ELSE /\ ListEnd(bytes, cur, n - 1) <= Begin(cur, cur.order[n])
               /\ Begin(cur, cur.order[n]) <= ListEnd(bytes, cur, n - 1) + PageSize
    /\ cur.order # <<>> =>
          /\ ListEnd(bytes, cur, Len(cur.order)) <= NextPlace(cur)
          /\ NextPlace(cur) < ListEnd(bytes, cur, Len(cur.order)) + PageSize
          /\ cur.offset # 0 => NextPlace(cur) = ListEnd(bytes, cur, Len(cur.order))

LayoutInv(bytes, cur) ==
    /\ LayoutType(bytes, cur)
    /\ LayoutChain(bytes, cur)
    /\ LayoutSound(bytes, cur)

LEMMA LayoutStarts ==
    ASSUME NEW bytes, DOMAIN bytes \subseteq Nat, bytes \in [DOMAIN bytes -> Nat]
    PROVE  LayoutInv(bytes, LayoutStart(bytes))
<1> DEFINE cur == LayoutStart(bytes)
<1> USE PageSizeAssumption
<1>1. LayoutType(bytes, cur) BY DEF LayoutType, LayoutStart
<1>2. cur.order = <<>> /\ DOMAIN cur.order = {} BY DEF LayoutStart
<1>3. NextPlace(cur) = 0 BY DEF LayoutStart, NextPlace
<1>4. Placed(cur) = {} BY <1>2 DEF Placed
<1> HIDE DEF cur
<1>5. LayoutChain(bytes, cur) BY <1>2, <1>3 DEF LayoutChain
<1>6. LayoutSound(bytes, cur) BY <1>4 DEF LayoutSound
<1> QED BY <1>1, <1>5, <1>6 DEF LayoutInv, cur

\* The least of a set of numbers.
LEMMA LeastExists ==
    ASSUME NEW T \in SUBSET Nat, T # {}
    PROVE  \E x \in T : \A y \in T : x <= y
<1>1. \E x \in T : \A y \in T : ~ (<<y, x>> \in OpToRel(<, Nat))
  BY NatLessThanWellFounded, WFMin
<1>2. PICK x \in T : \A y \in T : ~ (<<y, x>> \in OpToRel(<, Nat)) BY <1>1
<1>3. ASSUME NEW y \in T PROVE x <= y
  <2>1. ~ (<<y, x>> \in OpToRel(<, Nat)) BY <1>2
  <2>2. ~ (y < x) BY <2>1 DEF OpToRel
  <2> QED BY <2>2
<1> QED BY <1>3

\* At the beginning of a page some list can always be placed, so that no
\* page is left empty.
LEMMA PageNotLeftEmpty ==
    ASSUME NEW bytes, NEW cur, LayoutType(bytes, cur), cur.left # {}, cur.offset = 0
    PROVE  \E i \in cur.left : CanPlace(bytes, cur, i)
<1> USE PageSizeAssumption
<1> DEFINE room(i) == PageSize - Rest(bytes, i)
           T == {room(i) : i \in cur.left}
<1>1. ASSUME NEW i \in cur.left
      PROVE  i \in Nat /\ Rest(bytes, i) \in 0..PageSize - 1 /\ room(i) \in Nat
  <2>1. i \in Nat /\ bytes[i] \in Nat BY DEF LayoutType
  <2>2. bytes[i] % PageSize \in 0..PageSize - 1 BY <2>1, DivMod
  <2> QED BY <2>1, <2>2 DEF Rest
<1>2. T \in SUBSET Nat /\ T # {} BY <1>1
<1> HIDE DEF room
<1>3. PICK x \in T : \A y \in T : x <= y BY <1>2, LeastExists
<1> DEFINE U == {i \in cur.left : room(i) = x}
<1>4. U \in SUBSET Nat /\ U # {} BY <1>1, <1>3
<1>5. PICK i \in U : \A j \in U : i <= j BY <1>4, LeastExists
<1>6. i \in cur.left /\ room(i) = x BY <1>5
<1>7. Fitting(bytes, cur) = cur.left BY <1>1 DEF Fitting
<1>8. ASSUME NEW j \in cur.left
      PROVE  \/ Rest(bytes, j) < Rest(bytes, i)
             \/ Rest(bytes, j) = Rest(bytes, i) /\ i <= j
  <2>1. x <= room(j) BY <1>3
  <2>2. CASE room(j) = x
    <3>1. i <= j BY <2>2, <1>5
    <3> QED BY <2>2, <3>1, <1>1, <1>6 DEF room
  <2>3. CASE room(j) # x
    <3>1. room(i) < room(j) BY <2>1, <2>3, <1>1, <1>6
    <3> QED BY <3>1, <1>1, <1>6 DEF room
  <2> QED BY <2>2, <2>3
<1>9. IsFirstFit(bytes, cur, i) BY <1>6, <1>7, <1>8 DEF IsFirstFit
<1> QED BY <1>6, <1>9 DEF CanPlace

LEMMA PlaceIsNat ==
    ASSUME NEW p \in Nat, NEW o \in Nat
    PROVE  p * PageSize + o \in Nat
  BY PageSizeAssumption

LEMMA PlaceKeepsLayout ==
    ASSUME NEW bytes, NEW cur, LayoutInv(bytes, cur), NEW i \in cur.left, CanPlace(bytes, cur, i)
    PROVE  LayoutInv(bytes, Place(bytes, cur, i))
<1> USE PageSizeAssumption
<1> DEFINE new == Place(bytes, cur, i)
           D == DOMAIN bytes
           n == Len(cur.order)
<1>1. D \subseteq Nat /\ bytes \in [D -> Nat] /\ i \in D /\ bytes[i] \in Nat
  BY DEF LayoutInv, LayoutType
<1>left. cur.left \in SUBSET D /\ \A m \in DOMAIN cur.order : cur.order[m] \notin cur.left
  BY DEF LayoutInv, LayoutType
<1>at. cur.page \in Nat /\ cur.offset \in 0..PageSize - 1 /\ cur.offset \in Nat
  BY DEF LayoutInv, LayoutType
<1>num. cur.num \in [D -> Nat] /\ cur.off \in [D -> Nat]
  BY DEF LayoutInv, LayoutType
<1>order. cur.order \in Seq(D)
  BY DEF LayoutInv, LayoutType
<1>2. bytes[i] \in Nat /\ Rest(bytes, i) \in 0..PageSize - 1 /\ bytes[i] \div PageSize \in Nat
      /\ bytes[i] = (bytes[i] \div PageSize) * PageSize + Rest(bytes, i)
  BY <1>1, DivMod DEF Rest
<1>3. cur.offset + Rest(bytes, i) <= PageSize /\ (cur.offset # 0 => Rest(bytes, i) # 0)
  <2>1. Rest(bytes, i) <= PageSize - cur.offset /\ (cur.offset # 0 => Rest(bytes, i) # 0)
    BY DEF CanPlace, IsFirstFit, Fitting
  <2> QED BY <2>1, <1>2, <1>at
<1>4. /\ new.left = cur.left \ {i}
      /\ new.page = PageAfter(bytes, cur, i) /\ new.offset = OffsetAfter(bytes, cur, i)
  BY DEF LayoutInv, LayoutType, Place
<1>newNum. new.num = [cur.num EXCEPT ![i] = cur.page] /\ new.off = [cur.off EXCEPT ![i] = cur.offset]
  BY DEF LayoutInv, LayoutType, Place
<1>newOrder. new.order = Append(cur.order, i)
  BY DEF LayoutInv, LayoutType, Place
<1>record. new \in [left : {new.left}, page : {new.page}, offset : {new.offset},
                    num : {new.num}, off : {new.off}, order : {new.order}]
  BY DEF LayoutInv, LayoutType, Place
<1> HIDE DEF new
<1>5. n \in Nat /\ DOMAIN cur.order = 1..n /\ DOMAIN new.order = 1..n + 1 /\ Len(new.order) = n + 1
      /\ new.order \in Seq(D) /\ new.order[n + 1] = i /\ (\A m \in 1..n : new.order[m] = cur.order[m])
  BY <1>1, <1>order, <1>newOrder
<1>6. /\ new.page \in Nat /\ new.offset \in 0..PageSize - 1
      /\ NextPlace(new) = NextPlace(cur) + bytes[i]
  <2> DEFINE q == bytes[i] \div PageSize
             r == Rest(bytes, i)
             a == cur.page * PageSize
             b == q * PageSize
             c == new.page * PageSize
  <2>0. /\ q \in Nat /\ r \in 0..PageSize - 1 /\ bytes[i] = b + r /\ cur.offset + r <= PageSize
    BY <1>at, <1>2, <1>3
  <2>n. a \in Nat /\ b \in Nat
    <3>1. cur.page * PageSize + 0 \in Nat /\ q * PageSize + 0 \in Nat BY <2>0, <1>at, PlaceIsNat
    <3> QED BY <3>1, <2>0, <1>at
  <2>c. NextPlace(new) = c + new.offset /\ NextPlace(cur) = a + cur.offset BY DEF NextPlace
  <2>1. CASE cur.offset + r = PageSize
    <3>1. new.page = cur.page + q + 1 /\ new.offset = 0 BY <2>1, <1>4 DEF PageAfter, OffsetAfter
    <3> HIDE DEF q, r
    <3>2. c = a + b + PageSize BY <3>1, <2>0, <2>n, <1>at
    <3>3. new.page \in Nat /\ new.offset \in 0..PageSize - 1 BY <3>1, <2>0, <2>n, <1>at
    <3> HIDE DEF a, b, c
    <3>4. c + new.offset = a + cur.offset + (b + r) BY <3>1, <3>2, <2>0, <2>n, <2>1, <1>at
    <3> QED BY <3>3, <3>4, <2>0, <2>n, <2>c
  <2>2. CASE cur.offset + r # PageSize
    <3>1. new.page = cur.page + q + 0 /\ new.offset = cur.offset + r BY <2>2, <1>4 DEF PageAfter, OffsetAfter
    <3> HIDE DEF q, r
    <3>2. c = a + b BY <3>1, <2>0, <2>n, <1>at
    <3>3. new.page \in Nat /\ new.offset \in 0..PageSize - 1 BY <3>1, <2>0, <2>n, <2>2, <1>at
    <3> HIDE DEF a, b, c
    <3>4. c + new.offset = a + cur.offset + (b + r) BY <3>1, <3>2, <2>0, <2>n, <1>at
    <3> QED BY <3>3, <3>4, <2>0, <2>n, <2>c
  <2> QED BY <2>1, <2>2
<1>7. LayoutType(bytes, new)
  <2>1. new.num \in [D -> Nat] /\ new.off \in [D -> Nat] BY <1>1, <1>at, <1>num, <1>newNum
  <2>2. ASSUME NEW m \in 1..n + 1 PROVE new.order[m] \notin new.left
    <3>1. CASE m = n + 1 BY <3>1, <1>4, <1>5
    <3>2. CASE m \in 1..n BY <3>2, <1>left, <1>4, <1>5
    <3> QED BY <3>1, <3>2, <1>5
  <2>3. new.left \in SUBSET D BY <1>4, <1>left
  <2> QED BY <1>1, <1>5, <1>6, <1>record, <2>1, <2>2, <2>3 DEF LayoutType
<1>8. Begin(new, i) = NextPlace(cur) BY <1>1, <1>num, <1>newNum DEF Begin, NextPlace
<1>9. ASSUME NEW j \in D, j # i PROVE Begin(new, j) = Begin(cur, j) /\ Begin(cur, j) \in Nat /\ new.off[j] = cur.off[j]
  <2>1. new.num[j] = cur.num[j] /\ new.off[j] = cur.off[j] BY <1>9, <1>num, <1>newNum
  <2>2. cur.num[j] \in Nat /\ cur.off[j] \in Nat BY <1>9, <1>num
  <2> QED BY <2>1, <2>2, PlaceIsNat DEF Begin
<1>10. NextPlace(cur) \in Nat BY <1>at, PlaceIsNat DEF NextPlace
<1>11. ASSUME NEW m \in 1..n
       PROVE  /\ cur.order[m] \in D \ {i}
              /\ new.order[m] = cur.order[m]
              /\ Begin(new, new.order[m]) = Begin(cur, cur.order[m])
              /\ Begin(new, new.order[m]) \in Nat
              /\ ListEnd(bytes, new, m) = ListEnd(bytes, cur, m)
              /\ ListEnd(bytes, new, m) \in Nat
  <2>1. cur.order[m] \in D /\ cur.order[m] # i BY <1>left, <1>order, <1>5
  <2>2. Begin(new, cur.order[m]) = Begin(cur, cur.order[m]) /\ Begin(cur, cur.order[m]) \in Nat BY <2>1, <1>9
  <2>3. bytes[cur.order[m]] \in Nat BY <2>1, <1>1
  <2>4. new.order[m] = cur.order[m] BY <1>5
  <2>5. ListEnd(bytes, new, m) = ListEnd(bytes, cur, m) BY <2>2, <2>4 DEF ListEnd
  <2> QED BY <2>1, <2>2, <2>3, <2>4, <2>5 DEF ListEnd
<1>12. LayoutChain(bytes, new)
  <2>1. new.order # <<>> BY <1>5
  <2>2. ASSUME NEW m \in 1..n + 1
        PROVE  IF m = 1 THEN Begin(new, new.order[m]) = 0
               ELSE /\ ListEnd(bytes, new, m - 1) <= Begin(new, new.order[m])
                    /\ Begin(new, new.order[m]) <= ListEnd(bytes, new, m - 1) + PageSize
    <3>1. CASE m \in 1..n
      <4>1. m # 1 => m - 1 \in 1..n BY <3>1, <1>5
      <4> QED BY <4>1, <3>1, <1>11, <1>5 DEF LayoutInv, LayoutChain
    <3>2. CASE m = n + 1 /\ n = 0
      <4>1. cur.order = <<>> BY <3>2, <1>order, <1>5
      <4>2. NextPlace(cur) = 0 BY <4>1 DEF LayoutInv, LayoutChain
      <4> QED BY <4>2, <3>2, <1>5, <1>8
    <3>3. CASE m = n + 1 /\ n # 0
      <4>1. n \in 1..n /\ cur.order # <<>> BY <3>3, <1>5
      <4>2. ListEnd(bytes, cur, n) <= NextPlace(cur) /\ NextPlace(cur) < ListEnd(bytes, cur, n) + PageSize
        BY <4>1 DEF LayoutInv, LayoutChain
      <4>3. ListEnd(bytes, new, n) = ListEnd(bytes, cur, n) /\ ListEnd(bytes, new, n) \in Nat BY <4>1, <1>11
      <4>4. Begin(new, new.order[m]) = NextPlace(cur) BY <3>3, <1>5, <1>8
      <4>5. m # 1 /\ m - 1 = n BY <3>3, <1>5
      <4> QED BY <4>2, <4>3, <4>4, <4>5, <1>10
    <3> QED BY <3>1, <3>2, <3>3, <1>5
  <2>3. ListEnd(bytes, new, n + 1) = NextPlace(new) BY <1>5, <1>6, <1>8 DEF ListEnd
  <2>4. NextPlace(new) \in Nat BY <1>6, <1>10, <1>2
  <2> QED BY <2>1, <2>2, <2>3, <2>4, <1>5 DEF LayoutChain
<1>13. Placed(new) = Placed(cur) \cup {i} /\ Placed(cur) \subseteq D \ {i} /\ DOMAIN new.num = D /\ DOMAIN cur.num = D
  <2>1. DOMAIN new.num = D /\ DOMAIN cur.num = D BY <1>num, <1>newNum
  <2>2. ASSUME NEW j \in Placed(cur) PROVE j \in D \ {i} BY <1>5, <1>11 DEF Placed
  <2>3. ASSUME NEW j \in Placed(cur) PROVE j \in Placed(new)
    <3>1. PICK m \in DOMAIN cur.order : cur.order[m] = j BY DEF Placed
    <3>2. m \in DOMAIN new.order /\ new.order[m] = j BY <3>1, <1>5
    <3> QED BY <3>2, <2>1, <2>2 DEF Placed
  <2>4. n + 1 \in DOMAIN new.order /\ new.order[n + 1] = i BY <1>5
  <2>6. i \in Placed(new) BY <1>1, <2>4, <2>1 DEF Placed
  <2>5. ASSUME NEW j \in Placed(new), j # i PROVE j \in Placed(cur)
    <3>1. PICK m \in DOMAIN new.order : new.order[m] = j BY DEF Placed
    <3>2. m \in 1..n BY <3>1, <2>5, <1>5
    <3> QED BY <3>1, <3>2, <1>5, <2>1 DEF Placed
  <2> QED BY <2>1, <2>2, <2>3, <2>6, <2>5
<1>14. LayoutSound(bytes, new)
  <2>1. ASSUME NEW j \in Placed(cur)
        PROVE  /\ j \in D /\ bytes[j] \in Nat /\ Begin(cur, j) \in Nat /\ Begin(new, j) = Begin(cur, j) /\ new.off[j] = cur.off[j]
               /\ cur.off[j] + bytes[j] <= PagesOf(bytes, j) * PageSize
               /\ Begin(cur, j) + bytes[j] <= NextPlace(cur)
    <3>1. j \in D /\ j # i BY <1>13
    <3> QED BY <3>1, <1>1, <1>9 DEF LayoutInv, LayoutSound
  <2>2. new.off[i] = cur.offset BY <1>1, <1>num, <1>newNum
  <2>3. cur.offset + bytes[i] <= PagesOf(bytes, i) * PageSize BY <1>1, <1>at, <1>3, PagesSuffice DEF PagesOf, Rest
  <2>4. ASSUME NEW j \in Placed(new)
        PROVE  /\ new.off[j] + bytes[j] <= PagesOf(bytes, j) * PageSize
               /\ Begin(new, j) + bytes[j] <= NextPlace(new)
    <3>1. CASE j = i BY <3>1, <2>2, <2>3, <1>6, <1>8, <1>10, <1>2
    <3>2. CASE j \in Placed(cur) BY <3>2, <2>1, <1>6, <1>10, <1>2
    <3> QED BY <3>1, <3>2, <1>13
  <2>5. ASSUME NEW j \in Placed(new), NEW k \in Placed(new), j # k
        PROVE  Begin(new, j) + bytes[j] <= Begin(new, k) \/ Begin(new, k) + bytes[k] <= Begin(new, j)
    <3>1. CASE j = i /\ k \in Placed(cur) BY <3>1, <2>1, <1>8
    <3>2. CASE k = i /\ j \in Placed(cur) BY <3>2, <2>1, <1>8
    <3>3. CASE j \in Placed(cur) /\ k \in Placed(cur) BY <3>3, <2>1, <2>5 DEF LayoutInv, LayoutSound
    <3> QED BY <3>1, <3>2, <3>3, <2>5, <1>13
  <2> QED BY <2>4, <2>5 DEF LayoutSound
<1> QED BY <1>7, <1>12, <1>14 DEF LayoutInv, new

LEMMA TurnKeepsLayout ==
    ASSUME NEW bytes, NEW cur, LayoutInv(bytes, cur), cur.offset # 0
    PROVE  LayoutInv(bytes, TurnPage(cur))
<1> USE PageSizeAssumption
<1> DEFINE new == TurnPage(cur)
           D == DOMAIN bytes
           n == Len(cur.order)
<1>1. cur.page \in Nat /\ cur.offset \in 0..PageSize - 1 /\ cur.offset \in Nat
  BY DEF LayoutInv, LayoutType
<1>2. /\ new.order = cur.order /\ new.num = cur.num /\ new.off = cur.off /\ new.left = cur.left
      /\ new.page = cur.page + 1 /\ new.offset = 0
  BY DEF LayoutInv, LayoutType, TurnPage
<1> HIDE DEF new
<1>3. LayoutType(bytes, new)
  <2>1. cur \in [left : SUBSET D, page : Nat, offset : 0..PageSize - 1,
                 num : [D -> Nat], off : [D -> Nat], order : Seq(D)]
    BY DEF LayoutInv, LayoutType
  <2>2. new = [cur EXCEPT !.page = cur.page + 1, !.offset = 0] BY DEF new, TurnPage
  <2>3. 0 \in 0..PageSize - 1 /\ cur.page + 1 \in Nat BY <1>1
  <2>4. new \in [left : SUBSET D, page : Nat, offset : 0..PageSize - 1,
                 num : [D -> Nat], off : [D -> Nat], order : Seq(D)]
    BY <2>1, <2>2, <2>3
  <2> QED BY <2>4, <1>2 DEF LayoutInv, LayoutType
<1>4. /\ NextPlace(cur) \in Nat /\ NextPlace(new) \in Nat
      /\ NextPlace(new) = NextPlace(cur) + PageSize - cur.offset
  <2>1. (cur.page + 1) * PageSize = cur.page * PageSize + PageSize BY <1>1
  <2>2. NextPlace(cur) \in Nat BY <1>1, PlaceIsNat DEF NextPlace
  <2>3. NextPlace(new) = (cur.page + 1) * PageSize + 0 BY <1>2 DEF NextPlace
  <2>4. cur.page + 1 \in Nat BY <1>1
  <2>5. NextPlace(new) \in Nat BY <2>3, <2>4, PlaceIsNat
  <2> QED BY <2>1, <2>2, <2>3, <2>5, <1>1 DEF NextPlace
<1>5. \A j : Begin(new, j) = Begin(cur, j) BY <1>2 DEF Begin
<1>6. \A m : ListEnd(bytes, new, m) = ListEnd(bytes, cur, m) BY <1>2, <1>5 DEF ListEnd
<1>7. cur.order # <<>>
  <2>1. SUFFICES ASSUME cur.order = <<>> PROVE FALSE OBVIOUS
  <2>2. NextPlace(cur) = 0 BY <2>1 DEF LayoutInv, LayoutChain
  <2>3. cur.page * PageSize \in Nat BY <1>1
  <2> QED BY <2>2, <2>3, <1>1 DEF NextPlace
<1>8. /\ NextPlace(cur) = ListEnd(bytes, cur, n)
      /\ \A m \in DOMAIN cur.order :
            IF m = 1 THEN Begin(cur, cur.order[m]) = 0
            ELSE /\ ListEnd(bytes, cur, m - 1) <= Begin(cur, cur.order[m])
                 /\ Begin(cur, cur.order[m]) <= ListEnd(bytes, cur, m - 1) + PageSize
  BY <1>7 DEF LayoutInv, LayoutChain
<1>9. LayoutChain(bytes, new)
  <2>1. /\ ListEnd(bytes, new, n) <= NextPlace(new)
        /\ NextPlace(new) < ListEnd(bytes, new, n) + PageSize
    BY <1>1, <1>4, <1>6, <1>8
  <2> QED BY <1>2, <1>5, <1>6, <1>7, <1>8, <2>1 DEF LayoutChain
<1>10. Placed(new) = Placed(cur) BY <1>2 DEF Placed
<1>11. LayoutSound(bytes, new)
  <2>1. ASSUME NEW j \in Placed(cur)
        PROVE  /\ new.off[j] + bytes[j] <= PagesOf(bytes, j) * PageSize
               /\ Begin(new, j) + bytes[j] <= NextPlace(new)
    <3>1. cur.off[j] + bytes[j] <= PagesOf(bytes, j) * PageSize /\ Begin(cur, j) + bytes[j] <= NextPlace(cur)
      BY DEF LayoutInv, LayoutSound
    <3>2. Begin(cur, j) + bytes[j] \in Nat
      <4>1. j \in D /\ cur.num[j] \in Nat /\ cur.off[j] \in Nat /\ bytes[j] \in Nat
        BY DEF LayoutInv, LayoutType, Placed
      <4>2. Begin(cur, j) \in Nat BY <4>1, PlaceIsNat DEF Begin
      <4> QED BY <4>1, <4>2
    <3> QED BY <3>1, <3>2, <1>1, <1>2, <1>4, <1>5
  <2> QED BY <2>1, <1>5, <1>10 DEF LayoutInv, LayoutSound
<1> QED BY <1>3, <1>9, <1>11 DEF LayoutInv, new

LEMMA LayoutSteps ==
    ASSUME NEW bytes, NEW cur, LayoutInv(bytes, cur), cur.left # {}
    PROVE  LayoutInv(bytes, LayoutStep(bytes, cur))
<1>1. CASE \E i \in cur.left : CanPlace(bytes, cur, i)
  <2> DEFINE i == CHOOSE j \in cur.left : CanPlace(bytes, cur, j)
  <2>1. i \in cur.left /\ CanPlace(bytes, cur, i) BY <1>1
  <2>2. LayoutStep(bytes, cur) = Place(bytes, cur, i) BY <1>1 DEF LayoutStep
  <2> HIDE DEF i
  <2>3. LayoutInv(bytes, Place(bytes, cur, i)) BY <2>1, PlaceKeepsLayout
  <2> QED BY <2>2, <2>3
<1>2. CASE ~ \E i \in cur.left : CanPlace(bytes, cur, i)
  <2>1. cur.offset # 0 BY <1>2, PageNotLeftEmpty DEF LayoutInv
  <2> QED BY <1>2, <2>1, TurnKeepsLayout DEF LayoutStep
<1> QED BY <1>1, <1>2

\* A file so laid out can be written list after list.
LEMMA NothingMisplaced ==
    ASSUME NEW bytes, LayoutInv(bytes, lay)
    PROVE  ~Misplaced(bytes)
<1> USE PageSizeAssumption
<1> SUFFICES ASSUME NEW j \in DOMAIN lay.order
             PROVE  LET end == IF j = 1 THEN 0 ELSE Begin(lay, lay.order[j - 1]) + bytes[lay.order[j - 1]]
                    IN  ~(Begin(lay, lay.order[j]) < end) /\ ~(Begin(lay, lay.order[j]) > end + PageSize)
  BY DEF Misplaced
<1>1. j \in Nat /\ lay.order \in Seq(DOMAIN bytes) BY SMTT(20) DEF LayoutInv, LayoutType
<1>2. ASSUME NEW m \in DOMAIN lay.order PROVE Begin(lay, lay.order[m]) \in Nat /\ bytes[lay.order[m]] \in Nat
  <2>1. /\ lay.num[lay.order[m]] \in Nat /\ lay.off[lay.order[m]] \in Nat /\ bytes[lay.order[m]] \in Nat
    BY <1>1 DEF LayoutInv, LayoutType
  <2> QED BY <2>1, PlaceIsNat DEF Begin
<1>3. CASE j = 1
  <2>1. Begin(lay, lay.order[j]) = 0 BY <1>3 DEF LayoutInv, LayoutChain
  <2> QED BY <2>1, <1>3
<1>4. CASE j # 1
  <2>1. j - 1 \in DOMAIN lay.order BY <1>1, <1>4
  <2>2. /\ ListEnd(bytes, lay, j - 1) <= Begin(lay, lay.order[j])
        /\ Begin(lay, lay.order[j]) <= ListEnd(bytes, lay, j - 1) + PageSize
    BY <1>4 DEF LayoutInv, LayoutChain
  <2>3. Begin(lay, lay.order[j]) \in Nat /\ Begin(lay, lay.order[j - 1]) + bytes[lay.order[j - 1]] \in Nat BY <1>2, <2>1
  <2> QED BY <2>2, <2>3, <1>4 DEF ListEnd
<1> QED BY <1>3, <1>4

----------------------------------------------------------------------------
(* The build *)

\* Sequences of no particular elements.
IsSeq(s) == s \in Seq({s[i] : i \in DOMAIN s})

IsSelection(s) ==
    /\ s = [file |-> s.file, start |-> s.start, mem |-> s.mem]
    /\ IsSeq(s.mem) /\ IsSeq(s.file) /\ s.start \in Nat

BuildType ==
    /\ opt \in Settings
    /\ pc \in {"select", "cut", "file", "layout", "load", "ready", "failed"}
    /\ step \in Nat
    /\ sizes \in [Heads -> Nat]
    /\ pc = "select" => IsSelection(sel)
    /\ pc \in {"file", "layout", "failed"} => step < opt.files

BuildInv ==
    /\ BuildType
    /\ pc = "layout" => LayoutInv(Bytes(step), lay)
    /\ pc = "failed" => FirstList(step) > EndList(step)

LEMMA OptTyped ==
    ASSUME opt \in Settings
    PROVE  /\ N \in Nat /\ HeadCount \in Nat /\ MaxSize \in Nat
           /\ opt.batches \in Nat \ {0} /\ opt.files \in Nat \ {0} /\ opt.replicaCount \in Nat
           /\ opt.pageLimit \in Nat /\ opt.vectorLimit \in Nat
  BY SettingsAssumption DEF Setting, N, HeadCount

LEMMA MinOfTwo ==
    ASSUME NEW a \in Nat, NEW b \in Nat
    PROVE  Min({a, b}) \in Nat /\ Min({a, b}) <= a /\ Min({a, b}) <= b /\ (Min({a, b}) = a \/ Min({a, b}) = b)
<1>1. \E x \in {a, b} : \A y \in {a, b} : x <= y OBVIOUS
<1> QED BY <1>1 DEF Min

LEMMA MaxOfTwo ==
    ASSUME NEW a \in Nat, NEW b \in Nat
    PROVE  Max({a, b}) \in Nat
<1>1. \E x \in {a, b} : \A y \in {a, b} : x >= y OBVIOUS
<1> QED BY <1>1 DEF Max

LEMMA FilesTyped ==
    ASSUME opt \in Settings, NEW f \in Nat
    PROVE  /\ ListsPerFile \in Nat /\ FirstList(f) \in Nat /\ EndList(f) \in Nat
           /\ EndList(f) <= HeadCount
           /\ EndList(f) < FirstList(f) => EndList(f) = HeadCount
<1>1. HeadCount \in Nat /\ opt.files \in Nat \ {0} BY OptTyped
<1>2. HeadCount + opt.files - 1 \in Nat BY <1>1
<1>3. ListsPerFile \in Nat BY <1>1, <1>2, DivMod DEF ListsPerFile
<1>4. f * ListsPerFile \in Nat /\ (f + 1) * ListsPerFile \in Nat /\ f * ListsPerFile <= (f + 1) * ListsPerFile
  BY <1>3
<1>5. /\ EndList(f) \in Nat /\ EndList(f) <= HeadCount
      /\ EndList(f) = HeadCount \/ EndList(f) = (f + 1) * ListsPerFile
  BY <1>1, <1>4, MinOfTwo DEF EndList
<1> QED BY <1>1, <1>3, <1>4, <1>5 DEF FirstList

LEMMA BytesTyped ==
    ASSUME BuildType, NEW f \in Nat
    PROVE  DOMAIN Bytes(f) \subseteq Nat /\ Bytes(f) \in [DOMAIN Bytes(f) -> Nat]
<1>1. /\ FirstList(f) \in Nat /\ EndList(f) \in Nat /\ EndList(f) <= HeadCount /\ HeadCount \in Nat
  BY FilesTyped, OptTyped DEF BuildType
<1>2. DOMAIN Bytes(f) = 0..EndList(f) - FirstList(f) - 1 BY DEF Bytes
<1>3. ASSUME NEW i \in 0..EndList(f) - FirstList(f) - 1
      PROVE  Bytes(f)[i] \in Nat
  <2> DEFINE length == sizes[FirstList(f) + i] * VectorInfoSize
  <2>1. FirstList(f) + i \in Heads BY <1>1 DEF Heads
  <2>2. sizes[FirstList(f) + i] \in Nat BY <2>1 DEF BuildType
  <2>3. length \in Nat BY <2>2 DEF VectorInfoSize
  <2>4. Bytes(f)[i] = IF opt.compress /\ length # 0 THEN CompressedSize(length) ELSE length BY DEF Bytes
  <2> HIDE DEF length
  <2>5. CompressedSize(length) \in Nat
    <3>1. length + 1 \in Nat BY <2>3
    <3>2. (length + 1) \div 2 \in Nat BY <3>1, DivMod
    <3> QED BY <3>2 DEF CompressedSize
  <2> QED BY <2>3, <2>4, <2>5
<1>4. Bytes(f) = [i \in DOMAIN Bytes(f) |-> Bytes(f)[i]] BY DEF Bytes
<1> QED BY <1>1, <1>2, <1>3, <1>4

LEMMA FunctionIsSeq ==
    ASSUME NEW n \in Nat, NEW f, f = [i \in 1..n |-> f[i]]
    PROVE  IsSeq(f)
<1>1. DOMAIN f = 1..n OBVIOUS
<1>2. f \in [1..n -> {f[i] : i \in DOMAIN f}] BY <1>1
<1> QED BY <1>2 DEF IsSeq

LEMMA SeqDomain ==
    ASSUME NEW s, IsSeq(s)
    PROVE  Len(s) \in Nat /\ DOMAIN s = 1..Len(s) /\ IsFiniteSet(DOMAIN s)
<1>1. Len(s) \in Nat /\ DOMAIN s = 1..Len(s) BY DEF IsSeq
<1> QED BY <1>1, FS_Interval

LEMMA SubSeqIsSeq ==
    ASSUME NEW s, IsSeq(s), NEW m \in Int, NEW n \in Int
    PROVE  IsSeq(SubSeq(s, m, n))
<1> DEFINE k == IF m <= n THEN n - m + 1 ELSE 0
           f == SubSeq(s, m, n)
<1>1. k \in Nat OBVIOUS
<1>2. f = [i \in 1..k |-> f[i]] BY DEF IsSeq
<1> HIDE DEF f, k
<1>3. IsSeq(f) BY <1>1, <1>2, FunctionIsSeq
<1> QED BY <1>3 DEF f

LEMMA SaveBatchTyped ==
    ASSUME NEW s, IsSelection(s)
    PROVE  IsSelection(SaveBatch(s))
<1> DEFINE n == IF s.start + Len(s.mem) > Len(s.file) THEN s.start + Len(s.mem) ELSE Len(s.file)
           file == [i \in 1..n |->
                       IF i > s.start /\ i <= s.start + Len(s.mem) THEN s.mem[i - s.start] ELSE s.file[i]]
<1>1. n \in Nat BY SeqDomain DEF IsSelection
<1>2. SaveBatch(s) = [file |-> file, start |-> 0, mem |-> <<>>] BY DEF SaveBatch
<1> HIDE DEF n
<1>3. file = [i \in 1..n |-> file[i]] OBVIOUS
<1> HIDE DEF file
<1>4. IsSeq(file) BY <1>1, <1>3, FunctionIsSeq
<1>5. IsSeq(<<>>) BY DEF IsSeq
<1> QED BY <1>2, <1>4, <1>5 DEF IsSelection

LEMMA InitHolds == Init => BuildInv
<1> SUFFICES ASSUME Init PROVE BuildInv OBVIOUS
<1>1. opt \in Settings /\ pc = "select" /\ step = 0 /\ sizes = [h \in Heads |-> 0] BY DEF Init
<1>2. N \in Nat /\ opt.replicaCount \in Nat BY <1>1, OptTyped
<1> DEFINE mem == [i \in 1..N * opt.replicaCount |-> NoEdge]
           fresh == [file |-> <<>>, start |-> 0, mem |-> mem]
<1>3. N * opt.replicaCount \in Nat BY <1>2
<1>4. mem = [i \in 1..N * opt.replicaCount |-> mem[i]] OBVIOUS
<1> HIDE DEF mem
<1>5. IsSeq(mem) BY <1>3, <1>4, FunctionIsSeq
<1>6. IsSeq(<<>>) BY DEF IsSeq
<1>7. IsSelection(fresh) BY <1>5, <1>6 DEF IsSelection
<1>8. sel = IF opt.batches > 1 THEN SaveBatch(fresh) ELSE fresh BY DEF Init, mem
<1> HIDE DEF fresh
<1>9. IsSelection(sel) BY <1>7, <1>8, SaveBatchTyped
<1> QED BY <1>1, <1>9 DEF BuildInv, BuildType

LEMMA SelectBatchKeeps == BuildInv /\ SelectBatch => BuildInv'
<1> SUFFICES ASSUME BuildInv, SelectBatch PROVE BuildInv' OBVIOUS
<1>1. /\ opt \in Settings /\ pc = "select" /\ step \in Nat /\ sizes \in [Heads -> Nat]
      /\ IsSelection(sel)
  BY DEF BuildInv, BuildType, SelectBatch
<1>2. opt' = opt /\ HeadCount' = HeadCount /\ Heads' = Heads BY DEF SelectBatch, HeadCount, Heads
<1>3. /\ N \in Nat /\ opt.batches \in Nat \ {0} /\ opt.replicaCount \in Nat BY <1>1, OptTyped
<1>4. BatchSize \in Nat
  <2>1. N + opt.batches - 1 \in Nat BY <1>3
  <2> QED BY <2>1, <1>3, DivMod DEF BatchSize
<1>5. BatchStart(step) \in Nat /\ BatchEnd(step) \in Nat BY <1>1, <1>3, <1>4 DEF BatchStart, BatchEnd
<1>6. BatchStart(step) * opt.replicaCount \in Nat /\ BatchEnd(step) * opt.replicaCount \in Nat BY <1>3, <1>5
<1> DEFINE loaded == IF opt.batches > 1
                     THEN LoadBatch(sel, BatchStart(step) * opt.replicaCount, BatchEnd(step) * opt.replicaCount)
                     ELSE sel
<1>7. PICK found \in Found :
        LET here == BatchStart(step)..BatchEnd(step) - 1
            edges == [v \in here |-> EdgesOf(v, found)]
            chosen == [loaded EXCEPT !.mem =
                           [i \in DOMAIN @ |->
                               edges[BatchStart(step) + (i - 1) \div opt.replicaCount][1 + ((i - 1) % opt.replicaCount)]]]
        IN  /\ sizes' = [h \in Heads |-> sizes[h] + InPosting(chosen.mem, h)]
            /\ sel' = IF opt.batches > 1 THEN SaveBatch(chosen) ELSE chosen
  BY DEF SelectBatch
<1> DEFINE edges == [v \in BatchStart(step)..BatchEnd(step) - 1 |-> EdgesOf(v, found)]
           mem == [i \in DOMAIN loaded.mem |->
                       edges[BatchStart(step) + (i - 1) \div opt.replicaCount][1 + ((i - 1) % opt.replicaCount)]]
           chosen == [loaded EXCEPT !.mem = mem]
<1>8. /\ sizes' = [h \in Heads |-> sizes[h] + InPosting(chosen.mem, h)]
      /\ sel' = IF opt.batches > 1 THEN SaveBatch(chosen) ELSE chosen
  BY <1>7
<1>9. IsSelection(loaded)
  <2> DEFINE a == BatchStart(step) * opt.replicaCount
             b == BatchEnd(step) * opt.replicaCount
             read == SubSeq(sel.file, a + 1, b)
  <2>1. a \in Nat /\ b \in Nat BY <1>6
  <2> HIDE DEF a, b
  <2>5. IsSeq(sel.file) /\ a + 1 \in Int /\ b \in Int BY <1>1, <2>1 DEF IsSelection
  <2>2. IsSeq(read) BY <2>5, SubSeqIsSeq
  <2>3. LoadBatch(sel, a, b) = [sel EXCEPT !.start = a, !.mem = read] BY DEF LoadBatch
  <2> HIDE DEF read
  <2>4. IsSelection(LoadBatch(sel, a, b)) BY <1>1, <2>1, <2>2, <2>3 DEF IsSelection
  <2> QED BY <1>1, <2>4 DEF a, b
<1> HIDE DEF loaded
<1>10. IsSelection(chosen) /\ DOMAIN chosen.mem = DOMAIN loaded.mem
  <2>1. Len(loaded.mem) \in Nat /\ DOMAIN loaded.mem = 1..Len(loaded.mem) BY <1>9, SeqDomain DEF IsSelection
  <2>2. mem = [i \in 1..Len(loaded.mem) |-> mem[i]] BY <2>1
  <2> HIDE DEF mem
  <2>3. IsSeq(mem) BY <2>1, <2>2, FunctionIsSeq
  <2>4. DOMAIN mem = DOMAIN loaded.mem BY <2>1, <2>2
  <2> QED BY <1>9, <2>3, <2>4 DEF IsSelection
<1> HIDE DEF chosen
<1>11. ASSUME NEW h \in Heads PROVE InPosting(chosen.mem, h) \in Nat
  <2>1. IsFiniteSet(DOMAIN chosen.mem) BY <1>10, SeqDomain DEF IsSelection
  <2>2. IsFiniteSet({i \in DOMAIN chosen.mem : chosen.mem[i].node = h}) BY <2>1, FS_Subset
  <2> QED BY <2>2, FS_CardinalityType DEF InPosting
<1>12. sizes' \in [Heads -> Nat] BY <1>1, <1>8, <1>11
<1>13. IsSelection(sel') BY <1>8, <1>10, SaveBatchTyped
<1>14. /\ pc' \in {"select", "cut"}
       /\ step' \in Nat
  BY <1>1 DEF SelectBatch
<1> QED BY <1>1, <1>2, <1>12, <1>13, <1>14 DEF BuildInv, BuildType

LEMMA SortAndCutKeeps == BuildInv /\ SortAndCut => BuildInv'
<1> SUFFICES ASSUME BuildInv, SortAndCut PROVE BuildInv' OBVIOUS
<1>1. opt \in Settings /\ sizes \in [Heads -> Nat] BY DEF BuildInv, BuildType
<1>2. /\ opt' = opt /\ pc' = "file" /\ step' = 0
      /\ sizes' = [h \in Heads |-> IF sizes[h] > PostingSizeLimit THEN PostingSizeLimit ELSE sizes[h]]
  BY DEF SortAndCut
<1>3. /\ opt.pageLimit \in Nat /\ opt.vectorLimit \in Nat /\ opt.files \in Nat \ {0} /\ MaxSize \in Nat
      /\ PageSize \in Nat \ {0}
  BY <1>1, OptTyped, PageSizeAssumption
<1>4. PagesFor(opt.vectorLimit) \in Nat
  <2>1. opt.vectorLimit * VectorInfoSize + PageSize - 1 \in Nat BY <1>3 DEF VectorInfoSize
  <2> QED BY <2>1, <1>3, DivMod DEF PagesFor
<1>5. PostingPageLimit \in Nat BY <1>3, <1>4, MaxOfTwo DEF PostingPageLimit
<1>6. PostingSizeLimit \in Nat
  <2>1. PostingPageLimit * PageSize \in Nat BY <1>3, <1>5
  <2>2. (PostingPageLimit * PageSize) \div VectorInfoSize \in Nat BY <2>1, DivMod DEF VectorInfoSize
  <2> QED BY <2>2, <1>3 DEF PostingSizeLimit
<1>7. Heads' = Heads BY <1>2 DEF Heads, HeadCount
<1>8. sizes' \in [Heads -> Nat] BY <1>1, <1>2, <1>6
<1>9. 0 \in Nat /\ 0 < opt.files BY <1>3
<1> QED BY <1>1, <1>2, <1>7, <1>8, <1>9 DEF BuildInv, BuildType

LEMMA OpenFileKeeps == BuildInv /\ OpenFile => BuildInv'
<1> SUFFICES ASSUME BuildInv, OpenFile PROVE BuildInv' OBVIOUS
<1>1. BuildType /\ pc = "file" /\ opt' = opt /\ step' = step /\ sizes' = sizes BY DEF BuildInv, OpenFile
<1>2. FirstList(step)' = FirstList(step) /\ EndList(step)' = EndList(step) /\ Heads' = Heads
  BY <1>1 DEF FirstList, EndList, ListsPerFile, HeadCount, Heads
<1>3. CASE FirstList(step) > EndList(step)
  <2>1. pc' = "failed" BY <1>3 DEF OpenFile
  <2> QED BY <1>1, <1>2, <1>3, <2>1 DEF BuildInv, BuildType
<1>4. CASE ~(FirstList(step) > EndList(step))
  <2>1. pc' = "layout" /\ lay' = LayoutStart(Bytes(step)) BY <1>4 DEF OpenFile
  <2>2. Bytes(step)' = Bytes(step) BY <1>1, <1>2 DEF Bytes
  <2>3. step \in Nat BY <1>1 DEF BuildType
  <2>4. LayoutInv(Bytes(step), LayoutStart(Bytes(step))) BY <1>1, <2>3, BytesTyped, LayoutStarts
  <2>5. LayoutInv(Bytes(step), lay)' BY <2>1, <2>2, <2>4
  <2> QED BY <1>1, <1>2, <2>1, <2>5 DEF BuildInv, BuildType
<1> QED BY <1>3, <1>4

LEMMA SelectPostingOffsetKeeps == BuildInv /\ SelectPostingOffset => BuildInv'
<1> SUFFICES ASSUME BuildInv, SelectPostingOffset PROVE BuildInv' OBVIOUS
<1>1. /\ BuildType /\ pc = "layout" /\ opt' = opt /\ step' = step /\ sizes' = sizes /\ pc' = pc
      /\ lay.left # {} /\ lay' = LayoutStep(Bytes(step), lay)
  BY DEF BuildInv, SelectPostingOffset
<1>2. FirstList(step)' = FirstList(step) /\ EndList(step)' = EndList(step) /\ Heads' = Heads
  BY <1>1 DEF FirstList, EndList, ListsPerFile, HeadCount, Heads
<1>3. Bytes(step)' = Bytes(step) BY <1>1, <1>2 DEF Bytes
<1>4. LayoutInv(Bytes(step), LayoutStep(Bytes(step), lay)) BY <1>1, LayoutSteps DEF BuildInv
<1>5. LayoutInv(Bytes(step), lay)' BY <1>1, <1>3, <1>4
<1> QED BY <1>1, <1>2, <1>5 DEF BuildInv, BuildType

LEMMA OutputKeeps == BuildInv /\ OutputSSDIndexFile => BuildInv'
<1> SUFFICES ASSUME BuildInv, OutputSSDIndexFile PROVE BuildInv' OBVIOUS
<1>1. BuildType /\ pc = "layout" /\ opt' = opt /\ sizes' = sizes
  BY DEF BuildInv, OutputSSDIndexFile, build
<1>2. ~Misplaced(Bytes(step)) BY <1>1, NothingMisplaced DEF BuildInv
<1>3. IF step + 1 < opt.files THEN pc' = "file" /\ step' = step + 1 ELSE pc' = "load" /\ step' = 0
  BY <1>2 DEF OutputSSDIndexFile
<1>4. Heads' = Heads BY <1>1 DEF Heads, HeadCount
<1>5. step' \in Nat BY <1>1, <1>3 DEF BuildType
<1> QED BY <1>1, <1>3, <1>4, <1>5 DEF BuildInv, BuildType

LEMMA LoadKeeps == BuildInv /\ LoadingHeadInfo => BuildInv'
<1> SUFFICES ASSUME BuildInv, LoadingHeadInfo PROVE BuildInv' OBVIOUS
<1>1. BuildType /\ pc = "load" /\ opt' = opt /\ sizes' = sizes
  BY DEF BuildInv, LoadingHeadInfo, build
<1>2. pc' \in {"load", "ready"} /\ step' \in Nat BY <1>1 DEF LoadingHeadInfo, BuildType
<1>3. Heads' = Heads BY <1>1 DEF Heads, HeadCount
<1> QED BY <1>1, <1>2, <1>3 DEF BuildInv, BuildType

\* A search and the iterator do not touch what the build has made.
LEMMA ReadersKeep ==
    BuildInv /\ (SearchIndex \/ SearchIndexIterative \/ UNCHANGED vars) => BuildInv'
<1> SUFFICES ASSUME BuildInv, SearchIndex \/ SearchIndexIterative \/ UNCHANGED vars PROVE BuildInv' OBVIOUS
<1>1. UNCHANGED <<build, pc, step>>
  BY DEF SearchIndex, SearchIndexIterative, GetIterator, NextCall, EndCall, LoadPostings, LoadFails, NextHead,
         NextInPosting, LastHeads, MoreHeads, Close, vars, build
<1>2. opt' = opt /\ sizes' = sizes /\ sel' = sel /\ lay' = lay /\ pc' = pc /\ step' = step BY <1>1 DEF build
<1>3. Heads' = Heads /\ FirstList(step)' = FirstList(step) /\ EndList(step)' = EndList(step)
  BY <1>2 DEF FirstList, EndList, ListsPerFile, HeadCount, Heads
<1>4. Bytes(step)' = Bytes(step) BY <1>2, <1>3 DEF Bytes
<1> QED BY <1>2, <1>3, <1>4 DEF BuildInv, BuildType

\* BuildInv is inductive.
THEOREM BuildInvariant == Spec => []BuildInv
<1>1. BuildInv /\ [Next]_vars => BuildInv'
  <2> SUFFICES ASSUME BuildInv, [Next]_vars PROVE BuildInv' OBVIOUS
  <2>1. CASE SelectBatch BY <2>1, SelectBatchKeeps
  <2>2. CASE SortAndCut BY <2>2, SortAndCutKeeps
  <2>3. CASE OpenFile BY <2>3, OpenFileKeeps
  <2>4. CASE SelectPostingOffset BY <2>4, SelectPostingOffsetKeeps
  <2>5. CASE OutputSSDIndexFile BY <2>5, OutputKeeps
  <2>6. CASE LoadingHeadInfo BY <2>6, LoadKeeps
  <2>7. CASE SearchIndex \/ SearchIndexIterative \/ UNCHANGED vars BY <2>7, ReadersKeep
  <2> QED BY <2>1, <2>2, <2>3, <2>4, <2>5, <2>6, <2>7 DEF Next, BuildIndex
<1> QED BY <1>1, InitHolds, PTL DEF Spec

\* SelectPostingOffset, for every number and size of lists, page size and
\* number of files: no two lists of a file share a word, each ends within
\* the pages its header entry makes the reader fetch, and the build never
\* throws "List offset mismatch" or "Padding size mismatch with page size".
THEOREM ListsAreLaidOut == Spec => []ListsLaidOut
<1>1. BuildInv => ListsLaidOut
  <2> SUFFICES ASSUME BuildInv PROVE ListsLaidOut OBVIOUS
  <2>1. ASSUME pc = "layout" PROVE LayoutSound(Bytes(step), lay) BY <2>1 DEF BuildInv, LayoutInv
  <2>2. ASSUME pc = "failed" PROVE (opt.files - 1) * ListsPerFile > HeadCount
    <3>1. FirstList(step) > EndList(step) /\ opt \in Settings /\ step \in Nat /\ step < opt.files
      BY <2>2 DEF BuildInv, BuildType
    <3>2. /\ opt.files \in Nat \ {0} /\ HeadCount \in Nat /\ ListsPerFile \in Nat
          /\ FirstList(step) \in Nat /\ EndList(step) = HeadCount
      BY <3>1, OptTyped, FilesTyped
    <3>3. step * ListsPerFile > HeadCount BY <3>1, <3>2 DEF FirstList
    <3>4. step <= opt.files - 1 BY <3>1, <3>2
    <3>5. step * ListsPerFile <= (opt.files - 1) * ListsPerFile BY <3>1, <3>2, <3>4
    <3> QED BY <3>1, <3>2, <3>3, <3>5
  <2> QED BY <2>1, <2>2 DEF ListsLaidOut
<1> QED BY <1>1, BuildInvariant, PTL
=============================================================================
