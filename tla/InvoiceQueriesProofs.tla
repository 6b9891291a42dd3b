------------------------ MODULE InvoiceQueriesProofs ------------------------
(***************************************************************************)
(* For any businesses, lists, sizes of a page and numbers of changes: a    *)
(* summary is of one list, and a detail is asked for with the business in  *)
(* whose list the invoice was shown.                                       *)
(*                                                                         *)
(* A summary is right because what it has read is the beginning of the     *)
(* list it started with as long as no row of that list has gone, and rows  *)
(* that came in make the list longer, which it notices                     *)
(* (SummaryIsOfOneList).  A detail is right because the references are     *)
(* dropped with the business they were listed for (ReferencesAreOwn).      *)
(*                                                                         *)
(* What a page leaves of the references is computed row by row.  Facts     *)
(* about it are shown by taking the first row that would break them: every *)
(* set of numbers that is not empty has a least element (Least).           *)
(***************************************************************************)
EXTENDS InvoiceQueries, FiniteSetTheorems, SequenceTheorems, WellFoundedInduction, TLAPS

-----------------------------------------------------------------------------
(***************************************************************************)
(* Numbers                                                                 *)
(***************************************************************************)
\* Every set of numbers that is not empty has a least element: the intervals below its
\* elements are finite sets, and these are well-founded.
LEMMA Least ==
    ASSUME NEW T \in SUBSET Nat, T # {}
    PROVE  \E m \in T : \A n \in T : m <= n
<1>1. PICK k \in T : TRUE
  OBVIOUS
<1> DEFINE R == StrictSubsetOrdering(1 .. k)
           I == {S \in SUBSET (1 .. k) : \E n \in T : S = 1 .. n}
<1>2. IsFiniteSet(1 .. k)
  BY FS_Interval
<1>3. IsWellFoundedOn(R, FiniteSubsetsOf(1 .. k))
  BY <1>2, FS_StrictSubsetOrderingWellFounded
<1>4. I \subseteq FiniteSubsetsOf(1 .. k) /\ I # {}
  BY <1>1, <1>2, FS_Subset DEF FiniteSubsetsOf
<1>5. PICK S \in I : \A V \in I : ~(<<V, S>> \in R)
  BY <1>3, <1>4, WFMin
<1>6. PICK m \in T : S = 1 .. m
  BY <1>5
<1>7. ASSUME NEW n \in T, n < m
      PROVE  FALSE
  <2>1. 1 .. n \subseteq 1 .. m /\ m \in 1 .. m /\ m \notin 1 .. n
    BY <1>6, <1>7
  <2>2. 1 .. m \in SUBSET (1 .. k)
    BY <1>5, <1>6
  <2>3. 1 .. n \in I
    BY <2>1, <2>2
  <2>4. <<1 .. n, 1 .. m>> \in R
    BY <2>1, <2>2 DEF StrictSubsetOrdering
  <2>5. QED
    BY <1>5, <1>6, <2>3, <2>4
<1>8. QED
  BY <1>6, <1>7

\* The rows of the pages before page n, and with it.
LEMMA Sizes ==
    ASSUME NEW n \in Nat \ {0}
    PROVE  /\ PageSize \in Nat \ {0} /\ MaxReferences \in Nat \ {0} /\ MaxPages \in Nat \ {0}
           /\ (n - 1) * PageSize \in Nat
           /\ n * PageSize = (n - 1) * PageSize + PageSize
           /\ n = 1 => (n - 1) * PageSize = 0
           /\ n # 1 => n - 1 \in Nat \ {0}
<1>1. PageSize \in Nat \ {0} /\ MaxReferences \in Nat \ {0} /\ MaxPages \in Nat \ {0}
  BY SizesAssumption
<1>2. QED
  BY <1>1

-----------------------------------------------------------------------------
(***************************************************************************)
(* Lists                                                                   *)
(***************************************************************************)
LEMMA Inserted ==
    ASSUME NEW S, NEW list, IsList(list, S), NEW row \in S \ ToSet(list),
           NEW i \in 1 .. Len(list) + 1
    PROVE  IsList(InsertAt(list, i, row), S) /\ Len(InsertAt(list, i, row)) = Len(list) + 1
<1> DEFINE l == InsertAt(list, i, row)
<1>1. list \in Seq(S) /\ Len(list) \in Nat /\ \A k \in 1 .. Len(list) : list[k] \in S /\ list[k] # row
  BY DEF IsList, ToSet
<1>2. \A k, j \in 1 .. Len(list) : list[k] = list[j] => k = j
  BY <1>1 DEF IsList, IsInjective
<1>3. /\ l \in Seq(S) /\ Len(l) = Len(list) + 1
      /\ \A k \in 1 .. Len(l) : l[k] = IF k < i THEN list[k] ELSE IF k = i THEN row ELSE list[k - 1]
  <2> DEFINE x == SubSeq(list, 1, i - 1)
             y == x \o <<row>>
             z == SubSeq(list, i, Len(list))
  <2>1. /\ x \in Seq(S) /\ Len(x) = i - 1 /\ \A k \in 1 .. i - 1 : x[k] = list[k]
        /\ z \in Seq(S) /\ Len(z) = Len(list) - i + 1
        /\ \A k \in 1 .. Len(list) - i + 1 : z[k] = list[i + k - 1]
    BY <1>1, SubSeqProperties
  <2> HIDE DEF x, z
  <2>2. /\ <<row>> \in Seq(S) /\ Len(<<row>>) = 1 /\ <<row>>[1] = row
    OBVIOUS
  <2>3. /\ y \in Seq(S) /\ Len(y) = i
        /\ \A k \in 1 .. i : y[k] = IF k < i THEN list[k] ELSE row
    BY <2>1, <2>2, ConcatProperties
  <2> HIDE DEF y
  <2>4. /\ y \o z \in Seq(S) /\ Len(y \o z) = Len(list) + 1
        /\ \A k \in 1 .. Len(list) + 1 :
              (y \o z)[k] = IF k < i THEN list[k] ELSE IF k = i THEN row ELSE list[k - 1]
    <3>1. /\ y \o z \in Seq(S) /\ Len(y \o z) = Len(list) + 1
          /\ \A k \in 1 .. Len(list) + 1 : (y \o z)[k] = IF k <= i THEN y[k] ELSE z[k - i]
      <4>1. Len(y) = i /\ Len(y) + Len(z) = Len(list) + 1
        BY <1>1, <2>1, <2>3
      <4>2. /\ y \o z \in Seq(S) /\ Len(y \o z) = Len(y) + Len(z)
            /\ \A k \in 1 .. Len(y) + Len(z) :
                  (y \o z)[k] = IF k <= Len(y) THEN y[k] ELSE z[k - Len(y)]
        BY <2>1, <2>3, ConcatProperties
      <4>3. QED
        BY <4>1, <4>2
    <3>2. ASSUME NEW k \in 1 .. Len(list) + 1, k > i
          PROVE  z[k - i] = list[k - 1]
      <4>1. k - i \in 1 .. Len(list) - i + 1 /\ i + (k - i) - 1 = k - 1
        BY <1>1, <3>2
      <4>2. QED
        BY <2>1, <4>1
    <3>3. ASSUME NEW k \in 1 .. Len(list) + 1, k <= i
          PROVE  y[k] = IF k < i THEN list[k] ELSE row
      BY <2>3, <3>3
    <3>4. QED
      BY <1>1, <3>1, <3>2, <3>3
  <2>5. l = y \o z
    BY DEF InsertAt, x, y, z
  <2>6. QED
    BY <2>4, <2>5
<1> HIDE DEF l
<1>4. IsInjective(l)
  <2> SUFFICES ASSUME NEW k \in 1 .. Len(l), NEW j \in 1 .. Len(l), l[k] = l[j] PROVE k = j
    BY <1>3 DEF IsInjective
  <2> DEFINE old(x) == IF x < i THEN x ELSE x - 1
  <2>1. \A x \in 1 .. Len(l) : x # i => old(x) \in 1 .. Len(list) /\ l[x] = list[old(x)]
    BY <1>1, <1>3
  <2>2. k = i <=> j = i
    <3>1. l[i] = row /\ i \in 1 .. Len(l)
      BY <1>1, <1>3
    <3>2. \A x \in 1 .. Len(l) : x # i => l[x] # row
      BY <1>1, <2>1
    <3>3. QED
      BY <3>1, <3>2
  <2>3. CASE k # i /\ j # i
    <3>1. old(k) = old(j)
      BY <1>2, <2>1, <2>3
    <3>2. QED
      BY <1>3, <2>3, <3>1
  <2>4. QED
    BY <2>2, <2>3
<1>5. QED
  BY <1>3, <1>4 DEF IsList, l

\* A list without one of its rows.
LEMMA Removed ==
    ASSUME NEW S, NEW list, IsList(list, S), NEW i \in 1 .. Len(list)
    PROVE  /\ IsList(RemoveAt(list, i), S) /\ Len(RemoveAt(list, i)) = Len(list) - 1
           /\ \A row \in S : row = list[i] => row \notin ToSet(RemoveAt(list, i))
<1> DEFINE l == RemoveAt(list, i)
<1>1. list \in Seq(S) /\ Len(list) \in Nat /\ \A k \in 1 .. Len(list) : list[k] \in S
  BY DEF IsList
<1>2. \A k, j \in 1 .. Len(list) : list[k] = list[j] => k = j
  BY <1>1 DEF IsList, IsInjective
<1>3. /\ l \in Seq(S) /\ Len(l) = Len(list) - 1
      /\ \A k \in 1 .. Len(l) : l[k] = IF k < i THEN list[k] ELSE list[k + 1]
  <2> DEFINE x == SubSeq(list, 1, i - 1)
             z == SubSeq(list, i + 1, Len(list))
  <2>1. /\ x \in Seq(S) /\ Len(x) = i - 1 /\ \A k \in 1 .. i - 1 : x[k] = list[k]
        /\ z \in Seq(S) /\ Len(z) = Len(list) - i
        /\ \A k \in 1 .. Len(list) - i : z[k] = list[i + k]
    BY <1>1, SubSeqProperties
  <2> HIDE DEF x, z
  <2>2. /\ x \o z \in Seq(S) /\ Len(x \o z) = Len(list) - 1
        /\ \A k \in 1 .. Len(list) - 1 : (x \o z)[k] = IF k < i THEN list[k] ELSE list[k + 1]
    <3>1. /\ x \o z \in Seq(S) /\ Len(x \o z) = Len(list) - 1
          /\ \A k \in 1 .. Len(list) - 1 : (x \o z)[k] = IF k <= i - 1 THEN x[k] ELSE z[k - (i - 1)]
      <4>1. Len(x) = i - 1 /\ Len(x) + Len(z) = Len(list) - 1
        BY <1>1, <2>1
      <4>2. /\ x \o z \in Seq(S) /\ Len(x \o z) = Len(x) + Len(z)
            /\ \A k \in 1 .. Len(x) + Len(z) :
                  (x \o z)[k] = IF k <= Len(x) THEN x[k] ELSE z[k - Len(x)]
        BY <2>1, ConcatProperties
      <4>3. QED
        BY <4>1, <4>2
    <3>2. ASSUME NEW k \in 1 .. Len(list) - 1, k >= i
          PROVE  z[k - (i - 1)] = list[k + 1]
      <4>1. k - (i - 1) \in 1 .. Len(list) - i /\ i + (k - (i - 1)) = k + 1
        BY <1>1, <3>2
      <4>2. QED
        BY <2>1, <4>1
    <3>3. QED
      BY <1>1, <2>1, <3>1, <3>2
  <2>3. QED
    BY <2>2 DEF RemoveAt, x, z
<1> HIDE DEF l
<1>4. IsInjective(l)
  <2> SUFFICES ASSUME NEW k \in 1 .. Len(l), NEW j \in 1 .. Len(l), l[k] = l[j] PROVE k = j
    BY <1>3 DEF IsInjective
  <2>1. QED
    BY <1>1, <1>2, <1>3
<1>5. \A k \in 1 .. Len(l) : l[k] # list[i]
  BY <1>1, <1>2, <1>3
<1>6. QED
  BY <1>3, <1>4, <1>5 DEF IsList, ToSet, l

\* A list with one row more.
LEMMA Appended ==
    ASSUME NEW S, NEW list, IsList(list, S), NEW row \in S, row \notin ToSet(list)
    PROVE  IsList(Append(list, row), S) /\ Len(Append(list, row)) = Len(list) + 1
BY DEF IsList, IsInjective, ToSet

\* A list without its first row.
LEMMA Tailed ==
    ASSUME NEW S, NEW list, IsList(list, S), list # <<>>
    PROVE  IsList(Tail(list), S) /\ Len(Tail(list)) = Len(list) - 1
BY DEF IsList, IsInjective

\* Two lists without a common row are one list.
LEMMA Joined ==
    ASSUME NEW S, NEW l \in Seq(S), IsInjective(l), NEW m \in Seq(S), IsInjective(m),
           ToSet(l) \cap ToSet(m) = {}
    PROVE  IsInjective(l \o m)
<1>1. \A k \in 1 .. Len(l), j \in 1 .. Len(m) : l[k] # m[j]
  BY DEF ToSet
<1>2. /\ Len(l \o m) = Len(l) + Len(m)
      /\ \A k \in 1 .. Len(l \o m) : (l \o m)[k] = IF k <= Len(l) THEN l[k] ELSE m[k - Len(l)]
      /\ l \o m \in Seq(S)
  OBVIOUS
<1>3. \A k, j \in 1 .. Len(l \o m) : (l \o m)[k] = (l \o m)[j] => k = j
  BY <1>1, <1>2 DEF IsInjective
<1>4. QED
  BY <1>2, <1>3 DEF IsInjective

-----------------------------------------------------------------------------
(***************************************************************************)
(* Pages (invoices.py:351-372)                                             *)
(***************************************************************************)
LEMMA PageFacts ==
    ASSUME NEW S, NEW list, IsList(list, S), NEW n \in Nat \ {0}
    PROVE  /\ PageOf(list, n) \in Seq(S)
           /\ IsInjective(PageOf(list, n))
           /\ ~HasNext(list, n) /\ n = 1 => PageOf(list, n) = list
<1> DEFINE a == (n - 1) * PageSize
           c == n * PageSize
           b == IF c < Len(list) THEN c ELSE Len(list)
           l == SubSeq(list, a + 1, b)
<1>1. a \in Nat /\ c = a + PageSize /\ PageSize \in Nat /\ (n = 1 => a = 0)
  BY Sizes
<1>2. PageOf(list, n) = l /\ (HasNext(list, n) <=> c < Len(list))
  BY DEF PageOf, HasNext
<1> HIDE DEF a, c
<1>3. list \in Seq(S) /\ Len(list) \in Nat /\ b \in Nat /\ b <= Len(list)
  BY <1>1 DEF IsList
<1>4. /\ l \in Seq(S) /\ Len(l) \in Nat
      /\ \A k \in 1 .. Len(l) : l[k] = list[a + k] /\ a + k \in 1 .. Len(list)
  BY <1>1, <1>3
<1>5. \A k, j \in 1 .. Len(list) : list[k] = list[j] => k = j
  BY <1>3 DEF IsList, IsInjective
<1>6. ASSUME a = 0, b = Len(list)
      PROVE  l = list
  BY <1>3, <1>6, SubSeqFull
<1> HIDE DEF l, b
<1>7. IsInjective(l)
  <2> SUFFICES ASSUME NEW k \in 1 .. Len(l), NEW j \in 1 .. Len(l), l[k] = l[j] PROVE k = j
    BY <1>4 DEF IsInjective
  <2>1. a + k = a + j
    BY <1>4, <1>5
  <2>2. QED
    BY <1>1, <1>4, <2>1
<1>8. ~HasNext(list, n) /\ n = 1 => l = list
  BY <1>1, <1>2, <1>3, <1>6 DEF b
<1>9. QED
  BY <1>2, <1>4, <1>7, <1>8

\* The pages before page n and page n are the pages up to it.
LEMMA PagesJoin ==
    ASSUME NEW S, NEW list, IsList(list, S), NEW n \in Nat \ {0},
           (n - 1) * PageSize <= Len(list)
    PROVE  /\ HasNext(list, n) =>
                 SubSeq(list, 1, (n - 1) * PageSize) \o PageOf(list, n) = SubSeq(list, 1, n * PageSize)
           /\ ~HasNext(list, n) =>
                 SubSeq(list, 1, (n - 1) * PageSize) \o PageOf(list, n) = list
<1> DEFINE a == (n - 1) * PageSize
           b == n * PageSize
<1>1. a \in Nat /\ b = a + PageSize /\ PageSize \in Nat /\ a <= Len(list)
  BY Sizes
<1>2. list \in Seq(S) /\ Len(list) \in Nat
  BY DEF IsList
<1>3. /\ HasNext(list, n) => PageOf(list, n) = SubSeq(list, a + 1, b) /\ b < Len(list)
      /\ ~HasNext(list, n) => PageOf(list, n) = SubSeq(list, a + 1, Len(list))
  BY DEF PageOf, HasNext
<1> HIDE DEF a, b
<1>4. \A c \in a .. Len(list) : SubSeq(list, 1, a) \o SubSeq(list, a + 1, c) = SubSeq(list, 1, c)
  BY <1>1, <1>2, ConcatAdjacentSubSeq
<1>5. SubSeq(list, 1, Len(list)) = list
  BY <1>2, SubSeqFull
<1>6. /\ HasNext(list, n) => SubSeq(list, 1, a) \o PageOf(list, n) = SubSeq(list, 1, b)
      /\ ~HasNext(list, n) => SubSeq(list, 1, a) \o PageOf(list, n) = list
  <2>1. b <= Len(list) => b \in a .. Len(list)
    BY <1>1, <1>2
  <2>2. Len(list) \in a .. Len(list)
    BY <1>1, <1>2
  <2>3. HasNext(list, n) => SubSeq(list, 1, a) \o PageOf(list, n) = SubSeq(list, 1, b)
    <3>1. HasNext(list, n) => b \in a .. Len(list)
      BY <1>1, <1>2, <1>3, <2>1
    <3>2. QED
      BY <1>3, <1>4, <3>1
  <2>4. ~HasNext(list, n) => SubSeq(list, 1, a) \o PageOf(list, n) = list
    BY <1>3, <1>4, <1>5, <2>2
  <2>5. QED
    BY <2>3, <2>4
<1>7. QED
  BY <1>6 DEF a, b

-----------------------------------------------------------------------------
(***************************************************************************)
(* References (invoices.py:361-365)                                        *)
(***************************************************************************)
Bounded(refs, S) == IsList(refs, S) /\ Len(refs) <= MaxReferences

\* What was there moves to the end, and the oldest goes above the bound.
LEMMA RememberedBounded ==
    ASSUME NEW S, NEW refs, Bounded(refs, S), NEW row \in S
    PROVE  Bounded(Remembered(refs, row), S)
<1> DEFINE kept == Without(refs, row)
           longer == Append(kept, row)
<1>1. IsList(kept, S) /\ Len(kept) <= MaxReferences /\ row \notin ToSet(kept)
  <2>1. CASE row \in ToSet(refs)
    <3> DEFINE i == CHOOSE i \in 1 .. Len(refs) : refs[i] = row
    <3>1. i \in 1 .. Len(refs) /\ refs[i] = row
      BY <2>1 DEF ToSet, Bounded, IsList
    <3>2. kept = RemoveAt(refs, i)
      BY <2>1 DEF Without
    <3> HIDE DEF i, kept
    <3>3. Len(refs) \in Nat /\ MaxReferences \in Nat
      BY SizesAssumption DEF Bounded, IsList
    <3>4. QED
      BY <3>1, <3>2, <3>3, Removed DEF Bounded
  <2>2. CASE row \notin ToSet(refs)
    BY <2>2 DEF Without, Bounded
  <2>3. QED
    BY <2>1, <2>2
<1> HIDE DEF kept
<1>2. IsList(longer, S) /\ Len(longer) = Len(kept) + 1 /\ Len(kept) \in Nat
  BY <1>1, Appended DEF IsList
<1>3. Remembered(refs, row) = IF Len(longer) > MaxReferences THEN Tail(longer) ELSE longer
  BY DEF Remembered, kept
<1> HIDE DEF longer
<1>4. longer # <<>> /\ MaxReferences \in Nat
  BY <1>2, SizesAssumption DEF IsList
<1>5. CASE Len(longer) > MaxReferences
  BY <1>1, <1>2, <1>3, <1>4, <1>5, Tailed DEF Bounded
<1>6. CASE ~(Len(longer) > MaxReferences)
  BY <1>2, <1>3, <1>4, <1>6 DEF Bounded, IsList
<1>7. QED
  BY <1>5, <1>6

\* f[k] is what k rows of a page leave of the references, for k up to n.
Remembers(f, rows, n) ==
    f = [k \in 0 .. n |-> IF k = 0 THEN references ELSE Remembered(f[k - 1], rows[k])]

\* The loop over the rows of a page is a function of how many have been seen.
LEMMA LoopIsDefined ==
    ASSUME NEW rows, Len(rows) \in Nat
    PROVE  \E f : Remembers(f, rows, Len(rows)) /\ RememberAll(rows) = f[Len(rows)]
<1> DEFINE N == Len(rows)
           T == {n \in 0 .. N : ~\E f : Remembers(f, rows, n)}
<1>1. T = {}
  <2> SUFFICES ASSUME T # {} PROVE FALSE
    OBVIOUS
  <2>1. PICK m \in T : \A n \in T : m <= n
    <3>1. T \in SUBSET Nat
      OBVIOUS
    <3> HIDE DEF T
    <3>2. QED
      BY <3>1, Least
  <2>2. Remembers([k \in 0 .. 0 |-> references], rows, 0)
    BY DEF Remembers
  <2>3. m \in 0 .. N /\ m # 0
    <3>1. m \in 0 .. N /\ ~\E f : Remembers(f, rows, m)
      BY <2>1
    <3>2. QED
      BY <2>2, <3>1
  <2>4. PICK f : Remembers(f, rows, m - 1)
    <3>1. m - 1 \in 0 .. N /\ ~(m <= m - 1)
      BY <2>3
    <3>2. QED
      BY <2>1, <3>1
  <2> DEFINE g == [k \in 0 .. m |-> IF k < m THEN f[k] ELSE Remembered(f[m - 1], rows[m])]
  <2>5. ASSUME NEW k \in 0 .. m
        PROVE  g[k] = IF k = 0 THEN references ELSE Remembered(g[k - 1], rows[k])
    <3>1. k # 0 => k - 1 \in 0 .. m /\ k - 1 < m /\ g[k - 1] = f[k - 1]
      BY <2>3
    <3>2. k < m => k \in 0 .. m - 1 /\ g[k] = f[k]
      BY <2>3
    <3>3. k = m => g[k] = Remembered(f[m - 1], rows[m])
      BY <2>3
    <3>4. k < m => f[k] = IF k = 0 THEN references ELSE Remembered(f[k - 1], rows[k])
      BY <2>4, <3>2 DEF Remembers
    <3>5. k < m \/ k = m
      BY <2>3
    <3> HIDE DEF g
    <3>6. QED
      BY <2>3, <3>1, <3>2, <3>3, <3>4, <3>5
  <2>6. g = [k \in 0 .. m |-> g[k]]
    OBVIOUS
  <2> HIDE DEF g
  <2>7. Remembers(g, rows, m)
    BY <2>5, <2>6 DEF Remembers
  <2>8. QED
    BY <2>1, <2>7
<1> DEFINE h == CHOOSE f : f = [k \in 0 .. N |-> IF k = 0 THEN references
                                                 ELSE Remembered(f[k - 1], rows[k])]
<1>2. Remembers(h, rows, N)
  BY <1>1 DEF Remembers
<1>3. RememberAll(rows) = h[N]
  BY DEF RememberAll
<1>4. QED
  BY <1>2, <1>3

\* After a page the references are still a list of S, and bounded.
LEMMA RememberAllBounded ==
    ASSUME NEW S, Bounded(references, S), NEW rows \in Seq(S)
    PROVE  Bounded(RememberAll(rows), S)
<1> DEFINE N == Len(rows)
<1>1. N \in Nat
  OBVIOUS
<1>2. PICK f : Remembers(f, rows, N) /\ RememberAll(rows) = f[N]
  BY <1>1, LoopIsDefined
<1> DEFINE T == {n \in 0 .. N : ~Bounded(f[n], S)}
<1>3. T = {}
  <2> SUFFICES ASSUME T # {} PROVE FALSE
    OBVIOUS
  <2>1. PICK m \in T : \A n \in T : m <= n
    <3>1. T \in SUBSET Nat
      BY <1>1
    <3> HIDE DEF T
    <3>2. QED
      BY <3>1, Least
  <2>2. f[0] = references
    BY <1>1, <1>2 DEF Remembers
  <2>3. m \in 1 .. N
    <3>1. m \in 0 .. N /\ ~Bounded(f[m], S)
      BY <2>1
    <3>2. QED
      BY <1>1, <2>2, <3>1
  <2>4. m - 1 \in 0 .. N /\ ~(m <= m - 1)
    BY <1>1, <2>3
  <2>5. Bounded(f[m - 1], S)
    BY <2>1, <2>4
  <2>6. f[m] = Remembered(f[m - 1], rows[m]) /\ rows[m] \in S
    <3>1. m \in 0 .. Len(rows) /\ m # 0 /\ m \in 1 .. Len(rows)
      BY <1>1, <2>3
    <3>2. rows[m] \in S
      BY <3>1
    <3>3. f[m] = IF m = 0 THEN references ELSE Remembered(f[m - 1], rows[m])
      BY <1>2, <3>1 DEF Remembers
    <3>4. QED
      BY <3>1, <3>2, <3>3
  <2>7. Bounded(f[m], S)
    BY <2>5, <2>6, RememberedBounded
  <2>8. QED
    BY <2>1, <2>7
<1>4. QED
  BY <1>1, <1>2, <1>3

-----------------------------------------------------------------------------
(***************************************************************************)
(* The inductive invariant                                                 *)
(***************************************************************************)
RowsOfBusiness == IF business \in Businesses THEN RowsOf[business] ELSE {}

\* The references are invoices of the business they are kept for.
ReferencesAreOwn == Bounded(references, RowsOfBusiness)

\* A call has no answer yet, and past its first step it knows its business: of a
\* detail, that of the invoice.
CallsAreSound ==
    /\ call # Idle => answer = NoAnswer
    /\ call # Idle /\ call.at # "business" => business \in Businesses
    /\ call \in Details /\ call.at = "detail" => call.row \in RowsOf[business]

ReadSoFar == (call.page - 1) * PageSize

\* What a summary has read is the beginning of the list it started with, unless a row
\* of it has gone; a list that is still as long is still the same.
SummaryIsOfOneList ==
    call \in Reads /\ call.kind = "summary" =>
        /\ call.page = 1 => call.items = <<>>
        /\ call.page # 1 =>
              /\ call.at = "page"
              /\ IsInjective(call.items)
              /\ call.total = Len(listed)
              /\ ReadSoFar < Len(listed)
              /\ ~shrunk =>
                    /\ call.items = SubSeq(listed, 1, ReadSoFar)
                    /\ Len(book[business]) >= Len(listed)
                    /\ Len(book[business]) = Len(listed) => book[business] = listed

AnswersAreRight == SummaryIsRight /\ DetailIsOfTheLister

QueriesInv ==
    TypeOK /\ ReferencesAreOwn /\ CallsAreSound /\ SummaryIsOfOneList /\ AnswersAreRight

-----------------------------------------------------------------------------
(***************************************************************************)
(* Calls and rows                                                          *)
(***************************************************************************)
LEMMA Calls ==
    /\ Idle \notin Reads /\ Idle \notin Details /\ Reads \cap Details = {}
    /\ \A c \in Reads : /\ c.kind \in {"list", "summary", "collect"} /\ c.at \in {"business", "page"}
                        /\ c.page \in Nat \ {0} /\ c.items \in Seq(Rows) /\ c.total \in Nat
                        /\ c # Idle
    /\ \A c \in Details : c.kind = "detail" /\ c.at \in {"business", "detail"} /\ c.row \in Rows
                          /\ c # Idle
<1>1. \A c \in Reads : /\ c.kind \in {"list", "summary", "collect"} /\ c.at \in {"business", "page"}
                       /\ c.page \in Nat \ {0} /\ c.items \in Seq(Rows) /\ c.total \in Nat
  BY DEF Reads
<1>2. \A c \in Details : c.kind = "detail" /\ c.at \in {"business", "detail"} /\ c.row \in Rows
  BY DEF Details
<1>3. Idle.at = "idle"
  BY DEF Idle
<1>4. QED
  BY <1>1, <1>2, <1>3

\* The rows of a business are among all.
LEMMA RowsCover ==
    ASSUME NEW b \in Businesses
    PROVE  RowsOf[b] \subseteq Rows /\ \A list : IsList(list, RowsOf[b]) => IsList(list, Rows)
<1>1. RowsOf[b] \subseteq Rows
  BY DEF Rows
<1>2. QED
  BY <1>1 DEF IsList

\* The list of no business is empty.
LEMMA NothingRemembered == \A S : Bounded(<<>>, S) /\ IsList(<<>>, S)
<1>1. MaxReferences \in Nat
  BY SizesAssumption
<1>2. \A S : <<>> \in Seq(S) /\ Len(<<>>) = 0
  OBVIOUS
<1>3. IsInjective(<<>>)
  BY DEF IsInjective
<1>4. QED
  BY <1>1, <1>2, <1>3 DEF Bounded, IsList

-----------------------------------------------------------------------------
(***************************************************************************)
(* The start of a call                                                     *)
(***************************************************************************)
LEMMA InitSound == Init => QueriesInv
<1> SUFFICES ASSUME Init PROVE QueriesInv
  OBVIOUS
<1>1. book \in [Businesses -> Seq(Rows)]
  <2>1. book = [b \in Businesses |-> book[b]]
    <3> DEFINE Lists == UNION {SetToSeqs(S) : S \in SUBSET Rows}
    <3>1. book \in [Businesses -> Lists]
      BY DEF Init
    <3> HIDE DEF Lists
    <3>2. QED
      BY <3>1
  <2>2. \A b \in Businesses : book[b] \in Seq(Rows)
    BY RowsCover DEF Init, IsList
  <2>3. QED
    BY <2>1, <2>2
<1>2. changes \in 0 .. MaxChanges
  BY SizesAssumption DEF Init
<1>3. TypeOK
  <2>1. IsList(references, Rows) /\ Len(references) <= MaxReferences
    BY NothingRemembered DEF Init, Bounded
  <2>2. call \notin Reads
    BY Calls DEF Init
  <2>3. listed \in Seq(Rows) /\ shrunk \in BOOLEAN
    <3>1. listed = <<>> /\ shrunk = FALSE
      BY DEF Init
    <3>2. <<>> \in Seq(Rows)
      OBVIOUS
    <3>3. QED
      BY <3>1, <3>2
  <2>4. \A b \in Businesses : IsList(book[b], RowsOf[b])
    BY DEF Init
  <2>5. scope \in Businesses /\ business \in Businesses \cup {NoBusiness} /\ call \in {Idle}
    BY DEF Init
  <2>6. QED
    BY <1>1, <1>2, <2>1, <2>2, <2>3, <2>4, <2>5 DEF TypeOK
<1>4. ReferencesAreOwn
  BY NothingRemembered DEF Init, ReferencesAreOwn
<1>5. CallsAreSound /\ SummaryIsOfOneList
  BY Calls DEF Init, CallsAreSound, SummaryIsOfOneList
<1>6. AnswersAreRight
  BY DEF Init, AnswersAreRight, SummaryIsRight, DetailIsOfTheLister, Given
<1>7. QED
  BY <1>3, <1>4, <1>5, <1>6 DEF QueriesInv

\* A call begins with nothing read.
LEMMA CallSound ==
    ASSUME QueriesInv, NEW kind \in {"list", "summary", "collect"}, NEW page \in 1 .. MaxPages,
           Call(kind, page)
    PROVE  QueriesInv'
<1> DEFINE c == [kind |-> kind, at |-> "business", page |-> page, items |-> <<>>, total |-> 0]
<1>1. c \in Reads /\ c.at = "business" /\ c.page = page /\ c.kind = kind /\ c.items = <<>>
  <2>1. page \in Nat \ {0}
    BY SizesAssumption
  <2>2. QED
    BY <2>1 DEF Reads
<1>2. call' = c /\ (kind # "list" => page = 1) /\ answer' = NoAnswer /\ listed' = <<>>
      /\ shrunk' = FALSE /\ UNCHANGED <<book, scope, changes, business, references>>
  BY DEF Call
<1> HIDE DEF c
<1>3. TypeOK'
  <2>1. c.kind = "collect" => c.page <= MaxPages
    BY <1>1, SizesAssumption
  <2>2. call' \in Reads /\ listed' \in Seq(Rows) /\ shrunk' \in BOOLEAN
    <3>1. <<>> \in Seq(Rows)
      OBVIOUS
    <3>2. QED
      BY <1>1, <1>2, <3>1
  <2>3. QED
    BY <1>2, <2>1, <2>2 DEF QueriesInv, TypeOK
<1>4. ReferencesAreOwn'
  BY <1>2 DEF QueriesInv, ReferencesAreOwn, RowsOfBusiness
<1>5. CallsAreSound' /\ SummaryIsOfOneList'
  BY <1>1, <1>2, Calls DEF CallsAreSound, SummaryIsOfOneList
<1>6. AnswersAreRight'
  BY <1>2 DEF AnswersAreRight, SummaryIsRight, DetailIsOfTheLister, Given
<1>7. QED
  BY <1>3, <1>4, <1>5, <1>6 DEF QueriesInv

\* A call for a detail begins with the row it is about.
LEMMA DetailSound ==
    ASSUME QueriesInv, NEW row \in Rows, Detail(row)
    PROVE  QueriesInv'
<1> DEFINE c == [kind |-> "detail", at |-> "business", row |-> row]
<1>1. c \in Details /\ c.at = "business" /\ c.row = row
  BY DEF Details
<1>2. call' = c /\ answer' = NoAnswer
      /\ UNCHANGED <<book, scope, changes, business, references, listed, shrunk>>
  BY DEF Detail
<1> HIDE DEF c
<1>3. c \notin Reads
  BY <1>1, Calls
<1>4. TypeOK'
  BY <1>1, <1>2, <1>3 DEF QueriesInv, TypeOK
<1>5. ReferencesAreOwn'
  BY <1>2 DEF QueriesInv, ReferencesAreOwn, RowsOfBusiness
<1>6. CallsAreSound' /\ SummaryIsOfOneList'
  BY <1>1, <1>2, <1>3 DEF CallsAreSound, SummaryIsOfOneList
<1>7. AnswersAreRight'
  BY <1>2 DEF AnswersAreRight, SummaryIsRight, DetailIsOfTheLister, Given
<1>8. QED
  BY <1>4, <1>5, <1>6, <1>7 DEF QueriesInv

\* The references left by _business are those of the business of the login.
LEMMA ReferencesOfScope ==
    ASSUME QueriesInv
    PROVE  Bounded(References, RowsOf[scope])
<1>1. CASE scope = business
  BY <1>1 DEF QueriesInv, TypeOK, ReferencesAreOwn, RowsOfBusiness, References
<1>2. CASE scope # business
  BY <1>2, NothingRemembered DEF References
<1>3. QED
  BY <1>1, <1>2

\* A call works for the business that the login is for when it asks.
LEMMA BusinessSound ==
    ASSUME QueriesInv, Business
    PROVE  QueriesInv'
<1> USE DEF QueriesInv
<1>1. /\ call # Idle /\ call.at = "business" /\ answer = NoAnswer
      /\ scope \in Businesses /\ business' = scope /\ references' = References
      /\ UNCHANGED <<book, scope, changes, answer, listed, shrunk>>
  BY DEF Business, TypeOK, CallsAreSound
<1>2. Bounded(references', RowsOf[scope]) /\ RowsOfBusiness' = RowsOf[scope]
  BY <1>1, ReferencesOfScope DEF RowsOfBusiness
<1>3. ReferencesAreOwn'
  BY <1>2 DEF ReferencesAreOwn
<1>4. IsList(references', Rows) /\ Len(references') <= MaxReferences
  BY <1>1, <1>2, RowsCover DEF Bounded
<1>5. AnswersAreRight'
  BY <1>1 DEF AnswersAreRight, SummaryIsRight, DetailIsOfTheLister, Given
<1>6. CASE call \in Reads
  <2> DEFINE c == [call EXCEPT !.at = "page"]
  <2>1. call' = c
    BY <1>6, Calls DEF Business
  <2>2. /\ c \in Reads /\ c.at = "page" /\ c.kind = call.kind /\ c.page = call.page
        /\ c.items = call.items
    BY <1>6 DEF Reads
  <2> HIDE DEF c
  <2>3. TypeOK'
    BY <1>1, <1>4, <1>6, <2>1, <2>2 DEF TypeOK
  <2>4. CallsAreSound'
    BY <1>1, <2>1, <2>2, Calls DEF CallsAreSound
  <2>5. SummaryIsOfOneList'
    BY <1>1, <1>6, <2>1, <2>2 DEF SummaryIsOfOneList
  <2>6. QED
    BY <1>3, <1>5, <2>3, <2>4, <2>5
<1>7. CASE call \in Details
  <2> DEFINE c == [call EXCEPT !.at = "detail"]
  <2>1. call' = IF call.row \in ToSet(References) THEN c ELSE Idle
    BY <1>7, Calls DEF Business
  <2>2. c \in Details /\ c.at = "detail" /\ c.row = call.row
    BY <1>7 DEF Details
  <2> HIDE DEF c
  <2>3. call.row \in ToSet(References) => call.row \in RowsOf[scope]
    BY <1>1, <1>2 DEF Bounded, IsList, ToSet
  <2>4. call' \notin Reads
    BY <2>1, <2>2, Calls
  <2>5. TypeOK'
    BY <1>1, <1>4, <2>1, <2>2, <2>4 DEF TypeOK
  <2>6. CallsAreSound'
    BY <1>1, <2>1, <2>2, <2>3, Calls DEF CallsAreSound
  <2>7. SummaryIsOfOneList'
    BY <2>4 DEF SummaryIsOfOneList
  <2>8. QED
    BY <1>3, <1>5, <2>5, <2>6, <2>7
<1>8. QED
  BY <1>1, <1>6, <1>7 DEF TypeOK

\* A detail comes of a row of the business that asked.
LEMMA DetailReplySound ==
    ASSUME QueriesInv, DetailReply
    PROVE  QueriesInv'
<1> USE DEF QueriesInv
<1>1. call # Idle /\ call.at = "detail" /\ call \in Details /\ call.row \in RowsOf[business]
  BY Calls DEF DetailReply, TypeOK, CallsAreSound
<1>2. /\ call' = Idle /\ answer' = [kind |-> "detail", row |-> call.row, tin |-> business]
      /\ UNCHANGED <<book, scope, changes, business, references, listed, shrunk>>
  BY DEF DetailReply
<1>3. call' \notin Reads /\ call' \notin Details
  BY <1>2, Calls
<1>4. TypeOK'
  BY <1>2, <1>3 DEF TypeOK
<1>5. ReferencesAreOwn' /\ CallsAreSound' /\ SummaryIsOfOneList'
  BY <1>2, <1>3 DEF ReferencesAreOwn, RowsOfBusiness, CallsAreSound, SummaryIsOfOneList
<1>6. AnswersAreRight'
  <2>1. answer'.kind = "detail" /\ answer'.row = call.row /\ answer'.tin = business
    BY <1>2
  <2>2. QED
    BY <1>1, <1>2, <2>1 DEF AnswersAreRight, SummaryIsRight, DetailIsOfTheLister, Given
<1>7. QED
  BY <1>4, <1>5, <1>6

\* A failed call says nothing.
LEMMA FailSound ==
    ASSUME QueriesInv, Fail
    PROVE  QueriesInv'
<1> USE DEF QueriesInv
<1>1. /\ call' = Idle /\ answer' = NoAnswer
      /\ UNCHANGED <<book, scope, changes, business, references, listed, shrunk>>
  BY DEF Fail, CallsAreSound
<1>2. call' \notin Reads /\ call' \notin Details
  BY <1>1, Calls
<1>3. TypeOK'
  BY <1>1, <1>2 DEF TypeOK
<1>4. ReferencesAreOwn' /\ CallsAreSound' /\ SummaryIsOfOneList'
  BY <1>1, <1>2 DEF ReferencesAreOwn, RowsOfBusiness, CallsAreSound, SummaryIsOfOneList
<1>5. AnswersAreRight'
  BY <1>1 DEF AnswersAreRight, SummaryIsRight, DetailIsOfTheLister, Given
<1>6. QED
  BY <1>3, <1>4, <1>5

-----------------------------------------------------------------------------
(***************************************************************************)
(* Pages                                                                   *)
(***************************************************************************)
\* What every page brings, whoever reads it.
LEMMA ArrivedFacts ==
    ASSUME QueriesInv, Arrived
    PROVE  /\ call \in Reads /\ call.at = "page" /\ business \in Businesses /\ answer = NoAnswer
           /\ IsList(book[business], RowsOf[business])
           /\ book[business] \in Seq(Rows) /\ Len(book[business]) \in Nat
           /\ Items \in Seq(Rows)
           /\ Bounded(references', RowsOf[business])
           /\ IsList(references', Rows) /\ Len(references') <= MaxReferences
           /\ listed' \in Seq(Rows) /\ shrunk' \in BOOLEAN
           /\ listed' = (IF call.page = 1 THEN book[business] ELSE listed)
           /\ shrunk' = (IF call.page = 1 THEN FALSE ELSE shrunk)
           /\ UNCHANGED <<book, scope, changes, business>>
<1> USE DEF QueriesInv
<1>1. call # Idle /\ call.at = "page"
  BY DEF Arrived
<1>2. call \in Reads /\ business \in Businesses /\ answer = NoAnswer
  BY <1>1, Calls DEF TypeOK, CallsAreSound
<1>3. IsList(book[business], RowsOf[business]) /\ IsList(book[business], Rows)
  BY <1>2, RowsCover DEF TypeOK
<1>4. call.page \in Nat \ {0} /\ call.items \in Seq(Rows)
  BY <1>2, Calls
<1>5. /\ PageOf(book[business], call.page) \in Seq(RowsOf[business])
      /\ PageOf(book[business], call.page) \in Seq(Rows)
  BY <1>3, <1>4, PageFacts
<1>6. Items \in Seq(Rows)
  BY <1>4, <1>5, ConcatProperties DEF Items
<1>7. Bounded(references, RowsOf[business])
  BY <1>2 DEF ReferencesAreOwn, RowsOfBusiness
<1>8. Bounded(references', RowsOf[business])
  BY <1>5, <1>7, RememberAllBounded DEF Arrived
<1>9. IsList(references', Rows) /\ Len(references') <= MaxReferences
  BY <1>2, <1>8, RowsCover DEF Bounded
<1>10. book[business] \in Seq(Rows) /\ Len(book[business]) \in Nat
  BY <1>3 DEF IsList
<1>11. listed' \in Seq(Rows) /\ shrunk' \in BOOLEAN
  BY <1>10 DEF Arrived, TypeOK
<1>12. QED
  BY <1>1, <1>2, <1>3, <1>6, <1>8, <1>9, <1>10, <1>11 DEF Arrived

\* A call that ends with a page leaves everything but its answer right.
LEMMA EndSound ==
    ASSUME QueriesInv, Arrived, call' = Idle
    PROVE  TypeOK' /\ ReferencesAreOwn' /\ CallsAreSound' /\ SummaryIsOfOneList'
<1>1. call' \notin Reads /\ call' \notin Details /\ call' = Idle
  BY Calls
<1>2. TypeOK'
  BY <1>1, ArrivedFacts DEF QueriesInv, TypeOK
<1>3. ReferencesAreOwn'
  BY ArrivedFacts DEF ReferencesAreOwn, RowsOfBusiness
<1>4. QED
  BY <1>1, <1>2, <1>3 DEF CallsAreSound, SummaryIsOfOneList

\* A call that finds something wrong says nothing.
LEMMA RaiseSound ==
    ASSUME QueriesInv, Arrived, Raise
    PROVE  QueriesInv'
<1>1. call' = Idle /\ answer' = NoAnswer
  BY ArrivedFacts DEF Raise
<1>2. AnswersAreRight'
  BY <1>1 DEF AnswersAreRight, SummaryIsRight, DetailIsOfTheLister, Given
<1>3. QED
  BY <1>1, <1>2, EndSound DEF QueriesInv

\* What is given out is right when it is no summary, or right as one.
LEMMA GiveSound ==
    ASSUME QueriesInv, Arrived, Give,
           call.kind = "summary" => /\ IsInjective(Items)
                                    /\ Len(Items) = Len(book[business])
                                    /\ ~shrunk' => Items = listed'
    PROVE  QueriesInv'
<1>1. call' = Idle /\ answer'.kind = call.kind /\ answer'.items = Items
      /\ answer'.total = Len(book[business])
  BY DEF Give
<1>2. AnswersAreRight'
  <2>1. call.kind # "detail"
    BY ArrivedFacts, Calls
  <2>2. QED
    BY <1>1, <2>1 DEF AnswersAreRight, SummaryIsRight, DetailIsOfTheLister, Given
<1>3. QED
  BY <1>1, <1>2, EndSound DEF QueriesInv

\* A call that goes on has read one page more.
LEMMA OnwardFacts ==
    ASSUME QueriesInv, Arrived, NEW at \in {"business", "page"}, Onward(at)
    PROVE  /\ call' \in Reads /\ call'.at = at /\ call'.kind = call.kind
           /\ call'.page = call.page + 1 /\ call'.items = Items
           /\ call'.total = Len(book[business])
           /\ UNCHANGED answer
<1> DEFINE c == [call EXCEPT !.at = at, !.page = @ + 1, !.items = Items,
                             !.total = Len(book[business])]
<1>1. call \in Reads /\ Items \in Seq(Rows) /\ Len(book[business]) \in Nat
  BY ArrivedFacts
<1>2. call.page + 1 \in Nat \ {0}
  BY <1>1, Calls
<1>3. call' = c /\ UNCHANGED answer
  BY DEF Onward
<1>4. /\ c \in Reads /\ c.at = at /\ c.kind = call.kind
      /\ c.page = call.page + 1 /\ c.items = Items /\ c.total = Len(book[business])
  BY <1>1, <1>2 DEF Reads
<1>5. QED
  BY <1>3, <1>4

\* The next page is asked for, at most so many.
LEMMA OnwardSound ==
    ASSUME QueriesInv, Arrived, NEW at \in {"business", "page"}, Onward(at),
           call.kind = "collect" => call.page < MaxPages,
           SummaryIsOfOneList'
    PROVE  QueriesInv'
<1>1. call.page \in Nat \ {0} /\ MaxPages \in Nat
  BY ArrivedFacts, Calls, SizesAssumption
<1>2. TypeOK'
  <2>1. call' \in Reads /\ (call'.kind = "collect" => call'.page <= MaxPages)
    BY <1>1, OnwardFacts
  <2>2. UNCHANGED <<book, scope, changes, business>>
    BY ArrivedFacts
  <2>3. IsList(references', Rows) /\ Len(references') <= MaxReferences
    BY ArrivedFacts
  <2>4. listed' \in Seq(Rows) /\ shrunk' \in BOOLEAN
    BY ArrivedFacts
  <2>5. QED
    BY <2>1, <2>2, <2>3, <2>4 DEF QueriesInv, TypeOK
<1>3. ReferencesAreOwn'
  BY ArrivedFacts DEF ReferencesAreOwn, RowsOfBusiness
<1>4. CallsAreSound'
  BY ArrivedFacts, OnwardFacts, Calls DEF CallsAreSound
<1>5. AnswersAreRight'
  BY ArrivedFacts, OnwardFacts DEF AnswersAreRight, SummaryIsRight, DetailIsOfTheLister, Given
<1>6. QED
  BY <1>2, <1>3, <1>4, <1>5 DEF QueriesInv

\* A page of a list is given as it came.
LEMMA ListPageSound ==
    ASSUME QueriesInv, ListPage
    PROVE  QueriesInv'
BY GiveSound DEF ListPage

\* A page for the command line is put after the others.
LEMMA CollectPageSound ==
    ASSUME QueriesInv, CollectPage
    PROVE  QueriesInv'
<1>1. Arrived /\ call.kind = "collect"
  BY DEF CollectPage
<1>2. CASE Give
  BY <1>1, <1>2, GiveSound
<1>3. CASE Raise
  BY <1>1, <1>3, RaiseSound
<1>4. CASE Onward("business") /\ call.page # MaxPages
  <2>1. call \in Reads /\ call.page \in Nat /\ MaxPages \in Nat
    BY <1>1, ArrivedFacts, Calls, SizesAssumption
  <2>2. call.page < MaxPages
    BY <1>1, <1>4, <2>1 DEF QueriesInv, TypeOK
  <2>3. call'.kind = "collect"
    BY <1>1, <1>4, OnwardFacts
  <2>4. SummaryIsOfOneList'
    BY <2>3 DEF SummaryIsOfOneList
  <2>5. QED
    BY <1>1, <1>4, <2>2, <2>4, OnwardSound
<1>5. QED
  BY <1>2, <1>3, <1>4 DEF CollectPage

\* With each page a summary has the beginning of one list, up to that page.
LEMMA SummarySoFar ==
    ASSUME QueriesInv, Arrived, call.kind = "summary",
           call.page > 1 => SameList(Len(book[business]))
    PROVE  /\ IsInjective(Items)
           /\ Len(book[business]) = Len(listed')
           /\ ~shrunk' =>
                 /\ listed' = book[business]
                 /\ HasNext(book[business], call.page) =>
                       Items = SubSeq(book[business], 1, call.page * PageSize)
                 /\ ~HasNext(book[business], call.page) => Items = book[business]
<1> DEFINE list == book[business]
           n == call.page
           page == PageOf(list, n)
           a == (n - 1) * PageSize
<1>1. call \in Reads /\ n \in Nat \ {0} /\ call.items \in Seq(Rows) /\ call.at = "page"
  BY ArrivedFacts, Calls
<1>2. /\ IsList(list, Rows) /\ list \in Seq(Rows) /\ Len(list) \in Nat
      /\ page \in Seq(Rows) /\ IsInjective(page)
  BY <1>1, ArrivedFacts, RowsCover, PageFacts
<1>3. a \in Nat /\ (n = 1 => a = 0) /\ (n # 1 => n > 1)
  <2>1. n # 1 => n > 1
    BY <1>1
  <2>2. a \in Nat /\ (n = 1 => a = 0)
    BY <1>1, Sizes
  <2>3. QED
    BY <2>1, <2>2
<1>4. /\ listed' = (IF n = 1 THEN list ELSE listed)
      /\ shrunk' = (IF n = 1 THEN FALSE ELSE shrunk)
  BY ArrivedFacts
<1>5. Items = call.items \o page
  BY DEF Items
<1>6. /\ n = 1 => call.items = <<>>
      /\ n # 1 => /\ IsInjective(call.items)
                  /\ call.total = Len(listed)
                  /\ a < Len(listed)
                  /\ ~shrunk => /\ call.items = SubSeq(listed, 1, a)
                                /\ Len(list) = Len(listed) => list = listed
  BY <1>1 DEF QueriesInv, SummaryIsOfOneList, ReadSoFar
<1>7. n # 1 => Len(list) = call.total /\ ToSet(call.items) \cap ToSet(page) = {}
  BY <1>3 DEF SameList
<1>8. ASSUME HasNext(list, n) => SubSeq(list, 1, a) \o page = SubSeq(list, 1, n * PageSize),
             ~HasNext(list, n) => SubSeq(list, 1, a) \o page = list,
             call.items = SubSeq(list, 1, a)
      PROVE  /\ HasNext(list, n) => Items = SubSeq(list, 1, n * PageSize)
             /\ ~HasNext(list, n) => Items = list
  BY <1>5, <1>8
<1>9. a <= Len(list) => /\ HasNext(list, n) => SubSeq(list, 1, a) \o page = SubSeq(list, 1, n * PageSize)
                        /\ ~HasNext(list, n) => SubSeq(list, 1, a) \o page = list
  BY <1>1, <1>2, PagesJoin
<1>10. <<>> = SubSeq(list, 1, 0) /\ <<>> \in Seq(Rows) /\ IsInjective(<<>>) /\ ToSet(<<>>) = {}
  <2>1. SubSeq(list, 1, 0) \in Seq(Rows) /\ Len(SubSeq(list, 1, 0)) = 0
    BY <1>2, SubSeqProperties
  <2>2. <<>> \in Seq(Rows) /\ IsInjective(<<>>) /\ ToSet(<<>>) = {}
    BY DEF IsInjective, ToSet
  <2>3. QED
    BY <2>1, <2>2
<1> HIDE DEF list, n, page, a
<1>11. IsInjective(Items)
  <2>1. IsInjective(call.items) /\ ToSet(call.items) \cap ToSet(page) = {}
    BY <1>6, <1>7, <1>10
  <2>2. QED
    BY <1>1, <1>2, <1>5, <2>1, Joined
<1>12. Len(list) = Len(listed')
  BY <1>4, <1>6, <1>7
<1>13. ~shrunk' => listed' = list /\ a <= Len(list) /\ call.items = SubSeq(list, 1, a)
  <2>1. CASE n = 1
    <3>1. a = 0 /\ listed' = list /\ call.items = SubSeq(list, 1, 0)
      BY <1>3, <1>4, <1>6, <1>10, <2>1
    <3>2. 0 <= Len(list)
      BY <1>2
    <3>3. QED
      BY <3>1, <3>2
  <2>2. CASE n # 1
    <3>1. Len(list) = Len(listed) /\ a < Len(listed) /\ a \in Nat /\ Len(list) \in Nat
      BY <1>2, <1>3, <1>6, <1>7, <2>2
    <3>2. ~shrunk' => listed' = list /\ list = listed /\ call.items = SubSeq(listed, 1, a)
      BY <1>4, <1>6, <2>2, <3>1
    <3>3. QED
      BY <3>1, <3>2
  <2>3. QED
    BY <2>1, <2>2
<1>14. QED
  BY <1>8, <1>9, <1>11, <1>12, <1>13 DEF list, n, page, a

\* A page for a summary is put after the others if it is of the same list.
LEMMA SummaryPageSound ==
    ASSUME QueriesInv, SummaryPage
    PROVE  QueriesInv'
<1> DEFINE list == book[business]
<1>1. Arrived /\ call.kind = "summary"
  BY DEF SummaryPage
<1>2. CASE Raise
  BY <1>1, <1>2, RaiseSound
<1>3. CASE Give /\ ~HasNext(list, call.page) /\ Len(Items) = Len(list)
           /\ (call.page > 1 => SameList(Len(list)))
  <2>1. IsInjective(Items) /\ (~shrunk' => Items = listed')
    BY <1>1, <1>3, SummarySoFar
  <2>2. QED
    BY <1>1, <1>3, <2>1, GiveSound
<1>4. CASE Onward("page") /\ HasNext(list, call.page)
           /\ (call.page > 1 => SameList(Len(list)))
  <2>1. /\ IsInjective(Items) /\ Len(list) = Len(listed')
        /\ ~shrunk' => listed' = list /\ Items = SubSeq(list, 1, call.page * PageSize)
    BY <1>1, <1>4, SummarySoFar
  <2>2. /\ call'.at = "page" /\ call'.kind = "summary" /\ call'.page = call.page + 1
        /\ call'.items = Items /\ call'.total = Len(list)
    BY <1>1, <1>4, OnwardFacts
  <2>3. call.page \in Nat \ {0} /\ Len(list) \in Nat /\ book' = book /\ business' = business
    BY <1>1, ArrivedFacts, Calls
  <2>4. call'.page # 1 /\ ReadSoFar' = call.page * PageSize
    <3>1. call.page + 1 # 1 /\ (call.page + 1) - 1 = call.page
      BY <2>3
    <3>2. QED
      BY <2>2, <3>1 DEF ReadSoFar
  <2>5. call.page * PageSize < Len(list)
    BY <1>4 DEF HasNext
  <2> HIDE DEF list
  <2>6. list = book'[business']
    BY <2>3 DEF list
  <2>7. SummaryIsOfOneList'
    BY <2>1, <2>2, <2>3, <2>4, <2>5, <2>6 DEF SummaryIsOfOneList
  <2>8. QED
    BY <1>1, <1>4, <2>7, OnwardSound
<1>5. QED
  BY <1>2, <1>3, <1>4 DEF SummaryPage

-----------------------------------------------------------------------------
(***************************************************************************)
(* HomeTax and others                                                      *)
(***************************************************************************)
LEMMA OthersFacts ==
    ASSUME QueriesInv, Others
    PROVE  /\ changes' \in 0 .. MaxChanges
           /\ UNCHANGED <<business, references, call, answer, listed>>
           /\ ReferencesAreOwn' /\ CallsAreSound'
<1>1. /\ changes' \in 0 .. MaxChanges
      /\ UNCHANGED <<business, references, call, answer, listed>>
  BY SizesAssumption DEF Others, QueriesInv, TypeOK
<1>2. ReferencesAreOwn' /\ CallsAreSound'
  BY <1>1 DEF QueriesInv, ReferencesAreOwn, RowsOfBusiness, CallsAreSound
<1>3. QED
  BY <1>1, <1>2

\* An invoice of others changes what is there, not what was read.
LEMMA IssuedSound ==
    ASSUME QueriesInv, NEW b \in Businesses, Issued(b)
    PROVE  QueriesInv'
<1>1. Others /\ UNCHANGED <<scope, shrunk>>
  BY DEF Issued
<1>2. PICK row \in RowsOf[b] \ ToSet(book[b]), i \in 1 .. Len(book[b]) + 1 :
         book' = [book EXCEPT ![b] = InsertAt(@, i, row)]
  BY DEF Issued
<1>3. book \in [Businesses -> Seq(Rows)] /\ IsList(book[b], RowsOf[b])
  BY DEF QueriesInv, TypeOK
<1>4. /\ book'[b] = InsertAt(book[b], i, row)
      /\ \A c \in Businesses \ {b} : book'[c] = book[c]
  BY <1>2, <1>3
<1>5. IsList(book'[b], RowsOf[b]) /\ Len(book'[b]) = Len(book[b]) + 1 /\ Len(book[b]) \in Nat
  <2>1. Len(book[b]) \in Nat
    BY <1>3 DEF IsList
  <2>2. QED
    BY <1>3, <1>4, <2>1, Inserted
<1>6. book' \in [Businesses -> Seq(Rows)]
  <2>1. book'[b] \in Seq(Rows)
    BY <1>5, RowsCover DEF IsList
  <2>2. QED
    BY <1>2, <1>3, <1>4, <2>1
<1>7. TypeOK'
  BY <1>1, <1>4, <1>5, <1>6, OthersFacts DEF QueriesInv, TypeOK
<1>8. SummaryIsOfOneList'
  <2> SUFFICES ASSUME call \in Reads, call.kind = "summary", call.page # 1, ~shrunk
               PROVE  /\ Len(book'[business]) >= Len(listed)
                      /\ Len(book'[business]) = Len(listed) => book'[business] = listed
    BY <1>1, OthersFacts DEF QueriesInv, SummaryIsOfOneList, ReadSoFar
  <2>1. /\ Len(book[business]) >= Len(listed) /\ business \in Businesses
        /\ Len(book[business]) = Len(listed) => book[business] = listed
    BY Calls DEF QueriesInv, SummaryIsOfOneList, CallsAreSound
  <2>2. Len(listed) \in Nat
    BY DEF QueriesInv, TypeOK
  <2>3. CASE b = business
    BY <1>5, <2>1, <2>2, <2>3
  <2>4. CASE b # business
    BY <1>4, <2>1, <2>4
  <2>5. QED
    BY <2>3, <2>4
<1>9. AnswersAreRight'
  BY <1>1, OthersFacts DEF QueriesInv, AnswersAreRight, SummaryIsRight, DetailIsOfTheLister, Given
<1>10. QED
  BY <1>1, <1>7, <1>8, <1>9, OthersFacts DEF QueriesInv

\* So does one that goes.
LEMMA GoneSound ==
    ASSUME QueriesInv, NEW b \in Businesses, Gone(b)
    PROVE  QueriesInv'
<1>1. Others /\ scope' = scope /\ shrunk' = (shrunk \/ b = business)
  BY DEF Gone
<1>2. PICK i \in 1 .. Len(book[b]) : book' = [book EXCEPT ![b] = RemoveAt(@, i)]
  BY DEF Gone
<1>3. book \in [Businesses -> Seq(Rows)] /\ IsList(book[b], RowsOf[b])
  BY DEF QueriesInv, TypeOK
<1>4. /\ book'[b] = RemoveAt(book[b], i)
      /\ \A c \in Businesses \ {b} : book'[c] = book[c]
  BY <1>2, <1>3
<1>5. IsList(book'[b], RowsOf[b])
  BY <1>3, <1>4, Removed
<1>6. book' \in [Businesses -> Seq(Rows)]
  <2>1. book'[b] \in Seq(Rows)
    BY <1>5, RowsCover DEF IsList
  <2>2. QED
    BY <1>2, <1>3, <1>4, <2>1
<1>7. TypeOK'
  BY <1>1, <1>4, <1>5, <1>6, OthersFacts DEF QueriesInv, TypeOK
<1>8. SummaryIsOfOneList'
  <2> SUFFICES ASSUME call \in Reads, call.kind = "summary", call.page # 1, ~shrunk'
               PROVE  /\ Len(book'[business]) >= Len(listed)
                      /\ Len(book'[business]) = Len(listed) => book'[business] = listed
                      /\ ~shrunk
    BY <1>1, OthersFacts DEF QueriesInv, SummaryIsOfOneList, ReadSoFar
  <2>1. /\ Len(book[business]) >= Len(listed) /\ business \in Businesses
        /\ Len(book[business]) = Len(listed) => book[business] = listed
    BY <1>1, Calls DEF QueriesInv, SummaryIsOfOneList, CallsAreSound
  <2>2. ~shrunk /\ book'[business] = book[business]
    BY <1>1, <1>4, <2>1
  <2>3. QED
    BY <2>1, <2>2
<1>9. AnswersAreRight'
  BY <1>1, OthersFacts DEF QueriesInv, AnswersAreRight, SummaryIsRight, DetailIsOfTheLister, Given
<1>10. QED
  BY <1>1, <1>7, <1>8, <1>9, OthersFacts DEF QueriesInv

\* So does a login for another business.
LEMMA SwitchSound ==
    ASSUME QueriesInv, NEW b \in Businesses, Switch(b)
    PROVE  QueriesInv'
<1>1. Others /\ scope' = b /\ UNCHANGED <<book, shrunk>>
  BY DEF Switch
<1>2. TypeOK'
  BY <1>1, OthersFacts DEF QueriesInv, TypeOK
<1>3. SummaryIsOfOneList' /\ AnswersAreRight'
  BY <1>1, OthersFacts DEF QueriesInv, SummaryIsOfOneList, ReadSoFar, AnswersAreRight,
                           SummaryIsRight, DetailIsOfTheLister, Given
<1>4. QED
  BY <1>1, <1>2, <1>3, OthersFacts DEF QueriesInv

-----------------------------------------------------------------------------
\* What is known of the calls holds at every step.
LEMMA NextSound == QueriesInv /\ [Next]_vars => QueriesInv'
<1> SUFFICES ASSUME QueriesInv, [Next]_vars PROVE QueriesInv'
  OBVIOUS
<1>1. CASE \E kind \in {"list", "summary", "collect"}, page \in 1 .. MaxPages : Call(kind, page)
  BY <1>1, CallSound
<1>2. CASE \E row \in Rows : Detail(row)
  BY <1>2, DetailSound
<1>3. CASE Business
  BY <1>3, BusinessSound
<1>4. CASE DetailReply
  BY <1>4, DetailReplySound
<1>5. CASE ListPage
  BY <1>5, ListPageSound
<1>6. CASE SummaryPage
  BY <1>6, SummaryPageSound
<1>7. CASE CollectPage
  BY <1>7, CollectPageSound
<1>8. CASE Fail
  BY <1>8, FailSound
<1>9. CASE \E b \in Businesses : Issued(b) \/ Gone(b) \/ Switch(b)
  BY <1>9, IssuedSound, GoneSound, SwitchSound
<1>10. CASE UNCHANGED vars
  BY <1>10 DEF vars, QueriesInv, TypeOK, ReferencesAreOwn, RowsOfBusiness, CallsAreSound,
               SummaryIsOfOneList, ReadSoFar, AnswersAreRight, SummaryIsRight,
               DetailIsOfTheLister, Given
<1>11. QED
  BY <1>1, <1>2, <1>3, <1>4, <1>5, <1>6, <1>7, <1>8, <1>9, <1>10 DEF Next

\* The invariant behind the three theorems.
LEMMA QueriesInvHolds == Spec => []QueriesInv
BY InitSound, NextSound, PTL DEF Spec

\* The references stay a bounded list of distinct invoices and each call what its step
\* needs (invoices.py:201-266, 361-365), however lists change.
THEOREM TypeOKHolds == Spec => []TypeOK
<1>1. QueriesInv => TypeOK
  BY DEF QueriesInv
<1>2. QED
  BY <1>1, QueriesInvHolds, PTL

\* A summary counts each invoice once and as many as HomeTax says there are, and unless a
\* row went while it was read it is the list as it was at the first page
\* (invoices.py:380-411), for any size of a page and any number of changes.
THEOREM SummaryIsRightHolds == Spec => []SummaryIsRight
<1>1. QueriesInv => SummaryIsRight
  BY DEF QueriesInv, AnswersAreRight
<1>2. QED
  BY <1>1, QueriesInvHolds, PTL

\* A detail is asked for with the business in whose list the invoice was shown
\* (invoices.py:243-246, 413-422), whatever the login is switched to.
THEOREM DetailIsOfTheListerHolds == Spec => []DetailIsOfTheLister
<1>1. QueriesInv => DetailIsOfTheLister
  BY DEF QueriesInv, AnswersAreRight
<1>2. QED
  BY <1>1, QueriesInvHolds, PTL
=============================================================================
