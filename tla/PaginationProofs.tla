--------------------------- MODULE PaginationProofs ---------------------------
(***************************************************************************)
(* Proofs about Pagination and DataList, for all rows, page numbers, sizes *)
(* and columns: the numbers of a page belong to its rows, the links of the *)
(* pager lead to rows and to all of them, and every row of a page gets its *)
(* cell.                                                                   *)
(***************************************************************************)
EXTENDS Pagination, SequenceTheorems, FunctionTheorems, FiniteSetTheorems, TLAPS

\* What a page is at each stage of its progress.
Stated ==
    /\ progress = "idle" => kind = NoValue /\ links = {} /\ ~linked /\ walk = NoValue
    /\ progress # "idle" => kind \in Kinds /\ number \in Numbers /\ size \in Sizes
    /\ progress = "counted" => kind = "lazy"
    /\ doRefresh => progress = "built"

\* What has been read, and of which rows.
Read ==
    /\ counted \in Seq(Ids) /\ Len(counted) <= MaxRows
    /\ queried \in Seq(Ids) /\ Len(queried) <= MaxRows
    /\ progress \in {"counted", "executed", "shown"} => totalItems = Len(counted)
    /\ progress \in {"executed", "shown"} /\ ~Overflows =>
        results = Take(Skip(queried, (number - 1) * size), size)

\* Links are those of a page shown whose numbers are those of the rows; a page
\* reached by one begins before the last row.
Linked ==
    /\ links # {} => progress = "shown" /\ links = PagerLinks /\ Coherent /\ number <= TotalPages
    /\ linked => /\ progress # "idle" /\ (number - 1) * size < Len(rows)
                 /\ progress \in {"executed", "shown"} => queried = rows

\* The rows seen are those up to this page, with it when it is shown.
Walked ==
    walk # NoValue =>
        /\ number = 1 \/ (number - 1) * size < Len(rows)
        /\ walk = Take(rows, (IF progress = "shown" THEN number ELSE number - 1) * size)
        /\ progress = "shown" => Coherent

\* The cells are those of the page's rows.
Laid ==
    progress = "shown" =>
        \E columns \in Columns :
            cells = IF down THEN RenderVertical(results, RepeatColumns(columns))
                            ELSE RenderHorizontal(results, RepeatColumns(columns))

IInv == PagingTypeOK /\ Stated /\ Read /\ Linked /\ Walked /\ Laid

-----------------------------------------------------------------------------
(* Arithmetic.                                                             *)

LEMMA Constants ==
    /\ MaxInt \in Nat /\ MaxRows \in Nat /\ MaxRows <= MaxInt
    /\ \A n \in Numbers : n \in Nat /\ n >= 1
    /\ \A s \in Sizes : s \in Nat /\ s >= 1 /\ s <= MaxInt
BY PaginationAssumption

\* An int that fits is itself.
LEMMA Fits ==
    ASSUME NEW i \in Int, -(MaxInt + 1) <= i, i <= MaxInt
    PROVE  Wrap(i) = i
<1>1. PICK h \in Nat : h = MaxInt + 1 /\ h > 0
  BY PaginationAssumption
<1>2. (i + h) % (2 * h) = i + h
  <2>1. i + h \in 0..(2 * h - 1)
    BY <1>1, PaginationAssumption
  <2>2. \A x, m \in Nat : x < m => x % m = x
    OBVIOUS
  <2> QED BY <2>1, <2>2, <1>1
<1> QED BY <1>1, <1>2 DEF Wrap

LEMMA WrapInt == ASSUME NEW i \in Int PROVE Wrap(i) \in Int
BY PaginationAssumption DEF Wrap

LEMMA Grows ==
    ASSUME NEW a \in Nat, NEW b \in Nat, NEW s \in Nat, a <= b
    PROVE  a * s \in Nat /\ a * s <= b * s
OBVIOUS

\* The number of pages of s items that hold t items.
Ceil(t, s) == (t \div s) + (IF t % s > 0 THEN 1 ELSE 0)

LEMMA Ceiling ==
    ASSUME NEW t \in Nat, NEW s \in Nat, s >= 1
    PROVE  /\ Ceil(t, s) \in Nat
           /\ \A n \in Nat : n < Ceil(t, s) <=> n * s < t
           /\ Ceil(t, s) <= t
<1> DEFINE p == Ceil(t, s)
           q == t \div s
           r == t % s
<1>1. q \in Nat /\ r \in 0..(s - 1) /\ t = q * s + r
  OBVIOUS
<1>2. p = q + (IF r > 0 THEN 1 ELSE 0)
  BY DEF Ceil
<1> HIDE DEF p, q, r
<1>3. ASSUME NEW n \in Nat PROVE n < p <=> n * s < t
  <2>1. CASE n < q
    <3>1. (n + 1) * s <= q * s /\ (n + 1) * s = n * s + s
      BY <2>1, <1>1, Grows
    <3>2. n * s \in Nat /\ q * s \in Nat
      BY <1>1, Grows
    <3> QED BY <3>1, <3>2, <2>1, <1>1, <1>2
  <2>2. CASE n = q
    BY <2>2, <1>1, <1>2
  <2>3. CASE n > q
    <3>1. (q + 1) * s <= n * s /\ (q + 1) * s = q * s + s
      BY <2>3, <1>1, Grows
    <3>2. n * s \in Nat /\ q * s \in Nat
      BY <1>1, Grows
    <3> QED BY <3>1, <3>2, <2>3, <1>1, <1>2
  <2> QED BY <2>1, <2>2, <2>3, <1>1
<1>4. p <= t
  <2>1. q * s >= q /\ q * s \in Nat
    BY <1>1
  <2>2. CASE r = 0
    BY <2>1, <2>2, <1>1, <1>2
  <2>3. CASE r > 0
    BY <2>1, <2>3, <1>1, <1>2
  <2> QED BY <2>2, <2>3, <1>1
<1>5. p \in Nat
  BY <1>1, <1>2
<1> QED BY <1>3, <1>4, <1>5 DEF p

-----------------------------------------------------------------------------
(* Parts of a sequence.                                                    *)

LEMMA Part ==
    ASSUME NEW s \in Seq(Ids), NEW a \in Int, a >= 1, NEW b \in Int, b <= Len(s)
    PROVE  /\ SubSeq(s, a, b) \in Seq(Ids)
           /\ Len(SubSeq(s, a, b)) = IF a <= b THEN b - a + 1 ELSE 0
           /\ \A i \in 1 .. b - a + 1 : SubSeq(s, a, b)[i] = s[a + i - 1]
<1>1. \A i \in a..b : s[i] \in Ids
  BY ElementOfSeq, LenProperties
<1> QED BY <1>1, SubSeqProperties

LEMMA SkipIs ==
    ASSUME NEW s \in Seq(Ids), NEW k \in Int
    PROVE  /\ Skip(s, k) \in Seq(Ids)
           /\ k >= 0 => /\ Len(Skip(s, k)) = IF k < Len(s) THEN Len(s) - k ELSE 0
                        /\ \A i \in 1 .. Len(s) - k : Skip(s, k)[i] = s[k + i]
<1>1. Len(s) \in Nat
  BY LenProperties
<1>2. CASE k <= 0
  BY <1>1, <1>2 DEF Skip
<1>3. CASE k > 0
  <2>1. /\ SubSeq(s, k + 1, Len(s)) \in Seq(Ids)
        /\ Len(SubSeq(s, k + 1, Len(s))) = IF k + 1 <= Len(s) THEN Len(s) - (k + 1) + 1 ELSE 0
        /\ \A i \in 1 .. Len(s) - (k + 1) + 1 :
               SubSeq(s, k + 1, Len(s))[i] = s[(k + 1) + i - 1]
    BY <1>1, <1>3, Part
  <2> QED BY <1>1, <1>3, <2>1 DEF Skip
<1> QED BY <1>2, <1>3

LEMMA TakeIs ==
    ASSUME NEW s \in Seq(Ids), NEW n \in Nat
    PROVE  /\ Take(s, n) \in Seq(Ids)
           /\ Len(Take(s, n)) = IF n < Len(s) THEN n ELSE Len(s)
           /\ \A i \in 1 .. Len(Take(s, n)) : Take(s, n)[i] = s[i]
<1> DEFINE b == IF n < Len(s) THEN n ELSE Len(s)
<1>1. Len(s) \in Nat /\ b \in Nat /\ b <= Len(s)
  BY LenProperties
<1>2. /\ SubSeq(s, 1, b) \in Seq(Ids)
      /\ Len(SubSeq(s, 1, b)) = IF 1 <= b THEN b - 1 + 1 ELSE 0
      /\ \A i \in 1 .. b - 1 + 1 : SubSeq(s, 1, b)[i] = s[1 + i - 1]
  <2> HIDE DEF b
  <2> QED BY <1>1, Part
<1>3. Take(s, n) = SubSeq(s, 1, b)
  BY DEF Take
<1> HIDE DEF b
<1>4. Len(Take(s, n)) = b
  BY <1>1, <1>2, <1>3
<1>5. \A i \in 1 .. Len(Take(s, n)) : Take(s, n)[i] = s[i]
  BY <1>1, <1>2, <1>3, <1>4
<1> QED BY <1>2, <1>3, <1>4, <1>5 DEF b

\* The page of n items after k is a part of the sequence.
LEMMA Slice ==
    ASSUME NEW s \in Seq(Ids), NEW k \in Nat, NEW n \in Nat
    PROVE  LET page_ == Take(Skip(s, k), n) IN
           /\ page_ \in Seq(Ids)
           /\ Len(page_) = IF k >= Len(s) THEN 0 ELSE IF n < Len(s) - k THEN n ELSE Len(s) - k
           /\ \A i \in 1 .. Len(page_) : page_[i] = s[k + i]
           /\ page_ = SubSeq(s, k + 1, k + Len(page_))
<1> DEFINE p == Take(Skip(s, k), n)
<1>1. Len(s) \in Nat
  BY LenProperties
<1>2. /\ Skip(s, k) \in Seq(Ids)
      /\ Len(Skip(s, k)) = IF k < Len(s) THEN Len(s) - k ELSE 0
      /\ \A i \in 1 .. Len(s) - k : Skip(s, k)[i] = s[k + i]
  <2>1. k \in Int /\ k >= 0
    OBVIOUS
  <2> QED BY <2>1, SkipIs
<1>3. /\ p \in Seq(Ids)
      /\ Len(p) = IF n < Len(Skip(s, k)) THEN n ELSE Len(Skip(s, k))
      /\ \A i \in 1 .. Len(p) : p[i] = Skip(s, k)[i]
  BY <1>2, TakeIs
<1> HIDE DEF p
<1>4. Len(p) = IF k >= Len(s) THEN 0 ELSE IF n < Len(s) - k THEN n ELSE Len(s) - k
  BY <1>1, <1>2, <1>3
<1>5. \A i \in 1 .. Len(p) : p[i] = s[k + i]
  BY <1>1, <1>2, <1>3, <1>4
<1>6. p = SubSeq(s, k + 1, k + Len(p))
  <2>1. CASE Len(p) = 0
    <3>1. p = << >>
      BY <1>3, <2>1, EmptySeq
    <3>2. SubSeq(s, k + 1, k + Len(p)) = << >>
      BY <2>1, SubSeqEmpty
    <3> QED BY <3>1, <3>2
  <2>2. CASE Len(p) # 0
    <3>1. Len(p) \in Nat /\ k + Len(p) <= Len(s) /\ Len(p) >= 1
      BY <1>1, <1>4, <2>2
    <3>2. /\ SubSeq(s, k + 1, k + Len(p)) \in Seq(Ids)
          /\ Len(SubSeq(s, k + 1, k + Len(p))) =
                IF k + 1 <= k + Len(p) THEN k + Len(p) - (k + 1) + 1 ELSE 0
          /\ \A i \in 1 .. k + Len(p) - (k + 1) + 1 :
                SubSeq(s, k + 1, k + Len(p))[i] = s[(k + 1) + i - 1]
      BY <3>1, Part
    <3>3. Len(SubSeq(s, k + 1, k + Len(p))) = Len(p)
      BY <3>1, <3>2
    <3>4. \A i \in 1 .. Len(p) : p[i] = SubSeq(s, k + 1, k + Len(p))[i]
      BY <3>1, <3>2, <1>5
    <3> QED BY <1>3, <3>2, <3>3, <3>4, SeqEqual
  <2> QED BY <2>1, <2>2
<1> QED BY <1>3, <1>4, <1>5, <1>6 DEF p

\* The first k items and the page after them are the first k + n.
LEMMA TakeOn ==
    ASSUME NEW s \in Seq(Ids), NEW k \in Nat, NEW n \in Nat
    PROVE  Take(s, k) \o Take(Skip(s, k), n) = Take(s, k + n)
<1> DEFINE a == Take(s, k)
           p == Take(Skip(s, k), n)
           t == Take(s, k + n)
<1>1. Len(s) \in Nat
  BY LenProperties
<1>2. /\ a \in Seq(Ids)
      /\ Len(a) = IF k < Len(s) THEN k ELSE Len(s)
      /\ \A i \in 1 .. Len(a) : a[i] = s[i]
  BY TakeIs
<1>3. /\ p \in Seq(Ids)
      /\ Len(p) = IF k >= Len(s) THEN 0 ELSE IF n < Len(s) - k THEN n ELSE Len(s) - k
      /\ \A i \in 1 .. Len(p) : p[i] = s[k + i]
  BY Slice
<1>4. /\ t \in Seq(Ids)
      /\ Len(t) = IF k + n < Len(s) THEN k + n ELSE Len(s)
      /\ \A i \in 1 .. Len(t) : t[i] = s[i]
  BY TakeIs
<1> HIDE DEF a, p, t
<1>5. /\ a \o p \in Seq(Ids)
      /\ Len(a \o p) = Len(a) + Len(p)
      /\ \A i \in 1 .. Len(a) + Len(p) : (a \o p)[i] = IF i <= Len(a) THEN a[i] ELSE p[i - Len(a)]
  <2>1. a \in Seq(Ids) /\ p \in Seq(Ids)
    BY <1>2, <1>3
  <2> QED BY <2>1, ConcatProperties
<1>6. Len(a) \in Nat /\ Len(p) \in Nat /\ Len(t) \in Nat /\ Len(a) + Len(p) = Len(t)
  <2>1. Len(a) = (IF k < Len(s) THEN k ELSE Len(s))
        /\ Len(p) = (IF k >= Len(s) THEN 0 ELSE IF n < Len(s) - k THEN n ELSE Len(s) - k)
        /\ Len(t) = (IF k + n < Len(s) THEN k + n ELSE Len(s))
    BY <1>2, <1>3, <1>4
  <2>2. CASE k >= Len(s)
    BY <1>1, <2>1, <2>2
  <2>3. CASE k < Len(s) /\ n < Len(s) - k
    BY <1>1, <2>1, <2>3
  <2>4. CASE k < Len(s) /\ ~(n < Len(s) - k)
    BY <1>1, <2>1, <2>4
  <2> QED BY <1>1, <2>2, <2>3, <2>4
<1>7. Len(p) # 0 => Len(a) = k
  BY <1>1, <1>2, <1>3
<1>8. \A i \in 1 .. Len(t) : (a \o p)[i] = t[i]
  <2>1. ASSUME NEW i \in 1 .. Len(t) PROVE (a \o p)[i] = t[i]
    <3>1. CASE i <= Len(a)
      <4>1. (a \o p)[i] = a[i]
        BY <3>1, <1>5, <1>6
      <4>2. a[i] = s[i] /\ t[i] = s[i]
        BY <3>1, <1>2, <1>4, <1>6
      <4> QED BY <4>1, <4>2
    <3>2. CASE i > Len(a)
      <4>1. (a \o p)[i] = p[i - Len(a)] /\ i - Len(a) \in 1 .. Len(p)
        BY <3>2, <1>5, <1>6
      <4>2. PICK j \in 1 .. Len(p) : j = i - Len(a)
        BY <4>1
      <4>3. p[j] = s[k + j]
        BY <1>3
      <4>4. Len(a) = k /\ k + j = i
        BY <4>2, <1>6, <1>7
      <4> QED BY <4>1, <4>2, <4>3, <4>4, <1>4
    <3> QED BY <3>1, <3>2, <1>6
  <2> QED BY <2>1
<1>9. a \o p = t
  BY <1>4, <1>5, <1>6, <1>8, SeqEqual
<1> QED BY <1>9 DEF a, p, t

\* An item more or less.
LEMMA Inserted ==
    ASSUME NEW s \in Seq(Ids), NEW p \in 1 .. Len(s) + 1, NEW i \in Ids
    PROVE  InsertAt(s, p, i) \in Seq(Ids) /\ Len(InsertAt(s, p, i)) = Len(s) + 1
<1>1. Len(s) \in Nat
  BY LenProperties
<1>2. /\ SubSeq(s, 1, p - 1) \in Seq(Ids) /\ Len(SubSeq(s, 1, p - 1)) = p - 1
      /\ SubSeq(s, p, Len(s)) \in Seq(Ids) /\ Len(SubSeq(s, p, Len(s))) = Len(s) - p + 1
  BY <1>1, Part
<1>3. <<i>> \in Seq(Ids) /\ Len(<<i>>) = 1
  OBVIOUS
<1> DEFINE a == SubSeq(s, 1, p - 1)
           b == SubSeq(s, p, Len(s))
<1> HIDE DEF a, b
<1>4. a \o <<i>> \in Seq(Ids) /\ Len(a \o <<i>>) = p
  <2>1. a \in Seq(Ids) /\ Len(a) = p - 1
    BY <1>2 DEF a
  <2>2. a \o <<i>> \in Seq(Ids) /\ Len(a \o <<i>>) = Len(a) + Len(<<i>>)
    BY <2>1, <1>3, ConcatProperties
  <2> QED BY <2>1, <2>2, <1>1, <1>3
<1>5. b \in Seq(Ids) /\ Len(b) = Len(s) - p + 1
  BY <1>2 DEF b
<1>6. (a \o <<i>>) \o b \in Seq(Ids) /\ Len((a \o <<i>>) \o b) = Len(a \o <<i>>) + Len(b)
  BY <1>4, <1>5, ConcatProperties
<1>7. InsertAt(s, p, i) = (a \o <<i>>) \o b
  BY DEF InsertAt, a, b
<1>8. p + (Len(s) - p + 1) = Len(s) + 1
  BY <1>1
<1> QED BY <1>4, <1>5, <1>6, <1>7, <1>8

LEMMA Removed ==
    ASSUME NEW s \in Seq(Ids), NEW p \in 1 .. Len(s)
    PROVE  RemoveAt(s, p) \in Seq(Ids) /\ Len(RemoveAt(s, p)) = Len(s) - 1
<1>1. Len(s) \in Nat
  BY LenProperties
<1>2. /\ SubSeq(s, 1, p - 1) \in Seq(Ids) /\ Len(SubSeq(s, 1, p - 1)) = p - 1
      /\ SubSeq(s, p + 1, Len(s)) \in Seq(Ids) /\ Len(SubSeq(s, p + 1, Len(s))) = Len(s) - p
  BY <1>1, Part
<1> DEFINE a == SubSeq(s, 1, p - 1)
           b == SubSeq(s, p + 1, Len(s))
<1> HIDE DEF a, b
<1>3. a \in Seq(Ids) /\ Len(a) = p - 1 /\ b \in Seq(Ids) /\ Len(b) = Len(s) - p
  BY <1>2 DEF a, b
<1>4. a \o b \in Seq(Ids) /\ Len(a \o b) = Len(a) + Len(b)
  BY <1>3, ConcatProperties
<1>5. RemoveAt(s, p) = a \o b
  BY DEF RemoveAt, a, b
<1>6. (p - 1) + (Len(s) - p) = Len(s) - 1
  BY <1>1
<1> QED BY <1>3, <1>4, <1>5, <1>6

-----------------------------------------------------------------------------
(* Pages.                                                                  *)

\* The numbers of a page that has been asked for.
LEMMA PageNumbers ==
    ASSUME PagingTypeOK, Stated, progress # "idle"
    PROVE  /\ number \in Nat /\ number >= 1 /\ size \in Nat /\ size >= 1
           /\ (number - 1) * size \in Nat /\ number * size \in Nat
           /\ number * size = (number - 1) * size + size
<1>1. number \in Nat /\ number >= 1 /\ size \in Nat /\ size >= 1
  BY Constants DEF Stated
<1>2. PICK k \in Nat : k = number - 1
  BY <1>1
<1>3. k * size \in Nat /\ (k + 1) * size = k * size + size
  BY <1>1, <1>2
<1> QED BY <1>1, <1>2, <1>3

\* The pages that are counted for the rows.
LEMMA Pages ==
    ASSUME PagingTypeOK, Stated, progress # "idle"
    PROVE  /\ TotalPages \in Nat
           /\ \A n \in Nat : n < TotalPages <=> n * size < totalItems
           /\ TotalPages <= totalItems
<1>1. totalItems \in Nat /\ size \in Nat /\ size >= 1
  BY PageNumbers DEF PagingTypeOK
<1>2. TotalPages = Ceil(totalItems, size)
  BY DEF TotalPages, Ceil
<1> QED BY <1>1, <1>2, Ceiling

\* What a query returns is a page of the rows there are.
LEMMA Reads ==
    ASSUME NEW s \in Seq(Ids), NEW k \in Int, NEW n \in Nat
    PROVE  /\ Take(Skip(s, k), n) \in Seq(Ids)
           /\ Len(Take(Skip(s, k), n)) <= n
<1>1. Skip(s, k) \in Seq(Ids) /\ Len(Skip(s, k)) \in Nat
  BY SkipIs, LenProperties
<1> QED BY <1>1, TakeIs

\* An offset that fits is the one computed.
LEMMA Offset ==
    ASSUME PagingTypeOK, Stated, progress # "idle", (number - 1) * size <= MaxInt
    PROVE  NumberToSkip(number, size) = (number - 1) * size
<1>1. (number - 1) * size \in Nat
  BY PageNumbers
<1> QED BY <1>1, Fits, Constants DEF NumberToSkip

-----------------------------------------------------------------------------
(* The strengthening holds at first and is kept.                           *)

LEMMA InitHolds == PagingInit => IInv
<1> SUFFICES ASSUME PagingInit PROVE IInv
  OBVIOUS
<1> USE DEF PagingInit
<1>1. rows \in Seq(Ids) /\ Len(rows) <= MaxRows
  BY PaginationAssumption
<1>2. << >> \in Seq(Ids) /\ Len(<< >>) = 0
  BY EmptySeq
<1>3. PagingTypeOK
  <2>1. links \subseteq 1..MaxRows /\ changes \in 0..MaxChanges /\ totalItems \in Nat
    BY PaginationAssumption
  <2>2. kind \in Kinds \cup {NoValue} /\ number \in Numbers \cup {NoValue} /\ size \in Sizes \cup {NoValue}
    OBVIOUS
  <2>3. doRefresh \in BOOLEAN /\ down \in BOOLEAN /\ blank \in BOOLEAN /\ linked \in BOOLEAN /\ ~doRefresh
    OBVIOUS
  <2>4. progress = "idle" /\ results = NoValue
    OBVIOUS
  <2> QED BY <1>1, <2>1, <2>2, <2>3, <2>4 DEF PagingTypeOK
<1>4. Stated
  BY PaginationAssumption DEF Stated
<1>5. Read
  BY <1>2, Constants DEF Read
<1>6. Linked /\ Walked /\ Laid
  BY DEF Linked, Walked, Laid
<1> QED BY <1>3, <1>4, <1>5, <1>6 DEF IInv

\* Whether a page overflows depends on its number and size only.
LEMMA SamePage ==
    ASSUME UNCHANGED <<number, size>>
    PROVE  Overflows' <=> Overflows
BY DEF Overflows

\* The pages linked to depend on its number, size and total only.
LEMMA SamePager ==
    ASSUME UNCHANGED <<number, size, totalItems>>
    PROVE  TotalPages' = TotalPages /\ PagerLinks' = PagerLinks
BY DEF TotalPages, PagerLinks, HasPreviousPage, HasNextPage

\* What a link says of the page it leads to.
LEMMA LinkLeads ==
    ASSUME IInv, NEW n \in links
    PROVE  n \in Nat /\ n >= 1 /\ progress = "shown" /\ (n - 1) * size < Len(rows)
<1>1. progress = "shown" /\ n \in PagerLinks /\ counted = rows /\ number <= TotalPages
  BY DEF IInv, Linked, Coherent
<1>2. totalItems = Len(rows)
  BY <1>1 DEF IInv, Read
<1>3. number \in Nat /\ number >= 1 /\ TotalPages \in Nat
  BY <1>1, PageNumbers, Pages DEF IInv
<1>4. n \in Nat /\ n >= 1 /\ n <= TotalPages
  BY <1>1, <1>3 DEF PagerLinks, HasPreviousPage, HasNextPage
<1>5. PICK m \in Nat : m = n - 1 /\ m < TotalPages
  BY <1>3, <1>4
<1>6. m * size < totalItems
  BY <1>1, <1>5, Pages DEF IInv
<1> QED BY <1>1, <1>2, <1>4, <1>5, <1>6

\* Only a page that is shown has links.
LEMMA Unshown ==
    ASSUME IInv, progress # "shown" PROVE links = {}
BY DEF IInv, Linked

LEMMA RequestKeeps ==
    ASSUME IInv, NEW k \in Kinds, NEW n \in Numbers, NEW s \in Sizes, Request(k, n, s)
    PROVE  IInv'
<1> USE DEF Request
<1>1. /\ n \in Nat /\ n >= 1 /\ s \in Nat /\ s >= 1
      /\ rows \in Seq(Ids) /\ Len(rows) \in Nat /\ Len(rows) <= MaxRows
  BY Constants, LenProperties DEF IInv, PagingTypeOK
<1>2. PICK m \in Nat : m = n - 1
  BY <1>1
<1>3. m * s \in Int
  BY <1>1, <1>2
<1>4. PageOf(n, s) \in Seq(Ids) /\ Len(PageOf(n, s)) <= s
  BY <1>1, <1>2, <1>3, Reads DEF PageOf
<1>5. << >> \in Seq(Ids) /\ Len(<< >>) = 0 /\ 0 <= MaxRows
  BY EmptySeq, Constants
<1>6. PagingTypeOK'
  <2>1. rows' = rows /\ changes' = changes /\ kind' = k /\ number' = n /\ size' = s
        /\ links' = {} /\ down' = FALSE /\ blank' = FALSE /\ doRefresh' = (k = "delegate")
    OBVIOUS
  <2>2. linked' \in BOOLEAN
    OBVIOUS
  <2>3. CASE k = "custom"
    <3>1. progress' = "executed" /\ results' = PageOf(n, s) /\ totalItems' = Len(rows)
      BY <2>3
    <3>2. results' # NoValue
      BY <3>1, <1>4, PaginationAssumption
    <3> QED BY <2>1, <2>2, <2>3, <3>1, <3>2, <1>1, <1>4 DEF IInv, PagingTypeOK
  <2>4. CASE k # "custom"
    <3>1. progress' = "built" /\ results' = NoValue /\ totalItems' = 0
      BY <2>4
    <3> QED BY <2>1, <2>2, <3>1, <1>1 DEF IInv, PagingTypeOK
  <2> QED BY <2>3, <2>4
<1>7. Stated'
  <2>1. progress' \in {"executed", "built"} /\ kind' = k /\ number' = n /\ size' = s
        /\ doRefresh' = (k = "delegate") /\ (k # "custom" => progress' = "built")
    OBVIOUS
  <2> QED BY <2>1 DEF Stated
<1>8. Read'
  <2>1. CASE k = "custom"
    <3>1. /\ progress' = "executed" /\ counted' = rows /\ queried' = rows
          /\ totalItems' = Len(rows) /\ results' = PageOf(n, s) /\ number' = n /\ size' = s
      BY <2>1
    <3> QED BY <3>1, <1>1 DEF Read, PageOf
  <2>2. CASE k # "custom"
    <3>1. progress' = "built" /\ counted' = << >> /\ queried' = << >>
      BY <2>2
    <3> QED BY <3>1, <1>5 DEF Read
  <2> QED BY <2>1, <2>2
<1>9. Linked'
  <2>1. /\ links' = {} /\ linked' = (s = size /\ n \in links) /\ rows' = rows
        /\ number' = n /\ size' = s /\ progress' \in {"executed", "built"}
        /\ progress' = "executed" => queried' = rows
    OBVIOUS
  <2>2. s = size /\ n \in links => (n - 1) * s < Len(rows)
    BY LinkLeads
  <2> QED BY <2>1, <2>2 DEF Linked
<1>10. Walked'
  <2>1. rows' = rows /\ number' = n /\ size' = s /\ progress' \in {"executed", "built"}
    OBVIOUS
  <2>2. CASE n = 1
    <3>1. walk' = << >> /\ (n - 1) * s = 0
      BY <2>2, <1>1
    <3>2. Take(rows, 0) = << >>
      BY <1>1, TakeIs, EmptySeq
    <3> QED BY <2>1, <2>2, <3>1, <3>2 DEF Walked
  <2>3. CASE n # 1 /\ s = size /\ n \in links /\ n = number + 1
    <3>1. walk' = walk
      BY <2>3
    <3>2. progress = "shown" /\ (n - 1) * s < Len(rows)
      BY <2>3, LinkLeads
    <3>3. walk # NoValue => walk = Take(rows, number * size)
      BY <3>2 DEF IInv, Walked
    <3>4. n - 1 = number
      BY <2>3, <3>2, PageNumbers DEF IInv
    <3> QED BY <2>1, <2>3, <3>1, <3>2, <3>3, <3>4 DEF Walked
  <2>4. CASE n # 1 /\ ~(s = size /\ n \in links /\ n = number + 1)
    BY <2>4 DEF Walked
  <2> QED BY <2>2, <2>3, <2>4
<1>11. Laid'
  BY DEF Laid
<1> QED BY <1>6, <1>7, <1>8, <1>9, <1>10, <1>11 DEF IInv

LEMMA CountKeeps == ASSUME IInv, Count PROVE IInv'
<1> USE DEF Count
<1>1. rows \in Seq(Ids) /\ Len(rows) \in Nat /\ Len(rows) <= MaxRows
  BY LenProperties DEF IInv, PagingTypeOK
<1>2. PagingTypeOK'
  BY <1>1 DEF IInv, PagingTypeOK
<1>3. Stated'
  BY DEF IInv, Stated, PagingTypeOK
<1>4. Read'
  BY <1>1 DEF IInv, Read
<1>5. links' = {} /\ progress' = "counted" /\ progress = "built"
  BY Unshown
<1>6. Linked' /\ Walked' /\ Laid'
  BY <1>5 DEF IInv, Linked, Walked, Laid
<1> QED BY <1>2, <1>3, <1>4, <1>6 DEF IInv

LEMMA ExecuteQueryThrowsKeeps == ASSUME IInv, ExecuteQueryThrows PROVE IInv'
<1> USE DEF ExecuteQueryThrows, history
<1>1. links' = {} /\ progress = "counted" /\ progress' = "built"
  BY Unshown
<1>2. PagingTypeOK'
  BY <1>1 DEF IInv, PagingTypeOK, Stated
<1>3. Stated' /\ Read'
  BY <1>1 DEF IInv, Stated, Read
<1>4. Linked' /\ Walked' /\ Laid'
  BY <1>1 DEF IInv, Linked, Walked, Laid
<1> QED BY <1>2, <1>3, <1>4 DEF IInv

\* The rows of a page have been read, at k.
LEMMA Queried ==
    ASSUME IInv, progress \in {"built", "counted"}, NEW k \in Int,
           k = (number - 1) * size \/ Overflows,
           results' = Take(Skip(rows, k), size), queried' = rows, progress' = "executed",
           ~doRefresh', counted' \in {counted, rows},
           counted' = rows \/ progress = "counted", doRefresh' \in BOOLEAN,
           totalItems' = IF counted' = rows THEN Len(rows) ELSE totalItems,
           UNCHANGED <<rows, changes, kind, number, size, cells, down, blank, links, linked, walk>>
    PROVE  IInv'
<1>1. rows \in Seq(Ids) /\ Len(rows) \in Nat /\ Len(rows) <= MaxRows
  BY LenProperties DEF IInv, PagingTypeOK
<1>2. kind \in Kinds /\ number \in Numbers /\ size \in Sizes /\ size \in Nat /\ links' = {}
  BY Constants, Unshown DEF IInv, Stated
<1>3. results' \in Seq(Ids) /\ Len(results') <= size /\ results' # NoValue
  <2>1. Take(Skip(rows, k), size) \in Seq(Ids) /\ Len(Take(Skip(rows, k), size)) <= size
    BY <1>1, <1>2, Reads
  <2> QED BY <2>1, PaginationAssumption
<1>4. totalItems' \in Nat /\ totalItems' = Len(counted')
  BY <1>1 DEF IInv, PagingTypeOK, Read
<1>5. PagingTypeOK'
  BY <1>2, <1>3, <1>4 DEF IInv, PagingTypeOK
<1>6. Stated'
  BY <1>2 DEF Stated
<1>7. Read'
  <2>1. counted' \in Seq(Ids) /\ Len(counted') <= MaxRows
    BY <1>1 DEF IInv, Read
  <2>2. ~Overflows' => k = (number - 1) * size
    BY DEF Overflows
  <2> QED BY <1>1, <1>4, <2>1, <2>2 DEF Read
<1>8. Linked' /\ Walked' /\ Laid'
  BY <1>2 DEF IInv, Linked, Walked, Laid
<1> QED BY <1>5, <1>6, <1>7, <1>8 DEF IInv

LEMMA ExecuteQueryKeeps == ASSUME IInv, ExecuteQuery PROVE IInv'
<1> USE DEF ExecuteQuery
<1>1. /\ number \in Nat /\ size \in Nat /\ (number - 1) * size \in Nat
      /\ NumberToSkip(number, size) \in Int
  BY PageNumbers, WrapInt DEF IInv, NumberToSkip
<1>2. ~Overflows => NumberToSkip(number, size) = (number - 1) * size
  BY <1>1, Constants, Offset DEF IInv, Overflows
<1>3. ~doRefresh
  BY DEF IInv, Stated
<1>4. totalItems' = IF counted' = rows THEN Len(rows) ELSE totalItems
  BY DEF IInv, Read
<1>5. NumberToSkip(number, size) = (number - 1) * size \/ Overflows
  BY <1>2
<1>6. doRefresh' = doRefresh /\ doRefresh \in BOOLEAN
  BY DEF IInv, PagingTypeOK
<1> QED BY <1>1, <1>3, <1>4, <1>5, <1>6, Queried

LEMMA DoQueryKeeps == ASSUME IInv, DoQuery PROVE IInv'
<1> USE DEF DoQuery
<1>1. progress = "built" /\ (number - 1) * size \in Int
  BY PageNumbers DEF IInv, Stated
<1>2. results' = Take(Skip(rows, (number - 1) * size), size)
  BY DEF PageOf
<1> QED BY <1>1, <1>2, Queried

LEMMA RefreshKeeps ==
    ASSUME IInv, kind = "delegate", Refresh,
           NEW n \in Numbers, NEW s \in Sizes, number' = n, size' = s,
           linked' = FALSE, walk' = NoValue, links' = {}
    PROVE  IInv'
<1> USE DEF Refresh
<1>1. kind \in Kinds
  BY PaginationAssumption DEF IInv, Stated
<1>2. PagingTypeOK'
  BY DEF IInv, PagingTypeOK
<1>3. Stated'
  BY <1>1 DEF Stated
<1>4. Read'
  BY DEF IInv, Read
<1>5. Linked' /\ Walked' /\ Laid'
  BY DEF Linked, Walked, Laid
<1> QED BY <1>2, <1>3, <1>4, <1>5 DEF IInv

LEMMA SetPageNumberKeeps ==
    ASSUME IInv, NEW n \in Numbers, SetPageNumber(n) PROVE IInv'
<1>1. size \in Sizes
  BY PaginationAssumption DEF IInv, Stated, SetPageNumber
<1> QED BY <1>1, RefreshKeeps DEF SetPageNumber

LEMMA SetPageSizeKeeps ==
    ASSUME IInv, NEW s \in Sizes, SetPageSize(s) PROVE IInv'
<1>1. number \in Numbers
  BY PaginationAssumption DEF IInv, Stated, SetPageSize
<1> QED BY <1>1, RefreshKeeps DEF SetPageSize

LEMMA ChangeKeeps ==
    ASSUME IInv, NEW i \in Ids, NEW p \in 1..MaxRows, Change(i, p) PROVE IInv'
<1> USE DEF Change, page
<1>1. rows \in Seq(Ids) /\ Len(rows) \in Nat /\ Len(rows) <= MaxRows /\ DOMAIN rows = 1..Len(rows)
  BY LenProperties DEF IInv, PagingTypeOK
<1>2. rows' \in Seq(Ids) /\ Len(rows') <= MaxRows
  <2>1. CASE InsertRow(i, p)
    <3>1. p \in 1..Len(rows) + 1 /\ Len(rows) < MaxRows /\ rows' = InsertAt(rows, p, i)
      BY <2>1 DEF InsertRow
    <3>2. rows' \in Seq(Ids) /\ Len(rows') = Len(rows) + 1
      BY <1>1, <3>1, Inserted
    <3> QED BY <1>1, <3>1, <3>2, Constants
  <2>2. CASE RemoveRow(p)
    <3>1. p \in 1..Len(rows) /\ rows' = RemoveAt(rows, p)
      BY <1>1, <2>2 DEF RemoveRow
    <3>2. rows' \in Seq(Ids) /\ Len(rows') = Len(rows) - 1
      BY <1>1, <3>1, Removed
    <3> QED BY <1>1, <3>1, <3>2, Constants
  <2> QED BY <2>1, <2>2
<1>3. changes' \in 0..MaxChanges
  BY PaginationAssumption DEF IInv, PagingTypeOK
<1>4. PagingTypeOK'
  BY <1>2, <1>3 DEF IInv, PagingTypeOK
<1>5. Stated'
  BY DEF IInv, Stated
<1>6. Read'
  BY SamePage DEF IInv, Read
<1>7. Linked' /\ Walked'
  BY DEF Linked, Walked
<1>8. Laid'
  BY DEF IInv, Laid
<1> QED BY <1>4, <1>5, <1>6, <1>7, <1>8 DEF IInv

LEMMA ShowPagerFirstKeeps ==
    ASSUME IInv, ShowPagerFirst PROVE IInv'
<1> USE DEF ShowPagerFirst, history
<1>1. PagingTypeOK' /\ Stated'
  BY DEF IInv, PagingTypeOK, Stated
<1>2. Read'
  BY SamePage DEF IInv, Read
<1>3. Linked' /\ Walked'
  BY SamePager DEF IInv, Linked, Walked, Coherent
<1>4. Laid'
  BY DEF IInv, Laid
<1> QED BY <1>1, <1>2, <1>3, <1>4 DEF IInv

LEMMA ShowKeeps ==
    ASSUME IInv, NEW vertical \in BOOLEAN, NEW columns \in Columns, Show(vertical, columns)
    PROVE  IInv'
<1> USE DEF Show
<1>1. /\ rows \in Seq(Ids) /\ Len(rows) \in Nat /\ Len(rows) <= MaxRows
      /\ number \in Nat /\ number >= 1 /\ size \in Nat /\ size >= 1
      /\ (number - 1) * size \in Nat /\ number * size = (number - 1) * size + size
  BY LenProperties, PageNumbers DEF IInv, PagingTypeOK
<1>2. links' \subseteq 1..MaxRows
  <2>1. CASE Coherent /\ number <= TotalPages
    <3>1. TotalPages \in Nat /\ TotalPages <= MaxRows
      BY <1>1, <2>1, Pages, Constants DEF IInv, PagingTypeOK, Read, Coherent
    <3>2. PagerLinks \subseteq 1..MaxRows
      BY <1>1, <2>1, <3>1, Constants DEF PagerLinks, HasPreviousPage, HasNextPage
    <3> QED BY <2>1, <3>2
  <2>2. CASE ~(Coherent /\ number <= TotalPages)
    BY <2>2
  <2> QED BY <2>1, <2>2
<1>3. PagingTypeOK'
  <2>1. down' \in BOOLEAN /\ progress' = "shown" /\ progress = "executed"
    OBVIOUS
  <2> QED BY <1>2, <2>1 DEF IInv, PagingTypeOK
<1>4. Stated'
  BY DEF IInv, Stated
<1>5. Read'
  BY SamePage DEF IInv, Read
<1>6. Coherent' <=> Coherent
  BY DEF Coherent
<1>7. Linked'
  <2>1. links' # {} => links' = PagerLinks' /\ Coherent' /\ number' <= TotalPages'
    BY <1>6, SamePager
  <2>2. linked' => (number' - 1) * size' < Len(rows') /\ queried' = rows'
    BY DEF IInv, Linked
  <2> QED BY <2>1, <2>2 DEF Linked
<1>8. Walked'
  <2>1. SUFFICES ASSUME walk # NoValue, Coherent
                 PROVE  Walked'
    BY DEF Walked
  <2> DEFINE k == (number - 1) * size
  <2>2. (number = 1 \/ k < Len(rows)) /\ walk = Take(rows, k) /\ k \in Nat
    BY <1>1, <2>1 DEF IInv, Walked
  <2>3. k <= MaxInt
    BY <1>1, <2>2, Constants
  <2>4. results = Take(Skip(rows, k), size)
    <3>1. CASE Overflows
      <4>1. k + 1 > MaxInt
        BY <3>1 DEF Overflows
      <4>2. size <= MaxInt
        BY Constants DEF IInv, Stated
      <4>3. number = 1 => k = 0
        BY <1>1
      <4> QED BY <4>1, <4>2, <4>3, <2>2, <1>1, Constants
    <3>2. CASE ~Overflows
      BY <3>2, <2>1 DEF IInv, Read, Coherent
    <3> QED BY <3>1, <3>2
  <2> HIDE DEF k
  <2>5. walk \o results = Take(rows, k + size)
    BY <1>1, <2>2, <2>4, TakeOn
  <2>6. walk' = Take(rows, number * size)
    BY <1>1, <2>1, <2>5 DEF k
  <2> QED BY <1>6, <2>1, <2>2, <2>6 DEF Walked, k
<1>9. Laid'
  BY DEF Laid
<1> QED BY <1>3, <1>4, <1>5, <1>7, <1>8, <1>9 DEF IInv

LEMMA NextKeeps == IInv /\ [PagingNext]_pagingVars => IInv'
<1> SUFFICES ASSUME IInv, [PagingNext]_pagingVars PROVE IInv'
  OBVIOUS
<1>1. CASE PagingNext
  BY <1>1, RequestKeeps, CountKeeps, ExecuteQueryKeeps, ExecuteQueryThrowsKeeps, DoQueryKeeps,
     SetPageNumberKeeps, SetPageSizeKeeps, ShowPagerFirstKeeps, ShowKeeps, ChangeKeeps DEF PagingNext
<1>2. CASE UNCHANGED pagingVars
  <2> USE <1>2 DEF pagingVars, page, history
  <2>1. PagingTypeOK' /\ Stated'
    BY DEF IInv, PagingTypeOK, Stated
  <2>2. Read'
    BY SamePage DEF IInv, Read
  <2>3. Linked'
    BY SamePager DEF IInv, Linked, Coherent
  <2>4. Walked' /\ Laid'
    BY DEF IInv, Walked, Laid, Coherent
  <2> QED BY <2>1, <2>2, <2>3, <2>4 DEF IInv
<1> QED BY <1>1, <1>2

LEMMA Invariance == PagingSpec => []IInv
BY InitHolds, NextKeeps, PTL DEF PagingSpec

\* The variables of a paged list keep their types; in particular the rows of a
\* page that has been read are there, and no more than its size
\* (LazyPagination.cs:56-74, DelegatePagination.cs:81-108).
THEOREM TypeCorrect == PagingSpec => []PagingTypeOK
<1>1. IInv => PagingTypeOK
  BY DEF IInv
<1> QED BY <1>1, Invariance, PTL

-----------------------------------------------------------------------------
(* The numbers of a page.                                                  *)

LEMMA SlicesHold == IInv => PageIsSlice
<1> SUFFICES ASSUME IInv, progress = "shown", ~Overflows
             PROVE  /\ totalItems = Len(counted)
                    /\ results # << >> => LastItem <= Len(queried)
                    /\ results = SubSeq(queried, FirstItem, LastItem)
                    /\ counted = queried /\ number < TotalPages => Len(results) = size
  BY DEF PageIsSlice
<1> DEFINE k == (number - 1) * size
<1>1. /\ number \in Nat /\ number >= 1 /\ size \in Nat /\ size >= 1
      /\ k \in Nat /\ number * size = k + size
  BY PageNumbers DEF IInv
<1>2. /\ totalItems = Len(counted) /\ results = Take(Skip(queried, k), size)
      /\ queried \in Seq(Ids) /\ Len(queried) \in Nat /\ Len(queried) <= MaxRows
  BY LenProperties DEF IInv, Read
<1>3. k + 1 <= MaxInt
  BY <1>1, Constants DEF Overflows
<1>4. FirstItem = k + 1
  <2>1. NumberToSkip(number, size) = k
    BY <1>1, <1>3, Offset, Constants DEF IInv
  <2> QED BY <1>1, <1>3, <2>1, Fits, Constants DEF FirstItem
<1> HIDE DEF k
<1>5. /\ results \in Seq(Ids) /\ Len(results) \in Nat
      /\ Len(results) = IF k >= Len(queried) THEN 0
                        ELSE IF size < Len(queried) - k THEN size ELSE Len(queried) - k
      /\ results = SubSeq(queried, k + 1, k + Len(results))
  BY <1>1, <1>2, Slice, LenProperties
<1>6. k + Len(results) <= MaxInt
  BY <1>1, <1>2, <1>3, <1>5, Constants
<1>7. LastItem = k + Len(results)
  <2>1. k \in Nat /\ Len(results) \in Nat
    BY <1>1, <1>5
  <2>2. FirstItem + Len(results) - 1 = k + Len(results) /\ k + Len(results) \in Nat
    BY <1>4, <2>1
  <2> QED BY <1>6, <2>2, Fits, Constants DEF LastItem
<1>8. results # << >> => LastItem <= Len(queried)
  BY <1>1, <1>2, <1>5, <1>7, EmptySeq
<1>9. counted = queried /\ number < TotalPages => Len(results) = size
  <2>1. number < TotalPages => number * size < totalItems
    BY <1>1, Pages DEF IInv
  <2> QED BY <1>1, <1>2, <1>5, <2>1
<1> QED BY <1>2, <1>4, <1>5, <1>7, <1>8, <1>9

\* The numbers shown belong to the rows shown, whichever implementation read
\* them and however number and size were set before (LazyPagination.cs:56-110).
THEOREM NumbersBelongToRows == PagingSpec => []PageIsSlice
BY SlicesHold, Invariance, PTL

-----------------------------------------------------------------------------
(* The links.                                                              *)

LEMMA WalksSeeAll == IInv => WalkSeesAll
<1> SUFFICES ASSUME IInv, progress = "shown", ~blank, walk # NoValue, number + 1 \notin PagerLinks
             PROVE  walk = rows
  BY DEF WalkSeesAll
<1>1. /\ number \in Nat /\ number >= 1 /\ size \in Nat /\ size >= 1
      /\ (number - 1) * size \in Nat /\ number * size \in Nat
      /\ number * size = (number - 1) * size + size
  BY PageNumbers DEF IInv
<1>2. /\ counted = rows /\ walk = Take(rows, number * size)
      /\ number = 1 \/ (number - 1) * size < Len(rows)
  BY DEF IInv, Walked, Coherent
<1>3. rows \in Seq(Ids) /\ Len(rows) \in Nat /\ totalItems = Len(rows)
  BY <1>2, LenProperties DEF IInv, PagingTypeOK, Read
<1>4. TotalPages \in Nat /\ \A n \in Nat : n < TotalPages <=> n * size < totalItems
  BY Pages DEF IInv
<1>5. Len(rows) <= number * size
  <2>1. CASE totalItems = 0
    BY <1>1, <1>3, <2>1
  <2>2. CASE totalItems # 0 /\ TotalPages <= 1
    <3>1. 1 * size = size /\ ~(1 < TotalPages)
      BY <1>1, <1>4, <2>2
    <3>2. ~(1 * size < totalItems)
      BY <1>4, <3>1
    <3> QED BY <1>1, <1>3, <3>1, <3>2
  <2>3. CASE totalItems # 0 /\ TotalPages > 1
    <3>1. ~HasNextPage
      BY <1>1, <1>4, <2>3 DEF PagerLinks
    <3>2. ~(number * size < totalItems)
      BY <1>1, <1>4, <3>1 DEF HasNextPage
    <3> QED BY <1>1, <1>3, <3>2
  <2> QED BY <1>4, <2>1, <2>2, <2>3
<1>6. \A i \in 1..Len(rows) : Take(rows, number * size)[i] = rows[i]
  BY <1>1, <1>3, <1>5, TakeIs
<1>7. Take(rows, number * size) \in Seq(Ids) /\ Len(Take(rows, number * size)) = Len(rows)
  BY <1>1, <1>3, <1>5, TakeIs
<1> QED BY <1>2, <1>3, <1>6, <1>7, SeqEqual

LEMMA LinksLead == IInv => LinksLeadToRows
<1> SUFFICES ASSUME IInv, progress = "shown", linked PROVE results # << >>
  BY DEF LinksLeadToRows
<1> DEFINE k == (number - 1) * size
<1>1. number \in Nat /\ size \in Nat /\ size >= 1 /\ k \in Nat
  BY PageNumbers DEF IInv
<1>2. rows \in Seq(Ids) /\ Len(rows) \in Nat /\ Len(rows) <= MaxRows
  BY LenProperties DEF IInv, PagingTypeOK
<1>3. k < Len(rows) /\ queried = rows
  BY DEF IInv, Linked
<1>4. results = Take(Skip(rows, k), size)
  BY <1>1, <1>2, <1>3, Constants DEF IInv, Read, Overflows
<1> HIDE DEF k
<1>5. Len(results) # 0
  <2>1. Len(results) = IF k >= Len(rows) THEN 0
                       ELSE IF size < Len(rows) - k THEN size ELSE Len(rows) - k
    BY <1>1, <1>2, <1>4, Slice
  <2> QED BY <1>1, <1>2, <1>3, <2>1
<1> QED BY <1>5, EmptySeq

\* While the rows stay the same, who follows next from page 1 has seen every row
\* once and in order when there is no next page, and no link of the pager leads
\* to a page without rows (Pager.cs:128-220, LazyPagination.cs:90-120).  A pager
\* that was written before the query of a DelegatePagination was made is excepted.
THEOREM LinksReachAllRows == PagingSpec => []LinksReachRows
<1>1. IInv => LinksReachRows
  BY WalksSeeAll, LinksLead DEF LinksReachRows
<1> QED BY <1>1, Invariance, PTL

-----------------------------------------------------------------------------
(* The cells.                                                              *)

\* A set numbered from 0 has as many elements as numbers.
LEMMA Counted ==
    ASSUME NEW S, NEW m \in Nat, NEW f \in [S -> 0..(m - 1)],
           \A a, b \in S : f[a] = f[b] => a = b,
           \A i \in 0..(m - 1) : \E a \in S : f[a] = i
    PROVE  Cardinality(S) = m
<1>1. f \in Surjection(S, 0..(m - 1))
  BY DEF Surjection
<1>2. f \in Bijection(S, 0..(m - 1))
  <2>1. f \in Injection(S, 0..(m - 1))
    BY DEF Injection, IsInjective
  <2> QED BY <1>1, <2>1 DEF Bijection
<1>3. ExistsBijection(0..(m - 1), S)
  BY <1>2, Fun_ExistsBij, Fun_ExistsBijSymmetric
<1>4. IsFiniteSet(0..(m - 1)) /\ Cardinality(0..(m - 1)) = m
  <2>1. 0 \in Int /\ m - 1 \in Int
    OBVIOUS
  <2>2. /\ IsFiniteSet(0..(m - 1))
        /\ Cardinality(0..(m - 1)) = IF 0 > m - 1 THEN 0 ELSE (m - 1) - 0 + 1
    BY <2>1, FS_Interval
  <2> QED BY <2>2
<1> QED BY <1>3, <1>4, FS_Bijection

\* Numbered in some order, the number of an element counts those before it.
LEMMA Ranks ==
    ASSUME NEW H, NEW n \in Nat, NEW f \in [H -> 0..(n - 1)],
           \A a, b \in H : f[a] = f[b] => a = b,
           \A i \in 0..(n - 1) : \E a \in H : f[a] = i
    PROVE  /\ Cardinality(H) = n
           /\ \A c \in H : Cardinality({b \in H : f[b] < f[c]}) = f[c]
<1>1. Cardinality(H) = n
  BY Counted
<1>2. ASSUME NEW c \in H PROVE Cardinality({b \in H : f[b] < f[c]}) = f[c]
  <2> DEFINE S == {b \in H : f[b] < f[c]}
             g == [b \in S |-> f[b]]
  <2>1. f[c] \in Nat /\ f[c] \in 0..(n - 1)
    OBVIOUS
  <2>2. \A b \in S : f[b] \in 0..(f[c] - 1)
    BY <2>1
  <2>3. g \in [S -> 0..(f[c] - 1)]
    BY <2>2
  <2>4. \A a, b \in S : g[a] = g[b] => a = b
    OBVIOUS
  <2>5. ASSUME NEW i \in 0..(f[c] - 1) PROVE \E a \in S : g[a] = i
    <3>1. i \in 0..(n - 1) /\ i < f[c]
      BY <2>1
    <3>2. PICK a \in H : f[a] = i
      BY <3>1
    <3> QED BY <3>1, <3>2
  <2> HIDE DEF g, S
  <2>6. Cardinality(S) = f[c]
    BY <2>1, <2>3, <2>4, <2>5, Counted
  <2> QED BY <2>6 DEF S
<1> QED BY <1>1, <1>2

\* Row by row, cells of earlier rows come first, those of a row from the left.
LEMMA RowByRow ==
    ASSUME NEW C \in Nat, NEW r \in Nat, NEW q \in Nat, NEW c \in 0..(C - 1), NEW d \in 0..(C - 1)
    PROVE  /\ r * C + c \in Nat
           /\ r * C + c < q * C + d <=> r < q \/ (r = q /\ c < d)
<1>1. r * C \in Nat /\ q * C \in Nat
  BY Grows
<1>2. CASE r < q
  <2>1. (r + 1) * C <= q * C /\ (r + 1) * C = r * C + C
    BY <1>2, Grows
  <2> QED BY <1>1, <1>2, <2>1
<1>3. CASE r = q
  BY <1>1, <1>3
<1>4. CASE r > q
  <2>1. (q + 1) * C <= r * C /\ (q + 1) * C = q * C + C
    BY <1>4, Grows
  <2> QED BY <1>1, <1>4, <2>1
<1> QED BY <1>1, <1>2, <1>3, <1>4

\* The last cell has the last number.
LEMMA LastCell ==
    ASSUME NEW R \in Nat, NEW C \in Nat, NEW r \in 0..(R - 1), NEW c \in 0..(C - 1)
    PROVE  /\ r * C + c < R * C
           /\ r * C + c = R * C - 1 <=> r = R - 1 /\ c = C - 1
<1>1. PICK q \in Nat : q = R - 1
  OBVIOUS
<1>2. C - 1 \in 0..(C - 1)
  OBVIOUS
<1>3. q * C + (C - 1) = R * C - 1 /\ R * C \in Nat
  <2>1. R * C = q * C + C /\ q * C \in Nat
    BY <1>1
  <2> QED BY <2>1
<1>4. /\ r * C + c \in Nat
      /\ r * C + c < q * C + (C - 1) <=> r < q \/ (r = q /\ c < C - 1)
  BY <1>1, <1>2, RowByRow
<1>5. q * C + (C - 1) < r * C + c <=> q < r \/ (q = r /\ C - 1 < c)
  BY <1>1, <1>2, RowByRow
<1> QED BY <1>1, <1>3, <1>4, <1>5

\* Every number below R * C belongs to a cell.
LEMMA CellOf ==
    ASSUME NEW R \in Nat, NEW C \in Nat, C >= 1, NEW i \in Nat, i < R * C
    PROVE  \E r \in 0..(R - 1), c \in 0..(C - 1) : r * C + c = i
<1>1. PICK r \in Nat, c \in 0..(C - 1) : i = r * C + c
  <2>1. i \div C \in Nat /\ i % C \in 0..(C - 1) /\ i = (i \div C) * C + (i % C)
    OBVIOUS
  <2> QED BY <2>1
<1>2. r < R
  <2>1. R <= r => R * C <= r * C /\ R * C \in Nat /\ r * C \in Nat
    BY Grows
  <2> QED BY <1>1, <2>1
<1> QED BY <1>1, <1>2

\* The number of rows is the number of lines of C cells that hold all items.
LEMMA RowsOf ==
    ASSUME NEW items \in Seq(Ids), NEW C \in Nat, C >= 1
    PROVE  LET R == CalculateAmountOfRows(Len(items), C) IN
           /\ R \in Nat /\ Len(items) \in Nat /\ R * C \in Nat
           /\ Grid(items, C) = (0..(R - 1)) \X (0..(C - 1))
           /\ Len(items) <= R * C
           /\ \A n \in Nat : n < R => n * C < Len(items)
<1> DEFINE R == CalculateAmountOfRows(Len(items), C)
<1>1. Len(items) \in Nat
  BY LenProperties
<1>2. R = Ceil(Len(items), C)
  BY DEF CalculateAmountOfRows, Ceil
<1>3. Grid(items, C) = (0..(R - 1)) \X (0..(C - 1))
  BY DEF Grid
<1> HIDE DEF R
<1>4. R \in Nat /\ \A n \in Nat : n < R <=> n * C < Len(items)
  BY <1>1, <1>2, Ceiling
<1>5. R * C \in Nat /\ ~(R < R)
  BY <1>4, Grows
<1>6. Len(items) <= R * C
  BY <1>1, <1>4, <1>5
<1> QED BY <1>1, <1>3, <1>4, <1>5, <1>6 DEF R

\* Written row by row, the cells read across are the items in their order.
LEMMA HorizontalReads ==
    ASSUME NEW items \in Seq(Ids), NEW C \in Nat, C >= 1
    PROVE  ReadsAcross(RenderHorizontal(items, C), items)
<1> DEFINE R == CalculateAmountOfRows(Len(items), C)
           L == Len(items)
           cs == RenderHorizontal(items, C)
           H == Holding(cs)
           f == [c \in H |-> Written(c, C)]
<1>1. /\ R \in Nat /\ L \in Nat /\ R * C \in Nat /\ L <= R * C
      /\ Grid(items, C) = (0..(R - 1)) \X (0..(C - 1))
  BY RowsOf
<1>2. DOMAIN cs = (0..(R - 1)) \X (0..(C - 1))
  BY <1>1 DEF RenderHorizontal
<1>3. ASSUME NEW r \in 0..(R - 1), NEW c \in 0..(C - 1)
      PROVE  /\ r * C + c \in Nat /\ Written(<<r, c>>, C) = r * C + c
             /\ cs[<<r, c>>] = IF r * C + c < L THEN items[r * C + c + 1] ELSE NoItem
             /\ <<r, c>> \in H <=> r * C + c < L
  <2>1. r * C + c \in Nat
    BY <1>1, RowByRow
  <2>2. <<r, c>> \in Grid(items, C) /\ Written(<<r, c>>, C) = r * C + c
    BY <1>1 DEF Written
  <2>3. cs[<<r, c>>] = IF r * C + c + 1 <= L THEN items[r * C + c + 1] ELSE NoItem
    BY <2>2 DEF RenderHorizontal
  <2>4. r * C + c + 1 <= L <=> r * C + c < L
    BY <1>1, <2>1
  <2>5. r * C + c < L => items[r * C + c + 1] # NoItem
    <3>1. r * C + c < L => r * C + c + 1 \in 1..L
      BY <1>1, <2>1
    <3> QED BY <3>1, ElementOfSeq, PaginationAssumption
  <2>6. <<r, c>> \in DOMAIN cs
    BY <1>2
  <2> QED BY <2>1, <2>2, <2>3, <2>4, <2>5, <2>6 DEF Holding
<1>4. H \subseteq DOMAIN cs
  BY DEF Holding
<1> HIDE DEF cs, R, H, L
<1>5. \A b \in H : \E r \in 0..(R - 1), c \in 0..(C - 1) :
         b = <<r, c>> /\ f[b] = r * C + c /\ r * C + c < L /\ r * C + c \in Nat
  <2>1. ASSUME NEW b \in H
        PROVE  \E r \in 0..(R - 1), c \in 0..(C - 1) :
                  b = <<r, c>> /\ f[b] = r * C + c /\ r * C + c < L /\ r * C + c \in Nat
    <3>1. PICK r \in 0..(R - 1), c \in 0..(C - 1) : b = <<r, c>>
      BY <1>2, <1>4
    <3>2. f[b] = Written(b, C)
      OBVIOUS
    <3> QED BY <3>1, <3>2, <1>3
  <2> QED BY <2>1
<1>6. f \in [H -> 0..(L - 1)]
  <2>1. \A b \in H : f[b] \in 0..(L - 1)
    BY <1>1, <1>5
  <2> QED BY <2>1
<1>7. ASSUME NEW a \in H, NEW b \in H
      PROVE  /\ f[a] < f[b] <=> Across(a, b)
             /\ f[a] = f[b] => a = b
  <2>1. PICK r \in 0..(R - 1), c \in 0..(C - 1) : a = <<r, c>> /\ f[a] = r * C + c
    BY <1>5
  <2>2. PICK q \in 0..(R - 1), d \in 0..(C - 1) : b = <<q, d>> /\ f[b] = q * C + d
    BY <1>5
  <2>3. r \in Nat /\ q \in Nat /\ c \in Nat /\ d \in Nat /\ r * C + c \in Nat /\ q * C + d \in Nat
    BY <1>1, RowByRow
  <2>4. r * C + c < q * C + d <=> r < q \/ (r = q /\ c < d)
    BY <2>3, RowByRow
  <2>5. q * C + d < r * C + c <=> q < r \/ (q = r /\ d < c)
    BY <2>3, RowByRow
  <2>6. Across(a, b) <=> r < q \/ (r = q /\ c < d)
    BY <2>1, <2>2 DEF Across
  <2>7. r * C + c = q * C + d => r = q /\ c = d
    BY <2>3, <2>4, <2>5
  <2> QED BY <2>1, <2>2, <2>4, <2>6, <2>7
<1>8. ASSUME NEW i \in 0..(L - 1) PROVE \E a \in H : f[a] = i
  <2>1. i \in Nat /\ i < L /\ i < R * C /\ R \in Nat
    BY <1>1
  <2>2. \E r \in 0..(R - 1), c \in 0..(C - 1) : r * C + c = i
    BY <2>1, CellOf
  <2>3. PICK r \in 0..(R - 1), c \in 0..(C - 1) : r * C + c = i
    BY <2>2
  <2>4. r * C + c < L
    BY <2>1, <2>3
  <2>5. <<r, c>> \in H /\ Written(<<r, c>>, C) = r * C + c
    BY <1>3, <2>4
  <2> QED BY <2>3, <2>5
<1> HIDE DEF f
<1>9. /\ Cardinality(H) = L
      /\ \A c \in H : Cardinality({b \in H : f[b] < f[c]}) = f[c]
  BY <1>1, <1>6, <1>7, <1>8, Ranks
<1>10. ASSUME NEW c \in H PROVE cs[c] = items[Cardinality({b \in H : Across(b, c)}) + 1]
  <2>1. {b \in H : Across(b, c)} = {b \in H : f[b] < f[c]}
    BY <1>7
  <2>2. cs[c] = items[f[c] + 1]
    BY <1>3, <1>5
  <2> QED BY <1>9, <2>1, <2>2
<1> QED BY <1>9, <1>10 DEF ReadsAcross, H, L, cs

\* The number of a cell counted down the columns of R cells.
Index(cell, R) == cell[2] * R + cell[1]

\* Written column by column, the cells read down are the items in their order,
\* when at most the last cell is to spare or there is one row.
LEMMA VerticalReads ==
    ASSUME NEW items \in Seq(Ids), NEW C \in Nat, C >= 1
    PROVE  LET R == CalculateAmountOfRows(Len(items), C)
           IN  R * C - Len(items) <= 1 \/ R <= 1 =>
                   /\ ReadsDown(RenderVertical(items, C), items)
                   /\ \A cell \in DOMAIN RenderVertical(items, C) :
                          RenderVertical(items, C)[cell] # OutOfRange
<1> DEFINE R == CalculateAmountOfRows(Len(items), C)
           L == Len(items)
           cs == RenderVertical(items, C)
           H == Holding(cs)
           f == [c \in H |-> Index(c, R)]
<1>0. SUFFICES ASSUME R * C - L <= 1 \/ R <= 1
               PROVE  ReadsDown(cs, items) /\ \A cell \in DOMAIN cs : cs[cell] # OutOfRange
  OBVIOUS
<1>1. /\ R \in Nat /\ L \in Nat /\ R * C \in Nat /\ C * R = R * C /\ L <= R * C
      /\ Grid(items, C) = (0..(R - 1)) \X (0..(C - 1))
  BY RowsOf
<1>2. DOMAIN cs = (0..(R - 1)) \X (0..(C - 1))
  BY <1>1 DEF RenderVertical
<1>2a. \A cell \in Grid(items, C) :
          cs[cell] = IF Written(cell, C) + 1 > L THEN NoItem
                     ELSE IF Index(cell, R) < L THEN items[Index(cell, R) + 1] ELSE OutOfRange
  BY DEF RenderVertical, Index
<1> HIDE DEF R
<1>3. ASSUME NEW r \in 0..(R - 1), NEW c \in 0..(C - 1)
      PROVE  /\ c * R + r \in Nat /\ Index(<<r, c>>, R) = c * R + r
             /\ cs[<<r, c>>] = IF c * R + r < L THEN items[c * R + r + 1] ELSE NoItem
             /\ <<r, c>> \in H <=> c * R + r < L
  <2>1. r * C + c \in Nat /\ c * R + r \in Nat /\ c \in Nat /\ r \in Nat /\ R \in Nat
    <3>1. R \in Nat /\ r \in Nat /\ c \in Nat
      BY <1>1
    <3>2. r * C \in Nat /\ c * R \in Nat
      BY <3>1
    <3> QED BY <3>1, <3>2
  <2>2. r * C + c + 1 > L <=> ~(c * R + r < L)
    <3>1. /\ r * C + c < R * C
          /\ r * C + c = R * C - 1 <=> r = R - 1 /\ c = C - 1
      BY <2>1, LastCell
    <3>2. /\ c * R + r < C * R
          /\ c * R + r = C * R - 1 <=> c = C - 1 /\ r = R - 1
      BY <2>1, LastCell
    <3>3. CASE R * C - L <= 1
      <4>1. r * C + c = R * C - 1 <=> c * R + r = R * C - 1
        BY <1>1, <3>1, <3>2
      <4>2. L = R * C \/ L = R * C - 1
        BY <1>1, <3>3
      <4> QED BY <1>1, <2>1, <3>1, <3>2, <4>1, <4>2
    <3>4. CASE R <= 1
      <4>1. R = 1 /\ r = 0
        BY <1>1, <3>4
      <4>2. c * R = c /\ r * C = 0
        BY <2>1, <4>1
      <4> QED BY <1>1, <2>1, <4>1, <4>2
    <3> QED BY <1>0, <3>3, <3>4
  <2>3. <<r, c>> \in Grid(items, C) /\ Index(<<r, c>>, R) = c * R + r
        /\ Written(<<r, c>>, C) = r * C + c
    BY <1>1 DEF Written, Index
  <2>4. cs[<<r, c>>] = IF r * C + c + 1 > L THEN NoItem
                       ELSE IF c * R + r < L THEN items[c * R + r + 1] ELSE OutOfRange
    BY <1>2a, <2>3
  <2>5. c * R + r < L => items[c * R + r + 1] # NoItem
    <3>1. c * R + r < L => c * R + r + 1 \in 1..L
      BY <1>1, <2>1
    <3> QED BY <3>1, ElementOfSeq, PaginationAssumption
  <2>6. <<r, c>> \in DOMAIN cs
    BY <1>2
  <2> QED BY <2>1, <2>2, <2>3, <2>4, <2>5, <2>6 DEF Holding
<1>4. H \subseteq DOMAIN cs
  BY DEF Holding
<1>4a. \A cell \in DOMAIN cs : cs[cell] # OutOfRange
  <2>1. ASSUME NEW cell \in DOMAIN cs PROVE cs[cell] # OutOfRange
    <3>1. PICK r \in 0..(R - 1), c \in 0..(C - 1) : cell = <<r, c>>
      BY <1>2
    <3>2. c * R + r < L => c * R + r + 1 \in 1..L
      BY <1>1, <1>3
    <3>3. c * R + r < L => items[c * R + r + 1] \in Ids
      BY <3>2, ElementOfSeq
    <3> QED BY <1>3, <3>1, <3>3, PaginationAssumption
  <2> QED BY <2>1
<1> HIDE DEF cs, H, L
<1>5. \A b \in H : \E r \in 0..(R - 1), c \in 0..(C - 1) :
         b = <<r, c>> /\ f[b] = c * R + r /\ c * R + r < L /\ c * R + r \in Nat
  <2>1. ASSUME NEW b \in H
        PROVE  \E r \in 0..(R - 1), c \in 0..(C - 1) :
                  b = <<r, c>> /\ f[b] = c * R + r /\ c * R + r < L /\ c * R + r \in Nat
    <3>1. PICK r \in 0..(R - 1), c \in 0..(C - 1) : b = <<r, c>>
      BY <1>2, <1>4
    <3>2. f[b] = Index(b, R)
      OBVIOUS
    <3> QED BY <3>1, <3>2, <1>3
  <2> QED BY <2>1
<1>6. f \in [H -> 0..(L - 1)]
  <2>1. \A b \in H : f[b] \in 0..(L - 1)
    BY <1>1, <1>5
  <2> QED BY <2>1
<1>7. ASSUME NEW a \in H, NEW b \in H
      PROVE  /\ f[a] < f[b] <=> Downward(a, b)
             /\ f[a] = f[b] => a = b
  <2>1. PICK r \in 0..(R - 1), c \in 0..(C - 1) : a = <<r, c>> /\ f[a] = c * R + r
    BY <1>5
  <2>2. PICK q \in 0..(R - 1), d \in 0..(C - 1) : b = <<q, d>> /\ f[b] = d * R + q
    BY <1>5
  <2>3. /\ R \in Nat /\ r \in Nat /\ q \in Nat /\ c \in Nat /\ d \in Nat
        /\ c * R + r \in Nat /\ d * R + q \in Nat
    <3>1. R \in Nat /\ r \in Nat /\ q \in Nat /\ c \in Nat /\ d \in Nat
      BY <1>1
    <3>2. c * R \in Nat /\ d * R \in Nat
      BY <3>1
    <3> QED BY <3>1, <3>2
  <2>4. c * R + r < d * R + q <=> c < d \/ (c = d /\ r < q)
    BY <1>1, <2>3, RowByRow
  <2>5. d * R + q < c * R + r <=> d < c \/ (d = c /\ q < r)
    BY <1>1, <2>3, RowByRow
  <2>6. Downward(a, b) <=> c < d \/ (c = d /\ r < q)
    BY <2>1, <2>2 DEF Downward
  <2>7. c * R + r = d * R + q => c = d /\ r = q
    BY <2>3, <2>4, <2>5
  <2> QED BY <2>1, <2>2, <2>4, <2>6, <2>7
<1>8. ASSUME NEW i \in 0..(L - 1) PROVE \E a \in H : f[a] = i
  <2>1. i \in Nat /\ i < L /\ i < C * R /\ R \in Nat /\ R >= 1
    <3>1. R = 0 => C * R = 0
      OBVIOUS
    <3> QED BY <1>1, <3>1
  <2>2. \E c \in 0..(C - 1), r \in 0..(R - 1) : c * R + r = i
    BY <2>1, CellOf
  <2>3. PICK r \in 0..(R - 1), c \in 0..(C - 1) : c * R + r = i
    BY <2>2
  <2>4. c * R + r < L
    BY <2>1, <2>3
  <2>5. <<r, c>> \in H /\ Index(<<r, c>>, R) = c * R + r
    BY <1>3, <2>4
  <2> QED BY <2>3, <2>5
<1> HIDE DEF f
<1>9. /\ Cardinality(H) = L
      /\ \A c \in H : Cardinality({b \in H : f[b] < f[c]}) = f[c]
  BY <1>1, <1>6, <1>7, <1>8, Ranks
<1>10. ASSUME NEW c \in H PROVE cs[c] = items[Cardinality({b \in H : Downward(b, c)}) + 1]
  <2>1. {b \in H : Downward(b, c)} = {b \in H : f[b] < f[c]}
    BY <1>7
  <2>2. cs[c] = items[f[c] + 1]
    BY <1>3, <1>5
  <2> QED BY <1>9, <2>1, <2>2
<1>11. ReadsDown(cs, items)
  BY <1>9, <1>10 DEF ReadsDown, H, L, cs
<1> QED BY <1>4a, <1>11 DEF cs

\* With two cells or more to spare and two rows or more, the last cell but one
\* row asks for an item beyond the end.
LEMMA VerticalThrows ==
    ASSUME NEW items \in Seq(Ids), NEW C \in Nat, C >= 1
    PROVE  LET R == CalculateAmountOfRows(Len(items), C)
           IN  R * C - Len(items) > 1 /\ R > 1 =>
                   \E c \in DOMAIN RenderVertical(items, C) :
                       RenderVertical(items, C)[c] = OutOfRange
<1> DEFINE R == CalculateAmountOfRows(Len(items), C)
           L == Len(items)
           cs == RenderVertical(items, C)
<1>0. SUFFICES ASSUME R * C - L > 1, R > 1
               PROVE  \E c \in DOMAIN cs : cs[c] = OutOfRange
  OBVIOUS
<1>1. /\ R \in Nat /\ L \in Nat /\ R * C \in Nat
      /\ Grid(items, C) = (0..(R - 1)) \X (0..(C - 1))
      /\ \A n \in Nat : n < R => n * C < L
  BY RowsOf
<1>2. PICK m \in Nat : R = m + 2
  <2>1. R - 2 \in Nat /\ R = (R - 2) + 2
    BY <1>0, <1>1
  <2> QED BY <2>1
<1>3. PICK d \in Nat : C = d + 1
  <2>1. C - 1 \in Nat /\ C = (C - 1) + 1
    OBVIOUS
  <2> QED BY <2>1
<1>4. (m + 1) * C < L
  <2>1. m + 1 \in Nat /\ m + 1 < R
    BY <1>1, <1>2
  <2> QED BY <1>1, <2>1
<1>5. m * C + d + 1 <= L
  <2>1. (m + 1) * C = m * C + d + 1 /\ m * C \in Nat
    BY <1>3
  <2> QED BY <1>1, <1>4, <2>1
<1>6. ~(d * R + m < L)
  <2>1. R * C = d * R + R /\ d * R \in Nat
    BY <1>1, <1>3
  <2> QED BY <1>0, <1>1, <1>2, <2>1
<1>7. /\ <<m, d>> \in Grid(items, C) /\ Written(<<m, d>>, C) = m * C + d
      /\ <<m, d>>[1] = m /\ <<m, d>>[2] = d
  BY <1>1, <1>2, <1>3 DEF Written
<1>8. ~(m * C + d + 1 > L)
  <2>1. m * C \in Nat
    OBVIOUS
  <2> QED BY <1>1, <1>5, <2>1
<1>9. cs[<<m, d>>] = OutOfRange
  BY <1>6, <1>7, <1>8 DEF RenderVertical
<1>10. <<m, d>> \in DOMAIN cs
  BY <1>7 DEF RenderVertical
<1> QED BY <1>9, <1>10

LEMMA PagesLaidOut == IInv => LaysOutPage
<1> SUFFICES ASSUME IInv, progress = "shown"
             PROVE  LET spare == Cardinality(DOMAIN cells) - Len(results)
                        oneRow == {c \in DOMAIN cells : c[1] = 0} = DOMAIN cells
                    IN  /\ LaidOut => IF down THEN ReadsDown(cells, results)
                                      ELSE ReadsAcross(cells, results)
                        /\ ~down \/ oneRow \/ spare <= 1 => LaidOut
  BY DEF LaysOutPage
<1>1. PICK columns \in Columns :
         cells = IF down THEN RenderVertical(results, RepeatColumns(columns))
                         ELSE RenderHorizontal(results, RepeatColumns(columns))
  BY DEF IInv, Laid
<1> DEFINE C == RepeatColumns(columns)
           R == CalculateAmountOfRows(Len(results), C)
<1>2. C \in Nat /\ C >= 1
  BY PaginationAssumption DEF RepeatColumns
<1>3. results \in Seq(Ids)
  BY DEF IInv, PagingTypeOK
<1>4. CASE ~down
  <2>1. cells = RenderHorizontal(results, C)
    BY <1>1, <1>4
  <2> HIDE DEF C
  <2>2. ReadsAcross(cells, results)
    BY <1>2, <1>3, <2>1, HorizontalReads
  <2>3. LaidOut
    <3>1. ASSUME NEW c \in DOMAIN cells PROVE cells[c] # OutOfRange
      <4>1. c \in Grid(results, C) /\ Written(c, C) \in Nat
        <5>1. c \in (0..(CalculateAmountOfRows(Len(results), C) - 1)) \X (0..(C - 1))
              /\ CalculateAmountOfRows(Len(results), C) \in Nat
          BY <1>2, <1>3, <2>1, RowsOf DEF RenderHorizontal
        <5>2. c[1] \in Nat /\ c[2] \in Nat
          BY <5>1
        <5>3. c[1] * C \in Nat
          BY <1>2, <5>2
        <5> QED BY <2>1, <5>2, <5>3 DEF RenderHorizontal, Written
      <4>2. cells[c] = IF Written(c, C) + 1 <= Len(results) THEN results[Written(c, C) + 1]
                       ELSE NoItem
        BY <2>1, <4>1 DEF RenderHorizontal
      <4>3. Written(c, C) + 1 <= Len(results) => results[Written(c, C) + 1] \in Ids
        BY <1>3, <4>1, ElementOfSeq, LenProperties
      <4> QED BY <4>2, <4>3, PaginationAssumption
    <3> QED BY <3>1 DEF LaidOut
  <2> QED BY <1>4, <2>2, <2>3
<1>5. CASE down
  <2>1. cells = RenderVertical(results, C)
    BY <1>1, <1>5
  <2> HIDE DEF C
  <2>2. /\ R \in Nat /\ R * C \in Nat
        /\ DOMAIN cells = (0..(R - 1)) \X (0..(C - 1))
    BY <1>2, <1>3, <2>1, RowsOf DEF RenderVertical
  <2> HIDE DEF R
  <2>3. Cardinality(DOMAIN cells) = R * C
    <3>1. /\ IsFiniteSet(0..(R - 1)) /\ Cardinality(0..(R - 1)) = R
          /\ IsFiniteSet(0..(C - 1)) /\ Cardinality(0..(C - 1)) = C
      <4>1. 0 \in Int /\ R - 1 \in Int /\ C - 1 \in Int
        BY <1>2, <2>2
      <4>2. /\ IsFiniteSet(0..(R - 1))
            /\ Cardinality(0..(R - 1)) = IF 0 > R - 1 THEN 0 ELSE (R - 1) - 0 + 1
            /\ IsFiniteSet(0..(C - 1))
            /\ Cardinality(0..(C - 1)) = IF 0 > C - 1 THEN 0 ELSE (C - 1) - 0 + 1
        BY <4>1, FS_Interval
      <4> QED BY <1>2, <2>2, <4>2
    <3> QED BY <2>2, <3>1, FS_Product
  <2>4. {c \in DOMAIN cells : c[1] = 0} = DOMAIN cells <=> R <= 1
    <3>1. R <= 1 => \A c \in DOMAIN cells : c[1] = 0
      BY <1>2, <2>2
    <3>2. R > 1 => <<1, 0>> \in DOMAIN cells /\ <<1, 0>>[1] # 0
      BY <1>2, <2>2
    <3> QED BY <2>2, <3>1, <3>2
  <2>5. CASE R * C - Len(results) <= 1 \/ R <= 1
    <3>1. ReadsDown(cells, results) /\ \A c \in DOMAIN cells : cells[c] # OutOfRange
      BY <1>2, <1>3, <2>1, <2>5, VerticalReads DEF R
    <3>2. LaidOut
      BY <3>1 DEF LaidOut
    <3> QED BY <1>5, <2>3, <2>4, <2>5, <3>1, <3>2
  <2>6. CASE ~(R * C - Len(results) <= 1 \/ R <= 1)
    <3>1. R * C - Len(results) > 1 /\ R > 1
      BY <1>3, <2>2, <2>6, LenProperties
    <3>2. \E c \in DOMAIN cells : cells[c] = OutOfRange
      BY <1>2, <1>3, <2>1, <3>1, VerticalThrows DEF R
    <3> QED BY <1>5, <2>3, <2>4, <2>6, <3>2 DEF LaidOut
  <2> QED BY <2>5, <2>6
<1> QED BY <1>4, <1>5

\* A list laid out to its end has one cell for every row of the page, in their
\* order, across or down, in any number of columns; across, and down with one row
\* or at most one cell to spare, it is (DataList.cs:238-302).
THEOREM EveryRowHasItsCell == PagingSpec => []LaysOutPage
BY PagesLaidOut, Invariance, PTL

=============================================================================
