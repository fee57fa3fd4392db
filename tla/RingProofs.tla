----------------------------- MODULE RingProofs -----------------------------
(***************************************************************************)
(* What the operators of Ring do to a circular array of any size and to    *)
(* the elements it stands for, wherever head and tail have wrapped to. The *)
(* modules that build on Ring cite these lemmas.                           *)
(***************************************************************************)
EXTENDS Ring, Integers, TLAPS

\* How many cells there can be.
CellCount == Nat \ {0, 1}

\* A circular array of N cells: one is always free, and tail is head + elem.
Cells(N, S) == [size : {N}, head : 0..(N - 1), tail : 0..(N - 1), elem : 0..(N - 1),
             pdata : [0..(N - 1) -> S]]
IsRing(r, N, S) == r \in Cells(N, S) /\ r.tail = Cell(r, r.elem)

\* The k-th element from the head.
At(r, k) == r.pdata[Cell(r, k - 1)]

\* After a step from r to s: one more element at the end; the first one gone.
Grows(r, s, d) == RingItems(s) = Append(RingItems(r), d)
Shrinks(r, s) ==
  /\ RingItems(s) = Tail(RingItems(r))
  /\ RingItems(r) # <<>> /\ RingFront(r) = Head(RingItems(r))

\* The sizes a caller can ask for.
Sizes == {n \in Nat : n <= 65536}

LEMMA SizeIsPower == ASSUME NEW n \in Sizes PROVE RingSize(n) \in Powers
<1>1. PICK p \in Powers : p >= n /\ (p = 2 \/ p < 2 * n)
  BY DEF Powers, Sizes
<1>2. \A r \in Powers : r >= n => p <= r
  BY <1>1 DEF Powers, Sizes
<1> QED BY <1>1, <1>2 DEF RingSize

LEMMA SizeRange == ASSUME NEW n \in Sizes PROVE RingSize(n) \in Nat /\ RingSize(n) >= 2
<1>1. RingSize(n) \in Powers
  BY SizeIsPower
<1> QED BY <1>1 DEF Powers

(***************************************************************************)
(* What the operators of Ring do to the elements it stands for.            *)
(***************************************************************************)
LEMMA TableIsSeq ==
  ASSUME NEW S, NEW n \in Nat, NEW s \in [1..n -> S]
  PROVE  s \in Seq(S) /\ Len(s) = n
OBVIOUS

LEMMA ItemsType ==
  ASSUME NEW S, NEW N \in CellCount, NEW r, IsRing(r, N, S)
  PROVE  /\ RingItems(r) \in Seq(S)
         /\ Len(RingItems(r)) = r.elem
         /\ \A k \in 1..r.elem : RingItems(r)[k] = At(r, k)
<1>1. r.elem \in Nat
  BY DEF IsRing, Cells
<1>2. ASSUME NEW k \in 1..r.elem PROVE At(r, k) \in S
  <2>1. Cell(r, k - 1) \in 0..(N - 1)
    BY DEF CellCount, IsRing, Cells, Cell
  <2>2. r.pdata \in [0..(N - 1) -> S]
    BY DEF IsRing, Cells
  <2> QED BY <2>1, <2>2 DEF At
<1> DEFINE s == [k \in 1..r.elem |-> At(r, k)]
<1>3. s \in [1..r.elem -> S] /\ \A k \in 1..r.elem : s[k] = At(r, k)
  BY <1>2
<1>4. s = RingItems(r)
  BY DEF RingItems, At
<1> HIDE DEF s
<1>5. s \in Seq(S) /\ Len(s) = r.elem
  BY <1>1, <1>3, TableIsSeq
<1> QED BY <1>3, <1>4, <1>5

LEMMA EmptyMeansNone ==
  ASSUME NEW S, NEW N \in CellCount, NEW r, IsRing(r, N, S)
  PROVE  RingEmpty(r) <=> r.elem = 0
BY DEF CellCount, IsRing, Cells, RingEmpty, Cell

LEMMA FullMeansOneFree ==
  ASSUME NEW S, NEW N \in CellCount, NEW r, IsRing(r, N, S)
  PROVE  RingFull(r) <=> r.elem = N - 1
BY DEF CellCount, IsRing, Cells, RingFull, Next1, Cell

LEMMA CreateIsRing ==
  ASSUME NEW S, NULL \in S, NEW n, RingSize(n) \in CellCount
  PROVE  IsRing(RingCreate(n), RingSize(n), S) /\ RingCreate(n).elem = 0
BY DEF CellCount, RingCreate, IsRing, Cells, Cell

LEMMA PutFields ==
  ASSUME NEW S, NEW N \in CellCount, NEW r, IsRing(r, N, S), NEW d \in S, ~RingFull(r)
  PROVE  LET s == RingPut(r, d)
         IN  /\ s \in Cells(N, S)
             /\ s.size = N /\ s.head = r.head /\ s.tail = Next1(r, r.tail)
             /\ s.elem = r.elem + 1 /\ s.pdata = [r.pdata EXCEPT ![r.tail] = d]
<1>1. r \in Cells(N, S)
  BY DEF IsRing
<1> DEFINE p == [r.pdata EXCEPT ![r.tail] = d]
           t == Next1(r, r.tail)
           e == r.elem + 1
<1>3. p \in [0..(N - 1) -> S] /\ t \in 0..(N - 1) /\ e \in 0..(N - 1)
  <2>1. p \in [0..(N - 1) -> S]
    BY <1>1 DEF CellCount, Cells
  <2>2. t \in 0..(N - 1)
    BY <1>1 DEF CellCount, Cells, Next1
  <2>3. e \in 0..(N - 1)
    <3>1. r.elem # N - 1
      BY FullMeansOneFree
    <3> QED BY <1>1, <3>1 DEF CellCount, Cells
  <2> QED BY <2>1, <2>2, <2>3
<1>4. RingPut(r, d) = [r EXCEPT !.pdata = p, !.tail = t, !.elem = e]
  BY DEF RingPut
<1> HIDE DEF p, t, e
<1>5. /\ RingPut(r, d) \in Cells(N, S)
      /\ RingPut(r, d).size = N /\ RingPut(r, d).head = r.head
      /\ RingPut(r, d).tail = t /\ RingPut(r, d).elem = e /\ RingPut(r, d).pdata = p
  BY <1>1, <1>3, <1>4 DEF CellCount, Cells
<1> QED BY <1>5 DEF p, t, e

\* An element goes behind all others.
LEMMA PutAppends ==
  ASSUME NEW S, NEW N \in CellCount, NEW r, IsRing(r, N, S), NEW d \in S, ~RingFull(r)
  PROVE  IsRing(RingPut(r, d), N, S) /\ Grows(r, RingPut(r, d), d)
<1> DEFINE s == RingPut(r, d)
<1>1. /\ s \in Cells(N, S)
      /\ s.size = N /\ s.head = r.head /\ s.tail = Next1(r, r.tail)
      /\ s.elem = r.elem + 1 /\ s.pdata = [r.pdata EXCEPT ![r.tail] = d]
  BY PutFields
<1>2. r.elem \in 0..(N - 2)
  <2>1. r.elem # N - 1
    BY FullMeansOneFree
  <2> QED BY <2>1 DEF CellCount, IsRing, Cells
<1>3. IsRing(s, N, S)
  <2>1. s.tail = Cell(s, s.elem)
    BY <1>1, <1>2 DEF CellCount, IsRing, Cells, Cell, Next1
  <2> HIDE DEF s
  <2> QED BY <1>1, <2>1 DEF IsRing
<1>4. /\ r.pdata \in [0..(N - 1) -> S] /\ r.tail \in 0..(N - 1) /\ r.elem + 1 \in 1..s.elem
      /\ s.pdata = [r.pdata EXCEPT ![r.tail] = d]
  BY <1>1, <1>2 DEF CellCount, IsRing, Cells
<1>4a. /\ r.size = N /\ r.head \in 0..(N - 1) /\ r.tail = Cell(r, r.elem) /\ N \in Nat
      /\ s.size = N /\ s.head = r.head
  BY <1>1 DEF CellCount, IsRing, Cells
<1>5. ASSUME NEW k \in 1..r.elem PROVE RingItems(s)[k] = RingItems(r)[k]
  <2>1. /\ Cell(s, k - 1) = Cell(r, k - 1)
        /\ Cell(r, k - 1) \in 0..(N - 1) /\ Cell(r, k - 1) # r.tail
    <3>1. Cell(s, k - 1) = Cell(r, k - 1)
      BY <1>4a DEF Cell
    <3>2. Cell(r, k - 1) \in 0..(N - 1) /\ Cell(r, k - 1) # Cell(r, r.elem)
      BY <1>2, <1>4a DEF Cell
    <3> QED BY <1>4a, <3>1, <3>2
  <2>2. At(s, k) = At(r, k)
    BY <1>4, <2>1 DEF At
  <2>3. k \in 1..s.elem
    BY <1>1, <1>2
  <2> HIDE DEF s
  <2>4. RingItems(s)[k] = At(s, k) /\ RingItems(r)[k] = At(r, k)
    BY <1>3, <2>3, ItemsType
  <2> QED BY <2>2, <2>4
<1>6. RingItems(s)[r.elem + 1] = d
  <2>1. \A k \in 1..s.elem : RingItems(s)[k] = At(s, k)
    <3> HIDE DEF s
    <3> QED BY <1>3, ItemsType
  <2>2. Cell(s, r.elem) = r.tail /\ (r.elem + 1) - 1 = r.elem
    BY <1>2, <1>4a DEF Cell
  <2>3. At(s, r.elem + 1) = d
    <3>1. At(s, r.elem + 1) = s.pdata[Cell(s, (r.elem + 1) - 1)]
      BY DEF At
    <3>2. s.pdata[r.tail] = d
      BY <1>4
    <3> HIDE DEF s
    <3> QED BY <2>2, <3>1, <3>2
  <2> HIDE DEF s
  <2> QED BY <1>4, <2>1, <2>3
<1>7. /\ RingItems(s) \in Seq(S) /\ Len(RingItems(s)) = r.elem + 1
      /\ RingItems(r) \in Seq(S) /\ Len(RingItems(r)) = r.elem
  BY <1>1, <1>3, ItemsType
<1> HIDE DEF s
<1>8. RingItems(s) = Append(RingItems(r), d)
  BY <1>2, <1>5, <1>6, <1>7
<1> QED BY <1>3, <1>8 DEF s, Grows

\* The front is the oldest element, and taking it leaves the others in order.
LEMMA TakeIsTail ==
  ASSUME NEW S, NEW N \in CellCount, NEW r, IsRing(r, N, S), ~RingEmpty(r)
  PROVE  IsRing(RingTake(r), N, S) /\ Shrinks(r, RingTake(r))
<1> DEFINE s == RingTake(r)
<1>1. /\ s.size = N /\ s.head = Next1(r, r.head) /\ s.tail = r.tail
      /\ s.elem = r.elem - 1 /\ s.pdata = r.pdata
      /\ s \in Cells(N, S)
  <2> DEFINE h == Next1(r, r.head)
             e == r.elem - 1
  <2>1. r \in Cells(N, S) /\ r.elem # 0
    <3>1. r.elem # 0
      BY EmptyMeansNone
    <3> QED BY <3>1 DEF IsRing
  <2>2. h \in 0..(N - 1) /\ e \in 0..(N - 1)
    BY <2>1 DEF CellCount, Cells, Next1
  <2>3. s = [r EXCEPT !.head = h, !.elem = e]
    BY DEF RingTake
  <2> HIDE DEF h, e, s
  <2>4. /\ s \in Cells(N, S) /\ s.size = N /\ s.head = h /\ s.tail = r.tail
        /\ s.elem = e /\ s.pdata = r.pdata
    BY <2>1, <2>2, <2>3 DEF CellCount, Cells
  <2> QED BY <2>4 DEF h, e
<1>2. r.elem \in 1..(N - 1)
  <2>1. r.elem # 0
    BY EmptyMeansNone
  <2> QED BY <2>1 DEF CellCount, IsRing, Cells
<1>2a. /\ r.size = N /\ r.head \in 0..(N - 1) /\ r.tail = Cell(r, r.elem) /\ N \in Nat
       /\ s.size = N /\ s.head = Next1(r, r.head) /\ s.tail = r.tail /\ s.elem = r.elem - 1
  BY <1>1 DEF CellCount, IsRing, Cells
<1>3. IsRing(s, N, S)
  <2>1. s.tail = Cell(s, s.elem)
    BY <1>2, <1>2a DEF Cell, Next1
  <2> HIDE DEF s
  <2> QED BY <1>1, <2>1 DEF IsRing
<1>4. \A k \in 1..s.elem : RingItems(s)[k] = At(s, k)
  <2> HIDE DEF s
  <2> QED BY <1>3, ItemsType
<1>5. ASSUME NEW k \in 1..s.elem PROVE RingItems(s)[k] = RingItems(r)[k + 1]
  <2>1. k + 1 \in 1..r.elem /\ (k + 1) - 1 = k
    BY <1>1, <1>2
  <2>2. Cell(s, k - 1) = Cell(r, k)
    BY <1>2, <1>2a DEF Cell, Next1
  <2>3. At(s, k) = At(r, k + 1)
    BY <1>1, <2>1, <2>2 DEF At
  <2>4. \A j \in 1..r.elem : RingItems(r)[j] = At(r, j)
    BY ItemsType
  <2> HIDE DEF s
  <2> QED BY <1>4, <2>1, <2>3, <2>4
<1>6. /\ RingItems(s) \in Seq(S) /\ Len(RingItems(s)) = r.elem - 1
      /\ RingItems(r) \in Seq(S) /\ Len(RingItems(r)) = r.elem
  BY <1>1, <1>3, ItemsType
<1>7. RingFront(r) = RingItems(r)[1]
  <2>1. \A k \in 1..r.elem : RingItems(r)[k] = At(r, k)
    BY ItemsType
  <2>2. 1 \in 1..r.elem /\ 1 - 1 = 0 /\ Cell(r, 0) = r.head
    BY <1>2 DEF CellCount, IsRing, Cells, Cell
  <2>3. At(r, 1) = r.pdata[r.head]
    BY <2>2 DEF At
  <2> QED BY <2>1, <2>2, <2>3 DEF RingFront
<1> HIDE DEF s
<1>8. RingItems(s) = Tail(RingItems(r))
  BY <1>1, <1>2, <1>5, <1>6
<1>9. RingItems(r) # <<>> /\ RingFront(r) = Head(RingItems(r))
  BY <1>2, <1>6, <1>7
<1> QED BY <1>3, <1>8, <1>9 DEF s, Shrinks
=============================================================================
