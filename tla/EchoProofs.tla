----------------------------- MODULE EchoProofs -----------------------------
(***************************************************************************)
(* From the receive interrupt to the printing task no byte is lost, for    *)
(* every size of the pipe, every fifo of two cells or more, and any number *)
(* of readers.                                                             *)
(***************************************************************************)
EXTENDS Echo, RingProofs

Number == 0..(Numbers - 1)
Stored == Number \cup {NULL}

FifoCells == RingSize(FifoSize)
PipeCells == RingSize(PipeLength)

LEMMA Sizes2 ==
  /\ FifoCells \in Nat \ {0, 1} /\ PipeCells \in Nat \ {0, 1}
  /\ Numbers \in Nat /\ Numbers >= 2 * FifoCells + PipeCells
<1>1. FifoSize \in Sizes /\ PipeLength \in Sizes
  <2>1. /\ FifoSize \in Nat /\ FifoSize <= 65536
        /\ PipeLength \in Nat /\ PipeLength <= 65536
    BY EchoAssumption
  <2> QED BY <2>1 DEF Sizes
<1>2. /\ RingSize(FifoSize) \in Nat /\ RingSize(FifoSize) >= 2
      /\ RingSize(PipeLength) \in Nat /\ RingSize(PipeLength) >= 2
  BY <1>1, SizeRange
<1> QED BY <1>2, EchoAssumption DEF EchoAssumption, FifoCells, PipeCells

LEMMA CellCounts == FifoCells \in CellCount /\ PipeCells \in CellCount
BY Sizes2 DEF CellCount

(***************************************************************************)
(* Consecutive numbers.                                                    *)
(***************************************************************************)
\* s holds numbers, the first of them n and each the successor of the last.
Run(s, n) ==
  s \in Seq(Stored) /\ \A k \in 1..Len(s) : s[k] = Nth(n, k - 1)

LEMMA NthNth ==
  ASSUME NEW n \in Number, NEW a \in Nat, NEW b \in Nat, a + b < Numbers
  PROVE  Nth(n, a) \in Number /\ Nth(Nth(n, a), b) = Nth(n, a + b) /\ Nth(n, 0) = n
BY Sizes2 DEF Nth, Number

LEMMA RunAppend ==
  ASSUME NEW s, NEW n \in Number, Run(s, n), Len(s) < Numbers
  PROVE  Run(Append(s, Nth(n, Len(s))), n)
<1> DEFINE d == Nth(n, Len(s))
<1>1. s \in Seq(Stored) /\ Len(s) \in Nat /\ \A k \in 1..Len(s) : s[k] = Nth(n, k - 1)
  BY DEF Run
<1>2. d \in Stored
  <2>1. Len(s) + 0 < Numbers
    BY <1>1
  <2> QED BY <1>1, <2>1, NthNth DEF Stored
<1>3. d = Nth(n, (Len(s) + 1) - 1)
  BY <1>1
<1> HIDE DEF d
<1>4. /\ Append(s, d) \in Seq(Stored) /\ Len(Append(s, d)) = Len(s) + 1
      /\ \A k \in 1..(Len(s) + 1) : Append(s, d)[k] = IF k = Len(s) + 1 THEN d ELSE s[k]
  BY <1>1, <1>2
<1>5. \A k \in 1..(Len(s) + 1) : Append(s, d)[k] = Nth(n, k - 1)
  BY <1>1, <1>3, <1>4
<1>6. Run(Append(s, d), n)
  BY <1>4, <1>5 DEF Run
<1> QED BY <1>6 DEF d

LEMMA RunTail ==
  ASSUME NEW s, NEW n \in Number, Run(s, n), s # <<>>, Len(s) < Numbers
  PROVE  Head(s) = n /\ Run(Tail(s), Nth(n, 1)) /\ Len(Tail(s)) = Len(s) - 1
<1>1. s \in Seq(Stored) /\ Len(s) \in Nat \ {0} /\ \A k \in 1..Len(s) : s[k] = Nth(n, k - 1)
  BY DEF Run
<1>2. Head(s) = n
  <2>1. 1 \in 1..Len(s) /\ Head(s) = s[1]
    BY <1>1
  <2>2. \A k \in 1..Len(s) : k = 1 => Nth(n, k - 1) = n
    BY Sizes2 DEF Nth, Number
  <2> QED BY <1>1, <2>1, <2>2
<1>3. /\ Tail(s) \in Seq(Stored) /\ Len(Tail(s)) = Len(s) - 1
      /\ \A k \in 1..(Len(s) - 1) : Tail(s)[k] = s[k + 1]
  BY <1>1
<1>4. \A k \in 1..(Len(s) - 1) : Tail(s)[k] = Nth(Nth(n, 1), k - 1)
  <2> SUFFICES ASSUME NEW k \in 1..(Len(s) - 1)
               PROVE  Tail(s)[k] = Nth(Nth(n, 1), k - 1)
    OBVIOUS
  <2>1. k + 1 \in 1..Len(s) /\ s[k + 1] = Nth(n, (k + 1) - 1)
    BY <1>1
  <2>2. Nth(n, (k + 1) - 1) = Nth(Nth(n, 1), k - 1)
    BY <1>1, Sizes2 DEF Nth, Number
  <2> QED BY <1>3, <2>1, <2>2
<1> QED BY <1>2, <1>3, <1>4 DEF Run

(***************************************************************************)
(* The three pieces of the way: what is in the pipe, in hand, in the fifo. *)
(***************************************************************************)
\* p, h and f, one after the other, hold the numbers from n to before m.
Pieces(p, h, f, n, m) ==
  /\ Run(p, n) /\ Run(h, Nth(n, Len(p))) /\ Run(f, Nth(n, Len(p) + Len(h)))
  /\ m = Nth(n, Len(p) + Len(h) + Len(f))

Fits(p, h, f) == Len(p) + Len(h) + Len(f) < Numbers

LEMMA PiecesType ==
  ASSUME NEW p, NEW h, NEW f, NEW n \in Number, NEW m, Pieces(p, h, f, n, m), Fits(p, h, f)
  PROVE  /\ Len(p) \in Nat /\ Len(h) \in Nat /\ Len(f) \in Nat
         /\ p \in Seq(Stored) /\ h \in Seq(Stored) /\ f \in Seq(Stored)
         /\ Nth(n, Len(p)) \in Number /\ Nth(n, Len(p) + Len(h)) \in Number /\ m \in Number
<1>1. /\ Len(p) \in Nat /\ Len(h) \in Nat /\ Len(f) \in Nat
      /\ p \in Seq(Stored) /\ h \in Seq(Stored) /\ f \in Seq(Stored)
  BY DEF Pieces, Run
<1>2. Len(p) + Len(h) + Len(f) < Numbers /\ m = Nth(n, Len(p) + Len(h) + Len(f))
  BY DEF Pieces, Fits
<1> QED BY <1>1, <1>2, Sizes2 DEF Nth, Number

\* A byte is accepted.
LEMMA PiecesGrow ==
  ASSUME NEW p, NEW h, NEW f, NEW n \in Number, NEW m, Pieces(p, h, f, n, m),
         Fits(p, h, f), Len(p) + Len(h) + Len(f) + 1 < Numbers
  PROVE  Pieces(p, h, Append(f, m), n, Nth(m, 1))
<1>1. /\ Len(p) \in Nat /\ Len(h) \in Nat /\ Len(f) \in Nat /\ f \in Seq(Stored)
      /\ Nth(n, Len(p) + Len(h)) \in Number /\ m \in Number
  BY PiecesType
<1>2. m = Nth(Nth(n, Len(p) + Len(h)), Len(f))
  BY <1>1, NthNth DEF Pieces, Fits
<1>3. Run(Append(f, m), Nth(n, Len(p) + Len(h)))
  <2>1. Run(f, Nth(n, Len(p) + Len(h)))
    BY DEF Pieces
  <2>2. Len(f) < Numbers
    BY <1>1, Sizes2
  <2> QED BY <1>1, <1>2, <2>1, <2>2, RunAppend
<1>4. Len(Append(f, m)) = Len(f) + 1
  BY <1>1
<1>5. Nth(m, 1) = Nth(n, Len(p) + Len(h) + (Len(f) + 1))
  BY <1>1, Sizes2 DEF Pieces, Fits, Nth, Number
<1> QED BY <1>3, <1>4, <1>5 DEF Pieces

\* The oldest byte of the fifo goes behind those in hand.
LEMMA PiecesGet ==
  ASSUME NEW p, NEW h, NEW f, NEW n \in Number, NEW m, Pieces(p, h, f, n, m),
         Fits(p, h, f), f # <<>>
  PROVE  Pieces(p, Append(h, Head(f)), Tail(f), n, m) /\ Head(f) \in Number
<1> DEFINE i == Len(p)
           j == Len(h)
           k == Len(f)
<1>1. /\ i \in Nat /\ j \in Nat /\ k \in Nat /\ h \in Seq(Stored)
      /\ Nth(n, i) \in Number /\ Nth(n, i + j) \in Number /\ i + j + k < Numbers
  BY PiecesType DEF Fits
<1>2. Head(f) = Nth(n, i + j) /\ Run(Tail(f), Nth(Nth(n, i + j), 1)) /\ Len(Tail(f)) = k - 1
  <2>1. Run(f, Nth(n, i + j))
    BY DEF Pieces
  <2>2. k < Numbers
    BY <1>1, Sizes2
  <2> QED BY <1>1, <2>1, <2>2, RunTail
<1>3. k >= 1
  BY PiecesType
<1>4. Nth(n, i + j) = Nth(Nth(n, i), j)
  <2>1. i + j < Numbers
    BY <1>1, Sizes2
  <2> QED BY <1>1, <2>1, NthNth
<1>5. Run(Append(h, Head(f)), Nth(n, i))
  <2>1. Run(h, Nth(n, i))
    BY DEF Pieces
  <2>2. j < Numbers
    BY <1>1, Sizes2
  <2> QED BY <1>1, <1>2, <1>4, <2>1, <2>2, RunAppend
<1>6. Len(Append(h, Head(f))) = j + 1
  BY <1>1, <1>2
<1>7. Nth(Nth(n, i + j), 1) = Nth(n, i + (j + 1))
  BY <1>1, <1>3, Sizes2 DEF Nth, Number
<1>8. i + (j + 1) + (k - 1) = i + j + k
  BY <1>1
<1> QED BY <1>1, <1>2, <1>5, <1>6, <1>7, <1>8 DEF Pieces

\* The oldest byte in hand goes into the pipe.
LEMMA PiecesWrite ==
  ASSUME NEW p, NEW h, NEW f, NEW n \in Number, NEW m, Pieces(p, h, f, n, m),
         Fits(p, h, f), h # <<>>
  PROVE  Pieces(Append(p, Head(h)), Tail(h), f, n, m) /\ Head(h) \in Number
<1> DEFINE i == Len(p)
           j == Len(h)
           k == Len(f)
<1>1. /\ i \in Nat /\ j \in Nat /\ k \in Nat /\ p \in Seq(Stored)
      /\ Nth(n, i) \in Number /\ i + j + k < Numbers
  BY PiecesType DEF Fits
<1>2. Head(h) = Nth(n, i) /\ Run(Tail(h), Nth(Nth(n, i), 1)) /\ Len(Tail(h)) = j - 1
  <2>1. Run(h, Nth(n, i))
    BY DEF Pieces
  <2>2. j < Numbers
    BY <1>1, Sizes2
  <2> QED BY <1>1, <2>1, <2>2, RunTail
<1>3. j >= 1
  BY PiecesType
<1>4. Run(Append(p, Head(h)), n)
  <2>1. Run(p, n)
    BY DEF Pieces
  <2>2. i < Numbers
    BY <1>1, Sizes2
  <2> QED BY <1>1, <1>2, <2>1, <2>2, RunAppend
<1>5. Len(Append(p, Head(h))) = i + 1
  BY <1>1, <1>2
<1>6. Nth(Nth(n, i), 1) = Nth(n, i + 1)
  BY <1>1, <1>3, Sizes2 DEF Nth, Number
<1>7. (i + 1) + (j - 1) = i + j
  BY <1>1
<1> QED BY <1>1, <1>2, <1>4, <1>5, <1>6, <1>7 DEF Pieces

\* The first k bytes leave the pipe: one is printed, or all are flushed.
LEMMA PiecesTake ==
  ASSUME NEW p, NEW h, NEW f, NEW n \in Number, NEW m, Pieces(p, h, f, n, m),
         Fits(p, h, f), p # <<>>
  PROVE  Pieces(Tail(p), h, f, Nth(n, 1), m) /\ Head(p) = n
<1> DEFINE i == Len(p)
           j == Len(h)
           k == Len(f)
<1>1. /\ i \in Nat /\ j \in Nat /\ k \in Nat /\ i + j + k < Numbers
  BY PiecesType DEF Fits
<1>2. Head(p) = n /\ Run(Tail(p), Nth(n, 1)) /\ Len(Tail(p)) = i - 1
  <2>1. Run(p, n)
    BY DEF Pieces
  <2>2. i < Numbers
    BY <1>1, Sizes2
  <2> QED BY <1>1, <2>1, <2>2, RunTail
<1>3. i >= 1
  BY PiecesType
<1>4. \A a \in Nat : 1 <= a /\ a < Numbers => Nth(Nth(n, 1), a - 1) = Nth(n, a)
  BY Sizes2 DEF Nth, Number
<1>5. /\ Nth(Nth(n, 1), i - 1) = Nth(n, i)
      /\ Nth(Nth(n, 1), (i - 1) + j) = Nth(n, i + j)
      /\ Nth(Nth(n, 1), (i - 1) + j + k) = Nth(n, i + j + k)
  <2>1. /\ i < Numbers
        /\ i + j \in Nat /\ 1 <= i + j /\ i + j < Numbers /\ (i + j) - 1 = (i - 1) + j
        /\ i + j + k \in Nat /\ 1 <= i + j + k /\ (i + j + k) - 1 = (i - 1) + j + k
    BY <1>1, <1>3, Sizes2
  <2> HIDE DEF i, j, k
  <2> QED BY <1>1, <1>3, <1>4, <2>1
<1> QED BY <1>2, <1>5 DEF Pieces

LEMMA PiecesFlush ==
  ASSUME NEW p, NEW h, NEW f, NEW n \in Number, NEW m, Pieces(p, h, f, n, m), Fits(p, h, f)
  PROVE  Pieces(<<>>, h, f, Nth(n, Len(p)), m) /\ Nth(n, Len(p)) \in Number
<1> DEFINE i == Len(p)
           j == Len(h)
           k == Len(f)
<1>1. /\ i \in Nat /\ j \in Nat /\ k \in Nat /\ i + j + k < Numbers /\ Nth(n, i) \in Number
  BY PiecesType DEF Fits
<1>2. /\ Nth(Nth(n, i), j) = Nth(n, i + j)
      /\ Nth(Nth(n, i), j + k) = Nth(n, i + j + k)
  <2>1. i + j < Numbers /\ i + (j + k) < Numbers /\ j + k \in Nat /\ i + (j + k) = i + j + k
    BY <1>1, Sizes2
  <2> HIDE DEF i, j, k
  <2> QED BY <1>1, <2>1, NthNth
<1>3. Nth(Nth(n, i), 0) = Nth(n, i)
  BY <1>1, Sizes2 DEF Nth, Number
<1>4. Run(<<>>, Nth(n, i)) /\ Len(<<>>) = 0 /\ 0 + j = j /\ 0 + j + k = j + k
  BY <1>1 DEF Run
<1> QED BY <1>1, <1>2, <1>3, <1>4 DEF Pieces

LEMMA PiecesStream ==
  ASSUME NEW p, NEW h, NEW f, NEW n \in Number, NEW m, Pieces(p, h, f, n, m), Fits(p, h, f)
  PROVE  /\ m = Nth(n, Len(p \o h \o f))
         /\ \A k \in 1..Len(p \o h \o f) : (p \o h \o f)[k] = Nth(n, k - 1)
<1> DEFINE i == Len(p)
           j == Len(h)
           w == p \o h \o f
<1>1. /\ i \in Nat /\ j \in Nat /\ Len(f) \in Nat /\ i + j + Len(f) < Numbers
      /\ p \in Seq(Stored) /\ h \in Seq(Stored) /\ f \in Seq(Stored)
  BY PiecesType DEF Fits
<1>2. /\ Len(w) = i + j + Len(f)
      /\ \A k \in 1..Len(w) : w[k] = IF k <= i THEN p[k] ELSE IF k <= i + j THEN h[k - i] ELSE f[k - (i + j)]
  BY <1>1
<1> HIDE DEF w
<1>3. ASSUME NEW k \in 1..Len(w) PROVE w[k] = Nth(n, k - 1)
  <2>1. CASE k <= i
    BY <1>1, <1>2, <2>1 DEF Pieces, Run
  <2>2. CASE k > i /\ k <= i + j
    <3>1. k - i \in 1..j /\ w[k] = h[k - i]
      BY <1>1, <1>2, <2>2
    <3>2. h[k - i] = Nth(Nth(n, i), (k - i) - 1)
      BY <3>1 DEF Pieces, Run
    <3>3. Nth(Nth(n, i), (k - i) - 1) = Nth(n, k - 1)
      <4>1. (k - i) - 1 \in Nat /\ i + ((k - i) - 1) = k - 1 /\ k - 1 < Numbers
        BY <1>1, <1>2, <2>2, Sizes2
      <4> HIDE DEF i, j
      <4> QED BY <1>1, <4>1, NthNth
    <3> QED BY <3>1, <3>2, <3>3
  <2>3. CASE k > i + j
    <3>1. k - (i + j) \in 1..Len(f) /\ w[k] = f[k - (i + j)]
      BY <1>1, <1>2, <2>3
    <3>2. f[k - (i + j)] = Nth(Nth(n, i + j), (k - (i + j)) - 1)
      BY <3>1 DEF Pieces, Run
    <3>3. Nth(Nth(n, i + j), (k - (i + j)) - 1) = Nth(n, k - 1)
      <4>1. /\ (k - (i + j)) - 1 \in Nat /\ i + j \in Nat
            /\ (i + j) + ((k - (i + j)) - 1) = k - 1 /\ k - 1 < Numbers
        BY <1>1, <1>2, <2>3, Sizes2
      <4> HIDE DEF i, j
      <4> QED BY <1>1, <4>1, NthNth
    <3> QED BY <3>1, <3>2, <3>3
  <2> QED BY <1>1, <1>2, <2>1, <2>2, <2>3
<1>4. m = Nth(n, Len(w))
  BY <1>2 DEF Pieces
<1> QED BY <1>3, <1>4 DEF w

(***************************************************************************)
(* The invariant.                                                          *)
(***************************************************************************)
\* The byte that a signed char cannot tell from "empty" is never sent.
TextOnly == CharSigned => AllOnes \notin Number

Rings == IsRing(rx, FifoCells, Stored) /\ IsRing(pipe, PipeCells, Stored)

\* Who holds the device, and what it has counted and taken.
ReaderBook(r) ==
  /\ step[r] # "open" => busy = TRUE
  /\ step[r] \in {"open", "count", "close"} => buf[r] = <<>>
  /\ step[r] \in {"spin", "get"} =>
       left[r] >= 1 /\ left[r] <= rx.elem /\ Len(buf[r]) + left[r] < FifoCells
  /\ step[r] = "write" => buf[r] # <<>> /\ Len(buf[r]) < FifoCells

Readers ==
  /\ step \in [Reader -> {"open", "count", "spin", "get", "write", "close"}]
  /\ buf \in [Reader -> Seq(Stored)] /\ left \in [Reader -> Nat]
  /\ \A r, s \in Reader : step[r] # "open" /\ step[s] # "open" => r = s
  /\ \A r \in Reader : ReaderBook(r)

PrinterBook ==
  /\ asked \in Nat
  /\ print = "size" => pipe.elem >= 1
  /\ print = "read" => asked >= 1 /\ asked <= pipe.elem

Stream ==
  printed \in Number /\ Pieces(RingItems(pipe), InHand, RingItems(rx), printed, sent)

EchoInv == Rings /\ Readers /\ PrinterBook /\ Stream

\* InHand as a function of the buffers, to speak of it before and after a step.
Hand(b) ==
  LET H == {r \in Reader : b[r] # <<>>}
  IN  IF H = {} THEN <<>> ELSE b[CHOOSE r \in H : TRUE]

LEMMA HandOfHolder ==
  ASSUME NEW b, NEW r \in Reader, \A s \in Reader : s # r => b[s] = <<>>
  PROVE  Hand(b) = b[r]
<1>1. CASE b[r] = <<>>
  BY <1>1 DEF Hand
<1>2. CASE b[r] # <<>>
  <2>1. {s \in Reader : b[s] # <<>>} = {r}
    BY <1>2
  <2> QED BY <2>1 DEF Hand
<1> QED BY <1>1, <1>2

LEMMA HandOfNobody ==
  ASSUME NEW b, \A s \in Reader : b[s] = <<>>
  PROVE  Hand(b) = <<>>
BY DEF Hand

LEMMA OthersIdle ==
  ASSUME Readers, NEW r \in Reader, step[r] # "open"
  PROVE  \A s \in Reader : s # r => step[s] = "open" /\ buf[s] = <<>>
BY DEF Readers, ReaderBook

LEMMA HandNow == InHand = Hand(buf)
BY DEF InHand, Holders, Hand

LEMMA HandIsShort ==
  ASSUME Readers
  PROVE  InHand \in Seq(Stored) /\ Len(InHand) \in Nat /\ Len(InHand) < FifoCells
<1>1. CASE \E r \in Reader : step[r] # "open"
  <2>1. PICK r \in Reader : step[r] # "open"
    BY <1>1
  <2>2. \A s \in Reader : s # r => buf[s] = <<>>
    BY <2>1, OthersIdle
  <2>3. InHand = buf[r]
    BY <2>2, HandOfHolder, HandNow
  <2>4. buf[r] \in Seq(Stored) /\ Len(buf[r]) \in Nat
    BY DEF Readers
  <2>5. buf[r] = <<>> \/ Len(buf[r]) < FifoCells
    <3>1. ReaderBook(r) /\ left[r] \in Nat
      BY DEF Readers
    <3>2. step[r] \in {"count", "spin", "get", "write", "close"}
      BY <2>1 DEF Readers
    <3> QED BY <2>4, <3>1, <3>2, Sizes2 DEF ReaderBook
  <2> QED BY <2>3, <2>4, <2>5, Sizes2
<1>2. CASE \A r \in Reader : step[r] = "open"
  <2>1. \A r \in Reader : buf[r] = <<>>
    BY <1>2 DEF Readers, ReaderBook
  <2>2. InHand = <<>>
    BY <2>1, HandOfNobody, HandNow
  <2> QED BY <2>2, Sizes2
<1> QED BY <1>1, <1>2

\* The room on the way: one more byte never uses up the numbers.
LEMMA RoomForAll ==
  ASSUME EchoInv
  PROVE  /\ Len(RingItems(pipe)) = pipe.elem /\ pipe.elem \in 0..(PipeCells - 1)
         /\ Len(RingItems(rx)) = rx.elem /\ rx.elem \in 0..(FifoCells - 1)
         /\ Len(RingItems(pipe)) + Len(InHand) + Len(RingItems(rx)) + 1 < Numbers
         /\ Fits(RingItems(pipe), InHand, RingItems(rx))
<1>1. IsRing(rx, FifoCells, Stored) /\ IsRing(pipe, PipeCells, Stored)
  BY DEF EchoInv, Rings
<1>2. Len(RingItems(pipe)) = pipe.elem /\ Len(RingItems(rx)) = rx.elem
  BY <1>1, CellCounts, ItemsType
<1>3. pipe.elem \in 0..(PipeCells - 1) /\ rx.elem \in 0..(FifoCells - 1)
  BY <1>1 DEF IsRing, Cells
<1>4. Len(InHand) \in Nat /\ Len(InHand) < FifoCells
  BY HandIsShort DEF EchoInv
<1>5. pipe.elem + Len(InHand) + rx.elem + 1 < Numbers
  BY <1>3, <1>4, Sizes2
<1> QED BY <1>2, <1>3, <1>4, <1>5, Sizes2 DEF Fits

LEMMA EchoInvInit == Init => EchoInv
<1> SUFFICES ASSUME Init PROVE EchoInv
  OBVIOUS
<1>1. /\ IsRing(rx, FifoCells, Stored) /\ rx.elem = 0
      /\ IsRing(pipe, PipeCells, Stored) /\ pipe.elem = 0
  <2>1. NULL \in Stored
    BY DEF Stored
  <2> QED BY <2>1, CellCounts, CreateIsRing DEF Init, PipeCreate, FifoCells, PipeCells
<1>2. Readers /\ PrinterBook
  BY DEF Init, Readers, ReaderBook, PrinterBook
<1>3. Stream
  <2>1. InHand = <<>>
    <3>1. \A s \in Reader : buf[s] = <<>>
      BY DEF Init
    <3> QED BY <3>1, HandOfNobody, HandNow
  <2>2. RingItems(pipe) = <<>> /\ RingItems(rx) = <<>>
    <3>1. /\ RingItems(pipe) \in Seq(Stored) /\ Len(RingItems(pipe)) = 0
          /\ RingItems(rx) \in Seq(Stored) /\ Len(RingItems(rx)) = 0
      BY <1>1, CellCounts, ItemsType
    <3> QED BY <3>1
  <2>3. 0 \in Number /\ Nth(0, 0) = 0 /\ Run(<<>>, 0)
    BY Sizes2 DEF Number, Nth, Run
  <2>4. printed = 0 /\ sent = 0 /\ Len(<<>>) = 0 /\ 0 + 0 = 0 /\ 0 + 0 + 0 = 0
    BY DEF Init
  <2> QED BY <2>1, <2>2, <2>3, <2>4 DEF Stream, Pieces
<1> QED BY <1>1, <1>2, <1>3 DEF EchoInv, Rings

(***************************************************************************)
(* One lemma per action.                                                   *)
(***************************************************************************)
LEMMA ReceiveStep == EchoInv /\ Receive => EchoInv'
<1> SUFFICES ASSUME EchoInv, Receive PROVE EchoInv'
  OBVIOUS
<1>1. /\ ~RingFull(rx) /\ rx' = RingPut(rx, sent) /\ sent' = Nth(sent, 1)
      /\ UNCHANGED <<busy, pipe, step, buf, left, print, asked, printed>>
  BY DEF Receive, Overrun, reader, printer
<1>2. IsRing(rx, FifoCells, Stored) /\ printed \in Number
      /\ Pieces(RingItems(pipe), InHand, RingItems(rx), printed, sent)
  BY DEF EchoInv, Rings, Stream
<1>3. sent \in Number /\ sent \in Stored
  <2>1. sent \in Number
    BY <1>2, RoomForAll, PiecesType
  <2> QED BY <2>1 DEF Stored
<1>4. /\ IsRing(RingPut(rx, sent), FifoCells, Stored)
      /\ RingItems(RingPut(rx, sent)) = Append(RingItems(rx), sent)
  <2>1. FifoCells \in CellCount
    BY CellCounts
  <2>2. IsRing(rx, FifoCells, Stored) /\ sent \in Stored /\ ~RingFull(rx)
    BY <1>1, <1>2, <1>3
  <2> QED BY <2>1, <2>2, PutAppends DEF Grows
<1>5. RingPut(rx, sent).elem = rx.elem + 1
  BY <1>2 DEF IsRing, Cells, RingPut
<1>6. Rings'
  BY <1>1, <1>4 DEF EchoInv, Rings
<1>7. Readers' /\ PrinterBook'
  <2>1. rx.elem \in Nat /\ rx'.elem = rx.elem + 1
    BY <1>1, <1>5, RoomForAll
  <2> QED BY <1>1, <2>1 DEF EchoInv, Readers, ReaderBook, PrinterBook
<1>8. Stream'
  <2>1. Pieces(RingItems(pipe), InHand, Append(RingItems(rx), sent), printed, Nth(sent, 1))
    BY <1>2, RoomForAll, PiecesGrow
  <2>2. InHand' = InHand
    BY <1>1 DEF InHand, Holders
  <2> QED BY <1>1, <1>2, <1>4, <2>1, <2>2 DEF Stream
<1> QED BY <1>6, <1>7, <1>8 DEF EchoInv

\* Steps of a reader, and of nobody, that move no byte.
LEMMA StillStream ==
  EchoInv /\ UNCHANGED <<rx, pipe, buf, sent, printed>> => Rings' /\ Stream'
<1> SUFFICES ASSUME EchoInv, UNCHANGED <<rx, pipe, buf, sent, printed>> PROVE Rings' /\ Stream'
  OBVIOUS
<1>1. InHand' = InHand
  BY DEF InHand, Holders
<1> QED BY <1>1 DEF EchoInv, Rings, Stream

LEMMA OpenStep == ASSUME EchoInv, NEW r \in Reader, Open(r) PROVE EchoInv'
<1>1. /\ ~busy /\ busy' = TRUE /\ step[r] = "open" /\ step' = [step EXCEPT ![r] = "count"]
      /\ UNCHANGED <<rx, pipe, buf, left, print, asked, sent, printed>>
  BY DEF Open, Claim, printer, history
<1>2. \A s \in Reader : step[s] = "open"
  BY <1>1 DEF EchoInv, Readers, ReaderBook
<1>3. Readers' /\ PrinterBook'
  <2>1. \A s \in Reader : step'[s] = IF s = r THEN "count" ELSE "open"
    BY <1>1, <1>2 DEF EchoInv, Readers
  <2> QED BY <1>1, <1>2, <2>1 DEF EchoInv, Readers, ReaderBook, PrinterBook
<1> QED BY <1>1, <1>3, StillStream DEF EchoInv

LEMMA ReadSizeStep == ASSUME EchoInv, NEW r \in Reader, ReadSize(r) PROVE EchoInv'
<1>1. /\ step[r] = "count" /\ left' = [left EXCEPT ![r] = rx.elem]
      /\ step' = [step EXCEPT ![r] = IF rx.elem = 0 THEN "close" ELSE "spin"]
      /\ UNCHANGED <<busy, rx, pipe, buf, print, asked, sent, printed>>
  BY DEF ReadSize, uart, printer, history
<1>2. rx.elem \in Nat /\ rx.elem < FifoCells
  BY RoomForAll, Sizes2
<1>3. buf[r] = <<>> /\ busy = TRUE
  BY <1>1 DEF EchoInv, Readers, ReaderBook
<1>4. /\ step' \in [Reader -> {"open", "count", "spin", "get", "write", "close"}]
      /\ left' \in [Reader -> Nat]
  BY <1>1, <1>2 DEF EchoInv, Readers
<1>5. \A s \in Reader : s # r => step'[s] = "open" /\ step[s] = "open" /\ buf'[s] = <<>>
  BY <1>1, OthersIdle DEF EchoInv, Readers
<1>6. ReaderBook(r)'
  <2>1. step'[r] = (IF rx.elem = 0 THEN "close" ELSE "spin") /\ left'[r] = rx.elem
    BY <1>1 DEF EchoInv, Readers
  <2> QED BY <1>1, <1>2, <1>3, <2>1 DEF ReaderBook
<1>7. \A s \in Reader : s # r => ReaderBook(s)'
  BY <1>5 DEF ReaderBook
<1>8. Readers' /\ PrinterBook'
  BY <1>1, <1>4, <1>5, <1>6, <1>7 DEF EchoInv, Readers, PrinterBook
<1> QED BY <1>1, <1>8, StillStream DEF EchoInv

LEMMA SpinStep == ASSUME EchoInv, NEW r \in Reader, Spin(r) PROVE EchoInv'
<1>1. /\ step[r] = "spin" /\ step' = [step EXCEPT ![r] = "get"]
      /\ UNCHANGED <<busy, rx, pipe, buf, left, print, asked, sent, printed>>
  BY DEF Spin, uart, printer, history
<1>2. \A s \in Reader : step'[s] = IF s = r THEN "get" ELSE step[s]
  BY <1>1 DEF EchoInv, Readers
<1>3. step' \in [Reader -> {"open", "count", "spin", "get", "write", "close"}]
  BY <1>1 DEF EchoInv, Readers
<1>4. Readers' /\ PrinterBook'
  BY <1>1, <1>2, <1>3 DEF EchoInv, Readers, ReaderBook, PrinterBook
<1> QED BY <1>1, <1>4, StillStream DEF EchoInv

LEMMA CloseStep == ASSUME EchoInv, NEW r \in Reader, Close(r) PROVE EchoInv'
<1>1. /\ step[r] = "close" /\ step' = [step EXCEPT ![r] = "open"]
      /\ UNCHANGED <<rx, pipe, buf, left, print, asked, sent, printed>>
  BY DEF Close, printer, history
<1>2. \A s \in Reader : step'[s] = "open" /\ buf'[s] = <<>>
  BY <1>1, OthersIdle DEF EchoInv, Readers, ReaderBook
<1>3. step' \in [Reader -> {"open", "count", "spin", "get", "write", "close"}]
  BY <1>1 DEF EchoInv, Readers
<1>4. Readers' /\ PrinterBook'
  BY <1>1, <1>2, <1>3 DEF EchoInv, Readers, ReaderBook, PrinterBook
<1> QED BY <1>1, <1>4, StillStream DEF EchoInv

\* A byte goes from the fifo into the reader's hand; it is there, because it
\* was counted and only this reader takes from the fifo.
LEMMA GetStep == ASSUME EchoInv, NEW r \in Reader, Get(r) PROVE EchoInv'
<1> DEFINE f == RingItems(rx)
<1>1. /\ IsRing(rx, FifoCells, Stored) /\ printed \in Number
      /\ Pieces(RingItems(pipe), InHand, f, printed, sent)
  BY DEF EchoInv, Rings, Stream
<1>2. /\ step[r] = "get" /\ left[r] \in Nat /\ left[r] >= 1 /\ left[r] <= rx.elem
      /\ buf[r] \in Seq(Stored) /\ Len(buf[r]) + left[r] < FifoCells /\ busy = TRUE
  BY DEF Get, EchoInv, Readers, ReaderBook
<1>3. ~RingEmpty(rx)
  <2>1. rx.elem # 0
    BY <1>2, RoomForAll
  <2> QED BY <1>1, <2>1, CellCounts, EmptyMeansNone
<1>4. /\ rx' = RingTake(rx)
      /\ buf' = [buf EXCEPT ![r] = Append(@, RingFront(rx))]
      /\ left' = [left EXCEPT ![r] = @ - 1]
      /\ step' = [step EXCEPT ![r] = IF left[r] = 1 THEN "write" ELSE "spin"]
      /\ UNCHANGED <<busy, pipe, print, asked, sent, printed>>
  BY <1>3 DEF Get, printer, history
<1>5. /\ IsRing(RingTake(rx), FifoCells, Stored) /\ RingItems(RingTake(rx)) = Tail(f)
      /\ f # <<>> /\ RingFront(rx) = Head(f)
  BY <1>1, <1>3, CellCounts, TakeIsTail DEF Shrinks
<1>6. RingTake(rx).elem = rx.elem - 1
  BY <1>1 DEF IsRing, Cells, RingTake
<1>7. /\ Pieces(RingItems(pipe), Append(InHand, Head(f)), Tail(f), printed, sent)
      /\ Head(f) \in Number
  BY <1>1, <1>5, RoomForAll, PiecesGet
<1>8. \A s \in Reader : s # r => step[s] = "open" /\ buf[s] = <<>>
  BY <1>2, OthersIdle DEF EchoInv
<1>9. /\ buf'[r] = Append(buf[r], Head(f)) /\ left'[r] = left[r] - 1
      /\ step'[r] = IF left[r] = 1 THEN "write" ELSE "spin"
      /\ \A s \in Reader : s # r => step'[s] = "open" /\ buf'[s] = <<>>
  BY <1>4, <1>5, <1>8 DEF EchoInv, Readers
<1>10. Stream'
  <2>1. InHand = buf[r]
    BY <1>8, HandOfHolder, HandNow
  <2>2. InHand' = Hand(buf')
    BY DEF InHand, Holders, Hand
  <2>3. Hand(buf') = buf'[r]
    BY <1>9, HandOfHolder
  <2>4. InHand' = Append(InHand, Head(f)) /\ RingItems(rx)' = Tail(f)
    BY <1>4, <1>5, <1>9, <2>1, <2>2, <2>3
  <2> QED BY <1>1, <1>4, <1>7, <2>4 DEF Stream
<1>11. Rings'
  BY <1>4, <1>5 DEF EchoInv, Rings
<1>12. Readers' /\ PrinterBook'
  <2>1. Head(f) \in Stored
    BY <1>7 DEF Stored
  <2>2. /\ Append(buf[r], Head(f)) \in Seq(Stored)
        /\ Len(Append(buf[r], Head(f))) = Len(buf[r]) + 1 /\ Append(buf[r], Head(f)) # <<>>
    BY <1>2, <2>1
  <2>3. /\ step' \in [Reader -> {"open", "count", "spin", "get", "write", "close"}]
        /\ buf' \in [Reader -> Seq(Stored)] /\ left' \in [Reader -> Nat]
    <3>1. step' \in [Reader -> {"open", "count", "spin", "get", "write", "close"}]
      BY <1>4 DEF EchoInv, Readers
    <3>2. buf' \in [Reader -> Seq(Stored)]
      BY <1>4, <1>5, <2>2 DEF EchoInv, Readers
    <3>3. left' \in [Reader -> Nat]
      BY <1>2, <1>4 DEF EchoInv, Readers
    <3> QED BY <3>1, <3>2, <3>3
  <2>4. ReaderBook(r)'
    <3>1. rx'.elem = rx.elem - 1 /\ rx.elem \in Nat /\ Len(buf[r]) \in Nat
      BY <1>2, <1>4, <1>6, RoomForAll
    <3>2. CASE left[r] = 1
      <4>1. step'[r] = "write" /\ buf'[r] # <<>> /\ Len(buf'[r]) = Len(buf[r]) + 1 /\ busy' = TRUE
        BY <1>2, <1>4, <1>9, <2>2, <3>2
      <4> QED BY <1>2, <3>1, <3>2, <4>1, Sizes2 DEF ReaderBook
    <3>3. CASE left[r] # 1
      <4>1. /\ step'[r] = "spin" /\ Len(buf'[r]) = Len(buf[r]) + 1 /\ busy' = TRUE
            /\ left'[r] = left[r] - 1
        BY <1>2, <1>4, <1>9, <2>2, <3>3
      <4> QED BY <1>2, <3>1, <3>3, <4>1, Sizes2 DEF ReaderBook
    <3> QED BY <3>2, <3>3
  <2>5. \A s \in Reader : s # r => ReaderBook(s)'
    BY <1>9 DEF ReaderBook
  <2>6. PrinterBook'
    BY <1>4 DEF EchoInv, PrinterBook
  <2> QED BY <1>9, <2>3, <2>4, <2>5, <2>6 DEF Readers
<1> QED BY <1>10, <1>11, <1>12 DEF EchoInv

LEMMA TailOfBytes ==
  ASSUME NEW h \in Seq(Stored), h # <<>>
  PROVE  /\ Tail(h) \in Seq(Stored) /\ Len(h) \in Nat /\ Len(Tail(h)) = Len(h) - 1
         /\ (Tail(h) = <<>> <=> Len(h) = 1)
<1>1. Tail(h) \in Seq(Stored) /\ Len(h) \in Nat /\ Len(Tail(h)) = Len(h) - 1
  OBVIOUS
<1> DEFINE t == Tail(h)
<1>2. t \in Seq(Stored) /\ Len(t) = Len(h) - 1
  BY <1>1
<1> HIDE DEF t
<1>3. t = <<>> <=> Len(t) = 0
  <2>1. t = <<>> => Len(t) = 0
    OBVIOUS
  <2>2. Len(t) = 0 => t = <<>>
    BY <1>2
  <2> QED BY <2>1, <2>2
<1>4. t = <<>> <=> Len(h) = 1
  BY <1>1, <1>2, <1>3
<1> QED BY <1>1, <1>4 DEF t

LEMMA WriteStep == ASSUME EchoInv, NEW r \in Reader, Write(r) PROVE EchoInv'
<1> DEFINE h == buf[r]
           p == RingItems(pipe)
<1>1. /\ IsRing(pipe, PipeCells, Stored) /\ printed \in Number
      /\ Pieces(p, InHand, RingItems(rx), printed, sent)
  BY DEF EchoInv, Rings, Stream
<1>2. /\ step[r] = "write" /\ h # <<>> /\ h \in Seq(Stored) /\ Len(h) < FifoCells
      /\ ~RingFull(pipe) /\ busy = TRUE
  BY DEF Write, PipeFull, EchoInv, Readers, ReaderBook
<1>3. /\ pipe' = RingPut(pipe, Head(h))
      /\ buf' = [buf EXCEPT ![r] = Tail(@)]
      /\ step' = [step EXCEPT ![r] = IF Len(h) = 1 THEN "close" ELSE "write"]
      /\ UNCHANGED <<busy, rx, left, print, asked, sent, printed>>
  BY DEF Write, PipePut, uart, printer, history
<1>4. \A s \in Reader : s # r => step[s] = "open" /\ buf[s] = <<>>
  BY <1>2, OthersIdle DEF EchoInv
<1>5. InHand = h
  BY <1>4, HandOfHolder, HandNow
<1>6. Pieces(Append(p, Head(h)), Tail(h), RingItems(rx), printed, sent) /\ Head(h) \in Number
  BY <1>1, <1>2, <1>5, RoomForAll, PiecesWrite
<1>7. Head(h) \in Stored
  BY <1>6 DEF Stored
<1>8. /\ IsRing(RingPut(pipe, Head(h)), PipeCells, Stored)
      /\ RingItems(RingPut(pipe, Head(h))) = Append(p, Head(h))
  <2>1. PipeCells \in CellCount
    BY CellCounts
  <2>2. IsRing(pipe, PipeCells, Stored) /\ ~RingFull(pipe)
    BY <1>1, <1>2
  <2> QED BY <1>7, <2>1, <2>2, PutAppends DEF Grows
<1>9. RingPut(pipe, Head(h)).elem = pipe.elem + 1
  BY <1>1 DEF IsRing, Cells, RingPut
<1>10. /\ Tail(h) \in Seq(Stored) /\ Len(h) \in Nat /\ Len(Tail(h)) = Len(h) - 1
       /\ (Tail(h) = <<>> <=> Len(h) = 1)
  BY <1>2, TailOfBytes
<1>11. /\ buf'[r] = Tail(h) /\ step'[r] = IF Len(h) = 1 THEN "close" ELSE "write"
       /\ \A s \in Reader : s # r => step'[s] = "open" /\ buf'[s] = <<>>
  BY <1>3, <1>4 DEF EchoInv, Readers
<1>12. Stream'
  <2>1. InHand' = Hand(buf')
    BY DEF InHand, Holders, Hand
  <2>2. Hand(buf') = buf'[r]
    BY <1>11, HandOfHolder
  <2>3. InHand' = Tail(h) /\ RingItems(pipe)' = Append(p, Head(h))
    BY <1>3, <1>8, <1>11, <2>1, <2>2
  <2> QED BY <1>1, <1>3, <1>6, <2>3 DEF Stream
<1>13. Rings'
  BY <1>3, <1>8 DEF EchoInv, Rings
<1>14. Readers'
  <2>1. /\ step' \in [Reader -> {"open", "count", "spin", "get", "write", "close"}]
        /\ buf' \in [Reader -> Seq(Stored)] /\ left' \in [Reader -> Nat]
    BY <1>3, <1>10 DEF EchoInv, Readers
  <2>2. ReaderBook(r)'
    <3>1. CASE Len(h) = 1
      <4>1. step'[r] = "close" /\ buf'[r] = <<>> /\ busy' = TRUE
        <5>1. step'[r] = "close"
          BY <1>11, <3>1
        <5>2. buf'[r] = <<>>
          BY <1>10, <1>11, <3>1
        <5>3. busy' = TRUE
          BY <1>2, <1>3
        <5> QED BY <5>1, <5>2, <5>3
      <4> QED BY <4>1 DEF ReaderBook
    <3>2. CASE Len(h) # 1
      <4>1. step'[r] = "write" /\ buf'[r] # <<>> /\ Len(buf'[r]) = Len(h) - 1 /\ busy' = TRUE
        BY <1>2, <1>3, <1>10, <1>11, <3>2
      <4> QED BY <1>2, <1>10, <4>1, Sizes2 DEF ReaderBook
    <3> QED BY <3>1, <3>2
  <2>3. \A s \in Reader : s # r => ReaderBook(s)'
    BY <1>11 DEF ReaderBook
  <2> QED BY <1>11, <2>1, <2>2, <2>3 DEF Readers
<1>15. PrinterBook'
  <2>1. pipe'.elem = pipe.elem + 1 /\ pipe.elem \in Nat
    BY <1>3, <1>9, RoomForAll
  <2> QED BY <1>3, <2>1 DEF EchoInv, PrinterBook
<1> QED BY <1>12, <1>13, <1>14, <1>15 DEF EchoInv

LEMMA PollStep == EchoInv /\ Poll => EchoInv'
<1> SUFFICES ASSUME EchoInv, Poll PROVE EchoInv'
  OBVIOUS
<1>1. /\ pipe.elem >= 1 /\ print' = "size"
      /\ UNCHANGED <<busy, rx, pipe, step, buf, left, asked, sent, printed>>
  <2>1. pipe.elem \in Nat
    BY RoomForAll
  <2> QED BY <2>1 DEF Poll, Waiting, PipeSize, uart, reader, history
<1>2. Readers' /\ PrinterBook'
  BY <1>1 DEF EchoInv, Readers, ReaderBook, PrinterBook
<1> QED BY <1>1, <1>2, StillStream DEF EchoInv

LEMMA AskStep == EchoInv /\ Ask => EchoInv'
<1> SUFFICES ASSUME EchoInv, Ask PROVE EchoInv'
  OBVIOUS
<1>1. /\ print = "size" /\ asked' = pipe.elem /\ print' = "read"
      /\ UNCHANGED <<busy, rx, pipe, step, buf, left, sent, printed>>
  BY DEF Ask, PipeSize, uart, reader, history
<1>2. pipe.elem \in Nat
  BY RoomForAll
<1>3. Readers' /\ PrinterBook'
  BY <1>1, <1>2 DEF EchoInv, Readers, ReaderBook, PrinterBook
<1> QED BY <1>1, <1>3, StillStream DEF EchoInv

\* The oldest byte is printed: the pipe is not empty, because the bytes were
\* counted and only this task takes from it, and a byte of text is not -1.
LEMMA ReadByteStep == ASSUME TextOnly, EchoInv, ReadByte PROVE EchoInv'
<1> DEFINE p == RingItems(pipe)
<1>1. /\ IsRing(pipe, PipeCells, Stored) /\ printed \in Number
      /\ Pieces(p, InHand, RingItems(rx), printed, sent)
  BY DEF EchoInv, Rings, Stream
<1>2. print = "read" /\ asked \in Nat /\ asked >= 1 /\ asked <= pipe.elem /\ pipe.elem \in Nat
  <2>1. pipe.elem \in Nat
    BY RoomForAll
  <2> QED BY <2>1 DEF ReadByte, EchoInv, PrinterBook
<1>3. ~RingEmpty(pipe)
  <2>1. pipe.elem # 0
    BY <1>2
  <2>2. PipeCells \in CellCount
    BY CellCounts
  <2> QED BY <1>1, <2>1, <2>2, EmptyMeansNone
<1>4. /\ IsRing(RingTake(pipe), PipeCells, Stored) /\ RingItems(RingTake(pipe)) = Tail(p)
      /\ p # <<>> /\ RingFront(pipe) = Head(p)
  <2>1. PipeCells \in CellCount
    BY CellCounts
  <2> QED BY <1>1, <1>3, <2>1, TakeIsTail DEF Shrinks
<1>5. RingTake(pipe).elem = pipe.elem - 1
  BY <1>1 DEF IsRing, Cells, RingTake
<1>6. Pieces(Tail(p), InHand, RingItems(rx), Nth(printed, 1), sent) /\ Head(p) = printed
  BY <1>1, <1>4, RoomForAll, PiecesTake
<1>7. PipeGet(pipe).pipe = RingTake(pipe) /\ PipeGet(pipe).byte # NoByte
  <2>1. RingFront(pipe) = printed
    BY <1>4, <1>6
  <2>2. printed # NoByte /\ ~(CharSigned /\ printed = AllOnes)
    <3>1. printed # -1
      BY <1>1, Sizes2 DEF Number
    <3>2. ~(CharSigned /\ printed = AllOnes)
      BY <1>1 DEF TextOnly
    <3> QED BY <3>1, <3>2 DEF NoByte
  <2> QED BY <1>3, <2>1, <2>2 DEF PipeGet
<1>8. /\ pipe' = RingTake(pipe) /\ printed' = Nth(printed, 1) /\ asked' = asked - 1
      /\ print' = IF asked = 1 THEN "poll" ELSE "read"
      /\ UNCHANGED <<busy, rx, step, buf, left, sent>>
  BY <1>7 DEF ReadByte, Took, uart, reader
<1>9. Nth(printed, 1) \in Number
  BY <1>1, Sizes2 DEF Nth, Number
<1>10. Stream'
  <2>1. InHand' = InHand
    BY <1>8 DEF InHand, Holders
  <2> QED BY <1>4, <1>6, <1>8, <1>9, <2>1 DEF Stream
<1>11. Rings'
  BY <1>4, <1>8 DEF EchoInv, Rings
<1>12. Readers'
  BY <1>8 DEF EchoInv, Readers, ReaderBook
<1>13. PrinterBook'
  <2>1. pipe'.elem = pipe.elem - 1
    BY <1>5, <1>8
  <2> QED BY <1>2, <1>8, <2>1 DEF PrinterBook
<1> QED BY <1>10, <1>11, <1>12, <1>13 DEF EchoInv

LEMMA FlushStep == EchoInv /\ Flush => EchoInv'
<1> SUFFICES ASSUME EchoInv, Flush PROVE EchoInv'
  OBVIOUS
<1> DEFINE e == PipeFlush(pipe)
<1>1. /\ print = "poll" /\ pipe' = e /\ printed' = Nth(printed, pipe.elem)
      /\ UNCHANGED <<busy, rx, step, buf, left, print, asked, sent>>
  BY DEF Flush, Flushed, uart, reader, printer
<1>2. /\ IsRing(pipe, PipeCells, Stored) /\ printed \in Number
      /\ Pieces(RingItems(pipe), InHand, RingItems(rx), printed, sent)
  BY DEF EchoInv, Rings, Stream
<1>3. IsRing(e, PipeCells, Stored) /\ e.elem = 0
  <2>1. e \in Cells(PipeCells, Stored) /\ e.head = 0 /\ e.tail = 0 /\ e.elem = 0 /\ e.size = PipeCells
    <3>1. pipe \in Cells(PipeCells, Stored) /\ 0 \in 0..(PipeCells - 1)
      BY <1>2, Sizes2 DEF IsRing
    <3>2. e = [pipe EXCEPT !.head = 0, !.tail = 0, !.elem = 0]
      BY DEF PipeFlush
    <3> HIDE DEF e
    <3> QED BY <3>1, <3>2 DEF Cells
  <2> HIDE DEF e
  <2>2. e.tail = Cell(e, e.elem)
    BY <2>1, Sizes2 DEF Cell
  <2> QED BY <2>1, <2>2 DEF IsRing
<1> HIDE DEF e
<1>4. RingItems(e) = <<>>
  <2>1. PipeCells \in CellCount
    BY CellCounts
  <2>2. RingItems(e) \in Seq(Stored) /\ Len(RingItems(e)) = 0
    BY <1>3, <2>1, ItemsType
  <2> QED BY <2>2
<1>5. /\ Pieces(<<>>, InHand, RingItems(rx), Nth(printed, pipe.elem), sent)
      /\ Nth(printed, pipe.elem) \in Number
  BY <1>2, RoomForAll, PiecesFlush
<1>6. Stream'
  <2>1. InHand' = InHand
    BY <1>1 DEF InHand, Holders
  <2> QED BY <1>1, <1>4, <1>5, <2>1 DEF Stream
<1>7. Rings'
  BY <1>1, <1>3 DEF EchoInv, Rings
<1>8. Readers' /\ PrinterBook'
  BY <1>1 DEF EchoInv, Readers, ReaderBook, PrinterBook
<1> QED BY <1>6, <1>7, <1>8 DEF EchoInv

LEMMA EchoInvStep == TextOnly /\ EchoInv /\ [Next]_vars => EchoInv'
<1> SUFFICES ASSUME TextOnly, EchoInv, [Next]_vars PROVE EchoInv'
  OBVIOUS
<1>1. CASE Receive
  BY <1>1, ReceiveStep
<1>2. CASE PrinterStep
  BY <1>2, PollStep, AskStep, ReadByteStep DEF PrinterStep
<1>3. CASE Flush
  BY <1>3, FlushStep
<1>4. CASE \E r \in Reader : ReaderStep(r)
  <2>1. PICK r \in Reader : ReaderStep(r)
    BY <1>4
  <2> QED BY <2>1, OpenStep, ReadSizeStep, SpinStep, GetStep, WriteStep, CloseStep DEF ReaderStep
<1>5. CASE UNCHANGED vars
  <2>1. UNCHANGED <<busy, rx, pipe, step, buf, left, print, asked, sent, printed>>
    BY <1>5 DEF vars, uart, reader, printer, history
  <2>2. Readers' /\ PrinterBook'
    BY <2>1 DEF EchoInv, Readers, ReaderBook, PrinterBook
  <2> QED BY <2>1, <2>2, StillStream DEF EchoInv
<1> QED BY <1>1, <1>2, <1>3, <1>4, <1>5 DEF Next

LEMMA EchoInvAlways == ASSUME TextOnly PROVE Spec => []EchoInv
<1>1. Init => EchoInv
  BY EchoInvInit
<1>2. EchoInv /\ [Next]_vars => EchoInv'
  BY EchoInvStep
<1> QED BY <1>1, <1>2, PTL DEF Spec

(***************************************************************************)
(* The theorems.                                                           *)
(***************************************************************************)
\* For every fifo of two cells or more, every pipe and any number of readers, a
\* byte that was counted outside of a critical section is there when its turn
\* comes, in the fifo of the driver and in the pipe, as long as no byte is 0xff
\* on a target whose char is signed.
THEOREM EchoCounts == ASSUME TextOnly PROVE Spec => []CountedBytesArePresent
<1>1. EchoInv => CountedBytesArePresent
  <2> SUFFICES ASSUME EchoInv PROVE CountedBytesArePresent
    OBVIOUS
  <2>1. rx.elem \in Nat /\ pipe.elem \in Nat
    BY RoomForAll
  <2>2. \A r \in Reader : step[r] \in {"spin", "get"} => left[r] >= 1 /\ rx.elem >= left[r]
    BY <2>1 DEF EchoInv, Readers, ReaderBook
  <2>3. /\ print = "size" => PipeSize(pipe) >= 1
        /\ print = "read" => asked >= 1 /\ PipeSize(pipe) >= asked
    BY <2>1 DEF EchoInv, PrinterBook, PipeSize
  <2>4. rx.tail = Cell(rx, rx.elem) /\ pipe.tail = Cell(pipe, pipe.elem)
    BY DEF EchoInv, Rings, IsRing
  <2> QED BY <2>2, <2>3, <2>4 DEF CountedBytesArePresent
<1>2. Spec => []EchoInv
  BY EchoInvAlways
<1> QED BY <1>1, <1>2, PTL

\* For every fifo of two cells or more, every pipe and any number of readers, the
\* bytes the interrupt accepts go through the fifo, the readers and the pipe in
\* order, with none lost, doubled or invented, under the same condition.
THEOREM EchoStream == ASSUME TextOnly PROVE Spec => []StreamIntact
<1>1. EchoInv => StreamIntact
  <2> SUFFICES ASSUME EchoInv PROVE StreamIntact
    OBVIOUS
  <2>1. \A r, s \in Holders : r = s
    BY DEF EchoInv, Readers, ReaderBook, Holders
  <2>2. /\ sent = Nth(printed, Len(OnTheWay))
        /\ \A k \in 1..Len(OnTheWay) : OnTheWay[k] = Nth(printed, k - 1)
    <3> DEFINE p == RingItems(pipe)
               h == InHand
               f == RingItems(rx)
    <3>1. printed \in Number /\ Pieces(p, h, f, printed, sent) /\ Fits(p, h, f)
      BY RoomForAll DEF EchoInv, Stream
    <3>2. OnTheWay = p \o h \o f
      BY DEF OnTheWay
    <3> HIDE DEF p, h, f
    <3>3. /\ sent = Nth(printed, Len(p \o h \o f))
          /\ \A k \in 1..Len(p \o h \o f) : (p \o h \o f)[k] = Nth(printed, k - 1)
      BY <3>1, PiecesStream
    <3> QED BY <3>2, <3>3
  <2> QED BY <2>1, <2>2 DEF StreamIntact
<1>2. Spec => []EchoInv
  BY EchoInvAlways
<1> QED BY <1>1, <1>2, PTL
=============================================================================
