----------------------------- MODULE I2cProofs ------------------------------
(***************************************************************************)
(* The bus bit by bit and the device on top of it, for bytes of any width, *)
(* any chip address but the one of ones, any registers, any number of      *)
(* clients and any number of bytes in a read.                              *)
(***************************************************************************)
EXTENDS I2cDevice, FiniteSetTheorems, SequenceTheorems, NaturalsInduction, WellFoundedInduction, TLAPS

(***************************************************************************)
(* Induction over the number of bits or bytes, on sets of numbers.         *)
(***************************************************************************)
Less == {ss \in Nat \X Nat : ss[1] < ss[2]}

LEMMA LessWellFounded == IsWellFoundedOn(Less, Nat)
BY NatLessThanWellFounded DEF OpToRel, Less

LEMMA Least ==
  ASSUME NEW T \in SUBSET Nat, T # {}
  PROVE  \E n \in T : \A m \in T : n <= m
<1>1. PICK n \in T : \A m \in T : ~(<<m, n>> \in Less)
  BY LessWellFounded, WFMin
<1>2. \A m \in T : ~(m < n)
  BY <1>1 DEF Less
<1> QED BY <1>2

LEMMA Induct ==
  ASSUME NEW T \in SUBSET Nat, 0 \in T, \A n \in T : n + 1 \in T
  PROVE  T = Nat
<1> SUFFICES ASSUME Nat \ T # {} PROVE FALSE
  OBVIOUS
<1>1. PICK n \in Nat \ T : \A m \in Nat \ T : n <= m
  BY Least
<1>2. n # 0 /\ n - 1 \in Nat
  BY <1>1
<1>3. n - 1 \in T
  BY <1>1, <1>2
<1> QED BY <1>1, <1>2, <1>3

\* Two functions computed by the same loop are the same.
LEMMA SameLoop ==
  ASSUME NEW N \in Nat, NEW f, NEW g, f[0] = g[0],
         \A k \in 1..N : f[k - 1] = g[k - 1] => f[k] = g[k]
  PROVE  f[N] = g[N]
<1> DEFINE T == {k \in Nat : k <= N => f[k] = g[k]}
<1>1. 0 \in T
  OBVIOUS
<1>2. ASSUME NEW n \in T PROVE n + 1 \in T
  <2>1. SUFFICES ASSUME n + 1 <= N PROVE f[n + 1] = g[n + 1]
    OBVIOUS
  <2>2. n + 1 \in 1..N /\ (n + 1) - 1 = n /\ f[n] = g[n]
    BY <2>1
  <2> QED BY <2>2
<1>3. T = Nat
  <2>1. T \in SUBSET Nat
    OBVIOUS
  <2> HIDE DEF T
  <2> QED BY <1>1, <1>2, <2>1, Induct
<1> QED BY <1>3

(***************************************************************************)
(* Powers of two and the bits of a byte.                                   *)
(***************************************************************************)
LEMMA PowerType == ASSUME NEW n \in Nat PROVE 2^n \in Nat
<1>1. IsFiniteSet(1..n) /\ Cardinality(1..n) = n
  BY FS_Interval
<1>2. IsFiniteSet(SUBSET (1..n)) /\ Cardinality(SUBSET (1..n)) = 2^n
  BY <1>1, FS_SUBSET
<1> QED BY <1>2, FS_CardinalityType

LEMMA PowerStep == ASSUME NEW n \in Nat PROVE 2^(n + 1) = 2 * 2^n
<1> DEFINE I == 1..n
           J == 1..(n + 1)
           A == SUBSET I
           B == {X \cup {n + 1} : X \in A}
           F == [X \in A |-> X \cup {n + 1}]
<1>1. IsFiniteSet(I) /\ Cardinality(I) = n /\ IsFiniteSet(J) /\ Cardinality(J) = n + 1
  <2>1. Cardinality(1..n) = IF 1 > n THEN 0 ELSE n - 1 + 1
    BY FS_Interval
  <2>2. n + 1 \in Int /\ Cardinality(1..(n + 1)) = IF 1 > n + 1 THEN 0 ELSE (n + 1) - 1 + 1
    BY FS_Interval
  <2>3. IsFiniteSet(1..n) /\ IsFiniteSet(1..(n + 1))
    BY FS_Interval
  <2> QED BY <2>1, <2>2, <2>3
<1>2. IsFiniteSet(A) /\ Cardinality(A) = 2^n /\ Cardinality(SUBSET J) = 2^(n + 1)
  BY <1>1, FS_SUBSET
<1>3. n + 1 \notin I
  OBVIOUS
<1>4. F \in Bijection(A, B)
  <2>1. ASSUME NEW X \in A, NEW Y \in A, F[X] = F[Y] PROVE X = Y
    <3>1. X \cup {n + 1} = Y \cup {n + 1} /\ n + 1 \notin X /\ n + 1 \notin Y
      BY <1>3, <2>1
    <3> QED BY <3>1
  <2>2. F \in [A -> B] /\ \A b \in B : \E X \in A : F[X] = b
    OBVIOUS
  <2> QED BY <2>1, <2>2 DEF Bijection, Injection, Surjection, IsInjective
<1>5. IsFiniteSet(B) /\ Cardinality(B) = Cardinality(A)
  BY <1>2, <1>4, FS_Bijection DEF ExistsBijection
<1>6. A \cap B = {}
  BY <1>3
<1>7. SUBSET J = A \cup B
  <2>1. J = I \cup {n + 1}
    OBVIOUS
  <2>2. ASSUME NEW X \in SUBSET J PROVE X \in A \cup B
    <3>1. CASE n + 1 \in X
      <4>1. X = (X \ {n + 1}) \cup {n + 1} /\ X \ {n + 1} \in A
        BY <2>1, <3>1
      <4> QED BY <4>1
    <3>2. CASE n + 1 \notin X
      BY <2>1, <3>2
    <3> QED BY <3>1, <3>2
  <2>3. ASSUME NEW X \in A \cup B PROVE X \in SUBSET J
    BY <2>1, <2>3
  <2> QED BY <2>2, <2>3
<1>8. Cardinality(A \cup B) = Cardinality(A) + Cardinality(B) - Cardinality(A \cap B)
  BY <1>2, <1>5, FS_Union
<1>9. Cardinality({}) = 0
  BY FS_EmptySet
<1>10. 2^n \in Nat
  BY PowerType
<1> HIDE DEF I, J, A, B, F
<1>11. Cardinality(SUBSET J) = Cardinality(A) + Cardinality(B) - 0
  BY <1>6, <1>7, <1>8, <1>9
<1> QED BY <1>2, <1>5, <1>10, <1>11

LEMMA PowerPositive == ASSUME NEW n \in Nat PROVE 2^n \in Nat \ {0}
<1> DEFINE T == {k \in Nat : 2^k # 0}
<1>1. 0 \in T
  OBVIOUS
<1>2. ASSUME NEW k \in T PROVE k + 1 \in T
  <2>1. 2^k \in Nat /\ 2^k # 0 /\ 2^(k + 1) = 2 * 2^k
    BY PowerType, PowerStep
  <2> QED BY <2>1
<1>3. T = Nat
  <2>1. T \in SUBSET Nat
    OBVIOUS
  <2> HIDE DEF T
  <2> QED BY <1>1, <1>2, <2>1, Induct
<1> QED BY <1>3, PowerType

\* The first k bits of a byte, as a number, and the next one.
Prefix(v, k) == v \div 2^(Bits - k)

LEMMA Divide ==
  ASSUME NEW p \in Nat \ {0}, NEW v \in Nat
  PROVE  /\ v \div p \in Nat
         /\ v \div (2 * p) = (v \div p) \div 2
         /\ (v \div p) % 2 \in {0, 1}
         /\ v \div p = 2 * ((v \div p) \div 2) + ((v \div p) % 2)
<1>1. v \div p \in Nat /\ v \div (2 * p) = (v \div p) \div 2
  OBVIOUS
<1>2. \A x \in Nat : x % 2 \in {0, 1} /\ x = 2 * (x \div 2) + (x % 2)
  OBVIOUS
<1> QED BY <1>1, <1>2

LEMMA BitsOfByte ==
  ASSUME NEW v \in Byte
  PROVE  /\ Prefix(v, 0) = 0 /\ Prefix(v, Bits) = v
         /\ \A k \in 0..(Bits - 1) :
              /\ Prefix(v, k) \in Nat /\ BitOf(v, k) \in {0, 1}
              /\ Prefix(v, k + 1) = 2 * Prefix(v, k) + BitOf(v, k)
<1>1. Bits \in Nat /\ Bits >= 2
  BY I2cBusAssumption
<1>2. v \in Nat /\ v < 2^Bits
  <2>1. 2^Bits \in Nat
    BY <1>1, PowerType
  <2> QED BY <2>1 DEF Byte
<1>3. Prefix(v, 0) = 0
  <2>1. Bits - 0 = Bits /\ 2^Bits \in Nat \ {0}
    BY <1>1, PowerPositive
  <2> DEFINE p == 2^Bits
  <2>2. p \in Nat \ {0} /\ v < p /\ Prefix(v, 0) = v \div p
    BY <1>2, <2>1 DEF Prefix
  <2> HIDE DEF p
  <2> QED BY <1>2, <2>2
<1>4. Prefix(v, Bits) = v
  <2>1. Bits - Bits = 0 /\ 2^0 = 1
    BY <1>1
  <2>2. Prefix(v, Bits) = v \div 1
    BY <2>1 DEF Prefix
  <2> QED BY <1>2, <2>2
<1>5. ASSUME NEW k \in 0..(Bits - 1)
      PROVE  /\ Prefix(v, k) \in Nat /\ BitOf(v, k) \in {0, 1}
             /\ Prefix(v, k + 1) = 2 * Prefix(v, k) + BitOf(v, k)
  <2> DEFINE m == Bits - 1 - k
             p == 2^m
  <2>1. m \in Nat /\ Bits - k = m + 1 /\ Bits - (k + 1) = m
    BY <1>1
  <2>2. p \in Nat \ {0} /\ 2^(m + 1) = 2 * p
    BY <2>1, PowerPositive, PowerStep
  <2>3. Prefix(v, k + 1) = v \div p /\ BitOf(v, k) = (v \div p) % 2
    BY <2>1 DEF Prefix, BitOf
  <2>4. Prefix(v, k) = v \div (2 * p)
    BY <2>1, <2>2 DEF Prefix
  <2>5. (v \div p) \div 2 \in Nat
    <3>1. v \div p \in Nat
      BY <1>2, <2>2, Divide
    <3>2. \A x \in Nat : x \div 2 \in Nat
      OBVIOUS
    <3> HIDE DEF p
    <3> QED BY <3>1, <3>2
  <2> HIDE DEF m, p
  <2>6. /\ v \div (2 * p) = (v \div p) \div 2 /\ (v \div p) % 2 \in {0, 1}
        /\ v \div p = 2 * ((v \div p) \div 2) + ((v \div p) % 2)
    BY <1>2, <2>2, Divide
  <2>7. Prefix(v, k) = (v \div p) \div 2
    BY <2>4, <2>6
  <2>8. BitOf(v, k) \in {0, 1} /\ Prefix(v, k) \in Nat
    BY <2>3, <2>5, <2>6, <2>7
  <2>9. Prefix(v, k + 1) = 2 * Prefix(v, k) + BitOf(v, k)
    BY <2>3, <2>6, <2>7
  <2> QED BY <2>8, <2>9
<1> QED BY <1>3, <1>4, <1>5

(***************************************************************************)
(* The bus between two clock pulses: SCL low, SDA as the last bit left it. *)
(***************************************************************************)
Low(sda, chip) == [sda |-> sda, scl |-> 0, chip |-> chip]
Chip(mode, n, byte, reg, drive) ==
  [mode |-> mode, n |-> n, byte |-> byte, reg |-> reg, drive |-> drive]
Bit == {0, 1}
Taking == {"addr", "reg", "data"}

\* A record is told by its fields.
LEMMA SameChip ==
  ASSUME NEW m, NEW n, NEW b, NEW r, NEW d,
         NEW x \in [mode : {m}, n : {n}, byte : {b}, reg : {r}, drive : {d}]
  PROVE  x = Chip(m, n, b, r, d)
BY DEF Chip

LEMMA SameBus ==
  ASSUME NEW s, NEW l, NEW c, NEW x \in [sda : {s}, scl : {l}, chip : {c}]
  PROVE  x = [sda |-> s, scl |-> l, chip |-> c]
OBVIOUS

\* What the chip makes of a rising edge, and the master of an edge it drives.
LEMMA RiseIs ==
  ASSUME NEW m, m # "idle", NEW n, NEW b, NEW r, NEW d, NEW line
  PROVE  ChipRise(Chip(m, n, b, r, d), line)
           = Chip(m, n + 1, IF m = "send" THEN IF n = Bits THEN line ELSE b
                            ELSE IF n < Bits THEN 2 * b + line ELSE b, r, d)
<1> DEFINE c == Chip(m, n, b, r, d)
           y == IF m = "send" THEN IF n = Bits THEN line ELSE b
                ELSE IF n < Bits THEN 2 * b + line ELSE b
<1>1. ChipRise(c, line) = [c EXCEPT !.n = n + 1, !.byte = y]
  BY DEF ChipRise, Chip
<1>2. [c EXCEPT !.n = n + 1, !.byte = y]
        \in [mode : {m}, n : {n + 1}, byte : {y}, reg : {r}, drive : {d}]
  <2> HIDE DEF y
  <2> QED BY DEF Chip
<1> QED BY <1>1, <1>2, SameChip

LEMMA RiseIdle ==
  ASSUME NEW n, NEW b, NEW r, NEW d, NEW line
  PROVE  ChipRise(Chip("idle", n, b, r, d), line) = Chip("idle", n, b, r, d)
BY DEF ChipRise, Chip

LEMMA SclIs ==
  ASSUME NEW s, NEW l, NEW c, NEW v, l # v
  PROVE  SetScl([sda |-> s, scl |-> l, chip |-> c], v)
           = [sda |-> s, scl |-> v,
              chip |-> IF v = 1 THEN ChipRise(c, Sda([sda |-> s, scl |-> l, chip |-> c]))
                       ELSE ChipFall(c)]
<1> DEFINE x == [sda |-> s, scl |-> l, chip |-> c]
           y == IF v = 1 THEN ChipRise(c, Sda(x)) ELSE ChipFall(c)
<1>1. SetScl(x, v) = [x EXCEPT !.scl = v, !.chip = y]
  BY DEF SetScl
<1>2. [x EXCEPT !.scl = v, !.chip = y] \in [sda : {s}, scl : {v}, chip : {y}]
  <2> HIDE DEF y
  <2> QED OBVIOUS
<1> QED BY <1>1, <1>2, SameBus

\* A pulse: SDA is set while SCL is low, which the chip does not see; it reads
\* the line when SCL rises and acts when SCL falls.
LEMMA Pulse ==
  ASSUME NEW s \in Bit, NEW bit \in Bit, NEW m, NEW n, NEW b, NEW r, NEW d \in Bit,
         NEW line, line = IF bit = 1 /\ d = 1 THEN 1 ELSE 0
  PROVE  LET chip == Chip(m, n, b, r, d)
             high == SetScl(SetSda(Low(s, chip), bit), 1)
         IN  /\ high = [sda |-> bit, scl |-> 1, chip |-> ChipRise(chip, line)]
             /\ SetScl(high, 0) = Low(bit, ChipFall(ChipRise(chip, line)))
<1> DEFINE chip == Chip(m, n, b, r, d)
           high == [sda |-> bit, scl |-> 1, chip |-> ChipRise(chip, line)]
<1>1. SetSda(Low(s, chip), bit) = [sda |-> bit, scl |-> 0, chip |-> chip]
  BY DEF SetSda, Low
<1>2. Sda([sda |-> bit, scl |-> 0, chip |-> chip]) = line
  BY DEF Sda, Chip, Bit
<1>3. SetScl([sda |-> bit, scl |-> 0, chip |-> chip], 1) = high
  BY <1>2, SclIs
<1>4. SetScl(high, 0) = Low(bit, ChipFall(ChipRise(chip, line)))
  BY SclIs DEF Low
<1> QED BY <1>1, <1>3, <1>4

LEMMA RiseDrive ==
  ASSUME NEW m, NEW n, NEW b, NEW r, NEW d, NEW line
  PROVE  ChipRise(Chip(m, n, b, r, d), line).drive = d
<1>1. \A x, y : Chip(m, x, y, r, d).drive = d
  BY DEF Chip
<1> QED BY <1>1, RiseIs, RiseIdle

LEMMA WriteBitIs ==
  ASSUME NEW s \in Bit, NEW bit \in Bit, NEW m, NEW n, NEW b, NEW r
  PROVE  WriteBit(Low(s, Chip(m, n, b, r, 1)), bit)
           = Done(Low(bit, ChipFall(ChipRise(Chip(m, n, b, r, 1), bit))), 0)
<1> DEFINE chip == Chip(m, n, b, r, 1)
           high == SetScl(SetSda(Low(s, chip), bit), 1)
<1>1. bit = IF bit = 1 /\ 1 = 1 THEN 1 ELSE 0
  BY DEF Bit
<1>2. 1 \in Bit
  BY DEF Bit
<1>3. /\ high = [sda |-> bit, scl |-> 1, chip |-> ChipRise(chip, bit)]
      /\ SetScl(high, 0) = Low(bit, ChipFall(ChipRise(chip, bit)))
  BY <1>1, <1>2, Pulse
<1>4. Sda(high) = bit
  BY <1>3, RiseDrive DEF Sda, Bit
<1>5. ~(bit = 1 /\ Sda(high) = 0)
  BY <1>4
<1> QED BY <1>3, <1>5 DEF WriteBit

LEMMA ReadBitIs ==
  ASSUME NEW s \in Bit, NEW m, NEW n, NEW b, NEW r, NEW d \in Bit
  PROVE  ReadBit(Low(s, Chip(m, n, b, r, d)))
           = Done(Low(1, ChipFall(ChipRise(Chip(m, n, b, r, d), d))), d)
<1> DEFINE chip == Chip(m, n, b, r, d)
           high == SetScl(SetSda(Low(s, chip), 1), 1)
<1>1. d = (IF 1 = 1 /\ d = 1 THEN 1 ELSE 0) /\ 1 \in Bit
  BY DEF Bit
<1>2. /\ high = [sda |-> 1, scl |-> 1, chip |-> ChipRise(chip, d)]
      /\ SetScl(high, 0) = Low(1, ChipFall(ChipRise(chip, d)))
  BY <1>1, Pulse
<1>3. Sda(high) = d
  BY <1>2, RiseDrive DEF Sda, Bit
<1> QED BY <1>2, <1>3 DEF ReadBit

(***************************************************************************)
(* What the chip does when SCL falls.                                      *)
(***************************************************************************)
LEMMA ChipFields ==
  ASSUME NEW m, NEW n, NEW b, NEW r, NEW d
  PROVE  /\ Chip(m, n, b, r, d).mode = m /\ Chip(m, n, b, r, d).n = n
         /\ Chip(m, n, b, r, d).byte = b /\ Chip(m, n, b, r, d).reg = r
         /\ Chip(m, n, b, r, d).drive = d
BY DEF Chip

LEMMA DriveSet ==
  ASSUME NEW m, NEW n, NEW b, NEW r, NEW d, NEW e
  PROVE  [Chip(m, n, b, r, d) EXCEPT !.drive = e] = Chip(m, n, b, r, e)
<1>1. [Chip(m, n, b, r, d) EXCEPT !.drive = e]
        \in [mode : {m}, n : {n}, byte : {b}, reg : {r}, drive : {e}]
  BY DEF Chip
<1> QED BY <1>1, SameChip

LEMMA StartStopIs ==
  ASSUME NEW m, NEW n, NEW b, NEW r, NEW d
  PROVE  /\ ChipStart(Chip(m, n, b, r, d)) = Chip("addr", 0, 0, r, 1)
         /\ ChipStop(Chip(m, n, b, r, d)) = Chip("idle", 0, 0, r, 1)
<1>1. \A mm : [Chip(m, n, b, r, d) EXCEPT !.mode = mm, !.n = 0, !.byte = 0, !.drive = 1]
                \in [mode : {mm}, n : {0}, byte : {0}, reg : {r}, drive : {1}]
  BY DEF Chip
<1>2. ChipStart(Chip(m, n, b, r, d)) \in [mode : {"addr"}, n : {0}, byte : {0}, reg : {r}, drive : {1}]
  BY <1>1 DEF ChipStart
<1>3. ChipStop(Chip(m, n, b, r, d)) \in [mode : {"idle"}, n : {0}, byte : {0}, reg : {r}, drive : {1}]
  BY <1>1 DEF ChipStop
<1> QED BY <1>2, <1>3, SameChip

\* Between two bits, and at the end of a byte.
LEMMA FallTaking ==
  ASSUME NEW m \in Taking, NEW n \in 1..Bits, NEW b \in Nat, NEW r
  PROVE  ChipFall(Chip(m, n, b, r, 1))
           = IF n < Bits THEN Chip(m, n, b, r, 1)
             ELSE IF m # "addr" \/ b \div 2 = Address THEN Chip(m, n, b, r, 0)
             ELSE Chip("idle", 0, 0, r, 1)
<1> DEFINE c == Chip(m, n, b, r, 1)
<1>1. c.mode = m /\ c.n = n /\ c.byte = b
  BY ChipFields
<1>2. Bits \in Nat /\ m # "idle" /\ m # "send" /\ n # 0 /\ ~(n > Bits)
  BY I2cBusAssumption DEF Taking
<1>3. [c EXCEPT !.drive = 0] = Chip(m, n, b, r, 0) /\ ChipStop(c) = Chip("idle", 0, 0, r, 1)
  BY DriveSet, StartStopIs
<1> HIDE DEF c
<1>4. Mine(c) = (m # "addr" \/ b \div 2 = Address)
  BY <1>1 DEF Mine
<1>5. ChipFall(c) = IF n = Bits THEN IF Mine(c) THEN [c EXCEPT !.drive = 0] ELSE ChipStop(c)
                    ELSE c
  BY <1>1, <1>2 DEF ChipFall
<1>6. n < Bits \/ n = Bits
  BY <1>2
<1> QED BY <1>2, <1>3, <1>4, <1>5, <1>6 DEF c

LEMMA FallSending ==
  ASSUME NEW n \in 1..Bits, NEW b, NEW r, NEW d
  PROVE  ChipFall(Chip("send", n, b, r, d))
           = Chip("send", n, b, r, IF n < Bits THEN BitOf(Register[r], n) ELSE 1)
<1> DEFINE c == Chip("send", n, b, r, d)
           e == IF n < Bits THEN BitOf(Register[r], n) ELSE 1
<1>1. c.mode = "send" /\ c.n = n /\ c.reg = r
  BY ChipFields
<1>2. Bits \in Nat /\ n # 0 /\ ~(n > Bits)
  BY I2cBusAssumption
<1>3. [c EXCEPT !.drive = e] = Chip("send", n, b, r, e)
  BY DriveSet
<1> HIDE DEF c
<1>4. ChipFall(c) = [c EXCEPT !.drive = e]
  BY <1>1, <1>2 DEF ChipFall
<1> QED BY <1>3, <1>4 DEF c

LEMMA FallOver ==
  ASSUME NEW m, m # "idle", NEW b, NEW r, NEW d
  PROVE  ChipFall(Chip(m, Bits + 1, b, r, d)) = ChipNext(Chip(m, Bits + 1, b, r, d))
<1> DEFINE c == Chip(m, Bits + 1, b, r, d)
<1>1. c.mode = m /\ c.n = Bits + 1
  BY ChipFields
<1>2. Bits + 1 # 0 /\ Bits + 1 > Bits
  BY I2cBusAssumption
<1> HIDE DEF c
<1> QED BY <1>1, <1>2 DEF ChipFall, c

LEMMA FallRest ==
  ASSUME NEW m, NEW n, m = "idle" \/ n = 0, NEW b, NEW r, NEW d
  PROVE  ChipFall(Chip(m, n, b, r, d)) = Chip(m, n, b, r, d)
<1> DEFINE c == Chip(m, n, b, r, d)
<1>1. c.mode = m /\ c.n = n
  BY ChipFields
<1> HIDE DEF c
<1> QED BY <1>1 DEF ChipFall, c

\* What the byte that is over makes of the chip.
LEMMA NextIs ==
  ASSUME NEW m, NEW n, NEW b, NEW r, NEW d
  PROVE  LET next == ChipNext(Chip(m, n, b, r, d))
         IN  /\ m = "send" /\ b = 1 => next = Chip("idle", 0, 0, r, 1)
             /\ m = "send" /\ b = 0 =>
                  next = Chip("send", 0, 0, (r + 1) % 2^Bits,
                              BitOf(Register[(r + 1) % 2^Bits], 0))
             /\ m = "addr" /\ b % 2 = 1 =>
                  next = Chip("send", 0, 0, r, BitOf(Register[r], 0))
             /\ m = "addr" /\ b % 2 = 0 => next = Chip("reg", 0, 0, r, 1)
             /\ m = "reg" => next = Chip("data", 0, 0, b, 1)
             /\ m = "data" => next = Chip("data", 0, 0, r, 1)
<1> DEFINE c == Chip(m, n, b, r, d)
           S(x) == [c EXCEPT !.mode = "send", !.n = 0, !.byte = 0, !.reg = x,
                             !.drive = BitOf(Register[x], 0)]
           T(y, x) == [c EXCEPT !.mode = y, !.n = 0, !.byte = 0, !.reg = x, !.drive = 1]
<1>1. c.mode = m /\ c.byte = b /\ c.reg = r
  BY ChipFields
<1>2. /\ ChipStop(c) = Chip("idle", 0, 0, r, 1)
      /\ \A x : S(x) = Chip("send", 0, 0, x, BitOf(Register[x], 0))
      /\ \A y, x : T(y, x) = Chip(y, 0, 0, x, 1)
  <2>1. ASSUME NEW x PROVE S(x) = Chip("send", 0, 0, x, BitOf(Register[x], 0))
    <3>1. S(x) \in [mode : {"send"}, n : {0}, byte : {0}, reg : {x},
                    drive : {BitOf(Register[x], 0)}]
      BY DEF Chip
    <3> HIDE DEF S
    <3> QED BY <3>1, SameChip
  <2>2. ASSUME NEW y, NEW x PROVE T(y, x) = Chip(y, 0, 0, x, 1)
    <3>1. T(y, x) \in [mode : {y}, n : {0}, byte : {0}, reg : {x}, drive : {1}]
      BY DEF Chip
    <3> HIDE DEF T
    <3> QED BY <3>1, SameChip
  <2>3. ChipStop(c) = Chip("idle", 0, 0, r, 1)
    BY StartStopIs
  <2> HIDE DEF S, T, c
  <2> QED BY <2>1, <2>2, <2>3
<1> HIDE DEF c
<1>3. /\ m = "send" /\ b = 1 => ChipNext(c) = ChipStop(c)
      /\ m = "send" /\ b = 0 => ChipNext(c) = S((r + 1) % 2^Bits)
      /\ m = "addr" /\ b % 2 = 1 => ChipNext(c) = S(r)
      /\ m = "addr" /\ b % 2 = 0 => ChipNext(c) = T("reg", r)
      /\ m = "reg" => ChipNext(c) = T("data", b)
      /\ m = "data" => ChipNext(c) = T("data", r)
  BY <1>1 DEF ChipNext
<1> HIDE DEF S, T
<1>4. /\ m = "send" /\ b = 1 => ChipNext(c) = Chip("idle", 0, 0, r, 1)
      /\ m = "send" /\ b = 0 => ChipNext(c) = Chip("send", 0, 0, (r + 1) % 2^Bits,
                              BitOf(Register[(r + 1) % 2^Bits], 0))
      /\ m = "addr" /\ b % 2 = 1 => ChipNext(c) = Chip("send", 0, 0, r, BitOf(Register[r], 0))
      /\ m = "addr" /\ b % 2 = 0 => ChipNext(c) = Chip("reg", 0, 0, r, 1)
      /\ m = "reg" => ChipNext(c) = Chip("data", 0, 0, b, 1)
      /\ m = "data" => ChipNext(c) = Chip("data", 0, 0, r, 1)
  BY <1>2, <1>3
<1> QED BY <1>4 DEF c

\* A one after a byte it sent: the chip stops.
LEMMA NextRefused ==
  ASSUME NEW n, NEW r, NEW d
  PROVE  ChipNext(Chip("send", n, 1, r, d)) = Chip("idle", 0, 0, r, 1)
<1> DEFINE c == Chip("send", n, 1, r, d)
<1>1. c.mode = "send" /\ c.byte = 1
  BY ChipFields
<1>2. ChipStop(c) = Chip("idle", 0, 0, r, 1)
  BY StartStopIs
<1> HIDE DEF c
<1>3. ChipNext(c) = ChipStop(c)
  BY <1>1 DEF ChipNext
<1> QED BY <1>2, <1>3 DEF c

(***************************************************************************)
(* The loops over the bits of a byte.                                      *)
(***************************************************************************)
FunctionOn(g, S) == g = [k \in S |-> g[k]]

LEMMA SentLoop ==
  ASSUME NEW line, NEW byte, NEW g, FunctionOn(g, 0..Bits),
         g[0] = Done(line, 0),
         \A k \in 1..Bits : g[k] = IF g[k - 1].val < 0 THEN g[k - 1]
                                  ELSE WriteBit(g[k - 1].bus, BitOf(byte, k - 1))
  PROVE  Sent(line, byte) = g[Bits]
<1>0. g = [k \in 0..Bits |->
             IF k = 0 THEN Done(line, 0)
             ELSE IF g[k - 1].val < 0 THEN g[k - 1]
             ELSE WriteBit(g[k - 1].bus, BitOf(byte, k - 1))]
  <2> DEFINE F(k) == IF k = 0 THEN Done(line, 0)
                     ELSE IF g[k - 1].val < 0 THEN g[k - 1]
                     ELSE WriteBit(g[k - 1].bus, BitOf(byte, k - 1))
  <2>1. ASSUME NEW k \in 0..Bits PROVE g[k] = F(k)
    <3>1. k = 0 \/ k \in 1..Bits
      BY I2cBusAssumption
    <3> QED BY <3>1
  <2> HIDE DEF F
  <2>2. [k \in 0..Bits |-> g[k]] = [k \in 0..Bits |-> F(k)]
    BY <2>1
  <2>3. g = [k \in 0..Bits |-> F(k)]
    BY <2>2 DEF FunctionOn
  <2> QED BY <2>3 DEF F
<1> DEFINE h == CHOOSE f : f = [k \in 0..Bits |->
                                  IF k = 0 THEN Done(line, 0)
                                  ELSE IF f[k - 1].val < 0 THEN f[k - 1]
                                  ELSE WriteBit(f[k - 1].bus, BitOf(byte, k - 1))]
<1>1. h = [k \in 0..Bits |->
             IF k = 0 THEN Done(line, 0)
             ELSE IF h[k - 1].val < 0 THEN h[k - 1]
             ELSE WriteBit(h[k - 1].bus, BitOf(byte, k - 1))]
  BY <1>0
<1>2. Sent(line, byte) = h[Bits]
  BY DEF Sent
<1> HIDE DEF h
<1>3. Bits \in Nat
  BY I2cBusAssumption
<1>4. h[0] = g[0]
  <2>1. 0 \in 0..Bits
    BY <1>3
  <2>2. h[0] = Done(line, 0)
    BY <1>1, <2>1
  <2> QED BY <2>2
<1>5. ASSUME NEW k \in 1..Bits, h[k - 1] = g[k - 1] PROVE h[k] = g[k]
  <2>1. k \in 0..Bits /\ k # 0
    BY <1>3
  <2> QED BY <1>0, <1>1, <1>5, <2>1
<1>6. h[Bits] = g[Bits]
  BY <1>3, <1>4, <1>5, SameLoop
<1> QED BY <1>2, <1>6

LEMMA ReceivedLoop ==
  ASSUME NEW line, NEW g, FunctionOn(g, 0..Bits),
         g[0] = Done(line, 0),
         \A k \in 1..Bits : g[k] = LET bit == ReadBit(g[k - 1].bus)
                                  IN  Done(bit.bus, 2 * g[k - 1].val + bit.val)
  PROVE  Received(line) = g[Bits]
<1>0. g = [k \in 0..Bits |->
             IF k = 0 THEN Done(line, 0)
             ELSE LET bit == ReadBit(g[k - 1].bus)
                  IN  Done(bit.bus, 2 * g[k - 1].val + bit.val)]
  <2> DEFINE F(k) == IF k = 0 THEN Done(line, 0)
                     ELSE LET bit == ReadBit(g[k - 1].bus)
                          IN  Done(bit.bus, 2 * g[k - 1].val + bit.val)
  <2>1. ASSUME NEW k \in 0..Bits PROVE g[k] = F(k)
    <3>1. k = 0 \/ k \in 1..Bits
      BY I2cBusAssumption
    <3> QED BY <3>1
  <2> HIDE DEF F
  <2>2. [k \in 0..Bits |-> g[k]] = [k \in 0..Bits |-> F(k)]
    BY <2>1
  <2>3. g = [k \in 0..Bits |-> F(k)]
    BY <2>2 DEF FunctionOn
  <2> QED BY <2>3 DEF F
<1> DEFINE h == CHOOSE f : f = [k \in 0..Bits |->
                                  IF k = 0 THEN Done(line, 0)
                                  ELSE LET bit == ReadBit(f[k - 1].bus)
                                       IN  Done(bit.bus, 2 * f[k - 1].val + bit.val)]
<1>1. h = [k \in 0..Bits |->
             IF k = 0 THEN Done(line, 0)
             ELSE LET bit == ReadBit(h[k - 1].bus)
                  IN  Done(bit.bus, 2 * h[k - 1].val + bit.val)]
  BY <1>0
<1>2. Received(line) = h[Bits]
  BY DEF Received
<1> HIDE DEF h
<1>3. Bits \in Nat
  BY I2cBusAssumption
<1>4. h[0] = g[0]
  <2>1. 0 \in 0..Bits
    BY <1>3
  <2>2. h[0] = Done(line, 0)
    BY <1>1, <2>1
  <2> QED BY <2>2
<1>5. ASSUME NEW k \in 1..Bits, h[k - 1] = g[k - 1] PROVE h[k] = g[k]
  <2>1. k \in 0..Bits /\ k # 0
    BY <1>3
  <2>2. h[k] = LET bit == ReadBit(h[k - 1].bus)
               IN  Done(bit.bus, 2 * h[k - 1].val + bit.val)
    BY <1>1, <2>1
  <2>3. g[k] = LET bit == ReadBit(g[k - 1].bus)
               IN  Done(bit.bus, 2 * g[k - 1].val + bit.val)
    OBVIOUS
  <2> QED BY <1>5, <2>2, <2>3
<1>6. h[Bits] = g[Bits]
  BY <1>3, <1>4, <1>5, SameLoop
<1> QED BY <1>2, <1>6

LEMMA PulsedLoop ==
  ASSUME NEW line, NEW g, FunctionOn(g, 0..(Bits + 1)),
         g[0] = line,
         \A k \in 1..(Bits + 1) : g[k] = WriteBit(g[k - 1], 1).bus
  PROVE  Pulsed(line) = g[Bits + 1]
<1>0. g = [k \in 0..(Bits + 1) |-> IF k = 0 THEN line ELSE WriteBit(g[k - 1], 1).bus]
  <2> DEFINE F(k) == IF k = 0 THEN line ELSE WriteBit(g[k - 1], 1).bus
  <2>1. ASSUME NEW k \in 0..(Bits + 1) PROVE g[k] = F(k)
    <3>1. k = 0 \/ k \in 1..(Bits + 1)
      BY I2cBusAssumption
    <3> QED BY <3>1
  <2> HIDE DEF F
  <2>2. [k \in 0..(Bits + 1) |-> g[k]] = [k \in 0..(Bits + 1) |-> F(k)]
    BY <2>1
  <2>3. g = [k \in 0..(Bits + 1) |-> F(k)]
    BY <2>2 DEF FunctionOn
  <2> QED BY <2>3 DEF F
<1> DEFINE h == CHOOSE f : f = [k \in 0..(Bits + 1) |->
                                  IF k = 0 THEN line ELSE WriteBit(f[k - 1], 1).bus]
<1>1. h = [k \in 0..(Bits + 1) |-> IF k = 0 THEN line ELSE WriteBit(h[k - 1], 1).bus]
  BY <1>0
<1>2. Pulsed(line) = h[Bits + 1]
  BY DEF Pulsed
<1> HIDE DEF h
<1>3. Bits \in Nat /\ Bits + 1 \in Nat
  BY I2cBusAssumption
<1>4. h[0] = g[0]
  <2>1. 0 \in 0..(Bits + 1)
    BY <1>3
  <2>2. h[0] = line
    BY <1>1, <2>1
  <2> QED BY <2>2
<1>5. ASSUME NEW k \in 1..(Bits + 1), h[k - 1] = g[k - 1] PROVE h[k] = g[k]
  <2>1. k \in 0..(Bits + 1) /\ k # 0
    BY <1>3
  <2> QED BY <1>0, <1>1, <1>5, <2>1
<1>6. h[Bits + 1] = g[Bits + 1]
  BY <1>3, <1>4, <1>5, SameLoop
<1> QED BY <1>2, <1>6

\* One bit into a chip that takes the byte, and out of one that sends it.
LEMMA TakeBit ==
  ASSUME NEW s \in Bit, NEW bit \in Bit, NEW m \in Taking, NEW k \in 0..(Bits - 1),
         NEW b \in Nat, NEW r
  PROVE  WriteBit(Low(s, Chip(m, k, b, r, 1)), bit)
           = Done(Low(bit, IF k + 1 < Bits THEN Chip(m, k + 1, 2 * b + bit, r, 1)
                           ELSE IF m # "addr" \/ (2 * b + bit) \div 2 = Address
                           THEN Chip(m, k + 1, 2 * b + bit, r, 0)
                           ELSE Chip("idle", 0, 0, r, 1)), 0)
<1>1. k < Bits /\ k + 1 \in 1..Bits /\ 2 * b + bit \in Nat
  BY I2cBusAssumption DEF Bit
<1>2. m # "idle" /\ m # "send"
  BY DEF Taking
<1>3. ChipRise(Chip(m, k, b, r, 1), bit) = Chip(m, k + 1, 2 * b + bit, r, 1)
  BY <1>1, <1>2, RiseIs
<1> DEFINE n == k + 1
           v == 2 * b + bit
<1> HIDE DEF n, v
<1>4. n \in 1..Bits /\ v \in Nat
  BY <1>1 DEF n, v
<1>5. ChipFall(Chip(m, n, v, r, 1))
        = IF n < Bits THEN Chip(m, n, v, r, 1)
          ELSE IF m # "addr" \/ v \div 2 = Address THEN Chip(m, n, v, r, 0)
          ELSE Chip("idle", 0, 0, r, 1)
  BY <1>4, FallTaking
<1>6. WriteBit(Low(s, Chip(m, k, b, r, 1)), bit)
        = Done(Low(bit, ChipFall(Chip(m, n, v, r, 1))), 0)
  BY <1>3, WriteBitIs DEF n, v
<1> QED BY <1>5, <1>6 DEF n, v

LEMMA SendBit ==
  ASSUME NEW s \in Bit, NEW d \in Bit, NEW k \in 0..(Bits - 1), NEW b, NEW r
  PROVE  ReadBit(Low(s, Chip("send", k, b, r, d)))
           = Done(Low(1, Chip("send", k + 1, b, r,
                              IF k + 1 < Bits THEN BitOf(Register[r], k + 1) ELSE 1)), d)
<1>1. k < Bits /\ k # Bits /\ k + 1 \in 1..Bits
  BY I2cBusAssumption
<1>2. ChipRise(Chip("send", k, b, r, d), d) = Chip("send", k + 1, b, r, d)
  BY <1>1, RiseIs
<1>3. ChipFall(Chip("send", k + 1, b, r, d))
        = Chip("send", k + 1, b, r, IF k + 1 < Bits THEN BitOf(Register[r], k + 1) ELSE 1)
  BY <1>1, FallSending
<1> QED BY <1>2, <1>3, ReadBitIs

\* A byte sent to a chip that is addressed arrives, and is acknowledged.
LEMMA SentIs ==
  ASSUME NEW s \in Bit, NEW m \in Taking, NEW v \in Byte, NEW r,
         m = "addr" => v \div 2 = Address
  PROVE  \E t \in Bit : Sent(Low(s, Chip(m, 0, 0, r, 1)), v) = Done(Low(t, Chip(m, Bits, v, r, 0)), 0)
<1> DEFINE line == Low(s, Chip(m, 0, 0, r, 1))
           sda(k) == IF k = 0 THEN s ELSE BitOf(v, k - 1)
           at(k) == Low(sda(k), Chip(m, k, Prefix(v, k), r, IF k < Bits THEN 1 ELSE 0))
           g == [k \in 0..Bits |-> Done(at(k), 0)]
<1>1. Bits \in Nat /\ Bits >= 2
  BY I2cBusAssumption
<1>2. at(0) = line
  BY <1>1, BitsOfByte
<1>3. ASSUME NEW k \in 1..Bits
      PROVE  /\ g[k - 1].val = 0 /\ g[k - 1].bus = at(k - 1)
             /\ WriteBit(at(k - 1), BitOf(v, k - 1)) = g[k]
  <2>1. k - 1 \in 0..(Bits - 1) /\ k - 1 \in 0..Bits /\ (k - 1) + 1 = k /\ k - 1 < Bits
    BY <1>1
  <2>2. g[k - 1] = Done(at(k - 1), 0)
    BY <2>1
  <2>3. g[k - 1].val = 0 /\ g[k - 1].bus = at(k - 1)
    <3> HIDE DEF g, at
    <3> QED BY <2>2 DEF Done
  <2> DEFINE b == Prefix(v, k - 1)
             bit == BitOf(v, k - 1)
  <2>4. b \in Nat /\ bit \in Bit /\ Prefix(v, k) = 2 * b + bit
    BY <2>1, BitsOfByte DEF Bit
  <2>5. sda(k - 1) \in Bit
    <3>1. CASE k = 1
      BY <3>1
    <3>2. CASE k # 1
      <4>1. k - 2 \in 0..(Bits - 1) /\ (k - 1) - 1 = k - 2 /\ k - 1 # 0
        BY <1>1, <3>2
      <4> QED BY <4>1, BitsOfByte DEF Bit
    <3> QED BY <3>1, <3>2
  <2>6. at(k - 1) = Low(sda(k - 1), Chip(m, k - 1, b, r, 1))
    BY <2>1
  <2>7. m # "addr" \/ (k = Bits => (2 * b + bit) \div 2 = Address)
    BY <2>4, BitsOfByte
  <2>8. k < Bits \/ k = Bits
    BY <1>1
  <2> DEFINE x == 2 * b + bit
  <2>9. g[k] = Done(Low(bit, Chip(m, k, x, r, IF k < Bits THEN 1 ELSE 0)), 0)
    BY <1>1, <2>4
  <2>10. WriteBit(Low(sda(k - 1), Chip(m, k - 1, b, r, 1)), bit)
           = Done(Low(bit, IF k < Bits THEN Chip(m, k, x, r, 1)
                           ELSE IF m # "addr" \/ x \div 2 = Address THEN Chip(m, k, x, r, 0)
                           ELSE Chip("idle", 0, 0, r, 1)), 0)
    <3> DEFINE j == k - 1
               z == sda(k - 1)
    <3>1. j \in 0..(Bits - 1) /\ j + 1 = k /\ z \in Bit /\ b \in Nat /\ bit \in Bit
      BY <2>1, <2>4, <2>5
    <3> HIDE DEF j, z, b, bit
    <3>2. WriteBit(Low(z, Chip(m, j, b, r, 1)), bit)
           = Done(Low(bit, IF j + 1 < Bits THEN Chip(m, j + 1, 2 * b + bit, r, 1)
                           ELSE IF m # "addr" \/ (2 * b + bit) \div 2 = Address
                           THEN Chip(m, j + 1, 2 * b + bit, r, 0)
                           ELSE Chip("idle", 0, 0, r, 1)), 0)
      BY <3>1, TakeBit
    <3>3. WriteBit(Low(z, Chip(m, j, b, r, 1)), bit)
           = Done(Low(bit, IF k < Bits THEN Chip(m, k, x, r, 1)
                           ELSE IF m # "addr" \/ x \div 2 = Address THEN Chip(m, k, x, r, 0)
                           ELSE Chip("idle", 0, 0, r, 1)), 0)
      BY <3>1, <3>2
    <3> QED BY <3>3 DEF j, z
  <2> HIDE DEF x, g, at, sda, b
  <2>11. k = Bits => m # "addr" \/ x \div 2 = Address
    BY <2>7 DEF x
  <2>12. WriteBit(at(k - 1), bit) = g[k]
    BY <2>6, <2>8, <2>9, <2>10, <2>11
  <2> QED BY <2>3, <2>12
<1>4. g[0] = Done(line, 0) /\ FunctionOn(g, 0..Bits)
  BY <1>1, <1>2 DEF FunctionOn
<1>5. Sent(line, v) = g[Bits]
  <2> HIDE DEF g, line, at
  <2>1. \A k \in 1..Bits : g[k] = IF g[k - 1].val < 0 THEN g[k - 1]
                                 ELSE WriteBit(g[k - 1].bus, BitOf(v, k - 1))
    BY <1>3
  <2> QED BY <1>4, <2>1, SentLoop
<1>6. g[Bits] = Done(Low(sda(Bits), Chip(m, Bits, v, r, 0)), 0)
  BY <1>1, BitsOfByte
<1>7. sda(Bits) \in Bit
  <2>1. Bits - 1 \in 0..(Bits - 1) /\ Bits # 0
    BY <1>1
  <2> QED BY <2>1, BitsOfByte DEF Bit
<1> HIDE DEF sda
<1> QED BY <1>5, <1>6, <1>7

LEMMA WriteByteIs ==
  ASSUME NEW s \in Bit, NEW m \in Taking, NEW v \in Byte, NEW r,
         m = "addr" => v \div 2 = Address
  PROVE  WriteByte(Low(s, Chip(m, 0, 0, r, 1)), v)
           = Done(Low(1, ChipNext(Chip(m, Bits + 1, v, r, 0))), 0)
<1> DEFINE line == Low(s, Chip(m, 0, 0, r, 1))
<1>1. PICK t \in Bit : Sent(line, v) = Done(Low(t, Chip(m, Bits, v, r, 0)), 0)
  BY SentIs
<1>2. m # "idle" /\ m # "send" /\ ~(Bits < Bits) /\ 0 \in Bit
  BY I2cBusAssumption DEF Taking, Bit
<1>3. ChipRise(Chip(m, Bits, v, r, 0), 0) = Chip(m, Bits + 1, v, r, 0)
  BY <1>2, RiseIs
<1>4. ChipFall(Chip(m, Bits + 1, v, r, 0)) = ChipNext(Chip(m, Bits + 1, v, r, 0))
  BY <1>2, FallOver
<1>5. ReadBit(Low(t, Chip(m, Bits, v, r, 0))) = Done(Low(1, ChipNext(Chip(m, Bits + 1, v, r, 0))), 0)
  BY <1>2, <1>3, <1>4, ReadBitIs
<1> HIDE DEF line
<1>6. Sent(line, v).val = 0 /\ Sent(line, v).bus = Low(t, Chip(m, Bits, v, r, 0))
  BY <1>1 DEF Done
<1>7. WriteByte(line, v) = ReadBit(Low(t, Chip(m, Bits, v, r, 0)))
  BY <1>6 DEF WriteByte
<1> QED BY <1>5, <1>7 DEF line

\* A chip that sends a register puts its contents on the line, first bit first.
Sending(r) == Chip("send", 0, 0, r, BitOf(Register[r], 0))

LEMMA ReceivedIs ==
  ASSUME NEW s \in Bit, NEW r \in Byte
  PROVE  Received(Low(s, Sending(r))) = Done(Low(1, Chip("send", Bits, 0, r, 1)), Register[r])
<1> DEFINE line == Low(s, Sending(r))
           v == Register[r]
           drive(k) == IF k < Bits THEN BitOf(v, k) ELSE 1
           at(k) == Low(IF k = 0 THEN s ELSE 1, Chip("send", k, 0, r, drive(k)))
           g == [k \in 0..Bits |-> Done(at(k), Prefix(v, k))]
<1>1. Bits \in Nat /\ Bits >= 2 /\ v \in Byte
  BY I2cBusAssumption
<1>2. at(0) = line /\ Prefix(v, 0) = 0
  BY <1>1, BitsOfByte DEF Sending
<1>3. ASSUME NEW k \in 1..Bits
      PROVE  g[k] = LET bit == ReadBit(g[k - 1].bus)
                    IN  Done(bit.bus, 2 * g[k - 1].val + bit.val)
  <2> DEFINE j == k - 1
             bit == BitOf(v, j)
             z == IF j = 0 THEN s ELSE 1
  <2>1. j \in 0..(Bits - 1) /\ j \in 0..Bits /\ j + 1 = k /\ j < Bits /\ k # 0
    BY <1>1
  <2>2. z \in Bit /\ bit \in Bit /\ Prefix(v, k) = 2 * Prefix(v, j) + bit
    BY <1>1, <2>1, BitsOfByte DEF Bit
  <2>3. g[j] = Done(Low(z, Chip("send", j, 0, r, bit)), Prefix(v, j))
    BY <2>1
  <2>4. g[k] = Done(Low(1, Chip("send", k, 0, r, drive(k))), Prefix(v, k))
    BY <2>1
  <2> HIDE DEF g, z, j, bit
  <2>5. ReadBit(Low(z, Chip("send", j, 0, r, bit)))
          = Done(Low(1, Chip("send", k, 0, r, drive(k))), bit)
    BY <2>1, <2>2, SendBit
  <2>6. g[j].bus = Low(z, Chip("send", j, 0, r, bit)) /\ g[j].val = Prefix(v, j)
    BY <2>3 DEF Done
  <2>7. /\ ReadBit(g[j].bus).bus = Low(1, Chip("send", k, 0, r, drive(k)))
        /\ ReadBit(g[j].bus).val = bit
    BY <2>5, <2>6 DEF Done
  <2>8. g[k] = Done(ReadBit(g[j].bus).bus, 2 * g[j].val + ReadBit(g[j].bus).val)
    BY <2>2, <2>4, <2>6, <2>7
  <2> QED BY <2>8 DEF j
<1>4. g[0] = Done(line, 0) /\ FunctionOn(g, 0..Bits)
  BY <1>1, <1>2 DEF FunctionOn
<1>5. Received(line) = g[Bits]
  <2> HIDE DEF g, line
  <2> QED BY <1>3, <1>4, ReceivedLoop
<1>6. g[Bits] = Done(Low(1, Chip("send", Bits, 0, r, 1)), v)
  BY <1>1, BitsOfByte
<1> QED BY <1>5, <1>6

LEMMA ReadByteIs ==
  ASSUME NEW s \in Bit, NEW r \in Byte, NEW nack \in Bit
  PROVE  ReadByte(Low(s, Sending(r)), nack)
           = Done(Low(nack, ChipNext(Chip("send", Bits + 1, nack, r, 1))), Register[r])
<1> DEFINE line == Low(s, Sending(r))
           over == Chip("send", Bits + 1, nack, r, 1)
<1>1. Received(line) = Done(Low(1, Chip("send", Bits, 0, r, 1)), Register[r])
  BY ReceivedIs
<1>2. 1 \in Bit /\ ChipRise(Chip("send", Bits, 0, r, 1), nack) = over
  BY RiseIs DEF Bit
<1>3. ChipFall(over) = ChipNext(over)
  BY FallOver
<1>4. WriteBit(Low(1, Chip("send", Bits, 0, r, 1)), nack) = Done(Low(nack, ChipNext(over)), 0)
  BY <1>2, <1>3, WriteBitIs
<1> HIDE DEF line, over
<1>5. /\ Received(line).bus = Low(1, Chip("send", Bits, 0, r, 1))
      /\ Received(line).val = Register[r]
  BY <1>1 DEF Done
<1>6. /\ WriteBit(Received(line).bus, nack).bus = Low(nack, ChipNext(over))
      /\ ~(WriteBit(Received(line).bus, nack).val < 0)
  BY <1>4, <1>5 DEF Done
<1>7. ReadByte(line, nack) = Done(Low(nack, ChipNext(over)), Register[r])
  BY <1>5, <1>6 DEF ReadByte
<1> QED BY <1>7 DEF line, over

(***************************************************************************)
(* START, repeated start and STOP.                                         *)
(***************************************************************************)
High(sda, chip) == [sda |-> sda, scl |-> 1, chip |-> chip]

LEMMA SdaIs ==
  ASSUME NEW s \in Bit, NEW l, NEW m, NEW n, NEW b, NEW r
  PROVE  Sda([sda |-> s, scl |-> l, chip |-> Chip(m, n, b, r, 1)]) = s
BY DEF Sda, Chip, Bit

\* The two edges that the chip listens for, and SDA under a low clock.
LEMMA Edges ==
  ASSUME NEW m, NEW n, NEW b, NEW r
  PROVE  /\ SetSda(High(1, Chip(m, n, b, r, 1)), 0) = High(0, Chip("addr", 0, 0, r, 1))
         /\ SetSda(High(0, Chip(m, n, b, r, 1)), 1) = High(1, Chip("idle", 0, 0, r, 1))
         /\ \A s, v, c : SetSda(Low(s, c), v) = Low(v, c)
<1> DEFINE c == Chip(m, n, b, r, 1)
<1>1. \A s \in Bit : Sda(High(s, c)) = s
  BY SdaIs DEF High
<1>2. ChipStart(c) = Chip("addr", 0, 0, r, 1) /\ ChipStop(c) = Chip("idle", 0, 0, r, 1)
  BY StartStopIs
<1> HIDE DEF c
<1>3. /\ [High(1, c) EXCEPT !.sda = 0] = High(0, c) /\ [High(0, c) EXCEPT !.sda = 1] = High(1, c)
      /\ \A s, x : [High(s, c) EXCEPT !.chip = x] = High(s, x)
      /\ \A s : High(s, c).scl = 1 /\ High(s, c).chip = c
  BY DEF High
<1>4. Sda(High(1, c)) = 1 /\ Sda(High(0, c)) = 0
  BY <1>1 DEF Bit
<1> DEFINE p == High(1, c)
           q == High(0, c)
<1>5. SetSda(p, 0) = High(0, ChipStart(c))
  <2>1. p.scl = 1 /\ [p EXCEPT !.sda = 0] = q /\ Sda(p) # Sda(q) /\ Sda(q) = 0 /\ q.chip = c
    BY <1>3, <1>4
  <2>2. [q EXCEPT !.chip = ChipStart(c)] = High(0, ChipStart(c))
    BY <1>3
  <2> HIDE DEF p, q
  <2>3. SetSda(p, 0) = [q EXCEPT !.chip = ChipStart(q.chip)]
    BY <2>1 DEF SetSda
  <2> QED BY <2>1, <2>2, <2>3
<1>6. SetSda(q, 1) = High(1, ChipStop(c))
  <2>1. q.scl = 1 /\ [q EXCEPT !.sda = 1] = p /\ Sda(p) # Sda(q) /\ Sda(p) # 0 /\ p.chip = c
    BY <1>3, <1>4
  <2>2. [p EXCEPT !.chip = ChipStop(c)] = High(1, ChipStop(c))
    BY <1>3
  <2> HIDE DEF p, q
  <2>3. SetSda(q, 1) = [p EXCEPT !.chip = ChipStop(p.chip)]
    BY <2>1 DEF SetSda
  <2> QED BY <2>1, <2>2, <2>3
<1>7. \A s, v, x : SetSda(Low(s, x), v) = Low(v, x)
  BY DEF SetSda, Low
<1> QED BY <1>2, <1>5, <1>6, <1>7 DEF c

\* START on a free bus.
LEMMA StartFree ==
  ASSUME NEW n, NEW b, NEW r
  PROVE  Start(High(1, Chip("idle", n, b, r, 1))) = Done(Low(0, Chip("addr", 0, 0, r, 1)), 0)
<1>1. Sda(High(1, Chip("idle", n, b, r, 1))) = 1
  BY SdaIs DEF High, Bit
<1>2. SetSda(High(1, Chip("idle", n, b, r, 1)), 0) = High(0, Chip("addr", 0, 0, r, 1))
  BY Edges
<1>3. SetScl(High(0, Chip("addr", 0, 0, r, 1)), 0) = Low(0, ChipFall(Chip("addr", 0, 0, r, 1)))
  BY SclIs DEF High, Low
<1>4. ChipFall(Chip("addr", 0, 0, r, 1)) = Chip("addr", 0, 0, r, 1)
  BY FallRest
<1> QED BY <1>1, <1>2, <1>3, <1>4 DEF Start

\* START under a low clock is none: the chip does not see it.
LEMMA StartHeld ==
  ASSUME NEW s \in Bit, NEW c
  PROVE  \E t \in Bit : Start(Low(s, c)).bus = Low(t, c)
<1>1. CASE Sda(Low(s, c)) = 0
  BY <1>1 DEF Start, Lost
<1>2. CASE Sda(Low(s, c)) # 0
  <2>1. SetSda(Low(s, c), 0) = Low(0, c)
    BY DEF SetSda, Low
  <2>2. SetScl(Low(0, c), 0) = Low(0, c)
    BY DEF SetScl, Low
  <2>3. Start(Low(s, c)) = Done(Low(0, c), 0)
    BY <1>2, <2>1, <2>2 DEF Start
  <2> QED BY <2>3 DEF Done, Bit
<1> QED BY <1>1, <1>2

\* What SCL makes of the line when it rises under a chip that lets go of SDA.
LEMMA SclRises ==
  ASSUME NEW s \in Bit, NEW m, NEW n, NEW b, NEW r
  PROVE  SetScl(Low(s, Chip(m, n, b, r, 1)), 1) = High(s, ChipRise(Chip(m, n, b, r, 1), s))
BY SclIs, SdaIs DEF Low, High

\* A chip that holds nothing is idle or takes a byte after SCL has risen.
LEMMA Risen ==
  ASSUME NEW s \in Bit, NEW m \in Taking \cup {"idle"}, NEW b, NEW r, NEW n
  PROVE  \E x, y : ChipRise(Chip(m, n, b, r, 1), s) = Chip(m, x, y, r, 1)
<1>1. m \in Taking => m # "idle" /\ m # "send"
  BY DEF Taking
<1>2. CASE m = "idle"
  BY <1>2, RiseIdle
<1>3. CASE m # "idle"
  BY <1>3, RiseIs
<1> QED BY <1>2, <1>3

LEMMA RestartIs ==
  ASSUME NEW s \in Bit, NEW m \in Taking \cup {"idle"}, NEW n, NEW b, NEW r
  PROVE  Restart(Low(s, Chip(m, n, b, r, 1))).bus = Low(0, Chip("addr", 0, 0, r, 1))
<1> DEFINE line == Low(s, Chip(m, n, b, r, 1))
           released == SetScl(SetSda(line, 1), 1)
<1>1. 1 \in Bit /\ SetSda(line, 1) = Low(1, Chip(m, n, b, r, 1))
  BY Edges DEF Bit
<1>2. PICK x, y : ChipRise(Chip(m, n, b, r, 1), 1) = Chip(m, x, y, r, 1)
  BY <1>1, Risen
<1>3. released = High(1, Chip(m, x, y, r, 1))
  BY <1>1, <1>2, SclRises
<1> HIDE DEF line, released
<1>4. Sda(released) = 1
  BY <1>1, <1>3, SdaIs DEF High
<1>5. SetSda(released, 0) = High(0, Chip("addr", 0, 0, r, 1))
  BY <1>3, Edges
<1>6. SetScl(High(0, Chip("addr", 0, 0, r, 1)), 0) = Low(0, ChipFall(Chip("addr", 0, 0, r, 1)))
  BY SclIs DEF High, Low
<1>7. ChipFall(Chip("addr", 0, 0, r, 1)) = Chip("addr", 0, 0, r, 1)
  BY FallRest
<1>8. ~(Sda(released) = 0)
  BY <1>4
<1>9. Restart(line) = Done(Low(0, Chip("addr", 0, 0, r, 1)), 0)
  BY <1>5, <1>6, <1>7, <1>8 DEF Restart, released
<1>10. Restart(line).bus = Low(0, Chip("addr", 0, 0, r, 1))
  BY <1>9 DEF Done
<1> QED BY <1>10 DEF line

LEMMA StopIs ==
  ASSUME NEW s \in Bit, NEW m \in Taking \cup {"idle"}, NEW n, NEW b, NEW r
  PROVE  Stop(Low(s, Chip(m, n, b, r, 1))) = High(1, Chip("idle", 0, 0, r, 1))
<1> DEFINE line == Low(s, Chip(m, n, b, r, 1))
<1>1. 0 \in Bit /\ SetSda(line, 0) = Low(0, Chip(m, n, b, r, 1))
  BY Edges DEF Bit
<1>2. PICK x, y : ChipRise(Chip(m, n, b, r, 1), 0) = Chip(m, x, y, r, 1)
  BY <1>1, Risen
<1>3. SetScl(SetSda(line, 0), 1) = High(0, Chip(m, x, y, r, 1))
  BY <1>1, <1>2, SclRises
<1> QED BY <1>3, Edges DEF Stop

\* i2c_reset_bus on a free bus: the ones it sends are nobody's address, so the
\* chip lets go after the first byte of them.
LEMMA OnesPrefix ==
  /\ 2^Bits - 1 \in Byte
  /\ (2^Bits - 1) \div 2 # Address
<1>1. Bits - 1 \in Nat /\ (Bits - 1) + 1 = Bits
  BY I2cBusAssumption
<1> DEFINE p == 2^(Bits - 1)
           q == 2^Bits
<1>2. p \in Nat \ {0} /\ q = 2 * p
  BY <1>1, PowerPositive, PowerStep
<1>3. Address \in Nat /\ Address <= p - 2
  <2>1. p \in Nat /\ Address \in 0..(p - 2)
    BY <1>2, I2cBusAssumption
  <2> HIDE DEF p
  <2> QED BY <2>1
<1>4. q - 1 \in 0..(q - 1)
  <2> HIDE DEF p, q
  <2> QED BY <1>2
<1>5. (q - 1) \div 2 = p - 1
  <2> HIDE DEF p, q
  <2> QED BY <1>2
<1>6. p - 1 # Address
  <2> HIDE DEF p
  <2> QED BY <1>2, <1>3
<1> QED BY <1>4, <1>5, <1>6 DEF Byte

LEMMA PulsedIs ==
  ASSUME NEW r
  PROVE  Pulsed(Low(0, Chip("addr", 0, 0, r, 1))) = Low(1, Chip("idle", 0, 0, r, 1))
<1> DEFINE line == Low(0, Chip("addr", 0, 0, r, 1))
           rest == Low(1, Chip("idle", 0, 0, r, 1))
           at(k) == Low(IF k = 0 THEN 0 ELSE 1, Chip("addr", k, 2^k - 1, r, 1))
           g == [k \in 0..(Bits + 1) |-> IF k < Bits THEN at(k) ELSE rest]
<1>1. Bits \in Nat /\ Bits >= 2 /\ 2^0 = 1
  BY I2cBusAssumption
<1>2. g[0] = line /\ FunctionOn(g, 0..(Bits + 1)) /\ g[Bits + 1] = rest
  BY <1>1 DEF FunctionOn
<1>3. ASSUME NEW k \in 1..Bits PROVE g[k] = WriteBit(g[k - 1], 1).bus
  <2> DEFINE j == k - 1
             p == 2^j
             q == 2^k
             z == IF j = 0 THEN 0 ELSE 1
  <2>1. j \in 0..(Bits - 1) /\ j \in 0..(Bits + 1) /\ j + 1 = k /\ j \in Nat /\ j < Bits
        /\ k \in 0..(Bits + 1) /\ k # 0 /\ z \in Bit /\ 1 \in Bit /\ "addr" \in Taking
    BY <1>1 DEF Bit, Taking
  <2>2. p \in Nat \ {0} /\ q = 2 * p
    BY <2>1, PowerPositive, PowerStep
  <2>3. g[j] = Low(z, Chip("addr", j, p - 1, r, 1))
    BY <2>1
  <2>4. g[k] = IF k < Bits THEN Low(1, Chip("addr", k, q - 1, r, 1)) ELSE rest
    BY <2>1
  <2>5. k = Bits => (q - 1) \div 2 # Address
    BY OnesPrefix
  <2>6. k < Bits \/ k = Bits
    BY <1>1
  <2> HIDE DEF g, p, q, j, z
  <2>7. p - 1 \in Nat /\ 2 * (p - 1) + 1 = q - 1
    BY <2>2
  <2>8. WriteBit(Low(z, Chip("addr", j, p - 1, r, 1)), 1)
          = Done(Low(1, IF j + 1 < Bits THEN Chip("addr", j + 1, 2 * (p - 1) + 1, r, 1)
                        ELSE IF "addr" # "addr" \/ (2 * (p - 1) + 1) \div 2 = Address
                        THEN Chip("addr", j + 1, 2 * (p - 1) + 1, r, 0)
                        ELSE Chip("idle", 0, 0, r, 1)), 0)
    BY <2>1, <2>7, TakeBit
  <2>9. WriteBit(g[j], 1)
          = Done(IF k < Bits THEN Low(1, Chip("addr", k, q - 1, r, 1)) ELSE rest, 0)
    BY <2>1, <2>3, <2>5, <2>6, <2>7, <2>8
  <2>10. WriteBit(g[j], 1).bus = g[k]
    BY <2>4, <2>9 DEF Done
  <2> QED BY <2>10 DEF j
<1>4. g[Bits + 1] = WriteBit(g[Bits], 1).bus
  <2>1. 1 \in Bit /\ g[Bits] = rest /\ g[Bits + 1] = rest
    BY <1>1 DEF Bit
  <2> HIDE DEF g
  <2>2. WriteBit(rest, 1)
          = Done(Low(1, ChipFall(ChipRise(Chip("idle", 0, 0, r, 1), 1))), 0)
    BY <2>1, WriteBitIs
  <2>3. ChipFall(ChipRise(Chip("idle", 0, 0, r, 1), 1)) = Chip("idle", 0, 0, r, 1)
    BY RiseIdle, FallRest
  <2> HIDE DEF rest
  <2>4. WriteBit(rest, 1) = Done(rest, 0)
    BY <2>2, <2>3 DEF rest
  <2> QED BY <2>1, <2>4 DEF Done
<1>5. \A k \in 1..(Bits + 1) : g[k] = WriteBit(g[k - 1], 1).bus
  <2>1. \A k \in 1..(Bits + 1) : k \in 1..Bits \/ (k = Bits + 1 /\ k - 1 = Bits)
    BY <1>1
  <2> HIDE DEF g
  <2> QED BY <1>3, <1>4, <2>1
<1> HIDE DEF g, line, rest
<1>6. Pulsed(line) = g[Bits + 1]
  BY <1>2, <1>5, PulsedLoop
<1> QED BY <1>2, <1>6 DEF line, rest

Idle(r) == High(1, Chip("idle", 0, 0, r, 1))

LEMMA ResetIs ==
  ASSUME NEW r
  PROVE  ResetBus(Idle(r)) = Idle(r)
<1>1. Start(Idle(r)).bus = Low(0, Chip("addr", 0, 0, r, 1))
  BY StartFree DEF Done, Idle
<1>2. Pulsed(Start(Idle(r)).bus) = Low(1, Chip("idle", 0, 0, r, 1))
  BY <1>1, PulsedIs
<1>3. 0 \in Bit /\ 1 \in Bit /\ "idle" \in Taking \cup {"idle"} /\ "addr" \in Taking \cup {"idle"}
  BY DEF Bit, Taking
<1>4. Restart(Low(1, Chip("idle", 0, 0, r, 1))).bus = Low(0, Chip("addr", 0, 0, r, 1))
  BY <1>3, RestartIs
<1>5. Stop(Low(0, Chip("addr", 0, 0, r, 1))) = Idle(r)
  BY <1>3, StopIs DEF Idle
<1> QED BY <1>2, <1>4, <1>5 DEF ResetBus

(***************************************************************************)
(* The loops over bytes: i2c_driver_write and i2c_driver_read.             *)
(***************************************************************************)
LEMMA WrittenLoop ==
  ASSUME NEW line, NEW bytes, Len(bytes) \in Nat, NEW g, FunctionOn(g, 0..Len(bytes)),
         g[0] = Done(line, 0),
         \A k \in 1..Len(bytes) : g[k] = IF g[k - 1].val < 0 THEN g[k - 1]
                                         ELSE WriteByte(g[k - 1].bus, bytes[k])
  PROVE  Written(line, bytes) = g[Len(bytes)]
<1>0. g = [k \in 0..Len(bytes) |->
             IF k = 0 THEN Done(line, 0)
             ELSE IF g[k - 1].val < 0 THEN g[k - 1]
             ELSE WriteByte(g[k - 1].bus, bytes[k])]
  <2> DEFINE F(k) == IF k = 0 THEN Done(line, 0)
                     ELSE IF g[k - 1].val < 0 THEN g[k - 1]
                     ELSE WriteByte(g[k - 1].bus, bytes[k])
  <2>1. ASSUME NEW k \in 0..Len(bytes) PROVE g[k] = F(k)
    <3>1. k = 0 \/ k \in 1..Len(bytes)
      OBVIOUS
    <3> QED BY <3>1
  <2> HIDE DEF F
  <2>2. [k \in 0..Len(bytes) |-> g[k]] = [k \in 0..Len(bytes) |-> F(k)]
    BY <2>1
  <2>3. g = [k \in 0..Len(bytes) |-> F(k)]
    BY <2>2 DEF FunctionOn
  <2> QED BY <2>3 DEF F
<1> DEFINE h == CHOOSE f : f = [k \in 0..Len(bytes) |->
                                  IF k = 0 THEN Done(line, 0)
                                  ELSE IF f[k - 1].val < 0 THEN f[k - 1]
                                  ELSE WriteByte(f[k - 1].bus, bytes[k])]
<1>1. h = [k \in 0..Len(bytes) |->
             IF k = 0 THEN Done(line, 0)
             ELSE IF h[k - 1].val < 0 THEN h[k - 1]
             ELSE WriteByte(h[k - 1].bus, bytes[k])]
  BY <1>0
<1>2. Written(line, bytes) = h[Len(bytes)]
  BY DEF Written
<1> HIDE DEF h
<1>4. h[0] = g[0]
  <2>1. 0 \in 0..Len(bytes)
    OBVIOUS
  <2>2. h[0] = Done(line, 0)
    BY <1>1, <2>1
  <2> QED BY <2>2
<1>5. ASSUME NEW k \in 1..Len(bytes), h[k - 1] = g[k - 1] PROVE h[k] = g[k]
  <2>1. k \in 0..Len(bytes) /\ k # 0
    OBVIOUS
  <2> QED BY <1>0, <1>1, <1>5, <2>1
<1>6. h[Len(bytes)] = g[Len(bytes)]
  BY <1>4, <1>5, SameLoop
<1> QED BY <1>2, <1>6

LEMMA ReadLoop ==
  ASSUME NEW line, NEW count \in Nat, NEW g, FunctionOn(g, 0..count),
         g[0] = Done(line, <<>>),
         \A k \in 1..count :
           g[k] = LET byte == ReadByte(g[k - 1].bus, IF k = count THEN 1 ELSE 0)
                  IN  Done(byte.bus, Append(g[k - 1].val, byte.val))
  PROVE  Read(line, count) = g[count]
<1>0. g = [k \in 0..count |->
             IF k = 0 THEN Done(line, <<>>)
             ELSE LET byte == ReadByte(g[k - 1].bus, IF k = count THEN 1 ELSE 0)
                  IN  Done(byte.bus, Append(g[k - 1].val, byte.val))]
  <2> DEFINE F(k) == IF k = 0 THEN Done(line, <<>>)
                     ELSE LET byte == ReadByte(g[k - 1].bus, IF k = count THEN 1 ELSE 0)
                          IN  Done(byte.bus, Append(g[k - 1].val, byte.val))
  <2>1. ASSUME NEW k \in 0..count PROVE g[k] = F(k)
    <3>1. k = 0 \/ k \in 1..count
      OBVIOUS
    <3> QED BY <3>1
  <2> HIDE DEF F
  <2>2. [k \in 0..count |-> g[k]] = [k \in 0..count |-> F(k)]
    BY <2>1
  <2>3. g = [k \in 0..count |-> F(k)]
    BY <2>2 DEF FunctionOn
  <2> QED BY <2>3 DEF F
<1> DEFINE h == CHOOSE f : f = [k \in 0..count |->
                  IF k = 0 THEN Done(line, <<>>)
                  ELSE LET byte == ReadByte(f[k - 1].bus, IF k = count THEN 1 ELSE 0)
                       IN  Done(byte.bus, Append(f[k - 1].val, byte.val))]
<1>1. h = [k \in 0..count |->
             IF k = 0 THEN Done(line, <<>>)
             ELSE LET byte == ReadByte(h[k - 1].bus, IF k = count THEN 1 ELSE 0)
                  IN  Done(byte.bus, Append(h[k - 1].val, byte.val))]
  BY <1>0
<1>2. Read(line, count) = h[count]
  BY DEF Read
<1> HIDE DEF h
<1>4. h[0] = g[0]
  <2>1. 0 \in 0..count
    OBVIOUS
  <2>2. h[0] = Done(line, <<>>)
    BY <1>1, <2>1
  <2> QED BY <2>2
<1>5. ASSUME NEW k \in 1..count, h[k - 1] = g[k - 1] PROVE h[k] = g[k]
  <2>1. k \in 0..count /\ k # 0
    OBVIOUS
  <2> DEFINE nack == IF k = count THEN 1 ELSE 0
  <2>2. h[k] = LET byte == ReadByte(h[k - 1].bus, nack)
               IN  Done(byte.bus, Append(h[k - 1].val, byte.val))
    BY <1>1, <2>1
  <2>3. g[k] = LET byte == ReadByte(g[k - 1].bus, nack)
               IN  Done(byte.bus, Append(g[k - 1].val, byte.val))
    OBVIOUS
  <2> HIDE DEF nack
  <2> QED BY <1>5, <2>2, <2>3
<1>6. h[count] = g[count]
  BY <1>4, <1>5, SameLoop
<1> QED BY <1>2, <1>6

LEMMA AddressByte ==
  /\ 2 * Address \in Byte /\ (2 * Address) \div 2 = Address /\ (2 * Address) % 2 = 0
  /\ 2 * Address + 1 \in Byte /\ (2 * Address + 1) \div 2 = Address
  /\ (2 * Address + 1) % 2 = 1
<1>1. Bits - 1 \in Nat /\ (Bits - 1) + 1 = Bits
  BY I2cBusAssumption
<1> DEFINE p == 2^(Bits - 1)
           q == 2^Bits
<1>2. p \in Nat \ {0} /\ q = 2 * p
  BY <1>1, PowerPositive, PowerStep
<1>3. Address \in Nat /\ Address <= p - 2
  <2>1. p \in Nat /\ Address \in 0..(p - 2)
    BY <1>2, I2cBusAssumption
  <2> HIDE DEF p
  <2> QED BY <2>1
<1>4. 2 * Address \in 0..(q - 1) /\ 2 * Address + 1 \in 0..(q - 1)
  <2> HIDE DEF p, q
  <2> QED BY <1>2, <1>3
<1>5. \A x \in Nat : /\ (2 * x) \div 2 = x /\ (2 * x) % 2 = 0
                     /\ (2 * x + 1) \div 2 = x /\ (2 * x + 1) % 2 = 1
  OBVIOUS
<1> QED BY <1>3, <1>4, <1>5 DEF Byte

\* The three writes of read_reg_buf.
LEMMA SelectIs ==
  ASSUME NEW s \in Bit, NEW reg \in Byte, NEW r
  PROVE  Write(Low(s, Chip("addr", 0, 0, r, 1)), <<2 * Address, reg>>)
           = Low(1, Chip("data", 0, 0, reg, 1))
<1> DEFINE a == 2 * Address
           line == Low(s, Chip("addr", 0, 0, r, 1))
           one == Low(1, Chip("reg", 0, 0, r, 1))
           two == Low(1, Chip("data", 0, 0, reg, 1))
           g == [k \in 0..2 |-> Done(IF k = 0 THEN line ELSE IF k = 1 THEN one ELSE two, 0)]
<1>1. a \in Byte /\ a \div 2 = Address /\ a % 2 = 0
  BY AddressByte
<1>2. "addr" \in Taking /\ "reg" \in Taking /\ 1 \in Bit
  BY DEF Taking, Bit
<1> HIDE DEF a
<1>3. WriteByte(line, a) = Done(one, 0)
  <2>1. WriteByte(line, a) = Done(Low(1, ChipNext(Chip("addr", Bits + 1, a, r, 0))), 0)
    BY <1>1, <1>2, WriteByteIs
  <2>2. ChipNext(Chip("addr", Bits + 1, a, r, 0)) = Chip("reg", 0, 0, r, 1)
    BY <1>1, NextIs
  <2> QED BY <2>1, <2>2
<1>4. WriteByte(one, reg) = Done(two, 0)
  <2>1. WriteByte(one, reg) = Done(Low(1, ChipNext(Chip("reg", Bits + 1, reg, r, 0))), 0)
    BY <1>2, WriteByteIs
  <2>2. ChipNext(Chip("reg", Bits + 1, reg, r, 0)) = Chip("data", 0, 0, reg, 1)
    BY NextIs
  <2> QED BY <2>1, <2>2
<1> HIDE DEF line, one, two
<1> DEFINE bytes == <<a, reg>>
<1>5. Len(bytes) = 2 /\ bytes[1] = a /\ bytes[2] = reg /\ bytes # <<>>
  OBVIOUS
<1>6. /\ FunctionOn(g, 0..Len(bytes)) /\ g[0] = Done(line, 0) /\ g[1] = Done(one, 0)
      /\ g[2] = Done(two, 0)
  BY <1>5 DEF FunctionOn
<1> HIDE DEF g, bytes
<1>7. ASSUME NEW k \in 1..Len(bytes)
      PROVE  g[k] = IF g[k - 1].val < 0 THEN g[k - 1] ELSE WriteByte(g[k - 1].bus, bytes[k])
  <2>1. k = 1 \/ k = 2
    BY <1>5
  <2>2. /\ g[0].val = 0 /\ g[0].bus = line
        /\ g[1].val = 0 /\ g[1].bus = one
    BY <1>6 DEF Done
  <2>3. CASE k = 1
    BY <1>3, <1>5, <1>6, <2>2, <2>3
  <2>4. CASE k = 2
    BY <1>4, <1>5, <1>6, <2>2, <2>4
  <2> QED BY <2>1, <2>3, <2>4
<1>8. Written(line, bytes) = g[Len(bytes)]
  <2>1. Len(bytes) \in Nat
    BY <1>5
  <2> QED BY <1>6, <1>7, <2>1, WrittenLoop
<1>9. Write(line, bytes) = two
  BY <1>5, <1>6, <1>8 DEF Write, Done
<1> QED BY <1>9 DEF line, two, bytes, a

LEMMA AddressReadIs ==
  ASSUME NEW s \in Bit, NEW r \in Byte
  PROVE  Write(Low(s, Chip("addr", 0, 0, r, 1)), <<2 * Address + 1>>) = Low(1, Sending(r))
<1> DEFINE a == 2 * Address + 1
           line == Low(s, Chip("addr", 0, 0, r, 1))
           one == Low(1, Sending(r))
           g == [k \in 0..1 |-> Done(IF k = 0 THEN line ELSE one, 0)]
<1>1. a \in Byte /\ a \div 2 = Address /\ a % 2 = 1
  BY AddressByte
<1>2. "addr" \in Taking
  BY DEF Taking
<1> HIDE DEF a
<1>3. WriteByte(line, a) = Done(one, 0)
  <2>1. WriteByte(line, a) = Done(Low(1, ChipNext(Chip("addr", Bits + 1, a, r, 0))), 0)
    BY <1>1, <1>2, WriteByteIs
  <2>2. ChipNext(Chip("addr", Bits + 1, a, r, 0)) = Sending(r)
    BY <1>1, NextIs DEF Sending
  <2> QED BY <2>1, <2>2
<1> HIDE DEF line, one
<1> DEFINE bytes == <<a>>
<1>5. Len(bytes) = 1 /\ bytes[1] = a /\ bytes # <<>>
  OBVIOUS
<1>6. FunctionOn(g, 0..Len(bytes)) /\ g[0] = Done(line, 0) /\ g[1] = Done(one, 0)
  BY <1>5 DEF FunctionOn
<1> HIDE DEF g, bytes
<1>7. ASSUME NEW k \in 1..Len(bytes)
      PROVE  g[k] = IF g[k - 1].val < 0 THEN g[k - 1] ELSE WriteByte(g[k - 1].bus, bytes[k])
  <2>1. k = 1
    BY <1>5
  <2>2. g[0].val = 0 /\ g[0].bus = line
    BY <1>6 DEF Done
  <2> QED BY <1>3, <1>5, <1>6, <2>1, <2>2
<1>8. Written(line, bytes) = g[Len(bytes)]
  <2>1. Len(bytes) \in Nat
    BY <1>5
  <2> QED BY <1>6, <1>7, <2>1, WrittenLoop
<1>9. Write(line, bytes) = one
  BY <1>5, <1>6, <1>8 DEF Write, Done
<1> QED BY <1>9 DEF line, one, bytes, a

LEMMA RepeatStartIs ==
  ASSUME NEW s \in Bit, NEW r
  PROVE  Write(Low(s, Chip("data", 0, 0, r, 1)), <<>>) = Low(0, Chip("addr", 0, 0, r, 1))
<1>1. "data" \in Taking \cup {"idle"}
  BY DEF Taking
<1> QED BY <1>1, RestartIs DEF Write

LEMMA NextModulo ==
  ASSUME NEW q \in Nat \ {0}, NEW x \in Nat
  PROVE  ((x % q) + 1) % q = (x + 1) % q
<1>1. PICK d \in Nat, m \in Nat : x = d * q + m /\ m < q /\ x % q = m
  <2>1. x \div q \in Nat /\ x % q \in Nat /\ x % q < q /\ x = (x \div q) * q + (x % q)
    OBVIOUS
  <2> QED BY <2>1
<1>2. \A v, c, n \in Nat : v = c * q + n /\ n < q => v % q = n
  OBVIOUS
<1>3. CASE m + 1 < q
  <2>1. x + 1 = d * q + (m + 1) /\ m + 1 = 0 * q + (m + 1)
    BY <1>1
  <2> QED BY <1>1, <1>2, <1>3, <2>1
<1>4. CASE m + 1 = q
  <2>1. x + 1 = (d + 1) * q + 0 /\ m + 1 = 1 * q + 0
    BY <1>1, <1>4
  <2>2. (x + 1) % q = 0
    <3>1. x + 1 \in Nat /\ d + 1 \in Nat /\ 0 < q
      OBVIOUS
    <3> QED BY <1>2, <2>1, <3>1
  <2>3. (m + 1) % q = 0
    <3>1. m + 1 \in Nat /\ 0 < q
      OBVIOUS
    <3> QED BY <1>2, <2>1, <3>1
  <2> QED BY <1>1, <2>2, <2>3
<1> QED BY <1>1, <1>3, <1>4

\* The registers that follow one another.
After(r, k) == (r + k) % 2^Bits

LEMMA AfterIs ==
  ASSUME NEW r \in Byte, NEW k \in Nat
  PROVE  After(r, k) \in Byte /\ After(r, 0) = r /\ (After(r, k) + 1) % 2^Bits = After(r, k + 1)
<1> DEFINE q == 2^Bits
<1>1. q \in Nat \ {0}
  BY PowerPositive, I2cBusAssumption
<1>2. r \in 0..(q - 1)
  BY DEF Byte
<1> HIDE DEF q
<1>3. (r + k) % q \in 0..(q - 1) /\ (r + 0) % q = r
  BY <1>1, <1>2
<1>4. (((r + k) % q) + 1) % q = (r + (k + 1)) % q
  <2>1. r + k \in Nat
    BY <1>1, <1>2
  <2>2. \A x \in Nat : ((x % q) + 1) % q = (x + 1) % q
    BY <1>1, NextModulo
  <2>3. (r + k) + 1 = r + (k + 1)
    BY <1>1, <1>2
  <2> DEFINE x == r + k
  <2>4. ((x % q) + 1) % q = (x + 1) % q
    <3> HIDE DEF x
    <3> QED BY <2>1, <2>2 DEF x
  <2> QED BY <2>3, <2>4
<1> QED BY <1>3, <1>4 DEF After, Byte, q

Contents(r, count) == [k \in 1..count |-> Register[After(r, k - 1)]]

LEMMA ContentsGrow ==
  ASSUME NEW r \in Byte, NEW j \in Nat
  PROVE  /\ Contents(r, 0) = <<>>
         /\ Append(Contents(r, j), Register[After(r, j)]) = Contents(r, j + 1)
<1> DEFINE F(k) == Register[After(r, k - 1)]
<1>1. \A k \in Nat : After(r, k) \in Byte
  BY AfterIs
<1>2. \A k \in 1..(j + 1) : F(k) \in Byte
  <2>1. \A k \in 1..(j + 1) : k - 1 \in Nat
    OBVIOUS
  <2>2. \A x \in Byte : Register[x] \in Byte
    BY I2cBusAssumption
  <2> QED BY <1>1, <2>1, <2>2
<1>3. F(j + 1) = Register[After(r, j)]
  <2>1. (j + 1) - 1 = j
    OBVIOUS
  <2> QED BY <2>1
<1>4. Contents(r, j) = [k \in 1..j |-> F(k)] /\ Contents(r, j + 1) = [k \in 1..(j + 1) |-> F(k)]
      /\ Contents(r, 0) = [k \in 1..0 |-> F(k)]
  BY DEF Contents
<1> HIDE DEF F
<1>5. [k \in 1..0 |-> F(k)] = <<>>
  OBVIOUS
<1> DEFINE a == [k \in 1..j |-> F(k)]
           b == [k \in 1..(j + 1) |-> F(k)]
<1>6. a \in Seq(Byte) /\ Len(a) = j /\ b \in Seq(Byte) /\ Len(b) = j + 1
  BY <1>2
<1>7. /\ \A k \in 1..j : a[k] = F(k)
      /\ \A k \in 1..(j + 1) : b[k] = F(k)
  OBVIOUS
<1>8. F(j + 1) \in Byte
  BY <1>2
<1> HIDE DEF a, b
<1>9. /\ Append(a, F(j + 1)) \in Seq(Byte) /\ Len(Append(a, F(j + 1))) = j + 1
      /\ \A k \in 1..(j + 1) : Append(a, F(j + 1))[k] = IF k = j + 1 THEN F(j + 1) ELSE a[k]
  BY <1>6, <1>8
<1>10. \A k \in 1..(j + 1) : Append(a, F(j + 1))[k] = b[k]
  <2>1. \A k \in 1..(j + 1) : k = j + 1 \/ k \in 1..j
    OBVIOUS
  <2> QED BY <1>7, <1>9, <2>1
<1>11. Append(a, F(j + 1)) = b
  BY <1>6, <1>9, <1>10, SeqEqual
<1> QED BY <1>3, <1>4, <1>5, <1>11 DEF a, b

LEMMA ReadIs ==
  ASSUME NEW s \in Bit, NEW r \in Byte, NEW count \in Nat \ {0}
  PROVE  \E x \in Byte :
           Read(Low(s, Sending(r)), count)
             = Done(Low(1, Chip("idle", 0, 0, x, 1)), Contents(r, count))
<1> DEFINE line == Low(s, Sending(r))
           rest == Low(1, Chip("idle", 0, 0, After(r, count - 1), 1))
           sda(k) == IF k = 0 THEN s ELSE 0
           at(k) == IF k < count THEN Low(sda(k), Sending(After(r, k))) ELSE rest
           g == [k \in 0..count |-> Done(at(k), Contents(r, k))]
<1>1. count - 1 \in Nat /\ count \in Nat /\ After(r, 0) = r /\ Contents(r, 0) = <<>>
  BY AfterIs, ContentsGrow
<1>2. FunctionOn(g, 0..count) /\ g[0] = Done(line, <<>>) /\ g[count] = Done(rest, Contents(r, count))
  BY <1>1 DEF FunctionOn
<1>3. ASSUME NEW k \in 1..count
      PROVE  g[k] = LET byte == ReadByte(g[k - 1].bus, IF k = count THEN 1 ELSE 0)
                    IN  Done(byte.bus, Append(g[k - 1].val, byte.val))
  <2> DEFINE j == k - 1
             z == sda(j)
             a == After(r, j)
             nack == IF k = count THEN 1 ELSE 0
             c == Contents(r, k)
  <2>1. j \in Nat /\ j \in 0..count /\ j < count /\ j + 1 = k /\ z \in Bit /\ nack \in Bit
    BY DEF Bit
  <2>2. a \in Byte /\ (a + 1) % 2^Bits = After(r, k)
    BY <2>1, AfterIs
  <2>3. Append(Contents(r, j), Register[a]) = c
    BY <2>1, ContentsGrow
  <2>4. g[j] = Done(Low(z, Sending(a)), Contents(r, j))
    BY <2>1
  <2>5. g[k] = Done(IF k < count THEN Low(0, Sending(After(r, k)))
                    ELSE Low(1, Chip("idle", 0, 0, After(r, count - 1), 1)), c)
    OBVIOUS
  <2>6. k = count => a = After(r, count - 1)
    OBVIOUS
  <2>7. nack = (IF k = count THEN 1 ELSE 0) /\ (k < count \/ k = count)
    OBVIOUS
  <2> DEFINE next == IF k = count THEN Chip("idle", 0, 0, a, 1) ELSE Sending(After(r, k))
             chip == ChipNext(Chip("send", Bits + 1, nack, a, 1))
  <2> HIDE DEF g, z, a, c, j, nack
  <2>8. chip = next
    <3>1. CASE k = count
      <4>1. nack = 1
        BY <2>7, <3>1
      <4>2. ChipNext(Chip("send", Bits + 1, 1, a, 1)) = Chip("idle", 0, 0, a, 1)
        BY NextRefused, Zenon
      <4> QED BY <3>1, <4>1, <4>2
    <3>2. CASE k # count
      <4>1. nack = 0
        BY <2>7, <3>2
      <4>2. chip = Sending((a + 1) % 2^Bits)
        BY <4>1, NextIs DEF Sending
      <4> QED BY <2>2, <3>2, <4>2
    <3> QED BY <3>1, <3>2
  <2>9. ReadByte(Low(z, Sending(a)), nack) = Done(Low(nack, chip), Register[a])
    BY <2>1, <2>2, ReadByteIs
  <2>10. g[j].bus = Low(z, Sending(a)) /\ g[j].val = Contents(r, j)
    BY <2>4 DEF Done
  <2> HIDE DEF chip
  <2>11. ReadByte(g[j].bus, nack).bus = Low(nack, next) /\ ReadByte(g[j].bus, nack).val = Register[a]
    BY <2>8, <2>9, <2>10 DEF Done
  <2>12. Append(g[j].val, ReadByte(g[j].bus, nack).val) = c
    BY <2>3, <2>10, <2>11
  <2>13. g[k] = Done(Low(nack, next), c)
    <3>1. CASE k = count
      BY <2>5, <2>6, <2>7, <3>1
    <3>2. CASE k # count
      BY <2>5, <2>7, <3>2
    <3> QED BY <3>1, <3>2
  <2>14. g[k] = Done(ReadByte(g[j].bus, nack).bus,
                     Append(g[j].val, ReadByte(g[j].bus, nack).val))
    BY <2>11, <2>12, <2>13
  <2> QED BY <2>14 DEF j, nack
<1>4. Read(line, count) = g[count]
  <2> HIDE DEF g, line
  <2> QED BY <1>1, <1>2, <1>3, ReadLoop
<1>5. After(r, count - 1) \in Byte
  BY <1>1, AfterIs
<1> QED BY <1>2, <1>4, <1>5

(***************************************************************************)
(* The device. Between two calls of the client that holds it SCL is low    *)
(* and the chip waits for the byte that comes next; with no client the     *)
(* lines are high and the chip waits for a START.                          *)
(***************************************************************************)
Chips(at, w) ==
  IF at = "select" THEN {Chip("addr", 0, 0, r, 1) : r \in Byte}
  ELSE IF at = "restart" THEN {Chip("data", 0, 0, w.reg, 1)}
  ELSE IF at = "address" THEN {Chip("addr", 0, 0, w.reg, 1)}
  ELSE IF at = "read" THEN {Sending(w.reg)}
  ELSE {Chip("idle", 0, 0, r, 1) : r \in Byte}

Transaction == [reg : Byte \cup {CHOOSE r \in Wanted : TRUE}, count : Nat]

DeviceTypes ==
  /\ busy \in BOOLEAN
  /\ step \in [Client -> Steps]
  /\ want \in [Client -> Transaction]
  /\ got = [c \in Client |-> got[c]]

Free == ~busy => \E r \in Byte : bus = Idle(r)

Claimed ==
  /\ \A c, d \in Client : step[c] # "open" /\ step[d] # "open" => c = d
  /\ \A c \in Client : step[c] # "open" => busy

Phase(c) ==
  step[c] # "open" =>
    /\ want[c].reg \in Byte /\ want[c].count \in Nat \ {0}
    /\ \E s \in Bit : \E chip \in Chips(step[c], want[c]) : bus = Low(s, chip)

Returned(c) ==
  c \notin spoilt /\ got[c] # <<>> /\ step[c] \in {"open", "close"} =>
    /\ want[c].reg \in Byte
    /\ got[c] = Contents(want[c].reg, want[c].count)

\* What holds while nothing has disturbed the bus since it was last at rest.
Calm ==
  /\ Free /\ Claimed
  /\ busy => \E c \in Client : step[c] # "open"
  /\ \A c \in Client : Phase(c)

DeviceInv ==
  /\ DeviceTypes
  /\ "read_reg" \notin crossed => Claimed
  /\ crossed = {} => Calm
  /\ \A c \in Client : Returned(c)

\* A bus at rest is calm, whatever happened on it before.
LEMMA RestedIsCalm == Rested => Calm
<1> SUFFICES ASSUME Rested PROVE Calm
  OBVIOUS
<1>1. PICK r \in Byte : bus = [BusIdle EXCEPT !.chip.reg = r]
  BY DEF Rested
<1>2. [BusIdle EXCEPT !.chip.reg = r] = Idle(r)
  BY DEF BusIdle, ChipIdle, Idle, High, Chip
<1>3. ~busy /\ \A c \in Client : step[c] = "open"
  BY DEF Rested
<1> QED BY <1>1, <1>2, <1>3 DEF Calm, Free, Claimed, Phase

LEMMA InitInv == Init => DeviceInv
<1> SUFFICES ASSUME Init PROVE DeviceInv
  OBVIOUS
<1>1. 0 \in Byte
  <2>1. 2^Bits \in Nat \ {0}
    BY I2cBusAssumption, PowerPositive
  <2> QED BY <2>1 DEF Byte
<1>2. BusIdle = Idle(0)
  BY DEF BusIdle, ChipIdle, Idle, High, Chip
<1>3. DeviceTypes
  <2> DEFINE first == CHOOSE r \in Wanted : TRUE
             none == [reg |-> first, count |-> 0]
  <2>1. none \in Transaction
    BY DEF Transaction
  <2>2. want = [c \in Client |-> none]
    BY DEF Init
  <2> HIDE DEF none
  <2>3. want \in [Client -> Transaction]
    BY <2>1, <2>2
  <2> QED BY <2>3 DEF Init, DeviceTypes, Steps
<1>4. Free
  BY <1>1, <1>2 DEF Init, Free
<1>5. \A c \in Client : step[c] = "open" /\ got[c] = <<>>
  BY DEF Init
<1>6. ~busy
  BY DEF Init
<1> QED BY <1>3, <1>4, <1>5, <1>6 DEF DeviceInv, Calm, Claimed, Phase, Returned

\* A call of the client that holds the device.
LEMMA Advance ==
  ASSUME DeviceTypes, Calm, NEW c \in Client, step[c] # "open",
         NEW to \in Steps \ {"open"}, step' = [step EXCEPT ![c] = to],
         UNCHANGED <<busy, want>>,
         \E s \in Bit : \E chip \in Chips(to, want[c]) : bus' = Low(s, chip)
  PROVE  Calm'
<1>1. busy
  BY DEF Calm, Claimed
<1>2. Free'
  BY <1>1 DEF Free
<1>3. \A d \in Client : d # c => step[d] = "open" /\ step'[d] = "open"
  BY DEF Calm, Claimed, DeviceTypes
<1>4. step'[c] = to
  BY DEF DeviceTypes
<1>5. Claimed' /\ step'[c] # "open"
  BY <1>1, <1>3, <1>4 DEF Claimed
<1>6. \A d \in Client : Phase(d)'
  <2>1. Phase(c)'
    BY <1>4 DEF Phase, Calm
  <2>2. ASSUME NEW d \in Client \ {c} PROVE Phase(d)'
    BY <1>3 DEF Phase
  <2> QED BY <2>1, <2>2
<1> QED BY <1>2, <1>5, <1>6 DEF Calm

LEMMA OpenTaken ==
  ASSUME Calm, busy, NEW c \in Client, NEW reg, NEW count, Open(c, 0, reg, count)
  PROVE  Calm'
<1>1. bus' = Start(bus).bus
  BY DEF Open, OpenBus
<1>2. OpenResult(0) # 0
  BY DEF OpenResult
<1>3. UNCHANGED <<step, want>> /\ busy' = busy
  <2>1. busy' = TRUE /\ UNCHANGED <<step, want>>
    BY <1>2 DEF Open
  <2>2. busy'
    BY <2>1
  <2> QED BY <1>2, <2>1 DEF Open
<1>4. ASSUME NEW d \in Client, step[d] # "open" PROVE Phase(d)'
  <2>1. PICK s \in Bit : \E chip \in Chips(step[d], want[d]) : bus = Low(s, chip)
    BY <1>4 DEF Calm, Phase
  <2>2. PICK chip \in Chips(step[d], want[d]) : bus = Low(s, chip)
    BY <2>1
  <2>3. PICK t \in Bit : Start(Low(s, chip)).bus = Low(t, chip)
    BY StartHeld
  <2>4. bus' = Low(t, chip) /\ step'[d] = step[d] /\ want'[d] = want[d]
    BY <1>1, <1>3, <2>2, <2>3
  <2> QED BY <1>4, <2>4 DEF Calm, Phase
<1>5. ASSUME NEW d \in Client PROVE Phase(d)'
  BY <1>3, <1>4 DEF Phase
<1> QED BY <1>3, <1>5 DEF Calm, Free, Claimed

LEMMA OpenBusIs ==
  ASSUME NEW r \in Byte, bus = Idle(r), NEW mode \in {0, 1}
  PROVE  OpenBus(mode) = Done(Low(0, Chip("addr", 0, 0, r, 1)), 0)
<1>1. Start(Idle(r)) = Done(Low(0, Chip("addr", 0, 0, r, 1)), 0)
  BY StartFree DEF Idle
<1>2. ResetBus(bus) = Idle(r)
  BY ResetIs
<1>3. OpenBus(mode) = Start(Idle(r))
  BY <1>2 DEF OpenBus
<1> QED BY <1>1, <1>3

LEMMA OpenFree ==
  ASSUME DeviceTypes, Calm, ~busy, NEW c \in Client, NEW mode \in {0, 1}, NEW reg \in Wanted,
         NEW count \in Counts, Open(c, mode, reg, count)
  PROVE  Calm'
<1>1. PICK r \in Byte : bus = Idle(r)
  BY DEF Calm, Free
<1> DEFINE addressed == Chip("addr", 0, 0, r, 1)
           w == [reg |-> reg, count |-> count]
<1>2. OpenBus(mode) = Done(Low(0, addressed), 0)
  BY <1>1, OpenBusIs
<1>3. OpenBus(mode).bus = Low(0, addressed) /\ OpenResult(mode) = 0
  BY <1>2 DEF Done, OpenResult
<1>4. /\ bus' = Low(0, addressed) /\ busy' = TRUE
      /\ step' = [step EXCEPT ![c] = "select"]
      /\ want' = [want EXCEPT ![c] = w]
  BY <1>3 DEF Open
<1>5. w.reg \in Byte /\ w.count \in Nat \ {0}
  BY I2cDeviceAssumption
<1>6. addressed \in Chips("select", w)
  BY DEF Chips
<1> HIDE DEF addressed, w
<1>7. \A d \in Client : step[d] = "open"
  BY DEF Calm, Claimed
<1>8. /\ step'[c] = "select" /\ want'[c] = w
      /\ \A d \in Client \ {c} : step'[d] = "open"
  BY <1>4, <1>7 DEF DeviceTypes
<1>9. Free' /\ Claimed' /\ step'[c] # "open"
  BY <1>4, <1>8 DEF Free, Claimed
<1>10. \A d \in Client : Phase(d)'
  BY <1>4, <1>5, <1>6, <1>8 DEF Phase, Bit
<1> QED BY <1>9, <1>10 DEF Calm

LEMMA SelectKeeps == ASSUME DeviceTypes, Calm, NEW c \in Client, Select(c) PROVE Calm'
<1>1. step[c] = "select"
  BY DEF Select, Transfer
<1>2. want[c].reg \in Byte /\ \E s \in Bit : \E chip \in Chips("select", want[c]) : bus = Low(s, chip)
  BY <1>1 DEF Calm, Phase
<1>3. PICK s \in Bit, r \in Byte : bus = Low(s, Chip("addr", 0, 0, r, 1))
  BY <1>2 DEF Chips
<1>4. bus' = Low(1, Chip("data", 0, 0, want[c].reg, 1))
  BY <1>2, <1>3, SelectIs DEF Select, Transfer
<1>5. \E t \in Bit : \E chip \in Chips("restart", want[c]) : bus' = Low(t, chip)
  BY <1>4 DEF Chips, Bit
<1>6. /\ step' = [step EXCEPT ![c] = "restart"] /\ UNCHANGED <<busy, want>>
  BY DEF Select, Transfer
<1> QED BY <1>1, <1>5, <1>6, Advance DEF Steps

LEMMA RepeatStartKeeps == ASSUME DeviceTypes, Calm, NEW c \in Client, RepeatStart(c) PROVE Calm'
<1>1. step[c] = "restart"
  BY DEF RepeatStart, Transfer
<1>2. \E s \in Bit : \E chip \in Chips("restart", want[c]) : bus = Low(s, chip)
  BY <1>1 DEF Calm, Phase
<1>3. PICK s \in Bit : bus = Low(s, Chip("data", 0, 0, want[c].reg, 1))
  BY <1>2 DEF Chips
<1>4. bus' = Low(0, Chip("addr", 0, 0, want[c].reg, 1))
  BY <1>3, RepeatStartIs DEF RepeatStart, Transfer
<1>5. \E t \in Bit : \E chip \in Chips("address", want[c]) : bus' = Low(t, chip)
  BY <1>4 DEF Chips, Bit
<1>6. /\ step' = [step EXCEPT ![c] = "address"] /\ UNCHANGED <<busy, want>>
  BY DEF RepeatStart, Transfer
<1> QED BY <1>1, <1>5, <1>6, Advance DEF Steps

LEMMA AddressReadKeeps == ASSUME DeviceTypes, Calm, NEW c \in Client, AddressRead(c) PROVE Calm'
<1>1. step[c] = "address"
  BY DEF AddressRead, Transfer
<1>2. want[c].reg \in Byte /\ \E s \in Bit : \E chip \in Chips("address", want[c]) : bus = Low(s, chip)
  BY <1>1 DEF Calm, Phase
<1>3. PICK s \in Bit : bus = Low(s, Chip("addr", 0, 0, want[c].reg, 1))
  BY <1>2 DEF Chips
<1>4. bus' = Low(1, Sending(want[c].reg))
  BY <1>2, <1>3, AddressReadIs DEF AddressRead, Transfer
<1>5. \E t \in Bit : \E chip \in Chips("read", want[c]) : bus' = Low(t, chip)
  BY <1>4 DEF Chips, Bit
<1>6. /\ step' = [step EXCEPT ![c] = "read"] /\ UNCHANGED <<busy, want>>
  BY DEF AddressRead, Transfer
<1> QED BY <1>1, <1>5, <1>6, Advance DEF Steps

\* The transfer that fills the buffer, and what is in it then.
LEMMA ReadBytesKeeps ==
  ASSUME DeviceTypes, Calm, NEW c \in Client, ReadBytes(c)
  PROVE  Calm' /\ got'[c] = Contents(want[c].reg, want[c].count) /\ want[c].reg \in Byte
<1>1. step[c] = "read"
  BY DEF ReadBytes
<1>2. /\ want[c].reg \in Byte /\ want[c].count \in Nat \ {0}
      /\ \E s \in Bit : \E chip \in Chips("read", want[c]) : bus = Low(s, chip)
  BY <1>1 DEF Calm, Phase
<1>3. PICK s \in Bit : bus = Low(s, Sending(want[c].reg))
  BY <1>2 DEF Chips
<1> DEFINE val == Contents(want[c].reg, want[c].count)
           read == Read(bus, want[c].count)
<1>4. PICK x \in Byte : read = Done(Low(1, Chip("idle", 0, 0, x, 1)), val)
  BY <1>2, <1>3, ReadIs
<1>5. /\ bus' = read.bus /\ got' = [got EXCEPT ![c] = read.val]
      /\ step' = [step EXCEPT ![c] = "close"] /\ UNCHANGED <<busy, want>>
  BY DEF ReadBytes
<1> HIDE DEF read
<1>6. bus' = Low(1, Chip("idle", 0, 0, x, 1)) /\ got' = [got EXCEPT ![c] = val]
  BY <1>4, <1>5 DEF Done
<1>7. \E t \in Bit : \E chip \in Chips("close", want[c]) : bus' = Low(t, chip)
  BY <1>6 DEF Chips, Bit
<1>8. got'[c] = val
  BY <1>6 DEF DeviceTypes
<1> HIDE DEF val
<1>9. Calm'
  BY <1>1, <1>5, <1>7, Advance DEF Steps
<1> QED BY <1>2, <1>8, <1>9 DEF val

LEMMA CloseKeeps == ASSUME DeviceTypes, Calm, NEW c \in Client, Close(c) PROVE Calm'
<1>1. step[c] = "close"
  BY DEF Close
<1>2. \E s \in Bit : \E chip \in Chips("close", want[c]) : bus = Low(s, chip)
  BY <1>1 DEF Calm, Phase
<1>3. PICK s \in Bit, r \in Byte : bus = Low(s, Chip("idle", 0, 0, r, 1))
  BY <1>2 DEF Chips
<1>4. bus' = Idle(r)
  BY <1>3, StopIs DEF Close, Idle
<1>5. busy' = FALSE /\ step' = [step EXCEPT ![c] = "open"]
  BY DEF Close
<1>6. Free'
  BY <1>4 DEF Free
<1>7. \A d \in Client : step'[d] = "open"
  BY <1>1, <1>5 DEF DeviceTypes, Calm, Claimed
<1> QED BY <1>5, <1>6, <1>7 DEF Calm, Claimed, Phase

LEMMA ReadRegKeeps ==
  ASSUME DeviceTypes, Calm, ~busy, NEW c \in Client, NEW reg \in Wanted, ReadReg(c, reg)
  PROVE  Calm' /\ got'[c] = Contents(reg, 1) /\ reg \in Byte
<1>1. PICK r \in Byte : bus = Idle(r)
  BY DEF Calm, Free
<1>2. reg \in Byte
  BY I2cDeviceAssumption
<1> DEFINE selected == Write(OpenBus(0).bus, <<2 * Address, reg>>)
           restarted == Write(selected, <<>>)
           addressed == Write(restarted, <<2 * Address + 1>>)
           read == Read(addressed, 1)
<1>3. OpenBus(0).bus = Low(0, Chip("addr", 0, 0, r, 1))
  BY <1>1, OpenBusIs DEF Done
<1>4. selected = Low(1, Chip("data", 0, 0, reg, 1))
  BY <1>2, <1>3, SelectIs DEF Bit
<1>5. restarted = Low(0, Chip("addr", 0, 0, reg, 1))
  <2> HIDE DEF selected
  <2> QED BY <1>4, RepeatStartIs DEF Bit
<1>6. addressed = Low(1, Sending(reg))
  <2> HIDE DEF restarted
  <2> QED BY <1>2, <1>5, AddressReadIs DEF Bit
<1>7. PICK x \in Byte : read = Done(Low(1, Chip("idle", 0, 0, x, 1)), Contents(reg, 1))
  <2> HIDE DEF addressed
  <2> QED BY <1>2, <1>6, ReadIs DEF Bit
<1>8. /\ bus' = Stop(read.bus) /\ got' = [got EXCEPT ![c] = read.val]
      /\ busy' = FALSE /\ UNCHANGED step
  BY DEF ReadReg
<1> DEFINE val == Contents(reg, 1)
<1> HIDE DEF read
<1>9. bus' = Idle(x) /\ got' = [got EXCEPT ![c] = val]
  <2>1. bus' = Stop(Low(1, Chip("idle", 0, 0, x, 1))) /\ read.val = val
    BY <1>7, <1>8 DEF Done
  <2> QED BY <1>8, <2>1, StopIs DEF Idle, Bit
<1> HIDE DEF val
<1>10. got'[c] = val
  BY <1>9 DEF DeviceTypes
<1>11. Free'
  BY <1>9 DEF Free
<1>12. \A d \in Client : step'[d] = "open"
  BY <1>8 DEF Calm, Claimed
<1>13. Calm'
  BY <1>8, <1>11, <1>12 DEF Calm, Claimed, Phase
<1> QED BY <1>2, <1>10, <1>13 DEF val

(***************************************************************************)
(* Every step keeps the invariant, a step that disturbs the bus included.  *)
(***************************************************************************)
LEMMA TypesStep == DeviceTypes /\ [Next]_vars => DeviceTypes'
<1> SUFFICES ASSUME DeviceTypes, [Next]_vars PROVE DeviceTypes'
  OBVIOUS
<1>1. /\ busy \in BOOLEAN /\ step \in [Client -> Steps] /\ want \in [Client -> Transaction]
      /\ got = [c \in Client |-> got[c]]
  BY DEF DeviceTypes
<1>2. ASSUME NEW c \in Client, NEW v, got' = [got EXCEPT ![c] = v]
      PROVE  got' = [d \in Client |-> got'[d]]
  <2> DEFINE F(d) == IF d = c THEN v ELSE got[d]
  <2>1. got' = [d \in Client |-> F(d)]
    BY <1>1, <1>2
  <2> HIDE DEF F
  <2> QED BY <2>1
<1>3. ASSUME NEW c \in Client, NEW r \in Wanted, NEW n \in Nat,
             want' = [want EXCEPT ![c] = [reg |-> r, count |-> n]]
      PROVE  want' \in [Client -> Transaction]
  <2>1. [reg |-> r, count |-> n] \in Transaction
    BY I2cDeviceAssumption DEF Transaction
  <2> QED BY <1>1, <1>3, <2>1
<1>4. ASSUME NEW c \in Client, NEW mode \in {0, 1}, NEW reg \in Wanted, NEW count \in Counts,
             Open(c, mode, reg, count)
      PROVE  DeviceTypes'
  <2>1. busy' = TRUE /\ got' = got /\ count \in Nat
    BY <1>4, I2cDeviceAssumption DEF Open
  <2>2. CASE OpenResult(mode) = 0
    <3>1. /\ step' = [step EXCEPT ![c] = "select"]
          /\ want' = [want EXCEPT ![c] = [reg |-> reg, count |-> count]]
      BY <1>4, <2>2 DEF Open
    <3>2. step' \in [Client -> Steps]
      BY <1>1, <3>1 DEF Steps
    <3> QED BY <1>1, <1>3, <2>1, <3>1, <3>2 DEF DeviceTypes
  <2>3. CASE OpenResult(mode) # 0
    <3>1. UNCHANGED <<step, want>>
      BY <1>4, <2>3 DEF Open
    <3> QED BY <1>1, <2>1, <3>1 DEF DeviceTypes
  <2> QED BY <2>2, <2>3
<1>5. ASSUME NEW c \in Client, Select(c) \/ RepeatStart(c) \/ AddressRead(c) \/ Close(c)
      PROVE  DeviceTypes'
  <2>1. /\ busy' = busy \/ busy' = FALSE
        /\ UNCHANGED <<want, got>>
        /\ \E to \in Steps : step' = [step EXCEPT ![c] = to]
    BY <1>5 DEF Select, RepeatStart, AddressRead, Transfer, Close, Steps
  <2> QED BY <1>1, <2>1 DEF DeviceTypes
<1>6. ASSUME NEW c \in Client, ReadBytes(c) PROVE DeviceTypes'
  <2>1. /\ UNCHANGED <<busy, want>> /\ step' = [step EXCEPT ![c] = "close"]
        /\ \E v : got' = [got EXCEPT ![c] = v]
    BY <1>6 DEF ReadBytes
  <2>2. step' \in [Client -> Steps]
    BY <1>1, <2>1 DEF Steps
  <2> QED BY <1>1, <1>2, <2>1, <2>2 DEF DeviceTypes
<1>7. ASSUME NEW c \in Client, NEW reg \in Wanted, ReadReg(c, reg) PROVE DeviceTypes'
  <2>1. /\ busy' = FALSE /\ step' = step
        /\ want' = [want EXCEPT ![c] = [reg |-> reg, count |-> 1]]
        /\ \E v : got' = [got EXCEPT ![c] = v]
    BY <1>7 DEF ReadReg
  <2> QED BY <1>1, <1>2, <1>3, <2>1 DEF DeviceTypes
<1>8. CASE UNCHANGED vars
  BY <1>1, <1>8 DEF vars, DeviceTypes
<1> QED BY <1>4, <1>5, <1>6, <1>7, <1>8 DEF Next

LEMMA ClaimedStep ==
  DeviceInv /\ [Next]_vars => ("read_reg" \notin crossed' => Claimed')
<1> SUFFICES ASSUME DeviceInv, [Next]_vars, "read_reg" \notin crossed' PROVE Claimed'
  OBVIOUS
<1>1. CASE Rested'
  BY <1>1, RestedIsCalm DEF Rested, Claimed
<1>2. CASE ~Rested'
  <2>1. step \in [Client -> Steps]
    BY DEF DeviceInv, DeviceTypes
  <2>2. ASSUME NEW kinds, Crossed(kinds)
        PROVE  Claimed /\ "read_reg" \notin kinds
    BY <1>2, <2>2 DEF Crossed, DeviceInv
  <2>3. ASSUME NEW c \in Client, NEW mode \in {0, 1}, NEW reg \in Wanted, NEW count \in Counts,
               Open(c, mode, reg, count)
        PROVE  Claimed'
    <3>1. Claimed /\ busy' = TRUE
      BY <2>2, <2>3 DEF Open
    <3>2. CASE OpenResult(mode) = 0
      <4>1. ~busy /\ step' = [step EXCEPT ![c] = "select"]
        BY <2>3, <3>2 DEF Open, OpenResult
      <4>2. \A d \in Client : d # c => step'[d] = "open"
        BY <2>1, <3>1, <4>1 DEF Claimed
      <4> QED BY <3>1, <4>2 DEF Claimed
    <3>3. CASE OpenResult(mode) # 0
      <4>1. UNCHANGED step
        BY <2>3, <3>3 DEF Open
      <4> QED BY <3>1, <4>1 DEF Claimed
    <3> QED BY <3>2, <3>3
  <2>4. ASSUME NEW c \in Client, Select(c) \/ RepeatStart(c) \/ AddressRead(c) \/ ReadBytes(c)
        PROVE  Claimed'
    <3>1. /\ Crossed({}) /\ UNCHANGED busy /\ step[c] # "open"
          /\ \E to \in Steps : step' = [step EXCEPT ![c] = to]
      BY <2>4 DEF Select, RepeatStart, AddressRead, Transfer, ReadBytes, Steps
    <3> QED BY <2>1, <2>2, <3>1 DEF Claimed
  <2>5. ASSUME NEW c \in Client, Close(c) PROVE Claimed'
    <3>1. Crossed({}) /\ step[c] = "close" /\ step' = [step EXCEPT ![c] = "open"]
      BY <2>5 DEF Close
    <3>2. \A d \in Client : step'[d] = "open"
      BY <2>1, <2>2, <3>1 DEF Claimed
    <3> QED BY <3>2 DEF Claimed
  <2>6. ASSUME NEW c \in Client, NEW reg \in Wanted, ReadReg(c, reg) PROVE Claimed'
    <3>1. Crossed(IF busy THEN {"read_reg"} ELSE {}) /\ UNCHANGED step
      BY <2>6 DEF ReadReg
    <3>2. Claimed /\ ~busy
      BY <2>2, <3>1
    <3> QED BY <3>1, <3>2 DEF Claimed
  <2>7. CASE UNCHANGED vars
    BY <2>7 DEF vars, DeviceInv, Claimed
  <2> QED BY <2>3, <2>4, <2>5, <2>6, <2>7 DEF Next
<1> QED BY <1>1, <1>2

LEMMA CalmStep == DeviceInv /\ [Next]_vars => (crossed' = {} => Calm')
<1> SUFFICES ASSUME DeviceInv, [Next]_vars, crossed' = {} PROVE Calm'
  OBVIOUS
<1>1. CASE Rested'
  BY <1>1, RestedIsCalm, PTL
<1>2. CASE ~Rested'
  <2>1. ASSUME NEW kinds, Crossed(kinds)
        PROVE  Calm /\ DeviceTypes /\ kinds = {}
    BY <1>2, <2>1 DEF Crossed, DeviceInv
  <2>2. ASSUME NEW c \in Client, NEW mode \in {0, 1}, NEW reg \in Wanted, NEW count \in Counts,
               Open(c, mode, reg, count)
        PROVE  Calm'
    <3>1. Crossed(IF busy /\ mode = 1 THEN {"reset"} ELSE {})
      BY <2>2 DEF Open
    <3>2. Calm /\ DeviceTypes /\ ~(busy /\ mode = 1)
      BY <2>1, <3>1
    <3>3. CASE busy
      <4>1. Open(c, 0, reg, count)
        BY <2>2, <3>2, <3>3
      <4> QED BY <3>2, <3>3, <4>1, OpenTaken
    <3>4. CASE ~busy
      BY <2>2, <3>2, <3>4, OpenFree
    <3> QED BY <3>3, <3>4
  <2>3. ASSUME NEW c \in Client,
               Select(c) \/ RepeatStart(c) \/ AddressRead(c) \/ ReadBytes(c) \/ Close(c)
        PROVE  Calm'
    <3>1. Crossed({})
      BY <2>3 DEF Select, RepeatStart, AddressRead, Transfer, ReadBytes, Close
    <3> QED BY <2>1, <2>3, <3>1, SelectKeeps, RepeatStartKeeps, AddressReadKeeps,
               ReadBytesKeeps, CloseKeeps
  <2>4. ASSUME NEW c \in Client, NEW reg \in Wanted, ReadReg(c, reg) PROVE Calm'
    <3>1. Crossed(IF busy THEN {"read_reg"} ELSE {})
      BY <2>4 DEF ReadReg
    <3>2. Calm /\ DeviceTypes /\ ~busy
      BY <2>1, <3>1
    <3> QED BY <2>4, <3>2, ReadRegKeeps
  <2>5. CASE UNCHANGED vars
    BY <2>5 DEF vars, DeviceInv, Calm, Free, Claimed, Phase
  <2> QED BY <2>2, <2>3, <2>4, <2>5 DEF Next
<1> QED BY <1>1, <1>2

LEMMA ReturnedStep == DeviceInv /\ [Next]_vars => \A c \in Client : Returned(c)'
<1> SUFFICES ASSUME DeviceInv, [Next]_vars, NEW d \in Client PROVE Returned(d)'
  OBVIOUS
<1>1. DeviceTypes /\ Returned(d) /\ (crossed = {} => Calm)
  BY DEF DeviceInv
<1>2. ASSUME got'[d] = got[d], want'[d] = want[d], d \in spoilt => d \in spoilt',
             step'[d] \in {"open", "close"} => step[d] \in {"open", "close"}
      PROVE  Returned(d)'
  BY <1>1, <1>2 DEF Returned
<1>3. ASSUME NEW c \in Client, NEW mode \in {0, 1}, NEW reg \in Wanted, NEW count \in Counts,
             Open(c, mode, reg, count)
      PROVE  Returned(d)'
  <2>1. /\ UNCHANGED <<got, spoilt>>
        /\ \/ UNCHANGED <<step, want>>
           \/ /\ step' = [step EXCEPT ![c] = "select"]
              /\ want' = [want EXCEPT ![c] = [reg |-> reg, count |-> count]]
    BY <1>3 DEF Open
  <2>2. CASE UNCHANGED <<step, want>>
    BY <1>2, <2>1, <2>2
  <2>3. CASE /\ step' = [step EXCEPT ![c] = "select"]
             /\ want' = [want EXCEPT ![c] = [reg |-> reg, count |-> count]]
    <3>1. CASE d = c
      <4>1. step'[d] = "select"
        BY <1>1, <2>3, <3>1 DEF DeviceTypes
      <4> QED BY <4>1 DEF Returned
    <3>2. CASE d # c
      <4>1. step'[d] = step[d] /\ want'[d] = want[d]
        BY <1>1, <2>3, <3>2 DEF DeviceTypes
      <4> QED BY <1>2, <2>1, <4>1
    <3> QED BY <3>1, <3>2
  <2> QED BY <2>1, <2>2, <2>3
<1>4. ASSUME NEW c \in Client, Select(c) \/ RepeatStart(c) \/ AddressRead(c)
      PROVE  Returned(d)'
  <2>1. /\ UNCHANGED <<got, want, spoilt>>
        /\ \E to \in {"restart", "address", "read"} : step' = [step EXCEPT ![c] = to]
    BY <1>4 DEF Select, RepeatStart, AddressRead, Transfer
  <2>2. step'[d] \in {"open", "close"} => step[d] \in {"open", "close"}
    BY <1>1, <2>1 DEF DeviceTypes
  <2> QED BY <1>2, <2>1, <2>2
<1>5. ASSUME NEW c \in Client, Close(c) PROVE Returned(d)'
  <2>1. /\ UNCHANGED <<got, want, spoilt>> /\ step[c] = "close"
        /\ step' = [step EXCEPT ![c] = "open"]
    BY <1>5 DEF Close
  <2>2. step'[d] \in {"open", "close"} => step[d] \in {"open", "close"}
    BY <1>1, <2>1 DEF DeviceTypes
  <2> QED BY <1>2, <2>1, <2>2
<1>6. ASSUME NEW c \in Client, ReadBytes(c) PROVE Returned(d)'
  <2>1. /\ want' = want /\ step' = [step EXCEPT ![c] = "close"] /\ ReadBy(c, {})
        /\ \E v : got' = [got EXCEPT ![c] = v]
    BY <1>6 DEF ReadBytes
  <2>2. CASE d = c /\ crossed = {}
    <3>1. got'[d] = Contents(want[d].reg, want[d].count) /\ want[d].reg \in Byte
      BY <1>1, <1>6, <2>2, ReadBytesKeeps
    <3> QED BY <2>1, <3>1 DEF Returned
  <2>3. CASE d = c /\ crossed # {}
    <3>1. d \in spoilt'
      BY <2>1, <2>3 DEF ReadBy
    <3> QED BY <3>1 DEF Returned
  <2>4. CASE d # c
    <3>1. got'[d] = got[d] /\ step'[d] = step[d] /\ (d \in spoilt => d \in spoilt')
      BY <1>1, <2>1, <2>4 DEF DeviceTypes, ReadBy
    <3> QED BY <1>2, <2>1, <3>1
  <2> QED BY <2>2, <2>3, <2>4
<1>7. ASSUME NEW c \in Client, NEW reg \in Wanted, ReadReg(c, reg) PROVE Returned(d)'
  <2> DEFINE kinds == IF busy THEN {"read_reg"} ELSE {}
             w == [reg |-> reg, count |-> 1]
  <2>1. /\ want' = [want EXCEPT ![c] = w] /\ step' = step /\ ReadBy(c, kinds)
        /\ \E v : got' = [got EXCEPT ![c] = v]
    BY <1>7 DEF ReadReg
  <2>2. CASE d = c /\ crossed = {} /\ ~busy
    <3>1. got'[d] = Contents(reg, 1) /\ reg \in Byte
      BY <1>1, <1>7, <2>2, ReadRegKeeps
    <3>2. want'[d] = w /\ w.reg = reg /\ w.count = 1
      BY <1>1, <2>1, <2>2 DEF DeviceTypes
    <3> HIDE DEF w
    <3> QED BY <3>1, <3>2 DEF Returned
  <2>3. CASE d = c /\ ~(crossed = {} /\ ~busy)
    <3>1. crossed \cup kinds # {}
      BY <2>3
    <3> HIDE DEF kinds
    <3>2. d \in spoilt'
      BY <2>1, <2>3, <3>1 DEF ReadBy
    <3> QED BY <3>2 DEF Returned
  <2>4. CASE d # c
    <3> HIDE DEF kinds, w
    <3>1. /\ got'[d] = got[d] /\ want'[d] = want[d] /\ step'[d] = step[d]
          /\ d \in spoilt => d \in spoilt'
      BY <1>1, <2>1, <2>4 DEF DeviceTypes, ReadBy
    <3> QED BY <1>2, <3>1
  <2> QED BY <2>2, <2>3, <2>4
<1>8. CASE UNCHANGED vars
  BY <1>2, <1>8 DEF vars
<1> QED BY <1>3, <1>4, <1>5, <1>6, <1>7, <1>8 DEF Next

LEMMA DeviceInvHolds == Spec => []DeviceInv
<1>1. DeviceInv /\ [Next]_vars => DeviceInv'
  <2> SUFFICES ASSUME DeviceInv, [Next]_vars PROVE DeviceInv'
    OBVIOUS
  <2>1. DeviceTypes'
    BY TypesStep DEF DeviceInv
  <2>2. "read_reg" \notin crossed' => Claimed'
    BY ClaimedStep
  <2>3. crossed' = {} => Calm'
    BY CalmStep
  <2>4. \A c \in Client : Returned(c)'
    BY ReturnedStep
  <2> QED BY <2>1, <2>2, <2>3, <2>4 DEF DeviceInv
<1> QED BY <1>1, InitInv, PTL DEF Spec

\* lock it for exclusive usage: whatever opens and resets the other clients try
\* and whatever they do to the bus, at most one client is between an open that
\* succeeded and its close, and busy is set then, until a read_reg closes the
\* device of another; and while no call has disturbed the bus busy is set only
\* then.
THEOREM DeviceIsOwned == Spec => []Owned
<1>1. DeviceInv => Owned
  <2> SUFFICES ASSUME DeviceInv PROVE Owned
    OBVIOUS
  <2> DEFINE owners == {c \in Client : step[c] # "open"}
  <2>1. "read_reg" \notin crossed => (\A c, d \in owners : c = d) /\ (owners # {} => busy)
    BY DEF DeviceInv, Claimed
  <2>2. crossed = {} => (busy => owners # {})
    BY DEF DeviceInv, Calm
  <2> QED BY <2>1, <2>2 DEF Owned
<1> QED BY <1>1, DeviceInvHolds, PTL

\* When no client holds the device and nothing has disturbed the bus, both lines
\* are released and the chip waits for a START, whatever refused opens with
\* mode 0 fell into the transactions before.
THEOREM FreeBusIsIdle == Spec => []FreeMeansIdle
<1>1. DeviceInv => FreeMeansIdle
  <2> SUFFICES ASSUME DeviceInv, crossed = {}, ~busy
               PROVE  bus.sda = 1 /\ bus.scl = 1 /\ bus.chip.mode = "idle" /\ bus.chip.drive = 1
    BY DEF FreeMeansIdle
  <2>1. PICK r \in Byte : bus = Idle(r)
    BY DEF DeviceInv, Calm, Free
  <2> DEFINE chip == Chip("idle", 0, 0, r, 1)
  <2>2. chip.mode = "idle" /\ chip.drive = 1
    BY ChipFields
  <2>3. bus = [sda |-> 1, scl |-> 1, chip |-> chip]
    BY <2>1 DEF Idle, High
  <2> HIDE DEF chip
  <2> QED BY <2>2, <2>3
<1> QED BY <1>1, DeviceInvHolds, PTL

\* The bytes a transaction returns are the contents of the registers its client
\* asked for, for any number of bytes and whatever the other clients tried to
\* open with mode 0 meanwhile, unless they were read after a reset or a read_reg
\* had fallen into a transaction and before the bus was at rest again.
THEOREM ReadsAreOwnRegisters == Spec => []ReadsOwnRegisters
<1>1. DeviceInv => ReadsOwnRegisters
  <2> SUFFICES ASSUME DeviceInv, NEW c \in Client, c \notin spoilt, got[c] # <<>>,
                      step[c] \in {"open", "close"}
               PROVE  got[c] = [k \in 1..want[c].count |-> Register[(want[c].reg + k - 1) % 2^Bits]]
    BY DEF ReadsOwnRegisters
  <2>1. want[c].reg \in Byte /\ got[c] = Contents(want[c].reg, want[c].count)
    BY DEF DeviceInv, Returned
  <2>2. want[c].reg \in Int
    <3>1. 2^Bits \in Nat
      BY I2cBusAssumption, PowerType
    <3> QED BY <2>1, <3>1 DEF Byte
  <2> DEFINE r == want[c].reg
  <2>3. \A k \in 1..want[c].count : r + (k - 1) = r + k - 1
    BY <2>2
  <2> HIDE DEF r
  <2>4. Contents(r, want[c].count) = [k \in 1..want[c].count |-> Register[(r + k - 1) % 2^Bits]]
    BY <2>3 DEF Contents, After
  <2> QED BY <2>1, <2>4 DEF r
<1> QED BY <1>1, DeviceInvHolds, PTL
=============================================================================
