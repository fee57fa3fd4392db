----------------------------- MODULE HeapProofs -----------------------------
(***************************************************************************)
(* The allocator and the task memory on top of it, for a heap of any size, *)
(* any sizes of the kernel's structures and of the stacks, and any         *)
(* sequence of spawns and cancels.                                         *)
(***************************************************************************)
EXTENDS TaskStore, FiniteSetTheorems, SequenceTheorems, NaturalsInduction, WellFoundedInduction, TLAPS

(***************************************************************************)
(* Induction over addresses, downwards: loops follow the next pointers.    *)
(***************************************************************************)
Less == {ss \in Nat \X Nat : ss[1] < ss[2]}

LEMMA LessWellFounded == IsWellFoundedOn(Less, Nat)
BY NatLessThanWellFounded DEF OpToRel, Less

LEMMA Least ==
  ASSUME NEW T \in SUBSET Nat, T # {}
  PROVE  \E n \in T : \A m \in T : n <= m
<1>1. PICK n \in T : \A m \in T : ~(<<m, n>> \in Less)
  BY LessWellFounded, WFMin
<1>2. \A m \in T : ~(m < n)
  BY <1>1 DEF Less
<1> QED BY <1>2

LEMMA Greatest ==
  ASSUME NEW M \in Nat, NEW T \in SUBSET (0..M), T # {}
  PROVE  \E n \in T : \A m \in T : m <= n
<1> DEFINE S == {M - a : a \in T}
<1>1. S \in SUBSET Nat /\ S # {}
  <2>1. \A a \in 0..M : M - a \in Nat
    OBVIOUS
  <2> QED BY <2>1
<1>2. PICK l \in S : \A m \in S : l <= m
  <2> HIDE DEF S
  <2> QED BY <1>1, Least
<1>3. PICK n \in T : l = M - n
  OBVIOUS
<1>4. ASSUME NEW m \in T PROVE m <= n
  <2>1. l <= M - m
    BY <1>2
  <2> QED BY <1>3, <2>1
<1> QED BY <1>4

LEMMA Down ==
  ASSUME NEW M \in Nat, NEW D \in SUBSET (0..M), NEW T,
         \A a \in D : (\A b \in D : b > a => b \in T) => a \in T
  PROVE  D \subseteq T
<1> SUFFICES ASSUME D \ T # {} PROVE FALSE
  OBVIOUS
<1>1. PICK n \in D \ T : \A m \in D \ T : m <= n
  BY Greatest
<1>2. \A b \in D : b > n => b \in T
  BY <1>1
<1> QED BY <1>1, <1>2

(***************************************************************************)
(* The chain of headers: in the order of their addresses, from the zone's  *)
(* start to the tail; the block before the tail is never a used one, so    *)
(* that a search always stops before it takes the tail for a free area.    *)
(***************************************************************************)
Header == [next : Nat, size : Nat, used : BOOLEAN]

Linked(hdr, a) ==
  /\ hdr[a].next \in DOMAIN hdr /\ a + Hdr <= hdr[a].next
  /\ \A x \in DOMAIN hdr : x <= a \/ x >= hdr[a].next
  /\ hdr[a].used => /\ hdr[a].next = a + hdr[a].size + Hdr
                    /\ hdr[a].next # TailBlock

Chain(hdr) ==
  /\ \A a \in DOMAIN hdr : hdr[a] \in Header /\ a \in Zone..TailBlock
  /\ Zone \in DOMAIN hdr /\ TailBlock \in DOMAIN hdr
  /\ hdr[TailBlock].next = Null /\ ~hdr[TailBlock].used
  /\ \A a \in DOMAIN hdr \ {TailBlock} : Linked(hdr, a)

LEMMA Zones ==
  /\ Zone \in Nat \ {0} /\ TailBlock \in Nat /\ Hdr \in Nat \ {0} /\ Zone + Hdr < TailBlock
  /\ TailBlock < Word /\ Word \in Nat
BY HeapAssumption DEF TailBlock

LEMMA Addresses ==
  ASSUME NEW hdr, Chain(hdr)
  PROVE  /\ DOMAIN hdr \in SUBSET (0..TailBlock)
         /\ \A a \in DOMAIN hdr : a \in Nat \ {0} /\ Zone <= a /\ a <= TailBlock
BY Zones DEF Chain

\* A header other than the first is the next of the one before it.
LEMMA Before ==
  ASSUME NEW hdr, Chain(hdr), NEW a \in DOMAIN hdr, a # Zone
  PROVE  \E x \in DOMAIN hdr \ {TailBlock} :
           /\ x < a /\ hdr[x].next = a
           /\ \A y \in DOMAIN hdr : y <= x \/ y >= a
<1> DEFINE T == {x \in DOMAIN hdr : x < a}
<1>1. T \in SUBSET (0..TailBlock) /\ T # {} /\ TailBlock \in Nat
  BY Addresses, Zones DEF Chain
<1>2. PICK x \in T : \A y \in T : y <= x
  <2> HIDE DEF T
  <2> QED BY <1>1, Greatest
<1>3. x \in DOMAIN hdr \ {TailBlock} /\ x < a
  BY <1>2, Addresses, Zones
<1>4. Linked(hdr, x)
  BY <1>3 DEF Chain
<1>5. hdr[x].next \in Nat /\ hdr[x].next > x /\ hdr[x].next <= a
  BY <1>3, <1>4, Addresses, Zones DEF Linked
<1>6. hdr[x].next = a
  <2>1. hdr[x].next < a => hdr[x].next \in T
    BY <1>4 DEF Linked
  <2> QED BY <1>2, <1>3, <1>5, <2>1, Addresses
<1> QED BY <1>3, <1>4, <1>6 DEF Linked

(***************************************************************************)
(* The inner loops: skip while the header is in W.                         *)
(***************************************************************************)
Skips(f, hdr, W) ==
  \A a \in DOMAIN hdr : f[a] = IF a \in W THEN f[hdr[a].next] ELSE a

Skipped(hdr, W, a, m) ==
  /\ m \in DOMAIN hdr \ W /\ a <= m
  /\ \A x \in DOMAIN hdr : a <= x /\ x < m => x \in W

LEMMA SkippedNext ==
  ASSUME NEW hdr, Chain(hdr), NEW W \in SUBSET (DOMAIN hdr \ {TailBlock}),
         NEW a \in W, NEW m
  PROVE  /\ Skipped(hdr, W, hdr[a].next, m) => Skipped(hdr, W, a, m)
         /\ Skipped(hdr, W, a, m) => Skipped(hdr, W, hdr[a].next, m)
<1>1. Linked(hdr, a) /\ a \in Nat /\ hdr[a].next \in Nat /\ a < hdr[a].next
  BY Addresses, Zones DEF Chain, Linked
<1>2. \A x \in DOMAIN hdr : x \in Nat /\ (x <= a \/ x >= hdr[a].next)
  BY <1>1, Addresses DEF Linked
<1>3. ASSUME Skipped(hdr, W, hdr[a].next, m) PROVE Skipped(hdr, W, a, m)
  <2>1. m \in DOMAIN hdr \ W /\ m \in Nat /\ hdr[a].next <= m /\ a <= m
    BY <1>1, <1>2, <1>3 DEF Skipped
  <2>2. ASSUME NEW x \in DOMAIN hdr, a <= x, x < m PROVE x \in W
    <3>1. x = a \/ x >= hdr[a].next
      BY <1>1, <1>2, <2>2
    <3> QED BY <1>3, <2>2, <3>1 DEF Skipped
  <2> QED BY <2>1, <2>2 DEF Skipped
<1>4. ASSUME Skipped(hdr, W, a, m) PROVE Skipped(hdr, W, hdr[a].next, m)
  <2>1. m \in DOMAIN hdr \ W /\ m \in Nat /\ a <= m /\ m # a
    BY <1>2, <1>4 DEF Skipped
  <2>2. hdr[a].next <= m
    BY <1>1, <1>2, <2>1
  <2>3. ASSUME NEW x \in DOMAIN hdr, hdr[a].next <= x, x < m PROVE x \in W
    <3>1. a <= x
      BY <1>1, <1>2, <2>3
    <3> QED BY <1>4, <2>3, <3>1 DEF Skipped
  <2> QED BY <2>1, <2>2, <2>3 DEF Skipped
<1> QED BY <1>3, <1>4

LEMMA SkipIs ==
  ASSUME NEW hdr, Chain(hdr), NEW W \in SUBSET (DOMAIN hdr \ {TailBlock}),
         NEW f, Skips(f, hdr, W)
  PROVE  \A p \in DOMAIN hdr : Skipped(hdr, W, p, f[p])
<1> DEFINE D == DOMAIN hdr
           T == {a \in D : Skipped(hdr, W, a, f[a])}
<1>1. D \in SUBSET (0..TailBlock) /\ TailBlock \in Nat
  BY Addresses, Zones
<1>2. ASSUME NEW a \in D, \A b \in D : b > a => b \in T PROVE a \in T
  <2>1. CASE a \in W
    <3>1. Linked(hdr, a)
      BY <2>1 DEF Chain
    <3>2. hdr[a].next \in D /\ hdr[a].next > a
      BY <3>1, Addresses, Zones DEF Linked
    <3>3. Skipped(hdr, W, hdr[a].next, f[hdr[a].next])
      BY <1>2, <3>2
    <3>4. f[a] = f[hdr[a].next]
      BY <2>1 DEF Skips
    <3> QED BY <2>1, <3>3, <3>4, SkippedNext
  <2>2. CASE a \notin W
    <3>1. f[a] = a /\ a \in Nat
      BY <2>2, Addresses DEF Skips
    <3> QED BY <2>2, <3>1, Addresses DEF Skipped
  <2> QED BY <2>1, <2>2
<1>3. D \subseteq T
  <2> HIDE DEF D, T
  <2> QED BY <1>1, <1>2, Down
<1> QED BY <1>3

\* There is a function that skips, as the definition of a recursive function
\* needs: it goes to the first header that is not in W.
LEMMA SkipExists ==
  ASSUME NEW hdr, Chain(hdr), NEW W \in SUBSET (DOMAIN hdr \ {TailBlock})
  PROVE  \E f : f = [a \in DOMAIN hdr |-> IF a \in W THEN f[hdr[a].next] ELSE a]
<1> DEFINE D == DOMAIN hdr
           G(a) == CHOOSE m \in D : Skipped(hdr, W, a, m)
           g == [a \in D |-> G(a)]
<1>1. ASSUME NEW a \in D PROVE G(a) \in D /\ Skipped(hdr, W, a, G(a))
  <2> DEFINE S == {x \in D \ W : a <= x}
  <2>1. S \in SUBSET Nat /\ TailBlock \in S
    BY Addresses DEF Chain
  <2>2. PICK m \in S : \A x \in S : m <= x
    <3> HIDE DEF S
    <3> QED BY <2>1, Least
  <2>3. m \in D /\ Skipped(hdr, W, a, m)
    <3>1. ASSUME NEW x \in D, a <= x, x < m, x \notin W PROVE FALSE
      <4>1. m <= x /\ m \in Nat /\ x \in Nat
        BY <2>2, <3>1, Addresses
      <4> QED BY <3>1, <4>1
    <3> QED BY <3>1 DEF Skipped
  <2> QED BY <2>3
<1>2. ASSUME NEW a \in D, NEW m, NEW n, Skipped(hdr, W, a, m), Skipped(hdr, W, a, n) PROVE m = n
  <2>1. m \in Nat /\ n \in Nat /\ a \in Nat
    BY <1>2, Addresses DEF Skipped
  <2> QED BY <1>2, <2>1 DEF Skipped
<1>3. ASSUME NEW a \in D PROVE G(a) = IF a \in W THEN g[hdr[a].next] ELSE a
  <2>1. CASE a \in W
    <3>1. Linked(hdr, a)
      BY <2>1 DEF Chain
    <3>2. hdr[a].next \in D
      BY <3>1 DEF Linked
    <3>3. Skipped(hdr, W, hdr[a].next, G(hdr[a].next))
      BY <1>1, <3>2
    <3>4. Skipped(hdr, W, a, G(hdr[a].next)) /\ Skipped(hdr, W, a, G(a))
      BY <1>1, <2>1, <3>3, SkippedNext
    <3>5. g[hdr[a].next] = G(hdr[a].next)
      BY <3>2
    <3> HIDE DEF G, g
    <3>6. G(a) = G(hdr[a].next)
      BY <1>2, <3>4
    <3> QED BY <2>1, <3>5, <3>6
  <2>2. CASE a \notin W
    <3>1. Skipped(hdr, W, a, a)
      BY <2>2, Addresses DEF Skipped
    <3>2. Skipped(hdr, W, a, G(a))
      BY <1>1
    <3> HIDE DEF G, g
    <3> QED BY <1>2, <2>2, <3>1, <3>2
  <2> QED BY <2>1, <2>2
<1> DEFINE F(a) == IF a \in W THEN g[hdr[a].next] ELSE a
<1>4. g = [a \in D |-> F(a)]
  <2>1. \A a \in D : G(a) = F(a)
    BY <1>3
  <2> HIDE DEF G, F
  <2>2. [a \in D |-> G(a)] = [a \in D |-> F(a)]
    BY <2>1
  <2> QED BY <2>2 DEF g
<1> QED
  <2> HIDE DEF G, g
  <2> QED BY <1>4

LEMMA SkipUsedIs ==
  ASSUME NEW hdr, Chain(hdr), NEW p \in DOMAIN hdr \ {TailBlock}
  PROVE  LET q == SkipUsed(hdr, p)
         IN  /\ q \in DOMAIN hdr \ {TailBlock} /\ p <= q /\ ~hdr[q].used
             /\ \A x \in DOMAIN hdr : p <= x /\ x < q => hdr[x].used
<1> DEFINE W == Used(hdr)
           h == CHOOSE f : f = [a \in DOMAIN hdr |-> IF hdr[a].used THEN f[hdr[a].next] ELSE a]
<1>1. W \in SUBSET (DOMAIN hdr \ {TailBlock}) /\ \A a \in DOMAIN hdr : a \in W <=> hdr[a].used
  BY DEF Used, Chain
<1>2. \E f : f = [a \in DOMAIN hdr |-> IF hdr[a].used THEN f[hdr[a].next] ELSE a]
  <2>1. PICK f : f = [a \in DOMAIN hdr |-> IF a \in W THEN f[hdr[a].next] ELSE a]
    BY <1>1, SkipExists
  <2> DEFINE F(a) == IF a \in W THEN f[hdr[a].next] ELSE a
             G(a) == IF hdr[a].used THEN f[hdr[a].next] ELSE a
  <2>2. \A a \in DOMAIN hdr : F(a) = G(a)
    BY <1>1
  <2>3. f = [a \in DOMAIN hdr |-> F(a)]
    BY <2>1
  <2> HIDE DEF F, G
  <2>4. [a \in DOMAIN hdr |-> F(a)] = [a \in DOMAIN hdr |-> G(a)]
    BY <2>2
  <2>5. f = [a \in DOMAIN hdr |-> G(a)]
    BY <2>3, <2>4
  <2> QED BY <2>5 DEF G
<1>3. h = [a \in DOMAIN hdr |-> IF hdr[a].used THEN h[hdr[a].next] ELSE a]
  BY <1>2
<1>4. SkipUsed(hdr, p) = h[p]
  BY DEF SkipUsed
<1> HIDE DEF h, W
<1>5. Skips(h, hdr, W)
  BY <1>1, <1>3 DEF Skips
<1>6. Skipped(hdr, W, p, h[p])
  BY <1>1, <1>5, SkipIs
<1> DEFINE q == h[p]
<1>7. q \in DOMAIN hdr /\ p <= q /\ ~hdr[q].used
      /\ \A x \in DOMAIN hdr : p <= x /\ x < q => hdr[x].used
  BY <1>1, <1>6 DEF Skipped
<1>8. q # TailBlock
  <2> SUFFICES ASSUME q = TailBlock PROVE FALSE
    OBVIOUS
  <2>1. TailBlock # Zone /\ TailBlock \in DOMAIN hdr
    BY Zones DEF Chain
  <2>2. PICK x \in DOMAIN hdr \ {TailBlock} :
          /\ x < TailBlock /\ hdr[x].next = TailBlock
          /\ \A y \in DOMAIN hdr : y <= x \/ y >= TailBlock
    BY <2>1, Before
  <2>3. p <= x
    <3>1. p <= TailBlock /\ p \in Nat /\ TailBlock \in Nat
      BY Addresses, Zones
    <3> QED BY <2>2, <3>1
  <2>4. hdr[x].used /\ Linked(hdr, x)
    BY <1>7, <2>2, <2>3 DEF Chain
  <2> QED BY <2>2, <2>4 DEF Linked
<1> QED BY <1>4, <1>7, <1>8

LEMMA SkipFreeIs ==
  ASSUME NEW hdr, Chain(hdr), NEW q \in DOMAIN hdr \ {TailBlock}, ~hdr[q].used
  PROVE  LET e == SkipFree(hdr, q)
         IN  /\ e \in DOMAIN hdr /\ q + Hdr <= e /\ (e = TailBlock \/ hdr[e].used)
             /\ \A x \in DOMAIN hdr : q <= x /\ x < e => ~hdr[x].used
<1> DEFINE W == DOMAIN hdr \ (Used(hdr) \cup {TailBlock})
           On(a) == ~hdr[a].used /\ hdr[a].next # Null
           h == CHOOSE f : f = [a \in DOMAIN hdr |->
                                  IF ~hdr[a].used /\ hdr[a].next # Null THEN f[hdr[a].next] ELSE a]
<1>1. W \in SUBSET (DOMAIN hdr \ {TailBlock}) /\ \A a \in DOMAIN hdr : a \in W <=> On(a)
  <2>1. ASSUME NEW a \in DOMAIN hdr \ {TailBlock} PROVE hdr[a].next # Null
    <3>1. hdr[a].next \in DOMAIN hdr
      BY DEF Chain, Linked
    <3> QED BY <3>1, Addresses DEF Null
  <2>2. hdr[TailBlock].next = Null
    BY DEF Chain
  <2> QED BY <2>1, <2>2 DEF Used
<1>2. \E f : f = [a \in DOMAIN hdr |->
                    IF ~hdr[a].used /\ hdr[a].next # Null THEN f[hdr[a].next] ELSE a]
  <2>1. PICK f : f = [a \in DOMAIN hdr |-> IF a \in W THEN f[hdr[a].next] ELSE a]
    BY <1>1, SkipExists
  <2> DEFINE F(a) == IF a \in W THEN f[hdr[a].next] ELSE a
             G(a) == IF ~hdr[a].used /\ hdr[a].next # Null THEN f[hdr[a].next] ELSE a
  <2>2. \A a \in DOMAIN hdr : F(a) = G(a)
    BY <1>1
  <2>3. f = [a \in DOMAIN hdr |-> F(a)]
    BY <2>1
  <2> HIDE DEF F, G
  <2>4. [a \in DOMAIN hdr |-> F(a)] = [a \in DOMAIN hdr |-> G(a)]
    BY <2>2
  <2>5. f = [a \in DOMAIN hdr |-> G(a)]
    BY <2>3, <2>4
  <2> QED BY <2>5 DEF G
<1>3. h = [a \in DOMAIN hdr |->
             IF ~hdr[a].used /\ hdr[a].next # Null THEN h[hdr[a].next] ELSE a]
  BY <1>2
<1>4. SkipFree(hdr, q) = h[q]
  BY DEF SkipFree
<1>5. q \in W
  BY DEF Used
<1> HIDE DEF h
<1>6. Skips(h, hdr, W)
  <2> HIDE DEF W
  <2> QED BY <1>1, <1>3 DEF Skips
<1>7. Skipped(hdr, W, q, h[q])
  <2> HIDE DEF W
  <2> QED BY <1>1, <1>6, SkipIs
<1> DEFINE e == h[q]
<1>8. e \in DOMAIN hdr /\ q <= e /\ e # q /\ (e = TailBlock \/ hdr[e].used)
      /\ \A x \in DOMAIN hdr : q <= x /\ x < e => ~hdr[x].used
  BY <1>5, <1>7 DEF Skipped, Used
<1>9. q + Hdr <= e
  <2>1. Linked(hdr, q) /\ q \in Nat /\ e \in Nat /\ Hdr \in Nat /\ hdr[q].next \in Nat
    BY <1>8, Addresses, Zones DEF Chain, Linked
  <2>2. e >= hdr[q].next
    BY <1>8, <2>1 DEF Linked
  <2> QED BY <2>1, <2>2 DEF Linked
<1> QED BY <1>4, <1>8, <1>9

(***************************************************************************)
(* Coalescing keeps the chain, and leaves the used blocks alone.           *)
(***************************************************************************)
SameUsed(s, hdr) == Used(s) = Used(hdr) /\ \A a \in Used(hdr) : s[a] = hdr[a]

LEMMA CoalesceIs ==
  ASSUME NEW hdr, Chain(hdr), NEW q \in DOMAIN hdr \ {TailBlock}, NEW e \in DOMAIN hdr,
         q + Hdr <= e, e = TailBlock \/ hdr[e].used,
         \A x \in DOMAIN hdr : q <= x /\ x < e => ~hdr[x].used
  PROVE  LET s == Coalesce(hdr, q, e)
         IN  /\ Chain(s) /\ SameUsed(s, hdr)
             /\ DOMAIN s = {x \in DOMAIN hdr : x <= q \/ x >= e}
             /\ s[q].size = e - q - Hdr /\ s[q].next = e /\ ~s[q].used
<1> DEFINE D == {x \in DOMAIN hdr : x <= q \/ x >= e}
           free == [hdr[q] EXCEPT !.size = Size(e - q - Hdr), !.next = e]
           s == [a \in D |-> IF a = q THEN free ELSE hdr[a]]
<1>1. Coalesce(hdr, q, e) = s
  BY DEF Coalesce
<1>2. /\ q \in Nat /\ e \in Nat /\ q < e /\ ~hdr[q].used
      /\ Zone <= q /\ e <= TailBlock
  BY Addresses, Zones
<1>3. Size(e - q - Hdr) = e - q - Hdr /\ e - q - Hdr \in Nat
  <2>1. e - q - Hdr \in 0..(Word - 1)
    BY <1>2, Zones
  <2>2. \A x \in 0..(Word - 1) : x % Word = x
    BY Zones
  <2> QED BY <2>1, <2>2 DEF Size
<1>4. /\ free.size = e - q - Hdr /\ free.next = e /\ ~free.used /\ free \in Header
  BY <1>2, <1>3 DEF Chain, Header
<1> HIDE DEF free
<1>5. /\ q \in D /\ e \in D /\ DOMAIN s = D /\ s[q] = free
      /\ \A a \in D : a # q => s[a] = hdr[a]
  BY <1>2
<1>6. /\ TailBlock \in D /\ Zone \in D /\ s[TailBlock] = hdr[TailBlock]
  BY <1>2, <1>5 DEF Chain
<1>7. \A a \in D : s[a] \in Header /\ a \in Zone..TailBlock
  BY <1>4, <1>5 DEF Chain
<1>8. ASSUME NEW a \in D \ {TailBlock} PROVE Linked(s, a)
  <2>1. CASE a = q
    <3>1. s[a].next = e /\ ~s[a].used
      BY <1>4, <1>5, <2>1
    <3>2. \A x \in D : x <= a \/ x >= e
      BY <2>1
    <3> QED BY <1>5, <2>1, <3>1, <3>2 DEF Linked
  <2>2. CASE a # q
    <3>1. s[a] = hdr[a] /\ Linked(hdr, a)
      BY <1>5, <2>2 DEF Chain
    <3>2. hdr[a].next \in D
      <4>1. hdr[a].next \in DOMAIN hdr /\ hdr[a].next \in Nat /\ a \in Nat
        BY <3>1, Addresses DEF Linked
      <4>2. a < q \/ a >= e
        BY <1>2, <2>2, <4>1
      <4>3. CASE a < q
        <5>1. q >= hdr[a].next
          BY <1>2, <3>1, <4>1, <4>3 DEF Linked
        <5> QED BY <4>1, <5>1
      <4>4. CASE a >= e
        <5>1. hdr[a].next >= e
          BY <1>2, <3>1, <4>1, <4>4, Zones DEF Linked
        <5> QED BY <4>1, <5>1
      <4> QED BY <4>2, <4>3, <4>4
    <3> QED BY <1>5, <3>1, <3>2 DEF Linked
  <2> QED BY <2>1, <2>2
<1>9. Used(s) = Used(hdr)
  <2>1. ASSUME NEW a \in Used(hdr) PROVE a \in D /\ a # q
    <3>1. a \in DOMAIN hdr /\ hdr[a].used /\ a \in Nat
      BY Addresses DEF Used
    <3> QED BY <1>2, <3>1
  <2>2. Used(s) = {a \in D : s[a].used}
    BY <1>5 DEF Used
  <2>3. ~s[q].used
    BY <1>4, <1>5
  <2> QED BY <1>5, <2>1, <2>2, <2>3 DEF Used
<1>10. \A a \in Used(hdr) : s[a] = hdr[a]
  BY <1>2, <1>5, <1>9 DEF Used
<1> HIDE DEF s, D
<1>11. Chain(s)
  BY <1>5, <1>6, <1>7, <1>8 DEF Chain
<1> QED BY <1>1, <1>4, <1>5, <1>9, <1>10, <1>11 DEF SameUsed, D

(***************************************************************************)
(* What the users hold, by headers; the holes between, by used blocks.     *)
(***************************************************************************)
Owns(hdr, held) ==
  /\ \A ptr \in DOMAIN held : ptr \in Nat /\ ptr - Hdr \in Used(hdr) /\ hdr[ptr - Hdr].size = held[ptr]
  /\ \A u \in Used(hdr) : u + Hdr \in DOMAIN held

Hole(hdr, lo, hi) ==
  /\ lo = Zone \/ \E u \in Used(hdr) : lo = hdr[u].next
  /\ hi = TailBlock \/ hi \in Used(hdr)
  /\ lo < hi
  /\ \A u \in Used(hdr) : hdr[u].next <= lo \/ u >= hi

LEMMA UsedIs ==
  ASSUME NEW hdr, Chain(hdr), NEW u \in Used(hdr)
  PROVE  /\ u \in DOMAIN hdr \ {TailBlock} /\ hdr[u].used /\ Linked(hdr, u)
         /\ u \in Nat /\ hdr[u].size \in Nat /\ hdr[u].next = u + hdr[u].size + Hdr
         /\ hdr[u].next \in DOMAIN hdr /\ hdr[u].next \in Nat /\ u < hdr[u].next
         /\ hdr[u].next # TailBlock
<1>1. u \in DOMAIN hdr \ {TailBlock} /\ hdr[u].used /\ u \in Nat
  BY Addresses DEF Used, Chain
<1>2. Linked(hdr, u) /\ hdr[u].size \in Nat
  BY <1>1 DEF Chain, Header
<1>3. hdr[u].next \in DOMAIN hdr /\ hdr[u].next \in Nat
  BY <1>2, Addresses DEF Linked
<1> QED BY <1>1, <1>2, <1>3, Zones DEF Linked

LEMMA HeldIs ==
  ASSUME NEW hdr, Chain(hdr), NEW held, Owns(hdr, held), NEW u \in Used(hdr)
  PROVE  LET ptr == u + Hdr
         IN  ptr \in DOMAIN held /\ ptr - Hdr = u /\ ptr + held[ptr] = hdr[u].next
<1> DEFINE ptr == u + Hdr
<1>1. ptr \in DOMAIN held /\ ptr - Hdr = u
  BY UsedIs, Zones DEF Owns
<1>2. held[ptr] = hdr[u].size
  BY <1>1 DEF Owns
<1> QED BY <1>1, <1>2, UsedIs, Zones

LEMMA GapIs ==
  ASSUME NEW hdr, Chain(hdr), NEW held, Owns(hdr, held), NEW lo, NEW hi
  PROVE  /\ Gap(held, lo, hi) => Hole(hdr, lo, hi)
         /\ Hole(hdr, lo, hi) => Gap(held, lo, hi)
<1>1. ASSUME NEW ptr \in DOMAIN held
      PROVE  \E u \in Used(hdr) : ptr = u + Hdr /\ u = ptr - Hdr
  <2>1. ptr - Hdr \in Used(hdr) /\ ptr \in Nat
    BY DEF Owns
  <2> QED BY <2>1, Zones
<1>2. \A ptr \in DOMAIN held : \E u \in Used(hdr) :
         ptr = u + Hdr /\ ptr - Hdr = u /\ ptr + held[ptr] = hdr[u].next
  BY <1>1, HeldIs
<1>3. \A u \in Used(hdr) : \E ptr \in DOMAIN held :
         ptr = u + Hdr /\ ptr - Hdr = u /\ ptr + held[ptr] = hdr[u].next
  BY HeldIs
<1>4. ASSUME Gap(held, lo, hi) PROVE Hole(hdr, lo, hi)
  <2>1. lo = Zone \/ \E ptr \in DOMAIN held : lo = ptr + held[ptr]
    BY <1>4 DEF Gap
  <2>2. hi = TailBlock \/ \E ptr \in DOMAIN held : hi = ptr - Hdr
    BY <1>4 DEF Gap
  <2>3. lo < hi /\ \A ptr \in DOMAIN held : ptr + held[ptr] <= lo \/ ptr - Hdr >= hi
    BY <1>4 DEF Gap
  <2> QED BY <1>2, <1>3, <2>1, <2>2, <2>3 DEF Hole
<1>5. ASSUME Hole(hdr, lo, hi) PROVE Gap(held, lo, hi)
  <2>1. lo = Zone \/ \E ptr \in DOMAIN held : lo = ptr + held[ptr]
    BY <1>3, <1>5 DEF Hole
  <2>2. hi = TailBlock \/ \E ptr \in DOMAIN held : hi = ptr - Hdr
    BY <1>3, <1>5 DEF Hole
  <2>3. lo < hi /\ \A ptr \in DOMAIN held : ptr + held[ptr] <= lo \/ ptr - Hdr >= hi
    BY <1>2, <1>5 DEF Hole
  <2> QED BY <2>1, <2>2, <2>3 DEF Gap
<1> QED BY <1>4, <1>5

LEMMA HoleSame ==
  ASSUME NEW hdr, NEW s, SameUsed(s, hdr), NEW lo, NEW hi
  PROVE  /\ Hole(hdr, lo, hi) => Hole(s, lo, hi)
         /\ Hole(s, lo, hi) => Hole(hdr, lo, hi)
BY DEF SameUsed, Hole

LEMMA OwnsSame ==
  ASSUME NEW hdr, NEW s, SameUsed(s, hdr), NEW held, Owns(hdr, held)
  PROVE  Owns(s, held)
BY DEF SameUsed, Owns

LEMMA SameTransitive ==
  ASSUME NEW a, NEW b, NEW c, SameUsed(a, b), SameUsed(b, c)
  PROVE  SameUsed(a, c)
BY DEF SameUsed

\* A run of free blocks that a round of the search finds: the only hole that
\* begins between where the round began and where the run ends.
Run(hdr, p, q, e) ==
  /\ p \in DOMAIN hdr \ {TailBlock} /\ q \in DOMAIN hdr \ {TailBlock} /\ e \in DOMAIN hdr
  /\ p <= q /\ q + Hdr <= e /\ (e = TailBlock \/ hdr[e].used)
  /\ \A x \in DOMAIN hdr : p <= x /\ x < q => hdr[x].used
  /\ \A x \in DOMAIN hdr : q <= x /\ x < e => ~hdr[x].used

LEMMA RunIsHole ==
  ASSUME NEW hdr, Chain(hdr), NEW p, NEW q, NEW e, Run(hdr, p, q, e),
         p = Zone \/ p \in Used(hdr)
  PROVE  Hole(hdr, q, e)
<1>1. /\ p \in Nat /\ q \in Nat /\ e \in Nat /\ q < e /\ ~hdr[q].used /\ Zone <= p
      /\ q \in DOMAIN hdr /\ e \in DOMAIN hdr
  BY Addresses, Zones DEF Run
<1>2. q = Zone \/ \E u \in Used(hdr) : q = hdr[u].next
  <2> SUFFICES ASSUME q # Zone PROVE \E u \in Used(hdr) : q = hdr[u].next
    OBVIOUS
  <2>1. PICK x \in DOMAIN hdr \ {TailBlock} :
          /\ x < q /\ hdr[x].next = q
          /\ \A y \in DOMAIN hdr : y <= x \/ y >= q
    BY <1>1, Before
  <2>2. p <= x
    <3>1. p # q
      BY <1>1 DEF Used
    <3>2. p < q /\ p \in DOMAIN hdr
      BY <1>1, <3>1 DEF Run
    <3> QED BY <1>1, <2>1, <3>2
  <2>3. x \in Used(hdr)
    BY <2>1, <2>2 DEF Run, Used
  <2> QED BY <2>1, <2>3
<1>3. e = TailBlock \/ e \in Used(hdr)
  BY DEF Run, Used
<1>4. ASSUME NEW u \in Used(hdr) PROVE hdr[u].next <= q \/ u >= e
  <2>1. u \in Nat /\ u \in DOMAIN hdr /\ hdr[u].used /\ Linked(hdr, u) /\ hdr[u].next \in Nat
    BY UsedIs
  <2>2. ~(q <= u /\ u < e)
    BY <2>1 DEF Run
  <2>3. u < q => hdr[u].next <= q
    BY <1>1, <2>1 DEF Linked
  <2> QED BY <1>1, <2>1, <2>2, <2>3
<1> QED BY <1>1, <1>2, <1>3, <1>4 DEF Hole

LEMMA HoleIsRun ==
  ASSUME NEW hdr, Chain(hdr), NEW p, NEW q, NEW e, Run(hdr, p, q, e),
         NEW lo, NEW hi, Hole(hdr, lo, hi), p <= lo, lo < e
  PROVE  lo = q /\ hi = e
<1>1. /\ p \in Nat /\ q \in Nat /\ e \in Nat /\ q < e /\ ~hdr[q].used /\ Zone <= p /\ p <= q
      /\ q \in DOMAIN hdr /\ e \in DOMAIN hdr /\ e <= TailBlock /\ TailBlock \in Nat
  BY Addresses, Zones DEF Run
<1>2. lo \in DOMAIN hdr /\ lo \in Nat /\ hi \in Nat
  BY UsedIs, Addresses, Zones DEF Hole, Chain
<1>3. ~hdr[lo].used
  <2> SUFFICES ASSUME lo \in Used(hdr) PROVE FALSE
    BY <1>2 DEF Used
  <2> QED BY <1>2, UsedIs DEF Hole
<1>4. q <= lo
  BY <1>1, <1>2, <1>3 DEF Run
<1>5. lo = q
  <2>1. CASE lo = Zone
    BY <1>1, <1>2, <1>4, <2>1, Zones
  <2>2. ASSUME NEW u \in Used(hdr), lo = hdr[u].next PROVE lo = q
    <3>1. u \in Nat /\ u \in DOMAIN hdr /\ hdr[u].used /\ Linked(hdr, u) /\ u < lo
      BY <2>2, UsedIs
    <3>2. u < q
      BY <1>1, <1>2, <3>1 DEF Run
    <3>3. lo <= q
      BY <1>1, <1>2, <2>2, <3>1, <3>2 DEF Linked
    <3> QED BY <1>1, <1>2, <1>4, <3>3
  <2> QED BY <2>1, <2>2 DEF Hole
<1>6. hi >= e
  <2>1. CASE hi = TailBlock
    BY <1>1, <2>1
  <2>2. CASE hi \in Used(hdr)
    <3>1. hi \in DOMAIN hdr /\ hdr[hi].used /\ q < hi
      BY <1>5, <2>2, UsedIs DEF Hole
    <3> QED BY <1>1, <1>2, <3>1 DEF Run
  <2> QED BY <2>1, <2>2 DEF Hole
<1>7. hi <= e
  <2>1. CASE e = TailBlock
    <3>1. hi <= TailBlock
      BY UsedIs, Addresses, Zones DEF Hole
    <3> QED BY <2>1, <3>1
  <2>2. CASE hdr[e].used
    <3>1. e \in Used(hdr)
      BY <1>1, <2>2 DEF Used
    <3>2. hdr[e].next <= lo \/ e >= hi
      BY <3>1 DEF Hole
    <3>3. hdr[e].next > e /\ hdr[e].next \in Nat
      BY <3>1, UsedIs
    <3> QED BY <1>1, <1>2, <1>5, <3>2, <3>3
  <2> QED BY <2>1, <2>2 DEF Run
<1> QED BY <1>1, <1>2, <1>5, <1>6, <1>7

LEMMA Induct ==
  ASSUME NEW T \in SUBSET Nat, 0 \in T, \A n \in T : n + 1 \in T
  PROVE  T = Nat
<1> SUFFICES ASSUME Nat \ T # {} PROVE FALSE
  OBVIOUS
<1>1. PICK n \in Nat \ T : \A m \in Nat \ T : n <= m
  BY Least
<1>2. n # 0 /\ n - 1 \in Nat
  BY <1>1
<1>3. n - 1 \in T
  BY <1>1, <1>2
<1> QED BY <1>1, <1>2, <1>3

(***************************************************************************)
(* The search: what it has passed is too small, and what it stops at is a  *)
(* hole that is large enough.                                              *)
(***************************************************************************)
TooSmall(hdr, from, p, room) ==
  \A lo \in Nat, hi \in Nat : Hole(hdr, lo, hi) /\ from <= lo /\ lo < p => hi - lo < room

Fits(hdr, s, room) ==
  /\ s.hdr[s.p].next \in Nat /\ ~s.hdr[s.p].used /\ s.p # TailBlock
  /\ Hole(hdr, s.p, s.hdr[s.p].next) /\ s.hdr[s.p].next - s.p >= room

Searching(hdr, from, room, s) ==
  /\ Chain(s.hdr) /\ SameUsed(s.hdr, hdr)
  /\ s.p \in DOMAIN s.hdr /\ from <= s.p /\ s.over \in BOOLEAN
  /\ TooSmall(hdr, from, s.p, room)
  /\ s.over => Fits(hdr, s, room)
  /\ ~s.over => s.p = TailBlock \/ s.p = Zone \/ s.p \in Used(hdr)

LEMMA NextNull ==
  ASSUME NEW hdr, Chain(hdr), NEW a \in DOMAIN hdr
  PROVE  hdr[a].next = Null <=> a = TailBlock
<1>1. CASE a = TailBlock
  BY <1>1 DEF Chain
<1>2. CASE a # TailBlock
  <2>1. hdr[a].next \in DOMAIN hdr
    BY <1>2 DEF Chain, Linked
  <2> QED BY <1>2, <2>1, Addresses DEF Null
<1> QED BY <1>1, <1>2

LEMMA RoundIs ==
  ASSUME NEW hdr, NEW from \in Nat, NEW size \in Nat, NEW s,
         Searching(hdr, from, size + 2 * Hdr, s), ~s.over, s.p # TailBlock
  PROVE  LET r == Round(s, size)
         IN  /\ Searching(hdr, from, size + 2 * Hdr, r)
             /\ r.over \/ r.p = TailBlock \/ (r.p \in Used(hdr) /\ r.p > s.p)
<1> DEFINE room == size + 2 * Hdr
           q == SkipUsed(s.hdr, s.p)
           e == SkipFree(s.hdr, q)
           swept == Coalesce(s.hdr, q, e)
           r == Round(s, size)
<1>1. Chain(s.hdr) /\ SameUsed(s.hdr, hdr) /\ s.p \in DOMAIN s.hdr \ {TailBlock}
      /\ from <= s.p /\ TooSmall(hdr, from, s.p, room)
      /\ (s.p = Zone \/ s.p \in Used(s.hdr))
  BY DEF Searching, SameUsed
<1>2. /\ q \in DOMAIN s.hdr \ {TailBlock} /\ s.p <= q /\ ~s.hdr[q].used
      /\ \A x \in DOMAIN s.hdr : s.p <= x /\ x < q => s.hdr[x].used
  <2> HIDE DEF r
  <2> QED BY <1>1, SkipUsedIs
<1>3. r = IF swept[q].size >= size + Hdr THEN [hdr |-> swept, p |-> q, over |-> TRUE]
          ELSE [hdr |-> swept, p |-> e, over |-> FALSE]
  BY DEF Round
<1> HIDE DEF q, r
<1>4. /\ e \in DOMAIN s.hdr /\ q + Hdr <= e /\ (e = TailBlock \/ s.hdr[e].used)
      /\ \A x \in DOMAIN s.hdr : q <= x /\ x < e => ~s.hdr[x].used
  BY <1>1, <1>2, SkipFreeIs
<1> HIDE DEF e
<1>5. /\ Chain(swept) /\ SameUsed(swept, s.hdr)
      /\ DOMAIN swept = {x \in DOMAIN s.hdr : x <= q \/ x >= e}
      /\ swept[q].size = e - q - Hdr /\ swept[q].next = e /\ ~swept[q].used
  BY <1>1, <1>2, <1>4, CoalesceIs
<1> HIDE DEF swept
<1>6. Run(s.hdr, s.p, q, e)
  BY <1>1, <1>2, <1>4 DEF Run
<1>7. q \in Nat /\ e \in Nat /\ s.p \in Nat /\ q < e /\ Hdr \in Nat
  BY <1>1, <1>2, <1>4, Addresses, Zones
<1>8. Hole(hdr, q, e)
  BY <1>1, <1>6, RunIsHole, HoleSame
<1>9. \A lo, hi : Hole(hdr, lo, hi) /\ s.p <= lo /\ lo < e => lo = q /\ hi = e
  BY <1>1, <1>6, HoleIsRun, HoleSame
<1>10. SameUsed(swept, hdr)
  BY <1>1, <1>5, SameTransitive
<1>11. q \in DOMAIN swept /\ e \in DOMAIN swept
  BY <1>2, <1>4, <1>5, <1>7
<1>12. CASE swept[q].size >= size + Hdr
  <2>1. r.hdr = swept /\ r.p = q /\ r.over = TRUE
    BY <1>3, <1>12
  <2>2. e - q >= room
    BY <1>5, <1>7, <1>12
  <2>3. TooSmall(hdr, from, q, room)
    <3> SUFFICES ASSUME NEW lo \in Nat, NEW hi \in Nat, Hole(hdr, lo, hi), from <= lo, lo < q
                 PROVE  hi - lo < room
      BY DEF TooSmall
    <3>1. lo < s.p \/ s.p <= lo
      BY <1>7
    <3>2. ~(s.p <= lo)
      BY <1>7, <1>9
    <3> QED BY <1>1, <3>1, <3>2 DEF TooSmall
  <2>4. Fits(hdr, r, room)
    BY <1>2, <1>5, <1>7, <1>8, <2>1, <2>2 DEF Fits
  <2>5. from <= q
    BY <1>1, <1>2, <1>7
  <2>6. Searching(hdr, from, room, r)
    BY <1>5, <1>10, <1>11, <2>1, <2>3, <2>4, <2>5 DEF Searching
  <2> QED BY <2>1, <2>6 DEF r
<1>13. CASE ~(swept[q].size >= size + Hdr)
  <2>1. r.hdr = swept /\ r.p = e /\ r.over = FALSE
    BY <1>3, <1>13
  <2>2. e - q < room
    BY <1>5, <1>7, <1>13
  <2>3. TooSmall(hdr, from, e, room)
    <3> SUFFICES ASSUME NEW lo \in Nat, NEW hi \in Nat, Hole(hdr, lo, hi), from <= lo, lo < e
                 PROVE  hi - lo < room
      BY DEF TooSmall
    <3>1. lo < s.p \/ s.p <= lo
      BY <1>7
    <3>2. s.p <= lo => lo = q /\ hi = e
      BY <1>9
    <3> QED BY <1>1, <2>2, <3>1, <3>2 DEF TooSmall
  <2>4. from <= e /\ e > s.p
    BY <1>1, <1>2, <1>7
  <2>5. e = TailBlock \/ e \in Used(hdr)
    BY <1>1, <1>4 DEF SameUsed, Used
  <2>6. Searching(hdr, from, room, r)
    BY <1>5, <1>10, <1>11, <2>1, <2>3, <2>4, <2>5 DEF Searching
  <2> QED BY <2>1, <2>4, <2>5, <2>6 DEF r
<1> QED BY <1>12, <1>13

(***************************************************************************)
(* The outer loop of the search.                                           *)
(***************************************************************************)
Turn(s, size) == IF s.over \/ s.hdr[s.p].next = Null THEN s ELSE Round(s, size)

Turns(f, n, start, size) ==
  f[0] = start /\ \A k \in 1..n : f[k] = Turn(f[k - 1], size)

LEMMA TurnsExist ==
  ASSUME NEW start, NEW size, NEW K \in Nat
  PROVE  \E f : Turns(f, K, start, size)
<1> DEFINE T == {n \in Nat : \E f : Turns(f, n, start, size)}
<1>1. 0 \in T
  <2> DEFINE f == [k \in {0} |-> start]
  <2>1. Turns(f, 0, start, size)
    BY DEF Turns
  <2> HIDE DEF f
  <2> QED BY <2>1
<1>2. ASSUME NEW n \in T PROVE n + 1 \in T
  <2>1. PICK f : Turns(f, n, start, size)
    OBVIOUS
  <2> DEFINE last == Turn(f[n], size)
             g == [k \in 0..(n + 1) |-> IF k = n + 1 THEN last ELSE f[k]]
  <2> HIDE DEF last
  <2>2. g[0] = start
    BY <2>1 DEF Turns
  <2>3. ASSUME NEW k \in 1..(n + 1) PROVE g[k] = Turn(g[k - 1], size)
    <3>1. k - 1 \in 0..n /\ g[k - 1] = f[k - 1]
      OBVIOUS
    <3>2. CASE k = n + 1
      BY <3>1, <3>2 DEF last
    <3>3. CASE k # n + 1
      <4>1. k \in 1..n /\ g[k] = f[k]
        BY <3>3
      <4> HIDE DEF g
      <4> QED BY <2>1, <3>1, <4>1 DEF Turns
    <3> QED BY <3>2, <3>3
  <2> HIDE DEF g
  <2>4. Turns(g, n + 1, start, size)
    BY <2>2, <2>3 DEF Turns
  <2> QED BY <2>4
<1>3. T = Nat
  <2>1. T \in SUBSET Nat
    OBVIOUS
  <2> HIDE DEF T
  <2> QED BY <1>1, <1>2, <2>1, Induct
<1> QED BY <1>3

LEMMA SearchIsTurns ==
  ASSUME NEW h, NEW size, Cardinality(Used(h.hdr)) \in Nat
  PROVE  \E f : /\ Turns(f, Cardinality(Used(h.hdr)) + 1,
                         [hdr |-> h.hdr, p |-> h.last, over |-> FALSE], size)
                /\ Search(h, size) = f[Cardinality(Used(h.hdr)) + 1]
<1> DEFINE K == Cardinality(Used(h.hdr)) + 1
           start == [hdr |-> h.hdr, p |-> h.last, over |-> FALSE]
           F(g, n) == IF n = 0 THEN start
                      ELSE LET s == g[n - 1]
                           IN  IF s.over \/ s.hdr[s.p].next = Null THEN s ELSE Round(s, size)
           r == CHOOSE g : g = [n \in 0..K |-> F(g, n)]
<1>1. Search(h, size) = r[K]
  BY DEF Search
<1>2. K \in Nat
  OBVIOUS
<1> HIDE DEF K, start
<1>3. \A g, n : F(g, n) = IF n = 0 THEN start ELSE Turn(g[n - 1], size)
  BY DEF Turn
<1>4. \E g : g = [n \in 0..K |-> F(g, n)]
  <2>1. PICK f : Turns(f, K, start, size)
    BY <1>2, TurnsExist
  <2> DEFINE g == [n \in 0..K |-> f[n]]
  <2>2. ASSUME NEW n \in 0..K PROVE f[n] = F(g, n)
    <3>1. CASE n = 0
      BY <1>3, <2>1, <3>1 DEF Turns
    <3>2. CASE n # 0
      <4>1. n \in 1..K /\ n - 1 \in 0..K
        BY <1>2, <3>2
      <4>2. g[n - 1] = f[n - 1]
        BY <4>1
      <4>3. f[n] = Turn(f[n - 1], size)
        BY <2>1, <4>1 DEF Turns
      <4> HIDE DEF g, F
      <4> QED BY <1>3, <3>2, <4>2, <4>3
    <3> QED BY <3>1, <3>2
  <2> HIDE DEF F
  <2>3. g = [n \in 0..K |-> F(g, n)]
    BY <2>2
  <2> HIDE DEF g
  <2> QED BY <2>3
<1>5. r = [n \in 0..K |-> F(r, n)]
  <2> HIDE DEF F
  <2> QED BY <1>4
<1> HIDE DEF r, F
<1>6. Turns(r, K, start, size)
  <2>1. r[0] = start
    <3>1. 0 \in 0..K
      BY <1>2
    <3>2. r[0] = F(r, 0)
      BY <1>5, <3>1
    <3> QED BY <1>3, <3>2
  <2>2. ASSUME NEW k \in 1..K PROVE r[k] = Turn(r[k - 1], size)
    <3>1. k \in 0..K /\ k # 0
      BY <1>2
    <3>2. r[k] = F(r, k)
      BY <1>5, <3>1
    <3> QED BY <1>3, <3>1, <3>2
  <2> QED BY <2>1, <2>2 DEF Turns
<1> QED BY <1>1, <1>6 DEF K, start

LEMMA UsedFinite ==
  ASSUME NEW hdr, Chain(hdr)
  PROVE  IsFiniteSet(Used(hdr)) /\ Cardinality(Used(hdr)) \in Nat
<1>1. IsFiniteSet(0..TailBlock)
  BY Zones, FS_Interval
<1>2. Used(hdr) \subseteq 0..TailBlock
  BY UsedIs, Addresses
<1> QED BY <1>1, <1>2, FS_Subset, FS_CardinalityType

\* The used blocks from p on; going on to a later one leaves fewer.
Ahead(hdr, p) == {u \in Used(hdr) : u >= p}

LEMMA AheadShrinks ==
  ASSUME NEW hdr, Chain(hdr), NEW p \in Nat, NEW q \in Used(hdr), q > p
  PROVE  /\ Cardinality(Ahead(hdr, q)) \in Nat \ {0}
         /\ Cardinality(Ahead(hdr, q)) <= Cardinality(Used(hdr))
         /\ p \in Used(hdr) => Cardinality(Ahead(hdr, q)) < Cardinality(Ahead(hdr, p))
<1>1. q \in Nat /\ \A u \in Used(hdr) : u \in Nat
  BY UsedIs
<1>2. Ahead(hdr, q) \subseteq Used(hdr) /\ Ahead(hdr, p) \subseteq Used(hdr)
  BY DEF Ahead
<1>3. /\ IsFiniteSet(Ahead(hdr, q)) /\ Cardinality(Ahead(hdr, q)) \in Nat
      /\ Cardinality(Ahead(hdr, q)) <= Cardinality(Used(hdr))
      /\ IsFiniteSet(Ahead(hdr, p)) /\ Cardinality(Ahead(hdr, p)) \in Nat
  BY <1>2, UsedFinite, FS_Subset, FS_CardinalityType
<1>4. Cardinality(Ahead(hdr, q)) # 0
  <2>1. q \in Ahead(hdr, q)
    BY <1>1 DEF Ahead
  <2> QED BY <1>3, <2>1, FS_EmptySet
<1>5. ASSUME p \in Used(hdr) PROVE Cardinality(Ahead(hdr, q)) < Cardinality(Ahead(hdr, p))
  <2>1. p \in Ahead(hdr, p) /\ p \notin Ahead(hdr, q)
    BY <1>1, <1>5 DEF Ahead
  <2>2. Ahead(hdr, q) \subseteq Ahead(hdr, p)
    <3> SUFFICES ASSUME NEW u \in Used(hdr), u >= q PROVE u >= p
      BY DEF Ahead
    <3> QED BY <1>1
  <2>3. Ahead(hdr, q) # Ahead(hdr, p)
    BY <2>1
  <2> HIDE DEF Ahead
  <2>4. Cardinality(Ahead(hdr, q)) <= Cardinality(Ahead(hdr, p))
        /\ (Cardinality(Ahead(hdr, p)) = Cardinality(Ahead(hdr, q)) => Ahead(hdr, q) = Ahead(hdr, p))
    BY <1>3, <2>2, FS_Subset
  <2> QED BY <1>3, <2>3, <2>4
<1> QED BY <1>3, <1>4, <1>5

Ready(h) == Chain(h.hdr) /\ (h.last = Zone \/ h.last \in Used(h.hdr))

LEMMA ReadyIs ==
  ASSUME NEW h, Ready(h)
  PROVE  h.last \in DOMAIN h.hdr /\ h.last \in Nat /\ Zone <= h.last
BY Addresses, UsedIs DEF Ready, Chain

\* The search ends, with what it looked for or at the tail.
LEMMA SearchIs ==
  ASSUME NEW h, Ready(h), NEW size \in Nat
  PROVE  LET s == Search(h, size)
         IN  /\ Searching(h.hdr, h.last, size + 2 * Hdr, s)
             /\ s.over \/ s.p = TailBlock
<1> DEFINE hdr == h.hdr
           room == size + 2 * Hdr
           K == Cardinality(Used(h.hdr)) + 1
           start == [hdr |-> h.hdr, p |-> h.last, over |-> FALSE]
           Done(s) == s.over \/ s.p = TailBlock
           Left(s, n) == n = 0 \/ (s.p \in Used(hdr) /\ Cardinality(Ahead(hdr, s.p)) + n <= K)
<1>1. Chain(hdr) /\ Cardinality(Used(hdr)) \in Nat /\ K \in Nat \ {0}
  BY UsedFinite DEF Ready
<1>2. PICK f : Turns(f, K, start, size) /\ Search(h, size) = f[K]
  BY <1>1, SearchIsTurns
<1>3. h.last \in Nat /\ h.last \in DOMAIN hdr /\ Zone <= h.last
  BY ReadyIs
<1>4. Searching(hdr, h.last, room, start)
  <2>1. start.hdr = hdr /\ start.p = h.last /\ ~start.over /\ start.over \in BOOLEAN
    OBVIOUS
  <2>2. SameUsed(hdr, hdr)
    BY DEF SameUsed
  <2>3. TooSmall(hdr, h.last, h.last, room)
    BY <1>3 DEF TooSmall
  <2>4. h.last = Zone \/ h.last \in Used(hdr)
    BY DEF Ready
  <2> HIDE DEF start, room, hdr
  <2>5. Chain(start.hdr) /\ SameUsed(start.hdr, hdr) /\ start.p \in DOMAIN start.hdr
    BY <1>1, <1>3, <2>1, <2>2
  <2>6. h.last <= start.p /\ start.over \in BOOLEAN /\ TooSmall(hdr, h.last, start.p, room)
    BY <1>3, <2>1, <2>3
  <2>7. ~start.over /\ (start.p = Zone \/ start.p \in Used(hdr))
    BY <2>1, <2>4
  <2> QED BY <2>5, <2>6, <2>7 DEF Searching
<1> HIDE DEF start, K
<1>5. ASSUME NEW s, NEW n \in Nat, Searching(hdr, h.last, room, s), Done(s) \/ Left(s, n)
      PROVE  /\ Searching(hdr, h.last, room, Turn(s, size))
             /\ Done(Turn(s, size)) \/ Left(Turn(s, size), n + 1)
  <2>1. Chain(s.hdr) /\ s.p \in DOMAIN s.hdr /\ SameUsed(s.hdr, hdr) /\ s.p \in Nat
    BY <1>5, Addresses DEF Searching
  <2>2. s.hdr[s.p].next = Null <=> s.p = TailBlock
    BY <2>1, NextNull
  <2>3. CASE Done(s)
    <3>1. Turn(s, size) = s
      BY <2>2, <2>3 DEF Turn
    <3> QED BY <1>5, <2>3, <3>1
  <2>4. CASE ~Done(s)
    <3>1. ~s.over /\ s.p # TailBlock
      BY <2>4
    <3>2. Turn(s, size) = Round(s, size)
      BY <2>2, <3>1 DEF Turn
    <3> DEFINE r == Round(s, size)
    <3>3. /\ Searching(hdr, h.last, room, r)
          /\ r.over \/ r.p = TailBlock \/ (r.p \in Used(hdr) /\ r.p > s.p)
      BY <1>3, <1>5, <3>1, RoundIs
    <3>4. ASSUME r.p \in Used(hdr), r.p > s.p PROVE Left(r, n + 1)
      <4> HIDE DEF r, hdr
      <4>1. /\ Cardinality(Ahead(hdr, r.p)) \in Nat
            /\ Cardinality(Ahead(hdr, r.p)) <= Cardinality(Used(hdr))
            /\ s.p \in Used(hdr) => Cardinality(Ahead(hdr, r.p)) < Cardinality(Ahead(hdr, s.p))
        BY <1>1, <2>1, <3>4, AheadShrinks
      <4>2. CASE n = 0
        BY <1>1, <3>4, <4>1, <4>2 DEF K, hdr
      <4>3. CASE n # 0
        <5>1. s.p \in Used(hdr) /\ Cardinality(Ahead(hdr, s.p)) + n <= K
          BY <1>5, <2>4, <4>3
        <5>2. Cardinality(Ahead(hdr, s.p)) \in Nat
          <6>1. Ahead(hdr, s.p) \subseteq Used(hdr)
            BY DEF Ahead
          <6> QED BY <1>1, <6>1, UsedFinite, FS_Subset, FS_CardinalityType
        <5> QED BY <1>1, <3>4, <4>1, <5>1, <5>2
      <4> QED BY <4>2, <4>3
    <3> HIDE DEF r, Left, Done
    <3>5. Done(r) \/ Left(r, n + 1)
      BY <3>3, <3>4 DEF Done
    <3> QED BY <3>2, <3>3, <3>5 DEF r
  <2> QED BY <2>3, <2>4
<1> DEFINE T == {n \in Nat : n <= K => /\ Searching(hdr, h.last, room, f[n])
                                       /\ Done(f[n]) \/ Left(f[n], n)}
<1> HIDE DEF hdr, room, Done
<1>6. 0 \in T
  BY <1>2, <1>4 DEF Turns
<1>7. ASSUME NEW n \in T PROVE n + 1 \in T
  <2> SUFFICES ASSUME n + 1 <= K PROVE /\ Searching(hdr, h.last, room, f[n + 1])
                                       /\ Done(f[n + 1]) \/ Left(f[n + 1], n + 1)
    OBVIOUS
  <2>1. n \in Nat /\ n <= K /\ n + 1 \in 1..K /\ (n + 1) - 1 = n
    BY <1>1
  <2>2. f[n + 1] = Turn(f[n], size)
    BY <1>2, <2>1 DEF Turns
  <2>3. Searching(hdr, h.last, room, f[n]) /\ (Done(f[n]) \/ Left(f[n], n))
    BY <2>1
  <2> HIDE DEF Left
  <2> QED BY <1>5, <2>1, <2>2, <2>3
<1>8. T = Nat
  <2>1. T \in SUBSET Nat
    OBVIOUS
  <2> HIDE DEF T
  <2> QED BY <1>6, <1>7, <2>1, Induct
<1>9. Searching(hdr, h.last, room, f[K]) /\ (Done(f[K]) \/ Left(f[K], K))
  BY <1>1, <1>8
<1>10. ~Left(f[K], K)
  <2> SUFFICES ASSUME f[K].p \in Used(hdr), Cardinality(Ahead(hdr, f[K].p)) + K <= K PROVE FALSE
    BY <1>1
  <2>1. f[K].p \in Ahead(hdr, f[K].p) /\ Ahead(hdr, f[K].p) \subseteq Used(hdr)
    BY <1>1, UsedIs DEF Ahead
  <2>2. Cardinality(Ahead(hdr, f[K].p)) \in Nat \ {0}
    BY <1>1, <2>1, UsedFinite, FS_Subset, FS_CardinalityType, FS_EmptySet
  <2> QED BY <1>1, <2>2
<1> QED BY <1>2, <1>9, <1>10 DEF hdr, room, Done

(***************************************************************************)
(* A heap and what is held of it.                                          *)
(***************************************************************************)
HeapRecord(h) == \E hdr, first, last : h = [hdr |-> hdr, first |-> first, last |-> last]

HeapInv(h, held) ==
  HeapRecord(h) /\ Ready(h) /\ h.first = Zone /\ Owns(h.hdr, held)

LEMMA RecordIs ==
  ASSUME NEW h, NEW hdr, NEW first, NEW last,
         h = [hdr |-> hdr, first |-> first, last |-> last]
  PROVE  HeapRecord(h) /\ h.hdr = hdr /\ h.first = first /\ h.last = last
<1>1. HeapRecord([hdr |-> hdr, first |-> first, last |-> last])
  BY Zenon DEF HeapRecord
<1> QED BY <1>1

\* The used blocks of s and one more, at a.
OneMore(t, s, a, size) ==
  /\ Used(t) = Used(s) \cup {a} /\ t[a] = Block(a + size + Hdr, size, TRUE)
  /\ \A u \in Used(s) : t[u] = s[u]

LEMMA SplitIs ==
  ASSUME NEW s, Chain(s), NEW a \in DOMAIN s \ {TailBlock}, ~s[a].used,
         NEW size \in Nat, s[a].next - a >= size + 2 * Hdr
  PROVE  LET n == a + size + Hdr
             t == With([s EXCEPT ![a] = Block(n, size, TRUE)], n,
                       Block(s[a].next, Size(0 - Hdr), FALSE))
         IN  Chain(t) /\ OneMore(t, s, a, size)
<1> DEFINE n == a + size + Hdr
           rest == Block(s[a].next, Size(0 - Hdr), FALSE)
           mine == Block(n, size, TRUE)
           D == DOMAIN s \cup {n}
           t == With([s EXCEPT ![a] = mine], n, rest)
<1>1. /\ a \in Nat /\ Zone <= a /\ Hdr \in Nat \ {0} /\ TailBlock \in Nat
      /\ Linked(s, a) /\ s[a].next \in DOMAIN s /\ s[a].next \in Nat /\ s[a].next <= TailBlock
  BY Addresses, Zones DEF Chain, Linked
<1>2. n \in Nat /\ a + Hdr <= n /\ n + Hdr <= s[a].next /\ a < n /\ n < s[a].next
  BY <1>1
<1>3. n \notin DOMAIN s
  BY <1>1, <1>2 DEF Linked
<1>4. mine \in Header /\ mine.next = n /\ mine.size = size /\ mine.used
  BY <1>2 DEF mine, Block, Header
<1>5. rest \in Header /\ rest.next = s[a].next /\ ~rest.used
  <2>1. Size(0 - Hdr) \in Nat
    BY Zones DEF Size
  <2> QED BY <1>1, <2>1 DEF rest, Block, Header
<1> HIDE DEF mine, rest
<1>6. /\ DOMAIN t = D /\ t[a] = mine /\ t[n] = rest
      /\ \A b \in DOMAIN s : b # a => t[b] = s[b]
  BY <1>2, <1>3 DEF With
<1> HIDE DEF t, n
<1>7. /\ Zone \in D /\ TailBlock \in D /\ TailBlock # a
      /\ t[TailBlock].next = Null /\ ~t[TailBlock].used
  BY <1>6 DEF Chain
<1>8. \A b \in D : t[b] \in Header /\ b \in Zone..TailBlock
  <2>1. n \in Zone..TailBlock
    BY <1>1, <1>2, Zones
  <2> QED BY <1>4, <1>5, <1>6, <2>1 DEF Chain
<1>9. ASSUME NEW b \in D \ {TailBlock} PROVE Linked(t, b)
  <2>1. CASE b = a
    <3>1. \A x \in D : x <= a \/ x >= n
      BY <1>1, <1>2, Addresses DEF Linked
    <3>2. n = a + size + Hdr /\ n # TailBlock
      BY <1>1, <1>2 DEF n
    <3> QED BY <1>2, <1>4, <1>6, <2>1, <3>1, <3>2 DEF Linked
  <2>2. CASE b = n
    <3>1. \A x \in D : x <= n \/ x >= s[a].next
      BY <1>1, <1>2, Addresses DEF Linked
    <3> QED BY <1>1, <1>2, <1>5, <1>6, <2>2, <3>1 DEF Linked
  <2>3. CASE b # a /\ b # n
    <3>1. b \in DOMAIN s \ {TailBlock} /\ t[b] = s[b] /\ Linked(s, b) /\ b \in Nat
      BY <1>6, <2>3, Addresses DEF Chain
    <3>2. s[b].next \in DOMAIN s /\ s[b].next \in Nat
      BY <3>1, Addresses DEF Linked
    <3>3. n <= b \/ n >= s[b].next
      <4>1. b <= a \/ b >= s[a].next
        BY <1>1, <3>1 DEF Linked
      <4>2. a <= b \/ a >= s[b].next
        BY <3>1 DEF Linked
      <4> QED BY <1>1, <1>2, <2>3, <3>1, <3>2, <4>1, <4>2
    <3> QED BY <1>6, <3>1, <3>2, <3>3 DEF Linked
  <2> QED BY <2>1, <2>2, <2>3
<1>10. Chain(t)
  BY <1>6, <1>7, <1>8, <1>9 DEF Chain
<1>11. Used(t) = Used(s) \cup {a}
  <2>1. Used(t) = {b \in D : t[b].used}
    BY <1>6 DEF Used
  <2> QED BY <1>4, <1>5, <1>6, <2>1 DEF Used
<1>12. OneMore(t, s, a, size)
  <2>1. \A u \in Used(s) : t[u] = s[u]
    BY <1>6 DEF Used
  <2> QED BY <1>6, <1>11, <2>1 DEF OneMore, mine, n
<1> QED BY <1>10, <1>12 DEF t, n, mine, rest

LEMMA OwnsMore ==
  ASSUME NEW s, Chain(s), NEW t, NEW a \in Nat, a \notin Used(s), NEW size \in Nat,
         OneMore(t, s, a, size), NEW held, Owns(s, held)
  PROVE  /\ a + Hdr \notin DOMAIN held
         /\ Owns(t, With(held, a + Hdr, size))
<1> DEFINE ptr == a + Hdr
           more == With(held, ptr, size)
<1>1. ptr \in Nat /\ ptr - Hdr = a
  BY Zones
<1>2. ptr \notin DOMAIN held
  BY <1>1 DEF Owns
<1>3. /\ DOMAIN more = DOMAIN held \cup {ptr} /\ more[ptr] = size
      /\ \A x \in DOMAIN held : more[x] = held[x]
  BY <1>2 DEF With
<1>4. t[a].size = size /\ a \in Used(t)
  BY DEF OneMore, Block
<1>5. \A u \in Used(s) : u \in Used(t) /\ t[u] = s[u]
  BY DEF OneMore
<1> HIDE DEF more, ptr
<1>6. \A x \in DOMAIN more : x \in Nat /\ x - Hdr \in Used(t) /\ t[x - Hdr].size = more[x]
  BY <1>1, <1>3, <1>4, <1>5 DEF Owns
<1>7. \A u \in Used(t) : u + Hdr \in DOMAIN more
  BY <1>3 DEF OneMore, Owns, ptr
<1> QED BY <1>2, <1>6, <1>7 DEF Owns, more, ptr

LEMMA HoleIs ==
  ASSUME NEW hdr, Chain(hdr), NEW lo, NEW hi, Hole(hdr, lo, hi)
  PROVE  lo \in Nat /\ hi \in Nat /\ lo < hi /\ lo < TailBlock /\ hi <= TailBlock
<1>1. lo \in Nat /\ hi \in Nat /\ lo < hi
  BY UsedIs, Zones DEF Hole
<1>2. hi <= TailBlock
  BY UsedIs, Addresses, Zones DEF Hole
<1> QED BY <1>1, <1>2, Zones

\* ucx_malloc: when it fails every hole from last_free on is too small, and
\* when it succeeds it has taken the lower end of the first that is not.
MallocFails(h, m, room) ==
  /\ m.ptr = Null
  /\ m.heap.first = h.first /\ m.heap.last = h.last
  /\ SameUsed(m.heap.hdr, h.hdr)
  /\ TooSmall(h.hdr, h.last, TailBlock, room)

MallocTakes(h, m, size) ==
  /\ m.heap.first = h.first
  /\ LET a == m.heap.last
     IN  /\ a \in Nat \ Used(h.hdr) /\ h.last <= a /\ m.ptr = a + Hdr
         /\ OneMore(m.heap.hdr, h.hdr, a, size)
         /\ TooSmall(h.hdr, h.last, a, size + 2 * Hdr)
         /\ \E hi \in Nat : Hole(h.hdr, a, hi) /\ hi - a >= size + 2 * Hdr

LEMMA MallocIs ==
  ASSUME NEW h, HeapRecord(h), Ready(h), NEW size \in Nat
  PROVE  LET m == HeapMalloc(h, size)
         IN  /\ HeapRecord(m.heap) /\ Chain(m.heap.hdr)
             /\ MallocFails(h, m, size + 2 * Hdr) \/ MallocTakes(h, m, size)
<1> DEFINE room == size + 2 * Hdr
           found == Search(h, size)
           s == found.hdr
           p == found.p
           n == p + size + Hdr
           t == With([s EXCEPT ![p] = Block(n, size, TRUE)], n,
                     Block(s[p].next, Size(0 - Hdr), FALSE))
           m == HeapMalloc(h, size)
<1>1. /\ Searching(h.hdr, h.last, room, found)
      /\ found.over \/ p = TailBlock
  BY SearchIs
<1>2. m = IF s[p].next = Null
          THEN [heap |-> [h EXCEPT !.hdr = s], ptr |-> Null]
          ELSE [heap |-> [h EXCEPT !.hdr = t, !.last = p], ptr |-> p + Hdr]
  BY DEF HeapMalloc
<1> HIDE DEF found, m
<1>3. /\ Chain(s) /\ SameUsed(s, h.hdr) /\ p \in DOMAIN s /\ h.last <= p
      /\ TooSmall(h.hdr, h.last, p, room) /\ (found.over => Fits(h.hdr, found, room))
  BY <1>1 DEF Searching
<1>4. p \in Nat /\ (s[p].next = Null <=> p = TailBlock)
  BY <1>3, NextNull, Addresses
<1>5. PICK hdr, first, last : h = [hdr |-> hdr, first |-> first, last |-> last]
  BY DEF HeapRecord
<1>6. CASE p = TailBlock
  <2>1. m.ptr = Null /\ m.heap = [hdr |-> s, first |-> h.first, last |-> h.last]
    BY <1>2, <1>4, <1>5, <1>6
  <2>2. m.heap.hdr = s /\ m.heap.first = h.first /\ m.heap.last = h.last /\ HeapRecord(m.heap)
    BY <2>1, RecordIs
  <2>3. MallocFails(h, m, room)
    BY <1>3, <1>6, <2>1, <2>2 DEF MallocFails
  <2> HIDE DEF s
  <2> QED BY <1>3, <2>2, <2>3 DEF m
<1>7. CASE p # TailBlock
  <2>1. Fits(h.hdr, found, room)
    BY <1>1, <1>3, <1>7
  <2>2. m.ptr = p + Hdr /\ m.heap = [hdr |-> t, first |-> h.first, last |-> p]
    <3>1. m = [heap |-> [h EXCEPT !.hdr = t, !.last = p], ptr |-> p + Hdr]
      BY <1>2, <1>4, <1>7
    <3> HIDE DEF t, p
    <3> QED BY <1>5, <3>1
  <2>3. ~s[p].used /\ Hole(h.hdr, p, s[p].next) /\ s[p].next - p >= room /\ s[p].next \in Nat
    BY <2>1 DEF Fits
  <2>4. Chain(t) /\ OneMore(t, s, p, size)
    BY <1>3, <1>7, <2>3, SplitIs
  <2> HIDE DEF t
  <2>5. OneMore(t, h.hdr, p, size)
    BY <1>3, <2>4 DEF OneMore, SameUsed
  <2>6. p \notin Used(h.hdr)
    BY <1>3, <2>3 DEF SameUsed, Used
  <2> HIDE DEF s, p
  <2>7. m.heap.hdr = t /\ m.heap.first = h.first /\ m.heap.last = p /\ HeapRecord(m.heap)
    BY <2>2, RecordIs
  <2>8. MallocTakes(h, m, size)
    BY <1>3, <1>4, <2>2, <2>3, <2>5, <2>6, <2>7 DEF MallocTakes
  <2> QED BY <2>4, <2>7, <2>8 DEF m
<1> QED BY <1>6, <1>7

LEMMA MallocKeeps ==
  ASSUME NEW h, NEW held, HeapInv(h, held), NEW size \in Nat
  PROVE  LET m == HeapMalloc(h, size)
         IN  /\ m.ptr = Null => HeapInv(m.heap, held)
             /\ m.ptr # Null => /\ m.ptr \in Nat /\ m.ptr \notin DOMAIN held
                                /\ HeapInv(m.heap, With(held, m.ptr, size))
<1> DEFINE m == HeapMalloc(h, size)
<1>1. HeapRecord(h) /\ Ready(h) /\ h.first = Zone /\ Owns(h.hdr, held) /\ Chain(h.hdr)
  BY DEF HeapInv, Ready
<1>2. /\ HeapRecord(m.heap) /\ Chain(m.heap.hdr)
      /\ MallocFails(h, m, size + 2 * Hdr) \/ MallocTakes(h, m, size)
  BY <1>1, MallocIs
<1> HIDE DEF m
<1>3. CASE MallocFails(h, m, size + 2 * Hdr)
  <2>1. Owns(m.heap.hdr, held)
    BY <1>1, <1>3, OwnsSame DEF MallocFails
  <2>2. Ready(m.heap) /\ m.heap.first = Zone
    BY <1>1, <1>2, <1>3 DEF MallocFails, Ready, SameUsed
  <2> QED BY <1>2, <1>3, <2>1, <2>2 DEF HeapInv, MallocFails, m
<1>4. CASE MallocTakes(h, m, size)
  <2> DEFINE a == m.heap.last
  <2>1. /\ m.heap.first = Zone /\ a \in Nat /\ a \notin Used(h.hdr) /\ m.ptr = a + Hdr
        /\ OneMore(m.heap.hdr, h.hdr, a, size)
    BY <1>1, <1>4 DEF MallocTakes
  <2>2. m.ptr \notin DOMAIN held /\ Owns(m.heap.hdr, With(held, m.ptr, size))
    BY <1>1, <2>1, OwnsMore
  <2>3. m.ptr \in Nat /\ m.ptr # Null
    BY <2>1, Zones DEF Null
  <2>4. Ready(m.heap)
    BY <1>2, <2>1 DEF Ready, OneMore
  <2> QED BY <1>2, <2>1, <2>2, <2>3, <2>4 DEF HeapInv, m
<1> QED BY <1>2, <1>3, <1>4

LEMMA FreeKeeps ==
  ASSUME NEW h, NEW held, HeapInv(h, held), NEW ptr \in DOMAIN held
  PROVE  HeapInv(HeapFree(h, ptr), Drop(held, ptr))
<1> DEFINE a == ptr - Hdr
           block == [h.hdr[a] EXCEPT !.used = FALSE]
           t == [h.hdr EXCEPT ![a] = block]
           rest == Drop(held, ptr)
           g == HeapFree(h, ptr)
<1>1. Chain(h.hdr) /\ h.first = Zone /\ Owns(h.hdr, held)
  BY DEF HeapInv, Ready
<1>2. PICK hdr, first, last : h = [hdr |-> hdr, first |-> first, last |-> last]
  BY DEF HeapInv, HeapRecord
<1>3. g = [hdr |-> t, first |-> Zone, last |-> Zone]
  <2>1. g = [h EXCEPT !.hdr = t, !.last = h.first]
    <3>1. g = [h EXCEPT !.hdr[ptr - Hdr].used = FALSE, !.last = h.first]
      BY DEF HeapFree
    <3> HIDE DEF g
    <3> QED BY <3>1
  <2> HIDE DEF g, t
  <2> QED BY <1>1, <1>2, <2>1
<1> HIDE DEF g
<1>4. a \in Used(h.hdr) /\ ptr \in Nat /\ ptr = a + Hdr /\ a \in DOMAIN h.hdr /\ a \in Nat
      /\ a # TailBlock
  <2>1. a \in Used(h.hdr) /\ ptr \in Nat
    BY <1>1 DEF Owns
  <2> HIDE DEF a
  <2>2. ptr = a + Hdr
    BY <2>1, Zones DEF a
  <2> QED BY <1>1, <2>1, <2>2, UsedIs
<1>5. block \in Header /\ block.next = h.hdr[a].next /\ ~block.used
  BY <1>1, <1>4 DEF Chain, Header
<1> HIDE DEF block, a
<1>6. DOMAIN t = DOMAIN h.hdr /\ t[a] = block /\ \A b \in DOMAIN t : b # a => t[b] = h.hdr[b]
  BY <1>4
<1>7. Used(t) = Used(h.hdr) \ {a}
  <2> HIDE DEF t
  <2> QED BY <1>4, <1>5, <1>6 DEF Used
<1> HIDE DEF t
<1>8. Chain(t)
  <2>1. \A b \in DOMAIN t : t[b] \in Header /\ b \in Zone..TailBlock
    BY <1>1, <1>5, <1>6 DEF Chain
  <2>2. ASSUME NEW b \in DOMAIN t \ {TailBlock} PROVE Linked(t, b)
    <3>1. t[b].next = h.hdr[b].next /\ (t[b].used => t[b] = h.hdr[b]) /\ Linked(h.hdr, b)
      BY <1>1, <1>5, <1>6, <2>2 DEF Chain
    <3> QED BY <1>6, <3>1 DEF Linked
  <2> QED BY <1>1, <1>4, <1>6, <2>1, <2>2 DEF Chain
<1>9. Owns(t, rest)
  <2>1. DOMAIN rest = DOMAIN held \ {ptr} /\ \A x \in DOMAIN rest : rest[x] = held[x]
    BY DEF Drop
  <2> HIDE DEF rest
  <2>2. ASSUME NEW x \in DOMAIN rest
        PROVE  x \in Nat /\ x - Hdr \in Used(t) /\ t[x - Hdr].size = rest[x]
    <3>1. x \in Nat /\ x - Hdr \in Used(h.hdr) /\ h.hdr[x - Hdr].size = rest[x] /\ x # ptr
      BY <1>1, <2>1 DEF Owns
    <3>2. x - Hdr # a
      BY <1>4, <3>1, Zones
    <3> QED BY <1>6, <1>7, <3>1, <3>2 DEF Used
  <2>3. ASSUME NEW u \in Used(t) PROVE u + Hdr \in DOMAIN rest
    <3>1. u \in Used(h.hdr) /\ u # a /\ u \in Nat
      BY <1>1, <1>7, UsedIs
    <3>2. u + Hdr # ptr
      BY <1>4, <3>1, Zones
    <3> QED BY <1>1, <2>1, <3>1, <3>2 DEF Owns
  <2> QED BY <2>2, <2>3 DEF Owns
<1> HIDE DEF rest
<1>10. HeapRecord(g) /\ Ready(g) /\ g.first = Zone /\ g.hdr = t
  BY <1>3, <1>8, RecordIs DEF Ready
<1> QED BY <1>9, <1>10 DEF HeapInv, rest, g

LEMMA MallocNextFit ==
  ASSUME NEW h, NEW held, HeapInv(h, held), NEW size \in Nat
  PROVE  HeapMalloc(h, size).ptr = NextFit(h, held, size)
<1> DEFINE m == HeapMalloc(h, size)
           room == size + 2 * Hdr
           ends == {ptr - Hdr : ptr \in DOMAIN held} \cup {TailBlock}
           starts == {ptr + held[ptr] : ptr \in DOMAIN held} \cup {Zone}
           fits == {lo \in starts : lo >= h.last /\
                      \E hi \in ends : Gap(held, lo, hi) /\ hi - lo >= size + 2 * Hdr}
<1>1. HeapRecord(h) /\ Ready(h) /\ Owns(h.hdr, held) /\ Chain(h.hdr)
  BY DEF HeapInv, Ready
<1>2. MallocFails(h, m, room) \/ MallocTakes(h, m, size)
  BY <1>1, MallocIs
<1>3. NextFit(h, held, size) =
        IF fits = {} THEN Null ELSE Hdr + CHOOSE lo \in fits : \A x \in fits : lo <= x
  BY DEF NextFit
<1> HIDE DEF m
<1>4. ASSUME NEW lo \in fits
      PROVE  /\ lo \in Nat /\ h.last <= lo /\ lo < TailBlock
             /\ \E hi \in Nat : Hole(h.hdr, lo, hi) /\ hi - lo >= room
  <2>1. PICK hi \in ends : Gap(held, lo, hi) /\ hi - lo >= room
    OBVIOUS
  <2>2. Hole(h.hdr, lo, hi)
    BY <1>1, <2>1, GapIs
  <2>3. lo \in Nat /\ hi \in Nat /\ lo < TailBlock
    BY <1>1, <2>2, HoleIs
  <2>4. lo >= h.last /\ h.last \in Nat
    BY <1>1, ReadyIs
  <2> QED BY <2>1, <2>2, <2>3, <2>4
<1>5. ASSUME NEW lo \in Nat, NEW hi \in Nat, Hole(h.hdr, lo, hi), h.last <= lo, hi - lo >= room
      PROVE  lo \in fits
  <2>1. Gap(held, lo, hi)
    BY <1>1, <1>5, GapIs
  <2>2. lo \in starts /\ hi \in ends
    BY <2>1 DEF Gap
  <2>3. lo >= h.last
    BY <1>1, <1>5, ReadyIs
  <2> QED BY <1>5, <2>1, <2>2, <2>3
<1> HIDE DEF fits
<1>6. CASE MallocFails(h, m, room)
  <2>1. fits = {}
    <3> SUFFICES ASSUME NEW lo \in fits PROVE FALSE
      OBVIOUS
    <3>1. PICK hi \in Nat : Hole(h.hdr, lo, hi) /\ hi - lo >= room
      BY <1>4
    <3>2. hi - lo < room
      BY <1>4, <1>6, <3>1 DEF MallocFails, TooSmall
    <3>3. lo \in Nat /\ room \in Nat
      BY <1>4, Zones
    <3> QED BY <3>1, <3>2, <3>3
  <2> QED BY <1>3, <1>6, <2>1 DEF MallocFails, m
<1>7. CASE MallocTakes(h, m, size)
  <2> DEFINE a == m.heap.last
  <2>1. /\ a \in Nat /\ h.last <= a /\ m.ptr = a + Hdr
        /\ TooSmall(h.hdr, h.last, a, room)
        /\ \E hi \in Nat : Hole(h.hdr, a, hi) /\ hi - a >= room
    BY <1>7 DEF MallocTakes
  <2> HIDE DEF a
  <2>2. a \in fits
    BY <1>5, <2>1
  <2>3. ASSUME NEW lo \in fits PROVE a <= lo
    <3>1. PICK hi \in Nat : Hole(h.hdr, lo, hi) /\ hi - lo >= room
      BY <1>4
    <3>2. lo \in Nat /\ h.last <= lo /\ room \in Nat
      BY <1>4, Zones
    <3>3. lo < a => hi - lo < room
      BY <2>1, <3>1, <3>2 DEF TooSmall
    <3> QED BY <2>1, <3>1, <3>2, <3>3
  <2>4. (CHOOSE lo \in fits : \A x \in fits : lo <= x) = a
    <3> DEFINE c == CHOOSE lo \in fits : \A x \in fits : lo <= x
    <3>1. c \in fits /\ \A x \in fits : c <= x
      BY <2>2, <2>3
    <3> HIDE DEF c
    <3>2. c \in Nat /\ c <= a /\ a <= c
      BY <1>4, <2>2, <2>3, <3>1
    <3>3. c = a
      BY <2>1, <3>2
    <3> QED BY <3>3 DEF c
  <2>5. NextFit(h, held, size) = Hdr + a
    BY <1>3, <2>2, <2>4
  <2> QED BY <2>1, <2>5, Zones DEF m
<1> QED BY <1>2, <1>6, <1>7

LEMMA InvExact ==
  ASSUME NEW h, NEW held, HeapInv(h, held)
  PROVE  Exact(h, held)
<1> DEFINE hdr == h.hdr
<1>1. Chain(hdr) /\ Owns(hdr, held)
  BY DEF HeapInv, Ready
<1> HIDE DEF hdr
<1>2. {p + Hdr : p \in Used(hdr)} = DOMAIN held
  <2>1. \A p \in Used(hdr) : p + Hdr \in DOMAIN held
    BY <1>1 DEF Owns
  <2>2. ASSUME NEW ptr \in DOMAIN held PROVE \E p \in Used(hdr) : ptr = p + Hdr
    <3>1. ptr - Hdr \in Used(hdr) /\ ptr \in Nat
      BY <1>1 DEF Owns
    <3>2. ptr = (ptr - Hdr) + Hdr
      BY <3>1, Zones
    <3> QED BY <3>1, <3>2
  <2> QED BY <2>1, <2>2
<1>3. \A ptr \in DOMAIN held : hdr[ptr - Hdr].size = held[ptr]
  BY <1>1 DEF Owns
<1>4. ASSUME NEW p \in DOMAIN hdr \ {TailBlock}
      PROVE  /\ hdr[p].next \in DOMAIN hdr /\ hdr[p].next > p
             /\ ~\E x \in DOMAIN hdr : p < x /\ x < hdr[p].next
             /\ hdr[p].used => hdr[p].next = p + hdr[p].size + Hdr
  <2>1. Linked(hdr, p) /\ p \in Nat /\ hdr[p].next \in DOMAIN hdr /\ hdr[p].next \in Nat
    BY <1>1, Addresses DEF Chain, Linked
  <2>2. hdr[p].next > p
    BY <2>1, Zones DEF Linked
  <2>3. \A x \in DOMAIN hdr : x \in Nat /\ (x <= p \/ x >= hdr[p].next)
    BY <1>1, <2>1, Addresses DEF Linked
  <2>4. ~\E x \in DOMAIN hdr : p < x /\ x < hdr[p].next
    BY <2>1, <2>3
  <2> QED BY <2>1, <2>2, <2>4 DEF Linked
<1> QED BY <1>2, <1>3, <1>4 DEF Exact, hdr

(***************************************************************************)
(* The nodes of the list: c numbers them from the head, 0, to the          *)
(* sentinel, k + 1.                                                        *)
(***************************************************************************)
NodeRecord == [next : Nat, data : Nat]

Path(nd, c, k) ==
  /\ \A n \in DOMAIN nd : n \in Nat \ {0} /\ nd[n] \in NodeRecord
  /\ \A i \in 0..(k + 1) : c[i] \in DOMAIN nd
  /\ \A i, j \in 0..(k + 1) : c[i] = c[j] => i = j
  /\ \A n \in DOMAIN nd : \E i \in 0..(k + 1) : n = c[i]
  /\ \A i \in 0..k : nd[c[i]].next = c[i + 1]
  /\ nd[c[k + 1]].next = Null

\* The walk from the i-th node on.
From(c, k, i) == [j \in 1..(k + 1 - i) |-> c[i + j - 1]]

LEMMA FromStep ==
  ASSUME NEW k \in Nat, NEW c, NEW i \in 0..k
  PROVE  From(c, k, i) = <<c[i]>> \o From(c, k, i + 1)
<1> DEFINE S == {c[j] : j \in 0..(k + 1)}
           a == From(c, k, i)
           b == From(c, k, i + 1)
<1>1. b \in Seq(S) /\ Len(b) = k - i /\ \A j \in 1..(k - i) : b[j] = c[i + j]
  <2>1. (k + 1) - (i + 1) = k - i /\ k - i \in Nat
    OBVIOUS
  <2>2. b = [j \in 1..(k - i) |-> c[(i + 1) + j - 1]]
    BY <2>1 DEF From
  <2>3. ASSUME NEW j \in 1..(k - i) PROVE c[(i + 1) + j - 1] = c[i + j] /\ c[i + j] \in S
    <3>1. (i + 1) + j - 1 = i + j /\ i + j \in 0..(k + 1)
      OBVIOUS
    <3> QED BY <3>1
  <2> HIDE DEF b, S
  <2> QED BY <2>1, <2>2, <2>3
<1>2. <<c[i]>> \in Seq(S) /\ Len(<<c[i]>>) = 1 /\ <<c[i]>>[1] = c[i]
  <2>1. c[i] \in S
    OBVIOUS
  <2> HIDE DEF S
  <2> QED BY <2>1
<1> HIDE DEF b, S
<1> DEFINE d == <<c[i]>> \o b
<1>3. d \in Seq(S) /\ Len(d) = 1 + (k - i)
      /\ \A j \in 1..(1 + (k - i)) : d[j] = IF j <= 1 THEN <<c[i]>>[j] ELSE b[j - 1]
  BY <1>1, <1>2, ConcatProperties
<1> HIDE DEF d
<1>4. d = [j \in 1..(k + 1 - i) |-> d[j]]
  <2>1. 1 + (k - i) = k + 1 - i
    OBVIOUS
  <2> QED BY <1>3, <2>1
<1>5. ASSUME NEW j \in 1..(k + 1 - i) PROVE d[j] = c[i + j - 1]
  <2>1. j \in 1..(1 + (k - i))
    OBVIOUS
  <2>2. CASE j = 1
    <3>1. i + j - 1 = i
      BY <2>2
    <3> QED BY <1>2, <1>3, <2>1, <2>2, <3>1
  <2>3. CASE j # 1
    <3>1. j - 1 \in 1..(k - i) /\ i + (j - 1) = i + j - 1 /\ ~(j <= 1)
      BY <2>3
    <3> QED BY <1>1, <1>3, <2>1, <3>1
  <2> QED BY <2>2, <2>3
<1>6. [j \in 1..(k + 1 - i) |-> d[j]] = From(c, k, i)
  BY <1>5 DEF From
<1> QED BY <1>4, <1>6 DEF d, b

LEMMA FromEnd == ASSUME NEW k \in Nat, NEW c PROVE From(c, k, k + 1) = <<>>
<1>1. 1..((k + 1) - (k + 1)) = {}
  OBVIOUS
<1> QED BY <1>1 DEF From

LEMMA WalkIs ==
  ASSUME NEW nd, NEW c, NEW k \in Nat, Path(nd, c, k)
  PROVE  Walk(nd, nd[c[0]].next) = From(c, k, 1)
<1> DEFINE N == 0..(k + 1)
           F(w, n) == IF nd[n].next = Null THEN <<>> ELSE <<n>> \o w[nd[n].next]
           h == CHOOSE w : w = [n \in DOMAIN nd |-> F(w, n)]
           Pos(n) == CHOOSE i \in N : n = c[i]
           g == [n \in DOMAIN nd |-> From(c, k, Pos(n))]
<1>1. ASSUME NEW i \in N PROVE c[i] \in DOMAIN nd /\ Pos(c[i]) = i
  BY <1>1 DEF Path
<1>2. ASSUME NEW i \in 0..k
      PROVE  /\ i \in N /\ i + 1 \in N /\ nd[c[i]].next = c[i + 1] /\ c[i + 1] # Null
  <2>1. i \in N /\ i + 1 \in N
    OBVIOUS
  <2>2. nd[c[i]].next = c[i + 1]
    BY DEF Path
  <2>3. c[i + 1] # Null
    BY <2>1 DEF Path, Null
  <2> QED BY <2>1, <2>2, <2>3
<1>3. ASSUME NEW i \in N PROVE g[c[i]] = From(c, k, i)
  <2> HIDE DEF Pos, N
  <2> QED BY <1>1
<1> HIDE DEF g
<1>4. ASSUME NEW i \in N PROVE g[c[i]] = F(g, c[i])
  <2>1. CASE i = k + 1
    <3>1. nd[c[i]].next = Null
      BY <2>1 DEF Path
    <3> QED BY <1>3, <2>1, <3>1, FromEnd
  <2>2. CASE i \in 0..k
    <3>1. nd[c[i]].next = c[i + 1] /\ c[i + 1] # Null
      BY <1>2, <2>2
    <3>2. g[c[i + 1]] = From(c, k, i + 1) /\ g[c[i]] = From(c, k, i)
      BY <1>2, <1>3, <2>2
    <3>3. From(c, k, i) = <<c[i]>> \o From(c, k, i + 1)
      BY <2>2, FromStep
    <3> QED BY <3>1, <3>2, <3>3
  <2> QED BY <2>1, <2>2
<1>5. g = [n \in DOMAIN nd |-> F(g, n)]
  <2>1. ASSUME NEW n \in DOMAIN nd PROVE From(c, k, Pos(n)) = F(g, n)
    <3>1. PICK i \in N : n = c[i]
      BY DEF Path
    <3> HIDE DEF F, Pos, N
    <3> QED BY <1>1, <1>3, <1>4, <3>1
  <2> HIDE DEF F, Pos
  <2>2. [n \in DOMAIN nd |-> From(c, k, Pos(n))] = [n \in DOMAIN nd |-> F(g, n)]
    BY <2>1
  <2> QED BY <2>2 DEF g
<1>6. h = [n \in DOMAIN nd |-> F(h, n)]
  <2>1. \E w : w = [n \in DOMAIN nd |-> F(w, n)]
    <3> HIDE DEF F
    <3> QED BY <1>5
  <2> HIDE DEF F
  <2> QED BY <2>1
<1>7. Walk(nd, nd[c[0]].next) = h[nd[c[0]].next]
  BY DEF Walk
<1> HIDE DEF h
<1>8. ASSUME NEW i \in N PROVE h[c[i]] = F(h, c[i])
  <2> HIDE DEF F, N
  <2> QED BY <1>1, <1>6
<1> DEFINE T == {j \in Nat : j <= k + 1 => h[c[k + 1 - j]] = g[c[k + 1 - j]]}
<1>9. 0 \in T
  <2>1. k + 1 - 0 = k + 1 /\ k + 1 \in N
    OBVIOUS
  <2>2. nd[c[k + 1]].next = Null
    BY DEF Path
  <2>3. h[c[k + 1]] = <<>> /\ g[c[k + 1]] = <<>>
    BY <1>4, <1>8, <2>1, <2>2
  <2> QED BY <2>1, <2>3
<1>10. ASSUME NEW j \in T PROVE j + 1 \in T
  <2> SUFFICES ASSUME j + 1 <= k + 1 PROVE h[c[k + 1 - (j + 1)]] = g[c[k + 1 - (j + 1)]]
    OBVIOUS
  <2> DEFINE i == k + 1 - (j + 1)
  <2>1. i \in 0..k /\ k + 1 - j = i + 1 /\ j <= k + 1
    OBVIOUS
  <2>2. h[c[i + 1]] = g[c[i + 1]]
    BY <2>1
  <2> HIDE DEF i
  <2>3. i \in N /\ nd[c[i]].next = c[i + 1] /\ c[i + 1] # Null
    BY <1>2, <2>1
  <2>4. h[c[i]] = <<c[i]>> \o h[c[i + 1]] /\ g[c[i]] = <<c[i]>> \o g[c[i + 1]]
    BY <1>4, <1>8, <2>3
  <2>5. h[c[i]] = g[c[i]]
    BY <2>2, <2>4
  <2> QED BY <2>5 DEF i
<1>11. T = Nat
  <2>1. T \in SUBSET Nat
    OBVIOUS
  <2> HIDE DEF T
  <2> QED BY <1>9, <1>10, <2>1, Induct
<1>12. h[c[1]] = g[c[1]]
  <2>1. k \in T
    BY <1>11
  <2>2. k + 1 - k = 1 /\ k <= k + 1
    OBVIOUS
  <2> QED BY <2>1, <2>2
<1>13. nd[c[0]].next = c[1] /\ 1 \in N
  BY DEF Path
<1> QED BY <1>3, <1>7, <1>12, <1>13

(***************************************************************************)
(* The first allocations: as long as nothing was freed the rest of the     *)
(* zone is one hole, and what fits in it is given.                         *)
(***************************************************************************)
OnlyHole(h, x) ==
  Hole(h.hdr, x, TailBlock) /\ \A lo, hi : Hole(h.hdr, lo, hi) => lo = x /\ hi = TailBlock

Nothing == [x \in {} |-> Null]

LEMMA FreshHeap == HeapInv(HeapInit, Nothing) /\ OnlyHole(HeapInit, Zone) /\ HeapInit.last = Zone
<1> DEFINE whole == Block(TailBlock, Size(Length - 2 * Hdr), FALSE)
           end == Block(Null, 0, FALSE)
           hdr == [a \in {Zone, TailBlock} |-> IF a = Zone THEN whole ELSE end]
<1>1. HeapInit = [hdr |-> hdr, first |-> Zone, last |-> Zone]
  BY DEF HeapInit
<1>2. whole \in Header /\ whole.next = TailBlock /\ ~whole.used
  <2>1. Size(Length - 2 * Hdr) \in Nat
    <3>1. Length - 2 * Hdr \in Nat /\ Word \in Nat \ {0}
      BY HeapAssumption
    <3> QED BY <3>1 DEF Size
  <2> QED BY <2>1, Zones DEF Block, Header
<1>3. end \in Header /\ end.next = Null /\ ~end.used
  BY DEF Block, Header, Null
<1> HIDE DEF whole, end
<1>4. DOMAIN hdr = {Zone, TailBlock} /\ hdr[Zone] = whole /\ hdr[TailBlock] = end
  BY Zones
<1> HIDE DEF hdr
<1>5. Used(hdr) = {}
  BY <1>2, <1>3, <1>4 DEF Used
<1>6. Chain(hdr)
  <2>1. \A a \in DOMAIN hdr : hdr[a] \in Header /\ a \in Zone..TailBlock
    BY <1>2, <1>3, <1>4, Zones
  <2>2. Linked(hdr, Zone)
    BY <1>2, <1>4, Zones DEF Linked
  <2> QED BY <1>3, <1>4, <2>1, <2>2 DEF Chain
<1>7. Owns(hdr, Nothing)
  BY <1>5 DEF Owns, Nothing
<1>8. /\ HeapInit.hdr = hdr /\ HeapInit.first = Zone /\ HeapInit.last = Zone
      /\ HeapRecord(HeapInit)
  BY <1>1, RecordIs
<1>9. OnlyHole(HeapInit, Zone)
  BY <1>5, <1>8, Zones DEF OnlyHole, Hole
<1> QED BY <1>6, <1>7, <1>8, <1>9 DEF HeapInv, Ready

LEMMA MallocTop ==
  ASSUME NEW h, NEW held, HeapInv(h, held), NEW size \in Nat,
         NEW x \in Nat, OnlyHole(h, x), h.last <= x, TailBlock - x >= size + 2 * Hdr
  PROVE  LET m == HeapMalloc(h, size)
         IN  /\ m.ptr = x + Hdr /\ m.ptr # Null /\ m.heap.last = x
             /\ OnlyHole(m.heap, x + size + Hdr)
<1> DEFINE m == HeapMalloc(h, size)
           room == size + 2 * Hdr
           hdr == h.hdr
           t == m.heap.hdr
           y == x + size + Hdr
<1>1. HeapRecord(h) /\ Ready(h) /\ Chain(hdr)
  BY DEF HeapInv, Ready
<1>2. /\ HeapRecord(m.heap) /\ Chain(t)
      /\ MallocFails(h, m, room) \/ MallocTakes(h, m, size)
  BY <1>1, MallocIs
<1> HIDE DEF m
<1>3. ~MallocFails(h, m, room)
  <2> SUFFICES ASSUME MallocFails(h, m, room) PROVE FALSE
    OBVIOUS
  <2>1. Hole(hdr, x, TailBlock) /\ TooSmall(hdr, h.last, TailBlock, room) /\ TailBlock \in Nat
    BY Zones DEF OnlyHole, MallocFails
  <2>2. x < TailBlock
    BY <1>1, <2>1, HoleIs
  <2>3. TailBlock - x < room
    BY <2>1, <2>2 DEF TooSmall
  <2> QED BY <2>1, <2>3, Zones
<1>4. m.heap.last = x /\ m.ptr = x + Hdr /\ OneMore(t, hdr, x, size) /\ x \notin Used(hdr)
  <2>1. MallocTakes(h, m, size)
    BY <1>2, <1>3
  <2>2. PICK hi \in Nat : Hole(hdr, m.heap.last, hi)
    BY <2>1 DEF MallocTakes
  <2>3. m.heap.last = x
    BY <2>2 DEF OnlyHole
  <2> QED BY <2>1, <2>3 DEF MallocTakes
<1>5. /\ Used(t) = Used(hdr) \cup {x} /\ t[x].next = y
      /\ \A u \in Used(hdr) : t[u].next = hdr[u].next /\ u \in Used(t)
  BY <1>4 DEF OneMore, Block
<1>6. /\ \A u \in Used(hdr) : /\ u \in Nat /\ hdr[u].next \in Nat /\ hdr[u].next <= x
                              /\ u < hdr[u].next
      /\ Hole(hdr, x, TailBlock) /\ x \in Used(t)
  <2>1. ASSUME NEW u \in Used(hdr)
        PROVE  u \in Nat /\ hdr[u].next \in Nat /\ hdr[u].next <= x /\ u < hdr[u].next
    <3>1. u \in Nat /\ hdr[u].next \in Nat /\ u < hdr[u].next /\ hdr[u].next \in DOMAIN hdr
      BY <1>1, UsedIs
    <3>2. hdr[u].next <= TailBlock
      BY <1>1, <3>1, Addresses
    <3>3. hdr[u].next <= x \/ u >= TailBlock
      BY DEF OnlyHole, Hole
    <3> QED BY <3>1, <3>2, <3>3, Zones
  <2> QED BY <1>5, <2>1 DEF OnlyHole
<1>7. y \in Nat /\ x < y /\ y < TailBlock /\ TailBlock \in Nat
  BY Zones
<1> HIDE DEF y, t, hdr
<1>8. Hole(t, y, TailBlock)
  <2>1. \A u \in Used(t) : t[u].next <= y
    BY <1>5, <1>6, <1>7
  <2>2. \E u \in Used(t) : y = t[u].next
    BY <1>5, <1>6
  <2> QED BY <1>7, <2>1, <2>2 DEF Hole
<1>9. ASSUME NEW lo, NEW hi, Hole(t, lo, hi) PROVE lo = y /\ hi = TailBlock
  <2>1. lo \in Nat /\ hi \in Nat /\ lo < hi /\ hi <= TailBlock
    BY <1>2, <1>9, HoleIs DEF t
  <2>2. y <= lo \/ x >= hi
    BY <1>5, <1>6, <1>9 DEF Hole
  <2>3. CASE y <= lo
    <3>1. lo # Zone
      <4>1. Zone <= x
        BY <1>1, ReadyIs, Zones
      <4> QED BY <1>7, <2>1, <2>3, <4>1, Zones
    <3>2. PICK u \in Used(t) : lo = t[u].next
      BY <1>9, <3>1 DEF Hole
    <3>3. u = x
      <4> SUFFICES ASSUME u \in Used(hdr) PROVE FALSE
        BY <1>5
      <4>1. lo = hdr[u].next /\ hdr[u].next <= x
        BY <1>5, <1>6, <3>2
      <4> QED BY <1>7, <2>1, <2>3, <4>1
    <3>4. hi \notin Used(t)
      <4>1. ASSUME NEW v \in Used(hdr) PROVE v <= x
        <5>1. v \in Nat /\ hdr[v].next \in Nat /\ hdr[v].next <= x /\ v < hdr[v].next
          BY <1>6
        <5> QED BY <5>1
      <4>2. ASSUME hi \in Used(t) PROVE hi <= x
        BY <1>5, <4>1, <4>2
      <4> QED BY <1>7, <2>1, <2>3, <4>2
    <3> QED BY <1>5, <1>9, <3>2, <3>3, <3>4 DEF Hole
  <2>4. CASE x >= hi
    <3>1. Hole(hdr, lo, TailBlock)
      <4>1. lo = Zone \/ \E u \in Used(hdr) : lo = hdr[u].next
        <5> SUFFICES ASSUME lo # Zone PROVE \E u \in Used(hdr) : lo = hdr[u].next
          OBVIOUS
        <5>1. PICK u \in Used(t) : lo = t[u].next
          BY <1>9 DEF Hole
        <5>2. u # x
          BY <1>5, <1>7, <2>1, <2>4, <5>1
        <5> QED BY <1>5, <5>1, <5>2
      <4>2. \A u \in Used(hdr) : hdr[u].next <= lo \/ u >= TailBlock
        <5> SUFFICES ASSUME NEW u \in Used(hdr), u >= hi PROVE u >= TailBlock
          BY <1>5, <1>9 DEF Hole
        <5>1. hi = TailBlock \/ hi \in Used(hdr) \/ hi = x
          BY <1>5, <1>9 DEF Hole
        <5>2. CASE hi \in Used(hdr)
          <6>1. Hole(hdr, lo, hi)
            <7>1. ASSUME NEW v \in Used(hdr) PROVE hdr[v].next <= lo \/ v >= hi
              <8>1. v \in Used(t) /\ t[v].next = hdr[v].next
                BY <1>5
              <8>2. t[v].next <= lo \/ v >= hi
                BY <1>9, <8>1 DEF Hole
              <8> QED BY <8>1, <8>2
            <7> QED BY <2>1, <4>1, <5>2, <7>1 DEF Hole
          <6> QED BY <1>7, <2>1, <2>4, <6>1 DEF OnlyHole, hdr
        <5>3. CASE hi = x
          <6>1. u \in Nat /\ hdr[u].next \in Nat /\ hdr[u].next <= x /\ u < hdr[u].next
            BY <1>6
          <6> QED BY <5>3, <6>1
        <5>4. CASE hi = TailBlock
          BY <5>4
        <5> QED BY <5>1, <5>2, <5>3, <5>4
      <4> QED BY <2>1, <1>7, <4>1, <4>2 DEF Hole
    <3>2. lo = x
      BY <3>1 DEF OnlyHole, hdr
    <3> QED BY <2>1, <2>4, <3>2
  <2> QED BY <2>2, <2>3, <2>4
<1>10. m.ptr # Null
  BY <1>4, Zones DEF Null
<1> QED BY <1>4, <1>8, <1>9, <1>10 DEF OnlyHole, m, t, y

(***************************************************************************)
(* The list, its nodes, the TCBs and the stacks as one structure: every    *)
(* TCB hangs on one node, and no address serves twice.                     *)
(***************************************************************************)
TcbRecord == [id : 0..(Ids - 1), stack : Nat, stack_sz : Nat]
ListRecord == [at : Nat, head : Nat, tail : Nat, length : Nat]

Hung(nd, tb, c, k) ==
  /\ \A t \in DOMAIN tb : tb[t] \in TcbRecord
  /\ \A i \in 1..k : nd[c[i]].data \in DOMAIN tb
  /\ \A i, j \in 1..k : nd[c[i]].data = nd[c[j]].data => i = j
  /\ \A t \in DOMAIN tb : \E i \in 1..k : t = nd[c[i]].data

Apart(at, nd, tb) ==
  /\ \A n \in DOMAIN nd : n # at /\ n \notin DOMAIN tb
  /\ \A t \in DOMAIN tb : /\ t # at
                          /\ tb[t].stack # at /\ tb[t].stack \notin DOMAIN nd
                          /\ tb[t].stack \notin DOMAIN tb
  /\ \A t, x \in DOMAIN tb : tb[t].stack = tb[x].stack => t = x

Shape(l, nd, tb, c, k) ==
  /\ l \in ListRecord /\ l.length = k /\ l.head = c[0] /\ l.tail = c[k + 1]
  /\ Path(nd, c, k) /\ Hung(nd, tb, c, k) /\ Apart(l.at, nd, tb)

Stacks(tb) == {tb[t].stack : t \in DOMAIN tb}

Holds(held, at, nd, tb) ==
  /\ DOMAIN held = {at} \cup DOMAIN nd \cup DOMAIN tb \cup Stacks(tb)
  /\ held[at] = ListSize
  /\ \A n \in DOMAIN nd : held[n] = NodeSize
  /\ \A t \in DOMAIN tb : held[t] = TcbSize /\ held[tb[t].stack] = tb[t].stack_sz

HeldOf(at, nd, tb) ==
  [a \in {at} \cup DOMAIN nd \cup DOMAIN tb \cup {tb[t].stack : t \in DOMAIN tb} |->
     IF a = at THEN ListSize
     ELSE IF a \in DOMAIN nd THEN NodeSize
     ELSE IF a \in DOMAIN tb THEN TcbSize
     ELSE tb[CHOOSE t \in DOMAIN tb : tb[t].stack = a].stack_sz]

LEMMA HeldOfIs ==
  ASSUME NEW at, NEW nd, NEW tb, Apart(at, nd, tb)
  PROVE  Holds(HeldOf(at, nd, tb), at, nd, tb)
<1> DEFINE F(a) == IF a = at THEN ListSize
                   ELSE IF a \in DOMAIN nd THEN NodeSize
                   ELSE IF a \in DOMAIN tb THEN TcbSize
                   ELSE tb[CHOOSE t \in DOMAIN tb : tb[t].stack = a].stack_sz
           D == {at} \cup DOMAIN nd \cup DOMAIN tb \cup Stacks(tb)
           held == HeldOf(at, nd, tb)
<1>1. held = [a \in D |-> F(a)]
  BY DEF HeldOf, Stacks
<1> HIDE DEF held
<1>2. \A n \in DOMAIN nd : F(n) = NodeSize
  BY DEF Apart
<1>3. \A t \in DOMAIN tb : F(t) = TcbSize
  BY DEF Apart
<1>4. ASSUME NEW t \in DOMAIN tb PROVE F(tb[t].stack) = tb[t].stack_sz
  <2> DEFINE x == CHOOSE x \in DOMAIN tb : tb[x].stack = tb[t].stack
  <2>1. x \in DOMAIN tb /\ tb[x].stack = tb[t].stack
    OBVIOUS
  <2> HIDE DEF x
  <2>2. x = t
    BY <2>1 DEF Apart
  <2>3. F(tb[t].stack) = tb[x].stack_sz
    BY DEF Apart, x
  <2> QED BY <2>2, <2>3
<1>5. F(at) = ListSize
  OBVIOUS
<1> HIDE DEF F
<1>6. DOMAIN held = D /\ \A a \in D : held[a] = F(a)
  BY <1>1
<1>7. \A t \in DOMAIN tb : tb[t].stack \in D
  BY DEF Stacks
<1> QED BY <1>2, <1>3, <1>4, <1>5, <1>6, <1>7 DEF Holds, held

LEMMA HoldsSame ==
  ASSUME NEW at, NEW nd, NEW tb, NEW held, NEW other,
         Holds(held, at, nd, tb), Holds(other, at, nd, tb), NEW h, HeapInv(h, held)
  PROVE  HeapInv(h, other)
<1>1. DOMAIN held = DOMAIN other
  BY DEF Holds
<1>2. ASSUME NEW a \in DOMAIN held PROVE held[a] = other[a]
  <2>1. CASE a = at
    BY <2>1 DEF Holds
  <2>2. CASE a \in DOMAIN nd
    BY <2>2 DEF Holds
  <2>3. CASE a \in DOMAIN tb
    BY <2>3 DEF Holds
  <2>4. CASE a \in Stacks(tb)
    <3>1. PICK t \in DOMAIN tb : a = tb[t].stack
      BY <2>4 DEF Stacks
    <3> QED BY <3>1 DEF Holds
  <2> QED BY <2>1, <2>2, <2>3, <2>4 DEF Holds
<1>3. Owns(h.hdr, other)
  BY <1>1, <1>2 DEF HeapInv, Owns
<1> QED BY <1>3 DEF HeapInv

(***************************************************************************)
(* list_pushback of a new TCB.                                             *)
(***************************************************************************)
Put(c, k, n) == [i \in 0..(k + 2) |-> IF i = k + 2 THEN n ELSE c[i]]

IdSeq(nd, tb, c, k) == [i \in 1..k |-> tb[nd[c[i]].data].id]

Pushed(nd, tail, n, t) == With([nd EXCEPT ![tail] = Node(n, t)], n, Node(Null, Null))

IsPushed(nd2, c2, nd, c, k, n, t) ==
  /\ DOMAIN nd2 = DOMAIN nd \cup {n}
  /\ \A i \in 0..(k + 1) : c2[i] = c[i]
  /\ c2[k + 2] = n
  /\ \A i \in 0..k : nd2[c[i]] = nd[c[i]]
  /\ nd2[c[k + 1]].data = t

LEMMA PushedIs ==
  ASSUME NEW nd, NEW c, NEW k \in Nat, Path(nd, c, k), NEW tail, tail = c[k + 1],
         NEW n \in Nat \ {0}, n \notin DOMAIN nd, NEW t \in Nat
  PROVE  LET nd2 == Pushed(nd, tail, n, t)
             c2 == Put(c, k, n)
         IN  Path(nd2, c2, k + 1) /\ IsPushed(nd2, c2, nd, c, k, n, t)
<1> DEFINE nd2 == Pushed(nd, tail, n, t)
           c2 == Put(c, k, n)
           mid == [nd EXCEPT ![tail] = Node(n, t)]
<1>1. /\ c2[k + 2] = n /\ \A i \in 0..(k + 1) : c2[i] = c[i]
  BY DEF Put
<1>2. tail \in DOMAIN nd /\ tail # n /\ \A i \in 0..k : c[i] \in DOMAIN nd /\ c[i] # tail /\ c[i] # n
  BY DEF Path
<1> HIDE DEF c2
<1>3. DOMAIN mid = DOMAIN nd /\ mid[tail] = Node(n, t) /\ \A x \in DOMAIN nd : x # tail => mid[x] = nd[x]
  BY <1>2
<1>4. nd2 = With(mid, n, Node(Null, Null))
  BY DEF Pushed
<1> HIDE DEF mid, nd2
<1>5. /\ DOMAIN nd2 = DOMAIN nd \cup {n} /\ nd2[n] = Node(Null, Null)
      /\ \A x \in DOMAIN nd : nd2[x] = mid[x]
  <2>1. n \notin DOMAIN mid
    BY <1>3
  <2> DEFINE end == Node(Null, Null)
  <2> HIDE DEF end
  <2>2. nd2 = With(mid, n, end)
    BY <1>4 DEF end
  <2>3. /\ DOMAIN nd2 = DOMAIN mid \cup {n} /\ nd2[n] = end
        /\ \A x \in DOMAIN mid : nd2[x] = mid[x]
    BY <2>1, <2>2 DEF With
  <2> QED BY <1>3, <2>3 DEF end
<1>6. /\ nd2[tail].next = n /\ nd2[tail].data = t /\ nd2[tail] \in NodeRecord
      /\ nd2[n].next = Null /\ nd2[n] \in NodeRecord
  BY <1>2, <1>3, <1>5 DEF Node, NodeRecord, Null
<1>7. \A i \in 0..k : nd2[c[i]] = nd[c[i]]
  BY <1>2, <1>3, <1>5
<1>8. \A x \in DOMAIN nd2 : x \in Nat \ {0} /\ nd2[x] \in NodeRecord
  BY <1>3, <1>5, <1>6 DEF Path
<1>9. (k + 1) + 1 = k + 2 /\ k + 2 \in 0..(k + 2)
  OBVIOUS
<1>10. \A i \in 0..(k + 2) : i = k + 2 \/ i \in 0..(k + 1)
  OBVIOUS
<1>11. \A i \in 0..(k + 2) : c2[i] \in DOMAIN nd2
  BY <1>1, <1>5, <1>10 DEF Path
<1>12. ASSUME NEW i \in 0..(k + 2), NEW j \in 0..(k + 2), c2[i] = c2[j] PROVE i = j
  BY <1>1, <1>10, <1>12 DEF Path
<1>13. ASSUME NEW x \in DOMAIN nd2 PROVE \E i \in 0..(k + 2) : x = c2[i]
  <2>1. CASE x = n
    BY <1>1, <1>9, <2>1
  <2>2. CASE x \in DOMAIN nd
    <3>1. PICK i \in 0..(k + 1) : x = c[i]
      BY <2>2 DEF Path
    <3>2. i \in 0..(k + 2)
      OBVIOUS
    <3> QED BY <1>1, <3>1, <3>2
  <2> QED BY <1>5, <2>1, <2>2
<1>14. ASSUME NEW i \in 0..(k + 1) PROVE nd2[c2[i]].next = c2[i + 1]
  <2>1. CASE i = k + 1
    BY <1>1, <1>6, <1>9, <2>1
  <2>2. CASE i \in 0..k
    <3>1. i + 1 \in 0..(k + 1) /\ nd[c[i]].next = c[i + 1]
      BY <2>2 DEF Path
    <3> QED BY <1>1, <1>7, <2>2, <3>1
  <2> QED BY <2>1, <2>2
<1>15. Path(nd2, c2, k + 1)
  BY <1>1, <1>6, <1>8, <1>9, <1>11, <1>12, <1>13, <1>14 DEF Path
<1>16. IsPushed(nd2, c2, nd, c, k, n, t)
  BY <1>1, <1>5, <1>6, <1>7 DEF IsPushed
<1> QED BY <1>15, <1>16 DEF nd2, c2

LEMMA SeqIs ==
  ASSUME NEW S, NEW k \in Nat, NEW f, DOMAIN f = 1..k, f = [i \in 1..k |-> f[i]],
         \A i \in 1..k : f[i] \in S
  PROVE  f \in Seq(S) /\ Len(f) = k
OBVIOUS

LEMMA AppendIs ==
  ASSUME NEW S, NEW q \in Seq(S), NEW e \in S
  PROVE  Append(q, e) = [i \in 1..(Len(q) + 1) |-> IF i = Len(q) + 1 THEN e ELSE q[i]]
<1> DEFINE r == Append(q, e)
<1>1. r \in Seq(S) /\ Len(r) = Len(q) + 1 /\ Len(q) \in Nat
      /\ \A i \in 1..(Len(q) + 1) : r[i] = IF i = Len(q) + 1 THEN e ELSE q[i]
  BY AppendProperties
<1> HIDE DEF r
<1>2. r = [i \in 1..(Len(q) + 1) |-> r[i]]
  BY <1>1
<1> QED BY <1>1, <1>2 DEF r

IsLonger(l2, l, n) ==
  /\ l2 \in ListRecord /\ l2.length = l.length + 1
  /\ l2.head = l.head /\ l2.tail = n /\ l2.at = l.at

LEMMA LongerIs ==
  ASSUME NEW l, l \in ListRecord, NEW n \in Nat,
         NEW l2, l2 = [l EXCEPT !.tail = n, !.length = @ + 1]
  PROVE  IsLonger(l2, l, n)
<1> DEFINE at == l.at
           head == l.head
           tail == l.tail
           length == l.length
<1>1. /\ l = [at |-> at, head |-> head, tail |-> tail, length |-> length]
      /\ at \in Nat /\ head \in Nat /\ length \in Nat
  BY DEF ListRecord
<1>2. at = l.at /\ head = l.head /\ length = l.length
  OBVIOUS
<1> HIDE DEF at, head, tail, length
<1>3. l2 = [at |-> at, head |-> head, tail |-> n, length |-> length + 1]
  BY <1>1, <1>2
<1>4. /\ l2 \in ListRecord /\ l2.at = at /\ l2.head = head
      /\ l2.tail = n /\ l2.length = length + 1
  BY <1>1, <1>3 DEF ListRecord
<1> QED BY <1>2, <1>4 DEF IsLonger

\* The kernel's memory after a spawn: l2, nd2, tb2, held2 are what list, node,
\* tcb and the areas become when the task with that id has been appended.
Spawned(l, nd, tb, c, k, id, l2, nd2, tb2, c2, held2) ==
  /\ Shape(l2, nd2, tb2, c2, k + 1) /\ l2.at = l.at
  /\ Holds(held2, l.at, nd2, tb2)
  /\ IdSeq(nd2, tb2, c2, k + 1) = Append(IdSeq(nd, tb, c, k), id)

\* With or without a stack, the task stands at the end of the list.
IsLinked(l, nd, tb, c, k, id, l2, nd2, tb2, c2) ==
  /\ Path(nd2, c2, k + 1) /\ l2.head = c2[0]
  /\ IdSeq(nd2, tb2, c2, k + 1) = Append(IdSeq(nd, tb, c, k), id)

LEMMA SpawnSeq ==
  ASSUME NEW l, NEW nd, NEW tb, NEW c, NEW k \in Nat, Shape(l, nd, tb, c, k),
         NEW t \in Nat \ {0}, t \notin DOMAIN nd, t \notin DOMAIN tb,
         NEW n \in Nat \ {0}, n \notin DOMAIN nd, n # t,
         NEW id \in 0..(Ids - 1), NEW rec, rec.id = id,
         NEW tail, tail = l.tail,
         NEW nd2, nd2 = Pushed(nd, tail, n, t),
         NEW tb2, tb2 = With(tb, t, rec),
         NEW c2, c2 = Put(c, k, n),
         NEW l2, l2 = [l EXCEPT !.tail = n, !.length = @ + 1]
  PROVE  IsLinked(l, nd, tb, c, k, id, l2, nd2, tb2, c2)
<1>1. /\ l \in ListRecord /\ l.length = k /\ l.head = c[0] /\ l.tail = c[k + 1]
      /\ Path(nd, c, k) /\ Hung(nd, tb, c, k)
  BY DEF Shape
<1>3. t \in Nat
  OBVIOUS
<1>4. rec.id = id
  OBVIOUS
<1>5. /\ DOMAIN tb2 = DOMAIN tb \cup {t} /\ tb2[t] = rec
      /\ \A x \in DOMAIN tb : tb2[x] = tb[x]
  BY DEF With
<1>6. Path(nd2, c2, k + 1) /\ IsPushed(nd2, c2, nd, c, k, n, t)
  BY <1>1, <1>3, PushedIs
<1>7. /\ l2 \in ListRecord /\ l2.length = k + 1 /\ l2.head = l.head /\ l2.tail = n /\ l2.at = l.at
  <2>1. n \in Nat
    OBVIOUS
  <2>2. IsLonger(l2, l, n)
    BY <1>1, <2>1, LongerIs
  <2> QED BY <1>1, <2>2 DEF IsLonger
<1>14. /\ DOMAIN nd2 = DOMAIN nd \cup {n}
       /\ \A i \in 0..(k + 1) : c2[i] = c[i]
       /\ c2[k + 2] = n
       /\ \A i \in 0..k : nd2[c[i]] = nd[c[i]]
       /\ nd2[c[k + 1]].data = t
  BY <1>6 DEF IsPushed
<1>8. /\ \A i \in 1..k : i \in 0..k /\ i \in 0..(k + 1) /\ c2[i] = c[i] /\ nd2[c2[i]].data = nd[c[i]].data
      /\ nd2[c2[k + 1]].data = t
      /\ \A i \in 1..(k + 1) : i \in 1..k \/ i = k + 1
      /\ \A i \in 1..k : nd[c[i]].data \in DOMAIN tb /\ nd[c[i]].data # t
  <2>1. \A i \in 1..k : i \in 0..k /\ i \in 0..(k + 1)
    OBVIOUS
  <2>2. \A i \in 1..(k + 1) : i \in 1..k \/ i = k + 1
    OBVIOUS
  <2>3. k + 1 \in 0..(k + 1)
    OBVIOUS
  <2>4. \A i \in 1..k : nd[c[i]].data \in DOMAIN tb /\ nd[c[i]].data # t
    BY <1>1, <1>3 DEF Hung
  <2> QED BY <1>6, <1>14, <2>1, <2>2, <2>3, <2>4
<1>13. IdSeq(nd2, tb2, c2, k + 1) = Append(IdSeq(nd, tb, c, k), id)
  <2> DEFINE q == IdSeq(nd, tb, c, k)
             r == IdSeq(nd2, tb2, c2, k + 1)
  <2>1. \A i \in 1..k : tb[nd[c[i]].data].id \in 0..(Ids - 1)
    BY <1>1 DEF Hung, TcbRecord
  <2>2. q \in Seq(0..(Ids - 1)) /\ Len(q) = k /\ \A i \in 1..k : q[i] = tb[nd[c[i]].data].id
    <3> DEFINE S == 0..(Ids - 1)
    <3>1. q = [i \in 1..k |-> tb[nd[c[i]].data].id]
      BY DEF IdSeq
    <3> HIDE DEF q, S
    <3>2. DOMAIN q = 1..k /\ q = [i \in 1..k |-> q[i]] /\ \A i \in 1..k : q[i] \in S
      BY <2>1, <3>1 DEF S
    <3>3. q \in Seq(S) /\ Len(q) = k
      BY <3>2, SeqIs
    <3> QED BY <3>1, <3>3 DEF S
  <2>3. r = [i \in 1..(k + 1) |-> tb2[nd2[c2[i]].data].id]
    BY DEF IdSeq
  <2> HIDE DEF q, r
  <2>4. \A i \in 1..k : tb2[nd2[c2[i]].data].id = q[i]
    BY <1>5, <1>8, <2>2
  <2>5. tb2[nd2[c2[k + 1]].data].id = id
    BY <1>4, <1>5, <1>8
  <2>6. Append(q, id) = [i \in 1..(k + 1) |-> IF i = k + 1 THEN id ELSE q[i]]
    <3> DEFINE S == 0..(Ids - 1)
    <3>1. q \in Seq(S) /\ id \in S /\ Len(q) = k
      BY <2>2
    <3> HIDE DEF S
    <3>2. Append(q, id) = [i \in 1..(Len(q) + 1) |-> IF i = Len(q) + 1 THEN id ELSE q[i]]
      BY <3>1, AppendIs
    <3> QED BY <3>1, <3>2
  <2>7. \A i \in 1..(k + 1) : tb2[nd2[c2[i]].data].id = IF i = k + 1 THEN id ELSE q[i]
    BY <1>8, <2>4, <2>5
  <2>8. r = [i \in 1..(k + 1) |-> IF i = k + 1 THEN id ELSE q[i]]
    BY <2>3, <2>7
  <2> QED BY <2>6, <2>8 DEF q, r
<1>15. c2[0] = c[0]
  BY <1>14
<1> QED BY <1>1, <1>6, <1>7, <1>13, <1>15 DEF IsLinked

LEMMA SpawnShape ==
  ASSUME NEW l, NEW nd, NEW tb, NEW c, NEW k \in Nat, Shape(l, nd, tb, c, k),
         NEW held, Holds(held, l.at, nd, tb),
         NEW t \in Nat \ {0}, t \notin DOMAIN held,
         NEW n \in Nat \ {0}, n \notin DOMAIN held, n # t,
         NEW s \in Nat \ {0}, s \notin DOMAIN held, s # t, s # n,
         NEW id \in 0..(Ids - 1), NEW size \in Nat,
         NEW rec, rec = [id |-> id, stack |-> s, stack_sz |-> size],
         NEW tail, tail = l.tail,
         NEW nd2, nd2 = Pushed(nd, tail, n, t),
         NEW tb2, tb2 = With(tb, t, rec),
         NEW c2, c2 = Put(c, k, n),
         NEW l2, l2 = [l EXCEPT !.tail = n, !.length = @ + 1],
         NEW held2, held2 = With(With(With(held, t, TcbSize), n, NodeSize), s, size)
  PROVE  Spawned(l, nd, tb, c, k, id, l2, nd2, tb2, c2, held2)
<1>1. /\ l \in ListRecord /\ l.length = k /\ l.head = c[0] /\ l.tail = c[k + 1]
      /\ Path(nd, c, k) /\ Hung(nd, tb, c, k) /\ Apart(l.at, nd, tb)
  BY DEF Shape
<1>2. DOMAIN held = {l.at} \cup DOMAIN nd \cup DOMAIN tb \cup Stacks(tb)
  BY DEF Holds
<1>3. /\ t # l.at /\ n # l.at /\ s # l.at
      /\ t \notin DOMAIN nd /\ n \notin DOMAIN nd /\ s \notin DOMAIN nd
      /\ t \notin DOMAIN tb /\ n \notin DOMAIN tb /\ s \notin DOMAIN tb
      /\ \A x \in DOMAIN tb : tb[x].stack # t /\ tb[x].stack # n /\ tb[x].stack # s
  BY <1>2 DEF Stacks
<1>4. rec \in TcbRecord /\ rec.id = id /\ rec.stack = s /\ rec.stack_sz = size
  BY DEF TcbRecord
<1>5. /\ DOMAIN tb2 = DOMAIN tb \cup {t} /\ tb2[t] = rec
      /\ \A x \in DOMAIN tb : tb2[x] = tb[x]
  BY <1>3 DEF With
<1>6. Path(nd2, c2, k + 1) /\ IsPushed(nd2, c2, nd, c, k, n, t)
  BY <1>1, <1>3, PushedIs
<1>7. /\ l2 \in ListRecord /\ l2.length = k + 1 /\ l2.head = l.head /\ l2.tail = n /\ l2.at = l.at
  <2>1. n \in Nat
    OBVIOUS
  <2>2. IsLonger(l2, l, n)
    BY <1>1, <2>1, LongerIs
  <2> QED BY <1>1, <2>2 DEF IsLonger
<1>14. /\ DOMAIN nd2 = DOMAIN nd \cup {n}
       /\ \A i \in 0..(k + 1) : c2[i] = c[i]
       /\ c2[k + 2] = n
       /\ \A i \in 0..k : nd2[c[i]] = nd[c[i]]
       /\ nd2[c[k + 1]].data = t
  BY <1>6 DEF IsPushed
<1>8. /\ \A i \in 1..k : i \in 0..k /\ i \in 0..(k + 1) /\ c2[i] = c[i] /\ nd2[c2[i]].data = nd[c[i]].data
      /\ nd2[c2[k + 1]].data = t
      /\ \A i \in 1..(k + 1) : i \in 1..k \/ i = k + 1
      /\ \A i \in 1..k : nd[c[i]].data \in DOMAIN tb /\ nd[c[i]].data # t
  <2>1. \A i \in 1..k : i \in 0..k /\ i \in 0..(k + 1)
    OBVIOUS
  <2>2. \A i \in 1..(k + 1) : i \in 1..k \/ i = k + 1
    OBVIOUS
  <2>3. k + 1 \in 0..(k + 1)
    OBVIOUS
  <2>4. \A i \in 1..k : nd[c[i]].data \in DOMAIN tb /\ nd[c[i]].data # t
    BY <1>1, <1>3 DEF Hung
  <2> QED BY <1>6, <1>14, <2>1, <2>2, <2>3, <2>4
<1>9. Hung(nd2, tb2, c2, k + 1)
  <2>1. \A x \in DOMAIN tb2 : tb2[x] \in TcbRecord
    BY <1>1, <1>4, <1>5 DEF Hung
  <2>2. \A i \in 1..(k + 1) : nd2[c2[i]].data \in DOMAIN tb2
    BY <1>5, <1>8
  <2>3. ASSUME NEW i \in 1..(k + 1), NEW j \in 1..(k + 1), nd2[c2[i]].data = nd2[c2[j]].data
        PROVE  i = j
    BY <1>1, <1>8, <2>3 DEF Hung
  <2>4. ASSUME NEW x \in DOMAIN tb2 PROVE \E i \in 1..(k + 1) : x = nd2[c2[i]].data
    <3>1. CASE x = t
      <4>1. k + 1 \in 1..(k + 1)
        OBVIOUS
      <4> QED BY <1>8, <3>1, <4>1
    <3>2. CASE x \in DOMAIN tb
      <4>1. PICK i \in 1..k : x = nd[c[i]].data
        BY <1>1, <3>2 DEF Hung
      <4>2. i \in 1..(k + 1)
        OBVIOUS
      <4> QED BY <1>8, <4>1, <4>2
    <3> QED BY <1>5, <3>1, <3>2
  <2> QED BY <2>1, <2>2, <2>3, <2>4 DEF Hung
<1>10. Apart(l.at, nd2, tb2)
  <2>1. \A x \in DOMAIN nd2 : x # l.at /\ x \notin DOMAIN tb2
    BY <1>1, <1>3, <1>5, <1>6, <1>14 DEF Apart
  <2>2. \A x \in DOMAIN tb2 : /\ x # l.at /\ tb2[x].stack # l.at
                              /\ tb2[x].stack \notin DOMAIN nd2 /\ tb2[x].stack \notin DOMAIN tb2
    BY <1>1, <1>3, <1>4, <1>5, <1>6, <1>14 DEF Apart
  <2>3. ASSUME NEW x \in DOMAIN tb2, NEW y \in DOMAIN tb2, tb2[x].stack = tb2[y].stack PROVE x = y
    BY <1>1, <1>3, <1>4, <1>5, <2>3 DEF Apart
  <2> QED BY <2>1, <2>2, <2>3 DEF Apart
<1>11. Shape(l2, nd2, tb2, c2, k + 1)
  <2>1. c2[0] = c[0] /\ (k + 1) + 1 = k + 2
    BY <1>6, <1>14
  <2> QED BY <1>1, <1>6, <1>14, <1>7, <1>9, <1>10, <2>1 DEF Shape
<1>12. Holds(held2, l.at, nd2, tb2)
  <2>1. /\ DOMAIN held2 = DOMAIN held \cup {t, n, s}
        /\ held2[t] = TcbSize /\ held2[n] = NodeSize /\ held2[s] = size
        /\ \A x \in DOMAIN held : held2[x] = held[x]
    BY DEF With
  <2>2. DOMAIN held2 = {l.at} \cup DOMAIN nd2 \cup DOMAIN tb2 \cup Stacks(tb2)
    <3>1. Stacks(tb2) = Stacks(tb) \cup {s}
      <4>1. \A x \in DOMAIN tb : x \in DOMAIN tb2 /\ tb2[x].stack = tb[x].stack
        BY <1>5
      <4>2. t \in DOMAIN tb2 /\ tb2[t].stack = s
        BY <1>4, <1>5
      <4>3. \A x \in DOMAIN tb2 : x \in DOMAIN tb \/ x = t
        BY <1>5
      <4> QED BY <4>1, <4>2, <4>3 DEF Stacks
    <3> QED BY <1>2, <1>5, <1>6, <1>14, <2>1, <3>1
  <2>3. /\ l.at \in DOMAIN held /\ \A x \in DOMAIN nd : x \in DOMAIN held
        /\ \A x \in DOMAIN tb : x \in DOMAIN held /\ tb[x].stack \in DOMAIN held
    BY <1>2 DEF Stacks
  <2>4. held2[l.at] = ListSize /\ \A x \in DOMAIN nd2 : held2[x] = NodeSize
    BY <1>6, <1>14, <2>1, <2>3 DEF Holds
  <2>5. \A x \in DOMAIN tb2 : held2[x] = TcbSize /\ held2[tb2[x].stack] = tb2[x].stack_sz
    BY <1>4, <1>5, <2>1, <2>3 DEF Holds
  <2> QED BY <2>2, <2>4, <2>5 DEF Holds
<1>13. IdSeq(nd2, tb2, c2, k + 1) = Append(IdSeq(nd, tb, c, k), id)
  <2>1. t \notin DOMAIN nd /\ t \notin DOMAIN tb /\ n \notin DOMAIN nd /\ rec.id = id
    BY <1>3, <1>4
  <2>2. IsLinked(l, nd, tb, c, k, id, l2, nd2, tb2, c2)
    BY <2>1, SpawnSeq
  <2> QED BY <2>2 DEF IsLinked
<1> QED BY <1>7, <1>11, <1>12, <1>13 DEF Spawned

(***************************************************************************)
(* list_remove of the i-th node.                                           *)
(***************************************************************************)
Cut(c, k, i) == [j \in 0..k |-> IF j < i THEN c[j] ELSE c[j + 1]]

Unlinked(nd, last, n) == Drop([nd EXCEPT ![last].next = nd[n].next], n)

IsUnlinked(nd2, nd, n) ==
  /\ DOMAIN nd2 = DOMAIN nd \ {n}
  /\ \A x \in DOMAIN nd2 : nd2[x].data = nd[x].data

LEMMA UnlinkedIs ==
  ASSUME NEW nd, NEW c, NEW k \in Nat, Path(nd, c, k), NEW i \in 1..k,
         NEW n, n = c[i], NEW last, last = c[i - 1]
  PROVE  LET nd2 == Unlinked(nd, last, n)
         IN  Path(nd2, Cut(c, k, i), k - 1) /\ IsUnlinked(nd2, nd, n)
<1> DEFINE nd2 == Unlinked(nd, last, n)
           c2 == Cut(c, k, i)
           mid == [nd EXCEPT ![last].next = nd[n].next]
<1>0. i - 1 \in 0..k /\ i - 1 \in 0..(k + 1) /\ i \in 0..k /\ i \in 0..(k + 1)
      /\ i + 1 \in 0..(k + 1) /\ i - 1 # i /\ (i - 1) + 1 = i
      /\ k - 1 \in Nat /\ (k - 1) + 1 = k /\ k \in 0..k
  OBVIOUS
<1>1. /\ last \in DOMAIN nd /\ n \in DOMAIN nd /\ last # n
      /\ nd[last].next = n /\ nd[n].next = c[i + 1] /\ c[i + 1] \in DOMAIN nd
      /\ \A x \in DOMAIN nd : x \in Nat \ {0} /\ nd[x] \in NodeRecord
  BY <1>0 DEF Path
<1> DEFINE rec == [nd[last] EXCEPT !.next = nd[n].next]
<1>2. rec \in NodeRecord /\ rec.next = c[i + 1] /\ rec.data = nd[last].data
  BY <1>1 DEF NodeRecord
<1>3. DOMAIN mid = DOMAIN nd /\ mid[last] = rec /\ \A x \in DOMAIN nd : x # last => mid[x] = nd[x]
  BY <1>1
<1>4. nd2 = Drop(mid, n)
  BY DEF Unlinked
<1> HIDE DEF mid, nd2, rec
<1>5. DOMAIN nd2 = DOMAIN nd \ {n} /\ \A x \in DOMAIN nd2 : nd2[x] = mid[x]
  BY <1>3, <1>4 DEF Drop
<1>6. /\ nd2[last].next = c[i + 1] /\ last \in DOMAIN nd2
      /\ \A x \in DOMAIN nd2 : /\ x # last => nd2[x] = nd[x]
                               /\ nd2[x].data = nd[x].data /\ nd2[x] \in NodeRecord
                               /\ x \in Nat \ {0}
  BY <1>1, <1>2, <1>3, <1>5
<1>7. \A j \in 0..k : c2[j] = IF j < i THEN c[j] ELSE c[j + 1]
  BY DEF Cut
<1> HIDE DEF c2
\* The old position of the j-th.
<1> DEFINE Old(j) == IF j < i THEN j ELSE j + 1
<1>8. ASSUME NEW j \in 0..k
      PROVE  /\ Old(j) \in 0..(k + 1) /\ Old(j) # i /\ c2[j] = c[Old(j)]
  BY <1>7
<1>9. \A j, m \in 0..k : Old(j) = Old(m) => j = m
  OBVIOUS
<1>10. ASSUME NEW p \in 0..(k + 1), p # i PROVE \E j \in 0..k : p = Old(j)
  <2>1. CASE p < i
    <3>1. p \in 0..k /\ p = Old(p)
      BY <2>1
    <3> QED BY <3>1
  <2>2. CASE p > i
    <3>1. p - 1 \in 0..k /\ p = Old(p - 1)
      BY <2>2
    <3> QED BY <3>1
  <2> QED BY <1>10, <2>1, <2>2
<1>11. \A j \in 0..k : c2[j] \in DOMAIN nd2
  <2> SUFFICES ASSUME NEW j \in 0..k PROVE c2[j] \in DOMAIN nd2
    OBVIOUS
  <2>1. Old(j) \in 0..(k + 1) /\ Old(j) # i /\ c2[j] = c[Old(j)]
    BY <1>8
  <2> HIDE DEF Old
  <2> QED BY <1>0, <1>5, <2>1 DEF Path
<1>12. \A j, m \in 0..k : c2[j] = c2[m] => j = m
  <2> SUFFICES ASSUME NEW j \in 0..k, NEW m \in 0..k, c2[j] = c2[m] PROVE j = m
    OBVIOUS
  <2>1. Old(j) \in 0..(k + 1) /\ c2[j] = c[Old(j)] /\ Old(m) \in 0..(k + 1) /\ c2[m] = c[Old(m)]
    BY <1>8
  <2> HIDE DEF Old
  <2>2. Old(j) = Old(m)
    BY <2>1 DEF Path
  <2> QED BY <1>9, <2>2
<1>13. ASSUME NEW x \in DOMAIN nd2 PROVE \E j \in 0..k : x = c2[j]
  <2>1. x \in DOMAIN nd /\ x # n
    BY <1>5
  <2>2. PICK p \in 0..(k + 1) : x = c[p]
    BY <2>1 DEF Path
  <2>3. p # i
    BY <2>1, <2>2
  <2>4. PICK j \in 0..k : p = Old(j)
    BY <1>10, <2>3
  <2>5. c2[j] = c[Old(j)]
    BY <1>8
  <2> HIDE DEF Old
  <2> QED BY <2>2, <2>4, <2>5
<1>14. ASSUME NEW j \in 0..(k - 1) PROVE nd2[c2[j]].next = c2[j + 1]
  <2>0. j \in 0..k /\ j + 1 \in 0..k
    OBVIOUS
  <2>1. CASE j < i - 1
    <3>1. c2[j] = c[j] /\ c2[j + 1] = c[j + 1] /\ j # i - 1 /\ j \in 0..(k + 1)
      BY <1>7, <2>0, <2>1
    <3>2. c[j] # last /\ nd[c[j]].next = c[j + 1]
      BY <1>0, <2>0, <3>1 DEF Path
    <3>3. c2[j] \in DOMAIN nd2
      BY <1>11, <2>0
    <3>4. nd2[c2[j]] = nd[c2[j]]
      BY <1>6, <3>1, <3>2, <3>3
    <3> QED BY <3>1, <3>2, <3>4
  <2>2. CASE j = i - 1
    <3>1. c2[j] = last /\ c2[j + 1] = c[i + 1]
      <4>1. j < i /\ ~(j + 1 < i) /\ (j + 1) + 1 = i + 1
        BY <2>2
      <4> QED BY <1>7, <2>0, <2>2, <4>1
    <3> QED BY <1>6, <3>1
  <2>3. CASE j >= i
    <3>1. c2[j] = c[j + 1] /\ c2[j + 1] = c[(j + 1) + 1] /\ j + 1 \in 0..k
          /\ j + 1 \in 0..(k + 1) /\ j + 1 # i - 1
      BY <1>7, <2>0, <2>3
    <3>2. c[j + 1] # last /\ nd[c[j + 1]].next = c[(j + 1) + 1]
      BY <1>0, <2>0, <3>1 DEF Path
    <3>3. c2[j] \in DOMAIN nd2
      BY <1>11, <2>0
    <3>4. nd2[c2[j]] = nd[c2[j]]
      BY <1>6, <3>1, <3>2, <3>3
    <3> QED BY <3>1, <3>2, <3>4
  <2>4. j < i - 1 \/ j = i - 1 \/ j >= i
    OBVIOUS
  <2> QED BY <2>1, <2>2, <2>3, <2>4
<1>15. nd2[c2[k]].next = Null
  <2>1. c2[k] = c[k + 1] /\ k + 1 \in 0..(k + 1) /\ k + 1 # i - 1
    BY <1>0, <1>7
  <2>2. c[k + 1] # last /\ nd[c[k + 1]].next = Null
    BY <1>0, <2>1 DEF Path
  <2>3. c2[k] \in DOMAIN nd2
    BY <1>0, <1>11
  <2>4. nd2[c2[k]] = nd[c2[k]]
    BY <1>6, <2>1, <2>2, <2>3
  <2> QED BY <2>1, <2>2, <2>4
<1>16. Path(nd2, c2, k - 1)
  BY <1>0, <1>6, <1>11, <1>12, <1>13, <1>14, <1>15 DEF Path
<1>17. IsUnlinked(nd2, nd, n)
  BY <1>5, <1>6 DEF IsUnlinked
<1> QED BY <1>16, <1>17 DEF nd2, c2

\* The search for the predecessor, from the head, finds it.
LastOf(nd, among, n) == CHOOSE m \in among : nd[m].next = n

LEMMA LastIs ==
  ASSUME NEW nd, NEW c, NEW k \in Nat, Path(nd, c, k), NEW i \in 1..k,
         NEW head, head = c[0], NEW n, n = c[i],
         NEW M, M = {head} \cup ToSet(From(c, k, 1))
  PROVE  LastOf(nd, M, n) = c[i - 1]
<1> DEFINE last == LastOf(nd, M, n)
<1>1. i - 1 \in 0..k /\ (i - 1) + 1 = i /\ i \in 0..(k + 1)
  OBVIOUS
<1>2. ToSet(From(c, k, 1)) = {c[j] : j \in 1..k}
  <2> DEFINE f == From(c, k, 1)
             S == {c[j] : j \in 1..k}
  <2>1. k + 1 - 1 = k /\ \A j \in 1..k : 1 + j - 1 = j
    OBVIOUS
  <2>2. f = [j \in 1..k |-> c[j]]
    BY <2>1 DEF From
  <2>3. DOMAIN f = 1..k /\ f = [j \in 1..k |-> f[j]] /\ \A j \in 1..k : f[j] \in S /\ f[j] = c[j]
    BY <2>2
  <2> HIDE DEF f, S
  <2>4. f \in Seq(S) /\ Len(f) = k
    BY <2>3, SeqIs
  <2>5. ToSet(f) = {f[j] : j \in 1..k}
    BY <2>4 DEF ToSet
  <2> QED BY <2>3, <2>5 DEF f, S
<1>3. \A m \in M : \E j \in 0..k : m = c[j]
  <2> SUFFICES ASSUME NEW m \in M PROVE \E j \in 0..k : m = c[j]
    OBVIOUS
  <2>1. CASE m = head
    <3>1. 0 \in 0..k
      OBVIOUS
    <3> QED BY <2>1, <3>1
  <2>2. CASE m \in {c[j] : j \in 1..k}
    <3>1. PICK j \in 1..k : m = c[j]
      BY <2>2
    <3>2. j \in 0..k
      OBVIOUS
    <3> QED BY <3>1, <3>2
  <2> QED BY <1>2, <2>1, <2>2
<1>4. c[i - 1] \in M /\ nd[c[i - 1]].next = n
  <2>1. c[i - 1] \in M
    <3>1. CASE i = 1
      BY <3>1
    <3>2. CASE i # 1
      <4>1. i - 1 \in 1..k
        BY <3>2
      <4>2. c[i - 1] \in {c[j] : j \in 1..k}
        BY <4>1
      <4> QED BY <1>2, <4>2
    <3> QED BY <3>1, <3>2
  <2>2. nd[c[i - 1]].next = c[(i - 1) + 1]
    BY <1>1 DEF Path
  <2> QED BY <1>1, <2>1, <2>2
<1>5. last \in M /\ nd[last].next = n
  BY <1>4 DEF LastOf
<1> HIDE DEF last
<1>6. PICK j \in 0..k : last = c[j]
  BY <1>3, <1>5
<1>7. j + 1 \in 0..(k + 1) /\ nd[c[j]].next = c[j + 1]
  BY DEF Path
<1>8. j + 1 = i
  BY <1>1, <1>5, <1>6, <1>7 DEF Path
<1>9. j = i - 1
  BY <1>8
<1> QED BY <1>6, <1>9 DEF last

LEMMA RemoveAtIs ==
  ASSUME NEW S, NEW k \in Nat, NEW q \in Seq(S), Len(q) = k, NEW i \in 1..k
  PROVE  RemoveAt(q, i) = [j \in 1..(k - 1) |-> IF j < i THEN q[j] ELSE q[j + 1]]
<1> DEFINE a == SubSeq(q, 1, i - 1)
           b == SubSeq(q, i + 1, k)
           r == RemoveAt(q, i)
<1>1. a \in Seq(S) /\ Len(a) = i - 1 /\ \A j \in 1..(i - 1) : a[j] = q[j]
  OBVIOUS
<1>2. b \in Seq(S) /\ Len(b) = k - i /\ \A j \in 1..(k - i) : b[j] = q[j + i]
  OBVIOUS
<1>3. r = a \o b
  BY DEF RemoveAt
<1> HIDE DEF a, b, r
<1>4. /\ r \in Seq(S) /\ Len(r) = (i - 1) + (k - i)
      /\ \A j \in 1..((i - 1) + (k - i)) : r[j] = IF j <= i - 1 THEN a[j] ELSE b[j - (i - 1)]
  <2>1. /\ a \o b \in Seq(S) /\ Len(a \o b) = Len(a) + Len(b)
        /\ \A j \in 1..Len(a) + Len(b) : (a \o b)[j] = IF j <= Len(a) THEN a[j] ELSE b[j - Len(a)]
    BY <1>1, <1>2, ConcatProperties
  <2> QED BY <1>1, <1>2, <1>3, <2>1
<1>5. (i - 1) + (k - i) = k - 1
  OBVIOUS
<1>6. r = [j \in 1..(k - 1) |-> r[j]]
  BY <1>4, <1>5
<1>7. ASSUME NEW j \in 1..(k - 1) PROVE r[j] = IF j < i THEN q[j] ELSE q[j + 1]
  <2>1. CASE j < i
    BY <1>1, <1>4, <1>5, <2>1
  <2>2. CASE j >= i
    <3>1. j - (i - 1) \in 1..(k - i) /\ (j - (i - 1)) + i = j + 1 /\ ~(j <= i - 1) /\ ~(j < i)
      BY <2>2
    <3>2. r[j] = b[j - (i - 1)]
      BY <1>4, <1>5, <3>1
    <3>3. b[j - (i - 1)] = q[j + 1]
      BY <1>2, <3>1
    <3> QED BY <3>1, <3>2, <3>3
  <2>3. j < i \/ j >= i
    OBVIOUS
  <2> QED BY <2>1, <2>2, <2>3
<1>8. [j \in 1..(k - 1) |-> r[j]] = [j \in 1..(k - 1) |-> IF j < i THEN q[j] ELSE q[j + 1]]
  BY <1>7
<1> QED BY <1>6, <1>8 DEF r

LEMMA CancelShape ==
  ASSUME NEW l, NEW nd, NEW tb, NEW c, NEW k \in Nat, Shape(l, nd, tb, c, k),
         NEW held, Holds(held, l.at, nd, tb), NEW i \in 1..k,
         NEW n, n = c[i], NEW t, t = nd[n].data, NEW s, s = tb[t].stack,
         NEW last, last = c[i - 1]
  PROVE  LET nd2 == Unlinked(nd, last, n)
             tb2 == Drop(tb, t)
             c2 == Cut(c, k, i)
             l2 == [l EXCEPT !.length = @ - 1]
             held2 == Drop(Drop(Drop(held, s), t), n)
         IN  /\ Shape(l2, nd2, tb2, c2, k - 1) /\ l2.at = l.at
             /\ s \in DOMAIN held /\ t \in DOMAIN Drop(held, s) /\ n \in DOMAIN Drop(Drop(held, s), t)
             /\ Holds(held2, l.at, nd2, tb2)
             /\ IdSeq(nd2, tb2, c2, k - 1) = RemoveAt(IdSeq(nd, tb, c, k), i)
<1> DEFINE nd2 == Unlinked(nd, last, n)
           tb2 == Drop(tb, t)
           c2 == Cut(c, k, i)
           l2 == [l EXCEPT !.length = @ - 1]
           held2 == Drop(Drop(Drop(held, s), t), n)
<1>1. /\ l \in ListRecord /\ l.length = k /\ l.head = c[0] /\ l.tail = c[k + 1]
      /\ Path(nd, c, k) /\ Hung(nd, tb, c, k) /\ Apart(l.at, nd, tb)
  BY DEF Shape
<1>2. Path(nd2, c2, k - 1) /\ IsUnlinked(nd2, nd, n)
  BY <1>1, UnlinkedIs
<1>3. DOMAIN nd2 = DOMAIN nd \ {n} /\ \A x \in DOMAIN nd2 : nd2[x].data = nd[x].data
  BY <1>2 DEF IsUnlinked
<1>4. /\ DOMAIN tb2 = DOMAIN tb \ {t} /\ \A x \in DOMAIN tb2 : tb2[x] = tb[x]
  BY DEF Drop
<1>5. \A j \in 0..k : c2[j] = IF j < i THEN c[j] ELSE c[j + 1]
  BY DEF Cut
<1>6. /\ l2 \in ListRecord /\ l2.length = k - 1 /\ l2.head = l.head /\ l2.tail = l.tail /\ l2.at = l.at
  <2> DEFINE at == l.at
             head == l.head
             tail == l.tail
             less == l.length - 1
  <2>1. l = [at |-> at, head |-> head, tail |-> tail, length |-> k]
        /\ at \in Nat /\ head \in Nat /\ tail \in Nat
    BY <1>1 DEF ListRecord
  <2>2. l2 = [l EXCEPT !.length = less] /\ less = k - 1 /\ k - 1 \in Nat
    BY <1>1
  <2> HIDE DEF at, head, tail, l2, less
  <2>3. l2 = [at |-> at, head |-> head, tail |-> tail, length |-> k - 1]
    BY <2>1, <2>2
  <2> QED BY <2>1, <2>2, <2>3 DEF ListRecord
<1> HIDE DEF nd2, tb2, c2, l2
<1>7. i \in 0..(k + 1) /\ n \in DOMAIN nd /\ t \in DOMAIN tb
  <2>1. i \in 0..(k + 1)
    OBVIOUS
  <2> QED BY <1>1, <2>1 DEF Path, Hung
\* The old position of the j-th task.
<1> DEFINE Old(j) == IF j < i THEN j ELSE j + 1
<1>8. ASSUME NEW j \in 1..(k - 1)
      PROVE  /\ Old(j) \in 1..k /\ Old(j) # i /\ c2[j] = c[Old(j)]
             /\ nd2[c2[j]].data = nd[c[Old(j)]].data /\ nd[c[Old(j)]].data \in DOMAIN tb2
  <2>1. Old(j) \in 1..k /\ Old(j) # i /\ Old(j) \in 0..(k + 1) /\ j \in 0..k /\ j \in 0..((k - 1) + 1)
    OBVIOUS
  <2>2. c2[j] = c[Old(j)]
    BY <1>5, <2>1
  <2> HIDE DEF Old
  <2>3. c2[j] \in DOMAIN nd2
    BY <1>2, <2>1 DEF Path
  <2>4. nd2[c2[j]].data = nd[c[Old(j)]].data
    BY <1>3, <2>2, <2>3
  <2>5. nd[c[Old(j)]].data \in DOMAIN tb2
    BY <1>1, <1>4, <2>1 DEF Hung
  <2> QED BY <2>1, <2>2, <2>4, <2>5
<1>9. Hung(nd2, tb2, c2, k - 1)
  <2>1. \A x \in DOMAIN tb2 : tb2[x] \in TcbRecord
    BY <1>1, <1>4 DEF Hung
  <2>2. \A j \in 1..(k - 1) : nd2[c2[j]].data \in DOMAIN tb2
    BY <1>8
  <2>3. ASSUME NEW j \in 1..(k - 1), NEW m \in 1..(k - 1), nd2[c2[j]].data = nd2[c2[m]].data
        PROVE  j = m
    <3>1. Old(j) \in 1..k /\ Old(m) \in 1..k /\ nd[c[Old(j)]].data = nd[c[Old(m)]].data
      BY <1>8, <2>3
    <3>2. Old(j) = Old(m)
      <4> HIDE DEF Old
      <4> QED BY <1>1, <3>1 DEF Hung
    <3> QED BY <3>2
  <2>4. ASSUME NEW x \in DOMAIN tb2 PROVE \E j \in 1..(k - 1) : x = nd2[c2[j]].data
    <3>1. PICK p \in 1..k : x = nd[c[p]].data
      BY <1>1, <1>4 DEF Hung
    <3>2. p # i
      BY <1>4, <3>1
    <3>3. \E j \in 1..(k - 1) : p = Old(j)
      <4>1. CASE p < i
        <5>1. p \in 1..(k - 1) /\ p = Old(p)
          BY <4>1
        <5> QED BY <5>1
      <4>2. CASE p > i
        <5>1. p - 1 \in 1..(k - 1) /\ p = Old(p - 1)
          BY <4>2
        <5> QED BY <5>1
      <4> QED BY <3>2, <4>1, <4>2
    <3>4. PICK j \in 1..(k - 1) : p = Old(j)
      BY <3>3
    <3>5. nd2[c2[j]].data = nd[c[Old(j)]].data
      BY <1>8
    <3> HIDE DEF Old
    <3> QED BY <3>1, <3>4, <3>5
  <2> QED BY <2>1, <2>2, <2>3, <2>4 DEF Hung
<1>10. Apart(l.at, nd2, tb2)
  <2>1. \A x \in DOMAIN nd2 : x \in DOMAIN nd
    BY <1>3
  <2>2. \A x \in DOMAIN tb2 : x \in DOMAIN tb /\ tb2[x] = tb[x]
    BY <1>4
  <2> QED BY <1>1, <2>1, <2>2 DEF Apart
<1>11. Shape(l2, nd2, tb2, c2, k - 1)
  <2>1. c2[0] = c[0] /\ c2[k] = c[k + 1] /\ (k - 1) + 1 = k
    BY <1>5
  <2> QED BY <1>1, <1>2, <1>6, <1>9, <1>10, <2>1 DEF Shape
<1>12. /\ s # l.at /\ s \notin DOMAIN nd /\ s \notin DOMAIN tb
       /\ t # l.at /\ t \notin DOMAIN nd /\ n # l.at /\ n \notin DOMAIN tb
       /\ \A x \in DOMAIN tb2 : /\ tb2[x].stack # s /\ tb2[x].stack # t /\ tb2[x].stack # n
                                /\ tb2[x] = tb[x] /\ x \in DOMAIN tb
  BY <1>1, <1>4, <1>7 DEF Apart
<1>13. DOMAIN held = {l.at} \cup DOMAIN nd \cup DOMAIN tb \cup Stacks(tb)
  BY DEF Holds
<1>14. s \in DOMAIN held /\ t \in DOMAIN Drop(held, s) /\ n \in DOMAIN Drop(Drop(held, s), t)
  BY <1>7, <1>12, <1>13 DEF Drop, Stacks
<1>15. Holds(held2, l.at, nd2, tb2)
  <2>1. /\ DOMAIN held2 = DOMAIN held \ {s, t, n}
        /\ \A x \in DOMAIN held2 : held2[x] = held[x]
    BY DEF Drop
  <2> HIDE DEF held2
  <2>2. DOMAIN held2 = {l.at} \cup DOMAIN nd2 \cup DOMAIN tb2 \cup Stacks(tb2)
    <3>1. Stacks(tb2) = Stacks(tb) \ {s}
      <4>1. \A x \in DOMAIN tb2 : x \in DOMAIN tb /\ tb2[x].stack = tb[x].stack /\ tb2[x].stack # s
        BY <1>12
      <4>2. \A x \in DOMAIN tb : x \in DOMAIN tb2 \/ x = t
        BY <1>4
      <4> QED BY <4>1, <4>2 DEF Stacks
    <3>2. \A x \in Stacks(tb) : x \notin DOMAIN nd /\ x \notin DOMAIN tb /\ x # l.at
      BY <1>1 DEF Apart, Stacks
    <3> QED BY <1>3, <1>4, <1>7, <1>12, <1>13, <2>1, <3>1, <3>2
  <2>3. l.at \in DOMAIN held2 /\ \A x \in DOMAIN nd2 : x \in DOMAIN held2
    BY <2>2
  <2>4. \A x \in DOMAIN tb2 : x \in DOMAIN held2 /\ tb2[x].stack \in DOMAIN held2
    BY <2>2 DEF Stacks
  <2>5. held2[l.at] = ListSize /\ \A x \in DOMAIN nd2 : held2[x] = NodeSize
    BY <1>3, <2>1, <2>3 DEF Holds
  <2>6. \A x \in DOMAIN tb2 : held2[x] = TcbSize /\ held2[tb2[x].stack] = tb2[x].stack_sz
    <3> SUFFICES ASSUME NEW x \in DOMAIN tb2
                 PROVE  held2[x] = TcbSize /\ held2[tb2[x].stack] = tb2[x].stack_sz
      OBVIOUS
    <3>1. x \in DOMAIN tb /\ tb2[x] = tb[x] /\ x \in DOMAIN held2 /\ tb[x].stack \in DOMAIN held2
      BY <1>12, <2>4
    <3>2. held2[x] = held[x] /\ held2[tb[x].stack] = held[tb[x].stack]
      BY <2>1, <3>1
    <3> QED BY <3>1, <3>2 DEF Holds
  <2> QED BY <2>2, <2>5, <2>6 DEF Holds
<1>16. IdSeq(nd2, tb2, c2, k - 1) = RemoveAt(IdSeq(nd, tb, c, k), i)
  <2> DEFINE q == IdSeq(nd, tb, c, k)
             S == 0..(Ids - 1)
             r == IdSeq(nd2, tb2, c2, k - 1)
  <2>1. \A j \in 1..k : tb[nd[c[j]].data].id \in S
    BY <1>1 DEF Hung, TcbRecord
  <2>2. q = [j \in 1..k |-> tb[nd[c[j]].data].id]
    BY DEF IdSeq
  <2>3. r = [j \in 1..(k - 1) |-> tb2[nd2[c2[j]].data].id]
    BY DEF IdSeq
  <2> HIDE DEF q, r, S
  <2>4. DOMAIN q = 1..k /\ q = [j \in 1..k |-> q[j]] /\ \A j \in 1..k : q[j] \in S
    BY <2>1, <2>2
  <2>5. q \in Seq(S) /\ Len(q) = k
    BY <2>4, SeqIs
  <2>6. RemoveAt(q, i) = [j \in 1..(k - 1) |-> IF j < i THEN q[j] ELSE q[j + 1]]
    BY <2>5, RemoveAtIs
  <2>7. ASSUME NEW j \in 1..(k - 1)
        PROVE  tb2[nd2[c2[j]].data].id = IF j < i THEN q[j] ELSE q[j + 1]
    <3>1. Old(j) \in 1..k /\ nd2[c2[j]].data = nd[c[Old(j)]].data /\ nd[c[Old(j)]].data \in DOMAIN tb2
      BY <1>8
    <3>2. q[Old(j)] = IF j < i THEN q[j] ELSE q[j + 1]
      OBVIOUS
    <3> HIDE DEF Old
    <3>3. tb2[nd2[c2[j]].data].id = q[Old(j)]
      BY <1>4, <2>2, <3>1
    <3> QED BY <3>2, <3>3
  <2>8. [j \in 1..(k - 1) |-> tb2[nd2[c2[j]].data].id]
        = [j \in 1..(k - 1) |-> IF j < i THEN q[j] ELSE q[j + 1]]
    BY <2>7
  <2> QED BY <2>3, <2>6, <2>8 DEF q, r
<1> QED BY <1>6, <1>11, <1>14, <1>15, <1>16 DEF nd2, tb2, c2, l2

(***************************************************************************)
(* The invariant of TaskStore: the allocator's own, for exactly what the   *)
(* kernel holds, and the shape of what it holds.                           *)
(***************************************************************************)
StoreInv ==
  panicked \/ /\ HeapInv(heap, Held) /\ id_next \in 0..(Ids - 1)
              /\ \E k \in Nat : \E c : Shape(list, node, tcb, c, k)

\* The sequence that the list is to the kernel.
TaskSeq == [i \in 1..Len(Visited) |-> IdAt(i)]

LEMMA Sizes ==
  /\ ListSize \in Nat /\ NodeSize \in Nat /\ TcbSize \in Nat /\ StackSizes \subseteq Nat
  /\ Ids \in Nat \ {0}
BY TaskStoreAssumption

\* v is the walk along c, and its tasks have the ids of that sequence.
IsVisited(v, nd, tb, c, k) ==
  /\ v = From(c, k, 1) /\ Len(v) = k /\ \A i \in 1..k : v[i] = c[i]
  /\ [i \in 1..Len(v) |-> tb[nd[v[i]].data].id] = IdSeq(nd, tb, c, k)

LEMMA VisitedIs ==
  ASSUME NEW l, NEW nd, NEW tb, NEW c, NEW k \in Nat, Path(nd, c, k), l.head = c[0]
  PROVE  IsVisited(Walk(nd, nd[l.head].next), nd, tb, c, k)
<1> DEFINE v == Walk(nd, nd[l.head].next)
           f == From(c, k, 1)
           S == {c[j] : j \in 1..k}
<1>1. v = f
  BY WalkIs
<1>2. k + 1 - 1 = k /\ \A j \in 1..k : 1 + j - 1 = j
  OBVIOUS
<1>3. f = [j \in 1..k |-> c[j]]
  BY <1>2 DEF From
<1>4. DOMAIN f = 1..k /\ f = [j \in 1..k |-> f[j]] /\ \A j \in 1..k : f[j] \in S /\ f[j] = c[j]
  BY <1>3
<1> HIDE DEF f, S, v
<1>5. Len(f) = k
  BY <1>4, SeqIs
<1>6. \A i \in 1..k : tb[nd[f[i]].data].id = tb[nd[c[i]].data].id
  BY <1>4
<1>7. [i \in 1..k |-> tb[nd[f[i]].data].id] = IdSeq(nd, tb, c, k)
  BY <1>6 DEF IdSeq
<1> QED BY <1>1, <1>4, <1>5, <1>7 DEF f, v, IsVisited

LEMMA SeqOfTasks ==
  ASSUME NEW c, NEW k \in Nat, Shape(list, node, tcb, c, k)
  PROVE  /\ Visited = From(c, k, 1) /\ Len(Visited) = k /\ \A i \in 1..k : Visited[i] = c[i]
         /\ TaskSeq = IdSeq(node, tcb, c, k)
<1> DEFINE v == Walk(node, node[list.head].next)
<1>1. IsVisited(v, node, tcb, c, k)
  BY VisitedIs DEF Shape
<1>2. Visited = v /\ TaskSeq = [i \in 1..Len(v) |-> tcb[node[v[i]].data].id]
  BY DEF Visited, TaskSeq, IdAt
<1> HIDE DEF v
<1> QED BY <1>1, <1>2 DEF IsVisited

LEMMA SeqOfTasksNext ==
  ASSUME NEW c, NEW k \in Nat, Path(node', c, k), list'.head = c[0]
  PROVE  TaskSeq' = IdSeq(node', tcb', c, k)
<1> DEFINE v == Walk(node', node'[list'.head].next)
<1>1. IsVisited(v, node', tcb', c, k)
  BY VisitedIs
<1>2. TaskSeq' = [i \in 1..Len(v) |-> tcb'[node'[v[i]].data].id]
  BY DEF Visited, TaskSeq, IdAt
<1> HIDE DEF v
<1> QED BY <1>1, <1>2 DEF IsVisited

\* What the kernel holds is a matter of the list, the nodes and the TCBs.
LEMMA HeldNow ==
  ASSUME NEW c, NEW k, Shape(list, node, tcb, c, k)
  PROVE  Holds(Held, list.at, node, tcb)
<1>1. Held = HeldOf(list.at, node, tcb)
  BY DEF Held, HeldOf
<1> QED BY <1>1, HeldOfIs DEF Shape

LEMMA HeldNext ==
  ASSUME NEW held, NEW c, NEW k, Shape(list', node', tcb', c, k),
         Holds(held, list'.at, node', tcb'), HeapInv(heap', held)
  PROVE  HeapInv(heap', Held')
<1>1. Held' = HeldOf(list'.at, node', tcb')
  BY DEF Held, HeldOf
<1>2. Holds(Held', list'.at, node', tcb')
  BY <1>1, HeldOfIs DEF Shape
<1> QED BY <1>2, HoldsSame

LEMMA StoreInit ==
  ASSUME Init
  PROVE  StoreInv /\ TaskSeq = <<>>
<1> DEFINE l == HeapMalloc(HeapInit, ListSize)
           head == HeapMalloc(l.heap, NodeSize)
           tail == HeapMalloc(head.heap, NodeSize)
           held1 == With(Nothing, l.ptr, ListSize)
           held2 == With(held1, head.ptr, NodeSize)
           held3 == With(held2, tail.ptr, NodeSize)
           x1 == Zone + ListSize + Hdr
           x2 == x1 + NodeSize + Hdr
           c == [i \in 0..1 |-> IF i = 0 THEN head.ptr ELSE tail.ptr]
<1>1. /\ heap = tail.heap
      /\ list = [at |-> l.ptr, head |-> head.ptr, tail |-> tail.ptr, length |-> 0]
      /\ node = [n \in {head.ptr, tail.ptr} |->
                   Node(IF n = head.ptr THEN tail.ptr ELSE Null, Null)]
      /\ tcb = [x \in {} |-> Null]
      /\ id_next = 0
  BY DEF Init
<1>2. /\ Zone \in Nat /\ x1 \in Nat /\ x2 \in Nat
      /\ TailBlock - Zone >= ListSize + 2 * Hdr
      /\ TailBlock - x1 >= NodeSize + 2 * Hdr
      /\ TailBlock - x2 >= NodeSize + 2 * Hdr
  BY HeapAssumption, TaskStoreAssumption DEF TailBlock
<1> HIDE DEF l, head, tail, held1, held2, held3, x1, x2, c
<1>3. /\ l.ptr # Null /\ l.heap.last = Zone /\ OnlyHole(l.heap, x1)
      /\ l.ptr \in Nat /\ HeapInv(l.heap, held1)
  <2>1. HeapInv(HeapInit, Nothing) /\ OnlyHole(HeapInit, Zone) /\ HeapInit.last <= Zone
    BY <1>2, FreshHeap
  <2>2. l.ptr # Null /\ l.heap.last = Zone /\ OnlyHole(l.heap, x1)
    BY <1>2, <2>1, Sizes, MallocTop DEF l, x1
  <2>3. l.ptr \in Nat /\ HeapInv(l.heap, With(Nothing, l.ptr, ListSize))
    BY <2>1, <2>2, Sizes, MallocKeeps DEF l
  <2> QED BY <2>2, <2>3 DEF held1
<1>4. /\ head.ptr # Null /\ head.heap.last = x1 /\ OnlyHole(head.heap, x2)
      /\ head.ptr \in Nat /\ head.ptr \notin DOMAIN held1 /\ HeapInv(head.heap, held2)
  <2>1. l.heap.last <= x1
    BY <1>2, <1>3, Sizes, Zones DEF x1
  <2>2. head.ptr # Null /\ head.heap.last = x1 /\ OnlyHole(head.heap, x2)
    BY <1>2, <1>3, <2>1, Sizes, MallocTop DEF head, x2
  <2>3. head.ptr \in Nat /\ head.ptr \notin DOMAIN held1
        /\ HeapInv(head.heap, With(held1, head.ptr, NodeSize))
    BY <1>3, <2>2, Sizes, MallocKeeps DEF head
  <2> QED BY <2>2, <2>3 DEF held2
<1>5. /\ tail.ptr # Null /\ tail.ptr \in Nat /\ tail.ptr \notin DOMAIN held2
      /\ HeapInv(tail.heap, held3)
  <2>1. head.heap.last <= x2
    BY <1>2, <1>4, Sizes, Zones DEF x2
  <2>2. tail.ptr # Null
    BY <1>2, <1>4, <2>1, Sizes, MallocTop DEF tail
  <2>3. tail.ptr \in Nat /\ tail.ptr \notin DOMAIN held2
        /\ HeapInv(tail.heap, With(held2, tail.ptr, NodeSize))
    BY <1>4, <2>2, Sizes, MallocKeeps DEF tail
  <2> QED BY <2>2, <2>3 DEF held3
<1>6. /\ DOMAIN held3 = {l.ptr, head.ptr, tail.ptr}
      /\ held3[l.ptr] = ListSize /\ held3[head.ptr] = NodeSize /\ held3[tail.ptr] = NodeSize
      /\ head.ptr # l.ptr /\ tail.ptr # l.ptr /\ tail.ptr # head.ptr
  <2>1. DOMAIN held1 = {l.ptr} /\ held1[l.ptr] = ListSize
    BY DEF held1, With, Nothing
  <2>2. head.ptr # l.ptr
    BY <1>4, <2>1
  <2>3. DOMAIN held2 = {l.ptr, head.ptr} /\ held2[l.ptr] = ListSize /\ held2[head.ptr] = NodeSize
    BY <2>1, <2>2 DEF held2, With
  <2>4. tail.ptr # l.ptr /\ tail.ptr # head.ptr
    BY <1>5, <2>3
  <2> QED BY <2>2, <2>3, <2>4 DEF held3, With
<1>7. c[0] = head.ptr /\ c[1] = tail.ptr
  BY DEF c
<1>8. \A i \in 0..1 : i = 0 \/ i = 1
  OBVIOUS
<1>9. /\ DOMAIN node = {head.ptr, tail.ptr}
      /\ node[head.ptr].next = tail.ptr /\ node[tail.ptr].next = Null
      /\ node[head.ptr] \in NodeRecord /\ node[tail.ptr] \in NodeRecord
  BY <1>1, <1>4, <1>5, <1>6 DEF Node, NodeRecord, Null
<1>10. Path(node, c, 0)
  <2>1. \A n \in DOMAIN node : n \in Nat \ {0} /\ node[n] \in NodeRecord
    BY <1>4, <1>5, <1>9 DEF Null
  <2>2. \A i \in 0..1 : c[i] \in DOMAIN node
    BY <1>7, <1>8, <1>9
  <2>3. \A i, j \in 0..1 : c[i] = c[j] => i = j
    BY <1>6, <1>7, <1>8
  <2>4. \A n \in DOMAIN node : \E i \in 0..1 : n = c[i]
    <3>1. 0 \in 0..1 /\ 1 \in 0..1
      OBVIOUS
    <3> QED BY <1>7, <1>9, <3>1
  <2>5. \A i \in 0..0 : i = 0
    OBVIOUS
  <2>6. 0 + 1 = 1
    OBVIOUS
  <2> QED BY <1>7, <1>9, <2>1, <2>2, <2>3, <2>4, <2>5, <2>6 DEF Path
<1>11. DOMAIN tcb = {} /\ 1..0 = {}
  BY <1>1
<1>12. Hung(node, tcb, c, 0)
  BY <1>11 DEF Hung
<1>13. list \in ListRecord /\ list.at = l.ptr /\ list.head = head.ptr /\ list.tail = tail.ptr /\ list.length = 0
  BY <1>1, <1>3, <1>4, <1>5 DEF ListRecord
<1>14. Apart(list.at, node, tcb)
  BY <1>6, <1>9, <1>11, <1>13 DEF Apart
<1>15. Shape(list, node, tcb, c, 0)
  BY <1>7, <1>10, <1>12, <1>13, <1>14 DEF Shape
<1>16. Holds(held3, list.at, node, tcb)
  <2>1. Stacks(tcb) = {}
    BY <1>11 DEF Stacks
  <2> QED BY <1>6, <1>9, <1>11, <1>13, <2>1 DEF Holds
<1>17. HeapInv(heap, Held)
  <2>1. Holds(Held, list.at, node, tcb)
    BY <1>15, HeldNow
  <2> QED BY <1>1, <1>5, <1>16, <2>1, HoldsSame
<1>18. TaskSeq = <<>>
  <2>1. TaskSeq = IdSeq(node, tcb, c, 0)
    BY <1>15, SeqOfTasks
  <2> QED BY <1>11, <2>1 DEF IdSeq
<1>19. id_next \in 0..(Ids - 1)
  BY <1>1, Sizes
<1> QED BY <1>15, <1>17, <1>18, <1>19 DEF StoreInv

LEMMA SpawnStep ==
  ASSUME StoreInv, ~panicked, NEW size \in StackSizes, Spawn(size)
  PROVE  StoreInv' /\ (Tasks!Panic \/ Tasks!Spawn(id_next))
<1> DEFINE t == HeapMalloc(heap, TcbSize)
           n == HeapMalloc(t.heap, NodeSize)
           s == HeapMalloc(n.heap, size)
           held1 == With(Held, t.ptr, TcbSize)
           held2 == With(held1, n.ptr, NodeSize)
           held3 == With(held2, s.ptr, size)
           rec == [id |-> id_next, stack |-> s.ptr, stack_sz |-> size]
<1>0. PICK k \in Nat : \E c : Shape(list, node, tcb, c, k)
  BY DEF StoreInv
<1>1. HeapInv(heap, Held) /\ id_next \in 0..(Ids - 1)
  BY DEF StoreInv
<1>2. PICK c : Shape(list, node, tcb, c, k)
  BY <1>0
<1>3. \/ Panic
      \/ /\ t.ptr # Null /\ n.ptr # Null /\ s.ptr # Null
         /\ heap' = s.heap
         /\ PushbackNode(n.ptr, t.ptr)
         /\ tcb' = With(tcb, t.ptr, rec)
         /\ id_next' = (id_next + 1) % Ids
         /\ UNCHANGED panicked
      \/ /\ t.ptr # Null /\ n.ptr # Null /\ s.ptr = Null
         /\ PushbackNode(n.ptr, t.ptr)
         /\ tcb' = With(tcb, t.ptr, rec)
         /\ panicked' = TRUE
  BY DEF Spawn
<1> HIDE DEF t, n, s, held1, held2, held3, rec
<1>4. CASE Panic
  <2>1. panicked' = TRUE /\ UNCHANGED <<list, node, tcb>>
    BY <1>4 DEF Panic
  <2>2. UNCHANGED TaskSeq
    BY <2>1 DEF TaskSeq, Visited, IdAt
  <2> QED BY <2>1, <2>2 DEF StoreInv, Tasks!Panic, TaskSeq
<1>5. CASE /\ t.ptr # Null /\ n.ptr # Null /\ s.ptr # Null
           /\ heap' = s.heap
           /\ PushbackNode(n.ptr, t.ptr)
           /\ tcb' = With(tcb, t.ptr, rec)
           /\ id_next' = (id_next + 1) % Ids
           /\ UNCHANGED panicked
  <2>1. t.ptr \in Nat \ {0} /\ t.ptr \notin DOMAIN Held /\ HeapInv(t.heap, held1)
    BY <1>1, <1>5, Sizes, MallocKeeps DEF t, held1, Null
  <2>2. n.ptr \in Nat \ {0} /\ n.ptr \notin DOMAIN held1 /\ HeapInv(n.heap, held2)
    BY <1>5, <2>1, Sizes, MallocKeeps DEF n, held2, Null
  <2>3. size \in Nat
    BY Sizes
  <2>4. s.ptr \in Nat \ {0} /\ s.ptr \notin DOMAIN held2 /\ HeapInv(s.heap, held3)
    BY <1>5, <2>2, <2>3, MallocKeeps DEF s, held3, Null
  <2>5. n.ptr \notin DOMAIN Held /\ n.ptr # t.ptr
    BY <2>2 DEF held1, With
  <2>6. s.ptr \notin DOMAIN Held /\ s.ptr # t.ptr /\ s.ptr # n.ptr
    BY <2>4 DEF held1, held2, With
  <2>7. Holds(Held, list.at, node, tcb)
    BY <1>2, HeldNow
  <2> DEFINE nd2 == Pushed(node, list.tail, n.ptr, t.ptr)
             tb2 == With(tcb, t.ptr, rec)
             l2 == [list EXCEPT !.tail = n.ptr, !.length = @ + 1]
             c2 == Put(c, k, n.ptr)
  <2>8. node' = nd2 /\ tcb' = tb2 /\ list' = l2
    BY <1>5 DEF PushbackNode, Pushed
  <2>9. /\ Shape(l2, nd2, tb2, c2, k + 1) /\ l2.at = list.at
        /\ Holds(held3, list.at, nd2, tb2)
        /\ IdSeq(nd2, tb2, c2, k + 1) = Append(IdSeq(node, tcb, c, k), id_next)
    <3> DEFINE tp == t.ptr
               np == n.ptr
               sp == s.ptr
               rest == Held
               id == id_next
    <3>1. /\ tp \in Nat \ {0} /\ tp \notin DOMAIN rest
          /\ np \in Nat \ {0} /\ np \notin DOMAIN rest /\ np # tp
          /\ sp \in Nat \ {0} /\ sp \notin DOMAIN rest /\ sp # tp /\ sp # np
          /\ id \in 0..(Ids - 1) /\ size \in Nat /\ Holds(rest, list.at, node, tcb)
      BY <1>1, <2>1, <2>2, <2>3, <2>4, <2>5, <2>6, <2>7
    <3> HIDE DEF tp, np, sp, rest, id
    <3> DEFINE tail == list.tail
               held4 == With(With(With(rest, tp, TcbSize), np, NodeSize), sp, size)
    <3>2. /\ rec = [id |-> id, stack |-> sp, stack_sz |-> size] /\ tail = list.tail
          /\ nd2 = Pushed(node, tail, np, tp) /\ tb2 = With(tcb, tp, rec)
          /\ c2 = Put(c, k, np) /\ l2 = [list EXCEPT !.tail = np, !.length = @ + 1]
          /\ held3 = held4 /\ held4 = With(With(With(rest, tp, TcbSize), np, NodeSize), sp, size)
      BY DEF tp, np, sp, rest, id, rec, held1, held2, held3
    <3> HIDE DEF tail, held4, nd2, tb2, c2, l2
    <3>3. Spawned(list, node, tcb, c, k, id, l2, nd2, tb2, c2, held4)
      BY <1>2, <3>1, <3>2, SpawnShape
    <3> QED BY <3>2, <3>3 DEF Spawned, id
  <2> HIDE DEF nd2, tb2, l2, c2
  <2>10. /\ Shape(list', node', tcb', c2, k + 1) /\ k + 1 \in Nat
         /\ Holds(held3, list'.at, node', tcb') /\ HeapInv(heap', held3)
    BY <1>5, <2>4, <2>8, <2>9
  <2>11. HeapInv(heap', Held')
    BY <2>10, HeldNext
  <2>12. id_next' \in 0..(Ids - 1)
    <3>1. \A a \in Nat, b \in Nat \ {0} : a % b \in 0..(b - 1)
      OBVIOUS
    <3>2. id_next + 1 \in Nat
      BY <1>1
    <3> QED BY <1>5, <3>1, <3>2, Sizes
  <2>13. TaskSeq' = Append(TaskSeq, id_next)
    <3>1. TaskSeq = IdSeq(node, tcb, c, k)
      BY <1>2, SeqOfTasks
    <3>2. TaskSeq' = IdSeq(node', tcb', c2, k + 1)
      BY <2>10, SeqOfTasksNext DEF Shape
    <3> QED BY <2>8, <2>9, <3>1, <3>2
  <2>14. Tasks!Spawn(id_next)
    BY <1>5, <2>13 DEF Tasks!Spawn, TaskSeq
  <2> QED BY <2>10, <2>11, <2>12, <2>14 DEF StoreInv
\* The stack is missing: the list has grown when krnl_panic is called.
<1>6. CASE /\ t.ptr # Null /\ n.ptr # Null /\ s.ptr = Null
           /\ PushbackNode(n.ptr, t.ptr)
           /\ tcb' = With(tcb, t.ptr, rec)
           /\ panicked' = TRUE
  <2>1. t.ptr \in Nat \ {0} /\ t.ptr \notin DOMAIN Held /\ HeapInv(t.heap, held1)
    BY <1>1, <1>6, Sizes, MallocKeeps DEF t, held1, Null
  <2>2. n.ptr \in Nat \ {0} /\ n.ptr \notin DOMAIN held1
    BY <1>6, <2>1, Sizes, MallocKeeps DEF n, Null
  <2>3. n.ptr \notin DOMAIN Held /\ n.ptr # t.ptr
    BY <2>2 DEF held1, With
  <2>4. Holds(Held, list.at, node, tcb)
    BY <1>2, HeldNow
  <2>5. t.ptr \notin DOMAIN node /\ t.ptr \notin DOMAIN tcb /\ n.ptr \notin DOMAIN node
    BY <2>1, <2>3, <2>4 DEF Holds
  <2>6. rec.id = id_next
    BY DEF rec
  <2> DEFINE tp == t.ptr
             np == n.ptr
             tail == list.tail
             id == id_next
             nd2 == Pushed(node, tail, np, tp)
             tb2 == With(tcb, tp, rec)
             l2 == [list EXCEPT !.tail = np, !.length = @ + 1]
             c2 == Put(c, k, np)
  <2>7. node' = nd2 /\ tcb' = tb2 /\ list' = l2
    BY <1>6 DEF PushbackNode, Pushed
  <2>8. /\ tp \in Nat \ {0} /\ tp \notin DOMAIN node /\ tp \notin DOMAIN tcb
        /\ np \in Nat \ {0} /\ np \notin DOMAIN node /\ np # tp
        /\ id \in 0..(Ids - 1) /\ rec.id = id /\ tail = list.tail
    BY <1>1, <2>1, <2>2, <2>3, <2>5, <2>6
  <2> HIDE DEF tp, np, tail, id
  <2>9. /\ nd2 = Pushed(node, tail, np, tp) /\ tb2 = With(tcb, tp, rec)
        /\ l2 = [list EXCEPT !.tail = np, !.length = @ + 1] /\ c2 = Put(c, k, np)
    OBVIOUS
  <2> HIDE DEF nd2, tb2, l2, c2
  <2>10. IsLinked(list, node, tcb, c, k, id, l2, nd2, tb2, c2)
    BY <1>2, <2>8, <2>9, SpawnSeq
  <2>11. /\ Path(node', c2, k + 1) /\ list'.head = c2[0] /\ k + 1 \in Nat
         /\ IdSeq(node', tcb', c2, k + 1) = Append(IdSeq(node, tcb, c, k), id)
    BY <2>7, <2>10 DEF IsLinked
  <2>12. TaskSeq' = Append(TaskSeq, id)
    <3>1. TaskSeq = IdSeq(node, tcb, c, k)
      BY <1>2, SeqOfTasks
    <3>2. TaskSeq' = IdSeq(node', tcb', c2, k + 1)
      BY <2>11, SeqOfTasksNext
    <3> QED BY <2>11, <3>1, <3>2
  <2>13. Tasks!Panic
    BY <1>6, <2>8, <2>12 DEF Tasks!Panic, TaskSeq
  <2> QED BY <1>6, <2>13 DEF StoreInv
<1> QED BY <1>3, <1>4, <1>5, <1>6

LEMMA CancelStep ==
  ASSUME StoreInv, ~panicked, NEW self \in TaskIds, NEW id \in TaskIds, Cancel(self, id)
  PROVE  StoreInv' /\ Tasks!Cancel(id)
<1>0. PICK k \in Nat : \E c : Shape(list, node, tcb, c, k)
  BY DEF StoreInv
<1>1. HeapInv(heap, Held) /\ id_next \in 0..(Ids - 1)
  BY DEF StoreInv
<1>2. PICK c : Shape(list, node, tcb, c, k)
  BY <1>0
<1>3. /\ Visited = From(c, k, 1) /\ Len(Visited) = k /\ \A j \in 1..k : Visited[j] = c[j]
      /\ TaskSeq = IdSeq(node, tcb, c, k)
  BY <1>2, SeqOfTasks
<1>4. PICK i \in 1..Len(Visited) :
        LET n == Visited[i]
            t == node[n].data
        IN  /\ First(i, id)
            /\ heap' = HeapFree(HeapFree(HeapFree(heap, tcb[t].stack), t), n)
            /\ UnlinkNode(n)
            /\ tcb' = Drop(tcb, t)
  BY DEF Cancel
<1>5. id # self /\ UNCHANGED <<id_next, panicked>>
  BY DEF Cancel
<1> DEFINE n == Visited[i]
           t == node[n].data
           s == tcb[t].stack
           last == LastOf(node, {list.head} \cup ToSet(Visited), n)
           nd2 == Unlinked(node, last, n)
           tb2 == Drop(tcb, t)
           c2 == Cut(c, k, i)
           l2 == [list EXCEPT !.length = @ - 1]
           held2 == Drop(Drop(Drop(Held, s), t), n)
<1>6. node' = nd2 /\ list' = l2 /\ tcb' = tb2
  BY <1>4 DEF UnlinkNode, Unlinked, LastOf
<1>7. heap' = HeapFree(HeapFree(HeapFree(heap, s), t), n)
  BY <1>4
<1>8. First(i, id)
  BY <1>4
<1>9. i \in 1..k /\ n = c[i] /\ last = c[i - 1]
  <2>1. i \in 1..k /\ n = c[i]
    BY <1>3
  <2>2. Path(node, c, k) /\ list.head = c[0]
    BY <1>2 DEF Shape
  <2> DEFINE head == list.head
             M == {head} \cup ToSet(From(c, k, 1))
  <2>3. /\ head = c[0] /\ last = LastOf(node, M, n)
        /\ M = {head} \cup ToSet(From(c, k, 1))
    BY <1>3, <2>2
  <2> HIDE DEF n, head, last, M
  <2>4. last = c[i - 1]
    BY <2>1, <2>2, <2>3, LastIs
  <2> QED BY <2>1, <2>4
<1>10. Holds(Held, list.at, node, tcb)
  BY <1>2, HeldNow
<1> HIDE DEF n, last
<1>11. /\ Shape(l2, nd2, tb2, c2, k - 1) /\ l2.at = list.at
       /\ s \in DOMAIN Held /\ t \in DOMAIN Drop(Held, s) /\ n \in DOMAIN Drop(Drop(Held, s), t)
       /\ Holds(held2, list.at, nd2, tb2)
       /\ IdSeq(nd2, tb2, c2, k - 1) = RemoveAt(IdSeq(node, tcb, c, k), i)
  BY <1>2, <1>9, <1>10, CancelShape
<1> HIDE DEF s, t, nd2, tb2, c2, l2
<1>12. HeapInv(heap', held2)
  <2>1. HeapInv(HeapFree(heap, s), Drop(Held, s))
    BY <1>1, <1>11, FreeKeeps
  <2>2. HeapInv(HeapFree(HeapFree(heap, s), t), Drop(Drop(Held, s), t))
    BY <1>11, <2>1, FreeKeeps
  <2>3. HeapInv(HeapFree(HeapFree(HeapFree(heap, s), t), n), held2)
    BY <1>11, <2>2, FreeKeeps
  <2> HIDE DEF held2
  <2> QED BY <1>7, <2>3
<1> HIDE DEF held2
<1>13. Shape(list', node', tcb', c2, k - 1) /\ k - 1 \in Nat /\ Holds(held2, list'.at, node', tcb')
  BY <1>6, <1>9, <1>11
<1>14. HeapInv(heap', Held')
  BY <1>12, <1>13, HeldNext
<1>15. TaskSeq' = RemoveAt(TaskSeq, i)
  <2>1. TaskSeq' = IdSeq(node', tcb', c2, k - 1)
    BY <1>13, SeqOfTasksNext DEF Shape
  <2> QED BY <1>3, <1>6, <1>11, <2>1
<1>16. /\ DOMAIN TaskSeq = 1..k /\ Len(TaskSeq) = k
       /\ \A j \in 1..k : TaskSeq[j] = IdAt(j)
  BY <1>3 DEF TaskSeq
<1>17. TaskSeq[i] = id /\ \A j \in 1..(i - 1) : TaskSeq[j] # id
  <2>1. \A j \in 1..(i - 1) : j \in 1..k
    BY <1>9
  <2> QED BY <1>8, <1>9, <1>16, <2>1 DEF First
<1>18. \E other \in ToSet(TaskSeq) : other # id
  <2>1. PICK x \in DOMAIN tcb : self = tcb[x].id
    BY DEF TaskIds
  <2>2. PICK j \in 1..k : x = node[c[j]].data
    BY <1>2, <2>1 DEF Shape, Hung
  <2>3. TaskSeq[j] = self
    BY <1>3, <1>16, <2>1, <2>2 DEF IdAt
  <2>4. self \in ToSet(TaskSeq)
    BY <1>16, <2>3 DEF ToSet
  <2> QED BY <1>5, <2>4
<1>19. Tasks!Cancel(id)
  <2>1. Tasks!ToSet(TaskSeq) = ToSet(TaskSeq)
    BY DEF ToSet, Tasks!ToSet
  <2>2. Tasks!RemoveAt(TaskSeq, i) = RemoveAt(TaskSeq, i)
    BY DEF RemoveAt, Tasks!RemoveAt
  <2>3. /\ \E other \in Tasks!ToSet(TaskSeq) : other # id
        /\ i \in 1..Len(TaskSeq) /\ TaskSeq' = Tasks!RemoveAt(TaskSeq, i)
    BY <1>9, <1>15, <1>16, <1>18, <2>1, <2>2
  <2> DEFINE Removed(seq, next) ==
        /\ \E other \in Tasks!ToSet(seq) : other # id
        /\ \E j \in 1..Len(seq) :
             /\ seq[j] = id /\ \A m \in 1..(j - 1) : seq[m] # id
             /\ next = Tasks!RemoveAt(seq, j)
  <2>4. Removed(TaskSeq, TaskSeq')
    BY <1>17, <2>3
  <2>5. UNCHANGED panicked
    BY <1>5
  <2> QED BY <2>4, <2>5 DEF Tasks!Cancel, TaskSeq
<1> QED BY <1>1, <1>5, <1>13, <1>14, <1>19 DEF StoreInv

LEMMA StillStep ==
  ASSUME StoreInv, UNCHANGED vars
  PROVE  StoreInv' /\ UNCHANGED <<TaskSeq, panicked>>
<1>1. UNCHANGED <<heap, list, node, tcb, id_next, panicked>>
  BY DEF vars
<1>2. UNCHANGED <<Held, TaskSeq>>
  BY <1>1 DEF Held, TaskSeq, Visited, IdAt
<1> QED BY <1>1, <1>2 DEF StoreInv

LEMMA EveryStep ==
  ASSUME StoreInv, [Next]_vars
  PROVE  StoreInv' /\ [Tasks!Next]_<<TaskSeq, panicked>>
<1>1. CASE UNCHANGED vars
  BY <1>1, StillStep
<1>2. ASSUME ~panicked, NEW size \in StackSizes, Spawn(size)
      PROVE  StoreInv' /\ Tasks!Next
  <2>1. StoreInv' /\ (Tasks!Panic \/ Tasks!Spawn(id_next))
    BY <1>2, SpawnStep
  <2>2. id_next \in 0..(Ids - 1)
    BY <1>2 DEF StoreInv
  <2> QED BY <1>2, <2>1, <2>2 DEF Tasks!Next
<1>3. ASSUME ~panicked, NEW self \in TaskIds, NEW id \in TaskIds, Cancel(self, id)
      PROVE  StoreInv' /\ Tasks!Next
  <2>1. StoreInv' /\ Tasks!Cancel(id)
    BY <1>3, CancelStep
  <2>0. PICK k \in Nat : \E c : Shape(list, node, tcb, c, k)
    BY <1>3 DEF StoreInv
  <2>2. PICK c : Shape(list, node, tcb, c, k)
    BY <2>0
  <2>3. \A t \in DOMAIN tcb : tcb[t] \in TcbRecord
    BY <2>2 DEF Shape, Hung
  <2>4. id \in 0..(Ids - 1)
    BY <2>3 DEF TaskIds, TcbRecord
  <2> QED BY <1>3, <2>1, <2>4 DEF Tasks!Next
<1>4. CASE Next
  BY <1>2, <1>3, <1>4 DEF Next
<1> QED BY <1>1, <1>4

(***************************************************************************)
(* The results.                                                            *)
(***************************************************************************)
LEMMA StoreInvHolds == Spec => []StoreInv
<1>1. Init => StoreInv
  BY StoreInit
<1>2. StoreInv /\ [Next]_vars => StoreInv'
  BY EveryStep
<1> QED BY <1>1, <1>2, PTL DEF Spec

\* Whatever the sizes of the zone, of the kernel's structures and of the stacks,
\* and whatever tasks are spawned and cancelled: ucx_malloc and ucx_free keep the
\* headers in agreement with what the kernel holds (lib/malloc.c, lib/list.c).
THEOREM HeapStaysExact == Spec => []HeapIsExact
<1>1. StoreInv => HeapIsExact
  BY InvExact DEF StoreInv, HeapIsExact
<1> QED BY <1>1, StoreInvHolds, PTL

\* In every reachable heap ucx_malloc finds the lowest hole from last_free with
\* room for the area and two headers, in however many free blocks that hole lies,
\* and returns a null pointer only when there is none.
THEOREM MallocStaysNextFit == Spec => []MallocIsNextFit
<1>1. ASSUME StoreInv PROVE MallocIsNextFit
  <2>1. \A size \in StackSizes \cup {NodeSize, TcbSize} : size \in Nat
    BY Sizes
  <2> QED BY <1>1, <2>1, MallocNextFit DEF StoreInv, MallocIsNextFit
<1> QED BY <1>1, StoreInvHolds, PTL

\* The linked list with its moving sentinel, its nodes and TCBs in the heap, is
\* to the kernel a sequence of task ids: every spawn appends or panics, every
\* cancel removes the first that matches and keeps the order of the others.
THEOREM ListImplementsTaskList == Spec => ImplementsTaskList
<1>1. Init => Tasks!Init
  BY StoreInit DEF Init, Tasks!Init, TaskSeq
<1>2. StoreInv /\ [Next]_vars => [Tasks!Next]_<<TaskSeq, panicked>>
  BY EveryStep
<1>3. StoreInv /\ [Next]_vars
        => [Tasks!Next]_<<[i \in 1..Len(Visited) |-> IdAt(i)], panicked>>
  BY <1>2 DEF TaskSeq
<1> QED BY <1>1, <1>3, StoreInvHolds, PTL DEF Spec, ImplementsTaskList, Tasks!Spec
=============================================================================
