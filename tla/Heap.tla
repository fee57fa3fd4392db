-------------------------------- MODULE Heap --------------------------------
(***************************************************************************)
(* The allocator of lib/malloc.c (the variant that is built: one sweep     *)
(* from last_free on, free areas coalesced on the way). A heap is a        *)
(* record: hdr maps the address of every block header that the chain of    *)
(* next pointers can still reach to its contents; first and last are       *)
(* first_free and last_free. Addresses count words; a null pointer is 0.   *)
(***************************************************************************)
EXTENDS Integers, FiniteSets

CONSTANTS
  Zone,     \* the address ucx_heap_init is given
  Length,   \* and the number of words
  Hdr,      \* sizeof(struct mem_block_s)
  Word      \* a size_t counts modulo Word

ASSUME HeapAssumption ==
  /\ Zone \in Nat \ {0} /\ Hdr \in Nat \ {0} /\ Word \in Nat
  /\ Length \in Nat /\ Length > 2 * Hdr /\ Zone + Length < Word

Null == 0
Size(n) == n % Word
TailBlock == Zone + Length - Hdr

Block(next, size, used) == [next |-> next, size |-> size, used |-> used]
With(f, a, val) == [x \in DOMAIN f \cup {a} |-> IF x = a THEN val ELSE f[x]]

HeapInit ==
  [hdr |-> [a \in {Zone, TailBlock} |->
              IF a = Zone THEN Block(TailBlock, Size(Length - 2 * Hdr), FALSE)
              ELSE Block(Null, 0, FALSE)],
   first |-> Zone, last |-> Zone]

\* ucx_free clears the used bit and sends the next search to the start.
HeapFree(h, ptr) ==
  [h EXCEPT !.hdr[ptr - Hdr].used = FALSE, !.last = h.first]

\* The two inner loops of ucx_malloc.
SkipUsed(hdr, p) ==
  LET skip[a \in DOMAIN hdr] == IF hdr[a].used THEN skip[hdr[a].next] ELSE a
  IN  skip[p]
SkipFree(hdr, p) ==
  LET skip[a \in DOMAIN hdr] ==
        IF ~hdr[a].used /\ hdr[a].next # Null THEN skip[hdr[a].next] ELSE a
  IN  skip[p]

\* q swallows the free blocks up to p: their headers become its payload.
Coalesce(hdr, q, p) ==
  [a \in {x \in DOMAIN hdr : x <= q \/ x >= p} |->
     IF a = q THEN [hdr[q] EXCEPT !.size = Size(p - q - Hdr), !.next = p] ELSE hdr[a]]

\* One round of the outer loop. A search is the headers and where it stands;
\* over says that it broke off at a block that is large enough.
Round(s, size) ==
  LET q == SkipUsed(s.hdr, s.p)
      e == SkipFree(s.hdr, q)
      swept == Coalesce(s.hdr, q, e)
  IN  IF swept[q].size >= size + Hdr THEN [hdr |-> swept, p |-> q, over |-> TRUE]
      ELSE [hdr |-> swept, p |-> e, over |-> FALSE]

\* The outer loop, which ends at the tail at the latest. Every round but the
\* first begins at a used block and passes it.
Used(hdr) == {a \in DOMAIN hdr : hdr[a].used}
Search_FromFirst(h, size) ==                                        \* mutant
  LET rounds == Cardinality(Used(h.hdr)) + 1
      round[n \in 0..rounds] ==
        IF n = 0 THEN [hdr |-> h.hdr, p |-> h.first, over |-> FALSE]
        ELSE LET s == round[n - 1]
             IN  IF s.over \/ s.hdr[s.p].next = Null THEN s ELSE Round(s, size)
  IN  round[rounds]
Search(h, size) ==
  LET rounds == Cardinality(Used(h.hdr)) + 1
      round[n \in 0..rounds] ==
        IF n = 0 THEN [hdr |-> h.hdr, p |-> h.last, over |-> FALSE]
        ELSE LET s == round[n - 1]
             IN  IF s.over \/ s.hdr[s.p].next = Null THEN s ELSE Round(s, size)
  IN  round[rounds]

\* ucx_malloc of an aligned size: the heap and the pointer it returns. The
\* remainder gets a header whose size, computed from the block's new size, is
\* wrong until the next search passes.
HeapMalloc(h, size) ==
  LET found == Search(h, size)
      p == found.p
      n == p + size + Hdr
      split == With([found.hdr EXCEPT ![p] = Block(n, size, TRUE)], n,
                    Block(found.hdr[p].next, Size(0 - Hdr), FALSE))
  IN  IF found.hdr[p].next = Null
      THEN [heap |-> [h EXCEPT !.hdr = found.hdr], ptr |-> Null]
      ELSE [heap |-> [h EXCEPT !.hdr = split, !.last = p], ptr |-> p + Hdr]

(***************************************************************************)
(* What the heap is for, in terms of the areas its users hold: a function  *)
(* from the pointers they got to the sizes they asked for.                 *)
(***************************************************************************)
\* Every area is a used block of exactly its size and nothing else is used;
\* the blocks follow each other from the zone's start to its end.
Exact(h, held) ==
  /\ {p + Hdr : p \in Used(h.hdr)} = DOMAIN held
  /\ \A ptr \in DOMAIN held : h.hdr[ptr - Hdr].size = held[ptr]
  /\ \A p \in DOMAIN h.hdr \ {TailBlock} :
       /\ h.hdr[p].next \in DOMAIN h.hdr /\ h.hdr[p].next > p
       /\ ~\E x \in DOMAIN h.hdr : p < x /\ x < h.hdr[p].next
       /\ h.hdr[p].used => h.hdr[p].next = p + h.hdr[p].size + Hdr

\* The areas nobody holds, computed from what is held: they begin at the zone's
\* start or where an area ends, and end where the next header begins.
Gap(held, lo, hi) ==
  /\ lo \in {Zone} \cup {ptr + held[ptr] : ptr \in DOMAIN held}
  /\ hi \in {TailBlock} \cup {ptr - Hdr : ptr \in DOMAIN held}
  /\ lo < hi
  /\ \A ptr \in DOMAIN held : ptr + held[ptr] <= lo \/ ptr - Hdr >= hi

\* The lowest gap at or after last_free with room for the area, its header and
\* the header of the remainder: next fit. (A first fit, which the comment at
\* malloc.c:118-122 describes, would have Zone for h.last.)
NextFit(h, held, size) ==
  LET ends == {ptr - Hdr : ptr \in DOMAIN held} \cup {TailBlock}
      starts == {ptr + held[ptr] : ptr \in DOMAIN held} \cup {Zone}
      fits == {lo \in starts : lo >= h.last /\
                 \E hi \in ends : Gap(held, lo, hi) /\ hi - lo >= size + 2 * Hdr}
  IN  IF fits = {} THEN Null ELSE Hdr + CHOOSE lo \in fits : \A x \in fits : lo <= x
=============================================================================
