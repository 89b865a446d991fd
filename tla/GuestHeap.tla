----------------------------- MODULE GuestHeap ------------------------------
(***************************************************************************)
(* The guest's malloc and its relatives in hle_libc.c: a header under each *)
(* block says which host block it came from, how large it is, and, by a    *)
(* magic word, that it came from here at all.                              *)
(*                                                                         *)
(* Addresses and sizes count cells.  The host's allocator is external: it  *)
(* answers with any free stretch on its own, coarser boundary, or fails.   *)
(* Free memory holds JUNK; a header whose magic word is gone is no header. *)
(***************************************************************************)
EXTENDS Integers, Sequences, FiniteSetsExt, Functions

CONSTANTS
  HeapTop,      \* bound: the host's memory is 1..HeapTop
  HostAlign,    \* what the host's malloc aligns to
  GuestAlign,   \* GUEST_ALIGN
  HdrSize,      \* sizeof(AllocHdr)
  Threshold,    \* GUEST_MMAP_THRESHOLD
  PageSize,     \* GUEST_PAGE
  Slack,        \* LINDBERGH_HEAP_SLACK
  WordLimit,    \* 2^32
  Requests,     \* bound: sizes asked for
  Alignments,   \* bound: alignments asked of memalign
  Stamps,       \* values the guest fills a block with
  GuestLow,     \* GUEST_LOW
  GuestHuge,    \* GUEST_HUGE
  ZERO, JUNK

ASSUME HeapAssumption ==
  /\ HeapTop \in Nat /\ HdrSize \in Nat \ {0} /\ Slack \in Nat
  /\ HostAlign \in Nat \ {0} /\ GuestAlign \in Nat \ {0}
  /\ PageSize \in Nat \ {0} /\ PageSize % GuestAlign = 0
  /\ Threshold \in Nat /\ WordLimit \in Nat \ {0}
  /\ GuestLow \in Nat \ {0} /\ GuestHuge \in Nat
  /\ Requests \subseteq Nat /\ Alignments \subseteq Nat \ {0}
  \* all powers of two: of any two the lesser divides the greater
  /\ \A a \in Alignments :
       /\ GuestAlign % a = 0 \/ a % GuestAlign = 0
       /\ PageSize % a = 0 \/ a % PageSize = 0

VARIABLES
  hostBlocks,  \* what the host's malloc has given and not got back
  header,      \* the headers that carry the magic word, by block address
  cell         \* memory

heapVars == <<hostBlocks, header, cell>>

Cells == 1..HeapTop
NULLPTR == 0

HeapInit ==
  /\ hostBlocks = {}
  /\ header = <<>>
  /\ cell = [a \in Cells |-> JUNK]

----------------------------------------------------------------------------
\* The alignment gmalloc raises the caller's to.  A block as large as glibc's
\* mmap threshold is page aligned, which guests depend on.
Effective(n, align) ==
  LET least == IF align < GuestAlign THEN GuestAlign ELSE align
  IN  IF n >= Threshold /\ least < PageSize THEN PageSize ELSE least

\* Mutant: no room for moving the block up to its boundary.
ExactNeed(n, align) == (n + HdrSize + Slack) % WordLimit

\* n + align + hdr + slack, in 32 bits.
Need(n, align) == (n + Effective(n, align) + HdrSize + Slack) % WordLimit

\* What the wrap would make of a request near 2^32 is left out: a guest that
\* asks for all of memory is not one the runtime means to serve.
Servable(n, align) == n + Effective(n, align) + HdrSize + Slack < WordLimit

Span(base, len) == base..(base + len - 1)
HostCells(b) == Span(b.base, b.len)

RoundUp(raw, a) == ((raw + a - 1) \div a) * a

\* The host's malloc: any free stretch of its own on its boundary.
HostGives(base, len) ==
  /\ base \in Cells /\ base % HostAlign = 0 /\ base + len - 1 <= HeapTop
  /\ \A b \in hostBlocks : HostCells(b) \cap Span(base, len) = {}

\* gmalloc, for a caller that puts text in the block and afterwards gives the
\* blocks in old back: the new one is got first, so they never overlap.
Gmalloc(text, align, old) ==
  LET n == Len(text)
      len == Need(n, align)
      kept == Restrict(header, DOMAIN header \ old)
      back == {b \in hostBlocks : \E p \in old : b.base = header[p].base}
  IN
  /\ Servable(n, align)
  /\ \E base \in Cells :
       LET p == RoundUp(base + HdrSize, Effective(n, align)) IN
       /\ HostGives(base, len)
       /\ hostBlocks' = (hostBlocks \ back) \cup {[base |-> base, len |-> len]}
       /\ header' = [q \in DOMAIN kept \cup {p} |->
                       IF q = p THEN [base |-> base, size |-> n] ELSE kept[q]]
       /\ cell' = [a \in Cells |->
                     IF a \in Span(p, n) THEN text[a - p + 1]
                     ELSE IF a \in UNION {HostCells(b) : b \in back} THEN JUNK
                     ELSE cell[a]]

Filled(n, x) == [i \in 1..n |-> x]
Malloc(n) == Gmalloc(Filled(n, JUNK), GuestAlign, {})
Memalign(n, align) == Gmalloc(Filled(n, JUNK), align, {})

\* calloc, of the product of its arguments (hle_libc.c:327), which is supposed
\* not to wrap.
Calloc(n) == Gmalloc(Filled(n, ZERO), GuestAlign, {})

\* The host cannot serve: NULL, and nothing changes.
OutOfMemory(n, align) ==
  /\ Servable(n, align)
  /\ UNCHANGED heapVars

\* A pointer is the allocator's when the word under it is the magic one.
Ours(p) == p \in DOMAIN header

Contents(p) == [i \in 1..header[p].size |-> cell[p + i - 1]]

\* strdup, of a text that fills a block.
Strdup(p) ==
  /\ Ours(p)
  /\ Gmalloc(Contents(p), GuestAlign, {})

\* What is left in a host block that went back is nobody's.
GiveBack(base) ==
  LET back == {b \in hostBlocks : b.base = base} IN
  /\ hostBlocks' = hostBlocks \ back
  /\ cell' = [a \in Cells |-> IF \E b \in back : a \in HostCells(b) THEN JUNK
                              ELSE cell[a]]

\* gfree: NULL and pointers that are not ours, among them those freed before,
\* change nothing.
Gfree(p) ==
  IF Ours(p)
  THEN /\ header' = Restrict(header, DOMAIN header \ {p})
       /\ GiveBack(header[p].base)
  ELSE UNCHANGED heapVars

\* Mutant: the old block goes back before its contents are read.
CarriedLate(p, n) == [i \in 1..n |-> JUNK]

\* The lesser of the two sizes is copied.
Carried(p, n) ==
  [i \in 1..n |-> IF i <= header[p].size THEN cell[p + i - 1] ELSE JUNK]

\* grealloc; when no block is to be had the old one stays (OutOfMemory).
Grealloc(p, n) ==
  /\ Ours(p)
  /\ Gmalloc(Carried(p, n), GuestAlign, {p})

\* realloc(NULL, n) is malloc(n), realloc of a pointer that is not ours NULL.
Realloc(p, n) ==
  \/ p = NULLPTR /\ Malloc(n)
  \/ p # NULLPTR /\ ~Ours(p) /\ UNCHANGED heapVars
  \/ Grealloc(p, n)

\* What the memory functions refuse: the bottom of the address space, which is
\* never mapped, and lengths no game moves.
Sane(p, n) == p >= GuestLow /\ n <= GuestHuge

\* memset of a block the guest owns; a broken pointer changes nothing.
Memset(p, x) ==
  \/ ~Sane(p, 0) /\ UNCHANGED heapVars
  \/ /\ Ours(p) /\ Sane(p, header[p].size)
     /\ cell' = [a \in Cells |-> IF a \in Span(p, header[p].size) THEN x ELSE cell[a]]
     /\ UNCHANGED <<hostBlocks, header>>

\* memcpy and memmove of one block into another that is no smaller.
Memcpy(p, q) ==
  \/ ~(Sane(p, 0) /\ Sane(q, 0)) /\ UNCHANGED heapVars
  \/ /\ Ours(p) /\ Ours(q) /\ header[q].size <= header[p].size
     /\ Sane(p, header[q].size) /\ Sane(q, header[q].size)
     /\ cell' = [a \in Cells |-> IF a \in Span(p, header[q].size) THEN cell[q + a - p]
                                 ELSE cell[a]]
     /\ UNCHANGED <<hostBlocks, header>>

HeapNext ==
  \/ \E n \in Requests :
       \/ Malloc(n) \/ Calloc(n)
       \/ \E align \in Alignments : Memalign(n, align) \/ OutOfMemory(n, align)
       \/ \E p \in Cells \cup {NULLPTR} : Realloc(p, n)
  \/ \E p \in Cells : Strdup(p) \/ Gfree(p)
  \/ \E p \in DOMAIN header \cup {NULLPTR} :
       \/ \E x \in Stamps : Memset(p, x)
       \/ \E q \in DOMAIN header \cup {NULLPTR} : Memcpy(p, q)

HeapSpec == HeapInit /\ [][HeapNext]_heapVars

----------------------------------------------------------------------------
HeapTypeOK ==
  /\ hostBlocks \subseteq [base : Cells, len : Nat]
  /\ DOMAIN header \subseteq Cells
  /\ \A p \in DOMAIN header : header[p] \in [base : Cells, size : Nat]
  /\ cell \in [Cells -> Stamps \cup {ZERO, JUNK}]

\* Each block and the header under it lie inside the host block the header
\* names, no host block carries two, and large blocks lie on a page.
BlocksSound ==
  /\ \A p \in DOMAIN header :
       /\ \E b \in hostBlocks :
            /\ b.base = header[p].base
            /\ Span(p - HdrSize, HdrSize + header[p].size) \subseteq HostCells(b)
       /\ p % GuestAlign = 0
       /\ header[p].size >= Threshold => p % PageSize = 0
  /\ \A p, q \in DOMAIN header : header[p].base = header[q].base => p = q

\* To the guest it is an allocator: blocks apart, aligned and kept as written,
\* whatever is freed twice, freed without having been allocated, or resized.
Promised == INSTANCE Allocator WITH
  Addresses <- Cells, Boundary <- GuestAlign, Values <- Stamps,
  Sizes <- Requests, live <- [p \in DOMAIN header |-> Contents(p)]
ImplementsAllocator == Promised!AllocatorSpec
=============================================================================
