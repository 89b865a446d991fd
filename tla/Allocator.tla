------------------------------ MODULE Allocator ------------------------------
(***************************************************************************)
(* What a C program may expect of malloc, calloc, memalign, realloc, free  *)
(* and strdup: blocks that do not overlap, lie on the boundary asked for,  *)
(* keep what was written to them until they are freed, and a realloc that  *)
(* carries the old contents over or leaves the old block alone.            *)
(***************************************************************************)
EXTENDS Integers, Sequences, Functions

CONSTANTS
  Addresses,  \* where a block may begin
  Boundary,   \* the boundary every block lies on
  Values,     \* what a program writes
  ZERO,       \* what calloc fills with
  JUNK,       \* what was never written
  Sizes,      \* bound: sizes asked for
  Alignments  \* bound: boundaries asked for besides

VARIABLE live  \* the contents of each live block, by its address

Extent(p) == p..(p + Len(live[p]) - 1)

\* p can hold n cells without touching a live block.
Free(p, n) ==
  /\ p \in Addresses \ DOMAIN live
  /\ \A q \in DOMAIN live : (p..(p + n - 1)) \cap Extent(q) = {}

Holding(contents, p, text) ==
  [q \in DOMAIN contents \cup {p} |-> IF q = p THEN text ELSE contents[q]]

All(n, x) == [i \in 1..n |-> x]

Grant(text, align) ==
  \E p \in Addresses :
    /\ p % align = 0 /\ p % Boundary = 0
    /\ Free(p, Len(text))
    /\ live' = Holding(live, p, text)

Malloc(n, align) == Grant(All(n, JUNK), align)
Calloc(n) == Grant(All(n, ZERO), Boundary)
Strdup(q) == Grant(live[q], Boundary)

Release(p) == live' = Restrict(live, DOMAIN live \ {p})

\* The new block holds as much of the old contents as fits.
Resized(text, n) ==
  [i \in 1..n |-> IF i <= Len(text) THEN text[i] ELSE JUNK]

Realloc(p, n) ==
  \E q \in Addresses :
    /\ q % Boundary = 0
    /\ Free(q, n)
    /\ live' = Holding(Restrict(live, DOMAIN live \ {p}), q, Resized(live[p], n))

Write(p, x) == live' = [live EXCEPT ![p] = All(Len(@), x)]

Copy(p, q) ==
  /\ Len(live[q]) <= Len(live[p])
  /\ live' = [live EXCEPT ![p] = live[q] \o SubSeq(@, Len(live[q]) + 1, Len(@))]

AllocatorInit == live = <<>>

AllocatorNext ==
  /\ live' # live
  /\ \/ \E n \in Sizes :
          \/ Calloc(n)
          \/ \E align \in Alignments \cup {Boundary} : Malloc(n, align)
     \/ \E p \in DOMAIN live :
          \/ Strdup(p)
          \/ Release(p)
          \/ \E n \in Sizes : Realloc(p, n)
          \/ \E x \in Values : Write(p, x)
          \/ \E q \in DOMAIN live : Copy(p, q)

AllocatorSpec == AllocatorInit /\ [][AllocatorNext]_live
=============================================================================
