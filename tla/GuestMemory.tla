---------------------------- MODULE GuestMemory ----------------------------
(***************************************************************************)
(* The guest's address space: guest_load and guest_brk (guest.c), and the  *)
(* system calls that hand memory to the guest (syscall.c).                 *)
(*                                                                         *)
(* The loader claims the image and the stack at the addresses the game was *)
(* linked for; everything the guest allocates afterwards, through brk or   *)
(* through mmap2, comes off one break.  The host grants an address range   *)
(* or refuses it.  Windows hands out address space in units of GRAN even   *)
(* though it commits pages; elsewhere the unit is the page.                *)
(*                                                                         *)
(* The guest's C library remembers the break it was last told, as glibc's  *)
(* sbrk does, and knows nothing of what mmap2 did to it since.             *)
(***************************************************************************)
EXTENDS Integers, FiniteSets, FiniteSetsExt

CONSTANTS
  PAGE, GRAN,
  Top,                \* addresses are words below this, and wrap there
  STACK_TOP, STACK_SZ,
  Hosts,              \* the platforms looked at: "windows", "posix"
  Occupied,           \* units of GRAN where the host process itself lives
  Images,             \* the games: for each the set of its PT_LOAD segments
  Sizes,              \* bound: the sizes the guest asks for
  MaxGrants,          \* bound: how often it asks
  NONE

ASSUME MemoryAssumption ==
  /\ {PAGE, GRAN, Top, STACK_TOP, STACK_SZ} \subseteq Nat \ {0}
  /\ GRAN % PAGE = 0 /\ Top % GRAN = 0
  /\ STACK_TOP % GRAN = 0 /\ STACK_SZ % GRAN = 0 /\ STACK_SZ <= STACK_TOP
  /\ STACK_TOP < Top
  /\ Hosts \subseteq {"windows", "posix"}
  /\ Occupied \subseteq 0..Top \div GRAN - 1
  /\ \A image \in Images : \A s \in image :
       /\ s.vaddr \in Nat /\ s.memsz \in Nat \ {0} /\ s.filesz \in 0..s.memsz
       /\ s.vaddr + s.memsz + GRAN <= Top
  /\ Sizes \subseteq Nat \ {0} /\ MaxGrants \in Nat

VARIABLES
  host,       \* the platform
  segments,   \* the game's PT_LOAD program headers
  pc,         \* "image", "stack", "running" or "failed"
  taken,      \* units of address space that are reserved
  committed,  \* pages the guest can touch
  brk,        \* g_brk
  curbrk,     \* the C library's __curbrk
  grants,     \* what the guest was given and uses
  asked,      \* how often the guest has asked
  result      \* what the last system call returned

memoryVars == <<host, segments, pc, taken, committed, brk, curbrk, grants, asked, result>>
guestVars == <<curbrk, grants, asked, result>>

ENOMEM == 12
ENOSYS == 38

Space == 0..Top - 1
Between(from, to) == from..to - 1
Grant(kind, from, to) == [kind |-> kind, bytes |-> Between(from, to)]

MemoryInit ==
  /\ host \in Hosts
  /\ segments \in Images
  /\ pc = "image"
  /\ taken = Occupied
  /\ committed = {}
  /\ brk = 0
  /\ curbrk = NONE
  /\ grants = {}
  /\ asked = 0
  /\ result = NONE

----------------------------------------------------------------------------
Down(a, unit) == a - (a % unit)
Up(a, unit) == Down((a + unit - 1) % Top, unit)

\* VirtualAlloc at an address, and mmap with MAP_FIXED_NOREPLACE.  Windows
\* rounds the start of the range down to GRAN.
Start(a) == IF host = "windows" THEN Down(a, GRAN) ELSE a
UnitsOf(a, size) == Start(a) \div GRAN..(a + size - 1) \div GRAN
PagesOf(a, size) == Start(a) \div PAGE..(a + size - 1) \div PAGE

Available(a, size) ==
  /\ size > 0 /\ a + size <= Top
  /\ UnitsOf(a, size) \cap Occupied = {}
  /\ PagesOf(a, size) \cap committed = {}
  /\ host = "windows" => UnitsOf(a, size) \cap taken = {}

Reserve(a, size) ==
  /\ Available(a, size)
  /\ taken' = taken \cup UnitsOf(a, size)
  /\ committed' = committed \cup PagesOf(a, size)

Refused == UNCHANGED <<taken, committed>>

----------------------------------------------------------------------------
(* guest_load.                                                             *)

\* The span of all segments, in units of GRAN.
SpanLo == Down(Min({Down(s.vaddr, PAGE) : s \in segments}), GRAN)
SpanHi == Up(Max({s.vaddr + s.memsz : s \in segments}), GRAN)

MapImage ==
  /\ pc = "image" /\ segments # {}
  /\ Reserve(SpanLo, SpanHi - SpanLo)
  /\ brk' = SpanHi
  /\ pc' = "stack"
  /\ UNCHANGED <<host, segments, guestVars>>

NoSegments ==
  /\ pc = "image" /\ segments = {}
  /\ Refused
  /\ pc' = "failed"
  /\ UNCHANGED <<host, segments, brk, guestVars>>

\* Something else lives there already.
ImageFails ==
  /\ pc = "image" /\ segments # {}
  /\ ~Available(SpanLo, SpanHi - SpanLo)
  /\ Refused
  /\ pc' = "failed"
  /\ UNCHANGED <<host, segments, brk, guestVars>>

StackLo == Down(STACK_TOP - STACK_SZ, GRAN)

MapStack ==
  /\ pc = "stack"
  /\ Reserve(StackLo, STACK_SZ)
  /\ pc' = "running"
  /\ UNCHANGED <<host, segments, brk, guestVars>>

StackFails ==
  /\ pc = "stack"
  /\ ~Available(StackLo, STACK_SZ)
  /\ Refused
  /\ pc' = "failed"
  /\ UNCHANGED <<host, segments, brk, guestVars>>

----------------------------------------------------------------------------
(* guest_brk: what it returns, and what it does to the address space.      *)

GrowLo == Up(brk, PAGE)
GrowSize(newbrk) == Up(newbrk, PAGE) - GrowLo

\* Mutant: the new break is rounded down to a page, not up.
GrowShort(newbrk, r) ==
  /\ newbrk > brk
  /\ LET size == Down(newbrk, PAGE) - GrowLo
     IN  IF size > 0 THEN Reserve(GrowLo, size) ELSE Refused
  /\ brk' = newbrk /\ r = newbrk

Grow(newbrk, r) ==
  /\ newbrk > brk
  /\ IF GrowSize(newbrk) > 0 THEN Reserve(GrowLo, GrowSize(newbrk)) ELSE Refused
  /\ brk' = newbrk /\ r = newbrk

GrowRefused(newbrk, r) ==
  /\ newbrk > brk
  /\ GrowSize(newbrk) > 0 /\ ~Available(GrowLo, GrowSize(newbrk))
  /\ r = brk
  /\ UNCHANGED brk /\ Refused

\* brk(0) asks; a break below the current one is not honoured.
Query(newbrk, r) ==
  /\ newbrk <= brk
  /\ r = brk
  /\ UNCHANGED brk /\ Refused

GuestBrk(newbrk, r) == Grow(newbrk, r) \/ GrowRefused(newbrk, r) \/ Query(newbrk, r)

----------------------------------------------------------------------------
(* System calls.                                                           *)

Asks ==
  /\ pc = "running" /\ asked < MaxGrants
  /\ asked' = asked + 1
  /\ UNCHANGED <<host, segments, pc>>

\* The first sbrk asks where the break is.
FirstBrk ==
  /\ pc = "running" /\ curbrk = NONE
  /\ GuestBrk(0, brk)
  /\ curbrk' = brk /\ result' = brk
  /\ UNCHANGED <<host, segments, pc, grants, asked>>

\* sbrk(n): the library takes the range from the break it remembers to the
\* one it asks for, unless the kernel's answer falls short of it.
Sbrk(n) ==
  /\ Asks /\ curbrk # NONE
  /\ \E r \in Space :
       /\ GuestBrk((curbrk + n) % Top, r)
       /\ curbrk' = r
       /\ IF r >= (curbrk + n) % Top
          THEN /\ grants' = grants \cup {Grant("heap", curbrk, curbrk + n)}
               /\ result' = curbrk
          ELSE UNCHANGED grants /\ result' = -ENOMEM

\* Mutant: the block starts where the break ends up.
Mmap2FromEnd(len) ==
  /\ Asks
  /\ LET want == Up(len, PAGE)
     IN  \E r \in Space :
           /\ GuestBrk((brk + want) % Top, r)
           /\ IF r >= (brk + want) % Top
              THEN /\ grants' = grants \cup {Grant("map", r, r + len)}
                   /\ result' = r
              ELSE UNCHANGED grants /\ result' = -ENOMEM
  /\ UNCHANGED curbrk

\* mmap2 of anonymous memory, off the top of the break.
Mmap2(len) ==
  /\ Asks
  /\ LET want == Up(len, PAGE)
     IN  \E r \in Space :
           /\ GuestBrk((brk + want) % Top, r)
           /\ IF r >= (brk + want) % Top
              THEN /\ grants' = grants \cup {Grant("map", brk, brk + len)}
                   /\ result' = brk
              ELSE UNCHANGED grants /\ result' = -ENOMEM
  /\ UNCHANGED curbrk

\* mmap2 of a file.
Mmap2File ==
  /\ Asks
  /\ result' = -ENOSYS
  /\ Refused
  /\ UNCHANGED <<brk, curbrk, grants>>

\* munmap answers 0 and keeps the memory; the guest stops using it.
Munmap(g) ==
  /\ pc = "running" /\ g.kind = "map"
  /\ grants' = grants \ {g}
  /\ result' = 0
  /\ Refused
  /\ UNCHANGED <<host, segments, pc, brk, curbrk, asked>>

Loader == MapImage \/ NoSegments \/ ImageFails \/ MapStack \/ StackFails
SystemCall ==
  \/ FirstBrk \/ Mmap2File
  \/ \E n \in Sizes : Sbrk(n) \/ Mmap2(n)
  \/ \E g \in grants : Munmap(g)

MemoryNext == Loader \/ SystemCall

MemorySpec == MemoryInit /\ [][MemoryNext]_memoryVars

----------------------------------------------------------------------------
MemoryTypeOK ==
  /\ host \in Hosts /\ segments \in Images
  /\ pc \in {"image", "stack", "running", "failed"}
  /\ taken \subseteq 0..Top \div GRAN - 1
  /\ committed \subseteq 0..Top \div PAGE - 1
  /\ brk \in Space /\ curbrk \in Space \cup {NONE}
  /\ \A g \in grants : g.kind \in {"heap", "map"} /\ g.bytes \subseteq Space
  /\ asked \in 0..MaxGrants
  /\ result \in Space \cup {NONE, -ENOMEM, -ENOSYS}

Touchable(bytes) == {a \div PAGE : a \in bytes} \subseteq committed

\* Once the game runs, every byte of its segments - the file's part and the
\* zeroed rest - and of its stack can be touched, though segments may share a
\* unit of address space.
ImageAndStackMapped ==
  pc = "running" =>
    /\ \A s \in segments : Touchable(Between(s.vaddr, s.vaddr + s.memsz))
    /\ Touchable(Between(STACK_TOP - STACK_SZ, STACK_TOP))

\* Whatever a system call granted, in whatever order, after whatever
\* refusals, can be touched.
GrantsMapped == \A g \in grants : Touchable(g.bytes)

\* Every variable keeps its type, and whatever guest_load and the system calls
\* gave out is there (guest.c:161, syscall.c:120).
MemorySound == MemoryTypeOK /\ ImageAndStackMapped /\ GrantsMapped

\* Blocks of mmap2 share no byte with each other, the image or the stack.
MapsApart ==
  \A g \in grants : g.kind = "map" =>
    /\ \A h \in grants \ {g} : h.kind = "map" => g.bytes \cap h.bytes = {}
    /\ \A s \in segments : g.bytes \cap Between(s.vaddr, s.vaddr + s.memsz) = {}
    /\ g.bytes \cap Between(STACK_TOP - STACK_SZ, STACK_TOP) = {}

\* No two allocations share a byte, whether they came from brk or from mmap2.
\* syscall.c:112 takes the one off the top of the other.
GrantsApart == \A g, h \in grants : g # h => g.bytes \cap h.bytes = {}

\* A break that grows over pages nobody has is granted: guest.c:156 says that
\* a grow commits more pages and has to work from the first call.
PagesFree(newbrk) ==
  LET pages == GrowLo \div PAGE..(newbrk - 1) \div PAGE
  IN  /\ newbrk < STACK_TOP - STACK_SZ
      /\ pages \cap committed = {}
      /\ {(p * PAGE) \div GRAN : p \in pages} \cap Occupied = {}
GrowWorks ==
  [][\A n \in Sizes :
       curbrk # NONE /\ curbrk = brk /\ PagesFree(brk + n) /\ Sbrk(n) =>
         result' # -ENOMEM]_memoryVars
=============================================================================
