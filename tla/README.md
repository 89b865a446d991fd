# A verification development for lindberghrecomp

lindberghrecomp turns a Linux/i386 arcade game into C and runs it as a Windows
process. The lifted code keeps the guest's registers, stack and addresses; the
runtime in `src/src/runtime` answers everything the game would have asked of
libc, pthreads, X, OpenGL, the kernel and SEGA's boards. These modules model
the parts of that runtime that keep state and take steps, check them with TLC,
and prove the central ones with TLAPS.

Paths below are relative to `src/src/runtime` unless they say otherwise.

## Inventory

| Component | State it keeps | Operations | What makes it correct |
|---|---|---|---|
| Mutexes, conditions (`hle_pthread.c` 40-156) | two words in guest memory per object, host objects on the heap, `g_init_lock` | `obj_get`, ten handlers | one host object per guest object however it is first touched; exclusion; no lost wakeup; nothing freed while used |
| Threads, once, keys, semaphores (`hle_pthread.c` 158-332) | `GuestThread` records, once words, TLS slots | create, join, detach, once, key and sem handlers | a join returns the routine's value once; a once routine runs once and is over when the call returns |
| Dispatch (`dispatch.c`, `hle.c`, `overrides.c`) | the guest stack pointer, the host stack, `g_depth`, handler and override tables | `dispatch`, `dispatch_jmp`, `guest_call`, `hle_call`, the token calls | a body sees the arguments its caller pushed, on every route; `esp` comes back; depth counts activations |
| Window and input ring (`hle_window.c` 81-261) | the ring, mouse and button state, the quit flag | window procedure, pump, pop, swap | events reach the game once and in order; what was lost is known |
| GLUT (`hle_glut.c`) | callbacks, `g_redisplay` | the two loops, delivery | the game's view of what is held follows the player; posted redraws happen |
| Cabinet and JVS (`hle_window.c` 124-181, `hle_sega.c` 80-265) | switches, coins, gun, the reply being built | key and mouse handlers, switch, coin and analog reads, send, receive | a report says what the player holds; each answer is where its index says |
| Non-volatile memory (`hle_sega.c` 280-390) | two arrays, a loaded flag, a file | six wrappers, load, save | what is answered is kept; a restart brings back a whole image |
| Address space (`guest.c`, `syscall.c`) | the break, reserved and committed ranges | load, brk, mmap2, munmap | what is granted is mapped and is nobody else's |
| C library (`hle_libc.c`) | a header under each block, the print buffer, open files and directories, the `dlsym` table, `atexit` | some 150 handlers | blocks apart, aligned and kept; each directive meets its argument; sorting loses nothing, scanning keeps its place |
| C++ runtime (`hle_cxx.c`) | tree nodes and string representations in guest memory | iterator steps, insertion, string operations | order and balance; a string is a value although representations are shared; one owner frees |
| OpenGL (`hle_gl.c`, the frame report of `hle_window.c`) | the token table, what is bound and enabled, counters of the frame | forwarding, counting, refusing, reporting | the driver's state is what the game asked for, whatever watches; a name keeps its address |
| Cg (`hle_cg.c`) | an index of the disc's compiled shaders | index, reduce a source, choose | a source gets its own program |
| Crash report (`crash_report.c`) | a ring of the last dispatches, a copy of it in a file | trace, flush, report | the report lists the last calls in order |
| Video modes, matrices | tables | - | - |
| Tools (`src/tools`) | none | ELF reading, function bounds, driver, carver | bounds partition the text section |

Interaction: lifted code calls **dispatch**, which runs lifted bodies, overrides
or handlers; handlers call back through `guest_call` (GLUT callbacks, thread
start routines, `qsort` comparators). **Threads** are host threads, each with a
guest machine of its own, sharing guest memory and every table of the runtime;
only `obj_get` takes a lock. The **window procedure** runs whenever something
pumps, also inside a callback. The **JVS board** reads what the window procedure
wrote. **brk** and **mmap2** share one break. The process may end anywhere: the
pump calls `exit` when the window is closed.

The behaviours that are hard: first touch of a synchronisation object by many
threads; destroy against reuse of the address; waiters, signals and deadlines;
five stack conventions in one function; re-entrant pumping; a ring at its limit;
a crash between truncating and writing a file; address arithmetic that rounds
and wraps. `PROJECT.json` lists them at their lines.

## Modules

| Module | Models | Abstracts to |
|---|---|---|
| `GuestSync` | mutexes and conditions of `hle_pthread.c` | `PosixSync` |
| `GuestSync_proofs` | theorems about `GuestSync` | |
| `GuestThreads` | create, trampoline, join, detach of `hle_pthread.c` | `ThreadContract` |
| `GuestSemaphores` | the semaphores of `hle_pthread.c` | `PosixSemaphore` |
| `ThreadSystem` | `GuestThreads` and `GuestSemaphores` over the same host threads | |
| `ThreadSystem_proofs` | theorems about these three | |
| `Dispatch` | `dispatch.c`, `hle_call`, override lookup, token calls | `CallStack` |
| `HostInput` | window procedure, ring, GLUT loops | `EventQueue` |
| `HostInput_proofs` | theorems about `HostInput` | |
| `Cabinet` | keys, coins, gun and autostart of `hle_window.c` | |
| `Jvs` | the JVS board of `hle_sega.c`, over `Cabinet` | |
| `Nvram` | non-volatile memory of `hle_sega.c` | `NonVolatile` |
| `Sega_proofs` | theorems about `Nvram` and `Jvs` | |
| `GuestMemory` | `guest_load`, `guest_brk`, `mmap2`, `munmap` | |
| `Machine_proofs` | theorems about `Dispatch` and `GuestMemory` | |
| `GuestHeap` | the allocator of `hle_libc.c` and what moves memory through it | `Allocator` |
| `GuestSort` | `qsort` of `hle_libc.c` with the guest's comparator | |
| `GuestFormat` | the `printf` family of `hle_libc.c` | |
| `GuestScan` | the `scanf` family of `hle_libc.c` | |
| `RepStrings` | `std::string` of `hle_cxx.c` | `ValueStrings` |
| `RbTree` | iterators and insertion of `hle_cxx.c` | `OrderedSet` |
| `CallTrace` | the trace ring, its file and its report in `crash_report.c` | |
| `Libraries` | these seven side by side | |
| `RbTree_proofs` | theorems about `RbTree` | |
| `Libraries_proofs` | theorems about `CgShaders` and the parts of `Libraries` other than the tree | |
| `GlWatch` | the watched calls of `hle_gl.c`, the frame report of `hle_window.c`, over an external driver | |
| `EntryPoints` | the tables of `hle_gl.c` and `hle_libc.c` that answer a name with an address | |
| `CgShaders` | the program lookup of `hle_cg.c` | |
| `Graphics` | these three side by side | |
| `Graphics_proofs` | theorems about `GlWatch` and `EntryPoints` | |

`Libraries_proofs` extends `RbTree_proofs`, which begins with what both use of
induction. Operators of `GuestMemory` that other modules have as well are named
`MemoryInit`, `MemoryNext` and so on, as are those of `Nvram`.

An `MC` module gives the constants of each run their values for TLC; `HostInput` and
`Nvram` need only what their `.cfg` says. Every module carries, just before some
definitions, a *Mutant*: that definition with a plausible bug. It is not part of
the specification; substituting it makes the property named beside it in
`PROJECT.json` fail, which shows that the property watches that code.

### GuestSync

The guest's blob is `magic[o]` and `host[o]`; host objects are addresses in
`Hosts` that `calloc` hands out and `free` takes back, with `owner`, `depth` and
`queue` as the state of a critical section or condition variable. `obj_get` is
modelled access by access: `TestMagic` and `FastPath`/`SlowPath` are the two
loads of line 66, `EnterInitLock` to `LeaveInitLock` lines 70-77 with the stores
of lines 74 and 75 in either order (they are plain stores to unrelated words),
`Reload` the load of line 78. A handler with two arguments fetches them in
either order. Handlers whose host call is atomic (`EnterCriticalSection` and its
kin) take one step after that. A destroy is two steps, because `free` precedes
the clearing of the blob; the intermediate state is visible to other threads.
`init_once` is called by `hle_register_pthread` before any guest thread exists,
so the lock is there from the start. `calloc` does not return NULL in the model.

`Defined` is what POSIX requires of a caller: unlock what you hold, wait with a
mutex held once, destroy what nobody uses. The code relies on all three.

`PosixSync` has no storage: counts of holds and who sleeps on what. The
refinement says that a wait releases and sleeps in one step, that a lock is never
granted twice, and that a sleeper returns only with the mutex.

### GuestThreads, GuestSemaphores, ThreadSystem

A `GuestThread` is an address in `recs` with a stack in `stacks`, a `handle` and
a `retval`; the address is the `pthread_t`. `pthread_create` is five steps, since
the new thread runs from the third on: record, stack, `CreateThread`, the store
of the handle, and the rest up to the return. Each allocation may fail. The
trampoline keeps the record it was given in `own`, and stores what its routine
returned (`eax`) before the host thread ends. A join waits for the end, then
closes, stores and frees in one step, because by then nobody else has the
record. What a thread runs, its argument and its attributes are left out; a
stack size matters only to whether `malloc` refuses. The guest is assumed to use
a `pthread_t` only after its create has returned and to join or detach it once.
`pthread_self` is left out: it answers a Windows thread id, which is never the
word `pthread_create` handed back, so the guest cannot join or compare with it.

`ThreadContract` has no records: a word is unused, running or over, and a join
of a word that is over answers its value.

A semaphore is a `cell` with a handle. `sem_wait` and `sem_post` read the cell and
then use the handle; `sem_init` and `sem_destroy` close the handle first and
replace or free the cell afterwards. `Unused` is what POSIX asks of a caller of
these two; it allows a destroy as soon as the last wait has returned, while the
post that let it through is still on its way out (`"posted"`), which is the usual
way such a semaphore is used. `sem_wait` on a handle that is closed or missing
would return 0 at once; `HandlesCurrent` says that it never comes to that.
`obj_get` is one step here, since `GuestSync` shows it hands out one object.

In `PosixSemaphore` a call is part of the state from where it is made to where it
returns: a `sem_post` that returned without having counted, below the limit,
would be no step of it, although it changes no value.

`ThreadSystem` lets each host thread be in one handler of either at a time.

### Dispatch

`frames[t]` is the host stack of `dispatch` activations, `mem[t]`/`esp[t]` the
guest stack. A call pushes (`GuestCall`, `ImportCall`, `TailJump`, `HostCall`),
one `Route...` action enters the body with the `esp` its convention gives, a
return pops, a `Resume...` action is the caller's clean-up. Which addresses are
lifted, overridden, PLT stubs or tokens is constant: those tables are filled
before the game runs, apart from tokens, whose growth is `EntryPoints`. An overridden address is also in the lifted table, so `RouteLifted`
excludes it, as the order of lines 155-159 does.

`CallStack` knows calls and arguments only. `ImplementsCallStack` maps each
frame that has not tail-jumped away, by its level on the host stack, to the
arguments readable from its `esp`, so a route off by one slot is a refinement
failure.

### HostInput

The player presses, lets go, moves. Presses and releases of buttons and keys are
bounded (`MaxMessages`); the mouse never has to stop, and may move again after
every pump, those made inside callbacks included. The host queues messages; `Pump...` runs the
window procedure; `Deliver` calls the game, which may post a redraw or swap (and
so pump) before it returns. Both `glutMainLoop` and `glutMainLoopEvent` are
modelled; the game picks one at the start. `view` is what the game can know; of
a control whose callbacks it did not register it knows nothing (`Heard`).
`EventQueue` takes each message once: accepted, refused because the channel was
full, or skipped because it is no event at all (a close).
Positions are left out; a motion event carries the buttons held, because that
decides which callback it goes to. A printable key is two events, the character
and the key's release (`keyboard_up`), of which it matters only that they pass
through the ring. Nothing in the code makes `deliver_input` come to an end: while
each swap in an input callback finds new input, it goes on delivering, and
draws nothing. `PostedIsDrawn` therefore supposes that the ring runs dry again
and again; `NoEventStays` supposes nothing.

### Cabinet and Jvs

The player holds keys and buttons; messages wait until a pump hands them all to
`WndProc`; `HostCabinetInput` is what a read makes of `g_cab` and the mouse,
autostart included. `Jvs` builds a reply as the code does, cell by cell: a cell is
a byte, the switches set in it or a number. `JvsSend` folds `JvsCommand` over the
commands up to the first whose offset is outside the packet. `AnswersInPlace`
decodes the list of offsets with lengths taken from the protocol, and
`GameSeesPlayer` reads the cells and compares them with the player, not with
`g_cab`. `RequestsFit` says that a reply with its checksum is as long as a length
byte can say, which the code leaves to the game; `ValuesFit` that coins stay
within their fourteen bits and the window is narrower than the gun's axis. The
run's constants satisfy both. That the thread which pumps is the one that
asks is assumed: `hle_sega.c:93` puts the game's send and receive on one thread, but
`hle_window.c:219` has JVS reads come from anywhere, and nothing locks `g_cab`
(the hazard at `hle_window.c:138`). The comment over the board says
that nothing is pressed; see Findings. A held key repeats,
and each repeat of a coin key is a coin.

### Nvram

`file` is a sequence of bytes or absent. A save truncates, then grows the file
by any amounts, then returns; `Restart` may strike before any step. `DiskFails`
adds a file that does not open and a disk that fills. One call is served at a
time: the runtime has no lock here, and concurrent callers are a listed hazard.

### GuestMemory

Addresses are words below `Top`; `PAGE` and `GRAN` are 2 and 4 of them. A host
grants a range if its units are free: on Windows a unit is `GRAN` and the start
of a range is rounded down to it, elsewhere a page. `Sbrk` is how a C library uses
the break: it remembers what it was last told and takes an answer at or above
its request for success. `Occupied` is where the host process itself lives.

### GuestHeap

`header` is what lies under each block the guest holds, `hostBlocks` what the
host's allocator has given, `cell` the memory. The host answers with any free
stretch on its own, coarser boundary, or refuses: `Gmalloc` picks, places the
block on the boundary asked for, writes the header below it and leaves the rest.
A header is known by its magic word, so a double `free` and a `free` of
something else are told apart (`Ours`). Sizes are words: the sum of size,
alignment, header and slack wraps as it does in the code (`WordLimit`), and
`Servable` names the requests it does not wrap for; requests near 2^32, whose
sum wraps to a small one, are not modelled, nor is a product of `calloc`'s
arguments that wraps. `Memset` and `Memcpy`
are `h_memset` and `h_memcpy` with their sanity check (`Sane`).

`Allocator` has neither headers nor host blocks: live blocks with contents. The
refinement says that a block lies apart from every other and keeps what was
written to it, that `realloc` carries the old contents over, and that a refused
`free` or a failed `realloc` changes nothing the guest can see. Its steps do not
carry the name of the call: that `calloc` clears, or the boundary `memalign` was
asked for, is in `Calloc` and `Memalign` and not compared with anything.

### GuestSort, GuestFormat, GuestScan

`GuestSort` is the insertion sort one comparison at a time: the comparator is
lifted code that may answer anything, and the array is the guest's own, so
between two steps the element in hand exists only in the host's buffer.

`GuestFormat` separates what the caller's compiler pushed (`Pushed`: stars, then
the value, in words) from what `guest_format` takes (`Taken`). A rendering is a
sequence of characters of which only the length and the identity matter; the two
buffers cut where the code cuts (`piece`, `g_fmtbuf`, then the caller's).
`GuestScan` is one directive per step: the string scanner moves by what the host
says it consumed, the stream scanner leaves the stream where it is. The stream
scanner hands the host a run of literals and blanks at once, which is given up
at the first that does not match (`Behind`); runs of more than 62 characters,
which it skips, are left out. `CWalk` is C's own definition, over whole inputs.

### RepStrings

A string object is a pointer to a representation with a text and a count of
further references. The guest has the other half of the library inlined, and
works on the same memory: `Dispose` (the inlined destructor), `Share` (a copy
that only counts) and `Poke` (a write in place) are the guest's; the rest are
handlers, which never share. The capacity is left out, since no handler appends
in place. `sharing` says whether the game was compiled to share.

### RbTree

`node` has the four fields of a node, by its key, with the header as one more
node, as libstdc++ has it. Left and right are one definition with the side as a
parameter. A loop of the code is a `Loop`: a function iterated until it stays,
which none does later than after every node. `Below` is the guest's own descent
to the place; `InsertAndRebalance` links, recolours and rotates; `RbIncrement`
and `RbDecrement` step. `TreeBalanced` counts the black nodes on the way from
each end of the tree up to the root. `OrderedSet` is a
set and a cursor; its steps are not told apart by the call that makes them.
Erasing is not among the handlers.

### CallTrace

`TraceDispatch` and what follows are the accesses of `guest_trace_dispatch` in
their order: read the counter, step it, store the slot, and, as one step, count
towards a flush and write the file (`crash_report.c:82`; no property looks
between these). Two threads may be anywhere in it. `history` records what was
dispatched to, and whether two threads were ever in it together; it guards no
action.

### GlWatch

`drv` is the driver's state, whose calls are modelled from how the handlers use
them (external); `game` what it would be had every call of the game
reached it unwatched; `option` is the set of `LINDBERGH_` variables. A call is
`Forward`, or a handler that counts, refuses (`NO_FBO`, `NO_VP`, `NO_FP`,
`NO_REJECT`), replaces (`FP_SOLID`) or reports. `Swap` is `h_glXSwapBuffers`
with the frame report (`inspect_frame`), which tries a clear, a quad, the
framebuffers and a screen shot by changing state. It puts none of it back but a
texture binding: clear colour, colour mask, current colour (`paint`),
capabilities, read buffer and packing stay as the trial left them, and the
default framebuffer stays bound. `curFbo`, `vpOn`, `nth`, `looks` and `frame` are the
statics of the C files.

Much that the driver is told goes past the handlers, and some of it changes what
they remember: attributes that are popped, display lists, deletion of the bound
framebuffer, entry points called by their token, and the trials. `Replay` is
`glPopAttrib` and `glCallList`: the capabilities become any that the guest could
have saved or compiled, as neither stack nor lists are kept. `NewList` begins a
list that is only compiled, into which the model lets the guest put switches
only. `Token...` actions call the driver directly. `astray` says which of
the two memories, target and pipeline, has been left behind and not been told
since; `MirrorsTrue` says that a memory that is not astray is the driver's, under
every option. `Unwatched` are the option sets under which a run includes these
calls.

`GameStateKept` names, for each option, the parts it is meant or known to
change (`Touches`), and says that everything else is the game's own.

### EntryPoints

A search that finds nothing, the write of the new entry and the step of the
counter are three steps, as no lock joins them: `AskNew`, `WriteEntry`,
`TakeToken`. The tables are full at `GlMax` and `DlMax`; the second then answers
null. `mixed` records that two threads have been in one table together.

### CgShaders

The disc is a sequence of files, each with a text, the definitions it was
compiled with and an output. `CreateContext` indexes it, up to `MaxShaders`;
`CreateProgram` strips comments, compares tails and definitions, and falls back
to a file that is the only one with its definitions. How the game preprocessed
the source is an input (`Ways`).

## Runs

| Run | Expected | What it shows | Bounds, and why they suffice |
|---|---|---|---|
| `sync` | pass | every property of GuestSync, and the refinement of PosixSync | three threads (a holder, a waiter and a first-toucher), one mutex, one condition, three host addresses so that a freed one is reused, relocking to depth 2 |
| `threads` | pass | records and stacks are alive while used and given back, joins and waits answer as POSIX has it | three host threads (creator, worker, joiner), two records, two return values, one semaphore with a limit of one and two handles, initial values below, at and above zero |
| `dispatch` | pass | stack balance, depth, arguments on every route | two threads, depth limit 2, five slots: every route nested in every other, and the limit itself; a tail jump reaches its target from bodies a handler called, elsewhere the limit comes first (`StackStaysBalanced` and `CallsAreCalls` hold for any limit) |
| `input` | pass | the ring is a bounded queue, the view converges, every event leaves the ring, posted redraws are drawn | one button, one key, ring of three cells (two usable), two presses, releases, characters or closes and any number of mouse moves, one to a pump: the ring fills, wraps, overflows and is filled again while it is drained; one swap per callback |
| `jvs` | pass | answers are where the reply says; the game sees what the player does | five pairs of controls, one per behaviour; two messages between pumps; three frames, so that autostart's coin, press and release all happen; bytes that wrap at 16 and a window four pixels wide, with requests whose reply is as long as a byte can say; coin counts stay below a byte |
| `nvram` | pass | answered means saved; a restart loads whole or blank | two plus one bytes, two starts; the first finds no file or any file of up to four bytes (short, whole, long); disk failing |
| `memory` | pass | image and stack are mapped, grants are mapped, maps are apart | both platforms, five images, four requests of sizes around a page and a unit |
| `memory_overlap` | violation | heap inside an mmap2 block | the same |
| `memory_growth` | violation | on Windows the second growth fails | the same |
| `libraries` | pass | the heap is an allocator, strings are values, the tree is an ordered set; sorting, printing, scanning and the trace do what callers rely on | see below |
| `format` | violation | a directive longer than the piece buffer shortens the length answered | the printing part of the same |
| `graphics` | pass | what watches leaves the game's driver state alone, addresses keep, a source gets its own program | see below |

`libraries` and `graphics` compose parts that share no state; a behaviour uses
one of them (`part`), so the state space is the sum of theirs. Their bounds:

* heap: 26 cells, a host boundary of 2 and a guest boundary of 4, a header of
  3, sizes of 0, 2 and 5 (the threshold, so paged), alignments of 1, 4 and a page: up
  to three live blocks, every misalignment the host can produce, memory that
  runs out, a freed block's cells used by the next one.
* strings: two objects, three places for representations, texts of up to two letters
  over two letters, one further reference: every operation of one object on
  the other and on itself, shared and not.
* tree: any insertion sequence of nine keys; that is enough for every rotation
  case at the root and below it, and for recolouring to climb twice.
* sort: up to five elements over three keys, four where the call is served, and five
  comparators, two of which contradict themselves.
* format: up to three directives of nine kinds, each of the argument widths and
  star counts; buffers of six and five characters, so that each cuts.
* scan: inputs and formats of up to three out of three characters and six
  directives, all targets there or the second null.
* trace: a ring of two, a counter that wraps at four, five dispatches of two
  threads: round the ring twice and round the counter once.
* watch: one framebuffer, two units, each option by itself and two pairs,
  frames up to three so that every "from frame" and "every so many frames" is
  both on and off, two draws in a frame. Calls past the handlers are made with no
  option, `NO_FBO`, `NO_VP` and `GLERR`: those that touch what is remembered,
  and that which asks after each call; `MirrorsStayTrue` holds for all.
* entries: two threads, three names of which one is imported and one unknown, two
  entries and one, three requests: a table fills, and two threads meet in one.
* shaders: every disc of three files out of seven that end one another or
  differ in definitions or includes only, a table of two.

Where a component's type invariant and a second invariant say how its variables
stand to one another at every step, a run checks them as one: `DispatchSound`
is `TypeOK` and `DepthCounts`; `InputSound` adds `MotionAgrees`, `JvsSound`
`AnswersInPlace`, `NvramSound` `SavedBetweenCalls`, `MemorySound`
`ImageAndStackMapped` and `GrantsMapped`, `SystemSound` `HandlesCurrent`,
`GraphicsSound` `MirrorsTrue`; `LibraryTypeOK` is the seven type invariants.

Threads other than main, records and handles are interchangeable in `threads`
(symmetry; the run has no liveness property).

Deadlock is not checked where the system really stops: when every guest thread
waits for another's post (`threads`), after a runaway or an
abort (`dispatch`), when the window was closed (`input`), when loading failed or
memory ran out (`memory`), when a tree is full and every call has been made, or the bound on
dispatches, requests or frames is reached (`libraries`, `graphics`).

Fairness: only `HostInput` states any. `WF_vars(Loop)` says that the loop goes
on, that the game calls `glutMainLoopEvent` again if it drives its own loop, and
that callbacks return and a pump ends. The last two rest on bounds: at most `MaxSwaps`
swaps inside one callback, and in one pump at most one move of the mouse, beside
the player's `MaxMessages` presses and releases in all. The mouse need not ever
stop. `PostedIsDrawn` has the premise `RingRunsDry`, which the code does
not ensure; `NoEventStays` has none.

## Proofs

Each `_proofs` module proves an inductive invariant, lemma by lemma and action
by action, and draws the theorems from it. A refinement is proved as a step
simulation: the mapped initial state is an abstract one, and under the invariant
every step maps to an abstract step or to none. Every theorem holds for all
values of the constants that satisfy the named assumptions of the modules, which
TLC evaluates in the runs.

| Module | Theorem | States |
|---|---|---|
| `GuestSync_proofs` | `Invariance`, `TypeCorrect` | `IInv`, `TypeOK` |
| | `OneObject`, `MutexesExclude` | `OneHostObject`, `MutualExclusion` |
| | `NothingOrphaned` | `NoOrphan` |
| | `MutexesArePosix` | `ImplementsPosixSync` |
| | `WakersReachSleepers` | `WakeupsArrive` |
| `ThreadSystem_proofs` | `ThreadInvariance`, `ThreadsTyped` | `IInv`, `TypeOK` of `GuestThreads` |
| | `RecordsAlive`, `NothingLost` | `NoUseAfterFree`, `OnlyDetachedLeak` |
| | `ThreadsAnswer` | `ImplementsThreadContract` |
| | `SystemInvariance`, `HandlesStayCurrent` | `IInv` with `SemInv`; `SystemSound` |
| | `SemaphoresCount` | `ImplementsPosixSemaphore` |
| | `SystemKeepsThreads`, `SystemThreadsAnswer` | `System` implements `GuestThreads`, so all of the above holds of it |
| `Machine_proofs` | `StackStaysBalanced`, `DepthIsCounted` | `StackBalanced`, `DispatchSound` |
| | `CallsAreCalls` | `ImplementsCallStack` |
| | `MemoryInvariance` | `MemInv` |
| | `GivenIsThere`, `BlocksApart` | `MemorySound`, `MapsApart` |
| `HostInput_proofs` | `InputInvariance` | `InputInv` |
| | `ViewFollowsPlayer`, `DragsAreDrags` | `ViewConverges`, `InputSound` |
| | `InputIsQueue` | `ImplementsEventQueue` |
| `Sega_proofs` | `SavedIsKept`, `MemoryIsBackup` | `NvramSound`, `ImplementsNonVolatile` |
| | `BoardAnswersInPlace` | `JvsSound`, of requests that fit (`RequestsFit`) |
| | `PlayerIsSeen` | `GameSeesPlayer`, of requests and values that fit |
| `Libraries_proofs` | `HeapSound`, `HeapAllocates` | `BlocksSound`, `ImplementsAllocator` |
| | `SortIsSound` | `SortSound` |
| | `RepsStayOwned`, `StringsAreValues` | `RepsOwned`, `ImplementsValueStrings` |
| | `ReportsAreSuffixes` | `ReportIsSuffix` |
| | `PrintfPrintsAsC`, `ScanfAgrees` | `PrintsAsC`, `ScanAgrees` |
| | `CompilerFindsRightProgram` | `RightProgram` |
| | `LibrariesKeepTypes` | `LibraryTypeOK` |
| | `LibrariesAreTheirParts`, `LibrariesKeepPromises` | `Libraries` implements each of its parts, so all of the above and of `RbTree_proofs` holds of it |
| `RbTree_proofs` | `TreesAreBalanced`, `TreesAreSets` | `TreeBalanced`, `ImplementsOrderedSet` |
| `Graphics_proofs` | `WatchingIsHarmless`, `MirrorsStayTrue` | `GameStateKept`, `GraphicsSound` |
| | `AddressesStay` | `AddressesKeep` |
| | `ShadersByThemselves` | `Graphics` implements `CgShaders`, so `RightProgram` holds of it |

### Why the invariants are what they are

**GuestSync.** None of the properties is inductive. That two threads exclude each
other depends on both having fetched the same live host object; that depends on
no creation having replaced the object after the first thread's fetch, thus on
the initialisation lock, and on what the lock's holder knows between its test
and its stores; and on a destroyed object having no reader, thus on what POSIX
asks of callers. `IInv` collects these as named conjuncts: where in a call each
thread is and what it still needs, who may be a maker and what it has stored,
that live objects of distinct guest objects are distinct, that a critical
section's owner and depth are the guest's hold counts, that a destroy has its
object to itself. `NoOrphan` needs one conjunct more (`NoneLost`): a live host
object is the object of a blob nobody is clearing, or is on its way into one.
For `PosixSync` the sleepers of a condition are the queue of the host object
that all who fetched it fetched; `WakeupsArrive` follows from that.

**ThreadSystem.** That a join frees nothing still in use rests on who may know a
record: a record is in one handler's hands or with the guest, never both
(`OneUse`), has at most one thread and none before the thread is started
(`OneThread`), and leads by its handle to that thread from the moment the guest
has it (`SetUp`). `SemInv` says the same of semaphore handles: a wait or post in
progress holds the handle its cell has now, because whoever would close it finds
the semaphore in use. For `PosixSemaphore` a handler's step is read as the call it
is part of: the step that uses the handle is the one that takes or adds a token,
and the return comes after it. A step of the system is a thread's or a semaphore's, so
the two invariants hold side by side.

**Dispatch.** A call has three stages: pushed, entered, returned. Each fixes `esp`
against the stack pointer of the body beneath (`CallOk`, `FrameOk`, `BackOk`),
a tail call against that of the body it replaces. The depth counter is the
number of activations among the frames. For `CallStack`, the arguments of every
body that can still read them lie above all that was pushed since (`Beneath`),
those of a pushed call are where its body will look (`Put`), and the bodies that
can no longer read theirs are exactly those under a tail call (`LeftOk`): a
tail call may overwrite its caller's arguments and nobody else's.

**HostInput.** For each control, what waits in the ring and then in the messages
tells the game, in that order, what the player did last (`Tells`); after a drop
nothing is claimed. The rest is the arithmetic of a ring that wraps. For
`EventQueue` a message not yet dispatched is the event it will become, which
depends on the buttons the messages before it leave.

**Nvram.** The invariant says how far the file has come at each point of a call:
nothing is in memory before the first access, while loading what was read is
the file's, while saving the file is a prefix of memory.

**Jvs.** `CabInv`: were all the waiting messages pumped, the cabinet would be as
the player has it; that is followed message by message, so it holds whenever the
game asks. `BoardInv`: the reply holds an answer to each command of the last
request, where the list of offsets says, each made from such a cabinet, and the
offset after the last is the reply's length. It is proved by induction over the
commands: a command writes from its offset on and leaves what lies before.

**GuestMemory.** Everything from the image to the end of the break's page is
mapped, the stack is mapped above the break, and what was granted lies below
the break. Most of the proof is the arithmetic of pages and units.

**Heap.** Two facts carry it: the request to the host leaves room to move the
block up to its boundary with the header below it, wherever the host's block
begins; and host blocks do not overlap.

**Sort.** An insertion exchanges neighbours, so the array with the element in hand
put into the hole is always a permutation of what was given; that part holds
whatever the comparator answers. With a comparator that orders, what is passed
over is greater, which gives order and stability.

**Strings.** A representation is held by no more objects than one plus its
count. Replacing, disposing and sharing change one side by as much as the other.

**Format and scan.** `FormatInv` holds after each directive: the words taken are
those the caller pushed for the directives so far, and the text is what C prints
of them, cut where the buffer ends. `ScanInv`: as long as C promises something,
the position and what was stored are C's after as many directives, but for
blanks that the next conversion skips in any case.

**Tree.** `TreeInv` gives each member an open interval, the root the whole of it
and a child the part on its side of the parent, and a height in black nodes that
both children agree on. Intervals of two members nest or lie apart, whence the
order: a climb ends at a bound of its member's interval and a descent in a gap
between neighbours. A rotation exchanges the intervals of two nodes and nobody
else's. While a tree is under repair, one node may clash with its parent
(`Fixing`); a recolouring moves the clash two levels up, into a wider interval,
so the loop ends, and the rotations remove it.

**Trace.** While no two threads meet in it, the counter is the number of
dispatches modulo its limit, the slots hold the last `TraceN` of them, and the
file holds what had been counted at the last flush.

**Graphics.** The driver differs from what the game asked for by field, each
under the options that may touch it; the mirrored binding and flag are the
driver's own or astray: a watched call sets both, a call past the handlers
leaves them as they are or is noted in `astray` (`Parting`, `Mirroring`). In a token table the least entry of a name is the one handed out,
and entries below the counter are never rewritten.

**CgShaders.** `ShadersInv`: the table was made once and each entry is a file of
the disc under what its text reduces to; what was answered last is what the table
gives for what was asked. The rest is what preprocessing and stripping make of a
text, line by line: pasted or bare, a file's text reduces to one that its own
stripped code ends, and rewritten to one that no file's code ends.

**Induction.** What a fold, a walk or a loop computes is proved for every input.
The definitions are recursive functions over a range of numbers, which the
provers do not unfold by themselves. `Recursion` gives such a function its
equations, step by step, and `SetInduction` proves a fact for all of a range from
the set of numbers it holds for; both rest on `LeastNat`, that a set of naturals
has a least element. `LoopEnds`: a `Loop` each of whose steps lowers a measure that
starts no higher than the number of nodes ends where it stays.

### What is assumed

The assumptions on constants say: alignments are powers of two (of any two the
lesser divides the greater); comparators answer integers; there are finitely
many strings and asking threads, and a text is never the mark of no string; 0 is
not the number of a framebuffer object, and frame numbers are integers; a disc
is a sequence of files; a comment and a rewritten line are no lines of code; the
print buffers have room for their end, and a directive's value takes as many
words as its conversion; digits, blank and comma are told apart; the reply's
buffer is as long as a byte can say; an array to sort may have an element; red is
not black; the values that stand for no call, no frame and no event
are none of these. The two theorems about the JVS board have
`RequestsFit` and `ValuesFit` as hypotheses, which nothing in the code checks. The three
theorems about memory have two of their own: `BelowStack` (the image is linked below the stack, as every game is)
and `Modest` (no request is near the size of memory). The second is needed: a
length near 2^32 wraps, is granted, and what follows overlaps (`syscall.c:118`,
on the list of hazards). The constants of the run satisfy both.

What callers owe, POSIX's rules above all, are guards of the actions, as the
sections on the modules say.

### Only model-checked

* `PostedIsDrawn`, `NoEventStays`: liveness under fairness.
* The three disagreements under Findings.

## Findings

Each has a run whose property the code violates.

1. `mmap2` moves the break under a C library that remembers it, and the next
   `brk` is granted inside the block (`syscall.c:120`, `guest.c:158`).
2. On Windows a break that is not on a 64 KB boundary cannot grow past its page
   (`guest.c:161`).
3. `printf` and `snprintf` answer the length of what the 512-character piece
   buffer cut, where the comment promises the length the text would have had
   (`hle_libc.c:464`, 533, 549).

Other places where the code does not do what a comment or the function's own
specification says. The modules show what the code does; no run is spent on them.

* The JVS board reports keys, coins and the gun (`hle_sega.c:152`, 183, 194). The
  comment that introduces it says "Nothing here is pressed, inserted or aimed"
  (`hle_sega.c:65`), and `src/docs/cabinet.md:17` "nothing is pressed or aimed".
  `GameSeesPlayer` states what the code does: the board plays.
* `deliver_input` goes on as long as swaps in input callbacks refill the ring
  (`hle_glut.c:88`), and nothing is drawn meanwhile; `glutMainLoopEvent` does not
  return.
* `g_cur_fbo` is "currently bound" and `g_vp_on` "currently enabled"
  (`hle_gl.c:600`, 603) only as far as nothing changes them past the handlers:
  see GlWatch above.
* A full input ring drops the newest event; the comment at `hle_window.c:89`
  says the oldest. `EventQueue` has the code's behaviour.
* A save opens its file for writing before it writes, so a crash in between
  loses what was saved before (`hle_sega.c:327`). `NonVolatile` allows it.
* `sscanf` passes over a literal without consuming it, stores the count of a
  `%*` directive through the next target, and does not know `%[` or `%n`;
  `fscanf` answers 0 at the end of the file. `ScanAgrees` names the formats it
  holds for.
* `%Lf` and `%jd` are taken with the wrong number of words; `snprintf` reads past
  its scratch buffer when both text and cap are longer than that;
  the buffer is shared between threads.
* `qsort` returns a large array unsorted.
* `opendir` of a pattern lists siblings; `XInternAtom` answers a new number for
  the same name.
* A handler that replaces a shared string never counts down the old
  representation (`str_set`), so a game that shares leaks it. `RepsOwned` says
  "no more than it counts" for that reason. `_M_leak_hard` does nothing, so such a
  game must not write a shared string in place; `Poke` leaves that out.
* A request of nearly 2^32 bytes wraps to a small block.
* `gl_compressed_tex` takes whatever GL error is pending from the game; tracing,
  shots and statistics change pixel alignment, read buffer, texture unit or binding.
* The token tables have no lock: two threads in one table together can share an
  entry. `AddressesKeep` holds while that does not happen. A full `dlsym` table
  answers null.
* When the file asked for was not indexed, the fallback by definitions can hand out
  another file's program.
* `glXMakeCurrent` reports success when the host refused.
* A trace report is short just after its counter has wrapped at 2^32.

## Plan

Written: the modules above, and a theorem for every safety property and every
refinement that a run checks. What is left, in this order:

1. `Nvram` with two callers; `GuestMemory` with sizes that wrap; `CRT start` and
   `atexit` order; directory reading; function bounds of `tools/elf/elf32.py`.

## Not modelled

* Threads: `pthread_once` (one test and one call, under its comment's assumption
  that the guest does not race there; it marks the routine done before it has
  run), thread attributes (`pthread_attr_init` keeps a size left in the storage),
  TLS keys (`TlsAlloc` and its kin do it all), `pthread_self`, `pthread_equal`.
* C library: single calls handed to the host (string, character, math and time
  functions, file input and output), the CRT start with its constructors and
  `atexit`, directory reading, the locale and environment handlers.
* C++ runtime: the ABI handlers that report and exit; the SGI pool allocator,
  which is the host's `malloc`.
* Window: creation and contexts, X calls that answer constants, key-up messages
  lost with the focus.
* OpenGL: calls that are only forwarded, except for the state a handler depends on;
  what attribute stack and display lists hold;
  the matrix helpers; a series of shots (`SHOT_EVERY`); `inspect_frame` without
  memory.
* Crash report: exception and signal handlers and the walk of the guest's frames:
  they print and exit.
* Dispatch: the binding of names before the game starts. System calls for files and time,
  and the layout of the initial stack.
* Video modes and matrices: a table and floating point arithmetic.
* Tools: the ELF reader, the driver, the carver and the self test keep no state
  while the game runs; the lifter is a submodule that is not part of this tree.
