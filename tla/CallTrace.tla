------------------------------ MODULE CallTrace ------------------------------
(***************************************************************************)
(* The ring of recent dispatches in crash_report.c: every guest thread     *)
(* writes it without a lock, a report reads it in the process, and a copy  *)
(* reaches a file every so many dispatches for the death no handler sees.  *)
(***************************************************************************)
EXTENDS Integers, Sequences

CONSTANTS
  TraceThreads,  \* the threads that dispatch
  TraceN,        \* TRACE_N
  CounterLimit,  \* 2^32, a multiple of TraceN
  Every,         \* LINDBERGH_TRACE_EVERY
  Targets,       \* addresses dispatched to
  MaxDispatch,   \* bound: dispatches
  EMPTY          \* a slot never written

ASSUME TraceAssumption ==
  /\ TraceN \in Nat \ {0} /\ CounterLimit \in Nat \ {0} /\ CounterLimit % TraceN = 0
  /\ Every \in Nat \ {0} /\ MaxDispatch \in Nat
  /\ EMPTY \notin Targets

VARIABLES
  ring,       \* g_trace
  count,      \* g_trace_i
  sinceFlush, \* g_since_flush
  ringFile,   \* the file: a count and a ring, or nothing yet
  fileNamed,  \* LINDBERGH_TRACE_FILE names a file that can be opened
  at,         \* where each thread is in guest_trace_dispatch
  history     \* what was dispatched to, in the order of the stores, and
              \* whether two threads were ever in here together

traceVars == <<ring, count, sinceFlush, ringFile, fileNamed, at, history>>

Out == [step |-> "out", i |-> 0, va |-> EMPTY]
NoFile == [count |-> 0, ring |-> <<>>]

TraceInit ==
  /\ ring = [k \in 0..(TraceN - 1) |-> EMPTY]
  /\ count = 0 /\ sinceFlush = 0
  /\ ringFile = NoFile
  /\ fileNamed \in BOOLEAN
  /\ at = [t \in TraceThreads |-> Out]
  /\ history = [va |-> <<>>, together |-> FALSE]

----------------------------------------------------------------------------
\* g_trace_i++ reads the counter,
TraceDispatch(t, va) ==
  /\ at[t].step = "out"
  /\ Len(history.va) < MaxDispatch
  /\ at' = [at EXCEPT ![t] = [step |-> "bump", i |-> count, va |-> va]]
  /\ history' = [history EXCEPT !.together = @ \/ \E u \in TraceThreads : at[u].step # "out"]
  /\ UNCHANGED <<ring, count, sinceFlush, ringFile, fileNamed>>

\* and stores it back, another thread's increment or not,
TraceBump(t) ==
  /\ at[t].step = "bump"
  /\ count' = (at[t].i + 1) % CounterLimit
  /\ at' = [at EXCEPT ![t].step = "store"]
  /\ UNCHANGED <<ring, sinceFlush, ringFile, fileNamed, history>>

\* Mutant: the slot is chosen by the counter as it is after the increment.
SlotAfter(i) == (i + 1) % TraceN

Slot(i) == i % TraceN

\* then the address goes into the slot the old count named.
TraceStore(t) ==
  /\ at[t].step = "store"
  /\ ring' = [ring EXCEPT ![Slot(at[t].i)] = at[t].va]
  /\ history' = [history EXCEPT !.va = Append(@, at[t].va)]
  /\ at' = [at EXCEPT ![t].step = "flush"]
  /\ UNCHANGED <<count, sinceFlush, ringFile, fileNamed>>

\* ring_persist: counter and ring, in a write each.  Counting the dispatch, the
\* reset and these writes are one step here, as nothing below tells them apart.
Persisted == IF fileNamed THEN [count |-> count, ring |-> ring] ELSE ringFile

TraceFlush(t) ==
  /\ at[t].step = "flush"
  /\ IF sinceFlush + 1 >= Every
     THEN sinceFlush' = 0 /\ ringFile' = Persisted
     ELSE sinceFlush' = sinceFlush + 1 /\ UNCHANGED ringFile
  /\ at' = [at EXCEPT ![t] = Out]
  /\ UNCHANGED <<ring, count, fileNamed, history>>

TraceNext ==
  \E t \in TraceThreads :
    \/ \E va \in Targets : TraceDispatch(t, va)
    \/ TraceBump(t) \/ TraceStore(t) \/ TraceFlush(t)

TraceSpec == TraceInit /\ [][TraceNext]_traceVars

----------------------------------------------------------------------------
\* guest_report_state's list, oldest first.  When the counter has wrapped it
\* is shorter than it could be.
Report(i, slots) ==
  LET n == IF i < TraceN THEN i ELSE TraceN
  IN  [k \in 1..n |-> slots[(i - n + k - 1) % TraceN]]

EndsWith(text, tail) ==
  /\ Len(tail) <= Len(text)
  /\ tail = SubSeq(text, Len(text) - Len(tail) + 1, Len(text))

TraceTypeOK ==
  /\ ring \in [0..(TraceN - 1) -> Targets \cup {EMPTY}]
  /\ count \in 0..(CounterLimit - 1) /\ sinceFlush \in 0..(Every - 1)
  /\ \A t \in TraceThreads : at[t].step \in {"out", "bump", "store", "flush"}

UpTo(k) == SubSeq(history.va, 1, k)
AllOut == \A t \in TraceThreads : at[t].step = "out"

\* As long as no two threads were in it together, a report between dispatches
\* lists the last ones in order, around the ring and around 2^32, and the file
\* lists those up to a dispatch no more than Every back.  However the threads
\* mix, what a report lists was dispatched to, or is a slot not yet written.
ReportIsSuffix ==
  /\ AllOut /\ ~history.together =>
       /\ EndsWith(history.va, Report(count, ring))
       /\ count = Len(history.va) % CounterLimit
       /\ ringFile # NoFile => \E k \in 0..(Every - 1) :
            /\ k <= Len(history.va)
            /\ EndsWith(UpTo(Len(history.va) - k), Report(ringFile.count, ringFile.ring))
       /\ fileNamed /\ Len(history.va) >= Every => ringFile # NoFile
  /\ \A k \in DOMAIN Report(count, ring) :
       Report(count, ring)[k] \in {EMPTY} \cup {history.va[m] : m \in DOMAIN history.va}
=============================================================================
