-------------------------- MODULE GuestSemaphores --------------------------
(***************************************************************************)
(* The semaphores of hle_pthread.c.  A guest sem_t leads, through the host *)
(* object obj_get makes for it (GuestSync shows there is one), to a cell   *)
(* with the handle of a Windows semaphore.  sem_post and sem_wait read the *)
(* cell and then use the handle, two steps; sem_init and sem_destroy close *)
(* the handle, whose value Windows may give to the next object at once.    *)
(*                                                                         *)
(* The guest keeps to POSIX: it uses a semaphore whose sem_init returned   *)
(* 0, and initialises or destroys it when no other thread is in sem_wait   *)
(* on it or has still to post it.  A thread whose sem_wait has returned    *)
(* may destroy the semaphore while the sem_post that let it through has    *)
(* yet to return.                                                          *)
(***************************************************************************)
EXTENDS Integers

CONSTANTS
  Threads, Sems,
  Handles,     \* values CreateSemaphore can return, reused once closed
  MaxCount,    \* 0x7FFFFFFF
  InitValues,  \* bound: what the guest passes to sem_init, as a LONG
  NULL

\* What the constants are; ThreadSystem assumes it.
SemAssumption ==
  /\ MaxCount \in Nat \ {0}
  /\ InitValues \subseteq Int
  /\ NULL \notin Sems \cup Handles \cup Threads

VARIABLES
  at, job, got,   \* each thread: the step it is at, the semaphore its
                  \* handler is called on, the handle it has read
  ask,            \* the initial value a sem_init was given
  cell,           \* cell[s]: the handle kept for s, or NULL
  open, count,    \* handles that are open, and each semaphore's count
  ready           \* the semaphores the guest may use

vars == <<at, job, got, ask, cell, open, count, ready>>

Steps == {"guest", "close", "create", "wait", "release", "posted", "free"}

Init ==
  /\ at = [t \in Threads |-> "guest"]
  /\ job = [t \in Threads |-> NULL]
  /\ got = [t \in Threads |-> NULL]
  /\ ask = [t \in Threads |-> 0]
  /\ cell = [s \in Sems |-> NULL]
  /\ open = {}
  /\ count = [h \in Handles |-> 0]
  /\ ready = {}

\* Nobody is in a call on s that has yet to take effect.
Unused(s) == \A t \in Threads : job[t] = s => at[t] = "posted"

Go(t, step) == at' = [at EXCEPT ![t] = step]

Return(t) ==
  /\ Go(t, "guest")
  /\ job' = [job EXCEPT ![t] = NULL]
  /\ got' = [got EXCEPT ![t] = NULL]

----------------------------------------------------------------------------
(* sem_init: close what was there, create anew.                            *)

InitCall(t, s, v) ==
  /\ at[t] = "guest"
  /\ Unused(s)
  /\ Go(t, "close")
  /\ job' = [job EXCEPT ![t] = s]
  /\ ask' = [ask EXCEPT ![t] = v]
  /\ ready' = ready \ {s}
  /\ UNCHANGED <<got, cell, open, count>>

\* Mutant: the handle that was there is not closed.
InitClosesNothing(t) ==
  /\ at[t] = "close"
  /\ Go(t, "create")
  /\ UNCHANGED <<job, got, ask, cell, open, count, ready>>

InitClose(t) ==
  /\ at[t] = "close"
  /\ open' = open \ {cell[job[t]]}
  /\ Go(t, "create")
  /\ UNCHANGED <<job, got, ask, cell, count, ready>>

InitCreate(t, h) ==
  /\ at[t] = "create"
  /\ ask[t] \in 0 .. MaxCount
  /\ h \notin open
  /\ open' = open \cup {h}
  /\ count' = [count EXCEPT ![h] = ask[t]]
  /\ cell' = [cell EXCEPT ![job[t]] = h]
  /\ ready' = ready \cup {job[t]}
  /\ ask' = [ask EXCEPT ![t] = 0]
  /\ Return(t)

\* A value past 0x7FFFFFFF is a negative LONG, or there is no handle left:
\* -1, and the cell is empty.
InitFails(t) ==
  /\ at[t] = "create"
  /\ cell' = [cell EXCEPT ![job[t]] = NULL]
  /\ ask' = [ask EXCEPT ![t] = 0]
  /\ Return(t)
  /\ UNCHANGED <<open, count, ready>>

----------------------------------------------------------------------------
(* sem_wait and sem_post: read the cell, then use the handle.              *)

Fetch(t, s, step) ==
  /\ at[t] = "guest"
  /\ s \in ready
  /\ job' = [job EXCEPT ![t] = s]
  /\ got' = [got EXCEPT ![t] = cell[s]]
  /\ Go(t, step)
  /\ UNCHANGED <<ask, cell, open, count, ready>>

WaitCall(t, s) == Fetch(t, s, "wait")
PostCall(t, s) == Fetch(t, s, "release")

WaitPasses(t) ==
  /\ at[t] = "wait"
  /\ count[got[t]] > 0
  /\ count' = [count EXCEPT ![got[t]] = @ - 1]
  /\ Return(t)
  /\ UNCHANGED <<ask, cell, open, ready>>

\* Mutant: a post wakes who waits now and is forgotten if nobody does.
ReleaseWaiters(t) ==
  /\ at[t] = "release"
  /\ count' = [count EXCEPT ![got[t]] =
                 IF \E u \in Threads : at[u] = "wait" /\ got[u] = got[t]
                 THEN IF @ < MaxCount THEN @ + 1 ELSE @ ELSE @]
  /\ Go(t, "posted")
  /\ UNCHANGED <<job, got, ask, cell, open, ready>>

\* At its limit ReleaseSemaphore refuses; sem_post answers 0 all the same.
Release(t) ==
  /\ at[t] = "release"
  /\ count' = [count EXCEPT ![got[t]] = IF @ < MaxCount THEN @ + 1 ELSE @]
  /\ Go(t, "posted")
  /\ UNCHANGED <<job, got, ask, cell, open, ready>>

\* Nothing of the semaphore is touched between the release and the return.
PostReturns(t) ==
  /\ at[t] = "posted"
  /\ Return(t)
  /\ UNCHANGED <<ask, cell, open, count, ready>>

----------------------------------------------------------------------------
(* sem_destroy: close the handle, free the cell, clear the blob.           *)

DestroyClose(t, s) ==
  /\ at[t] = "guest"
  /\ Unused(s)
  /\ open' = open \ {cell[s]}
  /\ ready' = ready \ {s}
  /\ job' = [job EXCEPT ![t] = s]
  /\ Go(t, "free")
  /\ UNCHANGED <<got, ask, cell, count>>

DestroyFree(t) ==
  /\ at[t] = "free"
  /\ cell' = [cell EXCEPT ![job[t]] = NULL]
  /\ Return(t)
  /\ UNCHANGED <<ask, open, count, ready>>

Step(t) ==
  \/ \E s \in Sems : WaitCall(t, s) \/ PostCall(t, s) \/ DestroyClose(t, s)
  \/ \E s \in Sems, v \in InitValues : InitCall(t, s, v)
  \/ \E h \in Handles : InitCreate(t, h)
  \/ InitClose(t) \/ InitFails(t) \/ WaitPasses(t)
  \/ Release(t) \/ PostReturns(t) \/ DestroyFree(t)

Next == \E t \in Threads : Step(t)

Spec == Init /\ [][Next]_vars

----------------------------------------------------------------------------
TypeOK ==
  /\ at \in [Threads -> Steps]
  /\ job \in [Threads -> Sems \cup {NULL}]
  /\ got \in [Threads -> Handles \cup {NULL}]
  /\ ask \in [Threads -> InitValues \cup {0}]
  /\ cell \in [Sems -> Handles \cup {NULL}]
  /\ open \in SUBSET Handles
  /\ count \in [Handles -> 0 .. MaxCount]
  /\ ready \in SUBSET Sems

\* A handle is used only while it is the one its semaphore has, so neither a
\* wait nor a post reaches an object Windows made out of a closed one, not
\* even when the semaphore is destroyed as soon as a wait on it returns; and
\* no open handle is lost.
HandlesCurrent ==
  /\ \A t \in Threads : at[t] \in {"wait", "release"} =>
       got[t] \in open /\ got[t] = cell[job[t]]
  /\ open \subseteq {cell[s] : s \in Sems}

\* The call a thread is in, by the step its handler is at.
Doing(step) ==
  CASE step = "guest" -> "nothing"
    [] step \in {"close", "create"} -> "init"
    [] step = "release" -> "post"
    [] step = "free" -> "destroy"
    [] OTHER -> step

\* A wait returns only with a token that an initial value or a post put there;
\* a post that returns has added one, unless the semaphore was at its limit;
\* sem_init gives the value asked for or fails.
Posix == INSTANCE PosixSemaphore WITH
  value <- [s \in Sems |-> IF s \in ready THEN count[cell[s]] ELSE -1],
  doing <- [t \in Threads |-> Doing(at[t])],
  on <- job,
  asked <- ask
ImplementsPosixSemaphore == Posix!Spec
=============================================================================
