----------------------------- MODULE GuestSync -----------------------------
(***************************************************************************)
(* The mutexes and condition variables of hle_pthread.c.                   *)
(*                                                                         *)
(* The guest owns the storage of a pthread_mutex_t or a pthread_cond_t;    *)
(* the runtime keeps two words in it, a magic word and a pointer to a host *)
(* object (CRITICAL_SECTION or CONDITION_VARIABLE) that obj_get makes on   *)
(* first touch, because a statically initialised object is never passed to *)
(* an init function.  Several guest threads may touch an object first at   *)
(* the same time; obj_get's double-checked test is modelled access by      *)
(* access, the two stores of a creation in either order (they are plain    *)
(* stores of unrelated words and a compiler may swap them).                *)
(*                                                                         *)
(* The guest calls these handlers within what POSIX defines: it unlocks    *)
(* what it holds, waits with a mutex it holds once, and destroys an object *)
(* nobody else is using.                                                   *)
(***************************************************************************)
EXTENDS Integers, FiniteSets

CONSTANTS
  Threads,   \* guest threads, each on a host thread of its own
  Mutexes,   \* guest addresses of pthread_mutex_t blobs
  Conds,     \* guest addresses of pthread_cond_t blobs
  Hosts,     \* addresses calloc can return, reused after free
  NULL,
  MaxDepth   \* bound: how deep a guest thread relocks one mutex

Objs == Mutexes \cup Conds

ASSUME SyncAssumption ==
  /\ NULL \notin Threads \cup Objs \cup Hosts
  /\ Mutexes \cap Conds = {}
  /\ MaxDepth \in Nat \ {0}

VARIABLES
  \* Guest memory: the two words of each blob.
  magic, host,
  \* The host heap: live objects, the state of each critical section, and
  \* the threads queued on each condition variable.
  live, owner, depth, queue,
  \* g_init_lock.
  initOwner,
  \* Each thread's handler call: where it is, what it was called with, the
  \* blobs whose host object it still has to fetch, the one it is fetching,
  \* the stores a creation still owes, and the pointers fetched so far.
  pc, call, need, cur, new, stores, got,
  \* What the guest believes: how often each thread holds each mutex.
  held

guestVars  == <<magic, host>>
heapVars   == <<live, owner, depth, queue>>
fetchVars  == <<need, cur, new, stores, got>>
vars == <<guestVars, heapVars, initOwner, pc, call, fetchVars, held>>

Ops == {"init", "lock", "unlock", "trylock", "destroy",
        "cinit", "signal", "broadcast", "wait", "cdestroy"}
Calls == [op : Ops, mutex : Mutexes \cup {NULL}, cond : Conds \cup {NULL}]
NoCall == [op |-> "none", mutex |-> NULL, cond |-> NULL]
PCs == {"idle", "magic", "host", "enter", "check", "publish", "leave",
        "reload", "use", "asleep", "relock", "clear"}

Args(t) == {call[t].mutex, call[t].cond} \ {NULL}
Destroying(t) == call[t].op \in {"destroy", "cdestroy"}
Target(t) == IF call[t].op = "destroy" THEN call[t].mutex ELSE call[t].cond

Init ==
  /\ magic = [o \in Objs |-> FALSE]
  /\ host = [o \in Objs |-> NULL]
  /\ live = {}
  /\ owner = [h \in Hosts |-> NULL]
  /\ depth = [h \in Hosts |-> 0]
  /\ queue = [h \in Hosts |-> {}]
  /\ initOwner = NULL
  /\ pc = [t \in Threads |-> "idle"]
  /\ call = [t \in Threads |-> NoCall]
  /\ need = [t \in Threads |-> {}]
  /\ cur = [t \in Threads |-> NULL]
  /\ new = [t \in Threads |-> NULL]
  /\ stores = [t \in Threads |-> {}]
  /\ got = [t \in Threads |-> [o \in Objs |-> NULL]]
  /\ held = [m \in Mutexes |-> [t \in Threads |-> 0]]

----------------------------------------------------------------------------
(* The guest's side: which handler calls it may make.                      *)

\* Nobody else is inside a call on o, holds it or sleeps on it.
Unused(t, o) ==
  /\ \A u \in Threads \ {t} : o \notin Args(u)
  /\ o \in Mutexes => \A u \in Threads : held[o][u] = 0

\* What POSIX asks of a caller.
Defined(t, c) ==
  CASE c.op \in {"init", "lock", "trylock"} ->
                             c.mutex # NULL /\ c.cond = NULL
                             /\ held[c.mutex][t] < MaxDepth
    [] c.op = "unlock"    -> c.mutex # NULL /\ c.cond = NULL
                             /\ held[c.mutex][t] > 0
    [] c.op = "destroy"   -> c.mutex # NULL /\ c.cond = NULL
                             /\ Unused(t, c.mutex)
    [] c.op = "wait"      -> c.mutex # NULL /\ c.cond # NULL
                             /\ held[c.mutex][t] = 1
    [] c.op = "cdestroy"  -> c.mutex = NULL /\ c.cond # NULL
                             /\ Unused(t, c.cond)
    [] OTHER              -> c.mutex = NULL /\ c.cond # NULL

Call(t, c) ==
  /\ pc[t] = "idle"
  /\ Defined(t, c)
  /\ \A u \in Threads : Destroying(u) => {c.mutex, c.cond} \cap Args(u) = {}
  /\ call' = [call EXCEPT ![t] = c]
  /\ need' = [need EXCEPT ![t] = {c.mutex, c.cond} \ {NULL}]
  /\ pc' = [pc EXCEPT ![t] =
              IF c.op \in {"destroy", "cdestroy"} THEN "use" ELSE "magic"]
  /\ UNCHANGED <<guestVars, heapVars, initOwner, cur, new, stores, got, held>>

\* The handler stores its result and returns to the guest.
Return(t) ==
  /\ pc' = [pc EXCEPT ![t] = "idle"]
  /\ call' = [call EXCEPT ![t] = NoCall]
  /\ need' = [need EXCEPT ![t] = {}]
  /\ cur' = [cur EXCEPT ![t] = NULL]
  /\ got' = [got EXCEPT ![t] = [o \in Objs |-> NULL]]
  /\ UNCHANGED <<new, stores>>

----------------------------------------------------------------------------
(* obj_get, for each argument of the call, in whichever order the compiler *)
(* evaluates them.                                                         *)

\* One argument is resolved; go on with the next or with the call itself.
Fetched(t, o, h) ==
  /\ got' = [got EXCEPT ![t][o] = h]
  /\ need' = [need EXCEPT ![t] = @ \ {o}]
  /\ pc' = [pc EXCEPT ![t] = IF need[t] = {o} THEN "use" ELSE "magic"]
  /\ cur' = [cur EXCEPT ![t] = NULL]

TestMagic(t, o) ==
  /\ pc[t] = "magic"
  /\ o \in need[t]
  /\ cur' = [cur EXCEPT ![t] = o]
  /\ pc' = [pc EXCEPT ![t] = IF magic[o] THEN "host" ELSE "enter"]
  /\ UNCHANGED <<guestVars, heapVars, initOwner, call, need, new, stores,
                 got, held>>

FastPath(t) ==
  /\ pc[t] = "host"
  /\ host[cur[t]] # NULL
  /\ Fetched(t, cur[t], host[cur[t]])
  /\ UNCHANGED <<guestVars, heapVars, initOwner, call, new, stores, held>>

SlowPath(t) ==
  /\ pc[t] = "host"
  /\ host[cur[t]] = NULL
  /\ pc' = [pc EXCEPT ![t] = "enter"]
  /\ UNCHANGED <<guestVars, heapVars, initOwner, call, fetchVars, held>>

EnterInitLock(t) ==
  /\ pc[t] = "enter"
  /\ initOwner = NULL
  /\ initOwner' = t
  /\ pc' = [pc EXCEPT ![t] = "check"]
  /\ UNCHANGED <<guestVars, heapVars, call, fetchVars, held>>

\* Under the lock, look again: another thread may have made the object.
Made(o) == magic[o] /\ host[o] # NULL

FoundMade(t) ==
  /\ pc[t] = "check"
  /\ Made(cur[t])
  /\ pc' = [pc EXCEPT ![t] = "leave"]
  /\ UNCHANGED <<guestVars, heapVars, initOwner, call, fetchVars, held>>

\* calloc returns h and the constructor sets it up.
Construct(t, h) ==
  /\ h \notin live
  /\ live' = live \cup {h}
  /\ owner' = [owner EXCEPT ![h] = NULL]
  /\ depth' = [depth EXCEPT ![h] = 0]
  /\ queue' = [queue EXCEPT ![h] = {}]
  /\ new' = [new EXCEPT ![t] = h]
  /\ stores' = [stores EXCEPT ![t] = {"host", "magic"}]
  /\ pc' = [pc EXCEPT ![t] = "publish"]
  /\ UNCHANGED <<guestVars, initOwner, call, need, cur, got, held>>

\* Mutant: constructing without looking again under the lock.
MakeUnchecked(t, h) == pc[t] = "check" /\ Construct(t, h)

Make(t, h) ==
  /\ pc[t] = "check"
  /\ ~Made(cur[t])
  /\ Construct(t, h)

\* The two stores that publish the new object.
Stored(t, w) ==
  /\ stores' = [stores EXCEPT ![t] = @ \ {w}]
  /\ pc' = [pc EXCEPT ![t] = IF stores[t] = {w} THEN "leave" ELSE "publish"]

StoreHost(t) ==
  /\ pc[t] = "publish"
  /\ "host" \in stores[t]
  /\ host' = [host EXCEPT ![cur[t]] = new[t]]
  /\ new' = [new EXCEPT ![t] = NULL]
  /\ Stored(t, "host")
  /\ UNCHANGED <<magic, heapVars, initOwner, call, need, cur, got, held>>

StoreMagic(t) ==
  /\ pc[t] = "publish"
  /\ "magic" \in stores[t]
  /\ magic' = [magic EXCEPT ![cur[t]] = TRUE]
  /\ Stored(t, "magic")
  /\ UNCHANGED <<host, heapVars, initOwner, call, need, cur, new, got, held>>

LeaveInitLock(t) ==
  /\ pc[t] = "leave"
  /\ initOwner' = NULL
  /\ pc' = [pc EXCEPT ![t] = "reload"]
  /\ UNCHANGED <<guestVars, heapVars, call, fetchVars, held>>

\* return g->host, read again after the lock is gone.
Reload(t) ==
  /\ pc[t] = "reload"
  /\ Fetched(t, cur[t], host[cur[t]])
  /\ UNCHANGED <<guestVars, heapVars, initOwner, call, new, stores, held>>

----------------------------------------------------------------------------
(* The handlers, once their arguments are resolved.                        *)

Using(t, op) == pc[t] = "use" /\ call[t].op = op

\* Mutant: relocking does not count.
FlatAcquire(t, m, h) ==
  /\ owner[h] \in {NULL, t}
  /\ owner' = [owner EXCEPT ![h] = t]
  /\ depth' = [depth EXCEPT ![h] = 1]
  /\ held' = [held EXCEPT ![m][t] = @ + 1]

\* EnterCriticalSection succeeds: recursive, so the owner comes straight in.
Acquire(t, m, h) ==
  /\ owner[h] \in {NULL, t}
  /\ owner' = [owner EXCEPT ![h] = t]
  /\ depth' = [depth EXCEPT ![h] = @ + 1]
  /\ held' = [held EXCEPT ![m][t] = @ + 1]

\* LeaveCriticalSection.
Release(t, m, h) ==
  /\ owner' = [owner EXCEPT ![h] = IF depth[h] = 1 THEN NULL ELSE @]
  /\ depth' = [depth EXCEPT ![h] = @ - 1]
  /\ held' = [held EXCEPT ![m][t] = @ - 1]

\* pthread_mutex_init and pthread_cond_init: fetching was all there is to do;
\* an object that already exists is not reset.
ObjInit(t) ==
  /\ Using(t, "init") \/ Using(t, "cinit")
  /\ Return(t)
  /\ UNCHANGED <<guestVars, heapVars, initOwner, held>>

\* pthread_mutex_lock, and pthread_mutex_trylock when it succeeds.
MutexLock(t) ==
  /\ Using(t, "lock") \/ Using(t, "trylock")
  /\ Acquire(t, call[t].mutex, got[t][call[t].mutex])
  /\ Return(t)
  /\ UNCHANGED <<guestVars, live, queue, initOwner>>

\* pthread_mutex_trylock returns EBUSY.
TrylockBusy(t) ==
  /\ Using(t, "trylock")
  /\ owner[got[t][call[t].mutex]] \notin {NULL, t}
  /\ Return(t)
  /\ UNCHANGED <<guestVars, heapVars, initOwner, held>>

MutexUnlock(t) ==
  /\ Using(t, "unlock")
  /\ Release(t, call[t].mutex, got[t][call[t].mutex])
  /\ Return(t)
  /\ UNCHANGED <<guestVars, live, queue, initOwner>>

\* The handler of t returns and the threads of W leave their queue.
ReturnWaking(t, W) ==
  /\ pc' = [u \in Threads |-> IF u = t THEN "idle"
                              ELSE IF u \in W THEN "relock" ELSE pc[u]]
  /\ call' = [call EXCEPT ![t] = NoCall]
  /\ got' = [got EXCEPT ![t] = [o \in Objs |-> NULL]]
  /\ UNCHANGED <<need, cur, new, stores>>

\* WakeConditionVariable: some sleeper, if there is one.
SignalNobody(t) ==
  /\ Using(t, "signal")
  /\ queue[got[t][call[t].cond]] = {}
  /\ Return(t)
  /\ UNCHANGED <<guestVars, heapVars, initOwner, held>>

SignalOne(t, u) ==
  /\ Using(t, "signal")
  /\ u \in queue[got[t][call[t].cond]]
  /\ queue' = [queue EXCEPT ![got[t][call[t].cond]] = @ \ {u}]
  /\ ReturnWaking(t, {u})
  /\ UNCHANGED <<guestVars, live, owner, depth, initOwner, held>>

CondBroadcast(t) ==
  /\ Using(t, "broadcast")
  /\ queue' = [queue EXCEPT ![got[t][call[t].cond]] = {}]
  /\ ReturnWaking(t, queue[got[t][call[t].cond]])
  /\ UNCHANGED <<guestVars, live, owner, depth, initOwner, held>>

\* SleepConditionVariableCS: one level of the critical section is released
\* and the thread is queued in the same step.
CondWait(t) ==
  /\ Using(t, "wait")
  /\ Release(t, call[t].mutex, got[t][call[t].mutex])
  /\ queue' = [queue EXCEPT ![got[t][call[t].cond]] = @ \cup {t}]
  /\ pc' = [pc EXCEPT ![t] = "asleep"]
  /\ UNCHANGED <<guestVars, live, initOwner, call, fetchVars>>

\* A sleeper leaves the queue unasked: its deadline passed
\* (pthread_cond_timedwait), or the host woke it for no reason.
WakeAlone(t) ==
  /\ pc[t] = "asleep"
  /\ queue' = [queue EXCEPT ![got[t][call[t].cond]] = @ \ {t}]
  /\ pc' = [pc EXCEPT ![t] = "relock"]
  /\ UNCHANGED <<guestVars, live, owner, depth, initOwner, call, fetchVars,
                 held>>

\* Mutant: a wait whose deadline passed returns without the mutex, as if held.
ReturnWithoutMutex(t) ==
  /\ pc[t] = "relock"
  /\ held' = [held EXCEPT ![call[t].mutex][t] = @ + 1]
  /\ Return(t)
  /\ UNCHANGED <<guestVars, heapVars, initOwner>>

\* The mutex is taken back before the wait returns, timed out or not.
WaitReturn(t) ==
  /\ pc[t] = "relock"
  /\ Acquire(t, call[t].mutex, got[t][call[t].mutex])
  /\ Return(t)
  /\ UNCHANGED <<guestVars, live, queue, initOwner>>

\* Mutant: the destroy clears the blob and forgets the host object.
DestroyKeepsHost(t) ==
  /\ Using(t, "destroy") \/ Using(t, "cdestroy")
  /\ host' = [host EXCEPT ![Target(t)] = NULL]
  /\ magic' = [magic EXCEPT ![Target(t)] = FALSE]
  /\ Return(t)
  /\ UNCHANGED <<heapVars, initOwner, held>>

\* pthread_mutex_destroy and pthread_cond_destroy free the host object first
\* and clear the blob afterwards: in between another thread's calloc may
\* return the same address for a different blob.
DestroyNothing(t) ==
  /\ Using(t, "destroy") \/ Using(t, "cdestroy")
  /\ ~Made(Target(t))
  /\ Return(t)
  /\ UNCHANGED <<guestVars, heapVars, initOwner, held>>

DestroyFree(t) ==
  /\ Using(t, "destroy") \/ Using(t, "cdestroy")
  /\ Made(Target(t))
  /\ live' = live \ {host[Target(t)]}
  /\ pc' = [pc EXCEPT ![t] = "clear"]
  /\ UNCHANGED <<guestVars, owner, depth, queue, initOwner, call, fetchVars,
                 held>>

DestroyClear(t) ==
  /\ pc[t] = "clear"
  /\ host' = [host EXCEPT ![Target(t)] = NULL]
  /\ magic' = [magic EXCEPT ![Target(t)] = FALSE]
  /\ Return(t)
  /\ UNCHANGED <<heapVars, initOwner, held>>

----------------------------------------------------------------------------
Step(t) ==
  \/ \E o \in Objs : TestMagic(t, o)
  \/ FastPath(t) \/ SlowPath(t) \/ EnterInitLock(t) \/ FoundMade(t)
  \/ \E h \in Hosts : Make(t, h)
  \/ StoreHost(t) \/ StoreMagic(t) \/ LeaveInitLock(t) \/ Reload(t)
  \/ ObjInit(t) \/ MutexLock(t) \/ TrylockBusy(t) \/ MutexUnlock(t)
  \/ SignalNobody(t) \/ CondBroadcast(t) \/ CondWait(t) \/ WakeAlone(t)
  \/ \E u \in Threads : SignalOne(t, u)
  \/ WaitReturn(t) \/ DestroyNothing(t) \/ DestroyFree(t) \/ DestroyClear(t)

Next == \E t \in Threads : Step(t) \/ \E c \in Calls : Call(t, c)

Spec == Init /\ [][Next]_vars

----------------------------------------------------------------------------
TypeOK ==
  /\ magic \in [Objs -> BOOLEAN]
  /\ host \in [Objs -> Hosts \cup {NULL}]
  /\ live \in SUBSET Hosts
  /\ owner \in [Hosts -> Threads \cup {NULL}]
  /\ depth \in [Hosts -> Nat]
  /\ queue \in [Hosts -> SUBSET Threads]
  /\ initOwner \in Threads \cup {NULL}
  /\ pc \in [Threads -> PCs]
  /\ call \in [Threads -> Calls \cup {NoCall}]
  /\ need \in [Threads -> SUBSET Objs]
  /\ cur \in [Threads -> Objs \cup {NULL}]
  /\ new \in [Threads -> Hosts \cup {NULL}]
  /\ stores \in [Threads -> SUBSET {"host", "magic"}]
  /\ got \in [Threads -> [Objs -> Hosts \cup {NULL}]]
  /\ held \in [Mutexes -> [Threads -> Nat]]

\* obj_get hands every thread the same host object for one guest object, and
\* never one that is free, however many threads touch the object first at
\* the same time.
OneHostObject ==
  \A t \in Threads, o \in Objs :
    got[t][o] # NULL => got[t][o] = host[o] /\ host[o] \in live

\* Two guest threads are never both inside one pthread mutex.
MutualExclusion ==
  \A m \in Mutexes, t, u \in Threads :
    held[m][t] > 0 /\ held[m][u] > 0 => t = u

\* No host object is lost: each live one is the object of a blob, or of the
\* one thread that is about to store it there.
NoOrphan ==
  \A h \in live : (\E o \in Objs : host[o] = h) \/ (\E t \in Threads : new[t] = h)

\* A pthread_cond_signal that returns while somebody sleeps on the condition
\* has woken a sleeper, and a broadcast has woken them all.
Asleep(c) == {u \in Threads : pc[u] = "asleep" /\ call[u].cond = c}
Finishes(t, op) == Using(t, op) /\ pc'[t] = "idle"
WakeupsArrive ==
  [][\A t \in Threads, c \in Conds :
       call[t].cond = c /\ Asleep(c) # {} =>
         /\ Finishes(t, "signal") => Asleep(c)' # Asleep(c)
         /\ Finishes(t, "broadcast") => Asleep(c)' = {}]_vars

\* The handlers implement the pthread mutexes and conditions of PosixSync.
Posix == INSTANCE PosixSync WITH
           asleep <- [t \in Threads |-> IF pc[t] = "asleep" THEN call[t].cond
                                        ELSE NULL]
ImplementsPosixSync == Posix!Spec
=============================================================================
