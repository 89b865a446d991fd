---------------------------- MODULE GuestThreads ----------------------------
(***************************************************************************)
(* Guest threads: pthread_create, the trampoline, pthread_join and         *)
(* pthread_detach of hle_pthread.c.                                        *)
(*                                                                         *)
(* A thread is a record and a stack on the host heap and a host thread     *)
(* whose handle the record keeps.  The record's address is the pthread_t.  *)
(* The creator goes on writing the record after the new thread has started *)
(* reading it; whoever joins frees it.                                     *)
(*                                                                         *)
(* The guest keeps to POSIX: it uses a pthread_t only after the create     *)
(* that stored it has returned, and joins or detaches it once.             *)
(***************************************************************************)
CONSTANTS
  Ids,      \* host threads, and
  Main,     \* the one the guest's main runs on
  Recs,     \* addresses calloc can return for a GuestThread
  Values,   \* what a start routine may return, and
  Zero,     \* the one a record is cleared to
  NULL

ASSUME ThreadAssumption ==
  /\ Main \in Ids
  /\ Zero \in Values
  /\ NULL \notin Ids \cup Recs \cup Values

VARIABLES
  pc, arg, own, eax,      \* each host thread: where it is, the record its
                          \* handler works on, the record its trampoline was
                          \* given, what the last host or guest call returned
  recs, stacks,           \* heap blocks in use: records, and stacks by record
  handle, retval,         \* two fields of each record
  joinable, detached,     \* words the guest may still join, or gave away
  answer                  \* what the latest join stored

heapVars  == <<recs, stacks>>
guestVars == <<joinable, detached, answer>>
vars == <<pc, arg, own, eax, heapVars, handle, retval, guestVars>>

Creating == {"record", "stack", "handle", "report"}
PCs == {"none", "start", "guest", "returned", "exit", "ended", "join"}
         \cup Creating

Init ==
  /\ pc = [i \in Ids |-> IF i = Main THEN "guest" ELSE "none"]
  /\ arg = [i \in Ids |-> NULL]
  /\ own = [i \in Ids |-> NULL]
  /\ eax = [i \in Ids |-> NULL]
  /\ recs = {}
  /\ stacks = {}
  /\ handle = [r \in Recs |-> NULL]
  /\ retval = [r \in Recs |-> Zero]
  /\ joinable = {}
  /\ detached = {}
  /\ answer = NULL

\* The handler of i returns to the guest.
Return(i) ==
  /\ pc' = [pc EXCEPT ![i] = "guest"]
  /\ arg' = [arg EXCEPT ![i] = NULL]

----------------------------------------------------------------------------
(* pthread_create.                                                         *)

CreateRecord(i, r) ==
  /\ pc[i] = "guest"
  /\ r \notin recs
  /\ recs' = recs \cup {r}
  /\ handle' = [handle EXCEPT ![r] = NULL]
  /\ retval' = [retval EXCEPT ![r] = Zero]
  /\ arg' = [arg EXCEPT ![i] = r]
  /\ pc' = [pc EXCEPT ![i] = "record"]
  /\ UNCHANGED <<own, eax, stacks, guestVars>>

\* No memory for the record: EAGAIN, with nothing done.
RecordRefused(i) == pc[i] = "guest" /\ UNCHANGED vars

CreateStack(i) ==
  /\ pc[i] = "record"
  /\ stacks' = stacks \cup {arg[i]}
  /\ pc' = [pc EXCEPT ![i] = "stack"]
  /\ UNCHANGED <<arg, own, eax, recs, handle, retval, guestVars>>

StackRefused(i) ==
  /\ pc[i] = "record"
  /\ recs' = recs \ {arg[i]}
  /\ Return(i)
  /\ UNCHANGED <<own, eax, stacks, handle, retval, guestVars>>

\* CreateThread: the new thread j may run before it returns.
StartThread(i, j) ==
  /\ pc[i] = "stack"
  /\ pc[j] = "none"
  /\ pc' = [pc EXCEPT ![i] = "handle", ![j] = "start"]
  /\ own' = [own EXCEPT ![j] = arg[i]]
  /\ eax' = [eax EXCEPT ![i] = j]
  /\ UNCHANGED <<arg, heapVars, handle, retval, guestVars>>

\* Mutant: a failed create frees the record and forgets the stack.
ThreadRefusedLeaking(i) ==
  /\ pc[i] = "stack"
  /\ recs' = recs \ {arg[i]}
  /\ Return(i)
  /\ UNCHANGED <<own, eax, stacks, handle, retval, guestVars>>

ThreadRefused(i) ==
  /\ pc[i] = "stack"
  /\ stacks' = stacks \ {arg[i]}
  /\ recs' = recs \ {arg[i]}
  /\ Return(i)
  /\ UNCHANGED <<own, eax, handle, retval, guestVars>>

StoreHandle(i) ==
  /\ pc[i] = "handle"
  /\ handle' = [handle EXCEPT ![arg[i]] = eax[i]]
  /\ eax' = [eax EXCEPT ![i] = NULL]
  /\ pc' = [pc EXCEPT ![i] = "report"]
  /\ UNCHANGED <<arg, own, heapVars, retval, guestVars>>

\* The word is stored for the guest, the record is read once more for the
\* message, and the guest has its thread.
CreateReturns(i) ==
  /\ pc[i] = "report"
  /\ joinable' = joinable \cup {arg[i]}
  /\ Return(i)
  /\ UNCHANGED <<own, eax, heapVars, handle, retval, detached, answer>>

Create(i) ==
  \/ \E r \in Recs : CreateRecord(i, r)
  \/ RecordRefused(i) \/ CreateStack(i) \/ StackRefused(i)
  \/ \E j \in Ids : StartThread(i, j)
  \/ ThreadRefused(i) \/ StoreHandle(i) \/ CreateReturns(i)

----------------------------------------------------------------------------
(* thread_trampoline, on the new thread.                                   *)

Trampoline(j) ==
  /\ pc[j] = "start"
  /\ pc' = [pc EXCEPT ![j] = "guest"]
  /\ UNCHANGED <<arg, own, eax, heapVars, handle, retval, guestVars>>

\* guest_call returns what the start routine returned.
RoutineReturns(j, v) ==
  /\ j # Main
  /\ pc[j] = "guest"
  /\ eax' = [eax EXCEPT ![j] = v]
  /\ pc' = [pc EXCEPT ![j] = "returned"]
  /\ UNCHANGED <<arg, own, heapVars, handle, retval, guestVars>>

\* Mutant: the routine's value is not kept.
RetvalLost(j) ==
  /\ pc[j] = "returned"
  /\ pc' = [pc EXCEPT ![j] = "exit"]
  /\ UNCHANGED <<arg, own, eax, heapVars, handle, retval, guestVars>>

StoreRetval(j) ==
  /\ pc[j] = "returned"
  /\ retval' = [retval EXCEPT ![own[j]] = eax[j]]
  /\ pc' = [pc EXCEPT ![j] = "exit"]
  /\ UNCHANGED <<arg, own, eax, heapVars, handle, guestVars>>

\* The host thread ends; its object stays as long as its handle is open.
Exit(j) ==
  /\ pc[j] = "exit"
  /\ pc' = [pc EXCEPT ![j] = "ended"]
  /\ UNCHANGED <<arg, own, eax, heapVars, handle, retval, guestVars>>

Run(j) ==
  \/ Trampoline(j) \/ StoreRetval(j) \/ Exit(j)
  \/ \E v \in Values : RoutineReturns(j, v)

----------------------------------------------------------------------------
(* pthread_join and pthread_detach.                                        *)

\* A record the guest may join has its handle: the test of the record and
\* of its handle never fails (NoUseAfterFree says so).
JoinCall(i, r) ==
  /\ pc[i] = "guest"
  /\ r \in joinable \ {own[i]}
  /\ joinable' = joinable \ {r}
  /\ arg' = [arg EXCEPT ![i] = r]
  /\ pc' = [pc EXCEPT ![i] = "join"]
  /\ UNCHANGED <<own, eax, heapVars, handle, retval, detached, answer>>

\* After the wait: close the handle, which releases the thread object, hand
\* over the value, free the stack and the record.
Collect(i) ==
  LET r == arg[i]  j == handle[r] IN
  /\ pc' = [pc EXCEPT ![i] = "guest", ![j] = "none"]
  /\ own' = [own EXCEPT ![j] = NULL]
  /\ eax' = [eax EXCEPT ![j] = NULL]
  /\ arg' = [arg EXCEPT ![i] = NULL]
  /\ answer' = [word |-> r, value |-> retval[r]]
  /\ stacks' = stacks \ {r}
  /\ recs' = recs \ {r}
  /\ UNCHANGED <<handle, retval, joinable, detached>>

\* Mutant: the record and the stack are freed as soon as the routine has
\* returned; the thread is still storing its value.
JoinTooEarly(i) ==
  /\ pc[i] = "join"
  /\ pc[handle[arg[i]]] \in {"returned", "exit", "ended"}
  /\ answer' = [word |-> arg[i], value |-> retval[arg[i]]]
  /\ stacks' = stacks \ {arg[i]}
  /\ recs' = recs \ {arg[i]}
  /\ Return(i)
  /\ UNCHANGED <<own, eax, handle, retval, joinable, detached>>

JoinReturns(i) ==
  /\ pc[i] = "join"
  /\ pc[handle[arg[i]]] = "ended"
  /\ Collect(i)

\* pthread_detach does nothing: the thread's record, stack and handle stay.
Detach(i, r) ==
  /\ pc[i] = "guest"
  /\ r \in joinable
  /\ joinable' = joinable \ {r}
  /\ detached' = detached \cup {r}
  /\ UNCHANGED <<pc, arg, own, eax, heapVars, handle, retval, answer>>

Step(i) ==
  \/ Create(i) \/ Run(i) \/ JoinReturns(i)
  \/ \E r \in Recs : JoinCall(i, r) \/ Detach(i, r)

Next == \E i \in Ids : Step(i)

Spec == Init /\ [][Next]_vars

----------------------------------------------------------------------------
TypeOK ==
  /\ pc \in [Ids -> PCs]
  /\ arg \in [Ids -> Recs \cup {NULL}]
  /\ own \in [Ids -> Recs \cup {NULL}]
  /\ eax \in [Ids -> Values \cup Ids \cup {NULL}]
  /\ recs \in SUBSET Recs
  /\ stacks \in SUBSET Recs
  /\ handle \in [Recs -> Ids \cup {NULL}]
  /\ retval \in [Recs -> Values]
  /\ joinable \in SUBSET Recs
  /\ detached \in SUBSET Recs
  /\ answer \in {NULL} \cup [word : Recs, value : Values]

Alive(j) == pc[j] \notin {"none", "ended"}

\* No thread touches a record after it was freed, no thread runs on a stack
\* that was freed, and a joiner finds the handle of the thread it waits for.
NoUseAfterFree ==
  /\ \A i \in Ids : arg[i] # NULL => arg[i] \in recs
  /\ \A j \in Ids \ {Main} : Alive(j) => own[j] \in recs \cap stacks
  /\ \A i \in Ids : pc[i] = "join" => own[handle[arg[i]]] = arg[i]

\* Nothing is lost but by a detach: each record in use can still be joined,
\* or is being created or joined, and each stack belongs to a record.
OnlyDetachedLeak ==
  /\ recs \subseteq joinable \cup detached \cup {arg[i] : i \in Ids}
  /\ stacks \subseteq recs

\* A join is answered once the thread is over, with what its routine
\* returned, whatever the creator has yet to do.
RunBy(r) == {j \in Ids : own[j] = r}
Over(r) == \E j \in RunBy(r) : pc[j] = "ended"
StateOf(r) ==
  IF RunBy(r) = {} THEN "none" ELSE IF Over(r) THEN "over" ELSE "running"
ValueOf(r) == IF Over(r) THEN eax[CHOOSE j \in RunBy(r) : TRUE] ELSE NULL
Contract == INSTANCE ThreadContract WITH
  Words <- Recs, state <- [r \in Recs |-> StateOf(r)], value <- [r \in Recs |-> ValueOf(r)]
ImplementsThreadContract == Contract!Spec
=============================================================================
