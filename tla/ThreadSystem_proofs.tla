------------------------ MODULE ThreadSystem_proofs ------------------------
(***************************************************************************)
(* Theorems about guest threads and the semaphores they meet at, for any   *)
(* number of threads, records, semaphores and handles.  First GuestThreads *)
(* by itself; then the whole, whose steps are a thread's or a semaphore's. *)
(***************************************************************************)
EXTENDS ThreadSystem, TLAPS

----------------------------------------------------------------------------
(* Threads and their records (GuestThreads).                               *)


\* What a thread works on, by where it is.
Places ==
  /\ pc[Main] # "none" /\ own[Main] = NULL
  /\ \A i \in Ids : arg[i] = NULL <=> pc[i] \notin Creating \cup {"join"}
  /\ \A j \in Ids : pc[j] = "none" => own[j] = NULL
  /\ \A j \in Ids \ {Main} : pc[j] # "none" => own[j] \in recs \cap stacks
  /\ \A j \in Ids : pc[j] \in {"returned", "exit", "ended"} => eax[j] \in Values

\* A record has one use: a handler's, or the guest's, or its giver-away's.
OneUse ==
  /\ \A i \in Ids : arg[i] # NULL =>
       arg[i] \in recs /\ arg[i] \notin joinable \cup detached
  /\ \A i, k \in Ids : arg[i] # NULL /\ arg[i] = arg[k] => i = k
  /\ joinable \cup detached \subseteq recs
  /\ joinable \cap detached = {}

\* A record has one thread, and none before the thread is started.
OneThread ==
  /\ \A j, k \in Ids : own[j] # NULL /\ own[j] = own[k] => j = k
  /\ \A i, j \in Ids : pc[i] \in {"record", "stack"} => own[j] # arg[i]

\* How far a record is set up, by who uses it.
SetUp ==
  /\ \A i \in Ids : pc[i] = "record" => arg[i] \notin stacks
  /\ \A i \in Ids : pc[i] = "stack" => arg[i] \in stacks
  /\ \A i \in Ids : pc[i] = "handle" => eax[i] \in Ids /\ own[eax[i]] = arg[i]
  /\ \A i \in Ids : pc[i] \in {"report", "join"} =>
       handle[arg[i]] \in Ids /\ own[handle[arg[i]]] = arg[i]
  /\ \A r \in joinable \cup detached : handle[r] \in Ids /\ own[handle[r]] = r

IInv == TypeOK /\ Places /\ OneUse /\ OneThread /\ SetUp /\ OnlyDetachedLeak

LEMMA InitIInv == Init => IInv
BY ThreadAssumption DEF Init, IInv, TypeOK, Places, OneUse, OneThread, SetUp,
  OnlyDetachedLeak, Creating, PCs

----------------------------------------------------------------------------

LEMMA CreateRecordKeeps ==
  ASSUME IInv, NEW i \in Ids, NEW r \in Recs, CreateRecord(i, r)
  PROVE  IInv'
<1> USE ThreadAssumption DEF IInv, CreateRecord, heapVars, guestVars
<1>1. TypeOK'
  BY DEF TypeOK, PCs, Creating
<1>2. Places'
  BY DEF TypeOK, Places, Creating
<1>3. OneUse'
  BY DEF OneUse
<1>4. OneThread'
  BY DEF TypeOK, Places, OneThread
<1>5. SetUp'
  BY DEF TypeOK, OneUse, SetUp, OnlyDetachedLeak
<1>6. OnlyDetachedLeak'
  BY DEF TypeOK, Places, OnlyDetachedLeak, Creating
<1> QED  BY <1>1, <1>2, <1>3, <1>4, <1>5, <1>6

LEMMA CreateStackKeeps ==
  ASSUME IInv, NEW i \in Ids, CreateStack(i)
  PROVE  IInv'
<1> USE ThreadAssumption DEF IInv, CreateStack, heapVars, guestVars
<1>1. TypeOK'
  BY DEF TypeOK, Places, PCs, Creating
<1>2. Places'
  BY DEF Places, Creating
<1>3. OneUse'
  BY DEF OneUse
<1>4. OneThread'
  BY DEF OneThread
<1>5. SetUp'
  BY DEF TypeOK, Places, OneUse, SetUp, Creating
<1>6. OnlyDetachedLeak'
  BY DEF Places, OneUse, OnlyDetachedLeak, Creating
<1> QED  BY <1>1, <1>2, <1>3, <1>4, <1>5, <1>6

LEMMA StackRefusedKeeps ==
  ASSUME IInv, NEW i \in Ids, StackRefused(i)
  PROVE  IInv'
<1> USE ThreadAssumption DEF IInv, StackRefused, Return, heapVars, guestVars
<1>1. TypeOK'
  BY DEF TypeOK, PCs
<1>2. Places'
  BY DEF TypeOK, Places, SetUp, Creating
<1>3. OneUse'
  BY DEF TypeOK, OneUse
<1>4. OneThread'
  BY DEF TypeOK, OneThread
<1>5. SetUp'
  BY DEF TypeOK, SetUp
<1>6. OnlyDetachedLeak'
  BY DEF SetUp, OnlyDetachedLeak
<1> QED  BY <1>1, <1>2, <1>3, <1>4, <1>5, <1>6

LEMMA StartThreadKeeps ==
  ASSUME IInv, NEW i \in Ids, NEW j \in Ids, StartThread(i, j)
  PROVE  IInv'
<1> USE ThreadAssumption DEF IInv, StartThread, heapVars, guestVars
<1>1. TypeOK'
  BY DEF TypeOK, PCs, Creating
<1>2. Places'
  BY DEF TypeOK, Places, OneUse, SetUp, Creating
<1>3. OneUse'
  BY DEF OneUse
<1>4. OneThread'
  BY DEF TypeOK, OneUse, OneThread, SetUp
<1>5. SetUp'
  BY DEF TypeOK, Places, SetUp, Creating
<1>6. OnlyDetachedLeak'
  BY DEF OnlyDetachedLeak
<1> QED  BY <1>1, <1>2, <1>3, <1>4, <1>5, <1>6

LEMMA ThreadRefusedKeeps ==
  ASSUME IInv, NEW i \in Ids, ThreadRefused(i)
  PROVE  IInv'
<1> USE ThreadAssumption DEF IInv, ThreadRefused, Return, heapVars, guestVars
<1>1. TypeOK'
  BY DEF TypeOK, PCs
<1>2. Places'
  BY DEF TypeOK, Places, OneThread, Creating
<1>3. OneUse'
  BY DEF TypeOK, OneUse
<1>4. OneThread'
  BY DEF TypeOK, OneThread
<1>5. SetUp'
  BY DEF TypeOK, OneUse, SetUp
<1>6. OnlyDetachedLeak'
  BY DEF OnlyDetachedLeak
<1> QED  BY <1>1, <1>2, <1>3, <1>4, <1>5, <1>6

LEMMA StoreHandleKeeps ==
  ASSUME IInv, NEW i \in Ids, StoreHandle(i)
  PROVE  IInv'
<1> USE ThreadAssumption DEF IInv, StoreHandle, heapVars, guestVars
<1>1. TypeOK'
  BY DEF TypeOK, SetUp, PCs, Creating
<1>2. Places'
  BY DEF Places, Creating
<1>3. OneUse'
  BY DEF OneUse
<1>4. OneThread'
  BY DEF OneThread
<1>5. SetUp'
  BY DEF TypeOK, Places, SetUp, Creating
<1>6. OnlyDetachedLeak'
  BY DEF OnlyDetachedLeak
<1> QED  BY <1>1, <1>2, <1>3, <1>4, <1>5, <1>6

LEMMA CreateReturnsKeeps ==
  ASSUME IInv, NEW i \in Ids, CreateReturns(i)
  PROVE  IInv'
<1> USE ThreadAssumption DEF IInv, CreateReturns, Return, heapVars, guestVars
<1>1. TypeOK'
  BY DEF TypeOK, Places, PCs
<1>2. Places'
  BY DEF TypeOK, Places, Creating
<1>3. OneUse'
  BY DEF TypeOK, Places, OneUse, Creating
<1>4. OneThread'
  BY DEF OneThread
<1>5. SetUp'
  BY DEF TypeOK, SetUp
<1>6. OnlyDetachedLeak'
  BY DEF OnlyDetachedLeak
<1> QED  BY <1>1, <1>2, <1>3, <1>4, <1>5, <1>6

LEMMA TrampolineKeeps ==
  ASSUME IInv, NEW i \in Ids, Trampoline(i)
  PROVE  IInv'
<1> USE ThreadAssumption DEF IInv, Trampoline, heapVars, guestVars
<1>1. TypeOK'
  BY DEF TypeOK, PCs
<1>2. Places'
  BY DEF Places, Creating
<1>3. OneUse'
  BY DEF OneUse
<1>4. OneThread'
  BY DEF OneThread
<1>5. SetUp'
  BY DEF SetUp
<1>6. OnlyDetachedLeak'
  BY DEF OnlyDetachedLeak
<1> QED  BY <1>1, <1>2, <1>3, <1>4, <1>5, <1>6

LEMMA RoutineReturnsKeeps ==
  ASSUME IInv, NEW i \in Ids, NEW v \in Values, RoutineReturns(i, v)
  PROVE  IInv'
<1> USE ThreadAssumption DEF IInv, RoutineReturns, heapVars, guestVars
<1>1. TypeOK'
  BY DEF TypeOK, PCs
<1>2. Places'
  BY DEF TypeOK, Places, Creating
<1>3. OneUse'
  BY DEF OneUse
<1>4. OneThread'
  BY DEF OneThread
<1>5. SetUp'
  BY DEF SetUp
<1>6. OnlyDetachedLeak'
  BY DEF OnlyDetachedLeak
<1> QED  BY <1>1, <1>2, <1>3, <1>4, <1>5, <1>6

LEMMA StoreRetvalKeeps ==
  ASSUME IInv, NEW i \in Ids, StoreRetval(i)
  PROVE  IInv'
<1> USE ThreadAssumption DEF IInv, StoreRetval, heapVars, guestVars
<1>1. TypeOK'
  BY DEF TypeOK, Places, PCs
<1>2. Places'
  BY DEF Places, Creating
<1>3. OneUse'
  BY DEF OneUse
<1>4. OneThread'
  BY DEF OneThread
<1>5. SetUp'
  BY DEF SetUp
<1>6. OnlyDetachedLeak'
  BY DEF OnlyDetachedLeak
<1> QED  BY <1>1, <1>2, <1>3, <1>4, <1>5, <1>6

LEMMA ExitKeeps ==
  ASSUME IInv, NEW i \in Ids, Exit(i)
  PROVE  IInv'
<1> USE ThreadAssumption DEF IInv, Exit, heapVars, guestVars
<1>1. TypeOK'
  BY DEF TypeOK, PCs
<1>2. Places'
  BY DEF Places, Creating
<1>3. OneUse'
  BY DEF OneUse
<1>4. OneThread'
  BY DEF OneThread
<1>5. SetUp'
  BY DEF SetUp
<1>6. OnlyDetachedLeak'
  BY DEF OnlyDetachedLeak
<1> QED  BY <1>1, <1>2, <1>3, <1>4, <1>5, <1>6

LEMMA JoinCallKeeps ==
  ASSUME IInv, NEW i \in Ids, NEW r \in Recs, JoinCall(i, r)
  PROVE  IInv'
<1> USE ThreadAssumption DEF IInv, JoinCall, heapVars, guestVars
<1>1. TypeOK'
  BY DEF TypeOK, PCs
<1>2. Places'
  BY DEF TypeOK, Places
<1>3. OneUse'
  BY DEF OneUse
<1>4. OneThread'
  BY DEF OneThread
<1>5. SetUp'
  BY DEF TypeOK, SetUp
<1>6. OnlyDetachedLeak'
  BY DEF TypeOK, Places, OnlyDetachedLeak, Creating
<1> QED  BY <1>1, <1>2, <1>3, <1>4, <1>5, <1>6

LEMMA JoinReturnsKeeps ==
  ASSUME IInv, NEW i \in Ids, JoinReturns(i)
  PROVE  IInv'
<1> USE ThreadAssumption DEF IInv, JoinReturns, Collect, heapVars, guestVars
<1>1. TypeOK'
  BY DEF TypeOK, Places, PCs
<1>2. Places'
  BY DEF TypeOK, Places, OneThread, SetUp, Creating
<1>3. OneUse'
  BY DEF TypeOK, OneUse
<1>4. OneThread'
  BY DEF TypeOK, Places, OneThread
<1>5. SetUp'
  BY DEF TypeOK, OneUse, SetUp
<1>6. OnlyDetachedLeak'
  BY DEF OnlyDetachedLeak
<1> QED  BY <1>1, <1>2, <1>3, <1>4, <1>5, <1>6

LEMMA DetachKeeps ==
  ASSUME IInv, NEW i \in Ids, NEW r \in Recs, Detach(i, r)
  PROVE  IInv'
<1> USE ThreadAssumption DEF IInv, Detach, heapVars, guestVars
<1>1. TypeOK'
  BY DEF TypeOK
<1>2. Places'
  BY DEF Places
<1>3. OneUse'
  BY DEF OneUse
<1>4. OneThread'
  BY DEF OneThread
<1>5. SetUp'
  BY DEF SetUp
<1>6. OnlyDetachedLeak'
  BY DEF OnlyDetachedLeak
<1> QED  BY <1>1, <1>2, <1>3, <1>4, <1>5, <1>6

----------------------------------------------------------------------------

LEMMA NextKeeps == IInv /\ [Next]_vars => IInv'
<1> SUFFICES ASSUME IInv, [Next]_vars PROVE IInv'
  OBVIOUS
<1>1. CASE UNCHANGED vars
  BY <1>1 DEF vars, heapVars, guestVars, IInv, TypeOK, Places, OneUse,
              OneThread, SetUp, OnlyDetachedLeak
<1>2. ASSUME NEW i \in Ids, Step(i) PROVE IInv'
  <2>1. CASE Create(i)
    BY <2>1, <1>1, CreateRecordKeeps, CreateStackKeeps, StackRefusedKeeps,
       StartThreadKeeps, ThreadRefusedKeeps, StoreHandleKeeps,
       CreateReturnsKeeps DEF Create, RecordRefused
  <2>2. CASE Run(i)
    BY <2>2, TrampolineKeeps, RoutineReturnsKeeps, StoreRetvalKeeps,
       ExitKeeps DEF Run
  <2>3. CASE JoinReturns(i) \/ \E r \in Recs : JoinCall(i, r) \/ Detach(i, r)
    BY <2>3, JoinReturnsKeeps, JoinCallKeeps, DetachKeeps
  <2> QED  BY <1>2, <2>1, <2>2, <2>3 DEF Step
<1> QED  BY <1>1, <1>2 DEF Next

\* The invariant above holds in every reachable state.
THEOREM ThreadInvariance == Spec => []IInv
BY InitIInv, NextKeeps, PTL DEF Spec

\* Every variable of GuestThreads keeps its type; what a join stores is a
\* value a start routine can return.
THEOREM ThreadsTyped == Spec => []TypeOK
<1>1. IInv => TypeOK
  BY DEF IInv
<1> QED  BY <1>1, ThreadInvariance, PTL

\* A record is alive while its creator, its thread or its joiner uses it, a
\* stack while its thread runs on it, and a joiner waits for the right thread.
THEOREM RecordsAlive == Spec => []NoUseAfterFree
<1>1. IInv => NoUseAfterFree
  BY DEF IInv, Places, OneUse, SetUp, NoUseAfterFree, Alive, Creating
<1> QED  BY <1>1, ThreadInvariance, PTL

\* A failed create and a join leave nothing behind on the host heap.
THEOREM NothingLost == Spec => []OnlyDetachedLeak
<1>1. IInv => OnlyDetachedLeak
  BY DEF IInv
<1> QED  BY <1>1, ThreadInvariance, PTL

----------------------------------------------------------------------------
(* The step simulation of ThreadContract. *)

\* What a routine returned is in its record until the record is joined.
ValueKept ==
  \A j \in Ids : own[j] \in Recs /\ pc[j] \in {"exit", "ended"} => retval[own[j]] = eax[j]

LEMMA ValueStaysKept ==
  ASSUME IInv, IInv', ValueKept, [Next]_vars
  PROVE  ValueKept'
<1> USE ThreadAssumption DEF IInv, ValueKept, heapVars, guestVars
<1>1. CASE UNCHANGED vars
  BY <1>1 DEF vars
<1>2. ASSUME NEW i \in Ids, NEW r \in Recs, CreateRecord(i, r)
      PROVE  ValueKept'
  <2>1. \A j \in Ids : own[j] \in Recs => own[j] # r
    BY <1>2 DEF CreateRecord, TypeOK, Places
  <2> QED  BY <1>2, <2>1 DEF CreateRecord, TypeOK
<1>3. ASSUME NEW i \in Ids, NEW j \in Ids, StartThread(i, j)
      PROVE  ValueKept'
  BY <1>3 DEF StartThread, TypeOK
<1>4. ASSUME NEW i \in Ids,
             \/ RecordRefused(i) \/ CreateStack(i) \/ StackRefused(i)
             \/ ThreadRefused(i) \/ StoreHandle(i) \/ CreateReturns(i)
      PROVE  ValueKept'
  BY <1>4 DEF RecordRefused, CreateStack, StackRefused, ThreadRefused, StoreHandle,
    CreateReturns, Return, TypeOK, vars
<1>5. ASSUME NEW i \in Ids, NEW v \in Values, RoutineReturns(i, v)
      PROVE  ValueKept'
  BY <1>5 DEF RoutineReturns, TypeOK
<1>6. ASSUME NEW i \in Ids, Trampoline(i) \/ StoreRetval(i) \/ Exit(i)
      PROVE  ValueKept'
  BY <1>6 DEF Trampoline, StoreRetval, Exit, TypeOK, OneThread
<1>7. ASSUME NEW i \in Ids, JoinReturns(i)
      PROVE  ValueKept'
  BY <1>7 DEF JoinReturns, Collect, TypeOK
<1>8. ASSUME NEW i \in Ids, NEW r \in Recs, JoinCall(i, r) \/ Detach(i, r)
      PROVE  ValueKept'
  BY <1>8 DEF JoinCall, Detach, TypeOK
<1> QED  BY <1>1, <1>2, <1>3, <1>4, <1>5, <1>6, <1>7, <1>8 DEF Next, Step, Create, Run

\* What the mapping makes of a record with a thread, which is its only one.
ThreadMapped ==
  \A j \in Ids : own[j] \in Recs =>
    /\ StateOf(own[j]) = IF pc[j] = "ended" THEN "over" ELSE "running"
    /\ ValueOf(own[j]) = IF pc[j] = "ended" THEN eax[j] ELSE NULL

\* What it makes of one without.
NoThreadMapped ==
  \A r \in Recs : (\A j \in Ids : own[j] # r) => StateOf(r) = "none" /\ ValueOf(r) = NULL

LEMMA Mapped == IInv => ThreadMapped /\ NoThreadMapped
<1> SUFFICES ASSUME IInv PROVE ThreadMapped /\ NoThreadMapped
  OBVIOUS
<1>1. ASSUME NEW j \in Ids, own[j] \in Recs
      PROVE  /\ StateOf(own[j]) = IF pc[j] = "ended" THEN "over" ELSE "running"
             /\ ValueOf(own[j]) = IF pc[j] = "ended" THEN eax[j] ELSE NULL
  <2>1. RunBy(own[j]) = {j}
    BY <1>1, ThreadAssumption DEF IInv, OneThread, RunBy
  <2>2. (CHOOSE k \in RunBy(own[j]) : TRUE) = j
    BY <2>1
  <2>3. Over(own[j]) <=> pc[j] = "ended"
    BY <2>1 DEF Over
  <2> QED  BY <2>1, <2>2, <2>3 DEF StateOf, ValueOf
<1>2. ASSUME NEW r \in Recs, \A j \in Ids : own[j] # r
      PROVE  StateOf(r) = "none" /\ ValueOf(r) = NULL
  BY <1>2 DEF StateOf, ValueOf, Over, RunBy
<1> QED  BY <1>1, <1>2 DEF ThreadMapped, NoThreadMapped

LEMMA MappedNext == IInv' => ThreadMapped' /\ NoThreadMapped'
BY Mapped, PTL

\* Nothing the contract knows of happens when no thread gets or loses a record,
\* none ends, and no ended one's value changes.
LEMMA NoEvent ==
  ASSUME IInv, IInv', own' = own, answer' = answer,
         \A j \in Ids : own[j] \in Recs =>
           (pc[j] = "ended" <=> pc'[j] = "ended") /\ (pc[j] = "ended" => eax'[j] = eax[j])
  PROVE  UNCHANGED Contract!vars
<1>1. ASSUME NEW r \in Recs
      PROVE  StateOf(r)' = StateOf(r) /\ ValueOf(r)' = ValueOf(r)
  <2>1. CASE \A j \in Ids : own[j] # r
    BY <2>1, Mapped, MappedNext DEF NoThreadMapped
  <2>2. CASE \E j \in Ids : own[j] = r
    BY <2>2, Mapped, MappedNext DEF ThreadMapped
  <2> QED  BY <2>1, <2>2
<1> QED  BY <1>1 DEF Contract!vars

LEMMA StartIsStart ==
  ASSUME IInv, IInv', NEW i \in Ids, NEW j \in Ids, StartThread(i, j)
  PROVE  Contract!Start(arg[i])
<1> USE ThreadAssumption DEF IInv, StartThread
<1>1. arg[i] \in Recs /\ own[j] = NULL /\ \A k \in Ids : own[k] # arg[i]
  BY DEF TypeOK, Places, OneThread, Creating
<1>2. own' = [own EXCEPT ![j] = arg[i]] /\ pc'[j] = "start"
  BY <1>1 DEF TypeOK
<1>3. StateOf(arg[i]) = "none" /\ ValueOf(arg[i]) = NULL
  BY <1>1, Mapped DEF NoThreadMapped
<1>4. StateOf(arg[i])' = "running" /\ ValueOf(arg[i])' = NULL
  BY <1>1, <1>2, MappedNext DEF TypeOK, ThreadMapped
<1>5. ASSUME NEW r \in Recs \ {arg[i]}
      PROVE  StateOf(r)' = StateOf(r) /\ ValueOf(r)' = ValueOf(r)
  <2>1. CASE \A k \in Ids : own[k] # r
    BY <1>2, <2>1, Mapped, MappedNext DEF NoThreadMapped, TypeOK
  <2>2. CASE \E k \in Ids : own[k] = r
    <3>1. PICK k \in Ids : own[k] = r
      BY <2>2
    <3>2. k # j /\ own'[k] = r /\ (pc'[k] = "ended" <=> pc[k] = "ended")
          /\ (pc[k] = "ended" => eax'[k] = eax[k])
      BY <1>1, <1>2, <3>1 DEF TypeOK
    <3> QED  BY <3>1, <3>2, Mapped, MappedNext DEF ThreadMapped
  <2> QED  BY <2>1, <2>2
<1> QED  BY <1>1, <1>3, <1>4, <1>5 DEF Contract!Start, guestVars

LEMMA ExitIsFinish ==
  ASSUME IInv, IInv', NEW j \in Ids, Exit(j), own[j] \in Recs
  PROVE  Contract!Finish(own[j], eax[j])
<1> USE ThreadAssumption DEF IInv, Exit
<1>1. pc'[j] = "ended"
  BY DEF TypeOK
<1>2. StateOf(own[j]) = "running"
  BY Mapped DEF ThreadMapped
<1>3. StateOf(own[j])' = "over" /\ ValueOf(own[j])' = eax[j]
  BY <1>1, MappedNext DEF ThreadMapped
<1>4. ASSUME NEW r \in Recs \ {own[j]}
      PROVE  StateOf(r)' = StateOf(r) /\ ValueOf(r)' = ValueOf(r)
  <2>1. CASE \A k \in Ids : own[k] # r
    BY <2>1, Mapped, MappedNext DEF NoThreadMapped
  <2>2. CASE \E k \in Ids : own[k] = r
    <3>1. PICK k \in Ids : own[k] = r
      BY <2>2
    <3>2. k # j /\ pc'[k] = pc[k]
      BY <3>1 DEF TypeOK
    <3> QED  BY <3>1, <3>2, Mapped, MappedNext DEF ThreadMapped
  <2> QED  BY <2>1, <2>2
<1> QED  BY <1>2, <1>3, <1>4 DEF Contract!Finish, guestVars

LEMMA JoinIsJoin ==
  ASSUME IInv, IInv', ValueKept, NEW i \in Ids, JoinReturns(i)
  PROVE  Contract!Join(arg[i])
<1> USE ThreadAssumption DEF IInv, JoinReturns, Collect
<1>1. PICK r \in Recs, j \in Ids : r = arg[i] /\ j = handle[r]
  BY DEF TypeOK, Places, SetUp, Creating
<1>2. own[j] = r /\ pc[j] = "ended" /\ retval[r] = eax[j]
  BY <1>1 DEF SetUp, ValueKept
<1>3. own' = [own EXCEPT ![j] = NULL] /\ \A k \in Ids : own'[k] # r
  BY <1>1, <1>2 DEF TypeOK, OneThread
<1>4. StateOf(r) = "over" /\ ValueOf(r) = eax[j]
  BY <1>2, Mapped DEF ThreadMapped
<1>5. StateOf(r)' = "none" /\ ValueOf(r)' = NULL
  BY <1>3, MappedNext DEF NoThreadMapped
<1>6. ASSUME NEW w \in Recs \ {r}
      PROVE  StateOf(w)' = StateOf(w) /\ ValueOf(w)' = ValueOf(w)
  <2>1. CASE \A k \in Ids : own[k] # w
    BY <1>3, <2>1, Mapped, MappedNext DEF NoThreadMapped, TypeOK
  <2>2. CASE \E k \in Ids : own[k] = w
    <3>1. PICK k \in Ids : own[k] = w
      BY <2>2
    <3>2. k # j /\ own'[k] = w /\ eax'[k] = eax[k] /\ (pc'[k] = "ended" <=> pc[k] = "ended")
      BY <1>1, <1>2, <1>3, <3>1 DEF TypeOK
    <3> QED  BY <3>1, <3>2, Mapped, MappedNext DEF ThreadMapped
  <2> QED  BY <2>1, <2>2
<1> QED  BY <1>1, <1>2, <1>4, <1>5, <1>6 DEF Contract!Join

LEMMA StepIsStep ==
  ASSUME IInv, IInv', ValueKept, [Next]_vars
  PROVE  [Contract!Next]_(Contract!vars)
<1> USE ThreadAssumption DEF heapVars, guestVars
<1>1. CASE UNCHANGED vars
  BY <1>1, NoEvent DEF vars
<1>2. ASSUME NEW i \in Ids, NEW r \in Recs, CreateRecord(i, r) \/ JoinCall(i, r) \/ Detach(i, r)
      PROVE  UNCHANGED Contract!vars
  BY <1>2, NoEvent DEF CreateRecord, JoinCall, Detach, IInv, TypeOK
<1>3. ASSUME NEW i \in Ids, NEW j \in Ids, StartThread(i, j)
      PROVE  Contract!Next
  <2>1. arg[i] \in Recs
    BY <1>3 DEF StartThread, IInv, TypeOK, Places, Creating
  <2> QED  BY <1>3, <2>1, StartIsStart DEF Contract!Next
<1>4. ASSUME NEW i \in Ids,
             \/ RecordRefused(i) \/ CreateStack(i) \/ StackRefused(i)
             \/ ThreadRefused(i) \/ StoreHandle(i) \/ CreateReturns(i)
      PROVE  UNCHANGED Contract!vars
  BY <1>4, NoEvent DEF RecordRefused, CreateStack, StackRefused, ThreadRefused, StoreHandle,
    CreateReturns, Return, IInv, TypeOK, vars
<1>5. ASSUME NEW i \in Ids, NEW v \in Values, RoutineReturns(i, v)
      PROVE  UNCHANGED Contract!vars
  BY <1>5, NoEvent DEF RoutineReturns, IInv, TypeOK
<1>6. ASSUME NEW i \in Ids, Trampoline(i) \/ StoreRetval(i)
      PROVE  UNCHANGED Contract!vars
  BY <1>6, NoEvent DEF Trampoline, StoreRetval, IInv, TypeOK
<1>7. ASSUME NEW i \in Ids, Exit(i)
      PROVE  [Contract!Next]_(Contract!vars)
  <2>1. CASE own[i] \in Recs
    <3>1. eax[i] \in Values
      BY <1>7 DEF Exit, IInv, Places
    <3> QED  BY <1>7, <2>1, <3>1, ExitIsFinish DEF Contract!Next
  <2>2. CASE own[i] \notin Recs
    BY <1>7, <2>2, NoEvent DEF Exit, IInv, TypeOK
  <2> QED  BY <2>1, <2>2
<1>8. ASSUME NEW i \in Ids, JoinReturns(i)
      PROVE  Contract!Next
  <2>1. arg[i] \in Recs
    BY <1>8 DEF JoinReturns, IInv, TypeOK, Places, Creating
  <2> QED  BY <1>8, <2>1, JoinIsJoin DEF Contract!Next
<1> QED
  BY <1>1, <1>2, <1>3, <1>4, <1>5, <1>6, <1>7, <1>8 DEF Next, Step, Create, Run

\* To the guest, pthread_create starts a routine under a name, and pthread_join
\* waits for it to be over and answers what it returned, once.
THEOREM ThreadsAnswer == Spec => ImplementsThreadContract
<1>1. Init => ValueKept
  BY DEF Init, ValueKept
<1>2. Spec => []ValueKept
  BY <1>1, ThreadInvariance, ValueStaysKept, PTL DEF Spec
<1>3. Init => Contract!Init
  <2> SUFFICES ASSUME Init PROVE Contract!Init
    OBVIOUS
  <2>1. \A r \in Recs : StateOf(r) = "none" /\ ValueOf(r) = NULL
    BY InitIInv, Mapped, ThreadAssumption DEF Init, NoThreadMapped
  <2> QED  BY <2>1 DEF Init, Contract!Init
<1> QED
  BY <1>2, <1>3, ThreadInvariance, StepIsStep, PTL
  DEF Spec, ImplementsThreadContract, Contract!Spec

----------------------------------------------------------------------------
(* Semaphores, and both together.                                          *)


\* The semaphore's cell holds a closed handle, which may be another's by now.
Closed(s) == \E t \in Ids : job[t] = s /\ at[t] \in {"create", "free"}

\* What a thread works on, by where it is.
SemPlaces ==
  \A t \in Ids :
    /\ at[t] # "guest" => job[t] \in Sems
    /\ at[t] \in {"guest"} => job[t] = NULL
    /\ at[t] \in {"wait", "release"} => job[t] \in ready /\ got[t] = cell[job[t]]
    /\ at[t] \notin {"close", "create"} => ask[t] = 0

\* Whoever initialises or destroys has the semaphore to itself, but for posts
\* that are over.
SemAlone ==
  \A t \in Ids : at[t] \in {"close", "create", "free"} =>
    /\ job[t] \notin ready
    /\ \A u \in Ids \ {t} : job[u] = job[t] => at[u] = "posted"

\* An open handle is one semaphore's, and a semaphore in use has one.
SemHandles ==
  /\ \A s \in ready : cell[s] # NULL
  /\ \A s \in Sems : ~Closed(s) /\ cell[s] # NULL => cell[s] \in open
  /\ \A s, r \in Sems : ~Closed(s) /\ ~Closed(r) /\ cell[s] # NULL /\ cell[s] = cell[r] => s = r
  /\ \A h \in open : \E s \in Sems : ~Closed(s) /\ cell[s] = h

SemInv == S!TypeOK /\ SemPlaces /\ SemAlone /\ SemHandles

LEMMA SemInit == S!Init => SemInv
BY SystemAssumption DEF S!Init, S!SemAssumption, SemInv, S!TypeOK, S!Steps, SemPlaces, SemAlone,
  SemHandles, Closed

----------------------------------------------------------------------------

LEMMA InitCallKeeps ==
  ASSUME SemInv, NEW t \in Ids, NEW s \in Sems, NEW v \in InitValues, S!InitCall(t, s, v)
  PROVE  SemInv'
<1> USE SystemAssumption DEF SemInv, S!SemAssumption, S!InitCall, S!Go
<1>1. S!TypeOK'
  BY DEF S!TypeOK, S!Steps
<1>2. SemPlaces'
  BY DEF S!TypeOK, SemPlaces, S!Unused
<1>3. SemAlone'
  BY DEF S!TypeOK, SemPlaces, SemAlone, S!Unused
<1>4. \A r \in Sems : Closed(r)' <=> Closed(r)
  BY DEF S!TypeOK, SemPlaces, S!Unused, Closed
<1>5. SemHandles'
  BY <1>4 DEF S!TypeOK, SemHandles
<1> QED  BY <1>1, <1>2, <1>3, <1>5

LEMMA InitCloseKeeps ==
  ASSUME SemInv, NEW t \in Ids, S!InitClose(t)
  PROVE  SemInv'
<1> USE SystemAssumption DEF SemInv, S!SemAssumption, S!InitClose, S!Go
<1>1. S!TypeOK'
  BY DEF S!TypeOK, S!Steps
<1>2. SemPlaces'
  BY DEF S!TypeOK, SemPlaces
<1>3. SemAlone'
  BY DEF S!TypeOK, SemPlaces, SemAlone
<1>4. job[t] \in Sems /\ ~Closed(job[t]) /\ job[t] \notin ready
  BY DEF S!TypeOK, SemPlaces, SemAlone, Closed
<1>5. \A r \in Sems : Closed(r)' <=> Closed(r) \/ r = job[t]
  BY DEF S!TypeOK, SemPlaces, Closed
<1>6. SemHandles'
  BY <1>4, <1>5 DEF S!TypeOK, SemHandles
<1> QED  BY <1>1, <1>2, <1>3, <1>6

LEMMA InitCreateKeeps ==
  ASSUME SemInv, NEW t \in Ids, NEW h \in Handles, S!InitCreate(t, h)
  PROVE  SemInv'
<1> USE SystemAssumption DEF SemInv, S!SemAssumption, S!InitCreate, S!Go, S!Return
<1>1. S!TypeOK'
  BY DEF S!TypeOK, S!Steps, SemPlaces
<1>2. SemPlaces'
  BY DEF S!TypeOK, SemPlaces, SemAlone
<1>3. SemAlone'
  BY DEF S!TypeOK, SemPlaces, SemAlone
<1>4. job[t] \in Sems /\ Closed(job[t])
  BY DEF S!TypeOK, SemPlaces, Closed
<1>5. \A r \in Sems : Closed(r)' <=> Closed(r) /\ r # job[t]
  BY DEF S!TypeOK, SemPlaces, SemAlone, Closed
<1>6. SemHandles'
  BY <1>4, <1>5 DEF S!TypeOK, SemHandles
<1> QED  BY <1>1, <1>2, <1>3, <1>6

LEMMA InitFailsKeeps ==
  ASSUME SemInv, NEW t \in Ids, S!InitFails(t) \/ S!DestroyFree(t)
  PROVE  SemInv'
<1> USE SystemAssumption DEF SemInv, S!SemAssumption, S!InitFails, S!DestroyFree, S!Go, S!Return
<1>1. S!TypeOK'
  BY DEF S!TypeOK, S!Steps, SemPlaces
<1>2. SemPlaces'
  BY DEF S!TypeOK, SemPlaces, SemAlone
<1>3. SemAlone'
  BY DEF S!TypeOK, SemPlaces, SemAlone
<1>4. job[t] \in Sems /\ Closed(job[t]) /\ job[t] \notin ready
  BY DEF S!TypeOK, SemPlaces, SemAlone, Closed
<1>5. \A r \in Sems : Closed(r)' <=> Closed(r) /\ r # job[t]
  BY DEF S!TypeOK, SemPlaces, SemAlone, Closed
<1>6. SemHandles'
  BY <1>4, <1>5 DEF S!TypeOK, SemHandles
<1> QED  BY <1>1, <1>2, <1>3, <1>6

LEMMA FetchKeeps ==
  ASSUME SemInv, NEW t \in Ids, NEW s \in Sems, S!WaitCall(t, s) \/ S!PostCall(t, s)
  PROVE  SemInv'
<1> USE SystemAssumption DEF SemInv, S!SemAssumption, S!WaitCall, S!PostCall, S!Fetch, S!Go
<1>1. S!TypeOK'
  BY DEF S!TypeOK, S!Steps
<1>2. SemPlaces'
  BY DEF S!TypeOK, SemPlaces
<1>3. SemAlone'
  BY DEF S!TypeOK, SemPlaces, SemAlone
<1>4. \A r \in Sems : Closed(r)' <=> Closed(r)
  BY DEF S!TypeOK, SemPlaces, Closed
<1>5. SemHandles'
  BY <1>4 DEF S!TypeOK, SemHandles
<1> QED  BY <1>1, <1>2, <1>3, <1>5

LEMMA UseKeeps ==
  ASSUME SemInv, NEW t \in Ids, S!WaitPasses(t) \/ S!Release(t) \/ S!PostReturns(t)
  PROVE  SemInv'
<1> USE SystemAssumption
    DEF SemInv, S!SemAssumption, S!WaitPasses, S!Release, S!PostReturns, S!Go, S!Return
<1>1. S!TypeOK'
  BY DEF S!TypeOK, S!Steps, SemPlaces
<1>2. SemPlaces'
  BY DEF S!TypeOK, SemPlaces
<1>3. SemAlone'
  BY DEF S!TypeOK, SemPlaces, SemAlone
<1>4. \A r \in Sems : Closed(r)' <=> Closed(r)
  BY DEF S!TypeOK, SemPlaces, Closed
<1>5. SemHandles'
  BY <1>4 DEF S!TypeOK, SemHandles
<1> QED  BY <1>1, <1>2, <1>3, <1>5

LEMMA DestroyCloseKeeps ==
  ASSUME SemInv, NEW t \in Ids, NEW s \in Sems, S!DestroyClose(t, s)
  PROVE  SemInv'
<1> USE SystemAssumption DEF SemInv, S!SemAssumption, S!DestroyClose, S!Go, S!Unused
<1>1. S!TypeOK'
  BY DEF S!TypeOK, S!Steps
<1>2. SemPlaces'
  BY DEF S!TypeOK, SemPlaces
<1>3. SemAlone'
  BY DEF S!TypeOK, SemPlaces, SemAlone
<1>4. ~Closed(s)
  BY DEF S!TypeOK, Closed
<1>5. \A r \in Sems : Closed(r)' <=> Closed(r) \/ r = s
  BY DEF S!TypeOK, SemPlaces, Closed
<1>6. SemHandles'
  BY <1>4, <1>5 DEF S!TypeOK, SemHandles
<1> QED  BY <1>1, <1>2, <1>3, <1>6

LEMMA SemStepKeeps ==
  ASSUME SemInv, NEW t \in Ids, S!Step(t)
  PROVE  SemInv'
BY InitCallKeeps, InitCloseKeeps, InitCreateKeeps, InitFailsKeeps, FetchKeeps, UseKeeps,
  DestroyCloseKeeps DEF S!Step

LEMMA SemStutterKeeps ==
  ASSUME SemInv, UNCHANGED semVars
  PROVE  SemInv'
BY DEF SemInv, semVars, S!TypeOK, SemPlaces, SemAlone, SemHandles, Closed

\* A step of the system is one of GuestThreads or leaves its variables alone.
LEMMA SystemStep == [SystemNext]_systemVars => [Next]_vars
BY DEF SystemNext, systemVars, Next

\* What both parts keep, together.
THEOREM SystemInvariance == System => [](IInv /\ SemInv)
<1>1. SystemInit => IInv /\ SemInv
  BY InitIInv, SemInit DEF SystemInit
<1>2. IInv /\ SemInv /\ [SystemNext]_systemVars => (IInv /\ SemInv)'
  <2> SUFFICES ASSUME IInv, SemInv, [SystemNext]_systemVars PROVE IInv' /\ SemInv'
    OBVIOUS
  <2>1. IInv'
    BY NextKeeps, SystemStep
  <2>2. SemInv'
    BY SemStepKeeps, SemStutterKeeps DEF SystemNext, systemVars
  <2> QED  BY <2>1, <2>2
<1> QED  BY <1>1, <1>2, PTL DEF System

\* Types hold, and a wait or a post uses the open handle its semaphore has now,
\* whatever Windows makes of closed ones and however soon a semaphore goes.
THEOREM HandlesStayCurrent == System => []SystemSound
<1>1. IInv /\ SemInv => SystemSound
  <2> SUFFICES ASSUME IInv, SemInv PROVE SystemSound
    OBVIOUS
  <2>1. \A s \in ready : s \in Sems /\ ~Closed(s)
    BY DEF SemInv, S!TypeOK, SemAlone, Closed
  <2>2. S!HandlesCurrent
    BY <2>1 DEF SemInv, SemPlaces, SemHandles, S!HandlesCurrent
  <2> QED  BY <2>2 DEF IInv, SemInv, SystemSound, SystemTypeOK, HandlesCurrent
<1> QED  BY <1>1, SystemInvariance, PTL

\* What GuestThreads is shown to promise, it keeps with semaphores about.
THEOREM SystemKeepsThreads == System => Spec
<1>1. SystemInit => Init
  BY DEF SystemInit
<1> QED  BY <1>1, SystemStep, PTL DEF System, Spec

----------------------------------------------------------------------------
(* The step simulation of PosixSemaphore. *)

\* The handle of a semaphore in use is open and no other's.
LEMMA ReadyHandles ==
  SemInv => /\ \A s \in ready : s \in Sems /\ cell[s] \in open
            /\ \A s, r \in ready : cell[s] = cell[r] => s = r
<1> SUFFICES ASSUME SemInv
             PROVE  /\ \A s \in ready : s \in Sems /\ cell[s] \in open
                    /\ \A s, r \in ready : cell[s] = cell[r] => s = r
  OBVIOUS
<1>1. \A s \in ready : s \in Sems /\ ~Closed(s)
  BY DEF SemInv, S!TypeOK, SemAlone, Closed
<1> QED  BY <1>1 DEF SemInv, SemHandles

\* The value POSIX speaks of, and the call a thread is in.
Value(s) == IF s \in ready THEN count[cell[s]] ELSE -1
Does(t) == S!Doing(at[t])

\* A call starts when its handler leaves the guest, and is over when it is back.
LEMMA CallMapped ==
  ASSUME SemInv, NEW t \in Ids, NEW s \in Sems, NEW v, NEW step \in S!Steps \ {"guest"},
         at[t] = "guest", at' = [at EXCEPT ![t] = step],
         job' = [job EXCEPT ![t] = s], ask' = [ask EXCEPT ![t] = v]
  PROVE  S!Posix!Call(t, S!Doing(step), s, v)
<1>1. Does(t) = "nothing"
  BY DEF Does, S!Doing
<1>2. \A u \in Ids : Does(u)' = IF u = t THEN S!Doing(step) ELSE Does(u)
  BY DEF Does, SemInv, S!TypeOK
<1> QED  BY <1>1, <1>2 DEF S!Posix!Call, Does

LEMMA ReturnMapped ==
  ASSUME SemInv, NEW t \in Ids, S!Return(t), ask' = [ask EXCEPT ![t] = 0]
  PROVE  S!Posix!Return(t)
<1>1. \A u \in Ids : Does(u)' = IF u = t THEN "nothing" ELSE Does(u)
  BY DEF Does, S!Doing, S!Return, S!Go, SemInv, S!TypeOK
<1> QED  BY <1>1 DEF S!Posix!Return, S!Return, Does

\* Nobody else's semaphore changes its value with this one's.
LEMMA ValueMapped ==
  ASSUME NEW s \in Sems, NEW v,
         \A r \in Sems : Value(r)' = IF r = s THEN v ELSE Value(r)
  PROVE  S!Posix!SetValue(s, v)
BY DEF S!Posix!SetValue, Value

LEMMA ValuesMapped ==
  ASSUME \A r \in Sems : Value(r)' = Value(r)
  PROVE  UNCHANGED [r \in Sems |-> IF r \in ready THEN count[cell[r]] ELSE -1]
BY DEF Value

\* One thread's step on the semaphores.
LEMMA CallsMapped ==
  ASSUME SemInv, NEW t \in Ids, NEW s \in Sems
  PROVE  /\ S!WaitCall(t, s) => S!Posix!CallWait(t, s)
         /\ S!PostCall(t, s) => S!Posix!CallPost(t, s)
         /\ S!DestroyClose(t, s) => S!Posix!CallDestroy(t, s)
         /\ \A v \in InitValues : S!InitCall(t, s, v) => S!Posix!CallInit(t, s, v)
<1>1. ask[t] = 0 \/ at[t] # "guest"
  BY DEF SemInv, SemPlaces
<1>2. [ask EXCEPT ![t] = 0] = ask \/ at[t] # "guest"
  BY <1>1 DEF SemInv, S!TypeOK
<1>3. S!Unused(s) => S!Posix!Alone(s)
  BY DEF S!Unused, S!Posix!Alone, S!Doing
<1>4. S!Doing("wait") = "wait" /\ S!Doing("release") = "post"
      /\ S!Doing("close") = "init" /\ S!Doing("free") = "destroy"
  BY DEF S!Doing
<1>5. {"wait", "release", "close", "free"} \subseteq S!Steps \ {"guest"}
  BY DEF S!Steps
<1>6. ASSUME S!WaitCall(t, s)
      PROVE  S!Posix!CallWait(t, s)
  <2>1. S!Posix!Call(t, "wait", s, 0)
    BY <1>2, <1>4, <1>5, <1>6, CallMapped DEF S!WaitCall, S!Fetch, S!Go
  <2>2. Value(s) # -1 /\ \A r \in Sems : Value(r)' = Value(r)
    BY <1>6, ReadyHandles, SystemAssumption
    DEF S!WaitCall, S!Fetch, Value, SemInv, S!TypeOK, S!SemAssumption
  <2> QED  BY <2>1, <2>2, ValuesMapped DEF S!Posix!CallWait, S!Posix!None, Value
<1>7. ASSUME S!PostCall(t, s)
      PROVE  S!Posix!CallPost(t, s)
  <2>1. S!Posix!Call(t, "post", s, 0)
    BY <1>2, <1>4, <1>5, <1>7, CallMapped DEF S!PostCall, S!Fetch, S!Go
  <2>2. Value(s) # -1 /\ \A r \in Sems : Value(r)' = Value(r)
    BY <1>7, ReadyHandles, SystemAssumption
    DEF S!PostCall, S!Fetch, Value, SemInv, S!TypeOK, S!SemAssumption
  <2> QED  BY <2>1, <2>2, ValuesMapped DEF S!Posix!CallPost, S!Posix!None, Value
<1>8. ASSUME S!DestroyClose(t, s)
      PROVE  S!Posix!CallDestroy(t, s)
  <2>1. S!Posix!Call(t, "destroy", s, 0)
    BY <1>2, <1>4, <1>5, <1>8, CallMapped DEF S!DestroyClose, S!Go
  <2>2. \A r \in Sems : Value(r)' = IF r = s THEN -1 ELSE Value(r)
    BY <1>8 DEF S!DestroyClose, Value
  <2>3. S!Posix!SetValue(s, -1)
    BY <2>2, ValueMapped
  <2> QED  BY <1>3, <1>8, <2>1, <2>3 DEF S!Posix!CallDestroy, S!Posix!None, S!DestroyClose
<1>9. ASSUME NEW v \in InitValues, S!InitCall(t, s, v)
      PROVE  S!Posix!CallInit(t, s, v)
  <2>1. S!Posix!Call(t, "init", s, v)
    BY <1>4, <1>5, <1>9, CallMapped DEF S!InitCall, S!Go
  <2>2. \A r \in Sems : Value(r)' = IF r = s THEN -1 ELSE Value(r)
    BY <1>9 DEF S!InitCall, Value
  <2>3. S!Posix!SetValue(s, -1)
    BY <2>2, ValueMapped
  <2> QED  BY <1>3, <1>9, <2>1, <2>3 DEF S!Posix!CallInit, S!Posix!None, S!InitCall
<1> QED  BY <1>6, <1>7, <1>8, <1>9

\* A wait that returns took a token.
LEMMA PassMapped ==
  ASSUME SemInv, NEW t \in Ids, S!WaitPasses(t)
  PROVE  S!Posix!Pass(t)
<1>1. PICK s \in ready : s \in Sems /\ s = job[t] /\ got[t] = cell[s] /\ got[t] \in Handles
  BY ReadyHandles DEF S!WaitPasses, SemInv, SemPlaces, S!TypeOK
<1>2. \A r \in ready : r # s => cell[r] \in Handles /\ cell[r] # got[t]
  BY <1>1, ReadyHandles DEF SemInv, S!TypeOK
<1>3. \A r \in Sems : Value(r)' = IF r = s THEN Value(s) - 1 ELSE Value(r)
  BY <1>1, <1>2 DEF S!WaitPasses, Value, SemInv, S!TypeOK
<1>4. S!Posix!SetValue(s, Value(s) - 1)
  BY <1>3 DEF S!Posix!SetValue, Value
<1>5. Does(t) = "wait" /\ Value(s) > 0
  BY <1>1 DEF S!WaitPasses, Does, S!Doing, Value
<1>6. [ask EXCEPT ![t] = 0] = ask
  BY DEF SemInv, SemPlaces, S!TypeOK, S!WaitPasses
<1>7. S!Posix!Return(t)
  BY <1>6, ReturnMapped DEF S!WaitPasses
<1> QED  BY <1>1, <1>4, <1>5, <1>7 DEF S!Posix!Pass, S!Posix!SetValue, Does, Value

\* A post that is done has added one, or found the semaphore at its limit.
LEMMA PostMapped ==
  ASSUME SemInv, NEW t \in Ids, S!Release(t)
  PROVE  S!Posix!Post(t)
<1>1. PICK s \in ready : s \in Sems /\ s = job[t] /\ got[t] = cell[s] /\ got[t] \in Handles
  BY ReadyHandles DEF S!Release, SemInv, SemPlaces, S!TypeOK
<1>2. \A r \in ready : r # s => cell[r] \in Handles /\ cell[r] # got[t]
  BY <1>1, ReadyHandles DEF SemInv, S!TypeOK
<1>3. Does(t) = "post" /\ \A u \in Ids : Does(u)' = IF u = t THEN "posted" ELSE Does(u)
  BY DEF S!Release, S!Go, Does, S!Doing, SemInv, S!TypeOK
<1>4. UNCHANGED <<job, ask>>
  BY DEF S!Release
<1>5. CASE Value(s) < MaxCount
  <2>1. \A r \in Sems : Value(r)' = IF r = s THEN Value(s) + 1 ELSE Value(r)
    BY <1>1, <1>2, <1>5 DEF S!Release, Value, SemInv, S!TypeOK
  <2>2. S!Posix!SetValue(s, Value(s) + 1)
    BY <2>1 DEF S!Posix!SetValue, Value
  <2> QED  BY <1>1, <1>3, <1>4, <1>5, <2>2 DEF S!Posix!Post, S!Posix!SetValue, Does, Value
<1>6. CASE ~(Value(s) < MaxCount)
  <2>1. \A r \in Sems : Value(r)' = Value(r)
    BY <1>1, <1>2, <1>6 DEF S!Release, Value, SemInv, S!TypeOK
  <2> QED  BY <1>1, <1>3, <1>4, <1>6, <2>1, ValuesMapped DEF S!Posix!Post, Does, Value
<1> QED  BY <1>5, <1>6

\* An initialisation ends with the value asked for, or with none.
LEMMA InitialiseMapped ==
  ASSUME SemInv, NEW t \in Ids, S!InitFails(t) \/ \E h \in Handles : S!InitCreate(t, h)
  PROVE  S!Posix!Initialise(t)
<1>1. Does(t) = "init" /\ job[t] \in Sems /\ job[t] \notin ready
  BY DEF S!InitFails, S!InitCreate, Does, S!Doing, SemInv, SemPlaces, SemAlone
<1>2. S!Posix!Return(t)
  BY ReturnMapped DEF S!InitFails, S!InitCreate
<1>3. CASE S!InitFails(t)
  <2>1. \A r \in Sems : Value(r)' = Value(r)
    BY <1>1, <1>3 DEF S!InitFails, Value, SemInv, S!TypeOK
  <2> QED  BY <1>1, <1>2, <2>1, ValuesMapped DEF S!Posix!Initialise, Does
<1>4. ASSUME NEW h \in Handles, S!InitCreate(t, h)
      PROVE  S!Posix!Initialise(t)
  <2>1. \A r \in ready : r \in Sems /\ cell[r] \in Handles /\ cell[r] # h
    BY <1>4, ReadyHandles DEF S!InitCreate, SemInv, S!TypeOK
  <2>2. \A r \in Sems : Value(r)' = IF r = job[t] THEN ask[t] ELSE Value(r)
    BY <1>1, <1>4, <2>1 DEF S!InitCreate, Value, SemInv, S!TypeOK
  <2>3. S!Posix!SetValue(job[t], ask[t])
    BY <2>2 DEF S!Posix!SetValue, Value
  <2>4. ask[t] \in 0 .. MaxCount
    BY <1>4 DEF S!InitCreate
  <2> QED  BY <1>1, <1>2, <2>3, <2>4 DEF S!Posix!Initialise, Does
<1> QED  BY <1>3, <1>4

LEMMA EndMapped ==
  ASSUME SemInv, NEW t \in Ids, S!PostReturns(t) \/ S!DestroyFree(t)
  PROVE  S!Posix!PostOrDestroyReturns(t)
<1>1. Does(t) \in {"posted", "destroy"}
  BY DEF S!PostReturns, S!DestroyFree, Does, S!Doing
<1>2. [ask EXCEPT ![t] = 0] = ask
  BY DEF SemInv, SemPlaces, S!TypeOK, S!PostReturns, S!DestroyFree
<1>3. S!Posix!Return(t)
  BY <1>2, ReturnMapped DEF S!PostReturns, S!DestroyFree
<1>4. \A r \in Sems : Value(r)' = Value(r)
  BY DEF S!PostReturns, S!DestroyFree, Value, SemInv, S!TypeOK, SemAlone
<1> QED  BY <1>1, <1>3, <1>4, ValuesMapped DEF S!Posix!PostOrDestroyReturns, Does

\* Closing the old handle is not to be seen from outside.
LEMMA CloseMapped ==
  ASSUME SemInv, NEW t \in Ids, S!InitClose(t)
  PROVE  UNCHANGED S!Posix!vars
<1>1. \A u \in Ids : Does(u)' = Does(u)
  BY DEF S!InitClose, S!Go, Does, S!Doing, SemInv, S!TypeOK
<1>2. UNCHANGED <<job, ask, ready, count, cell>>
  BY DEF S!InitClose
<1> QED  BY <1>1, <1>2 DEF S!Posix!vars, Does

LEMMA SemStepIsStep ==
  ASSUME SemInv, NEW t \in Ids, S!Step(t)
  PROVE  [S!Posix!Next]_(S!Posix!vars)
<1>1. CASE \E s \in Sems : \/ S!WaitCall(t, s) \/ S!PostCall(t, s) \/ S!DestroyClose(t, s)
                           \/ \E v \in InitValues : S!InitCall(t, s, v)
  BY <1>1, CallsMapped DEF S!Posix!Next
<1>2. CASE S!InitFails(t) \/ \E h \in Handles : S!InitCreate(t, h)
  BY <1>2, InitialiseMapped DEF S!Posix!Next
<1>3. CASE S!WaitPasses(t)
  BY <1>3, PassMapped DEF S!Posix!Next
<1>4. CASE S!Release(t)
  BY <1>4, PostMapped DEF S!Posix!Next
<1>5. CASE S!PostReturns(t) \/ S!DestroyFree(t)
  BY <1>5, EndMapped DEF S!Posix!Next
<1>6. CASE S!InitClose(t)
  BY <1>6, CloseMapped
<1> QED  BY <1>1, <1>2, <1>3, <1>4, <1>5, <1>6 DEF S!Step

\* To the guest, a wait returns only with a token that an initial value or a
\* post put there, and a post that returns has added one, unless the semaphore
\* was at its limit when the post came to it.
THEOREM SemaphoresCount == System => ImplementsPosixSemaphore
<1>1. S!Init => S!Posix!Init
  BY DEF S!Init, S!Posix!Init, S!Posix!None, S!Doing
<1>2. SystemInit => S!Posix!Init
  BY <1>1 DEF SystemInit
<1>3. SemInv /\ [SystemNext]_systemVars => [S!Posix!Next]_(S!Posix!vars)
  <2>1. UNCHANGED semVars => UNCHANGED S!Posix!vars
    BY DEF semVars, S!Posix!vars
  <2> QED  BY <2>1, SemStepIsStep DEF SystemNext, systemVars
<1> QED
  BY <1>2, <1>3, SystemInvariance, PTL
  DEF System, ImplementsPosixSemaphore, S!ImplementsPosixSemaphore, S!Posix!Spec

\* So all that is shown of threads by themselves holds where they meet at
\* semaphores (hle_pthread.c), too.
THEOREM SystemThreadsAnswer ==
  System => ImplementsThreadContract /\ []NoUseAfterFree /\ []OnlyDetachedLeak
BY SystemKeepsThreads, ThreadsAnswer, RecordsAlive, NothingLost, PTL
============================================================================
