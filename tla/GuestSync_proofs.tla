-------------------------- MODULE GuestSync_proofs --------------------------
(***************************************************************************)
(* The inductive invariant of GuestSync and what follows from it.          *)
(***************************************************************************)
EXTENDS GuestSync, TLAPS

InFetch(t) == pc[t] \in {"host", "enter", "check", "publish", "leave", "reload"}

\* The shape of a call: which arguments each handler has, where it may be.
CallShape ==
  \A t \in Threads :
    /\ pc[t] = "idle" <=> call[t] = NoCall
    /\ call[t].op \in {"init", "lock", "unlock", "trylock", "destroy"} =>
         call[t].mutex \in Mutexes /\ call[t].cond = NULL
    /\ call[t].op \in {"cinit", "signal", "broadcast", "cdestroy"} =>
         call[t].mutex = NULL /\ call[t].cond \in Conds
    /\ call[t].op = "wait" => call[t].mutex \in Mutexes /\ call[t].cond \in Conds
    /\ Destroying(t) => pc[t] \in {"use", "clear"}
    /\ pc[t] = "clear" => Destroying(t)
    /\ pc[t] \in {"asleep", "relock"} => call[t].op = "wait"

\* How far a call's arguments are fetched.
FetchShape ==
  \A t \in Threads :
    /\ InFetch(t) => cur[t] \in need[t]
    /\ need[t] \subseteq Args(t)
    /\ pc[t] = "idle" => \A o \in Objs : got[t][o] = NULL
    /\ Destroying(t) => \A o \in Objs : got[t][o] = NULL
    /\ \A o \in Objs : got[t][o] # NULL => o \in Args(t) \ need[t]
    /\ pc[t] # "idle" /\ ~Destroying(t) =>
         \A o \in Args(t) \ need[t] : got[t][o] # NULL
    /\ pc[t] \in {"use", "asleep", "relock"} /\ ~Destroying(t) => need[t] = {}

\* g_init_lock is held exactly where the code holds it.
InitLock ==
  \A t \in Threads :
    initOwner = t <=> pc[t] \in {"check", "publish", "leave"}

\* A blob being destroyed is nobody else's argument.
Exclusive ==
  \A t, u \in Threads : Destroying(u) /\ t # u => Target(u) \notin Args(t)

Clearing(o) == \E u \in Threads : pc[u] = "clear" /\ Target(u) = o
Publishing(o) == \E u \in Threads : pc[u] = "publish" /\ cur[u] = o

\* What the two words of a blob say about the heap.
Words ==
  /\ \A o \in Objs :
       /\ host[o] # NULL /\ ~Clearing(o) => host[o] \in live
       /\ ~Publishing(o) => (magic[o] <=> host[o] # NULL)
  /\ \A o, p \in Objs :
       host[o] = host[p] /\ host[o] # NULL /\ ~Clearing(o) /\ ~Clearing(p) => o = p

\* A creation in progress: the object is out of everybody's reach until the
\* store that publishes it.
Creation ==
  \A t \in Threads :
    /\ new[t] # NULL <=> "host" \in stores[t]
    /\ stores[t] # {} <=> pc[t] = "publish"
    /\ pc[t] = "publish" =>
         /\ "host" \in stores[t] <=> host[cur[t]] = NULL
         /\ "magic" \in stores[t] <=> ~magic[cur[t]]
    /\ new[t] # NULL =>
         /\ new[t] \in live /\ owner[new[t]] = NULL /\ depth[new[t]] = 0
         /\ \A o \in Objs : host[o] = new[t] => Clearing(o)

\* What a thread has already seen of the blob it is working on.
Seen ==
  \A t \in Threads :
    /\ pc[t] \in {"leave", "reload"} => magic[cur[t]] /\ host[cur[t]] # NULL
    /\ pc[t] = "clear" => host[Target(t)] # NULL /\ magic[Target(t)]
    /\ pc[t] = "host" => magic[cur[t]]

\* A fetched pointer is the blob's, whole and live.
Fetches ==
  \A t \in Threads, o \in Objs :
    got[t][o] # NULL => got[t][o] = host[o] /\ magic[o]

\* The critical section behind a blob agrees with what the guest holds.
Holding ==
  \A m \in Mutexes :
    /\ host[m] # NULL /\ ~Clearing(m) =>
         /\ owner[host[m]] = NULL => depth[host[m]] = 0
         /\ owner[host[m]] # NULL => depth[host[m]] > 0
         /\ \A t \in Threads :
              held[m][t] = IF owner[host[m]] = t THEN depth[host[m]] ELSE 0
    /\ host[m] = NULL \/ Clearing(m) => \A t \in Threads : held[m][t] = 0

\* Unlocks are of held mutexes and nobody destroys one that is held.
Contract ==
  \A t \in Threads :
    /\ call[t].op = "unlock" => held[call[t].mutex][t] > 0
    /\ call[t].op = "wait" /\ pc[t] \notin {"asleep", "relock"} =>
         held[call[t].mutex][t] = 1
    /\ pc[t] = "relock" \/ pc[t] = "asleep" => held[call[t].mutex][t] = 0
    /\ call[t].op = "destroy" => \A u \in Threads : held[call[t].mutex][u] = 0

\* Exactly the sleepers of a condition are queued on its host object.
Queues ==
  /\ \A h \in Hosts : \A u \in queue[h] :
       pc[u] = "asleep" /\ got[u][call[u].cond] = h
  /\ \A u \in Threads : pc[u] = "asleep" => u \in queue[got[u][call[u].cond]]

IInv == /\ TypeOK /\ CallShape /\ FetchShape /\ InitLock /\ Exclusive
        /\ Words /\ Creation /\ Seen /\ Fetches /\ Holding /\ Contract /\ Queues

----------------------------------------------------------------------------
(* Steps that leave the words and the heap alone.                          *)

SameMakers ==
  \A u \in Threads :
    /\ pc'[u] = "clear" <=> pc[u] = "clear"
    /\ pc'[u] = "publish" <=> pc[u] = "publish"
    /\ pc[u] = "clear" => Target(u)' = Target(u)
    /\ pc[u] = "publish" => cur'[u] = cur[u]

LEMMA SameMakersFrame ==
  ASSUME SameMakers, NEW o
  PROVE  (Clearing(o)' <=> Clearing(o)) /\ (Publishing(o)' <=> Publishing(o))
  BY DEF SameMakers, Clearing, Publishing

LEMMA WordsFrame ==
  ASSUME Words, SameMakers, UNCHANGED <<magic, host, live>>
  PROVE  Words'
  BY SameMakersFrame DEF Words

LEMMA CreationFrame ==
  ASSUME Creation, SameMakers,
         UNCHANGED <<magic, host, live, new, stores>>,
         \A u \in Threads : new[u] # NULL =>
           owner'[new[u]] = owner[new[u]] /\ depth'[new[u]] = depth[new[u]]
  PROVE  Creation'
<1>1. \A o \in Objs : Clearing(o)' <=> Clearing(o)
  BY SameMakersFrame
<1>2. QED  BY <1>1 DEF Creation, SameMakers

LEMMA HoldingFrame ==
  ASSUME Holding, SameMakers, UNCHANGED <<host, owner, depth, held>>
  PROVE  Holding'
  BY SameMakersFrame DEF Holding

\* Past the fetches, the blob behind every argument is whole, live and its own.
LEMMA Resolved ==
  ASSUME SyncAssumption, IInv, NEW t \in Threads, NEW o \in Args(t),
         pc[t] \in {"use", "asleep", "relock"}, ~Destroying(t)
  PROVE  /\ o \in Objs /\ got[t][o] = host[o] /\ magic[o] /\ host[o] \in Hosts
         /\ host[o] # NULL /\ host[o] \in live /\ ~Clearing(o) /\ ~Publishing(o)
<1> USE DEF IInv
<1>1. o \in Objs
  BY DEF Args, CallShape, TypeOK, Calls, NoCall, Objs
<1>2. got[t][o] # NULL
  BY <1>1 DEF FetchShape, CallShape
<1>3. got[t][o] = host[o] /\ magic[o]
  BY <1>1, <1>2 DEF Fetches
<1>4. ~Clearing(o)
  BY DEF Exclusive, Clearing, CallShape
<1>5. ~Publishing(o)
  BY <1>1, <1>2, <1>3 DEF Publishing, Creation, TypeOK
<1>6. QED
  BY <1>1, <1>2, <1>3, <1>4, <1>5 DEF Words, TypeOK

----------------------------------------------------------------------------
(* The initial states.                                                     *)

LEMMA InitInv == Init => IInv
<1> SUFFICES ASSUME Init PROVE IInv
  OBVIOUS
<1> USE SyncAssumption DEF Init, NoCall, Objs
<1>1. TypeOK
  BY DEF TypeOK, PCs, Ops, Calls, NoCall, Objs
<1>2. CallShape
  BY DEF CallShape, NoCall, Calls, Ops, Destroying, Args, InFetch, Clearing,
     Publishing
<1>3. FetchShape
  BY DEF FetchShape, InFetch, Args, NoCall, Calls, Ops, Destroying, Objs,
     Clearing, Publishing
<1>4. InitLock
  BY DEF InitLock, Args, InFetch, Destroying, Clearing, Publishing
<1>5. Exclusive
  BY DEF Exclusive, Args, Target, Destroying, NoCall, Calls, Ops, Objs,
     InFetch, Clearing, Publishing
<1>6. Words
  BY DEF Words, Clearing, Publishing, Args, Target, Destroying, NoCall,
     InFetch, Objs
<1>7. Creation
  BY DEF Creation, Clearing, Publishing, Args, Target, Destroying, NoCall,
     InFetch, Objs
<1>8. Seen
  BY DEF Seen, Args, Target, Destroying, NoCall, InFetch, Objs, Clearing,
     Publishing
<1>9. Fetches
  BY DEF Fetches, Clearing, Publishing, Args, Target, Destroying, NoCall,
     InFetch, Objs
<1>10. Holding
  BY DEF Holding, Clearing, Args, Target, Destroying, NoCall, Objs, InFetch,
     Publishing
<1>11. Contract
  BY DEF Contract, Args, Target, Destroying, NoCall, Objs, Calls, Ops,
     InFetch, Clearing, Publishing
<1>12. Queues
  BY DEF Queues, Args, Target, Destroying, NoCall, Objs, Calls, Ops, InFetch,
     Clearing, Publishing
<1>13. QED
  BY <1>1, <1>2, <1>3, <1>4, <1>5, <1>6, <1>7, <1>8, <1>9, <1>10, <1>11, <1>12
     DEF IInv

----------------------------------------------------------------------------
(* One lemma per action, one step per part of the invariant.               *)

LEMMA CallInv ==
  ASSUME IInv, NEW t \in Threads, NEW c \in Calls, Call(t, c)
  PROVE  IInv'
<1> USE SyncAssumption DEF IInv
<1>a. SameMakers
  BY DEF SameMakers, TypeOK, CallShape, FetchShape, Queues, Destroying,
     Target, NoCall, Calls, Ops, Objs, Call, Defined, Unused, guestVars,
     heapVars, fetchVars
<1>1. TypeOK'
  BY DEF TypeOK, Call, PCs, Calls, Objs, guestVars, heapVars
<1>2. CallShape'
  BY DEF CallShape, TypeOK, Call, Defined, NoCall, Calls, Destroying
<1>3. FetchShape'
  BY DEF FetchShape, TypeOK, Call, InFetch, Args, Destroying
<1>4. InitLock'
  BY DEF InitLock, Call
<1>5. Exclusive'
  <2>1. /\ call' = [call EXCEPT ![t] = c] /\ pc[t] = "idle"
        /\ \A u \in Threads : Destroying(u) => {c.mutex, c.cond} \cap Args(u) = {}
        /\ c.op = "destroy" => c.mutex \in Mutexes /\ Unused(t, c.mutex)
        /\ c.op = "cdestroy" => c.cond \in Conds /\ Unused(t, c.cond)
    BY DEF Call, Defined, Calls, Ops
  <2>2. /\ call'[t] = c
        /\ \A u \in Threads \ {t} : call'[u] = call[u]
    BY <2>1 DEF TypeOK
  <2>3. SUFFICES ASSUME NEW v \in Threads, NEW u \in Threads, Destroying(u)', v # u
                 PROVE  Target(u)' \notin Args(v)'
    BY DEF Exclusive
  <2>4. CASE u = t
    <3>1. Args(v)' = Args(v)
      BY <2>2, <2>3, <2>4 DEF Args
    <3>2. Target(u)' \notin Args(v)
      BY <2>1, <2>2, <2>3, <2>4 DEF Target, Destroying, Unused
    <3>3. QED  BY <3>1, <3>2
  <2>5. CASE v = t
    <3>1. Destroying(u) /\ Target(u)' = Target(u)
      BY <2>2, <2>3, <2>5 DEF Destroying, Target
    <3>2. Target(u) \in Args(u)
      BY <3>1, SyncAssumption DEF Target, Destroying, CallShape, Args, Objs
    <3>3. Target(u) \notin {c.mutex, c.cond}
      BY <2>1, <3>1, <3>2
    <3>4. QED  BY <2>2, <2>5, <3>1, <3>3 DEF Args
  <2>6. CASE u # t /\ v # t
    BY <2>2, <2>3, <2>6 DEF Exclusive, Target, Args, Destroying
  <2>7. QED  BY <2>4, <2>5, <2>6
<1>6. Words'
  BY <1>a, WordsFrame DEF Call, Defined, Unused, guestVars, heapVars
<1>7. Creation'
  BY <1>a, CreationFrame DEF Call, Defined, Unused, guestVars, heapVars,
     fetchVars
<1>8. Seen'
  BY DEF Seen, Call, Target, guestVars
<1>9. Fetches'
  BY DEF Fetches, Call, guestVars
<1>10. Holding'
  BY <1>a, HoldingFrame DEF Call, Defined, Unused, guestVars, heapVars,
     fetchVars
<1>11. Contract'
  BY DEF Contract, Call, Defined, Unused, Calls
<1>12. Queues'
  BY DEF Queues, Call, heapVars
<1>13. QED
  BY <1>1, <1>2, <1>3, <1>4, <1>5, <1>6, <1>7, <1>8, <1>9, <1>10, <1>11, <1>12

LEMMA TestMagicInv ==
  ASSUME IInv, NEW t \in Threads, NEW o \in Objs, TestMagic(t, o)
  PROVE  IInv'
<1> USE SyncAssumption DEF IInv
<1>a. SameMakers
  BY DEF SameMakers, TypeOK, CallShape, FetchShape, Queues, Destroying,
     Target, NoCall, Calls, Ops, Objs, TestMagic, guestVars, heapVars,
     fetchVars
<1>1. TypeOK'
  BY DEF TypeOK, TestMagic, PCs, guestVars, heapVars
<1>2. CallShape'
  BY DEF CallShape, TestMagic, Destroying
<1>3. FetchShape'
  BY DEF FetchShape, TypeOK, TestMagic, InFetch, Args, Destroying
<1>4. InitLock'
  BY DEF InitLock, TestMagic
<1>5. Exclusive'
  BY DEF Exclusive, TestMagic, Args, Target, Destroying
<1>6. Words'
  BY <1>a, WordsFrame DEF TestMagic, guestVars, heapVars
<1>7. Creation'
  BY <1>a, CreationFrame DEF TestMagic, guestVars, heapVars, fetchVars
<1>8. Seen'
  BY DEF Seen, TypeOK, TestMagic, Target, guestVars
<1>9. Fetches'
  BY DEF Fetches, TestMagic, guestVars
<1>10. Holding'
  BY <1>a, HoldingFrame DEF TestMagic, guestVars, heapVars, fetchVars
<1>11. Contract'
  BY DEF Contract, TestMagic
<1>12. Queues'
  BY DEF Queues, TestMagic, heapVars
<1>13. QED
  BY <1>1, <1>2, <1>3, <1>4, <1>5, <1>6, <1>7, <1>8, <1>9, <1>10, <1>11, <1>12

LEMMA FastPathInv ==
  ASSUME IInv, NEW t \in Threads, FastPath(t)
  PROVE  IInv'
<1> USE SyncAssumption DEF IInv
<1>a. SameMakers
  BY DEF SameMakers, TypeOK, CallShape, FetchShape, Queues, Destroying,
     Target, NoCall, Calls, Ops, Objs, FastPath, Fetched, guestVars, heapVars,
     fetchVars
<1>c. /\ cur[t] \in Objs /\ cur[t] \in need[t]
      /\ host[cur[t]] \in Hosts /\ magic[cur[t]]
      /\ got' = [got EXCEPT ![t][cur[t]] = host[cur[t]]]
  BY DEF FastPath, Fetched, TypeOK, FetchShape, InFetch, Seen
<1>d. got' \in [Threads -> [Objs -> Hosts \cup {NULL}]]
  BY <1>c DEF TypeOK
<1>e. /\ got'[t] = [got[t] EXCEPT ![cur[t]] = host[cur[t]]]
      /\ \A u \in Threads \ {t} : got'[u] = got[u]
  BY <1>c DEF TypeOK
<1>1. TypeOK'
  <2>1. /\ pc' \in [Threads -> PCs] /\ need' \in [Threads -> SUBSET Objs]
         /\ cur' \in [Threads -> Objs \cup {NULL}]
    BY DEF TypeOK, FastPath, Fetched, PCs
  <2>2. QED
    BY <1>d, <2>1 DEF TypeOK, FastPath, guestVars, heapVars
<1>2. CallShape'
  BY DEF CallShape, FastPath, Fetched, Destroying
<1>3. FetchShape'
  BY <1>c, <1>d, <1>e DEF FetchShape, CallShape, TypeOK, FastPath, Fetched,
     InFetch, Args, Destroying
<1>4. InitLock'
  BY DEF InitLock, FastPath, Fetched
<1>5. Exclusive'
  BY DEF Exclusive, FastPath, Args, Target, Destroying
<1>6. Words'
  BY <1>a, WordsFrame DEF FastPath, Fetched, guestVars, heapVars
<1>7. Creation'
  BY <1>a, CreationFrame DEF FastPath, Fetched, guestVars, heapVars, fetchVars
<1>8. Seen'
  BY DEF Seen, TypeOK, FastPath, Fetched, Target, guestVars
<1>9. Fetches'
  BY <1>c, <1>e DEF Fetches, TypeOK, FastPath, Fetched, guestVars
<1>10. Holding'
  BY <1>a, HoldingFrame DEF FastPath, Fetched, guestVars, heapVars, fetchVars
<1>11. Contract'
  BY DEF Contract, FastPath, Fetched
<1>12. Queues'
  BY DEF Queues, FastPath, Fetched, heapVars
<1>13. QED
  BY <1>1, <1>2, <1>3, <1>4, <1>5, <1>6, <1>7, <1>8, <1>9, <1>10, <1>11, <1>12

LEMMA SlowPathInv ==
  ASSUME IInv, NEW t \in Threads, SlowPath(t)
  PROVE  IInv'
<1> USE SyncAssumption DEF IInv
<1>a. SameMakers
  BY DEF SameMakers, TypeOK, CallShape, FetchShape, Queues, Destroying,
     Target, NoCall, Calls, Ops, Objs, SlowPath, guestVars, heapVars,
     fetchVars
<1>1. TypeOK'
  BY DEF TypeOK, SlowPath, PCs, guestVars, heapVars, fetchVars
<1>2. CallShape'
  BY DEF CallShape, SlowPath, Destroying
<1>3. FetchShape'
  BY DEF FetchShape, SlowPath, InFetch, Args, Destroying, fetchVars
<1>4. InitLock'
  BY DEF InitLock, SlowPath
<1>5. Exclusive'
  BY DEF Exclusive, SlowPath, Args, Target, Destroying
<1>6. Words'
  BY <1>a, WordsFrame DEF SlowPath, guestVars, heapVars
<1>7. Creation'
  BY <1>a, CreationFrame DEF SlowPath, guestVars, heapVars, fetchVars
<1>8. Seen'
  BY DEF Seen, SlowPath, Target, guestVars, fetchVars
<1>9. Fetches'
  BY DEF Fetches, SlowPath, guestVars, fetchVars
<1>10. Holding'
  BY <1>a, HoldingFrame DEF SlowPath, guestVars, heapVars, fetchVars
<1>11. Contract'
  BY DEF Contract, SlowPath
<1>12. Queues'
  BY DEF Queues, SlowPath, heapVars, fetchVars
<1>13. QED
  BY <1>1, <1>2, <1>3, <1>4, <1>5, <1>6, <1>7, <1>8, <1>9, <1>10, <1>11, <1>12

LEMMA EnterInitLockInv ==
  ASSUME IInv, NEW t \in Threads, EnterInitLock(t)
  PROVE  IInv'
<1> USE SyncAssumption DEF IInv
<1>a. SameMakers
  BY DEF SameMakers, TypeOK, CallShape, FetchShape, Queues, Destroying,
     Target, NoCall, Calls, Ops, Objs, EnterInitLock, guestVars, heapVars,
     fetchVars
<1>1. TypeOK'
  BY DEF TypeOK, EnterInitLock, PCs, guestVars, heapVars, fetchVars
<1>2. CallShape'
  BY DEF CallShape, EnterInitLock, Destroying
<1>3. FetchShape'
  BY DEF FetchShape, EnterInitLock, InFetch, Args, Destroying, fetchVars
<1>4. InitLock'
  BY DEF InitLock, TypeOK, EnterInitLock
<1>5. Exclusive'
  BY DEF Exclusive, EnterInitLock, Args, Target, Destroying
<1>6. Words'
  BY <1>a, WordsFrame DEF EnterInitLock, guestVars, heapVars
<1>7. Creation'
  BY <1>a, CreationFrame DEF EnterInitLock, guestVars, heapVars, fetchVars
<1>8. Seen'
  BY DEF Seen, EnterInitLock, Target, guestVars, fetchVars
<1>9. Fetches'
  BY DEF Fetches, EnterInitLock, guestVars, fetchVars
<1>10. Holding'
  BY <1>a, HoldingFrame DEF EnterInitLock, guestVars, heapVars, fetchVars
<1>11. Contract'
  BY DEF Contract, EnterInitLock
<1>12. Queues'
  BY DEF Queues, EnterInitLock, heapVars, fetchVars
<1>13. QED
  BY <1>1, <1>2, <1>3, <1>4, <1>5, <1>6, <1>7, <1>8, <1>9, <1>10, <1>11, <1>12

LEMMA FoundMadeInv ==
  ASSUME IInv, NEW t \in Threads, FoundMade(t)
  PROVE  IInv'
<1> USE SyncAssumption DEF IInv
<1>a. SameMakers
  BY DEF SameMakers, TypeOK, CallShape, FetchShape, Queues, Destroying,
     Target, NoCall, Calls, Ops, Objs, FoundMade, Made, guestVars, heapVars,
     fetchVars
<1>1. TypeOK'
  BY DEF TypeOK, FoundMade, PCs, guestVars, heapVars, fetchVars
<1>2. CallShape'
  BY DEF CallShape, FoundMade, Destroying
<1>3. FetchShape'
  BY DEF FetchShape, FoundMade, InFetch, Args, Destroying, fetchVars
<1>4. InitLock'
  BY DEF InitLock, FoundMade
<1>5. Exclusive'
  BY DEF Exclusive, FoundMade, Args, Target, Destroying
<1>6. Words'
  BY <1>a, WordsFrame DEF FoundMade, Made, guestVars, heapVars
<1>7. Creation'
  BY <1>a, CreationFrame DEF FoundMade, Made, guestVars, heapVars, fetchVars
<1>8. Seen'
  BY DEF Seen, FoundMade, Made, Target, guestVars, fetchVars
<1>9. Fetches'
  BY DEF Fetches, FoundMade, guestVars, fetchVars
<1>10. Holding'
  BY <1>a, HoldingFrame DEF FoundMade, Made, guestVars, heapVars, fetchVars
<1>11. Contract'
  BY DEF Contract, FoundMade
<1>12. Queues'
  BY DEF Queues, FoundMade, heapVars, fetchVars
<1>13. QED
  BY <1>1, <1>2, <1>3, <1>4, <1>5, <1>6, <1>7, <1>8, <1>9, <1>10, <1>11, <1>12

LEMMA MakeInv ==
  ASSUME IInv, NEW t \in Threads, NEW h \in Hosts, Make(t, h)
  PROVE  IInv'
<1> USE SyncAssumption DEF IInv
<1>a. /\ h \notin live /\ live' = live \cup {h}
      /\ owner' = [owner EXCEPT ![h] = NULL] /\ depth' = [depth EXCEPT ![h] = 0]
      /\ queue' = [queue EXCEPT ![h] = {}]
      /\ new' = [new EXCEPT ![t] = h]
      /\ stores' = [stores EXCEPT ![t] = {"host", "magic"}]
      /\ pc[t] = "check" /\ pc' = [pc EXCEPT ![t] = "publish"]
      /\ UNCHANGED <<magic, host, initOwner, call, need, cur, got, held>>
  BY DEF Make, Construct, guestVars
<1>b. cur[t] \in Objs /\ ~Publishing(cur[t]) /\ host[cur[t]] = NULL /\ ~magic[cur[t]]
  <2>1. cur[t] \in Objs
    BY <1>a DEF FetchShape, InFetch, TypeOK
  <2>2. ~Publishing(cur[t])
    BY <1>a DEF Publishing, InitLock
  <2>3. QED  BY <2>1, <2>2 DEF Words, Make, Made, TypeOK
<1>c. \A o \in Objs : Clearing(o)' <=> Clearing(o)
  BY <1>a DEF Clearing, Target, TypeOK
<1>d. \A o \in Objs : Publishing(o)' <=> (Publishing(o) \/ o = cur[t])
  BY <1>a DEF Publishing, TypeOK
<1>e. \A o \in Objs : host[o] # NULL /\ ~Clearing(o) => host[o] \in Hosts \ {h}
  BY <1>a DEF Words, TypeOK
<1>1. TypeOK'
  BY DEF TypeOK, Make, Construct, PCs, guestVars
<1>2. CallShape'
  BY DEF CallShape, Make, Construct, Destroying
<1>3. FetchShape'
  BY DEF FetchShape, Make, Construct, InFetch, Args, Destroying
<1>4. InitLock'
  BY DEF InitLock, Make, Construct
<1>5. Exclusive'
  BY DEF Exclusive, Make, Construct, Args, Target, Destroying
<1>6. Words'
  BY <1>a, <1>b, <1>c, <1>d DEF Words
<1>7. Creation'
  <2>1. \A u \in Threads \ {t} : new[u] # NULL => new[u] \in Hosts \ {h}
    BY <1>a DEF Creation, TypeOK
  <2>2. \A u \in Threads \ {t} :
          /\ pc'[u] = pc[u] /\ stores'[u] = stores[u] /\ new'[u] = new[u]
          /\ new[u] # NULL => owner'[new[u]] = owner[new[u]] /\ depth'[new[u]] = depth[new[u]]
    BY <1>a, <2>1 DEF TypeOK
  <2>3. /\ pc'[t] = "publish" /\ stores'[t] = {"host", "magic"} /\ new'[t] = h
        /\ owner'[h] = NULL /\ depth'[h] = 0 /\ h # NULL
    BY <1>a, SyncAssumption DEF TypeOK
  <2>4. \A o \in Objs : host[o] = h => Clearing(o)
    BY <1>e, <2>3
  <2>5. QED  BY <1>a, <1>b, <1>c, <2>2, <2>3, <2>4 DEF Creation
<1>8. Seen'
  BY DEF Seen, Make, Construct, Target, guestVars
<1>9. Fetches'
  BY DEF Fetches, Make, Construct, guestVars
<1>10. Holding'
  <2>1. \A n \in Mutexes : host[n] # NULL /\ ~Clearing(n) =>
          owner'[host[n]] = owner[host[n]] /\ depth'[host[n]] = depth[host[n]]
    BY <1>a, <1>e DEF TypeOK, Objs
  <2>2. QED  BY <1>a, <1>c, <2>1 DEF Holding, Objs
<1>11. Contract'
  BY DEF Contract, Make, Construct
<1>12. Queues'
  <2>1. \A u \in Threads : pc'[u] = "asleep" <=> pc[u] = "asleep"
    BY <1>a DEF TypeOK
  <2>2. \A u \in Threads : pc[u] = "asleep" =>
          got[u][call[u].cond] \in Hosts \ {h}
    <3>1. SUFFICES ASSUME NEW u \in Threads, pc[u] = "asleep"
                   PROVE  got[u][call[u].cond] \in Hosts \ {h}
      OBVIOUS
    <3>2. call[u].cond \in Args(u) /\ ~Destroying(u)
      BY <3>1, SyncAssumption DEF CallShape, Args, Objs
    <3>3. QED  BY <1>a, <3>1, <3>2, Resolved
  <2>3. \A g \in Hosts \ {h} : queue'[g] = queue[g]
    BY <1>a DEF TypeOK
  <2>4. queue'[h] = {}
    BY <1>a DEF TypeOK
  <2>5. QED  BY <1>a, <2>1, <2>2, <2>3, <2>4 DEF Queues, TypeOK
<1>13. QED
  BY <1>1, <1>2, <1>3, <1>4, <1>5, <1>6, <1>7, <1>8, <1>9, <1>10, <1>11, <1>12

LEMMA StoreHostInv ==
  ASSUME IInv, NEW t \in Threads, StoreHost(t)
  PROVE  IInv'
<1> USE SyncAssumption DEF IInv
<1>a. /\ pc[t] = "publish" /\ cur[t] \in Objs /\ "host" \in stores[t]
      /\ host' = [host EXCEPT ![cur[t]] = new[t]]
      /\ new' = [new EXCEPT ![t] = NULL]
      /\ stores' = [stores EXCEPT ![t] = @ \ {"host"}]
      /\ pc' = [pc EXCEPT ![t] = IF stores[t] = {"host"} THEN "leave" ELSE "publish"]
      /\ UNCHANGED <<magic, live, owner, depth, queue, initOwner, call, need, cur, got, held>>
  BY DEF StoreHost, Stored, heapVars, FetchShape, InFetch, TypeOK
<1>b. /\ host[cur[t]] = NULL /\ new[t] \in Hosts /\ new[t] # NULL /\ new[t] \in live
      /\ owner[new[t]] = NULL /\ depth[new[t]] = 0
      /\ \A o \in Objs : host[o] = new[t] => Clearing(o)
  BY <1>a DEF Creation, TypeOK
<1>c. \A o \in Objs : Clearing(o)' <=> Clearing(o)
  BY <1>a DEF Clearing, Target, TypeOK
<1>d. ~Clearing(cur[t])
  BY <1>a, <1>b DEF Clearing, Seen
<1>e. \A u \in Threads : pc[u] = "publish" => u = t
  BY <1>a DEF InitLock
<1>f. /\ host'[cur[t]] = new[t]
      /\ \A o \in Objs \ {cur[t]} : host'[o] = host[o]
  BY <1>a DEF TypeOK
<1>1. TypeOK'
  <2>1. host' \in [Objs -> Hosts \cup {NULL}] /\ pc' \in [Threads -> PCs]
    BY <1>a, <1>b DEF TypeOK, PCs
  <2>2. new' \in [Threads -> Hosts \cup {NULL}] /\ stores' \in [Threads -> SUBSET {"host", "magic"}]
    BY <1>a, <1>b DEF TypeOK
  <2>3. QED  BY <1>a, <2>1, <2>2 DEF TypeOK
<1>2. CallShape'
  BY DEF CallShape, StoreHost, Stored, Destroying
<1>3. FetchShape'
  BY DEF FetchShape, StoreHost, Stored, InFetch, Args, Destroying
<1>4. InitLock'
  BY DEF InitLock, StoreHost, Stored
<1>5. Exclusive'
  BY DEF Exclusive, StoreHost, Args, Target, Destroying
<1>6. Words'
  <2>1. \A o \in Objs : host'[o] # NULL /\ ~Clearing(o) => host'[o] \in live
    BY <1>b, <1>f DEF Words
  <2>2. \A o \in Objs \ {cur[t]} : ~Publishing(o)
    BY <1>e DEF Publishing
  <2>3. magic[cur[t]] <=> "magic" \notin stores[t]
    BY <1>a DEF Creation
  <2>4. stores[t] = {"host"} <=> "magic" \notin stores[t]
    BY <1>a DEF TypeOK
  <2>5. \A o \in Objs : o = cur[t] => (Publishing(o)' <=> "magic" \in stores[t])
    BY <1>a, <1>e, <2>4 DEF Publishing, TypeOK
  <2>6. \A o \in Objs : ~Publishing(o)' => (magic[o] <=> host'[o] # NULL)
    <3>1. SUFFICES ASSUME NEW o \in Objs, ~Publishing(o)'
                   PROVE  magic[o] <=> host'[o] # NULL
      OBVIOUS
    <3>2. CASE o = cur[t]  BY <1>b, <1>f, <2>3, <2>5, <3>1, <3>2
    <3>3. CASE o # cur[t]  BY <1>f, <2>2, <3>1, <3>3 DEF Words
    <3>4. QED  BY <3>2, <3>3
  <2>7. \A o, p \in Objs :
          host'[o] = host'[p] /\ host'[o] # NULL /\ ~Clearing(o) /\ ~Clearing(p) => o = p
    BY <1>b, <1>f DEF Words
  <2>8. QED  BY <1>a, <1>c, <2>1, <2>6, <2>7 DEF Words
<1>7. Creation'
  BY DEF Creation, TypeOK, FetchShape, InitLock, StoreHost, Stored, InFetch
<1>8. Seen'
  BY DEF Seen, TypeOK, FetchShape, Creation, StoreHost, Stored, Target,
         InFetch
<1>9. Fetches'
  BY DEF Fetches, Creation, StoreHost
<1>10. Holding'
  <2>1. \A n \in Mutexes : n = cur[t] => \A u \in Threads : held[n][u] = 0
    BY <1>b DEF Holding
  <2>2. \A n \in Mutexes \ {cur[t]} : host'[n] = host[n]
    BY <1>f DEF Objs
  <2>3. NULL \notin Threads
    BY SyncAssumption
  <2>4. QED  BY <1>a, <1>b, <1>c, <1>d, <1>f, <2>1, <2>2, <2>3 DEF Holding, Objs
<1>11. Contract'
  BY DEF Contract, StoreHost, Stored
<1>12. Queues'
  BY DEF Queues, StoreHost, Stored, heapVars
<1>13. QED
  BY <1>1, <1>2, <1>3, <1>4, <1>5, <1>6, <1>7, <1>8, <1>9, <1>10, <1>11, <1>12

LEMMA StoreMagicInv ==
  ASSUME IInv, NEW t \in Threads, StoreMagic(t)
  PROVE  IInv'
<1> USE SyncAssumption DEF IInv
<1>a. /\ pc[t] = "publish" /\ cur[t] \in Objs /\ "magic" \in stores[t]
      /\ magic' = [magic EXCEPT ![cur[t]] = TRUE]
      /\ stores' = [stores EXCEPT ![t] = @ \ {"magic"}]
      /\ pc' = [pc EXCEPT ![t] = IF stores[t] = {"magic"} THEN "leave" ELSE "publish"]
      /\ UNCHANGED <<host, live, owner, depth, queue, initOwner, call, need, cur, new, got, held>>
  BY DEF StoreMagic, Stored, heapVars, FetchShape, InFetch, TypeOK
<1>c. \A o \in Objs : Clearing(o)' <=> Clearing(o)
  BY <1>a DEF Clearing, Target, TypeOK
<1>e. \A u \in Threads : pc[u] = "publish" => u = t
  BY <1>a DEF InitLock
<1>f. /\ magic'[cur[t]]
      /\ \A o \in Objs \ {cur[t]} : magic'[o] = magic[o]
  BY <1>a DEF TypeOK
<1>g. /\ "host" \in stores[t] <=> host[cur[t]] = NULL
      /\ ~magic[cur[t]]
  BY <1>a DEF Creation
<1>1. TypeOK'
  <2>1. magic' \in [Objs -> BOOLEAN] /\ pc' \in [Threads -> PCs]
    BY <1>a DEF TypeOK, PCs
  <2>2. stores' \in [Threads -> SUBSET {"host", "magic"}]
    BY <1>a DEF TypeOK
  <2>3. QED  BY <1>a, <2>1, <2>2 DEF TypeOK
<1>2. CallShape'
  BY DEF CallShape, StoreMagic, Stored, Destroying
<1>3. FetchShape'
  BY DEF FetchShape, StoreMagic, Stored, InFetch, Args, Destroying
<1>4. InitLock'
  BY DEF InitLock, StoreMagic, Stored
<1>5. Exclusive'
  BY DEF Exclusive, StoreMagic, Args, Target, Destroying
<1>6. Words'
  <2>1. stores[t] = {"magic"} <=> "host" \notin stores[t]
    BY <1>a DEF TypeOK
  <2>2. \A o \in Objs \ {cur[t]} : ~Publishing(o)
    BY <1>e DEF Publishing
  <2>3. \A o \in Objs : o = cur[t] => (Publishing(o)' <=> "host" \in stores[t])
    BY <1>a, <1>e, <2>1 DEF Publishing, TypeOK
  <2>4. \A o \in Objs : ~Publishing(o)' => (magic'[o] <=> host[o] # NULL)
    <3>1. SUFFICES ASSUME NEW o \in Objs, ~Publishing(o)'
                   PROVE  magic'[o] <=> host[o] # NULL
      OBVIOUS
    <3>2. CASE o = cur[t]  BY <1>f, <1>g, <2>3, <3>1, <3>2
    <3>3. CASE o # cur[t]  BY <1>f, <2>2, <3>1, <3>3 DEF Words
    <3>4. QED  BY <3>2, <3>3
  <2>5. QED  BY <1>a, <1>c, <2>4 DEF Words
<1>7. Creation'
  BY DEF Creation, TypeOK, CallShape, FetchShape, InitLock, Words,
         StoreMagic, Stored, Clearing, Publishing, Target, Destroying,
         InFetch, Objs, heapVars
<1>8. Seen'
  BY DEF Seen, TypeOK, FetchShape, Creation, StoreMagic, Stored, Target,
         InFetch
<1>9. Fetches'
  BY DEF Fetches, StoreMagic
<1>10. Holding'
  BY <1>a, <1>c DEF Holding, Objs
<1>11. Contract'
  BY DEF Contract, StoreMagic, Stored
<1>12. Queues'
  BY DEF Queues, StoreMagic, Stored, heapVars
<1>13. QED
  BY <1>1, <1>2, <1>3, <1>4, <1>5, <1>6, <1>7, <1>8, <1>9, <1>10, <1>11, <1>12

LEMMA LeaveInitLockInv ==
  ASSUME IInv, NEW t \in Threads, LeaveInitLock(t)
  PROVE  IInv'
<1> USE SyncAssumption DEF IInv
<1>a. SameMakers
  BY DEF SameMakers, TypeOK, CallShape, FetchShape, Queues, Destroying,
     Target, NoCall, Calls, Ops, Objs, LeaveInitLock, guestVars, heapVars,
     fetchVars
<1>1. TypeOK'
  BY DEF TypeOK, LeaveInitLock, PCs, guestVars, heapVars, fetchVars
<1>2. CallShape'
  BY DEF CallShape, LeaveInitLock, Destroying
<1>3. FetchShape'
  BY DEF FetchShape, LeaveInitLock, InFetch, Args, Destroying, fetchVars
<1>4. InitLock'
  BY DEF InitLock, TypeOK, LeaveInitLock
<1>5. Exclusive'
  BY DEF Exclusive, LeaveInitLock, Args, Target, Destroying
<1>6. Words'
  BY <1>a, WordsFrame DEF LeaveInitLock, guestVars, heapVars
<1>7. Creation'
  BY <1>a, CreationFrame DEF LeaveInitLock, guestVars, heapVars, fetchVars
<1>8. Seen'
  BY DEF Seen, LeaveInitLock, Target, guestVars, fetchVars
<1>9. Fetches'
  BY DEF Fetches, LeaveInitLock, guestVars, fetchVars
<1>10. Holding'
  BY <1>a, HoldingFrame DEF LeaveInitLock, guestVars, heapVars, fetchVars
<1>11. Contract'
  BY DEF Contract, LeaveInitLock
<1>12. Queues'
  BY DEF Queues, LeaveInitLock, heapVars, fetchVars
<1>13. QED
  BY <1>1, <1>2, <1>3, <1>4, <1>5, <1>6, <1>7, <1>8, <1>9, <1>10, <1>11, <1>12

LEMMA ReloadInv ==
  ASSUME IInv, NEW t \in Threads, Reload(t)
  PROVE  IInv'
<1> USE SyncAssumption DEF IInv
<1>a. SameMakers
  BY DEF SameMakers, TypeOK, CallShape, FetchShape, Queues, Destroying,
     Target, NoCall, Calls, Ops, Objs, Reload, Fetched, guestVars, heapVars,
     fetchVars
<1>c. /\ cur[t] \in Objs /\ cur[t] \in need[t]
      /\ host[cur[t]] \in Hosts /\ magic[cur[t]]
      /\ got' = [got EXCEPT ![t][cur[t]] = host[cur[t]]]
  BY DEF Reload, Fetched, TypeOK, FetchShape, InFetch, Seen
<1>d. got' \in [Threads -> [Objs -> Hosts \cup {NULL}]]
  BY <1>c DEF TypeOK
<1>e. /\ got'[t] = [got[t] EXCEPT ![cur[t]] = host[cur[t]]]
      /\ \A u \in Threads \ {t} : got'[u] = got[u]
  BY <1>c DEF TypeOK
<1>1. TypeOK'
  <2>1. /\ pc' \in [Threads -> PCs] /\ need' \in [Threads -> SUBSET Objs]
         /\ cur' \in [Threads -> Objs \cup {NULL}]
    BY DEF TypeOK, Reload, Fetched, PCs
  <2>2. QED
    BY <1>d, <2>1 DEF TypeOK, Reload, guestVars, heapVars
<1>2. CallShape'
  BY DEF CallShape, Reload, Fetched, Destroying
<1>3. FetchShape'
  BY <1>c, <1>d, <1>e DEF FetchShape, CallShape, TypeOK, Reload, Fetched,
     InFetch, Args, Destroying
<1>4. InitLock'
  BY DEF InitLock, Reload, Fetched
<1>5. Exclusive'
  BY DEF Exclusive, Reload, Args, Target, Destroying
<1>6. Words'
  BY <1>a, WordsFrame DEF Reload, Fetched, guestVars, heapVars
<1>7. Creation'
  BY <1>a, CreationFrame DEF Reload, Fetched, guestVars, heapVars, fetchVars
<1>8. Seen'
  BY DEF Seen, TypeOK, Reload, Fetched, Target, guestVars
<1>9. Fetches'
  BY <1>c, <1>e DEF Fetches, TypeOK, Reload, Fetched, guestVars
<1>10. Holding'
  BY <1>a, HoldingFrame DEF Reload, Fetched, guestVars, heapVars, fetchVars
<1>11. Contract'
  BY DEF Contract, Reload, Fetched
<1>12. Queues'
  BY DEF Queues, Reload, Fetched, heapVars
<1>13. QED
  BY <1>1, <1>2, <1>3, <1>4, <1>5, <1>6, <1>7, <1>8, <1>9, <1>10, <1>11, <1>12

LEMMA ObjInitInv ==
  ASSUME IInv, NEW t \in Threads, ObjInit(t)
  PROVE  IInv'
<1> USE SyncAssumption DEF IInv
<1>a. SameMakers
  BY DEF SameMakers, TypeOK, CallShape, FetchShape, Queues, Destroying,
     Target, NoCall, Calls, Ops, Objs, ObjInit, Using, Return, guestVars,
     heapVars, fetchVars
<1>1. TypeOK'
  BY DEF TypeOK, ObjInit, Return, PCs, guestVars, heapVars
<1>2. CallShape'
  BY DEF CallShape, TypeOK, ObjInit, Return, NoCall, Destroying
<1>3. FetchShape'
  BY DEF FetchShape, TypeOK, ObjInit, Return, InFetch, Args, Destroying
<1>4. InitLock'
  BY DEF InitLock, ObjInit, Using, Return
<1>5. Exclusive'
  BY DEF Exclusive, ObjInit, Return, Args, Target, Destroying, NoCall
<1>6. Words'
  BY <1>a, WordsFrame DEF ObjInit, Using, Return, guestVars, heapVars
<1>7. Creation'
  BY <1>a, CreationFrame DEF ObjInit, Using, Return, guestVars, heapVars,
     fetchVars
<1>8. Seen'
  BY DEF Seen, TypeOK, ObjInit, Return, Target, guestVars
<1>9. Fetches'
  BY DEF Fetches, ObjInit, Return, guestVars
<1>10. Holding'
  BY <1>a, HoldingFrame DEF ObjInit, Using, Return, guestVars, heapVars,
     fetchVars
<1>11. Contract'
  BY DEF Contract, TypeOK, ObjInit, Return, NoCall
<1>12. Queues'
  BY DEF Queues, ObjInit, Using, Return, heapVars
<1>13. QED
  BY <1>1, <1>2, <1>3, <1>4, <1>5, <1>6, <1>7, <1>8, <1>9, <1>10, <1>11, <1>12

LEMMA MutexLockInv ==
  ASSUME IInv, NEW t \in Threads, MutexLock(t)
  PROVE  IInv'
<1> USE SyncAssumption DEF IInv
<1>a. SameMakers
  BY DEF SameMakers, TypeOK, CallShape, FetchShape, Queues, Destroying,
     Target, NoCall, Calls, Ops, Objs, MutexLock, Using, Acquire, Return,
     guestVars, heapVars, fetchVars
<1>p. pc[t] \in {"use", "asleep", "relock"} /\ ~Destroying(t) /\ call[t].mutex \in Mutexes
  BY DEF MutexLock, Using, Acquire, Return, CallShape, Destroying
<1>q. call[t].mutex \in Args(t)
  BY <1>p, SyncAssumption DEF Args, Objs
<1>b. /\ call[t].mutex \in Mutexes
      /\ got[t][call[t].mutex] = host[call[t].mutex]
      /\ host[call[t].mutex] \in Hosts /\ host[call[t].mutex] \in live
      /\ ~Clearing(call[t].mutex) /\ host[call[t].mutex] # NULL
  BY <1>p, <1>q, Resolved
<1> DEFINE m == call[t].mutex
           h == host[m]
<1>c. /\ owner[h] \in {NULL, t} /\ owner' = [owner EXCEPT ![h] = t]
      /\ depth' = [depth EXCEPT ![h] = @ + 1]
      /\ held' = [held EXCEPT ![m][t] = @ + 1]
      /\ UNCHANGED <<magic, host, live, queue, initOwner>>
  BY <1>b DEF MutexLock, Acquire, guestVars
<1>d. depth[h] \in Nat /\ held[m][t] \in Nat /\ owner[h] \in Threads \cup {NULL}
  BY <1>b DEF TypeOK
<1>e. held[m][t] = depth[h] /\ (owner[h] = NULL => depth[h] = 0)
  BY <1>b, <1>c, <1>d DEF Holding
<1>f. /\ held'[m][t] = depth'[h] /\ depth'[h] \in Nat
      /\ owner'[h] = (IF depth'[h] = 0 THEN NULL ELSE t)
      /\ \A u \in Threads \ {t} : held'[m][u] = held[m][u] /\ held[m][u] = 0
      /\ \A n \in Mutexes \ {m} : held'[n] = held[n]
      /\ \A g \in Hosts \ {h} : owner'[g] = owner[g] /\ depth'[g] = depth[g]
  BY SMTT(60), <1>b, <1>c, <1>d, <1>e, SyncAssumption DEF TypeOK, Holding
<1>g. held' \in [Mutexes -> [Threads -> Nat]]
  <2>1. held[m] \in [Threads -> Nat] /\ held[m][t] + 1 \in Nat
    BY <1>b, <1>d, <1>e DEF TypeOK
  <2> DEFINE row == [held[m] EXCEPT ![t] = held[m][t] + 1]
  <2>2. row \in [Threads -> Nat]
    BY <2>1
  <2>3. held' = [held EXCEPT ![m] = row]
    BY <1>c
  <2> HIDE DEF row
  <2>4. QED  BY <1>b, <2>2, <2>3 DEF TypeOK
<1>1. TypeOK'
  <2>1. /\ owner' \in [Hosts -> Threads \cup {NULL}]
         /\ depth' \in [Hosts -> Nat]
    BY <1>b, <1>c, <1>d, <1>e DEF TypeOK
  <2>2. pc' \in [Threads -> PCs] /\ call' \in [Threads -> Calls \cup {NoCall}]
    BY DEF TypeOK, MutexLock, Using, Acquire, Return, PCs
  <2>3. /\ need' \in [Threads -> SUBSET Objs] /\ cur' \in [Threads -> Objs \cup {NULL}]
        /\ got' \in [Threads -> [Objs -> Hosts \cup {NULL}]]
    BY DEF TypeOK, MutexLock, Using, Acquire, Return, fetchVars
  <2>4. QED
    BY <1>c, <1>g, <2>1, <2>2, <2>3 DEF TypeOK, MutexLock, Using, Acquire,
       Return, fetchVars
<1>2. CallShape'
  BY DEF CallShape, TypeOK, MutexLock, Return, NoCall, Destroying
<1>3. FetchShape'
  BY DEF FetchShape, TypeOK, MutexLock, Return, InFetch, Args, Destroying
<1>4. InitLock'
  BY DEF InitLock, MutexLock, Using, Return
<1>5. Exclusive'
  BY DEF Exclusive, MutexLock, Return, Args, Target, Destroying, NoCall
<1>6. Words'
  BY <1>a, WordsFrame DEF MutexLock, Using, Acquire, Return, guestVars, heapVars
<1>7. Creation'
  <2>1. \A u \in Threads : new[u] # NULL => new[u] \in Hosts /\ new[u] # h
    BY <1>b DEF Creation, TypeOK, Objs
  <2>2. \A u \in Threads : new[u] # NULL =>
          owner'[new[u]] = owner[new[u]] /\ depth'[new[u]] = depth[new[u]]
    BY <1>f, <2>1
  <2>3. UNCHANGED <<new, stores>>
    BY DEF MutexLock, Using, Acquire, Return, fetchVars
  <2>4. QED  BY <1>a, <1>c, <2>2, <2>3, CreationFrame
<1>8. Seen'
  BY DEF Seen, TypeOK, MutexLock, Return, Target, guestVars
<1>9. Fetches'
  BY DEF Fetches, MutexLock, Return, guestVars
<1>10. Holding'
  <2>1. \A o \in Objs : Clearing(o)' <=> Clearing(o)
    BY <1>a, SameMakersFrame
  <2>2. SUFFICES ASSUME NEW n \in Mutexes
                 PROVE  /\ host[n] # NULL /\ ~Clearing(n) =>
                             /\ owner'[host[n]] = NULL => depth'[host[n]] = 0
                             /\ owner'[host[n]] # NULL => depth'[host[n]] > 0
                             /\ \A u \in Threads : held'[n][u] =
                                  IF owner'[host[n]] = u THEN depth'[host[n]] ELSE 0
                        /\ host[n] = NULL \/ Clearing(n) =>
                             \A u \in Threads : held'[n][u] = 0
    BY <1>c, <2>1 DEF Holding, Objs
  <2>3. CASE n = m
    <3>1. NULL \notin Threads
      BY SyncAssumption
    <3>2. host[n] = h /\ ~Clearing(n) /\ h # NULL
      BY <1>b, <2>3
    <3>3. owner'[h] = NULL \/ owner'[h] = t
      BY <1>f
    <3>4. \A u \in Threads : held'[m][u] = IF owner'[h] = u THEN depth'[h] ELSE 0
      BY <1>f, <3>1
    <3> HIDE DEF m, h
    <3>5. QED  BY <1>f, <2>3, <3>1, <3>2, <3>3, <3>4
  <2>4. CASE n # m
    <3>1. held'[n] = held[n]
      BY <1>f, <2>4
    <3>2. host[n] # NULL /\ ~Clearing(n) => host[n] \in Hosts /\ host[n] # h
      BY <1>b, <2>4 DEF Words, Objs, TypeOK
    <3>3. host[n] # NULL /\ ~Clearing(n) =>
            owner'[host[n]] = owner[host[n]] /\ depth'[host[n]] = depth[host[n]]
      BY <1>f, <3>2
    <3>4. QED  BY <3>1, <3>3 DEF Holding
  <2>5. QED  BY <2>3, <2>4
<1>11. Contract'
  BY DEF Contract, TypeOK, Exclusive, MutexLock, Acquire, Return, Args,
         Target, Destroying, NoCall, Objs
<1>12. Queues'
  BY DEF Queues, MutexLock, Using, Return
<1>13. QED
  BY <1>1, <1>2, <1>3, <1>4, <1>5, <1>6, <1>7, <1>8, <1>9, <1>10, <1>11, <1>12

LEMMA TrylockBusyInv ==
  ASSUME IInv, NEW t \in Threads, TrylockBusy(t)
  PROVE  IInv'
<1> USE SyncAssumption DEF IInv
<1>a. SameMakers
  BY DEF SameMakers, TypeOK, CallShape, FetchShape, Queues, Destroying,
     Target, NoCall, Calls, Ops, Objs, TrylockBusy, Using, Return, guestVars,
     heapVars, fetchVars
<1>1. TypeOK'
  BY DEF TypeOK, TrylockBusy, Return, PCs, guestVars, heapVars
<1>2. CallShape'
  BY DEF CallShape, TypeOK, TrylockBusy, Return, NoCall, Destroying
<1>3. FetchShape'
  BY DEF FetchShape, TypeOK, TrylockBusy, Return, InFetch, Args, Destroying
<1>4. InitLock'
  BY DEF InitLock, TrylockBusy, Using, Return
<1>5. Exclusive'
  BY DEF Exclusive, TrylockBusy, Return, Args, Target, Destroying, NoCall
<1>6. Words'
  BY <1>a, WordsFrame DEF TrylockBusy, Using, Return, guestVars, heapVars
<1>7. Creation'
  BY <1>a, CreationFrame DEF TrylockBusy, Using, Return, guestVars, heapVars,
     fetchVars
<1>8. Seen'
  BY DEF Seen, TypeOK, TrylockBusy, Return, Target, guestVars
<1>9. Fetches'
  BY DEF Fetches, TrylockBusy, Return, guestVars
<1>10. Holding'
  BY <1>a, HoldingFrame DEF TrylockBusy, Using, Return, guestVars, heapVars,
     fetchVars
<1>11. Contract'
  BY DEF Contract, TypeOK, TrylockBusy, Return, NoCall
<1>12. Queues'
  BY DEF Queues, TrylockBusy, Using, Return, heapVars
<1>13. QED
  BY <1>1, <1>2, <1>3, <1>4, <1>5, <1>6, <1>7, <1>8, <1>9, <1>10, <1>11, <1>12

LEMMA MutexUnlockInv ==
  ASSUME IInv, NEW t \in Threads, MutexUnlock(t)
  PROVE  IInv'
<1> USE SyncAssumption DEF IInv
<1>a. SameMakers
  BY DEF SameMakers, TypeOK, CallShape, FetchShape, Queues, Destroying,
     Target, NoCall, Calls, Ops, Objs, MutexUnlock, Using, Release, Return,
     guestVars, heapVars, fetchVars
<1>p. pc[t] \in {"use", "asleep", "relock"} /\ ~Destroying(t) /\ call[t].mutex \in Mutexes
  BY DEF MutexUnlock, Using, Release, Return, CallShape, Destroying
<1>q. call[t].mutex \in Args(t)
  BY <1>p, SyncAssumption DEF Args, Objs
<1>b. /\ call[t].mutex \in Mutexes
      /\ got[t][call[t].mutex] = host[call[t].mutex]
      /\ host[call[t].mutex] \in Hosts /\ host[call[t].mutex] \in live
      /\ ~Clearing(call[t].mutex) /\ host[call[t].mutex] # NULL
  BY <1>p, <1>q, Resolved
<1> DEFINE m == call[t].mutex
           h == host[m]
<1>c. /\ owner' = [owner EXCEPT ![h] = IF depth[h] = 1 THEN NULL ELSE @]
      /\ depth' = [depth EXCEPT ![h] = @ - 1]
      /\ held' = [held EXCEPT ![m][t] = @ - 1]
      /\ UNCHANGED <<magic, host, live, initOwner>>
  BY <1>b DEF MutexUnlock, Release, guestVars
<1>d. depth[h] \in Nat /\ held[m][t] \in Nat /\ owner[h] \in Threads \cup {NULL}
  BY <1>b DEF TypeOK
<1>e. owner[h] = t /\ depth[h] > 0 /\ held[m][t] = depth[h]
  <2>1. held[m][t] > 0
    BY <1>d DEF MutexUnlock, Using, Contract
  <2>2. QED  BY <1>b, <1>d, <2>1 DEF Holding
<1>f. /\ held'[m][t] = depth'[h] /\ depth'[h] \in Nat
      /\ owner'[h] = (IF depth'[h] = 0 THEN NULL ELSE t)
      /\ \A u \in Threads \ {t} : held'[m][u] = held[m][u] /\ held[m][u] = 0
      /\ \A n \in Mutexes \ {m} : held'[n] = held[n]
      /\ \A g \in Hosts \ {h} : owner'[g] = owner[g] /\ depth'[g] = depth[g]
  BY <1>b, <1>c, <1>d, <1>e, SyncAssumption DEF TypeOK, Holding
<1>g. held' \in [Mutexes -> [Threads -> Nat]]
  <2>1. held[m] \in [Threads -> Nat] /\ held[m][t] - 1 \in Nat
    BY <1>b, <1>d, <1>e DEF TypeOK
  <2> DEFINE row == [held[m] EXCEPT ![t] = held[m][t] - 1]
  <2>2. row \in [Threads -> Nat]
    BY <2>1
  <2>3. held' = [held EXCEPT ![m] = row]
    BY <1>c
  <2> HIDE DEF row
  <2>4. QED  BY <1>b, <2>2, <2>3 DEF TypeOK
<1>1. TypeOK'
  <2>1. /\ owner' \in [Hosts -> Threads \cup {NULL}]
         /\ depth' \in [Hosts -> Nat]
    BY <1>b, <1>c, <1>d, <1>e DEF TypeOK
  <2>2. pc' \in [Threads -> PCs] /\ call' \in [Threads -> Calls \cup {NoCall}]
    BY DEF TypeOK, MutexUnlock, Using, Release, Return, PCs
  <2>3. /\ need' \in [Threads -> SUBSET Objs] /\ cur' \in [Threads -> Objs \cup {NULL}]
        /\ got' \in [Threads -> [Objs -> Hosts \cup {NULL}]]
    BY DEF TypeOK, MutexUnlock, Using, Release, Return, fetchVars
  <2>4. QED
    BY <1>c, <1>g, <2>1, <2>2, <2>3 DEF TypeOK, MutexUnlock, Using, Release,
       Return, fetchVars
<1>2. CallShape'
  BY DEF CallShape, TypeOK, MutexUnlock, Return, NoCall, Destroying
<1>3. FetchShape'
  BY DEF FetchShape, TypeOK, MutexUnlock, Return, InFetch, Args, Destroying
<1>4. InitLock'
  BY DEF InitLock, MutexUnlock, Using, Return
<1>5. Exclusive'
  BY DEF Exclusive, MutexUnlock, Return, Args, Target, Destroying, NoCall
<1>6. Words'
  BY <1>a, WordsFrame DEF MutexUnlock, Using, Release, Return, guestVars,
     heapVars
<1>7. Creation'
  <2>1. \A u \in Threads : new[u] # NULL => new[u] \in Hosts /\ new[u] # h
    BY <1>b DEF Creation, TypeOK, Objs
  <2>2. \A u \in Threads : new[u] # NULL =>
          owner'[new[u]] = owner[new[u]] /\ depth'[new[u]] = depth[new[u]]
    BY <1>f, <2>1
  <2>3. UNCHANGED <<new, stores>>
    BY DEF MutexUnlock, Using, Release, Return, fetchVars
  <2>4. QED  BY <1>a, <1>c, <2>2, <2>3, CreationFrame
<1>8. Seen'
  BY DEF Seen, TypeOK, MutexUnlock, Return, Target, guestVars
<1>9. Fetches'
  BY DEF Fetches, MutexUnlock, Return, guestVars
<1>10. Holding'
  <2>1. \A o \in Objs : Clearing(o)' <=> Clearing(o)
    BY <1>a, SameMakersFrame
  <2>2. SUFFICES ASSUME NEW n \in Mutexes
                 PROVE  /\ host[n] # NULL /\ ~Clearing(n) =>
                             /\ owner'[host[n]] = NULL => depth'[host[n]] = 0
                             /\ owner'[host[n]] # NULL => depth'[host[n]] > 0
                             /\ \A u \in Threads : held'[n][u] =
                                  IF owner'[host[n]] = u THEN depth'[host[n]] ELSE 0
                        /\ host[n] = NULL \/ Clearing(n) =>
                             \A u \in Threads : held'[n][u] = 0
    BY SMTT(60), <1>c, <2>1 DEF Holding, Objs
  <2>3. CASE n = m
    <3>1. NULL \notin Threads
      BY SyncAssumption
    <3>2. host[n] = h /\ ~Clearing(n) /\ h # NULL
      BY <1>b, <2>3
    <3>3. owner'[h] = NULL \/ owner'[h] = t
      BY <1>f
    <3>4. \A u \in Threads : held'[m][u] = IF owner'[h] = u THEN depth'[h] ELSE 0
      BY <1>f, <3>1
    <3> HIDE DEF m, h
    <3>5. QED  BY <1>f, <2>3, <3>1, <3>2, <3>3, <3>4
  <2>4. CASE n # m
    <3>1. held'[n] = held[n]
      BY <1>f, <2>4
    <3>2. host[n] # NULL /\ ~Clearing(n) => host[n] \in Hosts /\ host[n] # h
      BY <1>b, <2>4 DEF Words, Objs, TypeOK
    <3>3. host[n] # NULL /\ ~Clearing(n) =>
            owner'[host[n]] = owner[host[n]] /\ depth'[host[n]] = depth[host[n]]
      BY <1>f, <3>2
    <3>4. QED  BY <3>1, <3>3 DEF Holding
  <2>5. QED  BY <2>3, <2>4
<1>11. Contract'
  BY DEF Contract, TypeOK, MutexUnlock, Using, Release, Return, NoCall
<1>12. Queues'
  BY DEF Queues, MutexUnlock, Using, Return
<1>13. QED
  BY <1>1, <1>2, <1>3, <1>4, <1>5, <1>6, <1>7, <1>8, <1>9, <1>10, <1>11, <1>12

LEMMA SignalNobodyInv ==
  ASSUME IInv, NEW t \in Threads, SignalNobody(t)
  PROVE  IInv'
<1> USE SyncAssumption DEF IInv
<1>a. SameMakers
  BY DEF SameMakers, TypeOK, CallShape, FetchShape, Queues, Destroying,
     Target, NoCall, Calls, Ops, Objs, SignalNobody, Using, Return, guestVars,
     heapVars, fetchVars
<1>1. TypeOK'
  BY DEF TypeOK, SignalNobody, Return, PCs, guestVars, heapVars
<1>2. CallShape'
  BY DEF CallShape, TypeOK, SignalNobody, Return, NoCall, Destroying
<1>3. FetchShape'
  BY DEF FetchShape, TypeOK, SignalNobody, Return, InFetch, Args, Destroying
<1>4. InitLock'
  BY DEF InitLock, SignalNobody, Using, Return
<1>5. Exclusive'
  BY DEF Exclusive, SignalNobody, Return, Args, Target, Destroying, NoCall
<1>6. Words'
  BY <1>a, WordsFrame DEF SignalNobody, Using, Return, guestVars, heapVars
<1>7. Creation'
  BY <1>a, CreationFrame DEF SignalNobody, Using, Return, guestVars, heapVars,
     fetchVars
<1>8. Seen'
  BY DEF Seen, TypeOK, SignalNobody, Return, Target, guestVars
<1>9. Fetches'
  BY DEF Fetches, SignalNobody, Return, guestVars
<1>10. Holding'
  BY <1>a, HoldingFrame DEF SignalNobody, Using, Return, guestVars, heapVars,
     fetchVars
<1>11. Contract'
  BY DEF Contract, TypeOK, SignalNobody, Return, NoCall
<1>12. Queues'
  BY DEF Queues, SignalNobody, Return, heapVars
<1>13. QED
  BY <1>1, <1>2, <1>3, <1>4, <1>5, <1>6, <1>7, <1>8, <1>9, <1>10, <1>11, <1>12

LEMMA SignalOneInv ==
  ASSUME IInv, NEW t \in Threads, NEW u \in Threads, SignalOne(t, u)
  PROVE  IInv'
<1> USE SyncAssumption DEF IInv
<1> DEFINE q == got[t][call[t].cond]
<1>p. pc[t] = "use" /\ ~Destroying(t) /\ call[t].cond \in Conds /\ call[t].cond \in Args(t)
  BY SyncAssumption DEF SignalOne, Using, ReturnWaking, CallShape, Destroying,
     Args, Objs
<1>q. q \in Hosts
  BY <1>p, Resolved
<1>r. \A v \in {u} : v \in Threads /\ v # t /\ pc[v] = "asleep" /\ call[v].op = "wait"
  BY <1>p, <1>q DEF SignalOne, Using, ReturnWaking, Queues, CallShape, TypeOK
<1>s. /\ call' = [call EXCEPT ![t] = NoCall]
      /\ got' = [got EXCEPT ![t] = [o \in Objs |-> NULL]]
      /\ queue' = [queue EXCEPT ![q] = @ \ {u}]
      /\ UNCHANGED <<magic, host, live, owner, depth, initOwner, need, cur, new, stores, held>>
  BY DEF SignalOne, Using, ReturnWaking, guestVars
<1>u. \A v \in Threads :
        /\ v = t => pc'[v] = "idle"
        /\ v \in {u} => pc'[v] = "relock"
        /\ v # t /\ v \notin {u} => pc'[v] = pc[v]
  BY <1>r DEF SignalOne, Using, ReturnWaking
<1>v. pc' \in [Threads -> PCs]
  <2>1. pc' = [v \in Threads |-> IF v = t THEN "idle" ELSE IF v \in {u} THEN "relock" ELSE pc[v]]
    BY DEF SignalOne, Using, ReturnWaking
  <2>2. pc \in [Threads -> PCs]
    BY DEF TypeOK
  <2> HIDE DEF q, IInv
  <2>3. QED  BY <2>1, <2>2 DEF PCs
<1>w. /\ \A v \in Threads \ {t} : call'[v] = call[v] /\ got'[v] = got[v]
      /\ call'[t] = NoCall /\ got'[t] = [o \in Objs |-> NULL]
      /\ queue'[q] = queue[q] \ {u} /\ \A g \in Hosts \ {q} : queue'[g] = queue[g]
  BY <1>q, <1>s DEF TypeOK
<1> HIDE DEF q
<1>a. SameMakers
  BY <1>p, <1>r, <1>s, <1>u, <1>w DEF SameMakers, Target
<1>1. TypeOK'
  <2>1. call' \in [Threads -> Calls \cup {NoCall}] /\ got' \in [Threads -> [Objs -> Hosts \cup {NULL}]]
    BY <1>s DEF TypeOK
  <2>2. queue' \in [Hosts -> SUBSET Threads]
    <3>1. queue \in [Hosts -> SUBSET Threads]
      BY DEF TypeOK
    <3> DEFINE w == queue[q] \ {u}
    <3>2. queue' = [queue EXCEPT ![q] = w]
      BY <1>s
    <3>3. w \in SUBSET Threads
      BY <1>q, <3>1
    <3> HIDE DEF w, IInv
    <3>4. QED  BY <1>q, <3>1, <3>2, <3>3
  <2>3. QED  BY <1>s, <1>v, <2>1, <2>2 DEF TypeOK
<1>2. CallShape'
  BY <1>p, <1>q, <1>r, <1>s, <1>u, <1>w, SyncAssumption DEF CallShape, NoCall,
     Destroying
<1>3. FetchShape'
  BY <1>p, <1>q, <1>r, <1>s, <1>u, <1>w, SyncAssumption DEF FetchShape,
     CallShape, NoCall, Destroying, InFetch, Args
<1>4. InitLock'
  BY <1>p, <1>q, <1>r, <1>s, <1>u, <1>w, SyncAssumption DEF InitLock
<1>5. Exclusive'
  BY <1>p, <1>q, <1>r, <1>s, <1>u, <1>w, SyncAssumption DEF Exclusive,
     Destroying, Target, NoCall, Args
<1>6. Words'
  BY <1>a, WordsFrame DEF SignalOne, Using, ReturnWaking, guestVars, heapVars
<1>7. Creation'
  BY <1>a, CreationFrame DEF SignalOne, Using, ReturnWaking, guestVars,
     heapVars, fetchVars
<1>8. Seen'
  BY <1>p, <1>q, <1>r, <1>s, <1>u, <1>w, SyncAssumption DEF Seen, Target
<1>9. Fetches'
  BY <1>p, <1>q, <1>r, <1>s, <1>u, <1>w, SyncAssumption DEF Fetches
<1>10. Holding'
  BY <1>a, HoldingFrame DEF SignalOne, Using, ReturnWaking, guestVars,
     heapVars, fetchVars
<1>11. Contract'
  BY <1>p, <1>q, <1>r, <1>s, <1>u, <1>w, SyncAssumption DEF Contract, NoCall
<1>12. Queues'
  <2>1. \A v \in Threads \ {t} : got'[v][call'[v].cond] = got[v][call[v].cond]
    BY <1>w
  <2>2. \A v \in Threads : pc'[v] = "asleep" <=> v # t /\ v # u /\ pc[v] = "asleep"
    BY <1>r, <1>u
  <2>3. \A g \in Hosts : queue'[g] \subseteq queue[g] \ (IF g = q THEN {u} ELSE {})
    BY <1>w
  <2>4. \A g \in Hosts : u \in queue[g] => g = q
    BY <1>q, <1>w DEF Queues, SignalOne, q
  <2>5. \A g \in Hosts : \A v \in queue'[g] : pc'[v] = "asleep" /\ got'[v][call'[v].cond] = g
    <3>1. SUFFICES ASSUME NEW g \in Hosts, NEW v \in queue'[g]
                   PROVE  pc'[v] = "asleep" /\ got'[v][call'[v].cond] = g
      OBVIOUS
    <3>2. v \in queue[g] /\ v # u
      BY <2>3, <2>4
    <3>3. pc[v] = "asleep" /\ got[v][call[v].cond] = g /\ v \in Threads
      BY <3>2 DEF Queues, TypeOK
    <3>4. v # t
      BY <1>p, <3>3
    <3>5. QED  BY <2>1, <2>2, <3>2, <3>3, <3>4
  <2>6. \A v \in Threads : pc'[v] = "asleep" => v \in queue'[got'[v][call'[v].cond]]
    <3>1. SUFFICES ASSUME NEW v \in Threads, pc'[v] = "asleep"
                   PROVE  v \in queue'[got'[v][call'[v].cond]]
      OBVIOUS
    <3>2. v # t /\ v # u /\ pc[v] = "asleep"
      BY <2>2, <3>1
    <3>3. v \in queue[got[v][call[v].cond]]
      BY <3>2 DEF Queues
    <3>4. queue' = [queue EXCEPT ![q] = queue[q] \ {u}]
      BY <1>s
    <3>5. \A g : v \in queue[g] => v \in queue'[g]
      BY <3>2, <3>4 DEF TypeOK
    <3>6. QED  BY <2>1, <3>2, <3>3, <3>5
  <2>7. QED  BY <2>5, <2>6 DEF Queues
<1>13. QED
  BY <1>1, <1>2, <1>3, <1>4, <1>5, <1>6, <1>7, <1>8, <1>9, <1>10, <1>11, <1>12

LEMMA CondBroadcastInv ==
  ASSUME IInv, NEW t \in Threads, CondBroadcast(t)
  PROVE  IInv'
<1> USE SyncAssumption DEF IInv
<1> DEFINE q == got[t][call[t].cond]
<1>p. pc[t] = "use" /\ ~Destroying(t) /\ call[t].cond \in Conds /\ call[t].cond \in Args(t)
  BY SyncAssumption DEF CondBroadcast, Using, ReturnWaking, CallShape,
     Destroying, Args, Objs
<1>q. q \in Hosts
  BY <1>p, Resolved
<1>r. \A v \in queue[q] : v \in Threads /\ v # t /\ pc[v] = "asleep" /\ call[v].op = "wait"
  BY <1>p, <1>q DEF CondBroadcast, Using, ReturnWaking, Queues, CallShape,
     TypeOK
<1>s. /\ call' = [call EXCEPT ![t] = NoCall]
      /\ got' = [got EXCEPT ![t] = [o \in Objs |-> NULL]]
      /\ queue' = [queue EXCEPT ![q] = {}]
      /\ UNCHANGED <<magic, host, live, owner, depth, initOwner, need, cur, new, stores, held>>
  BY DEF CondBroadcast, Using, ReturnWaking, guestVars
<1>u. \A v \in Threads :
        /\ v = t => pc'[v] = "idle"
        /\ v \in queue[q] => pc'[v] = "relock"
        /\ v # t /\ v \notin queue[q] => pc'[v] = pc[v]
  BY <1>r DEF CondBroadcast, Using, ReturnWaking
<1>v. pc' \in [Threads -> PCs]
  <2>1. pc' = [v \in Threads |-> IF v = t THEN "idle" ELSE IF v \in queue[q] THEN "relock" ELSE pc[v]]
    BY DEF CondBroadcast, Using, ReturnWaking
  <2>2. pc \in [Threads -> PCs]
    BY DEF TypeOK
  <2> HIDE DEF q, IInv
  <2>3. QED  BY <2>1, <2>2 DEF PCs
<1>w. /\ \A v \in Threads \ {t} : call'[v] = call[v] /\ got'[v] = got[v]
      /\ call'[t] = NoCall /\ got'[t] = [o \in Objs |-> NULL]
      /\ queue'[q] = {} /\ \A g \in Hosts \ {q} : queue'[g] = queue[g]
  BY <1>q, <1>s DEF TypeOK
<1> HIDE DEF q
<1>a. SameMakers
  BY <1>p, <1>r, <1>s, <1>u, <1>w DEF SameMakers, Target
<1>1. TypeOK'
  <2>1. call' \in [Threads -> Calls \cup {NoCall}] /\ got' \in [Threads -> [Objs -> Hosts \cup {NULL}]]
    BY <1>s DEF TypeOK
  <2>2. queue' \in [Hosts -> SUBSET Threads]
    <3>1. queue \in [Hosts -> SUBSET Threads]
      BY DEF TypeOK
    <3> DEFINE w == {}
    <3>2. queue' = [queue EXCEPT ![q] = w]
      BY <1>s
    <3>3. w \in SUBSET Threads
      BY <1>q, <3>1
    <3> HIDE DEF w, IInv
    <3>4. QED  BY <1>q, <3>1, <3>2, <3>3
  <2>3. QED  BY <1>s, <1>v, <2>1, <2>2 DEF TypeOK
<1>2. CallShape'
  BY <1>p, <1>q, <1>r, <1>s, <1>u, <1>w, SyncAssumption DEF CallShape, NoCall,
     Destroying
<1>3. FetchShape'
  BY <1>p, <1>q, <1>r, <1>s, <1>u, <1>w, SyncAssumption DEF FetchShape,
     CallShape, NoCall, Destroying, InFetch, Args
<1>4. InitLock'
  BY <1>p, <1>q, <1>r, <1>s, <1>u, <1>w, SyncAssumption DEF InitLock
<1>5. Exclusive'
  BY <1>p, <1>q, <1>r, <1>s, <1>u, <1>w, SyncAssumption DEF Exclusive,
     Destroying, Target, NoCall, Args
<1>6. Words'
  BY <1>a, WordsFrame DEF CondBroadcast, Using, ReturnWaking, guestVars,
     heapVars
<1>7. Creation'
  BY <1>a, CreationFrame DEF CondBroadcast, Using, ReturnWaking, guestVars,
     heapVars, fetchVars
<1>8. Seen'
  BY <1>p, <1>q, <1>r, <1>s, <1>u, <1>w, SyncAssumption DEF Seen, Target
<1>9. Fetches'
  BY <1>p, <1>q, <1>r, <1>s, <1>u, <1>w, SyncAssumption DEF Fetches
<1>10. Holding'
  BY <1>a, HoldingFrame DEF CondBroadcast, Using, ReturnWaking, guestVars,
     heapVars, fetchVars
<1>11. Contract'
  BY <1>p, <1>q, <1>r, <1>s, <1>u, <1>w, SyncAssumption DEF Contract, NoCall
<1>12. Queues'
  BY <1>p, <1>q, <1>r, <1>s, <1>u, <1>w, SyncAssumption DEF Queues, TypeOK
<1>13. QED
  BY <1>1, <1>2, <1>3, <1>4, <1>5, <1>6, <1>7, <1>8, <1>9, <1>10, <1>11, <1>12

LEMMA CondWaitInv ==
  ASSUME IInv, NEW t \in Threads, CondWait(t)
  PROVE  IInv'
<1> USE SyncAssumption DEF IInv
<1>a. SameMakers
  BY DEF SameMakers, TypeOK, CallShape, FetchShape, Queues, Destroying,
     Target, NoCall, Calls, Ops, Objs, CondWait, Using, Release, guestVars,
     heapVars, fetchVars
<1>p. pc[t] \in {"use", "asleep", "relock"} /\ ~Destroying(t) /\ call[t].mutex \in Mutexes
  BY DEF CondWait, Using, Release, CallShape, Destroying
<1>q. call[t].mutex \in Args(t)
  BY <1>p, SyncAssumption DEF Args, Objs
<1>b. /\ call[t].mutex \in Mutexes
      /\ got[t][call[t].mutex] = host[call[t].mutex]
      /\ host[call[t].mutex] \in Hosts /\ host[call[t].mutex] \in live
      /\ ~Clearing(call[t].mutex) /\ host[call[t].mutex] # NULL
  BY <1>p, <1>q, Resolved
<1> DEFINE m == call[t].mutex
           h == host[m]
<1>c. /\ owner' = [owner EXCEPT ![h] = IF depth[h] = 1 THEN NULL ELSE @]
      /\ depth' = [depth EXCEPT ![h] = @ - 1]
      /\ held' = [held EXCEPT ![m][t] = @ - 1]
      /\ UNCHANGED <<magic, host, live, initOwner>>
  BY <1>b DEF CondWait, Release, guestVars
<1>d. depth[h] \in Nat /\ held[m][t] \in Nat /\ owner[h] \in Threads \cup {NULL}
  BY <1>b DEF TypeOK
<1>e. owner[h] = t /\ depth[h] > 0 /\ held[m][t] = depth[h]
  <2>1. held[m][t] > 0
    BY <1>d DEF CondWait, Using, Contract
  <2>2. QED  BY <1>b, <1>d, <2>1 DEF Holding
<1>f. /\ held'[m][t] = depth'[h] /\ depth'[h] \in Nat
      /\ owner'[h] = (IF depth'[h] = 0 THEN NULL ELSE t)
      /\ \A u \in Threads \ {t} : held'[m][u] = held[m][u] /\ held[m][u] = 0
      /\ \A n \in Mutexes \ {m} : held'[n] = held[n]
      /\ \A g \in Hosts \ {h} : owner'[g] = owner[g] /\ depth'[g] = depth[g]
  BY <1>b, <1>c, <1>d, <1>e, SyncAssumption DEF TypeOK, Holding
<1>g. held' \in [Mutexes -> [Threads -> Nat]]
  <2>1. held[m] \in [Threads -> Nat] /\ held[m][t] - 1 \in Nat
    BY <1>b, <1>d, <1>e DEF TypeOK
  <2> DEFINE row == [held[m] EXCEPT ![t] = held[m][t] - 1]
  <2>2. row \in [Threads -> Nat]
    BY <2>1
  <2>3. held' = [held EXCEPT ![m] = row]
    BY <1>c
  <2> HIDE DEF row
  <2>4. QED  BY <1>b, <2>2, <2>3 DEF TypeOK
<1>1. TypeOK'
  <2>1. /\ owner' \in [Hosts -> Threads \cup {NULL}]
         /\ depth' \in [Hosts -> Nat]
    BY <1>b, <1>c, <1>d, <1>e DEF TypeOK
  <2>2. pc' \in [Threads -> PCs] /\ queue' \in [Hosts -> SUBSET Threads]
    <3>1. pc' \in [Threads -> PCs]
      BY DEF TypeOK, CondWait, PCs
    <3> DEFINE q == got[t][call[t].cond]
               w == queue[q] \cup {t}
    <3>2. queue' = [queue EXCEPT ![q] = w]
      BY DEF CondWait
    <3>3. q \in Hosts => w \in SUBSET Threads
      BY DEF TypeOK
    <3>4. queue \in [Hosts -> SUBSET Threads]
      BY DEF TypeOK
    <3> HIDE DEF IInv, q, w
    <3>5. CASE q \in Hosts
      <4>1. queue' \in [Hosts -> SUBSET Threads]
        BY <3>2, <3>3, <3>4, <3>5
      <4>2. QED  BY <3>1, <4>1
    <3>6. CASE q \notin Hosts
      <4>1. queue' = queue
        BY <3>2, <3>4, <3>6
      <4>2. QED  BY <3>1, <3>4, <4>1
    <3>7. QED  BY <3>5, <3>6
  <2>3. /\ need' \in [Threads -> SUBSET Objs] /\ cur' \in [Threads -> Objs \cup {NULL}]
        /\ got' \in [Threads -> [Objs -> Hosts \cup {NULL}]]
    BY DEF TypeOK, CondWait, Using, Release, fetchVars
  <2>4. QED
    BY ZenonT(60), <1>c, <1>g, <2>1, <2>2, <2>3 DEF TypeOK, CondWait, Using, Release,
       fetchVars
<1>2. CallShape'
  BY DEF CallShape, CondWait, Using, Destroying
<1>3. FetchShape'
  BY DEF FetchShape, CondWait, Using, InFetch, Args, Destroying, fetchVars
<1>4. InitLock'
  BY DEF InitLock, CondWait, Using
<1>5. Exclusive'
  BY DEF Exclusive, CondWait, Args, Target, Destroying
<1>6. Words'
  BY <1>a, WordsFrame DEF CondWait, Using, Release, guestVars, heapVars
<1>7. Creation'
  <2>1. \A u \in Threads : new[u] # NULL => new[u] \in Hosts /\ new[u] # h
    BY <1>b DEF Creation, TypeOK, Objs
  <2>2. \A u \in Threads : new[u] # NULL =>
          owner'[new[u]] = owner[new[u]] /\ depth'[new[u]] = depth[new[u]]
    BY <1>f, <2>1
  <2>3. UNCHANGED <<new, stores>>
    BY DEF CondWait, Using, Release, fetchVars
  <2>4. QED  BY <1>a, <1>c, <2>2, <2>3, CreationFrame
<1>8. Seen'
  BY DEF Seen, CondWait, Target, guestVars, fetchVars
<1>9. Fetches'
  BY DEF Fetches, CondWait, guestVars, fetchVars
<1>10. Holding'
  <2>1. \A o \in Objs : Clearing(o)' <=> Clearing(o)
    BY <1>a, SameMakersFrame
  <2>2. SUFFICES ASSUME NEW n \in Mutexes
                 PROVE  /\ host[n] # NULL /\ ~Clearing(n) =>
                             /\ owner'[host[n]] = NULL => depth'[host[n]] = 0
                             /\ owner'[host[n]] # NULL => depth'[host[n]] > 0
                             /\ \A u \in Threads : held'[n][u] =
                                  IF owner'[host[n]] = u THEN depth'[host[n]] ELSE 0
                        /\ host[n] = NULL \/ Clearing(n) =>
                             \A u \in Threads : held'[n][u] = 0
    BY SMTT(30), <1>c, <2>1 DEF Holding, Objs
  <2>3. CASE n = m
    <3>1. NULL \notin Threads
      BY SyncAssumption
    <3>2. host[n] = h /\ ~Clearing(n) /\ h # NULL
      BY <1>b, <2>3
    <3>3. owner'[h] = NULL \/ owner'[h] = t
      BY <1>f
    <3>4. \A u \in Threads : held'[m][u] = IF owner'[h] = u THEN depth'[h] ELSE 0
      BY <1>f, <3>1
    <3> HIDE DEF m, h
    <3>5. QED  BY <1>f, <2>3, <3>1, <3>2, <3>3, <3>4
  <2>4. CASE n # m
    <3>1. held'[n] = held[n]
      BY <1>f, <2>4
    <3>2. host[n] # NULL /\ ~Clearing(n) => host[n] \in Hosts /\ host[n] # h
      BY <1>b, <2>4 DEF Words, Objs, TypeOK
    <3>3. host[n] # NULL /\ ~Clearing(n) =>
            owner'[host[n]] = owner[host[n]] /\ depth'[host[n]] = depth[host[n]]
      BY <1>f, <3>2
    <3>4. QED  BY <3>1, <3>3 DEF Holding
  <2>5. QED  BY <2>3, <2>4
<1>11. Contract'
  BY DEF Contract, TypeOK, CallShape, CondWait, Using, Release
<1>12. Queues'
  BY DEF Queues, TypeOK, CallShape, FetchShape, CondWait, Using, Args,
         Destroying, NoCall, Objs, Calls, fetchVars
<1>13. QED
  BY <1>1, <1>2, <1>3, <1>4, <1>5, <1>6, <1>7, <1>8, <1>9, <1>10, <1>11, <1>12

LEMMA WakeAloneInv ==
  ASSUME IInv, NEW t \in Threads, WakeAlone(t)
  PROVE  IInv'
<1> USE SyncAssumption DEF IInv
<1>a. SameMakers
  BY DEF SameMakers, TypeOK, CallShape, FetchShape, Queues, Destroying,
     Target, NoCall, Calls, Ops, Objs, WakeAlone, guestVars, heapVars,
     fetchVars
<1>1. TypeOK'
  <2>2. pc' \in [Threads -> PCs] /\ queue' \in [Hosts -> SUBSET Threads]
    <3>1. pc' \in [Threads -> PCs]
      BY DEF TypeOK, WakeAlone, PCs
    <3> DEFINE q == got[t][call[t].cond]
               w == queue[q] \ {t}
    <3>2. queue' = [queue EXCEPT ![q] = w]
      BY DEF WakeAlone
    <3>3. q \in Hosts => w \in SUBSET Threads
      BY DEF TypeOK
    <3>4. queue \in [Hosts -> SUBSET Threads]
      BY DEF TypeOK
    <3> HIDE DEF IInv, q, w
    <3>5. CASE q \in Hosts
      <4>1. queue' \in [Hosts -> SUBSET Threads]
        BY <3>2, <3>3, <3>4, <3>5
      <4>2. QED  BY <3>1, <4>1
    <3>6. CASE q \notin Hosts
      <4>1. queue' = queue
        BY <3>2, <3>4, <3>6
      <4>2. QED  BY <3>1, <3>4, <4>1
    <3>7. QED  BY <3>5, <3>6
  <2>3. QED  BY <2>2 DEF TypeOK, WakeAlone, guestVars, heapVars, fetchVars
<1>2. CallShape'
  BY DEF CallShape, WakeAlone, Destroying
<1>3. FetchShape'
  BY DEF FetchShape, WakeAlone, InFetch, Args, Destroying, fetchVars
<1>4. InitLock'
  BY DEF InitLock, WakeAlone
<1>5. Exclusive'
  BY DEF Exclusive, WakeAlone, Args, Target, Destroying
<1>6. Words'
  BY <1>a, WordsFrame DEF WakeAlone, guestVars, heapVars
<1>7. Creation'
  BY <1>a, CreationFrame DEF WakeAlone, guestVars, heapVars, fetchVars
<1>8. Seen'
  BY DEF Seen, WakeAlone, Target, guestVars, fetchVars
<1>9. Fetches'
  BY DEF Fetches, WakeAlone, guestVars, fetchVars
<1>10. Holding'
  BY <1>a, HoldingFrame DEF WakeAlone, guestVars, heapVars, fetchVars
<1>11. Contract'
  BY DEF Contract, WakeAlone
<1>12. Queues'
  BY DEF Queues, TypeOK, WakeAlone, fetchVars
<1>13. QED
  BY <1>1, <1>2, <1>3, <1>4, <1>5, <1>6, <1>7, <1>8, <1>9, <1>10, <1>11, <1>12

LEMMA WaitReturnInv ==
  ASSUME IInv, NEW t \in Threads, WaitReturn(t)
  PROVE  IInv'
<1> USE SyncAssumption DEF IInv
<1>a. SameMakers
  BY DEF SameMakers, TypeOK, CallShape, FetchShape, Queues, Destroying,
     Target, NoCall, Calls, Ops, Objs, WaitReturn, Acquire, Return, guestVars,
     heapVars, fetchVars
<1>p. pc[t] \in {"use", "asleep", "relock"} /\ ~Destroying(t) /\ call[t].mutex \in Mutexes
  BY DEF WaitReturn, Acquire, Return, CallShape, Destroying
<1>q. call[t].mutex \in Args(t)
  BY <1>p, SyncAssumption DEF Args, Objs
<1>b. /\ call[t].mutex \in Mutexes
      /\ got[t][call[t].mutex] = host[call[t].mutex]
      /\ host[call[t].mutex] \in Hosts /\ host[call[t].mutex] \in live
      /\ ~Clearing(call[t].mutex) /\ host[call[t].mutex] # NULL
  BY <1>p, <1>q, Resolved
<1> DEFINE m == call[t].mutex
           h == host[m]
<1>c. /\ owner[h] \in {NULL, t} /\ owner' = [owner EXCEPT ![h] = t]
      /\ depth' = [depth EXCEPT ![h] = @ + 1]
      /\ held' = [held EXCEPT ![m][t] = @ + 1]
      /\ UNCHANGED <<magic, host, live, queue, initOwner>>
  BY <1>b DEF WaitReturn, Acquire, guestVars
<1>d. depth[h] \in Nat /\ held[m][t] \in Nat /\ owner[h] \in Threads \cup {NULL}
  BY <1>b DEF TypeOK
<1>e. held[m][t] = depth[h] /\ (owner[h] = NULL => depth[h] = 0)
  BY <1>b, <1>c, <1>d DEF Holding
<1>f. /\ held'[m][t] = depth'[h] /\ depth'[h] \in Nat
      /\ owner'[h] = (IF depth'[h] = 0 THEN NULL ELSE t)
      /\ \A u \in Threads \ {t} : held'[m][u] = held[m][u] /\ held[m][u] = 0
      /\ \A n \in Mutexes \ {m} : held'[n] = held[n]
      /\ \A g \in Hosts \ {h} : owner'[g] = owner[g] /\ depth'[g] = depth[g]
  BY SMTT(30), <1>b, <1>c, <1>d, <1>e, SyncAssumption DEF TypeOK, Holding
<1>g. held' \in [Mutexes -> [Threads -> Nat]]
  <2>1. held[m] \in [Threads -> Nat] /\ held[m][t] + 1 \in Nat
    BY <1>b, <1>d, <1>e DEF TypeOK
  <2> DEFINE row == [held[m] EXCEPT ![t] = held[m][t] + 1]
  <2>2. row \in [Threads -> Nat]
    BY <2>1
  <2>3. held' = [held EXCEPT ![m] = row]
    BY <1>c
  <2> HIDE DEF row
  <2>4. QED  BY <1>b, <2>2, <2>3 DEF TypeOK
<1>1. TypeOK'
  <2>1. /\ owner' \in [Hosts -> Threads \cup {NULL}]
         /\ depth' \in [Hosts -> Nat]
    BY <1>b, <1>c, <1>d, <1>e DEF TypeOK
  <2>2. pc' \in [Threads -> PCs] /\ call' \in [Threads -> Calls \cup {NoCall}]
    BY DEF TypeOK, WaitReturn, Acquire, Return, PCs
  <2>3. /\ need' \in [Threads -> SUBSET Objs] /\ cur' \in [Threads -> Objs \cup {NULL}]
        /\ got' \in [Threads -> [Objs -> Hosts \cup {NULL}]]
    BY DEF TypeOK, WaitReturn, Acquire, Return, fetchVars
  <2>4. QED
    BY <1>c, <1>g, <2>1, <2>2, <2>3 DEF TypeOK, WaitReturn, Acquire, Return,
       fetchVars
<1>2. CallShape'
  BY DEF CallShape, TypeOK, WaitReturn, Return, NoCall, Destroying
<1>3. FetchShape'
  BY DEF FetchShape, TypeOK, WaitReturn, Return, InFetch, Args, Destroying
<1>4. InitLock'
  BY DEF InitLock, WaitReturn, Return
<1>5. Exclusive'
  BY DEF Exclusive, WaitReturn, Return, Args, Target, Destroying, NoCall
<1>6. Words'
  BY <1>a, WordsFrame DEF WaitReturn, Acquire, Return, guestVars, heapVars
<1>7. Creation'
  <2>1. \A u \in Threads : new[u] # NULL => new[u] \in Hosts /\ new[u] # h
    BY <1>b DEF Creation, TypeOK, Objs
  <2>2. \A u \in Threads : new[u] # NULL =>
          owner'[new[u]] = owner[new[u]] /\ depth'[new[u]] = depth[new[u]]
    BY <1>f, <2>1
  <2>3. UNCHANGED <<new, stores>>
    BY DEF WaitReturn, Acquire, Return, fetchVars
  <2>4. QED  BY <1>a, <1>c, <2>2, <2>3, CreationFrame
<1>8. Seen'
  BY DEF Seen, WaitReturn, Return, Target, guestVars
<1>9. Fetches'
  BY DEF Fetches, WaitReturn, Return, guestVars
<1>10. Holding'
  <2>1. \A o \in Objs : Clearing(o)' <=> Clearing(o)
    BY <1>a, SameMakersFrame
  <2>2. SUFFICES ASSUME NEW n \in Mutexes
                 PROVE  /\ host[n] # NULL /\ ~Clearing(n) =>
                             /\ owner'[host[n]] = NULL => depth'[host[n]] = 0
                             /\ owner'[host[n]] # NULL => depth'[host[n]] > 0
                             /\ \A u \in Threads : held'[n][u] =
                                  IF owner'[host[n]] = u THEN depth'[host[n]] ELSE 0
                        /\ host[n] = NULL \/ Clearing(n) =>
                             \A u \in Threads : held'[n][u] = 0
    BY <1>c, <2>1 DEF Holding, Objs
  <2>3. CASE n = m
    <3>1. NULL \notin Threads
      BY SyncAssumption
    <3>2. host[n] = h /\ ~Clearing(n) /\ h # NULL
      BY <1>b, <2>3
    <3>3. owner'[h] = NULL \/ owner'[h] = t
      BY <1>f
    <3>4. \A u \in Threads : held'[m][u] = IF owner'[h] = u THEN depth'[h] ELSE 0
      BY <1>f, <3>1
    <3> HIDE DEF m, h
    <3>5. QED  BY <1>f, <2>3, <3>1, <3>2, <3>3, <3>4
  <2>4. CASE n # m
    <3>1. held'[n] = held[n]
      BY <1>f, <2>4
    <3>2. host[n] # NULL /\ ~Clearing(n) => host[n] \in Hosts /\ host[n] # h
      BY <1>b, <2>4 DEF Words, Objs, TypeOK
    <3>3. host[n] # NULL /\ ~Clearing(n) =>
            owner'[host[n]] = owner[host[n]] /\ depth'[host[n]] = depth[host[n]]
      BY <1>f, <3>2
    <3>4. QED  BY <3>1, <3>3 DEF Holding
  <2>5. QED  BY <2>3, <2>4
<1>11. Contract'
  BY SMTT(30) DEF Contract, TypeOK, Exclusive, WaitReturn, Acquire, Return, Args,
         Target, Destroying, NoCall, Objs
<1>12. Queues'
  BY DEF Queues, WaitReturn, Return
<1>13. QED
  BY <1>1, <1>2, <1>3, <1>4, <1>5, <1>6, <1>7, <1>8, <1>9, <1>10, <1>11, <1>12

LEMMA DestroyNothingInv ==
  ASSUME IInv, NEW t \in Threads, DestroyNothing(t)
  PROVE  IInv'
<1> USE SyncAssumption DEF IInv
<1>a. SameMakers
  BY DEF SameMakers, TypeOK, CallShape, FetchShape, Queues, Destroying,
     Target, NoCall, Calls, Ops, Objs, DestroyNothing, Using, Return, Made,
     guestVars, heapVars, fetchVars
<1>1. TypeOK'
  BY DEF TypeOK, DestroyNothing, Return, PCs, guestVars, heapVars
<1>2. CallShape'
  BY DEF CallShape, TypeOK, DestroyNothing, Return, NoCall, Destroying
<1>3. FetchShape'
  BY DEF FetchShape, TypeOK, DestroyNothing, Return, InFetch, Args,
         Destroying
<1>4. InitLock'
  BY DEF InitLock, DestroyNothing, Using, Return
<1>5. Exclusive'
  BY DEF Exclusive, DestroyNothing, Return, Args, Target, Destroying, NoCall
<1>6. Words'
  BY <1>a, WordsFrame DEF DestroyNothing, Using, Return, Made, guestVars,
     heapVars
<1>7. Creation'
  BY <1>a, CreationFrame DEF DestroyNothing, Using, Return, Made, guestVars,
     heapVars, fetchVars
<1>8. Seen'
  BY DEF Seen, TypeOK, DestroyNothing, Return, Target, guestVars
<1>9. Fetches'
  BY DEF Fetches, DestroyNothing, Return, guestVars
<1>10. Holding'
  BY <1>a, HoldingFrame DEF DestroyNothing, Using, Return, Made, guestVars,
     heapVars, fetchVars
<1>11. Contract'
  BY DEF Contract, TypeOK, DestroyNothing, Return, NoCall
<1>12. Queues'
  BY DEF Queues, DestroyNothing, Using, Return, heapVars
<1>13. QED
  BY <1>1, <1>2, <1>3, <1>4, <1>5, <1>6, <1>7, <1>8, <1>9, <1>10, <1>11, <1>12

LEMMA DestroyFreeInv ==
  ASSUME IInv, NEW t \in Threads, DestroyFree(t)
  PROVE  IInv'
<1> USE SyncAssumption DEF IInv
<1> DEFINE b == Target(t)
           f == host[b]
<1>a. /\ Destroying(t) /\ pc[t] = "use" /\ live' = live \ {f} /\ magic[b] /\ f # NULL
      /\ pc' = [pc EXCEPT ![t] = "clear"]
      /\ UNCHANGED <<magic, host, owner, depth, queue, initOwner, call, need, cur,
                     new, stores, got, held>>
  BY DEF DestroyFree, Using, Made, guestVars, fetchVars, Destroying
<1>b. b \in Objs /\ b \in Args(t)
  BY <1>a, SyncAssumption DEF CallShape, Target, Destroying, Args, Objs
<1>c. \A o \in Objs : Clearing(o)' <=> (Clearing(o) \/ o = b)
  BY <1>a DEF Clearing, Target, TypeOK
<1>d. ~Clearing(b)
  <2>1. SUFFICES ASSUME NEW u \in Threads, pc[u] = "clear", Target(u) = b
                 PROVE  FALSE
    BY DEF Clearing
  <2>2. u # t /\ Destroying(u)
    BY <1>a, <2>1 DEF CallShape
  <2>3. QED  BY <1>b, <2>1, <2>2 DEF Exclusive
<1>e. \A o \in Objs : Publishing(o)' <=> Publishing(o)
  BY <1>a DEF Publishing, TypeOK
<1>1. TypeOK'
  BY DEF TypeOK, DestroyFree, PCs, guestVars, fetchVars
<1>2. CallShape'
  BY DEF CallShape, DestroyFree, Using, Destroying
<1>3. FetchShape'
  BY DEF FetchShape, DestroyFree, Using, InFetch, Args, Destroying,
         fetchVars
<1>4. InitLock'
  BY DEF InitLock, DestroyFree, Using
<1>5. Exclusive'
  BY DEF Exclusive, DestroyFree, Args, Target, Destroying
<1>6. Words'
  <2>1. \A o \in Objs : host[o] # NULL /\ ~Clearing(o) /\ o # b => host[o] \in live \ {f}
    BY <1>a, <1>b, <1>d DEF Words
  <2>2. QED  BY <1>a, <1>c, <1>e, <2>1 DEF Words
<1>7. Creation'
  <2>1. \A u \in Threads : new[u] # NULL => new[u] # f
    BY <1>b, <1>d DEF Creation
  <2>2. \A u \in Threads : pc'[u] = "publish" <=> pc[u] = "publish"
    BY <1>a DEF TypeOK
  <2>3. QED  BY <1>a, <1>c, <2>1, <2>2 DEF Creation
<1>8. Seen'
  BY DEF Seen, DestroyFree, Made, Target, guestVars, fetchVars
<1>9. Fetches'
  BY DEF Fetches, DestroyFree, guestVars, fetchVars
<1>10. Holding'
  BY DEF Holding, CallShape, Contract, DestroyFree, Using, Clearing, Target,
         Destroying, Objs, InFetch, guestVars, fetchVars
<1>11. Contract'
  BY DEF Contract, DestroyFree, Using
<1>12. Queues'
  BY DEF Queues, DestroyFree, Using, fetchVars
<1>13. QED
  BY <1>1, <1>2, <1>3, <1>4, <1>5, <1>6, <1>7, <1>8, <1>9, <1>10, <1>11, <1>12

LEMMA DestroyClearInv ==
  ASSUME IInv, NEW t \in Threads, DestroyClear(t)
  PROVE  IInv'
<1> USE SyncAssumption DEF IInv
<1> DEFINE b == Target(t)
<1>a. /\ Destroying(t) /\ pc[t] = "clear"
      /\ host' = [host EXCEPT ![b] = NULL] /\ magic' = [magic EXCEPT ![b] = FALSE]
      /\ pc' = [pc EXCEPT ![t] = "idle"]
      /\ call' = [call EXCEPT ![t] = NoCall]
      /\ need' = [need EXCEPT ![t] = {}] /\ cur' = [cur EXCEPT ![t] = NULL]
      /\ got' = [got EXCEPT ![t] = [o \in Objs |-> NULL]]
      /\ UNCHANGED <<live, owner, depth, queue, initOwner, new, stores, held>>
  BY DEF DestroyClear, Return, heapVars, CallShape
<1>b. b \in Objs /\ b \in Args(t)
  BY <1>a, SyncAssumption DEF CallShape, Target, Destroying, Args, Objs
<1>c. \A u \in Threads : Destroying(u) /\ u # t => Target(u) # b
  <2>1. SUFFICES ASSUME NEW u \in Threads, Destroying(u), u # t, Target(u) = b
                 PROVE  FALSE
    OBVIOUS
  <2>2. QED  BY <1>b, <2>1 DEF Exclusive
<1>d. \A o \in Objs : Clearing(o)' <=> (Clearing(o) /\ o # b)
  <2>1. \A u \in Threads : pc'[u] = "clear" <=> pc[u] = "clear" /\ u # t
    BY <1>a DEF TypeOK
  <2>2. \A u \in Threads \ {t} : Target(u)' = Target(u)
    BY <1>a DEF Target, TypeOK
  <2>3. Clearing(b)
    BY <1>a DEF Clearing
  <2>4. \A u \in Threads : pc[u] = "clear" => Destroying(u)
    BY DEF CallShape
  <2> HIDE DEF b
  <2>5. SUFFICES ASSUME NEW o \in Objs
                 PROVE  Clearing(o)' <=> (Clearing(o) /\ o # b)
    OBVIOUS
  <2>6. Clearing(o)' <=> \E u \in Threads \ {t} : pc[u] = "clear" /\ Target(u) = o
    BY <2>1, <2>2 DEF Clearing
  <2>7. Target(t) = b
    BY DEF b
  <2>8. QED  BY <1>c, <2>4, <2>6, <2>7 DEF Clearing
<1>e. /\ \A o \in Objs : Publishing(o)' <=> Publishing(o)
      /\ ~Publishing(b)
  <2>1. \A u \in Threads : pc'[u] = "publish" <=> pc[u] = "publish"
    BY <1>a DEF TypeOK
  <2>2. \A u \in Threads : pc[u] = "publish" => cur'[u] = cur[u]
    BY <1>a DEF TypeOK
  <2>3. \A u \in Threads : pc[u] = "publish" => cur[u] \in Args(u) /\ u # t
    BY <1>a DEF FetchShape, InFetch
  <2>4. \A u \in Threads : u # t => b \notin Args(u)
    BY <1>a DEF Exclusive
  <2>5. ~Publishing(b)
    BY <2>3, <2>4 DEF Publishing
  <2> HIDE DEF b
  <2>6. QED  BY <2>1, <2>2, <2>5 DEF Publishing
<1>f. /\ host'[b] = NULL /\ ~magic'[b]
      /\ \A o \in Objs \ {b} : host'[o] = host[o] /\ magic'[o] = magic[o]
  BY <1>a, <1>b DEF TypeOK
<1>1. TypeOK'
  <2>1. host' \in [Objs -> Hosts \cup {NULL}] /\ magic' \in [Objs -> BOOLEAN]
    <3>1. host \in [Objs -> Hosts \cup {NULL}] /\ magic \in [Objs -> BOOLEAN]
      BY DEF TypeOK
    <3>2. host' = [host EXCEPT ![b] = NULL] /\ magic' = [magic EXCEPT ![b] = FALSE]
      BY <1>a
    <3> HIDE DEF b, IInv
    <3>3. b \in Objs
      BY <1>b
    <3>4. QED  BY <3>1, <3>2, <3>3
  <2>2. pc' \in [Threads -> PCs] /\ call' \in [Threads -> Calls \cup {NoCall}]
    BY <1>a DEF TypeOK, PCs
  <2>3. need' \in [Threads -> SUBSET Objs] /\ cur' \in [Threads -> Objs \cup {NULL}]
    BY <1>a DEF TypeOK
  <2>4. got' \in [Threads -> [Objs -> Hosts \cup {NULL}]]
    BY <1>a DEF TypeOK
  <2> HIDE DEF IInv
  <2>5. QED  BY <1>a, <2>1, <2>2, <2>3, <2>4 DEF TypeOK, IInv
<1>2. CallShape'
  BY DEF CallShape, TypeOK, DestroyClear, Return, NoCall, Destroying
<1>3. FetchShape'
  BY DEF FetchShape, TypeOK, DestroyClear, Return, InFetch, Args, Destroying
<1>4. InitLock'
  BY DEF InitLock, DestroyClear, Return
<1>5. Exclusive'
  BY DEF Exclusive, DestroyClear, Return, Args, Target, Destroying, NoCall
<1>6. Words'
  <2> HIDE DEF b
  <2>1. QED  BY <1>a, <1>d, <1>e, <1>f DEF Words
<1>7. Creation'
  <2>1. \A u \in Threads :
          /\ pc'[u] = "publish" <=> pc[u] = "publish"
          /\ pc[u] = "publish" => cur'[u] = cur[u]
    BY <1>a DEF TypeOK
  <2>2. \A u \in Threads : pc[u] = "publish" => cur[u] \in Objs
    BY DEF FetchShape, InFetch, TypeOK
  <2>3. \A u \in Threads : new[u] # NULL => pc[u] = "publish"
    BY DEF Creation
  <2> HIDE DEF b
  <2>4. \A u \in Threads : pc[u] = "publish" => cur[u] # b
    BY <1>e DEF Publishing
  <2>5. \A u \in Threads : pc[u] = "publish" => host'[cur'[u]] = host[cur[u]] /\ magic'[cur'[u]] = magic[cur[u]]
    <3>1. SUFFICES ASSUME NEW u \in Threads, pc[u] = "publish"
                   PROVE  host'[cur'[u]] = host[cur[u]] /\ magic'[cur'[u]] = magic[cur[u]]
      OBVIOUS
    <3>2. cur'[u] = cur[u] /\ cur[u] \in Objs \ {b}
      BY <2>1, <2>2, <2>4, <3>1
    <3>3. QED  BY <1>f, <3>2
  <2>6. \A u \in Threads : new[u] # NULL =>
          \A o \in Objs : host'[o] = new[u] => Clearing(o)'
    <3>1. SUFFICES ASSUME NEW u \in Threads, new[u] # NULL, NEW o \in Objs, host'[o] = new[u]
                   PROVE  Clearing(o)'
      OBVIOUS
    <3>2. o # b
      BY <1>f, <3>1
    <3>3. host[o] = new[u]
      BY <1>f, <3>1, <3>2
    <3>4. QED  BY <1>d, <3>1, <3>2, <3>3 DEF Creation
  <2>7. UNCHANGED <<new, stores, live, owner, depth>>
    BY <1>a
  <2>8. QED  BY <2>1, <2>5, <2>6, <2>7 DEF Creation
<1>8. Seen'
  BY DEF Seen, TypeOK, CallShape, FetchShape, Exclusive, DestroyClear,
         Return, Args, Target, InFetch
<1>9. Fetches'
  BY DEF Fetches, CallShape, FetchShape, Exclusive, DestroyClear, Return
<1>10. Holding'
  <2>1. \A n \in Mutexes : n = b => \A u \in Threads : held[n][u] = 0
    BY <1>a DEF Holding, Clearing
  <2> HIDE DEF b
  <2>2. QED  BY <1>a, <1>d, <1>f, <2>1 DEF Holding, Objs
<1>11. Contract'
  BY DEF Contract, DestroyClear, Return, NoCall
<1>12. Queues'
  BY DEF Queues, DestroyClear, Return, heapVars
<1>13. QED
  BY <1>1, <1>2, <1>3, <1>4, <1>5, <1>6, <1>7, <1>8, <1>9, <1>10, <1>11, <1>12

----------------------------------------------------------------------------
(* The specification's theorems.                                           *)

LEMMA StutterInv ==
  ASSUME IInv, UNCHANGED vars
  PROVE  IInv'
  BY SMTT(30) DEF IInv, vars, guestVars, heapVars, fetchVars, TypeOK, CallShape,
     FetchShape,
         InitLock, Exclusive, Words, Creation, Seen, Fetches, Holding, Contract,
         Queues, InFetch, Clearing, Publishing, Destroying, Target, Args

LEMMA StepInv ==
  ASSUME IInv, NEW t \in Threads, Step(t)
  PROVE  IInv'
  BY TestMagicInv, FastPathInv, SlowPathInv, EnterInitLockInv, FoundMadeInv,
     MakeInv, StoreHostInv, StoreMagicInv, LeaveInitLockInv, ReloadInv,
     ObjInitInv, MutexLockInv, TrylockBusyInv, MutexUnlockInv, SignalNobodyInv,
     CondBroadcastInv, CondWaitInv, WakeAloneInv, SignalOneInv, WaitReturnInv,
     DestroyNothingInv, DestroyFreeInv, DestroyClearInv
  DEF Step

\* The invariant holds in every reachable state, whatever the numbers of
\* threads, mutexes, conditions and heap addresses.
THEOREM Invariance == Spec => []IInv
<1>1. IInv /\ [Next]_vars => IInv'
  <2> SUFFICES ASSUME IInv, [Next]_vars PROVE IInv'
    OBVIOUS
  <2>1. CASE UNCHANGED vars
    BY <2>1, StutterInv
  <2>2. CASE Next
    <3>1. PICK t \in Threads : Step(t) \/ \E c \in Calls : Call(t, c)
      BY <2>2 DEF Next
    <3>2. CASE Step(t)
      BY <3>2, StepInv
    <3>3. CASE \E c \in Calls : Call(t, c)
      BY <3>3, CallInv
    <3>4. QED  BY <3>1, <3>2, <3>3
  <2>3. QED  BY <2>1, <2>2
<1>2. QED  BY InitInv, <1>1, PTL DEF Spec

\* Every variable stays in its range: no handler dereferences a null host
\* object, no critical section is left more often than it was entered.
THEOREM TypeCorrect == Spec => []TypeOK
<1>1. IInv => TypeOK
  BY DEF IInv
<1>2. QED  BY Invariance, <1>1, PTL

\* Whoever has fetched the host object of a blob has the one object it has
\* and will keep, and that object is live (obj_get's double-checked test).
THEOREM OneObject == Spec => []OneHostObject
<1>1. IInv => OneHostObject
  <2>1. SUFFICES ASSUME IInv, NEW t \in Threads, NEW o \in Objs, got[t][o] # NULL
                 PROVE  got[t][o] = host[o] /\ host[o] \in live
    BY DEF OneHostObject
  <2>2. got[t][o] = host[o] /\ o \in Args(t) /\ ~Destroying(t)
    BY <2>1 DEF IInv, Fetches, FetchShape
  <2>3. ~Clearing(o)
    <3>1. SUFFICES ASSUME NEW u \in Threads, pc[u] = "clear", Target(u) = o
                   PROVE  FALSE
      BY DEF Clearing
    <3>2. Destroying(u) /\ u # t
      BY <2>1, <2>2, <3>1 DEF IInv, CallShape
    <3>3. QED  BY <2>1, <2>2, <3>1, <3>2 DEF IInv, Exclusive
  <2>4. QED  BY <2>1, <2>2, <2>3 DEF IInv, Words
<1>2. QED  BY Invariance, <1>1, PTL

\* No two guest threads hold one pthread mutex, whatever races made its
\* critical section.
THEOREM MutexesExclude == Spec => []MutualExclusion
<1>1. IInv => MutualExclusion
  <2>1. SUFFICES ASSUME IInv, NEW m \in Mutexes, NEW t \in Threads, NEW u \in Threads,
                        held[m][t] > 0, held[m][u] > 0
                 PROVE  t = u
    BY DEF MutualExclusion
  <2>2. CASE host[m] = NULL \/ Clearing(m)
    BY <2>1, <2>2 DEF IInv, Holding
  <2>3. CASE host[m] # NULL /\ ~Clearing(m)
    <3>1. owner[host[m]] = t /\ owner[host[m]] = u
      BY <2>1, <2>3 DEF IInv, Holding
    <3>2. QED  BY <3>1
  <2>4. QED  BY <2>2, <2>3
<1>2. QED  BY Invariance, <1>1, PTL

----------------------------------------------------------------------------
(* No host object is lost.                                                 *)

\* A live host object is that of a blob nobody is clearing, or is on its way
\* into one.
NoneLost ==
  \A h \in live :
    (\E o \in Objs : host[o] = h /\ ~Clearing(o)) \/ (\E t \in Threads : new[t] = h)

LEMMA NoneLostFrame ==
  ASSUME NoneLost, UNCHANGED <<host, live, new>>,
         \A u \in Threads : pc'[u] = "clear" => pc[u] = "clear" /\ Target(u)' = Target(u)
  PROVE  NoneLost'
BY DEF NoneLost, Clearing

LEMMA FetchKeepsObjects ==
  ASSUME IInv, NoneLost, NEW t \in Threads,
         \/ \E o \in Objs : TestMagic(t, o)
         \/ FastPath(t) \/ SlowPath(t) \/ EnterInitLock(t) \/ FoundMade(t)
         \/ StoreMagic(t) \/ LeaveInitLock(t) \/ Reload(t)
  PROVE  NoneLost'
<1>1. UNCHANGED <<host, live, new, call>>
  BY DEF TestMagic, FastPath, SlowPath, EnterInitLock, FoundMade, StoreMagic, LeaveInitLock,
     Reload, guestVars, heapVars, fetchVars, Fetched, Stored
<1>2. /\ \A u \in Threads \ {t} : pc'[u] = pc[u]
      /\ pc'[t] # "clear"
  BY DEF TestMagic, FastPath, SlowPath, EnterInitLock, FoundMade, StoreMagic, LeaveInitLock,
     Reload, Fetched, Stored, IInv, TypeOK
<1> QED BY <1>1, <1>2, NoneLostFrame DEF Target

LEMMA HandlerKeepsObjects ==
  ASSUME IInv, NoneLost, NEW t \in Threads,
         \/ ObjInit(t) \/ MutexLock(t) \/ TrylockBusy(t) \/ MutexUnlock(t) \/ SignalNobody(t)
         \/ CondBroadcast(t) \/ CondWait(t) \/ WakeAlone(t) \/ WaitReturn(t)
         \/ DestroyNothing(t)
         \/ \E u \in Threads : SignalOne(t, u)
         \/ \E c \in Calls : Call(t, c)
  PROVE  NoneLost'
<1>1. UNCHANGED <<host, live, new>>
  BY DEF ObjInit, MutexLock, TrylockBusy, MutexUnlock, SignalNobody, CondBroadcast, CondWait,
     WakeAlone, WaitReturn, DestroyNothing, SignalOne, Call, guestVars, heapVars, fetchVars,
     Return, ReturnWaking
<1>2. \A u \in Threads : pc'[u] = "clear" => u # t /\ pc[u] = "clear"
  <2>1. CASE CondBroadcast(t) \/ \E u \in Threads : SignalOne(t, u)
    BY <2>1 DEF CondBroadcast, SignalOne, ReturnWaking
  <2>2. CASE \E c \in Calls : Call(t, c)
    BY <2>2 DEF Call, IInv, TypeOK
  <2>3. CASE CondWait(t) \/ WakeAlone(t)
    BY <2>3 DEF CondWait, WakeAlone, IInv, TypeOK
  <2>4. CASE Return(t)
    BY <2>4 DEF Return, IInv, TypeOK
  <2> QED BY <2>1, <2>2, <2>3, <2>4
          DEF ObjInit, MutexLock, TrylockBusy, MutexUnlock, SignalNobody, WaitReturn,
              DestroyNothing
<1>3. \A u \in Threads \ {t} : call'[u] = call[u]
  BY DEF ObjInit, MutexLock, TrylockBusy, MutexUnlock, SignalNobody, CondBroadcast, CondWait,
     WakeAlone, WaitReturn, DestroyNothing, SignalOne, Call, Return, ReturnWaking, IInv, TypeOK
<1> QED BY <1>1, <1>2, <1>3, NoneLostFrame DEF Target

LEMMA MakeKeepsObjects ==
  ASSUME IInv, NoneLost, NEW t \in Threads, NEW a \in Hosts, Make(t, a)
  PROVE  NoneLost'
<1>1. /\ live' = live \cup {a} /\ host' = host /\ call' = call
      /\ new' = [new EXCEPT ![t] = a] /\ pc' = [pc EXCEPT ![t] = "publish"]
  BY DEF Make, Construct, guestVars
<1>2. new[t] = NULL
  BY DEF Make, IInv, Creation, TypeOK
<1>3. /\ new'[t] = a /\ \A u \in Threads \ {t} : new'[u] = new[u]
      /\ \A u \in Threads : pc'[u] = "clear" => pc[u] = "clear"
  BY <1>1 DEF IInv, TypeOK
<1>4. \A o : Clearing(o)' => Clearing(o)
  BY <1>1, <1>3 DEF Clearing, Target
<1>5. NULL \notin live
  BY SyncAssumption DEF IInv, TypeOK
<1> QED BY <1>1, <1>2, <1>3, <1>4, <1>5 DEF NoneLost

LEMMA StoreHostKeepsObjects ==
  ASSUME IInv, NoneLost, NEW t \in Threads, StoreHost(t)
  PROVE  NoneLost'
<1>1. /\ pc[t] = "publish" /\ "host" \in stores[t] /\ cur[t] \in Objs
      /\ cur[t] \in Args(t) /\ host[cur[t]] = NULL
  BY DEF StoreHost, IInv, Creation, FetchShape, InFetch, TypeOK
<1>2. /\ host' = [host EXCEPT ![cur[t]] = new[t]] /\ new' = [new EXCEPT ![t] = NULL]
      /\ live' = live /\ call' = call
      /\ pc' = [pc EXCEPT ![t] = IF stores[t] = {"host"} THEN "leave" ELSE "publish"]
  BY DEF StoreHost, Stored, heapVars
<1>3. /\ host'[cur[t]] = new[t] /\ \A o \in Objs \ {cur[t]} : host'[o] = host[o]
      /\ \A u \in Threads \ {t} : new'[u] = new[u]
      /\ \A u \in Threads : pc'[u] = "clear" => pc[u] = "clear"
  BY <1>1, <1>2 DEF IInv, TypeOK
<1>4. \A o : Clearing(o)' => Clearing(o)
  BY <1>2, <1>3 DEF Clearing, Target
<1>5. ~Clearing(cur[t])
  BY <1>1 DEF Clearing, IInv, Exclusive, CallShape
<1>6. NULL \notin live
  BY SyncAssumption DEF IInv, TypeOK
<1> QED BY <1>1, <1>2, <1>3, <1>4, <1>5, <1>6 DEF NoneLost

LEMMA DestroyKeepsObjects ==
  ASSUME IInv, NoneLost, NEW t \in Threads, DestroyFree(t) \/ DestroyClear(t)
  PROVE  NoneLost'
<1>1. CASE DestroyFree(t)
  <2>1. /\ live' = live \ {host[Target(t)]} /\ UNCHANGED <<host, call, new>>
        /\ pc' = [pc EXCEPT ![t] = "clear"]
    BY <1>1 DEF DestroyFree, guestVars, fetchVars
  <2>2. \A o \in Objs : o # Target(t) /\ Clearing(o)' => Clearing(o)
    BY <2>1 DEF Clearing, Target, IInv, TypeOK
  <2> QED BY <2>1, <2>2 DEF NoneLost
<1>2. CASE DestroyClear(t)
  <2>1. /\ host' = [host EXCEPT ![Target(t)] = NULL] /\ live' = live /\ new' = new
        /\ pc' = [pc EXCEPT ![t] = "idle"] /\ call' = [call EXCEPT ![t] = NoCall]
        /\ Clearing(Target(t))
    BY <1>2 DEF DestroyClear, Return, heapVars, Clearing
  <2>2. \A o : Clearing(o)' => Clearing(o)
    BY <2>1 DEF Clearing, Target, IInv, TypeOK
  <2>3. \A o \in Objs : o # Target(t) => host'[o] = host[o]
    BY <2>1 DEF IInv, TypeOK
  <2> QED BY <2>1, <2>2, <2>3 DEF NoneLost
<1> QED BY <1>1, <1>2

\* No host object is lost, whatever addresses calloc hands out again in the
\* midst of a destroy (hle_pthread.c:72, 104, 151).
THEOREM NothingOrphaned == Spec => []NoOrphan
<1>1. Init => NoneLost
  BY DEF Init, NoneLost
<1>2. ASSUME IInv, NoneLost, [Next]_vars PROVE NoneLost'
  <2>1. CASE UNCHANGED vars
    BY <1>2, <2>1, NoneLostFrame DEF vars, guestVars, heapVars, fetchVars, Target
  <2>2. ASSUME NEW t \in Threads, Step(t) \/ \E c \in Calls : Call(t, c) PROVE NoneLost'
    BY <1>2, <2>2, FetchKeepsObjects, HandlerKeepsObjects, MakeKeepsObjects,
       StoreHostKeepsObjects, DestroyKeepsObjects DEF Step
  <2> QED BY <1>2, <2>1, <2>2 DEF Next
<1>3. NoneLost => NoOrphan
  BY DEF NoneLost, NoOrphan
<1> QED BY <1>1, <1>2, <1>3, Invariance, PTL DEF Spec

----------------------------------------------------------------------------
(* The handlers implement PosixSync: each step is one of its steps or      *)
(* changes neither who holds what nor who sleeps on what.                  *)

Sleeping == [t \in Threads |-> IF pc[t] = "asleep" THEN call[t].cond ELSE NULL]

LEMMA SleepersStay ==
  ASSUME \A u \in Threads : pc'[u] = "asleep" <=> pc[u] = "asleep",
         \A u \in Threads : pc[u] = "asleep" => call'[u] = call[u]
  PROVE  Sleeping' = Sleeping
BY DEF Sleeping

\* What every return to the guest but a waking one does to the sleepers.
LEMMA ReturnKeepsSleepers ==
  ASSUME IInv, NEW t \in Threads, pc[t] # "asleep", Return(t)
  PROVE  Sleeping' = Sleeping
<1>1. \A u \in Threads \ {t} : pc'[u] = pc[u] /\ call'[u] = call[u]
  BY DEF Return, IInv, TypeOK
<1>2. pc'[t] = "idle"
  BY DEF Return, IInv, TypeOK
<1> QED BY <1>1, <1>2, SleepersStay

LEMMA FetchIsSilent ==
  ASSUME IInv, NEW t \in Threads,
         \/ \E o \in Objs : TestMagic(t, o)
         \/ FastPath(t) \/ SlowPath(t) \/ EnterInitLock(t) \/ FoundMade(t)
         \/ \E h \in Hosts : Make(t, h)
         \/ StoreHost(t) \/ StoreMagic(t) \/ LeaveInitLock(t) \/ Reload(t)
         \/ DestroyFree(t) \/ \E c \in Calls : Call(t, c)
  PROVE  held' = held /\ Sleeping' = Sleeping
<1>1. held' = held
  BY DEF TestMagic, FastPath, SlowPath, EnterInitLock, FoundMade, Make, Construct, StoreHost,
     StoreMagic, LeaveInitLock, Reload, DestroyFree, Call
<1>2. \A u \in Threads \ {t} : pc'[u] = pc[u] /\ call'[u] = call[u]
  BY DEF TestMagic, FastPath, SlowPath, EnterInitLock, FoundMade, Make, Construct, StoreHost,
     StoreMagic, LeaveInitLock, Reload, DestroyFree, Call, Fetched, Stored, IInv, TypeOK
<1>3. pc[t] # "asleep"
  BY DEF TestMagic, FastPath, SlowPath, EnterInitLock, FoundMade, Make, StoreHost,
     StoreMagic, LeaveInitLock, Reload, DestroyFree, Call, Using
<1>4. pc'[t] # "asleep"
  BY DEF TestMagic, FastPath, SlowPath, EnterInitLock, FoundMade, Make, Construct, StoreHost,
     StoreMagic, LeaveInitLock, Reload, DestroyFree, Call, Fetched, Stored, IInv, TypeOK
<1> QED BY <1>1, <1>2, <1>3, <1>4, SleepersStay

LEMMA ReturnIsSilent ==
  ASSUME IInv, NEW t \in Threads,
         ObjInit(t) \/ TrylockBusy(t) \/ SignalNobody(t) \/ DestroyNothing(t) \/ DestroyClear(t)
  PROVE  held' = held /\ Sleeping' = Sleeping
<1>1. held' = held /\ Return(t) /\ pc[t] # "asleep"
  BY DEF ObjInit, TrylockBusy, SignalNobody, DestroyNothing, DestroyClear, Using
<1> QED BY <1>1, ReturnKeepsSleepers

\* Entering the critical section behind a mutex locks it, first or again.
LEMMA AcquireIsLock ==
  ASSUME SyncAssumption, IInv, NEW t \in Threads, pc[t] \in {"use", "relock"},
         call[t].op \in {"lock", "trylock", "wait"},
         Acquire(t, call[t].mutex, got[t][call[t].mutex]), Return(t)
  PROVE  \E m \in Mutexes : Posix!Lock(t, m)
<1>1. PICK m \in Mutexes : m = call[t].mutex /\ m \in Args(t)
  BY SyncAssumption DEF IInv, CallShape, Args, Objs
<1>2. m \in Objs /\ got[t][m] = host[m] /\ host[m] \in Hosts /\ host[m] # NULL /\ ~Clearing(m)
  BY <1>1, Resolved DEF Destroying
<1>3. /\ owner[host[m]] \in {NULL, t}
      /\ held' = [held EXCEPT ![m][t] = @ + 1]
  BY <1>1, <1>2 DEF Acquire
<1>4. \A u \in Threads \ {t} : held[m][u] = 0
  BY <1>1, <1>2, <1>3, SyncAssumption DEF IInv, Holding
<1>5. Sleeping[t] = NULL /\ Sleeping' = Sleeping
  BY ReturnKeepsSleepers DEF Sleeping
<1> QED BY <1>1, <1>3, <1>4, <1>5 DEF Posix!Lock, Sleeping

LEMMA UnlockIsUnlock ==
  ASSUME SyncAssumption, IInv, NEW t \in Threads, MutexUnlock(t)
  PROVE  \E m \in Mutexes : Posix!Unlock(t, m)
<1>1. PICK m \in Mutexes : m = call[t].mutex
  BY DEF MutexUnlock, Using, IInv, CallShape
<1>2. held[m][t] > 0 /\ held' = [held EXCEPT ![m][t] = @ - 1]
  BY <1>1 DEF MutexUnlock, Release, Using, IInv, Contract
<1>3. Sleeping[t] = NULL /\ Sleeping' = Sleeping
  BY ReturnKeepsSleepers DEF Sleeping, MutexUnlock, Using
<1> QED BY <1>1, <1>2, <1>3 DEF Posix!Unlock, Sleeping

LEMMA CondWaitIsWait ==
  ASSUME SyncAssumption, IInv, NEW t \in Threads, CondWait(t)
  PROVE  \E m \in Mutexes, c \in Conds : Posix!Wait(t, c, m)
<1>1. PICK m \in Mutexes, c \in Conds : m = call[t].mutex /\ c = call[t].cond
  BY DEF CondWait, Using, IInv, CallShape
<1>2. /\ held[m][t] = 1 /\ held' = [held EXCEPT ![m][t] = @ - 1]
      /\ pc[t] = "use" /\ pc' = [pc EXCEPT ![t] = "asleep"] /\ call' = call
  BY <1>1 DEF CondWait, Release, Using, IInv, Contract
<1>3. held' = [held EXCEPT ![m][t] = 0]
  BY <1>1, <1>2 DEF IInv, TypeOK
<1>4. Sleeping[t] = NULL /\ Sleeping' = [Sleeping EXCEPT ![t] = c]
  BY <1>1, <1>2 DEF Sleeping, IInv, TypeOK
<1> QED BY <1>1, <1>2, <1>3, <1>4 DEF Posix!Wait, Sleeping

\* A sleeper whose name is c's: it is woken, by a signal or by itself.
LEMMA WakingIsSignal ==
  ASSUME IInv, NEW u \in Threads, pc[u] = "asleep", held' = held,
         Sleeping' = [Sleeping EXCEPT ![u] = NULL]
  PROVE  \E c \in Conds : Posix!Signal(c)
<1>1. PICK c \in Conds : c = call[u].cond
  BY DEF IInv, CallShape
<1>2. u \in Posix!Sleepers(c)
  BY <1>1 DEF Posix!Sleepers
<1> QED BY <1>1, <1>2 DEF Posix!Signal, Sleeping

LEMMA WakeAloneIsSignal ==
  ASSUME IInv, NEW t \in Threads, WakeAlone(t)
  PROVE  \E c \in Conds : Posix!Signal(c)
<1>1. /\ pc[t] = "asleep" /\ held' = held
      /\ pc' = [pc EXCEPT ![t] = "relock"] /\ call' = call
  BY DEF WakeAlone
<1>2. Sleeping' = [Sleeping EXCEPT ![t] = NULL]
  BY <1>1 DEF Sleeping, IInv, TypeOK
<1> QED BY <1>1, <1>2, WakingIsSignal

LEMMA SignalOneIsSignal ==
  ASSUME IInv, NEW t \in Threads, NEW u \in Threads, SignalOne(t, u)
  PROVE  \E c \in Conds : Posix!Signal(c)
<1>1. got[t][call[t].cond] \in Hosts
  BY Resolved, SyncAssumption
     DEF SignalOne, Using, Args, Destroying, IInv, CallShape, Objs
<1>2. pc[u] = "asleep" /\ pc[t] = "use"
  BY <1>1 DEF SignalOne, Using, IInv, Queues
<1>3. /\ held' = held /\ call' = [call EXCEPT ![t] = NoCall]
      /\ pc' = [v \in Threads |-> IF v = t THEN "idle" ELSE IF v = u THEN "relock" ELSE pc[v]]
  BY DEF SignalOne, ReturnWaking
<1>4. Sleeping' = [Sleeping EXCEPT ![u] = NULL]
  BY <1>2, <1>3 DEF Sleeping, IInv, TypeOK
<1> QED BY <1>2, <1>3, <1>4, WakingIsSignal

\* The queue of a fetched condition holds just the sleepers of that condition.
LEMMA QueueIsAsleep ==
  ASSUME SyncAssumption, IInv, NEW t \in Threads, NEW c \in Conds, pc[t] = "use",
         ~Destroying(t), c = call[t].cond
  PROVE  /\ c \in Objs /\ got[t][c] = host[c] /\ host[c] \in Hosts
         /\ \A u \in Threads : u \in queue[host[c]] <=> pc[u] = "asleep" /\ call[u].cond = c
<1>1. c \in Args(t)
  BY SyncAssumption DEF Args, Objs
<1>2. c \in Objs /\ got[t][c] = host[c] /\ host[c] \in Hosts /\ host[c] # NULL /\ ~Clearing(c)
  BY <1>1, Resolved
<1>3. ASSUME NEW u \in Threads
      PROVE  u \in queue[host[c]] <=> pc[u] = "asleep" /\ call[u].cond = c
  <2>1. ASSUME pc[u] = "asleep"
        PROVE  /\ call[u].cond \in Objs /\ got[u][call[u].cond] = host[call[u].cond]
               /\ ~Clearing(call[u].cond)
    BY <2>1, Resolved, SyncAssumption DEF IInv, CallShape, Args, Destroying, Objs
  <2>2. ASSUME u \in queue[host[c]] PROVE pc[u] = "asleep" /\ call[u].cond = c
    <3>1. pc[u] = "asleep" /\ got[u][call[u].cond] = host[c]
      BY <1>2, <2>2 DEF IInv, Queues
    <3> QED BY <1>2, <2>1, <3>1 DEF IInv, Words
  <2>3. ASSUME pc[u] = "asleep", call[u].cond = c PROVE u \in queue[host[c]]
    BY <1>2, <2>1, <2>3 DEF IInv, Queues
  <2> QED BY <2>2, <2>3
<1> QED BY <1>2, <1>3

LEMMA BroadcastIsBroadcast ==
  ASSUME SyncAssumption, IInv, NEW t \in Threads, CondBroadcast(t)
  PROVE  \/ \E c \in Conds : Posix!Broadcast(c)
         \/ held' = held /\ Sleeping' = Sleeping
<1>1. PICK c \in Conds : c = call[t].cond
  BY DEF CondBroadcast, Using, IInv, CallShape
<1>2. c \in Objs /\ got[t][c] = host[c] /\ host[c] \in Hosts
  BY <1>1, QueueIsAsleep DEF CondBroadcast, Using, Destroying
<1>3. \A u \in Threads : u \in queue[host[c]] <=> pc[u] = "asleep" /\ call[u].cond = c
  BY <1>1, QueueIsAsleep DEF CondBroadcast, Using, Destroying
<1>4. /\ held' = held /\ call' = [call EXCEPT ![t] = NoCall] /\ pc[t] = "use"
      /\ pc' = [v \in Threads |-> IF v = t THEN "idle"
                                  ELSE IF v \in queue[host[c]] THEN "relock" ELSE pc[v]]
  BY <1>1, <1>2 DEF CondBroadcast, ReturnWaking, Using
<1>5. Sleeping' = [u \in Threads |-> IF Sleeping[u] = c THEN NULL ELSE Sleeping[u]]
  <2>1. ASSUME NEW u \in Threads
        PROVE  Sleeping'[u] = IF Sleeping[u] = c THEN NULL ELSE Sleeping[u]
    <3>1. Sleeping[u] = c <=> u \in queue[host[c]]
      BY <1>1, <1>3, SyncAssumption DEF Sleeping, Objs
    <3>2. CASE u = t
      BY <1>4, <3>2 DEF Sleeping
    <3>3. CASE u # t
      BY <1>3, <1>4, <3>1, <3>3 DEF Sleeping, IInv, TypeOK
    <3> QED BY <3>2, <3>3
  <2> QED BY <2>1 DEF Sleeping
<1>6. CASE Posix!Sleepers(c) = {}
  <2>1. \A u \in Threads : Sleeping[u] # c
    BY <1>6 DEF Posix!Sleepers, Sleeping
  <2> QED BY <1>4, <1>5, <2>1 DEF Sleeping
<1>7. CASE Posix!Sleepers(c) # {}
  BY <1>4, <1>5, <1>7 DEF Posix!Broadcast, Sleeping
<1> QED BY <1>6, <1>7

LEMMA StepIsPosix ==
  ASSUME IInv, [Next]_vars
  PROVE  Posix!Next \/ (held' = held /\ Sleeping' = Sleeping)
<1>1. CASE UNCHANGED vars
  BY <1>1 DEF vars, Sleeping
<1>2. ASSUME NEW t \in Threads, Step(t) \/ \E c \in Calls : Call(t, c)
      PROVE  Posix!Next \/ (held' = held /\ Sleeping' = Sleeping)
  <2>1. CASE MutexLock(t) \/ WaitReturn(t)
    <3>1. /\ pc[t] \in {"use", "relock"} /\ call[t].op \in {"lock", "trylock", "wait"}
          /\ Acquire(t, call[t].mutex, got[t][call[t].mutex]) /\ Return(t)
      BY <2>1 DEF MutexLock, WaitReturn, Using, IInv, CallShape
    <3> QED BY <3>1, AcquireIsLock, SyncAssumption DEF Posix!Next
  <2>2. CASE MutexUnlock(t)
    BY <2>2, UnlockIsUnlock, SyncAssumption DEF Posix!Next
  <2>3. CASE CondWait(t)
    BY <2>3, CondWaitIsWait, SyncAssumption DEF Posix!Next
  <2>4. CASE WakeAlone(t) \/ \E u \in Threads : SignalOne(t, u)
    BY <2>4, WakeAloneIsSignal, SignalOneIsSignal DEF Posix!Next
  <2>5. CASE CondBroadcast(t)
    BY <2>5, BroadcastIsBroadcast, SyncAssumption DEF Posix!Next
  <2> QED BY <1>2, <2>1, <2>2, <2>3, <2>4, <2>5, FetchIsSilent, ReturnIsSilent DEF Step
<1> QED BY <1>1, <1>2 DEF Next

\* To the guest these are recursive pthread mutexes and conditions: a lock is
\* granted to one thread, a wait releases and sleeps in one step, and a sleeper
\* comes back with the mutex, whatever races made the host objects.
THEOREM MutexesArePosix == Spec => ImplementsPosixSync
<1>1. Init => Posix!Init
  BY DEF Init, Posix!Init
<1>2. IInv /\ [Next]_vars => [Posix!Next]_Posix!vars
  BY StepIsPosix DEF Posix!vars, Sleeping
<1> QED BY <1>1, <1>2, Invariance, PTL DEF Spec, ImplementsPosixSync, Posix!Spec

----------------------------------------------------------------------------
(* Wakeups.                                                                *)

\* Only its own step takes a thread out of a handler it has resolved.
LEMMA OwnStepReturns ==
  ASSUME IInv, Next, NEW t \in Threads, call[t].op \in {"signal", "broadcast"},
         pc[t] = "use", pc'[t] = "idle"
  PROVE  SignalNobody(t) \/ CondBroadcast(t) \/ \E u \in Threads : SignalOne(t, u)
<1>1. PICK v \in Threads : Step(v) \/ \E c \in Calls : Call(v, c)
  BY DEF Next
<1>2. v = t
  <2> SUFFICES ASSUME v # t PROVE FALSE
    OBVIOUS
  <2>1. pc'[t] \in {pc[t], "relock"}
    <3>1. CASE CondBroadcast(v) \/ \E u \in Threads : SignalOne(v, u)
      BY <3>1 DEF CondBroadcast, SignalOne, ReturnWaking
    <3>2. CASE ObjInit(v) \/ MutexLock(v) \/ TrylockBusy(v) \/ MutexUnlock(v) \/ SignalNobody(v)
               \/ CondWait(v) \/ WakeAlone(v) \/ WaitReturn(v)
               \/ DestroyNothing(v) \/ DestroyFree(v) \/ DestroyClear(v)
      BY <3>2 DEF ObjInit, MutexLock, TrylockBusy, MutexUnlock, SignalNobody, CondWait,
         WakeAlone, WaitReturn, DestroyNothing, DestroyFree, DestroyClear, Return, IInv, TypeOK
    <3>3. CASE \/ \E o \in Objs : TestMagic(v, o)
               \/ FastPath(v) \/ SlowPath(v) \/ EnterInitLock(v) \/ FoundMade(v)
               \/ \E h \in Hosts : Make(v, h)
               \/ StoreHost(v) \/ StoreMagic(v) \/ LeaveInitLock(v) \/ Reload(v)
               \/ \E c \in Calls : Call(v, c)
      BY <3>3 DEF TestMagic, FastPath, SlowPath, EnterInitLock, FoundMade, Make, Construct,
         StoreHost, StoreMagic, LeaveInitLock, Reload, Call, Fetched, Stored, IInv, TypeOK
    <3> QED BY <1>1, <3>1, <3>2, <3>3 DEF Step
  <2> QED BY <2>1
<1>3. ~(\E c \in Calls : Call(t, c))
  BY DEF Call
<1> QED BY <1>1, <1>2, <1>3
        DEF Step, TestMagic, FastPath, SlowPath, EnterInitLock, FoundMade, Make, StoreHost,
            StoreMagic, LeaveInitLock, Reload, ObjInit, MutexLock, TrylockBusy, MutexUnlock,
            CondWait, WakeAlone, WaitReturn, DestroyNothing, DestroyFree, DestroyClear, Using

LEMMA WakersWake ==
  ASSUME SyncAssumption, IInv, Next, NEW t \in Threads, NEW c \in Conds, call[t].cond = c,
         Asleep(c) # {}
  PROVE  /\ Finishes(t, "signal") => Asleep(c)' # Asleep(c)
         /\ Finishes(t, "broadcast") => Asleep(c)' = {}
<1> SUFFICES ASSUME call[t].op \in {"signal", "broadcast"}, pc[t] = "use", pc'[t] = "idle"
             PROVE  /\ call[t].op = "signal" => Asleep(c)' # Asleep(c)
                    /\ call[t].op = "broadcast" => Asleep(c)' = {}
  BY DEF Finishes, Using
<1>1. SignalNobody(t) \/ CondBroadcast(t) \/ \E u \in Threads : SignalOne(t, u)
  BY OwnStepReturns
<1>2. got[t][c] = host[c] /\ \A u \in Threads : u \in queue[host[c]] <=> u \in Asleep(c)
  BY QueueIsAsleep DEF Asleep, Destroying
<1>3. ~SignalNobody(t)
  BY <1>2 DEF SignalNobody, Asleep
<1>4. ASSUME NEW u \in Threads, SignalOne(t, u)
      PROVE  call[t].op = "signal" /\ u \in Asleep(c) /\ u \notin Asleep(c)'
  <2>1. call[t].op = "signal" /\ u \in Asleep(c)
    BY <1>2, <1>4 DEF SignalOne, Using
  <2>2. pc'[u] # "asleep"
    BY <1>4 DEF SignalOne, ReturnWaking
  <2> QED BY <2>1, <2>2 DEF Asleep
<1>5. ASSUME CondBroadcast(t) PROVE call[t].op = "broadcast" /\ Asleep(c)' = {}
  <2>1. /\ call' = [call EXCEPT ![t] = NoCall]
        /\ pc' = [v \in Threads |-> IF v = t THEN "idle"
                                    ELSE IF v \in queue[host[c]] THEN "relock" ELSE pc[v]]
    BY <1>2, <1>5 DEF CondBroadcast, ReturnWaking
  <2>2. ASSUME NEW u \in Threads, pc'[u] = "asleep" PROVE call'[u].cond # c
    <3>1. u # t /\ u \notin queue[host[c]] /\ pc[u] = "asleep"
      BY <2>1, <2>2
    <3>2. call'[u] = call[u]
      BY <2>1, <3>1 DEF IInv, TypeOK
    <3> QED BY <1>2, <3>1, <3>2 DEF Asleep
  <2> QED BY <1>5, <2>2 DEF Asleep, CondBroadcast, Using
<1> QED BY <1>1, <1>3, <1>4, <1>5

\* A signal that returns while somebody sleeps on the condition has woken a
\* sleeper, and a broadcast all of them (hle_pthread.c:113, 114).
THEOREM WakersReachSleepers == Spec => WakeupsArrive
<1>1. IInv /\ [Next]_vars =>
        [\A t \in Threads, c \in Conds :
           call[t].cond = c /\ Asleep(c) # {} =>
             /\ Finishes(t, "signal") => Asleep(c)' # Asleep(c)
             /\ Finishes(t, "broadcast") => Asleep(c)' = {}]_vars
  BY WakersWake, SyncAssumption
<1> QED BY <1>1, Invariance, PTL DEF Spec, WakeupsArrive
=============================================================================
