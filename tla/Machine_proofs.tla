--------------------------- MODULE Machine_proofs ----------------------------
(***************************************************************************)
(* The machine the guest runs on.                                          *)
(*                                                                         *)
(* What dispatch keeps for any code, any arities and any stack: the stack  *)
(* pointer of every thread is where the body that runs left it, the depth  *)
(* counter counts that thread's activations of dispatch, and the body that *)
(* answers a call sees the arguments its caller passed.  The invariant     *)
(* follows a call through its life: pushed and not routed, entered,        *)
(* returned and not resumed.  Each stage fixes esp against the stack       *)
(* pointer of the body beneath.  The arguments of every body that can      *)
(* still read them then lie above all that was pushed since, which is the  *)
(* refinement of CallStack.                                                *)
(*                                                                         *)
(* What the loader and the system calls give the guest is there, and what  *)
(* mmap2 gives is nobody else's, for any page, any unit of address space,  *)
(* any image and any sizes asked for that are too small to carry the break *)
(* around the end of memory.                                               *)
(***************************************************************************)
EXTENDS Dispatch, GuestMemory, FiniteSetTheorems, SequenceTheorems, WellFoundedInduction, TLAPS

----------------------------------------------------------------------------
(* The invariant.                                                          *)

\* esp while the n-th body on the thread's host stack runs.
Base(t, n) == IF n = 0 THEN StackSize + 1 ELSE frames[t][n].sp
Under(t) == Base(t, Len(frames[t]))

\* esp once the body of a call has returned: above the return slot, below the
\* arguments, which a tail call has put in place of its caller's.
Rest(c) == IF c.via = "tail" THEN c.saved + 1 ELSE c.saved - Arity[c.va]

\* A body that has been entered; a lifted one finds a return slot.
FrameOk(t, i) ==
  LET f == frames[t][i]
  IN  /\ f.saved = Base(t, i - 1)
      /\ f.via = "tail" => i > 1 /\ frames[t][i - 1].kind = "lifted"
      /\ f.kind = "lifted" => f.sp <= StackSize
      /\ f.sp = Rest(f) - (IF f.kind = "lifted" THEN 1 ELSE 0)

LiftedUnder(t) == frames[t] # <<>> /\ Last(frames[t]).kind = "lifted"

\* A call that is pushed.
CallOk(t) ==
  LET c == calling[t]
  IN  /\ back[t] = NULL
      /\ c.saved = Under(t)
      /\ c.via = "tail" => LiftedUnder(t)
      /\ esp[t] = Rest(c) - (IF c.via = "import" THEN 0 ELSE 1)

\* A body that has returned.
BackOk(t) ==
  LET f == back[t]
  IN  /\ calling[t] = NULL
      /\ f.saved = Under(t)
      /\ f.via = "tail" => LiftedUnder(t)
      /\ esp[t] = Rest(f)

Balanced(t) ==
  /\ \A i \in 1..Len(frames[t]) : FrameOk(t, i)
  /\ calling[t] # NULL => CallOk(t)
  /\ back[t] # NULL => BackOk(t)
  /\ calling[t] = NULL /\ back[t] = NULL => esp[t] = Under(t)

Counts(t) == halt = "" => depth[t] = Cardinality(Dispatched(t)) /\ depth[t] <= DepthLimit

DispatchInv == TypeOK /\ \A t \in Threads : Balanced(t) /\ Counts(t)

LEMMA InvSuffices == DispatchInv => StackBalanced /\ DispatchSound
<1> SUFFICES ASSUME DispatchInv PROVE StackBalanced /\ DispatchSound
  OBVIOUS
<1>1. StackBalanced
  <2> SUFFICES ASSUME NEW t \in Threads, halt = "", calling[t] = NULL, back[t] = NULL
               PROVE  esp[t] = IF frames[t] = <<>> THEN StackSize + 1 ELSE Last(frames[t]).sp
    BY DEF StackBalanced
  <2>1. frames[t] \in Seq(Frames) /\ esp[t] = Under(t)
    BY DEF DispatchInv, TypeOK, Balanced
  <2>2. Len(frames[t]) \in Nat /\ (Len(frames[t]) = 0 <=> frames[t] = <<>>)
    <3>1. frames[t] \in Seq(Frames)
      BY <2>1
    <3> QED
      BY <3>1, EmptySeq, LenProperties
  <2>3. Last(frames[t]) = frames[t][Len(frames[t])]
    BY DEF Last
  <2> QED
    BY <2>1, <2>2, <2>3 DEF Under, Base
<1>2. DispatchSound
  BY DEF DispatchInv, Counts, DispatchSound, DepthCounts
<1> QED
  BY <1>1, <1>2

LEMMA InvStarts == Init => DispatchInv
<1> SUFFICES ASSUME Init PROVE DispatchInv
  OBVIOUS
<1>1. TypeOK
  <2>1. StackSize \in Nat \ {0} /\ DepthLimit \in Nat \ {0} /\ <<>> \in Seq(Frames)
    BY DispatchAssumption DEF DispatchAssumption
  <2>2. /\ StackSize + 1 \in 1..StackSize + 1 /\ 0 \in 0..DepthLimit + 1
        /\ [i \in Slots |-> RETURN] \in [Slots -> Words \cup {RETURN}]
    BY <2>1
  <2> QED
    BY <2>1, <2>2 DEF Init, TypeOK
<1>2. ASSUME NEW t \in Threads PROVE Balanced(t) /\ Counts(t)
  <2>1. /\ frames[t] = <<>> /\ calling[t] = NULL /\ back[t] = NULL /\ esp[t] = StackSize + 1
        /\ depth[t] = 0
    BY DEF Init
  <2>2. Dispatched(t) = {}
    BY <2>1 DEF Dispatched
  <2>3. Cardinality(Dispatched(t)) = 0
    BY <2>2, FS_EmptySet
  <2>4. Len(frames[t]) = 0
    BY <2>1
  <2>5. Balanced(t)
    BY <2>1, <2>4 DEF Balanced, Under, Base
  <2>6. Counts(t)
    <3>1. 0 <= DepthLimit
      BY DispatchAssumption DEF DispatchAssumption
    <3> QED
      BY <2>1, <2>3, <3>1, Zenon DEF Counts
  <2> QED
    BY <2>5, <2>6
<1> QED
  BY <1>1, <1>2 DEF DispatchInv

Runs == halt = ""

\* A thread's step touches no other thread's part.
Others(t) ==
  \A u \in Threads \ {t} :
    /\ esp'[u] = esp[u] /\ frames'[u] = frames[u] /\ depth'[u] = depth[u]
    /\ calling'[u] = calling[u] /\ back'[u] = back[u]

LEMMA OthersKeep ==
  ASSUME DispatchInv, NEW t \in Threads, Others(t), Runs,
         TypeOK', Balanced(t)', Counts(t)'
  PROVE  DispatchInv'
<1> SUFFICES ASSUME NEW u \in Threads, u # t PROVE Balanced(u)' /\ Counts(u)'
  BY DEF DispatchInv
<1>1. /\ esp'[u] = esp[u] /\ frames'[u] = frames[u] /\ depth'[u] = depth[u]
      /\ calling'[u] = calling[u] /\ back'[u] = back[u]
  BY DEF Others
<1>2. Balanced(u) /\ Counts(u)
  BY DEF DispatchInv
<1>3. Balanced(u)'
  <2>1. \A n : Base(u, n)' = Base(u, n)
    BY <1>1 DEF Base
  <2>2. Under(u)' = Under(u)
    BY <1>1 DEF Under, Base
  <2>3. LiftedUnder(u)' <=> LiftedUnder(u)
    BY <1>1 DEF LiftedUnder
  <2>4. \A i \in 1..Len(frames[u]) : FrameOk(u, i)'
    BY <1>1, <1>2, <2>1 DEF Balanced, FrameOk
  <2>5. calling[u] # NULL => CallOk(u)'
    BY <1>1, <1>2, <2>2, <2>3 DEF Balanced, CallOk
  <2>6. back[u] # NULL => BackOk(u)'
    BY <1>1, <1>2, <2>2, <2>3 DEF Balanced, BackOk
  <2> QED
    BY <1>1, <1>2, <2>2, <2>4, <2>5, <2>6 DEF Balanced
<1>4. Counts(u)'
  BY <1>1, <1>2 DEF Counts, Dispatched, Runs
<1> QED
  BY <1>3, <1>4
----------------------------------------------------------------------------
(* Entering and leaving a body.                                            *)

LEMMA Constants ==
  /\ StackSize \in Nat /\ DepthLimit \in Nat
  /\ \A va \in Addresses : Arity[va] \in Nat
  /\ \A va \in Addresses : \A s \in Passed[va] : s \in Seq(Words) /\ Len(s) = Arity[va]
BY DispatchAssumption DEF DispatchAssumption

\* A pushed call that dispatch is to route has left room for a return slot.
LEMMA Routable ==
  ASSUME DispatchInv, NEW t \in Threads, calling[t] # NULL, calling[t].via # "import"
  PROVE  esp[t] \in 1..StackSize
<1>1. esp[t] \in 1..StackSize + 1 /\ calling[t] \in Callings /\ frames[t] \in Seq(Frames)
  BY DEF DispatchInv, TypeOK
<1>2. calling[t].saved \in 1..StackSize + 1 /\ calling[t].va \in Addresses
  BY <1>1 DEF Callings
<1>3. CallOk(t) /\ \A i \in 1..Len(frames[t]) : FrameOk(t, i)
  BY DEF DispatchInv, Balanced
<1>4. CASE calling[t].via = "tail"
  <2>1. esp[t] = Under(t) /\ LiftedUnder(t)
    BY <1>2, <1>3, <1>4, Constants DEF CallOk, Rest
  <2>2. Len(frames[t]) \in Nat \ {0}
    BY <1>1, <2>1, EmptySeq DEF LiftedUnder
  <2>3. /\ Under(t) = frames[t][Len(frames[t])].sp
        /\ frames[t][Len(frames[t])].kind = "lifted"
    BY <2>1, <2>2 DEF Under, Base, LiftedUnder, Last
  <2> QED
    BY <1>1, <1>3, <2>1, <2>2, <2>3, Constants DEF FrameOk
<1>5. CASE calling[t].via # "tail"
  <2>1. esp[t] = calling[t].saved - Arity[calling[t].va] - 1
    BY <1>2, <1>3, <1>5, Constants DEF CallOk, Rest
  <2> QED
    BY <1>1, <1>2, <2>1, Constants
<1> QED
  BY <1>4, <1>5

\* The body a pushed call is about to become.
NewFrame(t, kind, sp) ==
  [va |-> calling[t].va, via |-> calling[t].via, kind |-> kind,
   sp |-> sp, saved |-> calling[t].saved, left |-> FALSE]

LEMMA Entering ==
  ASSUME DispatchInv, NEW t \in Threads, calling[t] # NULL,
         NEW kind \in {"lifted", "host"}, NEW sp \in 1..StackSize + 1,
         kind = "lifted" => sp <= StackSize,
         sp = Rest(calling[t]) - (IF kind = "lifted" THEN 1 ELSE 0),
         Enter(t, kind, sp)
  PROVE  /\ Balanced(t)'
         /\ frames' \in [Threads -> Seq(Frames)]
         /\ Cardinality(Dispatched(t)')
              = Cardinality(Dispatched(t)) + (IF calling[t].via = "import" THEN 0 ELSE 1)
<1> DEFINE f == NewFrame(t, kind, sp)
           s == frames[t]
<1>0. PICK n \in Nat : n = Len(s)
  BY LenProperties DEF DispatchInv, TypeOK
<1>1. /\ s \in Seq(Frames) /\ calling[t] \in Callings
      /\ frames \in [Threads -> Seq(Frames)]
  BY DEF DispatchInv, TypeOK
<1>2. /\ frames' = [frames EXCEPT ![t] = Append(s, f)]
      /\ esp' = [esp EXCEPT ![t] = sp] /\ calling' = [calling EXCEPT ![t] = NULL]
      /\ back' = back
  BY DEF Enter, Drop, NewFrame
<1>3. f \in Frames
  BY <1>1 DEF NewFrame, Frames, Callings
<1>4. /\ f.saved = calling[t].saved /\ f.via = calling[t].via /\ f.kind = kind /\ f.sp = sp
      /\ f.va = calling[t].va
  BY DEF NewFrame
<1> HIDE DEF f
<1>5. /\ n = Len(s)
      /\ Append(s, f) \in Seq(Frames) /\ Len(Append(s, f)) = n + 1
      /\ \A i \in 1..n : Append(s, f)[i] = s[i]
      /\ Append(s, f)[n + 1] = f
  BY <1>0, <1>1, <1>3, AppendProperties
<1>6. /\ frames'[t] = Append(s, f) /\ frames' \in [Threads -> Seq(Frames)]
      /\ esp'[t] = sp /\ calling'[t] = NULL /\ back'[t] = back[t]
  BY <1>1, <1>2, <1>5 DEF DispatchInv, TypeOK
<1>7. CallOk(t) /\ \A i \in 1..n : FrameOk(t, i)
  BY <1>0 DEF DispatchInv, Balanced
<1>8. Balanced(t)'
  <2>1. \A i \in 0..n : Base(t, i)' = Base(t, i)
    BY <1>5, <1>6 DEF Base
  <2>2. Under(t)' = sp
    BY <1>4, <1>5, <1>6 DEF Under, Base
  <2>3. ASSUME NEW i \in 1..n PROVE FrameOk(t, i)'
    <3>1. frames'[t][i] = s[i] /\ (i > 1 => frames'[t][i - 1] = s[i - 1])
      BY <1>5, <1>6
    <3>2. Base(t, i - 1)' = Base(t, i - 1)
      BY <1>5, <2>1
    <3>3. FrameOk(t, i)
      BY <1>7
    <3> QED
      BY <3>1, <3>2, <3>3 DEF FrameOk, Rest
  <2>4. FrameOk(t, n + 1)'
    <3>1. frames'[t][n + 1] = f /\ (n > 0 => frames'[t][n] = s[n])
      BY <1>5, <1>6
    <3>2. f.saved = Base(t, n)'
      BY <1>4, <1>5, <1>7, <2>1 DEF CallOk, Under
    <3>3. f.via = "tail" => n > 0 /\ s[n].kind = "lifted"
      <4> SUFFICES ASSUME f.via = "tail" PROVE n > 0 /\ s[n].kind = "lifted"
        OBVIOUS
      <4>1. s # <<>> /\ Last(s).kind = "lifted"
        BY <1>4, <1>7 DEF CallOk, LiftedUnder
      <4>2. Len(s) \in Nat \ {0}
        BY <1>1, <4>1, EmptySeq
      <4>3. n > 0
        BY <1>5, <4>2
      <4> QED
        BY <1>5, <4>1, <4>3 DEF Last
    <3>4. f.sp = Rest(f) - (IF f.kind = "lifted" THEN 1 ELSE 0)
      BY <1>4 DEF Rest
    <3>5. (n + 1) - 1 = n
      BY <1>5
    <3> QED
      BY <1>4, <1>5, <3>1, <3>2, <3>3, <3>4, <3>5 DEF FrameOk, Rest
  <2>5. \A i \in 1..Len(frames'[t]) : FrameOk(t, i)'
    <3>1. Len(frames'[t]) = n + 1 /\ \A i \in 1..n + 1 : i \in 1..n \/ i = n + 1
      BY <1>5, <1>6
    <3> QED
      BY <2>3, <2>4, <3>1
  <2> QED
    BY <1>6, <1>7, <2>2, <2>5 DEF Balanced, CallOk
<1>9. Cardinality(Dispatched(t)')
        = Cardinality(Dispatched(t)) + (IF calling[t].via = "import" THEN 0 ELSE 1)
  <2>1. DOMAIN s = 1..n /\ DOMAIN frames'[t] = 1..n + 1
    BY <1>1, <1>5, <1>6, LenProperties
  <2>2. /\ Dispatched(t) = {i \in 1..n : s[i].via # "import"}
        /\ Dispatched(t)' = {i \in 1..n + 1 : frames'[t][i].via # "import"}
    BY <2>1 DEF Dispatched
  <2>3. \A i \in 1..n : frames'[t][i] = s[i]
    BY <1>5, <1>6
  <2>4. frames'[t][n + 1].via = calling[t].via
    BY <1>4, <1>5, <1>6
  <2>5. 1..n + 1 = (1..n) \cup {n + 1} /\ n + 1 \notin 1..n
    BY <1>5
  <2>6. Dispatched(t)' = IF calling[t].via = "import" THEN Dispatched(t)
                         ELSE Dispatched(t) \cup {n + 1}
    BY <2>2, <2>3, <2>4, <2>5
  <2>7. IsFiniteSet(Dispatched(t)) /\ n + 1 \notin Dispatched(t)
    <3>1. IsFiniteSet(1..n)
      BY FS_Interval
    <3> QED
      BY <2>2, <2>5, <3>1, FS_Subset
  <2>8. Cardinality(Dispatched(t) \cup {n + 1}) = Cardinality(Dispatched(t)) + 1
    BY <2>7, FS_AddElement
  <2>9. Cardinality(Dispatched(t)) \in Nat
    BY <2>7, FS_CardinalityType
  <2> QED
    BY <2>6, <2>8, <2>9
<1> QED
  BY <1>6, <1>8, <1>9

\* The top body's stack pointer as its caller is to find it.
Popped(t) == esp'[t] = Rest(Last(frames[t]))
Inside(t) == frames[t] # <<>>

LEMMA Leaving ==
  ASSUME DispatchInv, NEW t \in Threads, Runs, Inside(t), calling[t] = NULL,
         Leave(t), Popped(t)
  PROVE  /\ Balanced(t)' /\ Counts(t)'
         /\ frames' \in [Threads -> Seq(Frames)] /\ back' \in [Threads -> Frames \cup {NULL}]
         /\ depth' \in [Threads -> 0..DepthLimit + 1]
<1> DEFINE s == frames[t]
           f == Last(s)
<1>0. PICK n \in Nat : n = Len(s) /\ n > 0
  <2>1. s \in Seq(Frames) /\ s # <<>>
    BY DEF DispatchInv, TypeOK, Inside
  <2>2. Len(s) \in Nat \ {0}
    BY <2>1, EmptySeq
  <2> QED
    BY <2>2
<1>1. /\ s \in Seq(Frames) /\ frames \in [Threads -> Seq(Frames)]
      /\ back \in [Threads -> Frames \cup {NULL}]
      /\ depth \in [Threads -> 0..DepthLimit + 1]
  BY DEF DispatchInv, TypeOK
<1>2. /\ frames' = [frames EXCEPT ![t] = Front(s)]
      /\ back' = [back EXCEPT ![t] = f]
      /\ depth' = [depth EXCEPT ![t] = IF f.via = "import" THEN @ ELSE @ - 1]
      /\ calling' = calling /\ halt' = halt
  BY DEF Leave
<1>3. f = s[n] /\ f \in Frames
  BY <1>0, <1>1, ElementOfSeq DEF Last
<1>4. /\ Front(s) \in Seq(Frames) /\ Len(Front(s)) = n - 1
      /\ \A i \in 1..n - 1 : Front(s)[i] = s[i]
  <2>1. /\ 1 \in Int /\ n - 1 \in Int
        /\ \A i \in 1..n - 1 : s[i] \in Frames
    BY <1>0, <1>1, ElementOfSeq
  <2>2. Front(s) = SubSeq(s, 1, n - 1)
    BY <1>0 DEF Front
  <2>3. /\ SubSeq(s, 1, n - 1) \in Seq(Frames)
        /\ Len(SubSeq(s, 1, n - 1)) = (IF 1 <= n - 1 THEN (n - 1) - 1 + 1 ELSE 0)
        /\ \A i \in 1..(n - 1) - 1 + 1 : SubSeq(s, 1, n - 1)[i] = s[1 + i - 1]
    BY <2>1, SubSeqProperties
  <2> QED
    BY <1>0, <2>2, <2>3
<1>5. /\ frames'[t] = Front(s) /\ frames' \in [Threads -> Seq(Frames)]
      /\ back'[t] = f /\ back' \in [Threads -> Frames \cup {NULL}] /\ calling'[t] = NULL
  BY <1>1, <1>2, <1>3, <1>4
<1>6. FrameOk(t, n) /\ \A i \in 1..n : FrameOk(t, i)
  BY <1>0 DEF DispatchInv, Balanced
<1> HIDE DEF f
<1>7. Balanced(t)'
  <2>1. \A i \in 0..n - 1 : Base(t, i)' = Base(t, i)
    BY <1>0, <1>4, <1>5 DEF Base
  <2>2. Under(t)' = Base(t, n - 1)
    <3>1. Len(frames'[t]) = n - 1 /\ (n - 1 > 0 => frames'[t][n - 1] = s[n - 1])
      BY <1>0, <1>4, <1>5
    <3>2. Under(t)' = Base(t, n - 1)'
      BY <3>1 DEF Under, Base
    <3>3. n - 1 \in 0..n - 1
      BY <1>0
    <3> QED
      BY <2>1, <3>2, <3>3
  <2>3. ASSUME NEW i \in 1..n - 1 PROVE FrameOk(t, i)'
    <3>1. frames'[t][i] = s[i] /\ (i > 1 => frames'[t][i - 1] = s[i - 1])
      <4>1. i > 1 => i - 1 \in 1..n - 1
        BY <1>0
      <4> QED
        BY <1>4, <1>5, <4>1
    <3>2. Base(t, i - 1)' = Base(t, i - 1)
      BY <1>0, <2>1
    <3>3. FrameOk(t, i)
      BY <1>0, <1>6
    <3> QED
      BY <3>1, <3>2, <3>3 DEF FrameOk, Rest
  <2>4. BackOk(t)'
    <3>1. f.saved = Under(t)'
      BY <1>3, <1>6, <2>2 DEF FrameOk
    <3>2. f.via = "tail" => LiftedUnder(t)'
      <4> SUFFICES ASSUME f.via = "tail" PROVE LiftedUnder(t)'
        OBVIOUS
      <4>1. n > 1 /\ s[n - 1].kind = "lifted"
        BY <1>3, <1>6 DEF FrameOk
      <4>2. Len(frames'[t]) = n - 1 /\ frames'[t][n - 1] = s[n - 1]
        BY <1>0, <1>4, <1>5, <4>1
      <4>3. frames'[t] # <<>>
        BY <1>0, <4>1, <4>2
      <4> QED
        BY <4>1, <4>2, <4>3 DEF LiftedUnder, Last
    <3>3. esp'[t] = Rest(f)
      BY DEF Popped, f
    <3> QED
      BY <1>5, <3>1, <3>2, <3>3 DEF BackOk
  <2>5. back'[t] # NULL
    BY <1>3, <1>5, NoBodyIsNull DEF NoBodyIsNull
  <2>6. \A i \in 1..Len(frames'[t]) : FrameOk(t, i)'
    BY <1>0, <1>4, <1>5, <2>3
  <2> QED
    BY <1>5, <2>4, <2>5, <2>6 DEF Balanced
<1>8. Counts(t)' /\ depth' \in [Threads -> 0..DepthLimit + 1]
  <2>1. DOMAIN s = 1..n /\ DOMAIN frames'[t] = 1..n - 1
    BY <1>0, <1>1, <1>4, <1>5, LenProperties
  <2>2. /\ Dispatched(t) = {i \in 1..n : s[i].via # "import"}
        /\ Dispatched(t)' = {i \in 1..n - 1 : frames'[t][i].via # "import"}
    BY <2>1 DEF Dispatched
  <2>3. \A i \in 1..n - 1 : frames'[t][i] = s[i]
    BY <1>0, <1>4, <1>5
  <2>4. 1..n - 1 = (1..n) \ {n}
    BY <1>0
  <2>5. Dispatched(t)' = IF f.via = "import" THEN Dispatched(t) ELSE Dispatched(t) \ {n}
    BY <1>0, <1>3, <2>2, <2>3, <2>4
  <2>6. IsFiniteSet(Dispatched(t)) /\ (f.via # "import" => n \in Dispatched(t))
    <3>1. IsFiniteSet(1..n)
      BY FS_Interval
    <3>2. IsFiniteSet(Dispatched(t))
      BY <2>2, <3>1, FS_Subset
    <3> QED
      BY <1>0, <1>3, <2>2, <3>2
  <2>7. f.via # "import" => Cardinality(Dispatched(t) \ {n}) = Cardinality(Dispatched(t)) - 1
    BY <2>6, FS_RemoveElement
  <2>8. Cardinality(Dispatched(t)) \in Nat /\ Cardinality(Dispatched(t)') \in Nat
    <3>1. IsFiniteSet(Dispatched(t)')
      BY <2>5, <2>6, FS_RemoveElement
    <3> QED
      BY <2>6, <3>1, FS_CardinalityType
  <2>9. depth[t] = Cardinality(Dispatched(t)) /\ depth[t] <= DepthLimit
    BY DEF DispatchInv, Counts, Runs
  <2>10. depth'[t] = (IF f.via = "import" THEN depth[t] ELSE depth[t] - 1)
    BY <1>1, <1>2
  <2>11. depth'[t] = Cardinality(Dispatched(t)') /\ depth'[t] <= DepthLimit /\ depth'[t] \in Nat
    BY <2>5, <2>7, <2>8, <2>9, <2>10, Constants
  <2>12. Counts(t)'
    BY <2>11, Zenon DEF Counts
  <2>13. depth'[t] \in 0..DepthLimit + 1
    BY <2>11, Constants
  <2>14. depth' \in [Threads -> 0..DepthLimit + 1]
    BY <1>1, <1>2, <2>13
  <2> QED
    BY <2>12, <2>14
<1> QED
  BY <1>5, <1>7, <1>8

----------------------------------------------------------------------------
(* The guest's stack in memory.                                            *)

LEMMA Dropped ==
  ASSUME DispatchInv, NEW t \in Threads, NEW sp \in 1..StackSize + 1, Drop(t, sp)
  PROVE  /\ esp' \in [Threads -> 1..StackSize + 1] /\ esp'[t] = sp
         /\ mem' \in [Threads -> [Slots -> Words \cup {RETURN}]]
         /\ \A u \in Threads \ {t} : esp'[u] = esp[u]
<1>1. /\ esp \in [Threads -> 1..StackSize + 1]
      /\ mem \in [Threads -> [Slots -> Words \cup {RETURN}]]
  BY DEF DispatchInv, TypeOK
<1>2. [i \in Slots |-> IF i < sp THEN RETURN ELSE mem[t][i]] \in [Slots -> Words \cup {RETURN}]
  BY <1>1
<1> QED
  BY <1>1, <1>2 DEF Drop

LEMMA Stored ==
  ASSUME DispatchInv, NEW t \in Threads, NEW at \in Int, NEW w \in Seq(Words \cup {RETURN}),
         mem' = [mem EXCEPT ![t] = Store(mem[t], at, w)]
  PROVE  mem' \in [Threads -> [Slots -> Words \cup {RETURN}]]
<1>1. mem \in [Threads -> [Slots -> Words \cup {RETURN}]]
  BY DEF DispatchInv, TypeOK
<1>2. Slots \subseteq Int /\ Len(w) \in Nat
  BY LenProperties DEF Slots
<1>3. ASSUME NEW i \in Slots, i \in at..(at + Len(w) - 1)
      PROVE  w[i - at + 1] \in Words \cup {RETURN}
  <2>1. i - at + 1 \in 1..Len(w)
    BY <1>2, <1>3
  <2> QED
    BY <2>1, ElementOfSeq
<1>4. Store(mem[t], at, w) \in [Slots -> Words \cup {RETURN}]
  BY <1>1, <1>3 DEF Store
<1> QED
  BY <1>1, <1>4

----------------------------------------------------------------------------
(* Every step.                                                             *)

\* A call that pushes: the arguments, and a return slot unless it is an
\* import's.
LEMMA Pushing ==
  ASSUME DispatchInv, NEW t \in Threads, NEW va \in Addresses, NEW args \in Passed[va],
         NEW via \in Vias, via # "tail", NEW w \in Seq(Words \cup {RETURN}),
         Len(w) = Arity[va] + (IF via = "import" THEN 0 ELSE 1),
         Runs, calling[t] = NULL, back[t] = NULL,
         Push(t, w), Ask(t, va, args, via), frames' = frames
  PROVE  DispatchInv'
<1> DEFINE c == [va |-> va, args |-> args, via |-> via, saved |-> esp[t]]
<1>1. /\ esp \in [Threads -> 1..StackSize + 1] /\ frames \in [Threads -> Seq(Frames)]
      /\ calling \in [Threads -> Callings \cup {NULL}] /\ Balanced(t) /\ Counts(t)
      /\ Arity[va] \in Nat /\ StackSize \in Nat
  BY Constants DEF DispatchInv, TypeOK
<1>2. /\ esp[t] > Len(w) /\ esp' = [esp EXCEPT ![t] = @ - Len(w)]
      /\ mem' = [mem EXCEPT ![t] = Store(mem[t], esp[t] - Len(w), w)]
      /\ calling' = [calling EXCEPT ![t] = c]
      /\ depth' = depth /\ back' = back /\ halt' = halt
  BY DEF Push, Ask
<1>3. Len(w) \in Nat /\ esp[t] \in 1..StackSize + 1
  BY <1>1
<1>4. c \in Callings
  BY <1>3 DEF Callings, ArgLists
<1>5. c.va = va /\ c.via = via /\ c.saved = esp[t]
  OBVIOUS
<1> HIDE DEF c
<1>6. /\ calling'[t] = c /\ calling' \in [Threads -> Callings \cup {NULL}]
      /\ esp'[t] = esp[t] - Len(w) /\ esp' \in [Threads -> 1..StackSize + 1]
      /\ back'[t] = NULL /\ c # NULL
  BY <1>1, <1>2, <1>3, <1>4, NoBodyIsNull DEF NoBodyIsNull
<1>7. mem' \in [Threads -> [Slots -> Words \cup {RETURN}]]
  <2>1. esp[t] - Len(w) \in Int
    BY <1>3
  <2>2. mem' = [mem EXCEPT ![t] = Store(mem[t], esp[t] - Len(w), w)]
    BY <1>2
  <2> QED
    BY <2>1, <2>2, Stored
<1>8. TypeOK'
  BY <1>2, <1>6, <1>7 DEF DispatchInv, TypeOK
<1>9. \A n : Base(t, n)' = Base(t, n)
  BY DEF Base
<1>10. Under(t)' = Under(t)
  BY DEF Under, Base
<1>11. CallOk(t)'
  <2>1. c.saved = Under(t)'
    BY <1>1, <1>5, <1>10 DEF Balanced
  <2>2. esp'[t] = Rest(c) - (IF c.via = "import" THEN 0 ELSE 1)
    BY <1>1, <1>3, <1>5, <1>6 DEF Rest
  <2> QED
    BY <1>5, <1>6, <2>1, <2>2 DEF CallOk
<1>12. \A i \in 1..Len(frames[t]) : FrameOk(t, i)'
  BY <1>1, <1>9 DEF Balanced, FrameOk
<1>13. Balanced(t)'
  BY <1>6, <1>11, <1>12 DEF Balanced
<1>14. Counts(t)'
  BY <1>1, <1>2 DEF Counts, Dispatched
<1>15. Others(t)
  BY <1>1, <1>2 DEF Others
<1> QED
  BY <1>8, <1>13, <1>14, <1>15, OthersKeep

\* dispatch_jmp: the arguments overwrite the caller's own.
LEMMA TailJumping ==
  ASSUME DispatchInv, NEW t \in Threads, NEW va \in Addresses, NEW args \in Passed[va],
         TailJump(t, va, args)
  PROVE  DispatchInv'
<1> DEFINE c == [va |-> va, args |-> args, via |-> "tail", saved |-> esp[t]]
           s == frames[t]
<1>0. /\ Runs /\ calling[t] = NULL /\ back[t] = NULL
      /\ s # <<>> /\ Last(s).kind = "lifted"
  BY Zenon DEF TailJump, InCode, Runs
<1>1. /\ esp \in [Threads -> 1..StackSize + 1] /\ frames \in [Threads -> Seq(Frames)]
      /\ calling \in [Threads -> Callings \cup {NULL}] /\ Balanced(t) /\ Counts(t)
      /\ StackSize \in Nat /\ s \in Seq(Frames)
  BY Constants DEF DispatchInv, TypeOK
<1>2. PICK n \in Nat : n = Len(s) /\ n > 0
  <2>1. Len(s) \in Nat \ {0}
    BY <1>0, <1>1, EmptySeq
  <2> QED
    BY <2>1
<1>3. /\ esp' = esp
      /\ mem' = [mem EXCEPT ![t] = Store(mem[t], esp[t] + 1, args)]
      /\ frames' = [frames EXCEPT ![t] = [s EXCEPT ![n] = [s[n] EXCEPT !.left = TRUE]]]
      /\ calling' = [calling EXCEPT ![t] = c]
      /\ depth' = depth /\ back' = back /\ halt' = halt
  BY <1>2 DEF TailJump, Ask
<1>4. s[n] \in Frames /\ DOMAIN s = 1..n /\ n \in 1..n /\ Last(s) = s[n]
  BY <1>1, <1>2, ElementOfSeq, LenProperties DEF Last
<1>5. PICK g \in Frames : /\ g = [s[n] EXCEPT !.left = TRUE]
                          /\ g.kind = s[n].kind /\ g.via = s[n].via /\ g.sp = s[n].sp
                          /\ g.saved = s[n].saved /\ g.va = s[n].va
  <2>1. ASSUME NEW r \in Frames
        PROVE  LET g == [r EXCEPT !.left = TRUE]
               IN  /\ g \in Frames /\ g.kind = r.kind /\ g.via = r.via
                   /\ g.sp = r.sp /\ g.saved = r.saved /\ g.va = r.va
    BY DEF Frames
  <2> QED
    BY <1>4, <2>1
<1>6. /\ frames'[t] = [s EXCEPT ![n] = g] /\ frames' \in [Threads -> Seq(Frames)]
      /\ Len(frames'[t]) = n /\ DOMAIN frames'[t] = 1..n /\ frames'[t][n] = g
      /\ \A i \in 1..n : i # n => frames'[t][i] = s[i]
  <2>1. [s EXCEPT ![n] = g] \in Seq(Frames) /\ Len([s EXCEPT ![n] = g]) = n
    BY <1>1, <1>2, <1>4, <1>5, ExceptSeq
  <2> QED
    BY <1>1, <1>3, <1>4, <1>5, <2>1
<1>7. \A i \in 1..n : /\ frames'[t][i].kind = s[i].kind /\ frames'[t][i].via = s[i].via
                      /\ frames'[t][i].sp = s[i].sp /\ frames'[t][i].saved = s[i].saved
                      /\ frames'[t][i].va = s[i].va
  BY <1>5, <1>6
<1>8. c \in Callings /\ c.via = "tail" /\ c.saved = esp[t]
  BY <1>1 DEF Callings, ArgLists, Vias
<1> HIDE DEF c
<1>9. /\ calling'[t] = c /\ calling' \in [Threads -> Callings \cup {NULL}]
      /\ back'[t] = NULL /\ c # NULL
  BY <1>0, <1>1, <1>3, <1>8, NoBodyIsNull DEF NoBodyIsNull
<1>10. TypeOK'
  <2>1. args \in Seq(Words \cup {RETURN})
    <3>1. args \in Seq(Words)
      BY Constants
    <3> QED
      BY <3>1
  <2>2. esp[t] + 1 \in Int
    BY <1>1
  <2>3. mem' \in [Threads -> [Slots -> Words \cup {RETURN}]]
    BY <1>3, <2>1, <2>2, Stored
  <2> QED
    BY <1>3, <1>6, <1>9, <2>3 DEF DispatchInv, TypeOK
<1>11. \A i \in 0..n : Base(t, i)' = Base(t, i)
  BY <1>2, <1>7 DEF Base
<1>12. Under(t)' = esp[t]
  <2>1. Under(t) = esp[t] /\ Under(t) = Base(t, n)
    BY <1>0, <1>1, <1>2 DEF Balanced, Under
  <2>2. Under(t)' = Base(t, n)'
    BY <1>6 DEF Under, Base
  <2>3. n \in 0..n
    BY <1>2
  <2> QED
    BY <1>11, <2>1, <2>2, <2>3
<1>13. CallOk(t)'
  <2>1. LiftedUnder(t)'
    <3>1. frames'[t] # <<>> /\ frames'[t][Len(frames'[t])].kind = "lifted"
      BY <1>0, <1>2, <1>4, <1>6, <1>7
    <3> QED
      BY <3>1 DEF LiftedUnder, Last
  <2>2. esp'[t] = Rest(c) - (IF c.via = "import" THEN 0 ELSE 1)
    BY <1>1, <1>3, <1>8 DEF Rest
  <2> QED
    BY <1>8, <1>9, <1>12, <2>1, <2>2 DEF CallOk
<1>14. ASSUME NEW i \in 1..n PROVE FrameOk(t, i)'
  <2>1. FrameOk(t, i)
    BY <1>1, <1>2 DEF Balanced
  <2>2. Base(t, i - 1)' = Base(t, i - 1)
    BY <1>2, <1>11
  <2>3. i > 1 => frames'[t][i - 1].kind = s[i - 1].kind
    BY <1>2, <1>7
  <2> QED
    BY <1>7, <2>1, <2>2, <2>3 DEF FrameOk, Rest
<1>15. Balanced(t)'
  BY <1>6, <1>9, <1>13, <1>14 DEF Balanced
<1>16. Counts(t)'
  <2>1. Dispatched(t)' = Dispatched(t)
    BY <1>4, <1>6, <1>7 DEF Dispatched
  <2> QED
    BY <1>1, <1>3, <2>1, Zenon DEF Counts
<1>17. Others(t)
  BY <1>1, <1>3, <1>6 DEF Others
<1> QED
  BY <1>0, <1>10, <1>15, <1>16, <1>17, OthersKeep

\* dispatch finds the body; all but a lifted one step over the return slot.
LEMMA Routing ==
  ASSUME DispatchInv, NEW t \in Threads, NEW kind \in {"lifted", "host"}, Deepen(t),
         Enter(t, kind, esp[t] + (IF kind = "lifted" THEN 0 ELSE 1))
  PROVE  DispatchInv'
<1> DEFINE sp == esp[t] + (IF kind = "lifted" THEN 0 ELSE 1)
<1>1. /\ Runs /\ calling[t] # NULL /\ calling[t].via # "import"
      /\ depth[t] < DepthLimit /\ depth' = [depth EXCEPT ![t] = @ + 1]
  BY Zenon DEF Deepen, Dispatching, Runs
<1>2. /\ esp \in [Threads -> 1..StackSize + 1] /\ depth \in [Threads -> 0..DepthLimit + 1]
      /\ calling \in [Threads -> Callings \cup {NULL}] /\ frames \in [Threads -> Seq(Frames)]
      /\ Balanced(t) /\ Counts(t) /\ StackSize \in Nat /\ DepthLimit \in Nat
  BY Constants DEF DispatchInv, TypeOK
<1>3. esp[t] \in 1..StackSize
  BY <1>1, Routable
<1>4. calling[t] \in Callings /\ CallOk(t)
  BY <1>1, <1>2 DEF Balanced
<1>5. Rest(calling[t]) \in Int /\ esp[t] = Rest(calling[t]) - 1
  BY <1>1, <1>4, Constants DEF CallOk, Rest, Callings
<1>6. /\ sp \in 1..StackSize + 1 /\ (kind = "lifted" => sp <= StackSize)
      /\ sp = Rest(calling[t]) - (IF kind = "lifted" THEN 1 ELSE 0)
  BY <1>2, <1>3, <1>5
<1> HIDE DEF sp
<1>7. Enter(t, kind, sp) /\ Drop(t, sp)
  BY DEF Enter, sp
<1>8. /\ Balanced(t)' /\ frames' \in [Threads -> Seq(Frames)]
      /\ Cardinality(Dispatched(t)') = Cardinality(Dispatched(t)) + 1
  BY <1>1, <1>6, <1>7, Entering
<1>9. /\ esp' \in [Threads -> 1..StackSize + 1]
      /\ mem' \in [Threads -> [Slots -> Words \cup {RETURN}]]
      /\ \A u \in Threads \ {t} : esp'[u] = esp[u]
  BY <1>6, <1>7, Dropped
<1>10. /\ calling' = [calling EXCEPT ![t] = NULL] /\ back' = back /\ halt' = halt
       /\ \A u \in Threads \ {t} : frames'[u] = frames[u]
  BY <1>2, <1>7 DEF Enter
<1>11. depth[t] = Cardinality(Dispatched(t))
  BY <1>1, <1>2 DEF Counts, Runs
<1>12. depth'[t] = depth[t] + 1 /\ depth'[t] <= DepthLimit
       /\ depth' \in [Threads -> 0..DepthLimit + 1]
  BY <1>1, <1>2
<1>13. Counts(t)'
  BY <1>8, <1>11, <1>12, Zenon DEF Counts
<1>14. TypeOK'
  BY <1>2, <1>8, <1>9, <1>10, <1>12 DEF DispatchInv, TypeOK
<1>15. Others(t)
  BY <1>1, <1>2, <1>9, <1>10 DEF Others
<1> QED
  BY <1>1, <1>8, <1>13, <1>14, <1>15, OthersKeep

\* hle_call without dispatch: no return slot and no count.
LEMMA Importing ==
  ASSUME DispatchInv, NEW t \in Threads, EnterImport(t)
  PROVE  DispatchInv'
<1>1. /\ Runs /\ calling[t] # NULL /\ calling[t].via = "import" /\ depth' = depth
      /\ Enter(t, "host", esp[t])
  BY Zenon DEF EnterImport, Runs
<1>2. /\ esp \in [Threads -> 1..StackSize + 1]
      /\ calling \in [Threads -> Callings \cup {NULL}] /\ frames \in [Threads -> Seq(Frames)]
      /\ Balanced(t) /\ Counts(t)
  BY DEF DispatchInv, TypeOK
<1>3. calling[t] \in Callings /\ CallOk(t)
  BY <1>1, <1>2 DEF Balanced
<1>4. esp[t] = Rest(calling[t]) - 0
  BY <1>1, <1>3 DEF CallOk
<1>5. Rest(calling[t]) \in Int
  BY <1>1, <1>3, Constants DEF Rest, Callings
<1>6. esp[t] \in 1..StackSize + 1 /\ esp[t] = Rest(calling[t])
  BY <1>2, <1>4, <1>5
<1>7. /\ Balanced(t)' /\ frames' \in [Threads -> Seq(Frames)]
      /\ Cardinality(Dispatched(t)') = Cardinality(Dispatched(t)) + 0
  BY <1>1, <1>4, <1>6, Entering
<1>8. Drop(t, esp[t])
  BY <1>1 DEF Enter
<1>9. /\ esp' \in [Threads -> 1..StackSize + 1]
      /\ mem' \in [Threads -> [Slots -> Words \cup {RETURN}]]
      /\ \A u \in Threads \ {t} : esp'[u] = esp[u]
  BY <1>6, <1>8, Dropped
<1>10. /\ calling' = [calling EXCEPT ![t] = NULL] /\ back' = back /\ halt' = halt
       /\ \A u \in Threads \ {t} : frames'[u] = frames[u]
  BY <1>1, <1>2 DEF Enter
<1>11. depth[t] = Cardinality(Dispatched(t)) /\ depth[t] <= DepthLimit
  BY <1>1, <1>2 DEF Counts, Runs
<1>12. Counts(t)'
  <2>1. depth'[t] \in 0..DepthLimit + 1
    BY <1>1 DEF DispatchInv, TypeOK
  <2>2. depth'[t] = Cardinality(Dispatched(t)') /\ depth'[t] <= DepthLimit
    BY <1>1, <1>7, <1>11, <2>1, Constants
  <2> QED
    BY <2>2, Zenon DEF Counts
<1>13. TypeOK'
  BY <1>1, <1>2, <1>7, <1>9, <1>10 DEF DispatchInv, TypeOK
<1>14. Others(t)
  BY <1>1, <1>2, <1>9, <1>10 DEF Others
<1> QED
  BY <1>1, <1>7, <1>12, <1>13, <1>14, OthersKeep

Halts == halt' = "exit 43" \/ halt' = "abort"

\* The process ends while a call is pending.
LEMMA Stopping ==
  ASSUME DispatchInv, NEW t \in Threads, Runaway(t) \/ Abort(t)
  PROVE  DispatchInv'
<1>1. /\ Runs /\ Halts /\ UNCHANGED <<esp, mem, frames, calling, back>>
      /\ \/ depth' = depth
         \/ depth' = [depth EXCEPT ![t] = @ + 1] /\ (depth[t] = DepthLimit \/ depth[t] < DepthLimit)
  BY Zenon DEF Runaway, Abort, Deepen, Dispatching, Stops, Runs, Halts
<1>2. depth \in [Threads -> 0..DepthLimit + 1]
  BY DEF DispatchInv, TypeOK
<1>3. depth' \in [Threads -> 0..DepthLimit + 1] /\ \A u \in Threads \ {t} : depth'[u] = depth[u]
  BY <1>1, <1>2, Constants
<1>4. TypeOK'
  BY <1>1, <1>3, Zenon DEF DispatchInv, TypeOK, Halts
<1>5. Balanced(t)'
  BY <1>1 DEF DispatchInv, Balanced, FrameOk, CallOk, BackOk, Under, Base, LiftedUnder
<1>6. Counts(t)'
  BY <1>1, Zenon DEF Counts, Halts
<1>7. Others(t)
  BY <1>1, <1>3 DEF Others
<1> QED
  BY <1>1, <1>4, <1>5, <1>6, <1>7, OthersKeep

\* A body that leaves the host stack has put esp at its rest.
LEMMA Unwinding ==
  ASSUME DispatchInv, NEW t \in Threads, Runs, Inside(t), calling[t] = NULL,
         Leave(t), Popped(t),
         esp' \in [Threads -> 1..StackSize + 1],
         mem' \in [Threads -> [Slots -> Words \cup {RETURN}]],
         \A u \in Threads \ {t} : esp'[u] = esp[u]
  PROVE  DispatchInv'
<1>1. /\ Balanced(t)' /\ Counts(t)'
      /\ frames' \in [Threads -> Seq(Frames)] /\ back' \in [Threads -> Frames \cup {NULL}]
      /\ depth' \in [Threads -> 0..DepthLimit + 1]
  BY Leaving
<1>2. calling' = calling /\ halt' = halt
  BY DEF Leave
<1>3. TypeOK'
  BY <1>1, <1>2 DEF DispatchInv, TypeOK
<1>4. Others(t)
  BY <1>2 DEF Others, Leave, DispatchInv, TypeOK
<1> QED
  BY <1>1, <1>3, <1>4, OthersKeep

\* The body on top of a thread that runs it.
LEMMA Topmost ==
  ASSUME DispatchInv, NEW t \in Threads, frames[t] # <<>>
  PROVE  LET f == Last(frames[t])
         IN  /\ f \in Frames /\ f.va \in Addresses /\ f.sp = Under(t)
             /\ f.sp \in 1..StackSize + 1 /\ Rest(f) \in Int
             /\ f.kind = "lifted" => f.sp <= StackSize
             /\ f.sp = Rest(f) - (IF f.kind = "lifted" THEN 1 ELSE 0)
<1>1. frames[t] \in Seq(Frames) /\ \A i \in 1..Len(frames[t]) : FrameOk(t, i)
  BY DEF DispatchInv, TypeOK, Balanced
<1>2. Len(frames[t]) \in Nat \ {0}
  BY <1>1, EmptySeq
<1>3. PICK f \in Frames : f = frames[t][Len(frames[t])] /\ f = Last(frames[t])
  BY <1>1, <1>2, ElementOfSeq DEF Last
<1>4. FrameOk(t, Len(frames[t]))
  BY <1>1, <1>2
<1>5. f.va \in Addresses /\ f.sp \in 1..StackSize + 1 /\ f.saved \in 1..StackSize + 1
  BY DEF Frames
<1>6. Rest(f) \in Int
  BY <1>5, Constants DEF Rest
<1>7. f.sp = Under(t)
  BY <1>2, <1>3 DEF Under, Base
<1> QED
  BY <1>3, <1>4, <1>5, <1>6, <1>7 DEF FrameOk

LEMMA Returning ==
  ASSUME DispatchInv, NEW t \in Threads, GuestReturn(t) \/ HandlerReturn(t)
  PROVE  DispatchInv'
<1> DEFINE f == Last(frames[t])
<1>1. /\ Runs /\ calling[t] = NULL /\ back[t] = NULL /\ frames[t] # <<>> /\ Leave(t)
      /\ \/ f.kind = "lifted" /\ Drop(t, esp[t] + 1)
         \/ f.kind = "host" /\ UNCHANGED <<esp, mem>>
  BY Zenon DEF GuestReturn, HandlerReturn, InCode, Runs
<1>2. /\ esp \in [Threads -> 1..StackSize + 1] /\ Balanced(t) /\ StackSize \in Nat
      /\ mem \in [Threads -> [Slots -> Words \cup {RETURN}]]
  BY Constants DEF DispatchInv, TypeOK
<1>3. /\ f.sp = Under(t) /\ f.sp \in 1..StackSize + 1 /\ Rest(f) \in Int
      /\ f.kind = "lifted" => f.sp <= StackSize
      /\ f.sp = Rest(f) - (IF f.kind = "lifted" THEN 1 ELSE 0)
  BY <1>1, Topmost
<1>4. esp[t] = f.sp
  BY <1>1, <1>2, <1>3 DEF Balanced
<1> DEFINE r == Rest(f)
<1>5. /\ esp' \in [Threads -> 1..StackSize + 1] /\ esp'[t] = r
      /\ mem' \in [Threads -> [Slots -> Words \cup {RETURN}]]
      /\ \A u \in Threads \ {t} : esp'[u] = esp[u]
  <2>1. CASE f.kind = "lifted" /\ Drop(t, esp[t] + 1)
    <3>1. esp[t] + 1 \in 1..StackSize + 1 /\ esp[t] + 1 = r
      BY <1>2, <1>3, <1>4, <2>1
    <3> QED
      BY <2>1, <3>1, Dropped
  <2>2. CASE f.kind = "host" /\ UNCHANGED <<esp, mem>>
    <3>1. esp[t] = r
      BY <1>3, <1>4, <2>2
    <3> QED
      BY <1>2, <2>2, <3>1
  <2> QED
    BY <1>1, <2>1, <2>2
<1> QED
  BY <1>1, <1>5, Unwinding DEF Inside, Popped

\* The body that tail-jumped returns in its turn.
LEMMA ResumingTail ==
  ASSUME DispatchInv, NEW t \in Threads, ResumeTail(t)
  PROVE  DispatchInv'
<1> DEFINE f == Last(frames[t])
           b == back[t]
<1>1. /\ Runs /\ b # NULL /\ b.via = "tail" /\ Leave(t) /\ esp' = esp /\ mem' = mem
  BY Zenon DEF ResumeTail, Runs
<1>2. /\ esp \in [Threads -> 1..StackSize + 1] /\ Balanced(t)
      /\ mem \in [Threads -> [Slots -> Words \cup {RETURN}]]
      /\ back \in [Threads -> Frames \cup {NULL}]
  BY DEF DispatchInv, TypeOK
<1>3. BackOk(t) /\ b \in Frames
  BY <1>1, <1>2 DEF Balanced
<1>4. /\ calling[t] = NULL /\ frames[t] # <<>> /\ f.kind = "lifted"
      /\ esp[t] = Under(t) + 1
  BY <1>1, <1>3 DEF BackOk, LiftedUnder, Rest
<1>5. f.sp = Under(t) /\ Rest(f) \in Int /\ f.sp \in 1..StackSize + 1 /\ f.sp = Rest(f) - 1
  BY <1>4, Topmost
<1>6. esp'[t] = Rest(f)
  BY <1>1, <1>4, <1>5
<1> QED
  BY <1>1, <1>2, <1>4, <1>6, Unwinding DEF Inside, Popped

\* The caller drops the arguments, or guest_call restores what it saved.
LEMMA Resuming ==
  ASSUME DispatchInv, NEW t \in Threads, ResumeGuest(t) \/ ResumeHost(t)
  PROVE  DispatchInv'
<1> DEFINE b == back[t]
<1>1. /\ Runs /\ b # NULL /\ back' = [back EXCEPT ![t] = NULL]
      /\ UNCHANGED <<frames, depth, calling, halt>>
      /\ \/ b.via # "tail" /\ Drop(t, esp[t] + Arity[b.va])
         \/ b.via # "tail" /\ Drop(t, b.saved)
  <2>1. Runs /\ b # NULL /\ back' = [back EXCEPT ![t] = NULL]
        /\ UNCHANGED <<frames, depth, calling, halt>>
    BY Zenon DEF ResumeGuest, ResumeHost, Runs
  <2>2. \/ b.via \in {"call", "import"} /\ Drop(t, esp[t] + Arity[b.va])
        \/ b.via = "host" /\ Drop(t, b.saved)
    BY Zenon DEF ResumeGuest, ResumeHost
  <2> QED
    BY <2>1, <2>2
<1>2. /\ esp \in [Threads -> 1..StackSize + 1] /\ Balanced(t) /\ Counts(t)
      /\ back \in [Threads -> Frames \cup {NULL}]
  BY DEF DispatchInv, TypeOK
<1>3. BackOk(t) /\ b \in Frames
  BY <1>1, <1>2 DEF Balanced
<1>4. b.saved \in 1..StackSize + 1 /\ b.va \in Addresses /\ Arity[b.va] \in Nat
  BY <1>3, Constants DEF Frames
<1>5. Drop(t, b.saved)
  <2>1. esp[t] = b.saved - Arity[b.va]
    BY <1>1, <1>3 DEF BackOk, Rest
  <2>2. esp[t] + Arity[b.va] = b.saved
    BY <1>4, <2>1
  <2> QED
    BY <1>1, <2>2
<1>6. /\ esp' \in [Threads -> 1..StackSize + 1] /\ esp'[t] = b.saved
      /\ mem' \in [Threads -> [Slots -> Words \cup {RETURN}]]
      /\ \A u \in Threads \ {t} : esp'[u] = esp[u]
  BY <1>4, <1>5, Dropped
<1>7. back'[t] = NULL /\ back' \in [Threads -> Frames \cup {NULL}] /\ calling[t] = NULL
  BY <1>1, <1>2, <1>3 DEF BackOk
<1>8. TypeOK'
  BY <1>1, <1>6, <1>7 DEF DispatchInv, TypeOK
<1>9. Balanced(t)'
  <2>1. (\A n : Base(t, n)' = Base(t, n)) /\ Under(t)' = Under(t)
    BY <1>1 DEF Base, Under
  <2>2. \A i \in 1..Len(frames[t]) : FrameOk(t, i)'
    BY <1>1, <1>2, <2>1 DEF Balanced, FrameOk
  <2>3. esp'[t] = Under(t)'
    BY <1>3, <1>6, <2>1 DEF BackOk
  <2> QED
    BY <1>1, <1>7, <2>2, <2>3 DEF Balanced
<1>10. Counts(t)'
  BY <1>1, <1>2, Zenon DEF Counts, Dispatched
<1>11. Others(t)
  BY <1>1, <1>2, <1>6, <1>7 DEF Others
<1> QED
  BY <1>1, <1>8, <1>9, <1>10, <1>11, OthersKeep

LEMMA StepKeeps ==
  ASSUME DispatchInv, NEW t \in Threads, Step(t)
  PROVE  DispatchInv'
<1>1. ASSUME NEW va \in Addresses, NEW args \in Passed[va], GuestCall(t, va, args)
      PROVE  DispatchInv'
  <2> DEFINE w == <<RETURN>> \o args
  <2>1. Runs /\ calling[t] = NULL /\ back[t] = NULL
    BY <1>1, Zenon DEF GuestCall, InCode, Runs
  <2>2. w \in Seq(Words \cup {RETURN}) /\ Len(w) = Arity[va] + 1
    BY Constants
  <2>3. Push(t, w) /\ Ask(t, va, args, "call") /\ frames' = frames /\ "call" \in Vias
    BY <1>1 DEF GuestCall, Vias
  <2> HIDE DEF w
  <2> QED
    BY <2>1, <2>2, <2>3, Pushing
<1>2. ASSUME NEW va \in Addresses, NEW args \in Passed[va], HostCall(t, va, args)
      PROVE  DispatchInv'
  <2> DEFINE w == <<RETURN>> \o args
  <2>1. Runs /\ calling[t] = NULL /\ back[t] = NULL
    BY <1>2, Zenon DEF HostCall, InCode, Runs
  <2>2. w \in Seq(Words \cup {RETURN}) /\ Len(w) = Arity[va] + 1
    BY Constants
  <2>3. Push(t, w) /\ Ask(t, va, args, "host") /\ frames' = frames /\ "host" \in Vias
    BY <1>2 DEF HostCall, Vias
  <2> HIDE DEF w
  <2> QED
    BY <2>1, <2>2, <2>3, Pushing
<1>3. ASSUME NEW va \in Addresses, NEW args \in Passed[va], ImportCall(t, va, args)
      PROVE  DispatchInv'
  <2>1. Runs /\ calling[t] = NULL /\ back[t] = NULL
    BY <1>3, Zenon DEF ImportCall, InCode, Runs
  <2>2. args \in Seq(Words \cup {RETURN}) /\ Len(args) = Arity[va] + 0
    BY Constants
  <2>3. Push(t, args) /\ Ask(t, va, args, "import") /\ frames' = frames /\ "import" \in Vias
    BY <1>3 DEF ImportCall, Vias
  <2> QED
    BY <2>1, <2>2, <2>3, Pushing
<1>4. ASSUME NEW va \in Addresses, NEW args \in Passed[va], TailJump(t, va, args)
      PROVE  DispatchInv'
  BY <1>4, TailJumping
<1>5. CASE Runaway(t) \/ Abort(t)
  BY <1>5, Stopping
<1>6. CASE RouteToken(t) \/ RouteOverride(t) \/ RoutePlt(t)
  BY <1>6, Routing DEF RouteToken, RouteOverride, RoutePlt
<1>7. CASE RouteLifted(t)
  <2>1. Deepen(t) /\ Enter(t, "lifted", esp[t]) /\ esp[t] \in 1..StackSize + 1
    BY <1>7 DEF RouteLifted, DispatchInv, TypeOK
  <2>2. esp[t] + 0 = esp[t]
    BY <2>1, Constants
  <2> QED
    BY <2>1, <2>2, Routing
<1>8. CASE EnterImport(t)
  BY <1>8, Importing
<1>9. CASE GuestReturn(t) \/ HandlerReturn(t)
  BY <1>9, Returning
<1>10. CASE ResumeGuest(t) \/ ResumeHost(t)
  BY <1>10, Resuming
<1>11. CASE ResumeTail(t)
  BY <1>11, ResumingTail
<1> QED
  BY <1>1, <1>2, <1>3, <1>4, <1>5, <1>6, <1>7, <1>8, <1>9, <1>10, <1>11, Zenon DEF Step

LEMMA InvHolds == Spec => []DispatchInv
<1>1. DispatchInv /\ [Next]_vars => DispatchInv'
  <2> SUFFICES ASSUME DispatchInv, [Next]_vars PROVE DispatchInv'
    OBVIOUS
  <2>1. CASE Next
    BY <2>1, StepKeeps DEF Next
  <2>2. CASE UNCHANGED vars
    <3>1. TypeOK'
      BY <2>2 DEF vars, DispatchInv, TypeOK
    <3>2. ASSUME NEW t \in Threads PROVE Balanced(t)' /\ Counts(t)'
      <4>1. Balanced(t) /\ Counts(t)
        BY DEF DispatchInv
      <4>2. Balanced(t)'
        BY <2>2, <4>1 DEF vars, Balanced, FrameOk, CallOk, BackOk, Under, Base, LiftedUnder
      <4>3. Counts(t)'
        BY <2>2, <4>1, Zenon DEF vars, Counts, Dispatched
      <4> QED
        BY <4>2, <4>3
    <3> QED
      BY <3>1, <3>2 DEF DispatchInv
  <2> QED
    BY <2>1, <2>2
<1> QED
  BY <1>1, InvStarts, PTL DEF Spec

----------------------------------------------------------------------------
\* Whatever nests, by whichever route, control comes back with esp where the
\* body left it, for any arities and any stack (dispatch.c:124-160).
THEOREM StackStaysBalanced == Spec => []StackBalanced
BY InvHolds, InvSuffices, PTL

\* g_depth counts the thread's activations of dispatch and nothing else
\* (dispatch.c:132).
THEOREM DepthIsCounted == Spec => []DispatchSound
BY InvHolds, InvSuffices, PTL

----------------------------------------------------------------------------
(* The calls a thread is inside (CallStack).  What is left of the host     *)
(* stack without the bodies that tail-jumped away is the calls; the        *)
(* arguments of each lie above everything that was pushed since.           *)

\* The first slot past a call's arguments.
Past(c) == Rest(c) + Arity[c.va]

\* The thread is between a tail jump and the return of the body that made it.
Tailing(t) == \/ calling[t] # NULL /\ calling[t].via = "tail"
              \/ back[t] # NULL /\ back[t].via = "tail"

LeftOk(t, i) ==
  frames[t][i].left <=> IF i < Len(frames[t]) THEN frames[t][i + 1].via = "tail"
                        ELSE Tailing(t)

\* Below the arguments of a body that can still read them.
Beneath(t, i) ==
  /\ \A j \in i + 1..Len(frames[t]) : Past(frames[t][j]) <= Rest(frames[t][i])
  /\ calling[t] # NULL => Past(calling[t]) <= Rest(frames[t][i])
  /\ back[t] # NULL => Past(back[t]) <= Rest(frames[t][i])

\* The arguments of a pushed call are where its body will look for them.
Put(t) ==
  LET c == calling[t]
  IN  /\ c.args \in Passed[c.va]
      /\ Past(c) <= StackSize + 1
      /\ \A i \in 1..Arity[c.va] : mem[t][Rest(c) + (i - 1)] = c.args[i]

Apart(t) ==
  /\ \A i \in 1..Len(frames[t]) :
       /\ LeftOk(t, i)
       /\ Past(frames[t][i]) <= StackSize + 1
       /\ ~frames[t][i].left => Beneath(t, i)
  /\ calling[t] # NULL => Put(t)

CallInv == DispatchInv /\ \A t \in Threads : Apart(t)

\* A thread's step touches no other thread's stack.
Alone(t) ==
  \A u \in Threads \ {t} :
    /\ frames'[u] = frames[u] /\ calling'[u] = calling[u] /\ back'[u] = back[u]
    /\ mem'[u] = mem[u]

LEMMA OthersApart ==
  ASSUME CallInv, NEW t \in Threads, Alone(t), Apart(t)'
  PROVE  \A u \in Threads : Apart(u)'
<1> SUFFICES ASSUME NEW u \in Threads, u # t PROVE Apart(u)'
  OBVIOUS
<1>1. Apart(u)
  BY DEF CallInv
<1>2. /\ frames'[u] = frames[u] /\ calling'[u] = calling[u] /\ back'[u] = back[u]
      /\ mem'[u] = mem[u]
  BY DEF Alone
<1>3. /\ Tailing(u)' <=> Tailing(u)
      /\ \A i : Beneath(u, i)' <=> Beneath(u, i)
      /\ Put(u)' <=> Put(u)
  BY <1>2 DEF Tailing, Beneath, Put, Past, Rest
<1>4. \A i : LeftOk(u, i)' <=> LeftOk(u, i)
  BY <1>2, <1>3 DEF LeftOk
<1> QED
  BY <1>1, <1>2, <1>3, <1>4 DEF Apart, Past, Rest

\* The bodies of a thread.
LEMMA Bodies ==
  ASSUME DispatchInv, NEW t \in Threads
  PROVE  /\ Len(frames[t]) \in Nat /\ DOMAIN frames[t] = 1..Len(frames[t])
         /\ \A i \in 1..Len(frames[t]) :
              /\ frames[t][i] \in Frames /\ frames[t][i].va \in Addresses
              /\ Rest(frames[t][i]) \in Int /\ Past(frames[t][i]) \in Int
              /\ Rest(frames[t][i]) <= Past(frames[t][i])
              /\ frames[t][i].sp = Rest(frames[t][i])
                                     - (IF frames[t][i].kind = "lifted" THEN 1 ELSE 0)
              /\ frames[t][i].sp \in 1..StackSize + 1
              /\ frames[t][i].sp <= Rest(frames[t][i])
              /\ FrameOk(t, i)
<1>1. frames[t] \in Seq(Frames) /\ \A i \in 1..Len(frames[t]) : FrameOk(t, i)
  BY DEF DispatchInv, TypeOK, Balanced
<1>2. Len(frames[t]) \in Nat /\ DOMAIN frames[t] = 1..Len(frames[t])
  BY <1>1, LenProperties
<1>3. ASSUME NEW i \in 1..Len(frames[t])
      PROVE  /\ frames[t][i] \in Frames /\ frames[t][i].va \in Addresses
             /\ frames[t][i].sp \in 1..StackSize + 1
             /\ Rest(frames[t][i]) \in Int /\ Past(frames[t][i]) \in Int
             /\ Rest(frames[t][i]) <= Past(frames[t][i])
             /\ frames[t][i].sp <= Rest(frames[t][i])
  <2>1. PICK f \in Frames : f = frames[t][i]
    BY <1>1, <1>3, ElementOfSeq
  <2>2. f.va \in Addresses /\ f.sp \in 1..StackSize + 1 /\ f.saved \in 1..StackSize + 1
    BY DEF Frames
  <2>3. Arity[f.va] \in Nat /\ Rest(f) \in Int
    BY <2>2, Constants DEF Rest
  <2>4. f.sp <= Rest(f)
    BY <1>1, <1>3, <2>1, <2>2, <2>3 DEF FrameOk
  <2> QED
    BY <2>1, <2>2, <2>3, <2>4 DEF Past
<1> QED
  BY <1>1, <1>2, <1>3 DEF FrameOk

\* What a body reads depends on nothing beneath its arguments.
LEMMA ReadsSame ==
  ASSUME NEW t \in Threads, NEW f \in Frames, Rest(f) \in Int,
         f.sp = Rest(f) - (IF f.kind = "lifted" THEN 1 ELSE 0),
         \A a \in Slots : a >= Rest(f) => mem'[t][a] = mem[t][a]
  PROVE  ArgsOf(t, f)' = ArgsOf(t, f)
<1> DEFINE at == IF f.kind = "lifted" THEN f.sp + 1 ELSE f.sp
<1>1. at = Rest(f)
  OBVIOUS
<1>2. Arity[f.va] \in Nat
  BY Constants DEF Frames
<1>3. ASSUME NEW i \in 1..Arity[f.va], at + (i - 1) \in Slots
      PROVE  mem'[t][at + (i - 1)] = mem[t][at + (i - 1)]
  BY <1>1, <1>2, <1>3
<1> HIDE DEF at
<1>4. /\ ArgsOf(t, f) = [i \in 1..Arity[f.va] |->
                           IF at + (i - 1) \in Slots THEN mem[t][at + (i - 1)] ELSE RETURN]
      /\ ArgsOf(t, f)' = [i \in 1..Arity[f.va] |->
                            IF at + (i - 1) \in Slots THEN mem'[t][at + (i - 1)] ELSE RETURN]
  BY Zenon DEF ArgsOf, at
<1> QED
  BY <1>3, <1>4

\* The bodies that stay and what they read stay the same.
LEMMA BodySame ==
  ASSUME DispatchInv, NEW t \in Threads, NEW i \in 1..Len(frames[t]),
         frames'[t][i] = frames[t][i],
         \A a \in Slots : a >= Rest(frames[t][i]) => mem'[t][a] = mem[t][a]
  PROVE  Body(t, i)' = Body(t, i)
<1>1. PICK f \in Frames : f = frames[t][i]
  BY Bodies
<1>2. /\ Rest(f) \in Int /\ f.sp = Rest(f) - (IF f.kind = "lifted" THEN 1 ELSE 0)
  BY <1>1, Bodies
<1>3. ArgsOf(t, f)' = ArgsOf(t, f)
  BY <1>1, <1>2, ReadsSame
<1>4. /\ Body(t, i) = [address |-> f.va, args |-> ArgsOf(t, f)]
      /\ Body(t, i)' = [address |-> f.va, args |-> ArgsOf(t, f)']
  BY <1>1, Zenon DEF Body
<1> QED
  BY <1>3, <1>4

\* The other threads' calls stay.
LEMMA CallsOfOthers ==
  ASSUME NEW t \in Threads, Alone(t)
  PROVE  \A u \in Threads \ {t} : Running'[u] = Running[u] /\ Asked'[u] = Asked[u]
<1> SUFFICES ASSUME NEW u \in Threads \ {t}
             PROVE  Running'[u] = Running[u] /\ Asked'[u] = Asked[u]
  OBVIOUS
<1>1. /\ frames'[u] = frames[u] /\ calling'[u] = calling[u] /\ mem'[u] = mem[u]
  BY DEF Alone
<1>2. \A i : Body(u, i)' = Body(u, i)
  BY <1>1 DEF Body, ArgsOf
<1>3. Entered(u)' = Entered(u)
  BY <1>1 DEF Entered
<1> QED
  BY <1>1, <1>2, <1>3 DEF Running, Asked

\* When the same bodies are live, a thread is inside the same calls.
LEMMA SameCalls ==
  ASSUME CallInv, NEW t \in Threads, Alone(t), Entered(t)' = Entered(t),
         \A i \in Entered(t) : Body(t, i)' = Body(t, i)
  PROVE  Running' = Running
<1>1. Running'[t] = Running[t]
  BY DEF Running
<1>2. \A u \in Threads : Running'[u] = Running[u]
  BY <1>1, CallsOfOthers
<1>3. Running = [u \in Threads |-> Running[u]] /\ Running' = [u \in Threads |-> Running'[u]]
  BY DEF Running
<1> QED
  BY <1>2, <1>3

\* The innermost live body goes.
LEMMA OneEnds ==
  ASSUME CallInv, NEW t \in Threads, Alone(t), NEW n \in Entered(t),
         \A m \in Entered(t) : m <= n, Entered(t)' = Entered(t) \ {n},
         \A i \in Entered(t) \ {n} : Body(t, i)' = Body(t, i)
  PROVE  Calls!EndInnermost(t)
<1>1. DOMAIN Running[t] = Entered(t)
  BY DEF Running
<1>2. Running'[t] = Calls!Restrict(Running[t], DOMAIN Running[t] \ {n})
  <2>1. Running'[t] = [i \in Entered(t) \ {n} |-> Body(t, i)']
    BY DEF Running
  <2>2. \A i \in Entered(t) \ {n} : Running[t][i] = Body(t, i)
    BY DEF Running
  <2> QED
    BY <1>1, <2>1, <2>2 DEF Calls!Restrict
<1>3. \A u \in Threads \ {t} : Running'[u] = Running[u]
  BY CallsOfOthers
<1>4. Running' = [Running EXCEPT ![t] = Calls!Restrict(Running[t], DOMAIN Running[t] \ {n})]
  <2>1. DOMAIN Running = Threads /\ Running' = [u \in Threads |-> Running'[u]]
    BY DEF Running
  <2> HIDE DEF Running
  <2> QED
    BY <1>2, <1>3, <2>1, Zenon
<1> QED
  BY <1>1, <1>4 DEF Calls!EndInnermost

\* While a body runs, esp is beneath all arguments that can still be read.
LEMMA BeneathAll ==
  ASSUME CallInv, NEW t \in Threads, calling[t] = NULL, back[t] = NULL, NEW i \in Entered(t)
  PROVE  i \in 1..Len(frames[t]) /\ esp[t] <= Rest(frames[t][i])
<1>1. PICK n \in Nat : n = Len(frames[t])
  BY Bodies DEF CallInv
<1>2. i \in 1..n /\ n \in 1..n /\ ~frames[t][i].left
  BY <1>1, Bodies DEF CallInv, Entered
<1>3. esp[t] = frames[t][n].sp
  <2>1. esp[t] = Under(t)
    BY DEF CallInv, DispatchInv, Balanced
  <2> QED
    BY <1>1, <1>2, <2>1 DEF Under, Base
<1>4. PICK low \in Int : low = Rest(frames[t][n])
  BY <1>1, <1>2, Bodies DEF CallInv
<1>5. PICK high \in Int : high = Past(frames[t][n])
  BY <1>1, <1>2, Bodies DEF CallInv
<1>6. frames[t][n].sp \in 1..StackSize + 1 /\ frames[t][n].sp <= low /\ low <= high
  BY <1>1, <1>2, <1>4, <1>5, Bodies DEF CallInv
<1>7. PICK own \in Int : own = Rest(frames[t][i])
  BY <1>1, <1>2, Bodies DEF CallInv
<1>8. CASE i = n
  BY <1>1, <1>2, <1>3, <1>4, <1>6, <1>8, Constants
<1>9. CASE i # n
  <2>1. n \in i + 1..n
    BY <1>2, <1>9
  <2>2. high <= own
    BY <1>1, <1>2, <1>5, <1>7, <2>1 DEF CallInv, Apart, Beneath
  <2> QED
    BY <1>1, <1>2, <1>3, <1>6, <1>7, <2>2, Constants
<1> QED
  BY <1>8, <1>9

LEMMA AskedChanges ==
  ASSUME DispatchInv, NEW t \in Threads, NEW c, calling' = [calling EXCEPT ![t] = c]
  PROVE  Asked' = [Asked EXCEPT ![t] = IF c = NULL THEN NULL
                                       ELSE [address |-> c.va, args |-> c.args]]
<1>1. calling \in [Threads -> Callings \cup {NULL}]
  BY DEF DispatchInv, TypeOK
<1>2. calling'[t] = c /\ \A u \in Threads \ {t} : calling'[u] = calling[u]
  BY <1>1
<1> QED
  BY <1>2, Zenon DEF Asked

\* A call that pushes asks for a call, and the calls in progress stay.
LEMMA Asking ==
  ASSUME CallInv, NEW t \in Threads, NEW va \in Addresses, NEW args \in Passed[va],
         NEW via \in Vias, via # "tail", NEW w \in Seq(Words \cup {RETURN}),
         Len(w) >= Arity[va],
         \A i \in 1..Arity[va] : w[(Len(w) - Arity[va]) + i] = args[i],
         calling[t] = NULL, back[t] = NULL,
         Push(t, w), Ask(t, va, args, via), frames' = frames
  PROVE  /\ Apart(t)' /\ Alone(t)
         /\ Calls!Ask(t, [address |-> va, args |-> args])
<1> DEFINE c == [va |-> va, args |-> args, via |-> via, saved |-> esp[t]]
<1>1. /\ esp \in [Threads -> 1..StackSize + 1] /\ frames \in [Threads -> Seq(Frames)]
      /\ calling \in [Threads -> Callings \cup {NULL}]
      /\ mem \in [Threads -> [Slots -> Words \cup {RETURN}]]
      /\ Arity[va] \in Nat /\ StackSize \in Nat /\ DispatchInv
  BY Constants DEF CallInv, DispatchInv, TypeOK
<1>2. PICK e \in 1..StackSize + 1 : e = esp[t]
  BY <1>1
<1>3. PICK l \in Nat : l = Len(w)
  OBVIOUS
<1>4. PICK k \in Nat : k = Arity[va]
  BY <1>1
<1>5. /\ e > l /\ l >= k
      /\ mem' = [mem EXCEPT ![t] = Store(mem[t], e - l, w)]
      /\ calling' = [calling EXCEPT ![t] = c]
      /\ back' = back /\ halt' = halt
  BY <1>2, <1>3, <1>4 DEF Push, Ask
<1>6. c \in Callings
  BY <1>2 DEF Callings, ArgLists
<1>7. c.va = va /\ c.via = via /\ c.saved = e /\ c.args = args
  BY <1>2
<1> HIDE DEF c
<1>8. c # NULL /\ calling'[t] = c /\ back'[t] = NULL
  BY <1>1, <1>5, <1>6, NoBodyIsNull DEF NoBodyIsNull
<1>9. Rest(c) = e - k /\ Past(c) = e
  BY <1>4, <1>7 DEF Rest, Past
<1>10. mem'[t] = [i \in Slots |-> IF i \in (e - l)..((e - l) + (l - 1))
                                  THEN w[(i - (e - l)) + 1] ELSE mem[t][i]]
  <2>1. mem'[t] = Store(mem[t], e - l, w)
    BY <1>1, <1>5
  <2> QED
    BY <1>3, <2>1 DEF Store
<1>11. \A a \in Slots : a >= e => mem'[t][a] = mem[t][a]
  BY <1>10 DEF Slots
<1>12. ASSUME NEW i \in 1..k PROVE mem'[t][(e - k) + (i - 1)] = args[i]
  <2> DEFINE a == (e - k) + (i - 1)
  <2>1. a \in Slots /\ a \in (e - l)..((e - l) + (l - 1)) /\ (a - (e - l)) + 1 = (l - k) + i
    BY <1>1, <1>5 DEF Slots
  <2> HIDE DEF a
  <2>2. mem'[t][a] = w[(l - k) + i]
    BY <1>10, <2>1
  <2>3. w[(l - k) + i] = args[i]
    BY <1>3, <1>4
  <2> QED
    BY <2>2, <2>3 DEF a
<1>13. Put(t)'
  BY <1>1, <1>4, <1>7, <1>8, <1>9, <1>12 DEF Put
<1>14. Alone(t)
  BY <1>1, <1>5 DEF Alone
<1>15. Apart(t)'
  <2>1. (Tailing(t)' <=> Tailing(t))
    BY <1>7, <1>8 DEF Tailing
  <2>2. \A i \in 1..Len(frames[t]) : LeftOk(t, i)' /\ Past(frames[t][i]) <= StackSize + 1
    BY <2>1 DEF CallInv, Apart, LeftOk
  <2>3. ASSUME NEW i \in 1..Len(frames[t]), ~frames[t][i].left PROVE Beneath(t, i)'
    <3>1. i \in Entered(t)
      BY <2>3, Bodies DEF CallInv, Entered
    <3>2. e <= Rest(frames[t][i])
      BY <1>2, <3>1, BeneathAll
    <3>3. Beneath(t, i)
      BY <2>3 DEF CallInv, Apart
    <3> QED
      BY <1>8, <1>9, <3>2, <3>3 DEF Beneath, Past, Rest
  <2> QED
    BY <1>13, <2>2, <2>3 DEF Apart, Past, Rest
<1>16. Running' = Running
  <2>1. Entered(t)' = Entered(t)
    BY DEF Entered
  <2>2. ASSUME NEW i \in Entered(t) PROVE Body(t, i)' = Body(t, i)
    <3>1. i \in 1..Len(frames[t]) /\ e <= Rest(frames[t][i]) /\ Rest(frames[t][i]) \in Int
      BY <1>1, <1>2, BeneathAll, Bodies
    <3>2. \A a \in Slots : a >= Rest(frames[t][i]) => mem'[t][a] = mem[t][a]
      BY <1>11, <3>1 DEF Slots
    <3> QED
      BY <1>1, <3>1, <3>2, BodySame
  <2> QED
    BY <1>14, <2>1, <2>2, SameCalls
<1>17. Asked[t] = NULL /\ Asked' = [Asked EXCEPT ![t] = [address |-> va, args |-> args]]
  BY <1>1, <1>5, <1>7, <1>8, AskedChanges DEF Asked
<1>18. Calls!Ask(t, [address |-> va, args |-> args])
  BY <1>5, <1>16, <1>17, Zenon DEF Calls!Ask
<1> QED
  BY <1>14, <1>15, <1>18

\* A tail jump overwrites the arguments of the body that ends with it, which
\* had at least as many.
LEMMA AskingLast ==
  ASSUME CallInv, NEW t \in Threads, NEW va \in Addresses, NEW args \in Passed[va],
         TailJump(t, va, args)
  PROVE  /\ Apart(t)' /\ Alone(t)
         /\ Calls!AskLast(t, [address |-> va, args |-> args])
<1> DEFINE c == [va |-> va, args |-> args, via |-> "tail", saved |-> esp[t]]
           s == frames[t]
<1>0. /\ calling[t] = NULL /\ back[t] = NULL /\ s # <<>> /\ Last(s).kind = "lifted"
      /\ Len(args) <= Arity[Last(s).va]
  BY Zenon DEF TailJump, InCode
<1>1. /\ esp \in [Threads -> 1..StackSize + 1] /\ frames \in [Threads -> Seq(Frames)]
      /\ calling \in [Threads -> Callings \cup {NULL}]
      /\ mem \in [Threads -> [Slots -> Words \cup {RETURN}]]
      /\ Arity[va] \in Nat /\ StackSize \in Nat /\ DispatchInv /\ Len(args) = Arity[va]
      /\ args \in Seq(Words) /\ s \in Seq(Frames)
  BY Constants DEF CallInv, DispatchInv, TypeOK
<1>2. PICK n \in Nat : n = Len(s) /\ n > 0
  <2>1. Len(s) \in Nat \ {0}
    BY <1>0, <1>1, EmptySeq
  <2> QED
    BY <2>1
<1>3. PICK e \in 1..StackSize + 1 : e = esp[t]
  BY <1>1
<1>4. PICK k \in Nat : k = Arity[va]
  BY <1>1
<1>5. PICK f \in Frames : f = s[n] /\ f = Last(s)
  BY <1>1, <1>2, ElementOfSeq DEF Last
<1>6. PICK g \in Frames : /\ g = [f EXCEPT !.left = TRUE] /\ g.left
                          /\ g.via = f.via /\ g.saved = f.saved /\ g.va = f.va
  <2> DEFINE h == [f EXCEPT !.left = TRUE]
  <2>1. h \in Frames /\ h.left /\ h.via = f.via /\ h.saved = f.saved /\ h.va = f.va
    BY DEF Frames
  <2> QED
    BY <2>1
<1>7. /\ mem' = [mem EXCEPT ![t] = Store(mem[t], e + 1, args)]
      /\ frames' = [frames EXCEPT ![t] = [s EXCEPT ![n] = g]]
      /\ calling' = [calling EXCEPT ![t] = c] /\ back' = back /\ halt' = halt
  BY <1>2, <1>3, <1>5, <1>6 DEF TailJump, Ask
<1>8. /\ frames'[t][n] = g /\ Len(frames'[t]) = n /\ DOMAIN frames'[t] = 1..n
      /\ \A i \in 1..n : i # n => frames'[t][i] = s[i]
  <2>1. [s EXCEPT ![n] = g] \in Seq(Frames) /\ Len([s EXCEPT ![n] = g]) = n
    BY <1>1, <1>2, <1>6, ExceptSeq
  <2>2. DOMAIN s = 1..n
    BY <1>1, <1>2, LenProperties
  <2> QED
    BY <1>1, <1>2, <1>7, <2>1, <2>2
<1>9. c \in Callings /\ c.va = va /\ c.via = "tail" /\ c.saved = e /\ c.args = args
  BY <1>3 DEF Callings, ArgLists, Vias
<1> HIDE DEF c
<1>10. c # NULL /\ calling'[t] = c /\ back'[t] = NULL
  BY <1>0, <1>1, <1>7, <1>9, NoBodyIsNull DEF NoBodyIsNull
<1>11. /\ f.va \in Addresses /\ Rest(f) = e + 1
       /\ Arity[f.va] \in Nat /\ Past(f) = (e + 1) + Arity[f.va]
  <2>1. f.sp = e /\ f.va \in Addresses /\ Arity[f.va] \in Nat /\ Rest(f) \in Int
    BY <1>0, <1>3, <1>5, <1>1, Topmost, Constants DEF DispatchInv, Balanced
  <2>2. f.sp = Rest(f) - 1
    BY <1>0, <1>1, <1>5, Topmost
  <2>3. Rest(f) = e + 1
    BY <2>1, <2>2, <1>3
  <2> QED
    BY <2>1, <2>3 DEF Past
<1>12. Rest(c) = e + 1 /\ Past(c) = (e + 1) + k /\ Past(c) <= Past(f)
  BY <1>0, <1>1, <1>4, <1>5, <1>9, <1>11 DEF Rest, Past
<1>13. mem'[t] = [i \in Slots |-> IF i \in (e + 1)..((e + 1) + (k - 1))
                                  THEN args[(i - (e + 1)) + 1] ELSE mem[t][i]]
  BY <1>1, <1>4, <1>7 DEF Store
<1>14. \A a \in Slots : a >= Past(c) => mem'[t][a] = mem[t][a]
  BY <1>4, <1>12, <1>13 DEF Slots
<1>15. \A i \in 1..Len(s) : /\ LeftOk(t, i) /\ Past(s[i]) <= StackSize + 1
                            /\ ~s[i].left => Beneath(t, i)
  BY DEF CallInv, Apart
<1>16. n \in Entered(t) /\ Entered(t) \subseteq 1..n /\ Entered(t)' = Entered(t) \ {n}
  <2>1. ~s[n].left
    BY <1>0, <1>2, <1>15 DEF LeftOk, Tailing
  <2>2. DOMAIN s = 1..n
    BY <1>1, <1>2, LenProperties
  <2>3. \A i \in 1..n : ~frames'[t][i].left <=> i # n /\ ~s[i].left
    BY <1>6, <1>8
  <2>4. /\ Entered(t) = {i \in 1..n : ~s[i].left}
        /\ Entered(t)' = {i \in 1..n : ~frames'[t][i].left}
    BY <1>8, <2>2 DEF Entered
  <2> QED
    BY <1>2, <2>1, <2>3, <2>4
<1>17. Past(c) <= StackSize + 1
  <2>1. Past(f) <= StackSize + 1
    <3>1. n \in 1..Len(s)
      BY <1>2
    <3>2. Past(s[n]) <= StackSize + 1
      BY <1>15, <3>1
    <3> QED
      BY <1>5, <3>2
  <2> QED
    BY <1>1, <1>4, <1>11, <1>12, <2>1
<1>18. Put(t)'
  <2>1. ASSUME NEW i \in 1..k PROVE mem'[t][(e + 1) + (i - 1)] = args[i]
    <3> DEFINE a == (e + 1) + (i - 1)
    <3>1. a \in Slots /\ a \in (e + 1)..((e + 1) + (k - 1)) /\ (a - (e + 1)) + 1 = i
      BY <1>1, <1>12, <1>17 DEF Slots
    <3> HIDE DEF a
    <3>2. mem'[t][a] = args[i]
      BY <1>13, <3>1
    <3> QED
      BY <3>2 DEF a
  <2> QED
    BY <1>4, <1>9, <1>10, <1>12, <1>17, <2>1 DEF Put
<1>19. Alone(t)
  BY <1>1, <1>7 DEF Alone
<1>20. \A i \in 1..n : Past(frames'[t][i]) = Past(s[i]) /\ Rest(frames'[t][i]) = Rest(s[i])
  <2>1. ASSUME NEW i \in 1..n
        PROVE  /\ frames'[t][i].va = s[i].va /\ frames'[t][i].via = s[i].via
               /\ frames'[t][i].saved = s[i].saved
    BY <1>5, <1>6, <1>8, <2>1
  <2> QED
    BY <2>1 DEF Past, Rest
<1>21. Apart(t)'
  <2>1. ASSUME NEW i \in 1..n PROVE LeftOk(t, i)'
    <3>1. CASE i = n
      <4>1. frames'[t][i].left /\ Tailing(t)' /\ ~(i < Len(frames'[t]))
        <5>1. frames'[t][i].left
          BY <1>6, <1>8, <3>1
        <5>2. Tailing(t)'
          BY <1>9, <1>10 DEF Tailing
        <5>3. ~(i < Len(frames'[t]))
          BY <1>8, <3>1
        <5> QED
          BY <5>1, <5>2, <5>3
      <4> QED
        BY <4>1, Zenon DEF LeftOk
    <3>2. CASE i # n
      <4>1. i < n /\ i + 1 \in 1..n /\ frames'[t][i] = s[i]
        BY <1>8, <3>2
      <4>2. frames'[t][i + 1].via = s[i + 1].via
        BY <1>5, <1>6, <1>8, <4>1
      <4>3. LeftOk(t, i)
        BY <1>2, <1>15
      <4> QED
        BY <1>2, <1>8, <4>1, <4>2, <4>3 DEF LeftOk
    <3> QED
      BY <3>1, <3>2
  <2>2. ASSUME NEW i \in 1..n, ~frames'[t][i].left PROVE Beneath(t, i)'
    <3>1. i < n /\ n \in i + 1..n /\ frames'[t][i] = s[i]
      <4>1. i # n
        BY <1>6, <1>8, <2>2
      <4> QED
        BY <1>8, <4>1
    <3>2. Beneath(t, i)
      BY <1>2, <1>15, <2>2, <3>1
    <3>3. Past(f) <= Rest(s[i]) /\ Rest(s[i]) \in Int
      BY <1>1, <1>2, <1>5, <3>1, <3>2, Bodies DEF Beneath
    <3>4. Past(c) <= Rest(s[i])
      BY <1>4, <1>11, <1>12, <3>3
    <3>5. \A j \in i + 1..n : Past(frames'[t][j]) <= Rest(frames'[t][i])
      BY <1>2, <1>20, <3>2 DEF Beneath
    <3> QED
      BY <1>8, <1>10, <1>20, <3>4, <3>5 DEF Beneath, Past, Rest
  <2>3. \A i \in 1..n : Past(frames'[t][i]) <= StackSize + 1
    BY <1>2, <1>15, <1>20
  <2> QED
    BY <1>8, <1>18, <2>1, <2>2, <2>3 DEF Apart, Past, Rest
<1>22. Calls!EndInnermost(t)
  <2>1. ASSUME NEW i \in Entered(t) \ {n} PROVE Body(t, i)' = Body(t, i)
    <3>1. i \in 1..n /\ i < n /\ n \in i + 1..n /\ ~s[i].left /\ frames'[t][i] = s[i]
      BY <1>8, <1>16 DEF Entered
    <3>2. Past(f) <= Rest(s[i]) /\ Rest(s[i]) \in Int
      BY <1>1, <1>2, <1>5, <1>15, <3>1, Bodies DEF Beneath
    <3>3. \A a \in Slots : a >= Rest(s[i]) => mem'[t][a] = mem[t][a]
      BY <1>4, <1>11, <1>12, <1>14, <3>2 DEF Slots
    <3> QED
      BY <1>1, <1>2, <3>1, <3>3, BodySame
  <2>2. \A m \in Entered(t) : m <= n
    BY <1>16
  <2> QED
    BY <1>16, <1>19, <2>1, <2>2, OneEnds
<1>23. Asked[t] = NULL /\ Asked' = [Asked EXCEPT ![t] = [address |-> va, args |-> args]]
  BY <1>0, <1>1, <1>7, <1>9, <1>10, AskedChanges DEF Asked
<1>24. Calls!AskLast(t, [address |-> va, args |-> args])
  BY <1>7, <1>22, <1>23, Zenon DEF Calls!AskLast
<1> QED
  BY <1>19, <1>21, <1>24

\* What lies beneath a live body before and after the pushed call starts or a
\* body returns is the same but for the top of the host stack.
LEMMA Starting ==
  ASSUME CallInv, NEW t \in Threads, calling[t] # NULL,
         NEW kind \in {"lifted", "host"}, NEW sp \in 1..StackSize + 1,
         sp = Rest(calling[t]) - (IF kind = "lifted" THEN 1 ELSE 0),
         Enter(t, kind, sp)
  PROVE  Apart(t)' /\ Alone(t) /\ Calls!Start(t)
<1> DEFINE s == frames[t]
<1>1. /\ frames \in [Threads -> Seq(Frames)]
      /\ calling \in [Threads -> Callings \cup {NULL}]
      /\ mem \in [Threads -> [Slots -> Words \cup {RETURN}]]
      /\ StackSize \in Nat /\ DispatchInv /\ s \in Seq(Frames)
  BY Constants DEF CallInv, DispatchInv, TypeOK
<1>2. PICK n \in Nat : n = Len(s)
  BY <1>1, Bodies
<1>3. PICK c \in Callings : c = calling[t]
  BY <1>1
<1>4. PICK f \in Frames :
        /\ f = NewFrame(t, kind, sp)
        /\ f.va = c.va /\ f.via = c.via /\ f.kind = kind /\ f.sp = sp
        /\ f.saved = c.saved /\ ~f.left
  <2> DEFINE h == NewFrame(t, kind, sp)
  <2>1. /\ h \in Frames /\ h.va = c.va /\ h.via = c.via /\ h.kind = kind /\ h.sp = sp
        /\ h.saved = c.saved /\ ~h.left
    BY <1>3 DEF NewFrame, Frames, Callings
  <2> QED
    BY <2>1
<1>5. /\ frames' = [frames EXCEPT ![t] = Append(s, f)]
      /\ mem' = [mem EXCEPT ![t] = [i \in Slots |-> IF i < sp THEN RETURN ELSE mem[t][i]]]
      /\ calling' = [calling EXCEPT ![t] = NULL] /\ back' = back /\ halt' = halt
  BY <1>4 DEF Enter, Drop, NewFrame
<1>6. /\ Append(s, f) \in Seq(Frames) /\ Len(Append(s, f)) = n + 1
      /\ \A i \in 1..n : Append(s, f)[i] = s[i]
      /\ Append(s, f)[n + 1] = f
  BY <1>1, <1>2, AppendProperties
<1>7. /\ frames'[t] = Append(s, f) /\ Len(frames'[t]) = n + 1 /\ DOMAIN frames'[t] = 1..n + 1
      /\ DOMAIN s = 1..n
      /\ \A i \in 1..n : frames'[t][i] = s[i]
      /\ frames'[t][n + 1] = f
  BY <1>1, <1>2, <1>5, <1>6, LenProperties
<1>8. /\ calling'[t] = NULL /\ back'[t] = NULL /\ back[t] = NULL /\ c # NULL
  BY <1>1, <1>3, <1>5, NoBodyIsNull DEF NoBodyIsNull, DispatchInv, Balanced, CallOk
<1>9. PICK k \in Nat : k = Arity[c.va]
  BY Constants DEF Callings
<1>10. PICK r \in Int : r = Rest(c)
  BY <1>9, Constants DEF Rest, Callings
<1>11. /\ Past(c) = r + k /\ Rest(f) = r /\ Past(f) = r + k
       /\ sp = r - (IF kind = "lifted" THEN 1 ELSE 0) /\ sp <= r
  <2>1. Rest(f) = Rest(c)
    BY <1>4 DEF Rest
  <2>2. Past(c) = r + k /\ Past(f) = r + k
    BY <1>4, <1>9, <1>10, <2>1 DEF Past
  <2>3. sp = r - (IF kind = "lifted" THEN 1 ELSE 0) /\ sp <= r
    BY <1>3, <1>10
  <2> QED
    BY <1>10, <2>1, <2>2, <2>3
<1>12. \A a \in Slots : a >= r => mem'[t][a] = mem[t][a]
  BY <1>1, <1>5, <1>11 DEF Slots
<1>13. Put(t) /\ \A i \in 1..n : /\ LeftOk(t, i) /\ Past(s[i]) <= StackSize + 1
                                 /\ ~s[i].left => Beneath(t, i)
  BY <1>2 DEF CallInv, Apart
<1>14. /\ c.args \in Passed[c.va] /\ Past(c) <= StackSize + 1
       /\ \A i \in 1..k : mem[t][r + (i - 1)] = c.args[i]
  BY <1>3, <1>9, <1>10, <1>13 DEF Put
<1>15. Alone(t)
  BY <1>1, <1>5 DEF Alone
<1>16. ASSUME NEW i \in 1..n, ~s[i].left
       PROVE  r + k <= Rest(s[i]) /\ Rest(s[i]) \in Int
              /\ \A j \in i + 1..n : Past(s[j]) <= Rest(s[i])
  <2>1. Beneath(t, i)
    BY <1>13, <1>16
  <2>2. Past(c) <= Rest(s[i])
    BY <1>3, <1>8, <2>1 DEF Beneath
  <2> QED
    BY <1>1, <1>2, <1>11, <2>1, <2>2, Bodies DEF Beneath
<1>17. Apart(t)'
  <2>1. ASSUME NEW i \in 1..n + 1 PROVE LeftOk(t, i)'
    <3>1. CASE i = n + 1
      <4>1. ~frames'[t][i].left
        BY <1>4, <1>7, <3>1
      <4>2. ~Tailing(t)'
        BY <1>8 DEF Tailing
      <4>3. ~(i < Len(frames'[t]))
        BY <1>7, <3>1
      <4> QED
        BY <4>1, <4>2, <4>3, Zenon DEF LeftOk
    <3>2. CASE i = n
      <4>1. /\ frames'[t][i] = s[i] /\ frames'[t][i + 1].via = c.via
            /\ i < Len(frames'[t]) /\ ~(i < n) /\ n \in 1..n
        BY <1>4, <1>7, <3>2
      <4>2. Tailing(t) <=> c.via = "tail"
        BY <1>3, <1>8 DEF Tailing
      <4>3. LeftOk(t, i)
        BY <1>13, <3>2, <4>1
      <4>4. s[i].left <=> Tailing(t)
        BY <1>2, <4>1, <4>3, Zenon DEF LeftOk
      <4> QED
        BY <4>1, <4>2, <4>4, Zenon DEF LeftOk
    <3>3. CASE i \in 1..n - 1
      <4>1. /\ frames'[t][i] = s[i] /\ frames'[t][i + 1] = s[i + 1]
            /\ i < Len(frames'[t]) /\ i < n /\ i \in 1..n
        BY <1>7, <3>3
      <4>2. LeftOk(t, i)
        BY <1>13, <4>1
      <4>3. s[i].left <=> s[i + 1].via = "tail"
        BY <1>2, <4>1, <4>2, Zenon DEF LeftOk
      <4> QED
        BY <4>1, <4>3, Zenon DEF LeftOk
    <3> QED
      BY <3>1, <3>2, <3>3
  <2>2. ASSUME NEW i \in 1..n + 1, ~frames'[t][i].left PROVE Beneath(t, i)'
    <3>1. CASE i = n + 1
      <4>1. \A j \in i + 1..Len(frames'[t]) : FALSE
        BY <1>7, <3>1
      <4> QED
        BY <1>8, <4>1 DEF Beneath
    <3>2. CASE i \in 1..n
      <4>1. frames'[t][i] = s[i]
        BY <1>7, <3>2
      <4>2. \A j \in i + 1..n + 1 : Past(frames'[t][j]) <= Rest(s[i])
        <5>1. \A j \in i + 1..n : frames'[t][j] = s[j]
          BY <1>7, <3>2
        <5>2. Past(frames'[t][n + 1]) = r + k
          BY <1>7, <1>11
        <5>3. \A j \in i + 1..n + 1 : j = n + 1 \/ j \in i + 1..n
          BY <3>2
        <5> QED
          BY <1>16, <2>2, <3>2, <4>1, <5>1, <5>2, <5>3
      <4> QED
        BY <1>7, <1>8, <4>1, <4>2 DEF Beneath, Past, Rest
    <3> QED
      BY <3>1, <3>2
  <2>3. ASSUME NEW i \in 1..n + 1 PROVE Past(frames'[t][i]) <= StackSize + 1
    <3>1. CASE i = n + 1
      BY <1>7, <1>11, <1>14, <3>1
    <3>2. CASE i \in 1..n
      BY <1>7, <1>13, <3>2
    <3> QED
      BY <3>1, <3>2
  <2> QED
    BY <1>7, <1>8, <2>1, <2>2, <2>3 DEF Apart, Past, Rest
<1>18. \A i \in Entered(t) : i \in 1..n /\ ~s[i].left /\ Body(t, i)' = Body(t, i)
  <2> SUFFICES ASSUME NEW i \in Entered(t)
               PROVE  i \in 1..n /\ ~s[i].left /\ Body(t, i)' = Body(t, i)
    OBVIOUS
  <2>1. i \in 1..n /\ ~s[i].left
    BY <1>7 DEF Entered
  <2>2. r + k <= Rest(s[i]) /\ Rest(s[i]) \in Int
    BY <1>16, <2>1
  <2>3. \A a \in Slots : a >= Rest(s[i]) => mem'[t][a] = mem[t][a]
    BY <1>9, <1>12, <2>2 DEF Slots
  <2>4. frames'[t][i] = s[i]
    BY <1>7, <2>1
  <2> QED
    BY <1>1, <1>2, <2>1, <2>3, <2>4, BodySame
<1>19. Entered(t)' = Entered(t) \cup {n + 1} /\ n + 1 \notin Entered(t)
  <2>1. /\ Entered(t) = {i \in 1..n : ~s[i].left}
        /\ Entered(t)' = {i \in 1..n + 1 : ~frames'[t][i].left}
    BY <1>7 DEF Entered
  <2>2. \A i \in 1..n + 1 : ~frames'[t][i].left <=> i = n + 1 \/ (i \in 1..n /\ ~s[i].left)
    BY <1>4, <1>7
  <2>3. 1..n \subseteq 1..n + 1 /\ n + 1 \in 1..n + 1 /\ n + 1 \notin 1..n
    OBVIOUS
  <2> QED
    BY <2>1, <2>2, <2>3
<1>20. Body(t, n + 1)' = [address |-> c.va, args |-> c.args]
  <2>1. Body(t, n + 1)' = [address |-> f.va, args |-> ArgsOf(t, f)']
    BY <1>7, Zenon DEF Body
  <2>2. ArgsOf(t, f)' = c.args
    <3> DEFINE at == IF f.kind = "lifted" THEN f.sp + 1 ELSE f.sp
    <3>1. at = r
      BY <1>4, <1>11
    <3> HIDE DEF at
    <3>2. ArgsOf(t, f)' = [i \in 1..k |-> IF at + (i - 1) \in Slots
                                          THEN mem'[t][at + (i - 1)] ELSE RETURN]
      BY <1>4, <1>9, Zenon DEF ArgsOf, at
    <3>3. ASSUME NEW i \in 1..k
          PROVE  r + (i - 1) \in Slots /\ mem'[t][r + (i - 1)] = c.args[i]
      <4>1. r + (i - 1) \in Slots
        <5>1. sp >= 1 /\ r + k <= StackSize + 1
          BY <1>1, <1>11, <1>14
        <5> QED
          BY <1>1, <1>11, <5>1 DEF Slots
      <4>2. r + (i - 1) >= r
        OBVIOUS
      <4> QED
        BY <1>12, <1>14, <4>1, <4>2
    <3>4. c.args \in Seq(Words) /\ Len(c.args) = k
      BY <1>9, <1>14, Constants DEF Callings
    <3>5. c.args = [i \in 1..k |-> c.args[i]]
      BY <3>4
    <3> QED
      BY <3>1, <3>2, <3>3, <3>5
  <2> QED
    BY <1>4, <2>1, <2>2
<1>21. /\ Asked[t] = [address |-> c.va, args |-> c.args]
       /\ Asked' = [Asked EXCEPT ![t] = NULL]
  BY <1>1, <1>3, <1>5, <1>8, AskedChanges DEF Asked
<1>22. Asked[t] # NULL
  <2>1. [address |-> c.va, args |-> c.args] # NULL
    BY NoBodyIsNull DEF NoBodyIsNull, Callings
  <2> QED
    BY <1>21, <2>1
<1>23. Running' = [Running EXCEPT ![t] =
                     [m \in DOMAIN Running[t] \cup {n + 1} |->
                        IF m = n + 1 THEN Asked[t] ELSE Running[t][m]]]
  <2>1. DOMAIN Running[t] = Entered(t) /\ \A i \in Entered(t) : Running[t][i] = Body(t, i)
    BY DEF Running
  <2>2. Running'[t] = [m \in Entered(t) \cup {n + 1} |-> Body(t, m)']
    BY <1>19 DEF Running
  <2>3. Running'[t] = [m \in DOMAIN Running[t] \cup {n + 1} |->
                         IF m = n + 1 THEN Asked[t] ELSE Running[t][m]]
    BY <1>18, <1>19, <1>20, <1>21, <2>1, <2>2
  <2>4. \A u \in Threads \ {t} : Running'[u] = Running[u]
    BY <1>15, CallsOfOthers
  <2>5. DOMAIN Running = Threads /\ Running' = [u \in Threads |-> Running'[u]]
    BY DEF Running
  <2> HIDE DEF Running
  <2> QED
    BY <2>3, <2>4, <2>5, Zenon
<1>24. n + 1 \in DOMAIN Running'[t] /\ \A m \in DOMAIN Running[t] : m < n + 1
  <2>1. DOMAIN Running[t] = Entered(t) /\ DOMAIN Running'[t] = Entered(t)'
    BY DEF Running
  <2> QED
    BY <1>18, <1>19, <2>1
<1>25. Calls!Start(t)
  BY <1>5, <1>21, <1>22, <1>23, <1>24, Zenon DEF Calls!Start
<1> QED
  BY <1>15, <1>17, <1>25

\* The top body leaves the host stack: the innermost call ends, or it had ended
\* with a tail jump.
LEMMA Ending ==
  ASSUME CallInv, NEW t \in Threads, Inside(t), calling[t] = NULL,
         back[t] # NULL => back[t].via = "tail",
         Leave(t), \A u \in Threads \ {t} : mem'[u] = mem[u],
         \A a \in Slots : a >= Rest(Last(frames[t])) => mem'[t][a] = mem[t][a]
  PROVE  /\ Apart(t)' /\ Alone(t) /\ Asked' = Asked
         /\ back[t] = NULL => Calls!EndInnermost(t)
         /\ back[t] # NULL => Running' = Running
<1> DEFINE s == frames[t]
<1>1. /\ frames \in [Threads -> Seq(Frames)] /\ back \in [Threads -> Frames \cup {NULL}]
      /\ calling \in [Threads -> Callings \cup {NULL}]
      /\ DispatchInv /\ s \in Seq(Frames) /\ s # <<>>
  BY DEF CallInv, DispatchInv, TypeOK, Inside
<1>2. PICK n \in Nat : n = Len(s) /\ n > 0
  <2>1. Len(s) \in Nat \ {0}
    BY <1>1, EmptySeq
  <2> QED
    BY <2>1
<1>3. PICK f \in Frames : f = s[n] /\ f = Last(s)
  BY <1>1, <1>2, ElementOfSeq DEF Last
<1>4. /\ frames' = [frames EXCEPT ![t] = Front(s)] /\ back' = [back EXCEPT ![t] = f]
      /\ calling' = calling /\ halt' = halt
  BY <1>3 DEF Leave
<1>5. /\ Front(s) \in Seq(Frames) /\ Len(Front(s)) = n - 1
      /\ \A i \in 1..n - 1 : Front(s)[i] = s[i]
  <2>1. /\ 1 \in Int /\ n - 1 \in Int /\ \A i \in 1..n - 1 : s[i] \in Frames
    BY <1>1, <1>2, ElementOfSeq
  <2>2. Front(s) = SubSeq(s, 1, n - 1)
    BY <1>2 DEF Front
  <2>3. /\ SubSeq(s, 1, n - 1) \in Seq(Frames)
        /\ Len(SubSeq(s, 1, n - 1)) = (IF 1 <= n - 1 THEN (n - 1) - 1 + 1 ELSE 0)
        /\ \A i \in 1..(n - 1) - 1 + 1 : SubSeq(s, 1, n - 1)[i] = s[1 + i - 1]
    BY <2>1, SubSeqProperties
  <2> QED
    BY <1>2, <2>2, <2>3
<1>6. /\ Len(frames'[t]) = n - 1 /\ DOMAIN frames'[t] = 1..n - 1 /\ DOMAIN s = 1..n
      /\ \A i \in 1..n - 1 : frames'[t][i] = s[i]
      /\ back'[t] = f /\ f # NULL /\ calling'[t] = NULL
  BY <1>1, <1>2, <1>4, <1>5, LenProperties, NoBodyIsNull DEF NoBodyIsNull
<1>7. \A i \in 1..n : /\ LeftOk(t, i) /\ Past(s[i]) <= StackSize + 1
                      /\ ~s[i].left => Beneath(t, i)
  BY <1>2 DEF CallInv, Apart
<1>8. Alone(t)
  BY <1>1, <1>4 DEF Alone
<1>9. ASSUME NEW i \in 1..n - 1, ~s[i].left
      PROVE  Past(f) <= Rest(s[i])
  <2>1. i \in 1..n /\ n \in i + 1..n
    BY <1>9
  <2>2. Beneath(t, i)
    BY <1>7, <1>9, <2>1
  <2> QED
    BY <1>2, <1>3, <2>1, <2>2 DEF Beneath
<1>10. Apart(t)'
  <2>1. ASSUME NEW i \in 1..n - 1 PROVE LeftOk(t, i)'
    <3>1. s[i].left <=> s[i + 1].via = "tail"
      <4>1. LeftOk(t, i) /\ i < n
        BY <1>2, <1>7
      <4> QED
        BY <1>2, <4>1, Zenon DEF LeftOk
    <3>2. frames'[t][i] = s[i]
      BY <1>6
    <3>3. CASE i = n - 1
      <4>1. ~(i < Len(frames'[t])) /\ s[i + 1] = f
        <5>1. i + 1 = n /\ Len(frames'[t]) = i
          BY <1>2, <1>6, <3>3
        <5>2. s[i + 1] = f
          BY <1>3, <5>1
        <5> QED
          BY <5>1, <5>2
      <4>2. Tailing(t)' <=> f.via = "tail"
        BY <1>6 DEF Tailing
      <4> QED
        BY <3>1, <3>2, <4>1, <4>2, Zenon DEF LeftOk
    <3>4. CASE i # n - 1
      <4>1. i < Len(frames'[t]) /\ frames'[t][i + 1] = s[i + 1]
        BY <1>2, <1>6, <3>4
      <4> QED
        BY <3>1, <3>2, <4>1, Zenon DEF LeftOk
    <3> QED
      BY <3>3, <3>4
  <2>2. ASSUME NEW i \in 1..n - 1, ~frames'[t][i].left PROVE Beneath(t, i)'
    <3>1. frames'[t][i] = s[i] /\ i \in 1..n
      BY <1>6
    <3>2. Beneath(t, i) /\ Past(f) <= Rest(s[i])
      BY <1>7, <1>9, <2>2, <3>1
    <3>3. \A j \in i + 1..n - 1 : Past(frames'[t][j]) <= Rest(s[i])
      <4>1. \A j \in i + 1..n - 1 : j \in i + 1..n /\ frames'[t][j] = s[j]
        BY <1>2, <1>6
      <4> QED
        BY <1>2, <3>2, <4>1 DEF Beneath
    <3> QED
      BY <1>6, <3>1, <3>2, <3>3 DEF Beneath, Past, Rest
  <2>3. \A i \in 1..n - 1 : Past(frames'[t][i]) <= StackSize + 1
    BY <1>2, <1>6, <1>7
  <2> QED
    BY <1>6, <2>1, <2>2, <2>3 DEF Apart, Past, Rest
<1>11. Asked' = Asked
  BY <1>4 DEF Asked
<1>12. /\ Entered(t) = {i \in 1..n : ~s[i].left}
       /\ Entered(t)' = {i \in 1..n - 1 : ~s[i].left}
  BY <1>6 DEF Entered
<1>13. \A i \in Entered(t) \ {n} : Body(t, i)' = Body(t, i)
  <2> SUFFICES ASSUME NEW i \in Entered(t) \ {n} PROVE Body(t, i)' = Body(t, i)
    OBVIOUS
  <2>1. i \in 1..n - 1 /\ i \in 1..n /\ ~s[i].left /\ frames'[t][i] = s[i]
    BY <1>2, <1>6, <1>12
  <2>2. PICK x \in Int : x = Rest(s[i])
    BY <1>1, <1>2, <2>1, Bodies
  <2>3. Past(f) <= x /\ Rest(f) <= Past(f) /\ Rest(f) \in Int /\ Past(f) \in Int
    <3>1. n \in 1..n
      BY <1>2
    <3> QED
      BY <1>1, <1>2, <1>3, <1>9, <2>1, <2>2, <3>1, Bodies
  <2>4. \A a \in Slots : a >= x => a >= Rest(f)
    BY <2>2, <2>3 DEF Slots
  <2>5. \A a \in Slots : a >= Rest(s[i]) => mem'[t][a] = mem[t][a]
    BY <1>3, <2>2, <2>4
  <2> QED
    BY <1>1, <1>2, <2>1, <2>5, BodySame
<1>14. LeftOk(t, n) /\ n = Len(s) /\ n \in 1..n
  BY <1>2, <1>7
<1>15. ASSUME back[t] = NULL PROVE Calls!EndInnermost(t)
  <2>1. ~s[n].left
    <3>1. ~Tailing(t)
      BY <1>15 DEF Tailing
    <3>2. ~(n < Len(s))
      BY <1>2
    <3> QED
      BY <1>14, <3>1, <3>2, Zenon DEF LeftOk
  <2>2. n \in Entered(t) /\ Entered(t)' = Entered(t) \ {n} /\ \A m \in Entered(t) : m <= n
    BY <1>2, <1>12, <2>1
  <2> QED
    BY <1>8, <1>13, <2>2, OneEnds
<1>16. ASSUME back[t] # NULL PROVE Running' = Running
  <2>1. s[n].left
    <3>1. Tailing(t)
      BY <1>16 DEF Tailing
    <3>2. ~(n < Len(s))
      BY <1>2
    <3> QED
      BY <1>14, <3>1, <3>2, Zenon DEF LeftOk
  <2>2. Entered(t)' = Entered(t) /\ n \notin Entered(t)
    BY <1>2, <1>12, <2>1
  <2> QED
    BY <1>8, <1>13, <2>2, SameCalls
<1> QED
  BY <1>8, <1>10, <1>11, <1>15, <1>16

\* The caller goes on; only dead slots change.
LEMMA GoingOn ==
  ASSUME CallInv, NEW t \in Threads, ResumeGuest(t) \/ ResumeHost(t)
  PROVE  Apart(t)' /\ Alone(t) /\ Running' = Running /\ Asked' = Asked
<1> DEFINE s == frames[t]
<1>1. /\ frames \in [Threads -> Seq(Frames)] /\ back \in [Threads -> Frames \cup {NULL}]
      /\ esp \in [Threads -> 1..StackSize + 1] /\ DispatchInv
      /\ mem \in [Threads -> [Slots -> Words \cup {RETURN}]]
  BY DEF CallInv, DispatchInv, TypeOK
<1>2. /\ back[t] # NULL /\ back' = [back EXCEPT ![t] = NULL]
      /\ UNCHANGED <<frames, depth, calling, halt>>
  BY Zenon DEF ResumeGuest, ResumeHost
<1>3. PICK b \in Frames : b = back[t]
  BY <1>1, <1>2
<1>4. BackOk(t)
  BY <1>1, <1>2 DEF DispatchInv, Balanced
<1>5. \/ b.via \in {"call", "import"} /\ Drop(t, esp[t] + Arity[b.va])
      \/ b.via = "host" /\ Drop(t, b.saved)
  BY <1>3, Zenon DEF ResumeGuest, ResumeHost
<1>6. PICK k \in Nat : k = Arity[b.va]
  BY Constants DEF Frames
<1>7. PICK r \in Int : r = Rest(b)
  BY <1>6, Constants DEF Rest, Frames
<1>8. PICK p \in Int : p = Past(b)
  BY <1>6, <1>7 DEF Past
<1>9. Drop(t, p)
  <2>1. esp[t] = r
    BY <1>3, <1>4, <1>7 DEF BackOk
  <2>2. p = r + k
    BY <1>6, <1>7, <1>8 DEF Past
  <2>3. CASE b.via \in {"call", "import"} /\ Drop(t, esp[t] + Arity[b.va])
    BY <1>6, <2>1, <2>2, <2>3
  <2>4. CASE b.via = "host" /\ Drop(t, b.saved)
    <3>1. r = b.saved - k /\ b.saved \in Int
      BY <1>6, <1>7, <2>4 DEF Rest, Frames
    <3>2. p = b.saved
      BY <2>2, <3>1
    <3> QED
      BY <2>4, <3>2
  <2> QED
    BY <1>5, <2>3, <2>4
<1>10. \A a \in Slots : a >= p => mem'[t][a] = mem[t][a]
  BY <1>1, <1>9 DEF Drop, Slots
<1>11. Alone(t)
  BY <1>1, <1>2, <1>9 DEF Alone, Drop
<1>12. b.via # "tail" /\ calling[t] = NULL /\ calling'[t] = NULL /\ back'[t] = NULL
  <2>1. b.via # "tail"
    BY <1>5
  <2> QED
    BY <1>1, <1>2, <1>4, <2>1 DEF BackOk
<1>13. \A i \in 1..Len(s) : /\ LeftOk(t, i) /\ Past(s[i]) <= StackSize + 1
                            /\ ~s[i].left => Beneath(t, i)
  BY DEF CallInv, Apart
<1>14. Apart(t)'
  <2>1. Tailing(t)' <=> Tailing(t)
    BY <1>3, <1>12 DEF Tailing
  <2>2. \A i \in 1..Len(s) : LeftOk(t, i)'
    BY <1>2, <1>13, <2>1 DEF LeftOk
  <2>3. \A i \in 1..Len(s) : ~s[i].left => Beneath(t, i)'
    BY <1>2, <1>12, <1>13 DEF Beneath, Past, Rest
  <2> QED
    BY <1>2, <1>12, <1>13, <2>2, <2>3 DEF Apart, Past, Rest
<1>15. Running' = Running
  <2>1. Entered(t)' = Entered(t)
    BY <1>2 DEF Entered
  <2>2. ASSUME NEW i \in Entered(t) PROVE Body(t, i)' = Body(t, i)
    <3>1. i \in 1..Len(s) /\ ~s[i].left /\ frames'[t][i] = s[i]
      BY <1>1, <1>2, Bodies DEF Entered
    <3>2. PICK x \in Int : x = Rest(s[i])
      BY <1>1, <3>1, Bodies
    <3>3. p <= x
      <4>1. Beneath(t, i)
        BY <1>13, <3>1
      <4> QED
        BY <1>2, <1>3, <1>8, <3>2, <4>1 DEF Beneath
    <3>4. \A a \in Slots : a >= Rest(s[i]) => mem'[t][a] = mem[t][a]
      BY <1>10, <3>2, <3>3 DEF Slots
    <3> QED
      BY <1>1, <3>1, <3>4, BodySame
  <2> QED
    BY <1>11, <2>1, <2>2, SameCalls
<1> QED
  BY <1>2, <1>11, <1>14, <1>15 DEF Asked

\* A call's steps are the promise's steps.
LEMMA IsNext ==
  ASSUME Runs, NEW t \in Threads,
         \/ \E c \in Calls!Call : Calls!Ask(t, c) \/ Calls!AskLast(t, c)
         \/ Calls!Start(t) \/ Calls!Finish(t) \/ Calls!Stop(t)
  PROVE  Calls!Next
BY Zenon DEF Runs, Calls!Next

LEMMA IsCall ==
  ASSUME NEW va \in Addresses, NEW args \in Passed[va]
  PROVE  [address |-> va, args |-> args] \in Calls!Call
BY DEF Calls!Call, ArgLists

\* The process ends with the call pending.
LEMMA StoppingCalls ==
  ASSUME CallInv, NEW t \in Threads, Runaway(t) \/ Abort(t)
  PROVE  Apart(t)' /\ Alone(t) /\ Calls!Stop(t)
<1>1. /\ calling[t] # NULL /\ Halts /\ UNCHANGED <<esp, mem, frames, calling, back>>
  BY Zenon DEF Runaway, Abort, Dispatching, Stops, Halts
<1>2. Apart(t)
  BY DEF CallInv
<1>3. Alone(t)
  BY <1>1 DEF Alone
<1>4. Apart(t)'
  <2>1. Tailing(t)' <=> Tailing(t)
    BY <1>1 DEF Tailing
  <2>2. (\A i : LeftOk(t, i)' <=> LeftOk(t, i)) /\ (\A i : Beneath(t, i)' <=> Beneath(t, i))
    BY <1>1, <2>1 DEF LeftOk, Beneath, Past, Rest
  <2>3. Put(t)' <=> Put(t)
    BY <1>1 DEF Put, Past, Rest
  <2> QED
    BY <1>1, <1>2, <2>2, <2>3 DEF Apart, Past, Rest
<1>5. Running' = Running
  <2>1. Entered(t)' = Entered(t)
    BY <1>1 DEF Entered
  <2>2. \A i \in Entered(t) : Body(t, i)' = Body(t, i)
    BY <1>1 DEF Body, ArgsOf
  <2> QED
    BY <1>3, <2>1, <2>2, SameCalls
<1>6. Asked' = Asked /\ Asked[t] # NULL
  <2>1. Asked' = Asked
    BY <1>1 DEF Asked
  <2>2. calling[t] \in Callings
    BY <1>1 DEF CallInv, DispatchInv, TypeOK
  <2>3. [address |-> calling[t].va, args |-> calling[t].args] # NULL
    BY <2>2, NoBodyIsNull DEF NoBodyIsNull, Callings
  <2> QED
    BY <1>1, <2>1, <2>3 DEF Asked
<1>7. (halt # "")' = TRUE
  BY <1>1, Zenon DEF Halts
<1>8. Calls!Stop(t)
  BY <1>5, <1>6, <1>7, Zenon DEF Calls!Stop
<1> QED
  BY <1>3, <1>4, <1>8

\* A routed call starts, whatever the route.
LEMMA RoutedStarts ==
  ASSUME CallInv, NEW t \in Threads, NEW kind \in {"lifted", "host"}, Deepen(t),
         Enter(t, kind, esp[t] + (IF kind = "lifted" THEN 0 ELSE 1))
  PROVE  Apart(t)' /\ Alone(t) /\ Calls!Start(t)
<1> DEFINE sp == esp[t] + (IF kind = "lifted" THEN 0 ELSE 1)
<1>1. /\ calling[t] # NULL /\ calling[t].via # "import" /\ DispatchInv
  BY Zenon DEF Deepen, Dispatching, CallInv
<1>2. esp[t] \in 1..StackSize /\ calling[t] \in Callings /\ CallOk(t)
  BY <1>1, Routable DEF DispatchInv, TypeOK, Balanced
<1>3. Rest(calling[t]) \in Int /\ esp[t] = Rest(calling[t]) - 1
  BY <1>1, <1>2, Constants DEF CallOk, Rest, Callings
<1>4. /\ sp \in 1..StackSize + 1
      /\ sp = Rest(calling[t]) - (IF kind = "lifted" THEN 1 ELSE 0)
  BY <1>2, <1>3, Constants
<1> HIDE DEF sp
<1>5. Enter(t, kind, sp)
  BY DEF sp
<1> QED
  BY <1>1, <1>4, <1>5, Starting

LEMMA ImportStarts ==
  ASSUME CallInv, NEW t \in Threads, EnterImport(t)
  PROVE  Apart(t)' /\ Alone(t) /\ Calls!Start(t)
<1>1. /\ calling[t] # NULL /\ calling[t].via = "import" /\ DispatchInv
      /\ Enter(t, "host", esp[t])
  BY Zenon DEF EnterImport, CallInv
<1>2. esp[t] \in 1..StackSize + 1 /\ calling[t] \in Callings /\ CallOk(t)
  BY <1>1 DEF DispatchInv, TypeOK, Balanced
<1>3. Rest(calling[t]) \in Int /\ esp[t] = Rest(calling[t]) - 0
  BY <1>1, <1>2, Constants DEF CallOk, Rest, Callings
<1> QED
  BY <1>1, <1>2, <1>3, Starting

LEMMA ReturnEnds ==
  ASSUME CallInv, NEW t \in Threads, GuestReturn(t) \/ HandlerReturn(t)
  PROVE  Apart(t)' /\ Alone(t) /\ Calls!Finish(t)
<1> DEFINE f == Last(frames[t])
<1>1. /\ calling[t] = NULL /\ back[t] = NULL /\ frames[t] # <<>> /\ Leave(t)
      /\ \/ f.kind = "lifted" /\ Drop(t, esp[t] + 1)
         \/ f.kind = "host" /\ UNCHANGED <<esp, mem>>
  BY Zenon DEF GuestReturn, HandlerReturn, InCode
<1>2. /\ esp \in [Threads -> 1..StackSize + 1] /\ DispatchInv /\ Balanced(t)
      /\ mem \in [Threads -> [Slots -> Words \cup {RETURN}]]
  BY DEF CallInv, DispatchInv, TypeOK
<1>3. /\ f.sp = Under(t) /\ f.sp \in 1..StackSize + 1 /\ Rest(f) \in Int
      /\ f.sp = Rest(f) - (IF f.kind = "lifted" THEN 1 ELSE 0)
  BY <1>1, <1>2, Topmost
<1>4. esp[t] = f.sp
  BY <1>1, <1>2, <1>3 DEF Balanced
<1> DEFINE r == Rest(f)
<1>5. /\ \A u \in Threads \ {t} : mem'[u] = mem[u]
      /\ \A a \in Slots : a >= r => mem'[t][a] = mem[t][a]
  <2>1. CASE f.kind = "lifted" /\ Drop(t, esp[t] + 1)
    <3>1. esp[t] + 1 = r
      BY <1>2, <1>3, <1>4, <2>1
    <3>2. Drop(t, r)
      BY <2>1, <3>1
    <3> HIDE DEF r
    <3>3. r \in Int
      BY <1>3 DEF r
    <3> QED
      BY <1>2, <3>2, <3>3 DEF Drop, Slots
  <2>2. CASE f.kind = "host" /\ UNCHANGED <<esp, mem>>
    BY <2>2
  <2> QED
    BY <1>1, <2>1, <2>2
<1>6. Apart(t)' /\ Alone(t) /\ Asked' = Asked /\ Calls!EndInnermost(t)
  BY <1>1, <1>5, Ending DEF Inside
<1>7. Asked[t] = NULL /\ halt' = halt
  BY <1>1 DEF Asked, Leave
<1>8. Calls!Finish(t)
  BY <1>6, <1>7, Zenon DEF Calls!Finish
<1> QED
  BY <1>6, <1>8

LEMMA TailEnds ==
  ASSUME CallInv, NEW t \in Threads, ResumeTail(t)
  PROVE  Apart(t)' /\ Alone(t) /\ Running' = Running /\ Asked' = Asked /\ halt' = halt
<1>1. /\ back[t] # NULL /\ back[t].via = "tail" /\ Leave(t) /\ mem' = mem
  BY Zenon DEF ResumeTail
<1>2. BackOk(t)
  BY <1>1 DEF CallInv, DispatchInv, Balanced
<1>3. Inside(t) /\ calling[t] = NULL /\ halt' = halt
  BY <1>1, <1>2 DEF BackOk, LiftedUnder, Inside, Leave
<1> QED
  BY <1>1, <1>3, Ending

\* Every step is a step of the promise or hides from it.
LEMMA StepSimulates ==
  ASSUME CallInv, NEW t \in Threads, Step(t)
  PROVE  (\A u \in Threads : Apart(u)') /\ (Calls!Next \/ UNCHANGED <<Asked, Running, halt # "">>)
<1> USE DEF Vias
<1>1. ASSUME NEW va \in Addresses, NEW args \in Passed[va], GuestCall(t, va, args)
      PROVE  Apart(t)' /\ Alone(t) /\ Calls!Next
  <2> DEFINE w == <<RETURN>> \o args
  <2>1. Runs /\ calling[t] = NULL /\ back[t] = NULL
    BY <1>1, Zenon DEF GuestCall, InCode, Runs
  <2>2. args \in Seq(Words) /\ Len(args) = Arity[va] /\ Arity[va] \in Nat
    BY Constants
  <2>3. /\ w \in Seq(Words \cup {RETURN}) /\ Len(w) = Arity[va] + 1
        /\ \A i \in 1..Arity[va] : w[1 + i] = args[i]
    BY <2>2
  <2>4. Push(t, w) /\ Ask(t, va, args, "call") /\ frames' = frames /\ "call" \in Vias
    BY <1>1 DEF GuestCall
  <2> HIDE DEF w
  <2>5. Len(w) >= Arity[va] /\ Len(w) - Arity[va] = 1
    BY <2>2, <2>3
  <2>6. Apart(t)' /\ Alone(t) /\ Calls!Ask(t, [address |-> va, args |-> args])
    BY <2>1, <2>3, <2>4, <2>5, Asking
  <2> QED
    BY <2>1, <2>6, IsCall, IsNext
<1>2. ASSUME NEW va \in Addresses, NEW args \in Passed[va], HostCall(t, va, args)
      PROVE  Apart(t)' /\ Alone(t) /\ Calls!Next
  <2> DEFINE w == <<RETURN>> \o args
  <2>1. Runs /\ calling[t] = NULL /\ back[t] = NULL
    BY <1>2, Zenon DEF HostCall, InCode, Runs
  <2>2. args \in Seq(Words) /\ Len(args) = Arity[va] /\ Arity[va] \in Nat
    BY Constants
  <2>3. /\ w \in Seq(Words \cup {RETURN}) /\ Len(w) = Arity[va] + 1
        /\ \A i \in 1..Arity[va] : w[1 + i] = args[i]
    BY <2>2
  <2>4. Push(t, w) /\ Ask(t, va, args, "host") /\ frames' = frames /\ "host" \in Vias
    BY <1>2 DEF HostCall
  <2> HIDE DEF w
  <2>5. Len(w) >= Arity[va] /\ Len(w) - Arity[va] = 1
    BY <2>2, <2>3
  <2>6. Apart(t)' /\ Alone(t) /\ Calls!Ask(t, [address |-> va, args |-> args])
    BY <2>1, <2>3, <2>4, <2>5, Asking
  <2> QED
    BY <2>1, <2>6, IsCall, IsNext
<1>3. ASSUME NEW va \in Addresses, NEW args \in Passed[va], ImportCall(t, va, args)
      PROVE  Apart(t)' /\ Alone(t) /\ Calls!Next
  <2>1. Runs /\ calling[t] = NULL /\ back[t] = NULL
    BY <1>3, Zenon DEF ImportCall, InCode, Runs
  <2>2. args \in Seq(Words) /\ Len(args) = Arity[va] /\ Arity[va] \in Nat
    BY Constants
  <2>3. /\ args \in Seq(Words \cup {RETURN}) /\ Len(args) >= Arity[va]
        /\ \A i \in 1..Arity[va] : (Len(args) - Arity[va]) + i = i
    BY <2>2
  <2>4. Push(t, args) /\ Ask(t, va, args, "import") /\ frames' = frames /\ "import" \in Vias
    BY <1>3 DEF ImportCall
  <2>5. Apart(t)' /\ Alone(t) /\ Calls!Ask(t, [address |-> va, args |-> args])
    BY <2>1, <2>3, <2>4, Asking
  <2> QED
    BY <2>1, <2>5, IsCall, IsNext
<1>4. ASSUME NEW va \in Addresses, NEW args \in Passed[va], TailJump(t, va, args)
      PROVE  Apart(t)' /\ Alone(t) /\ Calls!Next
  <2>1. Runs
    BY <1>4, Zenon DEF TailJump, InCode, Runs
  <2> QED
    BY <1>4, <2>1, AskingLast, IsCall, IsNext
<1>5. CASE Runaway(t) \/ Abort(t)
  <2>1. Runs
    BY <1>5, Zenon DEF Runaway, Abort, Dispatching, Runs
  <2>2. Apart(t)' /\ Alone(t) /\ Calls!Next
    BY <1>5, <2>1, StoppingCalls, IsNext
  <2> QED
    BY <2>2, OthersApart
<1>6. ASSUME RouteToken(t) \/ RouteOverride(t) \/ RoutePlt(t) \/ RouteLifted(t)
      PROVE  Apart(t)' /\ Alone(t) /\ Calls!Next
  <2>1. Deepen(t) /\ Runs /\ (Enter(t, "host", esp[t] + 1) \/ Enter(t, "lifted", esp[t]))
    BY <1>6, Zenon DEF RouteToken, RouteOverride, RoutePlt, RouteLifted, Deepen, Dispatching, Runs
  <2>2. esp[t] + 0 = esp[t]
    <3>1. esp[t] \in 1..StackSize + 1
      BY DEF CallInv, DispatchInv, TypeOK
    <3> QED
      BY <3>1
  <2>3. Apart(t)' /\ Alone(t) /\ Calls!Start(t)
    BY <2>1, <2>2, RoutedStarts
  <2> QED
    BY <2>1, <2>3, IsNext
<1>7. ASSUME EnterImport(t) PROVE Apart(t)' /\ Alone(t) /\ Calls!Next
  <2>1. Runs
    BY <1>7, Zenon DEF EnterImport, Runs
  <2> QED
    BY <1>7, <2>1, ImportStarts, IsNext
<1>8. ASSUME GuestReturn(t) \/ HandlerReturn(t) PROVE Apart(t)' /\ Alone(t) /\ Calls!Next
  <2>1. Runs
    BY <1>8, Zenon DEF GuestReturn, HandlerReturn, InCode, Runs
  <2> QED
    BY <1>8, <2>1, ReturnEnds, IsNext
<1>9. CASE ResumeGuest(t) \/ ResumeHost(t)
  <2>1. halt' = halt
    BY <1>9 DEF ResumeGuest, ResumeHost
  <2> QED
    BY <1>9, <2>1, GoingOn, OthersApart
<1>10. CASE ResumeTail(t)
  BY <1>10, TailEnds, OthersApart
<1>11. ASSUME Apart(t)' /\ Alone(t) /\ Calls!Next
       PROVE  (\A u \in Threads : Apart(u)') /\ Calls!Next
  BY <1>11, OthersApart
<1>12. CASE \E va \in Addresses : \E args \in Passed[va] :
               \/ GuestCall(t, va, args) \/ ImportCall(t, va, args)
               \/ TailJump(t, va, args) \/ HostCall(t, va, args)
  <2>0. PICK va \in Addresses : \E args \in Passed[va] :
          \/ GuestCall(t, va, args) \/ ImportCall(t, va, args)
          \/ TailJump(t, va, args) \/ HostCall(t, va, args)
    BY <1>12
  <2>1. PICK args \in Passed[va] :
          \/ GuestCall(t, va, args) \/ ImportCall(t, va, args)
          \/ TailJump(t, va, args) \/ HostCall(t, va, args)
    BY <2>0
  <2>2. CASE GuestCall(t, va, args)
    <3>1. Apart(t)' /\ Alone(t) /\ Calls!Next
      BY <1>1, <2>2
    <3> QED
      BY <1>11, <3>1
  <2>3. CASE HostCall(t, va, args)
    <3>1. Apart(t)' /\ Alone(t) /\ Calls!Next
      BY <1>2, <2>3
    <3> QED
      BY <1>11, <3>1
  <2> QED
    BY <1>3, <1>4, <1>11, <2>1, <2>2, <2>3
<1> QED
  BY <1>5, <1>6, <1>7, <1>8, <1>9, <1>10, <1>11, <1>12, Zenon DEF Step

LEMMA CallsStart == Init => CallInv /\ Calls!Init
<1> SUFFICES ASSUME Init PROVE CallInv /\ Calls!Init
  OBVIOUS
<1>1. \A t \in Threads : frames[t] = <<>> /\ calling[t] = NULL /\ back[t] = NULL
  BY DEF Init
<1>2. ASSUME NEW t \in Threads PROVE Apart(t)
  <2>1. Len(frames[t]) = 0 /\ calling[t] = NULL
    BY <1>1
  <2> QED
    BY <2>1 DEF Apart
<1>3. Running = [t \in Threads |-> <<>>]
  <2>1. ASSUME NEW t \in Threads PROVE [i \in Entered(t) |-> Body(t, i)] = <<>>
    <3>1. Entered(t) = {}
      BY <1>1 DEF Entered
    <3> QED
      BY <3>1
  <2> QED
    BY <2>1, Zenon DEF Running
<1>4. Asked = [t \in Threads |-> NULL]
  BY <1>1 DEF Asked
<1>5. (halt # "") = FALSE
  BY Zenon DEF Init
<1> QED
  BY <1>2, <1>3, <1>4, <1>5, InvStarts DEF CallInv, Calls!Init

\* Whatever the route, the body that starts sees the arguments its caller
\* passed, calls nest, and a tail call takes its caller's place (dispatch.c:124-194).
THEOREM CallsAreCalls == Spec => ImplementsCallStack
<1>1. CallInv /\ [Next]_vars => CallInv' /\ [Calls!Next]_(Calls!vars)
  <2> SUFFICES ASSUME CallInv, [Next]_vars PROVE CallInv' /\ [Calls!Next]_(Calls!vars)
    OBVIOUS
  <2>1. CASE Next
    <3>1. PICK t \in Threads : Step(t)
      BY <2>1 DEF Next
    <3>2. DispatchInv'
      BY <3>1, StepKeeps DEF CallInv
    <3>3. /\ \A u \in Threads : Apart(u)'
          /\ Calls!Next \/ UNCHANGED <<Asked, Running, halt # "">>
      BY <3>1, StepSimulates
    <3> QED
      BY <3>2, <3>3 DEF CallInv, Calls!vars
  <2>2. CASE UNCHANGED vars
    <3>1. UNCHANGED <<esp, mem, frames, depth, calling, back, halt>>
      BY <2>2 DEF vars
    <3>2. \A t \in Threads : Apart(t)' <=> Apart(t)
      BY <3>1 DEF Apart, LeftOk, Tailing, Beneath, Put, Past, Rest
    <3>3. DispatchInv'
      <4>1. TypeOK'
        BY <3>1 DEF CallInv, DispatchInv, TypeOK
      <4>2. ASSUME NEW t \in Threads PROVE Balanced(t)' /\ Counts(t)'
        <5>1. Balanced(t) /\ Counts(t)
          BY DEF CallInv, DispatchInv
        <5>2. Balanced(t)'
          BY <3>1, <5>1 DEF Balanced, FrameOk, CallOk, BackOk, Under, Base, LiftedUnder
        <5>3. Counts(t)'
          BY <3>1, <5>1, Zenon DEF Counts, Dispatched
        <5> QED
          BY <5>2, <5>3
      <4> QED
        BY <4>1, <4>2 DEF DispatchInv
    <3>4. Running' = Running /\ Asked' = Asked
      BY <3>1 DEF Running, Asked, Entered, Body, ArgsOf
    <3> QED
      BY <3>1, <3>2, <3>3, <3>4 DEF CallInv, Calls!vars
  <2> QED
    BY <2>1, <2>2
<1> QED
  BY <1>1, CallsStart, PTL DEF Spec, ImplementsCallStack, Calls!Spec

----------------------------------------------------------------------------
(* Arithmetic of units.                                                    *)

LEMMA Divided ==
  ASSUME NEW u \in Nat \ {0}, NEW a \in Nat
  PROVE  a = u * (a \div u) + (a % u) /\ a % u \in 0..u - 1 /\ a \div u \in Nat
<1>1. a = u * (a \div u) + (a % u) /\ a % u \in 0..u - 1 /\ a \div u \in Int
  OBVIOUS
<1>2. a \div u >= 0
  <2> SUFFICES ASSUME a \div u <= -1 PROVE FALSE
    BY <1>1
  <2>1. u * (a \div u) <= u * (-1)
    BY <1>1
  <2> QED BY <1>1, <2>1
<1> QED BY <1>1, <1>2

LEMMA Fewer ==
  ASSUME NEW u \in Nat \ {0}, NEW j \in Int, NEW k \in Int, u * j < u * k + u
  PROVE  j <= k
<1> SUFFICES ASSUME j >= k + 1 PROVE FALSE
  OBVIOUS
<1>1. u * j >= u * (k + 1)
  OBVIOUS
<1>2. u * (k + 1) = u * k + u
  OBVIOUS
<1> QED BY <1>1, <1>2

LEMMA DivUnique ==
  ASSUME NEW u \in Nat \ {0}, NEW q \in Nat, NEW r \in 0..u - 1
  PROVE  (u * q + r) \div u = q /\ (u * q + r) % u = r
<1> DEFINE a == u * q + r
<1>1. a \in Nat
  <2>1. u * q \in Nat
    OBVIOUS
  <2> QED BY <2>1
<1>2. a = u * (a \div u) + (a % u) /\ a % u \in 0..u - 1 /\ a \div u \in Nat
  <2> HIDE DEF a
  <2> QED BY <1>1, Divided
<1>3. a \div u <= q
  <2>1. u * (a \div u) < u * q + u
    BY <1>2
  <2> QED BY <1>2, <2>1, Fewer
<1>4. q <= a \div u
  <2>1. u * q < u * (a \div u) + u
    BY <1>2
  <2> QED BY <1>2, <2>1, Fewer
<1>5. a \div u = q
  BY <1>2, <1>3, <1>4
<1> QED BY <1>2, <1>5

LEMMA DivMono ==
  ASSUME NEW u \in Nat \ {0}, NEW a \in Nat, NEW b \in Nat, a <= b
  PROVE  a \div u <= b \div u
<1>1. /\ a = u * (a \div u) + (a % u) /\ a % u \in 0..u - 1 /\ a \div u \in Nat
      /\ b = u * (b \div u) + (b % u) /\ b % u \in 0..u - 1 /\ b \div u \in Nat
  BY Divided
<1>2. u * (a \div u) < u * (b \div u) + u
  BY <1>1
<1> QED BY <1>1, <1>2, Fewer

LEMMA Below ==
  ASSUME NEW n \in Nat \ {0}, NEW a \in Nat, a < n
  PROVE  a % n = a
<1>1. (n * 0 + a) % n = a
  BY DivUnique
<1> QED BY <1>1

\* A whole number of units.
Whole(x, u) == \E k \in Nat : x = u * k

LEMMA WholeIs ==
  ASSUME NEW u \in Nat \ {0}, NEW x \in Nat, x % u = 0
  PROVE  Whole(x, u)
<1>1. x = u * (x \div u) + (x % u) /\ x \div u \in Nat
  BY Divided
<1>2. x = u * (x \div u)
  BY <1>1
<1> QED BY <1>1, <1>2 DEF Whole

LEMMA DownIs ==
  ASSUME NEW u \in Nat \ {0}, NEW a \in Nat
  PROVE  /\ Down(a, u) \in 0..a /\ a < Down(a, u) + u
         /\ Whole(Down(a, u), u)
<1>1. a = u * (a \div u) + (a % u) /\ a % u \in 0..u - 1 /\ a \div u \in Nat
  BY Divided
<1>2. u * (a \div u) >= 0
  BY <1>1
<1>3. Down(a, u) = u * (a \div u)
  BY <1>1 DEF Down
<1> QED BY <1>1, <1>2, <1>3 DEF Whole

LEMMA DownOfWhole ==
  ASSUME NEW u \in Nat \ {0}, NEW x \in Nat, Whole(x, u)
  PROVE  Down(x, u) = x
<1>1. PICK k \in Nat : x = u * k
  BY DEF Whole
<1>2. x % u = 0
  <2>1. (u * k + 0) % u = 0
    BY DivUnique
  <2> QED BY <1>1, <2>1
<1> QED BY <1>2 DEF Down

\* A whole number of units less than another is less by a unit.
LEMMA WholeApart ==
  ASSUME NEW u \in Nat \ {0}, NEW x \in Nat, NEW y \in Nat, Whole(x, u), Whole(y, u), x < y + u
  PROVE  x <= y
<1>1. PICK j \in Nat : x = u * j
  BY DEF Whole
<1>2. PICK k \in Nat : y = u * k
  BY DEF Whole
<1>3. j <= k
  BY <1>1, <1>2, Fewer
<1>4. u * j <= u * k
  BY <1>3
<1> QED BY <1>1, <1>2, <1>4

LEMMA WholeWhole ==
  ASSUME NEW u \in Nat \ {0}, NEW v \in Nat \ {0}, Whole(v, u), NEW x, Whole(x, v)
  PROVE  Whole(x, u)
<1>1. PICK j \in Nat : v = u * j
  BY DEF Whole
<1>2. PICK k \in Nat : x = v * k
  BY DEF Whole
<1>3. x = u * (j * k) /\ j * k \in Nat
  BY <1>1, <1>2
<1> QED BY <1>3 DEF Whole

LEMMA WholeSum ==
  ASSUME NEW u \in Nat \ {0}, NEW x \in Nat, NEW y \in Nat, Whole(x, u), Whole(y, u)
  PROVE  Whole(x + y, u) /\ (x >= y => Whole(x - y, u))
<1>1. PICK j \in Nat : x = u * j
  BY DEF Whole
<1>2. PICK k \in Nat : y = u * k
  BY DEF Whole
<1>3. x + y = u * (j + k) /\ j + k \in Nat
  BY <1>1, <1>2
<1>4. ASSUME x >= y PROVE x - y = u * (j - k) /\ j - k \in Nat
  <2>1. u * k < u * j + u
    BY <1>1, <1>2, <1>4
  <2>2. k <= j
    BY <2>1, Fewer
  <2> QED BY <1>1, <1>2, <2>2
<1> QED BY <1>3, <1>4 DEF Whole

----------------------------------------------------------------------------
(* Addresses of the guest.                                                 *)

LEMMA Layout ==
  /\ PAGE \in Nat \ {0} /\ GRAN \in Nat \ {0} /\ Top \in Nat \ {0}
  /\ STACK_TOP \in Nat /\ STACK_SZ \in Nat \ {0} /\ STACK_SZ <= STACK_TOP /\ STACK_TOP < Top
  /\ Whole(GRAN, PAGE) /\ Whole(Top, GRAN) /\ Whole(Top, PAGE)
  /\ StackLo = STACK_TOP - STACK_SZ /\ StackLo \in Nat /\ Whole(StackLo, PAGE)
<1>1. /\ PAGE \in Nat \ {0} /\ GRAN \in Nat \ {0} /\ Top \in Nat \ {0}
      /\ STACK_TOP \in Nat /\ STACK_SZ \in Nat \ {0} /\ STACK_SZ <= STACK_TOP /\ STACK_TOP < Top
      /\ GRAN % PAGE = 0 /\ Top % GRAN = 0 /\ STACK_TOP % GRAN = 0 /\ STACK_SZ % GRAN = 0
  BY MemoryAssumption DEF MemoryAssumption
<1>2. Whole(GRAN, PAGE) /\ Whole(Top, GRAN) /\ Whole(STACK_TOP, GRAN) /\ Whole(STACK_SZ, GRAN)
  BY <1>1, WholeIs
<1>3. Whole(Top, PAGE)
  BY <1>1, <1>2, WholeWhole
<1>4. STACK_TOP - STACK_SZ \in Nat /\ Whole(STACK_TOP - STACK_SZ, GRAN)
  BY <1>1, <1>2, WholeSum
<1>5. StackLo = STACK_TOP - STACK_SZ
  BY <1>1, <1>4, DownOfWhole DEF StackLo
<1>6. Whole(StackLo, PAGE)
  BY <1>1, <1>2, <1>4, <1>5, WholeWhole
<1> QED BY <1>1, <1>2, <1>3, <1>4, <1>5, <1>6

\* Rounding up, where it does not go around.
LEMMA UpIs ==
  ASSUME NEW u \in Nat \ {0}, NEW a \in Nat, a + u - 1 < Top
  PROVE  Up(a, u) \in a..a + u - 1 /\ Whole(Up(a, u), u)
<1> DEFINE b == a + u - 1
<1>1. b \in Nat /\ b < Top
  OBVIOUS
<1>2. Up(a, u) = Down(b, u)
  <2> HIDE DEF b
  <2>1. b % Top = b
    BY <1>1, Below, Layout
  <2>2. Up(a, u) = Down(b % Top, u)
    BY DEF Up, b
  <2> QED BY <2>1, <2>2
<1>3. Down(b, u) \in 0..b /\ b < Down(b, u) + u /\ Whole(Down(b, u), u)
  <2> HIDE DEF b
  <2> QED BY <1>1, DownIs
<1> QED BY <1>2, <1>3

LEMMA UpOfWhole ==
  ASSUME NEW u \in Nat \ {0}, NEW a \in Nat, a + u - 1 < Top, Whole(a, u)
  PROVE  Up(a, u) = a
<1>1. Up(a, u) \in a..a + u - 1 /\ Whole(Up(a, u), u) /\ Up(a, u) \in Nat
  BY UpIs
<1>2. Up(a, u) <= a
  BY <1>1, WholeApart
<1> QED BY <1>1, <1>2

\* Rounding up stays at or below the whole numbers of units above.
LEMMA UpBelow ==
  ASSUME NEW u \in Nat \ {0}, NEW a \in Nat, a + u - 1 < Top, NEW y \in Nat, Whole(y, u), a <= y
  PROVE  Up(a, u) <= y
<1>1. Up(a, u) \in a..a + u - 1 /\ Whole(Up(a, u), u) /\ Up(a, u) \in Nat
  BY UpIs
<1> QED BY <1>1, WholeApart

\* An address below the top that is whole pages has its page below the top.
LEMMA RoomForPage ==
  ASSUME NEW x \in Nat, NEW y \in Nat, Whole(y, PAGE), x <= y, y < Top
  PROVE  x + PAGE - 1 < Top
<1>1. y + PAGE <= Top
  <2>1. PICK j \in Nat : y = PAGE * j
    BY DEF Whole
  <2>2. PICK k \in Nat : Top = PAGE * k
    BY Layout DEF Whole
  <2>3. j < k
    <3> SUFFICES ASSUME k <= j PROVE FALSE
      OBVIOUS
    <3>1. PAGE * k <= PAGE * j
      BY Layout
    <3> QED BY <2>1, <2>2, <3>1
  <2>4. PAGE * (j + 1) <= PAGE * k
    BY <2>3, Layout
  <2> QED BY <2>1, <2>2, <2>4, Layout
<1> QED BY <1>1, Layout

----------------------------------------------------------------------------
(* The host's grants.                                                      *)

\* Every byte from one address up to another is in a committed page.
Mapped(from, to) == \A a \in from..to - 1 : a \div PAGE \in committed

LEMMA PartMapped ==
  ASSUME NEW from \in Int, NEW to \in Int, NEW lo \in Int, NEW hi \in Int,
         lo <= from, to <= hi, Mapped(lo, hi)
  PROVE  Mapped(from, to)
BY DEF Mapped

LEMMA MappedIsTouchable ==
  ASSUME NEW from, NEW to
  PROVE  Mapped(from, to) <=> Touchable(Between(from, to))
BY DEF Mapped, Touchable, Between

LEMMA StartIs ==
  ASSUME NEW a \in Nat
  PROVE  Start(a) \in 0..a
<1>1. Down(a, GRAN) \in 0..a
  BY DownIs, Layout
<1> QED BY <1>1 DEF Start

LEMMA PagesCover ==
  ASSUME NEW a \in Nat, NEW size \in Nat \ {0}, NEW b \in a..a + size - 1
  PROVE  b \div PAGE \in PagesOf(a, size)
<1>1. Start(a) \in Nat /\ Start(a) <= b /\ b <= a + size - 1 /\ b \in Nat /\ a + size - 1 \in Nat
  BY StartIs
<1>2. Start(a) \div PAGE <= b \div PAGE /\ b \div PAGE <= (a + size - 1) \div PAGE
  BY <1>1, DivMono, Layout
<1>3. Start(a) \div PAGE \in Nat /\ b \div PAGE \in Nat /\ (a + size - 1) \div PAGE \in Nat
  <2>1. \A x \in Nat : x \div PAGE \in Nat
    BY Divided, Layout
  <2> QED BY <1>1, <2>1
<1> QED BY <1>2, <1>3 DEF PagesOf

LEMMA Within ==
  ASSUME NEW u \in Nat \ {0}, Whole(Top, u), NEW b \in Nat, b < Top
  PROVE  b \div u \in 0..Top \div u - 1
<1>1. PICK k \in Nat : Top = u * k
  BY DEF Whole
<1>2. Top \div u = k
  <2>1. (u * k + 0) \div u = k
    BY DivUnique
  <2> QED BY <1>1, <2>1, Layout
<1>3. b = u * (b \div u) + (b % u) /\ b % u \in 0..u - 1 /\ b \div u \in Nat
  BY Divided
<1>4. b \div u < k
  <2> SUFFICES ASSUME k <= b \div u PROVE FALSE
    BY <1>3
  <2>1. u * k <= u * (b \div u)
    BY <1>3
  <2> QED BY <1>1, <1>3, <2>1
<1> QED BY <1>2, <1>3, <1>4

LEMMA IntervalIn ==
  ASSUME NEW lo \in Nat, NEW m \in Int, NEW hi \in 0..m
  PROVE  lo..hi \subseteq 0..m
OBVIOUS

\* What a grant does.
LEMMA Reserved ==
  ASSUME NEW a \in Nat, NEW size \in Int, Reserve(a, size),
         taken \subseteq 0..Top \div GRAN - 1, committed \subseteq 0..Top \div PAGE - 1
  PROVE  /\ size \in Nat \ {0} /\ a + size <= Top
         /\ committed \subseteq committed'
         /\ taken' \subseteq 0..Top \div GRAN - 1 /\ committed' \subseteq 0..Top \div PAGE - 1
         /\ \A b \in a..a + size - 1 : b \div PAGE \in committed' /\ b \div PAGE \notin committed
<1>1. /\ size > 0 /\ a + size <= Top /\ PagesOf(a, size) \cap committed = {}
      /\ taken' = taken \cup UnitsOf(a, size) /\ committed' = committed \cup PagesOf(a, size)
  BY DEF Reserve, Available
<1>2. \A b \in a..a + size - 1 : b \div PAGE \in PagesOf(a, size)
  BY <1>1, PagesCover
<1>3. a + size - 1 \in Nat /\ a + size - 1 < Top /\ Start(a) \in Nat
  BY <1>1, Layout, StartIs
<1>4. /\ (a + size - 1) \div PAGE \in 0..Top \div PAGE - 1
      /\ (a + size - 1) \div GRAN \in 0..Top \div GRAN - 1
      /\ Start(a) \div PAGE \in Nat /\ Start(a) \div GRAN \in Nat
  BY <1>3, Within, Divided, Layout
<1>5. Top \div PAGE - 1 \in Int /\ Top \div GRAN - 1 \in Int
  <2>1. Top \div PAGE \in Nat /\ Top \div GRAN \in Nat
    BY Divided, Layout
  <2> QED BY <2>1
<1>6. PagesOf(a, size) \subseteq 0..Top \div PAGE - 1
  BY <1>4, <1>5, IntervalIn DEF PagesOf
<1>7. UnitsOf(a, size) \subseteq 0..Top \div GRAN - 1
  BY <1>4, <1>5, IntervalIn DEF UnitsOf
<1>8. taken' \subseteq 0..Top \div GRAN - 1 /\ committed' \subseteq 0..Top \div PAGE - 1
  BY <1>1, <1>6, <1>7, Zenon
<1>9. \A b \in a..a + size - 1 : b \div PAGE \in committed' /\ b \div PAGE \notin committed
  BY <1>1, <1>2, Zenon
<1>10. size \in Nat \ {0} /\ committed \subseteq committed'
  BY <1>1
<1> QED BY <1>1, <1>8, <1>9, <1>10

----------------------------------------------------------------------------
(* The span of the image.                                                  *)

LEMMA LeastExists ==
  ASSUME NEW T, T \subseteq Nat, T # {}
  PROVE  \E x \in T : \A y \in T : x <= y
<1> DEFINE R == {ss \in Nat \X Nat : ss[1] < ss[2]}
<1>1. IsWellFoundedOn(R, Nat)
  BY NatLessThanWellFounded DEF OpToRel
<1>2. \A x, y \in Nat : y < x => <<y, x>> \in R
  OBVIOUS
<1> HIDE DEF R
<1>3. PICK x \in T : \A y \in T : ~(<<y, x>> \in R)
  BY <1>1, WFMin
<1>4. \A y \in T : x <= y
  <2> SUFFICES ASSUME NEW y \in T PROVE x <= y
    OBVIOUS
  <2>1. x \in Nat /\ y \in Nat /\ ~(y < x)
    BY <1>2, <1>3
  <2> QED BY <2>1
<1> QED BY <1>4

LEMMA MinIs ==
  ASSUME NEW T, T \subseteq Nat, T # {}
  PROVE  Min(T) \in T /\ \A y \in T : Min(T) <= y
BY LeastExists DEF Min

LEMMA MaxIs ==
  ASSUME NEW m \in Nat, NEW T, T \subseteq 0..m, T # {}
  PROVE  Max(T) \in T /\ \A y \in T : y <= Max(T)
<1> DEFINE Gaps == {m - y : y \in T}
<1>0. \A y \in T : y \in Nat /\ m - y \in Nat
  OBVIOUS
<1>1. Gaps \subseteq Nat /\ Gaps # {}
  BY <1>0
<1>2. PICK x \in Gaps : \A y \in Gaps : x <= y
  <2> HIDE DEF Gaps
  <2> QED BY <1>1, LeastExists
<1>3. PICK z \in T : x = m - z
  BY <1>2
<1>4. \A y \in T : z >= y
  <2> SUFFICES ASSUME NEW y \in T PROVE z >= y
    OBVIOUS
  <2>1. m - z <= m - y
    BY <1>2, <1>3
  <2> QED BY <1>0, <2>1
<1>5. Max(T) \in T /\ \A y \in T : Max(T) >= y
  BY <1>4 DEF Max
<1> QED BY <1>5

LEMMA Span ==
  ASSUME segments \in Images, segments # {}
  PROVE  /\ SpanLo \in Nat /\ SpanHi \in Nat /\ SpanHi < Top /\ Whole(SpanHi, PAGE)
         /\ \A s \in segments : /\ SpanLo <= s.vaddr /\ s.vaddr + s.memsz <= SpanHi
                                /\ s.vaddr \in Nat /\ s.memsz \in Nat \ {0}
<1>1. \A s \in segments : /\ s.vaddr \in Nat /\ s.memsz \in Nat \ {0}
                          /\ s.vaddr + s.memsz + GRAN <= Top
  BY MemoryAssumption DEF MemoryAssumption
<1> DEFINE Starts == {Down(s.vaddr, PAGE) : s \in segments}
           Ends == {s.vaddr + s.memsz : s \in segments}
<1>2. \A s \in segments : Down(s.vaddr, PAGE) \in 0..s.vaddr
  BY <1>1, DownIs, Layout
<1>3. Starts \subseteq Nat /\ Starts # {}
  BY <1>1, <1>2
<1>4. Min(Starts) \in Nat /\ \A s \in segments : Min(Starts) <= s.vaddr
  <2>1. Min(Starts) \in Starts /\ \A y \in Starts : Min(Starts) <= y
    <3> HIDE DEF Starts
    <3> QED BY <1>3, MinIs
  <2>2. Min(Starts) \in Nat /\ \A s \in segments : Min(Starts) <= Down(s.vaddr, PAGE)
    BY <1>3, <2>1
  <2> HIDE DEF Starts
  <2> QED BY <1>1, <1>2, <2>2
<1>5. SpanLo \in Nat /\ \A s \in segments : SpanLo <= s.vaddr
  <2>1. SpanLo = Down(Min(Starts), GRAN)
    BY DEF SpanLo
  <2> HIDE DEF Starts
  <2>2. SpanLo \in 0..Min(Starts)
    BY <1>4, <2>1, DownIs, Layout
  <2> QED BY <1>1, <1>4, <2>2
<1>6. Top - GRAN \in Nat /\ Ends \subseteq 0..Top - GRAN /\ Ends # {}
  <2>1. \A s \in segments : s.vaddr + s.memsz \in 0..Top - GRAN
    BY <1>1, Layout
  <2> QED BY <2>1, Layout
<1>7. Max(Ends) \in 0..Top - GRAN /\ \A s \in segments : s.vaddr + s.memsz <= Max(Ends)
  <2>1. Max(Ends) \in Ends /\ \A y \in Ends : y <= Max(Ends)
    <3> HIDE DEF Ends
    <3> QED BY <1>6, MaxIs
  <2> QED BY <1>6, <2>1
<1>8. SpanHi \in Nat /\ SpanHi < Top /\ Whole(SpanHi, PAGE) /\ Max(Ends) <= SpanHi
  <2>1. SpanHi = Up(Max(Ends), GRAN)
    BY DEF SpanHi
  <2> HIDE DEF Ends
  <2>2. SpanHi \in Max(Ends)..Max(Ends) + GRAN - 1 /\ Whole(SpanHi, GRAN)
    BY <1>7, <2>1, UpIs, Layout
  <2> QED BY <1>7, <2>2, WholeWhole, Layout
<1>9. \A s \in segments : s.vaddr + s.memsz <= SpanHi
  <2> HIDE DEF Ends
  <2> QED BY <1>1, <1>7, <1>8
<1> QED BY <1>1, <1>5, <1>8, <1>9

----------------------------------------------------------------------------
(* The invariant.                                                          *)

\* The image ends up below the stack, as every game is linked, and no request
\* is so large that rounding it, or adding it to the break, goes around.
BelowStack == \A image \in Images : \A s \in image : s.vaddr < STACK_TOP
Modest == \A n \in Sizes : StackLo + n + PAGE <= Top

\* Everything from the image to the break is there, to the end of the page;
\* the stack is there, above the break.
HeapThere ==
  pc \in {"stack", "running"} =>
    /\ segments # {} /\ SpanHi <= brk
    /\ Mapped(SpanLo, Up(brk, PAGE))
    /\ pc = "stack" => brk = SpanHi
StackThere ==
  pc = "running" => brk <= StackLo /\ Mapped(StackLo, STACK_TOP)

\* What the guest was given lies between the image and the break, and so does
\* what its C library remembers.
Unasked == pc # "running" => grants = {} /\ curbrk = NONE
Remembered == curbrk # NONE => curbrk \in SpanHi..brk
GrantsBelow == \A g \in grants : g.bytes \subseteq SpanHi..brk - 1
MapsDisjoint ==
  \A g, h \in grants : g.kind = "map" /\ h.kind = "map" /\ g # h => g.bytes \cap h.bytes = {}

MemInv ==
  MemoryTypeOK /\ HeapThere /\ StackThere /\ Unasked /\ Remembered /\ GrantsBelow /\ MapsDisjoint

LEMMA MemoryStarts == MemoryInit => MemInv
<1> SUFFICES ASSUME MemoryInit PROVE MemInv
  OBVIOUS
<1>1. /\ pc = "image" /\ taken = Occupied /\ committed = {} /\ brk = 0 /\ curbrk = NONE
      /\ grants = {} /\ asked = 0 /\ result = NONE /\ host \in Hosts /\ segments \in Images
  BY DEF MemoryInit
<1>2. Occupied \subseteq 0..Top \div GRAN - 1
  BY MemoryAssumption DEF MemoryAssumption
<1>3. 0 \in Space /\ 0 \in 0..MaxGrants
  BY Layout, MemoryAssumption DEF MemoryAssumption, Space
<1>4. MemoryTypeOK
  BY <1>1, <1>2, <1>3 DEF MemoryTypeOK
<1> QED
  BY <1>1, <1>4 DEF MemInv, HeapThere, StackThere, Unasked, Remembered, GrantsBelow, MapsDisjoint

\* A byte of the pages up to the break is below the top of memory.
LEMMA BreakFits ==
  ASSUME MemInv, pc \in {"stack", "running"}
  PROVE  /\ brk \in Nat /\ brk + PAGE - 1 < Top
         /\ Up(brk, PAGE) \in brk..brk + PAGE - 1 /\ Whole(Up(brk, PAGE), PAGE)
         /\ SpanHi \in 0..brk /\ SpanLo \in Nat
<1>1. brk \in Nat /\ SpanHi \in 0..brk /\ SpanLo \in Nat
  BY Span DEF MemInv, HeapThere, MemoryTypeOK, Space
<1>2. brk + PAGE - 1 < Top
  <2>1. CASE pc = "stack"
    <3>1. brk = SpanHi /\ Whole(SpanHi, PAGE) /\ SpanHi \in Nat /\ SpanHi < Top
      BY <2>1, Span DEF MemInv, HeapThere, MemoryTypeOK
    <3> QED BY <1>1, <3>1, RoomForPage
  <2>2. CASE pc = "running"
    <3>1. brk <= StackLo
      BY <2>2 DEF MemInv, StackThere
    <3>2. StackLo \in Nat /\ Whole(StackLo, PAGE) /\ StackLo < Top
      BY Layout
    <3> QED BY <1>1, <3>1, <3>2, RoomForPage
  <2> QED BY <2>1, <2>2
<1> QED BY <1>1, <1>2, UpIs, Layout

\* The span and what is mapped, when the segments stay.
LEMMA SpanStays ==
  ASSUME segments' = segments
  PROVE  SpanLo' = SpanLo /\ SpanHi' = SpanHi
BY DEF SpanLo, SpanHi

LEMMA LoaderKeeps ==
  ASSUME BelowStack, MemInv, Loader
  PROVE  MemInv'
<1>0. /\ host \in Hosts /\ segments \in Images /\ asked \in 0..MaxGrants
      /\ taken \subseteq 0..Top \div GRAN - 1 /\ committed \subseteq 0..Top \div PAGE - 1
      /\ brk \in Space
  BY DEF MemInv, MemoryTypeOK
<1>1. /\ segments' = segments /\ host' = host /\ UNCHANGED <<curbrk, grants, asked, result>>
      /\ SpanLo' = SpanLo /\ SpanHi' = SpanHi
  BY SpanStays DEF Loader, MapImage, NoSegments, ImageFails, MapStack, StackFails, guestVars
<1>2. grants = {} /\ curbrk = NONE
  BY DEF MemInv, Unasked, Loader, MapImage, NoSegments, ImageFails, MapStack, StackFails
<1>3. Unasked' /\ Remembered' /\ GrantsBelow' /\ MapsDisjoint'
  BY <1>1, <1>2 DEF Unasked, Remembered, GrantsBelow, MapsDisjoint
<1>4. ASSUME taken' \subseteq 0..Top \div GRAN - 1, committed' \subseteq 0..Top \div PAGE - 1,
             brk' \in Space, pc' \in {"stack", "running", "failed"}
      PROVE  MemoryTypeOK'
  BY <1>1, <1>2, <1>4 DEF MemInv, MemoryTypeOK
<1>5. CASE MapImage
  <2>1. /\ pc' = "stack" /\ brk' = SpanHi /\ segments # {}
        /\ Reserve(SpanLo, SpanHi - SpanLo)
    BY <1>5 DEF MapImage
  <2>2. SpanLo \in Nat /\ SpanHi \in Nat /\ SpanHi < Top /\ Whole(SpanHi, PAGE)
    BY <1>0, <2>1, Span
  <2>3. /\ SpanLo + (SpanHi - SpanLo) - 1 = SpanHi - 1
        /\ taken' \subseteq 0..Top \div GRAN - 1 /\ committed' \subseteq 0..Top \div PAGE - 1
        /\ \A b \in SpanLo..SpanLo + (SpanHi - SpanLo) - 1 : b \div PAGE \in committed'
    BY <1>0, <2>1, <2>2, Reserved
  <2>4. Up(SpanHi, PAGE) = SpanHi
    BY <2>2, RoomForPage, UpOfWhole, Layout
  <2>5. Mapped(SpanLo, Up(brk, PAGE))'
    BY <1>1, <2>1, <2>3, <2>4 DEF Mapped, Up, Down
  <2>6. HeapThere' /\ StackThere'
    BY <1>1, <2>1, <2>2, <2>5 DEF HeapThere, StackThere
  <2>7. MemoryTypeOK'
    <3>1. brk' \in Space /\ pc' \in {"stack", "running", "failed"}
      BY <2>1, <2>2, Layout DEF Space
    <3> QED BY <1>4, <2>3, <3>1
  <2> QED BY <1>3, <2>6, <2>7 DEF MemInv
<1>6. CASE MapStack
  <2>1. pc = "stack" /\ pc' = "running" /\ brk' = brk /\ Reserve(StackLo, STACK_SZ)
    BY <1>6 DEF MapStack
  <2>2. StackLo \in Nat /\ STACK_SZ \in Nat \ {0} /\ StackLo + STACK_SZ = STACK_TOP
    BY Layout
  <2>3. /\ committed \subseteq committed'
        /\ taken' \subseteq 0..Top \div GRAN - 1 /\ committed' \subseteq 0..Top \div PAGE - 1
        /\ \A b \in StackLo..STACK_TOP - 1 : b \div PAGE \in committed' /\ b \div PAGE \notin committed
    BY <1>0, <2>1, <2>2, Reserved
  <2>4. segments # {} /\ brk = SpanHi /\ Mapped(SpanLo, Up(brk, PAGE))
    BY <2>1 DEF MemInv, HeapThere
  <2>5. /\ brk \in Nat /\ Up(brk, PAGE) >= brk /\ Up(brk, PAGE) \in Nat /\ SpanLo \in Nat
    BY <2>1, BreakFits
  <2>6. brk <= StackLo
    <3> SUFFICES ASSUME StackLo < brk PROVE FALSE
      BY <2>2, <2>5
    <3>1. PICK s \in segments : TRUE
      BY <2>4
    <3>2. SpanLo < STACK_TOP /\ SpanLo < SpanHi
      <4>1. /\ SpanLo <= s.vaddr /\ s.vaddr + s.memsz <= SpanHi /\ s.vaddr < STACK_TOP
            /\ s.vaddr \in Nat /\ s.memsz \in Nat \ {0}
        BY <1>0, <2>4, <3>1, Span DEF BelowStack
      <4> QED BY <2>4, <2>5, <4>1, Layout
    <3> DEFINE b == IF SpanLo >= StackLo THEN SpanLo ELSE StackLo
    <3>3. b \in StackLo..STACK_TOP - 1 /\ b \in SpanLo..Up(brk, PAGE) - 1
      BY <2>2, <2>4, <2>5, <3>2
    <3> HIDE DEF b
    <3> QED BY <2>3, <2>4, <3>3 DEF Mapped
  <2>7. Mapped(SpanLo, Up(brk, PAGE))' /\ Mapped(StackLo, STACK_TOP)'
    <3>1. Up(brk, PAGE)' = Up(brk, PAGE) /\ StackLo' = StackLo
      BY <2>1 DEF Up, Down, StackLo
    <3> HIDE DEF Up, StackLo
    <3> QED BY <1>1, <2>3, <2>4, <3>1 DEF Mapped
  <2>8. HeapThere' /\ StackThere'
    <3>1. StackLo' = StackLo /\ SpanHi \in Int
      BY <2>4, <2>5 DEF StackLo, Down
    <3> HIDE DEF StackLo
    <3> QED BY <1>1, <2>1, <2>4, <2>5, <2>6, <2>7, <3>1 DEF HeapThere, StackThere
  <2>9. MemoryTypeOK'
    BY <1>0, <1>4, <2>1, <2>3
  <2> QED BY <1>3, <2>8, <2>9 DEF MemInv
<1>7. CASE NoSegments \/ ImageFails \/ StackFails
  <2>1. pc' = "failed" /\ UNCHANGED <<taken, committed, brk>>
    BY <1>7 DEF NoSegments, ImageFails, StackFails, Refused
  <2>2. MemoryTypeOK'
    BY <1>0, <1>4, <2>1
  <2>3. HeapThere' /\ StackThere'
    BY <2>1 DEF HeapThere, StackThere
  <2> QED BY <1>3, <2>2, <2>3 DEF MemInv
<1> QED BY <1>5, <1>6, <1>7 DEF Loader

\* guest_brk answers the break as it is then, which is as high as it was, and
\* below the stack; what is below it is there.
LEMMA Broken ==
  ASSUME MemInv, pc = "running", segments' = segments, NEW newbrk \in Nat,
         newbrk + PAGE - 1 < Top, NEW r, GuestBrk(newbrk, r)
  PROVE  /\ r = brk' /\ brk' \in Nat /\ brk <= brk' /\ brk' <= StackLo
         /\ brk' = brk \/ brk' = newbrk
         /\ committed \subseteq committed'
         /\ taken' \subseteq 0..Top \div GRAN - 1 /\ committed' \subseteq 0..Top \div PAGE - 1
         /\ Mapped(SpanLo, Up(brk, PAGE))'
<1>0. /\ taken \subseteq 0..Top \div GRAN - 1 /\ committed \subseteq 0..Top \div PAGE - 1
      /\ brk <= StackLo /\ Mapped(StackLo, STACK_TOP) /\ Mapped(SpanLo, Up(brk, PAGE))
  BY DEF MemInv, MemoryTypeOK, StackThere, HeapThere
<1>1. brk \in Nat /\ brk + PAGE - 1 < Top /\ SpanLo \in Nat /\ SpanLo' = SpanLo
  BY BreakFits, SpanStays
<1>2. GrowLo = Up(brk, PAGE) /\ GrowLo \in brk..StackLo
  <2>1. Up(brk, PAGE) \in brk..brk + PAGE - 1 /\ Up(brk, PAGE) <= StackLo
    BY <1>0, <1>1, UpIs, UpBelow, Layout
  <2> QED BY <2>1, <1>1, Layout DEF GrowLo
<1>3. CASE Grow(newbrk, r)
  <2>1. newbrk > brk /\ brk' = newbrk /\ r = newbrk
    BY <1>3 DEF Grow
  <2> DEFINE hi == Up(newbrk, PAGE)
  <2>2. hi \in newbrk..newbrk + PAGE - 1 /\ GrowSize(newbrk) = hi - GrowLo
    BY UpIs, Layout DEF GrowSize
  <2>3. hi \in Nat /\ GrowLo \in Nat /\ GrowSize(newbrk) \in Int
    BY <1>2, <2>2, <1>1, Layout
  <2>4. Up(brk, PAGE)' = hi
    BY <2>1 DEF Up, Down
  <2> HIDE DEF hi
  <2>5. CASE GrowSize(newbrk) > 0
    <3>1. Reserve(GrowLo, GrowSize(newbrk))
      BY <1>3, <2>5 DEF Grow
    <3>2. /\ committed \subseteq committed'
          /\ taken' \subseteq 0..Top \div GRAN - 1 /\ committed' \subseteq 0..Top \div PAGE - 1
          /\ \A b \in GrowLo..GrowLo + GrowSize(newbrk) - 1 :
               b \div PAGE \in committed' /\ b \div PAGE \notin committed
      BY <1>0, <2>3, <3>1, Reserved
    <3>3. GrowLo + GrowSize(newbrk) - 1 = hi - 1
      BY <2>2, <2>3
    <3>4. newbrk <= StackLo
      <4> SUFFICES ASSUME StackLo < newbrk PROVE FALSE
        BY Layout
      <4>1. StackLo \in GrowLo..hi - 1 /\ StackLo \in StackLo..STACK_TOP - 1
        BY <1>2, <2>2, <2>3, Layout
      <4> QED BY <1>0, <3>2, <3>3, <4>1 DEF Mapped
    <3>5. \A a \in SpanLo..hi - 1 : a \div PAGE \in committed'
      <4> SUFFICES ASSUME NEW a \in SpanLo..hi - 1
                   PROVE  a \div PAGE \in committed'
        OBVIOUS
      <4>1. a \in SpanLo..GrowLo - 1 \/ a \in GrowLo..hi - 1
        BY <1>1, <2>3
      <4> QED BY <1>0, <1>2, <3>2, <3>3, <4>1 DEF Mapped
    <3>6. Mapped(SpanLo, Up(brk, PAGE))'
      BY <1>1, <2>4, <3>5 DEF Mapped
    <3> QED BY <1>1, <2>1, <3>2, <3>4, <3>6
  <2>6. CASE ~(GrowSize(newbrk) > 0)
    <3>1. UNCHANGED <<taken, committed>>
      BY <1>3, <2>6 DEF Grow, Refused
    <3>2. hi <= GrowLo
      BY <2>2, <2>3, <2>6
    <3>3. newbrk <= StackLo
      BY <1>2, <2>2, <3>2, Layout
    <3>4. \A a \in SpanLo..hi - 1 : a \in SpanLo..GrowLo - 1
      BY <1>1, <2>3, <3>2
    <3>5. Mapped(SpanLo, Up(brk, PAGE))'
      BY <1>0, <1>1, <1>2, <2>4, <3>1, <3>4 DEF Mapped
    <3> QED BY <1>0, <1>1, <2>1, <3>1, <3>3, <3>5
  <2> QED BY <2>5, <2>6
<1>4. CASE GrowRefused(newbrk, r) \/ Query(newbrk, r)
  <2>1. r = brk /\ UNCHANGED <<brk, taken, committed>>
    BY <1>4 DEF GrowRefused, Query, Refused
  <2>2. Up(brk, PAGE)' = Up(brk, PAGE)
    BY <2>1 DEF Up, Down
  <2>3. Mapped(SpanLo, Up(brk, PAGE))'
    BY <1>0, <1>1, <2>1, <2>2 DEF Mapped
  <2> QED BY <1>0, <1>1, <2>1, <2>3
<1> QED BY <1>3, <1>4 DEF GuestBrk

\* What a call that goes through guest_brk keeps, if what it grants lies between
\* the image and the break.
LEMMA Given ==
  ASSUME MemInv, pc = "running", UNCHANGED <<host, segments, pc>>, asked' \in 0..MaxGrants,
         NEW newbrk \in Nat, newbrk + PAGE - 1 < Top, NEW r, GuestBrk(newbrk, r),
         curbrk' = curbrk \/ curbrk' = r,
         result' \in 0..brk' \cup {-ENOMEM, -ENOSYS},
         NEW kind \in {"heap", "map"}, NEW from \in SpanHi..brk, NEW to \in Int,
         grants' \subseteq grants \cup {Grant(kind, from, to)},
         grants' # grants => to <= brk' /\ (kind = "map" => from = brk)
  PROVE  MemInv'
<1>1. /\ r = brk' /\ brk' \in Nat /\ brk <= brk' /\ brk' <= StackLo
      /\ committed \subseteq committed'
      /\ taken' \subseteq 0..Top \div GRAN - 1 /\ committed' \subseteq 0..Top \div PAGE - 1
      /\ Mapped(SpanLo, Up(brk, PAGE))'
  BY Broken
<1>2. /\ SpanHi' = SpanHi /\ SpanHi \in Nat /\ brk \in Nat /\ SpanHi <= brk /\ segments # {}
      /\ StackLo' = StackLo /\ StackLo \in Nat /\ StackLo < Top
  BY SpanStays, BreakFits, Layout DEF MemInv, HeapThere, StackLo, Down
<1>3. HeapThere' /\ StackThere'
  <2>1. Mapped(StackLo, STACK_TOP)'
    <3>1. Mapped(StackLo, STACK_TOP)
      BY DEF MemInv, StackThere
    <3> HIDE DEF StackLo
    <3> QED BY <1>1, <1>2, <3>1 DEF Mapped
  <2>2. pc' = "running" /\ segments' # {}
    BY <1>2
  <2>3. SpanHi' <= brk' /\ brk' <= StackLo'
    BY <1>1, <1>2
  <2> QED BY <1>1, <2>1, <2>2, <2>3 DEF HeapThere, StackThere
<1>4. Unasked'
  BY DEF Unasked
<1>5. Remembered'
  BY <1>1, <1>2 DEF MemInv, Remembered
<1>6. \A g \in grants : g.bytes \subseteq SpanHi..brk - 1 /\ g.kind \in {"heap", "map"}
  BY DEF MemInv, GrantsBelow, MemoryTypeOK
<1> DEFINE new == Grant(kind, from, to)
<1>7. new.kind = kind /\ new.bytes = from..to - 1
  BY DEF Grant, Between
<1>p. PICK low, old, now : low = SpanHi /\ old = brk /\ now = brk'
  OBVIOUS
<1>o. low \in Nat /\ old \in Nat /\ now \in Nat /\ low <= old /\ old <= now /\ now < Top
  BY <1>1, <1>2, <1>p, Layout
<1>8. grants' # grants => new.bytes \subseteq low..now - 1
  <2> SUFFICES ASSUME grants' # grants
               PROVE  from..to - 1 \subseteq low..now - 1
    BY <1>7
  <2>1. from >= low /\ from \in Nat /\ to <= now
    BY <1>p, <1>o
  <2> QED BY <2>1, <1>o
<1> HIDE DEF new
<1>9. GrantsBelow' /\ \A g \in grants' : g.kind \in {"heap", "map"}
  <2>1. low..old - 1 \subseteq low..now - 1
    BY <1>o
  <2>2. \A g \in grants' : g \in grants \/ (g = new /\ grants' # grants)
    BY DEF new
  <2>3. \A g \in grants' : g.bytes \subseteq low..now - 1 /\ g.kind \in {"heap", "map"}
    BY <1>p, <1>6, <1>7, <1>8, <2>1, <2>2, Zenon
  <2> QED BY <1>2, <1>p, <2>3 DEF GrantsBelow
<1>10. MapsDisjoint'
  <2>1. \A g \in grants' : g \in grants \/ (g = new /\ grants' # grants)
    BY DEF new
  <2>2. ASSUME NEW g \in grants, grants' # grants, kind = "map"
        PROVE  g.bytes \cap new.bytes = {}
    <3>1. \A a \in g.bytes : a \in SpanHi..brk - 1
      BY <1>6
    <3>2. \A a \in new.bytes : a \in brk..to - 1
      BY <1>7, <2>2
    <3>3. \A a : ~(a \in SpanHi..brk - 1 /\ a \in brk..to - 1)
      BY <1>2
    <3> QED BY <3>1, <3>2, <3>3, Zenon
  <2>3. ASSUME NEW g \in grants', NEW h \in grants', g.kind = "map", h.kind = "map", g # h
        PROVE  g.bytes \cap h.bytes = {}
    <3>1. CASE g \in grants /\ h \in grants
      BY <2>3, <3>1 DEF MemInv, MapsDisjoint
    <3>2. CASE g \in grants /\ h = new /\ grants' # grants
      BY <1>7, <2>2, <2>3, <3>2
    <3>3. CASE h \in grants /\ g = new /\ grants' # grants
      BY <1>7, <2>2, <2>3, <3>3
    <3> QED BY <2>1, <2>3, <3>1, <3>2, <3>3
  <2> QED BY <2>3 DEF MapsDisjoint
<1>11. MemoryTypeOK'
  <2>1. brk' \in Space /\ brk' \in Nat
    BY <1>o, <1>p, Layout DEF Space
  <2>2. \A g \in grants' : g.bytes \subseteq Space
    <3>1. low..now - 1 \subseteq Space
      BY <1>o, Layout DEF Space
    <3> QED BY <1>2, <1>p, <1>9, <3>1 DEF GrantsBelow
  <2>3. curbrk' \in Space \cup {NONE}
    BY <1>1, <2>1 DEF MemInv, MemoryTypeOK
  <2>4. result' \in Space \cup {NONE, -ENOMEM, -ENOSYS}
    <3>1. 0..now \subseteq Space
      BY <1>o, Layout DEF Space
    <3> QED BY <1>p, <3>1
  <2>5. host' \in Hosts /\ segments' \in Images /\ pc' \in {"image", "stack", "running", "failed"}
    BY DEF MemInv, MemoryTypeOK
  <2> QED BY <1>1, <1>9, <2>1, <2>2, <2>3, <2>4, <2>5 DEF MemoryTypeOK
<1> QED BY <1>3, <1>4, <1>5, <1>9, <1>10, <1>11 DEF MemInv

LEMMA SystemCallKeeps ==
  ASSUME Modest, MemInv, SystemCall
  PROVE  MemInv'
<1>1. pc = "running" /\ UNCHANGED <<host, segments, pc>>
  BY DEF SystemCall, FirstBrk, Mmap2File, Asks, Sbrk, Mmap2, Munmap
<1>2. /\ brk \in Nat /\ SpanHi \in 0..brk /\ brk + PAGE - 1 < Top /\ brk <= StackLo
      /\ brk \in SpanHi..brk /\ PAGE - 1 < Top
  BY <1>1, BreakFits, Layout DEF MemInv, StackThere
<1>3. asked \in 0..MaxGrants /\ MaxGrants \in Nat
  BY MemoryAssumption DEF MemInv, MemoryTypeOK, MemoryAssumption
<1>4. ASSUME NEW newbrk \in Nat, newbrk + PAGE - 1 < Top, NEW r, GuestBrk(newbrk, r)
      PROVE  r = brk' /\ brk' \in Nat /\ brk <= brk' /\ brk' <= StackLo
  BY <1>1, <1>4, Broken
<1>5. CASE FirstBrk
  <2>1. GuestBrk(0, brk) /\ curbrk' = brk /\ result' = brk /\ grants' = grants /\ asked' = asked
    BY <1>5 DEF FirstBrk
  <2>2. 0 \in Nat /\ 0 + PAGE - 1 < Top
    BY <1>2, Layout
  <2>3. result' \in 0..brk'
    BY <1>2, <1>4, <2>1, <2>2
  <2> QED BY <1>1, <1>2, <1>3, <2>1, <2>2, <2>3, Given
<1>6. ASSUME Mmap2File \/ \E g \in grants : Munmap(g)
      PROVE  MemInv'
  <2>1. /\ UNCHANGED <<brk, taken, committed>> /\ result' \in {0, -ENOSYS}
        /\ grants' \subseteq grants /\ curbrk' = curbrk
        /\ asked' = asked \/ (asked' = asked + 1 /\ asked < MaxGrants)
    BY <1>6 DEF Mmap2File, Munmap, Refused, Asks
  <2>2. GuestBrk(0, brk)
    BY <1>2, <2>1 DEF GuestBrk, Query, Refused
  <2>3. 0 \in Nat /\ 0 + PAGE - 1 < Top /\ result' \in 0..brk' \cup {-ENOMEM, -ENOSYS}
    BY <1>2, <2>1, Layout
  <2>4. asked' \in 0..MaxGrants
    BY <1>3, <2>1
  <2>5. grants' # grants => brk - 1 <= brk' /\ ("heap" = "map" => brk = brk)
    BY <1>2, <2>1
  <2>6. grants' \subseteq grants \cup {Grant("heap", brk, brk - 1)} /\ brk - 1 \in Int
    BY <1>2, <2>1
  <2> QED BY <1>1, <1>2, <2>1, <2>2, <2>3, <2>4, <2>5, <2>6, Given
<1>7. ASSUME NEW n \in Sizes, Sbrk(n)
      PROVE  MemInv'
  <2>1. /\ n \in Nat \ {0} /\ curbrk \in SpanHi..brk /\ curbrk \in Nat
        /\ n + StackLo + PAGE <= Top
    BY <1>2, <1>7, MemoryAssumption, Layout DEF Sbrk, MemInv, Remembered, MemoryAssumption, Modest
  <2>2. (curbrk + n) % Top = curbrk + n /\ curbrk + n \in Nat /\ curbrk + n + PAGE - 1 < Top
    <3>1. curbrk + n \in Nat /\ curbrk + n + PAGE - 1 < Top /\ curbrk + n < Top
      BY <1>2, <2>1, Layout
    <3>2. ASSUME NEW m \in Nat, m < Top PROVE m % Top = m
      BY <3>2, Below, Layout
    <3> QED BY <3>1, <3>2
  <2>3. PICK r \in Space :
          /\ GuestBrk(curbrk + n, r) /\ curbrk' = r
          /\ IF r >= curbrk + n
             THEN grants' = grants \cup {Grant("heap", curbrk, curbrk + n)} /\ result' = curbrk
             ELSE grants' = grants /\ result' = -ENOMEM
    BY <1>7, <2>2 DEF Sbrk
  <2>4. r = brk' /\ brk' \in Nat /\ brk <= brk'
    BY <1>4, <2>2, <2>3
  <2>5. result' \in 0..brk' \cup {-ENOMEM, -ENOSYS}
    BY <1>2, <2>1, <2>3, <2>4
  <2>6. asked' \in 0..MaxGrants
    BY <1>3, <1>7 DEF Sbrk, Asks
  <2>7. /\ grants' \subseteq grants \cup {Grant("heap", curbrk, curbrk + n)}
        /\ grants' # grants => curbrk + n <= brk'
    BY <2>2, <2>3, <2>4
  <2> QED BY <1>1, <2>1, <2>2, <2>3, <2>5, <2>6, <2>7, Given
<1>8. ASSUME NEW n \in Sizes, Mmap2(n)
      PROVE  MemInv'
  <2> DEFINE want == Up(n, PAGE)
  <2>1. n \in Nat \ {0} /\ n + StackLo + PAGE <= Top
    BY MemoryAssumption, Layout DEF MemoryAssumption, Modest
  <2>2. want \in n..n + PAGE - 1 /\ Whole(want, PAGE)
    BY <2>1, UpIs, Layout
  <2>3. (brk + want) % Top = brk + want /\ brk + want \in Nat /\ brk + want + PAGE - 1 < Top
    <3> HIDE DEF want
    <3>1. want \in Nat /\ brk + want \in Nat /\ brk + want <= StackLo + want /\ StackLo + want < Top
      BY <1>2, <2>1, <2>2, Layout
    <3>2. Whole(StackLo + want, PAGE) /\ StackLo + want \in Nat
      BY <2>2, <3>1, WholeSum, Layout
    <3>3. brk + want + PAGE - 1 < Top /\ brk + want < Top
      BY <3>1, <3>2, RoomForPage, Layout
    <3>4. ASSUME NEW m \in Nat, m < Top PROVE m % Top = m
      BY <3>4, Below, Layout
    <3> QED BY <3>1, <3>3, <3>4
  <2>4. PICK r \in Space :
          /\ GuestBrk(brk + want, r)
          /\ IF r >= brk + want
             THEN grants' = grants \cup {Grant("map", brk, brk + n)} /\ result' = brk
             ELSE grants' = grants /\ result' = -ENOMEM
    BY <1>8, <2>3 DEF Mmap2
  <2> HIDE DEF want
  <2>5. r = brk' /\ brk' \in Nat /\ brk <= brk'
    BY <1>4, <2>3, <2>4
  <2>6. result' \in 0..brk' \cup {-ENOMEM, -ENOSYS}
    BY <1>2, <2>4, <2>5
  <2>7. asked' \in 0..MaxGrants /\ curbrk' = curbrk
    BY <1>3, <1>8 DEF Mmap2, Asks
  <2>8. /\ grants' \subseteq grants \cup {Grant("map", brk, brk + n)} /\ brk + n \in Int
        /\ grants' # grants => brk + n <= brk'
    BY <1>2, <2>1, <2>2, <2>4, <2>5
  <2> QED BY <1>1, <1>2, <2>3, <2>4, <2>6, <2>7, <2>8, Given
<1> QED BY <1>5, <1>6, <1>7, <1>8 DEF SystemCall

LEMMA MemoryStays == MemInv /\ UNCHANGED memoryVars => MemInv'
<1> SUFFICES ASSUME MemInv, UNCHANGED memoryVars PROVE MemInv'
  OBVIOUS
<1>1. UNCHANGED <<host, segments, pc, taken, committed, brk, curbrk, grants, asked, result>>
  BY DEF memoryVars, guestVars
<1>2. SpanLo' = SpanLo /\ SpanHi' = SpanHi /\ Up(brk, PAGE)' = Up(brk, PAGE) /\ StackLo' = StackLo
  BY <1>1, SpanStays DEF Up, Down, StackLo
<1>3. MemoryTypeOK' /\ Unasked' /\ MapsDisjoint'
  BY <1>1 DEF MemInv, MemoryTypeOK, Unasked, MapsDisjoint
<1> HIDE DEF Up, StackLo
<1>4. HeapThere' /\ StackThere' /\ Remembered' /\ GrantsBelow'
  BY <1>1, <1>2 DEF MemInv, HeapThere, StackThere, Remembered, GrantsBelow, Mapped
<1> QED BY <1>3, <1>4 DEF MemInv

\* The invariant holds in every reachable state of a game linked below the stack
\* that makes no request of nearly the size of memory.
THEOREM MemoryInvariance ==
  ASSUME BelowStack, Modest
  PROVE  MemorySpec => []MemInv
<1>1. MemInv /\ [MemoryNext]_memoryVars => MemInv'
  BY LoaderKeeps, SystemCallKeeps, MemoryStays DEF MemoryNext
<1> QED BY <1>1, MemoryStarts, PTL DEF MemorySpec

\* What the loader and the system calls gave out can be touched, each segment's
\* file part and its zeroed rest included, on either platform, however segments
\* share units of address space (guest.c:78-113, guest.c:154, syscall.c:116).
THEOREM GivenIsThere ==
  ASSUME BelowStack, Modest
  PROVE  MemorySpec => []MemorySound
<1>1. MemInv => MemorySound
  <2> SUFFICES ASSUME MemInv PROVE MemorySound
    OBVIOUS
  <2>1. pc \in {"stack", "running"} =>
          /\ brk \in Nat /\ Up(brk, PAGE) \in brk..brk + PAGE - 1 /\ SpanHi \in 0..brk
          /\ SpanLo \in Nat /\ Mapped(SpanLo, Up(brk, PAGE))
    BY BreakFits DEF MemInv, HeapThere
  <2>2. ASSUME pc = "running", NEW s \in segments
        PROVE  Touchable(Between(s.vaddr, s.vaddr + s.memsz))
    <3>1. /\ SpanLo <= s.vaddr /\ s.vaddr + s.memsz <= SpanHi
          /\ s.vaddr \in Nat /\ s.memsz \in Nat \ {0}
      BY <2>2, Span DEF MemInv, MemoryTypeOK
    <3>2. s.vaddr + s.memsz <= Up(brk, PAGE) /\ {s.vaddr, s.vaddr + s.memsz} \subseteq Nat
      BY <2>1, <2>2, <3>1, Layout
    <3> HIDE DEF Up, SpanLo, SpanHi
    <3>3. Mapped(s.vaddr, s.vaddr + s.memsz)
      BY <2>1, <2>2, <3>1, <3>2, Layout, PartMapped
    <3> QED BY <3>3, MappedIsTouchable
  <2>3. ASSUME pc = "running"
        PROVE  Touchable(Between(STACK_TOP - STACK_SZ, STACK_TOP))
    BY <2>3, Layout, MappedIsTouchable DEF MemInv, StackThere
  <2>4. ASSUME NEW g \in grants
        PROVE  Touchable(g.bytes)
    <3>1. pc = "running" /\ g.bytes \subseteq SpanHi..brk - 1
      BY <2>4 DEF MemInv, Unasked, GrantsBelow
    <3>2. segments \in Images /\ segments # {}
      BY <3>1 DEF MemInv, MemoryTypeOK, HeapThere
    <3>3. SpanLo <= SpanHi /\ SpanHi \in Nat
      <4>1. PICK s \in segments : TRUE
        BY <3>2
      <4>2. /\ SpanLo <= s.vaddr /\ s.vaddr + s.memsz <= SpanHi /\ SpanHi \in Nat
            /\ s.vaddr \in Nat /\ s.memsz \in Nat \ {0}
        BY <3>2, Span
      <4> QED BY <2>1, <3>1, <4>2
    <3>4. \A a \in SpanHi..brk - 1 : a \in SpanLo..Up(brk, PAGE) - 1
      BY <2>1, <3>1, <3>3, Layout
    <3> QED BY <2>1, <3>1, <3>4 DEF Mapped, Touchable
  <2> QED BY <2>2, <2>3, <2>4 DEF MemInv, MemorySound, ImageAndStackMapped, GrantsMapped
<1> QED BY <1>1, MemoryInvariance, PTL

LEMMA NoneShared ==
  ASSUME NEW A, NEW B, \A a : ~(a \in A /\ a \in B)
  PROVE  A \cap B = {}
OBVIOUS

\* Blocks of mmap2 share no byte with one another, the image or the stack,
\* whatever brk and mmap2 were asked for in between (syscall.c:116).
THEOREM BlocksApart ==
  ASSUME BelowStack, Modest
  PROVE  MemorySpec => []MapsApart
<1>1. MemInv => MapsApart
  <2> SUFFICES ASSUME MemInv, NEW g \in grants, g.kind = "map"
               PROVE  /\ \A h \in grants \ {g} : h.kind = "map" => g.bytes \cap h.bytes = {}
                      /\ \A s \in segments :
                           g.bytes \cap Between(s.vaddr, s.vaddr + s.memsz) = {}
                      /\ g.bytes \cap Between(STACK_TOP - STACK_SZ, STACK_TOP) = {}
    BY DEF MapsApart
  <2>1. /\ pc = "running" /\ g.bytes \subseteq SpanHi..brk - 1 /\ segments \in Images
        /\ brk <= StackLo
    BY DEF MemInv, Unasked, GrantsBelow, MemoryTypeOK, StackThere
  <2>2. brk \in Nat /\ SpanHi \in 0..brk
    BY <2>1, BreakFits
  <2>3. \A h \in grants \ {g} : h.kind = "map" => g.bytes \cap h.bytes = {}
    BY DEF MemInv, MapsDisjoint
  <2>4. ASSUME NEW s \in segments
        PROVE  g.bytes \cap Between(s.vaddr, s.vaddr + s.memsz) = {}
    <3>1. s.vaddr + s.memsz <= SpanHi /\ s.vaddr \in Nat /\ s.memsz \in Nat
      BY <2>1, Span
    <3>2. ASSUME NEW a, a \in SpanHi..brk - 1, a \in s.vaddr..(s.vaddr + s.memsz) - 1
          PROVE  FALSE
      BY <2>2, <3>1, <3>2
    <3> HIDE DEF SpanHi
    <3> QED BY <2>1, <3>2, NoneShared, Zenon DEF Between
  <2>5. g.bytes \cap Between(STACK_TOP - STACK_SZ, STACK_TOP) = {}
    <3>1. \A a : ~(a \in SpanHi..brk - 1 /\ a \in STACK_TOP - STACK_SZ..STACK_TOP - 1)
      BY <2>1, <2>2, Layout
    <3> QED BY <2>1, <3>1, Zenon DEF Between
  <2> QED BY <2>3, <2>4, <2>5
<1> QED BY <1>1, MemoryInvariance, PTL
=============================================================================
