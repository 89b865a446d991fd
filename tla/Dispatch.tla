------------------------------ MODULE Dispatch ------------------------------
(***************************************************************************)
(* Control transfer between lifted guest code and the host: dispatch.c,    *)
(* with hle_call, the override lookup and the two token tables it asks.    *)
(*                                                                         *)
(* A guest call is a host call.  The guest's stack holds what the guest    *)
(* pushed; the host's stack holds one activation of dispatch per guest     *)
(* call.  The two must agree: a lifted body finds a return address under   *)
(* its arguments and pops it, a handler expects argument 0 at esp, and     *)
(* each of the five routes adjusts esp differently.                        *)
(*                                                                         *)
(* Stack slots are numbered upward from 1; a stack that grows down starts  *)
(* at StackSize + 1.  A word is an argument or a return slot.              *)
(***************************************************************************)
EXTENDS Integers, Sequences, FiniteSets, SequencesExt

CONSTANTS
  Threads,
  Lifted,       \* addresses in g_table
  Overridden,   \* addresses with an entry in g_ov
  Plt,          \* PLT stubs, in g_plt
  Unbound,      \* the stubs among them whose import has no handler
  Tokens,       \* addresses gl_token_for or dl_stub_for handed out
  Nowhere,      \* addresses that are none of these
  Arity,        \* how many words each address takes
  Words,        \* argument values
  Passed,       \* bound: the argument lists each address is called with
  RETURN,       \* a return slot
  NULL,
  Permissive,   \* LINDBERGH_HLE_PERMISSIVE
  DepthLimit,   \* DEPTH_LIMIT
  StackSize     \* bound: slots of a guest stack

Addresses == Lifted \cup Overridden \cup Plt \cup Tokens \cup Nowhere

ASSUME DispatchAssumption ==
  /\ Unbound \subseteq Plt
  /\ Arity \in [Addresses -> Nat]
  /\ Passed \in [Addresses -> SUBSET Seq(Words)]
  /\ \A a \in Addresses : \A s \in Passed[a] : Len(s) = Arity[a]
  /\ RETURN \notin Words
  /\ Permissive \in BOOLEAN
  /\ DepthLimit \in Nat \ {0}
  /\ StackSize \in Nat \ {0}
  /\ \A A, B \in {Lifted \cup Overridden, Plt, Tokens, Nowhere} :
       A = B \/ A \cap B = {}

VARIABLES
  esp,      \* each thread's guest stack pointer
  mem,      \* each thread's guest stack
  frames,   \* each thread's host stack: the bodies it is inside
  depth,    \* g_depth, thread-local
  calling,  \* the call a thread has pushed and not yet routed
  back,     \* the frame that just returned and whose caller has not resumed
  halt      \* "" while the process runs

vars == <<esp, mem, frames, depth, calling, back, halt>>

Slots == 1..StackSize
ArgLists == UNION {Passed[a] : a \in Addresses}

\* How a call was made: by a lifted `call`, by a lifted tail jump, by host
\* code through guest_call, or by a lifted call of an import, which goes to
\* hle_call without dispatch.
Vias == {"call", "tail", "host", "import"}
Callings == [va : Addresses, args : ArgLists, via : Vias, saved : 1..StackSize + 1]

\* One body on the host stack.  sp is esp as the body was entered; left says
\* it has tail-jumped away and only waits to return.
Frames == [va : Addresses, via : Vias, kind : {"lifted", "host"},
           sp : 1..StackSize + 1, saved : 1..StackSize + 1, left : BOOLEAN]

ASSUME NoBodyIsNull ==
  NULL \notin Callings /\ NULL \notin Frames /\ NULL \notin [address : Addresses, args : ArgLists]

Init ==
  /\ esp = [t \in Threads |-> StackSize + 1]
  /\ mem = [t \in Threads |-> [i \in Slots |-> RETURN]]
  /\ frames = [t \in Threads |-> <<>>]
  /\ depth = [t \in Threads |-> 0]
  /\ calling = [t \in Threads |-> NULL]
  /\ back = [t \in Threads |-> NULL]
  /\ halt = ""

----------------------------------------------------------------------------
(* Making a call.                                                          *)

InCode(t, kind) ==
  /\ halt = "" /\ calling[t] = NULL /\ back[t] = NULL
  /\ \/ frames[t] # <<>> /\ Last(frames[t]).kind = kind
     \/ frames[t] = <<>> /\ kind = "host"

\* m with the words of s stored upward from slot at.
Store(m, at, s) ==
  [i \in Slots |-> IF i \in at..(at + Len(s) - 1) THEN s[i - at + 1] ELSE m[i]]

Push(t, s) ==
  /\ esp[t] > Len(s)
  /\ esp' = [esp EXCEPT ![t] = @ - Len(s)]
  /\ mem' = [mem EXCEPT ![t] = Store(@, esp[t] - Len(s), s)]

Ask(t, va, args, via) ==
  /\ calling' = [calling EXCEPT ![t] =
                   [va |-> va, args |-> args, via |-> via, saved |-> esp[t]]]
  /\ UNCHANGED <<depth, back, halt>>

\* Lifted code pushes the arguments right to left, then the return address.
GuestCall(t, va, args) ==
  /\ InCode(t, "lifted")
  /\ Push(t, <<RETURN>> \o args)
  /\ Ask(t, va, args, "call")
  /\ UNCHANGED frames

\* `call <plt stub>` was lifted to hle_call: no return address.
ImportCall(t, va, args) ==
  /\ InCode(t, "lifted")
  /\ va \in Plt
  /\ Push(t, args)
  /\ Ask(t, va, args, "import")
  /\ UNCHANGED frames

\* dispatch_jmp: the arguments take the place of the caller's own and its
\* return address stays where it is.
TailJump(t, va, args) ==
  /\ InCode(t, "lifted")
  /\ Len(args) <= Arity[Last(frames[t]).va]
  /\ mem' = [mem EXCEPT ![t] = Store(@, esp[t] + 1, args)]
  /\ frames' = [frames EXCEPT ![t][Len(frames[t])].left = TRUE]
  /\ Ask(t, va, args, "tail")
  /\ UNCHANGED esp

\* guest_call, from a handler or from the code that starts a thread.
HostCall(t, va, args) ==
  /\ InCode(t, "host")
  /\ Push(t, <<RETURN>> \o args)
  /\ Ask(t, va, args, "host")
  /\ UNCHANGED frames

----------------------------------------------------------------------------
(* dispatch: which body answers, and what esp it starts with.              *)

\* Slots below esp are dead and all dead slots are the same.
Drop(t, sp) ==
  /\ esp' = [esp EXCEPT ![t] = sp]
  /\ mem' = [mem EXCEPT ![t] = [i \in Slots |-> IF i < sp THEN RETURN ELSE @[i]]]

Enter(t, kind, sp) ==
  /\ frames' = [frames EXCEPT ![t] = Append(@,
       [va |-> calling[t].va, via |-> calling[t].via, kind |-> kind,
        sp |-> sp, saved |-> calling[t].saved, left |-> FALSE])]
  /\ Drop(t, sp)
  /\ calling' = [calling EXCEPT ![t] = NULL]
  /\ UNCHANGED <<back, halt>>

Stops(reason) ==
  /\ halt' = reason
  /\ UNCHANGED <<esp, mem, frames, calling, back>>

Dispatching(t) ==
  /\ halt = "" /\ calling[t] # NULL
  /\ calling[t].via # "import"

\* Mutant: one counter for all threads.
DeepenShared(t) ==
  /\ Dispatching(t)
  /\ depth[t] < DepthLimit
  /\ depth' = [u \in Threads |-> depth[u] + 1]

\* ++g_depth, within the limit.
Deepen(t) ==
  /\ Dispatching(t)
  /\ depth[t] < DepthLimit
  /\ depth' = [depth EXCEPT ![t] = @ + 1]

Runaway(t) ==
  /\ Dispatching(t)
  /\ depth[t] = DepthLimit
  /\ depth' = [depth EXCEPT ![t] = @ + 1]
  /\ Stops("exit 43")

\* gl_token_call and hle_stub_call, after stepping over the return slot.
RouteToken(t) ==
  /\ Deepen(t)
  /\ calling[t].va \in Tokens
  /\ Enter(t, "host", esp[t] + 1)

\* Checked before the lifted table, so it wins over the lifted body.
RouteOverride(t) ==
  /\ Deepen(t)
  /\ calling[t].va \in Overridden
  /\ Enter(t, "host", esp[t] + 1)

RouteLifted(t) ==
  /\ Deepen(t)
  /\ calling[t].va \in Lifted \ Overridden
  /\ Enter(t, "lifted", esp[t])

Answers(va) == va \notin Unbound \/ Permissive

\* Mutant: an import reached indirectly sees its arguments one slot off.
RoutePltKeepingSlot(t) ==
  /\ Deepen(t)
  /\ calling[t].va \in Plt /\ Answers(calling[t].va)
  /\ Enter(t, "host", esp[t])

RoutePlt(t) ==
  /\ Deepen(t)
  /\ calling[t].va \in Plt /\ Answers(calling[t].va)
  /\ Enter(t, "host", esp[t] + 1)

\* hle_call straight from lifted code; it does not count.
EnterImport(t) ==
  /\ halt = "" /\ calling[t] # NULL /\ calling[t].via = "import"
  /\ Answers(calling[t].va)
  /\ Enter(t, "host", esp[t])
  /\ UNCHANGED depth

\* No lifted function there, or an import nobody implemented.
Abort(t) ==
  /\ halt = "" /\ calling[t] # NULL
  /\ \/ calling[t].va \in Nowhere
     \/ calling[t].va \in Plt /\ ~Answers(calling[t].va)
  /\ IF calling[t].via = "import" THEN UNCHANGED depth ELSE Deepen(t)
  /\ Stops("abort")

----------------------------------------------------------------------------
(* Returning.                                                              *)

\* The top body leaves the host stack, and dispatch counts it out.
Leave(t) ==
  /\ frames' = [frames EXCEPT ![t] = Front(@)]
  /\ back' = [back EXCEPT ![t] = Last(frames[t])]
  /\ depth' = [depth EXCEPT ![t] =
                 IF Last(frames[t]).via = "import" THEN @ ELSE @ - 1]
  /\ UNCHANGED <<calling, halt>>

\* A lifted `ret`: esp += 4 and the C function returns.
GuestReturn(t) ==
  /\ InCode(t, "lifted")
  /\ Drop(t, esp[t] + 1)
  /\ Leave(t)

\* A handler returns without moving esp.
HandlerReturn(t) ==
  /\ InCode(t, "host") /\ frames[t] # <<>>
  /\ Leave(t)
  /\ UNCHANGED <<esp, mem>>

\* The caller's own `add esp, 4 * n`.
ResumeGuest(t) ==
  /\ halt = "" /\ back[t] # NULL
  /\ back[t].via \in {"call", "import"}
  /\ Drop(t, esp[t] + Arity[back[t].va])
  /\ back' = [back EXCEPT ![t] = NULL]
  /\ UNCHANGED <<frames, depth, calling, halt>>

\* Mutant: guest_call relies on the callee to clean up.
ResumeHostUnsaved(t) ==
  /\ halt = "" /\ back[t] # NULL
  /\ back[t].via = "host"
  /\ back' = [back EXCEPT ![t] = NULL]
  /\ UNCHANGED <<esp, mem, frames, depth, calling, halt>>

\* guest_call puts esp back where it was.
ResumeHost(t) ==
  /\ halt = "" /\ back[t] # NULL
  /\ back[t].via = "host"
  /\ Drop(t, back[t].saved)
  /\ back' = [back EXCEPT ![t] = NULL]
  /\ UNCHANGED <<frames, depth, calling, halt>>

\* The body that tail-jumped has nothing left to do: it returns in its turn,
\* and its return slot is already popped.
ResumeTail(t) ==
  /\ halt = "" /\ back[t] # NULL
  /\ back[t].via = "tail"
  /\ Leave(t)
  /\ UNCHANGED <<esp, mem>>

----------------------------------------------------------------------------
Step(t) ==
  \/ \E va \in Addresses : \E args \in Passed[va] :
       \/ GuestCall(t, va, args) \/ ImportCall(t, va, args)
       \/ TailJump(t, va, args) \/ HostCall(t, va, args)
  \/ Runaway(t) \/ RouteToken(t) \/ RouteOverride(t) \/ RouteLifted(t)
  \/ RoutePlt(t) \/ EnterImport(t) \/ Abort(t)
  \/ GuestReturn(t) \/ HandlerReturn(t)
  \/ ResumeGuest(t) \/ ResumeHost(t) \/ ResumeTail(t)

Next == \E t \in Threads : Step(t)

Spec == Init /\ [][Next]_vars

----------------------------------------------------------------------------
TypeOK ==
  /\ esp \in [Threads -> 1..StackSize + 1]
  /\ mem \in [Threads -> [Slots -> Words \cup {RETURN}]]
  /\ frames \in [Threads -> Seq(Frames)]
  /\ depth \in [Threads -> 0..DepthLimit + 1]
  /\ calling \in [Threads -> Callings \cup {NULL}]
  /\ back \in [Threads -> Frames \cup {NULL}]
  /\ halt \in {"", "exit 43", "abort"}

\* Whatever nests under a body - lifted callees, handlers, handlers that call
\* back, tail jumps that never come back themselves - control returns to it
\* with esp where it left it.
StackBalanced ==
  \A t \in Threads :
    halt = "" /\ calling[t] = NULL /\ back[t] = NULL =>
      esp[t] = IF frames[t] = <<>> THEN StackSize + 1 ELSE Last(frames[t]).sp

\* The counter that stops runaway recursion counts exactly the activations of
\* dispatch on this thread's host stack: it neither drifts on any route nor
\* sees another thread's calls.
Dispatched(t) == {i \in DOMAIN frames[t] : frames[t][i].via # "import"}
DepthCounts ==
  halt = "" => \A t \in Threads : depth[t] = Cardinality(Dispatched(t))

\* Every variable keeps its type, and the counter counts (dispatch.c:132).
DispatchSound == TypeOK /\ DepthCounts

\* Each body runs with the arguments its caller passed.  A lifted body reads
\* them above the return slot, a handler from esp itself.
ArgsOf(t, f) ==
  LET at == IF f.kind = "lifted" THEN f.sp + 1 ELSE f.sp
  IN  [i \in 1..Arity[f.va] |-> IF at + i - 1 \in Slots THEN mem[t][at + i - 1]
                                ELSE RETURN]
Entered(t) == {i \in DOMAIN frames[t] : ~frames[t][i].left}
Body(t, i) == [address |-> frames[t][i].va, args |-> ArgsOf(t, frames[t][i])]
Running == [t \in Threads |-> [i \in Entered(t) |-> Body(t, i)]]
Asked == [t \in Threads |->
            IF calling[t] = NULL THEN NULL
            ELSE [address |-> calling[t].va, args |-> calling[t].args]]
Calls == INSTANCE CallStack WITH
  Args <- ArgLists,
  Nobody <- NULL,
  asked <- Asked,
  running <- Running,
  stopped <- halt # ""
ImplementsCallStack == Calls!Spec
=============================================================================
