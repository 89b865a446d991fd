----------------------------- MODULE CallStack -----------------------------
(***************************************************************************)
(* What a call promises, whoever makes it and whoever answers it: the body *)
(* that starts sees the arguments the caller passed, calls nest, and a     *)
(* tail call takes its caller's place.  There is no stack memory here, no  *)
(* stack pointer and no route.                                             *)
(***************************************************************************)
EXTENDS Naturals, Functions

CONSTANTS Threads, Addresses, Args, Nobody

VARIABLES
  asked,     \* the call each thread has made and nobody has started yet
  running,   \* the calls each thread is inside, by the level each is nested at
  stopped    \* the process exited or aborted

vars == <<asked, running, stopped>>

Call == [address : Addresses, args : Args]

Init ==
  /\ asked = [t \in Threads |-> Nobody]
  /\ running = [t \in Threads |-> <<>>]
  /\ stopped = FALSE

Ask(t, c) ==
  /\ asked[t] = Nobody
  /\ asked' = [asked EXCEPT ![t] = c]
  /\ UNCHANGED <<running, stopped>>

\* The innermost call ends.
EndInnermost(t) ==
  \E n \in DOMAIN running[t] :
    /\ \A m \in DOMAIN running[t] : m <= n
    /\ running' = [running EXCEPT ![t] = Restrict(@, DOMAIN @ \ {n})]

\* A tail call asks for a call and ends the one it is made from.
AskLast(t, c) ==
  /\ asked[t] = Nobody
  /\ asked' = [asked EXCEPT ![t] = c]
  /\ EndInnermost(t)
  /\ UNCHANGED stopped

\* The call starts, nested in all the others, at whatever level.
Start(t) ==
  /\ asked[t] # Nobody
  /\ \E n \in DOMAIN running'[t] :
       /\ \A m \in DOMAIN running[t] : m < n
       /\ running' = [running EXCEPT ![t] =
                        [m \in DOMAIN @ \cup {n} |-> IF m = n THEN asked[t] ELSE @[m]]]
  /\ asked' = [asked EXCEPT ![t] = Nobody]
  /\ UNCHANGED stopped

Finish(t) ==
  /\ asked[t] = Nobody
  /\ EndInnermost(t)
  /\ UNCHANGED <<asked, stopped>>

\* Runaway recursion, or a call to an address nothing answers.
Stop(t) ==
  /\ asked[t] # Nobody
  /\ stopped' = TRUE
  /\ UNCHANGED <<asked, running>>

Next ==
  /\ ~stopped
  /\ \E t \in Threads :
       \/ \E c \in Call : Ask(t, c) \/ AskLast(t, c)
       \/ Start(t) \/ Finish(t) \/ Stop(t)

Spec == Init /\ [][Next]_vars
=============================================================================
