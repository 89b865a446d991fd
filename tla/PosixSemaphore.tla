--------------------------- MODULE PosixSemaphore ---------------------------
(***************************************************************************)
(* Counting semaphores as POSIX has them, without handles or storage.      *)
(* hle_pthread.c promises this; GuestSemaphores does it.                   *)
(*                                                                         *)
(* A call is part of the state from where it is made to where it returns,  *)
(* so a call that returns without what it is for is no step of this        *)
(* specification, though it may leave every value as it was.               *)
(***************************************************************************)
EXTENDS Integers

CONSTANTS Threads, Sems, MaxCount, InitValues, NULL

VARIABLES
  value,   \* value[s]: how many waits may pass now, or None: not in use
  doing,   \* doing[t]: the call t is in, or "nothing"; "posted" is a
           \* sem_post that has done its work and has yet to return
  on,      \* on[t]: the semaphore it is for, or NULL
  asked    \* asked[t]: the value given to sem_init

vars == <<value, doing, on, asked>>

None == -1

Init ==
  /\ value = [s \in Sems |-> None]
  /\ doing = [t \in Threads |-> "nothing"]
  /\ on = [t \in Threads |-> NULL]
  /\ asked = [t \in Threads |-> 0]

Call(t, what, s, v) ==
  /\ doing[t] = "nothing"
  /\ doing' = [doing EXCEPT ![t] = what]
  /\ on' = [on EXCEPT ![t] = s]
  /\ asked' = [asked EXCEPT ![t] = v]

Return(t) ==
  /\ doing' = [doing EXCEPT ![t] = "nothing"]
  /\ on' = [on EXCEPT ![t] = NULL]
  /\ asked' = [asked EXCEPT ![t] = 0]

SetValue(s, v) == value' = [value EXCEPT ![s] = v]

\* Waits and posts are for semaphores in use.
CallWait(t, s) == value[s] # None /\ Call(t, "wait", s, 0) /\ UNCHANGED value
CallPost(t, s) == value[s] # None /\ Call(t, "post", s, 0) /\ UNCHANGED value

\* Initialising and destroying are for when nobody waits or has yet to post.
Alone(s) == \A t \in Threads : on[t] = s => doing[t] = "posted"

CallInit(t, s, v) == Alone(s) /\ Call(t, "init", s, v) /\ SetValue(s, None)
CallDestroy(t, s) == Alone(s) /\ Call(t, "destroy", s, 0) /\ SetValue(s, None)

\* A wait returns with a token, and the token is gone.
Pass(t) ==
  /\ doing[t] = "wait"
  /\ value[on[t]] > 0
  /\ SetValue(on[t], value[on[t]] - 1)
  /\ Return(t)

\* A post adds a token before it returns, except at the limit.
Post(t) ==
  /\ doing[t] = "post"
  /\ IF value[on[t]] < MaxCount THEN SetValue(on[t], value[on[t]] + 1)
     ELSE UNCHANGED value
  /\ doing' = [doing EXCEPT ![t] = "posted"]
  /\ UNCHANGED <<on, asked>>

\* An initialisation gives the value it was asked for, or fails.
Initialise(t) ==
  /\ doing[t] = "init"
  /\ \/ asked[t] \in 0 .. MaxCount /\ SetValue(on[t], asked[t])
     \/ UNCHANGED value
  /\ Return(t)

PostOrDestroyReturns(t) ==
  /\ doing[t] \in {"posted", "destroy"}
  /\ Return(t)
  /\ UNCHANGED value

Next ==
  \E t \in Threads :
    \/ \E s \in Sems :
         \/ CallWait(t, s) \/ CallPost(t, s) \/ CallDestroy(t, s)
         \/ \E v \in InitValues : CallInit(t, s, v)
    \/ Pass(t) \/ Post(t) \/ Initialise(t) \/ PostOrDestroyReturns(t)

Spec == Init /\ [][Next]_vars
=============================================================================
