--------------------------- MODULE ThreadContract ---------------------------
(***************************************************************************)
(* What the guest was compiled against: pthread_create starts a routine    *)
(* under a name, pthread_join waits for the routine to be over and hands   *)
(* its value back.  hle_pthread.c promises this; GuestThreads does it.     *)
(***************************************************************************)
CONSTANTS
  Words,    \* the values of pthread_t
  Values,   \* what a start routine may return
  NULL

VARIABLES
  state,    \* state[w]: "none", "running" or "over"
  value,    \* value[w]: what the routine returned, once it is over
  answer    \* what the latest pthread_join stored: the word and the value

vars == <<state, value, answer>>

Init ==
  /\ state = [w \in Words |-> "none"]
  /\ value = [w \in Words |-> NULL]
  /\ answer = NULL

Start(w) ==
  /\ state[w] = "none"
  /\ state' = [state EXCEPT ![w] = "running"]
  /\ UNCHANGED <<value, answer>>

Finish(w, v) ==
  /\ state[w] = "running"
  /\ state' = [state EXCEPT ![w] = "over"]
  /\ value' = [value EXCEPT ![w] = v]
  /\ UNCHANGED answer

\* The word may then name another thread.
Join(w) ==
  /\ state[w] = "over"
  /\ answer' = [word |-> w, value |-> value[w]]
  /\ state' = [state EXCEPT ![w] = "none"]
  /\ value' = [value EXCEPT ![w] = NULL]

Next == \E w \in Words : Start(w) \/ Join(w) \/ \E v \in Values : Finish(w, v)

Spec == Init /\ [][Next]_vars
=============================================================================
