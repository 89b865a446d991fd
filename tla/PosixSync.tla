----------------------------- MODULE PosixSync -----------------------------
(***************************************************************************)
(* What the guest was compiled against: the recursive mutexes and the      *)
(* condition variables of pthreads, with no storage and no host objects.   *)
(* hle_pthread.c promises the guest exactly this; GuestSync implements it. *)
(***************************************************************************)
EXTENDS Naturals

CONSTANTS Threads, Mutexes, Conds, NULL

VARIABLES
  held,    \* held[m][t]: how many times t has locked m and not unlocked it
  asleep   \* asleep[t]: the condition t sleeps on, or NULL

vars == <<held, asleep>>

Init ==
  /\ held = [m \in Mutexes |-> [t \in Threads |-> 0]]
  /\ asleep = [t \in Threads |-> NULL]

\* Nobody but t may be inside m when t enters it.
Lock(t, m) ==
  /\ asleep[t] = NULL
  /\ \A u \in Threads \ {t} : held[m][u] = 0
  /\ held' = [held EXCEPT ![m][t] = @ + 1]
  /\ UNCHANGED asleep

Unlock(t, m) ==
  /\ asleep[t] = NULL
  /\ held[m][t] > 0
  /\ held' = [held EXCEPT ![m][t] = @ - 1]
  /\ UNCHANGED asleep

\* Releasing the mutex and going to sleep is one step: a signal sent by a
\* thread that locks the mutex afterwards cannot be missed.
Wait(t, c, m) ==
  /\ asleep[t] = NULL
  /\ held[m][t] = 1
  /\ held' = [held EXCEPT ![m][t] = 0]
  /\ asleep' = [asleep EXCEPT ![t] = c]

Sleepers(c) == {t \in Threads : asleep[t] = c}

Signal(c) ==
  /\ \E t \in Sleepers(c) : asleep' = [asleep EXCEPT ![t] = NULL]
  /\ UNCHANGED held

Broadcast(c) ==
  /\ Sleepers(c) # {}
  /\ asleep' = [t \in Threads |-> IF asleep[t] = c THEN NULL ELSE asleep[t]]
  /\ UNCHANGED held

Next ==
  \/ \E t \in Threads, m \in Mutexes : Lock(t, m) \/ Unlock(t, m)
  \/ \E t \in Threads, m \in Mutexes, c \in Conds : Wait(t, c, m)
  \/ \E c \in Conds : Signal(c) \/ Broadcast(c)   \* a lone sleeper may also
                                                  \* wake by itself: same step
Spec == Init /\ [][Next]_vars
=============================================================================
