---------------------------- MODULE ThreadSystem ----------------------------
(***************************************************************************)
(* Guest threads that create, join and detach one another and meet at      *)
(* semaphores: GuestThreads and GuestSemaphores over the same host         *)
(* threads.  A thread is in one handler at a time, and only a thread that  *)
(* runs guest code calls one.                                              *)
(***************************************************************************)
EXTENDS GuestThreads, Integers

CONSTANTS Sems, Handles, MaxCount, InitValues

VARIABLES at, job, got, ask, cell, open, count, ready

S == INSTANCE GuestSemaphores WITH Threads <- Ids

ASSUME SystemAssumption == S!SemAssumption

semVars == <<at, job, got, ask, cell, open, count, ready>>
systemVars == <<vars, semVars>>

SystemInit == Init /\ S!Init

SystemNext ==
  \E i \in Ids :
    \/ at[i] = "guest" /\ Step(i) /\ UNCHANGED semVars
    \/ pc[i] = "guest" /\ S!Step(i) /\ UNCHANGED vars

System == SystemInit /\ [][SystemNext]_systemVars

----------------------------------------------------------------------------
\* Every variable of both parts keeps its type.
SystemTypeOK == TypeOK /\ S!TypeOK

\* Waits and posts use the semaphore's own, open handle (GuestSemaphores).
HandlesCurrent == S!HandlesCurrent

\* Both: types, and handles in use are open (hle_pthread.c:319).
SystemSound == SystemTypeOK /\ HandlesCurrent

\* Semaphores count as POSIX has it (GuestSemaphores).
ImplementsPosixSemaphore == S!ImplementsPosixSemaphore
=============================================================================
