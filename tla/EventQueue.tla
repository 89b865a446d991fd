----------------------------- MODULE EventQueue -----------------------------
(***************************************************************************)
(* A bounded channel from the host's input to the game: what arrives is    *)
(* taken once and in order, except what arrives while the channel is full, *)
(* and what is of no concern to the game.                                  *)
(***************************************************************************)
EXTENDS Sequences, Naturals

CONSTANTS Events, Capacity, Nothing

VARIABLES
  source,   \* what the host has still to hand over
  queue,    \* what the channel holds
  taken     \* the event the game is looking at

vars == <<source, queue, taken>>

Init == source = <<>> /\ queue = <<>> /\ taken = Nothing

Arrive(e) ==
  /\ source' = Append(source, e)
  /\ UNCHANGED <<queue, taken>>

Skip ==
  /\ source # <<>> /\ Head(source) = Nothing
  /\ source' = Tail(source)
  /\ UNCHANGED <<queue, taken>>

Accept ==
  /\ source # <<>> /\ Head(source) # Nothing
  /\ Len(queue) < Capacity
  /\ queue' = Append(queue, Head(source))
  /\ source' = Tail(source)
  /\ UNCHANGED taken

Refuse ==
  /\ source # <<>> /\ Head(source) # Nothing
  /\ Len(queue) = Capacity
  /\ source' = Tail(source)
  /\ UNCHANGED <<queue, taken>>

Take ==
  /\ queue # <<>>
  /\ taken' = Head(queue)
  /\ queue' = Tail(queue)
  /\ UNCHANGED source

Release == taken' = Nothing /\ UNCHANGED <<source, queue>>

Next == (\E e \in Events \cup {Nothing} : Arrive(e)) \/ Skip \/ Accept \/ Refuse \/ Take \/ Release

Spec == Init /\ [][Next]_vars
=============================================================================
