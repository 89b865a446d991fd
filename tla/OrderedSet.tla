----------------------------- MODULE OrderedSet -----------------------------
(***************************************************************************)
(* What a program may expect of std::map and std::set while it inserts and *)
(* iterates: each step of an iterator goes to the neighbouring member, and *)
(* inserting does not disturb an iterator.                                 *)
(***************************************************************************)
EXTENDS Integers, FiniteSets, FiniteSetsExt

CONSTANTS Keys, END

VARIABLES members, cursor

Above(k) == {m \in members : m > k}
Below(k) == {m \in members : k = END \/ m < k}

SetInit == members = {} /\ cursor = END

Insert(k) ==
  /\ k \notin members
  /\ members' = members \cup {k}
  /\ UNCHANGED cursor

Begin ==
  /\ cursor' = IF members = {} THEN END ELSE Min(members)
  /\ UNCHANGED members

Forward ==
  /\ cursor # END
  /\ cursor' = IF Above(cursor) = {} THEN END ELSE Min(Above(cursor))
  /\ UNCHANGED members

Backward ==
  /\ Below(cursor) # {}
  /\ cursor' = Max(Below(cursor))
  /\ UNCHANGED members

SetNext == (\E k \in Keys : Insert(k)) \/ Begin \/ Forward \/ Backward

OrderedSetSpec == SetInit /\ [][SetNext]_<<members, cursor>>
=============================================================================
