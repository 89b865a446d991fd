---------------------------- MODULE ValueStrings ----------------------------
(***************************************************************************)
(* What a program may expect of std::string: each string is a value of its *)
(* own, and no operation on one is seen through another.  Where memory     *)
(* runs out the string operated on may come out empty.                     *)
(***************************************************************************)
EXTENDS Integers, Sequences

CONSTANTS
  Strings,  \* string objects
  Texts,    \* bound: the values a string may have
  Literals, \* bound: the texts the program has as C strings
  Letters,
  NONE      \* no object constructed

VARIABLE value

Least(a, b) == IF a < b THEN a ELSE b

\* At most n letters from position pos, both cut to what there is.
Part(text, pos, n) ==
  LET from == Least(pos, Len(text))
  IN  SubSeq(text, from + 1, from + Least(n, Len(text) - from))

\* text with n1 letters at pos replaced by new, the range cut likewise.
Spliced(text, pos, n1, new) ==
  LET from == Least(pos, Len(text))
      gone == Least(n1, Len(text) - from)
  IN  SubSeq(text, 1, from) \o new \o SubSeq(text, from + gone + 1, Len(text))

Alive == {s \in Strings : value[s] # NONE}

Lengths == {Len(t) : t \in Texts}

\* What a string not yet there can be constructed with.
Begins(text) ==
  \/ text \in Literals
  \/ \E t \in Alive, pos, n \in Lengths : text = Part(value[t], pos, n)

\* What assigning, appending, replacing and writing one letter can make of s.
Follows(s, text) ==
  \/ text \in Literals
  \/ \E new \in Literals :
       \/ text = value[s] \o new
       \/ \E pos, n \in Lengths : text = Spliced(value[s], pos, n, new)
  \/ \E t \in Alive :
       \/ text = value[t]
       \/ \E pos, n \in Lengths : text = value[s] \o Part(value[t], pos, n)
  \/ \E i \in DOMAIN value[s], x \in Letters : text = [value[s] EXCEPT ![i] = x]

MayBecome(s, text) ==
  \/ text = <<>>
  \/ value[s] = NONE /\ Begins(text)
  \/ value[s] # NONE /\ Follows(s, text)

ValueInit == value = [s \in Strings |-> NONE]

Set(s) == \E text \in Texts : value' = [value EXCEPT ![s] = text] /\ MayBecome(s, text)

Destroy(s) == s \in Alive /\ value' = [value EXCEPT ![s] = NONE]

ValueNext == \E s \in Strings : Set(s) \/ Destroy(s)

ValueSpec == ValueInit /\ [][ValueNext]_value
=============================================================================
