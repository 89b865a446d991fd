----------------------------- MODULE RepStrings -----------------------------
(***************************************************************************)
(* std::string as hle_cxx.c serves it: an object is one pointer to         *)
(* characters behind a _Rep of length, capacity and reference count.  The  *)
(* guest has the other half of the library inlined: it destroys strings,   *)
(* writes them in place and, if it was compiled so, shares them, all       *)
(* without asking here.                                                    *)
(***************************************************************************)
EXTENDS Integers, Sequences, FiniteSets, Functions

CONSTANTS
  Strings,    \* string objects
  RepAddrs,   \* bound: where a representation may be
  Letters,
  Literals,   \* bound: the texts the program has as C strings
  MaxText,    \* bound: the longest text
  MaxShared,  \* bound: references beyond the first
  NULLREP,    \* a null data pointer
  NONE        \* no object constructed

ASSUME StringAssumption ==
  /\ MaxText \in Nat /\ MaxShared \in Nat
  /\ \A text \in Literals : text \in Seq(Letters) /\ Len(text) <= MaxText
  /\ NULLREP \notin RepAddrs /\ NONE \notin RepAddrs /\ NULLREP # NONE
  /\ IsFiniteSet(Strings) /\ Letters # {}

VARIABLES
  data,     \* each object's pointer
  reps,     \* the representations on the host heap
  sharing   \* whether this game takes references of its own

stringVars == <<data, reps, sharing>>

Texts == UNION {[1..n -> Letters] : n \in 0..MaxText}

ASSUME NoTextIsNone == NONE \notin Texts

StringInit ==
  /\ data = [s \in Strings |-> NONE]
  /\ reps = <<>>
  /\ sharing \in BOOLEAN

Alive == {s \in Strings : data[s] # NONE}
TextAt(p) == IF p = NULLREP THEN <<>> ELSE reps[p].text
Least(a, b) == IF a < b THEN a ELSE b

----------------------------------------------------------------------------
\* str_new: a fresh unshared representation, or null when malloc fails.  r is
\* the heap it adds to.
StrNew(text, p, r) ==
  IF p = NULLREP THEN r
  ELSE [q \in DOMAIN r \cup {p} |-> IF q = p THEN [text |-> text, ref |-> 0] ELSE r[q]]

\* Nothing tells one free address from another: the same one is taken each time.
Fresh == {NULLREP} \cup
  (IF RepAddrs \subseteq DOMAIN reps THEN {} ELSE {CHOOSE p \in RepAddrs : p \notin DOMAIN reps})

\* Mutant: the old representation goes whoever else holds it.
KeptRegardless(s) == Restrict(reps, DOMAIN reps \ {data[s]})

\* What str_set leaves of the heap: the old representation is freed if the
\* count says nobody else holds it.  A shared one keeps its count.
Kept(s) ==
  IF data[s] # NULLREP /\ reps[data[s]].ref <= 0
  THEN Restrict(reps, DOMAIN reps \ {data[s]}) ELSE reps

\* A constructor: storage that holds no object yet.
Construct(s, text) ==
  /\ data[s] = NONE
  /\ text \in Texts
  /\ \E p \in Fresh :
       /\ reps' = StrNew(text, p, reps)
       /\ data' = [data EXCEPT ![s] = p]
  /\ UNCHANGED sharing

\* Mutant: the text is read after the old representation was freed.
ReplaceTextLate(s, text) ==
  /\ s \in Alive
  /\ text \in Texts
  /\ \E p \in Fresh :
       /\ reps' = StrNew([i \in DOMAIN text |-> CHOOSE x \in Letters : TRUE], p, Kept(s))
       /\ data' = [data EXCEPT ![s] = p]
  /\ UNCHANGED sharing

\* Build the new text, then str_set: the text may come from the old one.
ReplaceText(s, text) ==
  /\ s \in Alive
  /\ text \in Texts
  /\ \E p \in Fresh :
       /\ reps' = StrNew(text, p, Kept(s))
       /\ data' = [data EXCEPT ![s] = p]
  /\ UNCHANGED sharing

\* The pos and n a caller gives, cut to the text.
Cut(text, pos, n) ==
  LET from == Least(pos, Len(text))
  IN  [from |-> from, len |-> Least(n, Len(text) - from)]
Piece(text, c) == SubSeq(text, c.from + 1, c.from + c.len)

CtorCstr(s, text) == Construct(s, text)
CtorCopy(s, t) == t \in Alive /\ Construct(s, TextAt(data[t]))
CtorSubstr(s, t, pos, n) ==
  /\ t \in Alive
  /\ LET text == TextAt(data[t]) IN Construct(s, Piece(text, Cut(text, pos, n)))

AppendCstr(s, text) == s \in Alive /\ ReplaceText(s, TextAt(data[s]) \o text)

\* append(p, n) with p inside a string, the string itself among them.
AppendInside(s, t, pos, n) ==
  /\ t \in Alive /\ data[t] # NULLREP
  /\ LET text == TextAt(data[t]) IN AppendCstr(s, Piece(text, Cut(text, pos, n)))

AppendStr(s, t) == t \in Alive /\ AppendCstr(s, TextAt(data[t]))
AssignCstr(s, text) == ReplaceText(s, text)
AssignStr(s, t) == t \in Alive /\ ReplaceText(s, TextAt(data[t]))

Replace(s, pos, n1, new) ==
  /\ s \in Alive
  /\ LET text == TextAt(data[s])
         c == Cut(text, pos, n1)
     IN  ReplaceText(s, SubSeq(text, 1, c.from) \o new
                        \o SubSeq(text, c.from + c.len + 1, Len(text)))

----------------------------------------------------------------------------
\* ~basic_string: _M_dispose, here or inlined with a call of _M_destroy.  The
\* inlined one would fault on a null pointer.
Dispose(s) ==
  /\ s \in Alive /\ data[s] # NULLREP
  /\ LET p == data[s] IN
       reps' = IF reps[p].ref <= 0 THEN Restrict(reps, DOMAIN reps \ {p})
               ELSE [reps EXCEPT ![p].ref = @ - 1]
  /\ data' = [data EXCEPT ![s] = NONE]
  /\ UNCHANGED sharing

\* The guest's own reference: it counts up and copies the pointer.
Share(s, t) ==
  /\ sharing
  /\ data[s] = NONE /\ t \in Alive /\ data[t] # NULLREP
  /\ reps[data[t]].ref < MaxShared
  /\ reps' = [reps EXCEPT ![data[t]].ref = @ + 1]
  /\ data' = [data EXCEPT ![s] = data[t]]
  /\ UNCHANGED sharing

\* Writing in place, after _M_leak_hard, which here does nothing: right only
\* for a string that is not shared.
Poke(s, i, x) ==
  /\ s \in Alive /\ data[s] # NULLREP
  /\ i \in DOMAIN TextAt(data[s])
  /\ ~sharing
  /\ reps' = [reps EXCEPT ![data[s]].text[i] = x]
  /\ UNCHANGED <<data, sharing>>

StringNext ==
  \E s \in Strings :
    \/ \E text \in Literals :
         \/ CtorCstr(s, text) \/ AppendCstr(s, text) \/ AssignCstr(s, text)
         \/ \E pos, n \in 0..MaxText : Replace(s, pos, n, text)
    \/ \E t \in Strings :
         \/ CtorCopy(s, t) \/ AppendStr(s, t) \/ AssignStr(s, t) \/ Share(s, t)
         \/ \E pos, n \in 0..MaxText : CtorSubstr(s, t, pos, n) \/ AppendInside(s, t, pos, n)
    \/ \E i \in 1..MaxText, x \in Letters : Poke(s, i, x)
    \/ Dispose(s)

StringSpec == StringInit /\ [][StringNext]_stringVars

----------------------------------------------------------------------------
StringTypeOK ==
  /\ data \in [Strings -> RepAddrs \cup {NULLREP, NONE}]
  /\ DOMAIN reps \subseteq RepAddrs
  /\ \A p \in DOMAIN reps : reps[p] \in [text : Texts, ref : 0..MaxShared]
  /\ sharing \in BOOLEAN

\* Nobody points at a representation that was freed, and a representation is
\* held by no more strings than it counts, so the last one to let go frees it
\* and no one before.  In a game that does not share, nothing is left behind.
Holders(p) == {s \in Strings : data[s] = p}
RepsOwned ==
  /\ \A s \in Alive : data[s] \in DOMAIN reps \cup {NULLREP}
  /\ \A p \in DOMAIN reps : Cardinality(Holders(p)) <= reps[p].ref + 1
  /\ sharing \/ \A p \in DOMAIN reps : Holders(p) # {}

\* To the guest each string is a value of its own, whichever mixture of
\* handlers and inlined code works on it.
Values == INSTANCE ValueStrings WITH
  value <- [s \in Strings |-> IF data[s] = NONE THEN NONE ELSE TextAt(data[s])]
ImplementsValueStrings == Values!ValueSpec
=============================================================================
