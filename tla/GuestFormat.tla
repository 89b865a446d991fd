----------------------------- MODULE GuestFormat -----------------------------
(***************************************************************************)
(* printf's family in hle_libc.c: guest_format walks the format and takes  *)
(* the arguments off the guest's stack word by word, the host renders each *)
(* directive by itself, and the functions copy the result out of a scratch *)
(* buffer.                                                                 *)
(*                                                                         *)
(* The caller has items: a directive, the values of its stars, its own     *)
(* value.  guest_format sees the directives and the words.  A word is a    *)
(* number or the address of a text; a rendering is a sequence of tokens.   *)
(***************************************************************************)
EXTENDS Integers, Sequences, SequencesExt

CONSTANTS
  Items,       \* bound: directives with their arguments
  MaxItems,    \* bound: the longest format
  Caps,        \* bound: the n of snprintf
  FormatCap,   \* sizeof g_fmtbuf
  PieceCap,    \* sizeof piece
  TextOf,      \* the texts in guest memory, by address
  BLANK, PERCENT,
  PAST         \* what lies past the arguments, or where no text is

\* How many words of value the guest's compiler pushes for a directive.
Width(conv) ==
  CASE conv \in {"literal", "%"} -> 0
    [] conv \in {"long long", "double"} -> 2
    [] OTHER -> 1

\* The widths a star gives are not negative.
ASSUME FormatAssumption ==
  /\ MaxItems \in Nat /\ Caps \subseteq Nat /\ FormatCap \in Nat \ {0} /\ PieceCap \in Nat \ {0}
  /\ {BLANK, PERCENT, PAST} \subseteq Nat
  /\ \A a \in DOMAIN TextOf : TextOf[a] \in Seq(Nat)
  /\ \A item \in Items :
       item.stars \in Seq(Nat) /\ item.value \in Seq(Nat) /\ Len(item.value) = Width(item.conv)

VARIABLE print

\* How the compiled caller pushes an item: the stars, then the value.
Words(item) == item.stars \o item.value
Pushed(items) == FlattenSeq([k \in 1..Len(items) |-> Words(items[k])])

Padded(text, widths) ==
  LET w == IF widths = <<>> THEN 0 ELSE widths[Len(widths)]
  IN  [k \in 1..(IF w > Len(text) THEN w - Len(text) ELSE 0) |-> BLANK] \o text

\* The host's snprintf of one directive; %n prints nothing.
Rendered(conv, stars, value) ==
  CASE conv = "%" -> <<PERCENT>>
    [] conv = "literal" -> <<BLANK>>
    [] conv = "n" -> <<>>
    [] conv = "s" -> Padded(IF value[1] \in DOMAIN TextOf THEN TextOf[value[1]] ELSE <<PAST>>, stars)
    [] OTHER -> Padded(value, stars)

Start(text, n) == SubSeq(text, 1, IF n < Len(text) THEN n ELSE Len(text))

FormatIdle == [phase |-> "idle", items |-> <<>>, at |-> 1, argi |-> 0, text |-> <<>>, n |-> 0,
               cap |-> -1, got |-> <<>>]
FormatInit == print = FormatIdle

----------------------------------------------------------------------------
\* A call: cap is snprintf's, -1 for the functions that have none.
Format(items, cap) ==
  print' = [FormatIdle EXCEPT !.phase = "walk", !.items = items, !.cap = cap]

\* Mutant: the word of %n is left for the next directive.
TakenButN(conv) == IF conv = "n" THEN 0 ELSE Width(conv)

\* How far argi moves for a directive: %n's pointer is skipped too.
Taken(conv) == Width(conv)

\* Mutant: the last byte of the buffer is written too.
StoredFull(text, piece) == Start(text \o piece, FormatCap)

\* PUT: what does not fit is counted and not stored.
Stored(text, piece) == Start(text \o piece, FormatCap - 1)

\* One directive: stars come off first and are folded into the directive as
\* numbers, then the value; the host's text is cut to the piece buffer.
Directive ==
  LET item == print.items[print.at]
      stack == Pushed(print.items)
      s == Len(item.stars)
      word(k) == IF k <= Len(stack) THEN stack[k] ELSE PAST
      stars == [k \in 1..s |-> word(print.argi + k)]
      value == [k \in 1..Width(item.conv) |-> word(print.argi + s + k)]
      piece == Start(Rendered(item.conv, stars, value), PieceCap - 1)
  IN
  /\ print.phase = "walk" /\ print.at <= Len(print.items)
  /\ print' = [print EXCEPT !.at = @ + 1, !.argi = @ + s + Taken(item.conv),
                            !.text = Stored(@, piece), !.n = @ + Len(piece)]

\* sprintf, vsprintf and fprintf copy what is in the buffer.
Deliver ==
  /\ print.phase = "walk" /\ print.at > Len(print.items) /\ print.cap = -1
  /\ print' = [print EXCEPT !.phase = "done", !.got = print.text]

\* snprintf takes as many as were counted, even past the end of the buffer;
\* vsnprintf no more than are in it.  With a cap of 0 nothing is written.
DeliverBounded(counted) ==
  LET have == IF counted THEN print.n ELSE Len(print.text)
      take == IF have < print.cap - 1 THEN have ELSE print.cap - 1
  IN
  /\ print.phase = "walk" /\ print.at > Len(print.items) /\ print.cap # -1
  /\ print' = [print EXCEPT !.phase = "done",
       !.got = IF print.cap = 0 THEN <<>>
               ELSE [k \in 1..take |-> IF k <= Len(print.text) THEN print.text[k] ELSE PAST]]

FormatReturn == print.phase = "done" /\ print' = FormatIdle

FormatNext ==
  \/ /\ print.phase = "idle"
     /\ \E k \in 0..MaxItems : \E items \in [1..k -> Items], cap \in Caps \cup {-1} :
       Format(items, cap)
  \/ Directive \/ Deliver
  \/ \E counted \in BOOLEAN : DeliverBounded(counted)
  \/ FormatReturn

FormatSpec == FormatInit /\ [][FormatNext]_print

----------------------------------------------------------------------------
FormatTypeOK ==
  /\ print.phase \in {"idle", "walk", "done"}
  /\ print.at \in 1..(MaxItems + 1) /\ print.cap \in Caps \cup {-1}
  /\ Len(print.text) < FormatCap

\* What C's printf makes of the items themselves.
Expected ==
  FlattenSeq([k \in 1..Len(print.items) |->
    Rendered(print.items[k].conv, print.items[k].stars, print.items[k].value)])

Pieces == \A k \in 1..Len(print.items) :
  Len(Rendered(print.items[k].conv, print.items[k].stars, print.items[k].value)) < PieceCap

\* Every directive meets its own argument, however many words, stars and %n
\* stand before it; what is delivered is the start of the text that fits, and
\* the length is the whole text's.  Of texts no directive of which outgrows
\* the piece buffer and calls whose cap is not past the scratch buffer.
PrintsAsC ==
  print.phase = "done" /\ Pieces /\ print.cap <= FormatCap =>
    /\ print.n = Len(Expected)
    /\ print.got = Start(Expected,
         CASE print.cap = -1 -> FormatCap - 1 [] print.cap = 0 -> 0 [] OTHER -> print.cap - 1)

\* "the length it WOULD have been" (hle_libc.c:549), of any text.
LengthItWouldHaveBeen == print.phase = "done" => print.n = Len(Expected)
=============================================================================
