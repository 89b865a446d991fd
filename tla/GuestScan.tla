------------------------------ MODULE GuestScan ------------------------------
(***************************************************************************)
(* scanf's family in hle_libc.c: guest_sscanf and guest_scan hand the      *)
(* host's scanner one directive at a time and keep the position between    *)
(* them, the first by asking how much was consumed, the second by leaving  *)
(* the stream where it is.                                                 *)
(*                                                                         *)
(* The input is characters: digits, blanks and others.  Formats are made   *)
(* of conversions, of ones that assign nothing, of blanks and of literals. *)
(***************************************************************************)
EXTENDS Integers, Sequences

CONSTANTS
  Digits, BLANKCHAR, COMMA,  \* the characters of an input
  MaxInput, MaxFormat        \* bounds: how long inputs and formats get

ASSUME ScanAssumption ==
  /\ MaxInput \in Nat /\ MaxFormat \in Nat
  /\ BLANKCHAR \notin Digits /\ COMMA \notin Digits /\ BLANKCHAR # COMMA

VARIABLE scan

Characters == Digits \cup {BLANKCHAR, COMMA}
ScanItems == {"d", "s", "c", "*d", "blank", "comma"}
Converts == {"d", "s", "c"}

\* Where the characters of a set that begin at a position end.
Past(in, pos, set) ==
  LET ends == {i \in pos..(Len(in) + 1) : i = Len(in) + 1 \/ in[i] \notin set}
  IN  CHOOSE i \in ends : \A j \in ends : i <= j

\* The host's scanner on one directive: how much it consumes, and what it
\* stores.  A failed conversion has still passed the blanks before it.
HostScan(item, in, pos) ==
  LET from == IF item \in {"c", "comma"} THEN pos ELSE Past(in, pos, {BLANKCHAR})
      end == CASE item = "blank" -> from
               [] item \in {"d", "*d"} -> Past(in, from, Digits)
               [] item = "s" -> Past(in, from, Characters \ {BLANKCHAR})
               [] item = "c" -> IF from <= Len(in) THEN from + 1 ELSE from
               [] item = "comma" -> IF from <= Len(in) /\ in[from] = COMMA THEN from + 1 ELSE from
  IN  [ok |-> item = "blank" \/ end > from,
       used |-> end - pos,
       text |-> SubSeq(in, from, end - 1)]

ScanIdle == [phase |-> "idle", from |-> "string", in |-> <<>>, fmt |-> <<>>, nulls |-> {},
             at |-> 1, pos |-> 1, arg |-> 1, stored |-> <<>>]
ScanInit == scan = ScanIdle

----------------------------------------------------------------------------
\* A call; from says whether it reads a string or a stream, nulls which of the
\* destinations are null.
Scan(from, in, fmt, nulls) ==
  scan' = [ScanIdle EXCEPT !.phase = "walk", !.from = from, !.in = in, !.fmt = fmt,
                           !.nulls = nulls]

Ended == scan.at > Len(scan.fmt)
Item == scan.fmt[scan.at]
Found == HostScan(Item, scan.in, scan.pos)

\* Mutant: the blanks before a number are not counted as consumed.
ConsumedShort == Len(Found.text)

\* What %n reports: everything the directive passed over.
Consumed == Found.used

\* A conversion into the next destination; the first to fail ends the call, as
\* does a null destination.
Convert ==
  /\ scan.phase = "walk" /\ ~Ended /\ Item \in Converts
  /\ scan' = IF scan.arg \notin scan.nulls /\ Found.ok
             THEN [scan EXCEPT !.at = @ + 1, !.pos = @ + Consumed, !.arg = @ + 1,
                               !.stored = Append(@, Found.text)]
             ELSE [scan EXCEPT !.phase = "done"]

\* guest_scan gives the host a run of literals and blanks at once, which the host
\* leaves at the first that does not match, and does not look at the outcome; so
\* too with a directive that assigns nothing.
PassedOver == {"blank", "comma"}
Behind ==
  IF Item \in PassedOver /\ ~Found.ok THEN Past(scan.fmt, scan.at, PassedOver) ELSE scan.at + 1

PassThrough ==
  /\ scan.phase = "walk" /\ ~Ended /\ Item \notin Converts /\ scan.from = "stream"
  /\ scan' = [scan EXCEPT !.at = Behind, !.pos = @ + Found.used]

\* guest_sscanf steps over literals and blanks of the format without touching
\* the input, and a conversion that assigns nothing looks to it like a failure.
StepOver ==
  /\ scan.phase = "walk" /\ ~Ended /\ Item \notin Converts /\ scan.from = "string"
  /\ scan' = IF Item = "*d" THEN [scan EXCEPT !.phase = "done"] ELSE [scan EXCEPT !.at = @ + 1]

ScanEnd ==
  /\ scan.phase = "walk" /\ Ended
  /\ scan' = [scan EXCEPT !.phase = "done"]

ScanReturn == scan.phase = "done" /\ scan' = ScanIdle

ScanNext ==
  \/ /\ scan.phase = "idle"
     /\ \E from \in {"string", "stream"}, k \in 0..MaxInput, f \in 0..MaxFormat :
       \E in \in [1..k -> Characters], fmt \in [1..f -> ScanItems], nulls \in {{}, {2}} :
         Scan(from, in, fmt, nulls)
  \/ Convert \/ PassThrough \/ StepOver \/ ScanEnd \/ ScanReturn

ScanSpec == ScanInit /\ [][ScanNext]_scan

----------------------------------------------------------------------------
ScanTypeOK ==
  /\ scan.phase \in {"idle", "walk", "done"}
  /\ scan.at \in 1..(MaxFormat + 1) /\ scan.pos \in 1..(MaxInput + 1)
  /\ Len(scan.stored) = scan.arg - 1

\* C's scanf: how far it gets, directive by directive, stopping at the first,
\* literals among them, that the input does not match.
CWalk(in, fmt) ==
  LET walk[k \in 0..Len(fmt)] ==
        IF k = 0 THEN [at |-> 1, pos |-> 1, stored |-> <<>>]
        ELSE LET w == walk[k - 1]
                 found == HostScan(fmt[k], in, w.pos)
             IN  IF w.at = k /\ found.ok
                 THEN [at |-> k + 1, pos |-> w.pos + found.used,
                       stored |-> IF fmt[k] \in Converts THEN Append(w.stored, found.text)
                                  ELSE w.stored]
                 ELSE w
  IN  walk[Len(fmt)]

\* Nothing in the format fails to match, conversions excepted.
CMatches(in, fmt) ==
  LET end == CWalk(in, fmt) IN end.at <= Len(fmt) => fmt[end.at] \in Converts

\* Formats of numbers and words apart by blanks, which the walk of a string
\* may step over: the conversion after the blank skips it anyhow.
OnlyConversions(fmt) ==
  \A k \in DOMAIN fmt :
    /\ fmt[k] \in Converts \cup {"blank"}
    /\ fmt[k] = "blank" => \A m \in DOMAIN fmt : m > k => fmt[m] # "c"

\* The values stored and their number are those of C's scanf: for strings with
\* formats of conversions and blanks, for streams with any whose literals match.
ScanAgrees ==
  /\ scan.phase = "done" /\ scan.nulls = {}
  /\ IF scan.from = "string" THEN OnlyConversions(scan.fmt)
     ELSE CMatches(scan.in, scan.fmt)
  => scan.stored = CWalk(scan.in, scan.fmt).stored
=============================================================================
