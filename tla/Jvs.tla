-------------------------------- MODULE Jvs --------------------------------
(***************************************************************************)
(* The JVS I/O board of hle_sega.c, reading the cabinet of Cabinet.        *)
(*                                                                         *)
(* The game sends a request, a list of commands each found by its offset,  *)
(* and receives a reply: a frame with one report per command, and a list   *)
(* of the reports' offsets, kept in bytes.  The reply buffer is one for    *)
(* all requests and drops bytes when it is full.                           *)
(*                                                                         *)
(* A byte of a reply is a cell: the switches it has set, or a number.      *)
(***************************************************************************)
EXTENDS Cabinet

CONSTANTS
  Byte,         \* 256: what an unsigned char wraps at
  AckSize,      \* 0x200: sizeof g_ack
  Reports,      \* 0x40: sizeof g_report_at, and the commands looked at
  IdentLen,     \* length of JVS_IO_IDENT
  FeatureLen,   \* length of JVS_FEATURES
  Width,        \* the window's width in pixels
  Requests      \* bound: the requests the game sends

\* A command: its code, and its two parameters.
Codes == {"ident", "revision", "features", "switches", "coins", "analog",
          "rotary", "other", "astray"}
ASSUME JvsAssumption ==
  /\ {Byte, AckSize, Reports, IdentLen, FeatureLen, Width} \subseteq Nat \ {0}
  /\ 2 <= Byte /\ Byte <= AckSize
  /\ Requests \subseteq Seq([code : Codes, p1 : Nat, p2 : Nat])

VARIABLES
  ack,       \* g_ack and g_ack_len: a sequence of cells
  at,        \* g_report_at and g_reports
  request,   \* what the game asked last, and what the player was doing,
             \* settled when every message about it had been pumped
  reply      \* what the game received last

boardVars == <<ack, at>>
gameVars == <<request, reply>>
vars == <<cabinetVars, boardVars, gameVars>>

Num(n) == [set |-> {}, num |-> n]
Bits(S) == [set |-> S, num |-> 0]
Zeros(n) == [i \in 1 .. n |-> Num(0)]
SyncCell == Bits({"sync"})
OkCell == Num(1)

NoRequest == [cmds |-> <<>>, held |-> {}, inserted |-> [s \in Slots |-> 0],
              point |-> 0, settled |-> FALSE]
NoReply == [frame |-> <<>>, length |-> 0, index |-> <<>>]

Init ==
  /\ CabinetInit
  /\ ack = <<>>
  /\ at = <<>>
  /\ request = NoRequest
  /\ reply = NoReply

----------------------------------------------------------------------------
(* Building the reply: ack_begin, ack_report, ack_byte, ack_end.  A reply  *)
(* being built is its cells, its report offsets, and the cabinet's state.  *)

AckBegin(c) == [cells |-> <<SyncCell, Num(0), Num(0), OkCell>>,
                at |-> <<>>, cab |-> c]

\* Mutant: the offset is the one after the report's first byte.
AckReportLate(a) ==
  [a EXCEPT !.at = IF Len(@) < Reports
                   THEN Append(@, (Len(a.cells) + 1) % Byte) ELSE @,
            !.cells = Append(@, OkCell)]

AckReport(a) ==
  [a EXCEPT !.at = IF Len(@) < Reports THEN Append(@, Len(a.cells) % Byte) ELSE @,
            !.cells = Append(@, OkCell)]

\* ack_byte, for a run of them: what does not fit is dropped.
AckBytes(a, s) ==
  LET room == AckSize - 1 - Len(a.cells) IN
  [a EXCEPT !.cells = @ \o SubSeq(s, 1, IF Len(s) < room THEN Len(s) ELSE room)]

\* The sum is left out: the cell is there, its value is not looked at.
AckEnd(a) ==
  LET count == Num((Len(a.cells) - 3 + 1) % Byte) IN
  [a EXCEPT !.cells = Append([@ EXCEPT ![3] = count], Num(0))]

----------------------------------------------------------------------------
(* jvs_command.                                                            *)

PlayerBits(c, pl) ==
  CASE pl = 0 -> c.buttons \cap {"p1start", "service", "trigger", "reload"}
    [] pl = 1 -> c.buttons \cap {"p2start"}
    [] OTHER  -> {}

\* b0 and then zeros, for each player; at least the one byte.
PlayerWidth(bytes) == IF bytes > 1 THEN bytes ELSE 1

SwitchBytes(c, players, bytes) ==
  LET wide == PlayerWidth(bytes) IN
  [i \in 1 .. 1 + players * wide |->
     IF i = 1 THEN Bits(c.buttons \cap {"test"})
     ELSE IF (i - 2) % wide = 0 THEN Bits(PlayerBits(c, (i - 2) \div wide))
     ELSE Num(0)]

\* The i-th byte of values of two bytes each.
Half(value, i) == Num(IF i % 2 = 1 THEN value \div Byte ELSE value % Byte)

\* Fourteen bits of a slot's count.
CoinMask == (Byte * Byte) \div 4
CoinBytes(c, slots) ==
  LET Count(s) == IF s \in Slots THEN c.coins[s] % CoinMask ELSE 0 IN
  [i \in 1 .. 2 * slots |-> Half(Count((i - 1) \div 2), i)]

\* A pointer outside the window reads as the edge it left by.
Axis(x) ==
  LET v == (x * (Byte * Byte - 1)) \div Width IN
  IF x < 0 THEN 0 ELSE IF v > Byte * Byte - 1 THEN Byte * Byte - 1 ELSE v

\* The vertical axis is treated as the horizontal one and left at zero here.
AnalogBytes(channels) ==
  LET Value(ch) == CASE ch \in {0, 2} -> Axis(gun)
                     [] ch \in {1, 3} -> 0
                     [] OTHER -> (Byte * Byte) \div 2
  IN [i \in 1 .. 2 * channels |-> Half(Value((i - 1) \div 2), i)]

\* The report after its first byte, given what the cabinet reads as.
ReportBytes(cmd, c) ==
  CASE cmd.code = "ident"    -> Zeros(IdentLen + 1)
    [] cmd.code = "revision" -> Zeros(1)
    [] cmd.code = "features" -> Zeros(FeatureLen)
    [] cmd.code = "switches" -> SwitchBytes(c, cmd.p1, cmd.p2)
    [] cmd.code = "coins"    -> CoinBytes(c, cmd.p1)
    [] cmd.code = "analog"   -> AnalogBytes(cmd.p1)
    [] cmd.code = "rotary"   -> Zeros(2 * cmd.p1)
    [] OTHER                 -> <<>>

JvsCommand(a, cmd) ==
  LET c == IF cmd.code \in {"switches", "coins", "analog"}
           THEN HostCabinetInput(a.cab) ELSE a.cab
  IN AckBytes(AckReport([a EXCEPT !.cab = c]), ReportBytes(cmd, c))

----------------------------------------------------------------------------
(* h_jvs_send and h_jvs_recv.                                              *)

\* The commands up to the first whose offset is outside the packet.
Followed(cmds) ==
  LET Bad == {i \in 1 .. Len(cmds) : cmds[i].code = "astray" \/ i > Reports} IN
  SubSeq(cmds, 1, IF Bad = {} THEN Len(cmds)
                  ELSE (CHOOSE i \in Bad : \A j \in Bad : i <= j) - 1)

\* The reply after all commands, one after the other.
Built(c, cmds) ==
  LET after[i \in 0 .. Len(cmds)] ==
        IF i = 0 THEN AckBegin(c) ELSE JvsCommand(after[i - 1], cmds[i])
  IN  after[Len(cmds)]

\* The game clears its packet before it asks again.
JvsSend(cmds) ==
  LET e == AckEnd(Built(cab, Followed(cmds))) IN
  /\ ack' = e.cells
  /\ at' = e.at
  /\ cab' = e.cab
  /\ request' = IF msgs # <<>> THEN [NoRequest EXCEPT !.cmds = Followed(cmds)]
                ELSE [cmds |-> Followed(cmds), held |-> held,
                      inserted |-> inserted, point |-> point, settled |-> TRUE]
  /\ reply' = NoReply
  /\ UNCHANGED <<playerVars, msgs, mouse, gun, frame, autostart>>

\* The reply stays in the buffer: receiving again hands it over again.
JvsRecv ==
  /\ ack # <<>>
  /\ reply' = [frame |-> ack, length |-> Len(ack) % Byte,
               index |-> Append(at, 0)]
  /\ UNCHANGED <<cabinetVars, boardVars, request>>

\* Nothing was ever sent: -6, and the game's packet is as it was.
JvsRecvNothing == ack = <<>> /\ UNCHANGED vars

Next ==
  \/ Player /\ UNCHANGED <<boardVars, gameVars>>
  \/ (Pump \/ Swap) /\ UNCHANGED <<boardVars, gameVars>>
  \/ \E cmds \in Requests : JvsSend(cmds)
  \/ JvsRecv
  \/ JvsRecvNothing

Spec == Init /\ [][Next]_vars

----------------------------------------------------------------------------
TypeOK ==
  /\ CabinetTypeOK
  /\ Len(ack) <= AckSize
  /\ \A i \in DOMAIN ack : ack[i].num \in 0 .. Byte - 1
  /\ Len(at) <= Reports /\ \A i \in DOMAIN at : at[i] \in 0 .. Byte - 1
  /\ request.cmds \in {Followed(cmds) : cmds \in Requests} \cup {<<>>}
  /\ reply.length \in 0 .. Byte - 1

\* How long the answer to a command is, by the protocol.
AnswerLen(cmd) ==
  CASE cmd.code = "ident"    -> IdentLen + 2
    [] cmd.code = "revision" -> 2
    [] cmd.code = "features" -> FeatureLen + 1
    [] cmd.code = "switches" -> 2 + cmd.p1 * PlayerWidth(cmd.p2)
    [] cmd.code \in {"coins", "analog", "rotary"} -> 1 + 2 * cmd.p1
    [] OTHER -> 1

\* Where the answers end: the first stands behind four bytes.
AnswersEnd(cmds) ==
  LET end[i \in 0 .. Len(cmds)] == IF i = 0 THEN 4 ELSE end[i - 1] + AnswerLen(cmds[i])
  IN  end[Len(cmds)]

\* Requests whose frame, checksum included, is as long as its length byte can
\* say.  Nothing checks it: ack_report writes wherever g_ack_len has come to.
RequestsFit == \A cmds \in Requests : AnswersEnd(Followed(cmds)) + 1 < Byte

\* A window narrower than the axis is fine, and fewer coins than fourteen bits.
ValuesFit == Width < Byte * Byte /\ MaxCoins + 1 < CoinMask

\* The game finds each command's answer where the reply's list says, one after
\* the other from the fifth byte of the frame to the checksum, and the list
\* ends after the last; the frame's own count agrees.
AnswersInPlace ==
  LET n == Len(request.cmds)  end == reply.length - 1 IN
  reply # NoReply =>
    /\ Len(reply.index) = n + 1 /\ reply.index[n + 1] = 0
    /\ reply.length = Len(reply.frame)
    /\ reply.frame[3].num = reply.length - 3
    /\ \A i \in 1 .. n :
         /\ reply.frame[reply.index[i] + 1] = OkCell
         /\ (IF i = n THEN end ELSE reply.index[i + 1])
              = reply.index[i] + AnswerLen(request.cmds[i])
    /\ n > 0 => reply.index[1] = 4

\* Every variable keeps its type, bytes and offsets within their width, and the
\* game finds every answer (hle_sega.c:108).
JvsSound == TypeOK /\ AnswersInPlace

\* What the game reads out of a reply: its k-th answer's i-th byte.
Cell(k, i) == reply.frame[reply.index[k] + 1 + i]
Word(k, i) == Cell(k, i).num * Byte + Cell(k, i + 1).num
Full == Byte * Byte - 1

\* What the player was doing is in the answer to his k-th command.
Down(k, switch) == k \in request.held <=> switch
PlayerIn(k, cmd) ==
  /\ cmd.code = "switches" =>
       /\ Down("T", Cell(k, 1).set = {"test"})
       /\ cmd.p1 > 0 =>
            /\ Down("S", "service" \in Cell(k, 2).set)
            /\ Down("left", "trigger" \in Cell(k, 2).set)
            /\ Down("right", "reload" \in Cell(k, 2).set)
            /\ autostart \/ Down("1", "p1start" \in Cell(k, 2).set)
       /\ cmd.p1 > 1 =>
            Down("2", Cell(k, 2 + PlayerWidth(cmd.p2)).set # {})
  /\ cmd.code = "coins" => \A i \in 1 .. cmd.p1 :
       Word(k, 2 * i - 1) - (IF i <= 2 THEN request.inserted[i - 1] ELSE 0)
         \in (IF autostart /\ i = 1 THEN {0, 1} ELSE {0})
  /\ cmd.code = "analog" /\ cmd.p1 > 0 =>
       /\ request.point <= 0 <=> Word(k, 1) = 0
       /\ request.point >= Width <=> Word(k, 1) = Full

\* The switches, coins and aim the game reads are the player's at the time it
\* asked, provided the window had been pumped.  Autostart may hold or let go
\* of start and puts in one coin.  (hle_window.c:170; that the thread that pumps
\* is the one that asks is assumed.)
GameSeesPlayer ==
  request.settled /\ reply # NoReply =>
    \A k \in 1 .. Len(request.cmds) : PlayerIn(k, request.cmds[k])
=============================================================================
