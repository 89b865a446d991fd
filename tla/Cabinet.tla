------------------------------ MODULE Cabinet ------------------------------
(***************************************************************************)
(* The cabinet a desktop stands in for: coins, start, test, service and    *)
(* the gun of hle_window.c.  Keys and mouse arrive as window messages;     *)
(* cabinet_key and mouse_button keep g_cab and the mouse state from them;  *)
(* host_cabinet_input puts the two together for whoever asks.              *)
(*                                                                         *)
(* Assumed: one thread pumps the window and asks, as it does when the game *)
(* talks to the board from its GLUT callbacks.  The code is ready to be    *)
(* asked from anywhere (hle_window.c:219) and locks nothing.               *)
(***************************************************************************)
EXTENDS Integers, Sequences

CONSTANTS
  Plays,        \* bound: the controls a player touches, one set per behaviour
  Places,       \* bound: where the pointer goes, as pixels from the left
  MaxMsgs,      \* bound: messages waiting for a pump
  MaxCoins,     \* bound: how often the player inserts a coin
  MaxFrame,     \* bound: frames swapped
  Autostarts,   \* the settings of LINDBERGH_AUTOSTART to look at
  CoinAfter,    \* 240 frames, then a coin
  Period, Press \* of every 120 frames start is down for 20

Keys == {"5", "6", "1", "2", "T", "S", "other"}
Buttons == {"left", "right"}

ASSUME CabinetAssumption ==
  /\ \A play \in Plays : play \subseteq Keys \cup Buttons \cup {"pointer"}
  /\ Places \subseteq Int
  /\ {MaxMsgs, MaxCoins, MaxFrame, CoinAfter, Press} \subseteq Nat
  /\ Period \in Nat \ {0}
  /\ Autostarts \subseteq BOOLEAN

VARIABLES
  \* The player: what may be touched, what is held, where the pointer is.
  play, held, point,
  \* The window's message queue.
  msgs,
  \* g_cab.coins and g_cab.buttons, and whether autostart's coin is in.
  cab,
  \* g_buttons and g_mouse_x, g_frame, and autostart's own setting.
  mouse, gun, frame, autostart,
  \* The coins the player has put in, by slot.
  inserted

playerVars == <<play, held, point, inserted>>
hostVars == <<cab, mouse, gun, frame, autostart>>
cabinetVars == <<playerVars, msgs, hostVars>>

SwitchOf == [k \in {"1", "2", "T", "S"} |->
               CASE k = "1" -> "p1start" [] k = "2" -> "p2start"
                 [] k = "T" -> "test"    [] k = "S" -> "service"]
Slots == {0, 1}
SlotOf == [k \in {"5", "6"} |-> IF k = "5" THEN 0 ELSE 1]
Coin(k) == [s \in Slots |-> IF k \in DOMAIN SlotOf /\ SlotOf[k] = s THEN 1 ELSE 0]

CabinetInit ==
  /\ play \in Plays
  /\ autostart \in Autostarts
  /\ held = {}
  /\ point = 0
  /\ inserted = [s \in Slots |-> 0]
  /\ msgs = <<>>
  /\ cab = [coins |-> [s \in Slots |-> 0], buttons |-> {}, coined |-> FALSE]
  /\ mouse = {}
  /\ gun = 0
  /\ frame = 0

----------------------------------------------------------------------------
(* The player.  A message carries where the pointer was at the time.       *)

Sent(kind, what, x) ==
  /\ Len(msgs) < MaxMsgs
  /\ msgs' = Append(msgs, [kind |-> kind, what |-> what, x |-> x])

\* A key goes down, or repeats because it is held.
KeyDown(k) ==
  /\ k \in DOMAIN SlotOf => inserted[SlotOf[k]] < MaxCoins
  /\ held' = held \cup {k}
  /\ inserted' = [s \in Slots |-> inserted[s] + Coin(k)[s]]
  /\ Sent("keydown", k, point)
  /\ UNCHANGED <<play, point, hostVars>>

KeyUp(k) ==
  /\ k \in held
  /\ held' = held \ {k}
  /\ Sent("keyup", k, point)
  /\ UNCHANGED <<play, point, inserted, hostVars>>

ButtonDown(b) ==
  /\ b \notin held
  /\ held' = held \cup {b}
  /\ Sent("down", b, point)
  /\ UNCHANGED <<play, point, inserted, hostVars>>

ButtonUp(b) ==
  /\ b \in held
  /\ held' = held \ {b}
  /\ Sent("up", b, point)
  /\ UNCHANGED <<play, point, inserted, hostVars>>

Move(x) ==
  /\ x # point
  /\ point' = x
  /\ Sent("move", "none", x)
  /\ UNCHANGED <<play, held, inserted, hostVars>>

Player ==
  \/ \E k \in play \cap Keys : KeyDown(k) \/ KeyUp(k)
  \/ \E b \in play \cap Buttons : ButtonDown(b) \/ ButtonUp(b)
  \/ "pointer" \in play /\ \E x \in Places : Move(x)

----------------------------------------------------------------------------
(* The window procedure.                                                   *)

CabinetKey(c, vk, down) ==
  IF vk \in DOMAIN SwitchOf
  THEN [c EXCEPT !.buttons = IF down THEN @ \cup {SwitchOf[vk]}
                             ELSE @ \ {SwitchOf[vk]}]
  ELSE [c EXCEPT !.coins = [s \in Slots |-> @[s] + IF down THEN Coin(vk)[s] ELSE 0]]

WndProc(w, m) ==
  IF m.kind \in {"keydown", "keyup"}
  THEN [w EXCEPT !.cab = CabinetKey(@, m.what, m.kind = "keydown")]
  ELSE [w EXCEPT !.gun = m.x,
                 !.mouse = CASE m.kind = "down" -> @ \cup {m.what}
                             [] m.kind = "up"   -> @ \ {m.what}
                             [] m.kind = "move" -> @]

\* pump hands every waiting message to the window procedure.
Pumped(w, ms) ==
  LET after[i \in 0 .. Len(ms)] == IF i = 0 THEN w ELSE WndProc(after[i - 1], ms[i])
  IN  after[Len(ms)]

Window == [cab |-> cab, mouse |-> mouse, gun |-> gun]

PumpAll ==
  LET w == Pumped(Window, msgs) IN
  /\ cab' = w.cab /\ mouse' = w.mouse /\ gun' = w.gun
  /\ msgs' = <<>>

\* XPending, XSync and XFlush only pump.
Pump ==
  /\ msgs # <<>>
  /\ PumpAll
  /\ UNCHANGED <<playerVars, frame, autostart>>

Swap ==
  /\ frame < MaxFrame
  /\ frame' = frame + 1
  /\ PumpAll
  /\ UNCHANGED <<playerVars, autostart>>

----------------------------------------------------------------------------
(* host_cabinet_input.                                                     *)

\* cabinet_autostart: a coin once, then start over and over.
Autostarted(c) ==
  LET coined == c.coined \/ frame > CoinAfter
      pressed == frame % Period < Press
  IN IF ~autostart THEN c
     ELSE [coins   |-> [c.coins EXCEPT ![0] = IF coined /\ ~c.coined THEN @ + 1 ELSE @],
           buttons |-> IF ~coined THEN c.buttons
                       ELSE IF pressed THEN c.buttons \cup {"p1start"}
                       ELSE c.buttons \ {"p1start"},
           coined  |-> coined]

\* Mutant: the trigger bits of the previous read are not cleared.
HostCabinetInputSticky(c) ==
  LET a == Autostarted(c) IN
  [a EXCEPT !.buttons =
     @ \cup {s \in {"trigger", "reload"} :
               (IF s = "trigger" THEN "left" ELSE "right") \in mouse}]

HostCabinetInput(c) ==
  LET a == Autostarted(c) IN
  [a EXCEPT !.buttons =
     (@ \ {"trigger", "reload"})
       \cup {s \in {"trigger", "reload"} :
               (IF s = "trigger" THEN "left" ELSE "right") \in mouse}]

----------------------------------------------------------------------------
CabinetTypeOK ==
  /\ held \subseteq play /\ play \in Plays /\ autostart \in Autostarts
  /\ point \in Places \cup {0} /\ gun \in Places \cup {0}
  /\ Len(msgs) <= MaxMsgs
  /\ inserted \in [Slots -> 0 .. MaxCoins]
  /\ cab \in [coins : [Slots -> Nat], coined : BOOLEAN,
              buttons : SUBSET {"p1start", "p2start", "test", "service",
                                "trigger", "reload"}]
  /\ mouse \subseteq Buttons
  /\ frame \in 0 .. MaxFrame
=============================================================================
