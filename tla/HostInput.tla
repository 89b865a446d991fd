----------------------------- MODULE HostInput -----------------------------
(***************************************************************************)
(* From the player's hand to the game: the window procedure and its input  *)
(* ring (hle_window.c) and the GLUT loop that drains it into the game's    *)
(* callbacks (hle_glut.c).                                                 *)
(*                                                                         *)
(* Window messages wait with the host until something pumps: the loop, or  *)
(* a buffer swap made inside any callback.  Pumping runs the window        *)
(* procedure, which tracks what is held and queues events; the loop pops   *)
(* them one by one and calls the game.  The game is modelled by what it    *)
(* can do inside a callback, and by what it believes to be held, which it  *)
(* knows only from its callbacks.                                          *)
(***************************************************************************)
EXTENDS Integers, Sequences

CONSTANTS
  Buttons,      \* mouse buttons
  Specials,     \* keys with a GLUT special number
  INQ,          \* cells of the ring
  Callbacks,    \* the callbacks the game registered
  MaxMessages,  \* bound: what the player does but for moving the mouse
  MaxSwaps,     \* bound: buffer swaps inside one callback
  NULL

ASSUME InputAssumption ==
  /\ INQ \in Nat \ {0, 1}
  /\ Buttons \cap Specials = {}
  /\ NULL \notin Buttons \cup Specials
  /\ MaxMessages \in Nat /\ MaxSwaps \in Nat

VARIABLES
  down,       \* what the player holds down
  sent,       \* how many messages the host has sent, but for mouse moves
  moved,      \* the mouse has moved since a pump last ended
  messages,   \* sent and not yet dispatched to the window procedure
  buttons,    \* g_buttons
  inq, head, tail,
  dropped,    \* in_push has found the ring full
  quit,       \* g_win.quit
  redisplay,  \* g_redisplay
  loop,       \* the loop the game chose: glutMainLoop or glutMainLoopEvent
  pc,         \* where that loop is
  pumpTo,     \* where it goes on when the pump is empty
  backTo,     \* where it goes on when the callback returns
  event,      \* the event being delivered
  swaps,      \* swaps made in this callback
  view        \* what the game believes to be held

hostVars == <<down, sent, moved>>
ringVars == <<inq, head, tail>>
gameVars == <<loop, view>>
vars == <<hostVars, messages, buttons, ringVars, dropped, quit, redisplay,
          gameVars, pc, pumpTo, backTo, event, swaps>>

\* Window messages, and the events in_push makes of them.
CharKinds == {"char", "charup"}
Message == [kind : {"motion", "close"} \cup CharKinds]
           \cup [kind : {"down", "up"}, what : Buttons \cup Specials]
Motion(held) == [kind |-> "motion", held |-> held]
Switch(what, isDown) == [kind |-> "switch", what |-> what, down |-> isDown]
Char(kind) == [kind |-> kind]
Events == {Motion(s) : s \in SUBSET Buttons} \cup {Char(kind) : kind \in CharKinds}
          \cup {Switch(w, d) : w \in Buttons \cup Specials, d \in BOOLEAN}

\* No event is mistaken for the absence of one.
ASSUME NoEventIsNull == NULL \notin Events

PCs == {"reshape", "visibility", "pump", "deliver", "idle", "display",
        "game", "callback", "exited"}

Init ==
  /\ down = {} /\ sent = 0 /\ moved = FALSE /\ messages = <<>>
  /\ buttons = {}
  /\ inq = [i \in 0..INQ - 1 |-> NULL] /\ head = 0 /\ tail = 0
  /\ dropped = FALSE /\ quit = FALSE
  /\ redisplay = TRUE
  /\ loop \in {"main", "event"}
  /\ pc = IF loop = "main" THEN "reshape" ELSE "game"
  /\ pumpTo = NULL /\ backTo = NULL /\ event = NULL /\ swaps = 0
  /\ view = {}

----------------------------------------------------------------------------
(* The player and the host.  Keys repeat while they are held.  Buttons and *)
(* keys are bounded, but the mouse never has to stop: it may move again    *)
(* after every pump, those made inside callbacks included.                 *)

Send(m) ==
  /\ pc # "exited"
  /\ messages' = Append(messages, m)
  /\ UNCHANGED <<buttons, ringVars, dropped, quit, redisplay, gameVars, pc,
                 pumpTo, backTo, event, swaps>>

SendCounted(m) ==
  /\ sent < MaxMessages
  /\ sent' = sent + 1
  /\ UNCHANGED moved
  /\ Send(m)

Press(w) ==
  /\ w \in Buttons => w \notin down
  /\ down' = down \cup {w}
  /\ SendCounted([kind |-> "down", what |-> w])

LetGo(w) ==
  /\ w \in down
  /\ down' = down \ {w}
  /\ SendCounted([kind |-> "up", what |-> w])

Other(kind) == SendCounted([kind |-> kind]) /\ UNCHANGED down

\* One move to a pump, which so comes to an end.
Move ==
  /\ ~moved
  /\ moved' = TRUE
  /\ UNCHANGED <<down, sent>>
  /\ Send([kind |-> "motion"])

----------------------------------------------------------------------------
(* The ring.                                                               *)

Full == (head + 1) % INQ = tail
Queued == [i \in 1..(head - tail + INQ) % INQ |-> inq[(tail + i - 1) % INQ]]

\* Mutant: no test for a full ring.
InPushAlways(e) ==
  /\ inq' = [inq EXCEPT ![head] = e]
  /\ head' = (head + 1) % INQ
  /\ UNCHANGED <<dropped, tail>>

\* in_push: a full ring drops the event.
InPush(e) ==
  /\ IF Full THEN dropped' = TRUE /\ UNCHANGED <<inq, head>>
     ELSE /\ inq' = [inq EXCEPT ![head] = e]
          /\ head' = (head + 1) % INQ
          /\ UNCHANGED dropped
  /\ UNCHANGED tail

\* Mutant: the tail moves before the cell is read.
PopNext(e) ==
  /\ head # tail
  /\ tail' = (tail + 1) % INQ
  /\ e = inq[tail']
  /\ UNCHANGED <<inq, head>>

\* host_input_pop returning 1, with its event in e.
Pop(e) ==
  /\ head # tail
  /\ e = inq[tail]
  /\ tail' = (tail + 1) % INQ
  /\ UNCHANGED <<inq, head>>

----------------------------------------------------------------------------
(* Pumping: PeekMessage until nothing is left, wndproc for each message.   *)

Dispatch(m) ==
  /\ pc = "pump" /\ messages # <<>> /\ Head(messages) = m
  /\ messages' = Tail(messages)
  /\ UNCHANGED <<hostVars, redisplay, gameVars, pc, pumpTo, backTo, event, swaps>>

MouseMove ==
  /\ Dispatch([kind |-> "motion"])
  /\ InPush(Motion(buttons))
  /\ UNCHANGED <<buttons, quit>>

MouseButton(b, isDown) ==
  /\ Dispatch([kind |-> IF isDown THEN "down" ELSE "up", what |-> b])
  /\ buttons' = IF isDown THEN buttons \cup {b} ELSE buttons \ {b}
  /\ InPush(Switch(b, isDown))
  /\ UNCHANGED quit

\* WM_KEYDOWN and WM_KEYUP of a special key: HOST_IN_SPECIAL, HOST_IN_KEYUP.
KeyEvent(k, isDown) ==
  /\ Dispatch([kind |-> IF isDown THEN "down" ELSE "up", what |-> k])
  /\ InPush(Switch(k, isDown))
  /\ UNCHANGED <<buttons, quit>>

\* WM_CHAR, and WM_KEYUP of a key that is not a special one.
CharEvent(kind) ==
  /\ Dispatch([kind |-> kind])
  /\ InPush(Char(kind))
  /\ UNCHANGED <<buttons, quit>>

\* WM_CLOSE, and WM_KEYDOWN of Escape.
Close ==
  /\ Dispatch([kind |-> "close"])
  /\ quit' = TRUE
  /\ UNCHANGED <<buttons, ringVars, dropped>>

PumpEnds ==
  /\ pc = "pump" /\ messages = <<>>
  /\ pc' = IF quit THEN "exited" ELSE pumpTo
  /\ pumpTo' = NULL
  /\ moved' = FALSE
  /\ UNCHANGED <<down, sent, messages, buttons, ringVars, dropped, quit,
                 redisplay, gameVars, backTo, event, swaps>>

Pump(to) == pc' = "pump" /\ pumpTo' = to

----------------------------------------------------------------------------
(* Calling the game.                                                       *)

CallGame(to) ==
  /\ pc' = "callback" /\ backTo' = to /\ swaps' = 0
  /\ UNCHANGED pumpTo

InGame == pc \in {"callback", "game"}

PostRedisplay ==
  /\ InGame
  /\ redisplay' = TRUE
  /\ UNCHANGED <<hostVars, messages, buttons, ringVars, dropped, quit, gameVars,
                 pc, pumpTo, backTo, event, swaps>>

\* glutSwapBuffers pumps before it returns to the callback.
SwapBuffers ==
  /\ InGame
  /\ swaps < MaxSwaps
  /\ swaps' = swaps + 1
  /\ Pump(pc)
  /\ UNCHANGED <<hostVars, messages, buttons, ringVars, dropped, quit, redisplay,
                 gameVars, backTo, event>>

\* Mutant: the flag is cleared when the display callback is over, not before.
ReturnCleared ==
  /\ pc = "callback"
  /\ pc' = backTo /\ backTo' = NULL /\ event' = NULL
  /\ redisplay' = FALSE
  /\ pumpTo' = IF backTo = "pump" THEN "deliver" ELSE NULL
  /\ UNCHANGED <<hostVars, messages, buttons, ringVars, dropped, quit, gameVars>>
  /\ swaps' = 0

Return ==
  /\ pc = "callback"
  /\ pc' = backTo /\ backTo' = NULL /\ event' = NULL
  /\ pumpTo' = IF backTo = "pump" THEN "deliver" ELSE NULL
  /\ UNCHANGED <<hostVars, messages, buttons, ringVars, dropped, quit, redisplay,
                 gameVars>>
  /\ swaps' = 0

----------------------------------------------------------------------------
(* The loop.                                                               *)

LoopStep == UNCHANGED <<hostVars, messages, buttons, dropped, quit, loop>>

\* Before the first frame of glutMainLoop, a reshape and a visibility call.
Startup ==
  /\ \/ pc = "reshape" /\ CallGame("visibility")
     \/ pc = "visibility" /\ CallGame("pump")
  /\ LoopStep /\ UNCHANGED <<ringVars, redisplay, view, event>>

\* The game calls glutMainLoopEvent.
MainLoopEvent ==
  /\ pc = "game"
  /\ Pump("deliver")
  /\ LoopStep /\ UNCHANGED <<ringVars, redisplay, view, event, backTo, swaps>>

\* deliver_input hands one event to the callback it is for, if there is one.
CallbackOf(e) ==
  CASE e.kind = "motion" -> IF e.held = {} THEN "passive" ELSE "motion"
    [] e.kind = "char"   -> "keyboard"
    [] e.kind = "charup" -> "keyboard_up"
    [] OTHER -> IF e.what \in Buttons THEN "mouse"
                ELSE IF e.down THEN "special" ELSE "special_up"

Told(e) ==
  IF e.kind # "switch" THEN view
  ELSE IF e.down THEN view \cup {e.what} ELSE view \ {e.what}

\* Mutant: an event nobody registered for is left where it is.
DeliverWanted(e) ==
  /\ pc = "deliver"
  /\ IF CallbackOf(e) \in Callbacks
     THEN Pop(e) /\ event' = e /\ view' = Told(e) /\ CallGame("deliver")
     ELSE /\ head # tail /\ e = inq[tail]
          /\ UNCHANGED <<ringVars, event, view, pc, pumpTo, backTo, swaps>>
  /\ LoopStep /\ UNCHANGED redisplay

\* Mutant: motion is reported with the buttons of now, not of then.
DeliverLate(e) ==
  /\ pc = "deliver"
  /\ \E f \in Events :
       Pop(f) /\ e = IF f.kind = "motion" THEN Motion(buttons) ELSE f
  /\ event' = e
  /\ IF CallbackOf(e) \in Callbacks
     THEN view' = Told(e) /\ CallGame("deliver")
     ELSE UNCHANGED <<view, pc, pumpTo, backTo, swaps>>
  /\ LoopStep /\ UNCHANGED redisplay

Deliver(e) ==
  /\ pc = "deliver"
  /\ Pop(e)
  /\ event' = e
  /\ IF CallbackOf(e) \in Callbacks
     THEN view' = Told(e) /\ CallGame("deliver")
     ELSE UNCHANGED <<view, pc, pumpTo, backTo, swaps>>
  /\ LoopStep /\ UNCHANGED redisplay

Delivered ==
  /\ pc = "deliver" /\ head = tail
  /\ event' = NULL
  /\ pc' = IF loop = "main" THEN "idle" ELSE "display"
  /\ LoopStep /\ UNCHANGED <<ringVars, redisplay, view, pumpTo, backTo, swaps>>

Idle ==
  /\ pc = "idle"
  /\ IF "idle" \in Callbacks THEN CallGame("display")
     ELSE pc' = "display" /\ UNCHANGED <<pumpTo, backTo, swaps>>
  /\ LoopStep /\ UNCHANGED <<ringVars, redisplay, view, event>>

\* Where an iteration ends: glutMainLoop goes round, glutMainLoopEvent returns.
Around == IF loop = "main" THEN "pump" ELSE "game"

Display ==
  /\ pc = "display"
  /\ redisplay /\ "display" \in Callbacks
  /\ redisplay' = FALSE
  /\ CallGame(Around)
  /\ LoopStep /\ UNCHANGED <<ringVars, view, event>>

\* Sleep(1), or another idle callback.
NothingToDraw ==
  /\ pc = "display"
  /\ ~redisplay \/ "display" \notin Callbacks
  /\ pc' = Around /\ swaps' = 0
  /\ pumpTo' = IF loop = "main" THEN "deliver" ELSE NULL
  /\ LoopStep /\ UNCHANGED <<ringVars, redisplay, view, event, backTo>>

----------------------------------------------------------------------------
Player ==
  \/ \E w \in Buttons \cup Specials : Press(w) \/ LetGo(w)
  \/ \E kind \in CharKinds \cup {"close"} : Other(kind)
  \/ Move

WndProc ==
  \/ MouseMove \/ Close
  \/ \E kind \in CharKinds : CharEvent(kind)
  \/ \E isDown \in BOOLEAN :
       \/ \E b \in Buttons : MouseButton(b, isDown)
       \/ \E k \in Specials : KeyEvent(k, isDown)

Loop ==
  \/ WndProc \/ PumpEnds \/ Startup \/ MainLoopEvent
  \/ (\E e \in Events : Deliver(e)) \/ Delivered
  \/ Idle \/ Display \/ NothingToDraw \/ Return

Next == Player \/ Loop \/ PostRedisplay \/ SwapBuffers

\* The loop goes on, and every callback of the game returns.
Spec == Init /\ [][Next]_vars /\ WF_vars(Loop)

----------------------------------------------------------------------------
TypeOK ==
  /\ down \subseteq Buttons \cup Specials
  /\ sent \in 0..MaxMessages /\ moved \in BOOLEAN
  /\ messages \in Seq(Message)
  /\ buttons \subseteq Buttons
  /\ inq \in [0..INQ - 1 -> Events \cup {NULL}]
  /\ head \in 0..INQ - 1 /\ tail \in 0..INQ - 1
  /\ dropped \in BOOLEAN /\ quit \in BOOLEAN /\ redisplay \in BOOLEAN
  /\ loop \in {"main", "event"}
  /\ pc \in PCs /\ pumpTo \in PCs \cup {NULL} /\ backTo \in PCs \cup {NULL}
  /\ event \in Events \cup {NULL}
  /\ swaps \in 0..MaxSwaps
  /\ view \subseteq Buttons \cup Specials

\* The game is told when w goes down and when it comes up.
Heard(w) == \A isDown \in BOOLEAN : CallbackOf(Switch(w, isDown)) \in Callbacks

\* Once everything the host sent has been delivered, the game believes held
\* what the player holds, of all it hears of, if the ring never overflowed.
ViewConverges ==
  messages = <<>> /\ head = tail /\ ~dropped =>
    \A w \in Buttons \cup Specials : Heard(w) => (w \in view <=> w \in down)

\* A drag is a drag: the motion callback runs exactly when the game, if it hears
\* of buttons, has last been told of a held one, however late the event comes.
MotionAgrees ==
  event # NULL /\ pc = "callback" /\ ~dropped /\ event.kind = "motion" =>
    \A b \in Buttons : Heard(b) => (b \in event.held <=> b \in view)

\* Every variable keeps its type, and a drag is a drag (hle_window.c:202).
InputSound == TypeOK /\ MotionAgrees

\* A redraw the game posts, whenever it posts it, is drawn, if the loop comes to
\* an empty ring again and again: while input callbacks swap and each swap finds
\* the mouse moved, deliver_input need never return (hle_glut.c:88).
RingRunsDry == []<>(pc = "deliver" /\ head = tail)
Drawing == pc = "callback" /\ backTo = Around /\ ~redisplay
PostedIsDrawn == RingRunsDry => (redisplay ~> Drawing)

\* No event stays in the ring: the oldest is taken out in the end, however much
\* input keeps coming while it waits or is delivered, or the window is closed.
NoEventStays ==
  \A i \in 0..INQ - 1 :
    head # tail /\ tail = i ~> tail # i \/ pc = "exited"

\* The event in_push will be given for the i-th message, if any: a motion
\* carries the buttons as the messages before it leave them.
About(i, w) == messages[i].kind \in {"down", "up"} /\ messages[i].what = w

HeldBefore(i) ==
  {b \in Buttons :
     \/ b \in buttons /\ \A j \in 1..i - 1 : ~About(j, b)
     \/ \E j \in 1..i - 1 : /\ About(j, b) /\ messages[j].kind = "down"
                           /\ \A k \in j + 1..i - 1 : ~About(k, b)}

EventOf(i) ==
  CASE messages[i].kind = "motion" -> Motion(HeldBefore(i))
    [] messages[i].kind \in CharKinds -> Char(messages[i].kind)
    [] messages[i].kind = "close"  -> NULL
    [] OTHER -> Switch(messages[i].what, messages[i].kind = "down")

\* The ring is a bounded queue between the host's messages and the game.
Ring == INSTANCE EventQueue WITH
  Capacity <- INQ - 1,
  Nothing <- NULL,
  source <- [i \in DOMAIN messages |-> EventOf(i)],
  queue <- Queued,
  taken <- event
ImplementsEventQueue == Ring!Spec
=============================================================================
