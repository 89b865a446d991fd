---------------------------- MODULE NonVolatile ----------------------------
(***************************************************************************)
(* What the board's backup memory promises the game: reads return what was *)
(* written, an access outside a device is refused, a write that is         *)
(* answered has been kept, and a restart brings back a whole image that    *)
(* was kept or a blank one, never a mixture.  There is no file here.       *)
(***************************************************************************)
EXTENDS Integers, Sequences

CONSTANTS
  Calls,       \* the calls the game can make
  Inside(_),   \* whether a call stays inside its device
  Fetch(_, _), \* the bytes a read takes from an image
  Put(_, _),   \* an image with the bytes of a write in place
  Ok(_),       \* the answer that carries these bytes
  Refused,     \* the answer to a call that does not
  Blank,       \* the image of a board that was never written
  Faulty,      \* the medium may fail
  NULL

VARIABLES
  image,    \* what reads return
  kept,     \* what reads will return after a restart
  asked,    \* the call being served
  answer    \* the answer to the last call

vars == <<image, kept, asked, answer>>

Init ==
  /\ image = kept
  /\ asked = NULL
  /\ answer = NULL

Ask(c) ==
  /\ asked = NULL
  /\ asked' = c
  /\ answer' = NULL
  /\ UNCHANGED <<image, kept>>

Answer(a) == answer' = a /\ asked' = NULL /\ UNCHANGED <<image, kept>>

Refuse == asked # NULL /\ ~Inside(asked) /\ Answer(Refused)

Read ==
  /\ asked # NULL /\ Inside(asked) /\ ~asked.writing
  /\ Answer(Ok(Fetch(image, asked)))

Write ==
  /\ asked # NULL /\ Inside(asked) /\ asked.writing
  /\ image' = Put(image, asked)
  /\ UNCHANGED <<kept, asked, answer>>

\* While a write is being kept the old image is already gone.
Erase ==
  /\ asked # NULL
  /\ kept' = Blank
  /\ UNCHANGED <<image, asked, answer>>

Keep ==
  /\ asked # NULL
  /\ kept' = image
  /\ UNCHANGED <<image, asked, answer>>

Confirm ==
  /\ asked # NULL /\ Inside(asked) /\ asked.writing
  /\ image = Put(image, asked)
  /\ kept = image \/ Faulty
  /\ Answer(Ok(<<>>))

Restart ==
  /\ image' = kept /\ kept' = kept
  /\ asked' = NULL
  /\ answer' = NULL

\* A medium that cannot be read looks like a board that was never written.
Forget ==
  /\ Faulty
  /\ image' = Blank
  /\ UNCHANGED <<kept, asked, answer>>

Next ==
  \/ \E c \in Calls : Ask(c)
  \/ Refuse \/ Read \/ Write \/ Erase \/ Keep \/ Confirm \/ Restart \/ Forget

Spec == Init /\ [][Next]_vars
=============================================================================
