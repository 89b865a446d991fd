SPECIFICATION Spec
CONSTANTS
  Buttons = {b1}
  Specials = {k1}
  INQ = 3
  Callbacks = {"display", "mouse", "motion", "special", "special_up",
    "keyboard_up"}
  MaxMessages = 2
  MaxSwaps = 1
  NULL = NULL
INVARIANTS InputSound ViewConverges
PROPERTIES ImplementsEventQueue PostedIsDrawn NoEventStays
CHECK_DEADLOCK FALSE
