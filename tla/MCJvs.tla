-------------------------------- MODULE MCJvs --------------------------------
(* Values for checking Jvs: requests as a gun game makes them, the longest   *)
(* reply exactly as long as its length byte can say.                         *)
EXTENDS Jvs

Cmd(code, p1, p2) == [code |-> code, p1 |-> p1, p2 |-> p2]
RequestsValue ==
  {<<>>,
   <<Cmd("ident", 0, 0)>>,
   <<Cmd("features", 0, 0), Cmd("revision", 0, 0), Cmd("other", 0, 0)>>,
   <<Cmd("switches", 2, 2), Cmd("rotary", 1, 0)>>,
   <<Cmd("switches", 3, 0), Cmd("astray", 0, 0), Cmd("coins", 1, 0)>>,
   <<Cmd("coins", 2, 0), Cmd("analog", 2, 0)>>}
PlaysValue ==
  {{"5", "1"}, {"6", "2"}, {"T", "other"}, {"S", "right"}, {"left", "pointer"}}
PlacesValue == {-1, 4, 5}

(* What the theorems about Jvs suppose holds of these values.                *)
ASSUME RequestsFit /\ ValuesFit
=============================================================================
