--------------------------- MODULE Graphics_proofs ---------------------------
(***************************************************************************)
(* What holds of the graphics handlers for any capabilities, targets,      *)
(* options and names: the watched calls leave the driver the state the     *)
(* guest gave it, and the addresses of entry points keep their meaning.    *)
(***************************************************************************)
EXTENDS Graphics, FiniteSetTheorems, WellFoundedInduction, TLAPS

----------------------------------------------------------------------------
(* The watched calls.                                                      *)

GlStates ==
  [fbo : Targets, live : SUBSET Targets, on : SUBSET Capabilities,
   read : [Targets -> {"own", "front"}], pack : {1, 4}, unit : Units,
   clear : {"black", "blue"}, paint : {"own", "trial"},
   fprog : {"none", "own", "solid"}, error : BOOLEAN]

Bindable(s) == {s.fbo, 0} \subseteq s.live

\* Every variable of the watch, with the driver's states spelled out.
WatchShape ==
  /\ option \in Options
  /\ drv \in GlStates /\ game \in GlStates /\ Bindable(drv) /\ Bindable(game)
  /\ curFbo \in Targets /\ vpOn \in BOOLEAN /\ astray \subseteq {"target", "pipeline"}
  /\ compiling \in BOOLEAN /\ inBegin \in BOOLEAN
  /\ frame \in 0..MaxFrame /\ nth \in 0..MaxDraws /\ looks \in 0..ClearLooks

TraceOn == "TRACE" \in option /\ frame >= TraceFrame
ShotOn == "SHOT" \in option /\ frame > ShotFrame
NoVp == "NO_VP" \in option
NoFp == "NO_FP" \in option
NoReject == "NO_REJECT" \in option
Unbound == "NO_FBO" \in option

\* GameStateKept, field by field.
FieldsKept ==
  /\ drv.fbo = game.fbo \/ Unbound \/ Stats
  /\ drv.live = game.live \/ Unbound \/ Stats
  /\ drv.on = game.on \/ NoVp \/ NoFp \/ NoReject \/ Stats
  /\ drv.read = game.read \/ Unbound \/ TraceOn \/ ShotOn \/ Stats
  /\ drv.pack = game.pack \/ TraceOn \/ ShotOn \/ Stats
  /\ drv.unit = game.unit \/ TraceOn
  /\ drv.clear = game.clear \/ Stats
  /\ drv.paint = game.paint \/ Stats
  /\ drv.fprog = game.fprog \/ "FP_SOLID" \in option
  /\ (drv.error => game.error) \/ Unbound \/ TraceOn \/ ShotOn \/ Stats

WatchInv == WatchShape /\ FieldsKept /\ MirrorsTrue

LEMMA FieldsSuffice == WatchShape /\ FieldsKept => GameStateKept
<1> SUFFICES ASSUME WatchShape, FieldsKept, NEW f \in DOMAIN drv
             PROVE  \/ IF f = "error" THEN drv.error => game.error ELSE drv[f] = game[f]
                    \/ \E o \in option : Awake(o) /\ f \in Touches(o)
  BY DEF GameStateKept
<1>1. f \in {"fbo", "live", "on", "read", "pack", "unit", "clear", "paint", "fprog", "error"}
  BY DEF WatchShape, GlStates
<1>2. /\ Awake("NO_FBO") /\ Awake("NO_VP") /\ Awake("NO_FP") /\ Awake("NO_REJECT")
      /\ Awake("FP_SOLID") /\ Awake("FBSTATS")
      /\ frame >= TraceFrame => Awake("TRACE")
      /\ frame > ShotFrame => Awake("SHOT")
  BY DEF Awake
<1>3. /\ Touches("NO_FBO") = {"fbo", "live", "read", "error"}
      /\ Touches("NO_VP") = {"on"} /\ Touches("NO_FP") = {"on"} /\ Touches("NO_REJECT") = {"on"}
      /\ Touches("FP_SOLID") = {"fprog"}
      /\ Touches("TRACE") = {"read", "pack", "unit", "error"}
      /\ Touches("SHOT") = {"read", "pack", "error"}
      /\ Touches("FBSTATS") = {"fbo", "live", "on", "read", "pack", "clear", "paint", "error"}
  BY DEF Touches
<1> QED
  BY <1>1, <1>2, <1>3 DEF FieldsKept, Unbound, Stats, NoVp, NoFp, NoReject, TraceOn, ShotOn

\* A call changes the fields it is about and keeps the rest.
LEMMA CallsKeep ==
  ASSUME NEW s \in GlStates, Bindable(s)
  PROVE  /\ \A fb \in Targets : GlBind(s, fb) \in GlStates /\ Bindable(GlBind(s, fb))
         /\ \A fb \in Fbos : GlDelete(s, fb) \in GlStates /\ Bindable(GlDelete(s, fb))
         /\ \A cap \in Capabilities : GlEnable(s, cap) \in GlStates /\ Bindable(GlEnable(s, cap))
         /\ \A caps : GlDisable(s, caps) \in GlStates /\ Bindable(GlDisable(s, caps))
         /\ \A of \in Targets, b \in {"own", "front"} :
              GlReadBuffer(s, of, b) \in GlStates /\ Bindable(GlReadBuffer(s, of, b))
         /\ \A n \in {1, 4} : GlPackAlignment(s, n) \in GlStates /\ Bindable(GlPackAlignment(s, n))
         /\ \A u \in Units : GlActiveTexture(s, u) \in GlStates /\ Bindable(GlActiveTexture(s, u))
         /\ \A c \in {"black", "blue"} : GlClearColour(s, c) \in GlStates /\ Bindable(GlClearColour(s, c))
         /\ \A p \in {"own", "trial"} : GlPaint(s, p) \in GlStates /\ Bindable(GlPaint(s, p))
         /\ \A p \in {"own", "solid"} : GlProgram(s, p) \in GlStates /\ Bindable(GlProgram(s, p))
         /\ \A good \in BOOLEAN : GlUpload(s, good) \in GlStates /\ Bindable(GlUpload(s, good))
         /\ GlGetError(s) \in GlStates /\ Bindable(GlGetError(s))
<1> USE DEF GlStates, Bindable, Targets
<1>1. \A fb \in Targets : GlBind(s, fb) \in GlStates /\ Bindable(GlBind(s, fb))
  BY DEF GlBind
<1>2. \A fb \in Fbos : GlDelete(s, fb) \in GlStates /\ Bindable(GlDelete(s, fb))
  BY ZenonT(60), WatchAssumption DEF GlDelete, WatchAssumption
<1>3. \A cap \in Capabilities : GlEnable(s, cap) \in GlStates /\ Bindable(GlEnable(s, cap))
  BY DEF GlEnable
<1>4. \A caps : GlDisable(s, caps) \in GlStates /\ Bindable(GlDisable(s, caps))
  BY DEF GlDisable
<1>5. \A of \in Targets, b \in {"own", "front"} :
        GlReadBuffer(s, of, b) \in GlStates /\ Bindable(GlReadBuffer(s, of, b))
  BY DEF GlReadBuffer
<1>6. \A n \in {1, 4} : GlPackAlignment(s, n) \in GlStates /\ Bindable(GlPackAlignment(s, n))
  BY DEF GlPackAlignment
<1>7. \A u \in Units : GlActiveTexture(s, u) \in GlStates /\ Bindable(GlActiveTexture(s, u))
  BY DEF GlActiveTexture
<1>8. \A c \in {"black", "blue"} : GlClearColour(s, c) \in GlStates /\ Bindable(GlClearColour(s, c))
  BY DEF GlClearColour
<1>9. /\ \A p \in {"own", "trial"} : GlPaint(s, p) \in GlStates /\ Bindable(GlPaint(s, p))
      /\ \A p \in {"own", "solid"} : GlProgram(s, p) \in GlStates /\ Bindable(GlProgram(s, p))
  BY DEF GlPaint, GlProgram
<1>10. /\ \A good \in BOOLEAN : GlUpload(s, good) \in GlStates /\ Bindable(GlUpload(s, good))
       /\ GlGetError(s) \in GlStates /\ Bindable(GlGetError(s))
  BY DEF GlUpload, GlGetError
<1> QED
  BY <1>1, <1>2, <1>3, <1>4, <1>5, <1>6, <1>7, <1>8, <1>9, <1>10

\* Reading pixels sets how they are read, and no more; of an offscreen target
\* while the default one is bound, or the other way round, it is an error.
LEMMA Probing ==
  ASSUME NEW s \in GlStates, Bindable(s), NEW target \in Targets
  PROVE  LET p == Probed(s, target)
         IN  /\ p \in GlStates /\ Bindable(p)
             /\ p.fbo = s.fbo /\ p.live = s.live /\ p.on = s.on /\ p.unit = s.unit
             /\ p.clear = s.clear /\ p.paint = s.paint /\ p.fprog = s.fprog
<1> DEFINE r == GlReadBuffer(s, target, "own")
<1>1. /\ r \in GlStates /\ Bindable(r)
      /\ r.fbo = s.fbo /\ r.live = s.live /\ r.on = s.on /\ r.unit = s.unit
      /\ r.clear = s.clear /\ r.paint = s.paint /\ r.fprog = s.fprog
  <2>1. r \in GlStates /\ Bindable(r)
    BY CallsKeep
  <2> QED
    BY <2>1 DEF GlReadBuffer, GlStates
<1>2. Probed(s, target) = GlPackAlignment(r, 1)
  BY DEF Probed
<1> HIDE DEF r
<1>3. Probed(s, target) \in GlStates /\ Bindable(Probed(s, target))
  BY <1>1, <1>2, CallsKeep
<1> QED
  BY <1>1, <1>2, <1>3 DEF GlPackAlignment, GlStates

\* Looking at a frame leaves the program and the active unit alone; without
\* the statistics all but how pixels are read, and that unless a shot is taken.
LEMMA Inspecting ==
  ASSUME NEW s \in GlStates, Bindable(s), WatchShape
  PROVE  LET i == InspectFrame(s)
         IN  /\ i \in GlStates /\ Bindable(i)
             /\ i.unit = s.unit /\ i.fprog = s.fprog
             /\ ~Stats => /\ i.fbo = s.fbo /\ i.live = s.live /\ i.on = s.on
                          /\ i.clear = s.clear /\ i.paint = s.paint
                          /\ ~ShotNow => i = s
<1>1. CASE ~Stats
  <2>1. Reported(s) = s /\ ClearTried(s) = s /\ QuadTried(s) = s
    BY <1>1 DEF Reported, ClearTried, QuadTried, WantStats
  <2>2. \A r : Scanned(r) = r
    BY <1>1 DEF Scanned
  <2>3. InspectFrame(s) = IF ShotNow THEN Probed(s, 0) ELSE s
    BY <1>1, <2>1, <2>2 DEF InspectFrame, WantStats
  <2>4. 0 \in Targets
    BY DEF Targets
  <2> QED
    BY <1>1, <2>3, <2>4, Probing
<1>2. CASE Stats
  <2> DEFINE a == Reported(s)
             b == ClearTried(a)
             c == QuadTried(b)
             d == Probed(c, 0)
             e == Scanned(d)
             Same(x, y) == x.unit = y.unit /\ x.fprog = y.fprog
  <2>1. a \in GlStates /\ Bindable(a) /\ Same(a, s)
    <3>1. GlGetError(s) \in GlStates /\ Bindable(GlGetError(s))
      BY CallsKeep
    <3>2. Same(GlGetError(s), s)
      BY DEF GlGetError, GlStates
    <3> QED
      BY <3>1, <3>2 DEF Reported
  <2> HIDE DEF a
  <2>2. b \in GlStates /\ Bindable(b) /\ Same(b, a)
    <3>1. GlClearColour(a, "blue") \in GlStates /\ Bindable(GlClearColour(a, "blue"))
      BY <2>1, CallsKeep
    <3>2. Same(GlClearColour(a, "blue"), a)
      BY <2>1 DEF GlClearColour, GlStates
    <3> QED
      BY <2>1, <3>1, <3>2 DEF ClearTried
  <2> HIDE DEF b
  <2>3. c \in GlStates /\ Bindable(c) /\ Same(c, b)
    <3> DEFINE k == GlClearColour(b, "black")
               l == GlDisable(k, Capabilities)
               p == GlPaint(l, "trial")
               m == GlGetError(p)
    <3>1. k \in GlStates /\ Bindable(k) /\ Same(k, b)
      <4>1. k \in GlStates /\ Bindable(k)
        BY <2>2, CallsKeep
      <4> QED
        BY <2>2, <4>1 DEF GlClearColour, GlStates
    <3> HIDE DEF k
    <3>2. l \in GlStates /\ Bindable(l) /\ Same(l, k)
      <4>1. l \in GlStates /\ Bindable(l)
        BY <3>1, CallsKeep
      <4> QED
        BY <3>1, <4>1 DEF GlDisable, GlStates
    <3> HIDE DEF l
    <3>3. p \in GlStates /\ Bindable(p) /\ Same(p, l)
      <4>1. p \in GlStates /\ Bindable(p)
        BY <3>2, CallsKeep
      <4> QED
        BY <3>2, <4>1 DEF GlPaint, GlStates
    <3> HIDE DEF p
    <3>4. m \in GlStates /\ Bindable(m) /\ Same(m, p)
      <4>1. m \in GlStates /\ Bindable(m)
        BY <3>3, CallsKeep
      <4> QED
        BY <3>3, <4>1 DEF GlGetError, GlStates
    <3>5. c = m \/ c = b
      BY DEF QuadTried, k, l, p
    <3> HIDE DEF m
    <3> QED
      BY <2>2, <3>1, <3>2, <3>3, <3>4, <3>5
  <2> HIDE DEF c
  <2>4. d \in GlStates /\ Bindable(d) /\ Same(d, c)
    <3>1. 0 \in Targets
      BY DEF Targets
    <3> QED
      BY <2>3, <3>1, Probing
  <2> HIDE DEF d
  <2>5. e \in GlStates /\ Bindable(e) /\ Same(e, d)
    BY <2>4 DEF Scanned, GlBind, GlPackAlignment, GlStates, Bindable, Targets
  <2> HIDE DEF e
  <2>6. InspectFrame(s) = e \/ InspectFrame(s) = a
    BY DEF InspectFrame, a, b, c, d, e
  <2> HIDE DEF Same
  <2>7. Same(e, s) /\ Same(a, s)
    BY <2>1, <2>2, <2>3, <2>4, <2>5 DEF Same
  <2> QED
    BY <1>2, <2>1, <2>5, <2>6, <2>7 DEF Same
<1> QED
  BY <1>1, <1>2

\* Asking for the error after a call clears it and nothing else.
SameButError(r, s) ==
  /\ r.fbo = s.fbo /\ r.live = s.live /\ r.on = s.on /\ r.read = s.read /\ r.pack = s.pack
  /\ r.unit = s.unit /\ r.clear = s.clear /\ r.paint = s.paint /\ r.fprog = s.fprog
  /\ r.error => s.error

LEMMA Dispatching ==
  ASSUME NEW s \in GlStates, Bindable(s)
  PROVE  /\ Dispatched(s) \in GlStates /\ Bindable(Dispatched(s))
         /\ SameButError(Dispatched(s), s)
         /\ SameButError(GlGetError(s), s)
<1>1. GlGetError(s) \in GlStates /\ Bindable(GlGetError(s))
  BY CallsKeep
<1>2. SameButError(GlGetError(s), s) /\ SameButError(s, s)
  BY DEF GlGetError, GlStates, SameButError
<1> QED
  BY <1>1, <1>2 DEF Dispatched

LEMMA WatchStarts == WatchInit => WatchInv
<1> SUFFICES ASSUME WatchInit PROVE WatchInv
  OBVIOUS
<1>1. GlInit \in GlStates /\ Bindable(GlInit) /\ GlInit.fbo = 0 /\ GlInit.on = {}
  BY WatchAssumption DEF WatchAssumption, GlInit, GlStates, Bindable, Targets
<1>2. WatchShape
  <2>1. 0 \in Targets /\ 0 \in 0..MaxFrame /\ 0 \in 0..MaxDraws /\ 0 \in 0..ClearLooks
    BY WatchAssumption DEF WatchAssumption, Targets
  <2> QED
    BY <1>1, <2>1 DEF WatchInit, WatchShape
<1>3. FieldsKept
  BY DEF WatchInit, FieldsKept
<1>4. MirrorsTrue
  <2>1. ~vpOn /\ "vp" \notin drv.on
    BY <1>1 DEF WatchInit
  <2> QED
    BY <1>1, <2>1 DEF MirrorsTrue, WatchInit
<1> QED
  BY <1>2, <1>3, <1>4 DEF WatchInv

\* What the handlers do not note they are not held to, if what it changes is
\* counted as left behind.
LEMMA Mirroring ==
  ASSUME MirrorsTrue, UNCHANGED <<curFbo, vpOn>>, astray \subseteq astray',
         drv'.fbo = drv.fbo \/ "target" \in astray',
         ("vp" \in drv'.on <=> "vp" \in drv.on) \/ "pipeline" \in astray'
  PROVE  MirrorsTrue'
<1>1. curFbo' = drv'.fbo \/ "target" \in astray'
  BY DEF MirrorsTrue
<1>2. (vpOn' <=> "vp" \in drv'.on) \/ "pipeline" \in astray'
  <2>1. (vpOn <=> "vp" \in drv.on) \/ "pipeline" \in astray'
    <3>1. (vpOn <=> "vp" \in drv.on) \/ "pipeline" \in astray
      BY Zenon DEF MirrorsTrue
    <3>2. "pipeline" \in astray => "pipeline" \in astray'
      OBVIOUS
    <3> QED
      BY <3>1, <3>2, Zenon
  <2> QED
    BY <2>1, Zenon
<1> QED
  BY <1>1, <1>2, Zenon DEF MirrorsTrue

\* Parted says exactly that.
LEMMA Parting ==
  ASSUME astray' = astray \cup Parted(drv, drv')
  PROVE  /\ astray \subseteq astray'
         /\ drv'.fbo = drv.fbo \/ "target" \in astray'
         /\ ("vp" \in drv'.on <=> "vp" \in drv.on) \/ "pipeline" \in astray'
         /\ astray \subseteq {"target", "pipeline"} => astray' \subseteq {"target", "pipeline"}
<1> DEFINE P == Parted(drv, drv')
<1>1. P \subseteq {"target", "pipeline"}
  BY DEF Parted
<1>2. drv'.fbo = drv.fbo \/ "target" \in P
  BY DEF Parted
<1>3. ("vp" \in drv'.on <=> "vp" \in drv.on) \/ "pipeline" \in P
  <2>1. CASE "pipeline" \in P
    BY <2>1
  <2>2. CASE "pipeline" \notin P
    <3>1. ("vp" \in drv'.on) = ("vp" \in drv.on)
      BY <2>2 DEF Parted
    <3> QED
      BY <3>1
  <2> QED
    BY <2>1, <2>2
<1>4. astray' = astray \cup P
  OBVIOUS
<1> HIDE DEF P
<1> QED
  BY <1>1, <1>2, <1>3, <1>4

\* A call that leaves which target is bound and what is enabled alone, in both
\* states, and what it changes in the guest's it changes in the driver's.
LEMMA Forwarding ==
  ASSUME WatchInv, NEW g \in GlStates, NEW d \in GlStates, Bindable(g), Bindable(d),
         Forward(g, d),
         d.fbo = drv.fbo, g.fbo = game.fbo, d.live = drv.live, g.live = game.live,
         d.on = drv.on, g.on = game.on, d.clear = drv.clear, g.clear = game.clear,
         d.paint = drv.paint, g.paint = game.paint, d.fprog = drv.fprog, g.fprog = game.fprog,
         d.read = g.read \/ drv.read # game.read \/ drv.fbo # game.fbo,
         d.pack = g.pack \/ (d.pack = drv.pack /\ g.pack = game.pack),
         d.unit = g.unit \/ (d.unit = drv.unit /\ g.unit = game.unit),
         (d.error => g.error) \/ (drv.error /\ ~game.error) \/ drv.fbo # game.fbo
  PROVE  WatchInv'
<1>1. /\ game' = g /\ drv' = Dispatched(d) /\ astray' = astray \cup Parted(drv, drv')
      /\ UNCHANGED <<option, curFbo, vpOn, compiling, inBegin, nth, looks, frame>>
  BY DEF Forward
<1>2. drv' \in GlStates /\ Bindable(drv') /\ SameButError(drv', d)
  BY <1>1, Dispatching
<1>3. WatchShape'
  BY <1>1, <1>2, Parting DEF WatchInv, WatchShape, Bindable
<1>4. FieldsKept'
  BY <1>1, <1>2 DEF WatchInv, FieldsKept, SameButError, TraceOn, ShotOn, NoVp, NoFp, NoReject,
                    Unbound, Stats
<1>5. MirrorsTrue'
  BY <1>1, Parting, Mirroring DEF WatchInv
<1> QED
  BY <1>3, <1>4, <1>5 DEF WatchInv

LEMMA ForwardedCalls ==
  ASSUME WatchInv,
         \/ \E b \in {"front", "own"} : ReadBuffer(0, b)
         \/ \E n \in {1, 4} : PixelStore(n)
         \/ \E u \in Units : ActiveTexture(u)
         \/ Look \/ GetError
  PROVE  WatchInv'
<1> USE DEF WatchInv, WatchShape
<1>1. ASSUME NEW b \in {"front", "own"}, ReadBuffer(0, b) PROVE WatchInv'
  <2> DEFINE g == GlReadBuffer(game, 0, b)
             d == GlReadBuffer(drv, 0, b)
  <2>1. g \in GlStates /\ d \in GlStates /\ Bindable(g) /\ Bindable(d)
    BY CallsKeep DEF Targets
  <2>2. /\ d.fbo = drv.fbo /\ d.live = drv.live /\ d.on = drv.on /\ d.clear = drv.clear
        /\ d.paint = drv.paint /\ d.fprog = drv.fprog /\ d.pack = drv.pack /\ d.unit = drv.unit
        /\ g.fbo = game.fbo /\ g.live = game.live /\ g.on = game.on /\ g.clear = game.clear
        /\ g.paint = game.paint /\ g.fprog = game.fprog /\ g.pack = game.pack /\ g.unit = game.unit
    BY DEF GlReadBuffer, GlStates
  <2>3. d.read = g.read \/ drv.read # game.read \/ drv.fbo # game.fbo
    BY DEF GlReadBuffer, GlStates
  <2>4. (d.error => g.error) \/ (drv.error /\ ~game.error) \/ drv.fbo # game.fbo
    BY DEF GlReadBuffer, GlStates
  <2>5. Forward(g, d)
    BY <1>1 DEF ReadBuffer
  <2> HIDE DEF g, d
  <2> QED
    BY <2>1, <2>2, <2>3, <2>4, <2>5, Forwarding
<1>2. ASSUME NEW n \in {1, 4}, PixelStore(n) PROVE WatchInv'
  <2> DEFINE g == GlPackAlignment(game, n)
             d == GlPackAlignment(drv, n)
  <2>1. g \in GlStates /\ d \in GlStates /\ Bindable(g) /\ Bindable(d)
    BY CallsKeep
  <2>2. /\ d.fbo = drv.fbo /\ d.live = drv.live /\ d.on = drv.on /\ d.clear = drv.clear
        /\ d.paint = drv.paint /\ d.fprog = drv.fprog /\ d.pack = g.pack /\ d.unit = drv.unit
        /\ g.fbo = game.fbo /\ g.live = game.live /\ g.on = game.on /\ g.clear = game.clear
        /\ g.paint = game.paint /\ g.fprog = game.fprog /\ g.unit = game.unit
        /\ d.read = drv.read /\ g.read = game.read /\ d.error = drv.error /\ g.error = game.error
    BY DEF GlPackAlignment, GlStates
  <2>3. Forward(g, d)
    BY <1>2 DEF PixelStore
  <2> HIDE DEF g, d
  <2> QED
    BY <2>1, <2>2, <2>3, Forwarding
<1>3. ASSUME NEW u \in Units, ActiveTexture(u) PROVE WatchInv'
  <2> DEFINE g == GlActiveTexture(game, u)
             d == GlActiveTexture(drv, u)
  <2>1. g \in GlStates /\ d \in GlStates /\ Bindable(g) /\ Bindable(d)
    BY CallsKeep
  <2>2. /\ d.fbo = drv.fbo /\ d.live = drv.live /\ d.on = drv.on /\ d.clear = drv.clear
        /\ d.paint = drv.paint /\ d.fprog = drv.fprog /\ d.pack = drv.pack /\ d.unit = g.unit
        /\ g.fbo = game.fbo /\ g.live = game.live /\ g.on = game.on /\ g.clear = game.clear
        /\ g.paint = game.paint /\ g.fprog = game.fprog /\ g.pack = game.pack
        /\ d.read = drv.read /\ g.read = game.read /\ d.error = drv.error /\ g.error = game.error
    BY DEF GlActiveTexture, GlStates
  <2>3. Forward(g, d)
    BY <1>3 DEF ActiveTexture
  <2> HIDE DEF g, d
  <2> QED
    BY <2>1, <2>2, <2>3, Forwarding
<1>4. CASE Look
  BY <1>4, Forwarding DEF Look
<1>5. CASE GetError
  <2> DEFINE g == GlGetError(game)
             d == GlGetError(drv)
  <2>1. g \in GlStates /\ d \in GlStates /\ Bindable(g) /\ Bindable(d)
    BY CallsKeep
  <2>2. SameButError(d, drv) /\ SameButError(g, game) /\ d.error = FALSE
    BY Dispatching DEF GlGetError, GlStates
  <2>3. Forward(g, d)
    BY <1>5 DEF GetError
  <2> HIDE DEF g, d
  <2> QED
    BY <2>1, <2>2, <2>3, Forwarding DEF SameButError
<1> QED
  BY <1>1, <1>2, <1>3, <1>4, <1>5

LEMMA TargetCalls ==
  ASSUME WatchInv,
         \/ \E fb \in Targets : BindFramebuffer(fb)
         \/ \E fb \in Fbos : DeleteFramebuffer(fb)
  PROVE  WatchInv'
<1> USE DEF WatchInv, WatchShape
<1>1. ASSUME NEW fb \in Targets, BindFramebuffer(fb) PROVE WatchInv'
  <2> DEFINE to == Bound(fb)
             g == GlBind(game, fb)
             d == GlBind(drv, to)
  <2>1. to \in Targets /\ (~Unbound => to = fb)
    BY DEF Bound, Unbound, Targets
  <2>2. /\ game' = g /\ drv' = d /\ curFbo' = to /\ astray' = astray \ {"target"}
        /\ UNCHANGED <<option, vpOn, compiling, inBegin, nth, looks, frame>>
    BY <1>1 DEF BindFramebuffer, Noted
  <2> HIDE DEF to
  <2>3. g \in GlStates /\ d \in GlStates /\ Bindable(g) /\ Bindable(d)
    BY <2>1, CallsKeep
  <2>4. /\ d.fbo = to /\ d.live = drv.live \cup {to} /\ d.on = drv.on /\ d.clear = drv.clear
        /\ d.paint = drv.paint /\ d.fprog = drv.fprog /\ d.pack = drv.pack /\ d.unit = drv.unit
        /\ g.fbo = fb /\ g.live = game.live \cup {fb} /\ g.on = game.on /\ g.clear = game.clear
        /\ g.paint = game.paint /\ g.fprog = game.fprog /\ g.pack = game.pack /\ g.unit = game.unit
        /\ d.read = drv.read /\ g.read = game.read /\ d.error = drv.error /\ g.error = game.error
    BY DEF GlBind, GlStates
  <2> HIDE DEF g, d
  <2>5. WatchShape'
    BY <2>1, <2>2, <2>3 DEF Bindable
  <2>6. FieldsKept'
    BY <2>1, <2>2, <2>4 DEF FieldsKept, TraceOn, ShotOn, NoVp, NoFp, NoReject, Unbound, Stats
  <2>7. MirrorsTrue'
    <3>1. /\ curFbo' = drv'.fbo /\ drv'.on = drv.on
          /\ "pipeline" \in astray => "pipeline" \in astray'
      BY <2>2, <2>4
    <3> QED
      BY <2>2, <3>1, Zenon DEF MirrorsTrue
  <2> QED
    BY <2>5, <2>6, <2>7
<1>2. ASSUME NEW fb \in Fbos, DeleteFramebuffer(fb) PROVE WatchInv'
  <2> DEFINE g == GlDelete(game, fb)
             d == GlDelete(drv, fb)
             e == Dispatched(d)
  <2>1. g \in GlStates /\ d \in GlStates /\ Bindable(g) /\ Bindable(d)
    BY CallsKeep
  <2>2. /\ d.fbo = (IF drv.fbo = fb THEN 0 ELSE drv.fbo) /\ d.live = drv.live \ {fb}
        /\ g.fbo = (IF game.fbo = fb THEN 0 ELSE game.fbo) /\ g.live = game.live \ {fb}
        /\ d.on = drv.on /\ d.clear = drv.clear
        /\ d.paint = drv.paint /\ d.fprog = drv.fprog /\ d.pack = drv.pack /\ d.unit = drv.unit
        /\ g.on = game.on /\ g.clear = game.clear
        /\ g.paint = game.paint /\ g.fprog = game.fprog /\ g.pack = game.pack /\ g.unit = game.unit
        /\ d.read = drv.read /\ g.read = game.read /\ d.error = drv.error /\ g.error = game.error
    BY DEF GlDelete, GlStates
  <2>3. /\ game' = g /\ drv' = e /\ astray' = astray \cup Parted(drv, drv')
        /\ UNCHANGED <<option, curFbo, vpOn, compiling, inBegin, nth, looks, frame>>
    BY <1>2 DEF DeleteFramebuffer, Forward
  <2> HIDE DEF g, d
  <2>4. e \in GlStates /\ Bindable(e) /\ SameButError(e, d)
    BY <2>1, Dispatching
  <2> HIDE DEF e
  <2>5. WatchShape'
    BY <2>1, <2>3, <2>4, Parting DEF Bindable
  <2>6. FieldsKept'
    BY <2>2, <2>3, <2>4 DEF FieldsKept, SameButError, TraceOn, ShotOn, NoVp, NoFp, NoReject,
                            Unbound, Stats
  <2>7. MirrorsTrue'
    BY <2>3, Parting, Mirroring
  <2> QED
    BY <2>5, <2>6, <2>7
<1> QED
  BY <1>1, <1>2

\* A switch through the handlers is noted, or counted as gone into a list.
LEMMA NotedSwitch ==
  ASSUME MirrorsTrue, NEW cap, Noting(cap), curFbo' = curFbo, drv'.fbo = drv.fbo,
         cap = "vp" /\ ~compiling => (vpOn' <=> "vp" \in drv'.on),
         cap # "vp" => (vpOn' <=> vpOn) /\ ("vp" \in drv'.on <=> "vp" \in drv.on)
  PROVE  MirrorsTrue'
<1>1. curFbo' = drv'.fbo \/ "target" \in astray'
  <2>1. "target" \in astray => "target" \in astray'
    BY DEF Noting
  <2> QED
    BY <2>1 DEF MirrorsTrue
<1>2. (vpOn' <=> "vp" \in drv'.on) \/ "pipeline" \in astray'
  <2>1. CASE cap # "vp"
    <3>1. "pipeline" \in astray => "pipeline" \in astray'
      BY <2>1 DEF Noting
    <3>2. (vpOn <=> "vp" \in drv.on) \/ "pipeline" \in astray
      BY Zenon DEF MirrorsTrue
    <3> QED
      BY <2>1, <3>1, <3>2, Zenon
  <2>2. CASE cap = "vp" /\ compiling
    BY <2>2 DEF Noting
  <2>3. CASE cap = "vp" /\ ~compiling
    BY <2>3, Zenon
  <2> QED
    BY <2>1, <2>2, <2>3
<1> QED
  BY <1>1, <1>2, Zenon DEF MirrorsTrue

LEMMA CapabilityCalls ==
  ASSUME WatchInv, NEW cap \in Capabilities, Enable(cap) \/ Disable(cap)
  PROVE  WatchInv'
<1> USE DEF WatchInv, WatchShape
<1>1. CASE Enable(cap)
  <2> DEFINE g == GlEnable(game, cap)
             d == GlEnable(drv, cap)
  <2>1. g \in GlStates /\ d \in GlStates /\ Bindable(g) /\ Bindable(d)
    BY CallsKeep
  <2>2. /\ d.on = drv.on \cup {cap} /\ g.on = game.on \cup {cap}
        /\ d.fbo = drv.fbo /\ d.live = drv.live /\ d.clear = drv.clear
        /\ d.paint = drv.paint /\ d.fprog = drv.fprog /\ d.pack = drv.pack /\ d.unit = drv.unit
        /\ g.fbo = game.fbo /\ g.live = game.live /\ g.clear = game.clear
        /\ g.paint = game.paint /\ g.fprog = game.fprog /\ g.pack = game.pack /\ g.unit = game.unit
        /\ d.read = drv.read /\ g.read = game.read /\ d.error = drv.error /\ g.error = game.error
    BY DEF GlEnable, GlStates
  <2>3. /\ game' = IF compiling THEN game ELSE g
        /\ UNCHANGED <<option, curFbo, compiling, inBegin, nth, looks, frame>>
    BY <1>1 DEF Enable, Switched
  <2>4. CASE Refused(cap)
    <3>1. UNCHANGED <<drv, vpOn, astray>>
      BY <1>1, <2>4 DEF Enable
    <3> HIDE DEF g, d
    <3>2. WatchShape'
      BY <2>1, <2>3, <3>1 DEF Bindable
    <3>3. NoVp \/ NoFp \/ NoReject
      BY <2>4 DEF Refused, NoVp, NoFp, NoReject
    <3>4. FieldsKept'
      BY <2>2, <2>3, <3>1, <3>3 DEF FieldsKept, TraceOn, ShotOn, NoVp, NoFp, NoReject, Unbound, Stats
    <3>5. MirrorsTrue'
      BY <3>1, <2>3, Mirroring
    <3> QED
      BY <3>2, <3>4, <3>5
  <2>5. CASE ~Refused(cap)
    <3>1. /\ drv' = IF compiling THEN drv ELSE d
          /\ vpOn' = (vpOn \/ cap = "vp")
          /\ Noting(cap)
      BY <1>1, <2>5 DEF Enable, Switched
    <3> HIDE DEF g, d
    <3>2. WatchShape'
      <4>1. vpOn' \in BOOLEAN
        BY <3>1, Zenon
      <4>2. astray' \subseteq {"target", "pipeline"}
        BY <3>1 DEF Noting
      <4> QED
        BY <2>1, <2>3, <3>1, <4>1, <4>2 DEF Bindable
    <3>3. FieldsKept'
      BY <2>2, <2>3, <3>1 DEF FieldsKept, TraceOn, ShotOn, NoVp, NoFp, NoReject, Unbound, Stats
    <3>4. MirrorsTrue'
      <4>1. /\ cap = "vp" => vpOn'
            /\ cap # "vp" => (vpOn' <=> vpOn)
        BY <3>1, Zenon
      <4>2. /\ drv'.fbo = drv.fbo
            /\ cap = "vp" /\ ~compiling => "vp" \in drv'.on
            /\ cap # "vp" => ("vp" \in drv'.on <=> "vp" \in drv.on)
        BY <2>2, <3>1
      <4>3. cap = "vp" /\ ~compiling => (vpOn' <=> "vp" \in drv'.on)
        BY <4>1, <4>2, Zenon
      <4>4. cap # "vp" => (vpOn' <=> vpOn) /\ ("vp" \in drv'.on <=> "vp" \in drv.on)
        BY <4>1, <4>2, Zenon
      <4> QED
        BY <2>3, <3>1, <4>2, <4>3, <4>4, NotedSwitch
    <3> QED
      BY <3>2, <3>3, <3>4
  <2> QED
    BY <2>4, <2>5
<1>2. CASE Disable(cap)
  <2> DEFINE g == GlDisable(game, {cap})
             d == GlDisable(drv, {cap})
             t == IF compiling THEN drv ELSE d
             e == Dispatched(t)
  <2>1. g \in GlStates /\ t \in GlStates /\ Bindable(g) /\ Bindable(t)
    BY CallsKeep
  <2>2. /\ d.on = drv.on \ {cap} /\ g.on = game.on \ {cap}
        /\ d.fbo = drv.fbo /\ d.live = drv.live /\ d.clear = drv.clear
        /\ d.paint = drv.paint /\ d.fprog = drv.fprog /\ d.pack = drv.pack /\ d.unit = drv.unit
        /\ g.fbo = game.fbo /\ g.live = game.live /\ g.clear = game.clear
        /\ g.paint = game.paint /\ g.fprog = game.fprog /\ g.pack = game.pack /\ g.unit = game.unit
        /\ d.read = drv.read /\ g.read = game.read /\ d.error = drv.error /\ g.error = game.error
    BY DEF GlDisable, GlStates
  <2>3. /\ game' = (IF compiling THEN game ELSE g) /\ drv' = e
        /\ vpOn' = (vpOn /\ cap # "vp") /\ Noting(cap)
        /\ UNCHANGED <<option, curFbo, compiling, inBegin, nth, looks, frame>>
    BY <1>2 DEF Disable, Switched
  <2>4. t = IF compiling THEN drv ELSE d
    OBVIOUS
  <2> HIDE DEF g, d, t
  <2>5. e \in GlStates /\ Bindable(e) /\ SameButError(e, t)
    BY <2>1, Dispatching
  <2> HIDE DEF e
  <2>6. WatchShape'
    <3>1. vpOn' \in BOOLEAN
      BY <2>3, Zenon
    <3>2. astray' \subseteq {"target", "pipeline"}
      BY <2>3 DEF Noting
    <3> QED
      BY <2>1, <2>3, <2>5, <3>1, <3>2 DEF Bindable
  <2>7. FieldsKept'
    <3>1. /\ t.fbo = drv.fbo /\ t.live = drv.live /\ t.clear = drv.clear
          /\ t.paint = drv.paint /\ t.fprog = drv.fprog /\ t.pack = drv.pack /\ t.unit = drv.unit
          /\ t.read = drv.read /\ t.error = drv.error
          /\ t.on = IF compiling THEN drv.on ELSE drv.on \ {cap}
      BY <2>2, <2>4
    <3>2. /\ game'.fbo = game.fbo /\ game'.live = game.live /\ game'.clear = game.clear
          /\ game'.paint = game.paint /\ game'.fprog = game.fprog /\ game'.pack = game.pack
          /\ game'.unit = game.unit /\ game'.read = game.read /\ game'.error = game.error
          /\ game'.on = IF compiling THEN game.on ELSE game.on \ {cap}
      BY <2>2, <2>3
    <3>3. t.on = game'.on \/ drv.on # game.on
      BY <3>1, <3>2
    <3> QED
      BY <2>3, <2>5, <3>1, <3>2, <3>3 DEF FieldsKept, SameButError, TraceOn, ShotOn, NoVp, NoFp,
                                          NoReject, Unbound, Stats
  <2>8. MirrorsTrue'
    <3>1. /\ cap = "vp" => ~vpOn'
          /\ cap # "vp" => (vpOn' <=> vpOn)
      BY <2>3, Zenon
    <3>2. /\ drv'.fbo = drv.fbo
          /\ cap = "vp" /\ ~compiling => "vp" \notin drv'.on
          /\ cap # "vp" => ("vp" \in drv'.on <=> "vp" \in drv.on)
      BY <2>2, <2>3, <2>4, <2>5 DEF SameButError
    <3>3. cap = "vp" /\ ~compiling => (vpOn' <=> "vp" \in drv'.on)
      BY <3>1, <3>2, Zenon
    <3>4. cap # "vp" => (vpOn' <=> vpOn) /\ ("vp" \in drv'.on <=> "vp" \in drv.on)
      BY <3>1, <3>2, Zenon
    <3> QED
      BY <2>3, <3>2, <3>3, <3>4, NotedSwitch
  <2> QED
    BY <2>6, <2>7, <2>8
<1> QED
  BY <1>1, <1>2

LEMMA ListCalls ==
  ASSUME WatchInv, NewList \/ EndList
  PROVE  WatchInv'
<1> USE DEF WatchInv, WatchShape
<1> DEFINE e == Dispatched(drv)
<1>1. /\ drv' = e /\ compiling' \in BOOLEAN
      /\ UNCHANGED <<option, game, curFbo, vpOn, astray, inBegin, nth, looks, frame>>
  BY DEF NewList, EndList
<1>2. e \in GlStates /\ Bindable(e) /\ SameButError(e, drv)
  BY Dispatching
<1> HIDE DEF e
<1>3. WatchShape'
  BY <1>1, <1>2 DEF Bindable
<1>4. FieldsKept'
  BY <1>1, <1>2 DEF FieldsKept, SameButError, TraceOn, ShotOn, NoVp, NoFp, NoReject, Unbound, Stats
<1>5. MirrorsTrue'
  BY <1>1, <1>2, Mirroring DEF SameButError
<1> QED
  BY <1>3, <1>4, <1>5

\* Popped attributes and lists give the driver what they give the guest, but
\* for what an option refuses or the statistics turned off.
LEMMA Replays ==
  ASSUME WatchInv, NEW wanted \in SUBSET Capabilities, NEW had \in SUBSET Capabilities,
         Replay(wanted, had)
  PROVE  WatchInv'
<1> USE DEF WatchInv, WatchShape
<1> DEFINE g == [game EXCEPT !.on = wanted]
           d == [drv EXCEPT !.on = had]
           e == Dispatched(d)
<1>1. /\ g \in GlStates /\ d \in GlStates /\ Bindable(g) /\ Bindable(d)
      /\ d.on = had /\ g.on = wanted
      /\ d.fbo = drv.fbo /\ d.live = drv.live /\ d.clear = drv.clear
      /\ d.paint = drv.paint /\ d.fprog = drv.fprog /\ d.pack = drv.pack /\ d.unit = drv.unit
      /\ g.fbo = game.fbo /\ g.live = game.live /\ g.clear = game.clear
      /\ g.paint = game.paint /\ g.fprog = game.fprog /\ g.pack = game.pack /\ g.unit = game.unit
      /\ d.read = drv.read /\ g.read = game.read /\ d.error = drv.error /\ g.error = game.error
  BY DEF GlStates, Bindable
<1>2. had = wanted \/ NoVp \/ NoFp \/ NoReject \/ Stats
  BY DEF Replay, Refused, NoVp, NoFp, NoReject
<1>3. /\ game' = g /\ drv' = e /\ astray' = astray \cup Parted(drv, drv')
      /\ UNCHANGED <<option, curFbo, vpOn, compiling, inBegin, nth, looks, frame>>
  BY DEF Replay, Forward
<1> HIDE DEF g, d
<1>4. e \in GlStates /\ Bindable(e) /\ SameButError(e, d)
  BY <1>1, Dispatching
<1> HIDE DEF e
<1>5. WatchShape'
  BY <1>1, <1>3, <1>4, Parting DEF Bindable
<1>6. FieldsKept'
  BY <1>1, <1>2, <1>3, <1>4 DEF FieldsKept, SameButError, TraceOn, ShotOn, NoVp, NoFp, NoReject,
                                Unbound, Stats
<1>7. MirrorsTrue'
  BY <1>3, Parting, Mirroring
<1> QED
  BY <1>5, <1>6, <1>7

\* A call by token reaches the driver as it is.
LEMMA TokenCalling ==
  ASSUME WatchInv, NEW g \in GlStates, NEW d \in GlStates, Bindable(g), Bindable(d),
         TokenCall(g, d),
         d.fbo = g.fbo \/ drv.fbo # game.fbo, d.live = g.live \/ drv.live # game.live,
         d.on = g.on \/ drv.on # game.on,
         d.clear = drv.clear, g.clear = game.clear, d.paint = drv.paint, g.paint = game.paint,
         d.fprog = drv.fprog, g.fprog = game.fprog, d.pack = drv.pack, g.pack = game.pack,
         d.unit = drv.unit, g.unit = game.unit, d.read = drv.read, g.read = game.read,
         d.error = drv.error, g.error = game.error
  PROVE  WatchInv'
<1>1. /\ game' = g /\ drv' = d /\ astray' = astray \cup Parted(drv, drv')
      /\ UNCHANGED <<option, curFbo, vpOn, compiling, inBegin, nth, looks, frame>>
  BY DEF TokenCall
<1>2. WatchShape'
  BY <1>1, Parting DEF WatchInv, WatchShape, Bindable
<1>3. FieldsKept'
  BY <1>1 DEF WatchInv, FieldsKept, TraceOn, ShotOn, NoVp, NoFp, NoReject, Unbound, Stats
<1>4. MirrorsTrue'
  BY <1>1, Parting, Mirroring DEF WatchInv
<1> QED
  BY <1>2, <1>3, <1>4 DEF WatchInv

LEMMA TokenCalls ==
  ASSUME WatchInv,
         \/ \E fb \in Targets : TokenBind(fb)
         \/ \E cap \in Capabilities : TokenEnable(cap) \/ TokenDisable(cap)
  PROVE  WatchInv'
<1> USE DEF WatchInv, WatchShape
<1>1. ASSUME NEW fb \in Targets, TokenBind(fb) PROVE WatchInv'
  <2> DEFINE g == GlBind(game, fb)
             d == GlBind(drv, fb)
  <2>1. g \in GlStates /\ d \in GlStates /\ Bindable(g) /\ Bindable(d)
    BY CallsKeep
  <2>2. /\ d.fbo = fb /\ d.live = drv.live \cup {fb} /\ d.on = drv.on /\ d.clear = drv.clear
        /\ d.paint = drv.paint /\ d.fprog = drv.fprog /\ d.pack = drv.pack /\ d.unit = drv.unit
        /\ g.fbo = fb /\ g.live = game.live \cup {fb} /\ g.on = game.on /\ g.clear = game.clear
        /\ g.paint = game.paint /\ g.fprog = game.fprog /\ g.pack = game.pack /\ g.unit = game.unit
        /\ d.read = drv.read /\ g.read = game.read /\ d.error = drv.error /\ g.error = game.error
    BY DEF GlBind, GlStates
  <2>3. TokenCall(g, d)
    BY <1>1 DEF TokenBind
  <2> HIDE DEF g, d
  <2> QED
    BY <2>1, <2>2, <2>3, TokenCalling
<1>2. ASSUME NEW cap \in Capabilities, TokenEnable(cap) PROVE WatchInv'
  <2> DEFINE g == GlEnable(game, cap)
             d == GlEnable(drv, cap)
  <2>1. g \in GlStates /\ d \in GlStates /\ Bindable(g) /\ Bindable(d)
    BY CallsKeep
  <2>2. /\ d.on = drv.on \cup {cap} /\ g.on = game.on \cup {cap}
        /\ d.fbo = drv.fbo /\ d.live = drv.live /\ d.clear = drv.clear
        /\ d.paint = drv.paint /\ d.fprog = drv.fprog /\ d.pack = drv.pack /\ d.unit = drv.unit
        /\ g.fbo = game.fbo /\ g.live = game.live /\ g.clear = game.clear
        /\ g.paint = game.paint /\ g.fprog = game.fprog /\ g.pack = game.pack /\ g.unit = game.unit
        /\ d.read = drv.read /\ g.read = game.read /\ d.error = drv.error /\ g.error = game.error
    BY DEF GlEnable, GlStates
  <2>3. TokenCall(g, d)
    BY <1>2 DEF TokenEnable
  <2> HIDE DEF g, d
  <2> QED
    BY <2>1, <2>2, <2>3, TokenCalling
<1>3. ASSUME NEW cap \in Capabilities, TokenDisable(cap) PROVE WatchInv'
  <2> DEFINE g == GlDisable(game, {cap})
             d == GlDisable(drv, {cap})
  <2>1. g \in GlStates /\ d \in GlStates /\ Bindable(g) /\ Bindable(d)
    BY CallsKeep
  <2>2. /\ d.on = drv.on \ {cap} /\ g.on = game.on \ {cap}
        /\ d.fbo = drv.fbo /\ d.live = drv.live /\ d.clear = drv.clear
        /\ d.paint = drv.paint /\ d.fprog = drv.fprog /\ d.pack = drv.pack /\ d.unit = drv.unit
        /\ g.fbo = game.fbo /\ g.live = game.live /\ g.clear = game.clear
        /\ g.paint = game.paint /\ g.fprog = game.fprog /\ g.pack = game.pack /\ g.unit = game.unit
        /\ d.read = drv.read /\ g.read = game.read /\ d.error = drv.error /\ g.error = game.error
    BY DEF GlDisable, GlStates
  <2>3. TokenCall(g, d)
    BY <1>3 DEF TokenDisable
  <2> HIDE DEF g, d
  <2> QED
    BY <2>1, <2>2, <2>3, TokenCalling
<1> QED
  BY <1>1, <1>2, <1>3

LEMMA UploadCalls ==
  ASSUME WatchInv,
         \/ ProgramString
         \/ \E good \in BOOLEAN : CompressedTex(good)
  PROVE  WatchInv'
<1> USE DEF WatchInv, WatchShape
<1>1. CASE ProgramString
  <2> DEFINE g == GlProgram(game, "own")
             d == GlProgram(drv, "own")
             solid == GlProgram(drv, "solid")
             e == Dispatched(d)
  <2>1. /\ g \in GlStates /\ d \in GlStates /\ Bindable(g) /\ Bindable(d)
        /\ solid \in GlStates /\ Bindable(solid)
    BY CallsKeep
  <2>2. /\ d.fbo = drv.fbo /\ d.live = drv.live /\ d.on = drv.on /\ d.clear = drv.clear
        /\ g.fbo = game.fbo /\ g.live = game.live /\ g.on = game.on /\ g.clear = game.clear
        /\ d.pack = drv.pack /\ d.unit = drv.unit /\ g.pack = game.pack /\ g.unit = game.unit
        /\ d.read = drv.read /\ g.read = game.read /\ d.error = drv.error /\ g.error = game.error
        /\ d.paint = drv.paint /\ g.paint = game.paint /\ d.fprog = g.fprog
    BY DEF GlProgram, GlStates
  <2>3. /\ solid.fbo = drv.fbo /\ solid.live = drv.live /\ solid.on = drv.on
        /\ solid.clear = drv.clear /\ solid.pack = drv.pack /\ solid.unit = drv.unit
        /\ solid.read = drv.read /\ solid.error = drv.error /\ solid.paint = drv.paint
    BY DEF GlProgram, GlStates
  <2>4. /\ game' = g /\ drv' = IF "FP_SOLID" \in option THEN solid ELSE e
        /\ UNCHANGED <<option, curFbo, vpOn, astray, compiling, inBegin, nth, looks, frame>>
    BY <1>1 DEF ProgramString
  <2> HIDE DEF g, d, solid
  <2>5. e \in GlStates /\ Bindable(e) /\ SameButError(e, d)
    BY <2>1, Dispatching
  <2> HIDE DEF e
  <2>6. WatchShape'
    BY <2>1, <2>4, <2>5 DEF Bindable
  <2>7. FieldsKept'
    <3>1. CASE "FP_SOLID" \in option
      BY <3>1, <2>2, <2>3, <2>4 DEF FieldsKept, TraceOn, ShotOn, NoVp, NoFp, NoReject,
                                    Unbound, Stats
    <3>2. CASE "FP_SOLID" \notin option
      BY <3>2, <2>2, <2>4, <2>5 DEF FieldsKept, SameButError, TraceOn, ShotOn, NoVp, NoFp,
                                    NoReject, Unbound, Stats
    <3> QED
      BY <3>1, <3>2
  <2>8. MirrorsTrue'
    BY <2>2, <2>3, <2>4, <2>5, Mirroring DEF SameButError
  <2> QED
    BY <2>6, <2>7, <2>8
<1>2. ASSUME NEW good \in BOOLEAN, CompressedTex(good) PROVE WatchInv'
  <2> DEFINE g == GlUpload(game, good)
             d == GlGetError(drv)
  <2>1. g \in GlStates /\ d \in GlStates /\ Bindable(g) /\ Bindable(d)
    BY CallsKeep
  <2>2. SameButError(d, drv) /\ d.error = FALSE
    BY Dispatching DEF GlGetError, GlStates
  <2>3. /\ g.fbo = game.fbo /\ g.live = game.live /\ g.on = game.on /\ g.clear = game.clear
        /\ g.paint = game.paint /\ g.fprog = game.fprog /\ g.pack = game.pack /\ g.unit = game.unit
        /\ g.read = game.read
    BY DEF GlUpload, GlStates
  <2>4. /\ game' = g /\ drv' = d
        /\ UNCHANGED <<option, curFbo, vpOn, astray, compiling, inBegin, nth, looks, frame>>
    BY <1>2 DEF CompressedTex
  <2> HIDE DEF g, d
  <2>5. WatchShape'
    BY <2>1, <2>4 DEF Bindable
  <2>6. FieldsKept'
    BY <2>2, <2>3, <2>4 DEF FieldsKept, SameButError, TraceOn, ShotOn, NoVp, NoFp, NoReject,
                            Unbound, Stats
  <2>7. MirrorsTrue'
    BY <2>2, <2>4, Mirroring DEF SameButError
  <2> QED
    BY <2>5, <2>6, <2>7
<1> QED
  BY <1>1, <1>2

LEMMA ObservedCalls ==
  ASSUME WatchInv, Begin \/ End \/ Clear \/ Swap
  PROVE  WatchInv'
<1> USE DEF WatchInv, WatchShape
<1>1. CASE Begin
  BY <1>1 DEF Begin, Bindable, FieldsKept, TraceOn, ShotOn, NoVp, NoFp, NoReject, Unbound, Stats,
              MirrorsTrue
<1>2. CASE End
  <2> DEFINE a == IF "GLERR" \in option THEN GlGetError(drv) ELSE drv
             b == Probed(a, curFbo)
             c == Listed(b)
  <2>1. a \in GlStates /\ Bindable(a) /\ SameButError(a, drv)
    <3>1. GlGetError(drv) \in GlStates /\ Bindable(GlGetError(drv))
      BY CallsKeep
    <3>2. SameButError(GlGetError(drv), drv) /\ SameButError(drv, drv)
      BY Dispatching DEF SameButError
    <3> QED
      BY <3>1, <3>2
  <2>2. /\ UNCHANGED <<option, game, curFbo, vpOn, astray, compiling, looks, frame>>
        /\ inBegin' = FALSE
        /\ nth < MaxDraws
        /\ \/ Traced /\ drv' = c /\ nth' = nth + 1
           \/ ~Traced /\ drv' = a /\ nth' = nth
    BY <1>2 DEF End
  <2> HIDE DEF a
  <2>3. /\ b \in GlStates /\ Bindable(b)
        /\ b.fbo = a.fbo /\ b.live = a.live /\ b.on = a.on
        /\ b.clear = a.clear /\ b.paint = a.paint /\ b.fprog = a.fprog
    BY <2>1, Probing
  <2> HIDE DEF b
  <2>4. /\ c \in GlStates /\ Bindable(c)
        /\ c.fbo = b.fbo /\ c.live = b.live /\ c.on = b.on
        /\ c.clear = b.clear /\ c.paint = b.paint /\ c.fprog = b.fprog
    <3>1. GlActiveTexture(b, 0) \in GlStates /\ Bindable(GlActiveTexture(b, 0))
      BY <2>3, CallsKeep, WatchAssumption DEF WatchAssumption
    <3> QED
      BY <2>3, <3>1 DEF Listed, GlActiveTexture, GlStates
  <2> HIDE DEF c
  <2>5. WatchShape'
    <3>1. nth' \in 0..MaxDraws
      BY <2>2, WatchAssumption DEF WatchAssumption
    <3>2. drv' \in GlStates /\ Bindable(drv')
      BY <2>1, <2>2, <2>4
    <3> QED
      BY <2>2, <3>1, <3>2 DEF Bindable
  <2>6. FieldsKept'
    <3>1. CASE Traced
      <4>1. TraceOn /\ TraceOn'
        BY <2>2, <3>1, WatchAssumption DEF WatchAssumption, Traced, TraceOn
      <4> QED
        BY <2>1, <2>2, <2>3, <2>4, <3>1, <4>1
           DEF FieldsKept, SameButError, NoVp, NoFp, NoReject, Unbound, Stats
    <3>2. CASE ~Traced
      BY <2>1, <2>2, <3>2 DEF FieldsKept, SameButError, TraceOn, ShotOn, NoVp, NoFp, NoReject,
                              Unbound, Stats
    <3> QED
      BY <3>1, <3>2
  <2>7. MirrorsTrue'
    BY <2>1, <2>2, <2>3, <2>4, Mirroring DEF SameButError
  <2> QED
    BY <2>5, <2>6, <2>7
<1>3. CASE Clear
  <2> DEFINE a == Dispatched(drv)
             b == Probed(a, drv.fbo)
  <2>1. a \in GlStates /\ Bindable(a) /\ SameButError(a, drv)
    BY Dispatching
  <2>2. /\ UNCHANGED <<option, game, curFbo, vpOn, astray, compiling, inBegin, nth, frame>>
        /\ \/ Stats /\ looks < ClearLooks /\ drv' = b /\ looks' = looks + 1
           \/ drv' = a /\ looks' = looks
    BY <1>3 DEF Clear, Stats
  <2> HIDE DEF a
  <2>3. /\ b \in GlStates /\ Bindable(b) /\ b.unit = a.unit
        /\ b.fbo = a.fbo /\ b.on = a.on /\ b.paint = a.paint /\ b.fprog = a.fprog
    <3>1. drv.fbo \in Targets
      BY DEF GlStates
    <3> QED
      BY <2>1, <3>1, Probing
  <2> HIDE DEF b
  <2>4. WatchShape'
    BY <2>1, <2>2, <2>3, WatchAssumption DEF WatchAssumption, Bindable
  <2>5. FieldsKept'
    <3>1. CASE Stats
      BY <2>1, <2>2, <2>3, <3>1
         DEF FieldsKept, SameButError, TraceOn, ShotOn, NoVp, NoFp, NoReject, Unbound, Stats
    <3>2. CASE ~Stats
      BY <2>1, <2>2, <3>2
         DEF FieldsKept, SameButError, TraceOn, ShotOn, NoVp, NoFp, NoReject, Unbound, Stats
    <3> QED
      BY <3>1, <3>2
  <2>6. MirrorsTrue'
    BY <2>1, <2>2, <2>3, Mirroring DEF SameButError
  <2> QED
    BY <2>4, <2>5, <2>6
<1>4. CASE Swap
  <2> DEFINE i == InspectFrame(drv)
  <2>1. /\ UNCHANGED <<option, game, curFbo, vpOn, compiling, inBegin, nth, looks>>
        /\ astray' = astray \cup Parted(drv, drv')
        /\ drv' = i /\ frame < MaxFrame /\ frame' = frame + 1
    BY <1>4 DEF Swap
  <2>2. /\ i \in GlStates /\ Bindable(i)
        /\ i.unit = drv.unit /\ i.fprog = drv.fprog
        /\ ~Stats => /\ i.fbo = drv.fbo /\ i.live = drv.live /\ i.on = drv.on
                     /\ i.clear = drv.clear /\ i.paint = drv.paint
                     /\ ~ShotNow => i = drv
    BY Inspecting
  <2> HIDE DEF i
  <2>3. WatchShape'
    BY <2>1, <2>2, Parting, WatchAssumption DEF WatchAssumption, Bindable
  <2>4. /\ TraceOn => TraceOn'
        /\ ShotOn \/ ShotNow => ShotOn'
    BY <2>1, WatchAssumption DEF WatchAssumption, TraceOn, ShotOn, ShotNow
  <2>5. FieldsKept'
    <3>1. CASE Stats
      BY <2>1, <2>2, <2>4, <3>1 DEF FieldsKept, NoVp, NoFp, NoReject, Unbound, Stats
    <3>2. CASE ~Stats /\ ShotNow
      BY <2>1, <2>2, <2>4, <3>2 DEF FieldsKept, NoVp, NoFp, NoReject, Unbound, Stats
    <3>3. CASE ~Stats /\ ~ShotNow
      BY <2>1, <2>2, <2>4, <3>3 DEF FieldsKept, NoVp, NoFp, NoReject, Unbound, Stats
    <3> QED
      BY <3>1, <3>2, <3>3
  <2>6. MirrorsTrue'
    BY <2>1, Parting, Mirroring
  <2> QED
    BY <2>3, <2>5, <2>6
<1> QED
  BY <1>1, <1>2, <1>3, <1>4

LEMMA WatchSteps == WatchInv /\ [WatchNext]_watchVars => WatchInv'
<1> SUFFICES ASSUME WatchInv, [WatchNext]_watchVars PROVE WatchInv'
  OBVIOUS
<1>1. CASE UNCHANGED watchVars
  BY <1>1 DEF watchVars, WatchInv, WatchShape, Bindable, FieldsKept, MirrorsTrue, TraceOn, ShotOn,
              NoVp, NoFp, NoReject, Unbound, Stats
<1>2. ASSUME NEW cap \in Capabilities, Enable(cap) \/ Disable(cap) PROVE WatchInv'
  BY <1>2, CapabilityCalls
<1>3. CASE \/ \E b \in {"front", "own"} : ReadBuffer(0, b)
           \/ \E n \in {1, 4} : PixelStore(n)
           \/ \E u \in Units : ActiveTexture(u)
           \/ Look \/ GetError
  BY <1>3, ForwardedCalls
<1>4. CASE \/ \E fb \in Targets : BindFramebuffer(fb)
           \/ \E fb \in Fbos : DeleteFramebuffer(fb)
  BY <1>4, TargetCalls
<1>5. CASE \/ ProgramString
           \/ \E good \in BOOLEAN : CompressedTex(good)
  BY <1>5, UploadCalls
<1>6. CASE Begin \/ End \/ Clear \/ Swap
  BY <1>6, ObservedCalls
<1>7. CASE NewList \/ EndList
  BY <1>7, ListCalls
<1>8. CASE \E wanted, had \in SUBSET Capabilities : Replay(wanted, had)
  BY <1>8, Replays
<1>9. CASE \/ \E fb \in Targets : TokenBind(fb)
           \/ \E cap \in Capabilities : TokenEnable(cap) \/ TokenDisable(cap)
  BY <1>9, TokenCalls
<1> QED
  BY <1>1, <1>2, <1>3, <1>4, <1>5, <1>6, <1>7, <1>8, <1>9 DEF WatchNext

----------------------------------------------------------------------------
(* The addresses of entry points.                                          *)

Busy(t) == asking[t].step # "idle"
Takers(table) == {t \in Askers : asking[t].step = "take" /\ asking[t].table = table}

EntryShape ==
  /\ DOMAIN entries = Tables
  /\ \A table \in Tables : entries[table] \in [0..(TableMax(table) - 1) -> Names \cup {NOBODY}]
  /\ used \in [Tables -> Nat]
  /\ asking \in [Askers -> [step : {"idle", "write", "take"}, table : Tables,
                            name : Names \cup {NOBODY}]]
  /\ \A t \in Askers : Busy(t) => asking[t].name \in Names
  /\ \A h \in handed : h.table \in Tables
  /\ mixed \in BOOLEAN

\* Every number beyond the table was taken by a thread that found room.
EntryBound ==
  \A table \in Tables :
    used[table] + Cardinality(Takers(table)) <= TableMax(table) + Cardinality(Askers)

\* One thread at a time in a table; the entry it wrote is its own until it has
\* taken the number, and its name is in none of those counted.
OneByOne ==
  /\ \A t, u \in Askers : t # u /\ Busy(t) /\ Busy(u) => asking[t].table # asking[u].table
  /\ \A t \in Askers : asking[t].step = "take" =>
       LET table == asking[t].table
       IN  used[table] < TableMax(table) /\ entries[table][used[table]] = asking[t].name
  /\ \A t \in Askers : Busy(t) =>
       /\ asking[t].name \notin Imported
       /\ \A i \in Nat : i < used[asking[t].table]
            => entries[asking[t].table][i] # asking[t].name

\* The counted entries: as many as fit, of names that differ.
Counted ==
  \A table \in Tables :
    /\ used[table] <= TableMax(table)
    /\ \A i, j \in Nat : i < used[table] /\ j < used[table] /\ i # j
         => entries[table][i] # entries[table][j]

Kept(h) ==
  \/ h.va = NullAddress
  \/ h.name \in Imported /\ h.va = Stub(h.name)
  \/ /\ h.name \in Names \ Imported
     /\ \E i \in Nat : /\ h.va = Token(h.table, i)
                      /\ i < used[h.table] /\ entries[h.table][i] = h.name

EntryInv ==
  /\ EntryShape /\ EntryBound
  /\ ~mixed => OneByOne /\ Counted /\ \A h \in handed : Kept(h)

LEMMA TableSizes == \A table \in Tables : TableMax(table) \in Nat
BY EntryAssumption DEF EntryAssumption, Tables, TableMax

LEMMA TakersFinite ==
  \A table : IsFiniteSet(Takers(table)) /\ Cardinality(Takers(table)) \in Nat
             /\ Cardinality(Takers(table)) <= Cardinality(Askers)
<1> SUFFICES ASSUME NEW table
             PROVE  IsFiniteSet(Takers(table)) /\ Cardinality(Takers(table)) \in Nat
                    /\ Cardinality(Takers(table)) <= Cardinality(Askers)
  OBVIOUS
<1>1. Takers(table) \subseteq Askers /\ IsFiniteSet(Askers)
  BY EntryAssumption DEF EntryAssumption, Takers
<1> QED
  BY <1>1, FS_Subset, FS_CardinalityType

LEMMA EntriesSuffice == EntryInv => EntryTypeOK /\ AddressesKeep
<1> SUFFICES ASSUME EntryInv PROVE EntryTypeOK /\ AddressesKeep
  OBVIOUS
<1>1. EntryTypeOK
  <2>1. ASSUME NEW table \in Tables
        PROVE  /\ \A i \in DOMAIN entries[table] : entries[table][i] \in Names \cup {NOBODY}
               /\ used[table] \in 0..(TableMax(table) + Cardinality(Askers))
    <3>1. Cardinality(Askers) \in Nat
      BY EntryAssumption, FS_CardinalityType DEF EntryAssumption
    <3>2. \A i \in DOMAIN entries[table] : entries[table][i] \in Names \cup {NOBODY}
      BY DEF EntryInv, EntryShape
    <3>3. /\ Cardinality(Takers(table)) \in Nat /\ TableMax(table) \in Nat /\ used[table] \in Nat
          /\ used[table] + Cardinality(Takers(table)) <= TableMax(table) + Cardinality(Askers)
      BY TakersFinite, TableSizes DEF EntryInv, EntryShape, EntryBound
    <3> QED
      BY <3>1, <3>2, <3>3
  <2> QED
    BY <2>1 DEF EntryInv, EntryShape, EntryTypeOK
<1>2. ASSUME ~mixed, NEW h \in handed, h.va # NullAddress
      PROVE  Routed(h.va) = h.name
  <2>1. CASE h.name \in Imported /\ h.va = Stub(h.name)
    BY <2>1 DEF Stub, Routed
  <2>2. ASSUME NEW i \in Nat, h.va = Token(h.table, i), i < used[h.table],
               entries[h.table][i] = h.name
        PROVE  Routed(h.va) = h.name
    <3>1. h.va.kind = h.table /\ h.va.i = i /\ h.table \in Tables /\ h.table # "plt"
      BY <2>2 DEF Token, Tables, EntryInv, EntryShape
    <3>2. i \in DOMAIN entries[h.table]
      BY <1>2, <2>2, <3>1, TableSizes DEF EntryInv, EntryShape, Counted
    <3> QED
      BY <2>2, <3>1, <3>2 DEF Routed
  <2> QED
    BY <1>2, <2>1, <2>2 DEF EntryInv, Kept
<1>3. ASSUME ~mixed, NEW g \in handed, NEW h \in handed, g.name = h.name, g.table = h.table,
             g.va # NullAddress, h.va # NullAddress
      PROVE  g.va = h.va
  <2>1. Kept(g) /\ Kept(h) /\ Counted /\ h.table \in Tables
    BY <1>3 DEF EntryInv, EntryShape
  <2>2. CASE h.name \in Imported
    BY <1>3, <2>1, <2>2 DEF Kept
  <2>3. CASE h.name \notin Imported
    <3>1. PICK i \in Nat : /\ g.va = Token(g.table, i)
                           /\ i < used[g.table] /\ entries[g.table][i] = g.name
      BY <1>3, <2>1, <2>3 DEF Kept
    <3>2. PICK j \in Nat : /\ h.va = Token(h.table, j)
                           /\ j < used[h.table] /\ entries[h.table][j] = h.name
      BY <1>3, <2>1, <2>3 DEF Kept
    <3>3. i = j
      BY <1>3, <2>1, <3>1, <3>2 DEF Counted
    <3> QED
      BY <1>3, <3>1, <3>2, <3>3
  <2> QED
    BY <2>2, <2>3
<1>4. AddressesKeep
  BY <1>2, <1>3 DEF AddressesKeep
<1> QED
  BY <1>1, <1>4

LEMMA EntriesStart == EntryInit => EntryInv
<1> SUFFICES ASSUME EntryInit PROVE EntryInv
  OBVIOUS
<1>1. EntryShape
  BY TableSizes DEF EntryInit, EntryShape, Idle, Busy, Tables
<1>2. EntryBound
  <2> SUFFICES ASSUME NEW table \in Tables
               PROVE  used[table] + Cardinality(Takers(table)) <= TableMax(table) + Cardinality(Askers)
    BY DEF EntryBound
  <2>1. Cardinality(Askers) \in Nat
    BY EntryAssumption, FS_CardinalityType DEF EntryAssumption
  <2>2. used[table] = 0
    BY DEF EntryInit
  <2> QED
    BY <2>1, <2>2, TakersFinite, TableSizes
<1>3. OneByOne /\ Counted
  BY TableSizes DEF EntryInit, OneByOne, Counted, Busy, Idle
<1>4. \A h \in handed : Kept(h)
  BY DEF EntryInit
<1> QED
  BY <1>1, <1>2, <1>3, <1>4 DEF EntryInv
\* What is asked of a table changes no entry: the names it keeps stay kept.
LEMMA KeepsEntries ==
  ASSUME EntryInv, UNCHANGED <<entries, used>>, ~mixed,
         NEW h, handed' = handed \cup {h}, Kept(h)
  PROVE  \A k \in handed' : Kept(k)'
BY DEF EntryInv, Kept

LEMMA EntryAsks ==
  ASSUME EntryInv, NEW table \in Tables, NEW name \in Names,
         AskImported(table, name) \/ AskKnown(table, name)
  PROVE  EntryInv'
<1>1. /\ UNCHANGED <<entries, used, asking, mixed>>
      /\ \E va : Answer(table, name, va)
  BY DEF AskImported, AskKnown
<1>2. EntryShape' /\ EntryBound'
  BY <1>1 DEF EntryInv, EntryShape, EntryBound, Answer, Busy, Takers
<1>3. ASSUME ~mixed PROVE OneByOne' /\ Counted'
  BY <1>1, <1>3 DEF EntryInv, OneByOne, Counted, Busy
<1>4. ASSUME ~mixed PROVE \A h \in handed' : Kept(h)'
  <2>1. CASE AskImported(table, name)
    <3> DEFINE h == [table |-> table, name |-> name, va |-> Stub(name)]
    <3>1. handed' = handed \cup {h} /\ Kept(h)
      BY <2>1 DEF AskImported, Answer, Kept
    <3> HIDE DEF h
    <3> QED
      BY <1>1, <1>4, <3>1, KeepsEntries
  <2>2. CASE AskKnown(table, name)
    <3> DEFINE known == Known(table, name)
               first == CHOOSE i \in known : \A j \in known : i <= j
               h == [table |-> table, name |-> name, va |-> Token(table, first)]
    <3>1. /\ name \notin Imported /\ known # {}
          /\ handed' = handed \cup {h}
      BY <2>2 DEF AskKnown, Answer
    <3>2. \A i, j \in known : i \in Nat /\ i < used[table] /\ entries[table][i] = name /\ i = j
      BY <1>4, TableSizes DEF Known, EntryInv, EntryShape, Counted
    <3>3. first \in known
      <4>1. \E i \in known : \A j \in known : i <= j
        BY <3>1, <3>2
      <4> QED
        BY <4>1
    <3> HIDE DEF first, known
    <3>4. Kept(h)
      BY <3>1, <3>2, <3>3 DEF Kept
    <3> HIDE DEF h
    <3> QED
      BY <1>1, <1>4, <3>1, <3>4, KeepsEntries
  <2> QED
    BY <2>1, <2>2
<1> QED
  BY <1>1, <1>2, <1>3, <1>4 DEF EntryInv

LEMMA EntryNews ==
  ASSUME EntryInv, NEW t \in Askers, NEW table \in Tables, NEW name \in Names,
         AskNew(t, table, name)
  PROVE  EntryInv'
<1>1. /\ asking[t].step = "idle" /\ name \notin Imported /\ Known(table, name) = {}
      /\ asking' = [asking EXCEPT ![t] = [step |-> "write", table |-> table, name |-> name]]
      /\ mixed' = (mixed \/ \E u \in Askers \ {t} : asking[u].table = table /\ asking[u].step # "idle")
      /\ UNCHANGED <<entries, used, handed>>
  BY DEF AskNew
<1>2. EntryShape'
  BY <1>1 DEF EntryInv, EntryShape, Busy
<1>3. EntryBound'
  <2>1. \A any \in Tables : Takers(any)' = Takers(any)
    BY <1>1 DEF EntryInv, EntryShape, Takers
  <2> QED
    BY <1>1, <2>1 DEF EntryInv, EntryBound
<1>4. ASSUME ~mixed' PROVE OneByOne' /\ Counted' /\ \A h \in handed' : Kept(h)'
  <2>1. /\ ~mixed
        /\ \A u \in Askers \ {t} : Busy(u) => asking[u].table # table
    BY <1>1, <1>4 DEF Busy
  <2>2. Counted' /\ \A h \in handed' : Kept(h)'
    BY <1>1, <2>1 DEF EntryInv, Counted, Kept
  <2>3. \A i \in Nat : i < used[table] => entries[table][i] # name
    BY <1>1, <2>1, TableSizes DEF EntryInv, EntryShape, Counted, Known
  <2>4. /\ asking[t].step = "idle"
        /\ asking'[t].step = "write" /\ asking'[t].table = table /\ asking'[t].name = name
        /\ \A u \in Askers \ {t} : asking'[u] = asking[u]
    BY <1>1 DEF EntryInv, EntryShape
  <2>5. OneByOne'
    <3> USE DEF EntryInv, OneByOne, Busy
    <3>1. \A u, v \in Askers : u # v /\ Busy(u)' /\ Busy(v)' => asking'[u].table # asking'[v].table
      BY <2>1, <2>4
    <3>2. \A u \in Askers : asking'[u].step = "take" =>
            LET any == asking'[u].table
            IN  used'[any] < TableMax(any) /\ entries'[any][used'[any]] = asking'[u].name
      BY <1>1, <2>1, <2>4
    <3>3. \A u \in Askers : Busy(u)' =>
            /\ asking'[u].name \notin Imported
            /\ \A i \in Nat : i < used'[asking'[u].table]
                 => entries'[asking'[u].table][i] # asking'[u].name
      BY <1>1, <2>1, <2>3, <2>4
    <3> QED
      BY <3>1, <3>2, <3>3
  <2> QED
    BY <2>2, <2>5
<1> QED
  BY <1>2, <1>3, <1>4 DEF EntryInv
LEMMA EntryRefusals ==
  ASSUME EntryInv, NEW t \in Askers, Refuse(t)
  PROVE  EntryInv'
<1> DEFINE h == [table |-> asking[t].table, name |-> asking[t].name, va |-> NullAddress]
<1>1. /\ asking[t].step = "write" /\ handed' = handed \cup {h}
      /\ asking' = [asking EXCEPT ![t] = Idle]
      /\ UNCHANGED <<entries, used, mixed>>
  BY DEF Refuse, Answer
<1>2. /\ asking'[t].step = "idle" /\ asking'[t].table \in Tables
      /\ \A u \in Askers \ {t} : asking'[u] = asking[u]
  BY <1>1 DEF EntryInv, EntryShape, Idle, Tables
<1>3. EntryShape'
  BY <1>1, <1>2 DEF EntryInv, EntryShape, Busy, Idle, Tables
<1>4. EntryBound'
  <2>1. \A any \in Tables : Takers(any)' = Takers(any)
    BY <1>1, <1>2 DEF Takers
  <2> QED
    BY <1>1, <2>1 DEF EntryInv, EntryBound
<1>5. ASSUME ~mixed PROVE OneByOne' /\ Counted'
  BY <1>1, <1>2, <1>5 DEF EntryInv, OneByOne, Counted, Busy
<1>6. ASSUME ~mixed PROVE \A k \in handed' : Kept(k)'
  <2>1. Kept(h)
    BY DEF Kept
  <2> HIDE DEF h
  <2> QED
    BY <1>1, <1>6, <2>1, KeepsEntries
<1> QED
  BY <1>1, <1>3, <1>4, <1>5, <1>6 DEF EntryInv

LEMMA EntryWrites ==
  ASSUME EntryInv, NEW t \in Askers, WriteEntry(t)
  PROVE  EntryInv'
<1> DEFINE table == asking[t].table
           name == asking[t].name
<1>1. /\ asking[t].step = "write" /\ used[table] < TableMax(table)
      /\ entries' = [entries EXCEPT ![table][used[table]] = name]
      /\ asking' = [asking EXCEPT ![t].step = "take"]
      /\ UNCHANGED <<used, handed, mixed>>
  BY DEF WriteEntry
<1>2. /\ table \in Tables /\ name \in Names /\ used[table] \in Nat
      /\ asking'[t].step = "take" /\ asking'[t].table = table /\ asking'[t].name = name
      /\ \A u \in Askers \ {t} : asking'[u] = asking[u]
  BY <1>1 DEF EntryInv, EntryShape, Busy
<1>3. /\ DOMAIN entries' = Tables
      /\ \A any \in Tables : entries'[any] \in [0..(TableMax(any) - 1) -> Names \cup {NOBODY}]
      /\ entries'[table][used[table]] = name
      /\ \A any \in Tables \ {table} : entries'[any] = entries[any]
      /\ \A i \in 0..(TableMax(table) - 1) :
           i # used[table] => entries'[table][i] = entries[table][i]
  <2>1. used[table] \in 0..(TableMax(table) - 1)
    BY <1>1, <1>2, TableSizes
  <2>2. /\ entries'[table] = [entries[table] EXCEPT ![used[table]] = name]
        /\ \A any \in Tables \ {table} : entries'[any] = entries[any]
        /\ DOMAIN entries' = Tables
    BY <1>1, <1>2 DEF EntryInv, EntryShape
  <2>3. entries[table] \in [0..(TableMax(table) - 1) -> Names \cup {NOBODY}]
    BY <1>2 DEF EntryInv, EntryShape
  <2>4. entries'[table] \in [0..(TableMax(table) - 1) -> Names \cup {NOBODY}]
    BY <1>2, <2>1, <2>2, <2>3
  <2>5. /\ entries'[table][used[table]] = name
        /\ \A i \in 0..(TableMax(table) - 1) :
             i # used[table] => entries'[table][i] = entries[table][i]
    BY <2>1, <2>2, <2>3
  <2> QED
    BY <2>2, <2>4, <2>5 DEF EntryInv, EntryShape
\* What is counted stays as it was.
<1>0. ASSUME NEW any \in Tables, used[any] <= TableMax(any), NEW i \in Nat, i < used[any]
      PROVE  entries'[any][i] = entries[any][i]
  BY <1>0, <1>2, <1>3, TableSizes
<1> HIDE DEF table, name
<1>4. EntryShape'
  <2>1. asking' \in [Askers -> [step : {"idle", "write", "take"}, table : Tables,
                               name : Names \cup {NOBODY}]]
    BY <1>1 DEF EntryInv, EntryShape
  <2>2. \A u \in Askers : Busy(u)' => asking'[u].name \in Names
    BY <1>2 DEF EntryInv, EntryShape, Busy
  <2> QED
    BY <1>1, <1>3, <2>1, <2>2 DEF EntryInv, EntryShape
<1>5. EntryBound'
  <2> SUFFICES ASSUME NEW any \in Tables
               PROVE  used'[any] + Cardinality(Takers(any)') <= TableMax(any) + Cardinality(Askers)
    BY DEF EntryBound
  <2>1. CASE any = table
    <3>1. Cardinality(Takers(any)') \in Nat /\ Cardinality(Takers(any)') <= Cardinality(Askers)
      <4>1. Takers(any)' \subseteq Askers /\ IsFiniteSet(Askers)
        BY EntryAssumption DEF EntryAssumption, Takers
      <4> QED
        BY <4>1, FS_Subset, FS_CardinalityType
    <3>2. Cardinality(Askers) \in Nat
      BY EntryAssumption, FS_CardinalityType DEF EntryAssumption
    <3> QED
      BY <1>1, <1>2, <2>1, <3>1, <3>2, TableSizes
  <2>2. CASE any # table
    <3>1. Takers(any)' = Takers(any)
      BY <1>1, <1>2, <2>2 DEF Takers, table
    <3> QED
      BY <1>1, <3>1 DEF EntryInv, EntryBound
  <2> QED
    BY <2>1, <2>2
<1>6. ASSUME ~mixed PROVE Counted' /\ OneByOne' /\ \A h \in handed' : Kept(h)'
  <2>1. Counted'
    <3> SUFFICES ASSUME NEW any \in Tables
                 PROVE  /\ used'[any] <= TableMax(any)
                        /\ \A i, j \in Nat : i < used'[any] /\ j < used'[any] /\ i # j
                             => entries'[any][i] # entries'[any][j]
      BY DEF Counted
    <3>1. \A i \in Nat : i < used[any] => entries'[any][i] = entries[any][i]
      BY <1>0, <1>6 DEF EntryInv, Counted
    <3> QED
      BY <1>1, <1>6, <3>1 DEF EntryInv, Counted
  <2>2. \A u \in Askers \ {t} : Busy(u) => asking[u].table # table
    BY <1>1, <1>6 DEF EntryInv, OneByOne, Busy, table
  <2>3. ASSUME NEW u \in Askers, NEW v \in Askers, u # v, Busy(u)', Busy(v)'
        PROVE  asking'[u].table # asking'[v].table
    BY <1>1, <1>2, <1>6, <2>3 DEF EntryInv, OneByOne, Busy, table
  <2>4. ASSUME NEW u \in Askers, asking'[u].step = "take"
        PROVE  LET any == asking'[u].table
               IN  used'[any] < TableMax(any) /\ entries'[any][used'[any]] = asking'[u].name
    <3>1. CASE u = t
      BY <1>1, <1>2, <1>3, <3>1
    <3>2. CASE u # t
      <4>1. /\ asking'[u] = asking[u] /\ asking[u].table \in Tables
            /\ asking[u].table # table /\ used[asking[u].table] \in Nat
        BY <1>2, <2>2, <2>4, <3>2 DEF EntryInv, EntryShape, Busy
      <4> QED
        BY ZenonT(60), <1>1, <1>3, <1>6, <2>4, <4>1 DEF EntryInv, OneByOne, Busy
    <3> QED
      BY <3>1, <3>2
  <2>5. ASSUME NEW u \in Askers, Busy(u)'
        PROVE  /\ asking'[u].name \notin Imported
               /\ \A i \in Nat : i < used'[asking'[u].table]
                    => entries'[asking'[u].table][i] # asking'[u].name
    <3>1. Busy(u) /\ asking'[u].table = asking[u].table /\ asking'[u].name = asking[u].name
      BY <1>1, <1>2, <2>5 DEF Busy, table, name
    <3>2. asking[u].table \in Tables
      BY DEF EntryInv, EntryShape
    <3>3. \A i \in Nat : i < used[asking[u].table]
            => entries'[asking[u].table][i] = entries[asking[u].table][i]
      BY <1>0, <1>6, <3>2 DEF EntryInv, Counted
    <3> QED
      BY <1>1, <1>6, <3>1, <3>3 DEF EntryInv, OneByOne
  <2>6. OneByOne'
    BY <2>3, <2>4, <2>5 DEF OneByOne
  <2>7. ASSUME NEW h \in handed' PROVE Kept(h)'
    <3>1. Kept(h) /\ h.table \in Tables
      BY <1>1, <1>6 DEF EntryInv, EntryShape
    <3>2. \A i \in Nat : i < used[h.table] => entries'[h.table][i] = entries[h.table][i]
      BY <1>0, <1>6, <3>1 DEF EntryInv, Counted
    <3> QED
      BY <1>1, <3>1, <3>2 DEF Kept
  <2> QED
    BY <2>1, <2>6, <2>7
<1> QED
  BY <1>1, <1>4, <1>5, <1>6 DEF EntryInv

LEMMA EntryTakes ==
  ASSUME EntryInv, NEW t \in Askers, TakeToken(t)
  PROVE  EntryInv'
<1> DEFINE table == asking[t].table
           name == asking[t].name
           h == [table |-> table, name |-> name, va |-> Token(table, used[table])]
<1>1. /\ asking[t].step = "take"
      /\ handed' = handed \cup {h}
      /\ used' = [used EXCEPT ![table] = @ + 1]
      /\ asking' = [asking EXCEPT ![t] = Idle]
      /\ UNCHANGED <<entries, mixed>>
  BY DEF TakeToken, Answer
<1>2. /\ table \in Tables /\ name \in Names
      /\ asking'[t] = Idle
      /\ \A u \in Askers \ {t} : asking'[u] = asking[u]
      /\ used[table] \in Nat /\ used'[table] = used[table] + 1
      /\ \A any \in Tables \ {table} : used'[any] = used[any]
  BY <1>1 DEF EntryInv, EntryShape, Busy
<1>3. h.table = table /\ h.name = name /\ h.va = Token(table, used[table])
  OBVIOUS
<1> HIDE DEF table, name, h
<1>4. EntryShape'
  <2>1. asking' \in [Askers -> [step : {"idle", "write", "take"}, table : Tables,
                               name : Names \cup {NOBODY}]]
    BY <1>1 DEF EntryInv, EntryShape, Idle, Tables
  <2>2. \A u \in Askers : Busy(u)' => asking'[u].name \in Names
    BY <1>2 DEF EntryInv, EntryShape, Busy, Idle
  <2>3. used' \in [Tables -> Nat]
    BY <1>1, <1>2 DEF EntryInv, EntryShape
  <2> QED
    BY <1>1, <1>2, <1>3, <2>1, <2>2, <2>3 DEF EntryInv, EntryShape
<1>5. EntryBound'
  <2> SUFFICES ASSUME NEW any \in Tables
               PROVE  used'[any] + Cardinality(Takers(any)') <= TableMax(any) + Cardinality(Askers)
    BY DEF EntryBound
  <2>1. used[any] + Cardinality(Takers(any)) <= TableMax(any) + Cardinality(Askers)
    BY DEF EntryInv, EntryBound
  <2>2. CASE any = table
    <3>1. Takers(any)' = Takers(any) \ {t} /\ t \in Takers(any)
      BY <1>1, <1>2, <2>2 DEF Takers, Idle, table
    <3>2. Cardinality(Takers(any) \ {t}) = Cardinality(Takers(any)) - 1
      BY <3>1, TakersFinite, FS_RemoveElement
    <3>3. Cardinality(Takers(any)') = Cardinality(Takers(any)) - 1
      BY <3>1, <3>2
    <3>4. Cardinality(Takers(any)) \in Nat
      BY TakersFinite
    <3> QED
      BY <1>2, <2>1, <2>2, <3>3, <3>4
  <2>3. CASE any # table
    <3>1. Takers(any)' = Takers(any)
      BY <1>1, <1>2, <2>3 DEF Takers, Idle, table
    <3> QED
      BY <1>2, <2>1, <2>3, <3>1
  <2> QED
    BY <2>2, <2>3
<1>6. ASSUME ~mixed PROVE Counted' /\ OneByOne' /\ \A k \in handed' : Kept(k)'
  <2>1. /\ used[table] < TableMax(table) /\ entries[table][used[table]] = name
        /\ name \notin Imported
        /\ \A i \in Nat : i < used[table] => entries[table][i] # name
    BY <1>1, <1>6 DEF EntryInv, OneByOne, Busy, table, name
  <2>2. Counted'
    <3> SUFFICES ASSUME NEW any \in Tables
                 PROVE  /\ used'[any] <= TableMax(any)
                        /\ \A i, j \in Nat : i < used'[any] /\ j < used'[any] /\ i # j
                             => entries'[any][i] # entries'[any][j]
      BY DEF Counted
    <3>1. CASE any # table
      BY <1>1, <1>2, <1>6, <3>1 DEF EntryInv, Counted
    <3>2. CASE any = table
      <4>1. used'[any] <= TableMax(any)
        BY <1>2, <2>1, <3>2, TableSizes
      <4>2. \A i, j \in Nat : i < used[any] /\ j < used[any] /\ i # j
              => entries[any][i] # entries[any][j]
        BY <1>6 DEF EntryInv, Counted
      <4>3. \A i \in Nat : i < used'[any] => i < used[any] \/ i = used[any]
        BY <1>2, <3>2
      <4> QED
        BY <1>1, <1>2, <2>1, <3>2, <4>1, <4>2, <4>3
    <3> QED
      BY <3>1, <3>2
  <2>3. \A u \in Askers \ {t} : Busy(u) => asking[u].table # table
    BY <1>1, <1>6 DEF EntryInv, OneByOne, Busy, table
  <2>4. ASSUME NEW u \in Askers, Busy(u)'
        PROVE  /\ u # t /\ Busy(u) /\ asking'[u] = asking[u]
               /\ asking[u].table \in Tables /\ asking[u].table # table
               /\ used'[asking[u].table] = used[asking[u].table]
    <3>1. u # t
      BY <1>2, <2>4 DEF Busy, Idle
    <3>2. asking'[u] = asking[u]
      BY <1>2, <3>1
    <3>3. Busy(u)
      BY <2>4, <3>2 DEF Busy
    <3>4. asking[u].table \in Tables /\ asking[u].table # table
      BY <2>3, <3>1, <3>3 DEF EntryInv, EntryShape
    <3> QED
      BY <1>2, <3>1, <3>2, <3>3, <3>4
  <2>5. OneByOne'
    <3>1. ASSUME NEW u \in Askers, NEW v \in Askers, u # v, Busy(u)', Busy(v)'
          PROVE  asking'[u].table # asking'[v].table
      BY <1>6, <2>4, <3>1 DEF EntryInv, OneByOne
    <3>2. ASSUME NEW u \in Askers, asking'[u].step = "take"
          PROVE  LET any == asking'[u].table
                 IN  used'[any] < TableMax(any) /\ entries'[any][used'[any]] = asking'[u].name
      <4>1. Busy(u)'
        BY <3>2 DEF Busy
      <4> QED
        BY <1>1, <1>6, <2>4, <3>2, <4>1 DEF EntryInv, OneByOne
    <3>3. ASSUME NEW u \in Askers, Busy(u)'
          PROVE  /\ asking'[u].name \notin Imported
                 /\ \A i \in Nat : i < used'[asking'[u].table]
                      => entries'[asking'[u].table][i] # asking'[u].name
      BY <1>1, <1>6, <2>4, <3>3 DEF EntryInv, OneByOne
    <3> QED
      BY <3>1, <3>2, <3>3 DEF OneByOne
  <2>6. ASSUME NEW k \in handed' PROVE Kept(k)'
    <3>1. CASE k = h
      BY <1>1, <1>2, <1>3, <2>1, <3>1 DEF Kept
    <3>2. CASE k # h
      <4>1. Kept(k) /\ k.table \in Tables
        BY <1>1, <1>6, <3>2 DEF EntryInv, EntryShape
      <4>2. \A i \in Nat : i < used[k.table] => i < used'[k.table]
        BY <1>2, <4>1
      <4> QED
        BY <1>1, <4>1, <4>2 DEF Kept
    <3> QED
      BY <3>1, <3>2
  <2> QED
    BY <2>2, <2>5, <2>6
<1> QED
  BY <1>1, <1>4, <1>5, <1>6 DEF EntryInv

LEMMA EntrySteps == EntryInv /\ [EntryNext]_entryVars => EntryInv'
<1> SUFFICES ASSUME EntryInv, [EntryNext]_entryVars PROVE EntryInv'
  OBVIOUS
<1>1. CASE UNCHANGED entryVars
  BY <1>1 DEF entryVars, EntryInv, EntryShape, EntryBound, OneByOne, Counted, Kept, Busy, Takers
<1>2. ASSUME NEW t \in Askers, NEW table \in Tables, NEW name \in Names,
             AskImported(table, name) \/ AskKnown(table, name) \/ AskNew(t, table, name)
      PROVE  EntryInv'
  BY <1>2, EntryAsks, EntryNews
<1>3. ASSUME NEW t \in Askers, Refuse(t) \/ WriteEntry(t) \/ TakeToken(t)
      PROVE  EntryInv'
  BY <1>3, EntryRefusals, EntryWrites, EntryTakes
<1> QED
  BY <1>1, <1>2, <1>3 DEF EntryNext
----------------------------------------------------------------------------
(* The precompiled shaders: their table and what is found in it.           *)

LEMMA LeastExists ==
  ASSUME NEW T, T \subseteq Nat, T # {}
  PROVE  \E x \in T : \A y \in T : x <= y
<1> DEFINE R == {ss \in Nat \X Nat : ss[1] < ss[2]}
<1>1. IsWellFoundedOn(R, Nat)
  BY NatLessThanWellFounded DEF OpToRel
<1>2. \A x, y \in Nat : y < x => <<y, x>> \in R
  OBVIOUS
<1> HIDE DEF R
<1>3. PICK x \in T : \A y \in T : ~(<<y, x>> \in R)
  BY <1>1, WFMin
<1>4. \A y \in T : x <= y
  <2> SUFFICES ASSUME NEW y \in T PROVE x <= y
    OBVIOUS
  <2>1. x \in Nat /\ y \in Nat /\ ~(y < x)
    BY <1>2, <1>3
  <2> QED
    BY <2>1
<1> QED
  BY <1>4

\* The table has as many entries as it says, and no handle is beyond it.
CgInv ==
  /\ disc \in Discs /\ indexed \in BOOLEAN
  /\ \E n \in 0..MaxShaders : DOMAIN shaders = 1..n /\ Len(shaders) = n
  /\ asked.handle \in 0..MaxShaders

LEMMA TableFits ==
  ASSUME CgInv
  PROVE  \E n \in 0..MaxShaders : DOMAIN Indexed = 1..n /\ Len(Indexed) = n
<1>1. CASE indexed
  BY <1>1 DEF CgInv, Indexed
<1>2. CASE ~indexed /\ ~teaDir
  BY <1>2, CgAssumption DEF CgAssumption, Indexed
<1>3. CASE ~indexed /\ teaDir
  <2>1. IsFiniteSet(Files)
    <3>1. Len(disc) \in Nat /\ DOMAIN disc = 1..Len(disc)
      BY CgAssumption DEF CgAssumption, CgInv
    <3>2. Files \subseteq 1..Len(disc)
      BY <3>1 DEF Files
    <3>3. IsFiniteSet(1..Len(disc))
      BY <3>1, FS_Interval
    <3> QED
      BY <3>2, <3>3, FS_Subset
  <2> DEFINE n == Room(Cardinality(Files))
  <2>2. n \in 0..MaxShaders
    BY <2>1, FS_CardinalityType, CgAssumption DEF CgAssumption, Room
  <2>3. Indexed = [i \in 1..n |-> Entry(Nth(i))]
    BY <1>3 DEF Indexed
  <2> HIDE DEF n
  <2>4. DOMAIN Indexed = 1..n /\ Len(Indexed) = n
    BY <2>2, <2>3
  <2> QED
    BY <2>2, <2>4
<1> QED
  BY <1>1, <1>2, <1>3

\* A handle is 0 or an entry of the table searched.
LEMMA HandlesFit ==
  ASSUME NEW table, NEW n \in Nat, DOMAIN table = 1..n, NEW whole, NEW want
  PROVE  Hit(whole, want, table) \in 0..n
<1> DEFINE same == {i \in DOMAIN table : table[i].defs = want}
           hits == {i \in same : CodeEnds(whole, table[i].body)}
<1>1. CASE hits # {}
  <2>1. hits \subseteq 1..n
    OBVIOUS
  <2>0. hits # {}
    BY <1>1
  <2>2. Hit(whole, want, table) = CHOOSE i \in hits : \A j \in hits : i <= j
    BY <1>1 DEF Hit
  <2> HIDE DEF hits
  <2>3. \E i \in hits : \A j \in hits : i <= j
    <3>1. hits \subseteq Nat
      BY <2>1
    <3> QED
      BY <2>0, <3>1, LeastExists
  <2>4. Hit(whole, want, table) \in hits
    BY <2>2, <2>3
  <2>5. Hit(whole, want, table) \in 1..n
    BY <2>1, <2>4
  <2> QED
    BY <2>5
<1>2. CASE hits = {} /\ \E i \in same : same = {i}
  <2>1. same \subseteq 1..n
    OBVIOUS
  <2>2. Hit(whole, want, table) = CHOOSE i \in same : TRUE
    BY <1>2 DEF Hit
  <2>3. same # {}
    BY <1>2
  <2> HIDE DEF hits, same
  <2>4. (CHOOSE i \in same : TRUE) \in same
    BY <2>3
  <2>5. Hit(whole, want, table) \in 1..n
    BY <2>1, <2>2, <2>4
  <2> QED
    BY <2>5
<1>3. CASE hits = {} /\ ~\E i \in same : same = {i}
  BY <1>3 DEF Hit
<1> QED
  BY <1>1, <1>2, <1>3

LEMMA CgSteps == CgInv /\ [CgNext]_cgVars => CgInv'
<1> SUFFICES ASSUME CgInv, [CgNext]_cgVars PROVE CgInv'
  OBVIOUS
<1>1. CASE UNCHANGED cgVars
  BY <1>1 DEF cgVars, CgInv
<1>2. CASE CreateContext
  BY <1>2, TableFits DEF CreateContext, CgInv
<1>3. ASSUME NEW k, NEW defs, NEW way, CreateProgram(k, defs, way) PROVE CgInv'
  <2> DEFINE whole == StripCode(Preprocessed(disc[k].text, way))
             want == ArgsDefines(defs)
             handle == Hit(whole, want, Indexed)
  <2>1. PICK n \in 0..MaxShaders : DOMAIN Indexed = 1..n /\ Len(Indexed) = n
    BY TableFits
  <2> HIDE DEF whole, want
  <2>2. handle \in 0..MaxShaders
    <3>1. handle \in 0..n
      BY <2>1, HandlesFit, CgAssumption DEF CgAssumption
    <3> QED
      BY <2>1, <3>1, CgAssumption DEF CgAssumption
  <2>3. /\ indexed' = TRUE /\ shaders' = Indexed /\ disc' = disc
        /\ asked' = [file |-> k, defs |-> defs, way |-> way, handle |-> handle]
    BY <1>3 DEF CreateProgram, whole, want
  <2> HIDE DEF handle
  <2> QED
    BY <2>1, <2>2, <2>3 DEF CgInv
<1> QED
  BY <1>1, <1>2, <1>3 DEF CgNext

----------------------------------------------------------------------------
(* The three side by side.                                                 *)

GraphicsInv == WatchInv /\ EntryInv /\ CgInv

LEMMA GraphicsStarts == GraphicsInit => GraphicsInv
<1> SUFFICES ASSUME GraphicsInit PROVE GraphicsInv
  OBVIOUS
<1>1. CgInv
  <2>1. shaders = <<>> /\ asked = NotAsked /\ disc \in Discs /\ indexed = FALSE
    BY DEF GraphicsInit, CgInit
  <2>2. 0 \in 0..MaxShaders /\ DOMAIN shaders = 1..0 /\ Len(shaders) = 0
    BY <2>1, CgAssumption DEF CgAssumption
  <2> QED
    BY <2>1, <2>2 DEF CgInv, NotAsked
<1> QED
  BY <1>1, WatchStarts, EntriesStart DEF GraphicsInit, GraphicsInv

LEMMA GraphicsSteps == GraphicsInv /\ [GraphicsNext]_graphicsVars => GraphicsInv'
<1>1. [GraphicsNext]_graphicsVars
        => [WatchNext]_watchVars /\ [EntryNext]_entryVars /\ [CgNext]_cgVars
  BY DEF GraphicsNext, graphicsVars
<1> QED
  BY <1>1, WatchSteps, EntrySteps, CgSteps DEF GraphicsInv

LEMMA GraphicsInvariant == GraphicsSpec => []GraphicsInv
<1> QED
  BY GraphicsStarts, GraphicsSteps, PTL DEF GraphicsSpec

LEMMA WatchTypes == WatchInv => WatchTypeOK
BY DEF WatchInv, WatchShape, WatchTypeOK, GlStates, Bindable

\* The state the guest gave the driver is the driver's, but for what the
\* options that are set say they change: for any set of options, any targets,
\* units and capabilities, and any frames chosen.
THEOREM WatchingIsHarmless == GraphicsSpec => []GameStateKept
<1>1. GraphicsInv => GameStateKept
  BY FieldsSuffice DEF GraphicsInv, WatchInv
<1> QED
  BY <1>1, GraphicsInvariant, PTL

\* What the handlers remember of the driver, the bound target and whether
\* vertex programs are on, is what it has, from the guest's bind or switch
\* through them until something passes them by: popped attributes, a list
\* compiled or called, a call by token, the bound target deleted, the trials of
\* the statistics; with the types of all three parts.
THEOREM MirrorsStayTrue == GraphicsSpec => []GraphicsSound
<1>1. GraphicsInv => GraphicsSound
  <2>1. CgInv => CgTypeOK
    BY CgAssumption DEF CgAssumption, CgInv, CgTypeOK
  <2> QED
    BY <2>1, WatchTypes, EntriesSuffice
       DEF GraphicsInv, WatchInv, GraphicsSound, GraphicsTypeOK
<1> QED
  BY <1>1, GraphicsInvariant, PTL

\* An address handed out for a name reaches that name's function for good, and
\* a name has one address in a table, for tables of any size and any number of
\* threads that keep out of one another's table.
THEOREM AddressesStay == GraphicsSpec => []AddressesKeep
<1>1. GraphicsInv => AddressesKeep
  BY EntriesSuffice DEF GraphicsInv
<1> QED
  BY <1>1, GraphicsInvariant, PTL

\* The compiler behaves as it does alone, whatever part of the process is
\* exercised, so what is proved of it alone holds here.
THEOREM ShadersByThemselves == GraphicsSpec => CgSpec
<1>1. GraphicsInit => CgInit
  BY DEF GraphicsInit
<1>2. [GraphicsNext]_graphicsVars => [CgNext]_cgVars
  BY DEF GraphicsNext, graphicsVars
<1> QED
  BY <1>1, <1>2, PTL DEF GraphicsSpec, CgSpec
=============================================================================
