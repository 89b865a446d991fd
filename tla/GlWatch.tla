------------------------------- MODULE GlWatch -------------------------------
(***************************************************************************)
(* The watched OpenGL calls of hle_gl.c and the frame instruments of       *)
(* hle_window.c.  Most calls are handed to the driver as they come; some   *)
(* pass a handler that counts, reports, or refuses, as the environment     *)
(* says.  The reports ask the driver things, and to ask some of them they  *)
(* change its state.                                                       *)
(*                                                                         *)
(* drv is the driver's state; game is what it would be had the guest's     *)
(* calls reached the driver directly.                                      *)
(*                                                                         *)
(* The handlers remember the bound target and the vertex-program switch.   *)
(* What changes these past the handlers - popped attributes, display       *)
(* lists, calls by entry-point token - is modelled too: astray says which  *)
(* of the two memories such a change has left behind.                      *)
(***************************************************************************)
EXTENDS Integers

CONSTANTS
  Fbos,         \* framebuffer objects besides the default one, 0
  Units,        \* texture units, 0 among them
  Capabilities, \* what glEnable turns on
  Options,      \* bound: the sets of LINDBERGH_ variables set
  Unwatched,    \* bound: those under which the guest also calls past the handlers
  MaxFrame,     \* bound: frames
  MaxDraws,     \* bound: draws of a frame
  TraceFrame,   \* LINDBERGH_TRACE_FRAME
  TexturedDraws,\* traced draws that list their textures
  ClearLooks,   \* clears looked at
  EarlyFrames,  \* frames reported at length
  StatsEvery,   \* frames between later reports
  ClearFrame, QuadFrame,  \* frames the clear and the draw path are tried on
  ScanFrame,    \* LINDBERGH_FBO_FRAME
  ShotFrame     \* LINDBERGH_SHOT_FRAME

ASSUME WatchAssumption ==
  /\ MaxFrame \in Nat /\ MaxDraws \in Nat /\ TexturedDraws \in Nat /\ ClearLooks \in Nat
  /\ StatsEvery \in Nat \ {0} /\ {TraceFrame, ShotFrame} \subseteq Int
  /\ 0 \in Units /\ 0 \notin Fbos
  /\ {"vp", "fp", "reject"} \subseteq Capabilities

----------------------------------------------------------------------------
(* The driver is external: what its specification has a call do to the     *)
(* state of the context the handlers work on.                              *)

Targets == Fbos \cup {0}

GlInit ==
  [fbo |-> 0, live |-> {0}, on |-> {}, read |-> [t \in Targets |-> "own"],
   pack |-> 4, unit |-> 0, clear |-> "black", paint |-> "own",
   fprog |-> "none", error |-> FALSE]

GlBind(s, fb) == [s EXCEPT !.fbo = fb, !.live = @ \cup {fb}]

\* Deleting the bound framebuffer binds the default one.
GlDelete(s, fb) ==
  [s EXCEPT !.live = @ \ {fb}, !.fbo = IF @ = fb THEN 0 ELSE @]

GlEnable(s, cap) == [s EXCEPT !.on = @ \cup {cap}]
GlDisable(s, caps) == [s EXCEPT !.on = @ \ caps]

\* Each framebuffer has a read buffer of its own: "own" is the back buffer of
\* the default one and the first attachment of any other, "front" and "other"
\* the rest.  Naming a buffer of the wrong kind is an error and changes nothing.
GlReadBuffer(s, of, buffer) ==
  IF (of = 0) = (s.fbo = 0) THEN [s EXCEPT !.read[s.fbo] = buffer]
  ELSE [s EXCEPT !.error = TRUE]

GlPackAlignment(s, n) == [s EXCEPT !.pack = n]
GlActiveTexture(s, u) == [s EXCEPT !.unit = u]
GlClearColour(s, c) == [s EXCEPT !.clear = c]

\* The colour mask, the current colour, blending and the alpha test.
GlPaint(s, p) == [s EXCEPT !.paint = p]
GlProgram(s, p) == [s EXCEPT !.fprog = p]

\* An upload the driver rejects leaves an error for glGetError.
GlUpload(s, good) == [s EXCEPT !.error = @ \/ ~good]
GlGetError(s) == [s EXCEPT !.error = FALSE]

----------------------------------------------------------------------------
VARIABLES
  option,  \* the variables that are set
  drv, game,
  curFbo,  \* g_cur_fbo
  vpOn,    \* g_vp_on
  astray,  \* which of these two a call past the handlers has left behind
  compiling, \* between glNewList, with GL_COMPILE, and glEndList
  inBegin, \* g_in_begin, and whether the guest is between glBegin and glEnd
  nth,     \* traced draws
  looks,   \* clears looked at
  frame    \* g_frame

watchVars ==
  <<option, drv, game, curFbo, vpOn, astray, compiling, inBegin, nth, looks, frame>>

WatchInit ==
  /\ option \in Options
  /\ drv = GlInit /\ game = GlInit
  /\ curFbo = 0 /\ vpOn = FALSE /\ astray = {}
  /\ compiling = FALSE /\ inBegin = FALSE
  /\ nth = 0 /\ looks = 0 /\ frame = 0

----------------------------------------------------------------------------
\* gl_dispatch asks for the error after each call when told to, outside of
\* glBegin and glEnd; what it finds the guest will not.
Dispatched(s) == IF "GLERR" \in option /\ ~inBegin THEN GlGetError(s) ELSE s

\* Of what the handlers remember, what a call that is none of theirs changes.
Parted(before, after) ==
  {m \in {"target", "pipeline"} :
     \/ m = "target" /\ after.fbo # before.fbo
     \/ m = "pipeline" /\ ("vp" \in after.on) # ("vp" \in before.on)}

\* Bound: a list being compiled is given switches only.
Free == ~inBegin /\ ~compiling

\* A call handed on by gl_dispatch: what it makes of the state the guest counts
\* on, and of the driver's.
Forward(ofGame, ofDriver) ==
  /\ Free
  /\ game' = ofGame
  /\ drv' = Dispatched(ofDriver)
  /\ astray' = astray \cup Parted(drv, drv')
  /\ UNCHANGED <<option, curFbo, vpOn, compiling, inBegin, nth, looks, frame>>

ReadBuffer(of, buffer) ==
  Forward(GlReadBuffer(game, of, buffer), GlReadBuffer(drv, of, buffer))
PixelStore(n) == Forward(GlPackAlignment(game, n), GlPackAlignment(drv, n))
ActiveTexture(u) == Forward(GlActiveTexture(game, u), GlActiveTexture(drv, u))
DeleteFramebuffer(fb) == Forward(GlDelete(game, fb), GlDelete(drv, fb))

\* The frame statistics are asked for.
Stats == "FBSTATS" \in option

\* Calls that draw or report and leave the state alone: the handlers that watch
\* draws, vertices, constants and completeness only read.
Look == Forward(game, drv)

\* The guest asks for the error itself.
GetError == Forward(GlGetError(game), GlGetError(drv))

\* LINDBERGH_NO_FBO binds the default framebuffer whatever is asked for.
Bound(fb) == IF "NO_FBO" \in option THEN 0 ELSE fb

\* Mutant: the target asked for is noted, whichever was bound.
NotedAsked(fb) == fb

\* The target later draws are attributed to.
Noted(fb) == Bound(fb)

BindFramebuffer(fb) ==
  /\ Free
  /\ game' = GlBind(game, fb)
  /\ drv' = GlBind(drv, Bound(fb))
  /\ curFbo' = Noted(fb)
  /\ astray' = astray \ {"target"}
  /\ UNCHANGED <<option, vpOn, compiling, inBegin, nth, looks, frame>>

\* gl_enable_filter: capabilities some option refuses; "reject" stands for
\* culling, the depth and scissor tests and texturing.
Refused(cap) ==
  \/ cap = "vp" /\ "NO_VP" \in option
  \/ cap = "fp" /\ "NO_FP" \in option
  \/ cap = "reject" /\ "NO_REJECT" \in option

\* While a list is compiled a switch goes into the list.
Switched(before, after) == IF compiling THEN before ELSE after

\* Either way the handlers note the vertex program's: in step with the driver's
\* own, unless it only went into a list.
Noting(cap) ==
  \/ cap # "vp" /\ UNCHANGED astray
  \/ cap = "vp" /\ ~compiling /\ astray' = astray \ {"pipeline"}
  \/ cap = "vp" /\ compiling /\ astray' = astray \cup {"pipeline"}

Enable(cap) ==
  /\ ~inBegin
  /\ game' = Switched(game, GlEnable(game, cap))
  /\ IF Refused(cap) THEN UNCHANGED <<drv, vpOn, astray>>
     ELSE /\ drv' = Switched(drv, GlEnable(drv, cap))
          /\ vpOn' = (vpOn \/ cap = "vp")
          /\ Noting(cap)
  /\ UNCHANGED <<option, curFbo, compiling, inBegin, nth, looks, frame>>

Disable(cap) ==
  /\ ~inBegin
  /\ game' = Switched(game, GlDisable(game, {cap}))
  /\ drv' = Dispatched(Switched(drv, GlDisable(drv, {cap})))
  /\ vpOn' = (vpOn /\ cap # "vp")
  /\ Noting(cap)
  /\ UNCHANGED <<option, curFbo, compiling, inBegin, nth, looks, frame>>

\* glNewList and glEndList, which nothing watches.
NewList ==
  /\ Free /\ option \in Unwatched
  /\ compiling' = TRUE /\ drv' = Dispatched(drv)
  /\ UNCHANGED <<option, game, curFbo, vpOn, astray, inBegin, nth, looks, frame>>

EndList ==
  /\ compiling
  /\ compiling' = FALSE /\ drv' = Dispatched(drv)
  /\ UNCHANGED <<option, game, curFbo, vpOn, astray, inBegin, nth, looks, frame>>

\* glPopAttrib and glCallList, only handed on: the capabilities become those of
\* an earlier moment, or what a list makes of them.  What was pushed or compiled
\* is not kept, so any are possible, and the driver has all the guest has
\* enabled but for what was refused or the statistics' trial turned off.
Replay(wanted, had) ==
  /\ option \in Unwatched /\ had \subseteq wanted
  /\ \A cap \in wanted \ had : Refused(cap) \/ (Stats /\ frame > QuadFrame)
  /\ Forward([game EXCEPT !.on = wanted], [drv EXCEPT !.on = had])

\* gl_token_call: an entry point the guest has by address goes straight to the
\* driver, past the handlers, the options and the asking for errors.
TokenCall(ofGame, ofDriver) ==
  /\ Free /\ option \in Unwatched
  /\ game' = ofGame /\ drv' = ofDriver
  /\ astray' = astray \cup Parted(drv, drv')
  /\ UNCHANGED <<option, curFbo, vpOn, compiling, inBegin, nth, looks, frame>>

TokenBind(fb) == TokenCall(GlBind(game, fb), GlBind(drv, fb))
TokenEnable(cap) == TokenCall(GlEnable(game, cap), GlEnable(drv, cap))
TokenDisable(cap) == TokenCall(GlDisable(game, {cap}), GlDisable(drv, {cap}))

\* gl_program_string: with LINDBERGH_FP_SOLID the driver gets a program of the
\* runtime's own in place of each fragment program.  A vertex program's text goes
\* through.
ProgramString ==
  /\ Free
  /\ game' = GlProgram(game, "own")
  /\ drv' = IF "FP_SOLID" \in option THEN GlProgram(drv, "solid")
            ELSE Dispatched(GlProgram(drv, "own"))
  /\ UNCHANGED <<option, curFbo, vpOn, astray, compiling, inBegin, nth, looks, frame>>

\* gl_compressed_tex empties the error queue before the call and takes the
\* call's own error, options or not.
CompressedTex(good) ==
  /\ Free
  /\ game' = GlUpload(game, good)
  /\ drv' = GlGetError(drv)
  /\ UNCHANGED <<option, curFbo, vpOn, astray, compiling, inBegin, nth, looks, frame>>

Begin ==
  /\ Free
  /\ inBegin' = TRUE
  /\ UNCHANGED <<option, drv, game, curFbo, vpOn, astray, compiling, nth, looks, frame>>

----------------------------------------------------------------------------
\* What reading pixels takes: a read buffer, by the target thought bound, and
\* rows without padding.
Probed(s, target) == GlPackAlignment(GlReadBuffer(s, target, "own"), 1)

\* The textures of each unit are listed by walking the units, to end at 0.
Listed(s) == IF nth < TexturedDraws THEN GlActiveTexture(s, 0) ELSE s

\* Mutant: every frame is traced.
TracedAlways == "TRACE" \in option

Traced == "TRACE" \in option /\ frame = TraceFrame

\* gl_end_watch, of one traced frame.
End ==
  /\ inBegin /\ nth < MaxDraws
  /\ inBegin' = FALSE
  /\ LET ended == IF "GLERR" \in option THEN GlGetError(drv) ELSE drv
     IN  IF Traced
         THEN drv' = Listed(Probed(ended, curFbo)) /\ nth' = nth + 1
         ELSE drv' = ended /\ UNCHANGED nth
  /\ UNCHANGED <<option, game, curFbo, vpOn, astray, compiling, looks, frame>>

\* gl_clear_watch asks the driver itself which target is bound.
Clear ==
  /\ Free
  /\ LET cleared == Dispatched(drv)
     IN  IF "FBSTATS" \in option /\ looks < ClearLooks
         THEN drv' = Probed(cleared, drv.fbo) /\ looks' = looks + 1
         ELSE drv' = cleared /\ UNCHANGED looks
  /\ UNCHANGED <<option, game, curFbo, vpOn, astray, compiling, inBegin, nth, frame>>

\* inspect_frame, in the order of the code: the report of an early frame, the
\* two trials, the read-back, the scan of the offscreen targets.
WantStats == Stats /\ (frame < EarlyFrames \/ frame % StatsEvery = 0)
ShotNow == "SHOT" \in option /\ frame = ShotFrame

Reported(s) == IF Stats /\ frame < EarlyFrames THEN GlGetError(s) ELSE s
ClearTried(s) ==
  IF WantStats /\ frame = ClearFrame THEN GlClearColour(s, "blue") ELSE s
QuadTried(s) ==
  IF WantStats /\ frame = QuadFrame
  THEN GlGetError(GlPaint(GlDisable(GlClearColour(s, "black"), Capabilities), "trial"))
  ELSE s

\* Every offscreen target is bound in turn and probed, then the default one.
Scanned(s) ==
  IF Stats /\ frame = ScanFrame
  THEN [GlBind(GlPackAlignment(s, 1), 0) EXCEPT
          !.live = Targets, !.read = [t \in Targets |-> IF t = 0 THEN @[0] ELSE "own"],
          !.error = FALSE]
  ELSE s

InspectFrame(s) ==
  LET seen == Reported(s)
  IN  IF WantStats \/ ShotNow
      THEN Scanned(Probed(QuadTried(ClearTried(seen)), 0)) ELSE seen

\* glXSwapBuffers and GLUT's swap both come by here.
Swap ==
  /\ Free /\ frame < MaxFrame
  /\ drv' = InspectFrame(drv)
  /\ astray' = astray \cup Parted(drv, drv')
  /\ frame' = frame + 1
  /\ UNCHANGED <<option, game, curFbo, vpOn, compiling, inBegin, nth, looks>>

WatchNext ==
  \/ \E fb \in Targets : BindFramebuffer(fb)
  \/ \E fb \in Fbos : DeleteFramebuffer(fb)
  \/ \E cap \in Capabilities : Enable(cap) \/ Disable(cap)
  \/ NewList \/ EndList
  \/ \E wanted, had \in SUBSET Capabilities : Replay(wanted, had)
  \/ \E fb \in Targets : TokenBind(fb)
  \/ \E cap \in Capabilities : TokenEnable(cap) \/ TokenDisable(cap)
  \/ ReadBuffer(0, "front") \/ ReadBuffer(0, "own")
  \/ \E n \in {1, 4} : PixelStore(n)
  \/ \E u \in Units : ActiveTexture(u)
  \/ \E good \in BOOLEAN : CompressedTex(good)
  \/ Look \/ ProgramString \/ GetError \/ Begin \/ End \/ Clear \/ Swap

----------------------------------------------------------------------------
WatchTypeOK ==
  /\ option \in Options
  /\ \A s \in {drv, game} :
       /\ s.fbo \in s.live /\ s.live \subseteq Targets
       /\ s.on \subseteq Capabilities /\ s.unit \in Units /\ s.error \in BOOLEAN
  /\ curFbo \in Targets /\ vpOn \in BOOLEAN /\ astray \subseteq {"target", "pipeline"}
  /\ compiling \in BOOLEAN /\ inBegin \in BOOLEAN
  /\ frame \in 0..MaxFrame /\ nth \in 0..MaxDraws /\ looks \in 0..ClearLooks

\* What each option may change under the guest.
Touches(o) ==
  CASE o = "NO_FBO" -> {"fbo", "live", "read", "error"}
    [] o \in {"NO_VP", "NO_FP", "NO_REJECT"} -> {"on"}
    [] o = "FP_SOLID" -> {"fprog"}
    [] o = "TRACE" -> {"read", "pack", "unit", "error"}
    [] o = "SHOT" -> {"read", "pack", "error"}
    [] o = "FBSTATS" -> {"fbo", "live", "on", "read", "pack", "clear", "paint", "error"}
    [] o = "GLERR" -> {}

\* The driver holds the state the guest's calls gave it, whatever the handlers
\* kept and asked on the way, but for what an option that is set says it
\* changes; before the traced frame a trace changes nothing, and before the
\* chosen frame a shot.  An error may be lost; none appears the guest did not
\* make.
Awake(o) ==
  /\ o = "TRACE" => frame >= TraceFrame
  /\ o = "SHOT" => frame > ShotFrame
GameStateKept ==
  \A f \in DOMAIN drv :
    \/ IF f = "error" THEN drv.error => game.error ELSE drv[f] = game[f]
    \/ \E o \in option : Awake(o) /\ f \in Touches(o)

\* The counters attribute draws to the target and the pipeline they go to:
\* what the handlers remember is what the driver has, under every option, from
\* the guest's bind or switch through them until something that passes them by
\* changes the driver's: the bound target deleted, attributes popped, a list
\* called, a call by token, the statistics' own trials; or until a switch they
\* note goes into a list.
MirrorsTrue ==
  /\ curFbo = drv.fbo \/ "target" \in astray
  /\ (vpOn <=> "vp" \in drv.on) \/ "pipeline" \in astray
=============================================================================
