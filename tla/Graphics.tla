------------------------------- MODULE Graphics ------------------------------
(***************************************************************************)
(* What stands between the guest and the driver, side by side: the         *)
(* forwarding and watching of GL calls, the addresses of entry points, and *)
(* the finding of precompiled shaders.  They share no state, so a          *)
(* behaviour uses one of them.                                             *)
(***************************************************************************)
EXTENDS GlWatch, EntryPoints, CgShaders

VARIABLE part

graphicsVars == <<part, watchVars, entryVars, cgVars>>

GraphicsInit ==
  /\ part \in {"watch", "entries", "shaders"}
  /\ WatchInit /\ EntryInit /\ CgInit
  /\ part # "watch" => option = {}
  /\ part # "shaders" => disc = <<>> /\ ~teaDir

GraphicsNext ==
  /\ UNCHANGED part
  /\ \/ part = "watch" /\ WatchNext /\ UNCHANGED <<entryVars, cgVars>>
     \/ part = "entries" /\ EntryNext /\ UNCHANGED <<watchVars, cgVars>>
     \/ part = "shaders" /\ CgNext /\ UNCHANGED <<watchVars, entryVars>>

GraphicsSpec == GraphicsInit /\ [][GraphicsNext]_graphicsVars

\* Every variable of the three parts keeps its type.
GraphicsTypeOK == WatchTypeOK /\ EntryTypeOK /\ CgTypeOK

\* Types, and what the watchers remember of the driver is so (hle_gl.c:812).
GraphicsSound == GraphicsTypeOK /\ MirrorsTrue
=============================================================================
