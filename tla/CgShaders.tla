------------------------------ MODULE CgShaders ------------------------------
(***************************************************************************)
(* The Cg compiler of hle_cg.c, which compiles nothing: it finds which of  *)
(* the disc's precompiled shaders a source is, from the end of the source  *)
(* and the definitions it is to be compiled with.                          *)
(*                                                                         *)
(* A text is a sequence of code tokens, COMMENT, and include lines, which  *)
(* are names of headers; spaces are part of the wording and left out.      *)
(***************************************************************************)
EXTENDS Integers, FiniteSets, Sequences, SequencesExt

CONSTANTS
  Discs,       \* bound: what may be on the disc, in the order it is walked
  Code,        \* the tokens code is made of
  Headers,     \* the text of each header
  Variants,    \* bound: lists of definitions
  MaxShaders,  \* MAX_SHADERS
  ArgLimit,    \* definitions that fit the argument buffer
  COMMENT,
  REWRITTEN,   \* code no file holds
  NOTHING      \* a file that is missing or cannot be read

\* Files hold code, comments and includes; headers code and comments.
Plain == Code \cup {COMMENT}

ASSUME CgAssumption ==
  /\ MaxShaders \in Nat /\ ArgLimit \in Nat
  /\ COMMENT \notin Code \cup DOMAIN Headers
  /\ REWRITTEN \notin Code \cup DOMAIN Headers \cup {COMMENT}
  /\ \A h \in DOMAIN Headers : Headers[h] \in Seq(Plain)
  /\ \A v \in Variants : v \in Seq(STRING)
  /\ \A d \in Discs : d \in Seq([text : Seq(Plain \cup DOMAIN Headers),
                                  defs : Seq(STRING) \cup {NOTHING}])

VARIABLES
  disc,     \* the files: their text, and the definitions and output beside
  teaDir,   \* TEA_DIR is set
  indexed,  \* g_indexed
  shaders,  \* g_sh
  asked     \* the last program asked for, and the handle it got

cgVars == <<disc, teaDir, indexed, shaders, asked>>

NotAsked == [file |-> 0, defs |-> <<>>, way |-> "bare", handle |-> 0]

CgInit ==
  /\ disc \in Discs
  /\ teaDir \in BOOLEAN
  /\ indexed = FALSE /\ shaders = <<>>
  /\ asked = NotAsked

----------------------------------------------------------------------------
\* strip_code.
StripCode(text) ==
  FlattenSeq([i \in DOMAIN text |-> IF text[i] = COMMENT THEN <<>> ELSE <<text[i]>>])

\* Mutant: the whole file is taken for its own code.
WholeFile(text) == text

LastInclude(text) ==
  LET lines == {i \in DOMAIN text : text[i] \in DOMAIN Headers}
  IN  IF lines = {} THEN 0 ELSE CHOOSE i \in lines : \A j \in lines : j <= i

\* own_code: what follows the last include line.
OwnCode(text) == SubSeq(text, LastInclude(text) + 1, Len(text))

Entry(k) ==
  [file |-> k, body |-> StripCode(OwnCode(disc[k].text)), defs |-> disc[k].defs]

\* How many of n files the table takes.
Room(n) == IF n < MaxShaders THEN n ELSE MaxShaders

\* index_shaders, whole: every file with its output beside it, as many as the
\* table holds.  The flag is set first and for good, TEA_DIR or not.
Files == {k \in DOMAIN disc : disc[k].defs # NOTHING}
Nth(i) == CHOOSE k \in Files : Cardinality({j \in Files : j <= k}) = i
Indexed ==
  IF indexed THEN shaders
  ELSE IF ~teaDir THEN <<>>
  ELSE [i \in 1..Room(Cardinality(Files)) |-> Entry(Nth(i))]

CreateContext ==
  /\ indexed' = TRUE /\ shaders' = Indexed
  /\ UNCHANGED <<disc, teaDir, asked>>

\* args_defines: arguments beyond the buffer are dropped.
ArgsDefines(defs) == SubSeq(defs, 1, IF Len(defs) < ArgLimit THEN Len(defs) ELSE ArgLimit)

\* The engine's preprocessor: includes pasted in, the comments kept or not, and
\* the file's own code perhaps rewritten past recognition.
Ways == {"comments", "bare", "rewritten"}
Preprocessed(text, way) ==
  LET top == SubSeq(text, 1, LastInclude(text))
      own == SubSeq(text, LastInclude(text) + 1, Len(text))
      pasted == FlattenSeq([i \in DOMAIN top |->
                  IF top[i] \in DOMAIN Headers THEN Headers[top[i]] ELSE <<top[i]>>])
  IN  CASE way = "comments"  -> pasted \o own
        [] way = "bare"      -> StripCode(pasted \o own)
        [] way = "rewritten" -> StripCode(pasted) \o <<REWRITTEN>>

\* The file's own code ends the source.
CodeEnds(whole, body) == body # <<>> /\ IsSuffix(body, whole)

\* The first shader of these definitions whose code ends the source; failing
\* that, the only shader of these definitions.
Hit(whole, want, table) ==
  LET same == {i \in DOMAIN table : table[i].defs = want}
      hits == {i \in same : CodeEnds(whole, table[i].body)}
  IN  IF hits # {} THEN CHOOSE i \in hits : \A j \in hits : i <= j
      ELSE IF \E i \in same : same = {i} THEN CHOOSE i \in same : TRUE
      ELSE 0

\* cgCreateProgram for file k of the disc; 0 is failure.
CreateProgram(k, defs, way) ==
  /\ indexed' = TRUE /\ shaders' = Indexed
  /\ asked' = [file |-> k, defs |-> defs, way |-> way,
               handle |-> Hit(StripCode(Preprocessed(disc[k].text, way)),
                              ArgsDefines(defs), Indexed)]
  /\ UNCHANGED <<disc, teaDir>>

CgNext ==
  \/ CreateContext
  \/ \E k \in DOMAIN disc, defs \in Variants, way \in Ways :
       CreateProgram(k, defs, way)

CgSpec == CgInit /\ [][CgNext]_cgVars

----------------------------------------------------------------------------
\* cgGetProgramString: whose output the guest gets, or none.
ProgramFile(handle) == IF handle \in DOMAIN shaders THEN shaders[handle].file ELSE 0

CgTypeOK ==
  /\ disc \in Discs /\ indexed \in BOOLEAN
  /\ Len(shaders) <= MaxShaders
  /\ asked.handle \in 0..MaxShaders

Rivals(k, defs) == {i \in DOMAIN shaders : shaders[i].defs = defs /\ shaders[i].file # k}

\* A program asked for with the definitions its file was compiled with gets
\* that file's output, whatever includes and comments stand in the source and
\* whatever else is on the disc: of files in the table, arguments that fit, and
\* own code that is there and that no rival's ends.  When the preprocessor
\* rewrote that code a rival leaves it without output, never with another's.
RightProgram ==
  LET k == asked.file
      mine == StripCode(Preprocessed(disc[k].text, asked.way))
  IN  /\ k # 0
      /\ \E i \in DOMAIN shaders : shaders[i].file = k /\ shaders[i].defs = asked.defs
      /\ Len(asked.defs) <= ArgLimit
      /\ StripCode(OwnCode(disc[k].text)) # <<>>
      /\ \A i \in Rivals(k, asked.defs) : ~CodeEnds(mine, shaders[i].body)
      => ProgramFile(asked.handle) =
           IF asked.way = "rewritten" /\ Rivals(k, asked.defs) # {} THEN 0 ELSE k
=============================================================================
