------------------------------- MODULE Nvram -------------------------------
(***************************************************************************)
(* The cabinet's non-volatile memory (hle_sega.c): two byte arrays that    *)
(* are loaded from a file before the first access and written back to it   *)
(* whole after every write.                                                *)
(*                                                                         *)
(* The process may die at any moment, inside a handler too - the player    *)
(* closes the window, the game crashes, the power goes - and start again.  *)
(* A file is a sequence of bytes; stdio and the disk may hold back any     *)
(* suffix of what was written until fclose.                                *)
(***************************************************************************)
EXTENDS Integers, Sequences, FiniteSets

CONSTANTS
  SramSize, EepromSize,   \* SRAM_SIZE and EEPROM_SIZE
  Bytes,                  \* byte values, 0 among them
  AddressLimit,           \* addresses and lengths are below this
  MaxFile,                \* bound: how long a file the first start finds may be
  DiskFails,              \* the file may refuse to open or fill up
  MaxStarts,              \* bound: how often the process is started
  NULL

ASSUME NvramAssumption ==
  /\ {SramSize, EepromSize} \subseteq Nat \ {0}
  /\ Bytes \subseteq Nat /\ 0 \in Bytes
  /\ AddressLimit \in Nat \ {0} /\ SramSize < AddressLimit /\ EepromSize < AddressLimit
  /\ MaxFile \in Nat
  /\ DiskFails \in BOOLEAN
  /\ MaxStarts \in Nat \ {0}
  /\ NULL \notin Bytes \cup Seq(Bytes)

VARIABLES
  store,    \* g_sram and g_eeprom
  loaded,   \* g_nvram_loaded
  file,     \* the file named by nvram_path, or NULL if there is none
  pc,       \* where the handler is
  call,     \* the call it serves
  written,  \* how many bytes nvram_save has written
  result,   \* what the last handler returned, with the bytes of a read
  failed,   \* the last save or the load went wrong
  starts    \* how often the process was started

nvramVars == <<store, loaded, file, pc, call, written, result, failed, starts>>

Devices == {"sram", "eeprom"}
Size == [sram |-> SramSize, eeprom |-> EepromSize]
Stores == [sram : [1..SramSize -> Bytes], eeprom : [1..EepromSize -> Bytes]]
Zeroed == [d \in Devices |-> [i \in 1..Size[d] |-> 0]]
Whole == SramSize + EepromSize

\* What the two fwrites write.
Dump(s) == s.sram \o s.eeprom

\* The wrappers: both devices through the backup layer, and the EEPROM
\* directly, where the address is sixteen bits wide.
Calls == [api : {"sram", "eeprom", "eepromApi"}, writing : BOOLEAN,
          buffer : BOOLEAN, addr : 0..AddressLimit - 1, len : 0..AddressLimit - 1, byte : Bytes]
ASSUME NoCallIsNull == NULL \notin Calls

\* What the first start finds: no file, or one of any length, from this board or
\* a bigger one.
Found == {NULL} \cup UNION {[1..n -> Bytes] : n \in 0..MaxFile}

Device(c) == IF c.api = "sram" THEN "sram" ELSE "eeprom"
Addr(c) == IF c.api = "eepromApi" THEN c.addr % EepromSize ELSE c.addr

PCs == {"idle", "load", "sram", "eeprom", "copy", "open", "write", "close"}

NvramInit ==
  /\ store = Zeroed
  /\ loaded = FALSE
  /\ file \in Found
  /\ pc = "idle" /\ call = NULL /\ written = 0 /\ result = NULL
  /\ failed = FALSE
  /\ starts = 1

Call(c) ==
  /\ pc = "idle"
  /\ ~c.writing => c.byte = 0
  /\ pc' = "load" /\ call' = c /\ result' = NULL
  /\ UNCHANGED <<store, loaded, file, written, failed, starts>>

Answered(status, bytes) == [status |-> status, bytes |-> bytes]
Ok(bytes) == Answered("ok", bytes)
Fail == Answered("fail", <<>>)
Return(r) == pc' = "idle" /\ call' = NULL /\ result' = r

----------------------------------------------------------------------------
(* nvram_load.                                                             *)

AlreadyLoaded ==
  /\ pc = "load" /\ loaded
  /\ pc' = "copy"
  /\ UNCHANGED <<store, loaded, file, call, written, result, failed, starts>>

LoadOpen ==
  /\ pc = "load" /\ ~loaded
  /\ loaded' = TRUE
  /\ \/ file # NULL /\ pc' = "sram" /\ UNCHANGED failed
     \/ file = NULL /\ pc' = "copy" /\ UNCHANGED failed
     \/ file # NULL /\ DiskFails /\ pc' = "copy" /\ failed' = TRUE
  /\ UNCHANGED <<store, file, call, written, result, starts>>

\* A short file is not worth keeping: both arrays are cleared.
TooShort == store' = Zeroed /\ pc' = "copy"

ReadSram ==
  /\ pc = "sram"
  /\ IF Len(file) < SramSize THEN TooShort
     ELSE store' = [store EXCEPT !.sram = SubSeq(file, 1, SramSize)] /\ pc' = "eeprom"
  /\ UNCHANGED <<loaded, file, call, written, result, failed, starts>>

\* Mutant: the array that did arrive is kept.
ReadEepromOnly ==
  /\ pc = "eeprom"
  /\ IF Len(file) < Whole THEN pc' = "copy" /\ UNCHANGED store
     ELSE /\ store' = [store EXCEPT !.eeprom = SubSeq(file, SramSize + 1, Whole)]
          /\ pc' = "copy"
  /\ UNCHANGED <<loaded, file, call, written, result, failed, starts>>

ReadEeprom ==
  /\ pc = "eeprom"
  /\ IF Len(file) < Whole THEN TooShort
     ELSE /\ store' = [store EXCEPT !.eeprom = SubSeq(file, SramSize + 1, Whole)]
          /\ pc' = "copy"
  /\ UNCHANGED <<loaded, file, call, written, result, failed, starts>>

----------------------------------------------------------------------------
(* nvram_copy.                                                             *)

\* Written so that no sum of two words is taken, which could wrap.
Inside(c) ==
  /\ c.buffer
  /\ Addr(c) <= Size[Device(c)]
  /\ c.len <= Size[Device(c)] - Addr(c)

Fetch(s, c) == SubSeq(s[Device(c)], Addr(c) + 1, Addr(c) + c.len)

\* The game fills its buffer with one byte value.
Put(s, c) ==
  [s EXCEPT ![Device(c)] = [i \in DOMAIN @ |->
     IF i \in Addr(c) + 1..Addr(c) + c.len THEN c.byte ELSE @[i]]]

Refuse ==
  /\ pc = "copy" /\ ~Inside(call)
  /\ Return(Fail)
  /\ UNCHANGED <<store, loaded, file, written, failed, starts>>

CopyOut ==
  /\ pc = "copy" /\ Inside(call) /\ ~call.writing
  /\ Return(Ok(Fetch(store, call)))
  /\ UNCHANGED <<store, loaded, file, written, failed, starts>>

\* Mutant: the save is put off.
CopyInUnsaved ==
  /\ pc = "copy" /\ Inside(call) /\ call.writing
  /\ store' = Put(store, call)
  /\ Return(Ok(<<>>))
  /\ UNCHANGED <<loaded, file, written, failed, starts>>

CopyIn ==
  /\ pc = "copy" /\ Inside(call) /\ call.writing
  /\ store' = Put(store, call)
  /\ pc' = "open"
  /\ UNCHANGED <<loaded, file, call, written, result, failed, starts>>

----------------------------------------------------------------------------
(* nvram_save.  The answer is AM_OK whatever becomes of it.                *)

\* fopen(..., "wb") empties the file, or fails.
SaveOpen ==
  /\ pc = "open"
  /\ file' = <<>> /\ written' = 0 /\ pc' = "write"
  /\ UNCHANGED <<store, loaded, call, result, failed, starts>>

SaveRefused ==
  /\ pc = "open" /\ DiskFails
  /\ failed' = TRUE
  /\ Return(Ok(<<>>))
  /\ UNCHANGED <<store, loaded, file, written, starts>>

\* The file grows by some of what is left to write.
SaveWrite ==
  /\ pc = "write" /\ written < Whole
  /\ \E n \in written + 1..Whole :
       written' = n /\ file' = SubSeq(Dump(store), 1, n)
  /\ UNCHANGED <<store, loaded, pc, call, result, failed, starts>>

\* A full disk: fwrite is short and nobody looks.
SaveShort ==
  /\ pc = "write" /\ written < Whole /\ DiskFails
  /\ failed' = TRUE /\ pc' = "close"
  /\ UNCHANGED <<store, loaded, file, call, written, result, starts>>

SaveDone ==
  /\ pc = "write" /\ written = Whole
  /\ failed' = FALSE /\ pc' = "close"
  /\ UNCHANGED <<store, loaded, file, call, written, result, starts>>

SaveClose ==
  /\ pc = "close"
  /\ written' = 0
  /\ Return(Ok(<<>>))
  /\ UNCHANGED <<store, loaded, file, failed, starts>>

----------------------------------------------------------------------------
\* The process dies, wherever it is, and is started again.
Restart ==
  /\ starts < MaxStarts
  /\ starts' = starts + 1
  /\ store' = Zeroed /\ loaded' = FALSE
  /\ pc' = "idle" /\ call' = NULL /\ written' = 0 /\ result' = NULL
  /\ failed' = FALSE
  /\ UNCHANGED file

Handler ==
  \/ AlreadyLoaded \/ LoadOpen \/ ReadSram \/ ReadEeprom
  \/ Refuse \/ CopyOut \/ CopyIn
  \/ SaveOpen \/ SaveRefused \/ SaveWrite \/ SaveShort \/ SaveDone \/ SaveClose

NvramNext == (\E c \in Calls : Call(c)) \/ Handler \/ Restart

NvramSpec == NvramInit /\ [][NvramNext]_nvramVars

----------------------------------------------------------------------------
NvramTypeOK ==
  /\ store \in Stores
  /\ loaded \in BOOLEAN /\ failed \in BOOLEAN
  /\ file \in Seq(Bytes) \cup {NULL}
  /\ pc \in PCs
  /\ call \in Calls \cup {NULL}
  /\ written \in 0..Whole
  /\ result \in [status : {"ok", "fail"}, bytes : Seq(Bytes)] \cup {NULL}
  /\ starts \in 1..MaxStarts

\* What a start that finds this file will load.
Loads(f) ==
  IF f # NULL /\ Len(f) >= Whole
  THEN [sram |-> SubSeq(f, 1, SramSize), eeprom |-> SubSeq(f, SramSize + 1, Whole)]
  ELSE Zeroed

\* Between calls the file holds exactly what the game has written: a crash
\* there loses nothing, whatever was refused, read or lost before.
SavedBetweenCalls ==
  pc = "idle" /\ loaded /\ ~failed => Loads(file) = store

\* Every variable keeps its type, and what was answered is on disk
\* (hle_sega.c:327).
NvramSound == NvramTypeOK /\ SavedBetweenCalls

\* The arrays and the file together are a backup memory that is loaded whole
\* or not at all.
Memory == INSTANCE NonVolatile WITH
  Blank <- Zeroed,
  Faulty <- DiskFails,
  Refused <- Fail,
  image <- IF loaded /\ pc \notin {"sram", "eeprom"} THEN store ELSE Loads(file),
  kept <- Loads(file),
  asked <- call,
  answer <- result
ImplementsNonVolatile == Memory!Spec
=============================================================================
