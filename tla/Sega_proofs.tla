----------------------------- MODULE Sega_proofs -----------------------------
(***************************************************************************)
(* The two boards of hle_sega.c.                                           *)
(*                                                                         *)
(* That the non-volatile memory is saved between calls, and is a backup    *)
(* memory loaded whole or not at all, for any sizes, any contents and any  *)
(* number of crashes at any moment.  The invariant says how far the file   *)
(* has come at each point of the handler: before the first access nothing  *)
(* is in memory, while loading the part read is the file's, while saving   *)
(* the file is a prefix of memory.                                         *)
(*                                                                         *)
(* That the game finds every answer of the JVS board where the reply says, *)
(* and what the player is doing in the answers, for any requests whose     *)
(* frame fits the byte that holds its length.  The invariant says two      *)
(* things: pumping the messages that wait would leave the cabinet as the   *)
(* player has it, and the reply buffer holds the answers to the last       *)
(* request, built from a cabinet that was so.                              *)
(***************************************************************************)
EXTENDS Nvram, Jvs, SequenceTheorems, WellFoundedInduction, TLAPS

----------------------------------------------------------------------------
(* Dumping and loading.                                                    *)

LEMMA Sizes == /\ SramSize \in Nat \ {0} /\ EepromSize \in Nat \ {0} /\ 0 \in Bytes
               /\ Whole \in Nat \ {0} /\ SramSize <= Whole
BY NvramAssumption DEF NvramAssumption, Whole

LEMMA ZeroedTyped == Zeroed \in Stores
BY Sizes DEF Zeroed, Stores, Devices, Size

LEMMA TwoParts ==
  ASSUME NEW a \in Seq(Bytes), NEW b \in Seq(Bytes), Len(a) > 0, Len(b) > 0
  PROVE  /\ SubSeq(a \o b, 1, Len(a)) = a
         /\ SubSeq(a \o b, Len(a) + 1, Len(a) + Len(b)) = b
<1>1. Len(a) \in Nat /\ Len(b) \in Nat
  OBVIOUS
<1>2. SubSeq(a \o b, 1, Len(a)) = SubSeq(a, 1, Len(a))
  <2>1. 1 \in 1..Len(a) /\ Len(a) \in 1..Len(a)
    BY <1>1
  <2> QED
    BY <2>1, SubSeqOfConcat1
<1>3. SubSeq(a \o b, Len(a) + 1, Len(a) + Len(b)) = SubSeq(b, 1, Len(b))
  <2>1. /\ Len(a) + 1 \in Len(a) + 1..Len(a) + Len(b)
        /\ Len(a) + Len(b) \in Len(a) + 1..Len(a) + Len(b)
        /\ (Len(a) + 1) - Len(a) = 1 /\ (Len(a) + Len(b)) - Len(a) = Len(b)
    BY <1>1
  <2> QED
    BY <2>1, SubSeqOfConcat2
<1> QED
  BY <1>2, <1>3, SubSeqFull

LEMMA StoreIsDump ==
  ASSUME NEW s \in Stores
  PROVE  /\ s.sram \in Seq(Bytes) /\ Len(s.sram) = SramSize
         /\ s.eeprom \in Seq(Bytes) /\ Len(s.eeprom) = EepromSize
         /\ Dump(s) \in Seq(Bytes) /\ Len(Dump(s)) = Whole
         /\ SubSeq(Dump(s), 1, SramSize) = s.sram
         /\ SubSeq(Dump(s), SramSize + 1, Whole) = s.eeprom
<1>1. /\ s.sram \in Seq(Bytes) /\ Len(s.sram) = SramSize
      /\ s.eeprom \in Seq(Bytes) /\ Len(s.eeprom) = EepromSize
  BY Sizes DEF Stores
<1>2. Dump(s) \in Seq(Bytes) /\ Len(Dump(s)) = Whole
  BY ZenonT(60), <1>1, Sizes, ConcatProperties DEF Dump, Whole
<1>3. /\ SubSeq(Dump(s), 1, SramSize) = s.sram
      /\ SubSeq(Dump(s), SramSize + 1, Whole) = s.eeprom
  <2> DEFINE a == s.sram
             b == s.eeprom
  <2>1. /\ a \in Seq(Bytes) /\ Len(a) = SramSize /\ Len(a) > 0
        /\ b \in Seq(Bytes) /\ Len(b) = EepromSize /\ Len(b) > 0
    BY <1>1, Sizes
  <2>2. Dump(s) = a \o b
    BY DEF Dump
  <2> HIDE DEF a, b
  <2>3. /\ SubSeq(a \o b, 1, Len(a)) = a
        /\ SubSeq(a \o b, Len(a) + 1, Len(a) + Len(b)) = b
    BY <2>1, TwoParts
  <2>4. /\ SubSeq(Dump(s), 1, SramSize) = a
        /\ SubSeq(Dump(s), SramSize + 1, Whole) = b
    BY <2>1, <2>2, <2>3 DEF Whole
  <2> QED
    BY <2>4 DEF a, b
<1> QED
  BY <1>1, <1>2, <1>3

LEMMA PartsTyped ==
  ASSUME NEW f \in Seq(Bytes)
  PROVE  /\ Len(f) >= SramSize => SubSeq(f, 1, SramSize) \in [1..SramSize -> Bytes]
         /\ Len(f) >= Whole =>
              SubSeq(f, SramSize + 1, Whole) \in [1..EepromSize -> Bytes]
<1>1. Len(f) \in Nat /\ \A i \in 1..Len(f) : f[i] \in Bytes
  BY ElementOfSeq
<1>2. ASSUME Len(f) >= SramSize PROVE SubSeq(f, 1, SramSize) \in [1..SramSize -> Bytes]
  <2>1. /\ SubSeq(f, 1, SramSize) \in Seq(Bytes)
        /\ Len(SubSeq(f, 1, SramSize)) = SramSize
    BY <1>1, <1>2, Sizes, SubSeqProperties
  <2> QED
    BY <2>1, LenProperties
<1>3. ASSUME Len(f) >= Whole
      PROVE  SubSeq(f, SramSize + 1, Whole) \in [1..EepromSize -> Bytes]
  <2>1. /\ SubSeq(f, SramSize + 1, Whole) \in Seq(Bytes)
        /\ Len(SubSeq(f, SramSize + 1, Whole)) = EepromSize
    BY <1>1, <1>3, Sizes, SubSeqProperties DEF Whole
  <2> QED
    BY <2>1, LenProperties
<1> QED
  BY <1>2, <1>3

LEMMA LoadsTyped ==
  ASSUME NEW f \in Seq(Bytes) \cup {NULL}
  PROVE  Loads(f) \in Stores
<1>1. CASE f # NULL /\ Len(f) >= Whole
  <2>1. Len(f) >= SramSize
    BY <1>1, Sizes, LenProperties
  <2> QED
    BY <1>1, <2>1, PartsTyped DEF Loads, Stores
<1>2. CASE ~(f # NULL /\ Len(f) >= Whole)
  BY <1>2, ZeroedTyped DEF Loads
<1> QED
  BY <1>1, <1>2

LEMMA LoadsDump ==
  ASSUME NEW s \in Stores
  PROVE  Loads(Dump(s)) = s
<1>1. Dump(s) # NULL
  BY StoreIsDump, NvramAssumption DEF NvramAssumption
<1>2. s = [sram |-> s.sram, eeprom |-> s.eeprom]
  BY DEF Stores
<1> QED
  BY <1>1, <1>2, StoreIsDump, Sizes DEF Loads

\* A file shorter than both arrays is as good as none.
LEMMA LoadsShort ==
  ASSUME NEW s \in Stores, NEW n \in 0..Whole
  PROVE  /\ SubSeq(Dump(s), 1, n) \in Seq(Bytes)
         /\ n < Whole => Loads(SubSeq(Dump(s), 1, n)) = Zeroed
         /\ n = Whole => SubSeq(Dump(s), 1, n) = Dump(s)
<1>1. Dump(s) \in Seq(Bytes) /\ Len(Dump(s)) = Whole
  BY StoreIsDump
<1>2. \A i \in 1..n : Dump(s)[i] \in Bytes
  BY <1>1, ElementOfSeq, Sizes
<1>3. SubSeq(Dump(s), 1, n) \in Seq(Bytes) /\ Len(SubSeq(Dump(s), 1, n)) = n
  BY <1>2, Sizes, SubSeqProperties
<1> QED
  BY <1>1, <1>3, Sizes, SubSeqFull DEF Loads

LEMMA PutTyped ==
  ASSUME NEW s \in Stores, NEW c \in Calls
  PROVE  Put(s, c) \in Stores /\ Put(Put(s, c), c) = Put(s, c)
<1>1. c.byte \in Bytes
  BY DEF Calls
<1>2. CASE Device(c) = "sram"
  BY <1>1, <1>2 DEF Put, Stores
<1>3. CASE Device(c) = "eeprom"
  BY <1>1, <1>3 DEF Put, Stores
<1> QED
  BY <1>2, <1>3 DEF Device

LEMMA FetchTyped ==
  ASSUME NEW s \in Stores, NEW c \in Calls, Inside(c)
  PROVE  Fetch(s, c) \in Seq(Bytes)
<1>1. Size["sram"] = SramSize /\ Size["eeprom"] = EepromSize
  BY DEF Size
<1>2. Addr(c) \in Nat /\ c.len \in Nat
  <2>1. c.addr \in Nat /\ c.len \in Nat
    BY NvramAssumption DEF NvramAssumption, Calls
  <2>2. c.addr % EepromSize \in Nat
    BY <2>1, Sizes
  <2> QED
    BY <2>1, <2>2 DEF Addr
<1>3. s[Device(c)] \in Seq(Bytes) /\ Len(s[Device(c)]) = Size[Device(c)]
      /\ Size[Device(c)] \in Nat
  BY <1>1, StoreIsDump, Sizes DEF Device
<1>4. Addr(c) + c.len <= Len(s[Device(c)])
  BY <1>2, <1>3 DEF Inside
<1>5. \A i \in Addr(c) + 1..Addr(c) + c.len : s[Device(c)][i] \in Bytes
  BY <1>2, <1>3, <1>4, ElementOfSeq
<1> QED
  BY <1>2, <1>5, SubSeqProperties DEF Fetch

----------------------------------------------------------------------------
(* The invariant.                                                          *)

Loading == {"sram", "eeprom"}
Saving == {"open", "write", "close"}

\* Before the first access.
Unread == ~loaded => store = Zeroed /\ pc \in {"idle", "load"} /\ ~failed

\* What nvram_load has read so far.
ReadSoFar ==
  /\ pc \in Loading => file # NULL
  /\ pc = "eeprom" => Len(file) >= SramSize /\ store.sram = SubSeq(file, 1, SramSize)

\* What nvram_save has written so far.
WrittenSoFar ==
  /\ pc \in Saving => call.writing /\ Inside(call) /\ store = Put(store, call)
  /\ pc = "write" => file = SubSeq(Dump(store), 1, written)
  /\ pc = "close" /\ ~failed => Loads(file) = store

Kept == pc \in {"idle", "load", "copy"} /\ loaded /\ ~failed => Loads(file) = store

NvramInv ==
  /\ NvramTypeOK
  /\ call = NULL <=> pc = "idle"
  /\ failed => DiskFails
  /\ Unread /\ ReadSoFar /\ WrittenSoFar /\ Kept

LEMMA NvramStarts == NvramInit => NvramInv
<1> SUFFICES ASSUME NvramInit PROVE NvramInv
  OBVIOUS
<1>1. NvramTypeOK
  <2>1. 0 \in 0..Whole /\ 1 \in 1..MaxStarts /\ Found \subseteq Seq(Bytes) \cup {NULL}
    BY Sizes, NvramAssumption DEF NvramAssumption, Found
  <2> QED
    BY <2>1, ZeroedTyped DEF NvramInit, NvramTypeOK, PCs
<1>2. /\ Unread /\ ReadSoFar /\ WrittenSoFar /\ Kept
  BY DEF NvramInit, Unread, ReadSoFar, WrittenSoFar, Kept, Loading, Saving
<1> QED
  BY <1>1, <1>2, Zenon DEF NvramInit, NvramInv

\* The file is untouched and the handler is not in the middle of a save.
LEMMA CallKeeps ==
  ASSUME NvramInv, NEW c \in Calls, Call(c)
  PROVE  NvramInv'
BY NoCallIsNull
   DEF NvramInv, NvramTypeOK, Call, PCs, Unread, ReadSoFar, WrittenSoFar, Kept, Loading, Saving,
       NoCallIsNull

LEMMA LoadKeeps ==
  ASSUME NvramInv, AlreadyLoaded \/ LoadOpen
  PROVE  NvramInv'
<1>1. CASE AlreadyLoaded
  BY <1>1 DEF AlreadyLoaded, NvramInv, NvramTypeOK, PCs, Unread, ReadSoFar, WrittenSoFar, Kept,
              Loading, Saving
<1>2. CASE LoadOpen
  <2>1. Loads(NULL) = Zeroed
    BY DEF Loads
  <2>2. /\ store = Zeroed /\ ~failed /\ pc = "load" /\ loaded' = TRUE
        /\ UNCHANGED <<store, file, call, written, result, starts>>
        /\ pc' \in {"sram", "copy"} /\ failed' \in BOOLEAN
    BY <1>2 DEF LoadOpen, NvramInv, NvramTypeOK, Unread
  <2>3. /\ pc' = "sram" => file # NULL /\ ~failed'
        /\ failed' => DiskFails
        /\ pc' = "copy" /\ ~failed' => file = NULL
    BY <1>2, <2>2 DEF LoadOpen
  <2>4. NvramTypeOK'
    BY <2>2 DEF NvramInv, NvramTypeOK, PCs
  <2>5. ReadSoFar' /\ WrittenSoFar' /\ Unread'
    BY <2>2, <2>3 DEF ReadSoFar, WrittenSoFar, Unread, Loading, Saving
  <2>6. Kept'
    BY <2>1, <2>2, <2>3 DEF Kept
  <2>7. call' # NULL /\ pc' # "idle"
    BY <2>2 DEF NvramInv
  <2> QED
    BY <2>3, <2>4, <2>5, <2>6, <2>7, Zenon DEF NvramInv
<1> QED
  BY <1>1, <1>2

LEMMA ReadSramKeeps ==
  ASSUME NvramInv, ReadSram
  PROVE  NvramInv'
<1>1. file \in Seq(Bytes) /\ store \in Stores /\ loaded /\ pc = "sram" /\ file # NULL
  BY DEF NvramInv, NvramTypeOK, ReadSram, ReadSoFar, Unread, Loading
<1>2. Len(file) \in Nat
  BY <1>1
<1>3. CASE Len(file) < SramSize
  <2>1. Loads(file) = Zeroed /\ store' = Zeroed /\ pc' = "copy"
    BY <1>1, <1>2, <1>3, Sizes DEF ReadSram, TooShort, Loads
  <2> QED
    BY <1>1, <2>1, ZeroedTyped
       DEF ReadSram, NvramInv, NvramTypeOK, PCs, Unread, ReadSoFar, WrittenSoFar, Kept, Loading, Saving
<1>4. CASE Len(file) >= SramSize
  <2> DEFINE read == SubSeq(file, 1, SramSize)
  <2>1. read \in [1..SramSize -> Bytes]
    BY <1>1, <1>4, PartsTyped
  <2>2. store' = [store EXCEPT !.sram = read] /\ pc' = "eeprom"
    BY <1>2, <1>4, Sizes DEF ReadSram
  <2> HIDE DEF read
  <2>3. store' \in Stores /\ store'.sram = read
    BY <1>1, <2>1, <2>2 DEF Stores
  <2>4. UNCHANGED <<loaded, file, call, written, result, failed, starts>>
    BY DEF ReadSram
  <2>5. NvramTypeOK'
    BY <2>2, <2>3, <2>4 DEF NvramInv, NvramTypeOK, PCs
  <2>6. ReadSoFar'
    BY <1>1, <1>4, <2>2, <2>3, <2>4 DEF ReadSoFar, read
  <2> QED
    BY <1>1, <2>2, <2>4, <2>5, <2>6 DEF NvramInv, Unread, WrittenSoFar, Kept, Loading, Saving
<1> QED
  BY <1>2, <1>3, <1>4, Sizes

\* The second array completes the first, or both are given up.
LEMMA EepromRead ==
  ASSUME NvramInv, ReadEeprom
  PROVE  /\ store' = Loads(file) /\ store' \in Stores /\ pc' = "copy" /\ loaded
         /\ UNCHANGED <<loaded, file, call, written, result, failed, starts>>
<1>1. /\ file \in Seq(Bytes) /\ store \in Stores /\ loaded /\ pc = "eeprom" /\ file # NULL
      /\ store.sram = SubSeq(file, 1, SramSize)
  BY DEF NvramInv, NvramTypeOK, ReadEeprom, ReadSoFar, Unread, Loading
<1>2. Len(file) \in Nat
  BY <1>1
<1>3. CASE Len(file) < Whole
  BY <1>1, <1>2, <1>3, Sizes, ZeroedTyped DEF ReadEeprom, TooShort, Loads
<1>4. CASE Len(file) >= Whole
  <2> DEFINE read == SubSeq(file, SramSize + 1, Whole)
  <2>1. read \in [1..EepromSize -> Bytes]
    BY <1>1, <1>4, PartsTyped
  <2>2. store' = [store EXCEPT !.eeprom = read] /\ pc' = "copy"
    BY <1>2, <1>4, Sizes DEF ReadEeprom
  <2>3. Loads(file) = [sram |-> SubSeq(file, 1, SramSize), eeprom |-> read]
    BY <1>1, <1>4 DEF Loads
  <2> HIDE DEF read
  <2>4. store' = [sram |-> store.sram, eeprom |-> read]
    BY <1>1, <2>2 DEF Stores
  <2>5. store' = Loads(file)
    BY <1>1, <2>3, <2>4
  <2> QED
    BY <1>1, <2>2, <2>5, LoadsTyped DEF ReadEeprom
<1> QED
  BY <1>2, <1>3, <1>4, Sizes

LEMMA ReadEepromKeeps ==
  ASSUME NvramInv, ReadEeprom
  PROVE  NvramInv'
BY EepromRead
   DEF ReadEeprom, NvramInv, NvramTypeOK, PCs, Unread, ReadSoFar, WrittenSoFar, Kept, Loading, Saving

LEMMA CopyKeeps ==
  ASSUME NvramInv, Refuse \/ CopyOut \/ CopyIn
  PROVE  NvramInv'
<1>1. store \in Stores /\ call \in Calls /\ loaded
  BY DEF NvramInv, NvramTypeOK, Unread, Refuse, CopyOut, CopyIn
<1>2. CASE Refuse
  BY <1>2 DEF Refuse, Return, Fail, Answered, NvramInv, NvramTypeOK, PCs, Unread, ReadSoFar,
              WrittenSoFar, Kept, Loading, Saving
<1>3. CASE CopyOut
  <2>1. Fetch(store, call) \in Seq(Bytes)
    BY <1>1, <1>3, FetchTyped DEF CopyOut
  <2> QED
    BY <1>3, <2>1 DEF CopyOut, Return, Ok, Answered, NvramInv, NvramTypeOK, PCs, Unread, ReadSoFar,
              WrittenSoFar, Kept, Loading, Saving
<1>4. CASE CopyIn
  <2>1. store' = Put(store, call) /\ store' \in Stores /\ store' = Put(store', call)
    BY <1>1, <1>4, PutTyped DEF CopyIn
  <2> QED
    BY <1>1, <1>4, <2>1 DEF CopyIn, NvramInv, NvramTypeOK, PCs, Unread, ReadSoFar,
              WrittenSoFar, Kept, Loading, Saving
<1> QED
  BY <1>2, <1>3, <1>4

LEMMA SaveOpenKeeps ==
  ASSUME NvramInv, SaveOpen \/ SaveRefused
  PROVE  NvramInv'
<1>1. store \in Stores /\ loaded /\ Dump(store) \in Seq(Bytes)
  BY StoreIsDump DEF NvramInv, NvramTypeOK, Unread, SaveOpen, SaveRefused
<1>2. CASE SaveOpen
  <2>1. file' = SubSeq(Dump(store), 1, 0) /\ file' \in Seq(Bytes) /\ 0 \in 0..Whole
    BY <1>2, Sizes DEF SaveOpen
  <2> QED
    BY <1>1, <1>2, <2>1 DEF SaveOpen, NvramInv, NvramTypeOK, PCs, Unread, ReadSoFar,
              WrittenSoFar, Kept, Loading, Saving
<1>3. CASE SaveRefused
  BY <1>1, <1>3 DEF SaveRefused, Return, Ok, Answered, NvramInv, NvramTypeOK, PCs, Unread, ReadSoFar,
              WrittenSoFar, Kept, Loading, Saving
<1> QED
  BY <1>2, <1>3

LEMMA SaveWriteKeeps ==
  ASSUME NvramInv, SaveWrite
  PROVE  NvramInv'
<1>1. /\ store \in Stores /\ loaded /\ written \in 0..Whole
      /\ UNCHANGED <<store, loaded, pc, call, result, failed, starts>> /\ pc = "write"
  BY DEF NvramInv, NvramTypeOK, Unread, SaveWrite
<1>2. PICK n \in written + 1..Whole : written' = n /\ file' = SubSeq(Dump(store), 1, n)
  BY DEF SaveWrite
<1>3. n \in 0..Whole /\ file' \in Seq(Bytes)
  BY <1>1, <1>2, Sizes, LoadsShort
<1>4. NvramTypeOK'
  BY <1>1, <1>2, <1>3 DEF NvramInv, NvramTypeOK
<1> QED
  BY <1>1, <1>2, <1>4
     DEF NvramInv, Unread, ReadSoFar, WrittenSoFar, Kept, Loading, Saving

LEMMA SaveEndKeeps ==
  ASSUME NvramInv, SaveShort \/ SaveDone \/ SaveClose
  PROVE  NvramInv'
<1>1. store \in Stores /\ loaded
  BY DEF NvramInv, NvramTypeOK, Unread, SaveShort, SaveDone, SaveClose
<1>2. CASE SaveShort
  BY <1>1, <1>2 DEF SaveShort, NvramInv, NvramTypeOK, PCs, Unread, ReadSoFar,
              WrittenSoFar, Kept, Loading, Saving
<1>3. CASE SaveDone
  <2>1. Loads(file) = store
    <3>1. file = SubSeq(Dump(store), 1, Whole)
      BY <1>3 DEF SaveDone, NvramInv, WrittenSoFar
    <3>2. Whole \in 0..Whole
      BY Sizes
    <3> QED
      BY <1>1, <3>1, <3>2, LoadsShort, LoadsDump
  <2> QED
    BY <1>1, <1>3, <2>1 DEF SaveDone, NvramInv, NvramTypeOK, PCs, Unread, ReadSoFar,
              WrittenSoFar, Kept, Loading, Saving
<1>4. CASE SaveClose
  <2>1. <<>> \in Seq(Bytes) /\ 0 \in 0..Whole
    BY Sizes
  <2> QED
    BY <1>1, <1>4, <2>1 DEF SaveClose, Return, Ok, Answered, NvramInv, NvramTypeOK, PCs, Unread,
              ReadSoFar, WrittenSoFar, Kept, Loading, Saving
<1> QED
  BY <1>2, <1>3, <1>4

LEMMA RestartKeeps ==
  ASSUME NvramInv, Restart
  PROVE  NvramInv'
<1>1. MaxStarts \in Nat /\ 0 \in 0..Whole
  BY Sizes, NvramAssumption DEF NvramAssumption
<1>2. NvramTypeOK'
  <2>1. starts' \in 1..MaxStarts
    BY <1>1 DEF Restart, NvramInv, NvramTypeOK
  <2> QED
    BY <1>1, <2>1, ZeroedTyped DEF Restart, NvramInv, NvramTypeOK, PCs
<1>3. Unread' /\ ReadSoFar' /\ WrittenSoFar' /\ Kept'
  BY DEF Restart, Unread, ReadSoFar, WrittenSoFar, Kept, Loading, Saving
<1> QED
  BY <1>2, <1>3, Zenon DEF Restart, NvramInv

LEMMA NvramStays == NvramInv /\ [NvramNext]_nvramVars => NvramInv'
<1> SUFFICES ASSUME NvramInv, [NvramNext]_nvramVars PROVE NvramInv'
  OBVIOUS
<1>1. CASE \E c \in Calls : Call(c)
  BY <1>1, CallKeeps
<1>2. CASE Handler
  BY <1>2, LoadKeeps, ReadSramKeeps, ReadEepromKeeps, CopyKeeps, SaveOpenKeeps,
     SaveWriteKeeps, SaveEndKeeps DEF Handler
<1>3. CASE Restart
  BY <1>3, RestartKeeps
<1>4. CASE UNCHANGED nvramVars
  BY <1>4 DEF nvramVars, NvramInv, NvramTypeOK, Unread, ReadSoFar, WrittenSoFar, Kept
<1> QED
  BY <1>1, <1>2, <1>3, <1>4 DEF NvramNext

\* Whatever was written and answered is on disk before the next call, whatever
\* was refused, read or lost before (hle_sega.c:327).
THEOREM SavedIsKept == NvramSpec => []NvramSound
<1>1. NvramInv => NvramSound
  BY DEF NvramInv, Kept, NvramSound, SavedBetweenCalls
<1> QED
  BY <1>1, NvramStarts, NvramStays, PTL DEF NvramSpec

----------------------------------------------------------------------------
(* The backup memory.                                                      *)

\* What reads return, and what they would return after a crash.
Image == IF loaded /\ pc \notin {"sram", "eeprom"} THEN store ELSE Loads(file)
Backup == Loads(file)

\* A step the game cannot see.
Unseen == UNCHANGED <<Image, Backup, call, result>>

LEMMA UnseenStutters ==
  ASSUME Unseen
  PROVE  UNCHANGED Memory!vars
BY DEF Unseen, Image, Backup, Memory!vars

LEMMA CallIsAsk ==
  ASSUME NvramInv, NEW c \in Calls, Call(c)
  PROVE  Memory!Ask(c)
<1>1. call = NULL /\ call' = c /\ result' = NULL
  BY DEF Call, NvramInv
<1>2. Image' = Image /\ Backup' = Backup
  BY DEF Call, Image, Backup
<1> QED
  BY <1>1, <1>2 DEF Image, Backup, Memory!Ask

LEMMA LoadingIsUnseen ==
  ASSUME NvramInv, AlreadyLoaded \/ LoadOpen \/ ReadSram \/ ReadEeprom
  PROVE  Memory!Forget \/ UNCHANGED Memory!vars
<1>1. call' = call /\ result' = result /\ file' = file
  BY DEF AlreadyLoaded, LoadOpen, ReadSram, ReadEeprom
<1>2. CASE AlreadyLoaded
  <2>1. Unseen
    BY <1>1, <1>2 DEF AlreadyLoaded, Unseen, Image, Backup
  <2> QED
    BY <2>1, UnseenStutters
<1>3. CASE LoadOpen
  <2>1. store = Zeroed /\ store' = Zeroed /\ Loads(NULL) = Zeroed /\ ~loaded /\ loaded'
    BY <1>3 DEF LoadOpen, NvramInv, Unread, Loads
  <2>2. CASE (file # NULL /\ pc' = "sram") \/ (file = NULL /\ pc' = "copy")
    <3>1. Unseen
      BY <1>1, <2>1, <2>2 DEF Unseen, Image, Backup
    <3> QED
      BY <3>1, UnseenStutters
  <2>3. CASE DiskFails /\ pc' = "copy"
    <3>1. Image' = Zeroed /\ Backup' = Backup
      BY <1>1, <2>1, <2>3 DEF Image, Backup
    <3> QED
      BY <1>1, <2>3, <3>1 DEF Image, Backup, Memory!Forget
  <2> QED
    <3>1. \/ file # NULL /\ pc' = "sram"
          \/ file = NULL /\ pc' = "copy"
          \/ DiskFails /\ pc' = "copy"
      BY <1>3 DEF LoadOpen
    <3> QED
      BY <2>2, <2>3, <3>1
<1>4. CASE ReadSram
  <2>1. /\ loaded /\ loaded' = loaded /\ pc = "sram" /\ file \in Seq(Bytes) /\ Len(file) \in Nat
        /\ Image = Loads(file)
    BY <1>4 DEF ReadSram, NvramInv, NvramTypeOK, Unread, ReadSoFar, Loading, Image
  <2>2. CASE Len(file) < SramSize
    <3>1. store' = Zeroed /\ pc' = "copy" /\ Loads(file) = Zeroed
      BY <1>4, <2>1, <2>2, Sizes DEF ReadSram, TooShort, Loads
    <3>2. Unseen
      BY <1>1, <2>1, <3>1 DEF Unseen, Image, Backup
    <3> QED
      BY <3>2, UnseenStutters
  <2>3. CASE ~(Len(file) < SramSize)
    <3>1. pc' = "eeprom"
      BY <1>4, <2>3 DEF ReadSram
    <3>2. Unseen
      BY <1>1, <2>1, <3>1 DEF Unseen, Image, Backup
    <3> QED
      BY <3>2, UnseenStutters
  <2> QED
    BY <2>2, <2>3
<1>5. CASE ReadEeprom
  <2>1. /\ store' = Loads(file) /\ pc' = "copy" /\ loaded /\ loaded' = loaded
        /\ pc = "eeprom"
    BY <1>5, EepromRead DEF ReadEeprom
  <2>2. Unseen
    BY <1>1, <2>1 DEF Unseen, Image, Backup
  <2> QED
    BY <2>2, UnseenStutters
<1> QED
  BY <1>2, <1>3, <1>4, <1>5

LEMMA CopyIsAccess ==
  ASSUME NvramInv, Refuse \/ CopyOut \/ CopyIn
  PROVE  Memory!Refuse \/ Memory!Read \/ Memory!Write
<1>1. /\ loaded /\ loaded' = loaded /\ file' = file /\ pc = "copy"
      /\ pc' \notin {"sram", "eeprom"} /\ call # NULL
  BY DEF NvramInv, Unread, Refuse, CopyOut, CopyIn, Return
<1>2. Image = store /\ Image' = store' /\ Backup' = Backup
  BY <1>1 DEF Image, Backup
<1>3. CASE Refuse
  BY <1>1, <1>2, <1>3
     DEF Refuse, Return, Image, Backup, Memory!Refuse, Memory!Answer
<1>4. CASE CopyOut
  <2>1. call' = NULL /\ result' = Ok(Fetch(store, call)) /\ store' = store
        /\ Inside(call) /\ ~call.writing
    BY <1>4 DEF CopyOut, Return
  <2> QED
    BY <1>1, <1>2, <2>1 DEF Image, Backup, Memory!Read, Memory!Answer
<1>5. CASE CopyIn
  <2>1. call' = call /\ result' = result /\ store' = Put(store, call)
        /\ Inside(call) /\ call.writing
    BY <1>5 DEF CopyIn
  <2> QED
    BY <1>1, <1>2, <2>1 DEF Image, Backup, Memory!Write
<1> QED
  BY <1>3, <1>4, <1>5

LEMMA SavingIsKeeping ==
  ASSUME NvramInv,
         SaveOpen \/ SaveRefused \/ SaveWrite \/ SaveShort \/ SaveDone \/ SaveClose
  PROVE  \/ Memory!Erase \/ Memory!Keep \/ Memory!Confirm \/ UNCHANGED Memory!vars
<1>1. /\ loaded /\ loaded' = loaded /\ store' = store /\ store \in Stores /\ call # NULL
      /\ pc \in Saving /\ pc' \notin {"sram", "eeprom"} /\ (failed => DiskFails)
      /\ Inside(call) /\ call.writing /\ store = Put(store, call)
  BY DEF NvramInv, NvramTypeOK, Unread, WrittenSoFar, Saving, SaveOpen, SaveRefused, SaveWrite,
         SaveShort, SaveDone, SaveClose, Return
<1>2. Image = store /\ Image' = store
  BY <1>1 DEF Image, Saving
<1>3. CASE SaveOpen
  <2>1. Loads(<<>>) = Zeroed
    BY Sizes DEF Loads
  <2>2. Backup' = Zeroed /\ call' = call /\ result' = result
    BY <1>3, <2>1 DEF SaveOpen, Backup
  <2> QED
    BY <1>1, <1>2, <2>2 DEF Image, Backup, Memory!Erase
<1>4. CASE SaveRefused \/ SaveClose
  <2>1. Backup' = Backup /\ call' = NULL /\ result' = Ok(<<>>)
    BY <1>4 DEF SaveRefused, SaveClose, Return, Backup
  <2>2. Backup = store \/ DiskFails
    BY <1>1, <1>4 DEF SaveRefused, SaveClose, NvramInv, WrittenSoFar, Backup
  <2> QED
    BY <1>1, <1>2, <2>1, <2>2 DEF Image, Backup, Memory!Confirm, Memory!Answer
<1>5. CASE SaveWrite
  <2>1. PICK n \in written + 1..Whole : file' = SubSeq(Dump(store), 1, n)
    BY <1>5 DEF SaveWrite
  <2>2. written \in 0..Whole /\ written < Whole /\ file = SubSeq(Dump(store), 1, written)
    BY <1>5 DEF NvramInv, NvramTypeOK, WrittenSoFar, SaveWrite
  <2>3. Backup = Zeroed /\ n \in 0..Whole
    BY <1>1, <2>2, LoadsShort, Sizes DEF Backup
  <2>4. call' = call /\ result' = result
    BY <1>5 DEF SaveWrite
  <2>5. CASE n < Whole
    <3>1. Backup' = Zeroed
      BY <1>1, <2>1, <2>3, <2>5, LoadsShort DEF Backup
    <3>2. Unseen
      BY <1>2, <2>3, <2>4, <3>1 DEF Unseen
    <3> QED
      BY <3>2, UnseenStutters
  <2>6. CASE n = Whole
    <3>1. Backup' = store
      BY <1>1, <2>1, <2>3, <2>6, LoadsShort, LoadsDump DEF Backup
    <3> QED
      BY <1>1, <1>2, <2>4, <3>1 DEF Image, Backup, Memory!Keep
  <2> QED
    BY <2>3, <2>5, <2>6, Sizes
<1>6. CASE SaveShort \/ SaveDone
  <2>1. Unseen
    BY <1>2, <1>6 DEF SaveShort, SaveDone, Unseen, Backup
  <2> QED
    BY <2>1, UnseenStutters
<1> QED
  BY <1>3, <1>4, <1>5, <1>6

LEMMA RestartIsRestart ==
  ASSUME NvramInv, Restart
  PROVE  Memory!Restart
<1>1. Image' = Backup /\ Backup' = Backup /\ call' = NULL /\ result' = NULL
  BY DEF Restart, Image, Backup
<1> QED
  BY <1>1 DEF Image, Backup, Memory!Restart

\* Reads return what was written, an access outside a device is refused, a
\* write that was answered has been kept, and a restart brings back a whole
\* image or a blank one, wherever the crash fell (hle_sega.c:308-345).
THEOREM MemoryIsBackup == NvramSpec => ImplementsNonVolatile
<1>1. NvramInit => Memory!Init
  <2> SUFFICES ASSUME NvramInit PROVE Memory!Init
    OBVIOUS
  <2>1. Image = Backup /\ call = NULL /\ result = NULL
    BY DEF NvramInit, Image, Backup
  <2> QED
    BY <2>1 DEF Image, Backup, Memory!Init
<1>2. NvramInv /\ [NvramNext]_nvramVars => [Memory!Next]_(Memory!vars)
  <2> SUFFICES ASSUME NvramInv, [NvramNext]_nvramVars PROVE [Memory!Next]_(Memory!vars)
    OBVIOUS
  <2>1. CASE \E c \in Calls : Call(c)
    BY <2>1, CallIsAsk DEF Memory!Next
  <2>2. CASE Handler
    BY <2>2, LoadingIsUnseen, CopyIsAccess, SavingIsKeeping DEF Handler, Memory!Next
  <2>3. CASE Restart
    BY <2>3, RestartIsRestart DEF Memory!Next
  <2>4. CASE UNCHANGED nvramVars
    <3>1. Unseen
      BY <2>4 DEF nvramVars, Unseen, Image, Backup
    <3> QED
      BY <3>1, UnseenStutters
  <2> QED
    BY <2>1, <2>2, <2>3, <2>4 DEF NvramNext
<1> QED
  BY <1>1, <1>2, NvramStarts, NvramStays, PTL DEF NvramSpec, ImplementsNonVolatile, Memory!Spec

----------------------------------------------------------------------------
(* Induction on the numbers, and what a recursion over them defines.       *)

\* A set of numbers has a least one.
LEMMA LeastNat ==
  ASSUME NEW T \in SUBSET Nat, T # {}
  PROVE  \E n \in T : \A m \in T : n <= m
<1> DEFINE R == {p \in Nat \X Nat : p[1] < p[2]}
<1>1. IsWellFoundedOn(R, Nat)
  <2>1. IsWellFoundedOn(OpToRel(<, Nat), Nat)
    BY NatLessThanWellFounded
  <2> QED BY <2>1 DEF OpToRel
<1> HIDE DEF R
<1>2. \E x \in T : \A y \in T : ~ (<<y, x>> \in R)
  BY <1>1, WFMin
<1>3. ASSUME NEW n \in T, NEW m \in T, <<m, n>> \notin R PROVE n <= m
  <2>1. m \in Nat /\ n \in Nat /\ <<m, n>> \in Nat \X Nat
    OBVIOUS
  <2>2. <<m, n>>[1] = m /\ <<m, n>>[2] = n
    OBVIOUS
  <2>3. ~(<<m, n>>[1] < <<m, n>>[2])
    BY <1>3, <2>1, Zenon DEF R
  <2> QED
    BY <2>1, <2>2, <2>3
<1> QED
  BY <1>2, <1>3

\* A set that holds zero, and with a number the next one, holds all.
LEMMA SetInduction ==
  ASSUME NEW S, 0 \in S, \A n \in Nat : n \in S => n + 1 \in S
  PROVE  Nat \subseteq S
<1> SUFFICES ASSUME Nat \ S # {} PROVE FALSE
  OBVIOUS
<1>1. PICK n \in Nat \ S : \A m \in Nat \ S : n <= m
  BY LeastNat
<1>2. n # 0 /\ n - 1 \in Nat
  BY <1>1
<1>3. n - 1 \in S
  BY <1>1, <1>2
<1> QED
  BY <1>1, <1>2, <1>3

\* f starts at base and goes on by F.
Unfolds(f, n, V, base, F) ==
  f \in [0..n -> V] /\ f[0] = base /\ \A i \in 1..n : f[i] = F[<<i, f[i - 1]>>]

\* What a recursion over a range of numbers defines.
LEMMA Recursion ==
  ASSUME NEW V, NEW base \in V, NEW n \in Nat, NEW F \in [(1..n) \X V -> V]
  PROVE  \E f : Unfolds(f, n, V, base, F)
<1> DEFINE Upto(m) == \E f \in [0..m -> V] : f[0] = base
      /\ \A i \in 1..m : f[i] = F[<<i, f[i - 1]>>]
           S == {m \in Nat : m <= n => Upto(m)}
<1>1. 0 \in S
  <2>1. [i \in 0..0 |-> base] \in [0..0 -> V] /\ [i \in 0..0 |-> base][0] = base
    OBVIOUS
  <2>2. 1..0 = {}
    OBVIOUS
  <2> QED
    BY <2>1, <2>2
<1>2. ASSUME NEW m \in Nat, m \in S PROVE m + 1 \in S
  <2> SUFFICES ASSUME m + 1 <= n PROVE Upto(m + 1)
    OBVIOUS
  <2>1. PICK f \in [0..m -> V] : f[0] = base /\ \A i \in 1..m : f[i] = F[<<i, f[i - 1]>>]
    BY <1>2
  <2> DEFINE g == [i \in 0..m + 1 |-> IF i = m + 1 THEN F[<<m + 1, f[m]>>] ELSE f[i]]
  <2>2. f[m] \in V /\ <<m + 1, f[m]>> \in (1..n) \X V
    OBVIOUS
  <2>3. g \in [0..m + 1 -> V]
    BY <2>2
  <2>4. g[0] = base
    BY <2>1
  <2>5. ASSUME NEW i \in 1..m + 1 PROVE g[i] = F[<<i, g[i - 1]>>]
    <3>1. CASE i = m + 1
      <4>1. g[i] = F[<<m + 1, f[m]>>] /\ g[i - 1] = f[m]
        BY <3>1
      <4> QED
        BY <3>1, <4>1
    <3>2. CASE i # m + 1
      <4>1. g[i] = f[i] /\ g[i - 1] = f[i - 1] /\ i \in 1..m
        BY <3>2
      <4> QED
        BY <2>1, <4>1
    <3> QED
      BY <3>1, <3>2
  <2> QED
    BY <2>3, <2>4, <2>5
<1> HIDE DEF S
<1>3. n \in S
  BY <1>1, <1>2, SetInduction
<1> QED
  BY <1>3 DEF S, Unfolds

\* Two walks that start alike and go on alike.
LEMMA SameWalk ==
  ASSUME NEW n \in Nat, NEW f, NEW g, f[0] = g[0],
         \A k \in 1..n : f[k - 1] = g[k - 1] => f[k] = g[k]
  PROVE  f[n] = g[n]
<1> DEFINE P == {k \in Nat : k <= n => f[k] = g[k]}
<1>1. 0 \in P
  OBVIOUS
<1>2. ASSUME NEW k \in Nat, k \in P PROVE k + 1 \in P
  <2> SUFFICES ASSUME k + 1 <= n PROVE f[k + 1] = g[k + 1]
    OBVIOUS
  <2>1. k + 1 \in 1..n /\ (k + 1) - 1 = k /\ f[k] = g[k]
    BY <1>2
  <2> QED
    BY <2>1
<1> HIDE DEF P
<1>3. n \in P
  BY <1>1, <1>2, SetInduction
<1> QED
  BY <1>3 DEF P

----------------------------------------------------------------------------
(* The cabinet.                                                            *)

\* What the cabinet's variables range over; the messages a window gets.
Points == Places \cup {0}
Switches == {"p1start", "p2start", "test", "service", "trigger", "reload"}
Gifts == IF autostart THEN BOOLEAN ELSE {FALSE}
Cabs == [coins : [Slots -> Nat], buttons : SUBSET Switches, coined : Gifts]
Windows == [cab : Cabs, mouse : SUBSET Buttons, gun : Points]
Messages == [kind : {"keydown", "keyup"}, what : Keys, x : Points]
              \cup [kind : {"down", "up"}, what : Buttons, x : Points]
              \cup [kind : {"move"}, what : {"none"}, x : Points]

\* A key changes switches and coins.
LEMMA CabinetKeyIs ==
  ASSUME NEW c \in Cabs, NEW k \in Keys, NEW down \in BOOLEAN
  PROVE  CabinetKey(c, k, down) \in Cabs
<1>1. c.buttons \in SUBSET Switches /\ c.coins \in [Slots -> Nat] /\ c.coined \in Gifts
  BY DEF Cabs
<1>2. CASE k \in DOMAIN SwitchOf
  <2>1. SwitchOf[k] \in Switches
    BY <1>2 DEF SwitchOf, Switches
  <2>2. PICK b \in SUBSET Switches :
          b = IF down THEN c.buttons \cup {SwitchOf[k]} ELSE c.buttons \ {SwitchOf[k]}
    BY <1>1, <2>1
  <2>3. CabinetKey(c, k, down) = [c EXCEPT !.buttons = b]
    BY <1>2, <2>2 DEF CabinetKey
  <2> QED
    BY <2>2, <2>3 DEF Cabs
<1>3. CASE k \notin DOMAIN SwitchOf
  <2>1. \A s \in Slots : Coin(k)[s] \in {0, 1}
    BY DEF Coin
  <2> DEFINE more == [s \in Slots |-> c.coins[s] + IF down THEN Coin(k)[s] ELSE 0]
  <2>2. PICK n \in [Slots -> Nat] : n = more
    <3>1. PICK old \in [Slots -> Nat] : old = c.coins
      BY <1>1
    <3>2. ASSUME NEW s \in Slots PROVE c.coins[s] + (IF down THEN Coin(k)[s] ELSE 0) \in Nat
      <4>1. PICK x \in Nat : x = Coin(k)[s]
        BY <2>1
      <4>2. PICK y \in Nat : y = c.coins[s]
        BY <3>1
      <4> QED
        BY <4>1, <4>2
    <3>3. more \in [Slots -> Nat]
      BY <3>2
    <3> QED
      BY <3>3
  <2>3. CabinetKey(c, k, down) = [c EXCEPT !.coins = n]
    BY <1>3, <2>2 DEF CabinetKey
  <2> QED
    BY <2>2, <2>3 DEF Cabs
<1> QED
  BY <1>2, <1>3

\* A message changes the window's state.
LEMMA WndProcIs ==
  ASSUME NEW w \in Windows, NEW m \in Messages
  PROVE  WndProc(w, m) \in Windows
<1>1. w.cab \in Cabs /\ w.mouse \in SUBSET Buttons /\ w.gun \in Points
  BY DEF Windows
<1>2. m.x \in Points
  BY DEF Messages
<1>3. CASE m.kind \in {"keydown", "keyup"}
  <2>1. m.what \in Keys
    BY <1>3 DEF Messages
  <2>2. PICK down \in BOOLEAN : down = (m.kind = "keydown")
    OBVIOUS
  <2>3. PICK c \in Cabs : c = CabinetKey(w.cab, m.what, down)
    BY <1>1, <2>1, <2>2, CabinetKeyIs
  <2>4. WndProc(w, m) = [w EXCEPT !.cab = c]
    BY <1>3, <2>2, <2>3 DEF WndProc
  <2> QED
    BY <2>3, <2>4 DEF Windows
<1>4. CASE m.kind \notin {"keydown", "keyup"}
  <2>1. m.kind \in {"down", "up", "move"} /\ (m.kind \in {"down", "up"} => m.what \in Buttons)
    BY <1>4 DEF Messages
  <2>2. PICK b \in SUBSET Buttons : b = CASE m.kind = "down" -> w.mouse \cup {m.what}
                                          [] m.kind = "up"   -> w.mouse \ {m.what}
                                          [] m.kind = "move" -> w.mouse
    BY <1>1, <2>1
  <2>3. WndProc(w, m) = [w EXCEPT !.gun = m.x, !.mouse = b]
    BY <1>4, <2>2 DEF WndProc
  <2> QED
    BY <1>2, <2>2, <2>3 DEF Windows
<1> QED
  BY <1>3, <1>4

\* Message by message.
LEMMA PumpedIs ==
  ASSUME NEW w \in Windows, NEW ms \in Seq(Messages)
  PROVE  \E f \in [0..Len(ms) -> Windows] :
           /\ f[0] = w /\ Pumped(w, ms) = f[Len(ms)]
           /\ \A i \in 1..Len(ms) : f[i] = WndProc(f[i - 1], ms[i])
<1>0. PICK n \in Nat : n = Len(ms)
  BY LenProperties
<1> DEFINE Fn == [p \in (1..n) \X Windows |-> WndProc(p[2], ms[p[1]])]
<1>1. Fn \in [(1..n) \X Windows -> Windows]
  <2> SUFFICES ASSUME NEW p \in (1..n) \X Windows PROVE WndProc(p[2], ms[p[1]]) \in Windows
    OBVIOUS
  <2>1. ms[p[1]] \in Messages /\ p[2] \in Windows
    BY <1>0, ElementOfSeq
  <2> QED
    BY <2>1, WndProcIs
<1>2. \A i \in 1..n : \A v \in Windows : Fn[<<i, v>>] = WndProc(v, ms[i])
  OBVIOUS
<1>3. PICK F \in [(1..n) \X Windows -> Windows] :
        \A i \in 1..n : \A v \in Windows : F[<<i, v>>] = WndProc(v, ms[i])
  BY <1>1, <1>2
<1> HIDE DEF Fn
<1>4. PICK f : Unfolds(f, n, Windows, w, F)
  <2>1. n \in Nat /\ F \in [(1..n) \X Windows -> Windows]
    BY <1>0, <1>3
  <2> QED
    BY <2>1, Recursion, Zenon
<1>5. f \in [0..n -> Windows] /\ f[0] = w
  BY <1>4 DEF Unfolds
<1>6. ASSUME NEW i \in 1..n PROVE i - 1 \in 0..n /\ f[i] = WndProc(f[i - 1], ms[i])
  <2>1. i - 1 \in 0..n
    BY <1>0
  <2>2. f[i - 1] \in Windows
    BY <1>5, <2>1
  <2>3. f[i] = F[<<i, f[i - 1]>>]
    BY <1>4 DEF Unfolds
  <2> QED
    BY <1>3, <2>1, <2>2, <2>3
<1> DEFINE Body(h) == [i \in 0..n |-> IF i = 0 THEN w ELSE WndProc(h[i - 1], ms[i])]
           C == CHOOSE h : h = Body(h)
<1>7. f = Body(f)
  <2>1. \A i \in 0..n : f[i] = IF i = 0 THEN w ELSE WndProc(f[i - 1], ms[i])
    <3> SUFFICES ASSUME NEW i \in 0..n
                 PROVE  f[i] = IF i = 0 THEN w ELSE WndProc(f[i - 1], ms[i])
      OBVIOUS
    <3>1. i # 0 => i \in 1..n
      BY <1>0
    <3> QED
      BY <1>5, <1>6, <3>1, Zenon
  <2> QED
    BY <1>5, <2>1
<1>8. C = Body(C)
  BY <1>7
<1>9. Pumped(w, ms) = C[n]
  BY <1>0 DEF Pumped
<1> HIDE DEF C
<1>10. \A i \in 0..n : C[i] = IF i = 0 THEN w ELSE WndProc(C[i - 1], ms[i])
  BY <1>8
<1>11. C[0] = f[0] /\ \A i \in 1..n : C[i - 1] = f[i - 1] => C[i] = f[i]
  <2>1. 0 \in 0..n /\ \A i \in 1..n : i \in 0..n /\ i # 0
    BY <1>0
  <2> QED
    BY <1>5, <1>6, <1>10, <2>1, Zenon
<1>12. C[n] = f[n]
  BY <1>0, <1>11, SameWalk
<1> QED
  BY <1>0, <1>5, <1>6, <1>9, <1>12

\* No messages, and one more.
LEMMA PumpedNone ==
  ASSUME NEW w \in Windows
  PROVE  Pumped(w, <<>>) = w
<1>1. PICK ms \in Seq(Messages) : ms = <<>> /\ Len(ms) = 0
  BY EmptySeq
<1>2. PICK f \in [0..Len(ms) -> Windows] :
           /\ f[0] = w /\ Pumped(w, ms) = f[Len(ms)]
           /\ \A i \in 1..Len(ms) : f[i] = WndProc(f[i - 1], ms[i])
  BY PumpedIs
<1> QED
  BY <1>1, <1>2

LEMMA PumpedMore ==
  ASSUME NEW w \in Windows, NEW ms \in Seq(Messages), NEW m \in Messages
  PROVE  /\ Pumped(w, ms) \in Windows
         /\ Pumped(w, Append(ms, m)) = WndProc(Pumped(w, ms), m)
<1>0. PICK n \in Nat : n = Len(ms)
  BY LenProperties
<1>1. PICK f \in [0..Len(ms) -> Windows] :
           /\ f[0] = w /\ Pumped(w, ms) = f[Len(ms)]
           /\ \A i \in 1..Len(ms) : f[i] = WndProc(f[i - 1], ms[i])
  BY PumpedIs
<1>2. PICK more \in Seq(Messages) : /\ more = Append(ms, m) /\ Len(more) = n + 1
                                    /\ \A i \in 1..n : more[i] = ms[i]
                                    /\ more[n + 1] = m
  BY <1>0, AppendProperties
<1>3. PICK g \in [0..Len(more) -> Windows] :
           /\ g[0] = w /\ Pumped(w, more) = g[Len(more)]
           /\ \A i \in 1..Len(more) : g[i] = WndProc(g[i - 1], more[i])
  BY PumpedIs
<1>4. \A i \in 1..n : f[i - 1] = g[i - 1] => f[i] = g[i]
  <2> SUFFICES ASSUME NEW i \in 1..n, f[i - 1] = g[i - 1] PROVE f[i] = g[i]
    OBVIOUS
  <2>1. i \in 1..Len(ms) /\ i \in 1..Len(more)
    BY <1>0, <1>2
  <2>2. f[i] = WndProc(f[i - 1], ms[i]) /\ g[i] = WndProc(g[i - 1], more[i])
    BY <1>1, <1>3, <2>1
  <2> QED
    BY <1>2, <2>2
<1>5. f[n] = g[n]
  <2>1. f[0] = g[0] /\ n \in Nat
    BY <1>0, <1>1, <1>3
  <2> QED
    BY <2>1, <1>4, SameWalk
<1>6. n + 1 \in 1..Len(more) /\ (n + 1) - 1 = n /\ n \in 0..Len(ms)
  BY <1>0, <1>2
<1>7. g[n + 1] = WndProc(g[n], m)
  <2>1. g[n + 1] = WndProc(g[(n + 1) - 1], more[n + 1])
    BY <1>3, <1>6
  <2> QED
    BY <1>2, <1>6, <2>1
<1> QED
  BY <1>0, <1>1, <1>2, <1>3, <1>5, <1>6, <1>7

\* What of the window's state the player settles: autostart has its hand in
\* start and in the first slot.
Steady == {"p2start", "test", "service"} \cup (IF autostart THEN {} ELSE {"p1start"})
On(c) == c.buttons \cap Steady
Gift(c, s) == IF s = 0 /\ c.coined THEN 1 ELSE 0
Paid(c) == [s \in Slots |-> c.coins[s] - Gift(c, s)]
Seen(w) == <<w.mouse, w.gun, On(w.cab), Paid(w.cab)>>

\* What a key does to it.
LEMMA KeySeen ==
  ASSUME NEW c \in Cabs, NEW k \in Keys, NEW down \in BOOLEAN
  PROVE  /\ On(CabinetKey(c, k, down)) =
              IF k \notin DOMAIN SwitchOf THEN On(c)
              ELSE IF down THEN On(c) \cup ({SwitchOf[k]} \cap Steady) ELSE On(c) \ {SwitchOf[k]}
         /\ Paid(CabinetKey(c, k, down)) =
              [s \in Slots |-> Paid(c)[s] + IF down THEN Coin(k)[s] ELSE 0]
         /\ CabinetKey(c, k, down).coined = c.coined
<1>1. c.buttons \in SUBSET Switches /\ c.coins \in [Slots -> Nat] /\ c.coined \in BOOLEAN
  BY DEF Cabs, Gifts
<1>2. \A s \in Slots : c.coins[s] \in Int /\ Gift(c, s) \in Int /\ Coin(k)[s] \in Int
  BY <1>1 DEF Gift, Coin
<1>3. CASE k \in DOMAIN SwitchOf
  <2>1. PICK b : b = IF down THEN c.buttons \cup {SwitchOf[k]} ELSE c.buttons \ {SwitchOf[k]}
    OBVIOUS
  <2>2. PICK d : d = CabinetKey(c, k, down)
    OBVIOUS
  <2>3. d = [c EXCEPT !.buttons = b]
    BY <1>3, <2>1, <2>2 DEF CabinetKey
  <2>4. d.buttons = b /\ d.coins = c.coins /\ d.coined = c.coined
    BY <2>3 DEF Cabs
  <2>5. \A s \in Slots : Coin(k)[s] = 0
    BY <1>3 DEF Coin, SwitchOf, SlotOf
  <2>6. On(d) = IF down THEN On(c) \cup ({SwitchOf[k]} \cap Steady) ELSE On(c) \ {SwitchOf[k]}
    BY <2>1, <2>4 DEF On
  <2>7. \A s \in Slots : d.coins[s] - Gift(d, s) = Paid(c)[s] + IF down THEN Coin(k)[s] ELSE 0
    BY <1>2, <2>4, <2>5 DEF Paid, Gift
  <2>8. Paid(d) = [s \in Slots |-> Paid(c)[s] + IF down THEN Coin(k)[s] ELSE 0]
    BY <2>7 DEF Paid
  <2> QED
    BY <1>3, <2>2, <2>4, <2>6, <2>8
<1>4. CASE k \notin DOMAIN SwitchOf
  <2>1. PICK n : n = [s \in Slots |-> c.coins[s] + IF down THEN Coin(k)[s] ELSE 0]
    OBVIOUS
  <2>2. PICK d : d = CabinetKey(c, k, down)
    OBVIOUS
  <2>3. d = [c EXCEPT !.coins = n]
    BY <1>4, <2>1, <2>2 DEF CabinetKey
  <2>4. d.buttons = c.buttons /\ d.coins = n /\ d.coined = c.coined
    BY <2>3 DEF Cabs
  <2>5. On(d) = On(c)
    BY <2>4 DEF On
  <2>6. \A s \in Slots : Gift(d, s) = Gift(c, s) /\ Paid(c)[s] = c.coins[s] - Gift(c, s)
    BY <2>4 DEF Gift, Paid
  <2>7. \A s \in Slots : d.coins[s] - Gift(d, s) = Paid(c)[s] + IF down THEN Coin(k)[s] ELSE 0
    BY <1>2, <2>1, <2>4, <2>6
  <2>8. Paid(d) = [s \in Slots |-> Paid(c)[s] + IF down THEN Coin(k)[s] ELSE 0]
    BY <2>7 DEF Paid
  <2> QED
    BY <1>4, <2>2, <2>4, <2>5, <2>8
<1> QED
  BY <1>3, <1>4

\* What a message does to it depends on nothing else.
LEMMA WndProcSeen ==
  ASSUME NEW v \in Windows, NEW w \in Windows, NEW m \in Messages, Seen(v) = Seen(w)
  PROVE  Seen(WndProc(v, m)) = Seen(WndProc(w, m))
<1>1. v.cab \in Cabs /\ w.cab \in Cabs
  BY DEF Windows
<1>2. v.mouse = w.mouse /\ v.gun = w.gun /\ On(v.cab) = On(w.cab) /\ Paid(v.cab) = Paid(w.cab)
  BY DEF Seen
<1>3. CASE m.kind \in {"keydown", "keyup"}
  <2>1. m.what \in Keys
    BY <1>3 DEF Messages
  <2>2. PICK down \in BOOLEAN : down = (m.kind = "keydown")
    OBVIOUS
  <2>3. PICK c, d : c = CabinetKey(v.cab, m.what, down) /\ d = CabinetKey(w.cab, m.what, down)
    OBVIOUS
  <2>4. On(c) = On(d) /\ Paid(c) = Paid(d)
    <3>1. /\ On(c) = IF m.what \notin DOMAIN SwitchOf THEN On(v.cab)
                     ELSE IF down THEN On(v.cab) \cup ({SwitchOf[m.what]} \cap Steady)
                          ELSE On(v.cab) \ {SwitchOf[m.what]}
          /\ Paid(c) = [s \in Slots |-> Paid(v.cab)[s] + IF down THEN Coin(m.what)[s] ELSE 0]
      BY <1>1, <2>1, <2>2, <2>3, KeySeen
    <3>2. /\ On(d) = IF m.what \notin DOMAIN SwitchOf THEN On(w.cab)
                     ELSE IF down THEN On(w.cab) \cup ({SwitchOf[m.what]} \cap Steady)
                          ELSE On(w.cab) \ {SwitchOf[m.what]}
          /\ Paid(d) = [s \in Slots |-> Paid(w.cab)[s] + IF down THEN Coin(m.what)[s] ELSE 0]
      BY <1>1, <2>1, <2>2, <2>3, KeySeen
    <3> QED
      BY <1>2, <3>1, <3>2
  <2>5. WndProc(v, m) = [v EXCEPT !.cab = c] /\ WndProc(w, m) = [w EXCEPT !.cab = d]
    BY <1>3, <2>2, <2>3 DEF WndProc
  <2> QED
    BY <1>2, <2>4, <2>5 DEF Windows, Seen
<1>4. CASE m.kind \notin {"keydown", "keyup"}
  <2>1. PICK b : b = CASE m.kind = "down" -> v.mouse \cup {m.what}
                       [] m.kind = "up"   -> v.mouse \ {m.what}
                       [] m.kind = "move" -> v.mouse
    OBVIOUS
  <2>2. WndProc(v, m) = [v EXCEPT !.gun = m.x, !.mouse = b]
    BY <1>4, <2>1 DEF WndProc
  <2>3. WndProc(w, m) = [w EXCEPT !.gun = m.x, !.mouse = b]
    BY <1>2, <1>4, <2>1 DEF WndProc
  <2> QED
    BY <1>2, <2>2, <2>3 DEF Windows, Seen
<1> QED
  BY <1>3, <1>4

\* Nor does what all of them do.
LEMMA PumpedSeen ==
  ASSUME NEW v \in Windows, NEW w \in Windows, NEW ms \in Seq(Messages), Seen(v) = Seen(w)
  PROVE  Seen(Pumped(v, ms)) = Seen(Pumped(w, ms))
<1>0. PICK n \in Nat : n = Len(ms)
  BY LenProperties
<1>1. PICK f \in [0..Len(ms) -> Windows] :
           /\ f[0] = v /\ Pumped(v, ms) = f[Len(ms)]
           /\ \A i \in 1..Len(ms) : f[i] = WndProc(f[i - 1], ms[i])
  BY PumpedIs
<1>2. PICK g \in [0..Len(ms) -> Windows] :
           /\ g[0] = w /\ Pumped(w, ms) = g[Len(ms)]
           /\ \A i \in 1..Len(ms) : g[i] = WndProc(g[i - 1], ms[i])
  BY PumpedIs
<1>3. PICK fs, gs : fs = [i \in 0..n |-> Seen(f[i])] /\ gs = [i \in 0..n |-> Seen(g[i])]
  OBVIOUS
<1>4. ASSUME NEW i \in 0..n PROVE fs[i] = Seen(f[i]) /\ gs[i] = Seen(g[i])
  BY <1>3
<1>5. ASSUME NEW i \in 1..n, fs[i - 1] = gs[i - 1] PROVE fs[i] = gs[i]
  <2>1. i \in 0..n /\ i - 1 \in 0..n /\ i \in 1..Len(ms)
    BY <1>0
  <2>2. f[i - 1] \in Windows /\ g[i - 1] \in Windows /\ ms[i] \in Messages
    BY <1>0, <1>1, <1>2, <2>1, ElementOfSeq
  <2>3. f[i] = WndProc(f[i - 1], ms[i]) /\ g[i] = WndProc(g[i - 1], ms[i])
    BY <1>1, <1>2, <2>1
  <2>4. Seen(f[i - 1]) = Seen(g[i - 1])
    BY <1>4, <1>5, <2>1
  <2> QED
    BY <1>4, <2>1, <2>2, <2>3, <2>4, WndProcSeen
<1>6. 0 \in 0..n /\ n \in 0..n
  BY <1>0
<1>7. fs[0] = gs[0]
  BY <1>1, <1>2, <1>4, <1>6
<1>8. fs[n] = gs[n]
  BY <1>0, <1>5, <1>7, SameWalk
<1> QED
  BY <1>0, <1>1, <1>2, <1>4, <1>6, <1>8
----------------------------------------------------------------------------
(* What is read for the board.                                             *)

\* A cabinet the player has the same say in.
Alike(c, d) == c \in Cabs /\ On(c) = On(d) /\ Paid(c) = Paid(d)

LEMMA AutostartedKept ==
  ASSUME NEW c \in Cabs, autostart \in BOOLEAN
  PROVE  Alike(Autostarted(c), c)
<1>1. c.buttons \in SUBSET Switches /\ c.coins \in [Slots -> Nat] /\ c.coined \in BOOLEAN
  BY DEF Cabs, Gifts
<1>2. CASE ~autostart
  BY <1>2 DEF Autostarted, Alike
<1>3. CASE autostart
  <2>1. PICK coined \in BOOLEAN : coined = (c.coined \/ frame > CoinAfter)
    OBVIOUS
  <2>2. PICK n : n = [c.coins EXCEPT ![0] = IF coined /\ ~c.coined THEN @ + 1 ELSE @]
    OBVIOUS
  <2>3. 0 \in Slots /\ c.coins[0] \in Nat
    BY <1>1 DEF Slots
  <2>4. n \in [Slots -> Nat]
    BY <1>1, <2>2, <2>3
  <2>5. n[0] = c.coins[0] + (IF coined /\ ~c.coined THEN 1 ELSE 0)
          /\ \A s \in Slots : s # 0 => n[s] = c.coins[s]
    BY <1>1, <2>2, <2>3
  <2>6. PICK b : b = IF ~coined THEN c.buttons
                       ELSE IF frame % Period < Press THEN c.buttons \cup {"p1start"}
                       ELSE c.buttons \ {"p1start"}
    OBVIOUS
  <2>7. b \in SUBSET Switches /\ b \cap Steady = c.buttons \cap Steady
    BY <1>1, <1>3, <2>6 DEF Switches, Steady
  <2>8. Autostarted(c) = [coins |-> n, buttons |-> b, coined |-> coined]
    BY <1>3, <2>1, <2>2, <2>6 DEF Autostarted
  <2>9. PICK d : d = Autostarted(c)
    OBVIOUS
  <2>10. d \in Cabs /\ d.coins = n /\ d.buttons = b /\ d.coined = coined
    BY <1>3, <2>4, <2>7, <2>8, <2>9 DEF Cabs, Gifts
  <2>11. \A s \in Slots : d.coins[s] - Gift(d, s) = c.coins[s] - Gift(c, s)
    <3> SUFFICES ASSUME NEW s \in Slots PROVE n[s] - Gift(d, s) = c.coins[s] - Gift(c, s)
      BY <2>10
    <3>1. c.coins[s] \in Nat
      BY <1>1
    <3>2. CASE s = 0
      <4>1. c.coined => coined
        BY <2>1
      <4>2. CASE coined /\ ~c.coined
        <5>1. Gift(d, s) = 1 /\ Gift(c, s) = 0 /\ n[s] = c.coins[s] + 1
          BY <2>5, <2>10, <3>2, <4>2 DEF Gift
        <5> QED
          BY <3>1, <5>1
      <4>3. CASE ~(coined /\ ~c.coined)
        <5>1. Gift(d, s) = Gift(c, s) /\ n[s] = c.coins[s] + 0
          BY <2>5, <2>10, <3>2, <4>1, <4>3 DEF Gift
        <5> QED
          BY <3>1, <5>1
      <4> QED
        BY <4>2, <4>3
    <3>3. CASE s # 0
      BY <2>5, <3>1, <3>3 DEF Gift
    <3> QED
      BY <3>2, <3>3
  <2>12. Paid(d) = Paid(c)
    BY <2>11 DEF Paid
  <2>13. On(d) = On(c)
    BY <2>7, <2>10 DEF On
  <2> QED
    BY <1>3, <2>9, <2>10, <2>12, <2>13 DEF Alike
<1> QED
  BY <1>2, <1>3

\* Trigger and reload come from the mouse, the rest is as it was.
LEMMA InputKept ==
  ASSUME NEW c \in Cabs, autostart \in BOOLEAN
  PROVE  /\ Alike(HostCabinetInput(c), c)
         /\ "trigger" \in HostCabinetInput(c).buttons <=> "left" \in mouse
         /\ "reload" \in HostCabinetInput(c).buttons <=> "right" \in mouse
<1>1. PICK a : a = Autostarted(c)
  OBVIOUS
<1>2. Alike(a, c)
  BY <1>1, AutostartedKept
<1>3. a \in Cabs /\ a.buttons \in SUBSET Switches
  BY <1>2 DEF Alike, Cabs
<1>4. PICK b : b = (a.buttons \ {"trigger", "reload"})
                    \cup {s \in {"trigger", "reload"} :
                            (IF s = "trigger" THEN "left" ELSE "right") \in mouse}
  OBVIOUS
<1>5. b \in SUBSET Switches /\ b \cap Steady = a.buttons \cap Steady
  BY <1>3, <1>4 DEF Switches, Steady
<1>6. ("trigger" \in b <=> "left" \in mouse) /\ ("reload" \in b <=> "right" \in mouse)
  BY <1>4
<1>7. PICK d : d = HostCabinetInput(c)
  OBVIOUS
<1>8. d = [a EXCEPT !.buttons = b]
  BY <1>1, <1>4, <1>7 DEF HostCabinetInput
<1>9. d \in Cabs /\ d.buttons = b /\ d.coins = a.coins /\ d.coined = a.coined
  BY <1>3, <1>5, <1>8 DEF Cabs
<1>10. On(d) = On(a) /\ Paid(d) = Paid(a)
  BY <1>5, <1>9 DEF On, Paid, Gift
<1> QED
  BY <1>2, <1>6, <1>7, <1>9, <1>10 DEF Alike

\* The switches the player holds, as far as they are his alone.
HeldOn == {b \in Steady : \E k \in held \cap DOMAIN SwitchOf : SwitchOf[k] = b}

\* Once every waiting message has been pumped, the window knows what the player
\* does.
CabInv ==
  /\ play \in Plays /\ held \subseteq play /\ autostart \in Autostarts
  /\ point \in Points /\ frame \in 0 .. MaxFrame
  /\ inserted \in [Slots -> 0 .. MaxCoins]
  /\ msgs \in Seq(Messages) /\ Len(msgs) <= MaxMsgs
  /\ Window \in Windows
  /\ Seen(Pumped(Window, msgs)) = <<held \cap Buttons, point, HeldOn, inserted>>

\* What the constants are assumed to be.
LEMMA CabConstants == /\ \A p \in Plays : p \subseteq Keys \cup Buttons \cup {"pointer"}
                      /\ Places \subseteq Int /\ Points \subseteq Int
                      /\ MaxMsgs \in Nat /\ MaxCoins \in Nat /\ MaxFrame \in Nat
                      /\ Autostarts \subseteq BOOLEAN
  BY CabinetAssumption DEF Points

\* The cabinet's types.
LEMMA CabTyped == CabInv => CabinetTypeOK
<1> SUFFICES ASSUME CabInv PROVE CabinetTypeOK
  OBVIOUS
<1>1. Window.cab = cab /\ Window.mouse = mouse /\ Window.gun = gun
  BY DEF Window
<1>2. cab \in Cabs /\ mouse \in SUBSET Buttons /\ gun \in Points
  BY <1>1 DEF CabInv, Windows
<1>3. cab \in [coins : [Slots -> Nat], coined : BOOLEAN,
              buttons : SUBSET {"p1start", "p2start", "test", "service",
                                "trigger", "reload"}]
  BY <1>2 DEF Cabs, Gifts, Switches
<1> QED
  BY <1>2, <1>3 DEF CabInv, CabinetTypeOK, Points

LEMMA CabStarts == CabinetInit => CabInv
<1> SUFFICES ASSUME CabinetInit PROVE CabInv
  OBVIOUS
<1>1. Window = [cab |-> cab, mouse |-> {}, gun |-> 0]
        /\ cab = [coins |-> [s \in Slots |-> 0], buttons |-> {}, coined |-> FALSE]
  BY DEF CabinetInit, Window
<1>2. cab \in Cabs
  BY <1>1 DEF Cabs, Gifts
<1>3. Window \in Windows
  BY <1>1, <1>2 DEF Windows, Points
<1>4. Pumped(Window, msgs) = Window
  BY <1>3, PumpedNone DEF CabinetInit
<1>5. cab.coins = [s \in Slots |-> 0] /\ cab.buttons = {} /\ cab.coined = FALSE
  BY <1>1
<1>6. On(cab) = {} /\ HeldOn = {}
  BY <1>5 DEF On, HeldOn, CabinetInit
<1>7. Paid(cab) = inserted
  BY <1>5 DEF Paid, Gift, CabinetInit
<1>8. Seen(Window) = <<held \cap Buttons, point, HeldOn, inserted>>
  BY <1>1, <1>6, <1>7 DEF Seen, CabinetInit
<1>9. msgs \in Seq(Messages) /\ Len(msgs) = 0
  BY EmptySeq DEF CabinetInit
<1>10. inserted \in [Slots -> 0 .. MaxCoins]
  BY CabConstants DEF CabinetInit
<1> QED
  BY <1>3, <1>4, <1>8, <1>9, <1>10, CabConstants DEF CabinetInit, CabInv, Points

\* A message that tells what the player did.
LEMMA SentKeeps ==
  ASSUME CabInv, NEW m \in Messages, Len(msgs) < MaxMsgs, msgs' = Append(msgs, m),
         UNCHANGED <<play, hostVars>>, held' \subseteq play, point' \in Points,
         inserted' \in [Slots -> 0 .. MaxCoins],
         NEW w \in Windows, w = Pumped(Window, msgs),
         Seen(WndProc(w, m)) = <<held' \cap Buttons, point', HeldOn', inserted'>>
  PROVE  CabInv'
<1>1. PICK now \in Windows : now = Window
  BY DEF CabInv
<1>2. Window' = now
  BY <1>1 DEF Window, hostVars
<1>3. PICK ms \in Seq(Messages) : ms = msgs
  BY DEF CabInv
<1>4. Append(ms, m) \in Seq(Messages) /\ Len(Append(ms, m)) = Len(ms) + 1 /\ Len(ms) \in Nat
  BY <1>3, AppendProperties, LenProperties
<1>5. Pumped(now, Append(ms, m)) = WndProc(w, m)
  BY <1>1, <1>3, PumpedMore
<1>6. PICK after : after = WndProc(w, m)
  OBVIOUS
<1>7. Pumped(Window, msgs)' = after
  BY <1>2, <1>3, <1>5, <1>6
<1>8. Seen(Pumped(Window, msgs))' = Seen(after)
  BY <1>7 DEF hostVars, Seen, On, Paid, Gift, Steady
<1>9. Windows' = Windows
  BY DEF Windows, Cabs, Gifts, hostVars
<1>10. Window' \in Windows' /\ msgs' \in Seq(Messages) /\ Len(msgs') <= MaxMsgs
  BY <1>1, <1>2, <1>3, <1>4, <1>9, CabConstants
<1>11. play' \in Plays /\ held' \subseteq play' /\ autostart' \in Autostarts
         /\ frame' \in 0 .. MaxFrame
  BY DEF CabInv, hostVars
<1>12. Seen(Pumped(Window, msgs))' = <<held' \cap Buttons, point', HeldOn', inserted'>>
  BY <1>6, <1>8
<1> QED
  BY <1>10, <1>11, <1>12 DEF CabInv

\* Both kinds of step read what is pumped so far.
LEMMA PumpedTyped == CabInv => Pumped(Window, msgs) \in Windows
<1> SUFFICES ASSUME CabInv PROVE Pumped(Window, msgs) \in Windows
  OBVIOUS
<1>1. PICK now \in Windows : now = Window
  BY DEF CabInv
<1>2. PICK ms \in Seq(Messages) : ms = msgs
  BY DEF CabInv
<1>3. PICK f \in [0..Len(ms) -> Windows] : Pumped(now, ms) = f[Len(ms)]
  BY PumpedIs
<1>4. Len(ms) \in 0..Len(ms)
  BY LenProperties
<1> QED
  BY <1>1, <1>2, <1>3, <1>4

LEMMA KeyKeeps ==
  ASSUME CabInv, NEW k \in play \cap Keys, KeyDown(k) \/ KeyUp(k)
  PROVE  CabInv'
<1>1. PICK w \in Windows : w = Pumped(Window, msgs)
  BY PumpedTyped
<1>2. PICK down \in BOOLEAN : IF down THEN KeyDown(k) ELSE KeyUp(k)
  OBVIOUS
<1>3. PICK m : m = [kind |-> IF down THEN "keydown" ELSE "keyup", what |-> k, x |-> point]
  OBVIOUS
<1>4. m \in Messages /\ m.kind = (IF down THEN "keydown" ELSE "keyup") /\ m.what = k
  BY <1>2, <1>3 DEF Messages, CabInv
<1>5. /\ Len(msgs) < MaxMsgs /\ msgs' = Append(msgs, m) /\ UNCHANGED <<play, point, hostVars>>
      /\ held' = IF down THEN held \cup {k} ELSE held \ {k}
  BY <1>2, <1>3 DEF KeyDown, KeyUp, Sent
<1>6. k \in Keys /\ w.cab \in Cabs
  BY <1>1 DEF Windows
<1>7. PICK c : c = CabinetKey(w.cab, k, down)
  OBVIOUS
<1>8. /\ On(c) = IF k \notin DOMAIN SwitchOf THEN On(w.cab)
                 ELSE IF down THEN On(w.cab) \cup ({SwitchOf[k]} \cap Steady)
                     ELSE On(w.cab) \ {SwitchOf[k]}
      /\ Paid(c) = [s \in Slots |-> Paid(w.cab)[s] + IF down THEN Coin(k)[s] ELSE 0]
  BY <1>2, <1>6, <1>7, KeySeen
<1>9. w.mouse = held \cap Buttons /\ w.gun = point /\ On(w.cab) = HeldOn /\ Paid(w.cab) = inserted
  BY <1>1 DEF CabInv, Seen
<1>10. WndProc(w, m) = [w EXCEPT !.cab = c]
  <2>1. (m.kind = "keydown") = down
    BY <1>2, <1>4
  <2> QED
    BY <1>4, <1>7, <2>1 DEF WndProc
<1>11. Seen(WndProc(w, m)) = <<w.mouse, w.gun, On(c), Paid(c)>>
  BY <1>1, <1>10 DEF Seen, Windows
<1>12. w.mouse = held' \cap Buttons /\ held' \subseteq play
  BY <1>5, <1>6, <1>9 DEF Keys, Buttons, CabInv
<1>13. On(c) = HeldOn'
  <2>1. HeldOn' = {b \in Steady : \E h \in held' \cap DOMAIN SwitchOf : SwitchOf[h] = b}
    BY <1>5 DEF HeldOn, Steady, hostVars
  <2>2. \A g, h \in DOMAIN SwitchOf : SwitchOf[g] = SwitchOf[h] => g = h
    BY DEF SwitchOf
  <2>3. CASE k \notin DOMAIN SwitchOf
    <3>1. held' \cap DOMAIN SwitchOf = held \cap DOMAIN SwitchOf
      BY <1>5, <2>3
    <3> QED
      BY <1>8, <1>9, <2>1, <2>3, <3>1 DEF HeldOn
  <2>4. CASE k \in DOMAIN SwitchOf /\ down
    <3>1. On(c) = HeldOn \cup ({SwitchOf[k]} \cap Steady)
      BY <1>8, <1>9, <2>4
    <3>2. held' = held \cup {k}
      BY <1>5, <2>4
    <3> QED
      BY <2>1, <2>4, <3>1, <3>2, Zenon DEF HeldOn
  <2>5. CASE k \in DOMAIN SwitchOf /\ ~down
    <3>1. On(c) = HeldOn \ {SwitchOf[k]}
      BY <1>8, <1>9, <2>5
    <3>2. held' = held \ {k}
      BY <1>5, <2>5
    <3> QED
      BY <2>1, <2>2, <2>5, <3>1, <3>2, Zenon DEF HeldOn
  <2> QED
    BY <2>3, <2>4, <2>5
<1>14. inserted \in [Slots -> 0 .. MaxCoins]
  BY DEF CabInv
<1>15. inserted' = [s \in Slots |-> inserted[s] + IF down THEN Coin(k)[s] ELSE 0]
  <2>1. CASE down
    BY <1>2, <2>1 DEF KeyDown
  <2>2. CASE ~down
    <3>1. inserted' = inserted
      BY <1>2, <2>2 DEF KeyUp
    <3>2. \A s \in Slots : inserted[s] + 0 = inserted[s]
      BY <1>14, CabConstants
    <3> QED
      BY <1>14, <2>2, <3>1, <3>2
  <2> QED
    BY <2>1, <2>2
<1>16. Paid(c) = inserted'
  BY <1>8, <1>9, <1>15
<1>17. inserted' \in [Slots -> 0 .. MaxCoins]
  <2> SUFFICES ASSUME NEW s \in Slots
        PROVE inserted[s] + (IF down THEN Coin(k)[s] ELSE 0) \in 0 .. MaxCoins
    BY <1>15
  <2>1. inserted[s] \in 0 .. MaxCoins
    BY <1>14
  <2>2. down /\ Coin(k)[s] # 0 => k \in DOMAIN SlotOf /\ SlotOf[k] = s /\ Coin(k)[s] = 1
    BY DEF Coin
  <2>3. down /\ k \in DOMAIN SlotOf => inserted[SlotOf[k]] < MaxCoins
    BY <1>2 DEF KeyDown
  <2>4. CASE down /\ Coin(k)[s] # 0
    <3>1. inserted[s] < MaxCoins /\ Coin(k)[s] = 1
      BY <2>2, <2>3, <2>4
    <3> QED
      BY <2>1, <2>4, <3>1, CabConstants
  <2>5. CASE ~(down /\ Coin(k)[s] # 0)
    <3>1. (IF down THEN Coin(k)[s] ELSE 0) = 0
      BY <2>5
    <3> QED
      BY <2>1, <3>1, CabConstants
  <2> QED
    BY <2>4, <2>5
<1>18. Seen(WndProc(w, m)) = <<held' \cap Buttons, point', HeldOn', inserted'>>
  BY <1>5, <1>9, <1>11, <1>12, <1>13, <1>16
<1>19. point' \in Points
  BY <1>5 DEF CabInv
<1> QED
  BY <1>1, <1>4, <1>5, <1>12, <1>17, <1>18, <1>19, SentKeeps

LEMMA ButtonKeeps ==
  ASSUME CabInv, NEW b \in play \cap Buttons, ButtonDown(b) \/ ButtonUp(b)
  PROVE  CabInv'
<1>1. PICK w \in Windows : w = Pumped(Window, msgs)
  BY PumpedTyped
<1>2. PICK down \in BOOLEAN : IF down THEN ButtonDown(b) ELSE ButtonUp(b)
  OBVIOUS
<1>3. PICK m : m = [kind |-> IF down THEN "down" ELSE "up", what |-> b, x |-> point]
  OBVIOUS
<1>4. m \in Messages /\ m.kind = (IF down THEN "down" ELSE "up") /\ m.what = b /\ m.x = point
  BY <1>2, <1>3 DEF Messages, CabInv
<1>5. /\ Len(msgs) < MaxMsgs /\ msgs' = Append(msgs, m)
        /\ UNCHANGED <<play, point, inserted, hostVars>>
      /\ held' = IF down THEN held \cup {b} ELSE held \ {b}
  BY <1>2, <1>3 DEF ButtonDown, ButtonUp, Sent
<1>6. w.mouse = held \cap Buttons /\ w.gun = point /\ On(w.cab) = HeldOn /\ Paid(w.cab) = inserted
  BY <1>1 DEF CabInv, Seen
<1>7. PICK mice : mice = IF down THEN w.mouse \cup {b} ELSE w.mouse \ {b}
  OBVIOUS
<1>8. WndProc(w, m) = [w EXCEPT !.gun = point, !.mouse = mice]
  <2>1. CASE down
    BY <1>4, <1>7, <2>1 DEF WndProc
  <2>2. CASE ~down
    BY <1>4, <1>7, <2>2 DEF WndProc
  <2> QED
    BY <2>1, <2>2
<1>9. Seen(WndProc(w, m)) = <<mice, point, On(w.cab), Paid(w.cab)>>
  BY <1>1, <1>8 DEF Seen, Windows
<1>10. mice = held' \cap Buttons /\ held' \subseteq play
  BY <1>5, <1>6, <1>7 DEF CabInv
<1>11. held' \cap DOMAIN SwitchOf = held \cap DOMAIN SwitchOf
  BY <1>5 DEF Buttons, SwitchOf
<1>12. HeldOn' = HeldOn
  BY <1>5, <1>11 DEF HeldOn, Steady, hostVars
<1>13. Seen(WndProc(w, m)) = <<held' \cap Buttons, point', HeldOn', inserted'>>
  BY <1>5, <1>6, <1>9, <1>10, <1>12
<1>14. point' \in Points /\ inserted' \in [Slots -> 0 .. MaxCoins]
  BY <1>5 DEF CabInv
<1> QED
  BY <1>1, <1>4, <1>5, <1>10, <1>13, <1>14, SentKeeps

LEMMA MoveKeeps ==
  ASSUME CabInv, NEW x \in Places, Move(x)
  PROVE  CabInv'
<1>1. PICK w \in Windows : w = Pumped(Window, msgs)
  BY PumpedTyped
<1>2. PICK m : m = [kind |-> "move", what |-> "none", x |-> x]
  OBVIOUS
<1>3. m \in Messages /\ m.kind = "move" /\ m.x = x
  BY <1>2 DEF Messages, Points
<1>4. /\ Len(msgs) < MaxMsgs /\ msgs' = Append(msgs, m)
        /\ UNCHANGED <<play, held, inserted, hostVars>>
      /\ point' = x
  BY <1>2 DEF Move, Sent
<1>5. w.mouse = held \cap Buttons /\ w.gun = point /\ On(w.cab) = HeldOn /\ Paid(w.cab) = inserted
  BY <1>1 DEF CabInv, Seen
<1>6. WndProc(w, m) = [w EXCEPT !.gun = x, !.mouse = w.mouse]
  BY <1>3 DEF WndProc
<1>7. Seen(WndProc(w, m)) = <<w.mouse, x, On(w.cab), Paid(w.cab)>>
  BY <1>1, <1>6 DEF Seen, Windows
<1>8. HeldOn' = HeldOn
  BY <1>4 DEF HeldOn, Steady, hostVars
<1>9. Seen(WndProc(w, m)) = <<held' \cap Buttons, point', HeldOn', inserted'>>
  BY <1>4, <1>5, <1>7, <1>8
<1>10. point' \in Points /\ inserted' \in [Slots -> 0 .. MaxCoins] /\ held' \subseteq play
  BY <1>4 DEF CabInv, Points
<1> QED
  BY <1>1, <1>3, <1>4, <1>9, <1>10, SentKeeps

LEMMA PlayerKeeps == CabInv /\ Player => CabInv'
<1> SUFFICES ASSUME CabInv, Player PROVE CabInv'
  OBVIOUS
<1>1. CASE \E k \in play \cap Keys : KeyDown(k) \/ KeyUp(k)
  BY <1>1, KeyKeeps
<1>2. CASE \E b \in play \cap Buttons : ButtonDown(b) \/ ButtonUp(b)
  BY <1>2, ButtonKeeps
<1>3. CASE \E x \in Places : Move(x)
  BY <1>3, MoveKeeps
<1> QED
  BY <1>1, <1>2, <1>3 DEF Player

\* A window's state may be any with the same to say.
LEMMA WindowKeeps ==
  ASSUME CabInv, UNCHANGED <<playerVars, autostart>>, frame' \in 0 .. MaxFrame,
         NEW ms \in Seq(Messages), Len(ms) <= MaxMsgs, msgs' = ms,
         NEW w \in Windows, Window' = w,
         Seen(Pumped(w, ms)) = Seen(Pumped(Window, msgs))
  PROVE  CabInv'
<1>1. PICK p : p = Pumped(w, ms)
  OBVIOUS
<1>2. Pumped(Window, msgs)' = p
  BY <1>1
<1>3. Seen(Pumped(Window, msgs))' = Seen(p)
  BY <1>2 DEF Seen, On, Paid, Gift, Steady
<1>4. Windows' = Windows
  BY DEF Windows, Cabs, Gifts
<1>5. UNCHANGED <<held, point, inserted, play>> /\ HeldOn' = HeldOn
  BY DEF playerVars, HeldOn, Steady
<1>6. Seen(Pumped(Window, msgs))' = <<held' \cap Buttons, point', HeldOn', inserted'>>
  BY <1>1, <1>3, <1>5 DEF CabInv
<1>7. /\ play' \in Plays /\ held' \subseteq play' /\ autostart' \in Autostarts
      /\ point' \in Points /\ inserted' \in [Slots -> 0 .. MaxCoins]
  BY <1>5 DEF CabInv
<1>8. Window' \in Windows' /\ msgs' \in Seq(Messages) /\ Len(msgs') <= MaxMsgs
  BY <1>4
<1> QED
  BY <1>6, <1>7, <1>8 DEF CabInv

LEMMA PumpAllKeeps ==
  ASSUME CabInv, PumpAll, UNCHANGED <<playerVars, autostart>>, frame' \in 0 .. MaxFrame
  PROVE  CabInv'
<1>1. PICK w \in Windows : w = Pumped(Window, msgs)
  BY PumpedTyped
<1>2. cab' = w.cab /\ mouse' = w.mouse /\ gun' = w.gun /\ msgs' = <<>>
  BY <1>1 DEF PumpAll
<1>3. Window' = w
  BY <1>2 DEF Window, Windows
<1>4. Pumped(w, <<>>) = Pumped(Window, msgs)
  BY <1>1, PumpedNone
<1>5. PICK ms \in Seq(Messages) : ms = <<>> /\ Len(ms) <= MaxMsgs
  <2>1. <<>> \in Seq(Messages) /\ Len(<<>>) = 0
    BY EmptySeq
  <2>2. 0 <= MaxMsgs
    BY CabConstants
  <2> QED
    BY <2>1, <2>2
<1> QED
  BY <1>1, <1>2, <1>3, <1>4, <1>5, WindowKeeps

LEMMA PumpKeeps == CabInv /\ (Pump \/ Swap) => CabInv'
<1> SUFFICES ASSUME CabInv, Pump \/ Swap PROVE CabInv'
  OBVIOUS
<1>1. PumpAll /\ UNCHANGED <<playerVars, autostart>>
  BY DEF Pump, Swap
<1>2. frame' \in 0 .. MaxFrame
  BY CabConstants DEF Pump, Swap, CabInv
<1> QED
  BY <1>1, <1>2, PumpAllKeeps

\* Reading for the board.
LEMMA ReadKeeps ==
  ASSUME CabInv, UNCHANGED <<playerVars, msgs, mouse, gun, frame, autostart>>,
         NEW c, Alike(c, cab), cab' = c
  PROVE  CabInv'
<1>1. PICK now \in Windows : now = Window
  BY DEF CabInv
<1>2. now.cab = cab /\ now.mouse = mouse /\ now.gun = gun
  BY <1>1 DEF Window
<1>3. PICK w : w = [cab |-> c, mouse |-> mouse, gun |-> gun]
  OBVIOUS
<1>4. Window' = w
  BY <1>3 DEF Window
<1>5. w \in Windows /\ Seen(w) = Seen(now)
  BY <1>1, <1>2, <1>3 DEF Alike, Windows, Seen
<1>6. PICK ms \in Seq(Messages) : ms = msgs /\ Len(ms) <= MaxMsgs
  BY DEF CabInv
<1>7. Seen(Pumped(w, ms)) = Seen(Pumped(now, ms))
  BY <1>5, <1>6, PumpedSeen
<1>8. frame' \in 0 .. MaxFrame
  BY DEF CabInv
<1> QED
  BY <1>1, <1>4, <1>5, <1>6, <1>7, <1>8, WindowKeeps

LEMMA CabStutters == CabInv /\ UNCHANGED cabinetVars => CabInv'
<1> SUFFICES ASSUME CabInv, UNCHANGED cabinetVars PROVE CabInv'
  OBVIOUS
<1>1. PICK now \in Windows : now = Window
  BY DEF CabInv
<1>2. Window' = now
  BY <1>1 DEF Window, cabinetVars, hostVars
<1>3. PICK ms \in Seq(Messages) : ms = msgs /\ Len(ms) <= MaxMsgs
  BY DEF CabInv
<1>4. UNCHANGED <<playerVars, autostart>> /\ frame' \in 0 .. MaxFrame /\ msgs' = ms
  BY <1>3 DEF CabInv, cabinetVars, hostVars
<1>5. Seen(Pumped(now, ms)) = Seen(Pumped(Window, msgs))
  BY <1>1, <1>3
<1> QED
  BY <1>1, <1>2, <1>3, <1>4, <1>5, WindowKeeps

\* The cells of a reply and the commands of a request, by type.
Cells == [set : SUBSET (Switches \cup {"sync"}), num : 0 .. Byte - 1]
Commands == [code : Codes, p1 : Nat, p2 : Nat]

\* What the constants are assumed to be.
LEMMA JvsConstants == /\ Byte \in Nat /\ 2 <= Byte /\ AckSize \in Nat /\ Byte <= AckSize
                      /\ Reports \in Nat \ {0} /\ Width \in Nat \ {0}
                      /\ IdentLen \in Nat /\ FeatureLen \in Nat
                      /\ Requests \subseteq Seq(Commands)
  BY JvsAssumption DEF Commands

\* Numbers in a base.
LEMMA Division ==
  ASSUME NEW a \in Nat, NEW b \in Nat \ {0}
  PROVE  /\ a \div b \in Nat /\ a % b \in 0 .. b - 1
         /\ a = b * (a \div b) + (a % b)
  OBVIOUS

LEMMA ProductGrows ==
  ASSUME NEW a \in Nat, NEW b \in Nat, NEW c \in Nat, a <= b
  PROVE  c * a <= c * b
  OBVIOUS

LEMMA Digits ==
  ASSUME NEW a \in Nat, NEW b \in Nat \ {0}, a < b * b
  PROVE  a \div b \in 0 .. b - 1
<1>1. PICK q \in Nat, r \in Nat : q = a \div b /\ a = b * q + r
  BY Division
<1>2. ASSUME b <= q PROVE FALSE
  <2>1. b * b <= b * q
    BY <1>1, <1>2, ProductGrows
  <2>2. b * b \in Nat /\ b * q \in Nat
    BY <1>1
  <2> QED
    BY <1>1, <2>1, <2>2
<1> QED
  BY <1>1, <1>2

LEMMA Remainder ==
  ASSUME NEW b \in Nat \ {0}, NEW a \in Nat, a < b
  PROVE  a % b = a
  OBVIOUS

\* Above one, a square.
LEMMA ByteSquare == /\ Byte * Byte \in Nat /\ Byte < Byte * Byte /\ 4 <= Byte * Byte
<1>1. PICK b \in Nat : b = Byte /\ 2 <= b
  BY JvsConstants
<1>2. b * 2 <= b * b
  BY <1>1, ProductGrows
<1> QED
  BY <1>1, <1>2

LEMMA CoinMaskIs == CoinMask \in Nat \ {0} /\ CoinMask <= Byte * Byte
<1>1. PICK q \in Nat : q = Byte * Byte /\ 4 <= q
  BY ByteSquare
<1> QED
  BY <1>1 DEF CoinMask

\* Two halves of a value, and the value.
LEMMA HalfTyped ==
  ASSUME NEW v \in Nat, v < Byte * Byte, NEW i \in Int
  PROVE  Half(v, i) \in Cells
<1>1. v \div Byte \in 0 .. Byte - 1 /\ v % Byte \in 0 .. Byte - 1
  <2>1. PICK b \in Nat \ {0} : b = Byte /\ v < b * b
    BY JvsConstants
  <2>2. v \div b \in 0 .. b - 1
    BY <2>1, Digits
  <2>3. v % b \in 0 .. b - 1
    BY <2>1
  <2> QED
    BY <2>1, <2>2, <2>3
<1>2. ASSUME NEW n \in 0 .. Byte - 1 PROVE Num(n) \in Cells
  BY DEF Num, Cells
<1> QED
  BY <1>1, <1>2 DEF Half

LEMMA HalvesAre ==
  ASSUME NEW v \in Nat, NEW i \in Int, i % 2 = 1
  PROVE  Half(v, i).num * Byte + Half(v, i + 1).num = v
<1>1. (i + 1) % 2 # 1
  OBVIOUS
<1>2. Half(v, i).num = v \div Byte /\ Half(v, i + 1).num = v % Byte
  BY <1>1 DEF Half, Num
<1>3. PICK q \in Nat, r \in Nat, b \in Nat : q = v \div Byte /\ r = v % Byte /\ b = Byte
        /\ v = b * q + r
  BY JvsConstants, Division
<1>4. q * b + r = b * q + r
  BY <1>3
<1> QED
  BY <1>2, <1>3, <1>4

\* Where the pointer is, between the edges.
LEMMA AxisIs ==
  ASSUME NEW x \in Int
  PROVE  /\ Axis(x) \in Nat /\ Axis(x) < Byte * Byte
         /\ x <= 0 => Axis(x) = 0
         /\ Width < Byte * Byte /\ x > 0 => Axis(x) # 0
         /\ x >= Width => Axis(x) = Byte * Byte - 1
         /\ x < Width => Axis(x) < Byte * Byte - 1
<1>1. PICK f \in Nat : f = Byte * Byte - 1 /\ 3 <= f
  BY ByteSquare
<1>2. PICK w \in Nat \ {0} : w = Width
  BY JvsConstants
<1>3. PICK v : v = (x * f) \div w
  OBVIOUS
<1>4. Axis(x) = IF x < 0 THEN 0 ELSE IF v > f THEN f ELSE v
  BY <1>1, <1>2, <1>3 DEF Axis
<1>5. CASE x < 0
  <2>1. Axis(x) = 0
    BY <1>4, <1>5
  <2>2. ~(x > 0) /\ ~(x >= Width)
    BY <1>2, <1>5
  <2>3. 0 \in Nat /\ 0 < Byte * Byte /\ 0 < Byte * Byte - 1
    <3>1. PICK q \in Nat : q = Byte * Byte
      BY ByteSquare
    <3> QED
      BY <1>1, <3>1
  <2> QED
    BY <2>1, <2>2, <2>3, Zenon
<1>6. CASE x >= 0
  <2>1. x \in Nat
    BY <1>6
  <2>2. PICK p \in Nat : p = x * f
    BY <1>1, <2>1
  <2>3. PICK r \in 0 .. w - 1 : v \in Nat /\ p = w * v + r
    <3>1. v = p \div w
      BY <1>3, <2>2
    <3>2. /\ p \div w \in Nat /\ p % w \in 0 .. w - 1
          /\ p = w * (p \div w) + (p % w)
      BY <1>2, <2>2, Division
    <3> QED
      BY <3>1, <3>2, Zenon
  <2>4. Axis(x) = IF v > f THEN f ELSE v
    <3>1. ~(x < 0)
      BY <1>6
    <3> QED
      BY <1>4, <3>1, Zenon
  <2>5. ASSUME x = 0 PROVE v = 0
    <3>1. p = 0
      BY <1>1, <2>2, <2>5
    <3>2. ASSUME 1 <= v PROVE FALSE
      <4>1. w * 1 <= w * v
        BY <1>2, <2>3, <3>2, ProductGrows
      <4>2. w * v \in Nat
        BY <1>2, <2>3
      <4> QED
        BY <1>2, <2>3, <3>1, <4>1, <4>2
    <3> QED
      BY <2>3, <3>2
  <2>6. ASSUME w <= f, x > 0 PROVE v # 0
    <3>1. f * 1 <= f * x
      BY <1>1, <2>1, <2>6, ProductGrows
    <3>2. f * x = p
      BY <1>1, <2>1, <2>2
    <3>3. ASSUME v = 0 PROVE FALSE
      <4>1. w * v = 0
        BY <1>2, <3>3
      <4> QED
        BY <1>1, <1>2, <2>2, <2>3, <2>6, <3>1, <3>2, <4>1
    <3> QED
      BY <3>3
  <2>7. ASSUME x >= w PROVE v >= f
    <3>1. f * w <= f * x
      BY <1>1, <1>2, <2>1, <2>7, ProductGrows
    <3>2. f * x = p
      BY <1>1, <2>1, <2>2
    <3>3. ASSUME v + 1 <= f PROVE FALSE
      <4>1. w * (v + 1) <= w * f
        BY <1>1, <1>2, <2>3, <3>3, ProductGrows
      <4>2. w * (v + 1) = w * v + w /\ w * f = f * w
        BY <1>1, <1>2, <2>3
      <4>3. w * v \in Nat /\ f * w \in Nat
        BY <1>1, <1>2, <2>3
      <4> QED
        BY <1>2, <2>2, <2>3, <3>1, <3>2, <4>1, <4>2, <4>3
    <3> QED
      BY <1>1, <2>3, <3>3
  <2>8. ASSUME x < w PROVE v < f
    <3>1. f * (x + 1) <= f * w
      BY <1>1, <1>2, <2>1, <2>8, ProductGrows
    <3>2. f * (x + 1) = p + f
      BY <1>1, <2>1, <2>2
    <3>3. ASSUME f <= v PROVE FALSE
      <4>1. w * f <= w * v
        BY <1>1, <1>2, <2>3, <3>3, ProductGrows
      <4>2. w * f = f * w
        BY <1>1, <1>2
      <4>3. w * v \in Nat /\ f * w \in Nat
        BY <1>1, <1>2, <2>3
      <4> QED
        BY <1>1, <1>2, <2>2, <2>3, <3>1, <3>2, <4>1, <4>2, <4>3
    <3> QED
      BY <1>1, <2>3, <3>3
  <2>9. /\ Width < Byte * Byte => w <= f
        /\ Byte * Byte = f + 1
    BY <1>1, <1>2, ByteSquare
  <2>10. x <= 0 => x = 0
    BY <1>6
  <2> QED
    BY <1>1, <1>2, <2>3, <2>4, <2>5, <2>6, <2>7, <2>8, <2>9, <2>10
<1> QED
  BY <1>5, <1>6

\* A sequence written as a function.
LEMMA Written ==
  ASSUME NEW S, NEW n \in Nat, NEW f \in [1..n -> S]
  PROVE  f \in Seq(S) /\ Len(f) = n
  OBVIOUS

LEMMA BitsTyped == ASSUME NEW T \in SUBSET Switches PROVE Bits(T) \in Cells /\ Bits(T).set = T
<1>1. 0 \in 0 .. Byte - 1
  BY JvsConstants
<1> QED
  BY <1>1 DEF Bits, Cells

LEMMA NumTyped == Num(0) \in Cells /\ Num(1) \in Cells
<1>1. 0 \in 0 .. Byte - 1 /\ 1 \in 0 .. Byte - 1
  BY JvsConstants
<1> QED
  BY <1>1 DEF Num, Cells

LEMMA ZerosTyped ==
  ASSUME NEW n \in Nat
  PROVE  Zeros(n) \in Seq(Cells) /\ Len(Zeros(n)) = n
<1>1. Zeros(n) \in [1..n -> Cells]
  BY NumTyped DEF Zeros
<1> QED
  BY <1>1, Written

LEMMA WidthTyped == ASSUME NEW n \in Nat PROVE PlayerWidth(n) \in Nat \ {0}
  BY DEF PlayerWidth

LEMMA SwitchBytesTyped ==
  ASSUME NEW c \in Cabs, NEW players \in Nat, NEW bytes \in Nat
  PROVE  /\ SwitchBytes(c, players, bytes) \in Seq(Cells)
         /\ Len(SwitchBytes(c, players, bytes)) = 1 + players * PlayerWidth(bytes)
<1>1. PICK wide \in Nat \ {0} : wide = PlayerWidth(bytes)
  BY WidthTyped
<1>2. PICK n \in Nat : n = 1 + players * wide
  BY <1>1
<1>3. c.buttons \in SUBSET Switches
  BY DEF Cabs
<1>4. Bits(c.buttons \cap {"test"}) \in Cells
  BY <1>3, BitsTyped
<1>5. ASSUME NEW pl PROVE Bits(PlayerBits(c, pl)) \in Cells
  <2>1. PlayerBits(c, pl) \in SUBSET Switches
    BY <1>3 DEF PlayerBits
  <2> QED
    BY <2>1, BitsTyped
<1>6. SwitchBytes(c, players, bytes) =
        [i \in 1 .. n |-> IF i = 1 THEN Bits(c.buttons \cap {"test"})
                          ELSE IF (i - 2) % wide = 0 THEN Bits(PlayerBits(c, (i - 2) \div wide))
                          ELSE Num(0)]
  BY <1>1, <1>2 DEF SwitchBytes
<1>7. SwitchBytes(c, players, bytes) \in [1..n -> Cells]
  BY <1>4, <1>5, <1>6, NumTyped
<1>8. SwitchBytes(c, players, bytes) \in Seq(Cells) /\ Len(SwitchBytes(c, players, bytes)) = n
  BY <1>2, <1>7, Written
<1> QED
  BY <1>1, <1>2, <1>8

\* A slot's count in fourteen bits.
LEMMA CountTyped ==
  ASSUME NEW c \in Cabs, NEW s
  PROVE  (IF s \in Slots THEN c.coins[s] % CoinMask ELSE 0) \in Nat
         /\ (IF s \in Slots THEN c.coins[s] % CoinMask ELSE 0) < Byte * Byte
<1>1. c.coins \in [Slots -> Nat]
  BY DEF Cabs
<1>2. PICK m \in Nat \ {0} : m = CoinMask /\ m <= Byte * Byte
  BY CoinMaskIs
<1>3. PICK q \in Nat : q = Byte * Byte /\ 4 <= q
  BY ByteSquare
<1>4. CASE s \in Slots
  <2>1. c.coins[s] \in Nat
    BY <1>1, <1>4
  <2>2. c.coins[s] % m \in 0 .. m - 1
    BY <1>2, <2>1
  <2> QED
    BY <1>2, <1>3, <1>4, <2>2
<1>5. CASE s \notin Slots
  BY <1>3, <1>5
<1> QED
  BY <1>4, <1>5

LEMMA CoinBytesTyped ==
  ASSUME NEW c \in Cabs, NEW slots \in Nat
  PROVE  CoinBytes(c, slots) \in Seq(Cells) /\ Len(CoinBytes(c, slots)) = 2 * slots
<1>1. ASSUME NEW i \in 1 .. 2 * slots
      PROVE  Half(IF (i - 1) \div 2 \in Slots THEN c.coins[(i - 1) \div 2] % CoinMask
          ELSE 0, i) \in Cells
  <2>1. PICK v \in Nat : /\ v = (IF (i - 1) \div 2 \in Slots THEN c.coins[(i - 1) \div 2] % CoinMask ELSE 0)
                         /\ v < Byte * Byte
    BY CountTyped
  <2> QED
    BY <2>1, HalfTyped
<1>2. CoinBytes(c, slots) \in [1 .. 2 * slots -> Cells]
  BY <1>1 DEF CoinBytes
<1> QED
  BY <1>2, Written

\* What an axis or an unused channel reads as.
Channel(ch) == CASE ch \in {0, 2} -> Axis(gun) [] ch \in {1, 3} -> 0 [] OTHER -> (Byte * Byte) \div 2

LEMMA ChannelTyped ==
  ASSUME gun \in Points, NEW ch
  PROVE  Channel(ch) \in Nat /\ Channel(ch) < Byte * Byte
<1>1. Axis(gun) \in Nat /\ Axis(gun) < Byte * Byte
  BY AxisIs, CabConstants
<1>2. PICK q \in Nat : q = Byte * Byte /\ 4 <= q
  BY ByteSquare
<1>3. (Byte * Byte) \div 2 \in Nat /\ (Byte * Byte) \div 2 < Byte * Byte
  BY <1>2
<1>4. 0 \in Nat /\ 0 < Byte * Byte
  BY <1>2
<1> QED
  BY <1>1, <1>3, <1>4, Zenon DEF Channel

LEMMA AnalogBytesTyped ==
  ASSUME gun \in Points, NEW channels \in Nat
  PROVE  AnalogBytes(channels) \in Seq(Cells) /\ Len(AnalogBytes(channels)) = 2 * channels
<1>1. ASSUME NEW i \in 1 .. 2 * channels PROVE Half(Channel((i - 1) \div 2), i) \in Cells
  <2>1. PICK v \in Nat : v = Channel((i - 1) \div 2) /\ v < Byte * Byte
    BY ChannelTyped
  <2> QED
    BY <2>1, HalfTyped
<1>2. AnalogBytes(channels) \in [1 .. 2 * channels -> Cells]
  BY <1>1 DEF AnalogBytes, Channel
<1> QED
  BY <1>2, Written

\* A report is as long as the protocol says.
LEMMA ReportTyped ==
  ASSUME gun \in Points, NEW c \in Cabs, NEW cmd \in Commands
  PROVE  /\ ReportBytes(cmd, c) \in Seq(Cells)
         /\ AnswerLen(cmd) \in Nat \ {0}
         /\ Len(ReportBytes(cmd, c)) = AnswerLen(cmd) - 1
<1>1. cmd.code \in Codes /\ cmd.p1 \in Nat /\ cmd.p2 \in Nat
  BY DEF Commands
<1>2. IdentLen \in Nat /\ FeatureLen \in Nat
  BY JvsConstants
<1>3. CASE cmd.code = "ident"
  <2>1. AnswerLen(cmd) = IdentLen + 2 /\ ReportBytes(cmd, c) = Zeros(IdentLen + 1)
    BY <1>3 DEF AnswerLen, ReportBytes
  <2>2. Zeros(IdentLen + 1) \in Seq(Cells) /\ Len(Zeros(IdentLen + 1)) = IdentLen + 1
    BY <1>2, ZerosTyped
  <2> QED
    BY <1>2, <2>1, <2>2
<1>4. CASE cmd.code = "revision"
  <2>1. AnswerLen(cmd) = 2 /\ ReportBytes(cmd, c) = Zeros(1)
    BY <1>4 DEF AnswerLen, ReportBytes
  <2>2. Zeros(1) \in Seq(Cells) /\ Len(Zeros(1)) = 1
    BY ZerosTyped
  <2> QED
    BY <2>1, <2>2
<1>5. CASE cmd.code = "features"
  <2>1. AnswerLen(cmd) = FeatureLen + 1 /\ ReportBytes(cmd, c) = Zeros(FeatureLen)
    BY <1>5 DEF AnswerLen, ReportBytes
  <2> QED
    BY <1>2, <2>1, ZerosTyped
<1>6. CASE cmd.code = "switches"
  <2>1. AnswerLen(cmd) = 2 + cmd.p1 * PlayerWidth(cmd.p2)
          /\ ReportBytes(cmd, c) = SwitchBytes(c, cmd.p1, cmd.p2)
    BY <1>6 DEF AnswerLen, ReportBytes
  <2>2. PICK n \in Nat : n = cmd.p1 * PlayerWidth(cmd.p2)
    BY <1>1, WidthTyped
  <2>3. SwitchBytes(c, cmd.p1, cmd.p2) \in Seq(Cells)
          /\ Len(SwitchBytes(c, cmd.p1, cmd.p2)) = 1 + cmd.p1 * PlayerWidth(cmd.p2)
    BY <1>1, SwitchBytesTyped
  <2> QED
    BY <2>1, <2>2, <2>3
<1>7. CASE cmd.code = "coins"
  <2>1. AnswerLen(cmd) = 1 + 2 * cmd.p1 /\ ReportBytes(cmd, c) = CoinBytes(c, cmd.p1)
    BY <1>7 DEF AnswerLen, ReportBytes
  <2>2. CoinBytes(c, cmd.p1) \in Seq(Cells) /\ Len(CoinBytes(c, cmd.p1)) = 2 * cmd.p1
    BY <1>1, CoinBytesTyped
  <2> QED
    BY <1>1, <2>1, <2>2
<1>8. CASE cmd.code = "analog"
  <2>1. AnswerLen(cmd) = 1 + 2 * cmd.p1 /\ ReportBytes(cmd, c) = AnalogBytes(cmd.p1)
    BY <1>8 DEF AnswerLen, ReportBytes
  <2>2. AnalogBytes(cmd.p1) \in Seq(Cells) /\ Len(AnalogBytes(cmd.p1)) = 2 * cmd.p1
    BY <1>1, AnalogBytesTyped
  <2> QED
    BY <1>1, <2>1, <2>2
<1>9. CASE cmd.code = "rotary"
  <2>1. AnswerLen(cmd) = 1 + 2 * cmd.p1 /\ ReportBytes(cmd, c) = Zeros(2 * cmd.p1)
    BY <1>9 DEF AnswerLen, ReportBytes
  <2>2. Zeros(2 * cmd.p1) \in Seq(Cells) /\ Len(Zeros(2 * cmd.p1)) = 2 * cmd.p1
    BY <1>1, ZerosTyped
  <2> QED
    BY <1>1, <2>1, <2>2
<1>10. CASE cmd.code \in {"other", "astray"}
  <2>1. AnswerLen(cmd) = 1 /\ ReportBytes(cmd, c) = <<>>
    BY <1>10 DEF AnswerLen, ReportBytes
  <2>2. <<>> \in Seq(Cells) /\ Len(<<>>) = 0
    BY EmptySeq
  <2> QED
    BY <2>1, <2>2
<1> QED
  BY <1>1, <1>3, <1>4, <1>5, <1>6, <1>7, <1>8, <1>9, <1>10 DEF Codes

\* A report that tells what the player did when the request was sent.
Value(t, i) == t[i].num * Byte + t[i + 1].num
Tells(cmd, t, p) ==
  p.settled =>
    /\ cmd.code = "switches" =>
         /\ "T" \in p.held <=> t[1].set = {"test"}
         /\ cmd.p1 > 0 =>
              /\ "S" \in p.held <=> "service" \in t[2].set
              /\ "left" \in p.held <=> "trigger" \in t[2].set
              /\ "right" \in p.held <=> "reload" \in t[2].set
              /\ autostart \/ ("1" \in p.held <=> "p1start" \in t[2].set)
         /\ cmd.p1 > 1 => ("2" \in p.held <=> t[2 + PlayerWidth(cmd.p2)].set # {})
    /\ cmd.code = "coins" => \A i \in 1 .. cmd.p1 :
         Value(t, 2 * i - 1) - (IF i <= 2 THEN p.inserted[i - 1] ELSE 0)
           \in (IF autostart /\ i = 1 THEN {0, 1} ELSE {0})
    /\ cmd.code = "analog" /\ cmd.p1 > 0 =>
         /\ p.point <= 0 <=> Value(t, 1) = 0
         /\ p.point >= Width <=> Value(t, 1) = Full

\* A cabinet read after all the messages were pumped.
Knows(c, p) ==
  p.settled =>
    /\ "T" \in p.held <=> "test" \in c.buttons
    /\ "S" \in p.held <=> "service" \in c.buttons
    /\ "left" \in p.held <=> "trigger" \in c.buttons
    /\ "right" \in p.held <=> "reload" \in c.buttons
    /\ autostart \/ ("1" \in p.held <=> "p1start" \in c.buttons)
    /\ "2" \in p.held <=> "p2start" \in c.buttons
    /\ p.inserted \in [Slots -> 0 .. MaxCoins] /\ Paid(c) = p.inserted
    /\ p.point = gun

LEMMA ReadKnows ==
  ASSUME CabInv, NEW d, Alike(d, cab), NEW p,
         p.settled => msgs = <<>> /\ p.held = held /\ p.inserted = inserted /\ p.point = point
  PROVE  Knows(HostCabinetInput(d), p) /\ Alike(HostCabinetInput(d), cab)
<1>1. d \in Cabs /\ autostart \in BOOLEAN
  BY CabConstants DEF Alike, CabInv
<1>2. PICK c : /\ c = HostCabinetInput(d) /\ Alike(c, d)
               /\ "trigger" \in c.buttons <=> "left" \in mouse
               /\ "reload" \in c.buttons <=> "right" \in mouse
  BY <1>1, InputKept
<1>3. Alike(c, cab)
  BY <1>2 DEF Alike
<1>4. ASSUME p.settled PROVE Knows(c, p)
  <2>1. msgs = <<>> /\ p.held = held /\ p.inserted = inserted /\ p.point = point
    BY <1>4
  <2>2. PICK w \in Windows : w = Window
    BY DEF CabInv
  <2>3. Pumped(w, msgs) = w
    BY <2>1, PumpedNone
  <2>4. w.mouse = mouse /\ w.gun = gun /\ w.cab = cab
    BY <2>2 DEF Window
  <2>5. mouse = held \cap Buttons /\ gun = point /\ On(cab) = HeldOn /\ Paid(cab) = inserted
    BY <2>2, <2>3, <2>4 DEF CabInv, Seen
  <2>6. On(c) = HeldOn /\ Paid(c) = inserted
    BY <1>3, <2>5 DEF Alike
  <2>7. \A b \in Steady : b \in c.buttons <=> \E k \in held \cap DOMAIN SwitchOf : SwitchOf[k] = b
    BY <2>6 DEF On, HeldOn
  <2>8. /\ "test" \in Steady /\ "service" \in Steady /\ "p2start" \in Steady
        /\ autostart \/ "p1start" \in Steady
    BY DEF Steady
  <2>9. /\ DOMAIN SwitchOf = {"1", "2", "T", "S"}
        /\ SwitchOf["1"] = "p1start" /\ SwitchOf["2"] = "p2start"
        /\ SwitchOf["T"] = "test" /\ SwitchOf["S"] = "service"
    BY DEF SwitchOf
  <2>10. "T" \in held <=> "test" \in c.buttons
    BY <2>7, <2>8, <2>9
  <2>11. "S" \in held <=> "service" \in c.buttons
    BY <2>7, <2>8, <2>9
  <2>12. "2" \in held <=> "p2start" \in c.buttons
    BY <2>7, <2>8, <2>9
  <2>13. autostart \/ ("1" \in held <=> "p1start" \in c.buttons)
    BY <2>7, <2>8, <2>9
  <2>14. ("left" \in held <=> "trigger" \in c.buttons)
           /\ ("right" \in held <=> "reload" \in c.buttons)
    BY <1>2, <2>5 DEF Buttons
  <2>15. p.inserted \in [Slots -> 0 .. MaxCoins]
    BY <2>1 DEF CabInv
  <2> QED
    BY <2>1, <2>5, <2>6, <2>10, <2>11, <2>12, <2>13, <2>14, <2>15 DEF Knows
<1>5. Knows(c, p)
  BY <1>4 DEF Knows
<1> QED
  BY <1>2, <1>3, <1>5

LEMMA SwitchesTell ==
  ASSUME NEW c \in Cabs, NEW p, Knows(c, p), p.settled,
         NEW players \in Nat, NEW bytes \in Nat, NEW t, t = SwitchBytes(c, players, bytes)
  PROVE  /\ "T" \in p.held <=> t[1].set = {"test"}
         /\ players > 0 =>
              /\ "S" \in p.held <=> "service" \in t[2].set
              /\ "left" \in p.held <=> "trigger" \in t[2].set
              /\ "right" \in p.held <=> "reload" \in t[2].set
              /\ autostart \/ ("1" \in p.held <=> "p1start" \in t[2].set)
         /\ players > 1 => ("2" \in p.held <=> t[2 + PlayerWidth(bytes)].set # {})
<1>1. PICK wide \in Nat \ {0} : wide = PlayerWidth(bytes)
  BY WidthTyped
<1>2. PICK n \in Nat : n = players * wide
  BY <1>1
<1>3. c.buttons \in SUBSET Switches
  BY DEF Cabs
<1>4. \A i \in 1 .. 1 + n : t[i] = IF i = 1 THEN Bits(c.buttons \cap {"test"})
                          ELSE IF (i - 2) % wide = 0 THEN Bits(PlayerBits(c, (i - 2) \div wide))
                          ELSE Num(0)
  BY <1>1, <1>2 DEF SwitchBytes
<1>5. t[1].set = c.buttons \cap {"test"}
  <2>1. 1 \in 1 .. 1 + n
    BY <1>2
  <2>2. t[1] = Bits(c.buttons \cap {"test"})
    BY <1>4, <2>1
  <2> QED
    BY <2>2 DEF Bits
<1>6. ASSUME players > 0
      PROVE  t[2].set = c.buttons \cap {"p1start", "service", "trigger", "reload"}
  <2>1. wide * 1 <= wide * players
    BY <1>1, <1>6, ProductGrows
  <2>2. 2 \in 1 .. 1 + n
    BY <1>1, <1>2, <2>1
  <2>3. 0 % wide = 0 /\ 0 \div wide = 0
    BY <1>1
  <2>4. t[2] = Bits(PlayerBits(c, 0))
    <3>1. t[2] = IF 2 = 1 THEN Bits(c.buttons \cap {"test"})
                 ELSE IF (2 - 2) % wide = 0 THEN Bits(PlayerBits(c, (2 - 2) \div wide))
                 ELSE Num(0)
      BY <1>4, <2>2
    <3>2. 2 - 2 = 0 /\ 2 # 1
      OBVIOUS
    <3> QED
      BY <2>3, <3>1, <3>2
  <2> QED
    BY <2>4 DEF Bits, PlayerBits
<1>7. ASSUME players > 1 PROVE t[2 + wide].set = c.buttons \cap {"p2start"}
  <2>1. wide * 2 <= wide * players
    BY <1>1, <1>7, ProductGrows
  <2>2. 2 + wide \in 1 .. 1 + n
    BY <1>1, <1>2, <2>1
  <2>3. wide % wide = 0 /\ wide \div wide = 1
    BY <1>1
  <2>4. t[2 + wide] = Bits(PlayerBits(c, 1))
    <3>1. t[2 + wide] = IF 2 + wide = 1 THEN Bits(c.buttons \cap {"test"})
                 ELSE IF ((2 + wide) - 2) % wide = 0 THEN Bits(PlayerBits(c, ((2 + wide) - 2) \div wide))
                 ELSE Num(0)
      BY <1>4, <2>2
    <3>2. (2 + wide) - 2 = wide /\ 2 + wide # 1
      BY <1>1
    <3> QED
      BY <2>3, <3>1, <3>2
  <2> QED
    BY <2>4 DEF Bits, PlayerBits
<1>8. "T" \in p.held <=> t[1].set = {"test"}
  BY <1>5 DEF Knows
<1>9. ASSUME players > 0
      PROVE  /\ "S" \in p.held <=> "service" \in t[2].set
             /\ "left" \in p.held <=> "trigger" \in t[2].set
             /\ "right" \in p.held <=> "reload" \in t[2].set
             /\ autostart \/ ("1" \in p.held <=> "p1start" \in t[2].set)
  BY <1>6, <1>9 DEF Knows
<1>10. ASSUME players > 1 PROVE "2" \in p.held <=> t[2 + wide].set # {}
  BY <1>7, <1>10 DEF Knows
<1> QED
  BY <1>1, <1>8, <1>9, <1>10

LEMMA CoinsTell ==
  ASSUME NEW c \in Cabs, NEW p, Knows(c, p), p.settled, ValuesFit, autostart \in BOOLEAN,
         NEW slots \in Nat, NEW i \in 1 .. slots
  PROVE  Value(CoinBytes(c, slots), 2 * i - 1) - (IF i <= 2 THEN p.inserted[i - 1] ELSE 0)
           \in (IF autostart /\ i = 1 THEN {0, 1} ELSE {0})
<1>1. PICK j \in Nat : i = j + 1 /\ 2 * i - 1 = 2 * j + 1 /\ (2 * i - 1) + 1 = 2 * j + 2
  <2>1. i - 1 \in Nat
    OBVIOUS
  <2> QED
    BY <2>1
<1>2. PICK v \in Nat : v = (IF j \in Slots THEN c.coins[j] % CoinMask ELSE 0) /\ v < Byte * Byte
  BY CountTyped
<1>3. PICK t : t = CoinBytes(c, slots)
  OBVIOUS
<1>4. t[2 * j + 1] = Half(v, 2 * j + 1) /\ t[(2 * j + 1) + 1] = Half(v, (2 * j + 1) + 1)
  <2>1. 2 * j + 1 \in 1 .. 2 * slots /\ (2 * j + 1) + 1 \in 1 .. 2 * slots
    BY <1>1
  <2>2. ((2 * j + 1) - 1) \div 2 = j /\ (((2 * j + 1) + 1) - 1) \div 2 = j
    BY <1>1
  <2>3. \A k \in 1 .. 2 * slots :
          t[k] = Half(IF (k - 1) \div 2 \in Slots THEN c.coins[(k - 1) \div 2] % CoinMask ELSE 0, k)
    BY <1>3 DEF CoinBytes
  <2>4. t[2 * j + 1] = Half(IF j \in Slots THEN c.coins[j] % CoinMask ELSE 0, 2 * j + 1)
    BY <2>1, <2>2, <2>3
  <2>5. t[(2 * j + 1) + 1] = Half(IF j \in Slots THEN c.coins[j] % CoinMask ELSE 0, (2 * j + 1) + 1)
    BY <2>1, <2>2, <2>3
  <2> QED
    BY <1>2, <2>4, <2>5
<1>5. (2 * j + 1) % 2 = 1 /\ 2 * j + 1 \in Int
  BY <1>1
<1>6. t[2 * j + 1].num * Byte + t[(2 * j + 1) + 1].num = v
  <2>1. Half(v, 2 * j + 1).num * Byte + Half(v, (2 * j + 1) + 1).num = v
    BY <1>2, <1>5, HalvesAre
  <2> QED
    BY <1>4, <2>1
<1>7. Value(CoinBytes(c, slots), 2 * i - 1) = v
  BY <1>1, <1>3, <1>6 DEF Value
<1>8. c.coins \in [Slots -> Nat] /\ c.coined \in Gifts
  BY DEF Cabs
<1>9. p.inserted \in [Slots -> 0 .. MaxCoins] /\ Paid(c) = p.inserted
  BY DEF Knows
<1>10. CASE j \in Slots
  <2>1. PICK n \in Nat, g \in {0, 1}, m \in 0 .. MaxCoins :
          n = c.coins[j] /\ g = Gift(c, j) /\ m = p.inserted[j] /\ m = n - g
    <3>1. c.coins[j] \in Nat /\ Gift(c, j) \in {0, 1} /\ p.inserted[j] \in 0 .. MaxCoins
      BY <1>8, <1>9, <1>10 DEF Gift
    <3>2. p.inserted[j] = c.coins[j] - Gift(c, j)
      BY <1>9, <1>10 DEF Paid
    <3> QED
      BY <3>1, <3>2
  <2>2. n < CoinMask /\ CoinMask \in Nat
    <3>1. MaxCoins + 1 < CoinMask
      BY DEF ValuesFit
    <3> QED
      BY <2>1, <3>1, CoinMaskIs, CabConstants
  <2>3. v = n
    <3>1. n % CoinMask = n
      BY <2>1, <2>2
    <3> QED
      BY <1>2, <1>10, <2>1, <3>1
  <2>4. i <= 2 /\ i - 1 = j
    BY <1>1, <1>10 DEF Slots
  <2>5. g = 0 \/ (autostart /\ i = 1)
    <3>1. CASE j = 0 /\ c.coined
      <4>1. i = 1
        BY <1>1, <3>1
      <4>2. autostart
        BY <1>8, <3>1 DEF Gifts
      <4> QED
        BY <4>1, <4>2
    <3>2. CASE ~(j = 0 /\ c.coined)
      BY <2>1, <3>2 DEF Gift
    <3> QED
      BY <3>1, <3>2
  <2>6. v - m = g
    BY <2>1, <2>3
  <2>7. v - m \in (IF autostart /\ i = 1 THEN {0, 1} ELSE {0})
    BY <2>1, <2>5, <2>6
  <2> QED
    BY <1>7, <2>1, <2>4, <2>7
<1>11. CASE j \notin Slots
  <2>1. v = 0 /\ ~(i <= 2)
    BY <1>1, <1>2, <1>11 DEF Slots
  <2> QED
    BY <1>7, <2>1
<1> QED
  BY <1>10, <1>11

LEMMA AimTells ==
  ASSUME gun \in Points, NEW p, p.point = gun, ValuesFit, NEW channels \in Nat, channels > 0
  PROVE  /\ p.point <= 0 <=> Value(AnalogBytes(channels), 1) = 0
         /\ p.point >= Width <=> Value(AnalogBytes(channels), 1) = Full
<1>1. PICK x \in Int : x = gun
  BY CabConstants
<1>2. PICK v \in Nat : v = Axis(x) /\ v < Byte * Byte
  BY AxisIs
<1>3. PICK t : t = AnalogBytes(channels)
  OBVIOUS
<1>4. \A k \in 1 .. 2 * channels : t[k] = Half(Channel((k - 1) \div 2), k)
  BY <1>3 DEF AnalogBytes, Channel
<1>5. Channel(0) = v
  BY <1>1, <1>2 DEF Channel
<1>6. t[1] = Half(v, 1) /\ t[1 + 1] = Half(v, 1 + 1)
  <2>1. 1 \in 1 .. 2 * channels /\ 1 + 1 \in 1 .. 2 * channels
    OBVIOUS
  <2>2. (1 - 1) \div 2 = 0 /\ ((1 + 1) - 1) \div 2 = 0
    OBVIOUS
  <2>3. t[1] = Half(Channel((1 - 1) \div 2), 1)
          /\ t[1 + 1] = Half(Channel(((1 + 1) - 1) \div 2), 1 + 1)
    BY <1>4, <2>1
  <2> QED
    BY <1>5, <2>2, <2>3
<1>7. Half(v, 1).num * Byte + Half(v, 1 + 1).num = v
  <2>1. 1 % 2 = 1 /\ 1 \in Int
    OBVIOUS
  <2> QED
    BY <1>2, <2>1, HalvesAre
<1>8. Value(AnalogBytes(channels), 1) = v
  BY <1>3, <1>6, <1>7 DEF Value
<1>9. /\ x <= 0 => v = 0
      /\ x > 0 => v # 0
      /\ x >= Width => v = Full
      /\ x < Width => v < Full
  BY <1>1, <1>2, AxisIs DEF ValuesFit, Full
<1>10. PICK f \in Nat : f = Full
  BY ByteSquare DEF Full
<1>11. Width \in Nat
  BY JvsConstants
<1>12. (x <= 0 <=> v = 0) /\ (x >= Width <=> v = f)
  BY <1>1, <1>2, <1>9, <1>10, <1>11
<1> QED
  BY <1>1, <1>8, <1>10, <1>12

LEMMA ReportTells ==
  ASSUME NEW c \in Cabs, NEW p, Knows(c, p), ValuesFit, autostart \in BOOLEAN, gun \in Points,
         NEW cmd \in Commands
  PROVE  Tells(cmd, ReportBytes(cmd, c), p)
<1> SUFFICES ASSUME p.settled PROVE Tells(cmd, ReportBytes(cmd, c), p)
  BY DEF Tells
<1>1. cmd.code \in Codes /\ cmd.p1 \in Nat /\ cmd.p2 \in Nat
  BY DEF Commands
<1>2. PICK t : t = ReportBytes(cmd, c)
  OBVIOUS
<1>3. CASE cmd.code = "switches"
  <2>1. t = SwitchBytes(c, cmd.p1, cmd.p2)
    BY <1>2, <1>3 DEF ReportBytes
  <2>2. /\ "T" \in p.held <=> t[1].set = {"test"}
        /\ cmd.p1 > 0 =>
              /\ "S" \in p.held <=> "service" \in t[2].set
              /\ "left" \in p.held <=> "trigger" \in t[2].set
              /\ "right" \in p.held <=> "reload" \in t[2].set
              /\ autostart \/ ("1" \in p.held <=> "p1start" \in t[2].set)
        /\ cmd.p1 > 1 => ("2" \in p.held <=> t[2 + PlayerWidth(cmd.p2)].set # {})
    BY <1>1, <2>1, SwitchesTell
  <2>3. cmd.code # "coins" /\ cmd.code # "analog"
    BY <1>3
  <2>4. Tells(cmd, t, p)
    BY <2>2, <2>3, Zenon DEF Tells
  <2> QED
    BY <1>2, <2>4
<1>4. CASE cmd.code = "coins"
  <2>1. ReportBytes(cmd, c) = CoinBytes(c, cmd.p1)
    BY <1>4 DEF ReportBytes
  <2>2. \A i \in 1 .. cmd.p1 :
          Value(CoinBytes(c, cmd.p1), 2 * i - 1) - (IF i <= 2 THEN p.inserted[i - 1] ELSE 0)
           \in (IF autostart /\ i = 1 THEN {0, 1} ELSE {0})
    BY <1>1, CoinsTell
  <2>3. cmd.code # "switches" /\ cmd.code # "analog"
    BY <1>4
  <2> QED
    BY <2>1, <2>2, <2>3, Zenon DEF Tells
<1>5. CASE cmd.code = "analog"
  <2>1. ReportBytes(cmd, c) = AnalogBytes(cmd.p1)
    BY <1>5 DEF ReportBytes
  <2>2. p.point = gun
    BY DEF Knows
  <2>3. cmd.p1 > 0 => /\ p.point <= 0 <=> Value(AnalogBytes(cmd.p1), 1) = 0
                      /\ p.point >= Width <=> Value(AnalogBytes(cmd.p1), 1) = Full
    BY <1>1, <2>2, AimTells
  <2>4. cmd.code # "switches" /\ cmd.code # "coins"
    BY <1>5
  <2> QED
    BY <2>1, <2>3, <2>4, Zenon DEF Tells
<1>6. CASE cmd.code \notin {"switches", "coins", "analog"}
  <2>1. cmd.code # "switches" /\ cmd.code # "coins" /\ cmd.code # "analog"
    BY <1>6
  <2> QED
    BY <2>1, Zenon DEF Tells
<1> QED
  BY <1>3, <1>4, <1>5, <1>6

LEMMA AnswerLenTyped == ASSUME NEW cmd \in Commands PROVE AnswerLen(cmd) \in Nat \ {0}
<1>1. cmd.code \in Codes /\ cmd.p1 \in Nat /\ cmd.p2 \in Nat
  BY DEF Commands
<1>2. IdentLen \in Nat /\ FeatureLen \in Nat
  BY JvsConstants
<1>3. PICK n \in Nat : n = cmd.p1 * PlayerWidth(cmd.p2)
  BY <1>1, WidthTyped
<1> QED
  BY <1>1, <1>2, <1>3 DEF AnswerLen

\* Where the answers end, one by one.
Ends(e, cmds) == /\ e \in [0 .. Len(cmds) -> Nat] /\ e[0] = 4
                 /\ \A i \in 1 .. Len(cmds) : e[i] = e[i - 1] + AnswerLen(cmds[i])

LEMMA EndsAre ==
  ASSUME NEW cmds \in Seq(Commands)
  PROVE  \E e : Ends(e, cmds) /\ AnswersEnd(cmds) = e[Len(cmds)]
<1>0. PICK n \in Nat : n = Len(cmds)
  BY LenProperties
<1>1. \A i \in 1 .. n : AnswerLen(cmds[i]) \in Nat
  <2> SUFFICES ASSUME NEW i \in 1 .. n PROVE AnswerLen(cmds[i]) \in Nat
    OBVIOUS
  <2>1. cmds[i] \in Commands
    BY <1>0, ElementOfSeq
  <2> QED
    BY <2>1, AnswerLenTyped
<1>2. PICK F \in [(1 .. n) \X Nat -> Nat] :
        \A i \in 1 .. n : \A v \in Nat : F[<<i, v>>] = v + AnswerLen(cmds[i])
  <2> DEFINE G == [q \in (1 .. n) \X Nat |-> q[2] + AnswerLen(cmds[q[1]])]
  <2>1. G \in [(1 .. n) \X Nat -> Nat]
    BY <1>1
  <2>2. \A i \in 1 .. n : \A v \in Nat : G[<<i, v>>] = v + AnswerLen(cmds[i])
    OBVIOUS
  <2> QED
    BY <2>1, <2>2
<1>3. PICK f : Unfolds(f, n, Nat, 4, F)
  <2>1. n \in Nat /\ F \in [(1 .. n) \X Nat -> Nat] /\ 4 \in Nat
    BY <1>0, <1>2
  <2> QED
    BY <2>1, Recursion, Zenon
<1>4. f \in [0 .. n -> Nat] /\ f[0] = 4
  BY <1>3 DEF Unfolds
<1>5. ASSUME NEW i \in 1 .. n PROVE i - 1 \in 0 .. n /\ f[i] = f[i - 1] + AnswerLen(cmds[i])
  <2>1. i - 1 \in 0 .. n
    BY <1>0
  <2>2. f[i - 1] \in Nat
    BY <1>4, <2>1
  <2>3. f[i] = F[<<i, f[i - 1]>>]
    BY <1>3 DEF Unfolds
  <2> QED
    BY <1>2, <2>1, <2>2, <2>3
<1> DEFINE Body(h) == [i \in 0 .. n |-> IF i = 0 THEN 4 ELSE h[i - 1] + AnswerLen(cmds[i])]
           C == CHOOSE h : h = Body(h)
<1>6. f = Body(f)
  <2>1. \A i \in 0 .. n : f[i] = IF i = 0 THEN 4 ELSE f[i - 1] + AnswerLen(cmds[i])
    <3> SUFFICES ASSUME NEW i \in 0 .. n
                 PROVE  f[i] = IF i = 0 THEN 4 ELSE f[i - 1] + AnswerLen(cmds[i])
      OBVIOUS
    <3>1. i # 0 => i \in 1 .. n
      BY <1>0
    <3> QED
      BY <1>4, <1>5, <3>1, Zenon
  <2> QED
    BY <1>4, <2>1
<1>7. C = Body(C)
  BY <1>6
<1>8. AnswersEnd(cmds) = C[n]
  BY <1>0 DEF AnswersEnd
<1> HIDE DEF C
<1>9. \A i \in 0 .. n : C[i] = IF i = 0 THEN 4 ELSE C[i - 1] + AnswerLen(cmds[i])
  BY <1>7
<1>10. C[0] = f[0] /\ \A i \in 1 .. n : C[i - 1] = f[i - 1] => C[i] = f[i]
  <2>1. 0 \in 0 .. n /\ \A i \in 1 .. n : i \in 0 .. n /\ i # 0
    BY <1>0
  <2> QED
    BY <1>4, <1>5, <1>9, <2>1, Zenon
<1>11. C[n] = f[n]
  BY <1>0, <1>10, SameWalk
<1>12. Ends(f, cmds)
  BY <1>0, <1>4, <1>5 DEF Ends
<1> QED
  BY <1>0, <1>8, <1>11, <1>12

\* They come in order.
LEMMA EndsOrdered ==
  ASSUME NEW cmds \in Seq(Commands), NEW e, Ends(e, cmds),
         NEW j \in 0 .. Len(cmds), NEW i \in 0 .. Len(cmds), j <= i
  PROVE  e[j] <= e[i]
<1>0. PICK n \in Nat, b \in Nat : n = Len(cmds) /\ b = j
  BY LenProperties
<1>1. e \in [0 .. n -> Nat]
  BY <1>0 DEF Ends
<1> DEFINE P == {d \in Nat : b + d <= n => e[b] <= e[b + d]}
<1>2. 0 \in P
  <2>1. b + 0 = b /\ b \in 0 .. n
    BY <1>0
  <2>2. e[b] \in Nat
    BY <1>1, <2>1
  <2> QED
    BY <2>1, <2>2
<1>3. ASSUME NEW d \in Nat, d \in P PROVE d + 1 \in P
  <2> SUFFICES ASSUME b + (d + 1) <= n PROVE e[b] <= e[b + (d + 1)]
    OBVIOUS
  <2>1. PICK k \in 1 .. n : k = b + (d + 1) /\ k - 1 = b + d
    BY <1>0
  <2>2. k \in 1 .. Len(cmds) /\ k \in 0 .. n /\ k - 1 \in 0 .. n /\ b \in 0 .. n
    BY <1>0, <2>1
  <2>3. PICK c \in Commands : c = cmds[k]
    BY <2>2, ElementOfSeq
  <2>4. PICK l \in Nat : l = AnswerLen(c)
    BY AnswerLenTyped
  <2>5. e[k] = e[k - 1] + l
    BY <2>2, <2>3, <2>4 DEF Ends
  <2>6. e[k] \in Nat /\ e[k - 1] \in Nat /\ e[b] \in Nat
    BY <1>1, <2>2
  <2>7. e[b] <= e[k - 1]
    <3>1. b + d <= n
      BY <1>0, <2>1
    <3> QED
      BY <1>3, <2>1, <3>1
  <2>8. e[b] <= e[k]
    BY <2>4, <2>5, <2>6, <2>7
  <2> QED
    BY <2>1, <2>8
<1> HIDE DEF P
<1>4. Nat \subseteq P
  BY <1>2, <1>3, SetInduction
<1>5. PICK d \in Nat : i = b + d /\ b + d <= n
  <2>1. i - b \in Nat /\ i = b + (i - b) /\ b + (i - b) <= n
    BY <1>0
  <2> QED
    BY <2>1, Zenon
<1>6. d \in P
  BY <1>4, <1>5
<1> QED
  BY <1>0, <1>5, <1>6 DEF P

LEMMA EndsGrow ==
  ASSUME NEW cmds \in Seq(Commands), NEW e, Ends(e, cmds), NEW i \in 0 .. Len(cmds)
  PROVE  4 <= e[i] /\ e[i] <= e[Len(cmds)]
<1>1. PICK n \in Nat : n = Len(cmds)
  BY LenProperties
<1>2. 0 \in 0 .. Len(cmds) /\ Len(cmds) \in 0 .. Len(cmds) /\ 0 <= i /\ i <= Len(cmds)
  BY <1>1
<1>3. e[0] <= e[i] /\ e[i] <= e[Len(cmds)]
  BY <1>2, EndsOrdered
<1> QED
  BY <1>3 DEF Ends

\* Only so many commands are followed.
LEMMA FollowedIs ==
  ASSUME NEW cmds \in Seq(Commands)
  PROVE  Followed(cmds) \in Seq(Commands) /\ Len(Followed(cmds)) <= Reports
<1>0. PICK n \in Nat, r \in Nat : n = Len(cmds) /\ r = Reports
  BY LenProperties, JvsConstants
<1> DEFINE Bad == {i \in 1 .. Len(cmds) : cmds[i].code = "astray" \/ i > Reports}
           m == IF Bad = {} THEN Len(cmds) ELSE (CHOOSE i \in Bad : \A j \in Bad : i <= j) - 1
<1>1. m \in 0 .. n /\ m <= r
  <2>1. CASE Bad = {}
    <3>1. ASSUME n > r PROVE FALSE
      <4>1. n \in Bad
        BY <1>0, <3>1
      <4> QED
        BY <2>1, <4>1
    <3> QED
      BY <1>0, <2>1, <3>1
  <2>2. CASE Bad # {}
    <3>1. Bad \in SUBSET Nat /\ Bad \subseteq 1 .. n
      BY <1>0
    <3>2. \E i \in Bad : \A j \in Bad : i <= j
      BY <2>2, <3>1, LeastNat
    <3>3. PICK k : k = (CHOOSE i \in Bad : \A j \in Bad : i <= j)
      OBVIOUS
    <3>4. k \in Bad /\ \A j \in Bad : k <= j
      BY <3>2, <3>3, Zenon
    <3>5. k \in 1 .. n /\ m = k - 1
      BY <2>2, <3>1, <3>3, <3>4
    <3>6. ASSUME k - 1 > r PROVE FALSE
      <4>1. r + 1 \in Bad
        BY <1>0, <3>5, <3>6
      <4>2. k <= r + 1
        BY <3>4, <4>1
      <4> QED
        BY <1>0, <3>5, <3>6, <4>2
    <3> QED
      BY <1>0, <3>5, <3>6
  <2> QED
    BY <2>1, <2>2
<1>2. Followed(cmds) = SubSeq(cmds, 1, m)
  BY DEF Followed
<1> HIDE DEF m
<1>3. PICK l \in 0 .. n : l = m /\ l <= r
  BY <1>1
<1>4. SubSeq(cmds, 1, l) \in Seq(Commands) /\ Len(SubSeq(cmds, 1, l)) = l
  <2>1. \A i \in 1 .. l : i \in 1 .. Len(cmds)
    BY <1>0, <1>3
  <2>2. \A i \in 1 .. l : cmds[i] \in Commands
    BY <2>1, ElementOfSeq
  <2> QED
    BY <1>0, <1>3, <2>1, <2>2, SubSeqProperties
<1> QED
  BY <1>0, <1>2, <1>3, <1>4

\* A reply being built.
Replies == [cells : Seq(Cells), at : Seq(0 .. Byte - 1), cab : Cabs]

\* A command's answer at an offset: after its first byte it tells what the
\* player did.
Located(cmd, s, o, p) ==
  /\ s[o + 1] = OkCell
  /\ \E t \in Seq(Cells) :
       /\ ValuesFit => Tells(cmd, t, p)
       /\ \A i \in 1 .. AnswerLen(cmd) - 1 : s[o + 1 + i] = t[i]

LEMMA LocatedMoves ==
  ASSUME NEW cmd \in Commands, NEW s, NEW r, NEW o \in Nat, NEW p, Located(cmd, s, o, p),
         \A j \in o + 1 .. o + AnswerLen(cmd) : r[j] = s[j]
  PROVE  Located(cmd, r, o, p)
<1>1. PICK n \in Nat \ {0} : n = AnswerLen(cmd)
  BY AnswerLenTyped
<1>2. PICK t \in Seq(Cells) : /\ ValuesFit => Tells(cmd, t, p)
                              /\ \A i \in 1 .. n - 1 : s[o + 1 + i] = t[i]
  BY <1>1 DEF Located
<1>3. \A j \in o + 1 .. o + n : r[j] = s[j]
  BY <1>1
<1>4. r[o + 1] = OkCell
  <2>1. o + 1 \in o + 1 .. o + n
    BY <1>1
  <2>2. s[o + 1] = OkCell
    BY DEF Located
  <2> QED
    BY <1>3, <2>1, <2>2
<1>5. \A i \in 1 .. n - 1 : r[o + 1 + i] = t[i]
  <2> SUFFICES ASSUME NEW i \in 1 .. n - 1 PROVE r[o + 1 + i] = t[i]
    OBVIOUS
  <2>1. o + 1 + i \in o + 1 .. o + n
    BY <1>1
  <2> QED
    BY <1>2, <1>3, <2>1
<1> QED
  BY <1>1, <1>2, <1>4, <1>5 DEF Located

\* A command appends its report.
LEMMA CommandIs ==
  ASSUME gun \in Points, autostart \in BOOLEAN, NEW a \in Replies, NEW cmd \in Commands
  PROVE  /\ JvsCommand(a, cmd) \in Replies
         /\ \E c \in Cabs :
              /\ cmd.code \in {"switches", "coins", "analog"} => c = HostCabinetInput(a.cab)
              /\ cmd.code \notin {"switches", "coins", "analog"} => c = a.cab
              /\ JvsCommand(a, cmd).cab = c
              /\ JvsCommand(a, cmd).at =
                   IF Len(a.at) < Reports THEN Append(a.at, Len(a.cells) % Byte) ELSE a.at
              /\ Len(a.cells) + AnswerLen(cmd) < AckSize =>
                   JvsCommand(a, cmd).cells = Append(a.cells, OkCell) \o ReportBytes(cmd, c)
<1>1. a.cells \in Seq(Cells) /\ a.at \in Seq(0 .. Byte - 1) /\ a.cab \in Cabs
  BY DEF Replies
<1>2. PICK c : c = IF cmd.code \in {"switches", "coins", "analog"}
                   THEN HostCabinetInput(a.cab) ELSE a.cab
  OBVIOUS
<1>3. c \in Cabs
  <2>1. HostCabinetInput(a.cab) \in Cabs
    BY <1>1, InputKept DEF Alike
  <2> QED
    BY <1>1, <1>2, <2>1
<1>4. PICK s \in Seq(Cells) : s = ReportBytes(cmd, c) /\ Len(s) = AnswerLen(cmd) - 1
  BY <1>3, ReportTyped
<1>5. PICK n \in Nat, l \in Nat : n = Len(a.cells) /\ l = Len(s)
  BY <1>1, LenProperties
<1>6. PICK ok \in Cells : ok = OkCell
  BY NumTyped DEF OkCell
<1>7. PICK cells \in Seq(Cells) : cells = Append(a.cells, OkCell) /\ Len(cells) = n + 1
  BY <1>1, <1>5, <1>6, AppendProperties, ZenonT(30)
<1>8. PICK byte \in 0 .. Byte - 1 : byte = Len(a.cells) % Byte
  <2>1. PICK b \in Nat \ {0} : b = Byte
    BY JvsConstants
  <2>2. n \in Nat /\ b \in Nat \ {0}
    BY <1>5, <2>1
  <2>3. n % b \in 0 .. b - 1
    BY <2>2
  <2> QED
    BY <1>5, <2>1, <2>3
<1>9. PICK at1 \in Seq(0 .. Byte - 1) :
        at1 = IF Len(a.at) < Reports THEN Append(a.at, Len(a.cells) % Byte) ELSE a.at
  <2>1. Append(a.at, byte) \in Seq(0 .. Byte - 1)
    BY <1>1, AppendProperties
  <2> QED
    BY <1>1, <1>8, <2>1
<1>10. PICK b : b = [a EXCEPT !.cab = c]
  OBVIOUS
<1>11. b \in Replies /\ b.cells = a.cells /\ b.at = a.at /\ b.cab = c
  BY <1>3, <1>10 DEF Replies
<1>12. PICK d : d = AckReport(b)
  OBVIOUS
<1>13. d = [b EXCEPT !.at = at1, !.cells = cells]
  BY <1>7, <1>9, <1>11, <1>12 DEF AckReport
<1>14. d \in Replies /\ d.cells = cells /\ d.at = at1 /\ d.cab = c
  BY <1>7, <1>9, <1>11, <1>13 DEF Replies
<1>15. PICK size \in Nat : size = AckSize
  BY JvsConstants
<1>23. PICK room \in Int : room = size - 1 - Len(d.cells) /\ room = size - (n + 2)
  <2>1. Len(d.cells) = n + 1
    BY <1>7, <1>14
  <2>2. size - 1 - (n + 1) = size - (n + 2) /\ size - (n + 2) \in Int
    BY <1>5, <1>15
  <2> QED
    BY <2>1, <2>2
<1>24. PICK k \in Int : k = (IF l < room THEN l ELSE room) /\ k <= l
  <2>0. l \in Nat /\ room \in Int
    BY <1>5, <1>23
  <2>1. (IF l < room THEN l ELSE room) \in Int /\ (IF l < room THEN l ELSE room) <= l
    BY <2>0
  <2> QED
    BY <2>1, Zenon
<1>16. k = IF Len(s) < size - 1 - Len(d.cells) THEN Len(s) ELSE size - 1 - Len(d.cells)
  BY <1>5, <1>23, <1>24
<1>17. PICK part \in Seq(Cells) : part = SubSeq(s, 1, k)
  <2>1. \A i \in 1 .. k : i \in 1 .. Len(s)
    BY <1>5, <1>24
  <2>2. \A i \in 1 .. k : s[i] \in Cells
    BY <2>1, ElementOfSeq
  <2>3. k \in Int /\ 1 \in Int
    BY <1>24
  <2> QED
    BY <2>2, <2>3, SubSeqProperties
<1>18. PICK full \in Seq(Cells) : full = cells \o part
  BY ConcatProperties
<1>19. JvsCommand(a, cmd) = [d EXCEPT !.cells = full]
  <2>1. JvsCommand(a, cmd) = AckBytes(d, s)
    BY <1>2, <1>4, <1>10, <1>12 DEF JvsCommand
  <2>2. AckBytes(d, s) = [d EXCEPT !.cells = d.cells \o SubSeq(s, 1, k)]
    BY <1>15, <1>16 DEF AckBytes
  <2> QED
    BY <1>14, <1>17, <1>18, <2>1, <2>2
<1>20. PICK e : e = JvsCommand(a, cmd)
  OBVIOUS
<1>21. e \in Replies /\ e.cells = full /\ e.at = at1 /\ e.cab = c
  BY <1>14, <1>19, <1>20 DEF Replies
<1>22. ASSUME Len(a.cells) + AnswerLen(cmd) < AckSize PROVE full = cells \o s
  <2>1. n + (l + 1) < size
    <3>1. AnswerLen(cmd) \in Nat /\ l = AnswerLen(cmd) - 1
      BY <1>4, <1>5, AnswerLenTyped
    <3>2. AnswerLen(cmd) = l + 1
      BY <1>5, <3>1
    <3> QED
      BY <1>5, <1>15, <1>22, <3>2
  <2>2. k = l
    <3>1. n \in Nat /\ l \in Nat /\ size \in Nat /\ room \in Int /\ room = size - (n + 2)
      BY <1>5, <1>15, <1>23
    <3>2. ~(l < room) => l = room
      BY <2>1, <3>1
    <3> QED
      BY <1>24, <3>2, Zenon
  <2>3. SubSeq(s, 1, l) = s
    <3>1. \A i \in 1 .. l : s[i] \in Cells
      BY <1>5, ElementOfSeq
    <3>2. /\ SubSeq(s, 1, l) \in Seq(Cells)
          /\ Len(SubSeq(s, 1, l)) = IF 1 <= l THEN l - 1 + 1 ELSE 0
          /\ \A i \in 1 .. l - 1 + 1 : SubSeq(s, 1, l)[i] = s[1 + i - 1]
      BY <1>5, <3>1, SubSeqProperties
    <3>3. Len(SubSeq(s, 1, l)) = Len(s)
      BY <1>5, <3>2
    <3>4. \A i \in 1 .. Len(s) : SubSeq(s, 1, l)[i] = s[i]
      BY <1>5, <3>2
    <3> QED
      BY <3>2, <3>3, <3>4, SeqEqual
  <2> QED
    BY <1>17, <1>18, <2>2, <2>3
<1>25. Len(a.cells) + AnswerLen(cmd) < AckSize => e.cells = Append(a.cells, OkCell) \o ReportBytes(cmd, c)
  BY <1>4, <1>7, <1>21, <1>22
<1> QED
  BY <1>2, <1>3, <1>9, <1>20, <1>21, <1>25

LEMMA BeginTyped ==
  ASSUME NEW c \in Cabs
  PROVE  AckBegin(c) \in Replies /\ Len(AckBegin(c).cells) = 4 /\ Len(AckBegin(c).at) = 0
<1>1. PICK sync \in Cells : sync = SyncCell
  <2>1. 0 \in 0 .. Byte - 1
    BY JvsConstants
  <2> QED
    BY <2>1 DEF SyncCell, Bits, Cells
<1>2. PICK zero \in Cells, ok \in Cells : zero = Num(0) /\ ok = OkCell
  BY NumTyped DEF OkCell
<1>3. <<sync, zero, zero, ok>> \in Seq(Cells) /\ Len(<<sync, zero, zero, ok>>) = 4
  OBVIOUS
<1>4. <<>> \in Seq(0 .. Byte - 1) /\ Len(<<>>) = 0
  BY EmptySeq
<1> QED
  BY <1>1, <1>2, <1>3, <1>4 DEF AckBegin, Replies

\* The reply, command by command.
LEMMA BuiltIs ==
  ASSUME gun \in Points, autostart \in BOOLEAN, NEW c \in Cabs, NEW cmds \in Seq(Commands)
  PROVE  \E f \in [0 .. Len(cmds) -> Replies] :
           /\ f[0] = AckBegin(c) /\ Built(c, cmds) = f[Len(cmds)]
           /\ \A i \in 1 .. Len(cmds) : f[i] = JvsCommand(f[i - 1], cmds[i])
<1>0. PICK n \in Nat : n = Len(cmds)
  BY LenProperties
<1> DEFINE Fn == [q \in (1 .. n) \X Replies |-> JvsCommand(q[2], cmds[q[1]])]
<1>1. Fn \in [(1 .. n) \X Replies -> Replies]
  <2> SUFFICES ASSUME NEW q \in (1 .. n) \X Replies PROVE JvsCommand(q[2], cmds[q[1]]) \in Replies
    OBVIOUS
  <2>1. cmds[q[1]] \in Commands /\ q[2] \in Replies
    BY <1>0, ElementOfSeq
  <2> QED
    BY <2>1, CommandIs
<1>2. \A i \in 1 .. n : \A v \in Replies : Fn[<<i, v>>] = JvsCommand(v, cmds[i])
  OBVIOUS
<1>3. PICK F \in [(1 .. n) \X Replies -> Replies] :
        \A i \in 1 .. n : \A v \in Replies : F[<<i, v>>] = JvsCommand(v, cmds[i])
  BY <1>1, <1>2
<1> HIDE DEF Fn
<1>4. PICK base \in Replies : base = AckBegin(c)
  BY BeginTyped
<1>5. PICK f : Unfolds(f, n, Replies, base, F)
  <2>1. n \in Nat /\ F \in [(1 .. n) \X Replies -> Replies] /\ base \in Replies
    BY <1>0, <1>3, <1>4
  <2> QED
    BY <2>1, Recursion, Zenon
<1>6. f \in [0 .. n -> Replies] /\ f[0] = base
  BY <1>5 DEF Unfolds
<1>7. ASSUME NEW i \in 1 .. n PROVE i - 1 \in 0 .. n /\ f[i] = JvsCommand(f[i - 1], cmds[i])
  <2>1. i - 1 \in 0 .. n
    BY <1>0
  <2>2. f[i - 1] \in Replies
    BY <1>6, <2>1
  <2>3. f[i] = F[<<i, f[i - 1]>>]
    BY <1>5 DEF Unfolds
  <2> QED
    BY <1>3, <2>1, <2>2, <2>3
<1> DEFINE Body(h) == [i \in 0 .. n |-> IF i = 0 THEN AckBegin(c)
      ELSE JvsCommand(h[i - 1], cmds[i])]
           C == CHOOSE h : h = Body(h)
<1>8. f = Body(f)
  <2>1. \A i \in 0 .. n : f[i] = IF i = 0 THEN AckBegin(c) ELSE JvsCommand(f[i - 1], cmds[i])
    <3> SUFFICES ASSUME NEW i \in 0 .. n
                 PROVE  f[i] = IF i = 0 THEN AckBegin(c) ELSE JvsCommand(f[i - 1], cmds[i])
      OBVIOUS
    <3>1. i # 0 => i \in 1 .. n
      BY <1>0
    <3> QED
      BY <1>4, <1>6, <1>7, <3>1, Zenon
  <2> QED
    BY <1>6, <2>1
<1>9. C = Body(C)
  BY <1>8
<1>10. Built(c, cmds) = C[n]
  BY <1>0 DEF Built
<1> HIDE DEF C
<1>11. \A i \in 0 .. n : C[i] = IF i = 0 THEN AckBegin(c) ELSE JvsCommand(C[i - 1], cmds[i])
  BY <1>9
<1>12. C[0] = f[0] /\ \A i \in 1 .. n : C[i - 1] = f[i - 1] => C[i] = f[i]
  <2>1. 0 \in 0 .. n /\ \A i \in 1 .. n : i \in 0 .. n /\ i # 0
    BY <1>0
  <2> QED
    BY <1>4, <1>6, <1>7, <1>11, <2>1, Zenon
<1>13. C[n] = f[n]
  BY <1>0, <1>12, SameWalk
<1> QED
  BY <1>0, <1>4, <1>6, <1>7, <1>10, <1>13

\* The first i answers stand where the offsets say.
Standing(a, cmds, e, i, p) ==
  /\ Len(a.cells) = e[i] /\ Len(a.at) = i
  /\ Alike(a.cab, cab)
  /\ \A k \in 1 .. i : a.at[k] = e[k - 1] /\ Located(cmds[k], a.cells, e[k - 1], p)

\* One more.
LEMMA StandsOn ==
  ASSUME CabInv, NEW a \in Replies, NEW cmds \in Seq(Commands), NEW e, Ends(e, cmds),
         Len(cmds) <= Reports, AnswersEnd(cmds) = e[Len(cmds)], AnswersEnd(cmds) + 1 < Byte,
         NEW p, p.settled => msgs = <<>> /\ p.held = held /\ p.inserted = inserted
             /\ p.point = point,
         NEW i \in 1 .. Len(cmds), Standing(a, cmds, e, i - 1, p)
  PROVE  Standing(JvsCommand(a, cmds[i]), cmds, e, i, p)
<1>0. PICK n \in Nat : n = Len(cmds)
  BY LenProperties
<1>1. gun \in Points /\ autostart \in BOOLEAN
  BY CabConstants DEF CabInv, Windows, Window
<1>2. PICK cmd \in Commands : cmd = cmds[i]
  BY ElementOfSeq
<1>3. PICK b \in Replies, c \in Cabs :
        /\ b = JvsCommand(a, cmd)
        /\ cmd.code \in {"switches", "coins", "analog"} => c = HostCabinetInput(a.cab)
        /\ cmd.code \notin {"switches", "coins", "analog"} => c = a.cab
        /\ b.cab = c
        /\ b.at = IF Len(a.at) < Reports THEN Append(a.at, Len(a.cells) % Byte) ELSE a.at
        /\ Len(a.cells) + AnswerLen(cmd) < AckSize =>
             b.cells = Append(a.cells, OkCell) \o ReportBytes(cmd, c)
  BY <1>1, CommandIs
<1>4. Alike(a.cab, cab)
  BY DEF Standing
<1>5. Alike(c, cab) /\ (cmd.code \in {"switches", "coins", "analog"} => Knows(c, p))
  <2>1. Knows(HostCabinetInput(a.cab), p) /\ Alike(HostCabinetInput(a.cab), cab)
    BY <1>4, ReadKnows
  <2> QED
    BY <1>3, <1>4, <2>1
<1>6. PICK m \in Nat, k \in 1 .. n : k = i /\ m = i - 1
  BY <1>0
<1>7. PICK x \in Nat, y \in Nat, z \in Nat, l \in Nat \ {0} :
        x = e[i - 1] /\ y = e[i] /\ z = e[n] /\ l = AnswerLen(cmd) /\ y = x + l /\ 4 <= x /\ y <= z
  <2>1. i - 1 \in 0 .. Len(cmds) /\ i \in 0 .. Len(cmds) /\ Len(cmds) \in 0 .. Len(cmds)
    BY <1>0
  <2>2. e \in [0 .. Len(cmds) -> Nat] /\ e[i] = e[i - 1] + AnswerLen(cmd)
    BY <1>2 DEF Ends
  <2>3. 4 <= e[i - 1] /\ e[i] <= e[Len(cmds)]
    BY <2>1, EndsGrow
  <2>4. e[i - 1] \in Nat /\ e[i] \in Nat /\ e[Len(cmds)] \in Nat
    BY <2>1, <2>2
  <2>5. AnswerLen(cmd) \in Nat \ {0}
    BY AnswerLenTyped
  <2> QED
    BY <1>0, <2>2, <2>3, <2>4, <2>5
<1>8. PICK byte \in Nat, size \in Nat, reports \in Nat :
        byte = Byte /\ size = AckSize /\ reports = Reports /\ byte <= size
  BY JvsConstants
<1>9. z + 1 < byte /\ n <= reports
  BY <1>0, <1>7, <1>8
<1>10. x < byte /\ y < size /\ x + l < size /\ m < reports
  <2>1. /\ x \in Nat /\ y \in Nat /\ z \in Nat /\ l \in Nat /\ l # 0 /\ y = x + l /\ y <= z
        /\ byte \in Nat /\ size \in Nat /\ byte <= size /\ z + 1 < byte
    BY <1>7, <1>8, <1>9
  <2>2. m \in Nat /\ n \in Nat /\ reports \in Nat /\ m < n /\ n <= reports
    BY <1>0, <1>6, <1>8, <1>9
  <2>3. x < byte /\ y < size /\ x + l < size
    BY <2>1
  <2>4. m < reports
    BY <2>2
  <2> QED
    BY <2>3, <2>4
<1>11. Len(a.cells) = x /\ Len(a.at) = m
  BY <1>6, <1>7 DEF Standing
<1>12. PICK cells \in Seq(Cells), at0 \in Seq(0 .. Byte - 1) : cells = a.cells /\ at0 = a.at
  BY DEF Replies
<1>13. PICK s \in Seq(Cells) : s = ReportBytes(cmd, c) /\ Len(s) = l - 1
  BY <1>1, <1>3, <1>7, ReportTyped
<1>14. PICK ok \in Cells : ok = OkCell
  BY NumTyped DEF OkCell
<1>15. b.at = Append(at0, x)
  <2>1. Len(a.at) < Reports
    BY <1>8, <1>10, <1>11
  <2>2. x % Byte = x
    <3>1. x \in Nat /\ byte \in Nat /\ byte # 0 /\ x < byte
      BY <1>7, <1>8, <1>10, SMTT(30)
    <3>2. x % byte = x
      BY <3>1, Remainder
    <3> QED
      BY <1>8, <3>2
  <2> QED
    BY <1>3, <1>11, <1>12, <2>1, <2>2
<1>16. PICK front \in Seq(Cells) : /\ front = Append(cells, ok) /\ Len(front) = x + 1
                                   /\ \A j \in 1 .. x : front[j] = cells[j]
                                   /\ front[x + 1] = ok
  <2>1. Len(cells) = x
    BY <1>11, <1>12
  <2>2. cells \in Seq(Cells) /\ ok \in Cells
    BY <1>12, <1>14
  <2>3. /\ Append(cells, ok) \in Seq(Cells) /\ Len(Append(cells, ok)) = Len(cells) + 1
        /\ \A j \in 1 .. Len(cells) : Append(cells, ok)[j] = cells[j]
        /\ Append(cells, ok)[Len(cells) + 1] = ok
    BY <2>2, AppendProperties
  <2> QED
    BY <2>1, <2>3, Zenon
<1>17. b.cells = front \o s
  <2>1. Len(a.cells) + AnswerLen(cmd) < AckSize
    BY <1>7, <1>8, <1>10, <1>11
  <2> QED
    BY <1>3, <1>12, <1>13, <1>14, <1>16, <2>1
<1>18. PICK all \in Seq(Cells) : /\ all = b.cells /\ Len(all) = y
                                 /\ \A j \in 1 .. x : all[j] = cells[j]
                                 /\ all[x + 1] = ok
                                 /\ \A j \in 1 .. l - 1 : all[x + 1 + j] = s[j]
  <2>1. PICK all \in Seq(Cells) :
          /\ all = front \o s /\ Len(all) = (x + 1) + (l - 1)
          /\ \A j \in 1 .. (x + 1) + (l - 1) :
               all[j] = IF j <= x + 1 THEN front[j] ELSE s[j - (x + 1)]
    <3>1. front \in Seq(Cells) /\ s \in Seq(Cells) /\ Len(front) = x + 1 /\ Len(s) = l - 1
      BY <1>13, <1>16
    <3>2. /\ front \o s \in Seq(Cells) /\ Len(front \o s) = Len(front) + Len(s)
          /\ \A j \in 1 .. Len(front) + Len(s) :
               (front \o s)[j] = IF j <= Len(front) THEN front[j] ELSE s[j - Len(front)]
      BY <3>1, ConcatProperties, Zenon
    <3> QED
      BY <3>1, <3>2, Zenon
  <2>2. x \in Nat /\ l \in Nat /\ l # 0 /\ y = x + l
    BY <1>7
  <2>3. (x + 1) + (l - 1) = y
    BY <2>2
  <2>4. ASSUME NEW j \in 1 .. x PROVE all[j] = cells[j]
    <3>1. j \in 1 .. (x + 1) + (l - 1) /\ j <= x + 1
      BY <2>2
    <3> QED
      BY <1>16, <2>1, <3>1
  <2>5. all[x + 1] = ok
    <3>1. x + 1 \in 1 .. (x + 1) + (l - 1) /\ x + 1 <= x + 1
      BY <2>2
    <3> QED
      BY <1>16, <2>1, <3>1
  <2>6. ASSUME NEW j \in 1 .. l - 1 PROVE all[x + 1 + j] = s[j]
    <3>1. x + 1 + j \in 1 .. (x + 1) + (l - 1) /\ ~(x + 1 + j <= x + 1) /\ x + 1 + j - (x + 1) = j
      BY <2>2
    <3> QED
      BY <2>1, <3>1
  <2> QED
    BY <1>17, <2>1, <2>3, <2>4, <2>5, <2>6
<1>19. ValuesFit => Tells(cmd, s, p)
  <2>1. CASE cmd.code \in {"switches", "coins", "analog"}
    BY <1>1, <1>3, <1>5, <1>13, <2>1, ReportTells
  <2>2. CASE cmd.code \notin {"switches", "coins", "analog"}
    <3>1. cmd.code # "switches" /\ cmd.code # "coins" /\ cmd.code # "analog"
      BY <2>2
    <3> QED
      BY <3>1, Zenon DEF Tells
  <2> QED
    BY <2>1, <2>2
<1>20. Located(cmd, all, x, p)
  BY <1>7, <1>14, <1>18, <1>19 DEF Located
<1>21. PICK at1 \in Seq(0 .. Byte - 1) : /\ at1 = b.at /\ Len(at1) = i /\ at1[i] = x
                                        /\ \A j \in 1 .. m : at1[j] = at0[j]
  <2>1. PICK v \in 0 .. Byte - 1 : v = x
    <3>1. x \in Nat /\ byte \in Nat /\ x < byte
      BY <1>7, <1>8, <1>10
    <3>2. x \in 0 .. byte - 1
      BY <3>1
    <3> QED
      BY <1>8, <3>2
  <2>2. Len(at0) = m
    BY <1>11, <1>12
  <2>3. /\ Append(at0, v) \in Seq(0 .. Byte - 1) /\ Len(Append(at0, v)) = m + 1
        /\ \A j \in 1 .. m : Append(at0, v)[j] = at0[j]
        /\ Append(at0, v)[m + 1] = v
    BY <1>12, <2>1, <2>2, AppendProperties
  <2>4. m + 1 = i
    BY <1>0, <1>6
  <2> QED
    BY <1>15, <2>1, <2>3, <2>4
<1>22. ASSUME NEW j \in 1 .. i PROVE at1[j] = e[j - 1] /\ Located(cmds[j], all, e[j - 1], p)
  <2>1. CASE j = i
    BY <1>2, <1>7, <1>20, <1>21, <2>1
  <2>2. CASE j # i
    <3>1. j \in 1 .. i - 1 /\ j \in 1 .. m /\ j \in 1 .. Len(cmds)
            /\ j - 1 \in 0 .. Len(cmds) /\ j \in 0 .. Len(cmds)
      BY <1>0, <1>6, <2>2
    <3>2. a.at[j] = e[j - 1] /\ Located(cmds[j], a.cells, e[j - 1], p)
      BY <3>1 DEF Standing
    <3>3. PICK other \in Commands : other = cmds[j]
      BY <3>1, ElementOfSeq
    <3>4. PICK o \in Nat, q \in Nat, h \in Nat : /\ o = e[j - 1] /\ q = e[j] /\ h = AnswerLen(other)
                                                /\ q = o + h /\ q <= x
      <4>1. e \in [0 .. Len(cmds) -> Nat] /\ e[j] = e[j - 1] + AnswerLen(other)
        BY <3>1, <3>3 DEF Ends
      <4>2. e[j - 1] \in Nat /\ e[j] \in Nat /\ AnswerLen(other) \in Nat
        BY <3>1, <4>1, AnswerLenTyped
      <4>3. e[j] <= e[i - 1]
        BY <3>1, EndsOrdered
      <4> QED
        BY <1>7, <4>1, <4>2, <4>3
    <3>5. \A g \in o + 1 .. o + AnswerLen(other) : all[g] = cells[g]
      <4>1. o \in Nat /\ q \in Nat /\ h \in Nat /\ q = o + h /\ q <= x /\ x \in Nat
        BY <1>7, <3>4
      <4>2. \A g \in o + 1 .. o + h : g \in 1 .. x
        BY <4>1
      <4> QED
        BY <1>18, <3>4, <4>2
    <3>6. Located(other, cells, o, p)
      BY <1>12, <3>2, <3>3, <3>4
    <3>7. Located(other, all, o, p)
      BY <3>4, <3>5, <3>6, LocatedMoves
    <3> QED
      BY <1>12, <1>21, <3>1, <3>2, <3>3, <3>4, <3>7
  <2> QED
    BY <2>1, <2>2
<1>23. Len(b.cells) = e[i] /\ Len(b.at) = i /\ Alike(b.cab, cab)
  BY <1>3, <1>5, <1>7, <1>18, <1>21
<1>24. Standing(b, cmds, e, i, p)
  BY <1>18, <1>21, <1>22, <1>23 DEF Standing
<1> QED
  BY <1>2, <1>3, <1>24

\* After all commands.
LEMMA BuiltStands ==
  ASSUME CabInv, NEW cmds \in Seq(Commands), NEW e, Ends(e, cmds),
         Len(cmds) <= Reports, AnswersEnd(cmds) = e[Len(cmds)], AnswersEnd(cmds) + 1 < Byte,
         NEW p, p.settled => msgs = <<>> /\ p.held = held /\ p.inserted = inserted
             /\ p.point = point
  PROVE  Built(cab, cmds) \in Replies /\ Standing(Built(cab, cmds), cmds, e, Len(cmds), p)
<1>0. PICK n \in Nat : n = Len(cmds)
  BY LenProperties
<1>1. gun \in Points /\ autostart \in BOOLEAN /\ cab \in Cabs
  BY CabConstants DEF CabInv, Windows, Window
<1>2. PICK f \in [0 .. Len(cmds) -> Replies] :
           /\ f[0] = AckBegin(cab) /\ Built(cab, cmds) = f[Len(cmds)]
           /\ \A i \in 1 .. Len(cmds) : f[i] = JvsCommand(f[i - 1], cmds[i])
  BY <1>1, BuiltIs
<1> DEFINE P == {i \in Nat : i <= n => Standing(f[i], cmds, e, i, p)}
<1>3. 0 \in P
  <2>1. PICK a \in Replies : a = AckBegin(cab) /\ Len(a.cells) = 4 /\ Len(a.at) = 0
    BY <1>1, BeginTyped
  <2>2. a.cab = cab
    BY <2>1 DEF AckBegin
  <2>3. Alike(a.cab, cab)
    BY <1>1, <2>2 DEF Alike
  <2>4. e[0] = 4 /\ 1 .. 0 = {}
    BY DEF Ends
  <2>5. Standing(a, cmds, e, 0, p)
    BY <2>1, <2>3, <2>4 DEF Standing
  <2> QED
    BY <1>2, <2>1, <2>5
<1>4. ASSUME NEW j \in Nat, j \in P PROVE j + 1 \in P
  <2> SUFFICES ASSUME j + 1 <= n PROVE Standing(f[j + 1], cmds, e, j + 1, p)
    OBVIOUS
  <2>1. PICK i \in 1 .. Len(cmds) : i = j + 1 /\ i - 1 = j /\ j \in 0 .. Len(cmds)
    BY <1>0
  <2>2. Standing(f[i - 1], cmds, e, i - 1, p)
    BY <1>0, <1>4, <2>1
  <2>3. PICK a \in Replies : a = f[i - 1]
    BY <1>2, <2>1
  <2>4. Standing(JvsCommand(a, cmds[i]), cmds, e, i, p)
    BY <2>2, <2>3, StandsOn
  <2> QED
    BY <1>2, <2>1, <2>3, <2>4
<1> HIDE DEF P
<1>5. n \in P
  BY <1>0, <1>3, <1>4, SetInduction
<1>6. Standing(f[n], cmds, e, n, p)
  BY <1>0, <1>5 DEF P
<1>7. f[n] \in Replies
  BY <1>0, <1>2
<1> QED
  BY <1>0, <1>2, <1>6, <1>7

----------------------------------------------------------------------------
(* The board.                                                              *)

\* Every answer stands where the list says.
Placed(cmds, s, l, p) ==
  \E e : /\ Ends(e, cmds) /\ AnswersEnd(cmds) = e[Len(cmds)]
         /\ Len(s) = e[Len(cmds)] + 1 /\ Len(l) = Len(cmds)
         /\ \A k \in 1 .. Len(cmds) : l[k] = e[k - 1] /\ Located(cmds[k], s, e[k - 1], p)

\* The buffer holds the answers to the last request, and what was received last
\* is the buffer.
BoardInv ==
  /\ ack = <<>> => at = <<>>
  /\ request.cmds \in {Followed(cmds) : cmds \in Requests} \cup {<<>>}
  /\ ack # <<>> =>
       /\ ack \in Seq(Cells) /\ at \in Seq(0 .. Byte - 1)
       /\ request.cmds \in Seq(Commands) /\ Len(request.cmds) <= Reports
       /\ Len(ack) < Byte /\ ack[3].num = Len(ack) - 3
       /\ Placed(request.cmds, ack, at, request)
  /\ reply # NoReply =>
       ack # <<>> /\ reply = [frame |-> ack, length |-> Len(ack) % Byte, index |-> Append(at, 0)]

\* It depends on nothing else but the setting of autostart.
LEMMA PlacedNext ==
  ASSUME autostart' = autostart
  PROVE  Placed(request.cmds, ack, at, request)' <=> Placed(request'.cmds, ack', at', request')
<1>1. PICK p, s, l : p = request' /\ s = ack' /\ l = at'
  OBVIOUS
<1> QED
  BY <1>1 DEF Placed, Located, Tells, Ends

LEMMA SendKeeps ==
  ASSUME RequestsFit, CabInv, NEW cmds0 \in Requests, JvsSend(cmds0)
  PROVE  CabInv' /\ BoardInv'
<1>1. PICK cmds \in Seq(Commands) : cmds = Followed(cmds0) /\ Len(cmds) <= Reports
  BY FollowedIs, JvsConstants
<1>2. AnswersEnd(cmds) + 1 < Byte
  BY <1>1 DEF RequestsFit
<1>3. PICK e : Ends(e, cmds) /\ AnswersEnd(cmds) = e[Len(cmds)]
  BY EndsAre
<1>4. PICK p : p = IF msgs # <<>> THEN [NoRequest EXCEPT !.cmds = cmds]
                   ELSE [cmds |-> cmds, held |-> held,
                         inserted |-> inserted, point |-> point, settled |-> TRUE]
  OBVIOUS
<1>5. p.settled => msgs = <<>> /\ p.held = held /\ p.inserted = inserted /\ p.point = point
  <2>1. CASE msgs # <<>>
    BY <1>4, <2>1 DEF NoRequest
  <2>2. CASE msgs = <<>>
    BY <1>4, <2>2
  <2> QED
    BY <2>1, <2>2
<1>6. p.cmds = cmds
  BY <1>4 DEF NoRequest
<1>7. PICK a \in Replies : a = Built(cab, cmds) /\ Standing(a, cmds, e, Len(cmds), p)
  BY <1>1, <1>2, <1>3, <1>5, BuiltStands
<1>8. PICK cells \in Seq(Cells), l \in Seq(0 .. Byte - 1) : cells = a.cells /\ l = a.at
  BY DEF Replies
<1>9. PICK n \in Nat, last \in Nat, byte \in Nat :
        n = Len(cmds) /\ last = e[n] /\ byte = Byte /\ 4 <= last /\ last + 1 < byte
            /\ Len(cells) = last
  <2>1. Len(cmds) \in Nat /\ Len(cmds) \in 0 .. Len(cmds)
    BY LenProperties
  <2>2. e[Len(cmds)] \in Nat /\ 4 <= e[Len(cmds)]
    BY <1>3, <2>1, EndsGrow DEF Ends
  <2>3. Len(cells) = e[Len(cmds)]
    BY <1>7, <1>8 DEF Standing
  <2> QED
    BY <1>2, <1>3, <2>1, <2>2, <2>3, JvsConstants
<1>10. PICK count \in 0 .. Byte - 1 : count = (last - 3 + 1) % Byte /\ count = last - 2
  <2>1. last \in Nat /\ byte \in Nat /\ 4 <= last /\ last + 1 < byte
    BY <1>9
  <2>2. last - 3 + 1 = last - 2 /\ last - 2 \in Nat /\ last - 2 < byte /\ byte # 0
        /\ last - 2 \in 0 .. byte - 1
    BY <2>1
  <2>3. (last - 2) % byte = last - 2
    BY <2>1, <2>2, Remainder
  <2> QED
    BY <1>9, <2>2, <2>3
<1>11. PICK mark \in Cells : mark = Num(count) /\ mark.num = count
  <2>1. Num(count) \in Cells /\ Num(count).num = count
    BY <1>10 DEF Num, Cells
  <2> QED
    BY <2>1
<1>12. PICK zero \in Cells : zero = Num(0)
  BY NumTyped
<1>13. PICK body \in Seq(Cells) : /\ body = [cells EXCEPT ![3] = mark] /\ Len(body) = last
                                  /\ \A j \in 1 .. last : body[j] = IF j = 3 THEN mark ELSE cells[j]
  <2>1. 3 \in 1 .. Len(cells) /\ Len(cells) = last
    BY <1>9
  <2>2. cells \in Seq(Cells) /\ mark \in Cells
    BY <1>8, <1>11
  <2>3. /\ [cells EXCEPT ![3] = mark] \in Seq(Cells)
        /\ Len([cells EXCEPT ![3] = mark]) = Len(cells)
        /\ \A j \in 1 .. Len(cells) : [cells EXCEPT ![3] = mark][j] = IF j = 3 THEN mark ELSE cells[j]
    BY <2>1, <2>2, ExceptSeq
  <2> QED
    BY <2>1, <2>3, Zenon
<1>14. PICK s \in Seq(Cells) : /\ s = Append(body, zero) /\ Len(s) = last + 1
                               /\ \A j \in 1 .. last : s[j] = body[j]
  <2>1. /\ Append(body, zero) \in Seq(Cells) /\ Len(Append(body, zero)) = Len(body) + 1
        /\ \A j \in 1 .. Len(body) : Append(body, zero)[j] = body[j]
    BY <1>12, <1>13, AppendProperties
  <2> QED
    BY <1>13, <2>1
<1>15. AckEnd(a) = [a EXCEPT !.cells = s]
  BY <1>8, <1>9, <1>10, <1>11, <1>12, <1>13, <1>14 DEF AckEnd
<1>16. PICK d : d = AckEnd(a)
  OBVIOUS
<1>17. d.cells = s /\ d.at = l /\ d.cab = a.cab
  BY <1>8, <1>15, <1>16 DEF Replies
<1>18. ack' = s /\ at' = l /\ cab' = a.cab /\ request' = p /\ reply' = NoReply
       /\ UNCHANGED <<playerVars, msgs, mouse, gun, frame, autostart>>
  BY <1>1, <1>4, <1>7, <1>16, <1>17 DEF JvsSend
<1>19. CabInv'
  <2>1. Alike(a.cab, cab)
    BY <1>7 DEF Standing
  <2> QED
    BY <1>18, <2>1, ReadKeeps
<1>20. ASSUME NEW k \in 1 .. Len(cmds) PROVE l[k] = e[k - 1] /\ Located(cmds[k], s, e[k - 1], p)
  <2>1. a.at[k] = e[k - 1] /\ Located(cmds[k], a.cells, e[k - 1], p)
    BY <1>7 DEF Standing
  <2>2. PICK cmd \in Commands : cmd = cmds[k]
    BY ElementOfSeq
  <2>3. k \in 0 .. Len(cmds) /\ k - 1 \in 0 .. Len(cmds)
    BY <1>9
  <2>4. PICK o \in Nat, q \in Nat, h \in Nat : /\ o = e[k - 1] /\ q = e[k] /\ h = AnswerLen(cmd)
                                                /\ q = o + h /\ q <= last /\ 4 <= o
    <3>1. e \in [0 .. Len(cmds) -> Nat] /\ e[k] = e[k - 1] + AnswerLen(cmd)
      BY <1>3, <2>2 DEF Ends
    <3>2. e[k - 1] \in Nat /\ e[k] \in Nat /\ AnswerLen(cmd) \in Nat
      BY <2>3, <3>1, AnswerLenTyped
    <3>3. 4 <= e[k - 1] /\ e[k] <= e[Len(cmds)]
      BY <1>3, <2>3, EndsGrow
    <3> QED
      BY <1>9, <3>1, <3>2, <3>3
  <2>5. \A g \in o + 1 .. o + AnswerLen(cmd) : s[g] = cells[g]
    <3>1. o \in Nat /\ q \in Nat /\ h \in Nat /\ q = o + h /\ q <= last /\ 4 <= o /\ last \in Nat
      BY <1>9, <2>4
    <3>2. \A g \in o + 1 .. o + h : g \in 1 .. last /\ g # 3
      BY <3>1
    <3> QED
      BY <1>13, <1>14, <2>4, <3>2
  <2>6. Located(cmd, cells, o, p)
    BY <1>8, <2>1, <2>2, <2>4
  <2>7. Located(cmd, s, o, p)
    BY <2>4, <2>5, <2>6, LocatedMoves
  <2> QED
    BY <1>8, <2>1, <2>2, <2>4, <2>7
<1>21. Placed(cmds, s, l, p)
  <2>1. Len(l) = Len(cmds)
    BY <1>7, <1>8 DEF Standing
  <2> QED
    BY <1>3, <1>9, <1>14, <1>20, <2>1 DEF Placed
<1>23. s # <<>> /\ Len(s) < Byte /\ s[3].num = Len(s) - 3
  <2>1. last \in Nat /\ byte \in Nat /\ 4 <= last /\ last + 1 < byte
    BY <1>9
  <2>2. 3 \in 1 .. last /\ last - 2 = (last + 1) - 3 /\ last + 1 # 0
    BY <2>1
  <2>3. s[3].num = Len(s) - 3
    BY <1>10, <1>11, <1>13, <1>14, <2>2
  <2>4. Len(s) # 0
    BY <1>14, <2>2
  <2>5. s # <<>>
    BY <2>4, EmptySeq
  <2> QED
    BY <1>9, <1>14, <2>3, <2>5
<1>24. BoardInv'
  <2>1. request.cmds' \in {Followed(x) : x \in Requests} \cup {<<>>}
    BY <1>1, <1>6, <1>18
  <2>2. Placed(request.cmds, ack, at, request)'
    <3>1. Placed(request.cmds, ack, at, request)' <=> Placed(request'.cmds, ack', at', request')
      BY <1>18, PlacedNext
    <3> QED
      BY <1>6, <1>18, <1>21, <3>1
  <2>3. ack' # <<>> /\ ack' \in Seq(Cells) /\ at' \in Seq(0 .. Byte - 1) /\ Len(ack') < Byte
        /\ ack'[3].num = Len(ack') - 3
    BY <1>8, <1>14, <1>18, <1>23
  <2>4. request'.cmds \in Seq(Commands) /\ Len(request'.cmds) <= Reports
    BY <1>1, <1>6, <1>18
  <2>5. Byte' = Byte /\ Cells' = Cells /\ Commands' = Commands
    BY DEF Cells, Commands
  <2> QED
    BY <1>18, <2>1, <2>2, <2>3, <2>4 DEF BoardInv, Cells, Commands
<1> QED
  BY <1>19, <1>24

\* Nothing else writes the buffer.
LEMMA BoardStutters ==
  ASSUME BoardInv, UNCHANGED <<boardVars, gameVars, autostart>>
  PROVE  BoardInv'
<1>1. ack' = ack /\ at' = at /\ request' = request /\ reply' = reply /\ autostart' = autostart
  BY DEF boardVars, gameVars
<1>2. Placed(request.cmds, ack, at, request)' <=> Placed(request.cmds, ack, at, request)
  BY <1>1 DEF Placed, Located, Tells, Ends
<1> QED
  BY <1>1, <1>2, Zenon DEF BoardInv, Cells, Commands

LEMMA RecvKeeps ==
  ASSUME BoardInv, JvsRecv
  PROVE  BoardInv'
<1>1. /\ ack # <<>> /\ ack' = ack /\ at' = at /\ request' = request /\ autostart' = autostart
      /\ reply' = [frame |-> ack, length |-> Len(ack) % Byte, index |-> Append(at, 0)]
  BY DEF JvsRecv, cabinetVars, boardVars, hostVars
<1>2. Placed(request.cmds, ack, at, request)' <=> Placed(request.cmds, ack, at, request)
  BY <1>1 DEF Placed, Located, Tells, Ends
<1> QED
  BY <1>1, <1>2, Zenon DEF BoardInv, Cells, Commands

\* The inductive invariant: a message at a time the player and the window keep
\* CabInv, and JvsSend, reading a window that CabInv describes, restores BoardInv.
JvsInv == CabInv /\ BoardInv

LEMMA JvsStarts == Init => JvsInv
<1> SUFFICES ASSUME Init PROVE JvsInv
  OBVIOUS
<1>1. CabInv
  BY CabStarts DEF Init
<1>2. BoardInv
  BY DEF Init, BoardInv, NoRequest
<1> QED
  BY <1>1, <1>2 DEF JvsInv

LEMMA JvsStays == RequestsFit /\ JvsInv /\ [Next]_vars => JvsInv'
<1> SUFFICES ASSUME RequestsFit, CabInv, BoardInv, [Next]_vars PROVE CabInv' /\ BoardInv'
  BY DEF JvsInv
<1>1. CASE Player /\ UNCHANGED <<boardVars, gameVars>>
  <2>1. autostart' = autostart
    BY <1>1 DEF Player, KeyDown, KeyUp, ButtonDown, ButtonUp, Move, hostVars
  <2> QED
    BY <1>1, <2>1, PlayerKeeps, BoardStutters
<1>2. CASE (Pump \/ Swap) /\ UNCHANGED <<boardVars, gameVars>>
  <2>1. autostart' = autostart
    BY <1>2 DEF Pump, Swap
  <2> QED
    BY <1>2, <2>1, PumpKeeps, BoardStutters
<1>3. CASE \E cmds \in Requests : JvsSend(cmds)
  BY <1>3, SendKeeps
<1>4. CASE JvsRecv
  <2>1. UNCHANGED cabinetVars
    BY <1>4 DEF JvsRecv
  <2> QED
    BY <1>4, <2>1, RecvKeeps, CabStutters
<1>5. CASE UNCHANGED vars
  <2>1. UNCHANGED cabinetVars /\ UNCHANGED <<boardVars, gameVars, autostart>>
    BY <1>5 DEF vars, cabinetVars, hostVars
  <2> QED
    BY <2>1, BoardStutters, CabStutters
<1> QED
  BY <1>1, <1>2, <1>3, <1>4, <1>5 DEF Next, JvsRecvNothing

\* The type: bytes, offsets and lengths within their width.
LEMMA JvsTyped == JvsInv => TypeOK
<1> SUFFICES ASSUME CabInv, BoardInv PROVE TypeOK
  BY DEF JvsInv
<1>1. CabinetTypeOK
  BY CabTyped
<1>2. PICK byte \in Nat \ {0}, size \in Nat, reports \in Nat :
        byte = Byte /\ size = AckSize /\ reports = Reports /\ byte <= size
  BY JvsConstants
<1>3. Len(<<>>) = 0
  OBVIOUS
<1>4. CASE ack = <<>>
  <2>1. at = <<>> /\ reply = NoReply
    BY <1>4 DEF BoardInv
  <2>2. DOMAIN <<>> = {}
    OBVIOUS
  <2>3. Len(ack) <= AckSize /\ Len(at) <= Reports
    BY <1>2, <1>3, <1>4, <2>1
  <2>4. reply.length \in 0 .. Byte - 1
    BY <1>2, <2>1 DEF NoReply
  <2> QED
    BY <1>1, <1>4, <2>1, <2>2, <2>3, <2>4 DEF BoardInv, TypeOK
<1>5. CASE ack # <<>>
  <2>1. PICK s \in Seq(Cells), l \in Seq(0 .. Byte - 1) :
          s = ack /\ l = at /\ Len(s) < Byte /\ Len(request.cmds) <= Reports
          /\ Len(l) = Len(request.cmds)
    BY <1>5 DEF BoardInv, Placed
  <2>2. \A i \in DOMAIN ack : ack[i].num \in 0 .. Byte - 1
    <3> SUFFICES ASSUME NEW i \in DOMAIN s PROVE s[i].num \in 0 .. Byte - 1
      BY <2>1
    <3>1. s[i] \in Cells
      BY LenProperties, ElementOfSeq
    <3> QED
      BY <3>1 DEF Cells
  <2>3. \A i \in DOMAIN at : at[i] \in 0 .. Byte - 1
    <3> SUFFICES ASSUME NEW i \in DOMAIN l PROVE l[i] \in 0 .. Byte - 1
      BY <2>1
    <3> QED
      BY LenProperties, ElementOfSeq
  <2>4. PICK n \in Nat : n = Len(ack) /\ n < byte
    BY <1>2, <2>1, LenProperties
  <2>5. Len(ack) <= AckSize
    BY <1>2, <2>4
  <2>6. reply.length \in 0 .. Byte - 1
    <3>1. CASE reply = NoReply
      BY <1>2, <3>1 DEF NoReply
    <3>2. CASE reply # NoReply
      <4>1. reply.length = n % byte
        BY <1>2, <2>4, <3>2 DEF BoardInv
      <4>2. n \in Nat /\ byte \in Nat \ {0}
        BY <1>2, <2>4
      <4>3. n % byte \in 0 .. byte - 1
        BY <4>2, Division
      <4> QED
        BY <1>2, <4>1, <4>3
    <3> QED
      BY <3>1, <3>2
  <2> QED
    BY <1>1, <2>1, <2>2, <2>3, <2>5, <2>6 DEF BoardInv, TypeOK
<1> QED
  BY <1>4, <1>5

\* What was received, answer by answer.
LEMMA Received ==
  ASSUME BoardInv, reply # NoReply
  PROVE  \E n \in Nat : \E e :
           /\ n = Len(request.cmds) /\ request.cmds \in Seq(Commands)
           /\ Ends(e, request.cmds)
           /\ reply.length = e[n] + 1 /\ Len(reply.frame) = e[n] + 1
           /\ reply.frame[3].num = reply.length - 3
           /\ Len(reply.index) = n + 1 /\ reply.index[n + 1] = 0
           /\ \A k \in 1 .. n : /\ reply.index[k] = e[k - 1]
                                /\ Located(request.cmds[k], reply.frame, e[k - 1], request)
<1>1. PICK s \in Seq(Cells), l \in Seq(0 .. Byte - 1), cmds \in Seq(Commands) :
        /\ s = ack /\ l = at /\ cmds = request.cmds
        /\ Len(s) < Byte /\ s[3].num = Len(s) - 3
        /\ Placed(cmds, s, l, request)
        /\ reply.frame = s /\ reply.length = Len(s) % Byte /\ reply.index = Append(l, 0)
  BY DEF BoardInv
<1>2. PICK e : /\ Ends(e, cmds)
               /\ Len(s) = e[Len(cmds)] + 1 /\ Len(l) = Len(cmds)
               /\ \A k \in 1 .. Len(cmds) : l[k] = e[k - 1] /\ Located(cmds[k], s, e[k - 1], request)
  BY <1>1 DEF Placed
<1>3. PICK n \in Nat, m \in Nat, byte \in Nat \ {0} : n = Len(cmds) /\ m = Len(s)
        /\ byte = Byte /\ m < byte
  BY <1>1, LenProperties, JvsConstants
<1>4. reply.length = m
  <2>1. m % byte = m
    BY <1>3, Remainder
  <2> QED
    BY <1>1, <1>3, <2>1
<1>5. /\ Len(reply.index) = n + 1 /\ reply.index[n + 1] = 0
      /\ \A k \in 1 .. n : reply.index[k] = l[k]
  <2>1. PICK zero \in 0 .. Byte - 1 : zero = 0
    BY JvsConstants
  <2>2. /\ Len(Append(l, zero)) = Len(l) + 1
        /\ \A k \in 1 .. Len(l) : Append(l, zero)[k] = l[k]
        /\ Append(l, zero)[Len(l) + 1] = zero
    BY <2>1, <1>1, AppendProperties
  <2> QED
    BY <1>1, <1>2, <1>3, <2>1, <2>2
<1>6. /\ n = Len(request.cmds) /\ request.cmds \in Seq(Commands)
      /\ Ends(e, request.cmds)
      /\ reply.length = e[n] + 1 /\ Len(reply.frame) = e[n] + 1
      /\ reply.frame[3].num = reply.length - 3
  BY <1>1, <1>2, <1>3, <1>4
<1>7. \A k \in 1 .. n : /\ reply.index[k] = e[k - 1]
                        /\ Located(request.cmds[k], reply.frame, e[k - 1], request)
  BY <1>1, <1>2, <1>3, <1>5
<1> QED
  BY <1>3, <1>5, <1>6, <1>7

LEMMA JvsInPlace == JvsInv => AnswersInPlace
<1> SUFFICES ASSUME BoardInv, reply # NoReply PROVE AnswersInPlace
  BY DEF JvsInv, AnswersInPlace
<1>0. PICK n \in Nat :
        \E e :
           /\ n = Len(request.cmds) /\ request.cmds \in Seq(Commands)
           /\ Ends(e, request.cmds)
           /\ reply.length = e[n] + 1 /\ Len(reply.frame) = e[n] + 1
           /\ reply.frame[3].num = reply.length - 3
           /\ Len(reply.index) = n + 1 /\ reply.index[n + 1] = 0
           /\ \A k \in 1 .. n : /\ reply.index[k] = e[k - 1]
                                /\ Located(request.cmds[k], reply.frame, e[k - 1], request)
  BY Received
<1>1. PICK e :
           /\ n \in Nat
           /\ n = Len(request.cmds) /\ request.cmds \in Seq(Commands)
           /\ Ends(e, request.cmds)
           /\ reply.length = e[n] + 1 /\ Len(reply.frame) = e[n] + 1
           /\ reply.frame[3].num = reply.length - 3
           /\ Len(reply.index) = n + 1 /\ reply.index[n + 1] = 0
           /\ \A k \in 1 .. n : /\ reply.index[k] = e[k - 1]
                                /\ Located(request.cmds[k], reply.frame, e[k - 1], request)
  BY <1>0
<1>2. e \in [0 .. n -> Nat] /\ e[0] = 4
  BY <1>1 DEF Ends
<1>3. PICK last \in Nat : last = e[n] /\ reply.length = last + 1 /\ reply.length - 1 = last
  <2>1. e[n] \in Nat
    BY <1>1, <1>2, SMTT(30)
  <2>2. (e[n] + 1) - 1 = e[n]
    BY <2>1
  <2> QED
    BY <1>1, <2>1, <2>2
<1>4. ASSUME NEW i \in 1 .. n
      PROVE  /\ reply.frame[reply.index[i] + 1] = OkCell
             /\ (IF i = n THEN reply.length - 1 ELSE reply.index[i + 1])
                  = reply.index[i] + AnswerLen(request.cmds[i])
  <2>1. reply.index[i] = e[i - 1] /\ reply.frame[e[i - 1] + 1] = OkCell
    BY <1>1 DEF Located
  <2>2. e[i] = e[i - 1] + AnswerLen(request.cmds[i])
    BY <1>1 DEF Ends
  <2>3. CASE i = n
    BY <1>3, <2>1, <2>2, <2>3
  <2>4. CASE i # n
    <3>1. i + 1 \in 1 .. n /\ (i + 1) - 1 = i
      BY <1>1, <2>4
    <3>2. reply.index[i + 1] = e[i]
      BY <1>1, <3>1
    <3> QED
      BY <2>1, <2>2, <2>4, <3>2
  <2> QED
    BY <2>3, <2>4
<1>5. n > 0 => reply.index[1] = 4
  <2> SUFFICES ASSUME n > 0 PROVE reply.index[1] = 4
    OBVIOUS
  <2>1. 1 \in 1 .. n /\ 1 - 1 = 0
    BY <1>1
  <2> QED
    BY <1>1, <1>2, <2>1
<1> QED
  BY <1>1, <1>4, <1>5 DEF AnswersInPlace

\* However the player and the game take turns, a reply that fits its length
\* byte keeps every answer where its list says, and every byte within its width.
THEOREM BoardAnswersInPlace == RequestsFit => (Spec => []JvsSound)
<1>1. Init => JvsInv
  BY JvsStarts
<1>2. RequestsFit /\ JvsInv /\ [Next]_vars => JvsInv'
  BY JvsStays
<1>3. JvsInv => JvsSound
  BY JvsTyped, JvsInPlace DEF JvsSound
<1>4. ASSUME RequestsFit PROVE Spec => []JvsSound
  <2>1. JvsInv /\ [Next]_vars => JvsInv'
    BY <1>2, <1>4
  <2> QED
    BY <1>1, <1>3, <2>1, PTL DEF Spec
<1> QED
  BY <1>4

\* What the game reads is what the report says.
LEMMA AnswerTells ==
  ASSUME request.settled, NEW k, NEW cmd \in Commands, NEW o, reply.index[k] = o,
         NEW t \in Seq(Cells), Tells(cmd, t, request),
         \A i \in 1 .. AnswerLen(cmd) - 1 : reply.frame[o + 1 + i] = t[i]
  PROVE  PlayerIn(k, cmd)
<1>1. cmd.code \in Codes /\ cmd.p1 \in Nat /\ cmd.p2 \in Nat
  BY DEF Commands
<1>2. \A i \in 1 .. AnswerLen(cmd) - 1 : Cell(k, i) = t[i]
  BY DEF Cell
<1>3. ASSUME cmd.code = "switches"
      PROVE  /\ Down("T", Cell(k, 1).set = {"test"})
             /\ cmd.p1 > 0 =>
                   /\ Down("S", "service" \in Cell(k, 2).set)
                   /\ Down("left", "trigger" \in Cell(k, 2).set)
                   /\ Down("right", "reload" \in Cell(k, 2).set)
                   /\ autostart \/ Down("1", "p1start" \in Cell(k, 2).set)
             /\ cmd.p1 > 1 =>
                   Down("2", Cell(k, 2 + PlayerWidth(cmd.p2)).set # {})
  <2>1. PICK w \in Nat \ {0} : w = PlayerWidth(cmd.p2)
    BY <1>1, WidthTyped
  <2>2. PICK n \in Nat : n = w * cmd.p1 /\ AnswerLen(cmd) = 2 + n
    <3>1. AnswerLen(cmd) = 2 + cmd.p1 * w
      BY <1>3, <2>1 DEF AnswerLen
    <3>2. w * cmd.p1 \in Nat /\ cmd.p1 * w = w * cmd.p1
      BY <1>1, <2>1
    <3> QED
      BY <3>1, <3>2
  <2>3. cmd.p1 > 0 => w * 1 <= w * cmd.p1
    BY <1>1, <2>1, ProductGrows
  <2>4. cmd.p1 > 1 => w * 2 <= w * cmd.p1
    BY <1>1, <2>1, ProductGrows, SMTT(30)
  <2>5. Cell(k, 1) = t[1]
    <3>1. 1 \in 1 .. AnswerLen(cmd) - 1
      BY <2>2
    <3> QED
      BY <1>2, <3>1
  <2>6. cmd.p1 > 0 => Cell(k, 2) = t[2]
    <3> SUFFICES ASSUME cmd.p1 > 0 PROVE 2 \in 1 .. AnswerLen(cmd) - 1
      BY <1>2
    <3> QED
      BY <2>1, <2>2, <2>3
  <2>7. cmd.p1 > 1 => Cell(k, 2 + w) = t[2 + w]
    <3> SUFFICES ASSUME cmd.p1 > 1 PROVE 2 + w \in 1 .. AnswerLen(cmd) - 1
      BY <1>2
    <3> QED
      BY <2>1, <2>2, <2>4
  <2>8. /\ "T" \in request.held <=> t[1].set = {"test"}
        /\ cmd.p1 > 0 =>
              /\ "S" \in request.held <=> "service" \in t[2].set
              /\ "left" \in request.held <=> "trigger" \in t[2].set
              /\ "right" \in request.held <=> "reload" \in t[2].set
              /\ autostart \/ ("1" \in request.held <=> "p1start" \in t[2].set)
        /\ cmd.p1 > 1 => ("2" \in request.held <=> t[2 + w].set # {})
    BY <1>3, <2>1 DEF Tells
  <2>9. Down("T", Cell(k, 1).set = {"test"})
    BY <2>5, <2>8 DEF Down
  <2>10. cmd.p1 > 0 =>
            /\ Down("S", "service" \in Cell(k, 2).set)
            /\ Down("left", "trigger" \in Cell(k, 2).set)
            /\ Down("right", "reload" \in Cell(k, 2).set)
            /\ autostart \/ Down("1", "p1start" \in Cell(k, 2).set)
    BY <2>6, <2>8 DEF Down
  <2>11. cmd.p1 > 1 => Down("2", Cell(k, 2 + w).set # {})
    BY <2>7, <2>8 DEF Down
  <2> QED
    BY <2>1, <2>9, <2>10, <2>11
<1>4. ASSUME cmd.code = "coins", NEW i \in 1 .. cmd.p1
      PROVE  Word(k, 2 * i - 1) - (IF i <= 2 THEN request.inserted[i - 1] ELSE 0)
                \in (IF autostart /\ i = 1 THEN {0, 1} ELSE {0})
  <2>1. AnswerLen(cmd) = 1 + 2 * cmd.p1
    BY <1>4 DEF AnswerLen
  <2>2. 2 * i - 1 \in 1 .. AnswerLen(cmd) - 1 /\ (2 * i - 1) + 1 \in 1 .. AnswerLen(cmd) - 1
    BY <1>1, <2>1
  <2>3. Word(k, 2 * i - 1) = Value(t, 2 * i - 1)
    BY <1>2, <2>2 DEF Word, Value
  <2>4. Value(t, 2 * i - 1) - (IF i <= 2 THEN request.inserted[i - 1] ELSE 0)
           \in (IF autostart /\ i = 1 THEN {0, 1} ELSE {0})
    BY <1>4, Zenon DEF Tells
  <2> QED
    BY <2>3, <2>4
<1>5. ASSUME cmd.code = "analog", cmd.p1 > 0
      PROVE  /\ request.point <= 0 <=> Word(k, 1) = 0
             /\ request.point >= Width <=> Word(k, 1) = Full
  <2>1. AnswerLen(cmd) = 1 + 2 * cmd.p1
    BY <1>5 DEF AnswerLen
  <2>2. 1 \in 1 .. AnswerLen(cmd) - 1 /\ 1 + 1 \in 1 .. AnswerLen(cmd) - 1
    BY <1>1, <1>5, <2>1
  <2>3. Word(k, 1) = Value(t, 1)
    BY <1>2, <2>2 DEF Word, Value
  <2>4. /\ request.point <= 0 <=> Value(t, 1) = 0
        /\ request.point >= Width <=> Value(t, 1) = Full
    BY <1>5, Zenon DEF Tells
  <2> QED
    BY <2>3, <2>4
<1> QED
  BY <1>3, <1>4, <1>5, Zenon DEF PlayerIn

LEMMA JvsSeen == ValuesFit /\ JvsInv => GameSeesPlayer
<1> SUFFICES ASSUME ValuesFit, BoardInv, request.settled, reply # NoReply,
                    NEW k \in 1 .. Len(request.cmds), NEW cmd, cmd = request.cmds[k]
             PROVE  PlayerIn(k, cmd)
  BY Zenon DEF JvsInv, GameSeesPlayer
<1>0. PICK n \in Nat :
        \E e :
           /\ n = Len(request.cmds) /\ request.cmds \in Seq(Commands)
           /\ Ends(e, request.cmds)
           /\ reply.length = e[n] + 1 /\ Len(reply.frame) = e[n] + 1
           /\ reply.frame[3].num = reply.length - 3
           /\ Len(reply.index) = n + 1 /\ reply.index[n + 1] = 0
           /\ \A j \in 1 .. n : /\ reply.index[j] = e[j - 1]
                                /\ Located(request.cmds[j], reply.frame, e[j - 1], request)
  BY Received
<1>1. PICK e : /\ n = Len(request.cmds) /\ request.cmds \in Seq(Commands)
               /\ reply.index[k] = e[k - 1]
               /\ Located(cmd, reply.frame, e[k - 1], request)
  BY <1>0
<1>2. cmd \in Commands
  BY <1>1, ElementOfSeq
<1>3. PICK o : o = e[k - 1]
  OBVIOUS
<1>4. PICK t \in Seq(Cells) : /\ Tells(cmd, t, request)
                              /\ \A i \in 1 .. AnswerLen(cmd) - 1 : reply.frame[o + 1 + i] = t[i]
  BY <1>1, <1>3 DEF Located
<1>5. /\ request.settled /\ cmd \in Commands /\ reply.index[k] = o
      /\ t \in Seq(Cells) /\ Tells(cmd, t, request)
      /\ \A i \in 1 .. AnswerLen(cmd) - 1 : reply.frame[o + 1 + i] = t[i]
  BY <1>1, <1>2, <1>3, <1>4
<1> QED
  BY <1>5, AnswerTells, Zenon

\* What the game reads out of a reply is what the player was doing when it
\* asked, whichever way keys, pumps, swaps and earlier reads took turns before.
THEOREM PlayerIsSeen == RequestsFit /\ ValuesFit => (Spec => []GameSeesPlayer)
<1>1. Init => JvsInv
  BY JvsStarts
<1>2. RequestsFit /\ JvsInv /\ [Next]_vars => JvsInv'
  BY JvsStays
<1>3. ValuesFit /\ JvsInv => GameSeesPlayer
  BY JvsSeen
<1>4. ASSUME RequestsFit, ValuesFit PROVE Spec => []GameSeesPlayer
  <2>1. JvsInv /\ [Next]_vars => JvsInv'
    BY <1>2, <1>4
  <2>2. JvsInv => GameSeesPlayer
    BY <1>3, <1>4
  <2> QED
    BY <1>1, <2>1, <2>2, PTL DEF Spec
<1> QED
  BY <1>4
=============================================================================
