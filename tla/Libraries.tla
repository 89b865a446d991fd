------------------------------ MODULE Libraries ------------------------------
(***************************************************************************)
(* The handlers the guest calls as libc and libstdc++, and the trace       *)
(* dispatch keeps of the calls, side by side: they share nothing but the   *)
(* process, so a behaviour uses one of them.                               *)
(***************************************************************************)
EXTENDS GuestHeap, RepStrings, RbTree, GuestSort, GuestFormat, GuestScan, CallTrace

CONSTANT Parts  \* bound: the parts exercised
ASSUME PartsAssumption ==
  Parts \subseteq {"heap", "strings", "tree", "sort", "format", "scan", "trace"}

VARIABLE part

libraryVars ==
  <<part, heapVars, stringVars, treeVars, sort, print, scan, traceVars>>

LibraryInit ==
  /\ part \in Parts
  /\ HeapInit /\ StringInit /\ TreeInit /\ SortInit /\ FormatInit /\ ScanInit /\ TraceInit
  /\ sharing => part = "strings"
  /\ fileNamed => part = "trace"

LibraryNext ==
  /\ UNCHANGED part
  /\ \/ part = "heap" /\ HeapNext
        /\ UNCHANGED <<stringVars, treeVars, sort, print, scan, traceVars>>
     \/ part = "strings" /\ StringNext
        /\ UNCHANGED <<heapVars, treeVars, sort, print, scan, traceVars>>
     \/ part = "tree" /\ TreeNext
        /\ UNCHANGED <<heapVars, stringVars, sort, print, scan, traceVars>>
     \/ part = "sort" /\ SortNext
        /\ UNCHANGED <<heapVars, stringVars, treeVars, print, scan, traceVars>>
     \/ part = "format" /\ FormatNext
        /\ UNCHANGED <<heapVars, stringVars, treeVars, sort, scan, traceVars>>
     \/ part = "scan" /\ ScanNext
        /\ UNCHANGED <<heapVars, stringVars, treeVars, sort, print, traceVars>>
     \/ part = "trace" /\ TraceNext
        /\ UNCHANGED <<heapVars, stringVars, treeVars, sort, print, scan>>

LibrarySpec == LibraryInit /\ [][LibraryNext]_libraryVars

LibraryTypeOK ==
  /\ HeapTypeOK /\ StringTypeOK /\ TreeTypeOK /\ SortTypeOK
  /\ FormatTypeOK /\ ScanTypeOK /\ TraceTypeOK
=============================================================================
