SPECIFICATION LibrarySpec
CONSTANTS
  Parts = {"heap", "strings", "tree", "sort", "format", "scan", "trace"}
\* GuestHeap
  HeapTop = 26  HostAlign = 2  GuestAlign = 4  HdrSize = 3  Threshold = 5
  PageSize = 8  Slack = 0  WordLimit = 64
  Requests = {0, 2, 5}  Alignments = {1, 4, 8}  Stamps = {1}
  ZERO = 0  JUNK = 9  GuestLow = 1  GuestHuge = 20
\* RepStrings
  Strings = {s, t}  RepAddrs = {r1, r2, r3}  Letters = {"a", "b"}  Literals <- LiteralsValue
  MaxText = 2  MaxShared = 1  NULLREP = NULLREP  NONE = NONE
\* RbTree
  TreeSize = 9  RED = RED  BLACK = BLACK
\* GuestSort
  SortKeys <- KeysValue  Comparators <- ComparatorsValue  MaxSort = 5  SortLimit = 4
\* GuestFormat
  Items <- ItemsValue  MaxItems = 3  Caps = {0, 1, 4, 8}
  FormatCap = 6  PieceCap = 5  TextOf <- TextsValue
  BLANK = 32  PERCENT = 37  PAST = 99
\* GuestScan
  Digits = {one}  BLANKCHAR = blank  COMMA = comma  MaxInput = 3  MaxFormat = 3
\* CallTrace
  TraceThreads = {t1, t2}  TraceN = 2  CounterLimit = 4  Every = 2
  Targets = {x, y}  MaxDispatch = 5  EMPTY = EMPTY
INVARIANTS
  LibraryTypeOK
  BlocksSound
  RepsOwned
  TreeBalanced
  SortSound
  PrintsAsC
  ScanAgrees
  ReportIsSuffix
PROPERTIES
  ImplementsAllocator
  ImplementsValueStrings
  ImplementsOrderedSet
\* A guest may stop calling; a full tree and a finished trace stop by themselves.
CHECK_DEADLOCK FALSE
