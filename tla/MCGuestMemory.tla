--------------------------- MODULE MCGuestMemory ---------------------------
EXTENDS GuestMemory

Segment(vaddr, memsz, filesz) == [vaddr |-> vaddr, memsz |-> memsz, filesz |-> filesz]

\* A text and a data segment in one unit of GRAN, the second with a .bss; one
\* segment that fills its unit; a file without any; one linked where the host
\* already is; one whose .bss reaches into the stack.
MCImages == {{Segment(5, 1, 1), Segment(6, 3, 1)}, {Segment(4, 4, 4)}, {},
             {Segment(21, 2, 2)},
             {Segment(30, 4, 2)}}
=============================================================================
