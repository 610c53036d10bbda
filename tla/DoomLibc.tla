------------------------------ MODULE DoomLibc ------------------------------
(***************************************************************************)
(* The C library of the DOOM port that touches memory: malloc and the      *)
(* routines that copy (apps/doom/navine_libc.c), and reading the embedded  *)
(* WAD (w_file_navine.c).  A copying routine is its loop, one byte per     *)
(* step, over one small memory that its arguments may place anywhere.      *)
(***************************************************************************)
EXTENDS Integers

CONSTANTS HEAP_BYTES,    \* HEAP_SIZE of navine_libc.c
          HeapAlign,     \* the 16 malloc rounds to
          LibcWidth,     \* 2 ^ 64
          MallocSizes,   \* what the game asks for
          CallocCounts,
          TopAddress,    \* bound: the last byte of the copying routines' memory
          Values,        \* what a byte holds, 0 among it
          WadLength,     \* the embedded WAD: the addresses below this one
          LetterP, LetterW

ASSUME LibcSizes ==
    /\ HEAP_BYTES \in Nat /\ LibcWidth \in Nat /\ HeapAlign \in Nat \ {0}
    /\ MallocSizes \subseteq Nat /\ CallocCounts \subseteq Nat
    /\ \A s \in MallocSizes, c \in CallocCounts \cup {1} :
          c * s + HeapAlign + HEAP_BYTES <= LibcWidth

ASSUME LibcMemory ==
    /\ TopAddress \in Nat /\ WadLength \in 0 .. TopAddress + 1
    /\ 0 \in Values /\ Values \subseteq Nat

Addresses == 0 .. TopAddress

VARIABLES heap_offset,
          mallocBlocks,   \* (history) the blocks handed out
          mem,            \* memory: address -> byte
          op,             \* the loop that runs, "none" between calls
          d, s, n,        \* its pointers and its count; s is memset's byte
          call            \* (history) the routine, its arguments and memory then

mallocVars == <<heap_offset, mallocBlocks>>
copyVars == <<mem, op, d, s, n, call>>
libcVars == <<heap_offset, mallocBlocks, mem, op, d, s, n, call>>

-----------------------------------------------------------------------------
(* The heap *)

\* Slip: sizes are rounded down.
RoundUp_down(size) == (size \div HeapAlign) * HeapAlign

RoundUp(size) == (((size + HeapAlign - 1) % LibcWidth) \div HeapAlign) * HeapAlign

malloc(size) ==
    LET end == (heap_offset + RoundUp(size)) % LibcWidth
    IN  IF end > HEAP_BYTES THEN UNCHANGED mallocVars
        ELSE /\ heap_offset' = end
             /\ mallocBlocks' =
                   mallocBlocks \cup {[start |-> heap_offset, size |-> size]}

\* What is in a block is not modelled, so neither is calloc's memset of it.
calloc(nmemb, size) == malloc((nmemb * size) % LibcWidth)

\* A new block, without the contents of the old one; free does nothing.
realloc(size) == malloc(size)

-----------------------------------------------------------------------------
(* The copying routines: how each is entered *)

Span(a, len) == a .. a + len - 1

NoCall(m) == [routine |-> "none", dest |-> 0, src |-> 0, n |-> 0, mem |-> m]

\* The string at an address, when memory holds one there.
IsString(a) == \E z \in Addresses : z >= a /\ mem[z] = 0
strlen(m, a) ==
    (CHOOSE z \in Addresses :
        z >= a /\ m[z] = 0 /\ \A y \in Span(a, z - a) : m[y] # 0) - a

Enter(routine, loop, to, from, count, dest, src, len) ==
    /\ op' = IF loop # "string" /\ count = 0 THEN "done" ELSE loop
    /\ d' = to /\ s' = from /\ n' = count
    /\ call' = [routine |-> routine, dest |-> dest, src |-> src, n |-> len, mem |-> mem]
    /\ UNCHANGED mem

\* C asks of all but memmove that the areas do not overlap.
Apart(a, lenA, b, lenB) == Span(a, lenA) \cap Span(b, lenB) = {}
Inside(a, len) == Span(a, len) \subseteq Addresses

memset(dest, c, len) ==
    Inside(dest, len) /\ Enter("memset", "fill", dest, c, len, dest, c, len)

memcpy(dest, src, len) ==
    /\ Inside(dest, len) /\ Inside(src, len) /\ Apart(dest, len, src, len)
    /\ Enter("memcpy", "forward", dest, src, len, dest, src, len)

memmove(dest, src, len) ==
    /\ Inside(dest, len) /\ Inside(src, len)
    /\ IF dest < src
       THEN Enter("memmove", "forward", dest, src, len, dest, src, len)
       ELSE Enter("memmove", "backward", dest + len, src + len, len, dest, src, len)

strcpy(dest, src) ==
    /\ IsString(src)
    /\ LET size == strlen(mem, src) + 1
       IN  Inside(dest, size) /\ Apart(dest, size, src, size)
    /\ Enter("strcpy", "string", dest, src, 0, dest, src, 0)

strncpy(dest, src, len) ==
    /\ IsString(src) /\ Inside(dest, len)
    /\ Apart(dest, len, src, strlen(mem, src) + 1)
    /\ Enter("strncpy", "counted", dest, src, len, dest, src, len)

strcat(dest, src) ==
    /\ IsString(src) /\ IsString(dest)
    /\ LET size == strlen(mem, src) + 1
           old == strlen(mem, dest)
       IN  /\ Inside(dest, old + size) /\ Apart(dest, old + size, src, size)
           /\ Enter("strcat", "string", dest + old, src, 0, dest, src, 0)

-----------------------------------------------------------------------------
(* The loops, one byte each *)

Counted(loop) ==
    /\ op = loop /\ n > 0
    /\ n' = n - 1
    /\ op' = IF n = 1 THEN "done" ELSE loop
    /\ UNCHANGED call

FillLoop ==
    /\ Counted("fill")
    /\ mem' = [mem EXCEPT ![d] = s] /\ d' = d + 1 /\ UNCHANGED s

ForwardLoop ==
    /\ Counted("forward")
    /\ mem' = [mem EXCEPT ![d] = mem[s]] /\ d' = d + 1 /\ s' = s + 1

\* Slip: the pointers step down after the byte is copied.
BackwardLoop_late ==
    /\ Counted("backward")
    /\ mem' = [a \in Addresses |-> IF a = d /\ s \in Addresses THEN mem[s] ELSE mem[a]]
    /\ d' = d - 1 /\ s' = s - 1

BackwardLoop ==
    /\ Counted("backward")
    /\ mem' = [mem EXCEPT ![d - 1] = mem[s - 1]] /\ d' = d - 1 /\ s' = s - 1

\* The terminator is copied too.
StringLoop ==
    /\ op = "string"
    /\ mem' = [mem EXCEPT ![d] = mem[s]] /\ d' = d + 1 /\ s' = s + 1
    /\ op' = IF mem[s] = 0 THEN "done" ELSE "string"
    /\ UNCHANGED <<n, call>>

\* strncpy: up to the terminator, and then zeros.
CountedLoop ==
    /\ Counted("counted") /\ mem[s] # 0
    /\ mem' = [mem EXCEPT ![d] = mem[s]] /\ d' = d + 1 /\ s' = s + 1

PadBegins ==
    /\ op = "counted" /\ mem[s] = 0
    /\ op' = "pad"
    /\ UNCHANGED <<mem, d, s, n, call>>

PadLoop ==
    /\ Counted("pad")
    /\ mem' = [mem EXCEPT ![d] = 0] /\ d' = d + 1 /\ UNCHANGED s

Return ==
    /\ op = "done"
    /\ op' = "none"
    /\ d' = 0 /\ s' = 0 /\ n' = 0 /\ call' = NoCall(mem)
    /\ UNCHANGED mem

CopyLoops ==
    \/ FillLoop \/ ForwardLoop \/ BackwardLoop \/ StringLoop
    \/ CountedLoop \/ PadBegins \/ PadLoop \/ Return

-----------------------------------------------------------------------------
(* The embedded WAD *)

\* Only a patch WAD is opened: the letters of a game's own file are I and W.
W_Navine_OpenFile ==
    WadLength # 0 /\ mem[0] = LetterP /\ mem[1] = LetterW

\* A read past the end gives what is there.
W_Navine_Read(offset, buffer, buffer_len) ==
    /\ W_Navine_OpenFile
    /\ offset < WadLength
    /\ LET remain == WadLength - offset
           len == IF buffer_len > remain THEN remain ELSE buffer_len
       IN  memcpy(buffer, offset, len)

-----------------------------------------------------------------------------
LibcInit ==
    /\ heap_offset = 0 /\ mallocBlocks = {}
    /\ mem \in [Addresses -> Values]
    /\ op = "none" /\ d = 0 /\ s = 0 /\ n = 0
    /\ call = NoCall(mem)

Heap ==
    /\ \/ \E size \in MallocSizes : malloc(size) \/ realloc(size)
       \/ \E nmemb \in CallocCounts, size \in MallocSizes : calloc(nmemb, size)
    /\ UNCHANGED copyVars

\* strdup allocates and copies; its copy is memcpy's.
CopyCalls ==
    /\ op = "none"
    /\ \E a, len \in Addresses :
          \/ \E c \in Values : memset(a, c, len)
          \/ \E b \in Addresses :
                \/ memcpy(a, b, len) \/ memmove(a, b, len) \/ strncpy(a, b, len)
                \/ strcpy(a, b) \/ strcat(a, b)
                \/ W_Navine_Read(b, a, len)

LibcNext ==
    \/ Heap
    \/ (CopyCalls \/ CopyLoops) /\ UNCHANGED mallocVars

-----------------------------------------------------------------------------
LibcArena == INSTANCE Arena WITH AreaSize <- HEAP_BYTES, blocks <- mallocBlocks

(***************************************************************************)
(* Blocks of the port's heap never overlap and end inside its array: what  *)
(* malloc rounds is the size, not the start, and the two sums of a request *)
(* that just fits or just fails are the hard ones.                         *)
(***************************************************************************)
MallocImplementsArena == LibcArena!Spec

\* What a routine leaves in memory, by the memory it was called with.
Moved(m, dest, src, len) ==
    [a \in Addresses |-> IF a \in Span(dest, len) THEN m[src + a - dest] ELSE m[a]]

Result(c) ==
    LET m == c.mem
    IN  CASE c.routine = "memset" ->
               [a \in Addresses |-> IF a \in Span(c.dest, c.n) THEN c.src ELSE m[a]]
          [] c.routine \in {"memcpy", "memmove"} -> Moved(m, c.dest, c.src, c.n)
          [] c.routine = "strcpy" -> Moved(m, c.dest, c.src, strlen(m, c.src) + 1)
          [] c.routine = "strcat" ->
               Moved(m, c.dest + strlen(m, c.dest), c.src, strlen(m, c.src) + 1)
          [] c.routine = "strncpy" ->
               [a \in Addresses |->
                  IF a \notin Span(c.dest, c.n) THEN m[a]
                  ELSE IF a < c.dest + strlen(m, c.src) THEN m[c.src + a - c.dest]
                  ELSE 0]

(***************************************************************************)
(* A copying routine leaves in its destination what its source held when   *)
(* it was called, and every other byte as it was: also memmove over areas  *)
(* that overlap either way, strncpy at a count below, at and above the     *)
(* length, and a read that the end of the WAD cuts short.                  *)
(***************************************************************************)
CopiesExact == op = "done" => mem = Result(call)
=============================================================================
