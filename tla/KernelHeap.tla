----------------------------- MODULE KernelHeap -----------------------------
(***************************************************************************)
(* kernel/mm/heap.c: a bump allocator.  Sums are those of size_t, modulo   *)
(* SizeWidth; alignments are powers of two, as align_up needs.             *)
(***************************************************************************)
EXTENDS Integers

CONSTANTS HEAP_SIZE,
          MinAlign,    \* the 8 of kmalloc
          SizeWidth,   \* 2 ^ 64
          Sizes,       \* the sizes callers ask for
          Aligns       \* the alignments they ask for

\* start + size must not wrap: a size near 2 ^ 64 would pass the test.
ASSUME HeapSizes ==
    /\ HEAP_SIZE \in Nat /\ SizeWidth \in Nat /\ MinAlign \in Nat \ {0}
    /\ Sizes \subseteq Nat /\ Aligns \subseteq Nat
    /\ \A s \in Sizes, a \in Aligns \cup {MinAlign} :
          s + HEAP_SIZE + a <= SizeWidth

VARIABLES heap_used,
          heapBlocks    \* (history) the blocks handed out

heapVars == <<heap_used, heapBlocks>>

KernelHeapInit == heap_used = 0 /\ heapBlocks = {}

HeapInit == heap_used' = 0 /\ UNCHANGED heapBlocks

align_up(value, align) ==
    (((value + align - 1) % SizeWidth) \div align) * align

\* Slip: the room is tested before the start is aligned.
KmallocAligned_tests_first(size, align) ==
    LET al == IF align < MinAlign THEN MinAlign ELSE align
        start == align_up(heap_used, al)
    IN  IF heap_used + size > HEAP_SIZE THEN UNCHANGED heapVars
        ELSE /\ heap_used' = (start + size) % SizeWidth
             /\ heapBlocks' = heapBlocks \cup {[start |-> start, size |-> size]}

\* kfree does nothing.
KmallocAligned(size, align) ==
    LET al == IF align < MinAlign THEN MinAlign ELSE align
        start == align_up(heap_used, al)
        end == (start + size) % SizeWidth
    IN  IF end > HEAP_SIZE THEN UNCHANGED heapVars
        ELSE /\ heap_used' = end
             /\ heapBlocks' = heapBlocks \cup {[start |-> start, size |-> size]}

Kmalloc(size) == KmallocAligned(size, MinAlign)

\* krealloc returns a block of its own; the contents of the old one are lost.
Krealloc(size) == Kmalloc(size)

HeapCall ==
    \E size \in Sizes :
        \/ Kmalloc(size)
        \/ Krealloc(size)
        \/ \E align \in Aligns : KmallocAligned(size, align)

KernelArena == INSTANCE Arena WITH AreaSize <- HEAP_SIZE, blocks <- heapBlocks

(***************************************************************************)
(* Blocks of the kernel's heap never overlap and end inside the heap,      *)
(* however sizes and alignments are mixed.                                 *)
(***************************************************************************)
HeapImplementsArena == KernelArena!Spec
=============================================================================
