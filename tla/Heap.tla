---- MODULE Heap ----
(***************************************************************************)
(* The kernel's bump allocator (libc.cpp): malloc hands out the next bytes *)
(* of one static array, free does nothing, and only reset_heap moves the   *)
(* pointer back.  The module is passive: a client keeps heap_ptr in its    *)
(* own state and moves it with Bump each time it calls malloc.             *)
(*                                                                         *)
(* Requests are some hundreds of bytes and the array has 4 MB, so neither  *)
(* size + 7 nor heap_ptr + size reaches 2^32 and no sum here wraps.        *)
(***************************************************************************)
EXTENDS Integers

CONSTANTS HEAP_BASE,    \* the address of heap[0]
          HEAP_SIZE     \* the bytes of the heap array

ASSUME HeapAssumption == HEAP_BASE \in Nat \ {0} /\ HEAP_SIZE \in Nat

Null == 0               \* nullptr; the kernel runs unpaged, so address 0 is memory too

\* Mutant: the size is rounded down.
AlignDown(size) == (size \div 8) * 8

\* (size + 7) & ~7
Align(size) == ((size + 7) \div 8) * 8

Fits(p, size) == p + Align(size) <= HEAP_SIZE

\* malloc(size) called with heap_ptr = p
malloc(p, size) == IF size = 0 \/ ~Fits(p, size) THEN Null ELSE HEAP_BASE + p

\* Mutant: the pointer moves although the request was refused.
BumpUnchecked(p, size) == p + Align(size)

\* the value of heap_ptr after that call
Bump(p, size) == IF Fits(p, size) THEN p + Align(size) ELSE p
====
