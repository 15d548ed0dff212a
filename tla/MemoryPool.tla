---------------------------- MODULE MemoryPool ----------------------------
(***************************************************************************)
(* The memory manager of "Memory Pool/mm_public.c": a block of Chunks      *)
(* chunks, of which allocated says which are handed out, searched          *)
(* cyclically from the chunk after the one handed out last.  A pointer to  *)
(* a chunk is its number; what the chunks hold is kept by the caller.      *)
(***************************************************************************)
EXTENDS Integers, FiniteSetsExt

CONSTANT Chunks    \* hm of mm_init

ASSUME ChunksAssumption == Chunks \in Nat \ {0}

Chunk == 0 .. Chunks - 1

NoChunk == -1      \* what mm_get returns when no chunk is left

PoolType == [allocated : [Chunk -> BOOLEAN], last_allocated : Chunk \cup {-1}]

mm_init == [allocated |-> [s \in Chunk |-> FALSE], last_allocated |-> -1]

\* The slot the loop of mm_get looks at in its i-th turn.
SlotAt(mm, i) == (mm.last_allocated + 1 + i) % Chunks

mm_get(mm) ==
    LET turns == {i \in Chunk : ~ mm.allocated[SlotAt(mm, i)]}
        slot == SlotAt(mm, Min(turns))
    IN  IF turns = {}
        THEN [ret |-> NoChunk, mm |-> mm]
        ELSE [ret |-> slot, mm |-> [mm EXCEPT !.allocated[slot] = TRUE,
                                              !.last_allocated = slot]]

\* The first half of mm_put, which gives the chunk back; the second half
\* clears it.
mm_put(mm, chunk) == [mm EXCEPT !.allocated[chunk] = FALSE]

\* All fields are cleared.
mm_release == [mm_init EXCEPT !.last_allocated = 0]

Allocated(mm) == {s \in Chunk : mm.allocated[s]}
=============================================================================
