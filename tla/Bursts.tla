------------------------------- MODULE Bursts -------------------------------
(***************************************************************************)
(* Which blocks of a memory a burst visits.  Blocks are counted in bus     *)
(* words and wrap around at the end of the memory.                         *)
(***************************************************************************)
EXTENDS Integers, Sequences

CONSTANT NumBlocks  \* blocks of the memory, a power of two

Blocks == 0 .. NumBlocks - 1

\* Block of beat k (from 0).  Bursts of two and four beats wrap in their aligned line,
\* which is how a cache refills; bursts of any other length are incremental.
BeatBlock(addr, len, k) ==
  IF len \in {1, 3}
    THEN (addr - (addr % (len + 1))) + ((addr + k) % (len + 1))
    ELSE (addr + k) % NumBlocks

\* The blocks of a burst from beat k on.
BurstBlocks(addr, len, k) ==
  [j \in 1 .. len + 1 - k |-> BeatBlock(addr, len, k + j - 1)]
=============================================================================
