---------------------------- MODULE MCDefragMem ----------------------------
(***************************************************************************)
(* Pools of 13 to 16 words on a 32-bit build with four handle cells.      *)
(***************************************************************************)
EXTENDS DefragMem

MCWordBytes == 4
MCPoolBase == 4096
MCHandles == {1, 2, 3, 4}

(* Allocation and free: 4-byte arrays (4-word records) and a pool that    *)
(* holds a record for every handle, so no allocation fails.               *)
MCRoomyWords == 16
MCUniformSizes == {4}

(* Compaction: the same records in a pool one word short of four, so an  *)
(* allocation fails, sets the flag, and the next one compacts.            *)
MCTightWords == 13

(* First fit: records of 4 and 5 words in a pool of 14.                   *)
MCFitWords == 14
MCMixedSizes == {4, 8}

(* Zero-byte arrays beside 4-byte ones in the roomy pool: a 0-byte record *)
(* is [0, data pointer, back pointer], its size word equal to a hole's.    *)
MCZeroSizes == {0, 4}
=============================================================================
