----------------------------- MODULE DefragMem -----------------------------
(***************************************************************************)
(* The defragmentable byte pool of lbm_defrag_mem.c.                       *)
(*                                                                         *)
(* The pool is an array of MemWords words after its two-word header        *)
(* {size, flags}.  A record is three header words {size in bytes, data     *)
(* pointer, raw index of the handle cell} followed by bs2ws(size) payload  *)
(* words; a zero word is a hole.  The handle cell's car holds the record's *)
(* byte address.  Words are integers, as in the code: a byte address is    *)
(* PoolBase + 4 * index, far larger than the pool, so a scan that lands on *)
(* a data pointer jumps out of the pool as the C loop does.  Payload       *)
(* words are never written by the pool and stay zero.                      *)
(*                                                                         *)
(* Allocation, free (called by the GC for a dead handle) and destroy       *)
(* (called by the GC for a dead pool) each run to completion at a          *)
(* GC-safe point, so each is one atomic action.                             *)
(***************************************************************************)
EXTENDS Integers, FiniteSets

CONSTANTS MemWords,   \* size of the pool in words (DEFRAG_MEM_SIZE)
          WordBytes,  \* sizeof(lbm_uint)
          PoolBase,   \* byte address of mem_data[0]
          Handles,    \* cons cells that may become array handles
          Sizes,      \* byte sizes requested of lbm_defrag_mem_alloc
          NilCar      \* ENC_SYM_NIL in a car

ASSUME MemWords \in Nat \ {0} /\ WordBytes \in {4, 8}
ASSUME PoolBase > (MemWords + 3) * WordBytes
ASSUME 0 \notin Handles /\ Sizes \subseteq Nat

(* Cell 0 of the cons heap is some other live cell, never a handle.       *)
HeapCells == {0} \cup Handles
Words == 0..MemWords - 1

VARIABLES mem,      \* mem_data[0 .. MemWords-1]
          flags,    \* DEFRAG_MEM_FLAGS: compact before the next search
          car,      \* car of each cons cell
          live,     \* handle cells holding a successfully allocated array
          asked,    \* ghost: the byte size each live handle was allocated with
          alive,    \* FALSE once lbm_defrag_mem_destroy has freed the pool
          overrun   \* ghost: some step read or wrote past the pool

vars == <<mem, flags, car, live, asked, alive, overrun>>

bs2ws(bs) == IF bs % WordBytes = 0 THEN bs \div WordBytes ELSE bs \div WordBytes + 1

(* &mem_data[i], and back.                                                 *)
Addr(i) == PoolBase + i * WordBytes

\* (mutant) the pointer difference taken in bytes, not words
IndexOfBytes(a) == a - PoolBase

IndexOf(a) == (a - PoolBase) \div WordBytes

(* Words a record starting at p occupies, by its size word.                *)
RecWords(m, p) == bs2ws(m[p]) + 3
InPool(p, k) == p \in Words /\ p + k - 1 \in Words

(* memset(&m[p], 0, k words), keeping only the words inside the pool.     *)
Zero(m, p, k) == [j \in Words |-> IF j \in p..p + k - 1 THEN 0 ELSE m[j]]

(* memmove(&m[t], &m[s], k words) for t < s; source words past the pool  *)
(* are not modelled (the ghost overrun records the access).                *)
Memmove(m, t, s, k) ==
  [j \in Words |-> IF j \in t..t + k - 1 /\ s + (j - t) \in Words
                   THEN m[s + (j - t)] ELSE m[j]]

(* lbm_set_car(v, a) where v is a raw number: with the value layout of     *)
(* spec section 3 (low four bits 0000 = cons pointer, payload = index) it  *)
(* writes the car of cell v \div 16 when v is a multiple of 16, and does   *)
(* nothing for any other v.                                                 *)
SetCarRaw(cr, v, a) ==
  IF v % 16 = 0 /\ v \div 16 \in DOMAIN cr THEN [cr EXCEPT ![v \div 16] = a] ELSE cr

Init ==
  /\ mem = [i \in Words |-> 0]
  /\ flags = 0
  /\ car = [c \in HeapCells |-> NilCar]
  /\ live = {}
  /\ asked = [c \in Handles |-> 0]
  /\ alive = TRUE
  /\ overrun = FALSE

(***************************************************************************)
(* lbm_defrag_mem_defrag: walk the records left to right and slide each   *)
(* into the hole before it.  The result carries the new memory, the cars  *)
(* and whether a move read past the pool.                                  *)
(***************************************************************************)
RECURSIVE DefragFrom(_, _, _, _, _)
DefragFrom(m, cr, oob, i, hole_start) ==
  IF i >= MemWords THEN [mem |-> m, car |-> cr, oob |-> oob]
  ELSE IF m[i] = 0 THEN DefragFrom(m, cr, oob, i + 1, hole_start)
  ELSE LET w         == RecWords(m, i)
           move_dist == i - hole_start
           clear_ix  == i - move_dist
           moved     == Zero(Memmove(m, hole_start, i, w), clear_ix, move_dist)
       IN IF hole_start = i
          THEN DefragFrom(m, cr, oob \/ ~InPool(i, w), i + w, i + w)
          ELSE DefragFrom(moved, SetCarRaw(cr, moved[hole_start + 2], Addr(hole_start)),
                          oob \/ ~InPool(i, w), i + w, hole_start + w)

(***************************************************************************)
(* The first-fit search of lbm_defrag_mem_alloc: a two-state loop over    *)
(* INIT (skip records, find a zero word) and FREE_LEN (count zero words).  *)
(***************************************************************************)
\* (mutant) a record skipped by the pool's two-word header size, not three
RECURSIVE ScanHeader2(_, _, _, _, _, _)
ScanHeader2(m, alloc_words, i, state, free_words, free_start) ==
  IF i >= MemWords THEN [found |-> FALSE, start |-> free_start]
  ELSE IF state = "INIT"
  THEN IF m[i] = 0 THEN ScanHeader2(m, alloc_words, i + 1, "FREE_LEN", 1, i)
       ELSE ScanHeader2(m, alloc_words, i + bs2ws(m[i]) + 2, "INIT", free_words, free_start)
  ELSE IF m[i] = 0
  THEN IF free_words + 1 >= alloc_words THEN [found |-> TRUE, start |-> free_start]
       ELSE ScanHeader2(m, alloc_words, i + 1, "FREE_LEN", free_words + 1, free_start)
  ELSE ScanHeader2(m, alloc_words, i + 1, "INIT", free_words, free_start)

RECURSIVE Scan(_, _, _, _, _, _)
Scan(m, alloc_words, i, state, free_words, free_start) ==
  IF i >= MemWords THEN [found |-> FALSE, start |-> free_start]
  ELSE IF state = "INIT"
  THEN IF m[i] = 0 THEN Scan(m, alloc_words, i + 1, "FREE_LEN", 1, i)
       ELSE Scan(m, alloc_words, i + bs2ws(m[i]) + 3, "INIT", free_words, free_start)
  ELSE IF m[i] = 0
  THEN IF free_words + 1 >= alloc_words THEN [found |-> TRUE, start |-> free_start]
       ELSE Scan(m, alloc_words, i + 1, "FREE_LEN", free_words + 1, free_start)
  ELSE Scan(m, alloc_words, i + 1, "INIT", free_words, free_start)

(* Defrag first when the flag is set.                                      *)
Prepared == IF flags # 0 THEN DefragFrom(mem, car, FALSE, 0, 0)
            ELSE [mem |-> mem, car |-> car, oob |-> FALSE]

(***************************************************************************)
(* lbm_defrag_mem_alloc(pool, bytes) with the handle cell c taken from the *)
(* cons heap (if the heap has no cell the call returns at once).  On      *)
(* success the record header is written and c's car points at it; on     *)
(* failure the flag is set and c is cleared for the GC.                    *)
\* (mutant) the data pointer set to the record address plus 3 bytes
AllocDataBytePtr(c, bytes) ==
  LET d     == Prepared
      found == Scan(d.mem, bs2ws(bytes) + 3, 0, "INIT", 0, 0)
      at    == found.start
  IN /\ alive
     /\ c \notin live
     /\ overrun' = (overrun \/ d.oob)
     /\ IF found.found
        THEN /\ mem' = [d.mem EXCEPT ![at] = bytes, ![at + 1] = Addr(at) + 3, ![at + 2] = c]
             /\ car' = [d.car EXCEPT ![c] = Addr(at)]
             /\ flags' = 0
             /\ live' = live \cup {c}
             /\ asked' = [asked EXCEPT ![c] = bytes]
        ELSE /\ mem' = d.mem
             /\ car' = [d.car EXCEPT ![c] = NilCar]
             /\ flags' = 1
             /\ UNCHANGED <<live, asked>>
     /\ UNCHANGED alive

(***************************************************************************)
Alloc(c, bytes) ==
  LET d     == Prepared
      found == Scan(d.mem, bs2ws(bytes) + 3, 0, "INIT", 0, 0)
      at    == found.start
  IN /\ alive
     /\ c \notin live
     /\ overrun' = (overrun \/ d.oob)
     /\ IF found.found
        THEN /\ mem' = [d.mem EXCEPT ![at] = bytes, ![at + 1] = Addr(at + 3), ![at + 2] = c]
             /\ car' = [d.car EXCEPT ![c] = Addr(at)]
             /\ flags' = 0
             /\ live' = live \cup {c}
             /\ asked' = [asked EXCEPT ![c] = bytes]
        ELSE /\ mem' = d.mem
             /\ car' = [d.car EXCEPT ![c] = NilCar]
             /\ flags' = 1
             /\ UNCHANGED <<live, asked>>
     /\ UNCHANGED alive

(***************************************************************************)
(* lbm_defrag_mem_free(car(c)), called by the GC when handle c dies: wipe *)
(* 3 + bs2ws(size) words from the address in the car; the GC then frees c. *)
\* (mutant) one word too many wiped
FreeOneMore(c) ==
  LET p == IndexOf(car[c])
      k == IF p \in Words THEN RecWords(mem, p) ELSE 3
  IN /\ alive
     /\ c \in live
     /\ mem' = Zero(mem, p, k + 1)
     /\ overrun' = (overrun \/ ~InPool(p, k + 1))
     /\ car' = [car EXCEPT ![c] = NilCar]
     /\ live' = live \ {c}
     /\ UNCHANGED <<flags, asked, alive>>

(***************************************************************************)
Free(c) ==
  LET p == IndexOf(car[c])
      k == IF p \in Words THEN RecWords(mem, p) ELSE 3
  IN /\ alive
     /\ c \in live
     /\ mem' = Zero(mem, p, k)
     /\ overrun' = (overrun \/ ~InPool(p, k))
     /\ car' = [car EXCEPT ![c] = NilCar]
     /\ live' = live \ {c}
     /\ UNCHANGED <<flags, asked, alive>>

(***************************************************************************)
(* lbm_defrag_mem_destroy, called by the GC when the pool dies: for every *)
(* record found by the walk, clear its back-pointer cell and wipe it, then *)
(* free the pool.                                                          *)
(***************************************************************************)
RECURSIVE DestroyFrom(_, _, _, _)
DestroyFrom(m, cr, oob, i) ==
  IF i >= MemWords THEN [car |-> cr, oob |-> oob]
  ELSE IF m[i] = 0 THEN DestroyFrom(m, cr, oob, i + 1)
  ELSE LET k == RecWords(m, i)
           b == IF i + 2 \in Words THEN m[i + 2] ELSE -1
       IN DestroyFrom(Zero(m, i, k),
                      IF b \in DOMAIN cr THEN [cr EXCEPT ![b] = NilCar] ELSE cr,
                      oob \/ ~InPool(i, k), i + k)

Destroy ==
  LET d == DestroyFrom(mem, car, FALSE, 0)
  IN /\ alive
     /\ alive' = FALSE
     /\ car' = d.car
     /\ overrun' = (overrun \/ d.oob)
     /\ mem' = [i \in Words |-> 0]
     /\ UNCHANGED <<flags, live, asked>>

Next ==
  \/ \E c \in Handles, b \in Sizes : Alloc(c, b)
  \/ \E c \in Handles : Free(c)
  \/ Destroy

Spec == Init /\ [][Next]_vars

(***************************************************************************)
(* Properties.                                                             *)
(***************************************************************************)
(* Every pool word is a hole or a header field: a size, the address of a  *)
(* word of the pool, or a cell index.                                      *)
WordValues == {0} \cup Sizes \cup {Addr(j) : j \in 0..MemWords} \cup HeapCells

TypeOK ==
  /\ mem \in [Words -> WordValues]
  /\ flags \in {0, 1}
  /\ car \in [HeapCells -> Nat \cup {NilCar}]
  /\ live \subseteq Handles
  /\ asked \in [Handles -> Sizes \cup {0}]
  /\ alive \in BOOLEAN
  /\ overrun \in BOOLEAN

(* The record starts a left-to-right walk of the pool finds, and the      *)
(* words those records cover: the reading of the pool every loop of the    *)
(* code shares.                                                            *)
RECURSIVE RecordsFrom(_, _)
RecordsFrom(m, i) ==
  IF i >= MemWords THEN {}
  ELSE IF m[i] = 0 THEN RecordsFrom(m, i + 1)
  ELSE {i} \cup RecordsFrom(m, i + RecWords(m, i))

Covered(m) == UNION {p..p + RecWords(m, p) - 1 : p \in RecordsFrom(m, 0)}

(* A run of n hole words, the reference first-fit search looks for.       *)
HoleFits(m, n) == \E s \in Words : \A j \in s..s + n - 1 : j \in Words \ Covered(m)

(* Spec P2 / I4: every live array handle's car is the address of a record *)
(* of the pool, of the size it was allocated with, whose back pointer is   *)
(* the handle; across allocations, frees and the compaction run by an     *)
(* allocation after a failed one.                                          *)
BackPointers ==
  alive =>
    \A c \in live :
      LET p == IndexOf(car[c])
      IN /\ p \in RecordsFrom(mem, 0)
         /\ mem[p] = asked[c]
         /\ mem[p + 1] = Addr(p + 3)
         /\ mem[p + 2] = c

(* No loop of the pool reads or writes a word outside it.                 *)
NoOverrun == ~overrun

(* An allocation fails only when, after any compaction it ran, the pool   *)
(* has no run of hole words long enough for the record (first fit).        *)
NoSpuriousFailure ==
  [][\A c \in Handles, b \in Sizes :
       Alloc(c, b) /\ c \notin live' => ~HoleFits(mem', bs2ws(b) + 3)]_vars

(* A successful allocation places its whole record on hole words: no word *)
(* of a record the walk of the (compacted) pool finds is overwritten, even *)
(* when earlier frees and compactions left the pool fragmented.            *)
AllocOnHoles ==
  [][\A c \in Handles, b \in Sizes :
       Alloc(c, b) /\ c \in live' =>
         LET at == IndexOf(car'[c])
             m  == Prepared.mem
         IN /\ at + bs2ws(b) + 2 \in Words
            /\ \A j \in at..at + bs2ws(b) + 2 : m[j] = 0 /\ j \notin Covered(m)]_vars

=============================================================================
