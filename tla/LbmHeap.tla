------------------------------ MODULE LbmHeap ------------------------------
(***************************************************************************)
(* The value encoding and the cons-cell heap that the evaluator of         *)
(* src/src/eval_cps.c runs on (spec sections 3 and 4.1).  heap.c, env.c    *)
(* and symrepr.c are not in the source tree, so every definition here is   *)
(* modelled from the spec.                                                 *)
(*                                                                         *)
(* The free list is kept as a set; allocation takes its least cell.  A    *)
(* cell that is not allocated holds the free-list marker FreeCell.         *)
(***************************************************************************)
EXTENDS LbmValues, Integers, Sequences, FiniteSets, TLC
LOCAL INSTANCE SequencesExt

VARIABLES heap,     \* cell index -> [car, cdr]
          free,     \* the cells on the free list
          marked,   \* the mark bitmap, as the set of marked cells
          gc_stack  \* the mark phase's work stack, as a set of cells

FreeCell == [car |-> Sym("free"), cdr |-> NIL]

Cells == DOMAIN heap

(* car/cdr of a word that is not a cons pointer are nil.                   *)
Car(x) == IF IsCons(x) THEN heap[Val(x)].car ELSE NIL
Cdr(x) == IF IsCons(x) THEN heap[Val(x)].cdr ELSE NIL

(* The elements of a proper list, and its length (length() of heap.c).     *)
RECURSIVE ListElems(_)
ListElems(l) == IF IsCons(l) THEN <<Car(l)>> \o ListElems(Cdr(l)) ELSE <<>>

length(l) == Len(ListElems(l))

(* The first k cells of the free list, least first: the cells k          *)
(* successive allocations return.                                          *)
RECURSIVE Least(_, _)
Least(S, k) == IF k = 0 \/ S = {} THEN <<>>
               ELSE <<Min(S)>> \o Least(S \ {Min(S)}, k - 1)

\* (mutant) each cell one past the free cell
FreshNext(k) == [i \in DOMAIN Least(free, k) |-> Least(free, k)[i] + 1]

Fresh(k) == Least(free, k)

CanAlloc(k) == Cardinality(free) >= k

(* h with the list vals, ending in tail, written into the cells cs.       *)
WriteList(h, cs, vals, tail) ==
  [c \in DOMAIN h |->
     IF \E i \in DOMAIN cs : cs[i] = c
     THEN LET i == CHOOSE j \in DOMAIN cs : cs[j] = c
          IN [car |-> vals[i],
              cdr |-> IF i < Len(cs) THEN ConsPtr(cs[i + 1]) ELSE tail]
     ELSE h[c]]

ListHead(cs, tail) == IF cs = <<>> THEN tail ELSE ConsPtr(cs[1])

(* The cells a cell points to, and the cells root words point to.        *)
Succ(c) == {Val(x) : x \in {y \in {heap[c].car, heap[c].cdr} : IsCons(y)}}

RootCells(roots) == {Val(x) : x \in {y \in roots : IsCons(y)}}

(* The cells reachable from a set of root words.                           *)
RECURSIVE Closure(_)
Closure(S) == LET S2 == S \cup UNION {Succ(c) : c \in S}
              IN IF S2 = S THEN S ELSE Closure(S2)

Reachable(roots) == Closure(RootCells(roots))

(***************************************************************************)
(* Collect() of spec 4.1, stop-the-world: clear the mark bitmap and push  *)
(* the roots; mark one cell per step; sweep every unmarked cell onto the   *)
(* free list.                                                              *)
(***************************************************************************)
GcMarkRoots(roots) ==
  /\ marked' = {}
  /\ gc_stack' = RootCells(roots)
  /\ UNCHANGED <<heap, free>>

GcMarkStep ==
  LET c == Min(gc_stack)
  IN /\ gc_stack # {}
     /\ marked' = marked \cup {c}
     /\ gc_stack' = (gc_stack \cup Succ(c)) \ (marked \cup {c})
     /\ UNCHANGED <<heap, free>>

GcSweepStep ==
  /\ gc_stack = {}
  /\ heap' = [c \in Cells |-> IF c \in marked THEN heap[c] ELSE FreeCell]
  /\ free' = Cells \ marked
  /\ marked' = {}
  /\ UNCHANGED gc_stack

(* The list vals, ending in tail, consed up front to back the way a loop  *)
(* of cons(vals[i], acc) builds it: cell cs[1] holds vals[1] and ends the *)
(* list, cs[Len(cs)] is its head.  reverse() of heap.c builds this way.   *)
Prepend(h, cs, vals, tail) ==
  [c \in DOMAIN h |->
     IF \E i \in DOMAIN cs : cs[i] = c
     THEN LET i == CHOOSE j \in DOMAIN cs : cs[j] = c
          IN [car |-> vals[i], cdr |-> IF i = 1 THEN tail ELSE ConsPtr(cs[i - 1])]
     ELSE h[c]]

PrependHead(cs, tail) == IF cs = <<>> THEN tail ELSE ConsPtr(cs[Len(cs)])

(***************************************************************************)
(* The reader's output laid out in cells n, n+1, ...: a source form is an  *)
(* atom word (Sym, IntV) or the pair <<"list", <<forms>>>>.           *)
(***************************************************************************)
RECURSIVE LayoutExp(_, _), LayoutList(_, _)
LayoutExp(e, n) ==
  IF Tag(e) # "list" THEN [val |-> e, cells |-> <<>>, next |-> n]
  ELSE LayoutList(Val(e), n)

LayoutList(s, n) ==
  IF s = <<>> THEN [val |-> NIL, cells |-> <<>>, next |-> n]
  ELSE LET hd == LayoutExp(Head(s), n + 1)
           tl == LayoutList(Tail(s), hd.next)
       IN [val   |-> ConsPtr(n),
           cells |-> (n :> [car |-> hd.val, cdr |-> tl.val]) @@ hd.cells @@ tl.cells,
           next  |-> tl.next]
=============================================================================
