----------------------------- MODULE LbmValues -----------------------------
(***************************************************************************)
(* Runtime words (spec section 3): a cons pointer (payload = cell index),  *)
(* a symbol (payload = its interned name), a small int, or an enc_u word   *)
(* (the kind of a continuation frame).  The evaluator only tests the kind  *)
(* and the payload, so the bit layout is abstracted: a word is the pair   *)
(* <<kind, payload>>.                                                      *)
(***************************************************************************)
ConsPtr(i) == <<"cons", i>>
Sym(s)     == <<"sym", s>>
IntV(n)    == <<"i", n>>
EncU(n)    == <<"u", n>>

Tag(x) == x[1]
Val(x) == x[2]

IsCons(x) == Tag(x) = "cons"
IsSym(x)  == Tag(x) = "sym"

NIL     == Sym("nil")
TRUESYM == Sym("t")
EERROR  == Sym("eerror")
MERROR  == Sym("merror")

=============================================================================
