------------------------------ MODULE EvalRef ------------------------------
(***************************************************************************)
(* Reference semantics of the evaluated language (spec 4.5): a direct,     *)
(* recursive definition of what a top-level form evaluates to, against     *)
(* which the CPS machine of eval_cps.c is checked.                         *)
(*                                                                         *)
(* Source forms are runtime words for atoms (Sym, IntV) and Lst records   *)
(* for lists, the elements of a list a sequence of forms.                  *)
(* Values are runtime words for atoms, Pair records for cons data and Clo  *)
(* records for closures (parameters and body kept as data, the captured    *)
(* environment as a sequence of <<name, value>>, innermost first).         *)
(* Supported: numbers, symbols, quote, lambda, if, progn, let (letrec      *)
(* style), applications of closures and of the primitives +, = and cons,   *)
(* and define at top level.  Error kinds are not distinguished.            *)
(***************************************************************************)
EXTENDS LbmValues, Integers, Sequences
LOCAL INSTANCE FiniteSetsExt

ERR  == <<"err">>
MERR == <<"merr">>

Pair(a, d)       == <<"pair", a, d>>
Clo(ps, b, env)  == <<"clo", ps, b, env>>
PairCar(d) == d[2]
PairCdr(d) == d[3]
CloParams(f) == f[2]
CloBody(f)   == f[3]
CloEnv(f)    == f[4]

(* Symbols that evaluate to themselves (is_special in symrepr.c).          *)
SpecialSyms == {"nil", "t", "quote", "define", "progn", "lambda", "if",
                "let", "closure", "+", "=", "cons"}
Primitives  == {"+", "=", "cons"}

Lst(s) == <<"list", s>>

IsName(e) == Tag(e) = "sym"
IsNum(e)  == Tag(e) = "i"
HeadIs(e, s) == Tag(e) = "list" /\ Val(e) # <<>> /\ Val(e)[1] = Sym(s)

(* A form read as data (quote), and data read back as a form.  The empty  *)
(* list is nil, as the reader produces it.                                 *)
RECURSIVE ToData(_)
ToData(e) == IF Tag(e) # "list" THEN e
             ELSE IF Val(e) = <<>> THEN NIL
             ELSE Pair(ToData(Head(Val(e))), ToData(Lst(Tail(Val(e)))))

RECURSIVE FromData(_), DataItems(_)
FromData(d)  == IF Tag(d) = "pair" THEN Lst(DataItems(d)) ELSE d
DataItems(d) == IF Tag(d) = "pair" THEN <<FromData(PairCar(d))>> \o DataItems(PairCdr(d)) ELSE <<>>

EnvFind(env, k) ==
  LET is == {i \in DOMAIN env : env[i][1] = k}
  IN IF is = {} THEN [found |-> FALSE, val |-> NIL]
     ELSE [found |-> TRUE, val |-> env[Min(is)][2]]

EnvSet(env, k, v) ==
  LET i == Min({j \in DOMAIN env : env[j][1] = k})
  IN [env EXCEPT ![i] = <<k, v>>]

Lookup(k, env, g) ==
  IF k \in SpecialSyms THEN Sym(k)
  ELSE IF EnvFind(env, k).found THEN EnvFind(env, k).val
  ELSE IF k \in DOMAIN g THEN g[k]
  ELSE ERR

(* Bindings of names ks to values vs, the last name first.                 *)
Bind(ks, vs) == [i \in 1..Len(ks) |-> <<ks[Len(ks) - i + 1], vs[Len(ks) - i + 1]>>]

RECURSIVE SumInts(_)
SumInts(vs) == IF vs = <<>> THEN 0 ELSE Val(Head(vs)) + SumInts(Tail(vs))

PrimApply(p, vs) ==
  CASE p = "+"    -> IF \A i \in DOMAIN vs : Tag(vs[i]) = "i" THEN IntV(SumInts(vs)) ELSE ERR
    [] p = "="    -> IF Len(vs) = 2 THEN (IF vs[1] = vs[2] THEN TRUESYM ELSE NIL) ELSE ERR
    [] p = "cons" -> IF Len(vs) = 2 THEN Pair(vs[1], vs[2]) ELSE ERR

RECURSIVE RefEval(_, _, _), RefArgs(_, _, _), RefProgn(_, _, _), RefLet(_, _, _, _)

RefArgs(es, env, g) ==
  IF es = <<>> THEN [ok |-> TRUE, vals |-> <<>>]
  ELSE LET v    == RefEval(Head(es), env, g)
           rest == RefArgs(Tail(es), env, g)
       IN IF v = ERR \/ ~rest.ok THEN [ok |-> FALSE, vals |-> <<>>]
          ELSE [ok |-> TRUE, vals |-> <<v>> \o rest.vals]

RefProgn(es, env, g) ==
  IF es = <<>> THEN NIL
  ELSE LET v == RefEval(Head(es), env, g)
       IN IF v = ERR \/ Tail(es) = <<>> THEN v ELSE RefProgn(Tail(es), env, g)

(* bs: the binding forms (key value), evaluated in order, each in the      *)
(* environment where every key is already bound (letrec style).           *)
RefLet(bs, env, body, g) ==
  IF bs = <<>> THEN RefEval(body, env, g)
  ELSE LET k == Val(Val(Head(bs))[1])
           v == RefEval(Val(Head(bs))[2], env, g)
       IN IF v = ERR THEN ERR
          ELSE RefLet(Tail(bs), EnvSet(env, k, v), body, g)

RefApply(es, env, g) ==
  LET args == RefArgs(Tail(es), env, g)
      h    == es[1]
  IN IF ~args.ok THEN ERR
     ELSE IF IsName(h) /\ Val(h) \in Primitives THEN PrimApply(Val(h), args.vals)
     ELSE LET f == RefEval(h, env, g)
          IN IF Tag(f) # "clo" THEN ERR
             ELSE LET ps == [i \in DOMAIN DataItems(CloParams(f)) |-> Val(DataItems(CloParams(f))[i])]
                  IN IF Len(ps) # Len(args.vals) THEN ERR
                     ELSE RefEval(FromData(CloBody(f)), Bind(ps, args.vals) \o CloEnv(f), g)

RefEval(e, env, g) ==
  IF IsNum(e) THEN e
  ELSE IF IsName(e) THEN Lookup(Val(e), env, g)
  ELSE IF Val(e) = <<>> THEN NIL
  ELSE IF HeadIs(e, "quote")  THEN ToData(Val(e)[2])
  ELSE IF HeadIs(e, "progn")  THEN RefProgn(Tail(Val(e)), env, g)
  ELSE IF HeadIs(e, "lambda") THEN Clo(ToData(Val(e)[2]), ToData(Val(e)[3]), env)
  ELSE IF HeadIs(e, "if") THEN
         LET c == RefEval(Val(e)[2], env, g)
         IN IF c = ERR THEN ERR
            ELSE IF c = TRUESYM THEN RefEval(Val(e)[3], env, g) ELSE RefEval(Val(e)[4], env, g)
  ELSE IF HeadIs(e, "let") THEN
         LET bf == Val(e)[2]
             bs == IF Tag(bf) = "list" THEN Val(bf) ELSE <<>>
         IN RefLet(bs, Bind([i \in 1..Len(bs) |-> Val(Val(bs[i])[1])],
                            [i \in 1..Len(bs) |-> NIL]) \o env, Val(e)[3], g)
  ELSE RefApply(Val(e), env, g)

(* A top-level form: its value and the global environment after it.       *)
RefTop(e, g) ==
  IF HeadIs(e, "define") THEN
    LET k == Val(e)[2]
        v == RefEval(Val(e)[3], <<>>, g)
    IN IF ~IsName(k) \/ k = NIL \/ v = ERR THEN [val |-> ERR, g |-> g]
       ELSE [val |-> TRUESYM,
             g   |-> [x \in DOMAIN g \cup {Val(k)} |-> IF x = Val(k) THEN v ELSE g[x]]]
  ELSE [val |-> RefEval(e, <<>>, g), g |-> g]
=============================================================================
