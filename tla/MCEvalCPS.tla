----------------------------- MODULE MCEvalCPS -----------------------------
(***************************************************************************)
(* Programs and heap sizes for checking EvalCPS.                           *)
(***************************************************************************)
EXTENDS EvalCPS

S(x) == Sym(x)
N(n) == IntV(n)
L(s) == Lst(s)

IdLambda == L(<<S("lambda"), L(<<S("x")>>), S("x")>>)

(* Closures: define, call, arity error, a closure as a result.            *)
ProgClosure ==
  << L(<<S("define"), S("id"), IdLambda>>),
     L(<<S("id"), N(5)>>),
     L(<<S("id")>>),
     S("id") >>

(* The letrec-style let of spec scenario S3, and a let whose value names *)
(* its own key: pre-bound to nil, it shadows the outer x (value nil).    *)
ProgLet ==
  << L(<<S("let"), L(<<L(<<S("x"), N(1)>>),
                      L(<<S("y"), L(<<S("+"), S("x"), N(1)>>)>>)>>),
         L(<<S("+"), S("x"), S("y")>>)>>),
     L(<<S("let"), L(<<L(<<S("x"), N(5)>>)>>),
         L(<<S("let"), L(<<L(<<S("x"), S("x")>>)>>), S("x")>>)>>) >>

(* if, progn, quote, an empty let, bad applications, cons, redefinition. *)
ProgForms ==
  << L(<<S("if"), L(<<S("="), N(1), N(1)>>), L(<<S("progn"), N(1), N(2)>>), N(3)>>),
     L(<<S("progn")>>),
     L(<<S("quote"), L(<<S("a"), S("b")>>)>>),
     L(<<S("let"), S("nil"), N(7)>>),
     L(<<N(5)>>),
     L(<<S("nil")>>),
     L(<<S("cons"), N(2), N(2)>>),
     S("zz"),
     L(<<S("define"), S("nil"), N(1)>>),
     L(<<S("define"), S("k"), N(1)>>),
     L(<<S("define"), S("k"), N(2)>>),
     S("k") >>

(* A closure called where its env must be restored afterwards.           *)
ProgEnvAfterCall ==
  << L(<<S("define"), S("g"), IdLambda>>),
     L(<<S("let"), L(<<L(<<S("a"), N(5)>>)>>),
         L(<<S("progn"), L(<<S("g"), N(1)>>), S("a")>>)>>) >>

(* A loop by self-tail-recursion in the tail of a progn.                  *)
ProgTailLoop ==
  << L(<<S("define"), S("f"),
         L(<<S("lambda"), L(<<S("n")>>),
             L(<<S("progn"), S("n"), L(<<S("f"), S("n")>>)>>)>>)>>),
     L(<<S("f"), N(1)>>) >>

MCPrograms == {ProgClosure, ProgLet, ProgForms}
MCEnvPrograms == {ProgEnvAfterCall}
MCLetPrograms == {ProgLet}
MCTailPrograms == {ProgTailLoop}
MCRoomyHeap == {20}
MCExtraCells == (0..12) \cup MCRoomyHeap
MCNonGcMod == 1000
MCStackCap == 100
=============================================================================
