------------------------------ MODULE EvalCPS ------------------------------
(***************************************************************************)
(* The CPS evaluator of src/src/eval_cps.c: run_eval's loop, one action    *)
(* per branch of its dispatch on curr_exp and one per continuation kind of *)
(* apply_continuation, over the cons heap of LbmHeap; eval_cps_program     *)
(* drives it over the top-level forms of a program.                        *)
(*                                                                         *)
(* pc records where the worker is:                                         *)
(*   "form"     in eval_cps_program, about to start the next form;        *)
(*   "loop"     at the top of run_eval's while loop (done test, GC         *)
(*              prologue);                                                 *)
(*   "gc"       in heap_perform_gc_aux, marking and sweeping;              *)
(*   "step"     after the prologue: apply a continuation or dispatch;      *)
(*   "let_spin" inside the LET pre-binding loop after a failed cons;       *)
(*   "finished" eval_cps_program has returned.                            *)
(* The continuation stack K is a sequence of words, its top the last.     *)
(***************************************************************************)
EXTENDS LbmHeap, EvalRef
LOCAL INSTANCE SequencesExt

CONSTANTS Programs,    \* the programs the reader may hand over (Seq of forms)
          ExtraCells,  \* the numbers of free cells left after reading one
          NonGcMod,    \* 2^32: non_gc is a uint32_t
          StackCap     \* the depth the continuation stack may reach

ASSUME NonGcMod \in Nat \ {0} /\ StackCap \in Nat

VARIABLES genv,        \* eval_cps_global_env
          program,     \* ctx->program
          curr,        \* eval_cps_program's curr: the forms not yet started
          curr_exp,    \* ctx->curr_exp
          curr_env,    \* ctx->curr_env
          K,           \* ctx->K
          r,           \* run_eval's r
          done, perform_gc, app_cont, non_gc,
          pc,
          source,      \* the program as read (auxiliary)
          results,     \* the decoded result of every completed form (auxiliary)
          g0           \* the decoded global env when the form started (auxiliary)

vars == <<heap, free, marked, gc_stack, genv, program, curr, curr_exp, curr_env, K, r, done,
          perform_gc, app_cont, non_gc, pc, source, results, g0>>

(* Continuation kinds (the #defines at the top of eval_cps.c).            *)
(* IF is a TLA+ keyword: its kind is IF_K.                                  *)
DONE == 1
SET_GLOBAL_ENV == 2
FUNCTION_APP == 3
FUNCTION == 4
BIND_TO_KEY_REST == 5
IF_K == 6
ARG_LIST == 7
PROGN_REST == 9

(* The VALUE 0 that some continuations return: a cons pointer to cell 0.  *)
ZERO == ConsPtr(0)

(* The word i from the top of K (1 = top), and K with n words popped.     *)
Peek(i) == K[Len(K) - i + 1]

\* (mutant) one word too few popped
PopOneShort(n) == SubSeq(K, 1, Len(K) - n + 1)

Pop(n)  == SubSeq(K, 1, Len(K) - n)

Second(x) == Car(Cdr(x))
Third(x)  == Car(Cdr(Cdr(x)))
Fourth(x) == Car(Cdr(Cdr(Cdr(x))))

(***************************************************************************)
(* env.c, symrepr.c and fundamental.c are not in the source tree: the      *)
(* helpers below follow the spec (sections 3, 4.5 and 4.7).               *)
(***************************************************************************)
SpecialWords == {Sym(s) : s \in SpecialSyms}

(* The first binding of key in the association list env, if any.          *)
BindingOf(key, env) ==
  LET bs == SelectSeq(ListElems(env), LAMBDA b : Car(b) = key)
  IN IF bs = <<>> THEN NIL ELSE bs[1]

(* env_lookup: special symbols evaluate to themselves.                    *)
env_lookup(key, env) ==
  IF key \in SpecialWords THEN [found |-> TRUE, val |-> key]
  ELSE LET b == BindingOf(key, env)
       IN [found |-> IsCons(b), val |-> Cdr(b)]

(* env_modify_binding: set the value of the first binding of key.         *)
env_modify_binding(h, env, key, val) ==
  LET b == BindingOf(key, env)
  IN IF IsCons(b) THEN [h EXCEPT ![Val(b)].cdr = val] ELSE h

(* env_build_params_args: a cons(param, arg) binding, then its spine cell, *)
(* for each parameter in order, in front of env0; 2 cells per parameter.  *)
BuildEnv(h, cs, ps, as, env0) ==
  LET n == Len(ps)
  IN [c \in DOMAIN h |->
        IF \E i \in 1..n : c = cs[2 * i - 1]
        THEN LET i == CHOOSE j \in 1..n : c = cs[2 * j - 1]
             IN [car |-> ps[i], cdr |-> as[i]]
        ELSE IF \E i \in 1..n : c = cs[2 * i]
        THEN LET i == CHOOSE j \in 1..n : c = cs[2 * j]
             IN [car |-> ConsPtr(cs[2 * i - 1]),
                 cdr |-> IF i = 1 THEN env0 ELSE ConsPtr(cs[2 * i - 2])]
        ELSE h[c]]

BuiltEnvHead(cs, env0) == PrependHead([i \in 1..(Len(cs) \div 2) |-> cs[2 * i]], env0)

(* fundamental_exec on the argument words of the call, in source order:  *)
(* the result word and the number of cells it allocates.                  *)
Primitive(fun) == fun \in {Sym(p) : p \in Primitives}

PrimResult(fun, as) ==
  CASE fun = Sym("+") ->
         IF \A i \in DOMAIN as : Tag(as[i]) = "i"
         THEN IntV(FoldLeft(LAMBDA acc, x : acc + Val(x), 0, as)) ELSE EERROR
    [] fun = Sym("=") ->
         IF Len(as) = 2 THEN (IF as[1] = as[2] THEN TRUESYM ELSE NIL) ELSE EERROR
    [] OTHER -> EERROR

PrimCells(fun, as) == IF fun = Sym("cons") /\ Len(as) = 2 THEN 1 ELSE 0
(* The cells an allocation of k cells returns; when fewer are free, the   *)
(* conses that fail leave the free list empty and the heap unchanged.     *)
Exhaust == /\ free' = {}
           /\ UNCHANGED heap

(***************************************************************************)
(* eval_cps_init (the global env ((nil . nil)) in cells 0 and 1), then the *)
(* reader's output for a program in the cells after them.                 *)
(***************************************************************************)
Init ==
  \E p \in Programs, extra \in ExtraCells :
    LET lay == LayoutList(p, 2)
        top == lay.next + extra - 1
    IN /\ heap = [c \in 0..top |->
                    IF c = 0 THEN [car |-> NIL, cdr |-> NIL]
                    ELSE IF c = 1 THEN [car |-> ConsPtr(0), cdr |-> NIL]
                    ELSE IF c \in DOMAIN lay.cells THEN lay.cells[c]
                    ELSE FreeCell]
       /\ free = lay.next..top
       /\ marked = {}
       /\ gc_stack = {}
       /\ genv = ConsPtr(1)
       /\ program = lay.val
       /\ curr = lay.val
       /\ curr_exp = NIL
       /\ curr_env = NIL
       /\ K = <<>>
       /\ r = NIL
       /\ done = FALSE
       /\ perform_gc = FALSE
       /\ app_cont = FALSE
       /\ non_gc = 0
       /\ pc = "form"
       /\ source = p
       /\ results = <<>>
       /\ g0 = [x \in {"nil"} |-> NIL]

(***************************************************************************)
(* Decoding heap words into the values of EvalRef (for the results and    *)
(* the refinement mapping).  A closure is a list headed by the closure    *)
(* symbol; eerror and merror are the two error results.  depth bounds the *)
(* walk should the heap ever hold a cycle.                                 *)
(***************************************************************************)
RECURSIVE Decode(_, _), DecodeEnv(_, _)
Decode(x, depth) ==
  IF depth = 0 THEN <<"cycle">>
  ELSE IF x = EERROR THEN ERR
  ELSE IF x = MERROR THEN MERR
  ELSE IF ~IsCons(x) THEN x
  ELSE IF Car(x) = Sym("closure")
  THEN Clo(Decode(Second(x), depth - 1), Decode(Third(x), depth - 1),
           DecodeEnv(Fourth(x), depth - 1))
  ELSE Pair(Decode(Car(x), depth - 1), Decode(Cdr(x), depth - 1))

DecodeEnv(env, depth) ==
  LET bs == ListElems(env)
  IN [i \in DOMAIN bs |-> <<Val(Car(bs[i])), Decode(Cdr(bs[i]), depth)>>]

Value(x) == Decode(x, Cardinality(Cells))

(* The global env as a function of names: the first binding of each.      *)
DecodeGlobal ==
  LET bs == ListElems(genv)
  IN [k \in {Val(Car(b)) : b \in Range(bs)} |-> Value(Cdr(BindingOf(Sym(k), genv)))]

(***************************************************************************)
(* eval_cps_program: start the next form with a cleared stack and an      *)
(* empty local env (run_eval's prologue pushes DONE), or return.          *)
(***************************************************************************)
StartForm ==
  /\ pc = "form"
  /\ IsCons(curr)
  /\ curr_exp' = Car(curr)
  /\ curr_env' = NIL
  /\ K' = <<EncU(DONE)>>
  /\ r' = NIL
  /\ done' = FALSE
  /\ perform_gc' = FALSE
  /\ app_cont' = FALSE
  /\ non_gc' = 0
  /\ g0' = DecodeGlobal
  /\ pc' = "loop"
  /\ UNCHANGED <<heap, free, marked, gc_stack, genv, program, curr, source, results>>

Finish ==
  /\ pc = "form"
  /\ ~IsCons(curr)
  /\ pc' = "finished"
  /\ UNCHANGED <<heap, free, marked, gc_stack, genv, program, curr, curr_exp, curr_env, K, r,
                 done, perform_gc, app_cont, non_gc, source, results, g0>>

(* run_eval returns r once done; eval_cps_program moves to the next form. *)
Return ==
  /\ pc = "loop"
  /\ done
  /\ results' = Append(results, Value(r))
  /\ curr' = Cdr(curr)
  /\ pc' = "form"
  /\ UNCHANGED <<heap, free, marked, gc_stack, genv, program, curr_exp, curr_env, K, r, done,
                 perform_gc, app_cont, non_gc, source, g0>>

(***************************************************************************)
(* The prologue of run_eval's loop.                                        *)
(***************************************************************************)
\* A collection was requested before any step followed the last one.
GcNoProgress ==
  /\ pc = "loop" /\ ~done
  /\ perform_gc /\ non_gc = 0
  /\ done' = TRUE
  /\ r' = MERROR
  /\ UNCHANGED <<heap, free, marked, gc_stack, genv, program, curr, curr_exp, curr_env, K,
                 perform_gc, app_cont, non_gc, pc, source, results, g0>>

\* (mutant) the collector not told about the continuation stack
RootsWithoutStack == {genv, curr_env, curr_exp, program, r}

Roots == {genv, curr_env, curr_exp, program, r} \cup Range(K)

\* (mutant) non_gc not reset by a collection
CollectKeepCount ==
  /\ pc = "loop" /\ ~done
  /\ perform_gc /\ non_gc # 0
  /\ GcMarkRoots(Roots)
  /\ perform_gc' = FALSE
  /\ pc' = "gc"
  /\ UNCHANGED <<genv, program, curr, curr_exp, curr_env, K, r, done,
                 app_cont, non_gc, source, results, g0>>

(* heap_perform_gc_aux(global env, curr_env, curr_exp, program, r, K).    *)
Collect ==
  /\ pc = "loop" /\ ~done
  /\ perform_gc /\ non_gc # 0
  /\ non_gc' = 0
  /\ GcMarkRoots(Roots)
  /\ perform_gc' = FALSE
  /\ pc' = "gc"
  /\ UNCHANGED <<genv, program, curr, curr_exp, curr_env, K, r, done,
                 app_cont, source, results, g0>>

GcMark ==
  /\ pc = "gc"
  /\ GcMarkStep
  /\ UNCHANGED <<genv, program, curr, curr_exp, curr_env, K, r, done,
                 perform_gc, app_cont, non_gc, pc, source, results, g0>>

GcSweep ==
  /\ pc = "gc"
  /\ GcSweepStep
  /\ pc' = "step"
  /\ UNCHANGED <<genv, program, curr, curr_exp, curr_env, K, r, done,
                 perform_gc, app_cont, non_gc, source, results, g0>>

CountStep ==
  /\ pc = "loop" /\ ~done
  /\ ~perform_gc
  /\ non_gc' = (non_gc + 1) % NonGcMod
  /\ pc' = "step"
  /\ UNCHANGED <<heap, free, marked, gc_stack, genv, program, curr, curr_exp, curr_env, K, r,
                 done, perform_gc, app_cont, source, results, g0>>
(***************************************************************************)
(* run_eval's dispatch on curr_exp when no continuation is pending.       *)
(***************************************************************************)
(* The variables a dispatch or continuation step leaves alone.            *)
aux == <<marked, gc_stack, program, curr, source, results, g0>>

Dispatch == pc = "step" /\ ~app_cont

HeadIsSym(s) == IsCons(curr_exp) /\ Car(curr_exp) = Sym(s)

SpecialForms == {"quote", "define", "progn", "lambda", "if", "let"}

(* A symbol bound locally or globally.                                     *)
EvalSymbol ==
  LET loc  == env_lookup(curr_exp, curr_env)
      glob == env_lookup(curr_exp, genv)
  IN /\ Dispatch /\ IsSym(curr_exp)
     /\ loc.found \/ glob.found
     /\ r' = IF loc.found THEN loc.val ELSE glob.val
     /\ app_cont' = TRUE
     /\ pc' = "loop"
     /\ UNCHANGED <<heap, free, genv, curr_exp, curr_env, K, done, perform_gc,
                    non_gc, aux>>

EvalUnbound ==
  /\ Dispatch /\ IsSym(curr_exp)
  /\ ~env_lookup(curr_exp, curr_env).found
  /\ ~env_lookup(curr_exp, genv).found
  /\ r' = EERROR
  /\ done' = TRUE
  /\ pc' = "loop"
  /\ UNCHANGED <<heap, free, genv, curr_exp, curr_env, K, perform_gc, app_cont,
                 non_gc, aux>>

EvalSelf ==
  /\ Dispatch /\ Tag(curr_exp) = "i"
  /\ r' = curr_exp
  /\ app_cont' = TRUE
  /\ pc' = "loop"
  /\ UNCHANGED <<heap, free, genv, curr_exp, curr_env, K, done, perform_gc,
                 non_gc, aux>>

EvalQuote ==
  /\ Dispatch /\ HeadIsSym("quote")
  /\ r' = Second(curr_exp)
  /\ app_cont' = TRUE
  /\ pc' = "loop"
  /\ UNCHANGED <<heap, free, genv, curr_exp, curr_env, K, done, perform_gc,
                 non_gc, aux>>

EvalDefine ==
  LET key == Second(curr_exp)
  IN /\ Dispatch /\ HeadIsSym("define")
     /\ IF ~IsSym(key) \/ key = NIL
        THEN /\ done' = TRUE
             /\ r' = EERROR
             /\ UNCHANGED <<curr_exp, K>>
        ELSE /\ K' = K \o <<key, EncU(SET_GLOBAL_ENV)>>
             /\ curr_exp' = Third(curr_exp)
             /\ UNCHANGED <<done, r>>
     /\ pc' = "loop"
     /\ UNCHANGED <<heap, free, genv, curr_env, perform_gc, app_cont, non_gc, aux>>

EvalProgn ==
  LET exps == Cdr(curr_exp)
  IN /\ Dispatch /\ HeadIsSym("progn")
     /\ IF exps = NIL
        THEN /\ r' = NIL
             /\ app_cont' = TRUE
             /\ UNCHANGED <<curr_exp, K>>
        ELSE /\ K' = K \o <<Cdr(exps), EncU(PROGN_REST)>>
             /\ curr_exp' = Car(exps)
             /\ UNCHANGED <<r, app_cont>>
     /\ pc' = "loop"
     /\ UNCHANGED <<heap, free, genv, curr_env, done, perform_gc, non_gc, aux>>

(* env_copy_shallow (a new spine over the same bindings), then the four   *)
(* cells of (closure params body env).  On a failed cons: collect and     *)
(* evaluate the same expression again.                                     *)
EvalLambda ==
  LET n   == length(curr_env)
      cs  == Fresh(n + 4)
      cpy == ListHead(SubSeq(cs, 1, n), NIL)
      h1  == WriteList(heap, SubSeq(cs, 1, n), ListElems(curr_env), NIL)
  IN /\ Dispatch /\ HeadIsSym("lambda")
     /\ IF CanAlloc(n + 4)
        THEN /\ heap' = Prepend(h1, SubSeq(cs, n + 1, n + 4),
                                <<cpy, Third(curr_exp), Second(curr_exp),
                                  Sym("closure")>>, NIL)
             /\ free' = free \ Range(cs)
             /\ r' = ConsPtr(cs[n + 4])
             /\ app_cont' = TRUE
             /\ UNCHANGED perform_gc
        ELSE /\ Exhaust
             /\ perform_gc' = TRUE
             /\ UNCHANGED <<r, app_cont>>
     /\ pc' = "loop"
     /\ UNCHANGED <<genv, curr_exp, curr_env, K, done, non_gc, aux>>

EvalIf ==
  /\ Dispatch /\ HeadIsSym("if")
  /\ K' = K \o <<Fourth(curr_exp), Third(curr_exp), EncU(IF_K)>>
  /\ curr_exp' = Second(curr_exp)
  /\ pc' = "loop"
  /\ UNCHANGED <<heap, free, genv, curr_env, r, done, perform_gc, app_cont,
                 non_gc, aux>>

\* (mutant) the first value evaluated in the env outside the let
EvalLetOrigEnv ==
  LET binds == Second(curr_exp)
      exp   == Third(curr_exp)
      bs    == ListElems(binds)
      n     == Len(bs)
      cs    == Fresh(2 * n)
      env   == BuiltEnvHead(cs, curr_env)
  IN /\ Dispatch /\ HeadIsSym("let")
     /\ IF ~IsCons(binds)
        THEN /\ curr_exp' = exp
             /\ pc' = "loop"
             /\ UNCHANGED <<heap, free, K>>
        ELSE IF CanAlloc(2 * n)
        THEN /\ heap' = BuildEnv(heap, cs, [i \in 1..n |-> Car(bs[i])],
                                 [i \in 1..n |-> NIL], curr_env)
             /\ free' = free \ Range(cs)
             /\ K' = K \o <<exp, Cdr(binds), env, Car(bs[1]), EncU(BIND_TO_KEY_REST)>>
             /\ curr_exp' = Second(bs[1])
             /\ pc' = "loop"
        ELSE /\ Exhaust
             /\ pc' = "let_spin"
             /\ UNCHANGED <<curr_exp, K>>
     /\ UNCHANGED <<genv, curr_env, r, done, perform_gc, app_cont, non_gc, aux>>

(* LET pre-binds every key to nil in front of the env (letrec), then      *)
(* evaluates the first value.  A failed cons in the pre-binding loop       *)
(* re-enters that loop with no collection: the worker spins in let_spin.  *)
EvalLet ==
  LET binds == Second(curr_exp)
      exp   == Third(curr_exp)
      bs    == ListElems(binds)
      n     == Len(bs)
      cs    == Fresh(2 * n)
      env   == BuiltEnvHead(cs, curr_env)
  IN /\ Dispatch /\ HeadIsSym("let")
     /\ IF ~IsCons(binds)
        THEN /\ curr_exp' = exp
             /\ pc' = "loop"
             /\ UNCHANGED <<heap, free, curr_env, K>>
        ELSE IF CanAlloc(2 * n)
        THEN /\ heap' = BuildEnv(heap, cs, [i \in 1..n |-> Car(bs[i])],
                                 [i \in 1..n |-> NIL], curr_env)
             /\ free' = free \ Range(cs)
             /\ K' = K \o <<exp, Cdr(binds), env, Car(bs[1]), EncU(BIND_TO_KEY_REST)>>
             /\ curr_exp' = Second(bs[1])
             /\ curr_env' = env
             /\ pc' = "loop"
        ELSE /\ Exhaust
             /\ pc' = "let_spin"
             /\ UNCHANGED <<curr_exp, curr_env, K>>
     /\ UNCHANGED <<genv, r, done, perform_gc, app_cont, non_gc, aux>>

(* Any other cons: an application.  Its head is evaluated last.           *)
EvalApplication ==
  LET head == Car(curr_exp)
      k1   == K \o <<head, EncU(FUNCTION)>>
  IN /\ Dispatch /\ IsCons(curr_exp)
     /\ head \notin {Sym(s) : s \in SpecialForms}
     /\ IF Cdr(curr_exp) = NIL
        THEN /\ K' = k1
             /\ r' = NIL
             /\ app_cont' = TRUE
             /\ UNCHANGED curr_exp
        ELSE /\ K' = k1 \o <<curr_env, NIL, Cdr(Cdr(curr_exp)), EncU(ARG_LIST)>>
             /\ curr_exp' = Second(curr_exp)
             /\ UNCHANGED <<r, app_cont>>
     /\ pc' = "loop"
     /\ UNCHANGED <<heap, free, genv, curr_env, done, perform_gc, non_gc, aux>>
(***************************************************************************)
(* apply_continuation: pop the top frame and act on its kind.  Every       *)
(* failed allocation pushes the frame back, keeps the value in r and      *)
(* requests a collection before the same continuation is applied again.   *)
(***************************************************************************)
Cont(kind) == pc = "step" /\ app_cont /\ Peek(1) = EncU(kind)

(* The frame's n words were popped (the kind by the dispatch, the rest by *)
(* pop_u32 / pop_u32_3); the failure branch pushes "words" back with       *)
(* push_u32_2 / push_u32_4 and returns the value it was applied to.        *)
Retry(n, words) ==
  /\ Exhaust
  /\ K' = Pop(n) \o words
  /\ perform_gc' = TRUE
  /\ app_cont' = TRUE
  /\ pc' = "loop"
  /\ UNCHANGED <<genv, curr_exp, curr_env, r, done, non_gc, aux>>

ContDone ==
  /\ Cont(DONE)
  /\ K' = Pop(1)
  /\ done' = TRUE
  /\ app_cont' = FALSE
  /\ pc' = "loop"
  /\ UNCHANGED <<heap, free, genv, curr_exp, curr_env, r, perform_gc, non_gc, aux>>

(* cont_set_global_env: overwrite the key's binding or cons a new one.    *)
ContSetGlobalEnv ==
  LET key == Peek(2)
      b   == BindingOf(key, genv)
      cs  == Fresh(2)
  IN /\ Cont(SET_GLOBAL_ENV)
     /\ \/ /\ IsCons(b)
           /\ heap' = [heap EXCEPT ![Val(b)].cdr = r]
           /\ UNCHANGED <<free, genv>>
        \/ /\ ~IsCons(b) /\ CanAlloc(2)
           /\ heap' = [heap EXCEPT ![cs[1]] = [car |-> key, cdr |-> r],
                                   ![cs[2]] = [car |-> ConsPtr(cs[1]), cdr |-> genv]]
           /\ free' = free \ Range(cs)
           /\ genv' = ConsPtr(cs[2])
     /\ r' = TRUESYM
     /\ K' = Pop(2)
     /\ app_cont' = TRUE
     /\ pc' = "loop"
     /\ UNCHANGED <<curr_exp, curr_env, done, perform_gc, non_gc, aux>>

ContSetGlobalEnvRetry ==
  /\ Cont(SET_GLOBAL_ENV)
  /\ ~IsCons(BindingOf(Peek(2), genv)) /\ ~CanAlloc(2)
  /\ Retry(2, <<Peek(2), EncU(SET_GLOBAL_ENV)>>)
ContPrognRest ==
  LET rest == Peek(2)
  IN /\ Cont(PROGN_REST)
     /\ IF rest = NIL
        THEN /\ K' = Pop(2)
             /\ UNCHANGED <<curr_exp, r, app_cont>>
        ELSE /\ K' = Pop(2) \o <<Cdr(rest), EncU(PROGN_REST)>>
             /\ curr_exp' = Car(rest)
             /\ r' = EncU(0)
             /\ app_cont' = FALSE
     /\ pc' = "loop"
     /\ UNCHANGED <<heap, free, genv, curr_env, done, perform_gc, non_gc, aux>>

(***************************************************************************)
(* FUNCTION_APP: r is the function, the frame holds the argument list as   *)
(* ARG_LIST accumulated it (last argument first).  A cons argument list   *)
(* is first reversed into fresh cells (rn of them).                        *)
(***************************************************************************)
FunArgs  == Peek(2)
ArgVals  == Reverse(ListElems(FunArgs))          \* in source order
RevCells == IF IsCons(FunArgs) THEN length(FunArgs) ELSE 0
RevCs    == Fresh(RevCells)
RevHeap  == Prepend(heap, RevCs, ListElems(FunArgs), NIL)

\* reverse() fails: retry the application after a collection.
ContFunctionAppRetry ==
  /\ Cont(FUNCTION_APP)
  /\ ~CanAlloc(RevCells)
  /\ Retry(2, <<FunArgs, EncU(FUNCTION_APP)>>)

\* A closure is any cons: (closure params body env).
ClosureCells == 2 * length(Second(r))

ContApplyClosure ==
  LET cs == SubSeq(Fresh(RevCells + ClosureCells), RevCells + 1,
                   RevCells + ClosureCells)
  IN /\ Cont(FUNCTION_APP)
     /\ IsCons(r)
     /\ length(Second(r)) = length(FunArgs)
     /\ CanAlloc(RevCells + ClosureCells)
     /\ heap' = BuildEnv(RevHeap, cs, ListElems(Second(r)), ArgVals, Fourth(r))
     /\ free' = free \ (Range(RevCs) \cup Range(cs))
     /\ curr_exp' = Third(r)
     /\ curr_env' = BuiltEnvHead(cs, Fourth(r))
     /\ r' = ZERO
     /\ K' = Pop(2)
     /\ app_cont' = FALSE
     /\ pc' = "loop"
     /\ UNCHANGED <<genv, done, perform_gc, non_gc, aux>>

\* env_build_params_args fails: retry.
ContApplyClosureRetry ==
  /\ Cont(FUNCTION_APP)
  /\ IsCons(r)
  /\ CanAlloc(RevCells)
  /\ length(Second(r)) = length(FunArgs)
  /\ ~CanAlloc(RevCells + ClosureCells)
  /\ Retry(2, <<FunArgs, EncU(FUNCTION_APP)>>)

\* Argument count differs from the parameter count: eerror, done.
\* A value that is neither a cons nor a symbol: the switch falls through
\* to its end, eerror, done.
ContApplyError ==
  /\ Cont(FUNCTION_APP)
  /\ CanAlloc(RevCells)
  /\ \/ IsCons(r) /\ length(Second(r)) # length(FunArgs)
     \/ ~IsCons(r) /\ ~IsSym(r)
  /\ heap' = RevHeap
  /\ free' = free \ Range(RevCs)
  /\ r' = EERROR
  /\ done' = TRUE
  /\ K' = Pop(2)
  /\ app_cont' = FALSE
  /\ pc' = "loop"
  /\ UNCHANGED <<genv, curr_exp, curr_env, perform_gc, non_gc, aux>>

(* A symbol: fundamental_exec over the arguments pushed on K.  cons       *)
(* allocates its result; a merror result is retried after a collection.  *)
PrimCs == SubSeq(Fresh(RevCells + PrimCells(r, ArgVals)), RevCells + 1,
                 RevCells + PrimCells(r, ArgVals))

ContFundamental ==
  /\ Cont(FUNCTION_APP)
  /\ IsSym(r)
  /\ CanAlloc(RevCells + PrimCells(r, ArgVals))
  /\ IF PrimCells(r, ArgVals) = 1
     THEN /\ heap' = [RevHeap EXCEPT ![PrimCs[1]] = [car |-> ArgVals[1],
                                                     cdr |-> ArgVals[2]]]
          /\ r' = ConsPtr(PrimCs[1])
     ELSE /\ heap' = RevHeap
          /\ r' = PrimResult(r, ArgVals)
  /\ free' = free \ (Range(RevCs) \cup Range(PrimCs))
  /\ K' = Pop(2)
  /\ app_cont' = TRUE
  /\ pc' = "loop"
  /\ UNCHANGED <<genv, curr_exp, curr_env, done, perform_gc, non_gc, aux>>

ContFundamentalRetry ==
  /\ Cont(FUNCTION_APP)
  /\ IsSym(r)
  /\ CanAlloc(RevCells)
  /\ ~CanAlloc(RevCells + PrimCells(r, ArgVals))
  /\ Retry(2, <<FunArgs, EncU(FUNCTION_APP)>>)

(* ARG_LIST: cons the value onto the accumulator; evaluate the next       *)
(* argument in the env the frame saved, or hand over the accumulator.     *)
ContArgList ==
  LET rest == Peek(2)
      acc  == Peek(3)
      env  == Peek(4)
      c    == Fresh(1)[1]
  IN /\ Cont(ARG_LIST)
     /\ CanAlloc(1)
     /\ heap' = [heap EXCEPT ![c] = [car |-> r, cdr |-> acc]]
     /\ free' = free \ {c}
     /\ IF rest = NIL
        THEN /\ r' = ConsPtr(c)
             /\ K' = Pop(4)
             /\ UNCHANGED <<curr_exp, curr_env, app_cont>>
        ELSE /\ K' = Pop(4) \o <<env, ConsPtr(c), Cdr(rest), EncU(ARG_LIST)>>
             /\ curr_env' = env
             /\ curr_exp' = Car(rest)
             /\ r' = EncU(0)
             /\ app_cont' = FALSE
     /\ pc' = "loop"
     /\ UNCHANGED <<genv, done, perform_gc, non_gc, aux>>

\* (mutant) push_u32_4 given rest and acc in pop order
ContArgListRetrySwapped ==
  /\ Cont(ARG_LIST)
  /\ ~CanAlloc(1)
  /\ Retry(4, <<Peek(4), Peek(2), Peek(3), EncU(ARG_LIST)>>)

(* cons(arg, acc) fails: push_u32_4(env, acc, rest, ARG_LIST) restores the *)
(* words pop_u32_3 took as rest, acc, env.                                 *)
ContArgListRetry ==
  /\ Cont(ARG_LIST)
  /\ ~CanAlloc(1)
  /\ Retry(4, <<Peek(4), Peek(3), Peek(2), EncU(ARG_LIST)>>)

(* FUNCTION: the arguments are in r; a fundamental head is its own value, *)
(* any other head is evaluated.                                            *)
ContFunction ==
  LET fun == Peek(2)
  IN /\ Cont(FUNCTION)
     /\ K' = Pop(2) \o <<r, EncU(FUNCTION_APP)>>
     /\ IF Primitive(fun)
        THEN /\ r' = fun
             /\ UNCHANGED <<curr_exp, app_cont>>
        ELSE /\ curr_exp' = fun
             /\ r' = EncU(0)
             /\ app_cont' = FALSE
     /\ pc' = "loop"
     /\ UNCHANGED <<heap, free, genv, curr_env, done, perform_gc, non_gc, aux>>

(* BIND_TO_KEY_REST: bind the value, then evaluate the next binding's     *)
(* value or, after the last, the body; both in the let's env.             *)
ContBindToKeyRest ==
  LET key  == Peek(2)
      env  == Peek(3)
      rest == Peek(4)
  IN /\ Cont(BIND_TO_KEY_REST)
     /\ heap' = env_modify_binding(heap, env, key, r)
     /\ IF IsCons(rest)
        THEN /\ K' = Pop(4) \o <<Cdr(rest), env, Car(Car(rest)), EncU(BIND_TO_KEY_REST)>>
             /\ curr_exp' = Second(Car(rest))
        ELSE /\ K' = Pop(5)
             /\ curr_exp' = Peek(5)
     /\ curr_env' = env
     /\ r' = EncU(0)
     /\ app_cont' = FALSE
     /\ pc' = "loop"
     /\ UNCHANGED <<free, genv, done, perform_gc, non_gc, aux>>

ContIf ==
  /\ Cont(IF_K)
  /\ curr_exp' = IF r = TRUESYM THEN Peek(2) ELSE Peek(3)
  /\ K' = Pop(3)
  /\ r' = ZERO
  /\ app_cont' = FALSE
  /\ pc' = "loop"
  /\ UNCHANGED <<heap, free, genv, curr_env, done, perform_gc, non_gc, aux>>
Next ==
  \/ StartForm \/ Finish \/ Return
  \/ GcNoProgress \/ Collect \/ GcMark \/ GcSweep \/ CountStep
  \/ EvalSymbol \/ EvalUnbound \/ EvalSelf \/ EvalQuote \/ EvalDefine
  \/ EvalProgn \/ EvalLambda \/ EvalIf \/ EvalLet \/ EvalApplication
  \/ ContDone \/ ContSetGlobalEnv \/ ContSetGlobalEnvRetry \/ ContPrognRest
  \/ ContFunctionAppRetry \/ ContApplyClosure \/ ContApplyClosureRetry
  \/ ContApplyError \/ ContFundamental \/ ContFundamentalRetry
  \/ ContArgList \/ ContArgListRetry \/ ContFunction \/ ContBindToKeyRest
  \/ ContIf

(* One worker runs run_eval's loop and never blocks: every enabled step   *)
(* is eventually taken.                                                    *)
Spec == Init /\ [][Next]_vars /\ WF_vars(Next)

(***************************************************************************)
(* Properties.                                                             *)
(***************************************************************************)
IsWord(x) == /\ Tag(x) \in {"cons", "sym", "i", "u"}
             /\ Tag(x) = "cons" => Val(x) \in Cells

TypeOK ==
  /\ \A c \in Cells : IsWord(heap[c].car) /\ IsWord(heap[c].cdr)
  /\ free \subseteq Cells
  /\ \A i \in DOMAIN K : IsWord(K[i])
  /\ IsWord(r) /\ IsWord(curr_exp) /\ IsWord(curr_env) /\ IsWord(genv)
  /\ done \in BOOLEAN /\ perform_gc \in BOOLEAN /\ app_cont \in BOOLEAN
  /\ non_gc \in 0..(NonGcMod - 1)
  /\ pc \in {"form", "loop", "gc", "step", "let_spin", "finished"}

(* The operand words each continuation kind keeps under its tag.  The let *)
(* body stays under the BIND_TO_KEY_REST frame of every binding.          *)
Arity == (SET_GLOBAL_ENV :> 1) @@ (FUNCTION_APP :> 1) @@ (FUNCTION :> 1)
         @@ (PROGN_REST :> 1) @@ (IF_K :> 2) @@ (ARG_LIST :> 3)
         @@ (BIND_TO_KEY_REST :> 4)

RECURSIVE Framed(_)
Framed(s) ==
  \/ s = <<EncU(DONE)>>
  \/ LET tag == s[Len(s)]
     IN /\ Len(s) > 1
        /\ Tag(tag) = "u" /\ Val(tag) \in DOMAIN Arity
        /\ Len(s) > Arity[Val(tag)] + 1
        /\ \A i \in 1..Arity[Val(tag)] : Tag(s[Len(s) - i]) # "u"
        /\ Framed(SubSeq(s, 1, Len(s) - Arity[Val(tag)] - 1))

(* While run_eval runs, K parses, from the top down, as whole frames that *)
(* push and apply_continuation's pops agree on, with DONE at the bottom:  *)
(* no pop takes a tag for an operand or an operand for a tag, across      *)
(* every retry that pushes a frame back.                                   *)
StackWellFramed == pc \in {"loop", "step"} /\ ~done => Framed(K)

(* Garbage collection never frees a cell the evaluator can still reach:   *)
(* no cell reachable from the global env, the registers, the program or   *)
(* the continuation stack is on the free list.                            *)
RootsAllocated ==
  pc \in {"loop", "step"} =>
    Reachable({genv, curr_env, curr_exp, program, r} \cup Range(K)) \cap free = {}

(* A step that fails to allocate and requests a collection leaves the     *)
(* stack, the registers and the global env exactly as they were, so that *)
(* the same step runs again after the collection (spec 4.5): the words   *)
(* the failure branch pushes back (cont_set_global_env, FUNCTION_APP's    *)
(* three failures, ARG_LIST) must be the popped frame in its order.       *)
OomStepIsUndone ==
  [][~perform_gc /\ perform_gc' =>
       /\ pc' = "loop"
       /\ UNCHANGED <<K, curr_exp, curr_env, r, app_cont, genv>>]_vars

(* Every top-level form of the program is evaluated to completion:        *)
(* eval_cps_program returns: no retry after a failed allocation repeats  *)
(* forever, since a collection that frees too little ends the form with   *)
(* merror.                                                                 *)
ProgramCompletes == <>(pc = "finished")

(* The same for every program, LET forms included, except that a behaviour *)
(* may instead end in the spin of the LET pre-binding loop (eval_cps.c:572, *)
(* which ProgramCompletes shows is reached): with that one hang set aside,  *)
(* every retry after a failed cons, every collection and every merror exit *)
(* leads to eval_cps_program returning.                                    *)
CompletesUnlessLetSpin == <>(pc \in {"finished", "let_spin"})

(* The continuation stack stays within its cap however long a program     *)
(* runs; in particular a loop by self-tail-recursion in the tail of a     *)
(* progn, if or let runs in constant stack (spec 4.5, tail positions).    *)
StackBounded == Len(K) <= StackCap

(* The evaluator implements the reference semantics: each form of         *)
(* eval_cps_program yields the value EvalRef gives it and has its effect  *)
(* on the global env, or ends in merror with the global env unchanged.   *)
Abs == INSTANCE EvalSpec
         WITH g <- IF pc \in {"form", "finished"} THEN DecodeGlobal ELSE g0

EvalRefinement == Abs!Spec
=============================================================================
