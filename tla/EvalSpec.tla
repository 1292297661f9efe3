------------------------------ MODULE EvalSpec ------------------------------
(***************************************************************************)
(* What the evaluator promises a program (eval_cps_program): its top-level *)
(* forms complete one after another, in order; each either yields its     *)
(* reference value and has its reference effect on the global             *)
(* environment, or ends in a memory error and leaves the global            *)
(* environment as it was.                                                  *)
(***************************************************************************)
EXTENDS EvalRef

CONSTANT Programs   \* the programs that may be run (sequences of forms)

VARIABLES source,   \* the program being run
          results,  \* the results of the forms completed so far
          g         \* the global environment: name -> value

vars == <<source, results, g>>

Init == /\ source \in Programs
        /\ results = <<>>
        /\ g = [x \in {"nil"} |-> NIL]

Complete ==
  LET i  == Len(results) + 1
      st == RefTop(source[i], g)
  IN /\ i <= Len(source)
     /\ \/ /\ results' = Append(results, st.val)
           /\ g' = st.g
        \/ /\ results' = Append(results, MERR)
           /\ UNCHANGED g
     /\ UNCHANGED source

Spec == Init /\ [][Complete]_vars
=============================================================================
