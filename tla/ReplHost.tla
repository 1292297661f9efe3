------------------------------ MODULE ReplHost ------------------------------
(***************************************************************************)
(* The REPL host of experiment_repl/repl.c: its main thread (the command   *)
(* loop), the evaluator worker it pauses and continues, the profiler       *)
(* threads it starts and stops, and the constant-heap write callback the   *)
(* worker calls.                                                           *)
(*                                                                         *)
(* The worker's pause protocol is not in this source tree: it follows spec *)
(* section 5 (pause and continue set a request the worker reads between    *)
(* quanta).  Lisp text is abstracted away: every command that evaluates    *)
(* or changes the runtime (:load, :send, :undef, a plain expression) takes *)
(* the same pause - spin - mutate - continue path, and the worker's        *)
(* evaluation appears only as its constant-heap writes.                    *)
(***************************************************************************)
EXTENDS Integers, FiniteSets

CONSTANTS Width,         \* bits of lbm_uint in the build (32 or 64)
          ConstSize,     \* CONSTANT_MEMORY_SIZE
          ConstWords,    \* words the worker may write to the constant heap
          ProfThreads,   \* pthread ids available to :prof start
          NoWrite,       \* ghost marker: no write to a slot has succeeded
          MaxFds         \* FILE streams the process may hold open (FOPEN_MAX)

ASSUME Width \in {32, 64} /\ ConstSize \in Nat \ {0}
ASSUME MaxFds \in Nat

Slots == 0..ConstSize - 1

(* The word of b bits all set.  TLC's integers cannot hold 2^32 - 1, so    *)
(* the word is stood for by -b: distinct for 32 and 64 bits, and equal to  *)
(* no word the worker writes.                                              *)
Ones(b) == -b

(* The literal 0xffffffff of const_heap_write, and the word memset(0xFF)   *)
(* leaves in an lbm_uint of the build.                                     *)
Sentinel == Ones(32)
AllOnes == Ones(Width)

ASSUME ConstWords \subseteq Nat \cup {Sentinel}

VARIABLES main,        \* the command loop: "idle", "spin", "mutate", "inspect"
          cmd,         \* the command being run: "eval" or "pause"
          requested,   \* the worker's pending request: "none", "pause", "continue"
          wstate,      \* lbm_get_eval_state(): "running" or "paused"
          worker,      \* the evaluator thread: "alive", or "none" when pthread_create failed
          prof_running,
          tpc,         \* each profiler thread: "none", "check", "sample"
          cmem,        \* constants_memory
          first,       \* ghost: the word of the first successful write per slot
          last_ok,     \* ghost: the result of the last const_heap_write
          open_fds     \* FILE streams load_file opened and never closed

vars == <<main, cmd, requested, wstate, worker, prof_running, tpc, cmem, first, last_ok,
          open_fds>>
repl_vars == <<main, cmd, requested, wstate, worker, open_fds>>
prof_vars == <<prof_running, tpc>>
const_vars == <<cmem, first, last_ok>>

(* init_repl: memset(constants_memory, 0xFF, ...) and a worker thread, or *)
(* none if pthread_create fails: init_repl returns 1 either way, so main  *)
(* enters the command loop in both cases.                                  *)
WorkerOutcomes == {"alive", "none"}

Init ==
  /\ main = "idle"
  /\ cmd = "eval"
  /\ requested = "none"
  /\ wstate = "running"
  /\ worker \in WorkerOutcomes
  /\ prof_running = FALSE
  /\ tpc = [t \in ProfThreads |-> "none"]
  /\ cmem = [i \in Slots |-> AllOnes]
  /\ first = [i \in Slots |-> NoWrite]
  /\ last_ok = TRUE
  /\ open_fds = 0

(***************************************************************************)
(* const_heap_write(ix, w), called by the worker while it evaluates       *)
(* (lifting a value into the constant heap).                               *)
(***************************************************************************)
Succeeded(ix, w) ==
  /\ last_ok' = TRUE
  /\ first' = IF first[ix] = NoWrite THEN [first EXCEPT ![ix] = w] ELSE first

const_heap_write(ix, w) ==
  /\ worker = "alive" /\ wstate = "running"
  /\ IF ix >= ConstSize
     THEN /\ last_ok' = FALSE
          /\ UNCHANGED <<cmem, first>>
     ELSE IF cmem[ix] = Sentinel
     THEN /\ cmem' = [cmem EXCEPT ![ix] = w]
          /\ Succeeded(ix, w)
     ELSE IF cmem[ix] = w
     THEN /\ UNCHANGED cmem
          /\ Succeeded(ix, w)
     ELSE /\ last_ok' = FALSE
          /\ UNCHANGED <<cmem, first>>
  /\ UNCHANGED <<repl_vars, prof_vars>>

(***************************************************************************)
(* The worker, between two quanta, takes up a pending pause or continue   *)
(* request (spec section 5; lbm_pause_eval_with_gc, lbm_continue_eval).   *)
(***************************************************************************)
WorkerBoundary ==
  /\ worker = "alive"
  /\ requested # "none"
  /\ wstate' = IF requested = "pause" THEN "paused" ELSE "running"
  /\ requested' = "none"
  /\ UNCHANGED <<open_fds, main, cmd, worker, prof_vars, const_vars>>

(***************************************************************************)
(* The command loop.  :load, :send, :undef and a plain expression:        *)
(* lbm_pause_eval_with_gc(50), spin until the state reads PAUSED, do the  *)
(* work, lbm_continue_eval().  :pause: the same request and spin, then     *)
(* back to the prompt with the worker left paused.  :continue: request a  *)
(* continue.                                                               *)
(***************************************************************************)
\* (mutant) the spin entered without the pause request
ReqPauseNoRequest(c) ==
  /\ main = "idle"
  /\ main' = "spin"
  /\ cmd' = c
  /\ UNCHANGED <<open_fds, requested, wstate, worker, prof_vars, const_vars>>

ReqPause(c) ==
  /\ main = "idle"
  /\ requested' = "pause"
  /\ main' = "spin"
  /\ cmd' = c
  /\ UNCHANGED <<wstate, worker, open_fds, prof_vars, const_vars>>

(***************************************************************************)
(* load_file(name): the name with leading blanks skipped is empty          *)
(* ("blank"), fopen fails ("nofile"), ftell gives <= 0 ("empty"), fread   *)
(* is short ("short") or the whole file is read ("read").  fopen also     *)
(* fails once the process holds MaxFds streams.  Only "short" and "read"  *)
(* reach fclose: the early return on an empty file leaves its stream open. *)
(***************************************************************************)
LoadOutcomes ==
  {"blank", "nofile"} \cup
    (IF open_fds < MaxFds THEN {"empty", "short", "read"} ELSE {})

StreamLeaked(o) == o = "empty"

(* :load: a NULL file_str leaves the runtime alone; a file read in full is *)
(* evaluated on the pause - spin - eval - continue path.                   *)
LoadNull(o) ==
  /\ main = "idle"
  /\ o # "read"
  /\ open_fds' = IF StreamLeaked(o) THEN open_fds + 1 ELSE open_fds
  /\ UNCHANGED <<main, cmd, requested, wstate, worker, prof_vars, const_vars>>

Load(o) ==
  \/ LoadNull(o)
  \/ o = "read" /\ ReqPause("eval")

\* (mutant) the spin loop left before the worker reports PAUSED
SpinExitNoWait ==
  /\ main = "spin"
  /\ main' = IF cmd = "pause" THEN "idle" ELSE "mutate"
  /\ UNCHANGED <<open_fds, cmd, requested, wstate, worker, prof_vars, const_vars>>

SpinExit ==
  /\ main = "spin"
  /\ wstate = "paused"
  /\ main' = IF cmd = "pause" THEN "idle" ELSE "mutate"
  /\ UNCHANGED <<open_fds, cmd, requested, wstate, worker, prof_vars, const_vars>>

MutateAndContinue ==
  /\ main = "mutate"
  /\ requested' = "continue"
  /\ main' = "idle"
  /\ UNCHANGED <<open_fds, cmd, wstate, worker, prof_vars, const_vars>>

Continue ==
  /\ main = "idle"
  /\ requested' = "continue"
  /\ UNCHANGED <<open_fds, main, cmd, wstate, worker, prof_vars, const_vars>>

\* (mutant) the constant heap refilled with 0 instead of 0xFF
ResetZeroFill ==
  /\ main = "idle"
  /\ requested' = "none"
  /\ wstate' = "running"
  /\ worker' \in WorkerOutcomes
  /\ cmem' = [i \in Slots |-> 0]
  /\ first' = [i \in Slots |-> NoWrite]
  /\ UNCHANGED <<open_fds, main, cmd, last_ok, prof_vars>>

(* :reset (and :heap n): init_repl kills and joins the worker, rebuilds   *)
(* the runtime, refills the constant heap with 0xFF and starts a new      *)
(* worker; if pthread_create fails it still returns 1 and :reset goes on  *)
(* with no worker.  Profiler threads are left alone.                       *)
Reset ==
  /\ main = "idle"
  /\ requested' = "none"
  /\ wstate' = "running"
  /\ worker' \in WorkerOutcomes
  /\ cmem' = [i \in Slots |-> AllOnes]
  /\ first' = [i \in Slots |-> NoWrite]
  /\ UNCHANGED <<open_fds, main, cmd, last_ok, prof_vars>>

(***************************************************************************)
(* :prof start sets prof_running and creates a sampler thread whose id is  *)
(* forgotten (if no thread can be created the flag stays set); :prof stop  *)
(* clears the flag.  A sampler loops: test the flag, lbm_prof_sample(),    *)
(* sleep.                                                                  *)
(***************************************************************************)
ProfStart ==
  /\ main = "idle"
  /\ prof_running' = TRUE
  /\ IF \E t \in ProfThreads : tpc[t] = "none"
     THEN \E t \in {u \in ProfThreads : tpc[u] = "none"} :
            tpc' = [tpc EXCEPT ![t] = "check"]
     ELSE UNCHANGED tpc
  /\ UNCHANGED <<repl_vars, const_vars>>

ProfStop ==
  /\ main = "idle"
  /\ prof_running' = FALSE
  /\ UNCHANGED <<tpc, repl_vars, const_vars>>

ProfCheck(t) ==
  /\ tpc[t] = "check"
  /\ tpc' = [tpc EXCEPT ![t] = IF prof_running THEN "sample" ELSE "none"]
  /\ UNCHANGED <<prof_running, repl_vars, const_vars>>

ProfSample(t) ==
  /\ tpc[t] = "sample"
  /\ tpc' = [tpc EXCEPT ![t] = "check"]
  /\ UNCHANGED <<prof_running, repl_vars, const_vars>>

(***************************************************************************)
(* The read-only commands :info, :prof report, :env and :state, and the   *)
(* iterator commands :ctxs, :symbols and :inspect SYM: the main thread    *)
(* reads the heap counters, the global environment lists, the context     *)
(* queues and the symbol table without a pause request, so the worker     *)
(* keeps running (and may write the constant heap) during the walk.       *)
(* Output toggles (:verb, :pon, :poff) only change printing and are left  *)
(* out.                                                                    *)
(***************************************************************************)
ReadCommands == {"info", "prof report", "env", "state", "ctxs", "symbols", "inspect"}

Inspect(c) ==
  /\ main = "idle"
  /\ c \in ReadCommands
  /\ main' = "inspect"
  /\ UNCHANGED <<cmd, requested, wstate, worker, open_fds, prof_vars, const_vars>>

(* The walk ends: the iterator has visited every context (print_ctx_info,  *)
(* lookup_local) or symbol (sym_it), and the loop returns to the prompt.   *)
InspectWalk ==
  /\ main = "inspect"
  /\ main' = "idle"
  /\ UNCHANGED <<cmd, requested, wstate, worker, open_fds, prof_vars, const_vars>>

Next ==
  \/ \E c \in ReadCommands : Inspect(c)
  \/ InspectWalk
  \/ \E ix \in 0..ConstSize, w \in ConstWords : const_heap_write(ix, w)
  \/ WorkerBoundary
  \/ \E c \in {"eval", "pause"} : ReqPause(c)
  \/ \E o \in LoadOutcomes : Load(o)
  \/ SpinExit \/ MutateAndContinue \/ Continue \/ Reset
  \/ ProfStart \/ ProfStop
  \/ \E t \in ProfThreads : ProfCheck(t) \/ ProfSample(t)

(* The worker thread and the main thread are scheduled by the OS and never *)
(* block on each other except in the spin, so each is weakly fair.         *)
Fairness ==
  /\ WF_vars(WorkerBoundary)
  /\ WF_vars(SpinExit)
  /\ WF_vars(MutateAndContinue)
  /\ WF_vars(InspectWalk)

Spec == Init /\ [][Next]_vars /\ Fairness

(***************************************************************************)
(* Properties.                                                             *)
(***************************************************************************)
TypeOK ==
  /\ main \in {"idle", "spin", "mutate", "inspect"}
  /\ cmd \in {"eval", "pause"}
  /\ requested \in {"none", "pause", "continue"}
  /\ wstate \in {"running", "paused"}
  /\ worker \in WorkerOutcomes
  /\ prof_running \in BOOLEAN
  /\ tpc \in [ProfThreads -> {"none", "check", "sample"}]
  /\ cmem \in [Slots -> ConstWords \cup {AllOnes}]
  /\ first \in [Slots -> ConstWords \cup {NoWrite}]
  /\ last_ok \in BOOLEAN
  /\ open_fds \in 0..MaxFds

(* Spec 5: the main thread touches the heap (loads, evaluates, sends,     *)
(* undefines) only while the worker is paused, across any interleaving of *)
(* :pause, :continue, :reset and evaluating commands with the worker's    *)
(* handling of the requests.                                               *)
MutateOnlyWhenPaused == main = "mutate" => wstate = "paused"

(* Spec P3: once a word v has been written to a slot, a write of w to it   *)
(* succeeds iff w = v, whatever v is.  const_heap_write tells a written    *)
(* slot from an unwritten one by comparing it with 0xffffffff, so a slot   *)
(* whose first word is 0xffffffff (an i32 -1, or four 0xFF bytes of a      *)
(* lifted array) still looks unwritten.                                    *)
WriteOnce ==
  [][\A ix \in Slots, w \in ConstWords :
       const_heap_write(ix, w) /\ first[ix] # NoWrite => (last_ok' <=> w = first[ix])]_vars

(* Every command the loop starts returns to the prompt: the spin of an   *)
(* evaluating command or :pause ends once the worker takes up the pause  *)
(* request, the mutation is followed by its continue, and a read-only     *)
(* walk finishes, whatever :reset, :continue, profiler and constant-heap  *)
(* steps interleave with them - unless the last init_repl failed to       *)
(* create the worker thread, when a spin waits for a PAUSED that no thread *)
(* will report (repl.c:339).                                               *)
ReturnsToPrompt == main # "idle" ~> (main = "idle" \/ worker = "none")

(* prof_data is updated by one sampler at a time: no two profiler threads *)
(* are inside lbm_prof_sample together.                                    *)
NoConcurrentSampling == Cardinality({t \in ProfThreads : tpc[t] = "sample"}) <= 1

=============================================================================
