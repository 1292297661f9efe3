# TLA+ models of the lispBM runtime core

These modules model the parts of this tree that keep state and step:

- the continuation-passing evaluator (`src/src/eval_cps.c`), together with the cons heap and collector it drives;
- the defragmenting byte pool (`src/src/lbm_defrag_mem.c`);
- the REPL host (`src/experiment_repl/repl.c`): its pause protocol, `:load`, constant-heap callback and profiler threads;
- the symbol-table compressor (`src/src/compression.c`): compress and decompress.

`PROJECT.json` records:

- every component, modelled or not;
- every run and the mutant that shows each passing property can fail;
- the source lines each definition translates;
- the findings and the hazards.

Run everything from this directory:

```
tlasany EvalCPS.tla
tlc -workers 2 -config MCEvalCPS.cfg MCEvalCPS
```

## The system and how its parts interact

- **Evaluator.** `eval_cps_program` runs each top-level form with `run_eval`, a loop over two registers (`curr_exp`, `curr_env`), a value register `r` and a continuation stack `K` of tagged frames.
  - A step either dispatches on `curr_exp` (a special form or an application) or, when `app_cont` is set, pops a frame and applies it (`apply_continuation`).
  - Any cons may fail. The step then pushes its frame back and sets `perform_gc`. The loop's prologue calls `heap_perform_gc_aux` with every root and re-runs the step.
  - If a collection is requested twice with no step between (`non_gc == 0`), the form ends in `merror`.
- **Heap and collector.** The heap (`heap.c`) is not in this tree. `LbmHeap` models it from spec §4.1:
  - cells, a free set, and cons from the free set;
  - a mark phase from the roots, one cell per step, then a sweep.
- **Environments and fundamentals.** `env.c`, `fundamental.c` and `symrepr.c` are not in this tree either. `EvalCPS` models `env_lookup`, `env_modify_binding`, `env_build_params_args` and the fundamentals `+`, `=` and `cons` from the spec. These definitions are marked `spec_modelled` in the map.
- **Defrag pool.** A pool of words holds records laid out as `[size, data pointer, back pointer | data]`. Each record belongs to a handle cell in the cons heap, whose car holds the record's address.
  - `alloc` compacts first if an earlier allocation failed, then searches first-fit.
  - The GC calls `free` when a handle dies, and `destroy` when the pool dies.
- **REPL host.** The main thread reads commands.
  - Each command that touches the runtime does the same four things: request a pause, spin until the worker reports `PAUSED`, mutate, continue.
  - The worker thread, which is not in this tree, takes requests between quanta (spec §5).
  - While it evaluates, the worker calls `const_heap_write`, which implements a write-once constant heap over a buffer that `init_repl` fills with `0xFF`.
  - `:prof start` starts a sampler thread, which loops while `prof_running` is set.
  - `:load` reads a file with `load_file`. A NULL result (blank name, `fopen` failure, empty file, short read) leaves the runtime alone. The empty-file return skips `fclose`.
- **Compressor.** `lbm_compress` first sizes the output with `compressed_length`, then writes a 4-byte little-endian bit-count header. It then encodes the text: string literals character by character, comments skipped, whitespace runs collapsed to one space, and every other position replaced by the longest matching key from a 67-entry code table. `lbm_decompress` walks the bits back, matching codes longest first.

## Modules

| Module | Models | State | Actions |
|---|---|---|---|
| `LbmValues` | value encoding (spec §3) | — | tagged words `<<kind, payload>>`: cons pointers, symbols, integers, `enc_u` |
| `LbmHeap` | heap.c (spec §4.1) | `heap`, `free`, `marked`, `gc_stack` | cons (`Fresh`, `CanAlloc`), `GcMarkRoots`, `GcMarkStep`, `GcSweepStep`; the reader's layout of a program |
| `EvalCPS` | eval_cps.c | the heap plus `genv`, `curr_exp`, `curr_env`, `K`, `r`, `done`, `perform_gc`, `app_cont`, `non_gc`, `program`, `curr` | one action per special form (`EvalSymbol` … `EvalApplication`), per continuation kind and per OOM retry (`ContArgList`, `ContArgListRetry`, …), the GC prologue (`GcNoProgress`, `Collect`, `GcMark`, `GcSweep`, `CountStep`) and `eval_cps_program` (`StartForm`, `Return`, `Finish`) |
| `EvalRef` | reference semantics (spec §4.5) | — | `RefTop`, `RefEval`: a recursive evaluator over source forms |
| `EvalSpec` | the abstract evaluator | `source`, `results`, `g` | `Complete`: the next form yields its reference value, or ends in merror with the global env unchanged |
| `DefragMem` | lbm_defrag_mem.c | `mem` (pool words), `flags`, `car` (handle cells), `live`, `alive`, ghosts `asked` and `overrun` | `Alloc` (defrag on flag, the INIT/FREE_LEN scan, header write), `Free`, `Destroy`; `DefragFrom` and `Scan` are the loops, as RECURSIVE operators |
| `Compression` | compression.c | `phase`, `str`, `input`, `i`, `string_mode`, `gobbling`, `header`, `body`, `bit_pos`, `compressed`, `last_string_char`, `dest`, `decompressed`, ghost `overrun` | `CompressStart` (sizing, NULL and malloc-failure returns, header), `CStringChar`, `CComment`, `CWhitespace`, `CToken`, `CDone`, `DStringChar`, `DCode`, `DDone`; `CompressedLengthFrom` is the sizing loop as a RECURSIVE operator |
| `ReplHost` | repl.c | `main`, `cmd`, `requested`, `wstate`, `worker` (the evaluator thread, `"none"` when `pthread_create` failed), `prof_running`, `tpc`, `cmem`, `open_fds`, ghosts `first` and `last_ok` | `ReqPause`, `Load` (`LoadNull` for a NULL `file_str`, `LoadOutcomes` for load_file), `SpinExit`, `MutateAndContinue`, `Continue`, `Reset`, `const_heap_write`, `WorkerBoundary`, `ProfStart`, `ProfStop`, `ProfCheck`, `ProfSample`, `Inspect` (the read-only commands, `ReadCommands`), `InspectWalk` |

How the code maps onto the models:

- **EvalCPS data.** The machine state is `run_eval`'s locals plus the context. Data is abstracted:
  - symbols are names;
  - integers are small;
  - the program is laid out in heap cells as the reader would leave it.
- **EvalCPS control.** Every branch of the code is kept, including every early `continue` and every OOM path.
- **Collection in EvalCPS.** The prologue's collection is split into `Collect`, `GcMark` and `GcSweep` steps (pc `"gc"`). Nothing else runs in between, so this splitting is only a device for checking.
- **DefragMem data.** Pool addresses are real byte addresses (`PoolBase + i * WordBytes`). Values are not:
  - the car of a handle holds the record's address;
  - a raw word passed to `lbm_set_car` is decoded with the value layout of spec §3.
- **ReplHost data.** All runtime-changing commands (`:load`, `:send`, `:undef`, and an expression) share one path. Lisp text is not modelled. `:load` also models `load_file`'s outcomes, and the file streams it leaves open (`open_fds`, bounded by `MaxFds`, where `fopen` fails).
- **Compression data.** Characters are names from a small alphabet mapped to their ASCII codes. The bit buffer is a sequence of bits, and the table is the code's 67 key/code pairs. The backquote key is named `"BQ"`, and VT and FF are named too, because TLA+ strings cannot hold those characters.
  - A 32-bit or 64-bit all-ones word is the token `Ones(b) == -b`, because TLC integers cannot hold `2^32-1`.

## Runs

| Run | Config | Expect | Checks |
|---|---|---|---|
| eval_safety | `MCEvalCPS.cfg` | pass | see below |
| eval_env_after_call | `MCEvalCPS_envcall.cfg` | violation | `EvalRefinement` fails: after a closure call, the next progn expression is evaluated in the closure's env (finding 2) |
| eval_let_oom_hang | `MCEvalCPS_lethang.cfg` | violation | `ProgramCompletes` fails (finding 1) |
| eval_progn_tail | `MCEvalCPS_tail.cfg` | violation | `StackBounded` fails (finding 3) |
| defrag_alloc_free | `MCDefragMem.cfg` | pass | see below |
| defrag_compaction | `MCDefragMem_compact.cfg` | violation | `BackPointers` fails (finding 4) |
| defrag_first_fit | `MCDefragMem_firstfit.cfg` | violation | `NoSpuriousFailure` fails (finding 6) |
| defrag_zero_size | `MCDefragMem_zero.cfg` | violation | `NoOverrun` fails when 0-byte arrays are allowed (finding 10) |
| repl_host | `MCReplHost.cfg` | pass | see below |
| compression_roundtrip | `MCCompression.cfg` | pass | see below |
| repl_const_heap_sentinel | `MCReplHost_sentinel.cfg` | violation | `WriteOnce` fails with `Width = 32` (finding 9) |
| repl_profiler_race | `MCReplHost_prof.cfg` | violation | `NoConcurrentSampling` fails (finding 8) |

**eval_safety** checks five properties beyond `TypeOK`:

- `StackWellFramed`: `K` always parses as whole frames, with DONE at the bottom.
- `RootsAllocated`: no reachable cell is ever on the free list.
- `OomStepIsUndone`: a step that requests a collection leaves the stack and the registers exactly as they were. Each failure branch's push-back is modelled word by word from its `push_u32_2`/`push_u32_4` call, so the property checks that the words pushed back are the frame that was popped, in its order.
- `EvalRefinement`: the machine refines `EvalSpec`, so every form yields its reference value, or merror with the global env unchanged.
- `CompletesUnlessLetSpin`: every program returns from `eval_cps_program`, even when collections are needed, unless it enters the LET pre-binding spin. That spin is shown separately by `eval_let_oom_hang`. Naming it as an end state keeps the LET programs in this run for every other retry and collection path.

**defrag_alloc_free** checks three properties beyond `TypeOK`:

- `BackPointers`: each live handle's car is its record's address, and that record's back pointer is the handle.
- `NoOverrun`: no free, destroy or defrag walk reads or writes past the pool.
- `AllocOnHoles`: an allocation never overwrites a live record.

This run's pool is large enough that allocation never fails, so compaction never moves a record.

**repl_host** checks two properties beyond `TypeOK`:

- `MutateOnlyWhenPaused`: the main thread mutates only while the worker is paused.
- `ReturnsToPrompt`: every command the loop starts returns to the prompt. This covers the spin of an evaluating command or `:pause`, the mutation and its continue, and the unpaused walk of a read-only command. The exception is when the last `init_repl` failed to create the worker thread: it still returns 1 (`repl.c:339-342`), and a later spin on PAUSED never ends. The model reaches that hang, and the program hangs there too, so the REPL cfgs set `CHECK_DEADLOCK FALSE`.

The worker may write the word 0xffffffff, as it can in the code. The write-once rule (`WriteOnce`, spec P3) fails for that word on 32-bit builds, so it is checked by `repl_const_heap_sentinel` as a violation, not here.

**compression_roundtrip** enumerates every input of up to 4 characters over `(`, `i`, `f`, space, newline, `;`, `"`, `\`, VT, and checks three properties beyond `TypeOK`:

- `RoundTrip`: a successful compress decompresses to the normalised input. Compress returns NULL (other than for `malloc` failure) exactly when the input normalises to nothing or holds a character with no key.
- `NoBufferOverflow`: no bit is written past the `compressed_length` bytes that were allocated.
- `Terminates`: compress and decompress always finish.

Each property of a passing run has a mutant in `PROJECT.json`: a plausible bug in the mapped code that TLC catches.

- `Pop` pops one word too few.
- `Roots` forgets `K`.
- `ContArgListRetry` pushes `rest` and `acc` back in swapped order.
- `EvalLet` evaluates in the original env.
- `Collect` keeps `non_gc`.
- `Fresh` returns the cell one past each free cell.
- `Alloc` writes a byte-offset data pointer.
- `Free` wipes one word too many.
- `IndexOf` works in bytes.
- `Scan` skips a 2-word header.
- `Reset` fills with 0.
- `SpinExit` does not wait.
- `ReqPause` makes no request.
- `CToken` does not back up one character after a match, and `compressed_length` does not either.
- `CComment` stops one character late, or never advances.

## Findings

1. **LET prebinding OOM spins** (`eval_cps.c:572`). A failed cons in the letrec prebinding loop does `continue` inside the inner `while`. This retries the same cons without ever reaching the collector.
2. **`curr_env` is not restored after a closure call** (`eval_cps.c:230`). Only `ARG_LIST` frames restore the env. In `(let ((a 5)) (progn (g 1) a))`, `a` is looked up in `g`'s environment.
3. **A progn tail is not a tail position** (`eval_cps.c:186`). `PROGN_REST` pushes a frame under the last expression, so a self-recursive loop through `progn` grows `K` without bound. Spec §4.5 says it should not.
4. **Compaction clears the record it just moved** (`lbm_defrag_mem.c:120`). `clear_ix = i - move_dist` is `hole_start`, the record's new head.
5. **Compaction writes the wrong cell** (`lbm_defrag_mem.c:121-122`). The back pointer is read after the memset and passed raw to `lbm_set_car`, so cell 0's car is written. This is recorded in PROJECT.json as part of finding 4, which the same run shows.
6. **First fit misses holes** (`lbm_defrag_mem.c:193-194`). The FREE_LEN state steps one word into a record, and INIT then takes its data pointer for a size. For example, with records at 0 and 4, freeing the first and asking for 8 bytes fails with 6 free words.
7. **The constant heap is unusable on 64-bit builds** (`repl.c:60`). The buffer is filled with `0xFF` bytes but compared with `0xffffffff`. With `Width = 64` a fresh slot never equals the literal, so every first `const_heap_write` fails. This is kept as a hazard, not a run, because the run budget goes to finding 9, which needs a model checker to find.
8. **The profiler can run twice** (`repl.c:388-390`). `:prof start` forgets the thread id and never checks for a running sampler.
9. **0xffffffff breaks write-once on 32-bit builds** (`repl.c:60`). A slot whose first word is 0xffffffff (an i32 -1, or four 0xFF bytes of a lifted array) still equals the sentinel. A later write of a different word therefore succeeds, against spec P3.
10. **Destroying a pool that holds a 0-byte array overruns it** (`lbm_defrag_mem.c:88-91`). `lbm_defrag_mem_alloc` accepts 0 bytes, and `free_defrag_allocation` even tests `size > 0`. The record `[0, data pointer, back pointer]` has a hole's size word, though. The destroy walk skips that word, reads the data pointer (a byte address) as the next record's size, and zeroes `3 + bs2ws(address)` words, far past the pool. It also clears the cell named by the following word.

## Bounds, and why they are enough

- **EvalCPS programs.** The programs in `MCEvalCPS` together exercise every special form, every continuation kind, the arity error, an unbound symbol, redefinition and cons.
  - The heap has the program's cells plus 0..12 extra cells, or 20.
  - The small heaps make every allocation site fail at some point, so every retry and the merror exit are reached. The 20-cell heap lets the longer let form complete.
  - `NonGcMod` is 1000, so `non_gc` never wraps in a run. The wrap is listed as a hazard.
  - `StackCap` is 100, far above any frame depth that a terminating program here reaches.
- **DefragMem pools.**
  - The passing run has 16 words and 4-byte arrays. It never fails an allocation, so it covers alloc, free and destroy without compaction.
  - `defrag_zero_size` adds 0-byte arrays to that pool. The passing run leaves them out because they break the walks (finding 10).
  - The violation runs use 13 and 14 words, where allocation fails and compaction or the scan misbehaves within 3 or 4 calls.
  - A 4-byte array takes a 4-word record, so the 16-word pool holds all 4 handles' records and the 13-word pool holds 3.
- **ReplHost.** 2 constant slots, 2 ordinary words plus 0xffffffff, and 2 profiler threads are the smallest sizes that show overwriting, the sentinel collision and two samplers. `MaxFds = 2` lets two empty-file loads exhaust the streams, so `fopen`'s failure at the limit is reached.
- **Compression.** The 9-character alphabet has a comment, a string with an escape, whitespace of each kind, a two-character key (`if`) and a character with no key. With inputs of up to 4 characters, a comment ends inside the input, a string closes after an escaped quote, and a longest match beats a shorter one. Larger inputs only repeat these cases.

## Fairness

- **EvalCPS.** Weak fairness on `Next`: `run_eval` is a single loop on one thread that never blocks. `CompletesUnlessLetSpin` and `ProgramCompletes` rest on it.
- **ReplHost.** Weak fairness on `WorkerBoundary`, `SpinExit`, `MutateAndContinue` and `InspectWalk`.
  - The OS schedules the worker while it exists (`worker = "alive"`), and the worker checks for requests between quanta.
  - The main thread's spin, the mutation after it and a read-only walk over finite lists do not wait on user input.
  - Commands, profiler threads and constant writes get no fairness: the user and the program may stop issuing them.
- **DefragMem.** No fairness: it is a passive library.
- **Compression.** Weak fairness on the loop steps, and fairness on `CompressStart` until it has run: a call of compress runs to its return on one thread.

## Limitations of the reference semantics

`EvalRef` copies a closure's environment by value. The machine shares binding cells, so a closure that captures a let key bound later sees that later value in the machine but nil in the reference. Programs that do this are left out of the refinement runs. The shadowing let in `ProgLet` is the closest form included.

## Not modelled

- **Bytecode applications.** `bytecode_eval` is absent. The argument loop at `eval_cps.c:237` never advances, which is listed as a hazard.
- **The EVAL continuation.** It is never pushed.
- **Scheduler and contexts of spec §4.6.** They have no code here.
- **`ec_eval.c`.** An unfinished register-machine evaluator that nothing can run. No file refers to it, and nothing sets its `exp` register: there is no entry point, and `ec_eval.h` is absent. It also uses an older runtime API (`VALUE`, `push_u32_3`, `symrepr_quote()`). Its `while (1)` loop has no exit, and application, `if` and `let` have empty or missing cases, so every one of them spins. The zero-initialised `cont` register is `CONT_DEFINE`, so finishing even a self-evaluating form pops a frame nobody pushed. A model could only restate this shape, so there is nothing for TLC to decide.
- **`eval_cps_bi_eval`, the context push/drop helpers and the bytecode branch.** They are dead in this tree: their registration is commented out (`eval_cps.c:640-641`), and no bytecode value can be built.
- **The REPL's `:quit`, end of input, and reset while a profiler samples.** They are listed as hazards. The model has no process exit and no cons-heap storage in `ReplHost`.
- **Host memory of the command loop.** `:inspect` and the plain-expression branch never free the line `readline` returned. The expression line is handed to the string channel, so it cannot simply be freed. This is listed as a hazard (`repl.c:578`).
- **`init_repl` failing before the thread is created.** `malloc`, `lbm_init` and the other setup calls returning 0 make `main` exit, which the model leaves out. The thread-creation failure, which returns 1 like success, is modelled (`WorkerOutcomes`).
- **`schrift.c` and `ttf_extensions.c`.** The outline decoder and rasteriser compute in `float`/`double`, which TLC cannot check. The table, cmap and UTF-8 parsing (`gettable`, `csearch`, `cmap_fmt4/6/12_13`, `get_utf32`) is integer code a model could check against a reference lookup. Two hazards there are listed: `cmap_fmt12_13` reads `numEntries` records without bounding them by `len` (`schrift.c:733`), and `get_utf32` rejects surrogates only in the 4-byte branch and accepts overlong forms (`schrift.c:135`). They are not modelled because the run budget goes to the evaluator, defrag pool and REPL, where the concurrency and heap findings are.
- **The REPL's printing and output toggles (`:verb`, `:pon`, `:poff`).** They change only what is printed. The read-only commands are modelled as a walk (`Inspect`, `InspectWalk`) during which the worker keeps running. No property says that walk must be paused, because spec 5 restricts only mutation. What the walk reads is not in the tree, so a torn read cannot be stated. It stays a hazard.
