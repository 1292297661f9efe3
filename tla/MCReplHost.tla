----------------------------- MODULE MCReplHost -----------------------------
(***************************************************************************)
(* Two constant-heap slots; two ordinary words, so that a second write    *)
(* can differ from the first, and the word 0xffffffff, which the worker   *)
(* may lift like any other; two pthread ids for profiler threads.         *)
(***************************************************************************)
EXTENDS ReplHost

MCConstSize == 2
MCConstWords == {1, 2, Sentinel}
MCProfThreads == {1, 2}
\* two leaked streams exhaust the table, so fopen's failure at the limit is reached
MCMaxFds == 2
=============================================================================
