CONSTANTS
  Width = 32
  ConstSize <- MCConstSize
  ConstWords <- MCConstWords
  ProfThreads <- MCProfThreads
  NoWrite = NoWrite
  MaxFds <- MCMaxFds
SPECIFICATION Spec
INVARIANT NoConcurrentSampling
\* With no worker thread (pthread_create failed in init_repl) a spin on PAUSED
\* never ends: the program hangs there, which is no step of the model.
CHECK_DEADLOCK FALSE
