-------------------------------- MODULE Setup -------------------------------
(* What main() does before the experiment, in its order: the options are    *)
(* parsed, the list of events among them, and checked; the buffer is set    *)
(* up; the threads are pinned and the caches wiped. A part that fails ends  *)
(* the process.                                                             *)
EXTENDS EventParser, Pinning, BufferAlloc

CONSTANTS
  OptionLines,  \* the other options, see OptionAssumption
  LeastLine     \* 2 * sizeof(int)

\* options: getopt() knows all options; size: the data set size is there. The
\* numbers are what atoi() returns.
ASSUME OptionAssumption ==
  /\ LeastLine \in Nat
  /\ \A l \in OptionLines :
       /\ {l.options, l.size} \subseteq BOOLEAN
       /\ {l.duration, l.loopfactor, l.cacheline} \subseteq Int

VARIABLES
  line,    \* the rest of the command line
  opt,     \* what Parse_options() makes of it
  config   \* "options", "parsed", "configured" or "exited"

optionVars == <<line, opt, config>>
setupVars == <<vars, pinVars, allocVars, optionVars>>

\* The defaults of Options.
Defaults == [duration |-> 1, loopfactor |-> 1, cacheline |-> 64]

SetupInit ==
  /\ Init /\ PinInit /\ AllocInit
  /\ line \in OptionLines /\ opt = Defaults /\ config = "options"

\* getopt() comes to the list of events before the lists of threads and CPUs
\* are looked at.
ParseEvents ==
  config = "options" /\ Scan /\ UNCHANGED <<pinVars, allocVars, optionVars>>

\* An option that getopt() does not know may come before or behind the list
\* of events; the size is missed behind them all.
Usage ==
  /\ config = "options"
  /\ \/ ~line.options /\ (pc = "parsed" \/ (pc = "scan" /\ next = 1))
     \/ ~line.size /\ pc = "parsed"
  /\ config' = "exited"
  /\ UNCHANGED <<vars, pinVars, allocVars, line, opt>>

\* The numbers become unsigned, negative ones large.
ReadOptions ==
  /\ config = "options" /\ pc = "parsed" /\ line.options /\ line.size
  /\ opt' = [o \in DOMAIN Defaults |-> line[o] % U]
  /\ config' = "parsed"
  /\ UNCHANGED <<vars, pinVars, allocVars, line>>

ParsePinning ==
  config = "parsed" /\ ParseStep /\ UNCHANGED <<vars, given, allocVars, optionVars>>

\* A loop factor is never below zero, being unsigned.
Configure_experiment ==
  /\ config = "parsed" /\ pin = "parsed" /\ ~TooLarge
  /\ config' = IF opt.duration < 1 \/ opt.loopfactor < 0 \/ opt.cacheline < LeastLine
               THEN "exited" ELSE "configured"
  /\ UNCHANGED <<vars, pinVars, allocVars, line, opt>>

\* main() turns too much data down before it configures.
Setup_buffer ==
  /\ config = "configured" \/ (config = "parsed" /\ pin = "parsed" /\ TooLarge)
  /\ AllocStep
  /\ UNCHANGED <<vars, pinVars, bopt, optionVars>>
StartThreads ==
  alloc = "ready" /\ RunStep /\ UNCHANGED <<vars, given, allocVars, optionVars>>

SetupOver ==
  \/ pc = "exited" \/ PinOver \/ config = "exited"
  \/ alloc \in {"exited", "undefined"}
SetupNext ==
  \/ ParseEvents \/ Usage \/ ReadOptions \/ ParsePinning
  \/ Configure_experiment \/ Setup_buffer \/ StartThreads
  \/ SetupOver /\ UNCHANGED setupVars
SetupSpec == SetupInit /\ [][SetupNext]_setupVars
=============================================================================
