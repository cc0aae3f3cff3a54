--------------------------- MODULE ParallelConfig ---------------------------
(***************************************************************************)
(* How the server comes to the thread counts and the batch threshold that  *)
(* authorize uses: the arguments with their defaults (src/src/config.rs),  *)
(* then init_parallelism (src/src/parallel.rs).                            *)
(***************************************************************************)
EXTENDS Naturals, FiniteSetsExt

CONSTANTS
  Cpus,       \* what available_parallelism may say: at least 1
  Values,     \* what an option may be given: natural numbers
  Unset,      \* an option or a variable that is not given, no number
  None

VARIABLES
  cpu_count,
  given,      \* flags and environment: workers, rayon_threads, par_threshold, RAYON_NUM_THREADS
  args,       \* the parsed arguments, None before
  config      \* the ParallelConfig, None before

parallelVars == <<cpu_count, given, args, config>>

Given == [ workers : Values \cup {Unset}, rayon_threads : Values \cup {Unset},
           par_threshold : Values \cup {Unset}, RAYON_NUM_THREADS : Values \cup {Unset} ]

OrElse(option, default) == IF option = Unset THEN default ELSE option
Less(m, n) == IF m > n THEN m - n ELSE 0

(* The arguments with their defaults                                       *)
Parse ==
  /\ args = None
  /\ args' = [ workers |-> given.workers, rayon_threads |-> given.rayon_threads,
               par_threshold |-> OrElse(given.par_threshold, 8) ]
  /\ UNCHANGED <<cpu_count, given, config>>

AutomaticThreshold(rayon_threads) == Max({8, 4 * rayon_threads})

NewConfig(workers, rayon_threads, par_threshold) ==
  [ workers |-> workers, cpu_count |-> cpu_count, rayon_threads |-> rayon_threads,
    par_threshold |-> IF par_threshold \notin {Unset, 0} THEN par_threshold
                      ELSE AutomaticThreshold(rayon_threads),
    allow_parallel |-> cpu_count > 1 /\ rayon_threads > 1 ]

InitParallelism ==
  /\ args # None /\ config = None
  /\ LET workers == Max({1, OrElse(args.workers, Max({1, cpu_count \div 2}))})
         default == Max({1, Less(cpu_count, workers)})
         override == OrElse(args.rayon_threads, given.RAYON_NUM_THREADS)
         rayon_threads == Max({1, OrElse(override, default)}) IN
       config' = NewConfig(workers, rayon_threads, args.par_threshold)
  /\ UNCHANGED <<cpu_count, given, args>>

ParallelInit == cpu_count \in Cpus /\ given \in Given /\ args = None /\ config = None

ParallelNext == Parse \/ InitParallelism

ParallelSpec == ParallelInit /\ [][ParallelNext]_parallelVars

-----------------------------------------------------------------------------
(* Properties.                                                             *)

(* Documented in docs/config.md: a threshold of 0, or none at all, is      *)
(* computed from the number of rayon threads.                              *)
UnsetThresholdIsAutomatic ==
  config # None /\ given.par_threshold \in {Unset, 0} =>
    config.par_threshold = AutomaticThreshold(config.rayon_threads)

=============================================================================
