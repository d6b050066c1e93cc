--------------------------- MODULE DriverUtilities ---------------------------
(***************************************************************************)
(* Four classes of the driver and what they promise: the stream that       *)
(* updates generated files, the monitor of the run time, the configuration *)
(* and the search for optimal parameters. They share nothing.              *)
(***************************************************************************)
EXTENDS Integers, Sequences

CONSTANTS
  Byte, MaxLength, NoFile,
  Category, MaxTime, MaxDepth,
  Key, Value, Unset, MaxPushes,
  Space, Quantity, NoOptimum

VARIABLES
  file, open, position, writing, before, written,
  stack, start, categoryTime, now, spent,
  data, oldValuesStack, pushed,
  space, measured, comparison, optimum, fast

stream == <<file, open, position, writing, before, written>>
monitor == <<stack, start, categoryTime, now, spent>>
keys == <<data, oldValuesStack, pushed>>
search == <<space, measured, comparison, optimum, fast>>

Stream == INSTANCE UpdatingFileOutputStream
Monitor == INSTANCE RuntimeMonitor
Keys == INSTANCE Configuration
Search == INSTANCE OptimizationService WITH None <- NoOptimum

\* A generated file is what was written to it, each category is charged its
\* time, pop() undoes what was set since its push(), and nothing that was tried
\* is better than the optimum; see the modules.
FileIsUpdated == Stream!FileIsUpdated
TimeIsAccounted == Monitor!TimeIsAccounted
PopRestores == Keys!PopRestores
NothingTriedIsBetter == Search!NothingTriedIsBetter
=============================================================================
