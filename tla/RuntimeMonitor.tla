--------------------------- MODULE RuntimeMonitor ---------------------------
(***************************************************************************)
(* The runtime monitor of the driver charges time to the category that was *)
(* entered last. An exception skips the leave() of a category, which is    *)
(* then popped by that of a category below it.                             *)
(***************************************************************************)
EXTENDS Naturals, Sequences, SequencesExt

CONSTANTS
  Category,
  MaxTime, MaxDepth   \* bound the clock and the stack

VARIABLES
  stack,              \* the categories that were entered, the last one first
  start,              \* when the timer of a category was started last
  categoryTime,
  now,                \* System.currentTimeMillis()
  spent               \* the time each category was at the head of the stack

vars == <<stack, start, categoryTime, now, spent>>

Init ==
  /\ stack = <<>> /\ now = 0
  /\ start = [c \in Category |-> 0] /\ categoryTime = start /\ spent = start

StopTimer(c) == categoryTime' = [categoryTime EXCEPT ![c] = @ + now - start[c]]
StartTimer(c) == start' = [start EXCEPT ![c] = now]

Tick ==
  /\ now < MaxTime /\ now' = now + 1
  /\ spent' = IF stack = <<>> THEN spent ELSE [spent EXCEPT ![Head(stack)] = @ + 1]
  /\ UNCHANGED <<stack, start, categoryTime>>

Enter(c) ==
  /\ Len(stack) < MaxDepth
  /\ IF stack = <<>> THEN UNCHANGED categoryTime ELSE StopTimer(Head(stack))
  /\ stack' = <<c>> \o stack /\ StartTimer(c)
  /\ UNCHANGED <<now, spent>>

\* The head is popped, and more until the category is.
Pop(c) == SubSeq(stack, SelectInSeq(stack, LAMBDA x : x = c) + 1, Len(stack))

\* Mutant: the timer of the category below is not started again.
LeaveForGood(c) ==
  /\ Contains(stack, c)
  /\ StopTimer(Head(stack)) /\ stack' = Pop(c)
  /\ UNCHANGED <<start, now, spent>>

\* Only a category that was entered can be left.
Leave(c) ==
  /\ Contains(stack, c)
  /\ StopTimer(Head(stack)) /\ stack' = Pop(c)
  /\ IF stack' = <<>> THEN UNCHANGED start ELSE StartTimer(Head(stack'))
  /\ UNCHANGED <<now, spent>>

Next == Tick \/ \E c \in Category : Enter(c) \/ Leave(c)

Spec == Init /\ [][Next]_vars

----------------------------------------------------------------------------

\* Each category is charged the time it was at the head of the stack, once,
\* also if it was entered again below itself, or left while others were entered.
TimeIsAccounted ==
  \A c \in Category :
    spent[c] = categoryTime[c] + (IF stack # <<>> /\ Head(stack) = c THEN now - start[c] ELSE 0)
=============================================================================
