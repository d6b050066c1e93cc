------------------------ MODULE NotificationService ------------------------
(***************************************************************************)
(* What the parent process promises the threads of the child process:      *)
(* each thread has an inbox; its notifications are handled in the order    *)
(* they came, one at a time and none over an unfinished other; the program *)
(* of the thread continues only when the inbox is empty; and what is left  *)
(* in the inbox is dropped only when the thread ends. The threads make     *)
(* their steps independently, several of them may step together.           *)
(***************************************************************************)
EXTENDS Sequences

CONSTANTS Thread, Message, Nothing

VARIABLES
  alive,    \* the thread exists
  inbox,    \* what was sent to the thread and not begun
  current,  \* what the thread handles, Nothing while its program runs
  finished  \* the handler has reported that it is done

vars == <<alive, inbox, current, finished>>

Init ==
  /\ alive \in [Thread -> BOOLEAN]
  /\ inbox = [t \in Thread |-> <<>>]
  /\ current = [t \in Thread |-> Nothing]
  /\ finished = [t \in Thread |-> FALSE]

\* At most one message arrives for a thread in a step.
Arrivals == {<<>>} \cup {<<m>> : m \in Message}

Idle(t) == current[t] = Nothing \/ finished[t]

\* A message arrives, nothing else happens to the thread.
Receive(t) ==
  /\ \E new \in Arrivals : inbox'[t] = inbox[t] \o new
  /\ UNCHANGED <<alive[t], current[t]>>
  /\ finished'[t] \in {finished[t], current[t] # Nothing}

\* The handler of the first message starts.
Handle(t) ==
  \E new \in Arrivals :
    LET q == inbox[t] \o new
    IN /\ alive[t] /\ alive'[t]
       /\ Idle(t)
       /\ q # <<>>
       /\ current'[t] = Head(q)
       /\ inbox'[t] = Tail(q)
       /\ ~finished'[t]

\* With an empty inbox the program of the thread continues.
Return(t) ==
  /\ alive[t] /\ alive'[t]
  /\ finished[t] /\ ~finished'[t]
  /\ inbox[t] = <<>> /\ inbox'[t] = <<>>
  /\ current'[t] = Nothing

Create(t) ==
  /\ ~alive[t] /\ alive'[t]
  /\ inbox[t] = <<>>
  /\ UNCHANGED <<inbox[t], current[t], finished[t]>>

\* The thread ends; what reaches a thread that ended may be dropped at any time.
End(t) ==
  /\ ~alive'[t]
  /\ inbox'[t] = <<>>
  /\ current'[t] = Nothing
  /\ ~finished'[t]

ThreadStep(t) == Receive(t) \/ Handle(t) \/ Return(t) \/ Create(t) \/ End(t)

Spec == Init /\ [][\A t \in Thread : ThreadStep(t)]_vars
============================================================================
