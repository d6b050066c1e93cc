------------------------ MODULE ActionExecution_proofs ------------------------
(***************************************************************************)
(* Theorems about ActionExecution, for any threads, workloads and calls.   *)
(***************************************************************************)
EXTENDS ActionExecution, SequenceTheorems, TLAPS

----------------------------------------------------------------------------
(* Stacks, counted from the outermost call.                                *)

FromBottom(s, d) == s[Len(s) + 1 - d]

Depth(t) == Len(stack[t])
Frm(t, d) == FromBottom(stack[t], d)

\* A call on top of a stack leaves the others where they are.
LEMMA PushSeq ==
  ASSUME NEW S, NEW s \in Seq(S), NEW f \in S
  PROVE  /\ <<f>> \o s \in Seq(S)
         /\ Len(<<f>> \o s) = Len(s) + 1
         /\ FromBottom(<<f>> \o s, Len(s) + 1) = f
         /\ \A d \in 1 .. Len(s) : FromBottom(<<f>> \o s, d) = FromBottom(s, d)
  <1> DEFINE new == <<f>> \o s
  <1>1. <<f>> \in Seq(S) /\ Len(<<f>>) = 1 /\ <<f>>[1] = f /\ Len(s) \in Nat
      BY LenProperties
  <1>2. /\ new \in Seq(S) /\ Len(new) = Len(s) + 1
        /\ \A i \in 1 .. Len(s) + 1 : new[i] = IF i <= 1 THEN <<f>>[i] ELSE s[i - 1]
      BY <1>1, ConcatProperties
  <1> HIDE DEF new
  <1>3. FromBottom(new, Len(s) + 1) = f
      BY <1>1, <1>2 DEF FromBottom
  <1>4. ASSUME NEW d \in 1 .. Len(s)
        PROVE  FromBottom(new, d) = FromBottom(s, d)
    <2>1. Len(s) + 2 - d \in 1 .. Len(s) + 1 /\ Len(s) + 2 - d > 1
        BY <1>1
    <2>2. new[Len(s) + 2 - d] = s[Len(s) + 1 - d]
        BY <2>1, <1>2, <1>1
    <2>3. Len(new) + 1 - d = Len(s) + 2 - d
        BY <1>1, <1>2
    <2> QED
        BY <2>2, <2>3 DEF FromBottom
  <1> QED
      BY <1>2, <1>3, <1>4 DEF new

\* So does a return from the call on top, which is the last from the bottom.
LEMMA PopSeq ==
  ASSUME NEW S, NEW s \in Seq(S), s # <<>>
  PROVE  /\ Head(s) \in S /\ Tail(s) \in Seq(S)
         /\ Len(s) \in Nat \ {0} /\ Len(Tail(s)) = Len(s) - 1
         /\ FromBottom(s, Len(s)) = Head(s)
         /\ \A d \in 1 .. Len(s) - 1 : FromBottom(Tail(s), d) = FromBottom(s, d)
  <1>1. /\ Head(s) \in S /\ Tail(s) \in Seq(S) /\ Len(Tail(s)) = Len(s) - 1
        /\ \A i \in 1 .. Len(Tail(s)) : Tail(s)[i] = s[i + 1]
      BY HeadTailProperties
  <1>2. Len(s) \in Nat \ {0}
      BY EmptySeq
  <1>3. FromBottom(s, Len(s)) = Head(s)
      BY <1>2 DEF FromBottom
  <1>4. ASSUME NEW d \in 1 .. Len(s) - 1
        PROVE  FromBottom(Tail(s), d) = FromBottom(s, d)
    <2>1. Len(s) - d \in 1 .. Len(Tail(s)) /\ Len(s) - d + 1 = Len(s) + 1 - d
          /\ Len(Tail(s)) + 1 - d = Len(s) - d
        BY <1>1, <1>2
    <2> QED
        BY <1>1, <2>1 DEF FromBottom
  <1> QED
      BY <1>1, <1>2, <1>3, <1>4

\* The frames of a stack, counted from either end.
LEMMA SameFrames ==
  ASSUME NEW S, NEW s \in Seq(S)
  PROVE  /\ Len(s) \in Nat
         /\ \A i \in 1 .. Len(s) : Len(s) + 1 - i \in 1 .. Len(s) /\ FromBottom(s, Len(s) + 1 - i) = s[i]
         /\ \A d \in 1 .. Len(s) : Len(s) + 1 - d \in 1 .. Len(s) /\ FromBottom(s, d) = s[Len(s) + 1 - d]
         /\ \A d \in 1 .. Len(s) : FromBottom(s, d) \in S
         /\ s # <<>> <=> Len(s) # 0
  <1>1. Len(s) \in Nat /\ \A i \in 1 .. Len(s) : s[i] \in S
      BY LenProperties
  <1>2. s # <<>> <=> Len(s) # 0
      BY EmptySeq
  <1>3. \A d \in 1 .. Len(s) : Len(s) + 1 - d \in 1 .. Len(s) /\ Len(s) + 1 - (Len(s) + 1 - d) = d
      BY <1>1
  <1> QED
      BY <1>1, <1>2, <1>3 DEF FromBottom

\* Two calls are put on top of a stack one after the other.
LEMMA PushTwo ==
  ASSUME NEW S, NEW s \in Seq(S), NEW f \in S, NEW g \in S
  PROVE  <<f, g>> \o s = <<f>> \o (<<g>> \o s)
  <1>1. <<f>> \in Seq(S) /\ <<g>> \in Seq(S) /\ <<f, g>> \in Seq(S)
      OBVIOUS
  <1>2. <<f>> \o <<g>> = <<f, g>>
    <2>1. <<f>> \o <<g>> \in Seq(S) /\ Len(<<f>> \o <<g>>) = 2
          /\ \A i \in 1 .. 2 : (<<f>> \o <<g>>)[i] = IF i <= 1 THEN <<f>>[i] ELSE <<g>>[i - 1]
        BY <1>1, ConcatProperties, Len(<<f>>) = 1, Len(<<g>>) = 1
    <2>2. \A i \in 1 .. 2 : (<<f>> \o <<g>>)[i] = <<f, g>>[i]
        BY <2>1
    <2> QED
        BY <1>1, <2>1, <2>2, SeqEqual, Len(<<f, g>>) = 2
  <1>3. (<<f>> \o <<g>>) \o s = <<f>> \o (<<g>> \o s)
      BY <1>1, ConcatAssociative
  <1> QED
      BY <1>2, <1>3

----------------------------------------------------------------------------
(* Types.                                                                  *)

TransitOps == {"find", "found", "push", "pushed", "askWorkload", "asked"}
AttachOps == {"attach", "attachFind", "attachFound", "forward"}
OtherOps == AttachOps \cup HandlerOps \cup {"notify", "answered"}
CallOps == HelperOps \cup WaitOps \cup {"imp"}
Op == TransitOps \cup OtherOps \cup CallOps \cup {"program"}

Frame == [op : Op, call : Call \cup {None}, to : Thread \cup {None}, rest : Seq(Call)]

Notification == {Ntf("ProcessActions", None), Ntf("ThreadExiting", None)}
                  \cup {Ntf("ThreadExited", t) : t \in Thread}

\* What a frame of thread t is about, d calls from the bottom. Until it is
\* queued a helper is on its way to the thread of its call; an action runs in
\* the thread it is restricted to; only the outermost frame is a program.
FrameOK(t, d, f) ==
  /\ f.op \in TransitOps \cup {"notify"} => f.call \in Call /\ f.to = To[f.call] /\ f.to \in Thread
  /\ f.op \in {"askWorkload", "asked", "answered"} \cup AttachOps => f.to \in Workloads
  /\ f.op \in AttachOps => f.to = t
  /\ f.op \in CallOps => f.call \in Call
  /\ f.op \in HelperOps \cup {"imp"} => To[f.call] \in {None, t}
  /\ f.op \in {"forget", "forgot"} => f.to \in Thread
  /\ f.op = "program" => d = 1

StackOK ==
  /\ stack \in [Thread -> Seq(Frame)]
  /\ \A t \in Thread : \A d \in 1 .. Depth(t) : FrameOK(t, d, Frm(t, d))

\* A helper is queued in the thread of its call, or left with its workload.
QueuesOK ==
  /\ actionQueue \in [Thread -> Seq(Call)]
  /\ \A t \in Thread : \A i \in 1 .. Len(actionQueue[t]) : To[actionQueue[t][i]] = t
  /\ waiting \in [Workloads -> Seq(Call)]
  /\ \A w \in Workloads : \A i \in 1 .. Len(waiting[w]) : To[waiting[w][i]] = w

TypeOK ==
  /\ StackOK
  /\ QueuesOK
  /\ alive \subseteq Thread /\ threadMap \subseteq Thread /\ childThread \subseteq Workloads
  /\ mutex \in [Mutex -> Thread \cup {None}]
  /\ inbox \in [Thread -> Seq(Notification)]
  /\ opened \subseteq Call /\ ran \subseteq Call /\ returned \subseteq Call
  /\ aborted \in BOOLEAN

----------------------------------------------------------------------------
(* What a step does to the stacks: the calls from k on of thread t are      *)
(* replaced by those of fs, the outermost first.                           *)

Replaces(t, k, fs) ==
  /\ stack' \in [Thread -> Seq(Frame)]
  /\ k \in Nat /\ k <= Depth(t) /\ Depth(t)' = k + Len(fs)
  /\ \A u \in Thread \ {t} : Depth(u)' = Depth(u) /\ \A d \in 1 .. Depth(u) : Frm(u, d)' = Frm(u, d)
  /\ \A d \in 1 .. k : Frm(t, d)' = Frm(t, d)
  /\ \A i \in 1 .. Len(fs) : Frm(t, k + i)' = fs[i]

\* The frames of a thread.
LEMMA Frames ==
  ASSUME stack \in [Thread -> Seq(Frame)], NEW t \in Thread
  PROVE  /\ Depth(t) \in Nat
         /\ \A d \in 1 .. Depth(t) : Frm(t, d) \in Frame
         /\ \A d \in 1 .. Depth(t) : Depth(t) + 1 - d \in 1 .. Depth(t)
                                     /\ Frm(t, d) = stack[t][Depth(t) + 1 - d]
         /\ \A i \in 1 .. Depth(t) : Depth(t) + 1 - i \in 1 .. Depth(t)
                                     /\ Frm(t, Depth(t) + 1 - i) = stack[t][i]
         /\ stack[t] # <<>> => Depth(t) # 0 /\ Top(t) = Frm(t, Depth(t)) /\ Top(t) \in Frame
         /\ stack[t] = <<>> => Depth(t) = 0
  <1>1. stack[t] \in Seq(Frame)
      OBVIOUS
  <1>2. stack[t] # <<>> => Depth(t) # 0 /\ Top(t) = Frm(t, Depth(t)) /\ Top(t) \in Frame
      BY <1>1, PopSeq DEF Depth, Frm, Top
  <1>3. stack[t] = <<>> => Depth(t) = 0
      BY DEF Depth
  <1> QED
      BY <1>1, <1>2, <1>3, SameFrames DEF Depth, Frm

\* Nothing else changes in the stack of another thread.
LEMMA OtherStacks ==
  ASSUME NEW t \in Thread, NEW s, stack' = [stack EXCEPT ![t] = s],
         stack \in [Thread -> Seq(Frame)], s \in Seq(Frame)
  PROVE  /\ stack' \in [Thread -> Seq(Frame)] /\ stack'[t] = s
         /\ \A u \in Thread \ {t} : Depth(u)' = Depth(u) /\ \A d \in 1 .. Depth(u) : Frm(u, d)' = Frm(u, d)
  <1>1. \A u \in Thread \ {t} : stack'[u] = stack[u]
      OBVIOUS
  <1> QED
      BY <1>1 DEF Depth, Frm

\* The new stack of a thread, given the frames of its first k calls and the others.
LEMMA NewStack ==
  ASSUME stack \in [Thread -> Seq(Frame)], NEW t \in Thread, NEW s \in Seq(Frame),
         stack' = [stack EXCEPT ![t] = s], NEW k \in Nat, k <= Depth(t), NEW fs,
         Len(s) = k + Len(fs), \A d \in 1 .. k : FromBottom(s, d) = Frm(t, d),
         \A i \in 1 .. Len(fs) : FromBottom(s, k + i) = fs[i]
  PROVE  Replaces(t, k, fs)
  <1>1. /\ stack' \in [Thread -> Seq(Frame)] /\ stack'[t] = s
        /\ \A u \in Thread \ {t} : Depth(u)' = Depth(u) /\ \A d \in 1 .. Depth(u) : Frm(u, d)' = Frm(u, d)
      BY OtherStacks
  <1>2. Depth(t)' = Len(s) /\ \A d : Frm(t, d)' = FromBottom(s, d)
      BY <1>1 DEF Depth, Frm
  <1> QED
      BY <1>1, <1>2 DEF Replaces

\* A call on top: Enter, with one frame.
LEMMA EnterOne ==
  ASSUME stack \in [Thread -> Seq(Frame)], NEW t \in Thread, NEW f \in Frame, Enter(t, <<f>>),
         NEW n, n = Depth(t)
  PROVE  Replaces(t, n, <<f>>)
  <1> DEFINE s == <<f>> \o stack[t]
  <1>1. stack' = [stack EXCEPT ![t] = s] /\ stack[t] \in Seq(Frame) /\ n \in Nat
      BY Frames DEF Enter
  <1>2. /\ s \in Seq(Frame) /\ Len(s) = n + 1 /\ FromBottom(s, n + 1) = f
        /\ \A d \in 1 .. n : FromBottom(s, d) = Frm(t, d)
      BY <1>1, PushSeq DEF Depth, Frm
  <1>3. Len(<<f>>) = 1 /\ <<f>>[1] = f
      OBVIOUS
  <1> HIDE DEF s
  <1>4. \A i \in 1 .. Len(<<f>>) : FromBottom(s, n + i) = <<f>>[i]
      BY <1>2, <1>3, \A i \in 1 .. 1 : i = 1
  <1>5. n <= Depth(t) /\ Len(s) = n + Len(<<f>>)
      BY <1>1, <1>2, <1>3
  <1> QED
      BY <1>1, <1>2, <1>4, <1>5, NewStack

\* Enter, with two frames.
LEMMA EnterTwo ==
  ASSUME stack \in [Thread -> Seq(Frame)], NEW t \in Thread, NEW f \in Frame, NEW g \in Frame,
         Enter(t, <<f, g>>), NEW n, n = Depth(t)
  PROVE  Replaces(t, n, <<g, f>>)
  <1> DEFINE r == <<g>> \o stack[t]
             s == <<f>> \o r
  <1>1. stack' = [stack EXCEPT ![t] = s] /\ stack[t] \in Seq(Frame) /\ n \in Nat
    <2>1. stack[t] \in Seq(Frame) /\ n \in Nat
        BY Frames
    <2>2. <<f, g>> \o stack[t] = s
        BY <2>1, PushTwo
    <2> QED
        BY <2>1, <2>2 DEF Enter
  <1>2. /\ r \in Seq(Frame) /\ Len(r) = n + 1 /\ FromBottom(r, n + 1) = g
        /\ \A d \in 1 .. n : FromBottom(r, d) = Frm(t, d)
      BY <1>1, PushSeq DEF Depth, Frm
  <1> HIDE DEF r
  <1>3. /\ s \in Seq(Frame) /\ Len(s) = n + 2 /\ FromBottom(s, n + 2) = f /\ FromBottom(s, n + 1) = g
        /\ \A d \in 1 .. n : FromBottom(s, d) = Frm(t, d)
    <2>1. /\ s \in Seq(Frame) /\ Len(s) = Len(r) + 1 /\ FromBottom(s, Len(r) + 1) = f
          /\ \A d \in 1 .. Len(r) : FromBottom(s, d) = FromBottom(r, d)
        BY <1>2, PushSeq
    <2> QED
        BY <2>1, <1>1, <1>2
  <1>4. Len(<<g, f>>) = 2 /\ <<g, f>>[1] = g /\ <<g, f>>[2] = f
      OBVIOUS
  <1> HIDE DEF s
  <1>5. \A i \in 1 .. Len(<<g, f>>) : FromBottom(s, n + i) = <<g, f>>[i]
      BY <1>3, <1>4, \A i \in 1 .. 2 : i = 1 \/ i = 2
  <1>6. n <= Depth(t) /\ Len(s) = n + Len(<<g, f>>)
      BY <1>1, <1>3, <1>4
  <1> QED
      BY <1>1, <1>3, <1>5, <1>6, NewStack

\* A return from the call on top.
LEMMA LeaveTop ==
  ASSUME stack \in [Thread -> Seq(Frame)], NEW t \in Thread, stack[t] # <<>>, Leave(t),
         NEW n, n = Depth(t)
  PROVE  Replaces(t, n - 1, <<>>)
  <1>1. /\ Tail(stack[t]) \in Seq(Frame) /\ n \in Nat \ {0} /\ Len(Tail(stack[t])) = n - 1
        /\ \A d \in 1 .. n - 1 : FromBottom(Tail(stack[t]), d) = Frm(t, d)
      BY PopSeq DEF Depth, Frm
  <1>2. stack' = [stack EXCEPT ![t] = Tail(stack[t])]
      BY DEF Leave
  <1>3. /\ n - 1 \in Nat /\ n - 1 <= Depth(t) /\ Len(Tail(stack[t])) = n - 1 + Len(<<>>)
        /\ \A i \in 1 .. Len(<<>>) : FromBottom(Tail(stack[t]), n - 1 + i) = <<>>[i]
      BY <1>1
  <1> QED
      BY <1>1, <1>2, <1>3, NewStack

\* One frame instead of the one on top.
LEMMA ReplaceTop ==
  ASSUME stack \in [Thread -> Seq(Frame)], NEW t \in Thread, stack[t] # <<>>, NEW f \in Frame,
         stack' = [stack EXCEPT ![t] = <<f>> \o Tail(@)], NEW n, n = Depth(t)
  PROVE  Replaces(t, n - 1, <<f>>)
  <1> DEFINE r == Tail(stack[t])
             s == <<f>> \o r
  <1>1. /\ r \in Seq(Frame) /\ n \in Nat \ {0} /\ Len(r) = n - 1
        /\ \A d \in 1 .. n - 1 : FromBottom(r, d) = Frm(t, d)
      BY PopSeq DEF Depth, Frm
  <1>2. stack' = [stack EXCEPT ![t] = s]
      OBVIOUS
  <1> HIDE DEF r
  <1>3. /\ s \in Seq(Frame) /\ Len(s) = n /\ FromBottom(s, n) = f
        /\ \A d \in 1 .. n - 1 : FromBottom(s, d) = Frm(t, d)
    <2>1. /\ s \in Seq(Frame) /\ Len(s) = Len(r) + 1 /\ FromBottom(s, Len(r) + 1) = f
          /\ \A d \in 1 .. Len(r) : FromBottom(s, d) = FromBottom(r, d)
        BY <1>1, PushSeq
    <2> QED
        BY <2>1, <1>1
  <1>4. Len(<<f>>) = 1 /\ <<f>>[1] = f
      OBVIOUS
  <1> HIDE DEF s
  <1>5. \A i \in 1 .. Len(<<f>>) : FromBottom(s, n - 1 + i) = <<f>>[i]
      BY <1>1, <1>3, <1>4, \A i \in 1 .. 1 : i = 1
  <1>6. n - 1 \in Nat /\ n - 1 <= Depth(t) /\ Len(s) = n - 1 + Len(<<f>>)
      BY <1>1, <1>3, <1>4
  <1> QED
      BY <1>2, <1>3, <1>5, <1>6, NewStack

\* Goto: the call on top goes on.
LEMMA GotoTop ==
  ASSUME stack \in [Thread -> Seq(Frame)], NEW t \in Thread, stack[t] # <<>>, NEW op \in Op,
         Goto(t, op), NEW n, n = Depth(t), NEW f, f = [Top(t) EXCEPT !.op = op]
  PROVE  Replaces(t, n - 1, <<f>>) /\ f \in Frame
  <1>1. f \in Frame
    <2>1. Top(t) \in Frame
        BY Frames
    <2> QED
        BY <2>1 DEF Frame
  <1>2. stack' = [stack EXCEPT ![t] = <<f>> \o Tail(@)]
      BY DEF Goto, Top
  <1>3. Replaces(t, n - 1, <<f>>)
      BY <1>1, <1>2, ReplaceTop
  <1> QED
      BY <1>1, <1>3

\* The new frames are all that must be typed.
LEMMA ReplacedOK ==
  ASSUME StackOK, NEW t \in Thread, NEW k, NEW fs, Len(fs) \in Nat, Replaces(t, k, fs),
         \A i \in 1 .. Len(fs) : FrameOK(t, k + i, fs[i])
  PROVE  StackOK'
  <1>1. k \in Nat /\ k <= Depth(t) /\ \A u \in Thread : Depth(u) \in Nat
      BY Frames DEF StackOK, Replaces
  <1>2. ASSUME NEW u \in Thread, NEW d \in 1 .. Depth(u)'
        PROVE  FrameOK(u, d, Frm(u, d)')
    <2>1. CASE u # t
      <3>1. d \in 1 .. Depth(u) /\ Frm(u, d)' = Frm(u, d)
          BY <2>1 DEF Replaces
      <3> QED
          BY <3>1 DEF StackOK
    <2>2. CASE u = t /\ d <= k
      <3>1. d \in 1 .. k /\ d \in 1 .. Depth(u) /\ Frm(u, d)' = Frm(u, d)
          BY <1>1, <2>2 DEF Replaces
      <3> QED
          BY <3>1 DEF StackOK
    <2>3. CASE u = t /\ d > k
      <3>1. d - k \in 1 .. Len(fs) /\ k + (d - k) = d
          BY <1>1, <2>3 DEF Replaces
      <3>2. Frm(u, d)' = fs[d - k]
        <4>1. Frm(t, k + (d - k))' = fs[d - k]
            BY <3>1 DEF Replaces
        <4> QED
            BY <4>1, <3>1, <2>3
      <3>3. FrameOK(t, k + (d - k), fs[d - k])
          BY <3>1
      <3> QED
          BY <3>1, <3>2, <3>3, <2>3
    <2> QED
        BY <1>1, <2>1, <2>2, <2>3
  <1>3. stack' \in [Thread -> Seq(Frame)]
      BY DEF Replaces
  <1> QED
      BY <1>2, <1>3 DEF StackOK

----------------------------------------------------------------------------
(* The frames that matter to a call.                                       *)

\* The helper of c is on its way to a queue or to a workload, or is executed.
Transit(t, d, c) == d \in 1 .. Depth(t) /\ Frm(t, d).op \in TransitOps /\ Frm(t, d).call = c
Helper(t, d, c) == d \in 1 .. Depth(t) /\ Frm(t, d).op \in HelperOps /\ Frm(t, d).call = c

\* The action of c is executed; the caller of c waits for it.
Imp(t, d, c) == d \in 1 .. Depth(t) /\ Frm(t, d).op = "imp" /\ Frm(t, d).call = c
Wait(t, d, c) == d \in 1 .. Depth(t) /\ Frm(t, d).op \in WaitOps /\ Frm(t, d).call = c

\* The code of thread or call x is executed, the calls still to make are Rest.
Owner(t, d, x) ==
  \/ Imp(t, d, x)
  \/ d \in 1 .. Depth(t) /\ Frm(t, d).op = "program" /\ x = t
Rest(t, d) == Frm(t, d).rest

\* A frame is what it was.
SameRoles(t, d) ==
  /\ \A c \in Call : /\ Transit(t, d, c)' <=> Transit(t, d, c)
                     /\ Helper(t, d, c)' <=> Helper(t, d, c)
                     /\ Imp(t, d, c)' <=> Imp(t, d, c)
                     /\ Wait(t, d, c)' <=> Wait(t, d, c)
  /\ \A x \in Thread \cup Call : /\ Owner(t, d, x)' <=> Owner(t, d, x)
                                 /\ Owner(t, d, x) => Rest(t, d)' = Rest(t, d)

\* No frame there matters.
NoRole(t, d) ==
  /\ \A c \in Call : ~Transit(t, d, c) /\ ~Helper(t, d, c) /\ ~Imp(t, d, c) /\ ~Wait(t, d, c)
  /\ \A x \in Thread \cup Call : ~Owner(t, d, x)

\* The frames below the change are what they were.
LEMMA Kept ==
  ASSUME StackOK, NEW t \in Thread, NEW k, NEW fs, Len(fs) \in Nat, Replaces(t, k, fs),
         NEW u \in Thread, NEW d \in Nat, u # t \/ d <= k
  PROVE  SameRoles(u, d)
  <1>1. k \in Nat /\ k <= Depth(t) /\ \A v \in Thread : Depth(v) \in Nat
      BY Frames DEF StackOK, Replaces
  <1>2. (d \in 1 .. Depth(u)') = (d \in 1 .. Depth(u)) /\ (d \in 1 .. Depth(u) => Frm(u, d)' = Frm(u, d))
      BY <1>1 DEF Replaces
  <1> QED
      BY <1>2 DEF SameRoles, Transit, Helper, Imp, Wait, Owner, Rest

\* There is nothing above the top of a stack.
LEMMA NoneAbove ==
  ASSUME StackOK, NEW t \in Thread, NEW d \in Nat, d = 0 \/ d > Depth(t)
  PROVE  NoRole(t, d)
  <1>1. d \notin 1 .. Depth(t)
      BY Frames DEF StackOK
  <1> QED
      BY <1>1 DEF NoRole, Transit, Helper, Imp, Wait, Owner

\* So there is nothing above the new frames.
LEMMA NoneAboveNew ==
  ASSUME StackOK, NEW t \in Thread, NEW k, NEW fs, Len(fs) \in Nat, Replaces(t, k, fs),
         NEW d \in Nat, d > k + Len(fs)
  PROVE  NoRole(t, d)'
  <1>1. d \notin 1 .. Depth(t)'
      BY DEF Replaces
  <1> QED
      BY <1>1 DEF NoRole, Transit, Helper, Imp, Wait, Owner

\* What a new frame is.
LEMMA NewFrame ==
  ASSUME StackOK, NEW t \in Thread, NEW k, NEW fs, Len(fs) \in Nat, Replaces(t, k, fs),
         NEW i \in 1 .. Len(fs), NEW d, d = k + i, NEW f, f = fs[i]
  PROVE  /\ d \in Nat /\ Rest(t, d)' = f.rest
         /\ \A c \in Call : /\ Transit(t, d, c)' <=> f.op \in TransitOps /\ f.call = c
                            /\ Helper(t, d, c)' <=> f.op \in HelperOps /\ f.call = c
                            /\ Imp(t, d, c)' <=> f.op = "imp" /\ f.call = c
                            /\ Wait(t, d, c)' <=> f.op \in WaitOps /\ f.call = c
         /\ \A x \in Thread \cup Call :
              Owner(t, d, x)' <=> (f.op = "imp" /\ f.call = x) \/ (f.op = "program" /\ x = t)
  <1>1. d \in 1 .. Depth(t)' /\ Frm(t, d)' = f
      BY DEF Replaces
  <1> QED
      BY <1>1 DEF Transit, Helper, Imp, Wait, Owner, Rest

\* What the frame on top is.
LEMMA TopFrame ==
  ASSUME StackOK, NEW t \in Thread, NEW n, n = Depth(t), n # 0, NEW f, f = Frm(t, n)
  PROVE  /\ n \in Nat \ {0} /\ f \in Frame /\ FrameOK(t, n, f) /\ Rest(t, n) = f.rest
         /\ \A c \in Call : /\ Transit(t, n, c) <=> f.op \in TransitOps /\ f.call = c
                            /\ Helper(t, n, c) <=> f.op \in HelperOps /\ f.call = c
                            /\ Imp(t, n, c) <=> f.op = "imp" /\ f.call = c
                            /\ Wait(t, n, c) <=> f.op \in WaitOps /\ f.call = c
         /\ \A x \in Thread \cup Call :
              Owner(t, n, x) <=> (f.op = "imp" /\ f.call = x) \/ (f.op = "program" /\ x = t)
  <1>1. n \in Nat \ {0} /\ n \in 1 .. Depth(t) /\ f \in Frame
      BY Frames DEF StackOK
  <1>2. FrameOK(t, n, f)
      BY <1>1 DEF StackOK
  <1> QED
      BY <1>1, <1>2 DEF Transit, Helper, Imp, Wait, Owner, Rest

\* The steps in which only frames change that do not matter.
Quiet == \A t \in Thread, d \in Nat : SameRoles(t, d)

\* A frame that does not matter.
LEMMA OtherFrame ==
  ASSUME NEW f, f.op \in OtherOps
  PROVE  f.op \notin TransitOps /\ f.op \notin CallOps \cup {"program"}
  BY DEF OtherOps, AttachOps, HandlerOps, TransitOps, CallOps, HelperOps, WaitOps

\* Nor do the parts of a call mix.
LEMMA CallFrame ==
  ASSUME NEW f
  PROVE  /\ f.op \in TransitOps => f.op \notin CallOps \cup OtherOps \cup {"program"}
         /\ f.op \in CallOps => f.op \notin TransitOps \cup OtherOps \cup {"program"}
         /\ f.op \in HelperOps => f.op \in CallOps /\ f.op \notin WaitOps \cup {"imp"}
         /\ f.op \in WaitOps => f.op \in CallOps /\ f.op \notin HelperOps \cup {"imp"}
         /\ f.op = "imp" => f.op \in CallOps /\ f.op \notin HelperOps \cup WaitOps
  BY DEF OtherOps, AttachOps, HandlerOps, TransitOps, CallOps, HelperOps, WaitOps

\* One frame plays the part of the other.
SamePart(f, g) ==
  \/ g.call = f.call /\ \E ops \in {TransitOps, HelperOps, WaitOps} : f.op \in ops /\ g.op \in ops
  \/ f.op \in OtherOps /\ g.op \in OtherOps

LEMMA QuietTop ==
  ASSUME StackOK, NEW t \in Thread, NEW n, n = Depth(t), n # 0, NEW f, f = Frm(t, n), NEW g,
         Replaces(t, n - 1, <<g>>),
         SamePart(f, g)
  PROVE  Quiet
  <1>1. Len(<<g>>) = 1 /\ <<g>>[1] = g /\ n \in Nat \ {0} /\ n - 1 \in Nat
      BY TopFrame
  <1>2. ASSUME NEW u \in Thread, NEW d \in Nat
        PROVE  SameRoles(u, d)
    <2>1. CASE u # t \/ d <= n - 1
        BY <1>1, <2>1, Kept
    <2>2. CASE u = t /\ d = n
      <3>1. n = (n - 1) + 1 /\ 1 \in 1 .. Len(<<g>>)
          BY <1>1
      <3>2. /\ Rest(t, n)' = g.rest
            /\ \A c \in Call : /\ Transit(t, n, c)' <=> g.op \in TransitOps /\ g.call = c
                               /\ Helper(t, n, c)' <=> g.op \in HelperOps /\ g.call = c
                               /\ Imp(t, n, c)' <=> g.op = "imp" /\ g.call = c
                               /\ Wait(t, n, c)' <=> g.op \in WaitOps /\ g.call = c
            /\ \A x \in Thread \cup Call :
                 Owner(t, n, x)' <=> (g.op = "imp" /\ g.call = x) \/ (g.op = "program" /\ x = t)
          BY <1>1, <3>1, NewFrame
      <3>3. /\ \A c \in Call : /\ Transit(t, n, c) <=> f.op \in TransitOps /\ f.call = c
                               /\ Helper(t, n, c) <=> f.op \in HelperOps /\ f.call = c
                               /\ Imp(t, n, c) <=> f.op = "imp" /\ f.call = c
                               /\ Wait(t, n, c) <=> f.op \in WaitOps /\ f.call = c
            /\ \A x \in Thread \cup Call :
                 Owner(t, n, x) <=> (f.op = "imp" /\ f.call = x) \/ (f.op = "program" /\ x = t)
          BY TopFrame
      <3>4. ASSUME f.op \in TransitOps <=> g.op \in TransitOps,
                   f.op \in HelperOps <=> g.op \in HelperOps,
                   f.op \in WaitOps <=> g.op \in WaitOps,
                   f.op \notin {"imp", "program"}, g.op \notin {"imp", "program"},
                   g.call = f.call \/ f.op \notin TransitOps \cup CallOps
            PROVE  SameRoles(u, d)
          BY <3>2, <3>3, <3>4, <2>2 DEF SameRoles, CallOps
      <3>5. CASE f.op \in TransitOps /\ g.op \in TransitOps /\ g.call = f.call
          BY <3>4, <3>5, CallFrame DEF CallOps
      <3>6. CASE f.op \in HelperOps /\ g.op \in HelperOps /\ g.call = f.call
          BY <3>4, <3>6, CallFrame DEF CallOps
      <3>7. CASE f.op \in WaitOps /\ g.op \in WaitOps /\ g.call = f.call
          BY <3>4, <3>7, CallFrame DEF CallOps
      <3>8. CASE f.op \in OtherOps /\ g.op \in OtherOps
          BY <3>4, <3>8, OtherFrame DEF CallOps
      <3> QED
          BY <3>5, <3>6, <3>7, <3>8 DEF SamePart
    <2>3. CASE u = t /\ d > n
      <3>1. NoRole(t, d)
          BY <2>3, NoneAbove
      <3>2. d > (n - 1) + Len(<<g>>)
          BY <2>3, <1>1
      <3>3. NoRole(t, d)'
          BY <3>2, <1>1, NoneAboveNew
      <3> QED
          BY <3>1, <3>3, <2>3 DEF NoRole, SameRoles
    <2> QED
        BY <1>1, <2>1, <2>2, <2>3
  <1> QED
      BY <1>2 DEF Quiet

LEMMA QuietLeave ==
  ASSUME StackOK, NEW t \in Thread, NEW n, n = Depth(t), n # 0, NEW f, f = Frm(t, n),
         Replaces(t, n - 1, <<>>), f.op \in OtherOps
  PROVE  Quiet
  <1>1. Len(<<>>) = 0 /\ n \in Nat \ {0} /\ n - 1 \in Nat
      BY TopFrame
  <1>2. ASSUME NEW u \in Thread, NEW d \in Nat
        PROVE  SameRoles(u, d)
    <2>1. CASE u # t \/ d <= n - 1
        BY <1>1, <2>1, Kept
    <2>2. CASE u = t /\ d >= n
      <3>1. NoRole(t, d)
        <4>1. CASE d = n
          <5>1. NoRole(t, n)
              BY TopFrame, OtherFrame DEF NoRole, CallOps
          <5> QED
              BY <4>1, <5>1
        <4>2. CASE d > n
            BY <4>2, NoneAbove
        <4> QED
            BY <4>1, <4>2, <2>2, <1>1
      <3>2. NoRole(t, d)'
          BY <1>1, <2>2, NoneAboveNew
      <3> QED
          BY <3>1, <3>2, <2>2 DEF NoRole, SameRoles
    <2> QED
        BY <1>1, <2>1, <2>2
  <1> QED
      BY <1>2 DEF Quiet

LEMMA QuietEnter ==
  ASSUME StackOK, NEW t \in Thread, NEW n, n = Depth(t), NEW g, Replaces(t, n, <<g>>), g.op \in OtherOps
  PROVE  Quiet
  <1>1. Len(<<g>>) = 1 /\ <<g>>[1] = g /\ n \in Nat
      BY Frames DEF StackOK
  <1>2. ASSUME NEW u \in Thread, NEW d \in Nat
        PROVE  SameRoles(u, d)
    <2>1. CASE u # t \/ d <= n
        BY <1>1, <2>1, Kept
    <2>2. CASE u = t /\ d > n
      <3>1. NoRole(t, d)
          BY <2>2, NoneAbove
      <3>2. NoRole(t, d)'
        <4>1. CASE d = n + 1
          <5>1. Len(<<g>>) \in Nat /\ 1 \in 1 .. Len(<<g>>) /\ g = <<g>>[1] /\ d = n + 1
              BY <1>1, <4>1
          <5>2. g.op \notin TransitOps /\ g.op \notin CallOps \cup {"program"}
              BY OtherFrame
          <5>3. /\ \A c \in Call : /\ Transit(t, d, c)' <=> g.op \in TransitOps /\ g.call = c
                                   /\ Helper(t, d, c)' <=> g.op \in HelperOps /\ g.call = c
                                   /\ Imp(t, d, c)' <=> g.op = "imp" /\ g.call = c
                                   /\ Wait(t, d, c)' <=> g.op \in WaitOps /\ g.call = c
                /\ \A x \in Thread \cup Call :
                     Owner(t, d, x)' <=> (g.op = "imp" /\ g.call = x) \/ (g.op = "program" /\ x = t)
              BY <5>1, NewFrame
          <5> QED
              BY <5>2, <5>3 DEF NoRole, CallOps
        <4>2. CASE d > n + 1
            BY <4>2, <1>1, NoneAboveNew
        <4> QED
            BY <4>1, <4>2, <2>2, <1>1
      <3> QED
          BY <3>1, <3>2, <2>2 DEF NoRole, SameRoles
    <2> QED
        BY <1>1, <2>1, <2>2
  <1> QED
      BY <1>2 DEF Quiet

----------------------------------------------------------------------------
(* The inductive invariant of the calls.                                   *)

Queued(t, i, c) == i \in 1 .. Len(actionQueue[t]) /\ actionQueue[t][i] = c
Left(t, i, c) == t \in Workloads /\ i \in 1 .. Len(waiting[t]) /\ waiting[t][i] = c

\* A helper that has not begun, an action that runs, a call that is waited for.
Pending(c) == \E t \in Thread, d \in Nat : Transit(t, d, c) \/ Queued(t, d, c) \/ Left(t, d, c)
Running(c) == \E t \in Thread, d \in Nat : Imp(t, d, c)
Waited(c) == \E t \in Thread, d \in Nat : Wait(t, d, c)

\* The helper of a call is in one place: a frame, a queue or a workload.
Holder(t, d, c) == Transit(t, d, c) \/ Helper(t, d, c)
OnePlace ==
  \A c \in Call, t, u \in Thread, d, e \in Nat :
    /\ Holder(t, d, c) /\ Holder(u, e, c) => t = u /\ d = e
    /\ Queued(t, d, c) /\ Queued(u, e, c) => t = u /\ d = e
    /\ Left(t, d, c) /\ Left(u, e, c) => t = u /\ d = e
    /\ ~(Holder(t, d, c) /\ Queued(u, e, c))
    /\ ~(Holder(t, d, c) /\ Left(u, e, c))
    /\ ~(Queued(t, d, c) /\ Left(u, e, c))

\* The action of a call runs on top of its helper, once; the helper then opens
\* its barrier.
RunsOnce ==
  /\ \A c \in Call : Pending(c) => c \notin ran /\ ~Running(c)
  /\ \A t \in Thread, d \in Nat, c \in Call :
       /\ Helper(t, d, c) => c \notin opened /\ (c \in ran \/ Imp(t, d + 1, c))
       /\ Imp(t, d, c) => c \notin ran /\ d - 1 \in Nat /\ Helper(t, d - 1, c)
  /\ returned \subseteq opened /\ opened \subseteq ran

\* The caller waits as long as there is a helper.
Awaited ==
  \A c \in Call : Pending(c) \/ (\E t \in Thread, d \in Nat : Helper(t, d, c)) => Waited(c)

\* The number of calls the code of x has made, the last of which is c.
Made(t, d, x) == Len(Code(x)) - Len(Rest(t, d))
LastCall(t, d, x, c) ==
  d \in Nat /\ Owner(t, d, x) /\ Made(t, d, x) \in 1 .. Len(Code(x)) /\ Code(x)[Made(t, d, x)] = c

\* Who waits for a call made it last.
WaitOK ==
  \A t \in Thread, d \in Nat, c \in Call :
    Wait(t, d, c) => c \notin returned /\ \E x \in Thread \cup Call : LastCall(t, d - 1, x, c)

\* A call that was not made yet.
Fresh(c) == ~Pending(c) /\ ~Running(c) /\ ~Waited(c) /\ c \notin ran

\* The calls that were made have returned, but the last; the others are fresh.
Progress(t, d, x) ==
  /\ Made(t, d, x) \in 0 .. Len(Code(x))
  /\ \A i \in 1 .. Len(Rest(t, d)) :
       Rest(t, d)[i] = Code(x)[Made(t, d, x) + i] /\ Fresh(Rest(t, d)[i])
  /\ \A j \in 1 .. Made(t, d, x) :
       Code(x)[j] \in returned \/ (j = Made(t, d, x) /\ Wait(t, d + 1, Code(x)[j]))
OwnerOK == \A t \in Thread, d \in Nat, x \in Thread \cup Call : Owner(t, d, x) => Progress(t, d, x)

\* The calls of an action that has not begun are fresh, those of an action that
\* has run have returned.
BegunOK ==
  \A x \in Call : \A j \in 1 .. Len(Calls[x]) :
    /\ x \in ran => Calls[x][j] \in returned
    /\ x \notin ran /\ ~Running(x) => Fresh(Calls[x][j])

CallInv == OnePlace /\ RunsOnce /\ Awaited /\ WaitOK /\ OwnerOK /\ BegunOK

\* What a step does to the calls: nothing, or the code of x makes the call c,
\* or the action of c begins, or ends, or the call returns.
SamePhases ==
  /\ UNCHANGED <<ran, returned>>
  /\ \A b \in Call : (Running(b)' <=> Running(b)) /\ (Waited(b)' <=> Waited(b))
Invokes(x, c) ==
  /\ c \notin ran /\ c \notin returned /\ ~Running(c) /\ ~Waited(c)
  /\ \E i \in DOMAIN Code(x) : Code(x)[i] = c
  /\ \A i \in DOMAIN Code(x) : ~Waited(Code(x)[i])
  /\ x \in Call => Running(x) /\ x \notin ran
  /\ UNCHANGED <<ran, returned>>
  /\ \A b \in Call : /\ Waited(b)' <=> Waited(b) \/ b = c
                     /\ b # c => (Running(b)' <=> Running(b))
Begins(c) ==
  /\ Waited(c) /\ c \notin ran /\ ~Running(c)
  /\ UNCHANGED <<ran, returned>>
  /\ \A b \in Call : (Running(b)' <=> Running(b) \/ b = c) /\ (Waited(b)' <=> Waited(b))
Ends(c) ==
  /\ Running(c) /\ Waited(c) /\ c \notin ran
  /\ \A i \in 1 .. Len(Calls[c]) : Calls[c][i] \in returned
  /\ ran' = ran \cup {c} /\ UNCHANGED returned
  /\ \A b \in Call : (Running(b)' <=> Running(b) /\ b # c) /\ (Waited(b)' <=> Waited(b))
Returns(c) ==
  /\ Waited(c) /\ c \in ran /\ c \notin returned
  /\ returned' = returned \cup {c} /\ UNCHANGED ran
  /\ \A b \in Call : (Running(b)' <=> Running(b)) /\ (Waited(b)' <=> Waited(b) /\ b # c)

\* The code of a thread or a call.
LEMMA CodeType ==
  ASSUME NEW x \in Thread \cup Call
  PROVE  /\ Code(x) \in Seq(Call) /\ Len(Code(x)) \in Nat
         /\ DOMAIN Code(x) = 1 .. Len(Code(x))
         /\ \A i \in 1 .. Len(Code(x)) : Code(x)[i] \in Call
         /\ x \in Call => Code(x) = Calls[x] /\ x \notin Thread
  <1>1. Code(x) \in Seq(Call) /\ (x \in Call => Code(x) = Calls[x] /\ x \notin Thread)
      BY ProgramAssumption, CallsAssumption, DistinctAssumption DEF Code
  <1> QED
      BY <1>1, LenProperties

\* What is left of the code of an owner.
LEMMA ProgressType ==
  ASSUME StackOK, NEW t \in Thread, NEW d \in Nat, NEW x \in Thread \cup Call,
         Owner(t, d, x), Progress(t, d, x)
  PROVE  /\ Rest(t, d) \in Seq(Call) /\ Len(Rest(t, d)) \in Nat /\ Made(t, d, x) \in Nat
         /\ \A i \in 1 .. Len(Rest(t, d)) : /\ Made(t, d, x) + i \in 1 .. Len(Code(x))
                                          /\ Rest(t, d)[i] = Code(x)[Made(t, d, x) + i]
                                          /\ Rest(t, d)[i] \in Call
         /\ Made(t, d, x) + Len(Rest(t, d)) = Len(Code(x))
  <1>1. Rest(t, d) \in Seq(Call)
    <2>1. d \in 1 .. Depth(t)
        BY DEF Owner, Imp
    <2>2. Frm(t, d) \in Frame
        BY <2>1, Frames DEF StackOK
    <2> QED
        BY <2>2 DEF Frame, Rest
  <1>2. Len(Rest(t, d)) \in Nat /\ Len(Code(x)) \in Nat
      BY <1>1, CodeType, LenProperties
  <1>3. Made(t, d, x) \in Nat /\ Made(t, d, x) + Len(Rest(t, d)) = Len(Code(x))
      BY <1>2 DEF Made, Progress
  <1>4. \A i \in 1 .. Len(Rest(t, d)) : /\ Made(t, d, x) + i \in 1 .. Len(Code(x))
                                     /\ Rest(t, d)[i] = Code(x)[Made(t, d, x) + i]
      BY <1>2, <1>3 DEF Progress
  <1> QED
      BY <1>1, <1>2, <1>3, <1>4, CodeType

\* A step that changes nothing that matters but where helpers are, or loses one.
Steady ==
  \A t \in Thread, d \in Nat :
    /\ \A c \in Call : /\ Helper(t, d, c)' <=> Helper(t, d, c)
                       /\ Imp(t, d, c)' <=> Imp(t, d, c)
                       /\ Wait(t, d, c)' <=> Wait(t, d, c)
    /\ \A x \in Thread \cup Call : /\ Owner(t, d, x)' <=> Owner(t, d, x)
                                   /\ Owner(t, d, x) => Rest(t, d)' = Rest(t, d)

LEMMA SteadyKeeps ==
  ASSUME StackOK, Steady, UNCHANGED <<ran, opened, returned>>, CallInv,
         \A c \in Call : Pending(c)' => Pending(c), OnePlace'
  PROVE  CallInv' /\ SamePhases
  <1>1. ASSUME NEW c \in Call, NEW t \in Thread, NEW d \in Nat
        PROVE  /\ Helper(t, d, c)' <=> Helper(t, d, c)
               /\ Imp(t, d, c)' <=> Imp(t, d, c)
               /\ Wait(t, d, c)' <=> Wait(t, d, c)
      BY DEF Steady
  <1>2. ASSUME NEW t \in Thread, NEW d \in Nat, NEW x \in Thread \cup Call
        PROVE  /\ Owner(t, d, x)' <=> Owner(t, d, x)
               /\ Owner(t, d, x) => Rest(t, d)' = Rest(t, d)
               /\ Owner(t, d, x) => Made(t, d, x)' = Made(t, d, x)
      BY DEF Steady, Made
  <1>3. ASSUME NEW c \in Call
        PROVE  /\ Pending(c)' => Pending(c)
               /\ Running(c)' <=> Running(c)
               /\ Waited(c)' <=> Waited(c)
               /\ Fresh(c) => Fresh(c)'
      BY <1>1 DEF Running, Waited, Fresh
  <1>4. RunsOnce'
      BY <1>1, <1>3 DEF CallInv, RunsOnce
  <1>5. Awaited'
      BY <1>1, <1>3 DEF CallInv, Awaited
  <1>6. WaitOK'
      BY <1>1, <1>2 DEF CallInv, WaitOK, LastCall
  <1>7. OwnerOK'
    <2> SUFFICES ASSUME NEW t \in Thread, NEW d \in Nat, NEW x \in Thread \cup Call, Owner(t, d, x)'
                 PROVE  Progress(t, d, x)'
        BY DEF OwnerOK
    <2>1. Owner(t, d, x) /\ Rest(t, d)' = Rest(t, d) /\ Made(t, d, x)' = Made(t, d, x)
        BY <1>2
    <2>2. Progress(t, d, x)
        BY <2>1 DEF CallInv, OwnerOK
    <2>3. \A i \in 1 .. Len(Rest(t, d)) : Rest(t, d)[i] \in Call
        BY <2>1, <2>2, ProgressType
    <2>4. \A i \in 1 .. Len(Rest(t, d)) : Fresh(Rest(t, d)[i])'
        BY <1>3, <2>1, <2>2, <2>3 DEF Progress
    <2>5. \A j \in 1 .. Made(t, d, x) : d + 1 \in Nat /\ Code(x)[j] \in Call
        BY <2>2, CodeType DEF Progress
    <2>6. \A j \in 1 .. Made(t, d, x) : Wait(t, d + 1, Code(x)[j])' <=> Wait(t, d + 1, Code(x)[j])
        BY <1>1, <2>5
    <2> QED
        BY <2>1, <2>2, <2>4, <2>6 DEF Progress
  <1>8. BegunOK'
    <2>1. \A x \in Call : \A j \in 1 .. Len(Calls[x]) : Calls[x][j] \in Call
        BY CodeType
    <2> QED
        BY <1>3, <2>1 DEF CallInv, BegunOK
  <1> QED
      BY <1>3, <1>4, <1>5, <1>6, <1>7, <1>8 DEF CallInv, SamePhases

\* A step that changes nothing that matters.
LEMMA QuietKeeps ==
  ASSUME StackOK, Quiet, UNCHANGED <<actionQueue, waiting, ran, opened, returned>>, CallInv
  PROVE  CallInv' /\ SamePhases
  <1>1. ASSUME NEW c \in Call, NEW t \in Thread, NEW d \in Nat
        PROVE  /\ Transit(t, d, c)' <=> Transit(t, d, c)
               /\ Helper(t, d, c)' <=> Helper(t, d, c)
               /\ Queued(t, d, c)' <=> Queued(t, d, c)
               /\ Left(t, d, c)' <=> Left(t, d, c)
      BY DEF Quiet, SameRoles, Queued, Left
  <1>2. Steady
      BY DEF Quiet, SameRoles, Steady
  <1>3. \A c \in Call : Pending(c)' => Pending(c)
      BY <1>1 DEF Pending
  <1>4. OnePlace'
      BY <1>1 DEF CallInv, OnePlace, Holder
  <1> QED
      BY <1>2, <1>3, <1>4, SteadyKeeps

----------------------------------------------------------------------------
(* The steps that change nothing that matters.                             *)

\* A frame that has its mutex is about what it was about.
LEMMA Locked ==
  ASSUME NEW t \in Thread, NEW d, NEW f \in Frame, FrameOK(t, d, f), f.op \in DOMAIN AfterLock,
         NEW g, g = [f EXCEPT !.op = AfterLock[f.op]]
  PROVE  g \in Frame /\ FrameOK(t, d, g) /\ AfterLock[f.op] \in Op /\ SamePart(f, g)
  <1>1. f.op \in {"find", "push", "askWorkload", "attach", "attachFind", "lookup", "exiting", "forget",
                  "helper", "wait", "asleep"}
      BY DEF AfterLock
  <1>2. g.op = AfterLock[f.op] /\ g.call = f.call /\ g.to = f.to /\ g.rest = f.rest
      BY DEF Frame
  <1>3. /\ f.op = "find" => g.op = "found"
        /\ f.op = "push" => g.op = "pushed"
        /\ f.op = "askWorkload" => g.op = "asked"
        /\ f.op = "attach" => g.op = "attachFind"
        /\ f.op = "attachFind" => g.op = "attachFound"
        /\ f.op = "lookup" => g.op = "lookedUp"
        /\ f.op = "exiting" => g.op = "exitFound"
        /\ f.op = "forget" => g.op = "forgot"
        /\ f.op = "helper" => g.op = "open"
        /\ f.op \in {"wait", "asleep"} => g.op = "waitImp"
      BY <1>2 DEF AfterLock
  <1>4. /\ AfterLock[f.op] \in Op
        /\ \/ f.op \in TransitOps /\ g.op \in TransitOps
           \/ f.op \in HelperOps /\ g.op \in HelperOps
           \/ f.op \in WaitOps /\ g.op \in WaitOps
           \/ f.op \in OtherOps /\ g.op \in OtherOps
      BY <1>1, <1>2, <1>3 DEF TransitOps, OtherOps, AttachOps, HandlerOps, Op, CallOps, HelperOps, WaitOps
  <1>5. g \in Frame
      BY <1>4 DEF Frame
  <1>6. FrameOK(t, d, g)
      BY <1>1, <1>2, <1>3 DEF FrameOK, TransitOps, AttachOps, CallOps, HelperOps, WaitOps
  <1>7. SamePart(f, g)
      BY <1>2, <1>4 DEF SamePart
  <1> QED
      BY <1>4, <1>5, <1>6, <1>7

\* The handler of a notification.
LEMMA HandlerFrame ==
  ASSUME NEW n \in Notification, NEW t \in Thread, NEW d
  PROVE  Handler(n) \in Frame /\ FrameOK(t, d, Handler(n)) /\ Handler(n).op \in OtherOps
  <1>1. \/ n = Ntf("ProcessActions", None) /\ Handler(n) = F("lookup", None, None)
        \/ n = Ntf("ThreadExiting", None) /\ Handler(n) = F("exiting", None, None)
        \/ \E u \in Thread : n = Ntf("ThreadExited", u) /\ Handler(n) = F("forget", None, u)
      BY DEF Notification, Ntf, Handler
  <1>2. ASSUME NEW op \in {"lookup", "exiting", "forget"}, NEW u \in Thread \cup {None},
               op = "forget" => u \in Thread
        PROVE  F(op, None, u) \in Frame /\ FrameOK(t, d, F(op, None, u)) /\ F(op, None, u).op \in OtherOps
    <2>1. <<>> \in Seq(Call)
        OBVIOUS
    <2> QED
        BY <1>2, <2>1 DEF F, Frame, FrameOK, Op, OtherOps, HandlerOps, AttachOps, TransitOps,
                CallOps, HelperOps, WaitOps
  <1> QED
      BY <1>1, <1>2

\* A step of a frame that does not matter to another such frame.
LEMMA OtherGoto ==
  ASSUME StackOK, NEW t \in Thread, stack[t] # <<>>, NEW op \in OtherOps, Goto(t, op),
         Top(t).op \in OtherOps, NEW f, f = Top(t),
         \A d : FrameOK(t, d, f) => FrameOK(t, d, [f EXCEPT !.op = op])
  PROVE  StackOK' /\ Quiet
  <1> DEFINE g == [f EXCEPT !.op = op]
  <1>1. PICK n : n = Depth(t)
      OBVIOUS
  <1>2. n # 0 /\ f = Frm(t, n) /\ f \in Frame
      BY <1>1, Frames DEF StackOK
  <1>3. op \in Op /\ g.op = op
      BY <1>2 DEF Op, Frame
  <1>4. Replaces(t, n - 1, <<g>>) /\ n \in Nat \ {0} /\ FrameOK(t, n, f)
      BY <1>1, <1>2, <1>3, GotoTop, TopFrame DEF StackOK
  <1>5. FrameOK(t, n, g)
      BY <1>4
  <1> HIDE DEF g
  <1>6. StackOK'
    <2>1. Len(<<g>>) = 1 /\ <<g>>[1] = g /\ \A i \in 1 .. 1 : i = 1 /\ n - 1 + i = n
        BY <1>4
    <2>2. \A i \in 1 .. Len(<<g>>) : FrameOK(t, n - 1 + i, <<g>>[i])
        BY <2>1, <1>5
    <2> QED
        BY <2>1, <2>2, <1>4, ReplacedOK
  <1>7. Quiet
    <2>1. SamePart(f, g)
        BY <1>3 DEF SamePart
    <2> QED
        BY <1>1, <1>2, <1>4, <2>1, QuietTop
  <1> QED
      BY <1>6, <1>7

\* The end of a frame that does not matter.
LEMMA OtherLeave ==
  ASSUME StackOK, NEW t \in Thread, stack[t] # <<>>, Leave(t), Top(t).op \in OtherOps
  PROVE  StackOK' /\ Quiet
  <1>1. PICK n : n = Depth(t)
      OBVIOUS
  <1>2. n # 0 /\ Top(t) = Frm(t, n)
      BY <1>1, Frames DEF StackOK
  <1>3. Replaces(t, n - 1, <<>>)
      BY <1>1, LeaveTop DEF StackOK
  <1>4. StackOK'
      BY <1>3, ReplacedOK, Len(<<>>) = 0
  <1>5. Quiet
    <2>1. PICK f : f = Frm(t, n)
        OBVIOUS
    <2> QED
        BY <1>1, <1>2, <1>3, <2>1, QuietLeave
  <1> QED
      BY <1>4, <1>5

\* A frame that does not matter, instead of another.
LEMMA OtherReplace ==
  ASSUME StackOK, NEW t \in Thread, stack[t] # <<>>, NEW g \in Frame, g.op \in OtherOps,
         stack' = [stack EXCEPT ![t] = <<g>> \o Tail(@)], Top(t).op \in OtherOps, \A d : FrameOK(t, d, g)
  PROVE  StackOK' /\ Quiet
  <1>1. PICK n : n = Depth(t)
      OBVIOUS
  <1>2. n # 0 /\ Top(t) = Frm(t, n)
      BY <1>1, Frames DEF StackOK
  <1>3. Replaces(t, n - 1, <<g>>)
      BY <1>1, ReplaceTop DEF StackOK
  <1>4. StackOK'
    <2>1. Len(<<g>>) = 1 /\ <<g>>[1] = g /\ \A i \in 1 .. 1 : i = 1
        OBVIOUS
    <2>2. \A i \in 1 .. Len(<<g>>) : FrameOK(t, n - 1 + i, <<g>>[i])
        BY <2>1
    <2> QED
        BY <2>1, <2>2, <1>3, ReplacedOK
  <1>5. Quiet
    <2>1. PICK f : f = Frm(t, n)
        OBVIOUS
    <2>2. SamePart(f, g)
        BY <1>2, <2>1 DEF SamePart
    <2> QED
        BY <1>1, <1>2, <1>3, <2>1, <2>2, QuietTop
  <1> QED
      BY <1>4, <1>5

\* The next notification, or back to the interrupted code.
LEMMA Notified ==
  ASSUME TypeOK, NEW t \in Thread, stack[t] # <<>>, Top(t).op \in OtherOps, NextNotification(t)
  PROVE  StackOK' /\ Quiet
  <1>1. CASE inbox[t] # <<>>
    <2>1. Head(inbox[t]) \in Notification
      <3>1. inbox[t] \in Seq(Notification)
          BY DEF TypeOK
      <3> QED
          BY <3>1, <1>1, HeadTailProperties
    <2>2. stack' = [stack EXCEPT ![t] = <<Handler(Head(inbox[t]))>> \o Tail(@)]
        BY <1>1 DEF NextNotification
    <2> QED
        BY <2>1, <2>2, HandlerFrame, OtherReplace DEF TypeOK
  <1>2. CASE inbox[t] = <<>>
      BY <1>2, OtherLeave DEF NextNotification, TypeOK
  <1> QED
      BY <1>1, <1>2

\* A thread is redirected to a handler.
LEMMA Interrupted ==
  ASSUME TypeOK, NEW t \in Thread, Interrupt(t)
  PROVE  StackOK' /\ Quiet
  <1>1. PICK g : g = Handler(Head(inbox[t]))
      OBVIOUS
  <1>2. g \in Frame /\ g.op \in OtherOps /\ \A d : FrameOK(t, d, g)
    <2>1. inbox[t] \in Seq(Notification) /\ inbox[t] # <<>>
        BY DEF TypeOK, Interrupt
    <2>2. Head(inbox[t]) \in Notification
        BY <2>1, HeadTailProperties
    <2> QED
        BY <1>1, <2>2, HandlerFrame
  <1>3. PICK n : n = Depth(t)
      OBVIOUS
  <1>4. Replaces(t, n, <<g>>)
      BY <1>1, <1>2, <1>3, EnterOne DEF Interrupt, TypeOK, StackOK
  <1>5. StackOK'
    <2>1. Len(<<g>>) = 1 /\ <<g>>[1] = g /\ \A i \in 1 .. 1 : i = 1
        OBVIOUS
    <2>2. \A i \in 1 .. Len(<<g>>) : FrameOK(t, n + i, <<g>>[i])
        BY <2>1, <1>2
    <2> QED
        BY <2>1, <2>2, <1>4, ReplacedOK DEF TypeOK
  <1>6. Quiet
      BY <1>2, <1>3, <1>4, QuietEnter DEF TypeOK
  <1> QED
      BY <1>5, <1>6

\* A mutex is taken.
LEMMA LockQuiet ==
  ASSUME TypeOK, NEW t \in Thread, Lock(t)
  PROVE  StackOK' /\ Quiet
  <1>1. PICK n, f : n = Depth(t) /\ f = Top(t)
      OBVIOUS
  <1>2. StackOK /\ stack[t] # <<>> /\ f.op \in DOMAIN AfterLock /\ Goto(t, AfterLock[f.op])
      BY <1>1 DEF Lock, TypeOK
  <1>3. n # 0 /\ f = Frm(t, n) /\ f \in Frame /\ FrameOK(t, n, f) /\ n \in Nat \ {0}
      BY <1>1, <1>2, Frames, TopFrame DEF StackOK
  <1>4. PICK g : g = [f EXCEPT !.op = AfterLock[f.op]]
      OBVIOUS
  <1>5. g \in Frame /\ FrameOK(t, n, g) /\ AfterLock[f.op] \in Op /\ SamePart(f, g)
      BY <1>2, <1>3, <1>4, Locked
  <1>6. Replaces(t, n - 1, <<g>>)
      BY <1>1, <1>2, <1>4, <1>5, GotoTop DEF StackOK
  <1>7. StackOK'
    <2>1. Len(<<g>>) = 1 /\ <<g>>[1] = g /\ \A i \in 1 .. 1 : i = 1 /\ n - 1 + i = n
        BY <1>3
    <2>2. \A i \in 1 .. Len(<<g>>) : FrameOK(t, n - 1 + i, <<g>>[i])
        BY <2>1, <1>5
    <2> QED
        BY <2>1, <2>2, <1>2, <1>6, ReplacedOK
  <1>8. Quiet
      BY <1>1, <1>2, <1>3, <1>5, <1>6, QuietTop
  <1> QED
      BY <1>7, <1>8

\* The thread of the call was found, its mutex released.
LEMMA FoundQuiet ==
  ASSUME TypeOK, NEW t \in Thread, Found(t)
  PROVE  StackOK' /\ Quiet
  <1>1. PICK n, f : n = Depth(t) /\ f = Top(t)
      OBVIOUS
  <1>2. StackOK /\ stack[t] # <<>> /\ f.op = "found" /\ Goto(t, "push")
      BY <1>1 DEF Found, At, TypeOK
  <1>3. n # 0 /\ f = Frm(t, n) /\ f \in Frame /\ FrameOK(t, n, f) /\ n \in Nat \ {0}
      BY <1>1, <1>2, Frames, TopFrame DEF StackOK
  <1>4. PICK g : g = [f EXCEPT !.op = "push"]
      OBVIOUS
  <1>5. g.op = "push" /\ g.call = f.call /\ g.to = f.to /\ f.op \in TransitOps /\ "push" \in TransitOps /\ "push" \in Op
      BY <1>2, <1>3, <1>4 DEF Frame, TransitOps, Op
  <1>6. Replaces(t, n - 1, <<g>>)
      BY <1>1, <1>2, <1>4, <1>5, GotoTop DEF StackOK
  <1>7. StackOK'
    <2>1. FrameOK(t, n, g)
        BY <1>2, <1>3, <1>5 DEF FrameOK, TransitOps, AttachOps, CallOps, HelperOps, WaitOps
    <2>2. Len(<<g>>) = 1 /\ <<g>>[1] = g /\ \A i \in 1 .. 1 : i = 1 /\ n - 1 + i = n
        BY <1>3
    <2>3. \A i \in 1 .. Len(<<g>>) : FrameOK(t, n - 1 + i, <<g>>[i])
        BY <2>1, <2>2
    <2> QED
        BY <2>2, <2>3, <1>2, <1>6, ReplacedOK
  <1>8. Quiet
    <2>1. SamePart(f, g)
        BY <1>5 DEF SamePart
    <2> QED
        BY <1>1, <1>2, <1>3, <1>6, <2>1, QuietTop
  <1> QED
      BY <1>7, <1>8

\* The caller sleeps.
LEMMA SleepQuiet ==
  ASSUME TypeOK, NEW t \in Thread, Sleep(t)
  PROVE  StackOK' /\ Quiet
  <1>1. PICK n, f : n = Depth(t) /\ f = Top(t)
      OBVIOUS
  <1>2. StackOK /\ stack[t] # <<>> /\ f.op = "waitImp" /\ Goto(t, "asleep")
      BY <1>1 DEF Sleep, At, TypeOK
  <1>3. n # 0 /\ f = Frm(t, n) /\ f \in Frame /\ FrameOK(t, n, f) /\ n \in Nat \ {0}
      BY <1>1, <1>2, Frames, TopFrame DEF StackOK
  <1>4. PICK g : g = [f EXCEPT !.op = "asleep"]
      OBVIOUS
  <1>5. g.op = "asleep" /\ g.call = f.call /\ f.op \in WaitOps /\ "asleep" \in WaitOps /\ "asleep" \in Op
      BY <1>2, <1>3, <1>4 DEF Frame, WaitOps, Op, CallOps
  <1>6. Replaces(t, n - 1, <<g>>)
      BY <1>1, <1>2, <1>4, <1>5, GotoTop DEF StackOK
  <1>7. StackOK'
    <2>1. FrameOK(t, n, g)
        BY <1>2, <1>3, <1>5 DEF FrameOK, TransitOps, AttachOps, CallOps, HelperOps, WaitOps
    <2>2. Len(<<g>>) = 1 /\ <<g>>[1] = g /\ \A i \in 1 .. 1 : i = 1 /\ n - 1 + i = n
        BY <1>3
    <2>3. \A i \in 1 .. Len(<<g>>) : FrameOK(t, n - 1 + i, <<g>>[i])
        BY <2>1, <2>2
    <2> QED
        BY <2>2, <2>3, <1>2, <1>6, ReplacedOK
  <1>8. Quiet
    <2>1. SamePart(f, g)
        BY <1>5 DEF SamePart
    <2> QED
        BY <1>1, <1>2, <1>3, <1>6, <2>1, QuietTop
  <1> QED
      BY <1>7, <1>8

\* The steps of the handlers, of the notification and of the mutex of a workload.
LEMMA OtherQuiet ==
  ASSUME TypeOK, NEW t \in Thread,
         \/ Notify(t) \/ Answered(t) \/ AttachFound(t) \/ LookedUp(t) \/ Forgot(t) \/ ThreadExits(t)
         \/ Forward(t) /\ waiting[t] = <<>>
         \/ ProcessActions(t) /\ actionQueue[t] = <<>>
  PROVE  StackOK' /\ Quiet
  <1>1. CASE Notify(t) \/ Answered(t) \/ ThreadExits(t) \/ (Forward(t) /\ waiting[t] = <<>>)
    <2>1. stack[t] # <<>> /\ Leave(t) /\ Top(t).op \in {"notify", "answered", "exitFound", "forward"}
        BY <1>1 DEF Notify, Answered, ThreadExits, Forward, At
    <2> QED
        BY <2>1, OtherLeave DEF TypeOK, OtherOps, AttachOps, HandlerOps
  <1>2. CASE Forgot(t) \/ (ProcessActions(t) /\ actionQueue[t] = <<>>)
    <2>1. stack[t] # <<>> /\ NextNotification(t) /\ Top(t).op \in {"forgot", "process"}
        BY <1>2 DEF Forgot, ProcessActions, At
    <2> QED
        BY <2>1, Notified DEF OtherOps, HandlerOps
  <1>3. CASE LookedUp(t)
    <2>1. PICK f : f = Top(t)
        OBVIOUS
    <2>2. stack[t] # <<>> /\ Goto(t, "process") /\ f.op = "lookedUp" /\ f \in Frame
        BY <1>3, <2>1, Frames DEF LookedUp, At, TypeOK, StackOK
    <2>3. \A d : FrameOK(t, d, f) => FrameOK(t, d, [f EXCEPT !.op = "process"])
        BY <2>2 DEF FrameOK, Frame, TransitOps, AttachOps, CallOps, HelperOps, WaitOps
    <2> QED
        BY <2>1, <2>2, <2>3, OtherGoto DEF TypeOK, OtherOps, HandlerOps
  <1>4. CASE AttachFound(t)
    <2>1. PICK f : f = Top(t)
        OBVIOUS
    <2>2. stack[t] # <<>> /\ Goto(t, "forward") /\ f.op = "attachFound" /\ f \in Frame
        BY <1>4, <2>1, Frames DEF AttachFound, At, TypeOK, StackOK
    <2>3. \A d : FrameOK(t, d, f) => FrameOK(t, d, [f EXCEPT !.op = "forward"])
        BY <2>2 DEF FrameOK, Frame, TransitOps, AttachOps, CallOps, HelperOps, WaitOps
    <2> QED
        BY <2>1, <2>2, <2>3, OtherGoto DEF TypeOK, OtherOps, AttachOps
  <1> QED
      BY <1>1, <1>2, <1>3, <1>4

----------------------------------------------------------------------------
(* The other steps, by the frames that they change.                        *)

\* The frame there is of one kind and about one call.
Has(t, d, kind, c0) ==
  /\ \A c \in Call : /\ Transit(t, d, c) <=> kind = "transit" /\ c = c0
                     /\ Helper(t, d, c) <=> kind = "helper" /\ c = c0
                     /\ Imp(t, d, c) <=> kind = "imp" /\ c = c0
                     /\ Wait(t, d, c) <=> kind = "wait" /\ c = c0
  /\ \A x \in Thread \cup Call : Owner(t, d, x) <=> kind = "imp" /\ x = c0

\* All other frames are what they were.
Elsewhere(t, ds) == \A u \in Thread, d \in Nat : u # t \/ d \notin ds => SameRoles(u, d)

\* The kind of the frame on top.
LEMMA TopHas ==
  ASSUME StackOK, NEW t \in Thread, NEW n, n = Depth(t), n # 0, NEW f, f = Frm(t, n)
  PROVE  /\ f.op \in TransitOps => Has(t, n, "transit", f.call)
         /\ f.op \in HelperOps => Has(t, n, "helper", f.call)
         /\ f.op = "imp" => Has(t, n, "imp", f.call)
         /\ f.op \in WaitOps => Has(t, n, "wait", f.call)
  <1>1. /\ \A c \in Call : /\ Transit(t, n, c) <=> f.op \in TransitOps /\ f.call = c
                           /\ Helper(t, n, c) <=> f.op \in HelperOps /\ f.call = c
                           /\ Imp(t, n, c) <=> f.op = "imp" /\ f.call = c
                           /\ Wait(t, n, c) <=> f.op \in WaitOps /\ f.call = c
        /\ \A x \in Thread \cup Call :
             Owner(t, n, x) <=> (f.op = "imp" /\ f.call = x) \/ (f.op = "program" /\ x = t)
      BY TopFrame
  <1>2. CASE f.op \in TransitOps
      BY <1>1, <1>2, CallFrame DEF Has, CallOps
  <1>3. CASE f.op \in HelperOps
      BY <1>1, <1>3, CallFrame DEF Has
  <1>4. CASE f.op = "imp"
      BY <1>1, <1>4, CallFrame DEF Has
  <1>5. CASE f.op \in WaitOps
      BY <1>1, <1>5, CallFrame DEF Has
  <1> QED
      BY <1>2, <1>3, <1>4, <1>5, CallFrame

\* The kind of a new frame.
LEMMA NewHas ==
  ASSUME StackOK, NEW t \in Thread, NEW k, NEW fs, Len(fs) \in Nat, Replaces(t, k, fs),
         NEW i \in 1 .. Len(fs), NEW d, d = k + i, NEW f, f = fs[i]
  PROVE  /\ f.op \in TransitOps => Has(t, d, "transit", f.call)'
         /\ f.op \in HelperOps => Has(t, d, "helper", f.call)'
         /\ f.op = "imp" => Has(t, d, "imp", f.call)'
         /\ f.op \in WaitOps => Has(t, d, "wait", f.call)'
         /\ f.op \in OtherOps => NoRole(t, d)'
         /\ Rest(t, d)' = f.rest
  <1>1. /\ Rest(t, d)' = f.rest
        /\ \A c \in Call : /\ Transit(t, d, c)' <=> f.op \in TransitOps /\ f.call = c
                           /\ Helper(t, d, c)' <=> f.op \in HelperOps /\ f.call = c
                           /\ Imp(t, d, c)' <=> f.op = "imp" /\ f.call = c
                           /\ Wait(t, d, c)' <=> f.op \in WaitOps /\ f.call = c
        /\ \A x \in Thread \cup Call :
             Owner(t, d, x)' <=> (f.op = "imp" /\ f.call = x) \/ (f.op = "program" /\ x = t)
      BY NewFrame
  <1>2. CASE f.op \in TransitOps
      BY <1>1, <1>2, CallFrame DEF Has, CallOps
  <1>3. CASE f.op \in HelperOps
      BY <1>1, <1>3, CallFrame DEF Has
  <1>4. CASE f.op = "imp"
      BY <1>1, <1>4, CallFrame DEF Has
  <1>5. CASE f.op \in WaitOps
      BY <1>1, <1>5, CallFrame DEF Has
  <1>6. CASE f.op \in OtherOps
      BY <1>1, <1>6, OtherFrame DEF NoRole, CallOps
  <1> QED
      BY <1>1, <1>2, <1>3, <1>4, <1>5, <1>6, CallFrame

\* The frame on top is gone, or what became of it does not matter.
LEMMA TopGone ==
  ASSUME StackOK, NEW t \in Thread, NEW n, n = Depth(t), n # 0, NEW k, k = n - 1, NEW fs,
         Replaces(t, k, fs), NEW l \in Nat, l = Len(fs), l <= 1, l = 1 => fs[1].op \in OtherOps
  PROVE  NoRole(t, n)' /\ Elsewhere(t, {n})
  <1>1. n \in Nat \ {0} /\ k \in Nat /\ k + 1 = n /\ Len(fs) \in Nat
      BY Frames DEF StackOK
  <1>2. NoRole(t, n)'
    <2>1. CASE l = 0
      <3>1. n > k + Len(fs)
          BY <1>1, <2>1
      <3> QED
          BY <1>1, <3>1, NoneAboveNew
    <2>2. CASE l = 1
      <3>1. PICK g : g = fs[1]
          OBVIOUS
      <3>2. 1 \in 1 .. Len(fs) /\ n = k + 1
          BY <1>1, <2>2
      <3> QED
          BY <1>1, <2>2, <3>1, <3>2, NewHas
    <2> QED
        BY <2>1, <2>2
  <1>3. ASSUME NEW u \in Thread, NEW d \in Nat, u # t \/ d # n
        PROVE  SameRoles(u, d)
    <2>1. CASE u # t \/ d <= k
        BY <1>1, <2>1, Kept
    <2>2. CASE u = t /\ d > n
      <3>1. NoRole(t, d)
          BY <2>2, NoneAbove
      <3>2. d > k + Len(fs)
          BY <1>1, <2>2
      <3>3. NoRole(t, d)'
          BY <1>1, <3>2, NoneAboveNew
      <3> QED
          BY <3>1, <3>3, <2>2 DEF NoRole, SameRoles
    <2> QED
        BY <1>1, <1>3, <2>1, <2>2
  <1> QED
      BY <1>2, <1>3 DEF Elsewhere

\* The top frame of a thread in a step that removes it, and the end of a frame.
LEMMA Left1 ==
  ASSUME StackOK, NEW t \in Thread, stack[t] # <<>>, Leave(t), NEW n, n = Depth(t)
  PROVE  /\ n \in Nat \ {0} /\ Top(t) = Frm(t, n) /\ StackOK'
         /\ NoRole(t, n)' /\ Elsewhere(t, {n})
  <1>1. n \in Nat \ {0} /\ Top(t) = Frm(t, n)
      BY Frames DEF StackOK
  <1>2. Replaces(t, n - 1, <<>>)
      BY LeaveTop DEF StackOK
  <1>3. StackOK'
      BY <1>2, ReplacedOK, Len(<<>>) = 0
  <1>4. PICK k, l : k = n - 1 /\ l = Len(<<>>)
      OBVIOUS
  <1>5. l \in Nat /\ l <= 1 /\ l # 1
      BY <1>4
  <1>6. NoRole(t, n)' /\ Elsewhere(t, {n})
      BY <1>1, <1>2, <1>4, <1>5, TopGone
  <1> QED
      BY <1>1, <1>3, <1>6

\* What is neither replaced nor new.
LEMMA Beyond ==
  ASSUME StackOK, NEW t \in Thread, NEW k, NEW fs, NEW l \in Nat, l = Len(fs), Replaces(t, k, fs),
         NEW u \in Thread, NEW d \in Nat, u # t \/ d <= k \/ (d > k + l /\ d > Depth(t))
  PROVE  SameRoles(u, d)
  <1>1. CASE u # t \/ d <= k
      BY <1>1, Kept
  <1>2. CASE u = t /\ d > k + l /\ d > Depth(t)
    <2>1. NoRole(t, d)
        BY <1>2, NoneAbove
    <2>2. NoRole(t, d)'
        BY <1>2, NoneAboveNew
    <2> QED
        BY <2>1, <2>2, <1>2 DEF NoRole, SameRoles
  <1> QED
      BY <1>1, <1>2

\* A helper is on its way in a new frame on top.
LEMMA PushAdded ==
  ASSUME StackOK, NEW t \in Thread, NEW c \in Call, NEW r \in Thread, r = To[c],
         Enter(t, <<F("push", c, r)>>), NEW n, n = Depth(t)
  PROVE  /\ n \in Nat /\ StackOK' /\ NoRole(t, n + 1)
         /\ Has(t, n + 1, "transit", c)' /\ Elsewhere(t, {n + 1})
  <1>1. PICK g : g = F("push", c, r)
      OBVIOUS
  <1>2. g \in Frame /\ FrameOK(t, n + 1, g) /\ g.op \in TransitOps /\ g.call = c
    <2>1. <<>> \in Seq(Call) /\ "push" \in Op /\ "push" \in TransitOps
        BY DEF Op, TransitOps
    <2> QED
        BY <1>1, <2>1 DEF F, Frame, FrameOK, TransitOps, AttachOps, CallOps, HelperOps, WaitOps
  <1>3. n \in Nat /\ Len(<<g>>) = 1 /\ <<g>>[1] = g
      BY Frames DEF StackOK
  <1>4. Replaces(t, n, <<g>>)
      BY <1>1, <1>2, EnterOne DEF StackOK
  <1>5. StackOK'
    <2>1. \A i \in 1 .. Len(<<g>>) : FrameOK(t, n + i, <<g>>[i])
        BY <1>2, <1>3, \A i \in 1 .. 1 : i = 1
    <2> QED
        BY <1>3, <1>4, <2>1, ReplacedOK
  <1>6. NoRole(t, n + 1)
      BY <1>3, NoneAbove
  <1>7. Has(t, n + 1, "transit", c)'
    <2>1. PICK d : d = n + 1
        OBVIOUS
    <2>2. 1 \in 1 .. Len(<<g>>) /\ Len(<<g>>) \in Nat /\ d = n + 1 /\ g = <<g>>[1]
        BY <1>3, <2>1
    <2>3. Has(t, d, "transit", g.call)'
        BY <1>2, <1>4, <2>2, NewHas
    <2> QED
        BY <1>2, <2>1, <2>3
  <1>8. Elsewhere(t, {n + 1})
    <2>1. PICK l : l = Len(<<g>>)
        OBVIOUS
    <2>2. l \in Nat /\ l = 1
        BY <1>3, <2>1
    <2>3. ASSUME NEW u \in Thread, NEW d \in Nat, u # t \/ d # n + 1
          PROVE  SameRoles(u, d)
      <3>1. u # t \/ d <= n \/ (d > n + l /\ d > Depth(t))
          BY <1>3, <2>2, <2>3
      <3> QED
          BY <1>4, <2>1, <2>2, <3>1, Beyond
    <2> QED
        BY <2>3 DEF Elsewhere
  <1> QED
      BY <1>3, <1>5, <1>6, <1>7, <1>8

\* The helper and the action of a call, on top of what the thread was doing.
LEMMA BeginAdded ==
  ASSUME StackOK, NEW t \in Thread, NEW c \in Call, To[c] \in {None, t},
         Enter(t, <<[F("imp", c, None) EXCEPT !.rest = Calls[c]], F("helper", c, None)>>),
         NEW n, n = Depth(t)
  PROVE  /\ n \in Nat /\ StackOK' /\ NoRole(t, n + 1) /\ NoRole(t, n + 2)
         /\ Has(t, n + 1, "helper", c)' /\ Has(t, n + 2, "imp", c)' /\ Rest(t, n + 2)' = Calls[c]
         /\ Elsewhere(t, {n + 1, n + 2})
  <1>1. PICK f, g : f = [F("imp", c, None) EXCEPT !.rest = Calls[c]] /\ g = F("helper", c, None)
      OBVIOUS
  <1>2. /\ f \in Frame /\ f.op = "imp" /\ f.call = c /\ f.rest = Calls[c]
        /\ g \in Frame /\ g.op \in HelperOps /\ g.call = c
        /\ FrameOK(t, n + 2, f) /\ FrameOK(t, n + 1, g)
    <2>1. <<>> \in Seq(Call) /\ "imp" \in Op /\ "helper" \in Op /\ Calls[c] \in Seq(Call)
        BY CallsAssumption DEF Op, CallOps, HelperOps
    <2> QED
        BY <1>1, <2>1 DEF F, Frame, FrameOK, TransitOps, AttachOps, CallOps, HelperOps, WaitOps
  <1>3. n \in Nat
      BY Frames DEF StackOK
  <1>4. PICK fs : fs = <<g, f>>
      OBVIOUS
  <1>5. Len(fs) = 2 /\ fs[1] = g /\ fs[2] = f
      BY <1>4
  <1>6. Replaces(t, n, fs)
      BY <1>1, <1>2, <1>4, EnterTwo DEF StackOK
  <1>7. StackOK'
    <2>1. \A i \in 1 .. Len(fs) : FrameOK(t, n + i, fs[i])
        BY <1>2, <1>5, \A i \in 1 .. 2 : i = 1 \/ i = 2
    <2> QED
        BY <1>5, <1>6, <2>1, ReplacedOK
  <1>8. NoRole(t, n + 1) /\ NoRole(t, n + 2)
      BY <1>3, NoneAbove
  <1>9. Has(t, n + 1, "helper", c)' /\ Has(t, n + 2, "imp", c)' /\ Rest(t, n + 2)' = Calls[c]
    <2>1. PICK d, e : d = n + 1 /\ e = n + 2
        OBVIOUS
    <2>2. Has(t, d, "helper", g.call)'
      <3>1. 1 \in 1 .. Len(fs) /\ Len(fs) \in Nat /\ g = fs[1]
          BY <1>5
      <3> QED
          BY <1>2, <1>6, <2>1, <3>1, NewHas
    <2>3. Has(t, e, "imp", f.call)' /\ Rest(t, e)' = f.rest
      <3>1. 2 \in 1 .. Len(fs) /\ Len(fs) \in Nat /\ f = fs[2]
          BY <1>5
      <3> QED
          BY <1>2, <1>6, <2>1, <3>1, NewHas
    <2> QED
        BY <1>2, <2>1, <2>2, <2>3
  <1>10. Elsewhere(t, {n + 1, n + 2})
    <2>1. PICK l : l = Len(fs)
        OBVIOUS
    <2>2. ASSUME NEW u \in Thread, NEW d \in Nat, u # t \/ d \notin {n + 1, n + 2}
          PROVE  SameRoles(u, d)
      <3>1. l \in Nat /\ (u # t \/ d <= n \/ (d > n + l /\ d > Depth(t)))
          BY <1>3, <1>5, <2>1, <2>2
      <3> QED
          BY <1>6, <2>1, <3>1, Beyond
    <2> QED
        BY <2>2 DEF Elsewhere
  <1> QED
      BY <1>3, <1>7, <1>8, <1>9, <1>10

\* A stack with two more calls.
LEMMA PutTwo ==
  ASSUME NEW S, NEW r \in Seq(S), NEW f \in S, NEW g \in S
  PROVE  /\ Len(r) \in Nat /\ <<f, g>> \o r \in Seq(S) /\ Len(<<f, g>> \o r) = Len(r) + 2
         /\ FromBottom(<<f, g>> \o r, Len(r) + 1) = g /\ FromBottom(<<f, g>> \o r, Len(r) + 2) = f
         /\ \A d \in 1 .. Len(r) : FromBottom(<<f, g>> \o r, d) = FromBottom(r, d)
  <1> DEFINE q == <<g>> \o r
             s == <<f>> \o q
  <1>1. Len(r) \in Nat /\ <<f, g>> \o r = s
      BY PushTwo, LenProperties
  <1>2. /\ q \in Seq(S) /\ Len(q) = Len(r) + 1 /\ FromBottom(q, Len(r) + 1) = g
        /\ \A d \in 1 .. Len(r) : FromBottom(q, d) = FromBottom(r, d)
      BY PushSeq
  <1> HIDE DEF q
  <1>3. /\ s \in Seq(S) /\ Len(s) = Len(q) + 1 /\ FromBottom(s, Len(q) + 1) = f
        /\ \A d \in 1 .. Len(q) : FromBottom(s, d) = FromBottom(q, d)
      BY <1>2, PushSeq
  <1> HIDE DEF s
  <1>4. /\ Len(q) + 1 = Len(r) + 2 /\ Len(r) + 1 \in 1 .. Len(q)
        /\ \A d \in 1 .. Len(r) : d \in 1 .. Len(q)
      BY <1>1, <1>2
  <1>5. FromBottom(s, Len(r) + 1) = g /\ FromBottom(s, Len(r) + 2) = f /\ Len(s) = Len(r) + 2
      BY <1>2, <1>3, <1>4
  <1>6. \A d \in 1 .. Len(r) : FromBottom(s, d) = FromBottom(r, d)
      BY <1>2, <1>3, <1>4
  <1> QED
      BY <1>1, <1>3, <1>5, <1>6

\* Two frames instead of the one on top.
LEMMA ReplaceTopTwo ==
  ASSUME stack \in [Thread -> Seq(Frame)], NEW t \in Thread, stack[t] # <<>>,
         NEW f \in Frame, NEW g \in Frame, stack' = [stack EXCEPT ![t] = <<f, g>> \o Tail(@)],
         NEW n, n = Depth(t), NEW k, k = n - 1
  PROVE  Replaces(t, k, <<g, f>>)
  <1> DEFINE r == Tail(stack[t])
             s == <<f, g>> \o r
             fs == <<g, f>>
  <1>1. /\ r \in Seq(Frame) /\ n \in Nat \ {0} /\ Len(r) = k
        /\ \A d \in 1 .. k : FromBottom(r, d) = Frm(t, d)
      BY PopSeq DEF Depth, Frm
  <1>2. stack' = [stack EXCEPT ![t] = s]
      OBVIOUS
  <1> HIDE DEF r
  <1>3. /\ s \in Seq(Frame) /\ Len(s) = Len(r) + 2
        /\ FromBottom(s, Len(r) + 1) = g /\ FromBottom(s, Len(r) + 2) = f
        /\ \A d \in 1 .. Len(r) : FromBottom(s, d) = FromBottom(r, d)
      BY <1>1, PutTwo
  <1>4. Len(fs) = 2 /\ fs[1] = g /\ fs[2] = f
      OBVIOUS
  <1> HIDE DEF s, fs
  <1>5. Len(s) = k + Len(fs) /\ \A i \in 1 .. Len(fs) : FromBottom(s, k + i) = fs[i]
      BY <1>1, <1>3, <1>4, \A i \in 1 .. 2 : i = 1 \/ i = 2
  <1>6. k \in Nat /\ k <= Depth(t) /\ \A d \in 1 .. k : FromBottom(s, d) = Frm(t, d)
    <2>1. k \in Nat /\ k <= Depth(t)
        BY <1>1
    <2>2. ASSUME NEW d \in 1 .. k
          PROVE  FromBottom(s, d) = Frm(t, d)
      <3>1. FromBottom(r, d) = Frm(t, d) /\ d \in 1 .. Len(r)
          BY <1>1
      <3> QED
          BY <1>3, <3>1
    <2> QED
        BY <2>1, <2>2
  <1>7. Replaces(t, k, fs)
      BY <1>2, <1>3, <1>5, <1>6, NewStack
  <1> QED
      BY <1>7 DEF fs

\* The helper is forwarded by the workload, whose mutex is still held.
LEMMA AskedForwards ==
  ASSUME StackOK, NEW t \in Thread, At(t, "asked"), NEW f, f = Top(t),
         stack' = [stack EXCEPT ![t] = <<F("push", f.call, f.to), F("answered", None, f.to)>> \o Tail(@)],
         NEW n, n = Depth(t)
  PROVE  /\ n \in Nat \ {0} /\ StackOK' /\ f.call \in Call
         /\ Has(t, n, "transit", f.call) /\ NoRole(t, n + 1)
         /\ NoRole(t, n)' /\ Has(t, n + 1, "transit", f.call)' /\ Elsewhere(t, {n, n + 1})
  <1>1. n \in Nat \ {0} /\ f = Frm(t, n) /\ f \in Frame /\ FrameOK(t, n, f) /\ f.op = "asked"
      BY Frames, TopFrame DEF StackOK, At
  <1>2. f.call \in Call /\ f.to \in Thread /\ f.to = To[f.call] /\ f.to \in Workloads /\ f.op \in TransitOps
      BY <1>1 DEF FrameOK, TransitOps
  <1>3. PICK g, h : g = F("push", f.call, f.to) /\ h = F("answered", None, f.to)
      OBVIOUS
  <1>4. /\ g \in Frame /\ g.op \in TransitOps /\ g.call = f.call /\ FrameOK(t, n + 1, g)
        /\ h \in Frame /\ h.op \in OtherOps /\ FrameOK(t, n, h)
    <2>1. /\ <<>> \in Seq(Call) /\ "push" \in Op /\ "push" \in TransitOps
          /\ "answered" \in Op /\ "answered" \in OtherOps
        BY DEF Op, TransitOps, OtherOps
    <2> QED
        BY <1>2, <1>3, <2>1 DEF F, Frame, FrameOK, TransitOps, AttachOps,
                CallOps, HelperOps, WaitOps
  <1>5. PICK fs, k : fs = <<h, g>> /\ k = n - 1
      OBVIOUS
  <1>6. Len(fs) = 2 /\ fs[1] = h /\ fs[2] = g /\ k \in Nat /\ k <= Depth(t) /\ k + 1 = n /\ k + 2 = n + 1
      BY <1>1, <1>5
  <1>7. Replaces(t, k, fs)
    <2>1. stack[t] # <<>> /\ stack' = [stack EXCEPT ![t] = <<g, h>> \o Tail(@)]
        BY <1>3 DEF At
    <2> QED
        BY <1>4, <1>5, <2>1, ReplaceTopTwo DEF StackOK
  <1>8. StackOK'
    <2>1. \A i \in 1 .. Len(fs) : FrameOK(t, k + i, fs[i])
        BY <1>4, <1>6, \A i \in 1 .. 2 : i = 1 \/ i = 2
    <2> QED
        BY <1>6, <1>7, <2>1, ReplacedOK
  <1>9. Has(t, n, "transit", f.call) /\ NoRole(t, n + 1)
      BY <1>1, <1>2, TopHas, NoneAbove
  <1>10. NoRole(t, n)'
    <2>1. 1 \in 1 .. Len(fs) /\ Len(fs) \in Nat
        BY <1>6
    <2> QED
        BY <1>4, <1>6, <1>7, <2>1, NewHas
  <1>11. Has(t, n + 1, "transit", f.call)'
    <2>1. PICK d : d = n + 1
        OBVIOUS
    <2>2. 2 \in 1 .. Len(fs) /\ Len(fs) \in Nat /\ d = k + 2
        BY <1>6, <2>1
    <2>3. Has(t, d, "transit", g.call)'
        BY <1>4, <1>6, <1>7, <2>2, NewHas
    <2> QED
        BY <1>4, <2>1, <2>3
  <1>12. Elsewhere(t, {n, n + 1})
    <2>1. PICK l : l = Len(fs)
        OBVIOUS
    <2>2. ASSUME NEW u \in Thread, NEW d \in Nat, u # t \/ d \notin {n, n + 1}
          PROVE  SameRoles(u, d)
      <3>1. l \in Nat /\ (u # t \/ d <= k \/ (d > k + l /\ d > Depth(t)))
          BY <1>1, <1>6, <2>1, <2>2
      <3> QED
          BY <1>7, <2>1, <3>1, Beyond
    <2> QED
        BY <2>2 DEF Elsewhere
  <1> QED
      BY <1>1, <1>2, <1>8, <1>9, <1>10, <1>11, <1>12

\* The calls that are put on a stack one after the other.
LEMMA PutAll ==
  ASSUME NEW S, NEW r \in Seq(S), NEW w \in S, NEW o \in S, NEW st \in Seq(S)
  PROVE  st \o <<w>> \o <<o>> \o r = st \o (<<w, o>> \o r) /\ <<w, o>> \o r \in Seq(S)
  <1>1. <<w>> \in Seq(S) /\ <<o>> \in Seq(S) /\ st \o <<w>> \in Seq(S) /\ <<o>> \o r \in Seq(S)
      BY ConcatProperties
  <1>2. (st \o <<w>>) \o <<o>> \o r = (st \o <<w>>) \o (<<o>> \o r)
      BY <1>1, ConcatAssociative
  <1>3. (st \o <<w>>) \o (<<o>> \o r) = st \o (<<w>> \o (<<o>> \o r))
      BY <1>1, ConcatAssociative
  <1>4. <<w>> \o (<<o>> \o r) = <<w, o>> \o r
      BY PushTwo
  <1> QED
      BY <1>2, <1>3, <1>4, PutTwo

\* The frames of a call: the caller, its wait, and one or two for the helper.
LEMMA CallFrames ==
  ASSUME stack \in [Thread -> Seq(Frame)], NEW t \in Thread, stack[t] # <<>>,
         NEW w \in Frame, NEW o \in Frame, NEW g \in Frame, NEW f \in Frame,
         NEW st \in {<<g>>, <<f, g>>},
         stack' = [stack EXCEPT ![t] = st \o <<w>> \o <<o>> \o Tail(@)],
         NEW n, n = Depth(t), NEW k, k = n - 1
  PROVE  /\ st = <<g>> => Replaces(t, k, <<o, w, g>>)
         /\ st = <<f, g>> => Replaces(t, k, <<o, w, g, f>>)
  <1> DEFINE r == Tail(stack[t])
             q == <<w, o>> \o r
             s == st \o q
  <1>1. /\ r \in Seq(Frame) /\ n \in Nat \ {0} /\ Len(r) = k
        /\ \A d \in 1 .. k : FromBottom(r, d) = Frm(t, d)
      BY PopSeq DEF Depth, Frm
  <1>2. st \in Seq(Frame)
    <2>1. <<g>> \in Seq(Frame) /\ <<f, g>> \in Seq(Frame)
        OBVIOUS
    <2> QED
        BY <2>1
  <1>3. stack' = [stack EXCEPT ![t] = s] /\ q \in Seq(Frame)
    <2>1. stack' = [stack EXCEPT ![t] = st \o <<w>> \o <<o>> \o r]
        OBVIOUS
    <2> HIDE DEF r
    <2>2. st \o <<w>> \o <<o>> \o r = st \o (<<w, o>> \o r) /\ <<w, o>> \o r \in Seq(Frame)
        BY <1>1, <1>2, PutAll
    <2> QED
        BY <2>1, <2>2
  <1> HIDE DEF r
  <1>4. /\ k \in Nat /\ k <= Depth(t) /\ Len(q) = k + 2
        /\ FromBottom(q, k + 1) = o /\ FromBottom(q, k + 2) = w
        /\ \A d \in 1 .. k : FromBottom(q, d) = Frm(t, d)
    <2>1. q = <<w, o>> \o r
        OBVIOUS
    <2> HIDE DEF q, s
    <2>2. k \in Nat /\ k <= Depth(t)
        BY <1>1
    <2>3. Len(q) = Len(r) + 2 /\ FromBottom(q, Len(r) + 1) = o /\ FromBottom(q, Len(r) + 2) = w
        BY <1>1, <2>1, PutTwo
    <2>4. \A d \in 1 .. Len(r) : FromBottom(q, d) = FromBottom(r, d)
        BY <1>1, <2>1, PutTwo
    <2>5. Len(q) = k + 2 /\ FromBottom(q, k + 1) = o /\ FromBottom(q, k + 2) = w
        BY <1>1, <2>3
    <2>6. ASSUME NEW d \in 1 .. k
          PROVE  FromBottom(q, d) = Frm(t, d)
      <3>1. FromBottom(r, d) = Frm(t, d) /\ d \in 1 .. Len(r)
          BY <1>1
      <3> QED
          BY <2>4, <3>1
    <2> QED
        BY <2>2, <2>5, <2>6
  <1> HIDE DEF q
  <1>5. ASSUME st = <<g>>
        PROVE  Replaces(t, k, <<o, w, g>>)
    <2> DEFINE fs == <<o, w, g>>
    <2>1. /\ s \in Seq(Frame) /\ Len(s) = Len(q) + 1 /\ FromBottom(s, Len(q) + 1) = g
          /\ \A d \in 1 .. Len(q) : FromBottom(s, d) = FromBottom(q, d)
      <3>1. s = <<g>> \o q
          BY <1>5
      <3> HIDE DEF s
      <3>2. /\ <<g>> \o q \in Seq(Frame) /\ Len(<<g>> \o q) = Len(q) + 1
            /\ FromBottom(<<g>> \o q, Len(q) + 1) = g
            /\ \A d \in 1 .. Len(q) : FromBottom(<<g>> \o q, d) = FromBottom(q, d)
          BY <1>3, PushSeq
      <3> QED
          BY <3>1, <3>2
    <2>2. Len(fs) = 3 /\ fs[1] = o /\ fs[2] = w /\ fs[3] = g
        OBVIOUS
    <2> HIDE DEF s, fs
    <2>3. /\ Len(s) = k + 3 /\ FromBottom(s, k + 1) = o /\ FromBottom(s, k + 2) = w
          /\ FromBottom(s, k + 3) = g /\ \A d \in 1 .. k : FromBottom(s, d) = Frm(t, d)
      <3>1. /\ Len(q) + 1 = k + 3 /\ k + 1 \in 1 .. Len(q) /\ k + 2 \in 1 .. Len(q)
            /\ \A d \in 1 .. k : d \in 1 .. Len(q)
          BY <1>4
      <3> QED
          BY <1>4, <2>1, <3>1
    <2>4. Len(s) = k + Len(fs) /\ \A i \in 1 .. Len(fs) : FromBottom(s, k + i) = fs[i]
        BY <1>4, <2>2, <2>3, \A i \in 1 .. 3 : i = 1 \/ i = 2 \/ i = 3
    <2>5. Replaces(t, k, fs)
        BY <1>3, <1>4, <2>1, <2>3, <2>4, NewStack
    <2> QED
        BY <2>5 DEF fs
  <1>6. ASSUME st = <<f, g>>
        PROVE  Replaces(t, k, <<o, w, g, f>>)
    <2> DEFINE fs == <<o, w, g, f>>
    <2>1. /\ s \in Seq(Frame) /\ Len(s) = Len(q) + 2
          /\ FromBottom(s, Len(q) + 1) = g /\ FromBottom(s, Len(q) + 2) = f
          /\ \A d \in 1 .. Len(q) : FromBottom(s, d) = FromBottom(q, d)
      <3>1. s = <<f, g>> \o q
          BY <1>6
      <3> HIDE DEF s
      <3>2. /\ <<f, g>> \o q \in Seq(Frame) /\ Len(<<f, g>> \o q) = Len(q) + 2
            /\ FromBottom(<<f, g>> \o q, Len(q) + 1) = g /\ FromBottom(<<f, g>> \o q, Len(q) + 2) = f
            /\ \A d \in 1 .. Len(q) : FromBottom(<<f, g>> \o q, d) = FromBottom(q, d)
          BY <1>3, PutTwo
      <3> QED
          BY <3>1, <3>2
    <2>2. Len(fs) = 4 /\ fs[1] = o /\ fs[2] = w /\ fs[3] = g /\ fs[4] = f
        OBVIOUS
    <2> HIDE DEF s, fs
    <2>3. /\ Len(s) = k + 4 /\ FromBottom(s, k + 1) = o /\ FromBottom(s, k + 2) = w
          /\ FromBottom(s, k + 3) = g /\ FromBottom(s, k + 4) = f
          /\ \A d \in 1 .. k : FromBottom(s, d) = Frm(t, d)
      <3>1. /\ Len(q) + 1 = k + 3 /\ Len(q) + 2 = k + 4 /\ k + 1 \in 1 .. Len(q) /\ k + 2 \in 1 .. Len(q)
            /\ \A d \in 1 .. k : d \in 1 .. Len(q)
          BY <1>4
      <3> QED
          BY <1>4, <2>1, <3>1
    <2>4. Len(s) = k + Len(fs) /\ \A i \in 1 .. Len(fs) : FromBottom(s, k + i) = fs[i]
        BY <1>4, <2>2, <2>3, \A i \in 1 .. 4 : i = 1 \/ i = 2 \/ i = 3 \/ i = 4
    <2>5. Replaces(t, k, fs)
        BY <1>3, <1>4, <2>1, <2>3, <2>4, NewStack
    <2> QED
        BY <2>5 DEF fs
  <1> QED
      BY <1>5, <1>6

\* The code of x, on top of the stack of t, makes the call c.
Calling(t, n, x, c) ==
  /\ n \in Nat \ {0}
  /\ Owner(t, n, x) /\ Rest(t, n) \in Seq(Call) /\ Rest(t, n) # <<>> /\ c = Head(Rest(t, n))
  /\ Rest(t, n)' = Tail(Rest(t, n))
  /\ \A y \in Thread \cup Call : (Owner(t, n, y) <=> y = x) /\ (Owner(t, n, y)' <=> y = x)
  /\ \A b \in Call : /\ Imp(t, n, b)' <=> Imp(t, n, b)
                     /\ ~Transit(t, n, b) /\ ~Helper(t, n, b) /\ ~Wait(t, n, b)
                     /\ ~Transit(t, n, b)' /\ ~Helper(t, n, b)' /\ ~Wait(t, n, b)'
  /\ NoRole(t, n + 1) /\ NoRole(t, n + 2) /\ NoRole(t, n + 3)
  /\ Has(t, n + 1, "wait", c)'
  /\ \/ Has(t, n + 2, "transit", c)' /\ NoRole(t, n + 3)'
     \/ Has(t, n + 2, "helper", c)' /\ Has(t, n + 3, "imp", c)' /\ Rest(t, n + 3)' = Calls[c]
  /\ Elsewhere(t, {n, n + 1, n + 2, n + 3})

\* The frames that startExecute() adds.
ImpFrame(c) == [F("imp", c, None) EXCEPT !.rest = Calls[c]]
HelperFrame(c) == F("helper", c, None)

LEMMA StartFrames ==
  ASSUME NEW t \in Thread, NEW c \in Call, NEW f, f = ImpFrame(c), NEW h, h = HelperFrame(c)
  PROVE  /\ f \in Frame /\ f.op = "imp" /\ f.call = c /\ f.rest = Calls[c]
         /\ h \in Frame /\ h.op \in HelperOps /\ h.call = c
         /\ \/ Start(t, c) = <<f, h>> /\ To[c] \in {None, t}
            \/ \E g \in Frame : /\ Start(t, c) = <<g>> /\ g.op \in TransitOps /\ g.call = c
                                /\ \A d : FrameOK(t, d, g)
  <1>1. /\ <<>> \in Seq(Call) /\ Calls[c] \in Seq(Call)
        /\ {"imp", "helper", "askWorkload", "push", "find"} \subseteq Op
        /\ {"askWorkload", "push", "find"} \subseteq TransitOps
      BY CallsAssumption DEF Op, TransitOps, CallOps, HelperOps
  <1>2. /\ f \in Frame /\ f.op = "imp" /\ f.call = c /\ f.rest = Calls[c]
        /\ h \in Frame /\ h.op \in HelperOps /\ h.call = c
      BY <1>1 DEF F, Frame, ImpFrame, HelperFrame, HelperOps
  <1>3. ASSUME NEW op \in {"askWorkload", "push", "find"}, To[c] \in Thread,
               op = "askWorkload" => To[c] \in Workloads, NEW g, g = F(op, c, To[c])
        PROVE  g \in Frame /\ g.op \in TransitOps /\ g.call = c /\ \A d : FrameOK(t, d, g)
    <2>1. g \in Frame /\ g.op \in TransitOps /\ g.op = op /\ g.call = c /\ g.to = To[c]
        BY <1>1, <1>3 DEF F, Frame
    <2> QED
        BY <1>3, <2>1 DEF FrameOK, TransitOps, AttachOps, CallOps, HelperOps, WaitOps
  <1>4. /\ To[c] = None \/ To[c] \in Thread
        /\ c \in ByWorkload => To[c] \in Workloads /\ To[c] \in Thread
      BY ToAssumption, WorkloadAssumption, ThreadsAssumption
  <1>5. \/ c \in ByWorkload /\ Start(t, c) = <<F("askWorkload", c, To[c])>>
        \/ To[c] \in {None, t} /\ Start(t, c) = <<f, h>>
        \/ To[c] \notin {None, t} /\ \E op \in {"push", "find"} : Start(t, c) = <<F(op, c, To[c])>>
      BY DEF Start, ImpFrame, HelperFrame
  <1>6. CASE c \in ByWorkload /\ Start(t, c) = <<F("askWorkload", c, To[c])>>
    <2>1. PICK g : g = F("askWorkload", c, To[c])
        OBVIOUS
    <2> QED
        BY <1>2, <1>3, <1>4, <1>6, <2>1
  <1>7. CASE To[c] \in {None, t} /\ Start(t, c) = <<f, h>>
      BY <1>2, <1>7
  <1>8. ASSUME NEW op \in {"push", "find"}, To[c] \notin {None, t}, Start(t, c) = <<F(op, c, To[c])>>
        PROVE  \E g \in Frame : /\ Start(t, c) = <<g>> /\ g.op \in TransitOps /\ g.call = c
                                /\ \A d : FrameOK(t, d, g)
    <2>1. PICK g : g = F(op, c, To[c])
        OBVIOUS
    <2>2. To[c] \in Thread
        BY <1>4, <1>8
    <2>3. g \in Frame /\ g.op \in TransitOps /\ g.call = c /\ \A d : FrameOK(t, d, g)
        BY <1>3, <2>1, <2>2
    <2> QED
        BY <1>8, <2>1, <2>3
  <1> QED
      BY <1>2, <1>5, <1>6, <1>7, <1>8

\* Execute: the code on top makes its next call.
LEMMA Executed ==
  ASSUME StackOK, NEW t \in Thread, Execute(t), NEW n, n = Depth(t)
  PROVE  StackOK' /\ \E x \in Thread \cup Call, c \in Call : Calling(t, n, x, c)
  <1>1. PICK b : b = Top(t)
      OBVIOUS
  <1>2. stack[t] # <<>> /\ b.op \in {"program", "imp"} /\ b.rest # <<>>
      BY <1>1 DEF Execute
  <1>3. n \in Nat \ {0} /\ b = Frm(t, n) /\ b \in Frame /\ FrameOK(t, n, b) /\ Rest(t, n) = b.rest
      BY <1>1, <1>2, Frames, TopFrame DEF StackOK
  <1>4. PICK c : c = Head(b.rest)
      OBVIOUS
  <1>5. b.rest \in Seq(Call) /\ c \in Call /\ Tail(b.rest) \in Seq(Call)
    <2>1. b.rest \in Seq(Call)
        BY <1>3 DEF Frame
    <2> QED
        BY <2>1, <1>2, <1>4, HeadTailProperties
  <1>6. PICK w, o : w = F("wait", c, None) /\ o = [b EXCEPT !.rest = Tail(b.rest)]
      OBVIOUS
  <1>7. /\ w \in Frame /\ w.op \in WaitOps /\ w.call = c /\ FrameOK(t, n + 1, w)
        /\ o \in Frame /\ o.op = b.op /\ o.call = b.call /\ o.rest = Tail(b.rest) /\ FrameOK(t, n, o)
    <2>1. "wait" \in Op /\ <<>> \in Seq(Call)
        BY DEF Op, CallOps, WaitOps
    <2>2. w \in Frame /\ w.op \in WaitOps /\ w.call = c /\ FrameOK(t, n + 1, w)
        BY <1>5, <1>6, <2>1 DEF F, Frame, FrameOK, TransitOps, AttachOps, CallOps, HelperOps, WaitOps
    <2>3. /\ o \in Frame /\ o.op = b.op /\ o.call = b.call /\ o.rest = Tail(b.rest) /\ o.to = b.to
        BY <1>3, <1>5, <1>6 DEF Frame
    <2>4. FrameOK(t, n, o)
        BY <1>3, <2>3 DEF FrameOK
    <2> QED
        BY <2>2, <2>3, <2>4
  <1>8. stack' = [stack EXCEPT ![t] = Start(t, c) \o <<w>> \o <<o>> \o Tail(stack[t])]
      BY <1>1, <1>4, <1>6 DEF Execute, Top
  <1>9. PICK f, h : f = ImpFrame(c) /\ h = HelperFrame(c)
      OBVIOUS
  <1>10. /\ f \in Frame /\ f.op = "imp" /\ f.call = c /\ f.rest = Calls[c]
         /\ h \in Frame /\ h.op \in HelperOps /\ h.call = c
         /\ \/ Start(t, c) = <<f, h>> /\ To[c] \in {None, t}
            \/ \E g \in Frame : /\ Start(t, c) = <<g>> /\ g.op \in TransitOps /\ g.call = c
                                /\ \A d : FrameOK(t, d, g)
      BY <1>5, <1>9, StartFrames
  <1>11. PICK k : k = n - 1
      OBVIOUS
  <1>12. PICK fs, l :
           /\ l \in {3, 4} /\ l = Len(fs) /\ Replaces(t, k, fs) /\ fs[1] = o /\ fs[2] = w
           /\ \/ l = 3 /\ fs[3].op \in TransitOps /\ fs[3].call = c /\ FrameOK(t, n + 2, fs[3])
              \/ l = 4 /\ fs[3] = h /\ fs[4] = f /\ To[c] \in {None, t}
    <2>2. CASE Start(t, c) = <<f, h>> /\ To[c] \in {None, t}
      <3>1. PICK st : st = Start(t, c)
          OBVIOUS
      <3>2. Replaces(t, k, <<o, w, h, f>>)
          BY <1>2, <1>7, <1>8, <1>10, <1>11, <2>2, <3>1, CallFrames DEF StackOK
      <3>3. PICK fs : fs = <<o, w, h, f>>
          OBVIOUS
      <3>4. Len(fs) = 4 /\ fs[1] = o /\ fs[2] = w /\ fs[3] = h /\ fs[4] = f
          BY <3>3
      <3> QED
          BY <2>2, <3>2, <3>3, <3>4
    <2>3. ASSUME NEW g \in Frame, Start(t, c) = <<g>>, g.op \in TransitOps, g.call = c,
                 \A d : FrameOK(t, d, g)
          PROVE  \E fs, l :
                   /\ l = Len(fs) /\ Replaces(t, k, fs) /\ fs[1] = o /\ fs[2] = w
                   /\ l = 3 /\ fs[3].op \in TransitOps /\ fs[3].call = c /\ FrameOK(t, n + 2, fs[3])
      <3>1. PICK st : st = Start(t, c)
          OBVIOUS
      <3>2. Replaces(t, k, <<o, w, g>>)
          BY <1>2, <1>7, <1>8, <1>10, <1>11, <2>3, <3>1, CallFrames DEF StackOK
      <3>3. PICK fs : fs = <<o, w, g>>
          OBVIOUS
      <3>4. Len(fs) = 3 /\ fs[1] = o /\ fs[2] = w /\ fs[3] = g
          BY <3>3
      <3> QED
          BY <2>3, <3>2, <3>3, <3>4
    <2> QED
        BY <1>10, <2>2, <2>3
  <1>13. /\ k \in Nat /\ k + 1 = n /\ k + 2 = n + 1 /\ k + 3 = n + 2 /\ k + 4 = n + 3
         /\ l \in Nat /\ Len(fs) \in Nat /\ {1, 2, 3} \subseteq 1 .. Len(fs)
         /\ l = 4 => 4 \in 1 .. Len(fs)
    <2>1. l \in {3, 4} /\ l = Len(fs)
        BY <1>12
    <2>2. n \in Nat /\ n # 0
        BY <1>3
    <2>3. k \in Nat /\ k + 1 = n /\ k + 2 = n + 1 /\ k + 3 = n + 2 /\ k + 4 = n + 3
        BY <1>11, <2>2
    <2>4. l \in Nat /\ Len(fs) \in Nat
        BY <2>1
    <2>5. {1, 2, 3} \subseteq 1 .. Len(fs) /\ (l = 4 => 4 \in 1 .. Len(fs))
        BY <2>1
    <2> QED
        BY <2>3, <2>4, <2>5
  <1>14. StackOK'
    <2>1. FrameOK(t, n + 2, fs[3]) /\ (l = 4 => FrameOK(t, n + 3, fs[4]))
        BY <1>5, <1>10, <1>12 DEF FrameOK, TransitOps, AttachOps, CallOps, HelperOps, WaitOps
    <2>2. \A i \in 1 .. l : i = 1 \/ i = 2 \/ i = 3 \/ (i = 4 /\ l = 4)
        BY <1>12
    <2>3. \A i \in 1 .. l : FrameOK(t, k + i, fs[i])
        BY <1>7, <1>12, <1>13, <2>1, <2>2
    <2> QED
        BY <1>12, <1>13, <2>3, ReplacedOK
  <1>15. PICK x \in Thread \cup Call :
           \A y \in Thread \cup Call : (b.op = "imp" /\ b.call = y) \/ (b.op = "program" /\ y = t) <=> y = x
    <2>1. CASE b.op = "imp"
      <3>1. b.call \in Call
          BY <1>3, <2>1 DEF FrameOK, CallOps
      <3> QED
          BY <2>1, <3>1
    <2>2. CASE b.op = "program"
        BY <2>2
    <2> QED
        BY <1>2, <2>1, <2>2
  <1>16. b.op \notin TransitOps \cup HelperOps \cup WaitOps
      BY <1>2 DEF TransitOps, HelperOps, WaitOps
  <1>17. /\ \A y \in Thread \cup Call : Owner(t, n, y) <=> y = x
         /\ \A a \in Call : /\ Imp(t, n, a) <=> b.op = "imp" /\ b.call = a
                            /\ ~Transit(t, n, a) /\ ~Helper(t, n, a) /\ ~Wait(t, n, a)
    <2>1. /\ \A a \in Call : /\ Transit(t, n, a) <=> b.op \in TransitOps /\ b.call = a
                             /\ Helper(t, n, a) <=> b.op \in HelperOps /\ b.call = a
                             /\ Imp(t, n, a) <=> b.op = "imp" /\ b.call = a
                             /\ Wait(t, n, a) <=> b.op \in WaitOps /\ b.call = a
          /\ \A y \in Thread \cup Call :
               Owner(t, n, y) <=> (b.op = "imp" /\ b.call = y) \/ (b.op = "program" /\ y = t)
        BY <1>3, TopFrame
    <2> QED
        BY <2>1, <1>15, <1>16
  <1>18. /\ Rest(t, n)' = Tail(b.rest)
         /\ \A y \in Thread \cup Call : Owner(t, n, y)' <=> y = x
         /\ \A a \in Call : /\ Imp(t, n, a)' <=> b.op = "imp" /\ b.call = a
                            /\ ~Transit(t, n, a)' /\ ~Helper(t, n, a)' /\ ~Wait(t, n, a)'
    <2>1. /\ Rest(t, n)' = o.rest
          /\ \A a \in Call : /\ Transit(t, n, a)' <=> o.op \in TransitOps /\ o.call = a
                             /\ Helper(t, n, a)' <=> o.op \in HelperOps /\ o.call = a
                             /\ Imp(t, n, a)' <=> o.op = "imp" /\ o.call = a
                             /\ Wait(t, n, a)' <=> o.op \in WaitOps /\ o.call = a
          /\ \A y \in Thread \cup Call :
               Owner(t, n, y)' <=> (o.op = "imp" /\ o.call = y) \/ (o.op = "program" /\ y = t)
      <3>1. Len(fs) \in Nat /\ 1 \in 1 .. Len(fs) /\ n = k + 1 /\ o = fs[1] /\ Replaces(t, k, fs)
          BY <1>12, <1>13
      <3> QED
          BY <3>1, NewFrame
    <2> QED
        BY <1>7, <1>15, <1>16, <2>1
  <1>19. NoRole(t, n + 1) /\ NoRole(t, n + 2) /\ NoRole(t, n + 3)
      BY <1>3, NoneAbove
  <1>20. Has(t, n + 1, "wait", c)'
    <2>1. PICK d : d = n + 1
        OBVIOUS
    <2>2. Has(t, d, "wait", w.call)'
        BY <1>7, <1>12, <1>13, <2>1, NewHas
    <2> QED
        BY <1>7, <2>1, <2>2
  <1>21. PICK d, e : d = n + 2 /\ e = n + 3
      OBVIOUS
  <1>22. ASSUME l = 3
         PROVE  Has(t, d, "transit", c)' /\ NoRole(t, e)'
    <2>1. PICK g : g = fs[3]
        OBVIOUS
    <2>2. Has(t, d, "transit", g.call)'
      <3>1. Len(fs) \in Nat /\ 3 \in 1 .. Len(fs) /\ d = k + 3 /\ Replaces(t, k, fs) /\ g.op \in TransitOps
          BY <1>12, <1>13, <1>21, <1>22, <2>1
      <3> QED
          BY <2>1, <3>1, NewHas
    <2>3. e \in Nat /\ e > k + Len(fs)
        BY <1>3, <1>12, <1>13, <1>21, <1>22
    <2>4. NoRole(t, e)'
        BY <1>12, <1>13, <2>3, NoneAboveNew
    <2> QED
        BY <1>12, <1>21, <1>22, <2>1, <2>2, <2>4
  <1>23. ASSUME l = 4
         PROVE  Has(t, d, "helper", c)' /\ Has(t, e, "imp", c)' /\ Rest(t, e)' = Calls[c]
    <2>1. Has(t, d, "helper", h.call)'
      <3>1. Len(fs) \in Nat /\ 3 \in 1 .. Len(fs) /\ d = k + 3 /\ Replaces(t, k, fs) /\ h = fs[3]
          BY <1>12, <1>13, <1>21, <1>23
      <3> QED
          BY <1>10, <3>1, NewHas
    <2>2. Has(t, e, "imp", f.call)' /\ Rest(t, e)' = f.rest
      <3>1. Len(fs) \in Nat /\ 4 \in 1 .. Len(fs) /\ e = k + 4 /\ Replaces(t, k, fs) /\ f = fs[4]
          BY <1>12, <1>13, <1>21, <1>23
      <3> QED
          BY <1>10, <3>1, NewHas
    <2> QED
        BY <1>10, <1>21, <2>1, <2>2
  <1>24. Elsewhere(t, {n, n + 1, n + 2, n + 3})
    <2>1. ASSUME NEW u \in Thread, NEW i \in Nat, u # t \/ i \notin {n, n + 1, n + 2, n + 3}
          PROVE  SameRoles(u, i)
      <3>1. u # t \/ i <= k \/ (i > k + l /\ i > Depth(t))
        <4>1. k + l = n + 2 \/ k + l = n + 3
            BY <1>12, <1>13
        <4>2. u # t \/ i < n \/ i > n + 3
            BY <1>3, <2>1
        <4> QED
            BY <1>3, <1>13, <4>1, <4>2
      <3> QED
          BY <1>12, <1>13, <3>1, Beyond
    <2> QED
        BY <2>1 DEF Elsewhere
  <1>25. Calling(t, n, x, c)
    <2>1. \/ Has(t, d, "transit", c)' /\ NoRole(t, e)'
          \/ Has(t, d, "helper", c)' /\ Has(t, e, "imp", c)' /\ Rest(t, e)' = Calls[c]
        BY <1>12, <1>22, <1>23
    <2> QED
        BY <1>2, <1>3, <1>4, <1>5, <1>17, <1>18, <1>19, <1>20, <1>21, <1>24, <2>1 DEF Calling
  <1> QED
      BY <1>5, <1>14, <1>25

\* The frame on top goes on to something that does not matter.
LEMMA TopDone ==
  ASSUME StackOK, NEW t \in Thread, stack[t] # <<>>, NEW op \in OtherOps, Goto(t, op),
         NEW f, f = Top(t), \A d : FrameOK(t, d, f) => FrameOK(t, d, [f EXCEPT !.op = op]),
         NEW n, n = Depth(t)
  PROVE  /\ n \in Nat \ {0} /\ f = Frm(t, n) /\ StackOK'
         /\ NoRole(t, n)' /\ Elsewhere(t, {n})
  <1> DEFINE g == [f EXCEPT !.op = op]
  <1>1. n \in Nat \ {0} /\ f = Frm(t, n) /\ f \in Frame
      BY Frames DEF StackOK
  <1>2. op \in Op /\ g.op = op
      BY <1>1 DEF Op, Frame
  <1>3. Replaces(t, n - 1, <<g>>) /\ FrameOK(t, n, g)
      BY <1>1, <1>2, GotoTop, TopFrame DEF StackOK
  <1> HIDE DEF g
  <1>4. PICK fs, k, l : fs = <<g>> /\ k = n - 1 /\ l = Len(fs)
      OBVIOUS
  <1>5. l = 1 /\ fs[1] = g /\ Replaces(t, k, fs) /\ l \in Nat /\ l <= 1 /\ \A i \in 1 .. 1 : i = 1 /\ k + i = n
      BY <1>1, <1>3, <1>4
  <1>6. StackOK'
    <2>1. \A i \in 1 .. Len(fs) : FrameOK(t, k + i, fs[i])
        BY <1>3, <1>4, <1>5
    <2> QED
        BY <1>4, <1>5, <2>1, ReplacedOK
  <1>7. NoRole(t, n)' /\ Elsewhere(t, {n})
      BY <1>1, <1>2, <1>4, <1>5, TopGone
  <1> QED
      BY <1>1, <1>6, <1>7

----------------------------------------------------------------------------
(* Where a helper is: the steps that move it keep the invariant.           *)

\* The positions of a queue that grows or shrinks.
LEMMA Appended ==
  ASSUME NEW s \in Seq(Call), NEW c \in Call, NEW q, q = Append(s, c)
  PROVE  /\ Len(s) \in Nat /\ Len(q) = Len(s) + 1
         /\ \A i \in Nat : i \in 1 .. Len(q) => (i \in 1 .. Len(s) /\ q[i] = s[i]) \/ (i = Len(s) + 1 /\ q[i] = c)
  <1>1. Len(s) \in Nat
      BY LenProperties
  <1> QED
      BY <1>1, AppendProperties

LEMMA Shifted ==
  ASSUME NEW s \in Seq(Call), s # <<>>, NEW q, q = Tail(s)
  PROVE  /\ Len(s) \in Nat \ {0} /\ Len(q) = Len(s) - 1 /\ Head(s) = s[1] /\ Head(s) \in Call
         /\ \A i \in Nat : i \in 1 .. Len(q) => i + 1 \in 1 .. Len(s) /\ q[i] = s[i + 1]
  <1>1. Len(s) \in Nat \ {0} /\ Head(s) = s[1]
      BY EmptySeq
  <1> QED
      BY <1>1, HeadTailProperties

\* A frame of a helper on its way that goes takes no other part with it.
LEMMA TransitSteady ==
  ASSUME NEW t \in Thread, NEW n \in Nat, NEW c0 \in Call,
         Has(t, n, "transit", c0), NoRole(t, n)', Elsewhere(t, {n})
  PROVE  Steady
  <1> SUFFICES ASSUME NEW u \in Thread, NEW d \in Nat
               PROVE  /\ \A c \in Call : /\ Helper(u, d, c)' <=> Helper(u, d, c)
                                         /\ Imp(u, d, c)' <=> Imp(u, d, c)
                                         /\ Wait(u, d, c)' <=> Wait(u, d, c)
                      /\ \A x \in Thread \cup Call : /\ Owner(u, d, x)' <=> Owner(u, d, x)
                                                     /\ Owner(u, d, x) => Rest(u, d)' = Rest(u, d)
      BY DEF Steady
  <1>1. CASE u = t /\ d = n
    <2>1. /\ \A c \in Call : ~Helper(u, d, c) /\ ~Imp(u, d, c) /\ ~Wait(u, d, c)
          /\ \A x \in Thread \cup Call : ~Owner(u, d, x)
        BY <1>1 DEF Has
    <2>2. /\ \A c \in Call : ~Helper(u, d, c)' /\ ~Imp(u, d, c)' /\ ~Wait(u, d, c)'
          /\ \A x \in Thread \cup Call : ~Owner(u, d, x)'
        BY <1>1 DEF NoRole
    <2> QED
        BY <2>1, <2>2
  <1>2. CASE u # t \/ d # n
    <2>1. SameRoles(u, d)
        BY <1>2 DEF Elsewhere
    <2> QED
        BY <2>1 DEF SameRoles
  <1> QED
      BY <1>1, <1>2

\* The helper that was on its way is lost: QueueInDeleted.
LEMMA LostKeeps ==
  ASSUME StackOK, CallInv, NEW t \in Thread, NEW n \in Nat, NEW c0 \in Call,
         Has(t, n, "transit", c0), NoRole(t, n)', Elsewhere(t, {n}),
         UNCHANGED <<actionQueue, waiting, ran, opened, returned>>
  PROVE  CallInv' /\ SamePhases
  <1>1. Steady
      BY TransitSteady
  <1>2. ASSUME NEW c \in Call, NEW u \in Thread, NEW d \in Nat
        PROVE  /\ Transit(u, d, c)' => Transit(u, d, c)
               /\ Helper(u, d, c)' <=> Helper(u, d, c)
               /\ Queued(u, d, c)' <=> Queued(u, d, c)
               /\ Left(u, d, c)' <=> Left(u, d, c)
      BY <1>1 DEF NoRole, Elsewhere, SameRoles, Queued, Left, Steady
  <1>3. \A c \in Call : Pending(c)' => Pending(c)
      BY <1>2 DEF Pending
  <1>4. OnePlace'
      BY <1>2 DEF CallInv, OnePlace, Holder
  <1> QED
      BY <1>1, <1>3, <1>4, SteadyKeeps

\* The helper is appended to the queue of its thread: Pushed.
LEMMA QueuedKeeps ==
  ASSUME StackOK, CallInv, NEW t \in Thread, NEW n \in Nat, NEW c0 \in Call, NEW r \in Thread,
         Has(t, n, "transit", c0), NoRole(t, n)', Elsewhere(t, {n}),
         actionQueue \in [Thread -> Seq(Call)],
         actionQueue' = [actionQueue EXCEPT ![r] = Append(@, c0)],
         UNCHANGED <<waiting, ran, opened, returned>>
  PROVE  CallInv' /\ SamePhases
  <1>1. Steady
      BY TransitSteady
  <1>2. ASSUME NEW c \in Call, NEW u \in Thread, NEW d \in Nat
        PROVE  /\ Transit(u, d, c)' => Transit(u, d, c) /\ (u # t \/ d # n)
               /\ Helper(u, d, c)' <=> Helper(u, d, c)
               /\ Left(u, d, c)' <=> Left(u, d, c)
      BY <1>1 DEF NoRole, Elsewhere, SameRoles, Left, Steady
  <1>3. PICK l \in Nat : \A c \in Call, u \in Thread, d \in Nat :
           Queued(u, d, c)' => Queued(u, d, c) \/ (u = r /\ d = l + 1 /\ c = c0)
    <2>1. PICK l, q : l = Len(actionQueue[r]) /\ q = Append(actionQueue[r], c0)
        OBVIOUS
    <2>2. /\ l \in Nat /\ Len(q) = l + 1
          /\ \A i \in Nat : i \in 1 .. Len(q) =>
               (i \in 1 .. l /\ q[i] = actionQueue[r][i]) \/ (i = l + 1 /\ q[i] = c0)
        BY <2>1, Appended
    <2>3. actionQueue'[r] = q /\ \A u \in Thread \ {r} : actionQueue'[u] = actionQueue[u]
        BY <2>1
    <2>4. ASSUME NEW c \in Call, NEW u \in Thread, NEW d \in Nat, Queued(u, d, c)'
          PROVE  Queued(u, d, c) \/ (u = r /\ d = l + 1 /\ c = c0)
      <3>1. CASE u = r
        <4>1. d \in 1 .. Len(q) /\ q[d] = c
            BY <2>3, <2>4, <3>1 DEF Queued
        <4>2. (d \in 1 .. l /\ q[d] = actionQueue[r][d]) \/ (d = l + 1 /\ q[d] = c0)
            BY <2>2, <4>1
        <4> QED
            BY <2>1, <3>1, <4>1, <4>2 DEF Queued
      <3>2. CASE u # r
          BY <2>3, <2>4, <3>2 DEF Queued
      <3> QED
          BY <3>1, <3>2
    <2>5. l \in Nat
        BY <2>2
    <2> QED
        BY <2>4, <2>5
  <1>4. Transit(t, n, c0)
      BY DEF Has
  <1>5. \A c \in Call : Pending(c)' => Pending(c)
      BY <1>2, <1>3, <1>4 DEF Pending
  <1>6. OnePlace'
    <2>1. ASSUME NEW c \in Call, NEW u \in Thread, NEW v \in Thread, NEW d \in Nat, NEW e \in Nat
          PROVE  /\ Holder(u, d, c) /\ Holder(v, e, c) => u = v /\ d = e
                 /\ Queued(u, d, c) /\ Queued(v, e, c) => u = v /\ d = e
                 /\ Left(u, d, c) /\ Left(v, e, c) => u = v /\ d = e
                 /\ ~(Holder(u, d, c) /\ Queued(v, e, c))
                 /\ ~(Holder(u, d, c) /\ Left(v, e, c))
                 /\ ~(Queued(u, d, c) /\ Left(v, e, c))
        BY DEF CallInv, OnePlace
    <2>2. ASSUME NEW c \in Call, NEW u \in Thread, NEW d \in Nat
          PROVE  Holder(u, d, c)' => Holder(u, d, c) /\ c # c0
      <3>1. Holder(u, d, c)' => Holder(u, d, c) /\ (u # t \/ d # n)
          BY <1>2 DEF Holder, NoRole
      <3>2. Holder(t, n, c0)
          BY <1>4 DEF Holder
      <3> QED
          BY <2>1, <3>1, <3>2
    <2>3. Holder(t, n, c0)
        BY <1>4 DEF Holder
    <2>4. ASSUME NEW c \in Call, NEW u \in Thread, NEW v \in Thread, NEW d \in Nat, NEW e \in Nat
          PROVE  /\ Holder(u, d, c)' /\ Holder(v, e, c)' => u = v /\ d = e
                 /\ Queued(u, d, c)' /\ Queued(v, e, c)' => u = v /\ d = e
                 /\ Left(u, d, c)' /\ Left(v, e, c)' => u = v /\ d = e
      <3>1. Holder(u, d, c)' /\ Holder(v, e, c)' => u = v /\ d = e
          BY <2>1, <2>2, <2>3
      <3>2. Queued(u, d, c)' /\ Queued(v, e, c)' => u = v /\ d = e
          BY <1>2, <1>3, <2>1, <2>3
      <3>3. Left(u, d, c)' /\ Left(v, e, c)' => u = v /\ d = e
          BY <1>2, <1>3, <2>1, <2>3
      <3> QED
          BY <3>1, <3>2, <3>3
    <2>5. ASSUME NEW c \in Call, NEW u \in Thread, NEW v \in Thread, NEW d \in Nat, NEW e \in Nat
          PROVE  /\ ~(Holder(u, d, c)' /\ Queued(v, e, c)')
                 /\ ~(Holder(u, d, c)' /\ Left(v, e, c)')
                 /\ ~(Queued(u, d, c)' /\ Left(v, e, c)')
      <3>1. ~(Holder(u, d, c)' /\ Queued(v, e, c)')
          BY <1>2, <1>3, <2>1, <2>2, <2>3
      <3>2. ~(Holder(u, d, c)' /\ Left(v, e, c)')
          BY <1>2, <1>3, <2>1, <2>2, <2>3
      <3>3. ~(Queued(u, d, c)' /\ Left(v, e, c)')
          BY <1>2, <1>3, <2>1, <2>3
      <3> QED
          BY <3>1, <3>2, <3>3
    <2> QED
        BY <2>4, <2>5 DEF OnePlace
  <1> QED
      BY <1>1, <1>5, <1>6, SteadyKeeps

\* The helper is left with the workload: Asked.
LEMMA LeftKeeps ==
  ASSUME StackOK, CallInv, NEW t \in Thread, NEW n \in Nat, NEW c0 \in Call, NEW r \in Workloads,
         Has(t, n, "transit", c0), NoRole(t, n)', Elsewhere(t, {n}),
         waiting \in [Workloads -> Seq(Call)],
         waiting' = [waiting EXCEPT ![r] = Append(@, c0)],
         UNCHANGED <<actionQueue, ran, opened, returned>>
  PROVE  CallInv' /\ SamePhases
  <1>1. Steady
      BY TransitSteady
  <1>2. ASSUME NEW c \in Call, NEW u \in Thread, NEW d \in Nat
        PROVE  /\ Transit(u, d, c)' => Transit(u, d, c) /\ (u # t \/ d # n)
               /\ Helper(u, d, c)' <=> Helper(u, d, c)
               /\ Queued(u, d, c)' <=> Queued(u, d, c)
      BY <1>1 DEF NoRole, Elsewhere, SameRoles, Queued, Steady
  <1>3. PICK l \in Nat : \A c \in Call, u \in Thread, d \in Nat :
           Left(u, d, c)' => Left(u, d, c) \/ (u = r /\ d = l + 1 /\ c = c0)
    <2>1. PICK l, q : l = Len(waiting[r]) /\ q = Append(waiting[r], c0)
        OBVIOUS
    <2>2. /\ l \in Nat /\ Len(q) = l + 1
          /\ \A i \in Nat : i \in 1 .. Len(q) =>
               (i \in 1 .. l /\ q[i] = waiting[r][i]) \/ (i = l + 1 /\ q[i] = c0)
        BY <2>1, Appended
    <2>3. waiting'[r] = q /\ \A u \in Workloads \ {r} : waiting'[u] = waiting[u]
        BY <2>1
    <2>4. ASSUME NEW c \in Call, NEW u \in Thread, NEW d \in Nat, Left(u, d, c)'
          PROVE  Left(u, d, c) \/ (u = r /\ d = l + 1 /\ c = c0)
      <3>1. CASE u = r
        <4>1. d \in 1 .. Len(q) /\ q[d] = c
            BY <2>3, <2>4, <3>1 DEF Left
        <4>2. (d \in 1 .. l /\ q[d] = waiting[r][d]) \/ (d = l + 1 /\ q[d] = c0)
            BY <2>2, <4>1
        <4> QED
            BY <2>1, <3>1, <4>1, <4>2 DEF Left
      <3>2. CASE u # r
          BY <2>3, <2>4, <3>2 DEF Left
      <3> QED
          BY <3>1, <3>2
    <2>5. l \in Nat
        BY <2>2
    <2> QED
        BY <2>4, <2>5
  <1>4. Transit(t, n, c0)
      BY DEF Has
  <1>5. \A c \in Call : Pending(c)' => Pending(c)
      BY <1>2, <1>3, <1>4 DEF Pending
  <1>6. OnePlace'
    <2>1. ASSUME NEW c \in Call, NEW u \in Thread, NEW v \in Thread, NEW d \in Nat, NEW e \in Nat
          PROVE  /\ Holder(u, d, c) /\ Holder(v, e, c) => u = v /\ d = e
                 /\ Queued(u, d, c) /\ Queued(v, e, c) => u = v /\ d = e
                 /\ Left(u, d, c) /\ Left(v, e, c) => u = v /\ d = e
                 /\ ~(Holder(u, d, c) /\ Queued(v, e, c))
                 /\ ~(Holder(u, d, c) /\ Left(v, e, c))
                 /\ ~(Queued(u, d, c) /\ Left(v, e, c))
        BY DEF CallInv, OnePlace
    <2>2. ASSUME NEW c \in Call, NEW u \in Thread, NEW d \in Nat
          PROVE  Holder(u, d, c)' => Holder(u, d, c) /\ c # c0
      <3>1. Holder(u, d, c)' => Holder(u, d, c) /\ (u # t \/ d # n)
          BY <1>2 DEF Holder, NoRole
      <3>2. Holder(t, n, c0)
          BY <1>4 DEF Holder
      <3> QED
          BY <2>1, <3>1, <3>2
    <2>3. Holder(t, n, c0)
        BY <1>4 DEF Holder
    <2>4. ASSUME NEW c \in Call, NEW u \in Thread, NEW v \in Thread, NEW d \in Nat, NEW e \in Nat
          PROVE  /\ Holder(u, d, c)' /\ Holder(v, e, c)' => u = v /\ d = e
                 /\ Queued(u, d, c)' /\ Queued(v, e, c)' => u = v /\ d = e
                 /\ Left(u, d, c)' /\ Left(v, e, c)' => u = v /\ d = e
      <3>1. Holder(u, d, c)' /\ Holder(v, e, c)' => u = v /\ d = e
          BY <2>1, <2>2, <2>3
      <3>2. Queued(u, d, c)' /\ Queued(v, e, c)' => u = v /\ d = e
          BY <1>2, <1>3, <2>1, <2>3
      <3>3. Left(u, d, c)' /\ Left(v, e, c)' => u = v /\ d = e
          BY <1>2, <1>3, <2>1, <2>3
      <3> QED
          BY <3>1, <3>2, <3>3
    <2>5. ASSUME NEW c \in Call, NEW u \in Thread, NEW v \in Thread, NEW d \in Nat, NEW e \in Nat
          PROVE  /\ ~(Holder(u, d, c)' /\ Queued(v, e, c)')
                 /\ ~(Holder(u, d, c)' /\ Left(v, e, c)')
                 /\ ~(Queued(u, d, c)' /\ Left(v, e, c)')
      <3>1. ~(Holder(u, d, c)' /\ Queued(v, e, c)')
          BY <1>2, <1>3, <2>1, <2>2, <2>3
      <3>2. ~(Holder(u, d, c)' /\ Left(v, e, c)')
          BY <1>2, <1>3, <2>1, <2>2, <2>3
      <3>3. ~(Queued(u, d, c)' /\ Left(v, e, c)')
          BY <1>2, <1>3, <2>1, <2>3
      <3> QED
          BY <3>1, <3>2, <3>3
    <2> QED
        BY <2>4, <2>5 DEF OnePlace
  <1> QED
      BY <1>1, <1>5, <1>6, SteadyKeeps

\* The workload forwards it to its thread: Asked.
LEMMA ForwardedKeeps ==
  ASSUME StackOK, CallInv, NEW t \in Thread, NEW n \in Nat, NEW c0 \in Call,
         Has(t, n, "transit", c0), NoRole(t, n + 1), NoRole(t, n)', Has(t, n + 1, "transit", c0)',
         Elsewhere(t, {n, n + 1}),
         UNCHANGED <<actionQueue, waiting, ran, opened, returned>>
  PROVE  CallInv' /\ SamePhases
  <1>1. Steady
    <2>1. PICK m \in Nat : m = n + 1
        OBVIOUS
    <2> QED
        BY <2>1 DEF Has, NoRole, Elsewhere, SameRoles, Steady
  <1>2. ASSUME NEW c \in Call, NEW u \in Thread, NEW d \in Nat
        PROVE  /\ Transit(u, d, c)' => \/ Transit(u, d, c) /\ (u # t \/ d # n)
                                       \/ u = t /\ d = n + 1 /\ c = c0
               /\ Helper(u, d, c)' <=> Helper(u, d, c)
               /\ Queued(u, d, c)' <=> Queued(u, d, c)
               /\ Left(u, d, c)' <=> Left(u, d, c)
      BY <1>1 DEF Has, NoRole, Elsewhere, SameRoles, Queued, Left, Steady
  <1>3. Transit(t, n, c0)
      BY DEF Has
  <1>4. \A c \in Call : Pending(c)' => Pending(c)
      BY <1>2, <1>3 DEF Pending
  <1>5. OnePlace'
    <2>1. ASSUME NEW c \in Call, NEW u \in Thread, NEW v \in Thread, NEW d \in Nat, NEW e \in Nat
          PROVE  /\ Holder(u, d, c) /\ Holder(v, e, c) => u = v /\ d = e
                 /\ Queued(u, d, c) /\ Queued(v, e, c) => u = v /\ d = e
                 /\ Left(u, d, c) /\ Left(v, e, c) => u = v /\ d = e
                 /\ ~(Holder(u, d, c) /\ Queued(v, e, c))
                 /\ ~(Holder(u, d, c) /\ Left(v, e, c))
                 /\ ~(Queued(u, d, c) /\ Left(v, e, c))
        BY DEF CallInv, OnePlace
    <2>2. ASSUME NEW c \in Call, NEW u \in Thread, NEW d \in Nat
          PROVE  Holder(u, d, c)' => (c # c0 /\ Holder(u, d, c)) \/ (u = t /\ d = n + 1 /\ c = c0)
      <3>1. Holder(u, d, c)' => \/ Holder(u, d, c) /\ (u # t \/ d # n)
                                \/ u = t /\ d = n + 1 /\ c = c0
          BY <1>2 DEF Holder, NoRole
      <3>2. Holder(t, n, c0)
          BY <1>3 DEF Holder
      <3> QED
          BY <2>1, <3>1, <3>2
    <2>3. Holder(t, n, c0)
        BY <1>3 DEF Holder
    <2>4. ASSUME NEW c \in Call, NEW u \in Thread, NEW v \in Thread, NEW d \in Nat, NEW e \in Nat
          PROVE  /\ Holder(u, d, c)' /\ Holder(v, e, c)' => u = v /\ d = e
                 /\ Queued(u, d, c)' /\ Queued(v, e, c)' => u = v /\ d = e
                 /\ Left(u, d, c)' /\ Left(v, e, c)' => u = v /\ d = e
      <3>1. Holder(u, d, c)' /\ Holder(v, e, c)' => u = v /\ d = e
          BY <2>1, <2>2, <2>3
      <3>2. Queued(u, d, c)' /\ Queued(v, e, c)' => u = v /\ d = e
          BY <1>2, <2>1, <2>3
      <3>3. Left(u, d, c)' /\ Left(v, e, c)' => u = v /\ d = e
          BY <1>2, <2>1, <2>3
      <3> QED
          BY <3>1, <3>2, <3>3
    <2>5. ASSUME NEW c \in Call, NEW u \in Thread, NEW v \in Thread, NEW d \in Nat, NEW e \in Nat
          PROVE  /\ ~(Holder(u, d, c)' /\ Queued(v, e, c)')
                 /\ ~(Holder(u, d, c)' /\ Left(v, e, c)')
                 /\ ~(Queued(u, d, c)' /\ Left(v, e, c)')
      <3>1. ~(Holder(u, d, c)' /\ Queued(v, e, c)')
          BY <1>2, <2>1, <2>2, <2>3
      <3>2. ~(Holder(u, d, c)' /\ Left(v, e, c)')
          BY <1>2, <2>1, <2>2, <2>3
      <3>3. ~(Queued(u, d, c)' /\ Left(v, e, c)')
          BY <1>2, <2>1, <2>3
      <3> QED
          BY <3>1, <3>2, <3>3
    <2> QED
        BY <2>4, <2>5 DEF OnePlace
  <1> QED
      BY <1>1, <1>4, <1>5, SteadyKeeps

\* What was left with the workload is on its way again: Forward.
LEMMA TakenKeeps ==
  ASSUME StackOK, CallInv, NEW t \in Workloads, t \in Thread, NEW n \in Nat, NEW c0 \in Call,
         NoRole(t, n), Has(t, n, "transit", c0)', Elsewhere(t, {n}),
         waiting \in [Workloads -> Seq(Call)], waiting[t] # <<>>, c0 = Head(waiting[t]),
         waiting' = [waiting EXCEPT ![t] = Tail(@)],
         UNCHANGED <<actionQueue, ran, opened, returned>>
  PROVE  CallInv' /\ SamePhases
  <1>1. Steady
      BY DEF Has, NoRole, Elsewhere, SameRoles, Steady
  <1>2. ASSUME NEW c \in Call, NEW u \in Thread, NEW d \in Nat
        PROVE  /\ Transit(u, d, c)' => Transit(u, d, c) \/ (u = t /\ d = n /\ c = c0)
               /\ Helper(u, d, c)' <=> Helper(u, d, c)
               /\ Queued(u, d, c)' <=> Queued(u, d, c)
      BY <1>1 DEF Has, NoRole, Elsewhere, SameRoles, Queued, Steady
  <1>3. /\ Left(t, 1, c0)
        /\ \A c \in Call, d \in Nat : Left(t, d, c)' => Left(t, d + 1, c) /\ d + 1 # 1
        /\ \A c \in Call, d \in Nat, u \in Thread \ {t} : Left(u, d, c)' <=> Left(u, d, c)
    <2>1. PICK s, q : s = waiting[t] /\ q = Tail(s)
        OBVIOUS
    <2>2. /\ Len(s) \in Nat \ {0} /\ Head(s) = s[1]
          /\ \A i \in Nat : i \in 1 .. Len(q) => i + 1 \in 1 .. Len(s) /\ q[i] = s[i + 1]
        BY <2>1, Shifted
    <2>3. waiting'[t] = q /\ \A u \in Workloads \ {t} : waiting'[u] = waiting[u]
        BY <2>1
    <2> QED
        BY <2>1, <2>2, <2>3 DEF Left
  <1>4. \A c \in Call : Pending(c)' => Pending(c)
      BY <1>2, <1>3 DEF Pending
  <1>5. OnePlace'
      BY <1>2, <1>3 DEF CallInv, OnePlace, Holder
  <1> QED
      BY <1>1, <1>4, <1>5, SteadyKeeps

----------------------------------------------------------------------------
(* What the code of an owner has done, after a step.                       *)

\* An owner that makes no call.
LEMMA ProgressKeeps ==
  ASSUME StackOK, NEW t \in Thread, NEW d \in Nat, NEW x \in Thread \cup Call,
         Owner(t, d, x), Progress(t, d, x), Rest(t, d)' = Rest(t, d), returned \subseteq returned',
         \A c \in Call : Fresh(c) /\ (\E i \in 1 .. Len(Rest(t, d)) : c = Rest(t, d)[i]) => Fresh(c)',
         \A c \in Call : Wait(t, d + 1, c) => Wait(t, d + 1, c)' \/ c \in returned'
  PROVE  Progress(t, d, x)' /\ Made(t, d, x)' = Made(t, d, x)
  <1>1. Made(t, d, x)' = Made(t, d, x)
      BY DEF Made
  <1>2. Made(t, d, x) \in 0 .. Len(Code(x))
      BY DEF Progress
  <1>3. ASSUME NEW i \in 1 .. Len(Rest(t, d))
        PROVE  Rest(t, d)[i] = Code(x)[Made(t, d, x) + i] /\ Fresh(Rest(t, d)[i])'
    <2>1. PICK c \in Call : c = Rest(t, d)[i]
        BY ProgressType
    <2>2. Rest(t, d)[i] = Code(x)[Made(t, d, x) + i] /\ Fresh(Rest(t, d)[i])
        BY DEF Progress
    <2>3. Fresh(c)' /\ c = Rest(t, d)'[i]
        BY <2>1, <2>2
    <2> QED
        BY <2>2, <2>3
  <1>4. ASSUME NEW j \in 1 .. Made(t, d, x)
        PROVE  Code(x)[j] \in returned' \/ (j = Made(t, d, x) /\ Wait(t, d + 1, Code(x)[j])')
    <2>1. Code(x)[j] \in Call
        BY <1>2, CodeType
    <2>2. Code(x)[j] \in returned \/ (j = Made(t, d, x) /\ Wait(t, d + 1, Code(x)[j]))
        BY DEF Progress
    <2> QED
        BY <2>1, <2>2
  <1> QED
      BY <1>1, <1>2, <1>3, <1>4 DEF Progress

\* An action that begins.
LEMMA ProgressBegins ==
  ASSUME NEW t \in Thread, NEW d \in Nat, NEW x \in Call, Rest(t, d)' = Calls[x],
         \A j \in 1 .. Len(Calls[x]) : Fresh(Calls[x][j])'
  PROVE  Progress(t, d, x)'
  <1>1. Code(x) = Calls[x] /\ Len(Code(x)) \in Nat
      BY CodeType
  <1>2. Made(t, d, x)' = 0
      BY <1>1 DEF Made
  <1> QED
      BY <1>1, <1>2 DEF Progress

\* There is one owner of the code of a thread or a call ...
LEMMA OneOwner ==
  ASSUME StackOK, OnePlace, RunsOnce, NEW x \in Thread \cup Call,
         NEW t \in Thread, NEW d \in Nat, Owner(t, d, x), NEW u \in Thread, NEW e \in Nat, Owner(u, e, x)
  PROVE  t = u /\ d = e
  <1>1. ASSUME NEW v \in Thread, NEW i \in Nat, Owner(v, i, x), ~Imp(v, i, x)
        PROVE  i = 1 /\ x = v
    <2>1. i \in 1 .. Depth(v) /\ Frm(v, i).op = "program" /\ x = v
        BY <1>1 DEF Owner
    <2> QED
        BY <2>1 DEF StackOK, FrameOK
  <1>2. ASSUME NEW v \in Thread, NEW i \in Nat, Imp(v, i, x)
        PROVE  x \in Call /\ i - 1 \in Nat /\ Helper(v, i - 1, x)
    <2>1. x \in Call
        BY <1>2 DEF StackOK, FrameOK, Imp, CallOps
    <2> QED
        BY <1>2, <2>1 DEF RunsOnce
  <1>3. CASE x \in Call
    <2>1. x \notin Thread
        BY <1>3, DistinctAssumption
    <2>2. Imp(t, d, x) /\ Imp(u, e, x)
        BY <1>1, <2>1
    <2>3. t = u /\ d - 1 = e - 1
      <3>1. /\ d - 1 \in Nat /\ Helper(t, d - 1, x)
            /\ e - 1 \in Nat /\ Helper(u, e - 1, x)
          BY <1>2, <2>2
      <3>2. PICK i \in Nat, j \in Nat : i = d - 1 /\ j = e - 1
          BY <3>1
      <3> QED
          BY <1>3, <3>1, <3>2 DEF OnePlace, Holder
    <2> QED
        BY <2>3
  <1>4. CASE x \notin Call
    <2>1. ~Imp(t, d, x) /\ ~Imp(u, e, x)
        BY <1>2, <1>4
    <2> QED
        BY <1>1, <2>1
  <1> QED
      BY <1>3, <1>4

\* ... so there is one who waits for a call.
LEMMA OneWait ==
  ASSUME StackOK, OnePlace, RunsOnce, WaitOK, NEW c \in Call,
         NEW t \in Thread, NEW d \in Nat, Wait(t, d, c), NEW u \in Thread, NEW e \in Nat, Wait(u, e, c)
  PROVE  t = u /\ d = e
  <1>1. PICK i, j : i = d - 1 /\ j = e - 1
      OBVIOUS
  <1>2. PICK x \in Thread \cup Call : LastCall(t, i, x, c)
      BY <1>1 DEF WaitOK
  <1>3. PICK y \in Thread \cup Call : LastCall(u, j, y, c)
      BY <1>1 DEF WaitOK
  <1>4. /\ i \in Nat /\ Owner(t, i, x) /\ Made(t, i, x) \in DOMAIN Code(x) /\ Code(x)[Made(t, i, x)] = c
        /\ j \in Nat /\ Owner(u, j, y) /\ Made(u, j, y) \in DOMAIN Code(y) /\ Code(y)[Made(u, j, y)] = c
      BY <1>2, <1>3, CodeType DEF LastCall
  <1>5. x = y
      BY <1>4, OnceAssumption
  <1>6. t = u /\ i = j
      BY <1>4, <1>5, OneOwner
  <1> QED
      BY <1>1, <1>6

----------------------------------------------------------------------------
(* The steps of the call itself keep the invariant.                        *)

\* The helper is taken from the queue and executes its action: ProcessActions.
LEMMA BeginKeeps ==
  ASSUME StackOK, CallInv, NEW t \in Thread, NEW p \in Nat, NEW q \in Nat, q = p + 1, NEW c0 \in Call,
         NoRole(t, p), NoRole(t, q), Has(t, p, "helper", c0)', Has(t, q, "imp", c0)',
         Rest(t, q)' = Calls[c0], Elsewhere(t, {p, q}),
         actionQueue \in [Thread -> Seq(Call)], actionQueue[t] # <<>>, c0 = Head(actionQueue[t]),
         actionQueue' = [actionQueue EXCEPT ![t] = Tail(@)],
         UNCHANGED <<waiting, ran, opened, returned>>
  PROVE  CallInv' /\ Begins(c0)
  <1>1. ASSUME NEW c \in Call, NEW u \in Thread, NEW d \in Nat
        PROVE  /\ Transit(u, d, c)' <=> Transit(u, d, c)
               /\ Helper(u, d, c)' <=> Helper(u, d, c) \/ (u = t /\ d = p /\ c = c0)
               /\ Imp(u, d, c)' <=> Imp(u, d, c) \/ (u = t /\ d = q /\ c = c0)
               /\ Wait(u, d, c)' <=> Wait(u, d, c)
               /\ Left(u, d, c)' <=> Left(u, d, c)
      BY DEF Has, NoRole, Elsewhere, SameRoles, Left
  <1>2. ASSUME NEW x \in Thread \cup Call, NEW u \in Thread, NEW d \in Nat
        PROVE  /\ Owner(u, d, x)' <=> Owner(u, d, x) \/ (u = t /\ d = q /\ x = c0)
               /\ Owner(u, d, x) => Rest(u, d)' = Rest(u, d)
      BY DEF Has, NoRole, Elsewhere, SameRoles
  <1>3. /\ Queued(t, 1, c0)
        /\ \A c \in Call, d \in Nat : Queued(t, d, c)' => Queued(t, d + 1, c) /\ d + 1 # 1 /\ d + 1 \in Nat
        /\ \A c \in Call, d \in Nat, u \in Thread \ {t} : Queued(u, d, c)' <=> Queued(u, d, c)
    <2>1. PICK s, r : s = actionQueue[t] /\ r = Tail(s)
        OBVIOUS
    <2>2. /\ Len(s) \in Nat \ {0} /\ Head(s) = s[1]
          /\ \A i \in Nat : i \in 1 .. Len(r) => i + 1 \in 1 .. Len(s) /\ r[i] = s[i + 1]
        BY <2>1, Shifted
    <2>3. actionQueue'[t] = r /\ \A u \in Thread \ {t} : actionQueue'[u] = actionQueue[u]
        BY <2>1
    <2> QED
        BY <2>1, <2>2, <2>3 DEF Queued
  <1>4. ASSUME NEW c \in Call, NEW u \in Thread, NEW v \in Thread, NEW d \in Nat, NEW e \in Nat
        PROVE  /\ Holder(u, d, c) /\ Holder(v, e, c) => u = v /\ d = e
               /\ Queued(u, d, c) /\ Queued(v, e, c) => u = v /\ d = e
               /\ Left(u, d, c) /\ Left(v, e, c) => u = v /\ d = e
               /\ ~(Holder(u, d, c) /\ Queued(v, e, c))
               /\ ~(Holder(u, d, c) /\ Left(v, e, c))
               /\ ~(Queued(u, d, c) /\ Left(v, e, c))
      BY DEF CallInv, OnePlace
  <1>5. Pending(c0) /\ c0 \notin ran /\ ~Running(c0) /\ Waited(c0) /\ c0 \notin opened
      BY <1>3 DEF Pending, CallInv, RunsOnce, Awaited
  <1>6. ASSUME NEW c \in Call, NEW u \in Thread, NEW d \in Nat, Queued(u, d, c)'
        PROVE  c # c0 /\ \E e \in Nat : Queued(u, e, c)
    <2>1. CASE u = t
        BY <1>3, <1>4, <1>6, <2>1
    <2>2. CASE u # t
        BY <1>3, <1>4, <1>6, <2>2
    <2> QED
        BY <2>1, <2>2
  <1>7. ASSUME NEW c \in Call
        PROVE  /\ Pending(c)' => Pending(c) /\ c # c0
               /\ Running(c)' <=> Running(c) \/ c = c0
               /\ Waited(c)' <=> Waited(c)
               /\ Fresh(c) => Fresh(c)'
    <2>1. Pending(c)' => Pending(c) /\ c # c0
      <3>1. ASSUME NEW u \in Thread, NEW d \in Nat, Transit(u, d, c)' \/ Left(u, d, c)'
            PROVE  Pending(c) /\ c # c0
          BY <1>1, <1>3, <1>4, <3>1 DEF Pending, Holder
      <3>2. ASSUME NEW u \in Thread, NEW d \in Nat, Queued(u, d, c)'
            PROVE  Pending(c) /\ c # c0
          BY <1>6, <3>2 DEF Pending
      <3> QED
          BY <3>1, <3>2 DEF Pending
    <2>2. Running(c)' <=> Running(c) \/ c = c0
        BY <1>1 DEF Running
    <2>3. Waited(c)' <=> Waited(c)
        BY <1>1 DEF Waited
    <2> QED
        BY <1>5, <2>1, <2>2, <2>3 DEF Fresh
  <1>8. OnePlace'
    <2>1. ASSUME NEW c \in Call, NEW u \in Thread, NEW d \in Nat
          PROVE  Holder(u, d, c)' => (Holder(u, d, c) /\ c # c0) \/ (u = t /\ d = p /\ c = c0)
      <3>1. Holder(u, d, c)' => Holder(u, d, c) \/ (u = t /\ d = p /\ c = c0)
          BY <1>1 DEF Holder
      <3> QED
          BY <1>3, <1>4, <3>1
    <2>2. ASSUME NEW c \in Call, NEW u \in Thread, NEW v \in Thread, NEW d \in Nat, NEW e \in Nat
          PROVE  /\ Holder(u, d, c)' /\ Holder(v, e, c)' => u = v /\ d = e
                 /\ Left(u, d, c)' /\ Left(v, e, c)' => u = v /\ d = e
      <3>1. Holder(u, d, c) /\ Holder(v, e, c) => u = v /\ d = e
          BY <1>4
      <3>2. Left(u, d, c) /\ Left(v, e, c) => u = v /\ d = e
          BY <1>4
      <3>3. Holder(u, d, c)' /\ Holder(v, e, c)' => u = v /\ d = e
          BY <2>1, <3>1
      <3> QED
          BY <1>1, <3>2, <3>3
    <2>3. ASSUME NEW c \in Call, NEW u \in Thread, NEW v \in Thread, NEW d \in Nat, NEW e \in Nat,
                 Queued(u, d, c)', Queued(v, e, c)'
          PROVE  u = v /\ d = e
      <3>1. CASE u = t /\ v = t
        <4>1. PICK i \in Nat, j \in Nat : i = d + 1 /\ j = e + 1
            OBVIOUS
        <4>2. Queued(t, i, c) /\ Queued(t, j, c)
            BY <1>3, <2>3, <3>1, <4>1
        <4>3. i = j
            BY <1>4, <4>2
        <4> QED
            BY <3>1, <4>1, <4>3
      <3>2. CASE u # t /\ v # t
          BY <1>3, <1>4, <2>3, <3>2
      <3>3. CASE u = t /\ v # t
        <4>1. PICK i \in Nat : i = d + 1
            OBVIOUS
        <4>2. Queued(t, i, c) /\ Queued(v, e, c)
            BY <1>3, <2>3, <3>3, <4>1
        <4> QED
            BY <1>4, <3>3, <4>2
      <3>4. CASE u # t /\ v = t
        <4>1. PICK i \in Nat : i = e + 1
            OBVIOUS
        <4>2. Queued(t, i, c) /\ Queued(u, d, c)
            BY <1>3, <2>3, <3>4, <4>1
        <4> QED
            BY <1>4, <3>4, <4>2
      <3> QED
          BY <3>1, <3>2, <3>3, <3>4
    <2>4. ASSUME NEW c \in Call, NEW u \in Thread, NEW v \in Thread, NEW d \in Nat, NEW e \in Nat
          PROVE  /\ ~(Holder(u, d, c)' /\ Queued(v, e, c)')
                 /\ ~(Queued(u, d, c)' /\ Left(v, e, c)')
        BY <1>1, <1>4, <1>6, <2>1
    <2>5. ASSUME NEW c \in Call, NEW u \in Thread, NEW v \in Thread, NEW d \in Nat, NEW e \in Nat
          PROVE  ~(Holder(u, d, c)' /\ Left(v, e, c)')
        BY <1>1, <1>3, <1>4, <2>1
    <2> QED
        BY <2>2, <2>3, <2>4, <2>5 DEF OnePlace
  <1>9. RunsOnce'
    <2>1. \A c \in Call : Pending(c)' => c \notin ran' /\ ~Running(c)'
        BY <1>7 DEF CallInv, RunsOnce
    <2>2. ASSUME NEW u \in Thread, NEW d \in Nat, NEW c \in Call, Helper(u, d, c)'
          PROVE  c \notin opened' /\ (c \in ran' \/ Imp(u, d + 1, c)')
      <3>1. CASE Helper(u, d, c)
          BY <1>1, <3>1 DEF CallInv, RunsOnce
      <3>2. CASE u = t /\ d = p /\ c = c0
          BY <1>1, <1>5, <3>2
      <3> QED
          BY <1>1, <2>2, <3>1, <3>2
    <2>3. ASSUME NEW u \in Thread, NEW d \in Nat, NEW c \in Call, Imp(u, d, c)'
          PROVE  c \notin ran' /\ d - 1 \in Nat /\ Helper(u, d - 1, c)'
      <3>1. CASE Imp(u, d, c)
          BY <1>1, <3>1 DEF CallInv, RunsOnce
      <3>2. CASE u = t /\ d = q /\ c = c0
          BY <1>1, <1>5, <3>2, d - 1 = p
      <3> QED
          BY <1>1, <2>3, <3>1, <3>2
    <2> QED
        BY <2>1, <2>2, <2>3 DEF RunsOnce, CallInv
  <1>10. Awaited'
    <2>1. ASSUME NEW c \in Call, Pending(c)' \/ (\E u \in Thread, d \in Nat : Helper(u, d, c)')
          PROVE  Waited(c)'
        BY <1>1, <1>5, <1>7, <2>1 DEF CallInv, Awaited
    <2> QED
        BY <2>1 DEF Awaited
  <1>11. WaitOK'
    <2>1. ASSUME NEW u \in Thread, NEW d \in Nat, NEW c \in Call, Wait(u, d, c)'
          PROVE  c \notin returned' /\ \E x \in Thread \cup Call : LastCall(u, d - 1, x, c)'
      <3>1. PICK x \in Thread \cup Call : c \notin returned /\ LastCall(u, d - 1, x, c)
          BY <1>1, <2>1 DEF CallInv, WaitOK
      <3>2. PICK i : i = d - 1
          OBVIOUS
      <3>3. i \in Nat /\ Owner(u, i, x) /\ Owner(u, i, x)' /\ Made(u, i, x)' = Made(u, i, x)
          BY <1>2, <3>1, <3>2 DEF LastCall, Made
      <3> QED
          BY <3>1, <3>2, <3>3 DEF LastCall
    <2> QED
        BY <2>1 DEF WaitOK
  <1>12. OwnerOK'
    <2>1. ASSUME NEW u \in Thread, NEW d \in Nat, NEW x \in Thread \cup Call, Owner(u, d, x)
          PROVE  Progress(u, d, x)'
      <3>1. Progress(u, d, x)
          BY <2>1 DEF CallInv, OwnerOK
      <3>2. /\ Rest(u, d)' = Rest(u, d)
            /\ \A c \in Call : /\ Fresh(c) => Fresh(c)'
                               /\ Wait(u, d + 1, c) => Wait(u, d + 1, c)'
          BY <1>1, <1>2, <1>7, <2>1
      <3> QED
          BY <2>1, <3>1, <3>2, ProgressKeeps
    <2>2. Progress(t, q, c0)'
      <3>1. \A j \in 1 .. Len(Calls[c0]) : Fresh(Calls[c0][j]) /\ Calls[c0][j] \in Call
          BY <1>5, CodeType DEF CallInv, BegunOK
      <3> QED
          BY <1>7, <3>1, ProgressBegins
    <2> QED
        BY <1>2, <2>1, <2>2 DEF OwnerOK
  <1>13. BegunOK'
    <2>1. \A x \in Call : \A j \in 1 .. Len(Calls[x]) : Calls[x][j] \in Call
        BY CodeType
    <2> QED
        BY <1>7, <2>1 DEF CallInv, BegunOK
  <1>14. Begins(c0)
      BY <1>5, <1>7 DEF Begins
  <1> QED
      BY <1>14, <1>8, <1>9, <1>10, <1>11, <1>12, <1>13 DEF CallInv

\* The action has run: EndAction.
LEMMA EndKeeps ==
  ASSUME StackOK, CallInv, NEW t \in Thread, NEW n \in Nat, NEW c0 \in Call,
         Has(t, n, "imp", c0), Rest(t, n) = <<>>, NoRole(t, n + 1), NoRole(t, n)', Elsewhere(t, {n}),
         ran' = ran \cup {c0}, UNCHANGED <<actionQueue, waiting, opened, returned>>
  PROVE  CallInv' /\ Ends(c0)
  <1>1. ASSUME NEW c \in Call, NEW u \in Thread, NEW d \in Nat
        PROVE  /\ Transit(u, d, c)' <=> Transit(u, d, c)
               /\ Helper(u, d, c)' <=> Helper(u, d, c)
               /\ Imp(u, d, c)' <=> Imp(u, d, c) /\ (u # t \/ d # n)
               /\ Wait(u, d, c)' <=> Wait(u, d, c)
               /\ Queued(u, d, c)' <=> Queued(u, d, c)
               /\ Left(u, d, c)' <=> Left(u, d, c)
      BY DEF Has, NoRole, Elsewhere, SameRoles, Queued, Left
  <1>2. ASSUME NEW x \in Thread \cup Call, NEW u \in Thread, NEW d \in Nat
        PROVE  /\ Owner(u, d, x)' <=> Owner(u, d, x) /\ (u # t \/ d # n)
               /\ Owner(u, d, x)' => Rest(u, d)' = Rest(u, d)
      BY DEF Has, NoRole, Elsewhere, SameRoles
  <1>3. Imp(t, n, c0) /\ Owner(t, n, c0) /\ Running(c0) /\ c0 \notin ran /\ \A c \in Call : ~Wait(t, n + 1, c)
      BY DEF Has, Running, CallInv, RunsOnce, NoRole
  <1>4. ASSUME NEW u \in Thread, NEW d \in Nat, Imp(u, d, c0)
        PROVE  u = t /\ d = n
    <2>1. Owner(u, d, c0)
        BY <1>4 DEF Owner
    <2> QED
        BY <1>3, <2>1, OneOwner DEF CallInv
  <1>5. ASSUME NEW c \in Call
        PROVE  /\ Pending(c)' <=> Pending(c)
               /\ Pending(c) => c # c0
               /\ Running(c)' => Running(c) /\ c # c0
               /\ Running(c) => Running(c)' \/ c = c0
               /\ Waited(c)' <=> Waited(c)
               /\ Fresh(c) => Fresh(c)'
    <2>1. (Pending(c)' <=> Pending(c)) /\ (Waited(c)' <=> Waited(c))
        BY <1>1 DEF Pending, Waited
    <2>2. Pending(c) => c # c0
        BY <1>3 DEF CallInv, RunsOnce
    <2>3. (Running(c)' => Running(c) /\ c # c0)
        BY <1>1, <1>4 DEF Running
    <2>4. Running(c) => Running(c)' \/ c = c0
        BY <1>1 DEF Running, Has
    <2> QED
        BY <1>3, <2>1, <2>2, <2>3, <2>4 DEF Fresh
  <1>6. OnePlace'
      BY <1>1 DEF CallInv, OnePlace, Holder
  <1>7. RunsOnce'
    <2>1. \A c \in Call : Pending(c)' => c \notin ran' /\ ~Running(c)'
        BY <1>5 DEF CallInv, RunsOnce
    <2>2. ASSUME NEW u \in Thread, NEW d \in Nat, NEW c \in Call, Helper(u, d, c)'
          PROVE  c \notin opened' /\ (c \in ran' \/ Imp(u, d + 1, c)')
      <3>1. c \notin opened /\ (c \in ran \/ Imp(u, d + 1, c))
          BY <1>1, <2>2 DEF CallInv, RunsOnce
      <3>2. Imp(u, d + 1, c) => c = c0 \/ Imp(u, d + 1, c)'
          BY <1>1 DEF Has
      <3> QED
          BY <3>1, <3>2
    <2>3. ASSUME NEW u \in Thread, NEW d \in Nat, NEW c \in Call, Imp(u, d, c)'
          PROVE  c \notin ran' /\ d - 1 \in Nat /\ Helper(u, d - 1, c)'
        BY <1>1, <1>4, <2>3 DEF CallInv, RunsOnce
    <2>4. returned' \subseteq opened' /\ opened' \subseteq ran'
        BY DEF CallInv, RunsOnce
    <2> QED
        BY <2>1, <2>2, <2>3, <2>4 DEF RunsOnce
  <1>8. Awaited'
      BY <1>1, <1>5 DEF CallInv, Awaited
  <1>9. WaitOK'
    <2>1. ASSUME NEW u \in Thread, NEW d \in Nat, NEW c \in Call, Wait(u, d, c)'
          PROVE  c \notin returned' /\ \E x \in Thread \cup Call : LastCall(u, d - 1, x, c)'
      <3>1. PICK x \in Thread \cup Call : c \notin returned /\ LastCall(u, d - 1, x, c)
          BY <1>1, <2>1 DEF CallInv, WaitOK
      <3>2. PICK i : i = d - 1
          OBVIOUS
      <3>3. i \in Nat /\ d = i + 1 /\ Owner(u, i, x)
          BY <3>1, <3>2 DEF LastCall
      <3>4. u # t \/ i # n
          BY <1>1, <1>3, <2>1, <3>3
      <3>5. Owner(u, i, x)' /\ Made(u, i, x)' = Made(u, i, x)
          BY <1>2, <3>3, <3>4 DEF Made
      <3> QED
          BY <3>1, <3>2, <3>5 DEF LastCall
    <2> QED
        BY <2>1 DEF WaitOK
  <1>10. OwnerOK'
    <2>1. ASSUME NEW u \in Thread, NEW d \in Nat, NEW x \in Thread \cup Call, Owner(u, d, x)'
          PROVE  Progress(u, d, x)'
      <3>1. Owner(u, d, x) /\ Progress(u, d, x) /\ Rest(u, d)' = Rest(u, d)
          BY <1>2, <2>1 DEF CallInv, OwnerOK
      <3>2. \A c \in Call : /\ Fresh(c) => Fresh(c)'
                            /\ Wait(u, d + 1, c) => Wait(u, d + 1, c)'
          BY <1>1, <1>5
      <3>3. Progress(u, d, x)'
          BY <3>1, <3>2, ProgressKeeps
      <3> QED
          BY <3>3
    <2> QED
        BY <2>1 DEF OwnerOK
  <1>11. BegunOK' /\ \A j \in 1 .. Len(Calls[c0]) : Calls[c0][j] \in returned
    <2>1. \A j \in 1 .. Len(Calls[c0]) : Calls[c0][j] \in returned
      <3>1. Progress(t, n, c0)
          BY <1>3 DEF CallInv, OwnerOK
      <3>2. Code(c0) = Calls[c0] /\ Len(Calls[c0]) \in Nat /\ Made(t, n, c0) = Len(Calls[c0])
          BY CodeType DEF Made
      <3>3. \A j \in 1 .. Len(Calls[c0]) : Calls[c0][j] \in Call
          BY CodeType
      <3> QED
          BY <1>3, <3>1, <3>2, <3>3 DEF Progress
    <2>2. ASSUME NEW x \in Call, NEW j \in 1 .. Len(Calls[x])
          PROVE  /\ x \in ran' => Calls[x][j] \in returned'
                 /\ x \notin ran' /\ ~Running(x)' => Fresh(Calls[x][j])'
      <3>1. Calls[x][j] \in Call
          BY CodeType
      <3> QED
          BY <1>5, <2>1, <3>1 DEF CallInv, BegunOK
    <2> QED
        BY <2>1, <2>2 DEF BegunOK
  <1>12. Ends(c0)
    <2>1. Waited(c0)
      <3>1. n - 1 \in Nat /\ Helper(t, n - 1, c0)
          BY <1>3 DEF CallInv, RunsOnce
      <3> QED
          BY <3>1 DEF CallInv, Awaited
    <2>2. \A b \in Call : (Running(b)' <=> Running(b) /\ b # c0) /\ (Waited(b)' <=> Waited(b))
        BY <1>5
    <2> QED
        BY <1>3, <1>11, <2>1, <2>2 DEF Ends
  <1> QED
      BY <1>12, <1>6, <1>7, <1>8, <1>9, <1>10, <1>11 DEF CallInv

\* The helper has opened its barrier: OpenBarrier.
LEMMA OpenKeeps ==
  ASSUME StackOK, CallInv, NEW t \in Thread, NEW n \in Nat, NEW c0 \in Call,
         Has(t, n, "helper", c0), NoRole(t, n + 1), NoRole(t, n)', Elsewhere(t, {n}),
         opened' = opened \cup {c0}, UNCHANGED <<actionQueue, waiting, ran, returned>>
  PROVE  CallInv' /\ SamePhases
  <1>1. ASSUME NEW c \in Call, NEW u \in Thread, NEW d \in Nat
        PROVE  /\ Transit(u, d, c)' <=> Transit(u, d, c)
               /\ Helper(u, d, c)' <=> Helper(u, d, c) /\ (u # t \/ d # n)
               /\ Imp(u, d, c)' <=> Imp(u, d, c)
               /\ Wait(u, d, c)' <=> Wait(u, d, c)
               /\ Queued(u, d, c)' <=> Queued(u, d, c)
               /\ Left(u, d, c)' <=> Left(u, d, c)
      BY DEF Has, NoRole, Elsewhere, SameRoles, Queued, Left
  <1>2. ASSUME NEW x \in Thread \cup Call, NEW u \in Thread, NEW d \in Nat
        PROVE  /\ Owner(u, d, x)' <=> Owner(u, d, x)
               /\ Owner(u, d, x)' => Rest(u, d)' = Rest(u, d)
      BY DEF Has, NoRole, Elsewhere, SameRoles
  <1>3. Helper(t, n, c0) /\ c0 \in ran
      BY DEF Has, CallInv, RunsOnce, NoRole
  <1>4. ASSUME NEW u \in Thread, NEW d \in Nat, Helper(u, d, c0)
        PROVE  u = t /\ d = n
      BY <1>3, <1>4 DEF CallInv, OnePlace, Holder
  <1>5. ASSUME NEW c \in Call
        PROVE  /\ Pending(c)' <=> Pending(c)
               /\ Running(c)' <=> Running(c)
               /\ Waited(c)' <=> Waited(c)
               /\ Fresh(c) => Fresh(c)'
      BY <1>1 DEF Pending, Running, Waited, Fresh
  <1>6. OnePlace'
    <2>1. ASSUME NEW c \in Call, NEW u \in Thread, NEW d \in Nat
          PROVE  Holder(u, d, c)' => Holder(u, d, c)
        BY <1>1 DEF Holder
    <2> QED
        BY <1>1, <2>1 DEF CallInv, OnePlace
  <1>7. RunsOnce'
    <2>1. \A c \in Call : Pending(c)' => c \notin ran' /\ ~Running(c)'
        BY <1>5 DEF CallInv, RunsOnce
    <2>2. ASSUME NEW u \in Thread, NEW d \in Nat, NEW c \in Call, Helper(u, d, c)'
          PROVE  c \notin opened' /\ (c \in ran' \/ Imp(u, d + 1, c)')
        BY <1>1, <1>4, <2>2 DEF CallInv, RunsOnce
    <2>3. ASSUME NEW u \in Thread, NEW d \in Nat, NEW c \in Call, Imp(u, d, c)'
          PROVE  c \notin ran' /\ d - 1 \in Nat /\ Helper(u, d - 1, c)'
      <3>1. c \notin ran /\ d - 1 \in Nat /\ Helper(u, d - 1, c)
          BY <1>1, <2>3 DEF CallInv, RunsOnce
      <3>2. c # c0
          BY <1>3, <3>1
      <3> QED
          BY <1>1, <3>1, <3>2 DEF Has
    <2>4. returned' \subseteq opened' /\ opened' \subseteq ran'
        BY <1>3 DEF CallInv, RunsOnce
    <2> QED
        BY <2>1, <2>2, <2>3, <2>4 DEF RunsOnce
  <1>8. Awaited'
      BY <1>1, <1>5 DEF CallInv, Awaited
  <1>9. WaitOK'
    <2>1. \A x \in Thread \cup Call, u \in Thread, d \in Nat :
            Owner(u, d, x) => Owner(u, d, x)' /\ Made(u, d, x)' = Made(u, d, x)
        BY <1>2 DEF Made
    <2>2. ASSUME NEW u \in Thread, NEW d \in Nat, NEW c \in Call, Wait(u, d, c)'
          PROVE  c \notin returned' /\ \E x \in Thread \cup Call : LastCall(u, d - 1, x, c)'
        BY <1>1, <2>1, <2>2 DEF CallInv, WaitOK, LastCall
    <2> QED
        BY <2>2 DEF WaitOK
  <1>10. OwnerOK'
    <2>1. ASSUME NEW u \in Thread, NEW d \in Nat, NEW x \in Thread \cup Call, Owner(u, d, x)'
          PROVE  Progress(u, d, x)'
      <3>1. Owner(u, d, x) /\ Progress(u, d, x) /\ Rest(u, d)' = Rest(u, d)
          BY <1>2, <2>1 DEF CallInv, OwnerOK
      <3>2. \A c \in Call : /\ Fresh(c) => Fresh(c)'
                            /\ Wait(u, d + 1, c) => Wait(u, d + 1, c)'
          BY <1>1, <1>5
      <3>3. Progress(u, d, x)'
          BY <3>1, <3>2, ProgressKeeps
      <3> QED
          BY <3>3
    <2> QED
        BY <2>1 DEF OwnerOK
  <1>11. BegunOK'
    <2>1. \A x \in Call : \A j \in 1 .. Len(Calls[x]) : Calls[x][j] \in Call
        BY CodeType
    <2> QED
        BY <1>5, <2>1 DEF CallInv, BegunOK
  <1> QED
      BY <1>5, <1>6, <1>7, <1>8, <1>9, <1>10, <1>11 DEF CallInv, SamePhases

\* The caller goes on: PassBarrier.
LEMMA PassKeeps ==
  ASSUME StackOK, CallInv, NEW t \in Thread, NEW n \in Nat, NEW c0 \in Call,
         Has(t, n, "wait", c0), c0 \in opened, NoRole(t, n)', Elsewhere(t, {n}),
         returned' = returned \cup {c0}, UNCHANGED <<actionQueue, waiting, ran, opened>>
  PROVE  CallInv' /\ Returns(c0)
  <1>1. ASSUME NEW c \in Call, NEW u \in Thread, NEW d \in Nat
        PROVE  /\ Transit(u, d, c)' <=> Transit(u, d, c)
               /\ Helper(u, d, c)' <=> Helper(u, d, c)
               /\ Imp(u, d, c)' <=> Imp(u, d, c)
               /\ Wait(u, d, c)' <=> Wait(u, d, c) /\ (u # t \/ d # n)
               /\ Queued(u, d, c)' <=> Queued(u, d, c)
               /\ Left(u, d, c)' <=> Left(u, d, c)
      BY DEF Has, NoRole, Elsewhere, SameRoles, Queued, Left
  <1>2. ASSUME NEW x \in Thread \cup Call, NEW u \in Thread, NEW d \in Nat
        PROVE  /\ Owner(u, d, x)' <=> Owner(u, d, x)
               /\ Owner(u, d, x)' => Rest(u, d)' = Rest(u, d)
      BY DEF Has, NoRole, Elsewhere, SameRoles
  <1>3. /\ Wait(t, n, c0) /\ c0 \in ran /\ ~Pending(c0)
        /\ \A u \in Thread, d \in Nat : ~Helper(u, d, c0)
      BY DEF Has, CallInv, RunsOnce
  <1>4. ASSUME NEW u \in Thread, NEW d \in Nat, Wait(u, d, c0)
        PROVE  u = t /\ d = n
      BY <1>3, <1>4, OneWait DEF CallInv
  <1>5. ASSUME NEW c \in Call
        PROVE  /\ Pending(c)' <=> Pending(c)
               /\ Running(c)' <=> Running(c)
               /\ Waited(c) => Waited(c)' \/ c = c0
               /\ Fresh(c) => Fresh(c)'
    <2>1. (Pending(c)' <=> Pending(c)) /\ (Running(c)' <=> Running(c))
        BY <1>1 DEF Pending, Running
    <2>2. (Waited(c) => Waited(c)' \/ c = c0) /\ (Waited(c)' => Waited(c))
        BY <1>1 DEF Waited, Has
    <2> QED
        BY <2>1, <2>2 DEF Fresh
  <1>6. OnePlace'
      BY <1>1 DEF CallInv, OnePlace, Holder
  <1>7. RunsOnce'
      BY <1>1, <1>5 DEF CallInv, RunsOnce
  <1>8. Awaited'
      BY <1>1, <1>3, <1>5 DEF CallInv, Awaited
  <1>9. WaitOK'
    <2>1. \A x \in Thread \cup Call, u \in Thread, d \in Nat :
            Owner(u, d, x) => Owner(u, d, x)' /\ Made(u, d, x)' = Made(u, d, x)
        BY <1>2 DEF Made
    <2>2. ASSUME NEW u \in Thread, NEW d \in Nat, NEW c \in Call, Wait(u, d, c)'
          PROVE  c \notin returned' /\ \E x \in Thread \cup Call : LastCall(u, d - 1, x, c)'
      <3>1. Wait(u, d, c) /\ c # c0
          BY <1>1, <1>4, <2>2
      <3> QED
          BY <2>1, <3>1 DEF CallInv, WaitOK, LastCall
    <2> QED
        BY <2>2 DEF WaitOK
  <1>10. OwnerOK'
    <2>1. ASSUME NEW u \in Thread, NEW d \in Nat, NEW x \in Thread \cup Call, Owner(u, d, x)'
          PROVE  Progress(u, d, x)'
      <3>1. Owner(u, d, x) /\ Progress(u, d, x) /\ Rest(u, d)' = Rest(u, d)
          BY <1>2, <2>1 DEF CallInv, OwnerOK
      <3>2. \A c \in Call : /\ Fresh(c) => Fresh(c)'
                            /\ Wait(u, d + 1, c) => Wait(u, d + 1, c)' \/ c \in returned'
          BY <1>1, <1>5 DEF Has
      <3>3. Progress(u, d, x)'
          BY <3>1, <3>2, ProgressKeeps
      <3> QED
          BY <3>3
    <2> QED
        BY <2>1 DEF OwnerOK
  <1>11. BegunOK'
    <2>1. \A x \in Call : \A j \in 1 .. Len(Calls[x]) : Calls[x][j] \in Call
        BY CodeType
    <2> QED
        BY <1>5, <2>1 DEF CallInv, BegunOK
  <1>12. Returns(c0)
    <2>1. Waited(c0) /\ ~Waited(c0)' /\ c0 \notin returned
        BY <1>1, <1>3, <1>4 DEF Waited, CallInv, WaitOK
    <2>2. \A b \in Call : (Running(b)' <=> Running(b)) /\ (Waited(b)' <=> Waited(b) /\ b # c0)
      <3>1. \A b \in Call : Waited(b)' => Waited(b)
          BY <1>1 DEF Waited
      <3> QED
          BY <1>5, <2>1, <3>1
    <2> QED
        BY <1>3, <2>1, <2>2 DEF Returns
  <1> QED
      BY <1>12, <1>6, <1>7, <1>8, <1>9, <1>10, <1>11 DEF CallInv

\* The program of a thread returns: ThreadReturns.
LEMMA ReturnKeeps ==
  ASSUME StackOK, CallInv, NEW t \in Thread, NEW n \in Nat, NoRole(t, n + 1), NoRole(t, n)', Elsewhere(t, {n}),
         \A c \in Call : ~Transit(t, n, c) /\ ~Helper(t, n, c) /\ ~Imp(t, n, c) /\ ~Wait(t, n, c),
         UNCHANGED <<actionQueue, waiting, ran, opened, returned>>
  PROVE  CallInv' /\ SamePhases
  <1>1. ASSUME NEW c \in Call, NEW u \in Thread, NEW d \in Nat
        PROVE  /\ Transit(u, d, c)' <=> Transit(u, d, c)
               /\ Helper(u, d, c)' <=> Helper(u, d, c)
               /\ Imp(u, d, c)' <=> Imp(u, d, c)
               /\ Wait(u, d, c)' <=> Wait(u, d, c)
               /\ Queued(u, d, c)' <=> Queued(u, d, c)
               /\ Left(u, d, c)' <=> Left(u, d, c)
      BY DEF NoRole, Elsewhere, SameRoles, Queued, Left
  <1>2. ASSUME NEW x \in Thread \cup Call, NEW u \in Thread, NEW d \in Nat
        PROVE  /\ Owner(u, d, x)' <=> Owner(u, d, x) /\ (u # t \/ d # n)
               /\ Owner(u, d, x)' => Rest(u, d)' = Rest(u, d)
      BY DEF NoRole, Elsewhere, SameRoles
  <1>3. \A c \in Call : ~Wait(t, n + 1, c)
      BY DEF NoRole
  <1>4. ASSUME NEW c \in Call
        PROVE  /\ Pending(c)' <=> Pending(c)
               /\ Running(c)' <=> Running(c)
               /\ Waited(c)' <=> Waited(c)
               /\ Fresh(c) => Fresh(c)'
      BY <1>1 DEF Pending, Running, Waited, Fresh
  <1>5. OnePlace'
      BY <1>1 DEF CallInv, OnePlace, Holder
  <1>6. RunsOnce'
      BY <1>1, <1>4 DEF CallInv, RunsOnce
  <1>7. Awaited'
      BY <1>1, <1>4 DEF CallInv, Awaited
  <1>8. WaitOK'
    <2>1. ASSUME NEW u \in Thread, NEW d \in Nat, NEW c \in Call, Wait(u, d, c)'
          PROVE  c \notin returned' /\ \E x \in Thread \cup Call : LastCall(u, d - 1, x, c)'
      <3>1. PICK x \in Thread \cup Call : c \notin returned /\ LastCall(u, d - 1, x, c)
          BY <1>1, <2>1 DEF CallInv, WaitOK
      <3>2. PICK i : i = d - 1
          OBVIOUS
      <3>3. i \in Nat /\ d = i + 1 /\ Owner(u, i, x)
          BY <3>1, <3>2 DEF LastCall
      <3>4. u # t \/ i # n
          BY <1>1, <1>3, <2>1, <3>3
      <3>5. Owner(u, i, x)' /\ Made(u, i, x)' = Made(u, i, x)
          BY <1>2, <3>3, <3>4 DEF Made
      <3> QED
          BY <3>1, <3>2, <3>5 DEF LastCall
    <2> QED
        BY <2>1 DEF WaitOK
  <1>9. OwnerOK'
    <2>1. ASSUME NEW u \in Thread, NEW d \in Nat, NEW x \in Thread \cup Call, Owner(u, d, x)'
          PROVE  Progress(u, d, x)'
      <3>1. Owner(u, d, x) /\ Progress(u, d, x) /\ Rest(u, d)' = Rest(u, d)
          BY <1>2, <2>1 DEF CallInv, OwnerOK
      <3>2. \A c \in Call : /\ Fresh(c) => Fresh(c)'
                            /\ Wait(u, d + 1, c) => Wait(u, d + 1, c)'
          BY <1>1, <1>4
      <3>3. Progress(u, d, x)'
          BY <3>1, <3>2, ProgressKeeps
      <3> QED
          BY <3>3
    <2> QED
        BY <2>1 DEF OwnerOK
  <1>10. BegunOK'
    <2>1. \A x \in Call : \A j \in 1 .. Len(Calls[x]) : Calls[x][j] \in Call
        BY CodeType
    <2> QED
        BY <1>4, <2>1 DEF CallInv, BegunOK
  <1> QED
      BY <1>4, <1>5, <1>6, <1>7, <1>8, <1>9, <1>10 DEF CallInv, SamePhases

\* The code of x makes its next call: Execute.
LEMMA CallKeeps ==
  ASSUME StackOK, CallInv, NEW t \in Thread, NEW n \in Nat, NEW x \in Thread \cup Call, NEW c0 \in Call,
         NEW i1, i1 = n + 1, NEW i2, i2 = n + 2, NEW i3, i3 = n + 3, Calling(t, n, x, c0),
         UNCHANGED <<actionQueue, waiting, ran, opened, returned>>
  PROVE  CallInv' /\ Invokes(x, c0)
  <1> DEFINE Direct == Has(t, i2, "helper", c0)'
  <1>1. /\ i1 \in Nat /\ i2 \in Nat /\ i3 \in Nat /\ i2 + 1 = i3 /\ i3 - 1 = i2 /\ i1 - 1 = n
        /\ i1 # n /\ i2 # n /\ i3 # n /\ i1 # i2 /\ i1 # i3 /\ i2 # i3
      OBVIOUS
  <1>2. /\ NoRole(t, i1) /\ NoRole(t, i2) /\ NoRole(t, i3) /\ Has(t, i1, "wait", c0)'
        /\ \/ Has(t, i2, "transit", c0)' /\ NoRole(t, i3)' /\ ~Direct
           \/ Direct /\ Has(t, i3, "imp", c0)' /\ Rest(t, i3)' = Calls[c0]
        /\ \A u \in Thread, d \in Nat : u # t \/ d \notin {n, i1, i2, i3} => SameRoles(u, d)
    <2>1. Has(t, i2, "transit", c0)' => ~Direct
        BY DEF Has
    <2> QED
        BY <2>1 DEF Calling, Elsewhere
  <1>3. /\ Owner(t, n, x) /\ Owner(t, n, x)' /\ Rest(t, n)' = Tail(Rest(t, n)) /\ c0 = Head(Rest(t, n))
        /\ Rest(t, n) \in Seq(Call) /\ Rest(t, n) # <<>>
        /\ \A y \in Thread \cup Call : (Owner(t, n, y) <=> y = x) /\ (Owner(t, n, y)' <=> y = x)
        /\ \A b \in Call : /\ Imp(t, n, b)' <=> Imp(t, n, b)
                           /\ ~Transit(t, n, b) /\ ~Helper(t, n, b) /\ ~Wait(t, n, b)
                           /\ ~Transit(t, n, b)' /\ ~Helper(t, n, b)' /\ ~Wait(t, n, b)'
      BY DEF Calling
  <1> HIDE DEF Direct
  <1>4. ASSUME NEW c \in Call, NEW u \in Thread, NEW d \in Nat
        PROVE  /\ Transit(u, d, c)' <=> Transit(u, d, c) \/ (~Direct /\ u = t /\ d = i2 /\ c = c0)
               /\ Helper(u, d, c)' <=> Helper(u, d, c) \/ (Direct /\ u = t /\ d = i2 /\ c = c0)
               /\ Imp(u, d, c)' <=> Imp(u, d, c) \/ (Direct /\ u = t /\ d = i3 /\ c = c0)
               /\ Wait(u, d, c)' <=> Wait(u, d, c) \/ (u = t /\ d = i1 /\ c = c0)
    <2>1. CASE u = t /\ d = n
        BY <1>1, <1>3, <2>1
    <2>2. CASE u = t /\ d = i1
        BY <1>1, <1>2, <2>2 DEF Has, NoRole
    <2>3. CASE u = t /\ d = i2
        BY <1>1, <1>2, <2>3 DEF Has, NoRole, Direct
    <2>4. CASE u = t /\ d = i3
        BY <1>1, <1>2, <2>4 DEF Has, NoRole
    <2>5. CASE u # t \/ d \notin {n, i1, i2, i3}
        BY <1>1, <1>2, <2>5 DEF SameRoles
    <2> QED
        BY <2>1, <2>2, <2>3, <2>4, <2>5
  <1>5. ASSUME NEW c \in Call, NEW u \in Thread, NEW d \in Nat
        PROVE  /\ Queued(u, d, c)' <=> Queued(u, d, c)
               /\ Left(u, d, c)' <=> Left(u, d, c)
      BY DEF Queued, Left
  <1>6. ASSUME NEW y \in Thread \cup Call, NEW u \in Thread, NEW d \in Nat
        PROVE  /\ Owner(u, d, y)' <=> Owner(u, d, y) \/ (Direct /\ u = t /\ d = i3 /\ y = c0)
               /\ Owner(u, d, y) /\ (u # t \/ d # n) => Rest(u, d)' = Rest(u, d)
    <2>1. CASE u = t /\ d = n
        BY <1>1, <1>3, <2>1
    <2>2. CASE u = t /\ d = i1
        BY <1>1, <1>2, <2>2 DEF Has, NoRole
    <2>3. CASE u = t /\ d = i2
        BY <1>1, <1>2, <2>3 DEF Has, NoRole, Direct
    <2>4. CASE u = t /\ d = i3
        BY <1>1, <1>2, <2>4 DEF Has, NoRole
    <2>5. CASE u # t \/ d \notin {n, i1, i2, i3}
        BY <1>1, <1>2, <2>5 DEF SameRoles
    <2> QED
        BY <2>1, <2>2, <2>3, <2>4, <2>5
  <1>7. PICK m, rest : m = Made(t, n, x) /\ rest = Rest(t, n)
      OBVIOUS
  <1>8. /\ m \in Nat /\ rest \in Seq(Call) /\ Len(rest) \in Nat \ {0} /\ m + Len(rest) = Len(Code(x))
        /\ \A i \in 1 .. Len(rest) : m + i \in 1 .. Len(Code(x)) /\ rest[i] = Code(x)[m + i]
                                     /\ rest[i] \in Call /\ Fresh(rest[i])
        /\ Progress(t, n, x) /\ rest # <<>> /\ c0 = rest[1]
    <2>1. Progress(t, n, x)
        BY <1>3 DEF CallInv, OwnerOK
    <2>2. rest # <<>> /\ Len(rest) \in Nat \ {0} /\ c0 = rest[1]
        BY <1>3, <1>7, EmptySeq
    <2>3. \A i \in 1 .. Len(rest) : Fresh(rest[i])
        BY <1>7, <2>1 DEF Progress
    <2>4. \A i \in 1 .. Len(rest) : m + i \in 1 .. Len(Code(x)) /\ rest[i] = Code(x)[m + i] /\ rest[i] \in Call
        BY <1>3, <1>7, <2>1, ProgressType
    <2>5. m \in Nat /\ rest \in Seq(Call) /\ m + Len(rest) = Len(Code(x))
        BY <1>3, <1>7, <2>1, ProgressType
    <2> QED
        BY <2>1, <2>2, <2>3, <2>4, <2>5
  <1>9. /\ m + 1 \in 1 .. Len(Code(x)) /\ Code(x)[m + 1] = c0 /\ Fresh(c0)
        /\ ~Pending(c0) /\ ~Running(c0) /\ ~Waited(c0) /\ c0 \notin ran
        /\ c0 \notin opened /\ c0 \notin returned
    <2>1. 1 \in 1 .. Len(rest)
        BY <1>8
    <2>2. m + 1 \in 1 .. Len(Code(x)) /\ Code(x)[m + 1] = c0 /\ Fresh(c0)
        BY <1>8, <2>1
    <2> QED
        BY <2>2 DEF Fresh, CallInv, RunsOnce
  <1>10. \A u \in Thread, d \in Nat :
           /\ ~Holder(u, d, c0) /\ ~Queued(u, d, c0) /\ ~Left(u, d, c0)
           /\ ~Helper(u, d, c0) /\ ~Imp(u, d, c0)
    <2>1. ASSUME NEW u \in Thread, NEW d \in Nat, Helper(u, d, c0)
          PROVE  FALSE
      <3>1. c0 \in ran \/ Imp(u, d + 1, c0)
          BY <2>1 DEF CallInv, RunsOnce
      <3> QED
          BY <1>9, <3>1 DEF Running
    <2> QED
        BY <1>9, <2>1 DEF Holder, Pending, Running
  <1>11. ASSUME NEW c \in Call
         PROVE  /\ Pending(c)' => Pending(c) \/ (c = c0 /\ ~Direct)
                /\ Running(c) => Running(c)'
                /\ Running(c)' => Running(c) \/ (c = c0 /\ Direct)
                /\ Waited(c)' <=> Waited(c) \/ c = c0
                /\ Fresh(c) /\ c # c0 => Fresh(c)'
    <2>1. Pending(c)' => Pending(c) \/ (c = c0 /\ ~Direct)
        BY <1>4, <1>5 DEF Pending
    <2>2. (Running(c) => Running(c)') /\ (Running(c)' => Running(c) \/ (c = c0 /\ Direct))
        BY <1>4 DEF Running
    <2>3. Waited(c)' <=> Waited(c) \/ c = c0
        BY <1>1, <1>4 DEF Waited
    <2> QED
        BY <2>1, <2>2, <2>3 DEF Fresh
  <1>12. OnePlace'
    <2>1. ASSUME NEW c \in Call, NEW u \in Thread, NEW d \in Nat
          PROVE  Holder(u, d, c)' => (Holder(u, d, c) /\ c # c0) \/ (u = t /\ d = i2 /\ c = c0)
        BY <1>4, <1>10 DEF Holder
    <2>2. ASSUME NEW c \in Call, NEW u \in Thread, NEW v \in Thread, NEW d \in Nat, NEW e \in Nat
          PROVE  /\ Holder(u, d, c) /\ Holder(v, e, c) => u = v /\ d = e
                 /\ Queued(u, d, c) /\ Queued(v, e, c) => u = v /\ d = e
                 /\ Left(u, d, c) /\ Left(v, e, c) => u = v /\ d = e
                 /\ ~(Holder(u, d, c) /\ Queued(v, e, c))
                 /\ ~(Holder(u, d, c) /\ Left(v, e, c))
                 /\ ~(Queued(u, d, c) /\ Left(v, e, c))
        BY DEF CallInv, OnePlace
    <2>3. ASSUME NEW c \in Call, NEW u \in Thread, NEW v \in Thread, NEW d \in Nat, NEW e \in Nat
          PROVE  /\ Holder(u, d, c)' /\ Holder(v, e, c)' => u = v /\ d = e
                 /\ Queued(u, d, c)' /\ Queued(v, e, c)' => u = v /\ d = e
                 /\ Left(u, d, c)' /\ Left(v, e, c)' => u = v /\ d = e
      <3>1. Holder(u, d, c)' /\ Holder(v, e, c)' => u = v /\ d = e
          BY <2>1, <2>2
      <3> QED
          BY <1>5, <2>2, <3>1
    <2>4. ASSUME NEW c \in Call, NEW u \in Thread, NEW v \in Thread, NEW d \in Nat, NEW e \in Nat
          PROVE  /\ ~(Holder(u, d, c)' /\ Queued(v, e, c)')
                 /\ ~(Holder(u, d, c)' /\ Left(v, e, c)')
                 /\ ~(Queued(u, d, c)' /\ Left(v, e, c)')
        BY <1>5, <1>10, <2>1, <2>2
    <2> QED
        BY <2>3, <2>4 DEF OnePlace
  <1>13. RunsOnce'
    <2>1. ASSUME NEW c \in Call, Pending(c)'
          PROVE  c \notin ran' /\ ~Running(c)'
      <3>1. CASE Pending(c)
        <4>1. c # c0
            BY <1>9, <3>1
        <4> QED
            BY <1>11, <3>1, <4>1 DEF CallInv, RunsOnce
      <3>2. CASE c = c0 /\ ~Direct
          BY <1>9, <1>11, <3>2
      <3> QED
          BY <1>11, <2>1, <3>1, <3>2
    <2>2. ASSUME NEW u \in Thread, NEW d \in Nat, NEW c \in Call, Helper(u, d, c)'
          PROVE  c \notin opened' /\ (c \in ran' \/ Imp(u, d + 1, c)')
      <3>1. CASE Helper(u, d, c)
          BY <1>4, <3>1 DEF CallInv, RunsOnce
      <3>2. CASE Direct /\ u = t /\ d = i2 /\ c = c0
          BY <1>1, <1>4, <1>9, <3>2
      <3> QED
          BY <1>4, <2>2, <3>1, <3>2
    <2>3. ASSUME NEW u \in Thread, NEW d \in Nat, NEW c \in Call, Imp(u, d, c)'
          PROVE  c \notin ran' /\ d - 1 \in Nat /\ Helper(u, d - 1, c)'
      <3>1. CASE Imp(u, d, c)
          BY <1>4, <3>1 DEF CallInv, RunsOnce
      <3>2. CASE Direct /\ u = t /\ d = i3 /\ c = c0
          BY <1>1, <1>4, <1>9, <3>2
      <3> QED
          BY <1>4, <2>3, <3>1, <3>2
    <2>4. returned' \subseteq opened' /\ opened' \subseteq ran'
        BY DEF CallInv, RunsOnce
    <2> QED
        BY <2>1, <2>2, <2>3, <2>4 DEF RunsOnce
  <1>14. Awaited'
    <2>1. ASSUME NEW c \in Call, Pending(c)' \/ (\E u \in Thread, d \in Nat : Helper(u, d, c)')
          PROVE  Waited(c)'
      <3>1. Pending(c) \/ (\E u \in Thread, d \in Nat : Helper(u, d, c)) \/ c = c0
          BY <1>4, <1>11, <2>1
      <3> QED
          BY <1>11, <3>1 DEF CallInv, Awaited
    <2> QED
        BY <2>1 DEF Awaited
  <1>15. PICK left : left = Tail(rest)
      OBVIOUS
  <1>16. /\ Len(left) = Len(rest) - 1 /\ Len(left) \in Nat
         /\ \A i \in 1 .. Len(left) : i + 1 \in 1 .. Len(rest) /\ left[i] = rest[i + 1]
    <2>1. /\ Len(left) = Len(rest) - 1
          /\ \A i \in Nat : i \in 1 .. Len(left) => i + 1 \in 1 .. Len(rest) /\ left[i] = rest[i + 1]
        BY <1>8, <1>15, Shifted
    <2> QED
        BY <1>8, <2>1
  <1>17. Rest(t, n)' = left /\ Made(t, n, x)' = m + 1
    <2>1. Rest(t, n)' = left
        BY <1>3, <1>7, <1>15
    <2>2. Made(t, n, x)' = Len(Code(x)) - Len(left)
        BY <2>1 DEF Made
    <2>3. PICK a, b : a = Len(Code(x)) /\ b = Len(rest)
        OBVIOUS
    <2>4. a = m + b /\ Len(left) = b - 1 /\ b \in Nat /\ m \in Nat
        BY <1>8, <1>16, <2>3
    <2>5. Made(t, n, x)' = a - (b - 1)
        BY <2>2, <2>3, <2>4
    <2> QED
        BY <2>1, <2>4, <2>5
  <1>18. LastCall(t, n, x, c0)'
      BY <1>3, <1>9, <1>17 DEF LastCall
  <1>19. WaitOK'
    <2>1. ASSUME NEW u \in Thread, NEW d \in Nat, NEW c \in Call, Wait(u, d, c)'
          PROVE  c \notin returned' /\ \E y \in Thread \cup Call : LastCall(u, d - 1, y, c)'
      <3>1. CASE Wait(u, d, c)
        <4>1. PICK y \in Thread \cup Call : c \notin returned /\ LastCall(u, d - 1, y, c)
            BY <3>1 DEF CallInv, WaitOK
        <4>2. PICK i : i = d - 1
            OBVIOUS
        <4>3. i \in Nat /\ d = i + 1 /\ Owner(u, i, y)
            BY <4>1, <4>2 DEF LastCall
        <4>4. u # t \/ i # n
            BY <1>2, <3>1, <4>3 DEF NoRole
        <4>5. Owner(u, i, y)' /\ Made(u, i, y)' = Made(u, i, y)
            BY <1>6, <4>3, <4>4 DEF Made
        <4> QED
            BY <4>1, <4>2, <4>5 DEF LastCall
      <3>2. CASE u = t /\ d = i1 /\ c = c0
          BY <1>1, <1>9, <1>18, <3>2
      <3> QED
          BY <1>4, <2>1, <3>1, <3>2
    <2> QED
        BY <2>1 DEF WaitOK
  <1>20. \A y \in Thread \cup Call : \A j \in 1 .. Len(Code(y)) : Code(y)[j] = c0 => y = x /\ j = m + 1
    <2>1. ASSUME NEW y \in Thread \cup Call, NEW j \in 1 .. Len(Code(y)), Code(y)[j] = c0
          PROVE  y = x /\ j = m + 1
      <3>1. j \in DOMAIN Code(y) /\ m + 1 \in DOMAIN Code(x) /\ Code(y)[j] = Code(x)[m + 1]
          BY <1>9, <2>1, CodeType
      <3> QED
          BY <3>1, OnceAssumption
    <2> QED
        BY <2>1
  <1>21. OwnerOK'
    <2>1. Progress(t, n, x)'
      <3>1. m + 1 \in 0 .. Len(Code(x))
          BY <1>9
      <3>2. ASSUME NEW i \in 1 .. Len(left)
            PROVE  left[i] = Code(x)[m + 1 + i] /\ Fresh(left[i])'
        <4>1. PICK c, j : c = left[i] /\ j = i + 1
            OBVIOUS
        <4>2. j \in 1 .. Len(rest) /\ c = rest[j] /\ m + j = m + 1 + i /\ m + j # m + 1
            BY <1>8, <1>16, <4>1
        <4>3. c \in Call /\ Fresh(c) /\ m + j \in 1 .. Len(Code(x)) /\ c = Code(x)[m + j]
            BY <1>8, <4>2
        <4>4. c # c0
            BY <1>20, <4>2, <4>3
        <4>5. Fresh(c)'
            BY <1>11, <4>3, <4>4
        <4> QED
            BY <4>1, <4>2, <4>3, <4>5
      <3>3. ASSUME NEW j \in 1 .. m + 1
            PROVE  Code(x)[j] \in returned' \/ (j = m + 1 /\ Wait(t, n + 1, Code(x)[j])')
        <4>1. CASE j = m + 1
            BY <1>1, <1>4, <1>9, <4>1
        <4>2. CASE j \in 1 .. m
          <5>1. Code(x)[j] \in Call
              BY <1>8, <4>2, CodeType
          <5>2. Code(x)[j] \in returned \/ Wait(t, n + 1, Code(x)[j])
              BY <1>7, <1>8, <4>2 DEF Progress
          <5>3. ~Wait(t, n + 1, Code(x)[j])
              BY <1>1, <1>2, <5>1 DEF NoRole
          <5> QED
              BY <5>2, <5>3
        <4> QED
            BY <1>8, <4>1, <4>2
      <3> QED
          BY <1>17, <3>1, <3>2, <3>3 DEF Progress
    <2>2. ASSUME NEW u \in Thread, NEW d \in Nat, NEW y \in Thread \cup Call, Owner(u, d, y), u # t \/ d # n
          PROVE  Progress(u, d, y)'
      <3>1. Progress(u, d, y) /\ Rest(u, d)' = Rest(u, d)
          BY <1>6, <2>2 DEF CallInv, OwnerOK
      <3>2. y # x
          BY <1>3, <2>2, OneOwner DEF CallInv
      <3>3. \A i \in 1 .. Len(Rest(u, d)) : Rest(u, d)[i] # c0
        <4>1. ASSUME NEW i \in 1 .. Len(Rest(u, d))
              PROVE  Made(u, d, y) + i \in 1 .. Len(Code(y)) /\ Rest(u, d)[i] = Code(y)[Made(u, d, y) + i]
            BY <2>2, <3>1, ProgressType
        <4> QED
            BY <1>20, <3>2, <4>1
      <3>4. \A c \in Call : Fresh(c) /\ (\E i \in 1 .. Len(Rest(u, d)) : c = Rest(u, d)[i]) => Fresh(c)'
          BY <1>11, <3>3
      <3>5. \A c \in Call : Wait(u, d + 1, c) => Wait(u, d + 1, c)'
          BY <1>4
      <3> QED
          BY <2>2, <3>1, <3>4, <3>5, ProgressKeeps
    <2>3. ASSUME Direct
          PROVE  Progress(t, i3, c0)'
      <3>1. \A j \in 1 .. Len(Calls[c0]) : Fresh(Calls[c0][j]) /\ Calls[c0][j] \in Call
          BY <1>9, CodeType DEF CallInv, BegunOK
      <3>2. \A j \in 1 .. Len(Calls[c0]) : Calls[c0][j] # c0
        <4>1. ~Owner(t, n, c0)
            BY <1>9, DistinctAssumption, CodeType DEF Owner, Running
        <4>2. c0 # x /\ Code(c0) = Calls[c0]
            BY <1>3, <4>1, CodeType
        <4> QED
            BY <1>20, <4>2
      <3>3. Rest(t, i3)' = Calls[c0]
          BY <1>2, <2>3
      <3> QED
          BY <1>1, <1>11, <3>1, <3>2, <3>3, ProgressBegins
    <2>4. ASSUME NEW u \in Thread, NEW d \in Nat, NEW y \in Thread \cup Call, Owner(u, d, y)'
          PROVE  Progress(u, d, y)'
      <3>1. CASE Owner(u, d, y) /\ u = t /\ d = n
          BY <1>3, <2>1, <3>1
      <3>2. CASE Owner(u, d, y) /\ (u # t \/ d # n)
          BY <2>2, <3>2
      <3>3. CASE Direct /\ u = t /\ d = i3 /\ y = c0
          BY <2>3, <3>3
      <3> QED
          BY <1>6, <2>4, <3>1, <3>2, <3>3
    <2> QED
        BY <2>4 DEF OwnerOK
  <1>22. BegunOK'
    <2>1. ASSUME NEW y \in Call, NEW j \in 1 .. Len(Calls[y])
          PROVE  /\ y \in ran' => Calls[y][j] \in returned'
                 /\ y \notin ran' /\ ~Running(y)' => Fresh(Calls[y][j])'
      <3>1. Calls[y][j] \in Call /\ Code(y) = Calls[y]
          BY CodeType
      <3>2. ASSUME Calls[y][j] = c0
            PROVE  Running(y)
        <4>1. y = x
            BY <1>20, <3>1, <3>2
        <4>2. Imp(t, n, y)
            BY <1>3, <4>1, DistinctAssumption DEF Owner
        <4> QED
            BY <4>2 DEF Running
      <3> QED
          BY <1>11, <3>1, <3>2 DEF CallInv, BegunOK
    <2> QED
        BY <2>1 DEF BegunOK
  <1>23. Invokes(x, c0)
    <2>1. ASSUME NEW i \in DOMAIN Code(x), Waited(Code(x)[i])
          PROVE  FALSE
      <3>1. PICK c \in Call : c = Code(x)[i]
          BY CodeType
      <3>2. PICK u \in Thread, d \in Nat : Wait(u, d, c)
          BY <2>1, <3>1 DEF Waited
      <3>9. PICK e : e = d - 1
          OBVIOUS
      <3>3. PICK y \in Thread \cup Call : LastCall(u, e, y, c)
          BY <3>2, <3>9 DEF CallInv, WaitOK
      <3>4. e \in Nat /\ d = e + 1 /\ Owner(u, e, y) /\ Made(u, e, y) \in DOMAIN Code(y) /\ Code(y)[Made(u, e, y)] = c
          BY <3>3, <3>9, CodeType DEF LastCall
      <3>5. y = x
          BY <3>1, <3>4, OnceAssumption
      <3>6. u = t /\ e = n
          BY <1>3, <3>4, <3>5, OneOwner DEF CallInv
      <3>7. ~Wait(t, i1, c)
          BY <1>2 DEF NoRole
      <3> QED
          BY <1>1, <3>2, <3>4, <3>6, <3>7
    <2>2. m + 1 \in DOMAIN Code(x)
        BY <1>9, CodeType
    <2>3. ASSUME x \in Call
          PROVE  Running(x) /\ x \notin ran
      <3>1. Imp(t, n, x)
          BY <1>3, <2>3, DistinctAssumption DEF Owner
      <3> QED
          BY <2>3, <3>1 DEF Running, CallInv, RunsOnce
    <2>4. \A b \in Call : /\ Waited(b)' <=> Waited(b) \/ b = c0
                          /\ b # c0 => (Running(b)' <=> Running(b))
        BY <1>11
    <2> QED
        BY <1>9, <2>1, <2>2, <2>3, <2>4 DEF Invokes
  <1> QED
      BY <1>12, <1>13, <1>14, <1>19, <1>21, <1>22, <1>23 DEF CallInv

----------------------------------------------------------------------------
(* Types of what is not on the stacks.                                     *)

\* A call that is appended to a queue, or taken from it.
LEMMA QueueChange ==
  ASSUME NEW D, NEW q \in [D -> Seq(Call)], NEW r \in D, \A i \in 1 .. Len(q[r]) : To[q[r][i]] = r,
         NEW s, \/ \E c \in Call : To[c] = r /\ s = Append(q[r], c)
                \/ q[r] # <<>> /\ s = Tail(q[r])
  PROVE  /\ [q EXCEPT ![r] = s] \in [D -> Seq(Call)]
         /\ \A i \in 1 .. Len(s) : To[s[i]] = r
  <1>1. PICK p \in Seq(Call) : p = q[r]
      OBVIOUS
  <1>2. ASSUME NEW c \in Call, To[c] = r, s = Append(p, c)
        PROVE  s \in Seq(Call) /\ \A i \in 1 .. Len(s) : To[s[i]] = r
    <2>1. s \in Seq(Call) /\ Len(s) \in Nat
        BY <1>2, LenProperties
    <2>2. \A i \in Nat : i \in 1 .. Len(s) => (i \in 1 .. Len(p) /\ s[i] = p[i]) \/ (i = Len(p) + 1 /\ s[i] = c)
        BY <1>2, Appended
    <2> QED
        BY <1>1, <1>2, <2>1, <2>2
  <1>3. ASSUME p # <<>>, s = Tail(p)
        PROVE  s \in Seq(Call) /\ \A i \in 1 .. Len(s) : To[s[i]] = r
    <2>1. s \in Seq(Call) /\ Len(s) \in Nat
        BY <1>3, HeadTailProperties, LenProperties
    <2>2. \A i \in Nat : i \in 1 .. Len(s) => i + 1 \in 1 .. Len(p) /\ s[i] = p[i + 1]
        BY <1>3, Shifted
    <2> QED
        BY <1>1, <2>1, <2>2
  <1>4. s \in Seq(Call) /\ \A i \in 1 .. Len(s) : To[s[i]] = r
      BY <1>1, <1>2, <1>3
  <1> QED
      BY <1>4

\* What the frame on top is about.
LEMMA TopOK ==
  ASSUME StackOK, NEW t \in Thread, stack[t] # <<>>, NEW f, f = Top(t)
  PROVE  /\ f \in Frame
         /\ f.op \in TransitOps \cup {"notify"} => f.call \in Call /\ f.to = To[f.call] /\ f.to \in Thread
         /\ f.op \in {"askWorkload", "asked", "answered"} \cup AttachOps => f.to \in Workloads
         /\ f.op \in AttachOps => f.to = t
         /\ f.op \in CallOps => f.call \in Call
         /\ f.op \in HelperOps \cup {"imp"} => To[f.call] \in {None, t}
         /\ f.op \in {"forget", "forgot"} => f.to \in Thread
  <1>1. PICK n : n = Depth(t)
      OBVIOUS
  <1>2. f \in Frame /\ FrameOK(t, n, f)
      BY <1>1, Frames, TopFrame DEF StackOK
  <1> QED
      BY <1>2 DEF FrameOK

\* The queues of the threads and the workloads.
LEMMA QueuesTyped ==
  ASSUME TypeOK, NEW t \in Thread, ThreadStep(t)
  PROVE  QueuesOK'
  <1> USE DEF TypeOK
  <1>1. CASE Pushed(t)
    <2>1. PICK f : f = Top(t)
        OBVIOUS
    <2>2. f.call \in Call /\ f.to = To[f.call] /\ f.to \in Thread
      <3>1. stack[t] # <<>> /\ f.op = "pushed"
          BY <1>1, <2>1 DEF Pushed, At
      <3>2. f.op \in TransitOps
          BY <3>1 DEF TransitOps
      <3> QED
          BY <2>1, <3>1, <3>2, TopOK
    <2>3. PICK s : s = Append(actionQueue[f.to], f.call)
        OBVIOUS
    <2>4. actionQueue' = [actionQueue EXCEPT ![f.to] = s] /\ waiting' = waiting
        BY <1>1, <2>1, <2>3 DEF Pushed
    <2>5. actionQueue' \in [Thread -> Seq(Call)] /\ \A i \in 1 .. Len(s) : To[s[i]] = f.to
        BY <2>2, <2>3, <2>4, QueueChange DEF QueuesOK
    <2> QED
        BY <2>2, <2>4, <2>5 DEF QueuesOK
  <1>2. CASE Asked(t)
    <2>1. PICK f : f = Top(t)
        OBVIOUS
    <2>2. f.call \in Call /\ f.to = To[f.call] /\ f.to \in Workloads
      <3>1. stack[t] # <<>> /\ f.op = "asked"
          BY <1>2, <2>1 DEF Asked, At
      <3>2. f.op \in TransitOps
          BY <3>1 DEF TransitOps
      <3> QED
          BY <2>1, <3>1, <3>2, TopOK
    <2>3. CASE f.to \in childThread
        BY <1>2, <2>1, <2>3 DEF Asked, QueuesOK
    <2>4. CASE f.to \notin childThread
      <3>1. PICK s : s = Append(waiting[f.to], f.call)
          OBVIOUS
      <3>2. waiting' = [waiting EXCEPT ![f.to] = s] /\ actionQueue' = actionQueue
          BY <1>2, <2>1, <2>4, <3>1 DEF Asked
      <3>3. waiting' \in [Workloads -> Seq(Call)] /\ \A i \in 1 .. Len(s) : To[s[i]] = f.to
          BY <2>2, <3>1, <3>2, QueueChange DEF QueuesOK
      <3> QED
          BY <2>2, <3>2, <3>3 DEF QueuesOK
    <2> QED
        BY <2>3, <2>4
  <1>3. CASE Forward(t)
    <2>1. CASE waiting[t] # <<>>
      <3>1. PICK s : s = Tail(waiting[t])
          OBVIOUS
      <3>2. t \in Workloads
        <4>1. PICK f : f = Top(t)
            OBVIOUS
        <4> QED
            BY <1>3, <4>1, TopOK DEF Forward, At, AttachOps
      <3>3. waiting' = [waiting EXCEPT ![t] = s] /\ actionQueue' = actionQueue
          BY <1>3, <2>1, <3>1 DEF Forward
      <3>4. waiting' \in [Workloads -> Seq(Call)] /\ \A i \in 1 .. Len(s) : To[s[i]] = t
          BY <2>1, <3>1, <3>2, <3>3, QueueChange DEF QueuesOK
      <3> QED
          BY <3>2, <3>3, <3>4 DEF QueuesOK
    <2>2. CASE waiting[t] = <<>>
        BY <1>3, <2>2 DEF Forward, QueuesOK
    <2> QED
        BY <2>1, <2>2
  <1>4. CASE ProcessActions(t)
    <2>1. CASE actionQueue[t] # <<>>
      <3>1. PICK s : s = Tail(actionQueue[t])
          OBVIOUS
      <3>2. actionQueue' = [actionQueue EXCEPT ![t] = s] /\ waiting' = waiting
          BY <1>4, <2>1, <3>1 DEF ProcessActions
      <3>3. actionQueue' \in [Thread -> Seq(Call)] /\ \A i \in 1 .. Len(s) : To[s[i]] = t
          BY <2>1, <3>1, <3>2, QueueChange DEF QueuesOK
      <3> QED
          BY <3>2, <3>3 DEF QueuesOK
    <2>2. CASE actionQueue[t] = <<>>
        BY <1>4, <2>2 DEF ProcessActions, QueuesOK
    <2> QED
        BY <2>1, <2>2
  <1>5. CASE UNCHANGED <<actionQueue, waiting>>
      BY <1>5 DEF QueuesOK
  <1> QED
      BY <1>1, <1>2, <1>3, <1>4, <1>5
      DEF ThreadStep, Lock, Abort, QueueInDeleted, Execute, EndAction, OpenBarrier, Sleep, PassBarrier, Found,
          Notify, Answered, AttachFound, Interrupt, LookedUp, Forgot, ThreadReturns, ThreadExits

\* The notifications of the threads.
LEMMA InboxTyped ==
  ASSUME TypeOK, NEW t \in Thread, ThreadStep(t)
  PROVE  inbox' \in [Thread -> Seq(Notification)]
  <1>1. inbox \in [Thread -> Seq(Notification)] /\ mainChild \in Thread
      BY ThreadsAssumption DEF TypeOK
  <1>2. /\ Ntf("ProcessActions", None) \in Notification
        /\ Ntf("ThreadExiting", None) \in Notification
        /\ Ntf("ThreadExited", t) \in Notification
      BY DEF Notification
  <1>3. CASE inbox' = inbox
      BY <1>1, <1>3
  <1>4. CASE inbox[t] # <<>> /\ inbox' = [inbox EXCEPT ![t] = Tail(@)]
    <2>1. Tail(inbox[t]) \in Seq(Notification)
        BY <1>1, <1>4, HeadTailProperties
    <2> QED
        BY <1>1, <1>4, <2>1
  <1>5. CASE \E r \in Thread, x \in Notification : inbox' = [inbox EXCEPT ![r] = Append(@, x)]
    <2>1. PICK r \in Thread, x \in Notification : inbox' = [inbox EXCEPT ![r] = Append(@, x)]
        BY <1>5
    <2>2. Append(inbox[r], x) \in Seq(Notification)
        BY <1>1, AppendProperties
    <2> QED
        BY <1>1, <2>1, <2>2
  <1>6. CASE Notify(t)
    <2>1. PICK f : f = Top(t)
        OBVIOUS
    <2>2. f.to \in Thread
        BY <1>6, <2>1, TopOK DEF Notify, At, TypeOK
    <2>3. inbox' = inbox \/ inbox' = [inbox EXCEPT ![f.to] = Append(@, Ntf("ProcessActions", None))]
        BY <1>6, <2>1 DEF Notify
    <2> QED
        BY <1>2, <1>3, <1>5, <2>2, <2>3
  <1>7. CASE ThreadExits(t)
    <2>1. PICK i : i = [inbox EXCEPT ![t] = <<>>]
        OBVIOUS
    <2>2. i \in [Thread -> Seq(Notification)]
        BY <1>1, <2>1, <<>> \in Seq(Notification)
    <2>3. Append(i[mainChild], Ntf("ThreadExited", t)) \in Seq(Notification)
        BY <1>1, <1>2, <2>2, AppendProperties
    <2>4. inbox' = [i EXCEPT ![mainChild] = Append(@, Ntf("ThreadExited", t))]
        BY <1>7, <2>1 DEF ThreadExits
    <2> QED
        BY <1>1, <2>2, <2>3, <2>4
  <1>8. CASE ThreadReturns(t)
      BY <1>2, <1>5, <1>8 DEF ThreadReturns
  <1>9. CASE Interrupt(t) \/ Forgot(t) \/ ProcessActions(t)
      BY <1>3, <1>4, <1>9 DEF Interrupt, Forgot, ProcessActions, NextNotification
  <1>10. CASE UNCHANGED inbox
      BY <1>3, <1>10
  <1> QED
      BY <1>6, <1>7, <1>8, <1>9, <1>10
      DEF ThreadStep, Lock, Abort, QueueInDeleted, Execute, EndAction, OpenBarrier, Sleep, PassBarrier, Found,
          Pushed, Asked, Answered, AttachFound, Forward, LookedUp

\* The mutexes and the sets of threads and calls.
LEMMA SetsTyped ==
  ASSUME TypeOK, NEW t \in Thread, ThreadStep(t)
  PROVE  /\ alive' \subseteq Thread /\ threadMap' \subseteq Thread /\ childThread' \subseteq Workloads
         /\ mutex' \in [Mutex -> Thread \cup {None}]
         /\ opened' \subseteq Call /\ ran' \subseteq Call /\ returned' \subseteq Call
         /\ aborted' \in BOOLEAN
  <1> USE DEF TypeOK
  <1>1. PICK f : f = Top(t)
      OBVIOUS
  <1>2. mutex' \in [Mutex -> Thread \cup {None}]
    <2>1. mutex' = mutex \/ \E m, v : v \in Thread \cup {None} /\ mutex' = [mutex EXCEPT ![m] = v]
      <3>1. CASE Lock(t)
          BY <3>1 DEF Lock
      <3>2. CASE Forward(t)
          BY <3>2 DEF Forward, Unlock
      <3>3. CASE Found(t) \/ Pushed(t) \/ Answered(t) \/ AttachFound(t) \/ LookedUp(t) \/ Forgot(t) \/ ThreadExits(t)
          BY <3>3 DEF Found, Pushed, Answered, AttachFound, LookedUp, Forgot, ThreadExits, Unlock
      <3>4. CASE OpenBarrier(t) \/ Sleep(t) \/ PassBarrier(t)
          BY <3>4 DEF OpenBarrier, Sleep, PassBarrier, Unlock
      <3>5. CASE UNCHANGED mutex
          BY <3>5
      <3> QED
          BY <3>1, <3>2, <3>3, <3>4, <3>5
          DEF ThreadStep, Abort, QueueInDeleted, Execute, EndAction,
              Notify, Asked, Interrupt, ProcessActions, ThreadReturns
    <2> QED
        BY <2>1
  <1>3. alive' \subseteq Thread /\ threadMap' \subseteq Thread
    <2>1. (alive' = alive \/ alive' = alive \ {t}) /\ (threadMap' = threadMap \/ threadMap' = threadMap \ {f.to})
        BY <1>1 DEF ThreadStep, Lock, Abort, QueueInDeleted, Execute, EndAction, OpenBarrier, Sleep, PassBarrier, Found,
             Pushed, Notify, Asked, Answered, AttachFound, Forward, Interrupt, LookedUp, ProcessActions, Forgot,
             ThreadReturns, ThreadExits
    <2> QED
        BY <2>1
  <1>4. childThread' \subseteq Workloads
    <2>1. CASE AttachFound(t)
      <3>1. t \in Workloads
          BY <1>1, <2>1, TopOK DEF AttachFound, At, AttachOps
      <3> QED
          BY <2>1, <3>1 DEF AttachFound
    <2>2. CASE UNCHANGED childThread
        BY <2>2
    <2> QED
        BY <2>1, <2>2
        DEF ThreadStep, Lock, Abort, QueueInDeleted, Execute, EndAction, OpenBarrier, Sleep, PassBarrier, Found,
            Pushed, Notify, Asked, Answered, Forward, Interrupt, LookedUp, ProcessActions, Forgot,
            ThreadReturns, ThreadExits
  <1>5. opened' \subseteq Call /\ ran' \subseteq Call /\ returned' \subseteq Call
    <2>1. CASE EndAction(t) \/ OpenBarrier(t) \/ PassBarrier(t)
      <3>1. f.call \in Call
          BY <1>1, <2>1, TopOK DEF EndAction, OpenBarrier, PassBarrier, At, CallOps, HelperOps, WaitOps
      <3> QED
          BY <1>1, <2>1, <3>1 DEF EndAction, OpenBarrier, PassBarrier
    <2>2. CASE UNCHANGED <<opened, ran, returned>>
        BY <2>2
    <2> QED
        BY <2>1, <2>2
        DEF ThreadStep, Lock, Abort, QueueInDeleted, Execute, Sleep, Found, Pushed, Notify, Asked, Answered,
            AttachFound, Forward, Interrupt, LookedUp, ProcessActions, Forgot, ThreadReturns, ThreadExits
  <1>6. aborted' \in BOOLEAN
      BY DEF ThreadStep, Lock, Abort, QueueInDeleted, Execute, EndAction, OpenBarrier, Sleep, PassBarrier, Found,
             Pushed, Notify, Asked, Answered, AttachFound, Forward, Interrupt, LookedUp, ProcessActions, Forgot,
             ThreadReturns, ThreadExits
  <1> QED
      BY <1>2, <1>3, <1>4, <1>5, <1>6

----------------------------------------------------------------------------
(* Every step keeps the invariant.                                         *)

PhaseStep ==
  \/ SamePhases
  \/ \E x \in Thread \cup Call, c \in Call : Invokes(x, c)
  \/ \E c \in Call : Begins(c) \/ Ends(c) \/ Returns(c)

\* The frame on top ends, in a step of the call itself.
LEMMA LeaveSteps ==
  ASSUME TypeOK, CallInv, NEW t \in Thread,
         EndAction(t) \/ OpenBarrier(t) \/ PassBarrier(t) \/ QueueInDeleted(t) \/ ThreadReturns(t)
  PROVE  StackOK' /\ CallInv' /\ PhaseStep
  <1>1. PICK n, f : n = Depth(t) /\ f = Top(t)
      OBVIOUS
  <1>2. stack[t] # <<>> /\ Leave(t) /\ StackOK
      BY DEF EndAction, OpenBarrier, PassBarrier, QueueInDeleted, ThreadReturns, At, TypeOK
  <1>3. /\ n \in Nat \ {0} /\ n # 0 /\ n \in Nat /\ f = Frm(t, n) /\ StackOK'
        /\ NoRole(t, n)' /\ Elsewhere(t, {n})
      BY <1>1, <1>2, Left1
  <1>4. Rest(t, n) = f.rest /\ NoRole(t, n + 1)
      BY <1>1, <1>2, <1>3, TopFrame, NoneAbove
  <1>5. /\ f.op \in TransitOps \cup CallOps => f.call \in Call
        /\ f.op \in TransitOps => Has(t, n, "transit", f.call)
        /\ f.op \in HelperOps => Has(t, n, "helper", f.call)
        /\ f.op = "imp" => Has(t, n, "imp", f.call)
        /\ f.op \in WaitOps => Has(t, n, "wait", f.call)
      BY <1>1, <1>2, <1>3, TopOK, TopHas
  <1>6. PICK c : c = f.call
      OBVIOUS
  <1>7. CASE EndAction(t)
    <2>1. f.op = "imp" /\ f.rest = <<>>
        BY <1>1, <1>7 DEF EndAction, At
    <2>2. c \in Call /\ Has(t, n, "imp", c)
        BY <1>5, <1>6, <2>1 DEF CallOps
    <2>3. ran' = ran \cup {c} /\ UNCHANGED <<actionQueue, waiting, opened, returned>>
        BY <1>1, <1>6, <1>7 DEF EndAction
    <2>4. CallInv' /\ Ends(c)
        BY <1>2, <1>3, <1>4, <2>1, <2>2, <2>3, EndKeeps
    <2> QED
        BY <1>3, <2>2, <2>4 DEF PhaseStep
  <1>8. CASE OpenBarrier(t)
    <2>1. f.op \in HelperOps
        BY <1>1, <1>8 DEF OpenBarrier, At, HelperOps
    <2>2. c \in Call /\ Has(t, n, "helper", c)
        BY <1>5, <1>6, <2>1 DEF CallOps
    <2>3. opened' = opened \cup {c} /\ UNCHANGED <<actionQueue, waiting, ran, returned>>
        BY <1>1, <1>6, <1>8 DEF OpenBarrier
    <2>4. CallInv' /\ SamePhases
        BY <1>2, <1>3, <1>4, <2>2, <2>3, OpenKeeps
    <2> QED
        BY <1>3, <2>4 DEF PhaseStep
  <1>9. CASE PassBarrier(t)
    <2>1. f.op \in WaitOps /\ c \in opened
        BY <1>1, <1>6, <1>9 DEF PassBarrier, At, WaitOps
    <2>2. c \in Call /\ Has(t, n, "wait", c)
        BY <1>5, <1>6, <2>1 DEF CallOps
    <2>3. returned' = returned \cup {c} /\ UNCHANGED <<actionQueue, waiting, ran, opened>>
        BY <1>1, <1>6, <1>9 DEF PassBarrier
    <2>4. CallInv' /\ Returns(c)
        BY <1>2, <1>3, <2>1, <2>2, <2>3, PassKeeps
    <2> QED
        BY <1>3, <2>2, <2>4 DEF PhaseStep
  <1>10. CASE QueueInDeleted(t)
    <2>1. f.op \in TransitOps
        BY <1>1, <1>10 DEF QueueInDeleted, At, TransitOps
    <2>2. c \in Call /\ Has(t, n, "transit", c)
        BY <1>5, <1>6, <2>1
    <2>3. UNCHANGED <<actionQueue, waiting, ran, opened, returned>>
        BY <1>10 DEF QueueInDeleted
    <2>4. CallInv' /\ SamePhases
        BY <1>2, <1>3, <2>2, <2>3, LostKeeps
    <2> QED
        BY <1>3, <2>4 DEF PhaseStep
  <1>11. CASE ThreadReturns(t)
    <2>1. f.op = "program" /\ f.op \notin TransitOps \cup HelperOps \cup WaitOps
        BY <1>1, <1>11 DEF ThreadReturns, At, TransitOps, HelperOps, WaitOps
    <2>2. \A a \in Call : ~Transit(t, n, a) /\ ~Helper(t, n, a) /\ ~Imp(t, n, a) /\ ~Wait(t, n, a)
        BY <1>3, <2>1 DEF Transit, Helper, Imp, Wait
    <2>3. UNCHANGED <<actionQueue, waiting, ran, opened, returned>>
        BY <1>11 DEF ThreadReturns
    <2>4. CallInv' /\ SamePhases
        BY <1>2, <1>3, <1>4, <2>2, <2>3, ReturnKeeps
    <2> QED
        BY <1>3, <2>4 DEF PhaseStep
  <1> QED
      BY <1>7, <1>8, <1>9, <1>10, <1>11

\* A helper is queued, left with its workload, or forwarded.
LEMMA MoveSteps ==
  ASSUME TypeOK, CallInv, NEW t \in Thread,
         Pushed(t) \/ Asked(t) \/ (Forward(t) /\ waiting[t] # <<>>)
  PROVE  StackOK' /\ CallInv' /\ PhaseStep
  <1>1. PICK n, f : n = Depth(t) /\ f = Top(t)
      OBVIOUS
  <1>2. PICK c, r : c = f.call /\ r = f.to
      OBVIOUS
  <1>3. stack[t] # <<>> /\ StackOK /\ f.op \in {"pushed", "asked", "forward"}
      BY <1>1 DEF Pushed, Asked, Forward, At, TypeOK
  <1>4. /\ f \in Frame /\ n # 0 /\ f = Frm(t, n)
        /\ f.op \in {"pushed", "asked"} => c \in Call /\ r = To[c] /\ r \in Thread /\ Has(t, n, "transit", c)
        /\ f.op = "asked" => r \in Workloads
        /\ f.op = "forward" => t \in Workloads
    <2>1. n # 0 /\ f = Frm(t, n)
        BY <1>1, <1>3, Frames DEF StackOK
    <2>2. f \in Frame /\ (f.op \in {"pushed", "asked"} => f.call \in Call /\ f.to = To[f.call] /\ f.to \in Thread)
        BY <1>1, <1>3, TopOK DEF TransitOps
    <2>3. /\ f.op = "asked" => f.to \in Workloads
          /\ f.op = "forward" => f.to \in Workloads /\ f.to = t
        BY <1>1, <1>3, TopOK DEF AttachOps
    <2>4. f.op \in {"pushed", "asked"} => Has(t, n, "transit", f.call)
        BY <1>1, <1>3, <2>1, TopHas DEF TransitOps
    <2> QED
        BY <1>2, <2>1, <2>2, <2>3, <2>4
  <1>5. actionQueue \in [Thread -> Seq(Call)] /\ waiting \in [Workloads -> Seq(Call)]
      BY DEF TypeOK, QueuesOK
  <1>6. CASE Pushed(t)
    <2>1. f.op = "pushed" /\ Goto(t, "notify")
        BY <1>1, <1>6 DEF Pushed, At
    <2>2. "notify" \in OtherOps /\ \A d : FrameOK(t, d, f) => FrameOK(t, d, [f EXCEPT !.op = "notify"])
        BY <1>4, <2>1 DEF OtherOps, FrameOK, Frame, TransitOps, AttachOps,
                CallOps, HelperOps, WaitOps
    <2>3. n \in Nat /\ StackOK' /\ NoRole(t, n)' /\ Elsewhere(t, {n})
        BY <1>1, <1>3, <2>1, <2>2, TopDone
    <2>4. /\ actionQueue' = [actionQueue EXCEPT ![r] = Append(@, c)]
          /\ UNCHANGED <<waiting, ran, opened, returned>>
        BY <1>1, <1>2, <1>6 DEF Pushed
    <2>5. CallInv' /\ SamePhases
        BY <1>3, <1>4, <1>5, <2>1, <2>3, <2>4, QueuedKeeps
    <2> QED
        BY <2>3, <2>5 DEF PhaseStep
  <1>7. CASE Asked(t) /\ r \notin childThread
    <2>1. f.op = "asked" /\ Goto(t, "answered")
        BY <1>1, <1>2, <1>7 DEF Asked, At
    <2>2. "answered" \in OtherOps /\ \A d : FrameOK(t, d, f) => FrameOK(t, d, [f EXCEPT !.op = "answered"])
        BY <1>4, <2>1 DEF OtherOps, FrameOK, Frame, TransitOps, AttachOps,
                CallOps, HelperOps, WaitOps
    <2>3. n \in Nat /\ StackOK' /\ NoRole(t, n)' /\ Elsewhere(t, {n})
        BY <1>1, <1>3, <2>1, <2>2, TopDone
    <2>4. /\ waiting' = [waiting EXCEPT ![r] = Append(@, c)]
          /\ UNCHANGED <<actionQueue, ran, opened, returned>>
        BY <1>1, <1>2, <1>7 DEF Asked
    <2>5. CallInv' /\ SamePhases
        BY <1>3, <1>4, <1>5, <2>1, <2>3, <2>4, LeftKeeps
    <2> QED
        BY <2>3, <2>5 DEF PhaseStep
  <1>8. CASE Asked(t) /\ r \in childThread
    <2>1. At(t, "asked") /\ f.op = "asked"
        BY <1>1, <1>8 DEF Asked, At
    <2>2. stack' = [stack EXCEPT ![t] = <<F("push", f.call, f.to), F("answered", None, f.to)>> \o Tail(@)]
        BY <1>1, <1>2, <1>8 DEF Asked
    <2>3. /\ n \in Nat /\ StackOK' /\ Has(t, n, "transit", c) /\ NoRole(t, n + 1)
          /\ NoRole(t, n)' /\ Has(t, n + 1, "transit", f.call)' /\ Elsewhere(t, {n, n + 1})
        BY <1>1, <1>2, <1>3, <2>1, <2>2, AskedForwards
    <2>4. Has(t, n + 1, "transit", c)'
        BY <1>2, <2>3
    <2>5. UNCHANGED <<actionQueue, waiting, ran, opened, returned>>
        BY <1>1, <1>2, <1>8 DEF Asked
    <2>6. CallInv' /\ SamePhases
        BY <1>3, <1>4, <2>1, <2>3, <2>4, <2>5, ForwardedKeeps
    <2> QED
        BY <2>3, <2>6 DEF PhaseStep
  <1>9. CASE Forward(t) /\ waiting[t] # <<>>
    <2>1. PICK a : a = Head(waiting[t])
        OBVIOUS
    <2>2. t \in Workloads
        BY <1>1, <1>4, <1>9 DEF Forward, At
    <2>3. a \in Call /\ t = To[a]
      <3>1. PICK s \in Seq(Call) : s = waiting[t]
          BY <1>5, <2>2
      <3>2. s # <<>> /\ Len(s) \in Nat \ {0} /\ Head(s) = s[1] /\ Head(s) \in Call
          BY <1>9, <3>1, Shifted
      <3>3. 1 \in 1 .. Len(waiting[t]) /\ waiting[t][1] = a
          BY <2>1, <3>1, <3>2
      <3>4. \A i \in 1 .. Len(waiting[t]) : To[waiting[t][i]] = t
          BY <2>2 DEF TypeOK, QueuesOK
      <3> QED
          BY <2>1, <3>1, <3>2, <3>3, <3>4
    <2>4. Enter(t, <<F("push", a, t)>>) /\ waiting' = [waiting EXCEPT ![t] = Tail(@)]
          /\ UNCHANGED <<actionQueue, ran, opened, returned>>
        BY <1>9, <2>1 DEF Forward
    <2>5. PICK p : p = n + 1
        OBVIOUS
    <2>6. p \in Nat /\ StackOK' /\ NoRole(t, p) /\ Elsewhere(t, {p}) /\ Has(t, n + 1, "transit", a)'
      <3>1. n \in Nat /\ StackOK' /\ NoRole(t, n + 1) /\ Has(t, n + 1, "transit", a)' /\ Elsewhere(t, {n + 1})
          BY <1>1, <1>3, <2>3, <2>4, PushAdded
      <3> QED
          BY <2>5, <3>1
    <2>7. Has(t, p, "transit", a)'
        BY <2>5, <2>6
    <2>8. CallInv' /\ SamePhases
        BY <1>3, <1>5, <1>9, <2>1, <2>2, <2>3, <2>4, <2>6, <2>7, TakenKeeps
    <2> QED
        BY <2>6, <2>8 DEF PhaseStep
  <1> QED
      BY <1>6, <1>7, <1>8, <1>9

\* The code on top makes a call, or a queued action begins.
LEMMA CallSteps ==
  ASSUME TypeOK, CallInv, NEW t \in Thread,
         Execute(t) \/ (ProcessActions(t) /\ actionQueue[t] # <<>>)
  PROVE  StackOK' /\ CallInv' /\ PhaseStep
  <1>1. PICK n : n = Depth(t)
      OBVIOUS
  <1>2. CASE Execute(t)
    <2>1. StackOK' /\ \E x \in Thread \cup Call, c \in Call : Calling(t, n, x, c)
        BY <1>1, <1>2, Executed DEF TypeOK
    <2>2. PICK x \in Thread \cup Call, c \in Call : Calling(t, n, x, c)
        BY <2>1
    <2>3. PICK i1, i2, i3 : i1 = n + 1 /\ i2 = n + 2 /\ i3 = n + 3
        OBVIOUS
    <2>4. StackOK /\ n \in Nat /\ UNCHANGED <<actionQueue, waiting, ran, opened, returned>>
        BY <1>2, <2>2 DEF Execute, Calling, TypeOK
    <2>5. CallInv' /\ Invokes(x, c)
        BY <2>2, <2>3, <2>4, CallKeeps
    <2> QED
        BY <2>1, <2>5 DEF PhaseStep
  <1>3. CASE ProcessActions(t) /\ actionQueue[t] # <<>>
    <2>1. PICK c : c = Head(actionQueue[t])
        OBVIOUS
    <2>2. actionQueue \in [Thread -> Seq(Call)] /\ StackOK
        BY DEF TypeOK, QueuesOK
    <2>3. c \in Call /\ To[c] = t
      <3>1. PICK s \in Seq(Call) : s = actionQueue[t]
          BY <2>2
      <3>2. s # <<>> /\ Len(s) \in Nat \ {0} /\ Head(s) = s[1] /\ Head(s) \in Call
          BY <1>3, <3>1, Shifted
      <3>3. 1 \in 1 .. Len(actionQueue[t]) /\ actionQueue[t][1] = c
          BY <2>1, <3>1, <3>2
      <3> QED
          BY <2>1, <3>1, <3>2, <3>3 DEF TypeOK, QueuesOK
    <2>4. /\ Enter(t, <<[F("imp", c, None) EXCEPT !.rest = Calls[c]], F("helper", c, None)>>)
          /\ actionQueue' = [actionQueue EXCEPT ![t] = Tail(@)]
          /\ UNCHANGED <<waiting, ran, opened, returned>>
        BY <1>3, <2>1 DEF ProcessActions
    <2>5. PICK p, q : p = n + 1 /\ q = n + 2
        OBVIOUS
    <2>6. /\ n \in Nat /\ StackOK' /\ NoRole(t, n + 1) /\ NoRole(t, n + 2)
          /\ Has(t, n + 1, "helper", c)' /\ Has(t, n + 2, "imp", c)' /\ Rest(t, n + 2)' = Calls[c]
          /\ Elsewhere(t, {n + 1, n + 2})
        BY <1>1, <2>2, <2>3, <2>4, BeginAdded
    <2>7. Has(t, p, "helper", c)' /\ Has(t, q, "imp", c)' /\ Rest(t, q)' = Calls[c]
        BY <2>5, <2>6
    <2>8. p \in Nat /\ q \in Nat /\ q = p + 1 /\ NoRole(t, p) /\ NoRole(t, q) /\ Elsewhere(t, {p, q})
        BY <2>5, <2>6
    <2>9. CallInv' /\ Begins(c)
        BY <1>3, <2>1, <2>2, <2>3, <2>4, <2>7, <2>8, BeginKeeps
    <2> QED
        BY <2>3, <2>6, <2>9 DEF PhaseStep
  <1> QED
      BY <1>2, <1>3

\* All other steps.
LEMMA QuietSteps ==
  ASSUME TypeOK, CallInv, NEW t \in Thread,
         \/ Lock(t) \/ Abort(t) \/ Sleep(t) \/ Found(t) \/ Notify(t) \/ Answered(t) \/ AttachFound(t)
         \/ Interrupt(t) \/ LookedUp(t) \/ Forgot(t) \/ ThreadExits(t)
         \/ Forward(t) /\ waiting[t] = <<>>
         \/ ProcessActions(t) /\ actionQueue[t] = <<>>
  PROVE  StackOK' /\ CallInv' /\ PhaseStep
  <1>1. UNCHANGED <<actionQueue, waiting, ran, opened, returned>>
      BY DEF Lock, Abort, Sleep, Found, Notify, Answered, AttachFound, Interrupt, LookedUp, Forgot,
             ThreadExits, Forward, ProcessActions
  <1>2. StackOK' /\ Quiet
    <2>1. CASE Lock(t)
        BY <2>1, LockQuiet
    <2>2. CASE Abort(t)
      <3>1. stack' = stack
          BY <2>2 DEF Abort
      <3> QED
          BY <3>1 DEF TypeOK, StackOK, Quiet, SameRoles, Transit, Helper, Imp, Wait, Owner, Rest, Depth, Frm
    <2>3. CASE Found(t)
        BY <2>3, FoundQuiet
    <2>4. CASE Interrupt(t)
        BY <2>4, Interrupted
    <2>5. CASE \/ Notify(t) \/ Answered(t) \/ AttachFound(t) \/ LookedUp(t) \/ Forgot(t) \/ ThreadExits(t)
               \/ Forward(t) /\ waiting[t] = <<>>
               \/ ProcessActions(t) /\ actionQueue[t] = <<>>
        BY <2>5, OtherQuiet
    <2>6. CASE Sleep(t)
        BY <2>6, SleepQuiet
    <2> QED
        BY <2>1, <2>2, <2>3, <2>4, <2>5, <2>6
  <1>3. CallInv' /\ SamePhases
      BY <1>1, <1>2, QuietKeeps DEF TypeOK
  <1> QED
      BY <1>2, <1>3 DEF PhaseStep

\* What a step does.
LEMMA StepKeeps ==
  ASSUME TypeOK, CallInv, NEW t \in Thread, ThreadStep(t)
  PROVE  TypeOK' /\ CallInv' /\ PhaseStep
  <1>1. StackOK' /\ CallInv' /\ PhaseStep
    <2>1. CASE EndAction(t) \/ OpenBarrier(t) \/ PassBarrier(t) \/ QueueInDeleted(t) \/ ThreadReturns(t)
        BY <2>1, LeaveSteps
    <2>2. CASE Pushed(t) \/ Asked(t) \/ (Forward(t) /\ waiting[t] # <<>>)
        BY <2>2, MoveSteps
    <2>3. CASE Execute(t) \/ (ProcessActions(t) /\ actionQueue[t] # <<>>)
        BY <2>3, CallSteps
    <2>4. CASE \/ Lock(t) \/ Abort(t) \/ Sleep(t) \/ Found(t) \/ Notify(t) \/ Answered(t) \/ AttachFound(t)
               \/ Interrupt(t) \/ LookedUp(t) \/ Forgot(t) \/ ThreadExits(t)
               \/ Forward(t) /\ waiting[t] = <<>>
               \/ ProcessActions(t) /\ actionQueue[t] = <<>>
        BY <2>4, QuietSteps
    <2> QED
        BY <2>1, <2>2, <2>3, <2>4 DEF ThreadStep
  <1>2. QueuesOK' /\ inbox' \in [Thread -> Seq(Notification)]
      BY QueuesTyped, InboxTyped
  <1>3. /\ alive' \subseteq Thread /\ threadMap' \subseteq Thread /\ childThread' \subseteq Workloads
        /\ mutex' \in [Mutex -> Thread \cup {None}]
        /\ opened' \subseteq Call /\ ran' \subseteq Call /\ returned' \subseteq Call
        /\ aborted' \in BOOLEAN
      BY SetsTyped
  <1> QED
      BY <1>1, <1>2, <1>3 DEF TypeOK

----------------------------------------------------------------------------
(* The initial states.                                                     *)

\* Every thread is at the beginning of its program, a workload in startInThread().
LEMMA InitialStacks ==
  ASSUME Init, NEW t \in Thread
  PROVE  /\ stack \in [Thread -> Seq(Frame)] /\ Depth(t) \in {1, 2}
         /\ Frm(t, 1) \in Frame /\ Frm(t, 1).op = "program" /\ Frm(t, 1).rest = Program[t]
         /\ Depth(t) = 2 => t \in Workloads /\ Frm(t, 2) = F("attach", None, t)
  <1> DEFINE p(u) == [F("program", None, None) EXCEPT !.rest = Program[u]]
             a(u) == F("attach", None, u)
  <1>1. ASSUME NEW u \in Thread
        PROVE  p(u) \in Frame /\ a(u) \in Frame /\ p(u).op = "program" /\ p(u).rest = Program[u]
    <2>1. <<>> \in Seq(Call) /\ "program" \in Op /\ "attach" \in Op /\ Program[u] \in Seq(Call)
        BY ProgramAssumption DEF Op, OtherOps, AttachOps
    <2> QED
        BY <2>1 DEF F, Frame
  <1>2. stack = [u \in Thread |-> (IF u \in Workloads THEN <<a(u)>> ELSE <<>>) \o <<p(u)>>]
      BY DEF Init
  <1> HIDE DEF p, a
  <1>3. ASSUME NEW u \in Thread
        PROVE  /\ stack[u] \in Seq(Frame)
               /\ u \in Workloads => stack[u] = <<a(u)>> \o <<p(u)>>
               /\ u \notin Workloads => stack[u] = <<p(u)>>
    <2>1. <<p(u)>> \in Seq(Frame) /\ <<a(u)>> \in Seq(Frame) /\ <<>> \in Seq(Frame)
        BY <1>1
    <2>2. <<a(u)>> \o <<p(u)>> \in Seq(Frame) /\ <<>> \o <<p(u)>> = <<p(u)>>
        BY <2>1, ConcatProperties, ConcatEmptySeq
    <2> QED
        BY <1>2, <2>1, <2>2
  <1>4. stack \in [Thread -> Seq(Frame)]
      BY <1>2, <1>3
  <1>5. CASE t \notin Workloads
    <2>1. stack[t] = <<p(t)>> /\ Len(<<p(t)>>) = 1 /\ <<p(t)>>[1] = p(t)
        BY <1>3, <1>5
    <2>2. Depth(t) = 1 /\ Frm(t, 1) = p(t)
        BY <2>1 DEF Depth, Frm, FromBottom
    <2> QED
        BY <1>1, <1>4, <2>2
  <1>6. CASE t \in Workloads
    <2>1. PICK s \in Seq(Frame) : s = <<p(t)>> /\ Len(s) = 1 /\ s[1] = p(t)
      <3>1. <<p(t)>> \in Seq(Frame) /\ Len(<<p(t)>>) = 1 /\ <<p(t)>>[1] = p(t)
          BY <1>1
      <3> QED
          BY <3>1
    <2>2. stack[t] = <<a(t)>> \o s
        BY <1>3, <1>6, <2>1
    <2>3. /\ Len(<<a(t)>> \o s) = Len(s) + 1
          /\ FromBottom(<<a(t)>> \o s, Len(s) + 1) = a(t)
          /\ \A d \in 1 .. Len(s) : FromBottom(<<a(t)>> \o s, d) = FromBottom(s, d)
        BY <1>1, PushSeq
    <2>4. 1 \in 1 .. Len(s) /\ FromBottom(s, 1) = p(t)
        BY <2>1 DEF FromBottom
    <2>5. Depth(t) = 2 /\ Frm(t, 2) = a(t) /\ Frm(t, 1) = p(t)
        BY <2>1, <2>2, <2>3, <2>4 DEF Depth, Frm
    <2> QED
        BY <1>1, <1>4, <1>6, <2>5 DEF a
  <1> QED
      BY <1>5, <1>6

LEMMA InitialTypes ==
  ASSUME Init
  PROVE  TypeOK
  <1>1. StackOK
    <2>1. ASSUME NEW t \in Thread, NEW d \in 1 .. Depth(t)
          PROVE  FrameOK(t, d, Frm(t, d))
      <3>1. d = 1 \/ (d = 2 /\ Depth(t) = 2)
          BY <2>1, InitialStacks
      <3>2. CASE d = 1
        <4>1. Frm(t, d).op = "program"
            BY <3>2, InitialStacks
        <4> QED
            BY <3>2, <4>1 DEF FrameOK, TransitOps, AttachOps, CallOps, HelperOps, WaitOps
      <3>3. CASE d = 2 /\ Depth(t) = 2
        <4>1. t \in Workloads /\ Frm(t, d).op = "attach" /\ Frm(t, d).to = t
            BY <3>3, InitialStacks DEF F
        <4> QED
            BY <4>1 DEF FrameOK, TransitOps, AttachOps, CallOps, HelperOps, WaitOps
      <3> QED
          BY <3>1, <3>2, <3>3
    <2>2. stack \in [Thread -> Seq(Frame)]
        BY InitialStacks, ThreadsAssumption
    <2> QED
        BY <2>1, <2>2 DEF StackOK
  <1>2. QueuesOK
      BY DEF Init, QueuesOK
  <1>3. inbox \in [Thread -> Seq(Notification)] /\ mutex \in [Mutex -> Thread \cup {None}]
      BY DEF Init
  <1> QED
      BY <1>1, <1>2, <1>3 DEF Init, TypeOK

LEMMA InitialCalls ==
  ASSUME Init
  PROVE  CallInv /\ \A c \in Call : ~Running(c) /\ ~Waited(c)
  <1>1. ASSUME NEW t \in Thread, NEW d \in Nat
        PROVE  /\ \A c \in Call : ~Transit(t, d, c) /\ ~Helper(t, d, c) /\ ~Imp(t, d, c) /\ ~Wait(t, d, c)
               /\ \A x \in Thread \cup Call : Owner(t, d, x) => d = 1 /\ x = t
    <2>1. CASE d \in 1 .. Depth(t)
      <3>1. \/ d = 1 /\ Frm(t, d).op = "program"
            \/ d = 2 /\ Frm(t, d).op = "attach"
          BY <2>1, InitialStacks DEF F
      <3>2. Frm(t, d).op \notin TransitOps \cup HelperOps \cup WaitOps
          BY <3>1 DEF TransitOps, HelperOps, WaitOps
      <3> QED
          BY <3>1, <3>2 DEF Transit, Helper, Imp, Wait, Owner
    <2>2. CASE d \notin 1 .. Depth(t)
        BY <2>2 DEF Transit, Helper, Imp, Wait, Owner
    <2> QED
        BY <2>1, <2>2
  <1>2. \A c \in Call, t \in Thread, d \in Nat : ~Queued(t, d, c) /\ ~Left(t, d, c)
      BY DEF Init, Queued, Left
  <1>3. \A c \in Call : ~Pending(c) /\ ~Running(c) /\ ~Waited(c) /\ Fresh(c)
      BY <1>1, <1>2 DEF Pending, Running, Waited, Fresh, Init
  <1>4. OnePlace
      BY <1>1, <1>2 DEF OnePlace, Holder
  <1>5. RunsOnce
      BY <1>1, <1>3 DEF RunsOnce, Init
  <1>6. Awaited /\ WaitOK
      BY <1>1, <1>3 DEF Awaited, WaitOK
  <1>7. OwnerOK
    <2>1. ASSUME NEW t \in Thread, NEW d \in Nat, NEW x \in Thread \cup Call, Owner(t, d, x)
          PROVE  Progress(t, d, x)
      <3>1. d = 1 /\ x = t
          BY <1>1, <2>1
      <3>2. Rest(t, d) = Code(x)
          BY <3>1, InitialStacks DEF Rest, Code
      <3>3. Made(t, d, x) = 0 /\ Len(Code(x)) \in Nat
          BY <3>2, CodeType DEF Made
      <3>4. \A i \in 1 .. Len(Code(x)) : Fresh(Code(x)[i])
          BY <1>3, CodeType
      <3> QED
          BY <3>2, <3>3, <3>4 DEF Progress
    <2> QED
        BY <2>1 DEF OwnerOK
  <1>8. BegunOK
    <2>1. \A x \in Call : \A j \in 1 .. Len(Calls[x]) : Calls[x][j] \in Call
        BY CodeType
    <2> QED
        BY <1>3, <2>1 DEF BegunOK, Init
  <1> QED
      BY <1>3, <1>4, <1>5, <1>6, <1>7, <1>8 DEF CallInv

----------------------------------------------------------------------------
(* Theorems.                                                               *)

\* Stuttering changes nothing.
LEMMA StutterKeeps ==
  ASSUME TypeOK, CallInv, UNCHANGED vars
  PROVE  TypeOK' /\ CallInv' /\ SamePhases
  <1>1. UNCHANGED <<stack, alive, threadMap, childThread, actionQueue, waiting, mutex, opened,
                    inbox, ran, returned, aborted>>
      BY DEF vars
  <1>2. TypeOK' /\ Quiet
      BY <1>1 DEF TypeOK, StackOK, QueuesOK, Quiet, SameRoles, Transit, Helper, Imp, Wait, Owner, Rest, Depth, Frm
  <1>3. CallInv' /\ SamePhases
      BY <1>1, <1>2, QuietKeeps DEF TypeOK
  <1> QED
      BY <1>2, <1>3

\* The helper of a call is in one place, and its action runs once, on top of it;
\* its caller waits for it, and the calls that were made have returned but the
\* last.
THEOREM CallsInvariant == Spec => [](TypeOK /\ CallInv)
  <1>1. Init => TypeOK /\ CallInv
      BY InitialTypes, InitialCalls
  <1>2. TypeOK /\ CallInv /\ [Next]_vars => (TypeOK /\ CallInv)'
      BY StepKeeps, StutterKeeps DEF Next
  <1> QED
      BY <1>1, <1>2, PTL DEF Spec

\* Stacks hold frames, each about what its point in the code needs: queues and
\* workloads hold the calls of their thread, only the outermost frame is a program.
THEOREM TypeCorrect == Spec => []TypeOK
  BY CallsInvariant, PTL

\* A frame, wherever it is counted from.
LEMMA FrameAt ==
  ASSUME StackOK, NEW t \in Thread, NEW ops, NEW c
  PROVE  HasFrame(t, ops, c) <=> \E d \in 1 .. Depth(t) : Frm(t, d).op \in ops /\ Frm(t, d).call = c
  <1>1. /\ \A d \in 1 .. Depth(t) : Depth(t) + 1 - d \in 1 .. Depth(t)
                                    /\ Frm(t, d) = stack[t][Depth(t) + 1 - d]
        /\ \A i \in 1 .. Depth(t) : Depth(t) + 1 - i \in 1 .. Depth(t)
                                    /\ Frm(t, Depth(t) + 1 - i) = stack[t][i]
      BY Frames DEF StackOK
  <1>2. Len(stack[t]) = Depth(t)
      BY DEF Depth
  <1>3. ASSUME HasFrame(t, ops, c)
        PROVE  \E d \in 1 .. Depth(t) : Frm(t, d).op \in ops /\ Frm(t, d).call = c
    <2>1. PICK i \in 1 .. Depth(t) : stack[t][i].op \in ops /\ stack[t][i].call = c
        BY <1>2, <1>3 DEF HasFrame
    <2>2. PICK d : d = Depth(t) + 1 - i
        OBVIOUS
    <2>3. d \in 1 .. Depth(t) /\ Frm(t, d) = stack[t][i]
        BY <1>1, <2>2
    <2> QED
        BY <2>1, <2>3
  <1>4. ASSUME NEW d \in 1 .. Depth(t), Frm(t, d).op \in ops, Frm(t, d).call = c
        PROVE  HasFrame(t, ops, c)
    <2>1. PICK i : i = Depth(t) + 1 - d
        OBVIOUS
    <2>2. i \in 1 .. Len(stack[t]) /\ Frm(t, d) = stack[t][i]
        BY <1>1, <1>2, <2>1
    <2> QED
        BY <1>4, <2>2 DEF HasFrame
  <1> QED
      BY <1>3, <1>4

LEMMA FrameRoles ==
  ASSUME StackOK, NEW c \in Call
  PROVE  /\ \A t \in Thread : /\ HasFrame(t, HelperOps, c) <=> \E d \in Nat : Helper(t, d, c)
                              /\ HasFrame(t, {"imp"}, c) <=> \E d \in Nat : Imp(t, d, c)
                              /\ HasFrame(t, WaitOps, c) <=> \E d \in Nat : Wait(t, d, c)
         /\ (\E t \in Thread : HasFrame(t, {"imp"}, c)) <=> Running(c)
         /\ Outstanding(c) <=> Waited(c)
  <1>1. ASSUME NEW t \in Thread
        PROVE  /\ HasFrame(t, HelperOps, c) <=> \E d \in Nat : Helper(t, d, c)
               /\ HasFrame(t, {"imp"}, c) <=> \E d \in Nat : Imp(t, d, c)
               /\ HasFrame(t, WaitOps, c) <=> \E d \in Nat : Wait(t, d, c)
    <2>1. Depth(t) \in Nat /\ \A d \in 1 .. Depth(t) : d \in Nat
        BY Frames DEF StackOK
    <2>2. \A ops : HasFrame(t, ops, c) <=> \E d \in 1 .. Depth(t) : Frm(t, d).op \in ops /\ Frm(t, d).call = c
        BY FrameAt
    <2> QED
        BY <2>1, <2>2 DEF Helper, Imp, Wait
  <1>2. (\E t \in Thread : HasFrame(t, {"imp"}, c)) <=> Running(c)
      BY <1>1 DEF Running
  <1>3. Outstanding(c) <=> Waited(c)
      BY <1>1 DEF Waited, Outstanding
  <1> QED
      BY <1>1, <1>2, <1>3

\* A restricted action runs in the thread it is restricted to, also when it was
\* left with the workload before that thread existed.
THEOREM RestrictionKept == Spec => []RightThread
  <1>1. ASSUME TypeOK
        PROVE  RightThread
    <2> SUFFICES ASSUME NEW t \in Thread, NEW c \in Call, HasFrame(t, {"imp"}, c)
                 PROVE  To[c] \in {None, t}
        BY DEF RightThread
    <2>1. PICK d \in 1 .. Depth(t) : Frm(t, d).op \in {"imp"} /\ Frm(t, d).call = c
        BY <1>1, FrameAt DEF TypeOK
    <2>2. FrameOK(t, d, Frm(t, d))
        BY <1>1, <2>1 DEF TypeOK, StackOK
    <2> QED
        BY <2>1, <2>2 DEF FrameOK
  <1> QED
      BY <1>1, TypeCorrect, PTL

\* The helper action and its barrier, which live on the stack of the caller,
\* are there as long as a queue, a workload or a thread can reach them.
THEOREM HelperOutlivesUse == Spec => []HelperExists
  <1>1. ASSUME TypeOK, CallInv
        PROVE  HelperExists
    <2> SUFFICES ASSUME NEW c \in Call, Reachable(c)
                 PROVE  \E t \in Thread : HasFrame(t, WaitOps, c)
        BY DEF HelperExists
    <2>1. Pending(c) \/ (\E t \in Thread, d \in Nat : Helper(t, d, c))
      <3>1. CASE \E t \in Thread : HasFrame(t, HelperOps, c)
          BY <1>1, <3>1, FrameRoles DEF TypeOK
      <3>2. CASE \E t \in Thread : \E i \in 1 .. Len(actionQueue[t]) : actionQueue[t][i] = c
        <4>1. PICK t \in Thread, i \in Nat : i \in 1 .. Len(actionQueue[t]) /\ actionQueue[t][i] = c
            BY <3>2
        <4> QED
            BY <4>1 DEF Pending, Queued
      <3>3. CASE \E w \in Workloads : \E i \in 1 .. Len(waiting[w]) : waiting[w][i] = c
        <4>1. PICK w \in Workloads, i \in Nat : i \in 1 .. Len(waiting[w]) /\ waiting[w][i] = c
            BY <3>3
        <4> QED
            BY <4>1, ThreadsAssumption DEF Pending, Left
      <3> QED
          BY <3>1, <3>2, <3>3 DEF Reachable
    <2>2. Waited(c)
        BY <1>1, <2>1 DEF CallInv, Awaited
    <2> QED
        BY <1>1, <2>2, FrameRoles DEF TypeOK, Outstanding
  <1> QED
      BY <1>1, CallsInvariant, PTL

----------------------------------------------------------------------------
(* The promise of ActionBase::execute().                                   *)

\* Who makes a call.
LEMMA CallerIs ==
  ASSUME NEW c \in Call, NEW x \in Thread \cup Call
  PROVE  (x = CHOOSE y \in Thread \cup Call : \E i \in DOMAIN Code(y) : Code(y)[i] = c)
           <=> \E i \in DOMAIN Code(x) : Code(x)[i] = c
  <1>1. PICK z \in Thread \cup Call : \E i \in DOMAIN Code(z) : Code(z)[i] = c
      BY MadeAssumption
  <1>2. ASSUME NEW y \in Thread \cup Call, \E i \in DOMAIN Code(y) : Code(y)[i] = c
        PROVE  y = z
      BY <1>1, <1>2, OnceAssumption
  <1> DEFINE w == CHOOSE y \in Thread \cup Call : \E i \in DOMAIN Code(y) : Code(y)[i] = c
  <1>4. w \in Thread \cup Call /\ \E i \in DOMAIN Code(w) : Code(w)[i] = c
      BY <1>1
  <1> HIDE DEF w
  <1>5. w = z
      BY <1>2, <1>4
  <1>6. (x = w) <=> \E i \in DOMAIN Code(x) : Code(x)[i] = c
      BY <1>1, <1>2, <1>5
  <1> QED
      BY <1>6 DEF w

\* A call whose action has run is waited for until it returns.
EndedOK == \A c \in ran : c \in returned \/ Waited(c)

\* The phase of a call.
PhaseOf(c) ==
  IF c \in returned THEN "returned" ELSE IF c \in ran THEN "ran"
  ELSE IF Running(c) THEN "running" ELSE IF Waited(c) THEN "called" ELSE "idle"

PhasesAre == StackOK => \A c \in Call : Phase(c) = PhaseOf(c)

LEMMA PhaseIs == PhasesAre
  <1> SUFFICES ASSUME StackOK, NEW c \in Call
               PROVE  Phase(c) = PhaseOf(c)
      BY DEF PhasesAre
  <1>1. (\E t \in Thread : HasFrame(t, {"imp"}, c)) <=> Running(c)
      BY FrameRoles
  <1>2. Outstanding(c) <=> Waited(c)
      BY FrameRoles
  <1>3. CASE c \in returned
      BY <1>3 DEF Phase, PhaseOf
  <1>4. CASE c \notin returned /\ c \in ran
      BY <1>4 DEF Phase, PhaseOf
  <1>5. CASE c \notin returned /\ c \notin ran /\ Running(c)
      BY <1>1, <1>5 DEF Phase, PhaseOf
  <1>6. CASE c \notin returned /\ c \notin ran /\ ~Running(c)
      BY <1>1, <1>2, <1>6 DEF Phase, PhaseOf
  <1> QED
      BY <1>3, <1>4, <1>5, <1>6

LEMMA PhaseIsNext == PhasesAre'
  BY PhaseIs, PTL

phases == [c \in Call |-> Phase(c)]

\* What the phases say: an action runs while it is waited for, and the caller
\* waits for it until it returns.
LEMMA PhaseFacts ==
  ASSUME TypeOK, CallInv, EndedOK, NEW c \in Call
  PROVE  /\ Running(c) => Waited(c) /\ c \notin ran
         /\ Waited(c) => c \notin returned
         /\ c \in returned => c \in ran
         /\ c \in ran => c \in returned \/ Waited(c)
  <1>1. Running(c) => Waited(c) /\ c \notin ran
    <2> SUFFICES ASSUME Running(c)
                 PROVE  Waited(c) /\ c \notin ran
        OBVIOUS
    <2>1. PICK t \in Thread, d \in Nat : Imp(t, d, c)
        BY DEF Running
    <2>2. c \notin ran /\ d - 1 \in Nat /\ Helper(t, d - 1, c)
        BY <2>1 DEF CallInv, RunsOnce
    <2> QED
        BY <2>2 DEF CallInv, Awaited
  <1>2. Waited(c) => c \notin returned
      BY DEF Waited, CallInv, WaitOK
  <1> QED
      BY <1>1, <1>2 DEF CallInv, RunsOnce, EndedOK

\* An action that has run is waited for, or its call has returned.
LEMMA EndedKeeps ==
  ASSUME TypeOK, EndedOK, PhaseStep
  PROVE  EndedOK'
  <1>1. ran \subseteq Call
      BY DEF TypeOK
  <1>2. CASE SamePhases
      BY <1>1, <1>2 DEF SamePhases, EndedOK
  <1>3. ASSUME NEW x \in Thread \cup Call, NEW c \in Call, Invokes(x, c)
        PROVE  EndedOK'
      BY <1>1, <1>3 DEF Invokes, EndedOK
  <1>4. ASSUME NEW c \in Call, Begins(c)
        PROVE  EndedOK'
      BY <1>1, <1>4 DEF Begins, EndedOK
  <1>5. ASSUME NEW c \in Call, Ends(c)
        PROVE  EndedOK'
      BY <1>1, <1>5 DEF Ends, EndedOK
  <1>6. ASSUME NEW c \in Call, Returns(c)
        PROVE  EndedOK'
      BY <1>1, <1>6 DEF Returns, EndedOK
  <1> QED
      BY <1>2, <1>3, <1>4, <1>5, <1>6 DEF PhaseStep

\* A step changes the phase of one call, if any.
LEMMA PhasesSame ==
  ASSUME SamePhases
  PROVE  \A b \in Call : PhaseOf(b)' = PhaseOf(b)
  BY DEF SamePhases, PhaseOf

LEMMA PhasesChange ==
  ASSUME TypeOK, CallInv, EndedOK, NEW c \in Call
  PROVE  /\ \A x \in Thread \cup Call : Invokes(x, c) =>
              /\ PhaseOf(c) = "idle" /\ PhaseOf(c)' \in {"called", "running"}
              /\ \A b \in Call \ {c} : PhaseOf(b)' = PhaseOf(b)
         /\ Begins(c) => /\ PhaseOf(c) = "called" /\ PhaseOf(c)' = "running"
                         /\ \A b \in Call \ {c} : PhaseOf(b)' = PhaseOf(b)
         /\ Ends(c) => /\ PhaseOf(c) = "running" /\ PhaseOf(c)' = "ran"
                       /\ \A b \in Call \ {c} : PhaseOf(b)' = PhaseOf(b)
         /\ Returns(c) => /\ PhaseOf(c) = "ran" /\ PhaseOf(c)' = "returned"
                          /\ \A b \in Call \ {c} : PhaseOf(b)' = PhaseOf(b)
  <1>1. c \in returned => c \in ran
      BY PhaseFacts
  <1>2. ASSUME NEW x \in Thread \cup Call, Invokes(x, c)
        PROVE  /\ PhaseOf(c) = "idle" /\ PhaseOf(c)' \in {"called", "running"}
               /\ \A b \in Call \ {c} : PhaseOf(b)' = PhaseOf(b)
      BY <1>2 DEF Invokes, PhaseOf
  <1>3. ASSUME Begins(c)
        PROVE  /\ PhaseOf(c) = "called" /\ PhaseOf(c)' = "running"
               /\ \A b \in Call \ {c} : PhaseOf(b)' = PhaseOf(b)
      BY <1>1, <1>3 DEF Begins, PhaseOf
  <1>4. ASSUME Ends(c)
        PROVE  /\ PhaseOf(c) = "running" /\ PhaseOf(c)' = "ran"
               /\ \A b \in Call \ {c} : PhaseOf(b)' = PhaseOf(b)
      BY <1>1, <1>4 DEF Ends, PhaseOf
  <1>5. ASSUME Returns(c)
        PROVE  /\ PhaseOf(c) = "ran" /\ PhaseOf(c)' = "returned"
               /\ \A b \in Call \ {c} : PhaseOf(b)' = PhaseOf(b)
      BY <1>5 DEF Returns, PhaseOf
  <1> QED
      BY <1>2, <1>3, <1>4, <1>5

\* The phases of the abstract specification.
LEMMA PhasesType ==
  ASSUME StackOK, StackOK'
  PROVE  /\ phases = [b \in Call |-> PhaseOf(b)] /\ phases' = [b \in Call |-> PhaseOf(b)']
  <1>1. \A b \in Call : Phase(b) = PhaseOf(b)
      BY PhaseIs DEF PhasesAre
  <1>2. \A b \in Call : Phase(b)' = PhaseOf(b)'
      BY PhaseIsNext DEF PhasesAre
  <1>3. phases = [b \in Call |-> Phase(b)] /\ phases' = [b \in Call |-> Phase(b)']
      BY DEF phases
  <1> QED
      BY <1>1, <1>2, <1>3

Callers == [c \in Call |-> CHOOSE x \in Thread \cup Call : \E i \in DOMAIN Code(x) : Code(x)[i] = c]

LEMMA CallersAre ==
  ASSUME NEW c \in Call, NEW x \in Thread \cup Call
  PROVE  Callers[c] = x <=> \E i \in DOMAIN Code(x) : Code(x)[i] = c
  BY CallerIs DEF Callers

\* Where one phase changes, phases is the same function but there.
LEMMA OneChange ==
  ASSUME StackOK, StackOK', NEW c \in Call, \A b \in Call \ {c} : PhaseOf(b)' = PhaseOf(b)
  PROVE  phases' = [phases EXCEPT ![c] = PhaseOf(c)'] /\ phases[c] = PhaseOf(c)
  <1>1. phases = [b \in Call |-> PhaseOf(b)] /\ phases' = [b \in Call |-> PhaseOf(b)']
      BY PhasesType
  <1> QED
      BY <1>1

\* A step of a call is a step of the promise.
LEMMA InvokePromised ==
  ASSUME TypeOK, CallInv, EndedOK, StackOK', NEW x \in Thread \cup Call, NEW c \in Call, Invokes(x, c)
  PROVE  Promise!Invoke(c)
  <1>1. /\ PhaseOf(c) = "idle" /\ PhaseOf(c)' \in {"called", "running"}
        /\ phases' = [phases EXCEPT ![c] = PhaseOf(c)'] /\ phases[c] = PhaseOf(c)
      BY PhasesChange, OneChange DEF TypeOK
  <1>2. Callers[c] = x
      BY CallersAre DEF Invokes
  <1>3. phases = [b \in Call |-> PhaseOf(b)]
      BY PhasesType DEF TypeOK
  <1>4. Callers[c] \in Call => phases[Callers[c]] = "running"
    <2> SUFFICES ASSUME x \in Call
                 PROVE  PhaseOf(x) = "running"
        BY <1>2, <1>3
    <2>1. Running(x) /\ x \notin ran
        BY DEF Invokes
    <2>2. x \notin returned
        BY <2>1, PhaseFacts
    <2> QED
        BY <2>1, <2>2 DEF PhaseOf
  <1>5. ASSUME NEW d \in Call \ {c}, Callers[d] = Callers[c]
        PROVE  phases[d] \in {"idle", "returned"}
    <2>1. PICK i \in DOMAIN Code(x) : Code(x)[i] = d
        BY <1>2, <1>5, CallersAre
    <2>2. ~Waited(d)
        BY <2>1 DEF Invokes
    <2>3. ~Running(d) /\ (d \in ran => d \in returned)
        BY <2>2, PhaseFacts
    <2>4. PhaseOf(d) \in {"idle", "returned"}
        BY <2>2, <2>3 DEF PhaseOf
    <2> QED
        BY <1>3, <2>4
  <1>6. /\ phases[c] = "idle"
        /\ \A d \in Call \ {c} : Callers[d] = Callers[c] => ~(phases[d] \notin {"idle", "returned"})
        /\ \E p \in {"called", "running"} : phases' = [phases EXCEPT ![c] = p]
      BY <1>1, <1>5
  <1> QED
      BY <1>4, <1>6 DEF Promise!Invoke, Promise!Outstanding, phases, Callers

LEMMA RunPromised ==
  ASSUME TypeOK, CallInv, EndedOK, StackOK', NEW c \in Call, Begins(c)
  PROVE  Promise!Run(c)
  <1>1. phases[c] = "called" /\ phases' = [phases EXCEPT ![c] = "running"]
      BY PhasesChange, OneChange DEF TypeOK
  <1> QED
      BY <1>1 DEF Promise!Run, phases

LEMMA FinishPromised ==
  ASSUME TypeOK, CallInv, EndedOK, StackOK', NEW c \in Call, Ends(c)
  PROVE  Promise!Finish(c)
  <1>1. phases[c] = "running" /\ phases' = [phases EXCEPT ![c] = "ran"]
      BY PhasesChange, OneChange DEF TypeOK
  <1>2. phases = [b \in Call |-> PhaseOf(b)]
      BY PhasesType DEF TypeOK
  <1>3. ASSUME NEW d \in Call, Callers[d] = c
        PROVE  phases[d] = "returned"
    <2>1. PICK i \in DOMAIN Code(c) : Code(c)[i] = d
        BY <1>3, CallersAre
    <2>2. i \in 1 .. Len(Calls[c]) /\ Calls[c][i] = d
        BY <2>1, CodeType
    <2>3. d \in returned
        BY <2>2 DEF Ends
    <2> QED
        BY <1>2, <2>3 DEF PhaseOf
  <1> QED
      BY <1>1, <1>3 DEF Promise!Finish, phases, Callers

LEMMA ReturnPromised ==
  ASSUME TypeOK, CallInv, EndedOK, StackOK', NEW c \in Call, Returns(c)
  PROVE  Promise!Return(c)
  <1>1. phases[c] = "ran" /\ phases' = [phases EXCEPT ![c] = "returned"]
      BY PhasesChange, OneChange DEF TypeOK
  <1> QED
      BY <1>1 DEF Promise!Return, phases

\* What a step does to the calls is a step of the promise, or none.
LEMMA StepPromised ==
  ASSUME TypeOK, CallInv, EndedOK, StackOK', PhaseStep
  PROVE  [Promise!Next]_phases
  <1>1. CASE SamePhases
    <2>1. phases = [b \in Call |-> PhaseOf(b)] /\ phases' = [b \in Call |-> PhaseOf(b)']
        BY PhasesType DEF TypeOK
    <2> QED
        BY <1>1, <2>1, PhasesSame
  <1>2. ASSUME NEW x \in Thread \cup Call, NEW c \in Call, Invokes(x, c)
        PROVE  Promise!Next
      BY <1>2, InvokePromised DEF Promise!Next
  <1>3. ASSUME NEW c \in Call, Begins(c) \/ Ends(c) \/ Returns(c)
        PROVE  Promise!Next
      BY <1>3, RunPromised, FinishPromised, ReturnPromised DEF Promise!Next
  <1> QED
      BY <1>1, <1>2, <1>3 DEF PhaseStep

\* The calls of execute() behave as its caller expects, whatever thread the
\* action runs in and whatever the threads do meanwhile: the caller makes one
\* call at a time, and goes on when the action has run, once, with every call
\* that the action makes itself.
THEOREM ExecutionRefinement == Spec => ImplementsExecution
  <1> DEFINE Inv == TypeOK /\ CallInv /\ EndedOK
  <1>1. Init => Inv /\ Promise!Init
    <2> SUFFICES ASSUME Init
                 PROVE  Inv /\ Promise!Init
        OBVIOUS
    <2>1. TypeOK /\ CallInv /\ EndedOK
        BY InitialTypes, InitialCalls DEF Init, EndedOK
    <2>2. \A c \in Call : PhaseOf(c) = "idle"
        BY InitialCalls DEF Init, PhaseOf
    <2>3. phases = [c \in Call |-> PhaseOf(c)]
      <3>1. \A b \in Call : Phase(b) = PhaseOf(b)
          BY <2>1, PhaseIs DEF PhasesAre, TypeOK
      <3> QED
          BY <3>1 DEF phases
    <2>4. phases = [c \in Call |-> "idle"]
        BY <2>2, <2>3
    <2> QED
        BY <2>1, <2>4 DEF Promise!Init, phases
  <1>2. Inv /\ [Next]_vars => Inv' /\ [Promise!Next]_phases
    <2> SUFFICES ASSUME Inv, [Next]_vars
                 PROVE  Inv' /\ [Promise!Next]_phases
        OBVIOUS
    <2>1. TypeOK' /\ CallInv' /\ PhaseStep
        BY StepKeeps, StutterKeeps DEF Next, PhaseStep
    <2> QED
        BY <2>1, EndedKeeps, StepPromised DEF TypeOK
  <1>3. Inv /\ [Next]_vars => Inv' /\ [Promise!Next]_([c \in Call |-> Phase(c)])
      BY <1>2 DEF phases
  <1> QED
      BY <1>1, <1>3, PTL DEF Spec, ImplementsExecution, Promise!Spec

----------------------------------------------------------------------------
(* Queued actions are announced.                                           *)

\* The frames of a stack.
On(s) == {s[i] : i \in 1 .. Len(s)}

\* What is put on a stack hides nothing, what is taken from it is one frame.
LEMMA OnPut ==
  ASSUME NEW S, NEW p \in Seq(S), NEW s \in Seq(S)
  PROVE  p \o s \in Seq(S) /\ On(s) \subseteq On(p \o s) /\ On(p) \subseteq On(p \o s)
  <1>1. /\ Len(p) \in Nat /\ Len(s) \in Nat /\ p \o s \in Seq(S) /\ Len(p \o s) = Len(p) + Len(s)
        /\ \A i \in 1 .. Len(s) : Len(p) + i \in 1 .. Len(p) + Len(s) /\ (p \o s)[Len(p) + i] = s[i]
        /\ \A i \in 1 .. Len(p) : i \in 1 .. Len(p) + Len(s) /\ (p \o s)[i] = p[i]
      BY LenProperties, ConcatProperties
  <1> DEFINE q == p \o s
  <1>2. /\ Len(q) = Len(p) + Len(s)
        /\ \A i \in 1 .. Len(s) : Len(p) + i \in 1 .. Len(q) /\ q[Len(p) + i] = s[i]
        /\ \A i \in 1 .. Len(p) : i \in 1 .. Len(q) /\ q[i] = p[i]
      BY <1>1
  <1> HIDE DEF q
  <1>3. On(s) \subseteq On(q) /\ On(p) \subseteq On(q)
      BY <1>2 DEF On
  <1> QED
      BY <1>1, <1>3 DEF q

LEMMA OnTake ==
  ASSUME NEW S, NEW s \in Seq(S), s # <<>>
  PROVE  /\ Tail(s) \in Seq(S) /\ On(s) \subseteq On(Tail(s)) \cup {Head(s)}
         /\ On(Tail(s)) \subseteq On(s) /\ Head(s) \in On(s)
  <1> DEFINE q == Tail(s)
  <1>1. /\ q \in Seq(S) /\ Len(s) \in Nat \ {0} /\ Len(q) = Len(s) - 1 /\ Head(s) = s[1]
        /\ \A i \in 1 .. Len(q) : q[i] = s[i + 1]
      BY EmptySeq, HeadTailProperties, LenProperties
  <1> HIDE DEF q
  <1>2. ASSUME NEW i \in 1 .. Len(s), i # 1
        PROVE  s[i] \in On(q)
    <2>1. i - 1 \in 1 .. Len(q) /\ q[i - 1] = s[i]
        BY <1>1, <1>2
    <2> QED
        BY <2>1 DEF On
  <1>3. ASSUME NEW i \in 1 .. Len(q)
        PROVE  q[i] \in On(s)
    <2>1. i + 1 \in 1 .. Len(s) /\ q[i] = s[i + 1]
        BY <1>1, <1>3
    <2> QED
        BY <2>1 DEF On
  <1>4. 1 \in 1 .. Len(s)
      BY <1>1
  <1>5. On(s) \subseteq On(q) \cup {Head(s)} /\ On(q) \subseteq On(s) /\ Head(s) \in On(s)
      BY <1>1, <1>2, <1>3, <1>4 DEF On
  <1> QED
      BY <1>1, <1>5 DEF q

LEMMA PutOne ==
  ASSUME NEW S, NEW f \in S, NEW s \in Seq(S)
  PROVE  /\ <<f>> \in Seq(S) /\ <<f>> \o s # <<>> /\ Head(<<f>> \o s) = f
         /\ On(s) \subseteq On(<<f>> \o s) /\ f \in On(<<f>> \o s)
  <1>1. <<f>> \in Seq(S) /\ Len(<<f>>) = 1 /\ <<f>>[1] = f /\ 1 \in 1 .. 1
      OBVIOUS
  <1>2. f \in On(<<f>>)
      BY <1>1 DEF On
  <1>3. <<f>> \o s # <<>> /\ Head(<<f>> \o s) = f
      BY <1>1
  <1> QED
      BY <1>1, <1>2, <1>3, OnPut

\* Goto, and a frame on top or instead of the one on top.
LEMMA GotoAt ==
  ASSUME StackOK, NEW t \in Thread, stack[t] # <<>>, NEW op \in Op, Goto(t, op)
  PROVE  /\ At(t, op)' /\ \E f \in On(stack'[t]) : f.op = op /\ f.to = Top(t).to
         /\ On(stack[t]) \subseteq On(stack'[t]) \cup {Top(t)}
  <1> DEFINE g == [Head(stack[t]) EXCEPT !.op = op]
  <1>1. stack[t] \in Seq(Frame)
      BY DEF StackOK
  <1>2. Tail(stack[t]) \in Seq(Frame) /\ Head(stack[t]) \in Frame
        /\ On(stack[t]) \subseteq On(Tail(stack[t])) \cup {Top(t)}
      BY <1>1, OnTake, HeadTailProperties DEF Top
  <1>3. g \in Frame /\ g.op = op /\ g.to = Top(t).to
      BY <1>2 DEF Frame, Top
  <1>4. stack'[t] = <<g>> \o Tail(stack[t])
      BY DEF Goto, StackOK
  <1> HIDE DEF g
  <1>5. /\ stack'[t] # <<>> /\ Head(stack'[t]) = g /\ g \in On(stack'[t])
        /\ On(Tail(stack[t])) \subseteq On(stack'[t])
      BY <1>2, <1>3, <1>4, PutOne
  <1> QED
      BY <1>2, <1>3, <1>5 DEF At, Top

LEMMA PutAt ==
  ASSUME StackOK, NEW t \in Thread, NEW g \in Frame, NEW s \in Seq(Frame),
         stack' = [stack EXCEPT ![t] = <<g>> \o s]
  PROVE  At(t, g.op)' /\ On(s) \subseteq On(stack'[t])
  <1>1. stack'[t] = <<g>> \o s
      BY DEF StackOK
  <1>2. stack'[t] # <<>> /\ Head(stack'[t]) = g /\ On(s) \subseteq On(stack'[t])
      BY <1>1, PutOne
  <1> QED
      BY <1>2 DEF At, Top

\* The frames a call puts on the stack.
LEMMA CallPuts ==
  ASSUME StackOK, NEW t \in Thread, Execute(t)
  PROVE  On(Tail(stack[t])) \subseteq On(stack'[t])
  <1>1. PICK b : b = Top(t)
      OBVIOUS
  <1>2. stack[t] # <<>> /\ b.rest # <<>> /\ stack[t] \in Seq(Frame)
      BY <1>1 DEF Execute, StackOK
  <1>3. b \in Frame /\ b.rest \in Seq(Call) /\ Tail(stack[t]) \in Seq(Frame)
    <2>1. b \in Frame
        BY <1>1, <1>2, Frames DEF StackOK
    <2> QED
        BY <2>1, <1>2, HeadTailProperties DEF Frame
  <1>4. PICK c : c = Head(b.rest)
      OBVIOUS
  <1>5. c \in Call /\ Tail(b.rest) \in Seq(Call)
      BY <1>2, <1>3, <1>4, HeadTailProperties
  <1>6. PICK w, o : w = F("wait", c, None) /\ o = [b EXCEPT !.rest = Tail(b.rest)]
      OBVIOUS
  <1>7. w \in Frame /\ o \in Frame
    <2>1. "wait" \in Op /\ <<>> \in Seq(Call)
        BY DEF Op, CallOps, WaitOps
    <2> QED
        BY <1>3, <1>5, <1>6, <2>1 DEF F, Frame
  <1>8. PICK st : st = Start(t, c)
      OBVIOUS
  <1>9. st \in Seq(Frame)
    <2>1. PICK f, h : f = ImpFrame(c) /\ h = HelperFrame(c)
        OBVIOUS
    <2>2. f \in Frame /\ h \in Frame /\ (st = <<f, h>> \/ \E g \in Frame : st = <<g>>)
        BY <1>5, <1>8, <2>1, StartFrames
    <2>3. <<f, h>> \in Seq(Frame) /\ \A g \in Frame : <<g>> \in Seq(Frame)
        BY <2>2
    <2> QED
        BY <2>2, <2>3
  <1>10. stack'[t] = st \o <<w>> \o <<o>> \o Tail(stack[t])
      BY <1>1, <1>4, <1>6, <1>8 DEF Execute, Top, StackOK
  <1>11. PICK q : q = st \o <<w>> \o <<o>>
      OBVIOUS
  <1>12. q \in Seq(Frame)
    <2>1. <<w>> \in Seq(Frame) /\ <<o>> \in Seq(Frame)
        BY <1>7
    <2> QED
        BY <1>9, <1>11, <2>1, ConcatProperties
  <1> QED
      BY <1>3, <1>10, <1>11, <1>12, OnPut

\* Two frames that are put on a stack hide nothing.
LEMMA TwoPut ==
  ASSUME NEW f \in Frame, NEW g \in Frame, NEW s \in Seq(Frame)
  PROVE  On(s) \subseteq On(<<f, g>> \o s)
  <1>1. <<f, g>> \in Seq(Frame)
      OBVIOUS
  <1> QED
      BY <1>1, OnPut

\* A redirection to a handler, and the execution of a queued action, hide nothing.
LEMMA EnterHides ==
  ASSUME TypeOK, NEW t \in Thread, Interrupt(t) \/ (ProcessActions(t) /\ actionQueue[t] # <<>>)
  PROVE  On(stack[t]) \subseteq On(stack'[t])
  <1>1. StackOK /\ stack \in [Thread -> Seq(Frame)] /\ stack[t] \in Seq(Frame)
      BY DEF TypeOK, StackOK
  <1>2. CASE Interrupt(t)
    <2>1. PICK g : g = Handler(Head(inbox[t]))
        OBVIOUS
    <2>2. inbox[t] \in Seq(Notification) /\ inbox[t] # <<>>
        BY <1>2 DEF TypeOK, Interrupt
    <2>3. Head(inbox[t]) \in Notification
        BY <2>2, HeadTailProperties
    <2>4. g \in Frame
        BY <2>1, <2>3, HandlerFrame
    <2>5. stack' = [stack EXCEPT ![t] = <<g>> \o stack[t]]
        BY <1>2, <2>1 DEF Interrupt, Enter
    <2> QED
        BY <1>1, <2>4, <2>5, PutAt
  <1>3. CASE ProcessActions(t) /\ actionQueue[t] # <<>>
    <2>1. PICK c : c = Head(actionQueue[t])
        OBVIOUS
    <2>2. actionQueue[t] \in Seq(Call)
        BY DEF TypeOK, QueuesOK
    <2>3. c \in Call
        BY <1>3, <2>1, <2>2, HeadTailProperties
    <2>4. PICK f, h : f = ImpFrame(c) /\ h = HelperFrame(c)
        OBVIOUS
    <2>5. f \in Frame /\ h \in Frame
        BY <2>3, <2>4, StartFrames
    <2>6. Enter(t, <<f, h>>)
        BY <1>3, <2>1, <2>4 DEF ProcessActions, ImpFrame, HelperFrame
    <2>7. stack'[t] = <<f, h>> \o stack[t]
        BY <1>1, <2>6 DEF Enter
    <2> QED
        BY <1>1, <2>5, <2>7, TwoPut
  <1> QED
      BY <1>2, <1>3

\* A step of a thread keeps its frames, but for the one on top.
LEMMA FramesStay ==
  ASSUME TypeOK, NEW t \in Thread, ThreadStep(t)
  PROVE  On(stack[t]) \subseteq On(stack'[t]) \cup {Top(t)}
  <1>1. StackOK /\ stack \in [Thread -> Seq(Frame)] /\ stack[t] \in Seq(Frame)
      BY DEF TypeOK, StackOK
  <1>2. ASSUME stack[t] # <<>>
        PROVE  Tail(stack[t]) \in Seq(Frame) /\ On(stack[t]) \subseteq On(Tail(stack[t])) \cup {Top(t)}
      BY <1>1, <1>2, OnTake DEF Top
  <1>3. CASE EndAction(t) \/ OpenBarrier(t) \/ PassBarrier(t) \/ QueueInDeleted(t) \/ ThreadReturns(t)
             \/ Notify(t) \/ Answered(t) \/ ThreadExits(t) \/ (Forward(t) /\ waiting[t] = <<>>)
    <2>1. stack[t] # <<>> /\ Leave(t)
        BY <1>3 DEF EndAction, OpenBarrier, Sleep, PassBarrier, QueueInDeleted, ThreadReturns, Notify,
                     Answered, ThreadExits, Forward, At
    <2> QED
        BY <1>1, <1>2, <2>1 DEF Leave
  <1>4. CASE Lock(t) \/ Sleep(t) \/ Found(t) \/ Pushed(t) \/ AttachFound(t) \/ LookedUp(t)
             \/ (Asked(t) /\ Top(t).to \notin childThread)
    <2>1. stack[t] # <<>> /\ \E op \in Op : Goto(t, op)
      <3>1. {"push", "notify", "forward", "process", "answered", "asleep"} \subseteq Op
          BY DEF Op, OtherOps, TransitOps, AttachOps, HandlerOps, CallOps, WaitOps
      <3>2. CASE Lock(t)
        <4>1. Top(t).op \in DOMAIN AfterLock
            BY <3>2 DEF Lock
        <4>2. AfterLock[Top(t).op] \in Op
            BY <4>1 DEF AfterLock, Op, OtherOps, TransitOps, AttachOps, HandlerOps, CallOps, HelperOps, WaitOps
        <4> QED
            BY <3>2, <4>2 DEF Lock
      <3>3. CASE ~Lock(t)
          BY <1>4, <3>1, <3>3 DEF Sleep, Found, Pushed, AttachFound, LookedUp, Asked, At
      <3> QED
          BY <3>2, <3>3
    <2> QED
        BY <1>1, <2>1, GotoAt
  <1>5. CASE Asked(t) /\ Top(t).to \in childThread
    <2>1. PICK f, g : f = F("push", Top(t).call, Top(t).to) /\ g = F("answered", None, Top(t).to)
        OBVIOUS
    <2>2. stack[t] # <<>> /\ stack'[t] = <<f, g>> \o Tail(stack[t])
        BY <1>1, <1>5, <2>1 DEF Asked, At
    <2>3. f \in Frame /\ g \in Frame
      <3>1. Top(t).op = "asked"
          BY <1>5 DEF Asked, At
      <3>2. Top(t).call \in Call /\ Top(t).to \in Thread
          BY <1>1, <2>2, <3>1, TopOK DEF TransitOps
      <3>3. {"push", "answered"} \subseteq Op /\ <<>> \in Seq(Call)
          BY DEF Op, OtherOps, TransitOps
      <3> QED
          BY <2>1, <3>2, <3>3 DEF F, Frame
    <2>4. Tail(stack[t]) \in Seq(Frame)
        BY <1>2, <2>2
    <2>5. On(Tail(stack[t])) \subseteq On(stack'[t])
        BY <2>2, <2>3, <2>4, TwoPut
    <2> QED
        BY <1>2, <2>2, <2>5
  <1>6. CASE Execute(t)
    <2>1. stack[t] # <<>>
        BY <1>6 DEF Execute
    <2> QED
        BY <1>1, <1>2, <1>6, <2>1, CallPuts
  <1>7. CASE Forward(t) /\ waiting[t] # <<>>
    <2>1. PICK g : g = F("push", Head(waiting[t]), t)
        OBVIOUS
    <2>2. g \in Frame
      <3>1. Top(t).op = "forward" /\ stack[t] # <<>>
          BY <1>7 DEF Forward, At
      <3>2. t \in Workloads
          BY <1>1, <3>1, TopOK DEF AttachOps
      <3>3. waiting[t] \in Seq(Call)
          BY <3>2 DEF TypeOK, QueuesOK
      <3>4. Head(waiting[t]) \in Call
          BY <1>7, <3>3, HeadTailProperties
      <3>5. "push" \in Op /\ <<>> \in Seq(Call)
          BY DEF Op, TransitOps
      <3> QED
          BY <2>1, <3>4, <3>5 DEF F, Frame
    <2>3. stack' = [stack EXCEPT ![t] = <<g>> \o stack[t]]
        BY <1>7, <2>1 DEF Forward, Enter
    <2> QED
        BY <1>1, <2>2, <2>3, PutAt
  <1>8. CASE Interrupt(t) \/ (ProcessActions(t) /\ actionQueue[t] # <<>>)
      BY <1>8, EnterHides
  <1>9. CASE Forgot(t) \/ (ProcessActions(t) /\ actionQueue[t] = <<>>)
    <2>1. stack[t] # <<>> /\ NextNotification(t)
        BY <1>9 DEF Forgot, ProcessActions, At
    <2>2. CASE inbox[t] = <<>>
        BY <1>1, <1>2, <2>1, <2>2 DEF NextNotification, Leave
    <2>3. CASE inbox[t] # <<>>
      <3>1. PICK g : g = Handler(Head(inbox[t]))
          OBVIOUS
      <3>2. inbox[t] \in Seq(Notification)
          BY DEF TypeOK
      <3>3. Head(inbox[t]) \in Notification
          BY <2>3, <3>2, HeadTailProperties
      <3>4. g \in Frame
          BY <3>1, <3>3, HandlerFrame
      <3>5. stack' = [stack EXCEPT ![t] = <<g>> \o Tail(stack[t])]
          BY <2>1, <2>3, <3>1 DEF NextNotification
      <3>6. Tail(stack[t]) \in Seq(Frame)
          BY <1>2, <2>1
      <3>7. On(Tail(stack[t])) \subseteq On(stack'[t])
          BY <1>1, <3>4, <3>5, <3>6, PutAt
      <3> QED
          BY <1>2, <2>1, <3>7
    <2> QED
        BY <2>2, <2>3
  <1>10. CASE Abort(t)
      BY <1>10 DEF Abort
  <1> QED
      BY <1>3, <1>4, <1>5, <1>6, <1>7, <1>8, <1>9, <1>10 DEF ThreadStep

\* Only the stack of the thread that makes the step changes.
LEMMA OthersStay ==
  ASSUME TypeOK, NEW t \in Thread, ThreadStep(t)
  PROVE  \A u \in Thread \ {t} : stack'[u] = stack[u]
  <1>1. stack \in [Thread -> Seq(Frame)]
      BY DEF TypeOK, StackOK
  <1>2. stack' = stack \/ \E s : stack' = [stack EXCEPT ![t] = s]
    <2>1. CASE \/ Lock(t) \/ Abort(t) \/ QueueInDeleted(t) \/ EndAction(t) \/ OpenBarrier(t)
               \/ Sleep(t) \/ PassBarrier(t) \/ Found(t) \/ Pushed(t) \/ Notify(t) \/ Answered(t)
        BY <2>1 DEF Lock, Abort, QueueInDeleted, EndAction, OpenBarrier, Sleep, PassBarrier, Found, Pushed,
                     Notify, Answered, Goto, Leave
    <2>2. CASE \/ AttachFound(t) \/ Interrupt(t) \/ LookedUp(t) \/ ThreadReturns(t) \/ ThreadExits(t)
        BY <2>2 DEF AttachFound, Interrupt, LookedUp, ThreadReturns, ThreadExits, Goto, Enter, Leave
    <2>3. CASE Forward(t)
        BY <2>3 DEF Forward, Enter, Leave
    <2>4. CASE ProcessActions(t) \/ Forgot(t)
        BY <2>4 DEF ProcessActions, Forgot, NextNotification, Enter, Leave
    <2>5. CASE Execute(t)
        BY <2>5 DEF Execute
    <2>6. CASE Asked(t)
        BY <2>6 DEF Asked, Goto
    <2> QED
        BY <2>1, <2>2, <2>3, <2>4, <2>5, <2>6 DEF ThreadStep
  <1> QED
      BY <1>1, <1>2

\* How a thread will come to look at its queue.
Looking(r) == At(r, "lookup") \/ At(r, "lookedUp") \/ \E f \in On(stack[r]) : f.op = "process"
Told(r) == \E i \in 1 .. Len(inbox[r]) : inbox[r][i].event = "ProcessActions"
Telling(t, r) == \E f \in On(stack[t]) : f.op = "notify" /\ f.to = r
Ending(r) == At(r, "exiting") \/ At(r, "exitFound")

LEMMA AnnouncedIs ==
  ActionAnnounced <=>
    \A r \in alive : actionQueue[r] # <<>> =>
      Looking(r) \/ Told(r) \/ (\E t \in Thread : Telling(t, r)) \/ Ending(r)
  BY DEF ActionAnnounced, Looking, Told, Telling, Ending, On

\* A frame that a step of t takes away was on top, and the step is not one
\* that puts a handler or an action on it.
LEMMA Taken ==
  ASSUME TypeOK, NEW t \in Thread, ThreadStep(t), NEW u \in Thread,
         NEW f \in On(stack[u]), f \notin On(stack'[u])
  PROVE  /\ u = t /\ f = Top(t) /\ ~Interrupt(t)
         /\ ~(ProcessActions(t) /\ actionQueue[t] # <<>>)
  <1>1. u = t
      BY OthersStay
  <1>2. f = Top(t)
      BY <1>1, FramesStay
  <1>3. ~Interrupt(t) /\ ~(ProcessActions(t) /\ actionQueue[t] # <<>>)
      BY <1>1, EnterHides
  <1> QED
      BY <1>1, <1>2, <1>3

\* Only the step of a point of the code leaves it, or a redirection.
LEMMA StepAt ==
  ASSUME NEW t \in Thread, ThreadStep(t), stack[t] # <<>>
  PROVE  /\ Top(t).op = "process" => ProcessActions(t) \/ Interrupt(t)
         /\ Top(t).op = "notify" => Notify(t) \/ Interrupt(t)
         /\ Top(t).op \in {"lookup", "exiting"} => Lock(t) \/ Interrupt(t)
         /\ Top(t).op = "lookedUp" => LookedUp(t) \/ Interrupt(t) \/ UNCHANGED <<stack, alive, inbox>>
         /\ Top(t).op = "exitFound" => ThreadExits(t) \/ Interrupt(t)
  BY DEF ThreadStep, Lock, Abort, QueueInDeleted, Execute, EndAction, OpenBarrier, Sleep, PassBarrier, Found,
         Pushed, Notify, Asked, Answered, AttachFound, Forward, LookedUp, ProcessActions, Forgot,
         ThreadReturns, ThreadExits, AfterLock, At

\* A thread in a handler is not redirected.
LEMMA HandlerOnTop ==
  ASSUME TypeOK, NEW t \in Thread, stack[t] # <<>>, Top(t).op \in HandlerOps
  PROVE  ~Interrupt(t)
  <1>1. stack[t] \in Seq(Frame)
      BY DEF TypeOK, StackOK
  <1>2. Len(stack[t]) \in Nat \ {0} /\ Top(t) = stack[t][1]
      BY <1>1, EmptySeq DEF Top
  <1>3. 1 \in 1 .. Len(stack[t])
      BY <1>2
  <1> QED
      BY <1>2, <1>3 DEF Interrupt, InHandler

\* A notification stays until it is handled, and is handled by looking at the
\* queue; only the end of the thread drops it.
LEMMA ToldStays ==
  ASSUME TypeOK, NEW t \in Thread, ThreadStep(t), NEW r \in Thread, r \in alive', Told(r)
  PROVE  Told(r)' \/ At(r, "lookup")'
  <1>1. inbox \in [Thread -> Seq(Notification)] /\ inbox[r] \in Seq(Notification) /\ StackOK
      BY DEF TypeOK
  <1>2. PICK i \in 1 .. Len(inbox[r]) : inbox[r][i].event = "ProcessActions"
      BY DEF Told
  <1>3. CASE inbox'[r] = inbox[r]
      BY <1>2, <1>3 DEF Told
  <1>4. ASSUME NEW x \in Notification, inbox'[r] = Append(inbox[r], x)
        PROVE  Told(r)'
    <2>1. i \in 1 .. Len(inbox'[r]) /\ inbox'[r][i] = inbox[r][i]
        BY <1>1, <1>4, AppendProperties, LenProperties
    <2> QED
        BY <1>2, <2>1 DEF Told
  <1>5. ASSUME inbox[t] # <<>>, inbox' = [inbox EXCEPT ![t] = Tail(@)], t = r,
               NEW s \in Seq(Frame), stack' = [stack EXCEPT ![t] = <<Handler(Head(inbox[t]))>> \o s]
        PROVE  Told(r)' \/ At(r, "lookup")'
    <2>1. PICK q : q = Tail(inbox[r])
        OBVIOUS
    <2>2. /\ inbox'[r] = q /\ Head(inbox[r]) = inbox[r][1] /\ Head(inbox[r]) \in Notification
          /\ Len(inbox[r]) \in Nat \ {0} /\ Len(q) = Len(inbox[r]) - 1
          /\ \A j \in 1 .. Len(q) : q[j] = inbox[r][j + 1]
        BY <1>1, <1>5, <2>1, EmptySeq, HeadTailProperties
    <2>3. CASE i = 1
      <3>1. PICK g : g = Handler(Head(inbox[t]))
          OBVIOUS
      <3>2. g = F("lookup", None, None)
        <4>1. PICK n \in Notification : n = Head(inbox[t])
            BY <1>5, <2>2
        <4>2. n.event = "ProcessActions"
            BY <1>2, <1>5, <2>2, <2>3, <4>1
        <4>3. Handler(n) = F("lookup", None, None)
            BY <4>2 DEF Handler
        <4> QED
            BY <3>1, <4>1, <4>3
      <3>3. g.op = "lookup"
          BY <3>2 DEF F
      <3>4. g \in Frame
        <4>1. Head(inbox[t]) \in Notification
            BY <1>5, <2>2
        <4> QED
            BY <3>1, <4>1, HandlerFrame
      <3> QED
          BY <1>1, <1>5, <3>1, <3>3, <3>4, PutAt
    <2>4. CASE i # 1
      <3>1. i - 1 \in 1 .. Len(q) /\ q[i - 1] = inbox[r][i]
          BY <2>2, <2>4
      <3> QED
          BY <1>2, <2>2, <3>1 DEF Told
    <2> QED
        BY <2>3, <2>4
  <1>6. CASE Interrupt(t)
    <2>1. CASE t = r
      <3>1. stack[t] \in Seq(Frame) /\ stack' = [stack EXCEPT ![t] = <<Handler(Head(inbox[t]))>> \o stack[t]]
          BY <1>1, <1>6 DEF Interrupt, Enter, StackOK
      <3> QED
          BY <1>5, <1>6, <2>1, <3>1 DEF Interrupt
    <2>2. CASE t # r
        BY <1>1, <1>3, <1>6, <2>2 DEF Interrupt
    <2> QED
        BY <2>1, <2>2
  <1>7. CASE NextNotification(t) /\ stack[t] # <<>>
    <2>1. CASE t = r /\ inbox[t] # <<>>
      <3>1. /\ Tail(stack[t]) \in Seq(Frame)
            /\ stack' = [stack EXCEPT ![t] = <<Handler(Head(inbox[t]))>> \o Tail(stack[t])]
        <4>1. stack[t] \in Seq(Frame)
            BY <1>1 DEF StackOK
        <4> QED
            BY <1>7, <2>1, <4>1, HeadTailProperties DEF NextNotification
      <3> QED
          BY <1>5, <1>7, <2>1, <3>1 DEF NextNotification
    <2>2. CASE t # r \/ inbox[t] = <<>>
        BY <1>1, <1>3, <1>7, <2>2 DEF NextNotification
    <2> QED
        BY <2>1, <2>2
  <1>8. CASE Notify(t)
    <2>1. Ntf("ProcessActions", None) \in Notification
        BY DEF Notification
    <2>2. PICK q : q = Top(t).to
        OBVIOUS
    <2>3. inbox' = inbox \/ inbox' = [inbox EXCEPT ![q] = Append(@, Ntf("ProcessActions", None))]
        BY <1>8, <2>2 DEF Notify
    <2> QED
        BY <1>1, <1>3, <1>4, <2>1, <2>3
  <1>9. CASE ThreadReturns(t)
    <2>1. Ntf("ThreadExiting", None) \in Notification
        BY DEF Notification
    <2> QED
        BY <1>1, <1>3, <1>4, <1>9, <2>1 DEF ThreadReturns
  <1>10. CASE ThreadExits(t)
    <2>1. Ntf("ThreadExited", t) \in Notification /\ r # t
        BY <1>10 DEF Notification, ThreadExits
    <2>2. PICK b : b = [inbox EXCEPT ![t] = <<>>]
        OBVIOUS
    <2>3. inbox' = [b EXCEPT ![mainChild] = Append(b[mainChild], Ntf("ThreadExited", t))]
        BY <1>10, <2>2 DEF ThreadExits
    <2>4. b[r] = inbox[r] /\ r \in DOMAIN b
        BY <1>1, <2>1, <2>2
    <2>5. inbox'[r] = inbox[r] \/ inbox'[r] = Append(inbox[r], Ntf("ThreadExited", t))
        BY <2>3, <2>4
    <2> QED
        BY <1>3, <1>4, <2>1, <2>5
  <1>11. CASE Forgot(t) \/ ProcessActions(t)
    <2>1. (NextNotification(t) /\ stack[t] # <<>>) \/ UNCHANGED inbox
        BY <1>11 DEF Forgot, ProcessActions, At
    <2> QED
        BY <1>3, <1>7, <2>1
  <1>12. CASE UNCHANGED inbox
      BY <1>3, <1>12
  <1> QED
      BY <1>6, <1>8, <1>9, <1>10, <1>11, <1>12
      DEF ThreadStep, Lock, Abort, QueueInDeleted, Execute, EndAction, OpenBarrier, Sleep, PassBarrier, Found,
          Pushed, Asked, Answered, AttachFound, Forward, LookedUp

\* Who has queued an action tells the thread.
LEMMA TellingStays ==
  ASSUME TypeOK, NEW t \in Thread, ThreadStep(t), NEW u \in Thread, NEW r \in Thread, r \in alive',
         r \in alive, Telling(u, r)
  PROVE  Telling(u, r)' \/ Told(r)'
  <1>1. PICK f \in On(stack[u]) : f.op = "notify" /\ f.to = r
      BY DEF Telling
  <1>2. CASE f \in On(stack'[u])
      BY <1>1, <1>2 DEF Telling
  <1>3. CASE f \notin On(stack'[u])
    <2>1. u = t /\ f = Top(t) /\ ~Interrupt(t)
        BY <1>3, Taken
    <2>2. stack[t] # <<>>
      <3>1. stack[t] = <<>> => On(stack[t]) = {}
          BY DEF On
      <3> QED
          BY <2>1, <3>1
    <2>3. Notify(t)
        BY <1>1, <2>1, <2>2, StepAt
    <2>4. PICK x : x = Ntf("ProcessActions", None)
        OBVIOUS
    <2>5. inbox \in [Thread -> Seq(Notification)] /\ x \in Notification /\ x.event = "ProcessActions"
        BY <2>4 DEF TypeOK, Notification, Ntf
    <2>6. inbox'[r] = Append(inbox[r], x) /\ inbox[r] \in Seq(Notification)
        BY <1>1, <2>1, <2>3, <2>4, <2>5 DEF Notify
    <2>7. Len(inbox[r]) + 1 \in 1 .. Len(inbox'[r]) /\ inbox'[r][Len(inbox[r]) + 1] = x
        BY <2>5, <2>6, AppendProperties, LenProperties
    <2> QED
        BY <2>5, <2>7 DEF Told
  <1> QED
      BY <1>2, <1>3

\* A thread that will look at its queue does.
LEMMA LookingStays ==
  ASSUME TypeOK, NEW t \in Thread, ThreadStep(t), NEW r \in Thread, Looking(r),
         r = t /\ ProcessActions(t) => actionQueue[t] # <<>>
  PROVE  Looking(r)'
  <1>1. StackOK
      BY DEF TypeOK
  <1>2. CASE r # t
    <2>1. stack'[r] = stack[r]
        BY <1>2, OthersStay
    <2> QED
        BY <2>1 DEF Looking, At, Top
  <1>3. CASE r = t /\ \E f \in On(stack[r]) : f.op = "process"
    <2>1. PICK f \in On(stack[r]) : f.op = "process"
        BY <1>3
    <2>2. f \in On(stack'[r])
      <3>1. SUFFICES ASSUME f \notin On(stack'[r])
                     PROVE  FALSE
          OBVIOUS
      <3>2. f = Top(t) /\ ~Interrupt(t) /\ ~(ProcessActions(t) /\ actionQueue[t] # <<>>)
          BY <1>3, <3>1, Taken
      <3>3. stack[t] # <<>>
        <4>1. stack[t] = <<>> => On(stack[t]) = {}
            BY DEF On
        <4> QED
            BY <1>3, <4>1
      <3>4. ProcessActions(t)
          BY <2>1, <3>2, <3>3, StepAt
      <3> QED
          BY <1>3, <3>2, <3>4
    <2> QED
        BY <2>1, <2>2 DEF Looking
  <1>4. CASE r = t /\ At(r, "lookup")
    <2>1. stack[t] # <<>> /\ Top(t).op = "lookup" /\ ~Interrupt(t)
        BY <1>4, HandlerOnTop DEF At, HandlerOps
    <2>2. Lock(t)
        BY <2>1, StepAt
    <2>3. Goto(t, "lookedUp")
        BY <2>1, <2>2 DEF Lock, AfterLock
    <2>4. "lookedUp" \in Op
        BY DEF Op, OtherOps, HandlerOps
    <2>5. At(t, "lookedUp")'
        BY <1>1, <2>1, <2>3, <2>4, GotoAt
    <2> QED
        BY <1>4, <2>5 DEF Looking
  <1>5. CASE r = t /\ At(r, "lookedUp")
    <2>1. stack[t] # <<>> /\ Top(t).op = "lookedUp" /\ ~Interrupt(t)
        BY <1>5, HandlerOnTop DEF At, HandlerOps
    <2>2. CASE LookedUp(t)
      <3>1. Goto(t, "process") /\ "process" \in Op
          BY <2>2 DEF LookedUp, Op, OtherOps, HandlerOps
      <3>2. \E f \in On(stack'[t]) : f.op = "process"
          BY <1>1, <2>1, <3>1, GotoAt
      <3> QED
          BY <1>5, <3>2 DEF Looking
    <2>3. CASE UNCHANGED <<stack, alive, inbox>>
        BY <1>5, <2>3 DEF Looking, At, Top
    <2> QED
        BY <2>1, <2>2, <2>3, StepAt
  <1> QED
      BY <1>2, <1>3, <1>4, <1>5 DEF Looking

\* A thread that ends is not alive afterwards.
LEMMA EndingStays ==
  ASSUME TypeOK, NEW t \in Thread, ThreadStep(t), NEW r \in Thread, r \in alive', Ending(r)
  PROVE  Ending(r)'
  <1>1. StackOK
      BY DEF TypeOK
  <1>2. CASE r # t
    <2>1. stack'[r] = stack[r]
        BY <1>2, OthersStay
    <2> QED
        BY <2>1 DEF Ending, At, Top
  <1>3. CASE r = t
    <2>1. stack[t] # <<>> /\ Top(t).op \in {"exiting", "exitFound"} /\ ~Interrupt(t)
        BY <1>3, HandlerOnTop DEF Ending, At, HandlerOps
    <2>2. ~ThreadExits(t)
        BY <1>3 DEF ThreadExits
    <2>3. Lock(t) /\ Top(t).op = "exiting"
        BY <2>1, <2>2, StepAt
    <2>4. Goto(t, "exitFound")
        BY <2>1, <2>3 DEF Lock, AfterLock
    <2>5. "exitFound" \in Op
        BY DEF Op, OtherOps, HandlerOps
    <2>6. At(t, "exitFound")'
        BY <1>1, <2>1, <2>4, <2>5, GotoAt
    <2> QED
        BY <1>3, <2>6 DEF Ending
  <1> QED
      BY <1>2, <1>3

\* Only Pushed() queues an action in a thread.
LEMMA QueueFilled ==
  ASSUME TypeOK, NEW t \in Thread, ThreadStep(t), NEW r \in Thread, actionQueue'[r] # <<>>
  PROVE  /\ actionQueue[r] # <<>> \/ (Pushed(t) /\ Top(t).to = r)
         /\ r = t /\ ProcessActions(t) => actionQueue[t] # <<>>
  <1>1. actionQueue \in [Thread -> Seq(Call)]
      BY DEF TypeOK, QueuesOK
  <1>2. CASE Pushed(t)
    <2>1. PICK q : q = Top(t).to
        OBVIOUS
    <2>2. actionQueue' = [actionQueue EXCEPT ![q] = Append(@, Top(t).call)]
        BY <1>2, <2>1 DEF Pushed
    <2>3. r # q => actionQueue'[r] = actionQueue[r]
        BY <1>1, <2>2
    <2>4. ~ProcessActions(t)
        BY <1>2 DEF Pushed, ProcessActions, At
    <2> QED
        BY <1>2, <2>1, <2>3, <2>4
  <1>3. CASE ProcessActions(t)
    <2>1. CASE actionQueue[t] # <<>>
      <3>1. r # t => actionQueue'[r] = actionQueue[r]
          BY <1>1, <1>3, <2>1 DEF ProcessActions
      <3> QED
          BY <2>1, <3>1
    <2>2. CASE actionQueue[t] = <<>>
        BY <1>3, <2>2 DEF ProcessActions
    <2> QED
        BY <2>1, <2>2
  <1>4. CASE UNCHANGED actionQueue /\ ~ProcessActions(t)
      BY <1>4
  <1> QED
      BY <1>2, <1>3, <1>4
      DEF ThreadStep, Lock, Abort, QueueInDeleted, Execute, EndAction, OpenBarrier, Sleep, PassBarrier, Found,
          Notify, Asked, Answered, AttachFound, Forward, Interrupt, LookedUp, Forgot, ThreadReturns, ThreadExits

LEMMA AnnouncedIsNext ==
  (ActionAnnounced <=>
    \A r \in alive : actionQueue[r] # <<>> =>
      Looking(r) \/ Told(r) \/ (\E t \in Thread : Telling(t, r)) \/ Ending(r))'
  BY AnnouncedIs, PTL

LEMMA AnnouncedKeeps ==
  ASSUME TypeOK, ActionAnnounced, NEW t \in Thread, ThreadStep(t)
  PROVE  ActionAnnounced'
  <1>1. SUFFICES ASSUME NEW r \in alive', actionQueue'[r] # <<>>
                 PROVE  Looking(r)' \/ Told(r)' \/ (\E u \in Thread : Telling(u, r)') \/ Ending(r)'
      BY AnnouncedIsNext
  <1>2. r \in Thread /\ r \in alive
    <2>1. alive' \subseteq alive
        BY DEF ThreadStep, Lock, Abort, QueueInDeleted, Execute, EndAction, OpenBarrier, Sleep, PassBarrier, Found,
               Pushed, Notify, Asked, Answered, AttachFound, Forward, Interrupt, LookedUp, ProcessActions,
               Forgot, ThreadReturns, ThreadExits
    <2>2. alive \subseteq Thread
        BY DEF TypeOK
    <2> QED
        BY <1>1, <2>1, <2>2
  <1>3. CASE Pushed(t) /\ Top(t).to = r
    <2>1. stack[t] # <<>> /\ Goto(t, "notify") /\ "notify" \in Op
        BY <1>3 DEF Pushed, At, Op, OtherOps
    <2>2. \E f \in On(stack'[t]) : f.op = "notify" /\ f.to = r
        BY <1>3, <2>1, GotoAt DEF TypeOK
    <2> QED
        BY <2>2 DEF Telling
  <1>4. CASE actionQueue[r] # <<>>
    <2>1. Looking(r) \/ Told(r) \/ (\E u \in Thread : Telling(u, r)) \/ Ending(r)
        BY <1>2, <1>4, AnnouncedIs
    <2>2. r = t /\ ProcessActions(t) => actionQueue[t] # <<>>
        BY <1>4
    <2>3. CASE Looking(r)
        BY <1>2, <2>2, <2>3, LookingStays
    <2>4. CASE Told(r)
        BY <1>2, <2>4, ToldStays DEF Looking
    <2>5. CASE \E u \in Thread : Telling(u, r)
        BY <1>2, <2>5, TellingStays
    <2>6. CASE Ending(r)
        BY <1>1, <1>2, <2>6, EndingStays
    <2> QED
        BY <2>1, <2>3, <2>4, <2>5, <2>6
  <1> QED
      BY <1>1, <1>2, <1>3, <1>4, QueueFilled

\* A queued action is never forgotten, whatever its thread was doing when it
\* was redirected: the thread will look at its queue, or is told to, or is about
\* to be told, or is ending.
THEOREM QueuedActionsAnnounced == Spec => []ActionAnnounced
  <1>1. Init => ActionAnnounced
    <2> SUFFICES ASSUME Init
                 PROVE  ActionAnnounced
        OBVIOUS
    <2>1. \A r \in alive : actionQueue[r] = <<>>
        BY DEF Init
    <2> QED
        BY <2>1 DEF ActionAnnounced
  <1>2. TypeOK /\ ActionAnnounced /\ [Next]_vars => ActionAnnounced'
    <2> SUFFICES ASSUME TypeOK, ActionAnnounced, [Next]_vars
                 PROVE  ActionAnnounced'
        OBVIOUS
    <2>1. CASE Next
        BY <2>1, AnnouncedKeeps DEF Next
    <2>2. CASE UNCHANGED vars
        BY <2>2 DEF vars, ActionAnnounced, At, Top
    <2> QED
        BY <2>1, <2>2
  <1> QED
      BY <1>1, <1>2, TypeCorrect, PTL DEF Spec
=============================================================================
