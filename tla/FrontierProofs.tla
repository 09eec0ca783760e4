--------------------------- MODULE FrontierProofs ---------------------------
(***************************************************************************)
(* Theorems about Frontier, for any number of callers and any capacity.    *)
(* IInv is inductive: besides the types and the two orders it says that an *)
(* item being sent is one of the producer's load, and that nobody is in    *)
(* Push any more when a careful caller closes.                             *)
(***************************************************************************)
EXTENDS Frontier, TLAPS

ItemInLoad == \A p \in Producer : pc[p] = "send" => next[p] <= Load
DrainedIsFinal == (\E c \in Consumer : answer[c] = "closed") => Drained
ClosedAfterPushers == ~CloseEarly => (closed => PushersDone) /\ Alive

IInv == TypeOK /\ ItemInLoad /\ FirstInFirstOut /\ DrainedIsFinal /\ ClosedAfterPushers

LEMMA AppendTo ==
  ASSUME NEW S, NEW s \in Seq(S), NEW e \in S
  PROVE  Append(s, e) \in Seq(S) /\ Len(Append(s, e)) = Len(s) + 1
OBVIOUS

LEMMA TakeFrom ==
  ASSUME NEW S, NEW s \in Seq(S), s # <<>>
  PROVE  Tail(s) \in Seq(S) /\ Head(s) \in S /\ Len(Tail(s)) = Len(s) - 1
OBVIOUS

\* An item that changes from one history to the other keeps its place.
LEMMA HeadMoves ==
  ASSUME NEW S, NEW s \in Seq(S), NEW t \in Seq(S), t # <<>>
  PROVE  s \o t = Append(s, Head(t)) \o Tail(t)
OBVIOUS
-----------------------------------------------------------------------------
LEMMA Start == Init => IInv
<1> SUFFICES ASSUME Init PROVE IInv
  OBVIOUS
<1>1. <<>> \in Seq(Entry) /\ Len(<<>>) = 0
  OBVIOUS
<1>2. TypeOK
  <2>1. ch \in Seq(Entry) /\ accepted \in Seq(Entry) /\ taken \in Seq(Entry)
    BY <1>1 DEF Init
  <2>2. Len(ch) <= (IF Capacity = 0 THEN 1 ELSE Capacity)
    BY <1>1, FrontierAssumption DEF Init
  <2>3. /\ pc \in [Producer -> {"check", "send", "panic"}] /\ next \in [Producer -> 1..Load + 1]
        /\ answer \in [Consumer -> {"none", "item", "closed", "cancelled"}]
    BY FrontierAssumption DEF Init
  <2> QED BY <2>1, <2>2, <2>3 DEF Init, TypeOK
<1>3. FirstInFirstOut
  BY <1>1 DEF Init, FirstInFirstOut
<1>4. ItemInLoad /\ DrainedIsFinal /\ ClosedAfterPushers
  BY DEF Init, ItemInLoad, DrainedIsFinal, ClosedAfterPushers, Alive
<1> QED BY <1>2, <1>3, <1>4 DEF IInv

LEMMA TypeStep == TypeOK /\ ItemInLoad /\ [Next]_vars => TypeOK'
<1> SUFFICES ASSUME TypeOK, ItemInLoad, [Next]_vars PROVE TypeOK'
  OBVIOUS
<1> USE FrontierAssumption
<1>1. ASSUME NEW p \in Producer, CheckOpen(p) \/ SendPanics(p) PROVE TypeOK'
  BY <1>1 DEF TypeOK, CheckOpen, SendPanics
<1>2. ASSUME NEW p \in Producer, RefusedClosed(p) \/ SendCancelled(p) PROVE TypeOK'
  <2>1. next[p] <= Load /\ Returns(p) /\ UNCHANGED <<ch, closed, cancelled, accepted, taken, answer>>
    BY <1>2 DEF ItemInLoad, RefusedClosed, SendCancelled
  <2>2. next[p] + 1 \in 1..Load + 1
    BY <2>1 DEF TypeOK
  <2> QED BY <2>1, <2>2 DEF TypeOK, Returns
<1>3. ASSUME NEW p \in Producer, Send(p) PROVE TypeOK'
  <2>1. next[p] \in 1..Load
    BY <1>3 DEF TypeOK, ItemInLoad, Send
  <2>2. <<p, next[p]>> \in Entry
    BY <2>1 DEF Entry
  <2>3. ch' \in Seq(Entry) /\ Len(ch') = Len(ch) + 1 /\ accepted' \in Seq(Entry)
    BY <1>3, <2>2, AppendTo DEF TypeOK, Send, Enqueue
  <2> QED BY <1>3, <2>1, <2>3 DEF TypeOK, Send, Returns, Room
<1>4. ASSUME NEW c \in Consumer, Receive(c) PROVE TypeOK'
  <2>1. Head(ch) \in Entry /\ ch' \in Seq(Entry) /\ Len(ch') = Len(ch) - 1
    BY <1>4, TakeFrom DEF TypeOK, Receive
  <2>2. taken' \in Seq(Entry)
    BY <1>4, <2>1, AppendTo DEF TypeOK, Receive
  <2> QED BY <1>4, <2>1, <2>2 DEF TypeOK, Receive
<1>5. ASSUME NEW c \in Consumer, ReceiveDrained(c) \/ ReceiveCancelled(c) PROVE TypeOK'
  BY <1>5 DEF TypeOK, ReceiveDrained, ReceiveCancelled
<1>6. ASSUME Close \/ Cancel \/ UNCHANGED vars PROVE TypeOK'
  BY <1>6 DEF TypeOK, Close, Cancel, vars
<1> QED BY <1>1, <1>2, <1>3, <1>4, <1>5, <1>6 DEF Next, Push, Pop

LEMMA ItemStep == TypeOK /\ ItemInLoad /\ [Next]_vars => ItemInLoad'
<1> SUFFICES ASSUME TypeOK, ItemInLoad, [Next]_vars PROVE ItemInLoad'
  OBVIOUS
<1>1. ASSUME NEW p \in Producer, Push(p) PROVE ItemInLoad'
  BY <1>1 DEF TypeOK, ItemInLoad, Push, CheckOpen, RefusedClosed, Send, SendCancelled, SendPanics, Returns
<1>2. ASSUME UNCHANGED <<pc, next>> PROVE ItemInLoad'
  BY <1>2 DEF ItemInLoad
<1> QED
  BY <1>1, <1>2 DEF Next, Pop, Receive, ReceiveDrained, ReceiveCancelled, Close, Cancel, vars

LEMMA FifoStep == TypeOK /\ ItemInLoad /\ FirstInFirstOut /\ [Next]_vars => FirstInFirstOut'
<1> SUFFICES ASSUME TypeOK, ItemInLoad, FirstInFirstOut, [Next]_vars PROVE FirstInFirstOut'
  OBVIOUS
<1>1. ASSUME NEW p \in Producer, Send(p) PROVE FirstInFirstOut'
  <2> DEFINE e == <<p, next[p]>>
  <2>1. e \in Entry
    BY <1>1, FrontierAssumption DEF TypeOK, ItemInLoad, Send, Entry
  <2>2. accepted' = Append(accepted, e) /\ ch' = Append(ch, e) /\ UNCHANGED taken
    BY <1>1 DEF Send, Enqueue
  <2> HIDE DEF e
  <2>3. Append(taken \o ch, e) = taken \o Append(ch, e)
    <3>1. taken \in Seq(Entry) /\ ch \in Seq(Entry)
      BY DEF TypeOK
    <3> QED BY <2>1, <3>1
  <2> QED BY <2>2, <2>3 DEF FirstInFirstOut
<1>2. ASSUME NEW c \in Consumer, Receive(c) PROVE FirstInFirstOut'
  BY <1>2, HeadMoves DEF TypeOK, FirstInFirstOut, Receive
<1>3. ASSUME UNCHANGED <<ch, accepted, taken>> PROVE FirstInFirstOut'
  BY <1>3 DEF FirstInFirstOut
<1> QED
  BY <1>1, <1>2, <1>3
     DEF Next, Push, CheckOpen, RefusedClosed, SendCancelled, SendPanics, Pop, ReceiveDrained,
         ReceiveCancelled, Close, Cancel, vars

LEMMA DrainedStep == TypeOK /\ DrainedIsFinal /\ [Next]_vars => DrainedIsFinal'
<1> SUFFICES ASSUME TypeOK, DrainedIsFinal, [Next]_vars PROVE DrainedIsFinal'
  OBVIOUS
<1>1. ASSUME NEW p \in Producer, Push(p) PROVE DrainedIsFinal'
  BY <1>1 DEF DrainedIsFinal, Drained, Push, CheckOpen, RefusedClosed, Send, SendCancelled, SendPanics
<1>2. ASSUME NEW c \in Consumer, Pop(c) PROVE DrainedIsFinal'
  BY <1>2 DEF TypeOK, DrainedIsFinal, Drained, Pop, Receive, ReceiveDrained, ReceiveCancelled
<1>3. ASSUME Close \/ Cancel \/ UNCHANGED vars PROVE DrainedIsFinal'
  BY <1>3 DEF DrainedIsFinal, Drained, Close, Cancel, vars
<1> QED BY <1>1, <1>2, <1>3 DEF Next

LEMMA CloseStep == TypeOK /\ ClosedAfterPushers /\ [Next]_vars => ClosedAfterPushers'
<1> SUFFICES ASSUME TypeOK, ClosedAfterPushers, [Next]_vars, ~CloseEarly PROVE ClosedAfterPushers'
  BY DEF ClosedAfterPushers
<1> USE FrontierAssumption
<1>1. ASSUME NEW p \in Producer, Push(p) PROVE ClosedAfterPushers'
  <2>1. ~closed
    BY <1>1
       DEF TypeOK, ClosedAfterPushers, PushersDone, Push, CheckOpen, RefusedClosed, Send, SendCancelled,
           SendPanics
  <2>2. UNCHANGED closed /\ Alive'
    BY <1>1, <2>1
       DEF TypeOK, ClosedAfterPushers, Alive, Push, CheckOpen, RefusedClosed, Send, SendCancelled,
           SendPanics, Returns
  <2> QED BY <2>1, <2>2 DEF ClosedAfterPushers
<1>2. ASSUME Close \/ UNCHANGED <<closed, pc, next>> PROVE ClosedAfterPushers'
  BY <1>2 DEF ClosedAfterPushers, PushersDone, Alive, Close
<1> QED
  BY <1>1, <1>2 DEF Next, Pop, Receive, ReceiveDrained, ReceiveCancelled, Cancel, vars

LEMMA Inductive == IInv /\ [Next]_vars => IInv'
BY TypeStep, ItemStep, FifoStep, DrainedStep, CloseStep DEF IInv

LEMMA Invariance == Spec => []IInv
BY Start, Inductive, PTL DEF Spec
-----------------------------------------------------------------------------
\* The channel never holds more than its capacity, and only items of its callers.
THEOREM FrontierTypeCorrect == Spec => []TypeOK
<1>1. IInv => TypeOK
  BY DEF IInv
<1> QED BY <1>1, Invariance, PTL

\* Push and Pop from any number of goroutines keep one order: nothing accepted is
\* lost, doubled or overtaken.
THEOREM FifoCorrect == Spec => []FirstInFirstOut
<1>1. IInv => FirstInFirstOut
  BY DEF IInv
<1> QED BY <1>1, Invariance, PTL

\* When a Pop has reported the end, every item any Push accepted has come out.
THEOREM DrainCorrect == Spec => []ClosedMeansDrained
<1>1. IInv => ClosedMeansDrained
  <2> SUFFICES ASSUME IInv, \E c \in Consumer : answer[c] = "closed"
               PROVE  closed /\ taken = accepted
    BY DEF ClosedMeansDrained
  <2>1. closed /\ ch = <<>>
    BY DEF IInv, DrainedIsFinal, Drained
  <2>2. taken \o <<>> = taken
    BY DEF IInv, TypeOK
  <2> QED BY <2>1, <2>2 DEF IInv, FirstInFirstOut
<1> QED BY <1>1, Invariance, PTL

\* Push panics only if Close overtakes it: a caller that joins its producers before
\* Close, as Run does, never meets the panic.
THEOREM JoinBeforeCloseIsSafe == ASSUME ~CloseEarly PROVE Spec => []NoPanic
<1>1. IInv => NoPanic
  BY DEF IInv, ClosedAfterPushers, NoPanic
<1> QED BY <1>1, Invariance, PTL
=============================================================================
