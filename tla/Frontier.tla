------------------------------ MODULE Frontier ------------------------------
(***************************************************************************)
(* The bounded FIFO frontier (internal/frontier) used through its whole    *)
(* interface: any number of goroutines that Push, Pop or Close it, in any  *)
(* order and with one shared context that may be cancelled.  Engine calls  *)
(* it in a stricter order (it joins the workers before Close); here the    *)
(* interface is taken at its word.                                         *)
(*                                                                         *)
(* Push looks at the closed flag under the mutex and sends outside of it:  *)
(* these are two steps.  A Go channel is a sequence; a select with several *)
(* ready cases takes any of them; a send on a closed channel panics.       *)
(***************************************************************************)
EXTENDS Integers, Sequences, FiniteSets

CONSTANTS
  Producer, Consumer,
  Capacity,       \* as given to New
  Load,           \* bound: items each producer pushes
  MayCancel,      \* somebody may cancel the context
  CloseEarly      \* Close may come while producers are at work

ASSUME FrontierAssumption ==
  /\ IsFiniteSet(Producer) /\ IsFiniteSet(Consumer)
  /\ Capacity \in Nat /\ Load \in Nat \ {0}
  /\ {MayCancel, CloseEarly} \subseteq BOOLEAN

VARIABLES
  ch,          \* the items in the channel: <<producer, number>>
  closed,      \* the flag; the channel is closed in the same critical section
  cancelled,
  pc,          \* per producer
  next,        \* the item the producer pushes now
  accepted,    \* history: items whose Push returned nil, in the order of the sends
  taken,       \* history: items Pop returned
  answer       \* per consumer: what its last Pop returned

vars == <<ch, closed, cancelled, pc, next, accepted, taken, answer>>

TwiceTheRoom == 2 * Capacity                    \* slip: the channel made too large
Room == IF Capacity < 1 THEN 1 ELSE Capacity    \* New

Init ==
  /\ ch = <<>> /\ closed = FALSE /\ cancelled = FALSE
  /\ pc = [p \in Producer |-> "check"]
  /\ next = [p \in Producer |-> 1]
  /\ accepted = <<>> /\ taken = <<>>
  /\ answer = [c \in Consumer |-> "none"]

Returns(p) == next' = [next EXCEPT ![p] = @ + 1] /\ pc' = [pc EXCEPT ![p] = "check"]

CheckOpen(p) ==
  /\ pc[p] = "check" /\ next[p] <= Load /\ ~closed
  /\ pc' = [pc EXCEPT ![p] = "send"]
  /\ UNCHANGED <<ch, closed, cancelled, next, accepted, taken, answer>>

\* context.Canceled, whatever the state of the context.
RefusedClosed(p) ==
  /\ pc[p] = "check" /\ next[p] <= Load /\ closed
  /\ Returns(p)
  /\ UNCHANGED <<ch, closed, cancelled, accepted, taken, answer>>

SendToFront(e) == <<e>> \o ch    \* slip: a stack
Enqueue(e) == Append(ch, e)

Send(p) ==
  /\ pc[p] = "send" /\ ~closed /\ Len(ch) < Room
  /\ ch' = Enqueue(<<p, next[p]>>)
  /\ accepted' = Append(accepted, <<p, next[p]>>)
  /\ Returns(p)
  /\ UNCHANGED <<closed, cancelled, taken, answer>>

SendCancelled(p) ==
  /\ pc[p] = "send" /\ cancelled
  /\ Returns(p)
  /\ UNCHANGED <<ch, closed, cancelled, accepted, taken, answer>>

\* The channel was closed between the check and the send.
SendPanics(p) ==
  /\ pc[p] = "send" /\ closed
  /\ pc' = [pc EXCEPT ![p] = "panic"]
  /\ UNCHANGED <<ch, closed, cancelled, next, accepted, taken, answer>>

\* A closed channel still gives out what it holds.
Receive(c) ==
  /\ ch # <<>> /\ answer[c] # "closed"
  /\ ch' = Tail(ch) /\ taken' = Append(taken, Head(ch))
  /\ answer' = [answer EXCEPT ![c] = "item"]
  /\ UNCHANGED <<closed, cancelled, pc, next, accepted>>

ClosedWins == closed     \* slip: Pop looks at the flag before the channel
NeverClosed == FALSE     \* slip: Close sets the flag and leaves the channel open
Drained == closed /\ ch = <<>>
ReceiveDrained(c) ==
  /\ Drained /\ answer[c] # "closed"
  /\ answer' = [answer EXCEPT ![c] = "closed"]
  /\ UNCHANGED <<ch, closed, cancelled, pc, next, accepted, taken>>

ReceiveCancelled(c) ==
  /\ cancelled /\ answer[c] \notin {"closed", "cancelled"}
  /\ answer' = [answer EXCEPT ![c] = "cancelled"]
  /\ UNCHANGED <<ch, closed, cancelled, pc, next, accepted, taken>>

PushersDone == \A p \in Producer : pc[p] = "check" /\ next[p] > Load

\* Close is idempotent; the second call changes nothing.
Close ==
  /\ CloseEarly \/ PushersDone
  /\ closed' = TRUE
  /\ UNCHANGED <<ch, cancelled, pc, next, accepted, taken, answer>>

Cancel ==
  /\ MayCancel /\ ~cancelled /\ cancelled' = TRUE
  /\ UNCHANGED <<ch, closed, pc, next, accepted, taken, answer>>

Push(p) == CheckOpen(p) \/ RefusedClosed(p) \/ Send(p) \/ SendCancelled(p) \/ SendPanics(p)
Pop(c) == Receive(c) \/ ReceiveDrained(c) \/ ReceiveCancelled(c)

\* A panic takes the whole program down.
Alive == \A p \in Producer : pc[p] # "panic"

Next ==
  /\ Alive
  /\ \/ \E p \in Producer : Push(p)
     \/ \E c \in Consumer : Pop(c)
     \/ Close \/ Cancel

\* Goroutines run; somebody closes a frontier nobody pushes to any more.
Spec ==
  /\ Init /\ [][Next]_vars
  /\ \A p \in Producer : WF_vars(Alive /\ Push(p))
  /\ \A c \in Consumer : WF_vars(Alive /\ Pop(c))
  /\ WF_vars(Alive /\ Close)
-----------------------------------------------------------------------------
Entry == Producer \X (1..Load)

TypeOK ==
  /\ ch \in Seq(Entry) /\ Len(ch) <= (IF Capacity = 0 THEN 1 ELSE Capacity)
  /\ accepted \in Seq(Entry) /\ taken \in Seq(Entry)
  /\ closed \in BOOLEAN /\ cancelled \in BOOLEAN
  /\ pc \in [Producer -> {"check", "send", "panic"}]
  /\ next \in [Producer -> 1..Load + 1]
  /\ answer \in [Consumer -> {"none", "item", "closed", "cancelled"}]

\* FIFO and nothing lost or doubled: what Push accepted is, in that order, what
\* Pop has returned followed by what the channel still holds.
FirstInFirstOut == accepted = taken \o ch

\* "Pop blocks until an item is available or the frontier is closed and drained":
\* once a Pop has said closed, every accepted item has been handed out for good.
ClosedMeansDrained ==
  (\E c \in Consumer : answer[c] = "closed") => closed /\ taken = accepted

\* Close lets every consumer go, and no producer stays blocked behind it: unless
\* the program panics, everybody finishes.
EveryoneLeaves ==
  <>(~Alive \/ (PushersDone /\ \A c \in Consumer : answer[c] \in {"closed", "cancelled"}))

\* "so Len() and graceful drain-then-close work without racing in-flight
\* Push/Pop calls"
NoPanic == Alive
=============================================================================
