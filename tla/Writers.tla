-------------------------------- MODULE Writers --------------------------------
(***************************************************************************)
(* The event writers (output/writer.go, human.go), as the command line     *)
(* combines them: the console view first, then the JSONL file.  Workers    *)
(* write their events concurrently; when they have joined, the run's main  *)
(* goroutine writes the last ones.                                         *)
(*                                                                         *)
(* An event is encoded into a buffer of a pool outside the lock, and the   *)
(* line is written under it, in two halves here.  A sync.Pool gives out a  *)
(* buffer nobody has, or a new one.  The console may fail at any event.    *)
(***************************************************************************)
EXTENDS Encoding

CONSTANTS
  Goroutine, Main,     \* Main is the one that ends the run
  Buffer,              \* bound: enough for one per goroutine
  MaxLines             \* NewHumanWriter's: console lines of a type

ASSUME WritersAssumption ==
  IsFiniteSet(Goroutine) /\ Main \in Goroutine /\ "none" \notin Goroutine /\ MaxLines \in Nat

VARIABLES
  todo,                \* the events each goroutine has still to write
  step,                \* where it is with the first of them
  shown,               \* HumanWriter's pages and errs, by event type
  console,             \* lines on the console: events, and "..."
  pool,                \* buffers in the pool
  buffer,              \* what each buffer holds
  uses,                \* the buffer of each goroutine
  lock,                \* who holds Writer.mu
  file,                \* halves of lines: <<line, half>>
  accepted             \* history: the events for which no writer reported an error

writerVars == <<todo, step, shown, console, pool, buffer, uses, lock, file, accepted>>

NoOne == "none"

\* What goroutines are given to write: a summary is the last event of Main.
EventTypes == {"page", "error", "openapi", "summary"}
StreamOfARun(events) ==
  /\ events = [g \in Goroutine |-> events[g]]
  /\ \A g \in Goroutine :
       /\ events[g] \in Seq(ToSet(events[g]))
       /\ \A k \in DOMAIN events[g] :
            /\ events[g][k].type \in EventTypes
            /\ events[g][k].type = "summary" => g = Main /\ k = Len(events[g])

WritersInit(events) ==
  /\ todo = events /\ step = [g \in Goroutine |-> "idle"]
  /\ shown = [t \in {"page", "error"} |-> 0] /\ console = <<>>
  /\ pool = Buffer /\ buffer = [b \in Buffer |-> <<>>] /\ uses = [g \in Goroutine |-> NoOne]
  /\ lock = NoOne /\ file = <<>> /\ accepted = <<>>

Current(g) == Head(todo[g])
WorkersJoined == \A g \in Goroutine \ {Main} : step[g] = "idle" /\ todo[g] = <<>>

At(g, from, to) == step[g] = from /\ step' = [step EXCEPT ![g] = to]
\* The event is behind this goroutine; the engine ignores a writer's error.
Finished(g, from) == At(g, from, "idle") /\ todo' = [todo EXCEPT ![g] = Tail(@)]

BeginEvent(g) ==
  /\ todo[g] # <<>> /\ (g = Main => WorkersJoined) /\ At(g, "idle", "console")
  /\ UNCHANGED <<todo, shown, console, pool, buffer, uses, lock, file, accepted>>

\* HumanWriter: pages and errors are counted, and after MaxLines of a type "..."
\* ends its list.
Counted(e) == e.type \in DOMAIN shown
Line(e, counts) ==
  CASE Counted(e) /\ counts[e.type] > MaxLines -> <<>>
    [] Counted(e) /\ counts[e.type] = MaxLines -> <<e.type, "...">>
    [] OTHER -> <<e.type>>
CountEvent(g) ==
  LET t == Current(g).type IN shown' = IF t \in DOMAIN shown THEN [shown EXCEPT ![t] = @ + 1] ELSE shown

\* An error of writing the "..." itself is ignored.
Show(g) ==
  /\ At(g, "console", "encode") /\ CountEvent(g)
  /\ \/ console' = console \o Line(Current(g), shown')
     \/ Line(Current(g), shown') # <<>> /\ console' = Append(console, Current(g).type)
  /\ UNCHANGED <<todo, pool, buffer, uses, lock, file, accepted>>

\* MultiWriter returns the first error: the file never sees this event.
ConsoleFails(g) ==
  /\ Finished(g, "console") /\ CountEvent(g)
  /\ Line(Current(g), shown') # <<>> /\ Current(g).type # "summary"
  /\ UNCHANGED <<console, pool, buffer, uses, lock, file, accepted>>

ReturnsEarly(g, b) ==     \* slip: the buffer is back in the pool before it is written
  pool' = pool \cup {b}
TakeBuffer(g, b) == pool' = pool \ {b}

\* Get and append; an event that cannot be encoded gives its buffer back at once.
EncodeEvent(g, b) ==
  /\ At(g, "encode", "flush") /\ b \in pool /\ Encode(Current(g)) # <<>>
  /\ TakeBuffer(g, b) /\ uses' = [uses EXCEPT ![g] = b]
  /\ buffer' = [buffer EXCEPT ![b] = Encode(Current(g))]
  /\ UNCHANGED <<todo, shown, console, lock, file, accepted>>

EncodeFails(g) ==
  /\ Finished(g, "encode") /\ Encode(Current(g)) = <<>>
  /\ UNCHANGED <<shown, console, pool, buffer, uses, lock, file, accepted>>

Unlocked(g) == TRUE       \* slip: nobody locks
MayLock(g) == lock = NoOne

FlushHalf(g) ==
  /\ At(g, "flush", "half") /\ MayLock(g)
  /\ lock' = g /\ file' = Append(file, <<buffer[uses[g]], 1>>)
  /\ UNCHANGED <<todo, shown, console, pool, buffer, uses, accepted>>

FlushRest(g) ==
  /\ At(g, "half", "put")
  /\ lock' = NoOne /\ file' = Append(file, <<buffer[uses[g]], 2>>)
  /\ UNCHANGED <<todo, shown, console, pool, buffer, uses, accepted>>

\* The deferred Put.
PutBuffer(g) ==
  /\ Finished(g, "put") /\ accepted' = Append(accepted, Current(g))
  /\ pool' = pool \cup {uses[g]} /\ uses' = [uses EXCEPT ![g] = NoOne]
  /\ UNCHANGED <<shown, console, buffer, lock, file>>

Writing(g) ==
  \/ BeginEvent(g) \/ Show(g) \/ ConsoleFails(g) \/ EncodeFails(g)
  \/ FlushHalf(g) \/ FlushRest(g) \/ PutBuffer(g)
  \/ \E b \in Buffer : EncodeEvent(g, b)

WritersNext == \E g \in Goroutine : Writing(g)
-----------------------------------------------------------------------------
AllWritten == \A g \in Goroutine : step[g] = "idle" /\ todo[g] = <<>>
Lines(x) == {k \in DOMAIN file : file[k] = <<x, 1>>}
Accepted(x) == {k \in DOMAIN accepted : Encode(accepted[k]) = x}
Times(x, s) == Cardinality({k \in DOMAIN s : s[k] = x})

LinesAreWhole ==
  \A k \in DOMAIN file :
    /\ file[k][2] = IF k % 2 = 1 THEN 1 ELSE 2
    /\ k % 2 = 0 => file[k][1] = file[k - 1][1]

NoneLostOrAdded ==
  /\ Len(file) = 2 * Len(accepted)
  /\ \A e \in ToSet(accepted) : Cardinality(Lines(Encode(e))) = Cardinality(Accepted(Encode(e)))

SummaryIsLast ==
  \A k \in DOMAIN accepted :
    accepted[k].type = "summary" => file # <<>> /\ file[Len(file)][1] = Encode(accepted[k])

ConsoleIsShort ==
  /\ \A t \in DOMAIN shown : Times(t, console) <= MaxLines
  /\ \A k \in DOMAIN console : console[k] = "..." =>
       /\ k > 1 /\ console[k - 1] \in DOMAIN shown
       /\ \A j \in k + 1..Len(console) : console[j] # console[k - 1]

\* However the goroutines interleave and buffers are reused: the file is a sequence
\* of whole lines, each the encoding of one event; when everything is written, the
\* events no writer failed for are there exactly as often as they were written and
\* nothing else is; a summary is the last line; and the console lists at most
\* MaxLines pages, and errors, a "..." ending the list of the line before it.
RecordsAreWhole ==
  LinesAreWhole /\ (AllWritten => NoneLostOrAdded /\ SummaryIsLast) /\ ConsoleIsShort

\* "also write the full JSONL record stream to this file": then every event that
\* can be encoded would be there, whatever the console does.
FileIsFull(events) ==
  AllWritten => Len(accepted) = Cardinality({e \in events : Encode(e) # <<>>})
=============================================================================
