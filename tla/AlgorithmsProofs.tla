--------------------------- MODULE AlgorithmsProofs ---------------------------
(***************************************************************************)
(* Theorems about Algorithms, for every input.  First the writers: however *)
(* the goroutines of a crawl interleave, the file they share is whole.     *)
(***************************************************************************)
EXTENDS Algorithms, Induction, FiniteSetTheorems, SequenceTheorems, TLAPS

AllEvents == UNION {UNION {ToSet(c.todo[g]) : g \in Goroutine} : c \in StreamCases}
Texts == {Encode(e) : e \in AllEvents} \cup {<<>>}
Steps == {"idle", "console", "encode", "flush", "half", "put"}
Shown == {"page", "error"}

WriterTypes ==
  /\ todo \in [Goroutine -> Seq(AllEvents)] /\ step \in [Goroutine -> Steps]
  /\ shown \in [Shown -> Nat] /\ console \in Seq(EventTypes \cup {"..."})
  /\ pool \subseteq Buffer /\ buffer \in [Buffer -> Texts]
  /\ uses \in [Goroutine -> Buffer \cup {NoOne}] /\ lock \in Goroutine \cup {NoOne}
  /\ file \in Seq(Texts \X {1, 2}) /\ accepted \in Seq(AllEvents)

\* A summary is all that is left for Main.
SummariesLast ==
  \A g \in Goroutine : \A k \in DOMAIN todo[g] :
    todo[g][k].type = "summary" => g = Main /\ k = Len(todo[g])

\* A goroutine that is writing has an event, and Main writes alone.
Occupied == \A g \in Goroutine : step[g] # "idle" => todo[g] # <<>> /\ (g = Main => WorkersJoined)

\* From Get to Put a buffer is one goroutine's, and holds its event.
HasBuffer(g) == step[g] \in {"flush", "half", "put"}
Owned ==
  /\ \A g \in Goroutine : HasBuffer(g) =>
       uses[g] \in Buffer \ pool /\ buffer[uses[g]] = Encode(Current(g))
  /\ \A g, h \in Goroutine : HasBuffer(g) /\ HasBuffer(h) /\ uses[g] = uses[h] => g = h

Locked == \A g \in Goroutine : step[g] = "half" <=> lock = g

\* The file ends with half a line just while the lock is held.
FileInv ==
  /\ LinesAreWhole
  /\ lock = NoOne => Len(file) % 2 = 0
  /\ lock # NoOne => Len(file) % 2 = 1 /\ file[Len(file)][1] = Encode(Current(lock))

\* The kind of an input says which case it is.
LEMMA CaseOfKind ==
  ASSUME NEW c, IsCase(c)
  PROVE  /\ c.kind = "stream" => c \in StreamCases
         /\ c.kind = "page" => c \in PageCases
         /\ c.kind = "map" => c \in MapCases
         /\ c.kind = "event" => c \in EventCases
         /\ c.kind = "login" => c \in LoginCases
         /\ c.kind = "url" => c \in UrlCases
         /\ c.kind = "spec" => c \in SpecCases
         /\ c.kind = "samples" => c \in SampleCases
         /\ c.kind = "args" => c \in ArgsCases
         /\ c.kind = "site" => c \in SiteCases
BY AlgorithmsAssumption DEF IsCase, OfKind

LEMMA StreamsTyped ==
  ASSUME NEW c \in StreamCases
  PROVE  c.todo \in [Goroutine -> Seq(AllEvents)] /\ c.kind = "stream"
<1>1. StreamOfARun(c.todo) /\ c.kind = "stream"
  BY AlgorithmsAssumption DEF OfKind
<1>2. ASSUME NEW g \in Goroutine PROVE c.todo[g] \in Seq(AllEvents)
  <2>1. c.todo[g] \in Seq(ToSet(c.todo[g])) /\ ToSet(c.todo[g]) \subseteq AllEvents
    BY <1>1 DEF StreamOfARun, AllEvents
  <2> QED BY <2>1
<1>3. c.todo = [g \in Goroutine |-> c.todo[g]]
  BY <1>1 DEF StreamOfARun
<1> QED BY <1>1, <1>2, <1>3

LEMMA EventTyped == ASSUME NEW e \in AllEvents PROVE e.type \in EventTypes /\ Encode(e) \in Texts
<1>1. PICK c \in StreamCases : \E g \in Goroutine : e \in ToSet(c.todo[g])
  BY DEF AllEvents
<1>2. PICK g \in Goroutine : e \in ToSet(c.todo[g])
  BY <1>1
<1>3. PICK k \in DOMAIN c.todo[g] : e = c.todo[g][k]
  BY <1>2 DEF ToSet
<1>4. StreamOfARun(c.todo)
  BY AlgorithmsAssumption
<1> QED BY <1>3, <1>4 DEF StreamOfARun, Texts

LEMMA WriterInit ==
  ASSUME Init
  PROVE  WriterTypes /\ SummariesLast /\ Occupied /\ Owned /\ Locked /\ FileInv
<1> DEFINE events == IF Is("stream") THEN input.todo ELSE [g \in Goroutine |-> <<>>]
<1>1. WritersInit(events)
  BY DEF Init
<1>2. events \in [Goroutine -> Seq(AllEvents)] /\
      \A g \in Goroutine : \A k \in DOMAIN events[g] :
        events[g][k].type = "summary" => g = Main /\ k = Len(events[g])
  <2>1. CASE Is("stream")
    <3>1. input \in StreamCases
      BY <2>1, CaseOfKind DEF Init, Is
    <3>2. StreamOfARun(input.todo) /\ events = input.todo
      BY <2>1, <3>1, AlgorithmsAssumption
    <3> QED BY <3>1, <3>2, StreamsTyped DEF StreamOfARun
  <2>2. CASE ~Is("stream")
    BY <2>2
  <2> QED BY <2>1, <2>2
<1> HIDE DEF events
<1>3. NoOne \notin Goroutine
  BY WritersAssumption DEF NoOne
<1>4. WriterTypes
  BY <1>1, <1>2 DEF WritersInit, WriterTypes, Steps, Shown, Texts
<1>5. SummariesLast /\ Occupied /\ Owned /\ Locked
  BY <1>1, <1>2, <1>3 DEF WritersInit, SummariesLast, Occupied, Owned, Locked, HasBuffer
<1>6. FileInv
  BY <1>1 DEF WritersInit, FileInv, LinesAreWhole
<1> QED BY <1>4, <1>5, <1>6
-----------------------------------------------------------------------------
\* A step of one goroutine leaves the others where they are.
LEMMA Alone ==
  ASSUME WriterTypes, NEW g \in Goroutine, Writing(g)
  PROVE  /\ \A h \in Goroutine : h # g => step'[h] = step[h] /\ todo'[h] = todo[h] /\ uses'[h] = uses[h]
         /\ step'[g] # "idle" => todo'[g] = todo[g]
         /\ step'[g] = "idle" => step[g] # "idle" /\ todo'[g] = Tail(todo[g])
         /\ step[g] = "idle" => todo[g] # <<>> /\ (g = Main => WorkersJoined)
         /\ step' \in [Goroutine -> Steps] /\ todo' = [todo EXCEPT ![g] = todo'[g]]
<1> USE DEF At, Finished
<1>1. CASE BeginEvent(g)
  BY <1>1 DEF BeginEvent, WriterTypes, Steps
<1>2. CASE Show(g)
  BY <1>2 DEF Show, WriterTypes, Steps
<1>3. CASE ConsoleFails(g)
  BY <1>3 DEF ConsoleFails, WriterTypes, Steps
<1>4. CASE EncodeFails(g)
  BY <1>4 DEF EncodeFails, WriterTypes, Steps
<1>5. CASE FlushHalf(g) \/ FlushRest(g)
  BY <1>5 DEF FlushHalf, FlushRest, WriterTypes, Steps
<1>6. CASE PutBuffer(g)
  BY <1>6 DEF PutBuffer, WriterTypes, Steps
<1>7. ASSUME NEW b \in Buffer, EncodeEvent(g, b)
      PROVE  /\ \A h \in Goroutine : h # g => step'[h] = step[h] /\ todo'[h] = todo[h] /\ uses'[h] = uses[h]
             /\ step[g] = "encode" /\ step'[g] = "flush" /\ todo' = todo
             /\ step' \in [Goroutine -> Steps]
  BY <1>7 DEF EncodeEvent, WriterTypes, Steps
<1>8. CASE \E b \in Buffer : EncodeEvent(g, b)
  <2>1. todo = [todo EXCEPT ![g] = todo[g]]
    BY DEF WriterTypes
  <2> QED BY <1>7, <1>8, <2>1
<1> QED BY <1>1, <1>2, <1>3, <1>4, <1>5, <1>6, <1>8 DEF Writing

LEMMA TailTyped ==
  ASSUME WriterTypes, NEW g \in Goroutine, todo[g] # <<>>
  PROVE  /\ Current(g) \in AllEvents /\ Current(g) = todo[g][1] /\ Tail(todo[g]) \in Seq(AllEvents)
         /\ Len(todo[g]) \in Nat \ {0} /\ Len(Tail(todo[g])) = Len(todo[g]) - 1
         /\ \A k \in DOMAIN Tail(todo[g]) : Tail(todo[g])[k] = todo[g][k + 1] /\ k + 1 \in DOMAIN todo[g]
<1>1. todo[g] \in Seq(AllEvents)
  BY DEF WriterTypes
<1> QED BY <1>1 DEF Current

LEMMA OccupiedStep ==
  ASSUME WriterTypes, SummariesLast, Occupied, NEW g \in Goroutine, Writing(g)
  PROVE  Occupied' /\ SummariesLast'
<1>1. todo[g] # <<>>
  BY Alone DEF Occupied
<1>2. ASSUME NEW h \in Goroutine, step'[h] # "idle" PROVE todo'[h] # <<>>
  BY <1>1, <1>2, Alone DEF Occupied
<1>3. ASSUME step'[Main] # "idle" PROVE WorkersJoined'
  <2>1. CASE g = Main
    <3>1. WorkersJoined
      BY <2>1, Alone DEF Occupied
    <3> QED BY <2>1, <3>1, Alone DEF WorkersJoined
  <2>2. CASE g # Main
    <3>1. WorkersJoined
      BY <1>3, <2>2, Alone, WritersAssumption DEF Occupied
    <3>2. step[g] = "idle" /\ todo[g] = <<>>
      BY <2>2, <3>1 DEF WorkersJoined
    <3> QED BY <1>1, <3>2
  <2> QED BY <2>1, <2>2
<1>4. Occupied'
  BY <1>2, <1>3 DEF Occupied
<1>5. SummariesLast'
  <2>1. CASE todo'[g] = todo[g]
    BY <2>1, Alone DEF SummariesLast
  <2>2. CASE todo'[g] = Tail(todo[g])
    <3>1. \A k \in DOMAIN todo'[g] : todo'[g][k].type = "summary" => g = Main /\ k = Len(todo'[g])
      <4>1. SUFFICES ASSUME NEW k \in DOMAIN todo'[g], todo'[g][k].type = "summary"
                     PROVE  g = Main /\ k = Len(todo'[g])
        OBVIOUS
      <4>2. todo'[g][k] = todo[g][k + 1] /\ k + 1 \in DOMAIN todo[g]
        BY <1>1, <2>2, <4>1, TailTyped
      <4>3. g = Main /\ k + 1 = Len(todo[g])
        BY <4>1, <4>2 DEF SummariesLast
      <4>4. k \in Nat
        BY <1>1, <2>2, <4>1, TailTyped
      <4> QED BY <1>1, <2>2, <4>3, <4>4, TailTyped
    <3> QED BY <3>1, Alone DEF SummariesLast
  <2> QED BY <2>1, <2>2, Alone
<1> QED BY <1>4, <1>5

LEMMA AppendTyped == ASSUME NEW S, NEW s \in Seq(S), NEW e \in S PROVE Append(s, e) \in Seq(S)
OBVIOUS

LEMMA JoinTyped == ASSUME NEW S, NEW s \in Seq(S), NEW t \in Seq(S) PROVE s \o t \in Seq(S)
OBVIOUS

LEMMA ShortTyped ==
  ASSUME NEW S, NEW a \in S, NEW b \in S
  PROVE  <<>> \in Seq(S) /\ <<a>> \in Seq(S) /\ <<a, b>> \in Seq(S)
OBVIOUS

LEMMA NoElements == ASSUME NEW S, NEW s \in Seq(S), Len(s) = 0 PROVE s = <<>>
OBVIOUS

LEMMA LineForms ==
  ASSUME NEW e, NEW counts
  PROVE  /\ Counted(e) /\ counts[e.type] > MaxLines => Line(e, counts) = <<>>
         /\ Counted(e) /\ counts[e.type] = MaxLines /\ ~(counts[e.type] > MaxLines) =>
              Line(e, counts) = <<e.type, "...">>
         /\ ~(Counted(e) /\ (counts[e.type] > MaxLines \/ counts[e.type] = MaxLines)) =>
              Line(e, counts) = <<e.type>>
         /\ Line(e, counts) \in {<<>>, <<e.type>>, <<e.type, "...">>}
<1>0. MaxLines \in Nat
  BY WritersAssumption
<1>1. CASE Counted(e) /\ counts[e.type] > MaxLines
  <2>1. counts[e.type] # MaxLines
    BY <1>0, <1>1
  <2> QED BY <1>1, <2>1, Zenon DEF Line
<1>2. CASE Counted(e) /\ counts[e.type] = MaxLines
  <2>1. ~(counts[e.type] > MaxLines)
    BY <1>0, <1>2
  <2> QED BY <1>2, <2>1, Zenon DEF Line
<1>3. CASE ~(Counted(e) /\ (counts[e.type] > MaxLines \/ counts[e.type] = MaxLines))
  BY <1>3, Zenon DEF Line
<1> QED BY <1>1, <1>2, <1>3

LEMMA TypesStep ==
  ASSUME WriterTypes, Occupied, Owned, NEW g \in Goroutine, Writing(g)
  PROVE  WriterTypes'
<1>1. todo[g] # <<>>
  BY Alone DEF Occupied
<1>2. todo' \in [Goroutine -> Seq(AllEvents)] /\ step' \in [Goroutine -> Steps]
  <2>1. todo'[g] \in Seq(AllEvents)
    <3>1. Tail(todo[g]) \in Seq(AllEvents) /\ todo[g] \in Seq(AllEvents)
      BY <1>1, TailTyped DEF WriterTypes
    <3> QED BY <3>1, Alone
  <2>2. step' \in [Goroutine -> Steps] /\ todo' = [todo EXCEPT ![g] = todo'[g]]
    BY Alone
  <2> QED BY <2>1, <2>2 DEF WriterTypes
<1>3. Current(g) \in AllEvents /\ Current(g).type \in EventTypes /\ Encode(Current(g)) \in Texts
  BY <1>1, TailTyped, EventTyped
<1> DEFINE e == Current(g)
<1> HIDE DEF e
<1>4. ASSUME CountEvent(g) PROVE shown' \in [Shown -> Nat]
  BY <1>4 DEF CountEvent, WriterTypes, Shown
<1>5. ASSUME Show(g) PROVE console' \in Seq(EventTypes \cup {"..."})
  <2>1. Line(e, shown') \in {<<>>, <<e.type>>, <<e.type, "...">>}
    BY LineForms
  <2>2. e.type \in EventTypes \cup {"..."} /\ "..." \in EventTypes \cup {"..."}
    BY <1>3 DEF e
  <2>3. Line(e, shown') \in Seq(EventTypes \cup {"..."})
    BY <2>1, <2>2, ShortTyped
  <2>4. console' = console \o Line(e, shown') \/ console' = Append(console, e.type)
    BY <1>5 DEF Show, e
  <2>5. console \in Seq(EventTypes \cup {"..."})
    BY DEF WriterTypes
  <2> QED BY <2>2, <2>3, <2>4, <2>5, AppendTyped, JoinTyped
<1>6. CASE BeginEvent(g)
  BY <1>2, <1>6 DEF BeginEvent, WriterTypes
<1>7. CASE Show(g)
  BY <1>2, <1>4, <1>5, <1>7 DEF Show, WriterTypes
<1>8. CASE ConsoleFails(g)
  BY <1>2, <1>4, <1>8 DEF ConsoleFails, WriterTypes
<1>9. CASE EncodeFails(g)
  BY <1>2, <1>9 DEF EncodeFails, WriterTypes
<1>10. ASSUME NEW b \in Buffer, EncodeEvent(g, b) PROVE WriterTypes'
  BY <1>2, <1>3, <1>10 DEF EncodeEvent, TakeBuffer, WriterTypes
<1>11. CASE FlushHalf(g) \/ FlushRest(g)
  <2>1. uses[g] \in Buffer /\ buffer[uses[g]] \in Texts
    BY <1>11 DEF FlushHalf, FlushRest, At, Owned, HasBuffer, WriterTypes
  <2>2. <<buffer[uses[g]], 1>> \in Texts \X {1, 2} /\ <<buffer[uses[g]], 2>> \in Texts \X {1, 2}
    BY <2>1
  <2>3. file' = Append(file, <<buffer[uses[g]], 1>>) \/ file' = Append(file, <<buffer[uses[g]], 2>>)
    BY <1>11 DEF FlushHalf, FlushRest
  <2>4. file' \in Seq(Texts \X {1, 2})
    <3>1. file \in Seq(Texts \X {1, 2})
      BY DEF WriterTypes
    <3> QED BY <2>2, <2>3, <3>1, AppendTyped
  <2>5. lock' \in Goroutine \cup {NoOne}
    BY <1>11 DEF FlushHalf, FlushRest, WriterTypes
  <2> QED BY <1>2, <1>11, <2>4, <2>5 DEF FlushHalf, FlushRest, WriterTypes
<1>12. CASE PutBuffer(g)
  <2>1. uses[g] \in Buffer
    BY <1>12 DEF PutBuffer, Finished, At, Owned, HasBuffer
  <2>2. accepted' \in Seq(AllEvents)
    BY <1>3, <1>12 DEF PutBuffer, WriterTypes
  <2> QED BY <1>2, <1>12, <2>1, <2>2 DEF PutBuffer, WriterTypes
<1> QED BY <1>6, <1>7, <1>8, <1>9, <1>10, <1>11, <1>12 DEF Writing

LEMMA OwnedStep ==
  ASSUME WriterTypes, Occupied, Owned, NEW g \in Goroutine, Writing(g)
  PROVE  Owned'
<1>1. \A h \in Goroutine : h # g => step'[h] = step[h] /\ uses'[h] = uses[h] /\ Current(h)' = Current(h)
  BY Alone DEF Current
<1>2. step'[g] # "idle" => Current(g)' = Current(g)
  BY Alone DEF Current
<1> USE DEF At, Finished
<1>3. CASE BeginEvent(g) \/ Show(g) \/ ConsoleFails(g) \/ EncodeFails(g)
  <2>1. UNCHANGED <<pool, buffer, uses>> /\ step'[g] \notin {"flush", "half", "put"}
    BY <1>3 DEF BeginEvent, Show, ConsoleFails, EncodeFails, WriterTypes
  <2> QED BY <1>1, <2>1 DEF Owned, HasBuffer
<1>4. CASE FlushHalf(g) \/ FlushRest(g)
  <2>1. UNCHANGED <<pool, buffer, uses>> /\ step[g] \in {"flush", "half"} /\ step'[g] \in {"half", "put"}
    BY <1>4 DEF FlushHalf, FlushRest, WriterTypes
  <2> QED BY <1>1, <1>2, <2>1 DEF Owned, HasBuffer
<1>5. CASE PutBuffer(g)
  <2>1. /\ pool' = pool \cup {uses[g]} /\ buffer' = buffer /\ step[g] = "put" /\ step'[g] = "idle"
    BY <1>5 DEF PutBuffer, WriterTypes
  <2>2. \A h \in Goroutine : h # g /\ HasBuffer(h) => uses[h] # uses[g]
    BY <2>1 DEF Owned, HasBuffer
  <2> QED BY <1>1, <2>1, <2>2 DEF Owned, HasBuffer
<1>6. ASSUME NEW b \in Buffer, EncodeEvent(g, b) PROVE Owned'
  <2>1. /\ b \in pool /\ pool' = pool \ {b} /\ uses'[g] = b /\ step'[g] = "flush"
        /\ buffer' = [buffer EXCEPT ![b] = Encode(Current(g))] /\ buffer \in [Buffer -> Texts]
    BY <1>6 DEF EncodeEvent, TakeBuffer, WriterTypes
  <2>2. \A h \in Goroutine : HasBuffer(h) => uses[h] # b
    BY <2>1 DEF Owned
  <2>3. buffer'[b] = Encode(Current(g)') /\ b \in Buffer \ pool'
    BY <1>2, <2>1
  <2>4. ASSUME NEW h \in Goroutine, h # g, HasBuffer(h)'
        PROVE  uses'[h] \in Buffer \ pool' /\ buffer'[uses'[h]] = Encode(Current(h)') /\ uses'[h] # b
    <3>1. HasBuffer(h)
      BY <1>1, <2>4 DEF HasBuffer
    <3>2. uses[h] \in Buffer \ pool /\ buffer[uses[h]] = Encode(Current(h)) /\ uses[h] # b
      BY <2>2, <3>1 DEF Owned
    <3> QED BY <1>1, <2>1, <2>4, <3>2
  <2>5. \A h, i \in Goroutine : h # g /\ i # g /\ HasBuffer(h)' /\ HasBuffer(i)' /\ uses'[h] = uses'[i] => h = i
    BY <1>1 DEF Owned, HasBuffer
  <2> QED BY <2>1, <2>3, <2>4, <2>5 DEF Owned
<1> QED BY <1>3, <1>4, <1>5, <1>6 DEF Writing

LEMMA FileStep ==
  ASSUME WriterTypes, Occupied, Owned, Locked, FileInv, NEW g \in Goroutine, Writing(g)
  PROVE  Locked' /\ FileInv'
<1>1. \A h \in Goroutine : h # g => step'[h] = step[h] /\ Current(h)' = Current(h)
  BY Alone DEF Current
<1>2. step'[g] # "idle" => Current(g)' = Current(g)
  BY Alone DEF Current
<1>3. NoOne \notin Goroutine
  BY WritersAssumption DEF NoOne
<1>4. Len(file) \in Nat /\ DOMAIN file = 1..Len(file)
  BY DEF WriterTypes
<1> USE DEF At, Finished
<1>5. CASE BeginEvent(g) \/ Show(g) \/ ConsoleFails(g) \/ EncodeFails(g) \/ PutBuffer(g)
           \/ \E b \in Buffer : EncodeEvent(g, b)
  <2>1. file' = file /\ lock' = lock /\ step[g] # "half" /\ step'[g] # "half"
    BY <1>5 DEF BeginEvent, Show, ConsoleFails, EncodeFails, PutBuffer, EncodeEvent, WriterTypes
  <2>2. Locked'
    BY <1>1, <2>1 DEF Locked
  <2>3. lock # NoOne => lock \in Goroutine /\ lock # g
    BY <2>1 DEF Locked, WriterTypes
  <2>4. lock # NoOne => Current(lock)' = Current(lock)
    BY <1>1, <2>1, <2>3 DEF Current
  <2>5. LinesAreWhole'
    BY <2>1 DEF FileInv, LinesAreWhole
  <2> QED BY <2>1, <2>2, <2>4, <2>5 DEF FileInv
<1>6. CASE FlushHalf(g)
  <2>1. /\ lock = NoOne /\ lock' = g /\ step'[g] = "half" /\ HasBuffer(g)
        /\ file' = Append(file, <<buffer[uses[g]], 1>>)
    BY <1>6 DEF FlushHalf, MayLock, WriterTypes, HasBuffer
  <2>2. buffer[uses[g]] = Encode(Current(g))
    BY <2>1 DEF Owned
  <2>3. Locked'
    BY <1>1, <1>3, <2>1 DEF Locked
  <2>4. Len(file) % 2 = 0
    BY <2>1 DEF FileInv
  <2>5. /\ Len(file') = Len(file) + 1 /\ DOMAIN file' = 1..Len(file) + 1
        /\ file'[Len(file) + 1] = <<Encode(Current(g)), 1>>
        /\ \A k \in 1..Len(file) : file'[k] = file[k]
    BY <2>1, <2>2 DEF WriterTypes
  <2>6. (Len(file) + 1) % 2 = 1
    BY <1>4, <2>4
  <2>7. LinesAreWhole'
    <3>1. SUFFICES ASSUME NEW k \in 1..Len(file) + 1
                   PROVE  /\ file'[k][2] = IF k % 2 = 1 THEN 1 ELSE 2
                          /\ k % 2 = 0 => file'[k][1] = file'[k - 1][1]
      BY <2>5 DEF LinesAreWhole
    <3>2. CASE k = Len(file) + 1
      BY <2>5, <2>6, <3>2
    <3>3. CASE k # Len(file) + 1
      <4>1. k \in 1..Len(file)
        BY <1>4, <3>3
      <4>2. k % 2 = 0 => k - 1 \in 1..Len(file)
        BY <1>4, <4>1
      <4> QED BY <1>4, <2>5, <4>1, <4>2 DEF FileInv, LinesAreWhole
    <3> QED BY <3>2, <3>3
  <2>8. Current(g)' = Current(g)
    BY <1>2, <2>1
  <2> QED BY <1>3, <2>1, <2>3, <2>5, <2>6, <2>7, <2>8 DEF FileInv
<1>7. CASE FlushRest(g)
  <2>1. /\ lock' = NoOne /\ step[g] = "half" /\ step'[g] = "put" /\ HasBuffer(g)
        /\ file' = Append(file, <<buffer[uses[g]], 2>>)
    BY <1>7 DEF FlushRest, WriterTypes, HasBuffer
  <2>2. buffer[uses[g]] = Encode(Current(g)) /\ lock = g
    BY <2>1 DEF Owned, Locked
  <2>3. Locked'
    BY <1>1, <1>3, <2>1, <2>2 DEF Locked
  <2>4. Len(file) % 2 = 1 /\ file[Len(file)][1] = Encode(Current(g))
    BY <1>3, <2>2 DEF FileInv
  <2>5. /\ Len(file') = Len(file) + 1 /\ DOMAIN file' = 1..Len(file) + 1
        /\ file'[Len(file) + 1] = <<Encode(Current(g)), 2>>
        /\ \A k \in 1..Len(file) : file'[k] = file[k]
    BY <2>1, <2>2 DEF WriterTypes
  <2>6. (Len(file) + 1) % 2 = 0 /\ Len(file) \in 1..Len(file)
    BY <1>4, <2>4
  <2>7. LinesAreWhole'
    <3>1. SUFFICES ASSUME NEW k \in 1..Len(file) + 1
                   PROVE  /\ file'[k][2] = IF k % 2 = 1 THEN 1 ELSE 2
                          /\ k % 2 = 0 => file'[k][1] = file'[k - 1][1]
      BY <2>5 DEF LinesAreWhole
    <3>2. CASE k = Len(file) + 1
      <4>1. file'[k - 1] = file[Len(file)]
        BY <1>4, <2>5, <2>6, <3>2
      <4> QED BY <2>4, <2>5, <2>6, <3>2, <4>1
    <3>3. CASE k # Len(file) + 1
      <4>1. k \in 1..Len(file)
        BY <1>4, <3>3
      <4>2. k % 2 = 0 => k - 1 \in 1..Len(file)
        BY <1>4, <4>1
      <4> QED BY <1>4, <2>5, <4>1, <4>2 DEF FileInv, LinesAreWhole
    <3> QED BY <3>2, <3>3
  <2> QED BY <2>1, <2>3, <2>5, <2>6, <2>7 DEF FileInv
<1> QED BY <1>5, <1>6, <1>7 DEF Writing

-----------------------------------------------------------------------------
(* Counting: every line belongs to an accepted event, or to a goroutine    *)
(* that has written it and has not yet returned.                           *)

PutSet == {g \in Goroutine : step[g] = "put"}
InFlight(x) == {g \in Goroutine : step[g] \in {"half", "put"} /\ Encode(Current(g)) = x}
Tally ==
  /\ Len(file) = 2 * Len(accepted) + 2 * Cardinality(PutSet) + IF lock = NoOne THEN 0 ELSE 1
  /\ \A x \in Texts :
       Cardinality(Lines(x)) = Cardinality(Accepted(x)) + Cardinality(InFlight(x))

LEMMA OneMore ==
  ASSUME NEW n \in Nat, NEW K \in SUBSET (1..n)
  PROVE  Cardinality(K) \in Nat /\ Cardinality(K \cup {n + 1}) = Cardinality(K) + 1
<1>1. IsFiniteSet(1..n)
  BY FS_Interval
<1>2. IsFiniteSet(K)
  BY <1>1, FS_Subset
<1>3. n + 1 \notin 1..n
  OBVIOUS
<1> QED BY <1>2, <1>3, FS_AddElement, FS_CardinalityType

LEMMA OneMoreGoroutine ==
  ASSUME NEW K \in SUBSET Goroutine, NEW g \in Goroutine
  PROVE  /\ Cardinality(K) \in Nat
         /\ g \notin K => Cardinality(K \cup {g}) = Cardinality(K) + 1
         /\ g \in K => Cardinality(K \ {g}) = Cardinality(K) - 1
<1>1. IsFiniteSet(K)
  BY WritersAssumption, FS_Subset
<1> QED BY <1>1, FS_AddElement, FS_RemoveElement, FS_CardinalityType

LEMMA TallyInit == ASSUME Init PROVE Tally
<1>1. step = [g \in Goroutine |-> "idle"] /\ lock = NoOne /\ file = <<>> /\ accepted = <<>>
  BY DEF Init, WritersInit
<1>2. PutSet = {} /\ \A x : Lines(x) = {} /\ Accepted(x) = {} /\ InFlight(x) = {}
  BY <1>1 DEF PutSet, Lines, Accepted, InFlight
<1>3. Cardinality({}) = 0 /\ Len(file) = 0 /\ Len(accepted) = 0
  BY <1>1, FS_EmptySet
<1>4. Cardinality(PutSet) = 0 /\ \A x : /\ Cardinality(Lines(x)) = 0 /\ Cardinality(Accepted(x)) = 0
                                       /\ Cardinality(InFlight(x)) = 0
  BY <1>2, <1>3
<1> QED BY <1>1, <1>3, <1>4 DEF Tally

LEMMA TallyStep ==
  ASSUME WriterTypes, Occupied, Owned, Locked, Tally, NEW g \in Goroutine, Writing(g)
  PROVE  Tally'
<1>1. \A h \in Goroutine : h # g => step'[h] = step[h] /\ Current(h)' = Current(h)
  BY Alone DEF Current
<1>2. step'[g] # "idle" => Current(g)' = Current(g)
  BY Alone DEF Current
<1>3. NoOne \notin Goroutine
  BY WritersAssumption DEF NoOne
<1>4. /\ Len(file) \in Nat /\ DOMAIN file = 1..Len(file)
      /\ Len(accepted) \in Nat /\ DOMAIN accepted = 1..Len(accepted)
  BY DEF WriterTypes
<1>5. /\ PutSet \in SUBSET Goroutine
      /\ \A x : /\ InFlight(x) \in SUBSET Goroutine /\ Lines(x) \in SUBSET (1..Len(file))
                /\ Accepted(x) \in SUBSET (1..Len(accepted))
  BY <1>4 DEF PutSet, InFlight, Lines, Accepted
<1>6. /\ Cardinality(PutSet) \in Nat
      /\ \A x : /\ Cardinality(InFlight(x)) \in Nat /\ Cardinality(Lines(x)) \in Nat
                /\ Cardinality(Accepted(x)) \in Nat
  BY <1>4, <1>5, OneMore, OneMoreGoroutine
<1>7. todo[g] # <<>>
  BY Alone DEF Occupied
<1>8. Current(g) \in AllEvents /\ Encode(Current(g)) \in Texts
  BY <1>7, TailTyped, EventTyped
<1> DEFINE mine == Encode(Current(g))
<1> USE DEF At, Finished
<1>9. CASE BeginEvent(g) \/ Show(g) \/ ConsoleFails(g) \/ EncodeFails(g)
           \/ \E b \in Buffer : EncodeEvent(g, b)
  <2>1. /\ UNCHANGED <<file, lock, accepted>> /\ step[g] \notin {"half", "put"}
        /\ step'[g] \notin {"half", "put"}
    BY <1>9 DEF BeginEvent, Show, ConsoleFails, EncodeFails, EncodeEvent, WriterTypes
  <2>2. PutSet' = PutSet
    BY <1>1, <2>1 DEF PutSet
  <2>3. \A x : InFlight(x)' = InFlight(x)
    BY <1>1, <2>1 DEF InFlight
  <2>4. \A x : Lines(x)' = Lines(x) /\ Accepted(x)' = Accepted(x)
    BY <2>1 DEF Lines, Accepted
  <2> QED BY <2>1, <2>2, <2>3, <2>4 DEF Tally
<1>10. CASE FlushHalf(g)
  <2>1. /\ lock = NoOne /\ lock' = g /\ step[g] = "flush" /\ step'[g] = "half" /\ HasBuffer(g)
        /\ file' = Append(file, <<buffer[uses[g]], 1>>) /\ accepted' = accepted
    BY <1>10 DEF FlushHalf, MayLock, WriterTypes, HasBuffer
  <2>2. buffer[uses[g]] = mine
    BY <2>1 DEF Owned
  <2>3. /\ Len(file') = Len(file) + 1 /\ DOMAIN file' = 1..Len(file) + 1
        /\ file'[Len(file) + 1] = <<mine, 1>>
        /\ \A k \in 1..Len(file) : file'[k] = file[k]
    BY <2>1, <2>2 DEF WriterTypes
  <2>4. PutSet' = PutSet
    BY <1>1, <2>1 DEF PutSet
  <2>5. Len(file)' = 2 * Len(accepted)' + 2 * Cardinality(PutSet)' + IF lock' = NoOne THEN 0 ELSE 1
    BY <1>3, <1>4, <1>6, <2>1, <2>3, <2>4 DEF Tally
  <2>6. ASSUME NEW x \in Texts
        PROVE  Cardinality(Lines(x))' = Cardinality(Accepted(x))' + Cardinality(InFlight(x))'
    <3>1. Accepted(x)' = Accepted(x)
      BY <2>1 DEF Accepted
    <3>2. CASE x = mine
      <4>1. Lines(x)' = Lines(x) \cup {Len(file) + 1}
        BY <1>4, <2>3, <3>2 DEF Lines
      <4>2. InFlight(x)' = InFlight(x) \cup {g} /\ g \notin InFlight(x)
        BY <1>1, <1>2, <2>1, <3>2 DEF InFlight
      <4>3. Cardinality(Lines(x)') = Cardinality(Lines(x)) + 1
        BY <1>4, <1>5, <4>1, OneMore
      <4>4. Cardinality(InFlight(x)') = Cardinality(InFlight(x)) + 1
        BY <1>5, <4>2, OneMoreGoroutine
      <4> QED BY <1>6, <3>1, <4>3, <4>4 DEF Tally
    <3>3. CASE x # mine
      <4>1. Lines(x)' = Lines(x)
        BY <1>4, <2>3, <3>3 DEF Lines
      <4>2. InFlight(x)' = InFlight(x)
        BY <1>1, <1>2, <2>1, <3>3 DEF InFlight
      <4> QED BY <3>1, <4>1, <4>2 DEF Tally
    <3> QED BY <3>2, <3>3
  <2> QED BY <2>5, <2>6 DEF Tally
<1>11. CASE FlushRest(g)
  <2>1. /\ lock' = NoOne /\ step[g] = "half" /\ step'[g] = "put"
        /\ file' = Append(file, <<buffer[uses[g]], 2>>) /\ accepted' = accepted
    BY <1>11 DEF FlushRest, WriterTypes
  <2>2. lock # NoOne
    BY <1>3, <2>1 DEF Locked
  <2>3. /\ Len(file') = Len(file) + 1 /\ DOMAIN file' = 1..Len(file) + 1
        /\ file'[Len(file) + 1] = <<buffer[uses[g]], 2>>
        /\ \A k \in 1..Len(file) : file'[k] = file[k]
    BY <2>1 DEF WriterTypes
  <2>4. PutSet' = PutSet \cup {g} /\ g \notin PutSet
    BY <1>1, <2>1 DEF PutSet
  <2>5. Cardinality(PutSet') = Cardinality(PutSet) + 1
    BY <1>5, <2>4, OneMoreGoroutine
  <2>6. Len(file)' = 2 * Len(accepted)' + 2 * Cardinality(PutSet)' + IF lock' = NoOne THEN 0 ELSE 1
    BY <1>4, <1>6, <2>1, <2>2, <2>3, <2>5 DEF Tally
  <2>7. ASSUME NEW x \in Texts
        PROVE  Cardinality(Lines(x))' = Cardinality(Accepted(x))' + Cardinality(InFlight(x))'
    <3>1. Accepted(x)' = Accepted(x)
      BY <2>1 DEF Accepted
    <3>2. Lines(x)' = Lines(x)
      BY <1>4, <2>3 DEF Lines
    <3>3. InFlight(x)' = InFlight(x)
      BY <1>1, <1>2, <2>1 DEF InFlight
    <3> QED BY <3>1, <3>2, <3>3 DEF Tally
  <2> QED BY <2>6, <2>7 DEF Tally
<1>12. CASE PutBuffer(g)
  <2>1. /\ UNCHANGED <<lock, file>> /\ step[g] = "put" /\ step'[g] = "idle"
        /\ accepted' = Append(accepted, Current(g))
    BY <1>12 DEF PutBuffer, WriterTypes
  <2>2. /\ Len(accepted') = Len(accepted) + 1 /\ DOMAIN accepted' = 1..Len(accepted) + 1
        /\ accepted'[Len(accepted) + 1] = Current(g)
        /\ \A k \in 1..Len(accepted) : accepted'[k] = accepted[k]
    BY <1>8, <2>1 DEF WriterTypes
  <2>3. PutSet' = PutSet \ {g} /\ g \in PutSet
    BY <1>1, <2>1 DEF PutSet
  <2>4. Cardinality(PutSet') = Cardinality(PutSet) - 1
    BY <1>5, <2>3, OneMoreGoroutine
  <2>5. Len(file)' = 2 * Len(accepted)' + 2 * Cardinality(PutSet)' + IF lock' = NoOne THEN 0 ELSE 1
    BY <1>4, <1>6, <2>1, <2>2, <2>4 DEF Tally
  <2>6. ASSUME NEW x \in Texts
        PROVE  Cardinality(Lines(x))' = Cardinality(Accepted(x))' + Cardinality(InFlight(x))'
    <3>1. Lines(x)' = Lines(x)
      BY <2>1 DEF Lines
    <3>2. CASE x = mine
      <4>1. Accepted(x)' = Accepted(x) \cup {Len(accepted) + 1}
        BY <1>4, <2>2, <3>2 DEF Accepted
      <4>2. InFlight(x)' = InFlight(x) \ {g} /\ g \in InFlight(x)
        BY <1>1, <2>1, <3>2 DEF InFlight
      <4>3. Cardinality(Accepted(x)') = Cardinality(Accepted(x)) + 1
        BY <1>4, <1>5, <4>1, OneMore
      <4>4. Cardinality(InFlight(x)') = Cardinality(InFlight(x)) - 1
        BY <1>5, <4>2, OneMoreGoroutine
      <4> QED BY <1>6, <3>1, <4>3, <4>4 DEF Tally
    <3>3. CASE x # mine
      <4>1. Accepted(x)' = Accepted(x)
        BY <1>4, <2>2, <3>3 DEF Accepted
      <4>2. InFlight(x)' = InFlight(x)
        BY <1>1, <2>1, <3>3 DEF InFlight
      <4> QED BY <3>1, <4>1, <4>2 DEF Tally
    <3> QED BY <3>2, <3>3
  <2> QED BY <2>5, <2>6 DEF Tally
<1> QED BY <1>9, <1>10, <1>11, <1>12 DEF Writing

-----------------------------------------------------------------------------
(* A summary is Main's last event, and Main writes when the others have    *)
(* joined: what it has put in the file is the end of it.                   *)

EndsWith(e) == file # <<>> /\ file[Len(file)][1] = Encode(e)
LastInv ==
  /\ step[Main] = "put" => EndsWith(Current(Main))
  /\ \A k \in DOMAIN accepted : accepted[k].type = "summary" => EndsWith(accepted[k]) /\ AllWritten

LEMMA LastInit == ASSUME Init PROVE LastInv
  BY WritersAssumption DEF Init, WritersInit, LastInv

LEMMA LastStep ==
  ASSUME WriterTypes, SummariesLast, Occupied, Owned, LastInv, NEW g \in Goroutine, Writing(g)
  PROVE  LastInv'
<1>1. \A h \in Goroutine : h # g => step'[h] = step[h] /\ Current(h)' = Current(h)
  BY Alone DEF Current
<1>2. step'[g] # "idle" => Current(g)' = Current(g)
  BY Alone DEF Current
<1>3. todo[g] # <<>>
  BY Alone DEF Occupied
<1>4. ~AllWritten
  BY <1>3 DEF AllWritten
<1>5. \A k \in DOMAIN accepted : accepted[k].type # "summary"
  BY <1>4 DEF LastInv
<1>6. Current(g) \in AllEvents /\ Main \in Goroutine
  BY <1>3, TailTyped, WritersAssumption
<1>7. g # Main => step[Main] = "idle"
  BY <1>3, <1>6 DEF Occupied, WorkersJoined
<1> USE DEF At, Finished
<1>8. CASE BeginEvent(g) \/ Show(g) \/ ConsoleFails(g) \/ EncodeFails(g) \/ FlushHalf(g)
           \/ \E b \in Buffer : EncodeEvent(g, b)
  <2>1. accepted' = accepted /\ step'[g] # "put"
    BY <1>8 DEF BeginEvent, Show, ConsoleFails, EncodeFails, FlushHalf, EncodeEvent, WriterTypes
  <2>2. step'[Main] # "put"
    BY <1>1, <1>6, <1>7, <2>1
  <2> QED BY <1>5, <2>1, <2>2 DEF LastInv
<1>9. CASE FlushRest(g)
  <2>1. /\ accepted' = accepted /\ step[g] = "half" /\ step'[g] = "put" /\ HasBuffer(g)
        /\ file' = Append(file, <<buffer[uses[g]], 2>>)
    BY <1>9 DEF FlushRest, WriterTypes, HasBuffer
  <2>2. buffer[uses[g]] = Encode(Current(g))
    BY <2>1 DEF Owned
  <2>3. file' # <<>> /\ file'[Len(file')] = <<Encode(Current(g)), 2>>
    <3>1. /\ Len(file') = Len(file) + 1 /\ Len(file) \in Nat
          /\ file'[Len(file) + 1] = <<Encode(Current(g)), 2>>
      BY <2>1, <2>2 DEF WriterTypes
    <3>2. file' # <<>>
      BY <3>1
    <3> QED BY <3>1, <3>2
  <2>4. step'[Main] = "put" => EndsWith(Current(Main))'
    <3>1. CASE g = Main
      <4>1. file' # <<>> /\ file'[Len(file')][1] = Encode(Current(Main)')
        BY <1>2, <2>1, <2>3, <3>1
      <4> QED BY <4>1 DEF EndsWith
    <3>2. CASE g # Main
      BY <1>1, <1>6, <1>7, <3>2
    <3> QED BY <3>1, <3>2
  <2> QED BY <1>5, <2>1, <2>4 DEF LastInv
<1>10. CASE PutBuffer(g)
  <2>1. /\ file' = file /\ step[g] = "put" /\ step'[g] = "idle"
        /\ accepted' = Append(accepted, Current(g)) /\ todo' = [todo EXCEPT ![g] = Tail(@)]
    BY <1>10 DEF PutBuffer, WriterTypes
  <2>2. /\ DOMAIN accepted' = 1..Len(accepted) + 1 /\ DOMAIN accepted = 1..Len(accepted)
        /\ accepted'[Len(accepted) + 1] = Current(g) /\ Len(accepted) \in Nat
        /\ \A k \in 1..Len(accepted) : accepted'[k] = accepted[k]
    BY <1>6, <2>1 DEF WriterTypes
  <2>3. step'[Main] # "put"
    BY <1>1, <1>6, <1>7, <2>1
  <2>4. ASSUME Current(g).type = "summary"
        PROVE  file' # <<>> /\ file'[Len(file')][1] = Encode(Current(g)) /\ AllWritten'
    <3>1. Current(g) = todo[g][1] /\ 1 \in DOMAIN todo[g] /\ Len(todo[g]) \in Nat
      BY <1>3, TailTyped DEF WriterTypes
    <3>2. g = Main /\ Len(todo[g]) = 1
      BY <2>4, <3>1 DEF SummariesLast
    <3>3. EndsWith(Current(g))
      BY <2>1, <3>2 DEF LastInv
    <3>4. file' # <<>> /\ file'[Len(file')][1] = Encode(Current(g))
      BY <2>1, <3>3 DEF EndsWith
    <3>5. todo'[g] = <<>>
      <4>1. Tail(todo[g]) \in Seq(AllEvents) /\ Len(Tail(todo[g])) = 0
        BY <1>3, <3>2, TailTyped
      <4>2. todo'[g] = Tail(todo[g])
        BY <2>1 DEF WriterTypes
      <4> QED BY <4>1, <4>2, NoElements
    <3>6. WorkersJoined
      BY <2>1, <3>2 DEF Occupied
    <3>7. AllWritten'
      BY <1>1, <2>1, <3>2, <3>5, <3>6, Alone DEF AllWritten, WorkersJoined
    <3> QED BY <3>4, <3>7
  <2>5. ASSUME NEW k \in DOMAIN accepted', accepted'[k].type = "summary"
        PROVE  file' # <<>> /\ file'[Len(file')][1] = Encode(accepted'[k]) /\ AllWritten'
    <3>1. accepted'[k] = Current(g)
      BY <1>5, <2>2, <2>5
    <3> QED BY <2>4, <2>5, <3>1
  <2> QED BY <2>3, <2>5 DEF LastInv, EndsWith
<1> QED BY <1>8, <1>9, <1>10 DEF Writing

-----------------------------------------------------------------------------
(* The console's lists are short.                                          *)

Words == EventTypes \cup {"..."}
\* A "..." ends the list of the line before it, which has been counted that far.
EndsLists(lines, counts) ==
  \A k \in DOMAIN lines : lines[k] = "..." =>
    /\ k > 1 /\ lines[k - 1] \in Shown /\ counts[lines[k - 1]] >= MaxLines
    /\ \A j \in k + 1..Len(lines) : lines[j] # lines[k - 1]
ConsoleInv ==
  /\ \A t \in Shown : Times(t, console) <= shown[t] /\ Times(t, console) <= MaxLines
  /\ EndsLists(console, shown)

LEMMA TimesAppend ==
  ASSUME NEW S, NEW s \in Seq(S), NEW e \in S, NEW x
  PROVE  Times(x, s) \in Nat /\ Times(x, Append(s, e)) = Times(x, s) + IF x = e THEN 1 ELSE 0
<1> DEFINE Places(t) == {k \in DOMAIN t : t[k] = x}
<1>1. /\ Len(s) \in Nat /\ DOMAIN s = 1..Len(s) /\ DOMAIN Append(s, e) = 1..Len(s) + 1
      /\ Append(s, e)[Len(s) + 1] = e /\ \A k \in 1..Len(s) : Append(s, e)[k] = s[k]
  OBVIOUS
<1>2. Places(s) \in SUBSET (1..Len(s))
  BY <1>1
<1>3. CASE x = e
  <2>1. Places(Append(s, e)) = Places(s) \cup {Len(s) + 1}
    BY <1>1, <1>3
  <2> HIDE DEF Places
  <2>2. Cardinality(Places(s)) \in Nat /\ Cardinality(Places(Append(s, e))) = Cardinality(Places(s)) + 1
    BY <1>1, <1>2, <2>1, OneMore
  <2> QED BY <1>3, <2>2 DEF Places, Times
<1>4. CASE x # e
  <2>1. Places(Append(s, e)) = Places(s)
    BY <1>1, <1>4
  <2> HIDE DEF Places
  <2>2. Cardinality(Places(s)) \in Nat /\ Cardinality(Places(Append(s, e))) = Cardinality(Places(s))
    BY <1>1, <1>2, <2>1, OneMore
  <2>3. Times(x, s) = Cardinality(Places(s)) /\ Times(x, Append(s, e)) = Cardinality(Places(Append(s, e)))
    BY Zenon DEF Places, Times
  <2> QED BY <1>4, <2>2, <2>3
<1> QED BY <1>3, <1>4

LEMMA ListsGoOn ==
  ASSUME NEW s \in Seq(Words), NEW counts \in [Shown -> Nat], EndsLists(s, counts),
         NEW e \in EventTypes, e \in Shown => counts[e] < MaxLines
  PROVE  EndsLists(Append(s, e), counts)
<1>1. /\ Len(s) \in Nat /\ DOMAIN s = 1..Len(s) /\ DOMAIN Append(s, e) = 1..Len(s) + 1
      /\ Len(Append(s, e)) = Len(s) + 1 /\ Append(s, e)[Len(s) + 1] = e
      /\ \A k \in 1..Len(s) : Append(s, e)[k] = s[k]
  OBVIOUS
<1>2. e # "..." /\ MaxLines \in Nat
  BY WritersAssumption DEF EventTypes
<1>3. SUFFICES ASSUME NEW k \in 1..Len(s) + 1, Append(s, e)[k] = "..."
               PROVE  /\ k > 1 /\ Append(s, e)[k - 1] \in Shown /\ counts[Append(s, e)[k - 1]] >= MaxLines
                      /\ \A j \in k + 1..Len(s) + 1 : Append(s, e)[j] # Append(s, e)[k - 1]
  BY <1>1 DEF EndsLists
<1>4. k \in 1..Len(s) /\ s[k] = "..."
  BY <1>1, <1>2, <1>3
<1>5. /\ k > 1 /\ s[k - 1] \in Shown /\ counts[s[k - 1]] >= MaxLines
      /\ \A j \in k + 1..Len(s) : s[j] # s[k - 1]
  BY <1>1, <1>4 DEF EndsLists
<1>6. k - 1 \in 1..Len(s) /\ Append(s, e)[k - 1] = s[k - 1]
  BY <1>1, <1>4, <1>5
<1>7. s[k - 1] # e
  BY <1>2, <1>5
<1>8. ASSUME NEW j \in k + 1..Len(s) + 1 PROVE Append(s, e)[j] # s[k - 1]
  BY <1>1, <1>4, <1>5, <1>7
<1> QED BY <1>5, <1>6, <1>8

LEMMA CountsGoOn ==
  ASSUME NEW s, NEW counts \in [Shown -> Nat], NEW more \in [Shown -> Nat], EndsLists(s, counts),
         \A t \in Shown : counts[t] <= more[t]
  PROVE  EndsLists(s, more)
<1>1. MaxLines \in Nat
  BY WritersAssumption
<1>2. \A t \in Shown : counts[t] >= MaxLines => more[t] >= MaxLines
  BY <1>1
<1> QED BY <1>2 DEF EndsLists

LEMMA ListEnds ==
  ASSUME NEW s \in Seq(Words), NEW counts \in [Shown -> Nat], EndsLists(s, counts),
         NEW e \in Shown, counts[e] >= MaxLines, Len(s) > 0, s[Len(s)] = e
  PROVE  EndsLists(Append(s, "..."), counts)
<1> DEFINE r == Append(s, "...")
<1>1. /\ Len(s) \in Nat /\ DOMAIN s = 1..Len(s) /\ DOMAIN r = 1..Len(s) + 1
      /\ Len(r) = Len(s) + 1 /\ r[Len(s) + 1] = "..."
      /\ \A k \in 1..Len(s) : r[k] = s[k]
  OBVIOUS
<1> HIDE DEF r
<1>2. SUFFICES ASSUME NEW k \in 1..Len(s) + 1, r[k] = "..."
               PROVE  /\ k > 1 /\ r[k - 1] \in Shown /\ counts[r[k - 1]] >= MaxLines
                      /\ \A j \in k + 1..Len(s) + 1 : r[j] # r[k - 1]
  BY <1>1 DEF EndsLists, r
<1>3. CASE k = Len(s) + 1
  <2>1. r[k - 1] = e /\ k > 1
    BY <1>1, <1>3
  <2> QED BY <1>1, <1>3, <2>1
<1>4. CASE k # Len(s) + 1
  <2>1. k \in 1..Len(s) /\ s[k] = "..."
    BY <1>1, <1>2, <1>4
  <2>2. /\ k > 1 /\ s[k - 1] \in Shown /\ counts[s[k - 1]] >= MaxLines
        /\ \A j \in k + 1..Len(s) : s[j] # s[k - 1]
    BY <1>1, <2>1 DEF EndsLists
  <2>3. k - 1 \in 1..Len(s) /\ r[k - 1] = s[k - 1]
    BY <1>1, <2>1, <2>2
  <2>4. s[k - 1] # "..."
    BY <2>2 DEF Shown
  <2>5. ASSUME NEW j \in k + 1..Len(s) + 1 PROVE r[j] # s[k - 1]
    BY <1>1, <2>1, <2>2, <2>4
  <2> QED BY <2>2, <2>3, <2>5
<1> QED BY <1>3, <1>4

LEMMA ConsoleInit == ASSUME Init PROVE ConsoleInv
<1>1. console = <<>> /\ shown = [t \in Shown |-> 0]
  BY DEF Init, WritersInit, Shown
<1>2. \A t \in Shown : {k \in DOMAIN console : console[k] = t} = {}
  BY <1>1
<1>3. \A t \in Shown : Times(t, console) = 0
  BY <1>2, FS_EmptySet DEF Times
<1> QED BY <1>1, <1>3, WritersAssumption DEF ConsoleInv, EndsLists

\* What one event does to the console.
LEMMA ConsoleForms ==
  ASSUME WriterTypes, NEW g \in Goroutine, Show(g), NEW e, e = Current(g)
  PROVE  \/ console' = console
         \/ console' = Append(console, e.type) /\ (e.type \in Shown => shown'[e.type] <= MaxLines)
         \/ /\ console' = Append(Append(console, e.type), "...")
            /\ e.type \in Shown /\ shown'[e.type] = MaxLines
<1>1. \/ console' = console \o Line(e, shown')
      \/ Line(e, shown') # <<>> /\ console' = Append(console, e.type)
  BY DEF Show
<1>2. Counted(e) <=> e.type \in Shown
  BY DEF Counted, WriterTypes
<1>3. shown' \in [Shown -> Nat] /\ console \in Seq(Words) /\ MaxLines \in Nat
  BY WritersAssumption DEF Show, CountEvent, WriterTypes, Words
<1>4. CASE Counted(e) /\ shown'[e.type] > MaxLines
  <2>1. Line(e, shown') = <<>>
    BY <1>4, LineForms
  <2> QED BY <1>1, <1>3, <2>1
<1>5. CASE Counted(e) /\ shown'[e.type] = MaxLines
  <2>1. ~(shown'[e.type] > MaxLines)
    BY <1>3, <1>5
  <2>2. Line(e, shown') = <<e.type, "...">>
    BY <1>5, <2>1, LineForms
  <2>3. console \o <<e.type, "...">> = Append(Append(console, e.type), "...")
    BY <1>3
  <2> QED BY <1>1, <1>2, <1>3, <1>5, <2>2, <2>3
<1>6. CASE ~(Counted(e) /\ (shown'[e.type] > MaxLines \/ shown'[e.type] = MaxLines))
  <2>1. Line(e, shown') = <<e.type>>
    BY <1>6, LineForms
  <2>2. console \o <<e.type>> = Append(console, e.type)
    BY <1>3
  <2>3. e.type \in Shown => shown'[e.type] <= MaxLines
    BY <1>2, <1>3, <1>6
  <2> QED BY <1>1, <2>1, <2>2, <2>3
<1> QED BY <1>4, <1>5, <1>6

LEMMA ConsoleStep ==
  ASSUME WriterTypes, Occupied, ConsoleInv, NEW g \in Goroutine, Writing(g), WriterTypes'
  PROVE  ConsoleInv'
<1>1. todo[g] # <<>>
  BY Alone DEF Occupied
<1>2. Current(g).type \in EventTypes
  BY <1>1, TailTyped, EventTyped
<1> DEFINE t == Current(g).type
<1>3. /\ console \in Seq(Words) /\ console' \in Seq(Words) /\ shown \in [Shown -> Nat]
      /\ shown' \in [Shown -> Nat] /\ MaxLines \in Nat
  BY WritersAssumption DEF WriterTypes, Words
<1>4. ASSUME NEW x PROVE Times(x, console) \in Nat
  <2>1. "..." \in Words
    BY DEF Words
  <2> QED BY <1>3, <2>1, TimesAppend
<1>5. ASSUME CountEvent(g)
      PROVE  /\ \A x \in Shown : shown[x] <= shown'[x] /\ (x # t => shown'[x] = shown[x])
             /\ t \in Shown => shown'[t] = shown[t] + 1
  BY <1>3, <1>5 DEF CountEvent
<1> HIDE DEF t
<1>6. CASE Show(g)
  <2>1. CountEvent(g)
    BY <1>6 DEF Show
  <2>2. \/ console' = console
        \/ console' = Append(console, t) /\ (t \in Shown => shown'[t] <= MaxLines)
        \/ console' = Append(Append(console, t), "...") /\ t \in Shown /\ shown'[t] = MaxLines
    BY <1>6, ConsoleForms DEF t
  <2>3. CASE console' = console
    <3>1. EndsLists(console, shown')
      BY <1>3, <1>5, <2>1, CountsGoOn DEF ConsoleInv
    <3>2. \A x \in Shown : Times(x, console) <= shown'[x]
      BY <1>3, <1>4, <1>5, <2>1 DEF ConsoleInv
    <3> QED BY <2>3, <3>1, <3>2 DEF ConsoleInv
  <2>4. CASE /\ console' = Append(console, t) \/ console' = Append(Append(console, t), "...")
             /\ t \in Shown => shown'[t] <= MaxLines
             /\ console' = Append(Append(console, t), "...") => t \in Shown /\ shown'[t] = MaxLines
    <3> DEFINE longer == Append(console, t)
    <3>1. /\ longer \in Seq(Words) /\ Len(longer) > 0 /\ longer[Len(longer)] = t
          /\ t \in Words /\ "..." \in Words
      BY <1>2, <1>3 DEF Words, t
    <3>2. EndsLists(longer, shown)
      BY <1>2, <1>3, <1>5, <2>1, <2>4, ListsGoOn DEF ConsoleInv, t
    <3>3. \A x : Times(x, longer) = Times(x, console) + IF x = t THEN 1 ELSE 0
      BY <1>3, <3>1, TimesAppend
    <3> HIDE DEF longer
    <3>4. EndsLists(longer, shown')
      BY <1>3, <1>5, <2>1, <3>2, CountsGoOn
    <3>5. \A x \in Shown : Times(x, longer) <= shown'[x] /\ Times(x, longer) <= MaxLines
      BY <1>3, <1>4, <1>5, <2>1, <2>4, <3>3 DEF ConsoleInv
    <3>6. CASE console' = longer
      BY <3>4, <3>5, <3>6 DEF ConsoleInv
    <3>7. CASE console' = Append(longer, "...")
      <4>1. t \in Shown /\ shown'[t] >= MaxLines
        BY <1>3, <2>4, <3>7 DEF longer
      <4>2. EndsLists(Append(longer, "..."), shown')
        BY <1>3, <3>1, <3>4, <4>1, ListEnds
      <4>3. \A x : Times(x, longer) \in Nat /\
                   Times(x, Append(longer, "...")) = Times(x, longer) + IF x = "..." THEN 1 ELSE 0
        BY <3>1, TimesAppend
      <4>4. \A x \in Shown : Times(x, Append(longer, "...")) = Times(x, longer)
        BY <4>3 DEF Shown
      <4> QED BY <3>5, <3>7, <4>2, <4>4 DEF ConsoleInv
    <3> QED BY <2>4, <3>6, <3>7 DEF longer
  <2> QED BY <1>3, <2>2, <2>3, <2>4
<1>7. CASE ConsoleFails(g)
  <2>1. CountEvent(g) /\ console' = console
    BY <1>7 DEF ConsoleFails
  <2>2. EndsLists(console, shown')
    BY <1>3, <1>5, <2>1, CountsGoOn DEF ConsoleInv
  <2>3. \A x \in Shown : Times(x, console) <= shown'[x]
    BY <1>3, <1>4, <1>5, <2>1 DEF ConsoleInv
  <2> QED BY <2>1, <2>2, <2>3 DEF ConsoleInv
<1>8. CASE ~Show(g) /\ ~ConsoleFails(g)
  <2>1. UNCHANGED <<shown, console>>
    BY <1>8 DEF Writing, BeginEvent, EncodeFails, EncodeEvent, FlushHalf, FlushRest, PutBuffer
  <2> QED BY <2>1 DEF ConsoleInv
<1> QED BY <1>6, <1>7, <1>8

-----------------------------------------------------------------------------
WriterInv ==
  /\ WriterTypes /\ SummariesLast /\ Occupied /\ Owned /\ Locked /\ FileInv
  /\ Tally /\ LastInv /\ ConsoleInv

LEMMA WriterInvStays == ASSUME WriterInv, UNCHANGED writerVars PROVE WriterInv'
<1> USE DEF writerVars
<1>1. WriterTypes' /\ SummariesLast' /\ Occupied'
  BY DEF WriterInv, WriterTypes, SummariesLast, Occupied, WorkersJoined
<1>2. Owned' /\ Locked' /\ FileInv'
  BY DEF WriterInv, Owned, HasBuffer, Locked, FileInv, LinesAreWhole, Current
<1>3. Tally'
  BY DEF WriterInv, Tally, PutSet, InFlight, Lines, Accepted, Current
<1>4. LastInv' /\ ConsoleInv'
  BY DEF WriterInv, LastInv, EndsWith, AllWritten, Current, ConsoleInv, EndsLists, Times
<1> QED BY <1>1, <1>2, <1>3, <1>4 DEF WriterInv

LEMMA WriterInvStep == ASSUME WriterInv, Next PROVE WriterInv'
<1>1. CASE WritersNext
  <2>1. PICK g \in Goroutine : Writing(g)
    BY <1>1 DEF WritersNext
  <2>2. WriterTypes'
    BY <2>1, TypesStep DEF WriterInv
  <2>3. SummariesLast' /\ Occupied'
    BY <2>1, OccupiedStep DEF WriterInv
  <2>4. Owned'
    BY <2>1, OwnedStep DEF WriterInv
  <2>5. Locked' /\ FileInv'
    BY <2>1, FileStep DEF WriterInv
  <2>6. Tally'
    BY <2>1, TallyStep DEF WriterInv
  <2>7. LastInv'
    BY <2>1, LastStep DEF WriterInv
  <2>8. ConsoleInv'
    BY <2>1, <2>2, ConsoleStep DEF WriterInv
  <2> QED BY <2>2, <2>3, <2>4, <2>5, <2>6, <2>7, <2>8 DEF WriterInv
<1>2. CASE UNCHANGED writerVars
  BY <1>2, WriterInvStays
<1> QED BY <1>1, <1>2 DEF Next, Finish

LEMMA WrittenExactlyOnce ==
  ASSUME WriterTypes, Locked, Tally, AllWritten
  PROVE  NoneLostOrAdded
<1>1. PutSet = {} /\ \A x : InFlight(x) = {}
  BY DEF AllWritten, PutSet, InFlight
<1>2. lock = NoOne
  BY DEF AllWritten, Locked, WriterTypes
<1>3. Cardinality(PutSet) = 0 /\ \A x : Cardinality(InFlight(x)) = 0
  BY <1>1, FS_EmptySet
<1>4. Len(accepted) \in Nat /\ DOMAIN accepted = 1..Len(accepted)
  BY DEF WriterTypes
<1>5. Len(file) = 2 * Len(accepted)
  BY <1>2, <1>3, <1>4 DEF Tally
<1>6. ASSUME NEW e \in ToSet(accepted)
      PROVE  Cardinality(Lines(Encode(e))) = Cardinality(Accepted(Encode(e)))
  <2>1. e \in AllEvents
    BY <1>6 DEF ToSet, WriterTypes
  <2>2. Encode(e) \in Texts
    BY <2>1, EventTyped
  <2>3. Accepted(Encode(e)) \in SUBSET (1..Len(accepted))
    BY <1>4 DEF Accepted
  <2>4. Cardinality(Accepted(Encode(e))) \in Nat
    BY <1>4, <2>3, OneMore
  <2> QED BY <1>3, <2>2, <2>4 DEF Tally
<1> QED BY <1>5, <1>6 DEF NoneLostOrAdded

LEMMA WriterInvSuffices == ASSUME WriterInv PROVE RecordsAreWhole
<1>1. LinesAreWhole
  BY DEF WriterInv, FileInv
<1>2. AllWritten => NoneLostOrAdded
  BY WrittenExactlyOnce DEF WriterInv
<1>3. SummaryIsLast
  BY DEF WriterInv, LastInv, EndsWith, SummaryIsLast
<1>4. ConsoleIsShort
  <2>1. DOMAIN shown = Shown
    BY DEF WriterInv, WriterTypes
  <2> QED BY <2>1 DEF WriterInv, ConsoleInv, EndsLists, ConsoleIsShort
<1> QED BY <1>1, <1>2, <1>3, <1>4 DEF RecordsAreWhole

\* For any number of goroutines and buffers, any events and any limit of the
\* console: the JSONL file (output/writer.go) is a sequence of whole lines, in the
\* end one for each event no writer failed for and the summary's last, and the
\* console (output/human.go) lists at most MaxLines pages, and errors.
THEOREM RecordsCorrect == Spec => []RecordsAreWhole
<1>1. Init => WriterInv
  BY WriterInit, TallyInit, LastInit, ConsoleInit DEF WriterInv
<1>2. WriterInv /\ [Next]_<<input, writerVars>> => WriterInv'
  BY WriterInvStep, WriterInvStays
<1>3. WriterInv => RecordsAreWhole
  BY WriterInvSuffices
<1> QED BY <1>1, <1>2, <1>3, PTL DEF Spec

-----------------------------------------------------------------------------
(* Sequences: what FlattenSeq puts together.                               *)

LEMMA SequenceFacts ==
  ASSUME NEW s, Sequence(s)
  PROVE  /\ Len(s) \in Nat /\ DOMAIN s = 1..Len(s) /\ s = [k \in 1..Len(s) |-> s[k]]
         /\ \A k \in 1..Len(s) : s[k] \in ToSet(s)
BY DEF Sequence, ToSet

LEMMA SequenceByIndex ==
  ASSUME NEW n \in Nat, NEW s, s = [k \in 1..n |-> s[k]]
  PROVE  Sequence(s) /\ Len(s) = n
<1>1. \A k \in 1..n : s[k] \in ToSet(s)
  BY DEF ToSet
<1>2. s \in [1..n -> ToSet(s)]
  BY <1>1
<1>3. s \in Seq(ToSet(s)) /\ Len(s) = n
  BY <1>2
<1> QED BY <1>3 DEF Sequence

LEMMA JoinSequences ==
  ASSUME NEW s, NEW t, Sequence(s), Sequence(t)
  PROVE  Sequence(s \o t) /\ ToSet(s \o t) = ToSet(s) \cup ToSet(t)
<1> DEFINE r == s \o t
           m == Len(s)
           n == Len(t)
<1>1. /\ m \in Nat /\ n \in Nat /\ DOMAIN s = 1..m /\ DOMAIN t = 1..n
      /\ s \in Seq(ToSet(s) \cup ToSet(t)) /\ t \in Seq(ToSet(s) \cup ToSet(t))
  BY DEF Sequence, ToSet
<1>2. /\ r \in Seq(ToSet(s) \cup ToSet(t)) /\ DOMAIN r = 1..m + n
      /\ \A k \in 1..m : r[k] = s[k]
      /\ \A k \in m + 1..m + n : r[k] = t[k - m]
  BY <1>1
<1> HIDE DEF r
<1>3. Sequence(r)
  <2>1. r = [k \in 1..m + n |-> r[k]]
    BY <1>2
  <2>2. m + n \in Nat
    BY <1>1
  <2> HIDE DEF m, n
  <2> QED BY <2>1, <2>2, SequenceByIndex
<1>4. ASSUME NEW k \in 1..n PROVE m + k \in 1..m + n /\ r[m + k] = t[k]
  <2>1. m + k \in m + 1..m + n /\ m + k \in 1..m + n /\ (m + k) - m = k
    <3> HIDE DEF m, n
    <3> QED BY <1>1, <1>4
  <2> HIDE DEF m, n
  <2> QED BY <1>2, <2>1
<1>5. ToSet(r) = ToSet(s) \cup ToSet(t)
  <2>1. ASSUME NEW x \in ToSet(r) PROVE x \in ToSet(s) \cup ToSet(t)
    BY <1>2, <2>1 DEF ToSet
  <2>2. ASSUME NEW x \in ToSet(s) PROVE x \in ToSet(r)
    <3>1. PICK k \in 1..m : x = s[k]
      BY <1>1 DEF ToSet
    <3>2. k \in 1..m + n /\ r[k] = x
      BY <1>1, <1>2, <3>1
    <3> QED BY <1>2, <3>2 DEF ToSet
  <2>3. ASSUME NEW x \in ToSet(t) PROVE x \in ToSet(r)
    <3>1. PICK k \in 1..n : x = t[k]
      BY <1>1 DEF ToSet
    <3> QED BY <1>2, <1>4, <3>1 DEF ToSet
  <2> QED BY <2>1, <2>2, <2>3
<1> QED BY <1>3, <1>5 DEF r

LEMMA ShortSequences ==
  ASSUME NEW a
  PROVE  Sequence(<<>>) /\ ToSet(<<>>) = {} /\ Sequence(<<a>>) /\ ToSet(<<a>>) = {a}
BY DEF Sequence, ToSet

\* Concatenation with a name, so that a step can treat it as any operator.
Cat(a, b) == a \o b
One(x) == <<x>>

LEMMA CatTyped ==
  ASSUME NEW a, NEW b, Sequence(a), Sequence(b)
  PROVE  Sequence(Cat(a, b))
BY JoinSequences DEF Cat

LEMMA OneTyped == ASSUME NEW x PROVE Sequence(One(x)) /\ Sequence(<<>>)
BY ShortSequences DEF One

LEMMA CatAssociates ==
  ASSUME NEW a, NEW b, NEW c, Sequence(a), Sequence(b), Sequence(c)
  PROVE  Cat(Cat(a, b), c) = Cat(a, Cat(b, c))
<1> DEFINE S == ToSet(a) \cup ToSet(b) \cup ToSet(c)
<1>1. a \in Seq(ToSet(a)) /\ b \in Seq(ToSet(b)) /\ c \in Seq(ToSet(c))
  BY DEF Sequence
<1>2. a \in Seq(S) /\ b \in Seq(S) /\ c \in Seq(S)
  BY <1>1, SeqMonotonic
<1> HIDE DEF S
<1> QED BY <1>2, ConcatAssociative DEF Cat

LEMMA CatNothing ==
  ASSUME NEW a, Sequence(a)
  PROVE  Cat(<<>>, a) = a /\ Cat(a, <<>>) = a
BY ConcatEmptySeq DEF Sequence, Cat

LEMMA AppendIsCat ==
  ASSUME NEW a, NEW x, Sequence(a)
  PROVE  Append(a, x) = Cat(a, One(x)) /\ Sequence(Append(a, x))
<1> DEFINE S == ToSet(a) \cup {x}
<1>1. a \in Seq(S) /\ x \in S
  BY SeqMonotonic DEF Sequence
<1>2. Append(a, x) = a \o <<x>>
  BY <1>1
<1> QED BY <1>2, ShortSequences, JoinSequences DEF Cat, One
LEMMA TypedSequence ==
  ASSUME NEW S, NEW s \in Seq(S)
  PROVE  Sequence(s)
<1>1. Len(s) \in Nat /\ s = [k \in 1..Len(s) |-> s[k]]
  BY LenProperties
<1> QED BY <1>1, SequenceByIndex

\* FlattenSeq puts its sequences together one by one.
LEMMA FlattenFunction ==
  ASSUME NEW ss, Sequence(ss), \A i \in DOMAIN ss : Sequence(ss[i]), Len(ss) # 0
  PROVE  \E F : /\ FlattenSeq(ss) = F[Len(ss)] /\ F[1] = ss[1]
                /\ \A i \in 1..Len(ss) - 1 : F[i + 1] = F[i] \o ss[i + 1]
<1> DEFINE N == Len(ss)
           All == UNION {ToSet(ss[j]) : j \in 1..N}
           S == Seq(All)
           G == [i \in 1..N |-> [x \in S |-> x \o ss[i]]]
           Step(w) == [i \in 1..N |-> IF i = 1 THEN ss[i] ELSE w[i - 1] \o ss[i]]
           F == CHOOSE w : w = Step(w)
<1>1. N \in Nat /\ N # 0 /\ DOMAIN ss = 1..N
  BY SequenceFacts
<1>2. FlattenSeq(ss) = F[N]
  BY <1>1 DEF FlattenSeq
<1>3. ASSUME NEW i \in 1..N PROVE ss[i] \in S
  <2>1. ss[i] \in Seq(ToSet(ss[i])) /\ ToSet(ss[i]) \subseteq All
    BY <1>1 DEF Sequence
  <2> QED BY <2>1
<1>4. G \in [1..N -> [S -> S]] /\ <<>> \in S
  <2>1. ASSUME NEW i \in 1..N, NEW x \in S PROVE x \o ss[i] \in S
    <3>1. ss[i] \in S
      BY <1>3
    <3> HIDE DEF All
    <3> QED BY <3>1
  <2> HIDE DEF S
  <2>2. G \in [1..N -> [S -> S]]
    BY <2>1
  <2> QED BY <2>2 DEF S
<1>5. PICK W : Walks(W, S, N, <<>>, G)
  <2> HIDE DEF S, G
  <2> QED BY <1>1, <1>4, PrefixRecursion
<1> DEFINE A == [i \in 1..N |-> W[i]]
<1>6. A = Step(A)
  <2>1. ASSUME NEW i \in 1..N PROVE W[i] = W[i - 1] \o ss[i] /\ W[i - 1] \in S
    <3>1. i - 1 \in 0..N
      BY <1>1
    <3>2. W[i - 1] \in S /\ W[i] = G[i][W[i - 1]]
      BY <1>5, <3>1 DEF Walks
    <3> HIDE DEF S
    <3> QED BY <3>2
  <2>2. ASSUME NEW i \in 1..N, i = 1 PROVE W[i] = ss[i]
    <3>1. W[0] = <<>> /\ 1 - 1 = 0
      BY <1>5 DEF Walks
    <3>2. W[1] = W[1 - 1] \o ss[1]
      BY <2>1, <2>2
    <3>3. ss[1] \in Seq(ToSet(ss[1]))
      BY <1>1, <2>2 DEF Sequence
    <3>4. <<>> \o ss[1] = ss[1]
      BY <3>3
    <3> QED BY <2>2, <3>1, <3>2, <3>4
  <2>3. ASSUME NEW i \in 1..N, i # 1 PROVE W[i] = A[i - 1] \o ss[i]
    <3>1. i - 1 \in 1..N
      BY <1>1, <2>3
    <3> QED BY <2>1, <3>1
  <2>4. \A i \in 1..N : A[i] = Step(A)[i]
    <3>1. \A i \in 1..N : A[i] = W[i]
      OBVIOUS
    <3> HIDE DEF A
    <3> QED BY <2>2, <2>3, <3>1
  <2>5. A = [i \in 1..N |-> A[i]]
    OBVIOUS
  <2> HIDE DEF A
  <2> QED BY <2>4, <2>5
<1>7. F = Step(F)
  <2> HIDE DEF Step, A
  <2> QED BY <1>6
<1> HIDE DEF F
<1>8. F[1] = ss[1]
  <2>1. Step(F)[1] = ss[1]
    BY <1>1
  <2> HIDE DEF Step
  <2> QED BY <1>7, <2>1
<1>9. ASSUME NEW j \in 1..N, j # 1 PROVE F[j] = F[j - 1] \o ss[j]
  <2>1. Step(F)[j] = F[j - 1] \o ss[j]
    BY <1>9
  <2> HIDE DEF Step
  <2> QED BY <1>7, <2>1
<1>10. ASSUME NEW i \in 1..N - 1 PROVE F[i + 1] = F[i] \o ss[i + 1]
  <2>1. i + 1 \in 1..N /\ (i + 1) - 1 = i /\ i + 1 # 1
    BY <1>1
  <2>2. F[i + 1] = F[(i + 1) - 1] \o ss[i + 1]
    BY <1>9, <2>1
  <2> QED BY <2>1, <2>2
<1> QED BY <1>2, <1>8, <1>10

LEMMA FlattenSequences ==
  ASSUME NEW ss, Sequence(ss), \A i \in DOMAIN ss : Sequence(ss[i])
  PROVE  /\ Sequence(FlattenSeq(ss))
         /\ ToSet(FlattenSeq(ss)) = UNION {ToSet(ss[i]) : i \in DOMAIN ss}
<1> DEFINE N == Len(ss)
           Up(i) == UNION {ToSet(ss[j]) : j \in 1..i}
<1>1. N \in Nat /\ DOMAIN ss = 1..N
  BY SequenceFacts
<1>2. CASE N = 0
  <2>1. FlattenSeq(ss) = ss
    BY <1>2 DEF FlattenSeq
  <2>2. ToSet(ss) = {}
    BY <1>1, <1>2 DEF ToSet
  <2> QED BY <1>1, <1>2, <2>1, <2>2
<1>3. CASE N # 0
  <2>1. PICK F : /\ FlattenSeq(ss) = F[N] /\ F[1] = ss[1]
                 /\ \A i \in 1..N - 1 : F[i + 1] = F[i] \o ss[i + 1]
    BY <1>3, FlattenFunction
  <2> DEFINE T == {i \in Nat : i # 0 => Sequence(F[i]) /\ ToSet(F[i]) = Up(i)}
  <2>2. 0 \in T
    OBVIOUS
  <2>3. ASSUME NEW i \in 0..N - 1, i \in T PROVE i + 1 \in T
    <3>1. i \in Nat /\ i + 1 \in 1..N /\ i + 1 \in Nat /\ (i # 0 => Sequence(F[i]) /\ ToSet(F[i]) = Up(i))
      BY <1>1, <2>3
    <3>2. Sequence(ss[i + 1])
      BY <1>1, <3>1
    <3>3. CASE i = 0
      <4>1. F[1] = ss[1] /\ Up(1) = ToSet(ss[1])
        BY <2>1
      <4> HIDE DEF Up
      <4> QED BY <3>2, <3>3, <4>1
    <3>4. CASE i # 0
      <4>0. i \in 1..N - 1
        BY <1>1, <3>1, <3>4
      <4>1. F[i + 1] = F[i] \o ss[i + 1]
        BY <2>1, <4>0
      <4>2. Up(i + 1) = Up(i) \cup ToSet(ss[i + 1])
        <5>1. \A j : j \in 1..i + 1 <=> j \in 1..i \/ j = i + 1
          BY <3>1
        <5> QED BY <5>1
      <4>3. Sequence(F[i + 1]) /\ ToSet(F[i + 1]) = ToSet(F[i]) \cup ToSet(ss[i + 1])
        BY <3>1, <3>2, <3>4, <4>1, JoinSequences
      <4> HIDE DEF Up
      <4> QED BY <3>1, <3>4, <4>2, <4>3
    <3> QED BY <3>3, <3>4
  <2>4. N \in T
    <3>1. \A i \in 0..N : i \in T
      <4> HIDE DEF T
      <4> QED BY <1>1, <2>2, <2>3, PrefixInd
    <3> HIDE DEF T
    <3> QED BY <1>1, <3>1
  <2>5. Up(N) = UNION {ToSet(ss[i]) : i \in DOMAIN ss}
    BY <1>1
  <2> HIDE DEF Up
  <2> QED BY <1>3, <2>1, <2>4, <2>5
<1> QED BY <1>2, <1>3

-----------------------------------------------------------------------------
(* Pages: where the extractors' URLs point.                                *)

Hosts(page) == {HostPort(page.final)} \cup WrittenHosts(page)
Stays(page, u) == IsUrl(u) /\ (u = NoUrl \/ u.scheme = "javascript" \/ HostPort(u) \in Hosts(page))
Discovered(page, s) == Sequence(s) /\ \A d \in ToSet(s) : Stays(page, d.url)

IsRecord(u) ==
  u = [scheme |-> u.scheme, host |-> u.host, port |-> u.port, path |-> u.path, query |-> u.query,
       upper |-> u.upper, frag |-> u.frag]

LEMMA MovedUrl ==
  ASSUME NEW u, IsUrl(u), NEW path, NEW r,
         r = [u EXCEPT !.path = path, !.query = NoQuery, !.frag = FALSE]
  PROVE  IsUrl(r) /\ r.host = u.host /\ r.port = u.port /\ r.scheme = u.scheme
<1>1. IsRecord(u) /\ Sequence(u.host)
  BY DEF IsUrl, IsRecord
<1>2. r.host = u.host /\ r.port = u.port /\ r.scheme = u.scheme
  BY <1>1 DEF IsRecord
<1>3. IsRecord(r)
  BY <1>1 DEF IsRecord
<1> QED BY <1>1, <1>2, <1>3 DEF IsUrl, IsRecord

LEMMA BareUrl ==
  ASSUME NEW u, IsUrl(u), NEW r, r = [u EXCEPT !.frag = FALSE]
  PROVE  IsUrl(r) /\ r.host = u.host /\ r.port = u.port /\ r.scheme = u.scheme
<1>1. IsRecord(u) /\ Sequence(u.host)
  BY DEF IsUrl, IsRecord
<1>2. r.host = u.host /\ r.port = u.port /\ r.scheme = u.scheme
  BY <1>1 DEF IsRecord
<1>3. IsRecord(r)
  BY <1>1 DEF IsRecord
<1> QED BY <1>1, <1>2, <1>3 DEF IsUrl, IsRecord

LEMMA RootUrl ==
  ASSUME NEW u, IsUrl(u), NEW path, NEW r, r = OriginRoot(u, path)
  PROVE  IsUrl(r) /\ r.host = u.host /\ r.port = u.port
<1>1. Sequence(u.host)
  BY DEF IsUrl
<1>2. r.host = u.host /\ r.port = u.port
  BY DEF OriginRoot, Url
<1>3. IsRecord(r)
  BY DEF OriginRoot, Url, IsRecord
<1> QED BY <1>1, <1>2, <1>3 DEF IsUrl, IsRecord

LEMMA ResolveAbsolute ==
  ASSUME NEW base, NEW ref, ref.kind = "absolute"
  PROVE  Resolve(base, ref) = [ref.url EXCEPT !.frag = FALSE]
BY Zenon DEF Resolve

LEMMA ResolveNet ==
  ASSUME NEW base, NEW ref, ref.kind = "net", IsUrl(base)
  PROVE  /\ Resolve(base, ref).host = ref.host /\ Resolve(base, ref).port = ""
         /\ Sequence(ref.host) => IsUrl(Resolve(base, ref))
<1>1. ref.kind # "absolute"
  OBVIOUS
<1> DEFINE here == [base EXCEPT !.path = ref.path, !.query = NoQuery, !.frag = FALSE]
<1>2. Resolve(base, ref) = [here EXCEPT !.host = ref.host, !.port = ""]
  BY <1>1, Zenon DEF Resolve
<1>3. IsUrl(here)
  BY MovedUrl
<1> HIDE DEF here
<1> DEFINE r == [here EXCEPT !.host = ref.host, !.port = ""]
<1>d. r = [here EXCEPT !.host = ref.host, !.port = ""]
  OBVIOUS
<1> HIDE DEF r
<1>4. r.host = ref.host /\ r.port = "" /\ (Sequence(ref.host) => IsUrl(r))
  <2>1. IsRecord(here)
    BY <1>3 DEF IsUrl, IsRecord
  <2>2. r.host = ref.host /\ r.port = ""
    BY <1>d, <2>1 DEF IsRecord
  <2>3. IsRecord(r)
    BY <1>d, <2>1 DEF IsRecord
  <2> QED BY <2>2, <2>3 DEF IsUrl, IsRecord
<1>5. Resolve(base, ref) = r
  BY <1>2 DEF r
<1> QED BY <1>4, <1>5

LEMMA ResolveScript ==
  ASSUME NEW base, NEW ref, ref.kind = "script"
  PROVE  IsUrl(Resolve(base, ref)) /\ Resolve(base, ref).scheme = "javascript"
<1>1. /\ ref.kind # "absolute" /\ ref.kind # "net" /\ ref.kind # "rooted" /\ ref.kind # "relative"
      /\ ref.kind # "placeholder" /\ ref.kind # "fragment"
  OBVIOUS
<1>2. Resolve(base, ref) = Url("javascript", <<>>, "", <<>>)
  BY <1>1, Zenon DEF Resolve
<1> DEFINE r == Url("javascript", <<>>, "", <<>>)
<1>3. Sequence(<<>>)
  BY DEF Sequence
<1>4. r.host = <<>> /\ r.scheme = "javascript"
  BY DEF Url
<1>5. IsRecord(r)
  BY DEF Url, IsRecord
<1> HIDE DEF r
<1>6. IsUrl(r)
  BY <1>3, <1>4, <1>5 DEF IsUrl, IsRecord
<1>7. Resolve(base, ref) = r
  BY <1>2 DEF r
<1> QED BY <1>4, <1>6, <1>7

LEMMA ResolveHere ==
  ASSUME NEW base, NEW ref, ref.kind \in {"rooted", "relative", "placeholder", "fragment"}, IsUrl(base)
  PROVE  IsUrl(Resolve(base, ref)) /\ HostPort(Resolve(base, ref)) = HostPort(base)
<1>1. ref.kind # "absolute" /\ ref.kind # "net" /\ ref.kind # "script"
  OBVIOUS
<1> DEFINE Moved(path) == [base EXCEPT !.path = path, !.query = NoQuery, !.frag = FALSE]
<1>0. ASSUME NEW path PROVE IsUrl(Moved(path)) /\ Moved(path).host = base.host /\ Moved(path).port = base.port
  BY MovedUrl
<1> DEFINE bare == [base EXCEPT !.frag = FALSE]
<1>c. IsUrl(bare) /\ bare.host = base.host /\ bare.port = base.port
  BY BareUrl
<1>2. CASE ref.kind = "rooted"
  <2>1. Resolve(base, ref) = Moved(ref.path)
    BY <1>1, <1>2, Zenon DEF Resolve
  <2> HIDE DEF Moved
  <2> QED BY <1>0, <2>1 DEF HostPort
<1>3. CASE ref.kind = "relative"
  <2>0. ref.kind # "rooted"
    BY <1>3
  <2>1. Resolve(base, ref) = Moved(Folder(base.path) \o ref.path)
    BY <1>1, <1>3, <2>0, Zenon DEF Resolve
  <2> HIDE DEF Moved
  <2> QED BY <1>0, <2>1 DEF HostPort
<1>4. CASE ref.kind = "placeholder"
  <2>0. ref.kind # "rooted" /\ ref.kind # "relative"
    BY <1>4
  <2>1. Resolve(base, ref) = Moved(Folder(base.path) \o <<"{">>)
    BY <1>1, <1>4, <2>0, Zenon DEF Resolve
  <2> HIDE DEF Moved
  <2> QED BY <1>0, <2>1 DEF HostPort
<1>5. CASE ref.kind = "fragment"
  <2>0. ref.kind # "rooted" /\ ref.kind # "relative" /\ ref.kind # "placeholder"
    BY <1>5
  <2>1. Resolve(base, ref) = bare
    BY <1>1, <1>5, <2>0, Zenon DEF Resolve
  <2> HIDE DEF bare
  <2> QED BY <1>c, <2>1 DEF HostPort
<1> QED BY <1>2, <1>3, <1>4, <1>5

\* A reference that is written on the page resolves to a URL that stays.
LEMMA ResolveStays ==
  ASSUME NEW page, NEW base, IsUrl(base), HostPort(base) \in Hosts(page),
         NEW ref \in Written(page), IsRef(ref), Resolves(ref)
  PROVE  Stays(page, Resolve(base, ref))
<1>1. CASE ref.kind = "absolute"
  <2>1. IsUrl(ref.url) /\ Resolve(base, ref) = [ref.url EXCEPT !.frag = FALSE]
    BY <1>1, ResolveAbsolute DEF IsRef
  <2>2. HostPort(ref.url) \in WrittenHosts(page)
    BY <1>1 DEF WrittenHosts
  <2> QED BY <2>1, <2>2, BareUrl DEF Stays, Hosts, HostPort
<1>2. CASE ref.kind = "net"
  <2>1. <<ref.host, "">> \in WrittenHosts(page)
    BY <1>2 DEF WrittenHosts
  <2>2. IsUrl(Resolve(base, ref)) /\ HostPort(Resolve(base, ref)) = <<ref.host, "">>
    BY <1>2, ResolveNet DEF IsRef, HostPort
  <2> QED BY <2>1, <2>2 DEF Stays, Hosts
<1>3. CASE ref.kind = "script"
  BY <1>3, ResolveScript DEF Stays
<1>4. CASE ref.kind \in {"rooted", "relative", "placeholder", "fragment"}
  BY <1>4, ResolveHere DEF Stays
<1> QED BY <1>1, <1>2, <1>3, <1>4 DEF IsRef, Resolves

\* The trusted base is on the host the page came from.
LEMMA BaseStays ==
  ASSUME NEW page, IsPage(page)
  PROVE  HostPort(BaseURL(page)) \in Hosts(page)
<1>1. BaseURL(page) = page.final \/ TrustsBase(page, BaseURL(page))
  BY Zenon DEF BaseURL
<1> QED BY <1>1 DEF TrustsBase, Hosts

-----------------------------------------------------------------------------
(* What each extractor discovers stays.                                    *)

LEMMA FewDiscovered ==
  ASSUME NEW page, NEW d
  PROVE  Discovered(page, <<>>) /\ (Stays(page, d.url) => Discovered(page, <<d>>))
BY ShortSequences DEF Discovered

LEMMA JoinDiscovered ==
  ASSUME NEW page, NEW s, NEW t, Discovered(page, s), Discovered(page, t)
  PROVE  Discovered(page, s \o t)
BY JoinSequences DEF Discovered

LEMMA FlattenDiscovered ==
  ASSUME NEW page, NEW s, Sequence(s), NEW ss, ss = [k \in DOMAIN s |-> ss[k]],
         \A k \in DOMAIN s : Discovered(page, ss[k])
  PROVE  Discovered(page, FlattenSeq(ss))
<1>1. Len(s) \in Nat /\ DOMAIN s = 1..Len(s)
  BY SequenceFacts
<1>2. Sequence(ss) /\ DOMAIN ss = DOMAIN s
  BY <1>1, SequenceByIndex
<1>3. \A k \in DOMAIN ss : Sequence(ss[k])
  BY <1>2 DEF Discovered
<1>4. /\ Sequence(FlattenSeq(ss))
      /\ ToSet(FlattenSeq(ss)) = UNION {ToSet(ss[k]) : k \in DOMAIN ss}
  BY <1>2, <1>3, FlattenSequences
<1> QED BY <1>2, <1>4 DEF Discovered

LEMMA MembersOf ==
  ASSUME NEW s, NEW k \in DOMAIN s
  PROVE  s[k] \in ToSet(s)
BY DEF ToSet

LEMMA DiscoveryUrl ==
  ASSUME NEW kind, NEW u, NEW method
  PROVE  Discovery(kind, u).url = u /\ [Discovery(kind, u) EXCEPT !.method = method].url = u
BY DEF Discovery

\* What is on the base's own origin stays.
LEMMA RootStays ==
  ASSUME NEW page, NEW base, IsUrl(base), HostPort(base) \in Hosts(page), NEW path, NEW scheme
  PROVE  /\ Stays(page, base) /\ Stays(page, OriginRoot(base, path))
         /\ Stays(page, [OriginRoot(base, path) EXCEPT !.scheme = scheme])
<1> DEFINE r == OriginRoot(base, path)
           q == [OriginRoot(base, path) EXCEPT !.scheme = scheme]
<1>0. r = OriginRoot(base, path) /\ q = [OriginRoot(base, path) EXCEPT !.scheme = scheme]
  OBVIOUS
<1> HIDE DEF r, q
<1>1. IsUrl(r) /\ r.host = base.host /\ r.port = base.port
  BY <1>0, RootUrl
<1>2. IsUrl(q) /\ q.host = base.host /\ q.port = base.port
  <2>1. q = [r EXCEPT !.scheme = scheme] /\ IsRecord(r) /\ Sequence(r.host)
    BY <1>0, <1>1 DEF IsUrl, IsRecord
  <2>2. q.host = r.host /\ q.port = r.port
    BY <2>1 DEF IsRecord
  <2>3. IsRecord(q)
    BY <2>1 DEF IsRecord
  <2> QED BY <1>1, <2>1, <2>2, <2>3 DEF IsUrl, IsRecord
<1>3. Stays(page, r) /\ Stays(page, q) /\ Stays(page, base)
  BY <1>1, <1>2 DEF Stays, HostPort
<1> QED BY <1>3 DEF r, q

\* So does an address that the page spells out.
LEMMA WrittenStays ==
  ASSUME NEW page, NEW ref \in Written(page), IsRef(ref), ref.kind = "absolute"
  PROVE  Stays(page, ref.url)
<1>1. HostPort(ref.url) \in WrittenHosts(page)
  BY DEF WrittenHosts
<1> QED BY <1>1 DEF Stays, Hosts, IsRef

Based(page, base) == IsPage(page) /\ IsUrl(base) /\ HostPort(base) \in Hosts(page)

LEMMA LinksStay ==
  ASSUME NEW page, NEW base, Based(page, base)
  PROVE  Discovered(page, LinkExtractor(page, base))
<1> DEFINE Add(ref) == IF Resolves(ref) THEN <<Discovery("link", Resolve(base, ref))>> ELSE <<>>
           Own(e) ==
             CASE e.tag \in LinkTags /\ ~(e.tag \in SkippingTags /\ Skippable(e.ref)) -> Add(e.ref)
               [] e.tag = "code" -> <<Discovery("code_path", OriginRoot(base, e.ref.path))>>
               [] OTHER -> <<>>
           Datum(ref) == IF Skippable(ref) \/ ref = Placeholder THEN <<>> ELSE Add(ref)
           Data(e) == FlattenSeq([k \in DOMAIN e.data |-> Datum(e.data[k])])
           found == [k \in DOMAIN page.elements |-> Own(page.elements[k]) \o Data(page.elements[k])]
<1>1. LinkExtractor(page, base) = FlattenSeq(found)
  BY DEF LinkExtractor, FlatMap
<1>2. ASSUME NEW ref \in Written(page), IsRef(ref) PROVE Discovered(page, Add(ref))
  <2>1. CASE Resolves(ref)
    <3>1. Stays(page, Resolve(base, ref))
      BY <1>2, <2>1, ResolveStays DEF Based
    <3> QED BY <2>1, <3>1, FewDiscovered, DiscoveryUrl
  <2>2. CASE ~Resolves(ref)
    BY <2>2, FewDiscovered
  <2> QED BY <2>1, <2>2
<1>3. ASSUME NEW e \in ToSet(page.elements) PROVE Discovered(page, Own(e))
  <2>1. IsRef(e.ref)
    BY DEF Based, IsPage
  <2>2. CASE e.tag \in LinkTags /\ ~(e.tag \in SkippingTags /\ Skippable(e.ref))
    <3>1. e.tag # "base"
      BY <2>2 DEF LinkTags
    <3>2. e.ref \in Written(page)
      BY <3>1 DEF Written
    <3>3. e.tag # "code"
      BY <2>2 DEF LinkTags
    <3>4. Own(e) = Add(e.ref)
      <4> HIDE DEF Add
      <4> QED BY <2>2, <3>3, Zenon
    <3> HIDE DEF Add, Own
    <3> QED BY <1>2, <2>1, <3>2, <3>4
  <2>3. CASE e.tag = "code"
    <3>1. e.tag \notin LinkTags
      BY <2>3 DEF LinkTags
    <3>2. Own(e) = <<Discovery("code_path", OriginRoot(base, e.ref.path))>>
      <4> HIDE DEF Add
      <4> QED BY <2>3, <3>1, Zenon
    <3>3. Stays(page, OriginRoot(base, e.ref.path))
      BY RootStays DEF Based
    <3> HIDE DEF Add, Own
    <3> QED BY <3>2, <3>3, FewDiscovered, DiscoveryUrl
  <2>4. CASE e.tag # "code" /\ ~(e.tag \in LinkTags /\ ~(e.tag \in SkippingTags /\ Skippable(e.ref)))
    <3>1. Own(e) = <<>>
      <4> HIDE DEF Add
      <4> QED BY <2>4, Zenon
    <3> HIDE DEF Add, Own
    <3> QED BY <3>1, FewDiscovered
  <2> QED BY <2>2, <2>3, <2>4
<1> HIDE DEF Add
<1>4. ASSUME NEW e \in ToSet(page.elements) PROVE Discovered(page, Data(e))
  <2>1. Sequence(e.data) /\ \A r \in ToSet(e.data) : IsRef(r)
    BY DEF Based, IsPage
  <2>2. ASSUME NEW k \in DOMAIN e.data PROVE Discovered(page, Datum(e.data[k]))
    <3>1. e.data[k] \in ToSet(e.data)
      BY MembersOf
    <3>2. e.data[k] \in Written(page) /\ IsRef(e.data[k])
      BY <2>1, <3>1 DEF Written
    <3> QED BY <1>2, <3>2, FewDiscovered
  <2> HIDE DEF Datum
  <2> DEFINE ss == [k \in DOMAIN e.data |-> Datum(e.data[k])]
  <2>3. ss = [k \in DOMAIN e.data |-> ss[k]] /\ \A k \in DOMAIN e.data : Discovered(page, ss[k])
    BY <2>2
  <2> HIDE DEF ss
  <2>4. Discovered(page, FlattenSeq(ss))
    BY <2>1, <2>3, FlattenDiscovered
  <2> QED BY <2>4 DEF ss
<1> HIDE DEF Own, Data
<1>5. ASSUME NEW k \in DOMAIN page.elements PROVE Discovered(page, found[k])
  <2>1. page.elements[k] \in ToSet(page.elements)
    BY MembersOf
  <2>2. Discovered(page, Own(page.elements[k]) \o Data(page.elements[k]))
    BY <1>3, <1>4, <2>1, JoinDiscovered
  <2> QED BY <2>2
<1>6. found = [k \in DOMAIN page.elements |-> found[k]]
  OBVIOUS
<1> HIDE DEF found
<1>7. Sequence(page.elements)
  BY DEF Based, IsPage
<1>8. Discovered(page, FlattenSeq(found))
  BY <1>5, <1>6, <1>7, FlattenDiscovered
<1> QED BY <1>1, <1>8

LEMMA FormsStay ==
  ASSUME NEW page, NEW base, Based(page, base)
  PROVE  Discovered(page, FormExtractor(page, base))
<1> DEFINE Target(e) == IF Resolves(e.ref) THEN Resolve(base, e.ref) ELSE base
           Form(e) ==
             IF e.tag # "form" \/ FormParams(e.fields) = <<>> THEN <<>>
             ELSE <<[Discovery("form", Target(e)) EXCEPT !.method = e.method, !.params = FormParams(e.fields)]>>
           found == [k \in DOMAIN page.elements |-> Form(page.elements[k])]
<1>1. FormExtractor(page, base) = FlattenSeq(found)
  BY DEF FormExtractor, FlatMap
<1>2. ASSUME NEW e \in ToSet(page.elements) PROVE Discovered(page, Form(e))
  <2>1. CASE e.tag # "form" \/ FormParams(e.fields) = <<>>
    <3>1. Form(e) = <<>>
      BY <2>1
    <3> HIDE DEF Form
    <3> QED BY <3>1, FewDiscovered
  <2>2. CASE ~(e.tag # "form" \/ FormParams(e.fields) = <<>>)
    <3> DEFINE d == [Discovery("form", Target(e)) EXCEPT !.method = e.method, !.params = FormParams(e.fields)]
    <3>1. Form(e) = <<d>>
      BY <2>2
    <3>2. d.url = Target(e)
      BY DEF Discovery
    <3>3. e.ref \in Written(page) /\ IsRef(e.ref)
      BY <2>2 DEF Written, Based, IsPage
    <3>4. Stays(page, Resolve(base, e.ref)) \/ ~Resolves(e.ref)
      BY <3>3, ResolveStays DEF Based
    <3>5. Stays(page, base)
      BY RootStays DEF Based
    <3>6. Stays(page, Target(e))
      BY <3>4, <3>5
    <3> HIDE DEF Form, d, Target
    <3> QED BY <3>1, <3>2, <3>6, FewDiscovered
  <2> QED BY <2>1, <2>2
<1> HIDE DEF Form
<1>3. ASSUME NEW k \in DOMAIN page.elements PROVE Discovered(page, found[k])
  BY <1>2, MembersOf
<1>4. found = [k \in DOMAIN page.elements |-> found[k]]
  OBVIOUS
<1> HIDE DEF found
<1>5. Sequence(page.elements)
  BY DEF Based, IsPage
<1>6. Discovered(page, FlattenSeq(found))
  BY <1>3, <1>4, <1>5, FlattenDiscovered
<1> QED BY <1>1, <1>6

LEMMA EndpointsStay ==
  ASSUME NEW page, NEW base, Based(page, base)
  PROVE  Discovered(page, JSEndpointExtractor(page, base))
<1> DEFINE js == page.script
           Hit(m, u) == [Discovery("link", u) EXCEPT !.method = m]
           Template(t) ==
             <<Hit(t.method, IF t.ref.kind = "absolute" THEN t.ref.url ELSE OriginRoot(base, t.ref.path))>>
           Static(s) ==
             <<Hit(s.method, OriginRoot(base, s.path))>>
               \o IF s.alpha THEN <<Hit(s.method, OriginRoot(base, s.path \o <<"/", "1">>))>> ELSE <<>>
           bases == VarBases(js.assigned)
           Suffix(s) == IF s.var \in DOMAIN bases
                          THEN <<Hit(s.method, OriginRoot(base, bases[s.var] \o s.path))>> ELSE <<>>
           templates == [k \in DOMAIN js.templates |-> Template(js.templates[k])]
           statics == [k \in DOMAIN js.statics |-> Static(js.statics[k])]
           suffixes == [k \in DOMAIN js.suffixes |-> Suffix(js.suffixes[k])]
           hits == FlattenSeq(templates) \o FlattenSeq(statics) \o FlattenSeq(suffixes)
           Fresh(k) == \A j \in 1..k - 1 : hits[j] # hits[k]
           Chunk(ref) == IF Resolves(ref) THEN <<Discovery("link", Resolve(base, ref))>> ELSE <<>>
           indices == [k \in DOMAIN hits |-> k]
           First(k) == IF Fresh(k) THEN <<hits[k]>> ELSE <<>>
           once == [k \in DOMAIN indices |-> First(indices[k])]
           chunks == [k \in DOMAIN js.chunks |-> Chunk(js.chunks[k])]
<1>1. JSEndpointExtractor(page, base) = FlattenSeq(once) \o FlattenSeq(chunks)
  BY DEF JSEndpointExtractor, FlatMap
<1>0. /\ Sequence(js.templates) /\ Sequence(js.statics) /\ Sequence(js.suffixes) /\ Sequence(js.chunks)
      /\ \A t \in ToSet(js.templates) : IsRef(t.ref) /\ t.ref \in Written(page)
      /\ \A r \in ToSet(js.chunks) : IsRef(r) /\ r \in Written(page)
  <2>1. IsPage(page)
    BY DEF Based
  <2>2. Sequence(js.templates) /\ Sequence(js.statics) /\ Sequence(js.suffixes) /\ Sequence(js.chunks)
    BY <2>1, Zenon DEF IsPage
  <2>3. /\ \A t \in ToSet(js.templates) : IsRef(t.ref)
        /\ \A r \in ToSet(js.chunks) : IsRef(r)
    BY <2>1 DEF IsPage
  <2>4. /\ \A t \in ToSet(js.templates) : t.ref \in Written(page)
        /\ \A r \in ToSet(js.chunks) : r \in Written(page)
    BY Zenon DEF Written
  <2> QED BY <2>2, <2>3, <2>4
<1>2. ASSUME NEW m, NEW u, Stays(page, u) PROVE Discovered(page, <<Hit(m, u)>>)
  <2>1. Hit(m, u).url = u
    BY DiscoveryUrl
  <2> HIDE DEF Hit
  <2> QED BY <1>2, <2>1, FewDiscovered
<1>3. ASSUME NEW path PROVE Stays(page, OriginRoot(base, path))
  BY RootStays DEF Based
<1> HIDE DEF Hit
<1>4. ASSUME NEW t \in ToSet(js.templates) PROVE Discovered(page, Template(t))
  <2>1. t.ref.kind = "absolute" => Stays(page, t.ref.url)
    BY <1>0, WrittenStays
  <2> QED BY <1>2, <1>3, <2>1
<1>5. ASSUME NEW s PROVE Discovered(page, Static(s))
  BY <1>2, <1>3, FewDiscovered, JoinDiscovered
<1>6. ASSUME NEW s PROVE Discovered(page, Suffix(s))
  BY <1>2, <1>3, FewDiscovered
<1>7. ASSUME NEW ref \in ToSet(js.chunks) PROVE Discovered(page, Chunk(ref))
  <2>1. Resolves(ref) => Stays(page, Resolve(base, ref))
    BY <1>0, ResolveStays DEF Based
  <2> QED BY <2>1, FewDiscovered, DiscoveryUrl
<1> HIDE DEF Template, Static, Suffix, Chunk
<1>8. Discovered(page, FlattenSeq(templates))
  <2>1. templates = [k \in DOMAIN js.templates |-> templates[k]]
    OBVIOUS
  <2>2. \A k \in DOMAIN js.templates : Discovered(page, templates[k])
    BY <1>4, MembersOf
  <2> HIDE DEF templates
  <2> QED BY <1>0, <2>1, <2>2, FlattenDiscovered
<1>9. Discovered(page, FlattenSeq(statics))
  <2>1. statics = [k \in DOMAIN js.statics |-> statics[k]]
    OBVIOUS
  <2>2. \A k \in DOMAIN js.statics : Discovered(page, statics[k])
    BY <1>5
  <2> HIDE DEF statics
  <2> QED BY <1>0, <2>1, <2>2, FlattenDiscovered
<1>10. Discovered(page, FlattenSeq(suffixes))
  <2>1. suffixes = [k \in DOMAIN js.suffixes |-> suffixes[k]]
    OBVIOUS
  <2>2. \A k \in DOMAIN js.suffixes : Discovered(page, suffixes[k])
    BY <1>6
  <2> HIDE DEF suffixes
  <2> QED BY <1>0, <2>1, <2>2, FlattenDiscovered
<1>11. Discovered(page, FlattenSeq(chunks))
  <2>1. chunks = [k \in DOMAIN js.chunks |-> chunks[k]]
    OBVIOUS
  <2>2. \A k \in DOMAIN js.chunks : Discovered(page, chunks[k])
    BY <1>7, MembersOf
  <2> HIDE DEF chunks
  <2> QED BY <1>0, <2>1, <2>2, FlattenDiscovered
<1> HIDE DEF templates, statics, suffixes, chunks
<1>12. Discovered(page, hits)
  BY <1>8, <1>9, <1>10, JoinDiscovered
<1> HIDE DEF hits
<1>13. Sequence(indices) /\ DOMAIN indices = DOMAIN hits
  <2>1. Len(hits) \in Nat /\ DOMAIN hits = 1..Len(hits)
    BY <1>12, SequenceFacts DEF Discovered
  <2>2. indices = [k \in 1..Len(hits) |-> indices[k]]
    BY <2>1
  <2>3. DOMAIN indices = DOMAIN hits
    OBVIOUS
  <2> HIDE DEF indices
  <2> QED BY <2>1, <2>2, <2>3, SequenceByIndex
<1>14. ASSUME NEW k \in DOMAIN hits PROVE Discovered(page, First(k))
  <2>1. Stays(page, hits[k].url)
    BY <1>12, MembersOf DEF Discovered
  <2> HIDE DEF Fresh
  <2> QED BY <2>1, FewDiscovered
<1> HIDE DEF First
<1>15. Discovered(page, FlattenSeq(once))
  <2>1. once = [k \in DOMAIN indices |-> once[k]]
    OBVIOUS
  <2>2. \A k \in DOMAIN indices : Discovered(page, once[k])
    BY <1>14
  <2> HIDE DEF once, indices
  <2> QED BY <1>13, <2>1, <2>2, FlattenDiscovered
<1> HIDE DEF once
<1>16. Discovered(page, FlattenSeq(once) \o FlattenSeq(chunks))
  BY <1>11, <1>15, JoinDiscovered
<1> QED BY <1>1, <1>16

LEMMA SocketsStay ==
  ASSUME NEW page, NEW base, Based(page, base)
  PROVE  Discovered(page, WebSocketExtractor(page, base))
<1> DEFINE Scheme == IF base.scheme = "https" THEN "wss" ELSE "ws"
           Target(ref) == IF ref.kind = "absolute" THEN ref.url
                           ELSE [OriginRoot(base, ref.path) EXCEPT !.scheme = Scheme]
           Fresh(k) == \A j \in 1..k - 1 : Target(page.sockets[j]) # Target(page.sockets[k])
           First(k) == IF Fresh(k) THEN <<Discovery("ws_url", Target(page.sockets[k]))>> ELSE <<>>
           indices == [k \in DOMAIN page.sockets |-> k]
           once == [k \in DOMAIN indices |-> First(indices[k])]
<1>1. WebSocketExtractor(page, base) = FlattenSeq(once)
  BY DEF WebSocketExtractor, FlatMap
<1>2. Sequence(page.sockets) /\ \A r \in ToSet(page.sockets) : IsRef(r) /\ r \in Written(page)
  <2>1. Sequence(page.sockets) /\ \A r \in ToSet(page.sockets) : IsRef(r)
    BY DEF Based, IsPage
  <2>2. \A r \in ToSet(page.sockets) : r \in Written(page)
    BY Zenon DEF Written
  <2> QED BY <2>1, <2>2
<1>3. Sequence(indices) /\ DOMAIN indices = DOMAIN page.sockets
  <2>1. Len(page.sockets) \in Nat /\ DOMAIN page.sockets = 1..Len(page.sockets)
    BY <1>2, SequenceFacts
  <2>2. indices = [k \in 1..Len(page.sockets) |-> indices[k]]
    BY <2>1
  <2>3. DOMAIN indices = DOMAIN page.sockets
    OBVIOUS
  <2> HIDE DEF indices
  <2> QED BY <2>1, <2>2, <2>3, SequenceByIndex
<1>4. ASSUME NEW r \in ToSet(page.sockets) PROVE Stays(page, Target(r))
  <2>1. CASE r.kind = "absolute"
    BY <1>2, <2>1, WrittenStays
  <2>2. CASE r.kind # "absolute"
    <3>1. Stays(page, [OriginRoot(base, r.path) EXCEPT !.scheme = Scheme])
      BY RootStays DEF Based
    <3> HIDE DEF Scheme
    <3> QED BY <2>2, <3>1
  <2> QED BY <2>1, <2>2
<1> HIDE DEF Target
<1>5. ASSUME NEW k \in DOMAIN page.sockets PROVE Discovered(page, First(k))
  <2>1. Stays(page, Target(page.sockets[k]))
    BY <1>4, MembersOf
  <2> HIDE DEF Fresh
  <2> QED BY <2>1, FewDiscovered, DiscoveryUrl
<1> HIDE DEF First
<1>6. once = [k \in DOMAIN indices |-> once[k]]
  OBVIOUS
<1>7. \A k \in DOMAIN indices : Discovered(page, once[k])
  BY <1>5
<1> HIDE DEF once, indices
<1>8. Discovered(page, FlattenSeq(once))
  BY <1>3, <1>6, <1>7, FlattenDiscovered
<1> QED BY <1>1, <1>8

LEMMA MapsStay ==
  ASSUME NEW page
  PROVE  Discovered(page, SourceMapExtractor(page))
<1>1. IsUrl(NoUrl)
  <2>1. Sequence(<<>>)
    BY ShortSequences
  <2>2. NoUrl.host = <<>> /\ IsRecord(NoUrl)
    BY DEF NoUrl, Url, IsRecord
  <2> QED BY <2>1, <2>2 DEF IsUrl, IsRecord
<1>2. Stays(page, Discovery("source_map", NoUrl).url)
  BY <1>1, DiscoveryUrl DEF Stays
<1> QED BY <1>2, FewDiscovered DEF SourceMapExtractor

LEMMA ResolvedIsUrl ==
  ASSUME NEW base, IsUrl(base), NEW ref, IsRef(ref), Resolves(ref)
  PROVE  IsUrl(Resolve(base, ref))
<1>1. CASE ref.kind = "absolute"
  <2>1. IsUrl(ref.url) /\ Resolve(base, ref) = [ref.url EXCEPT !.frag = FALSE]
    BY <1>1, ResolveAbsolute DEF IsRef
  <2> QED BY <2>1, BareUrl
<1>2. CASE ref.kind = "net"
  BY <1>2, ResolveNet DEF IsRef
<1>3. CASE ref.kind = "script"
  BY <1>3, ResolveScript
<1>4. CASE ref.kind \in {"rooted", "relative", "placeholder", "fragment"}
  BY <1>4, ResolveHere
<1> QED BY <1>1, <1>2, <1>3, <1>4 DEF IsRef, Resolves

\* The trusted base is a URL on the host the page came from.
LEMMA BaseIsBased ==
  ASSUME NEW page, IsPage(page)
  PROVE  Based(page, BaseURL(page))
<1> DEFINE bases == {k \in DOMAIN page.elements : page.elements[k].tag = "base" /\ page.elements[k].ref.kind # "absent"}
           ref == page.elements[Min(bases)].ref
<1>1. HostPort(BaseURL(page)) \in Hosts(page)
  BY BaseStays
<1>2. IsUrl(BaseURL(page))
  <2>1. CASE BaseURL(page) = page.final
    BY <2>1 DEF IsPage
  <2>2. CASE BaseURL(page) # page.final
    <3>1. bases # {} /\ Resolves(ref) /\ BaseURL(page) = Resolve(page.final, ref)
      BY <2>2, Zenon DEF BaseURL
    <3>2. IsRef(ref)
      <4>1. Sequence(page.elements) /\ \A e \in ToSet(page.elements) : IsRef(e.ref)
        BY DEF IsPage
      <4>2. bases \subseteq Nat
        BY <4>1, SequenceFacts
      <4>3. \E k \in bases : \A j \in bases : k <= j
        <5> HIDE DEF bases
        <5> QED BY <3>1, <4>2, LeastNat
      <4>4. Min(bases) \in bases
        <5> HIDE DEF bases
        <5> QED BY <4>3 DEF Min
      <4>5. page.elements[Min(bases)] \in ToSet(page.elements)
        <5>1. Min(bases) \in DOMAIN page.elements
          BY <4>4
        <5> HIDE DEF bases
        <5> QED BY <5>1, MembersOf
      <4> HIDE DEF bases
      <4> QED BY <4>1, <4>5
    <3> HIDE DEF ref
    <3>3. IsUrl(page.final)
      BY DEF IsPage
    <3> QED BY <3>1, <3>2, <3>3, ResolvedIsUrl
  <2> QED BY <2>1, <2>2
<1> QED BY <1>1, <1>2 DEF Based

LEMMA RunsStay ==
  ASSUME NEW page, IsPage(page), NEW recoverMaps
  PROVE  Discovered(page, RunAll(Runs(page, recoverMaps)))
<1> DEFINE base == BaseURL(page)
           Run(applies, found) == IF applies THEN <<[found |-> found, failed |-> FALSE]>> ELSE <<>>
           Sound(runs) == Sequence(runs) /\ \A r \in ToSet(runs) : Discovered(page, r.found)
           html == page.type = "html"
           js == page.type = "javascript"
           links == Run(html, IF HasDoc(page) THEN LinkExtractor(page, base) ELSE <<>>)
           forms == Run(html, IF HasDoc(page) THEN FormExtractor(page, base) ELSE <<>>)
           endpoints == Run(js, JSEndpointExtractor(page, base))
           sockets == Run(html \/ js, WebSocketExtractor(page, base))
           maps == IF js /\ recoverMaps
                     THEN <<[found |-> SourceMapExtractor(page),
                             failed |-> page.map.where # "none" /\ MapFails(page.map)]>>
                     ELSE <<>>
<1>1. Runs(page, recoverMaps) = links \o forms \o endpoints \o sockets \o maps
  BY DEF Runs
<1>2. Based(page, base)
  BY BaseIsBased
<1> HIDE DEF base
<1>3. /\ Discovered(page, LinkExtractor(page, base)) /\ Discovered(page, FormExtractor(page, base))
      /\ Discovered(page, JSEndpointExtractor(page, base)) /\ Discovered(page, WebSocketExtractor(page, base))
      /\ Discovered(page, SourceMapExtractor(page)) /\ Discovered(page, <<>>)
  BY <1>2, LinksStay, FormsStay, EndpointsStay, SocketsStay, MapsStay, FewDiscovered
<1>4. ASSUME NEW applies, NEW found, NEW failed, Discovered(page, found)
      PROVE  Sound(<<[found |-> found, failed |-> failed]>>) /\ Sound(<<>>)
  <2> DEFINE r == [found |-> found, failed |-> failed]
  <2>1. r.found = found
    OBVIOUS
  <2> HIDE DEF r
  <2>2. Sound(<<r>>) /\ Sound(<<>>)
    BY <1>4, <2>1, ShortSequences
  <2> QED BY <2>2 DEF r
<1>5. ASSUME NEW applies \in BOOLEAN, NEW found, Discovered(page, found) PROVE Sound(Run(applies, found))
  BY <1>4, <1>5
<1>6. ASSUME NEW s, NEW t, Sound(s), Sound(t) PROVE Sound(s \o t)
  BY <1>6, JoinSequences
<1> HIDE DEF Sound
<1>7. Sound(maps)
  BY <1>3, <1>4
<1>8. Sound(links) /\ Sound(forms) /\ Sound(endpoints) /\ Sound(sockets)
  <2>1. html \in BOOLEAN /\ js \in BOOLEAN /\ (html \/ js) \in BOOLEAN
    OBVIOUS
  <2> HIDE DEF Run, html, js
  <2> QED BY <1>3, <1>5, <2>1
<1> HIDE DEF Run, links, forms, endpoints, sockets, maps
<1>9. Sound(Runs(page, recoverMaps))
  BY <1>1, <1>6, <1>7, <1>8
<1> DEFINE runs == Runs(page, recoverMaps)
           found == [k \in DOMAIN runs |-> IF runs[k].failed THEN <<>> ELSE runs[k].found]
<1>10. RunAll(runs) = FlattenSeq(found)
  BY DEF RunAll, FlatMap
<1> HIDE DEF runs
<1>11. Sequence(runs) /\ \A k \in DOMAIN runs : Discovered(page, runs[k].found)
  BY <1>9, MembersOf DEF Sound, runs
<1>12. found = [k \in DOMAIN runs |-> found[k]]
  OBVIOUS
<1>13. \A k \in DOMAIN runs : Discovered(page, found[k])
  BY <1>3, <1>11
<1> HIDE DEF found
<1>14. Discovered(page, FlattenSeq(found))
  BY <1>11, <1>12, <1>13, FlattenDiscovered
<1> QED BY <1>10, <1>14 DEF runs

\* Links stay on their host: of whatever pages, whatever a page contains, every
\* URL the extractors find is on the host the page came from or on one that the
\* page writes out.
THEOREM LinksCorrect == Spec => []LinksStayOnTheirHost
<1>1. ASSUME IsCase(input) PROVE LinksStayOnTheirHost
  <2>1. SUFFICES ASSUME Is("page"), NEW k \in DOMAIN Found
                 PROVE  LET u == Found[k].url IN
                        u = NoUrl \/ u.scheme = "javascript"
                          \/ HostPort(u) \in {HostPort(input.page.final)} \cup WrittenHosts(input.page)
    BY DEF LinksStayOnTheirHost
  <2>2. IsPage(input.page)
    BY <1>1, <2>1, CaseOfKind, AlgorithmsAssumption DEF Is
  <2>3. Discovered(input.page, Found)
    BY <2>2, RunsStay DEF Found
  <2>4. Stays(input.page, Found[k].url)
    BY <2>1, <2>3, MembersOf DEF Discovered
  <2> QED BY <2>4, Zenon DEF Stays, Hosts
<1>2. Init => IsCase(input)
  BY DEF Init
<1>3. IsCase(input) /\ [Next]_<<input, writerVars>> => IsCase(input)'
  BY DEF Next
<1> QED BY <1>1, <1>2, <1>3, PTL DEF Spec

-----------------------------------------------------------------------------
(* Scope: what the policies say of the URL that is queued.                 *)

LEMMA FirstPart ==
  ASSUME NEW s, Sequence(s), NEW m \in Nat, m <= Len(s)
  PROVE  SubSeq(s, 1, m) = [k \in 1..m |-> s[k]]
<1>1. s \in Seq(ToSet(s))
  BY DEF Sequence
<1>2. SubSeq(s, 1, m) = [k \in 1..m |-> s[1 + k - 1]]
  BY <1>1
<1>3. \A k \in 1..m : 1 + k - 1 = k
  OBVIOUS
<1> QED BY <1>2, <1>3

LEMMA ReverseSequence ==
  ASSUME NEW s, Sequence(s)
  PROVE  Sequence(Reverse(s)) /\ Len(Reverse(s)) = Len(s) /\ \A i \in 1..Len(s) : Reverse(s)[i] = s[Len(s) - i + 1]
<1> DEFINE r == Reverse(s)
<1>1. Len(s) \in Nat
  BY SequenceFacts
<1>2. r = [i \in 1..Len(s) |-> s[Len(s) - i + 1]]
  BY DEF Reverse
<1>3. r = [i \in 1..Len(s) |-> r[i]] /\ \A i \in 1..Len(s) : r[i] = s[Len(s) - i + 1]
  BY <1>2
<1> HIDE DEF r
<1>4. Sequence(r) /\ Len(r) = Len(s)
  BY <1>1, <1>3, SequenceByIndex
<1> QED BY <1>3, <1>4 DEF r

LEMMA SuffixByIndex ==
  ASSUME NEW s, NEW t, Sequence(s), Sequence(t)
  PROVE  IsSuffix(s, t) <=>
           Len(s) <= Len(t) /\ \A j \in 1..Len(s) : s[j] = t[Len(t) - Len(s) + j]
<1> DEFINE m == Len(s)
           n == Len(t)
           p == Reverse(s)
           q == Reverse(t)
<1>1. m \in Nat /\ n \in Nat
  BY SequenceFacts
<1>2. /\ Sequence(p) /\ Len(p) = m /\ \A i \in 1..m : p[i] = s[m - i + 1]
      /\ Sequence(q) /\ Len(q) = n /\ \A i \in 1..n : q[i] = t[n - i + 1]
  BY ReverseSequence
<1>3. IsSuffix(s, t) <=> m <= n /\ SubSeq(p, 1, m) = SubSeq(q, 1, m)
  BY <1>2 DEF IsSuffix, IsPrefix
<1> HIDE DEF p, q
<1>4. ASSUME m <= n
      PROVE  SubSeq(p, 1, m) = SubSeq(q, 1, m) <=> \A i \in 1..m : p[i] = q[i]
  <2>1. SubSeq(p, 1, m) = [k \in 1..m |-> p[k]] /\ SubSeq(q, 1, m) = [k \in 1..m |-> q[k]]
    BY <1>1, <1>2, <1>4, FirstPart
  <2> QED BY <2>1
<1>5. ASSUME m <= n
      PROVE  (\A i \in 1..m : p[i] = q[i]) <=> \A j \in 1..m : s[j] = t[n - m + j]
  <2>1. ASSUME \A i \in 1..m : p[i] = q[i], NEW j \in 1..m PROVE s[j] = t[n - m + j]
    <3>1. m - j + 1 \in 1..m /\ m - j + 1 \in 1..n /\ m - (m - j + 1) + 1 = j /\ n - (m - j + 1) + 1 = n - m + j
      BY <1>1, <1>5
    <3>2. p[m - j + 1] = s[j] /\ q[m - j + 1] = t[n - m + j]
      BY <1>2, <3>1
    <3> QED BY <2>1, <3>1, <3>2
  <2>2. ASSUME \A j \in 1..m : s[j] = t[n - m + j], NEW i \in 1..m PROVE p[i] = q[i]
    <3>1. m - i + 1 \in 1..m /\ i \in 1..n /\ n - m + (m - i + 1) = n - i + 1
      BY <1>1, <1>5
    <3>2. p[i] = s[m - i + 1] /\ q[i] = t[n - i + 1]
      BY <1>2, <3>1
    <3>3. s[m - i + 1] = t[n - m + (m - i + 1)]
      BY <2>2, <3>1
    <3> QED BY <3>1, <3>2, <3>3
  <2> QED BY <2>1, <2>2
<1> QED BY <1>3, <1>4, <1>5

\* The suffix test of the code says what UnderDomain says of the labels.
LEMMA DomainsMatch ==
  ASSUME NEW host, NEW domain, Sequence(host), Sequence(domain)
  PROVE  MatchesDomain(host, domain) <=> UnderDomain(host, domain)
<1> DEFINE dotted == <<".">> \o domain
           m == Len(domain)
           n == Len(host)
<1>1. m \in Nat /\ n \in Nat /\ DOMAIN host = 1..n /\ domain = [k \in 1..m |-> domain[k]]
  BY SequenceFacts
<1>2. Sequence(dotted)
  BY ShortSequences, JoinSequences
<1>3. Len(dotted) = m + 1 /\ dotted[1] = "." /\ \A k \in 1..m : dotted[k + 1] = domain[k]
  <2>1. domain \in Seq(ToSet(domain) \cup {"."}) /\ <<".">> \in Seq(ToSet(domain) \cup {"."})
    BY DEF Sequence
  <2>2. Len(dotted) = m + 1 /\ dotted[1] = "."
    BY <2>1
  <2>3. ASSUME NEW k \in 1..m PROVE dotted[k + 1] = domain[k]
    BY <1>1, <2>1
  <2> QED BY <2>2, <2>3
<1> HIDE DEF dotted
<1>4. IsSuffix(dotted, host) <=> m + 1 <= n /\ \A j \in 1..m + 1 : dotted[j] = host[n - (m + 1) + j]
  <2>1. IsSuffix(dotted, host) <=>
          Len(dotted) <= Len(host) /\ \A j \in 1..Len(dotted) : dotted[j] = host[Len(host) - Len(dotted) + j]
    BY <1>2, SuffixByIndex
  <2> QED BY <1>3, <2>1
<1>5. ASSUME NEW k \in 1..n
      PROVE  SubSeq(host, k + 1, n) = domain <=> n - k = m /\ \A i \in 1..m : host[k + i] = domain[i]
  <2>1. host \in Seq(ToSet(host))
    BY DEF Sequence
  <2>2. SubSeq(host, k + 1, n) = [i \in 1..n - k |-> host[k + i]]
    <3>1. SubSeq(host, k + 1, n) = [i \in 1..n - (k + 1) + 1 |-> host[k + 1 + i - 1]]
      BY <1>1, <2>1
    <3>2. n - (k + 1) + 1 = n - k /\ \A i \in 1..n - k : k + 1 + i - 1 = k + i
      BY <1>1
    <3> QED BY <3>1, <3>2
  <2> DEFINE rest == [i \in 1..n - k |-> host[k + i]]
  <2>3. rest = domain => n - k = m
    <3>1. rest = [i \in 1..n - k |-> rest[i]] /\ n - k \in Nat
      BY <1>1
    <3> HIDE DEF rest
    <3>2. Len(rest) = n - k
      BY <3>1, SequenceByIndex
    <3> QED BY <3>2
  <2>4. n - k = m => (rest = domain <=> \A i \in 1..m : host[k + i] = domain[i])
    BY <1>1
  <2> QED BY <2>2, <2>3, <2>4
<1>6. IsSuffix(dotted, host) <=> \E k \in 1..n : host[k] = "." /\ SubSeq(host, k + 1, n) = domain
  <2>1. ASSUME IsSuffix(dotted, host)
        PROVE  \E k \in 1..n : host[k] = "." /\ SubSeq(host, k + 1, n) = domain
    <3>1. n - m \in 1..n /\ n - (n - m) = m /\ 1 \in 1..m + 1 /\ n - (m + 1) + 1 = n - m
      BY <1>1, <1>4, <2>1
    <3>2. host[n - m] = "."
      BY <1>3, <1>4, <2>1, <3>1
    <3>3. ASSUME NEW i \in 1..m PROVE host[n - m + i] = domain[i]
      <4>1. i + 1 \in 1..m + 1 /\ n - (m + 1) + (i + 1) = n - m + i
        BY <1>1
      <4>2. dotted[i + 1] = host[n - (m + 1) + (i + 1)]
        BY <1>4, <2>1, <4>1
      <4> QED BY <1>3, <4>1, <4>2
    <3>4. SubSeq(host, n - m + 1, n) = domain
      BY <1>5, <3>1, <3>3
    <3> QED BY <3>1, <3>2, <3>4
  <2>2. ASSUME NEW k \in 1..n, host[k] = ".", SubSeq(host, k + 1, n) = domain
        PROVE  IsSuffix(dotted, host)
    <3>1. n - k = m /\ \A i \in 1..m : host[k + i] = domain[i]
      BY <1>5, <2>2
    <3>2. m + 1 <= n /\ n - (m + 1) + 1 = k
      BY <1>1, <3>1
    <3>3. ASSUME NEW j \in 1..m + 1 PROVE dotted[j] = host[n - (m + 1) + j]
      <4>1. CASE j = 1
        BY <1>3, <2>2, <3>2, <4>1
      <4>2. CASE j # 1
        <5>1. j - 1 \in 1..m /\ j - 1 + 1 = j /\ k + (j - 1) = n - (m + 1) + j
          BY <1>1, <3>1, <4>2
        <5>2. dotted[j - 1 + 1] = domain[j - 1] /\ host[k + (j - 1)] = domain[j - 1]
          BY <1>3, <3>1, <5>1
        <5> QED BY <5>1, <5>2
      <4> QED BY <4>1, <4>2
    <3> QED BY <1>4, <3>2, <3>3
  <2> QED BY <2>1, <2>2
<1> QED BY <1>6 DEF MatchesDomain, UnderDomain, dotted

LEMMA CanonicalParts ==
  ASSUME NEW u, IsUrl(u), NEW strict, NEW sortQuery
  PROVE  LET norm == FromParsed(u, strict, sortQuery) IN
         /\ norm.scheme = u.scheme /\ norm.host = u.host
         /\ norm.port = (IF strict THEN StripDefaultPort(u) ELSE u.port)
<1>1. IsRecord(u)
  BY DEF IsUrl, IsRecord
<1> DEFINE port == IF strict THEN StripDefaultPort(u) ELSE u.port
           path == CanonicalPath(Unescaped(u.path))
           query == IF sortQuery THEN SortQuery(u.query) ELSE u.query
           norm == [u EXCEPT !.upper = FALSE, !.frag = FALSE, !.port = port, !.path = path, !.query = query]
<1>2. FromParsed(u, strict, sortQuery) = norm
  BY DEF FromParsed
<1> HIDE DEF port, path, query
<1>3. norm.scheme = u.scheme /\ norm.host = u.host /\ norm.port = port
  BY <1>1 DEF IsRecord
<1> HIDE DEF norm
<1> QED BY <1>2, <1>3 DEF port

\* The policies, asked of the URL as it was found, hold of its canonical form.
Belongs(u, seed, cfg) ==
  /\ cfg.sameOrigin /\ ~cfg.subdomains => Origin(u) = Origin(seed)
  /\ StripPort(u) = u.host =>
       /\ cfg.sameOrigin /\ cfg.subdomains => UnderDomain(u.host, Hostname(seed))
       /\ \A d \in cfg.deny : ~UnderDomain(u.host, d)

LEMMA ScopeIsKept ==
  ASSUME NEW u, IsUrl(u), NEW seed, IsUrl(seed), NEW cfg, \A d \in cfg.deny : Sequence(d),
         InScope(u, seed, cfg)
  PROVE  Belongs(FromParsed(u, cfg.strict, cfg.sortQuery), seed, cfg)
<1> DEFINE norm == FromParsed(u, cfg.strict, cfg.sortQuery)
<1>1. /\ norm.scheme = u.scheme /\ norm.host = u.host
      /\ norm.port = IF cfg.strict THEN StripDefaultPort(u) ELSE u.port
  BY CanonicalParts
<1> HIDE DEF norm
<1>2. EffectivePort(norm) = EffectivePort(u)
  <2>1. norm.port = u.port \/ (norm.port = "" /\ u.port = DefaultPort(u.scheme))
    BY <1>1 DEF StripDefaultPort
  <2>2. DefaultPort(norm.scheme) = DefaultPort(u.scheme)
    BY <1>1
  <2> QED BY <2>1, <2>2 DEF EffectivePort
<1>3. cfg.sameOrigin /\ ~cfg.subdomains => Origin(norm) = Origin(seed)
  <2>1. SUFFICES ASSUME cfg.sameOrigin /\ ~cfg.subdomains PROVE Origin(norm) = Origin(seed)
    OBVIOUS
  <2>2. u.scheme = seed.scheme /\ u.host = seed.host /\ u.port = seed.port
    BY <2>1, Zenon DEF InScope, ExactOrigin
  <2>3. EffectivePort(u) = EffectivePort(seed)
    BY <2>2 DEF EffectivePort
  <2> QED BY <1>1, <1>2, <2>2, <2>3 DEF Origin
<1>4. ASSUME StripPort(norm) = norm.host PROVE StripPort(u) = u.host
  <2>1. u.port = "" => norm.port = ""
    BY <1>1 DEF StripDefaultPort
  <2> QED BY <1>1, <1>4, <2>1 DEF StripPort
<1>5. Sequence(Hostname(seed)) /\ Sequence(u.host)
  <2>1. Sequence(seed.host) /\ Sequence(u.host)
    BY DEF IsUrl
  <2>2. SubSeq(seed.host, 2, Len(seed.host) - 1) \in Seq(ToSet(seed.host))
    BY <2>1 DEF Sequence
  <2> DEFINE part == SubSeq(seed.host, 2, Len(seed.host) - 1)
  <2>3. Sequence(part)
    <3>1. part \in Seq(ToSet(seed.host))
      BY <2>2
    <3> HIDE DEF part
    <3>2. Len(part) \in Nat /\ part = [k \in 1..Len(part) |-> part[k]]
      BY <3>1
    <3> QED BY <3>2, SequenceByIndex
  <2> QED BY <2>1, <2>3 DEF Hostname
<1>6. ASSUME StripPort(norm) = norm.host, cfg.sameOrigin, cfg.subdomains
      PROVE  UnderDomain(norm.host, Hostname(seed))
  <2>1. MatchesDomain(u.host, Hostname(seed))
    <3>1. Subdomain(u, Hostname(seed))
      BY <1>6, Zenon DEF InScope
    <3> QED BY <1>4, <1>6, <3>1, Zenon DEF Subdomain
  <2> QED BY <1>1, <1>5, <2>1, DomainsMatch
<1>7. ASSUME StripPort(norm) = norm.host, NEW d \in cfg.deny
      PROVE  ~UnderDomain(norm.host, d)
  <2>1. ~MatchesDomain(u.host, d)
    <3>1. AllowDeny(u, cfg.allow, cfg.deny)
      BY Zenon DEF InScope
    <3> QED BY <1>4, <1>7, <3>1, Zenon DEF AllowDeny
  <2> QED BY <1>1, <1>5, <2>1, DomainsMatch
<1> QED BY <1>3, <1>6, <1>7 DEF Belongs, norm

\* What is offered one after the other: each URL in scope, once, and not seen.
LEMMA EnqueuedBelong ==
  ASSUME NEW found, Sequence(found), NEW seed, NEW cfg, NEW seen
  PROVE  LET queue == Enqueued(found, seed, cfg, seen) IN
         /\ \A k \in DOMAIN queue :
              /\ \E d \in ToSet(found) : /\ queue[k] = FromParsed(d.url, cfg.strict, cfg.sortQuery)
                                         /\ InScope(d.url, seed, cfg)
              /\ queue[k] \notin seen
         /\ IsInjective(queue)
<1> DEFINE N == Len(found)
           Norm(d) == FromParsed(d.url, cfg.strict, cfg.sortQuery)
           S == Seq({Norm(d) : d \in ToSet(found)})
           Next1(q, d) == Offered(q, d, seed, cfg, seen)
           G == [n \in 1..N |-> [q \in S |-> Next1(q, found[n])]]
           Step(w) == [n \in 0..N |-> IF n = 0 THEN <<>> ELSE Next1(w[n - 1], found[n])]
           F == CHOOSE w : w = Step(w)
<1>1. N \in Nat /\ \A n \in 1..N : found[n] \in ToSet(found)
  BY SequenceFacts
<1>2. Enqueued(found, seed, cfg, seen) = F[N]
  BY DEF Enqueued
<1>3. ASSUME NEW q, NEW d
      PROVE  Next1(q, d) = q \/ (Next1(q, d) = Append(q, Norm(d)) /\ InScope(d.url, seed, cfg)
                                   /\ Norm(d) \notin seen /\ Norm(d) \notin ToSet(q))
  BY Zenon DEF Offered, ChecksScope
<1> HIDE DEF Next1
<1>4. G \in [1..N -> [S -> S]] /\ <<>> \in S
  <2>1. ASSUME NEW n \in 1..N, NEW q \in S PROVE Next1(q, found[n]) \in S
    <3>1. Norm(found[n]) \in {Norm(d) : d \in ToSet(found)}
      BY <1>1
    <3> DEFINE U == {Norm(d) : d \in ToSet(found)}
               x == Norm(found[n])
    <3> HIDE DEF U, x
    <3>2. x \in U /\ q \in Seq(U)
      BY <2>1, <3>1 DEF U, x
    <3>3. Append(q, x) \in Seq(U)
      BY <3>2
    <3>4. Next1(q, found[n]) = q \/ Next1(q, found[n]) = Append(q, x)
      BY <1>3 DEF x
    <3> QED BY <3>2, <3>3, <3>4 DEF U
  <2> HIDE DEF S
  <2>2. G \in [1..N -> [S -> S]]
    BY <2>1
  <2> QED BY <2>2 DEF S
<1>5. PICK W : Walks(W, S, N, <<>>, G)
  <2> HIDE DEF S, G
  <2> QED BY <1>1, <1>4, PrefixRecursion
<1>6. W = Step(W)
  <2>1. /\ W \in [0..N -> S] /\ W[0] = <<>>
        /\ \A n \in 1..N : W[n] = G[n][W[n - 1]]
    BY <1>5 DEF Walks
  <2> HIDE DEF S
  <2>2. ASSUME NEW n \in 1..N PROVE W[n] = Next1(W[n - 1], found[n])
    <3>1. n - 1 \in 0..N
      BY <1>1
    <3>2. W[n - 1] \in S
      BY <2>1, <3>1
    <3> QED BY <2>1, <3>2
  <2>3. \A n \in 0..N : W[n] = Step(W)[n]
    <3>1. \A n \in 0..N : n = 0 \/ n \in 1..N
      BY <1>1
    <3> QED BY <2>1, <2>2, <3>1
  <2>4. W = [n \in 0..N |-> W[n]]
    BY <2>1
  <2> QED BY <2>3, <2>4
<1>7. F = Step(F)
  <2> HIDE DEF Step
  <2> QED BY <1>6
<1> HIDE DEF F
<1> DEFINE Fine(q) ==
             /\ Sequence(q) /\ IsInjective(q)
             /\ \A k \in DOMAIN q :
                  /\ \E d \in ToSet(found) : q[k] = Norm(d) /\ InScope(d.url, seed, cfg)
                  /\ q[k] \notin seen
<1>8. ASSUME NEW q, Fine(q), NEW d \in ToSet(found) PROVE Fine(Next1(q, d))
  <2> DEFINE x == Norm(d)
             r == Append(q, x)
             m == Len(q)
  <2>1. Next1(q, d) = q \/ (Next1(q, d) = r /\ InScope(d.url, seed, cfg) /\ x \notin seen /\ x \notin ToSet(q))
    BY <1>3
  <2>2. CASE Next1(q, d) = q
    BY <1>8, <2>2
  <2>3. CASE Next1(q, d) = r /\ InScope(d.url, seed, cfg) /\ x \notin seen /\ x \notin ToSet(q)
    <3> HIDE DEF x
    <3>0. m \in Nat /\ DOMAIN q = 1..m
      BY <1>8, SequenceFacts
    <3>1. /\ DOMAIN r = 1..m + 1 /\ r[m + 1] = x
          /\ \A k \in 1..m : r[k] = q[k]
      <4>1. q \in Seq(ToSet(q) \cup {x})
        BY <1>8 DEF Sequence
      <4> QED BY <4>1
    <3>2. Sequence(r)
      <4>0. q \in Seq(ToSet(q) \cup {x})
        BY <1>8 DEF Sequence
      <4>1. r = [k \in 1..m + 1 |-> r[k]] /\ m + 1 \in Nat
        <5>1. r \in Seq(ToSet(q) \cup {x}) /\ Len(r) = m + 1
          BY <4>0
        <5> HIDE DEF r
        <5> QED BY <3>0, <5>1
      <4> HIDE DEF r
      <4> QED BY <4>1, SequenceByIndex
    <3> HIDE DEF r
    <3>3. \A k \in 1..m : q[k] # x
      BY <2>3, <3>0 DEF ToSet
    <3>4. \A k \in DOMAIN r : k \in 1..m \/ k = m + 1
      BY <3>0, <3>1
    <3>5. IsInjective(r)
      BY <1>8, <3>0, <3>1, <3>3, <3>4 DEF IsInjective
    <3>6. ASSUME NEW k \in DOMAIN r
          PROVE  /\ \E e \in ToSet(found) : r[k] = Norm(e) /\ InScope(e.url, seed, cfg)
                 /\ r[k] \notin seen
      <4>1. CASE k \in 1..m
        <5>1. r[k] = q[k] /\ k \in DOMAIN q
          BY <3>0, <3>1, <4>1
        <5> HIDE DEF Norm
        <5> QED BY <1>8, <5>1
      <4>2. CASE k = m + 1
        <5>1. r[k] = Norm(d)
          BY <3>1, <4>2 DEF x
        <5> HIDE DEF Norm
        <5> QED BY <1>8, <2>3, <5>1 DEF x
      <4> QED BY <3>4, <4>1, <4>2
    <3> HIDE DEF Norm
    <3> QED BY <2>3, <3>2, <3>5, <3>6
  <2> QED BY <2>1, <2>2, <2>3
<1> DEFINE T == {n \in Nat : Fine(F[n])}
<1>9. 0 \in T
  <2>1. F[0] = <<>>
    <3>1. Step(F)[0] = <<>>
      BY <1>1
    <3> HIDE DEF Step
    <3> QED BY <1>7, <3>1
  <2>2. Fine(<<>>)
    <3>1. Sequence(<<>>)
      BY ShortSequences
    <3>2. DOMAIN <<>> = {}
      OBVIOUS
    <3> HIDE DEF Norm
    <3> QED BY <3>1, <3>2 DEF IsInjective
  <2> HIDE DEF Fine
  <2> QED BY <2>1, <2>2
<1> HIDE DEF Fine
<1>10. ASSUME NEW n \in 0..N - 1, n \in T PROVE n + 1 \in T
  <2>1. n + 1 \in 1..N /\ n + 1 \in 0..N /\ n + 1 - 1 = n /\ n + 1 # 0 /\ n + 1 \in Nat
    BY <1>1, <1>10
  <2>2. F[n + 1] = Next1(F[n], found[n + 1])
    <3>1. Step(F)[n + 1] = Next1(F[n], found[n + 1])
      BY <2>1
    <3> HIDE DEF Step
    <3> QED BY <1>7, <3>1
  <2>3. Fine(F[n])
    BY <1>10
  <2> QED BY <1>1, <1>8, <2>1, <2>2, <2>3
<1>11. N \in T
  <2>1. \A n \in 0..N : n \in T
    <3> HIDE DEF T
    <3> QED BY <1>1, <1>9, <1>10, PrefixInd
  <2> HIDE DEF T
  <2> QED BY <1>1, <2>1
<1> QED BY <1>2, <1>11 DEF Fine

\* What is followed from a page belongs to the crawl: the seed's origin, or a
\* host under it, no denied domain, nothing queued twice, and never the page
\* itself; for every page, seed and policy, whatever redirect led there.
THEOREM FollowedCorrect == Spec => []FollowedIsInScope
<1>1. ASSUME IsCase(input) PROVE FollowedIsInScope
  <2> DEFINE page == input.page
             seed == input.seed
             cfg == input.cfg
             found == RunAll(Runs(page, cfg.recoverMaps))
             self == FromParsed(page.requested, cfg.strict, cfg.sortQuery)
  <2>1. SUFFICES ASSUME Is("page")
                 PROVE  /\ \A k \in DOMAIN Followed : Belongs(Followed[k], seed, cfg)
                        /\ IsInjective(Followed)
                        /\ self \notin ToSet(Followed)
    BY Zenon DEF FollowedIsInScope, Belongs
  <2>2. IsPage(page) /\ IsUrl(seed) /\ \A d \in cfg.deny : Sequence(d)
    BY <1>1, <2>1, CaseOfKind, AlgorithmsAssumption DEF Is
  <2>3. Discovered(page, found)
    BY <2>2, RunsStay
  <2>4. Followed = Enqueued(found, seed, cfg, {self})
    BY DEF Followed, Children
  <2> HIDE DEF found, self
  <2>5. Sequence(found) /\ \A d \in ToSet(found) : IsUrl(d.url)
    BY <2>3 DEF Discovered, Stays
  <2>6. /\ \A k \in DOMAIN Followed :
             /\ \E d \in ToSet(found) : /\ Followed[k] = FromParsed(d.url, cfg.strict, cfg.sortQuery)
                                        /\ InScope(d.url, seed, cfg)
             /\ Followed[k] # self
        /\ IsInjective(Followed)
    <3> DEFINE queue == Enqueued(found, seed, cfg, {self})
    <3>1. /\ \A k \in DOMAIN queue :
               /\ \E d \in ToSet(found) : /\ queue[k] = FromParsed(d.url, cfg.strict, cfg.sortQuery)
                                          /\ InScope(d.url, seed, cfg)
               /\ queue[k] \notin {self}
          /\ IsInjective(queue)
      BY <2>5, EnqueuedBelong, Zenon
    <3>2. Followed = queue
      BY <2>4
    <3> HIDE DEF queue
    <3> QED BY <3>1, <3>2
  <2>7. ASSUME NEW k \in DOMAIN Followed PROVE Belongs(Followed[k], seed, cfg)
    <3>1. PICK d \in ToSet(found) :
            Followed[k] = FromParsed(d.url, cfg.strict, cfg.sortQuery) /\ InScope(d.url, seed, cfg)
      BY <2>6
    <3>2. IsUrl(d.url)
      BY <2>5
    <3> QED BY <2>2, <3>1, <3>2, ScopeIsKept
  <2>8. self \notin ToSet(Followed)
    BY <2>6 DEF ToSet
  <2> QED BY <2>6, <2>7, <2>8
<1>2. Init => IsCase(input)
  BY DEF Init
<1>3. IsCase(input) /\ [Next]_<<input, writerVars>> => IsCase(input)'
  BY DEF Next
<1> QED BY <1>1, <1>2, <1>3, PTL DEF Spec

-----------------------------------------------------------------------------
(* Source maps: the loop over the sources, as far as it has come.          *)

\* The sources among the first n that have text and this path.
TextsAt(map, n, path) ==
  {k \in 1..n : ~map.sources[k].noise /\ SourcePath(map, k) = path /\ HasText(map, k)}
FiledAt(map, n, files, path) ==
  IF TextsAt(map, n, path) = {} THEN path \notin DOMAIN files
  ELSE \E k \in TextsAt(map, n, path) :
         /\ \A j \in TextsAt(map, n, path) : j <= k
         /\ path \in DOMAIN files /\ files[path] = map.contents[k]

LEMMA RecoverFiles ==
  ASSUME NEW map, NEW n \in Nat, NEW result, NEW path, FiledAt(map, n, result.sources, path)
  PROVE  FiledAt(map, n + 1, Recover(map, result, n + 1).sources, path)
<1> DEFINE k == n + 1
           files == result.sources
           own == SourcePath(map, k)
           filed == [p \in DOMAIN files \cup {own} |-> IF p = own THEN map.contents[k] ELSE files[p]]
           after == Recover(map, result, k).sources
           T == TextsAt(map, n, path)
           U == TextsAt(map, k, path)
<1>1. \A j : j \in 1..k <=> j \in 1..n \/ j = k
  OBVIOUS
<1>2. U = IF ~map.sources[k].noise /\ own = path /\ HasText(map, k) THEN T \cup {k} ELSE T
  BY <1>1 DEF TextsAt
<1>3. after = IF ~map.sources[k].noise /\ HasText(map, k) THEN filed ELSE files
  BY DEF Recover, ByIndex
<1>4. \A j \in T : j \in 1..n /\ j <= k
  BY DEF TextsAt
<1> HIDE DEF T, U
<1>5. CASE ~map.sources[k].noise /\ own = path /\ HasText(map, k)
  <2>1. U = T \cup {k} /\ after = filed
    BY <1>2, <1>3, <1>5
  <2>2. path \in DOMAIN filed /\ filed[path] = map.contents[k]
    BY <1>5
  <2> HIDE DEF filed
  <2>3. k \in U /\ \A j \in U : j <= k
    BY <1>4, <2>1
  <2> HIDE DEF after, k
  <2> QED BY <2>1, <2>2, <2>3 DEF FiledAt, U, k, after
<1>6. CASE ~(~map.sources[k].noise /\ own = path /\ HasText(map, k))
  <2>1. U = T
    BY <1>2, <1>6
  <2>2. /\ path \in DOMAIN after <=> path \in DOMAIN files
        /\ path \in DOMAIN files => after[path] = files[path]
    <3>1. CASE ~map.sources[k].noise /\ HasText(map, k)
      <4>1. after = filed /\ own # path
        BY <1>3, <1>6, <3>1
      <4>2. /\ path \in DOMAIN filed <=> path \in DOMAIN files
            /\ path \in DOMAIN files => filed[path] = files[path]
        BY <4>1
      <4> HIDE DEF filed, after
      <4> QED BY <4>1, <4>2
    <3>2. CASE ~(~map.sources[k].noise /\ HasText(map, k))
      BY <1>3, <3>2
    <3> QED BY <3>1, <3>2
  <2> HIDE DEF after, files
  <2>3. FiledAt(map, n, files, path)
    BY DEF files
  <2> QED BY <2>1, <2>2, <2>3 DEF FiledAt, T, U, after
<1> QED BY <1>5, <1>6

LEMMA ParseFiles ==
  ASSUME NEW map, Sequence(map.sources), NEW path
  PROVE  FiledAt(map, Len(map.sources), Sources(map), path)
<1> DEFINE N == Len(map.sources)
           P == {SourcePath(map, k) : k \in 1..N}
           C == {map.contents[k] : k \in DOMAIN map.contents}
           Files == UNION {[D -> C] : D \in SUBSET P}
           S == [mapping : Seq(P), sources : Files]
           b == [mapping |-> <<>>, sources |-> <<>>]
           G == [k \in 1..N |-> [r \in S |-> Recover(map, r, k)]]
           Step(w) == [k \in 0..N |-> IF k = 0 THEN b ELSE Recover(map, w[k - 1], k)]
           F == CHOOSE w : w = Step(w)
<1>1. N \in Nat
  BY SequenceFacts
<1>2. Sources(map) = F[N].sources
  BY DEF Sources, Parse
<1>3. ASSUME NEW k \in 1..N, NEW r \in S PROVE Recover(map, r, k) \in S
  <2> DEFINE own == SourcePath(map, k)
             filed == [p \in DOMAIN r.sources \cup {own} |-> IF p = own THEN map.contents[k] ELSE r.sources[p]]
             files == IF HasText(map, k) THEN filed ELSE r.sources
  <2>1. own \in P /\ r.mapping \in Seq(P)
    OBVIOUS
  <2>2. PICK D \in SUBSET P : r.sources \in [D -> C]
    OBVIOUS
  <2>3. files \in Files
    <3>1. CASE HasText(map, k)
      <4>1. map.contents[k] \in C
        BY <3>1 DEF HasText
      <4> HIDE DEF own, P, C
      <4>2. filed \in [D \cup {own} -> C] /\ D \cup {own} \in SUBSET P
        BY <2>1, <2>2, <4>1
      <4>3. files = filed
        BY <3>1
      <4> HIDE DEF files, filed
      <4> QED BY <4>2, <4>3
    <3>2. CASE ~HasText(map, k)
      BY <2>2, <3>2
    <3> QED BY <3>1, <3>2
  <2> HIDE DEF P, Files
  <2>4. Append(r.mapping, own) \in Seq(P)
    BY <2>1
  <2>5. Recover(map, r, k) = IF map.sources[k].noise THEN r
                             ELSE [mapping |-> Append(r.mapping, own), sources |-> files]
    BY DEF Recover, ByIndex
  <2> HIDE DEF own, files
  <2> QED BY <2>3, <2>4, <2>5
<1>4. b \in S
  <2>1. <<>> \in [{} -> C] /\ {} \in SUBSET P
    OBVIOUS
  <2>2. <<>> \in Files
    BY <2>1
  <2> HIDE DEF Files, P
  <2> QED BY <2>2
<1> HIDE DEF S, b
<1>5. PICK W : Walks(W, S, N, b, G)
  <2>1. G \in [1..N -> [S -> S]]
    BY <1>3
  <2> HIDE DEF G
  <2> QED BY <1>1, <1>4, <2>1, PrefixRecursion
<1>6. W = Step(W)
  <2>1. /\ W \in [0..N -> S] /\ W[0] = b
        /\ \A n \in 1..N : W[n] = G[n][W[n - 1]]
    BY <1>5 DEF Walks
  <2>2. ASSUME NEW n \in 1..N PROVE W[n] = Recover(map, W[n - 1], n)
    <3>1. n - 1 \in 0..N
      BY <1>1
    <3>2. W[n - 1] \in S
      BY <2>1, <3>1
    <3> QED BY <2>1, <3>2
  <2>3. \A n \in 0..N : W[n] = Step(W)[n]
    <3>1. \A n \in 0..N : n = 0 \/ n \in 1..N
      BY <1>1
    <3> QED BY <2>1, <2>2, <3>1
  <2>4. W = [n \in 0..N |-> W[n]]
    BY <2>1
  <2> QED BY <2>3, <2>4
<1>7. F = Step(F)
  <2> HIDE DEF Step
  <2> QED BY <1>6
<1> HIDE DEF F
<1> DEFINE T == {n \in Nat : FiledAt(map, n, F[n].sources, path)}
<1>8. 0 \in T
  <2>1. F[0] = b
    <3>1. Step(F)[0] = b
      BY <1>1
    <3> HIDE DEF Step
    <3> QED BY <1>7, <3>1
  <2>2. b.sources = <<>> /\ DOMAIN <<>> = {}
    BY DEF b
  <2>3. TextsAt(map, 0, path) = {}
    BY DEF TextsAt
  <2> QED BY <2>1, <2>2, <2>3 DEF FiledAt
<1>9. ASSUME NEW n \in 0..N - 1, n \in T PROVE n + 1 \in T
  <2>1. n \in Nat /\ n + 1 \in 0..N /\ n + 1 - 1 = n /\ n + 1 # 0 /\ n + 1 \in Nat
    BY <1>1, <1>9
  <2>2. F[n + 1] = Recover(map, F[n], n + 1)
    <3>1. Step(F)[n + 1] = Recover(map, F[n], n + 1)
      BY <2>1
    <3> HIDE DEF Step
    <3> QED BY <1>7, <3>1
  <2>3. FiledAt(map, n, F[n].sources, path)
    BY <1>9
  <2> QED BY <2>1, <2>2, <2>3, RecoverFiles
<1>10. N \in T
  <2>1. \A n \in 0..N : n \in T
    <3> HIDE DEF T
    <3> QED BY <1>1, <1>8, <1>9, PrefixInd
  <2> HIDE DEF T
  <2> QED BY <1>1, <2>1
<1> QED BY <1>2, <1>10

\* Of every source map: a path's text is that of the last source with this path
\* that has text and is not noise, and a path without one has no text.
THEOREM SourcesCorrect == Spec => []SourcesUnderTheirPaths
<1>1. ASSUME IsCase(input) PROVE SourcesUnderTheirPaths
  <2> DEFINE m == input.map
             Having(p) == {k \in DOMAIN m.sources : /\ ~m.sources[k].noise /\ SourcePath(m, k) = p
                                                   /\ k \in DOMAIN m.contents /\ m.contents[k] # ""}
  <2>1. SUFFICES ASSUME Is("map"), NEW p \in {SourcePath(m, k) : k \in DOMAIN m.sources}
                 PROVE  IF Having(p) = {} THEN p \notin DOMAIN Sources(m)
                        ELSE \E k \in Having(p) : /\ \A j \in Having(p) : j <= k
                                                 /\ p \in DOMAIN Sources(m) /\ Sources(m)[p] = m.contents[k]
    BY Zenon DEF SourcesUnderTheirPaths
  <2>2. Sequence(m.sources)
    BY <1>1, <2>1, CaseOfKind, AlgorithmsAssumption DEF Is
  <2>3. FiledAt(m, Len(m.sources), Sources(m), p)
    BY <2>2, ParseFiles
  <2>4. DOMAIN m.sources = 1..Len(m.sources)
    BY <2>2, SequenceFacts
  <2>5. Having(p) = TextsAt(m, Len(m.sources), p)
    BY <2>4 DEF TextsAt, HasText
  <2> HIDE DEF Having, m
  <2> QED BY <2>3, <2>5, Zenon DEF FiledAt
<1>2. Init => IsCase(input)
  BY DEF Init
<1>3. IsCase(input) /\ [Next]_<<input, writerVars>> => IsCase(input)'
  BY DEF Next
<1> QED BY <1>1, <1>2, <1>3, PTL DEF Spec

-----------------------------------------------------------------------------
(* Events: the encoder against encoding/json.                              *)

\* What Joined puts together, one member after the other.
LEMMA JoinedFunction ==
  ASSUME NEW parts, Sequence(parts), \A i \in DOMAIN parts : Sequence(parts[i]), Len(parts) # 0
  PROVE  \E F : /\ Joined(parts) = F[Len(parts)] /\ F[1] = parts[1]
                /\ \A i \in 1..Len(parts) - 1 : F[i + 1] = Cat(F[i], Cat(One(","), parts[i + 1]))
<1> DEFINE N == Len(parts)
           ss == [k \in 1..N |-> IF k = 1 THEN parts[k] ELSE <<",">> \o parts[k]]
<1>1. N \in Nat /\ N # 0 /\ DOMAIN parts = 1..N
  BY SequenceFacts
<1>2. Joined(parts) = FlattenSeq(ss)
  BY <1>1 DEF Joined
<1>3. ss = [k \in 1..N |-> ss[k]]
  OBVIOUS
<1>4. Sequence(ss) /\ Len(ss) = N /\ DOMAIN ss = 1..N
  <2>1. DOMAIN ss = 1..N
    OBVIOUS
  <2> HIDE DEF ss, N
  <2> QED BY <1>1, <1>3, <2>1, SequenceByIndex
<1>5. ss[1] = parts[1] /\ \A i \in 1..N - 1 : ss[i + 1] = <<",">> \o parts[i + 1]
  <2>1. 1 \in 1..N /\ \A i \in 1..N - 1 : i + 1 \in 1..N /\ i + 1 # 1
    BY <1>1
  <2>2. \A k \in 1..N : ss[k] = IF k = 1 THEN parts[k] ELSE <<",">> \o parts[k]
    OBVIOUS
  <2> HIDE DEF ss, N
  <2> QED BY <2>1, <2>2
<1>6. ASSUME NEW i \in 1..N PROVE Sequence(ss[i])
  <2>1. Sequence(parts[i]) /\ Sequence(<<",">> \o parts[i])
    BY <1>1, ShortSequences, JoinSequences
  <2> QED BY <2>1
<1> HIDE DEF ss
<1>7. PICK F : /\ FlattenSeq(ss) = F[N] /\ F[1] = ss[1]
               /\ \A i \in 1..N - 1 : F[i + 1] = Cat(F[i], ss[i + 1])
  BY <1>1, <1>4, <1>6, FlattenFunction DEF Cat
<1>8. \A i \in 1..N - 1 : ss[i + 1] = Cat(One(","), parts[i + 1])
  BY <1>5 DEF Cat, One
<1> QED BY <1>2, <1>5, <1>7, <1>8

LEMMA JoinedTyped ==
  ASSUME NEW parts, Sequence(parts), \A i \in DOMAIN parts : Sequence(parts[i])
  PROVE  Sequence(Joined(parts)) /\ (parts = <<>> => Joined(parts) = <<>>)
<1> DEFINE N == Len(parts)
           ss == [k \in 1..N |-> IF k = 1 THEN parts[k] ELSE <<",">> \o parts[k]]
<1>1. N \in Nat /\ DOMAIN parts = 1..N
  BY SequenceFacts
<1>2. Joined(parts) = FlattenSeq(ss)
  BY <1>1 DEF Joined
<1>3. ss = [k \in 1..N |-> ss[k]] /\ DOMAIN ss = 1..N
  OBVIOUS
<1>4. Sequence(ss) /\ Len(ss) = N
  <2> HIDE DEF ss, N
  <2> QED BY <1>1, <1>3, SequenceByIndex
<1>5. ASSUME NEW i \in 1..N PROVE Sequence(ss[i])
  <2>1. Sequence(parts[i]) /\ Sequence(<<",">> \o parts[i])
    BY <1>1, ShortSequences, JoinSequences
  <2> QED BY <2>1
<1>6. ASSUME parts = <<>> PROVE FlattenSeq(ss) = <<>>
  <2>1. N = 0
    BY <1>6
  <2>2. ss = <<>>
    BY <2>1
  <2> HIDE DEF ss
  <2>3. Len(ss) = 0
    BY <2>2
  <2> QED BY <2>2, <2>3 DEF FlattenSeq
<1> HIDE DEF ss
<1>7. Sequence(FlattenSeq(ss))
  BY <1>3, <1>4, <1>5, FlattenSequences
<1> QED BY <1>2, <1>6, <1>7

LEMMA JoinedAppend ==
  ASSUME NEW parts, Sequence(parts), \A i \in DOMAIN parts : Sequence(parts[i]), NEW m, Sequence(m)
  PROVE  Joined(Cat(parts, One(m))) = IF parts = <<>> THEN m ELSE Cat(Joined(parts), Cat(One(","), m))
<1> DEFINE N == Len(parts)
           more == Cat(parts, One(m))
<1>1. N \in Nat /\ DOMAIN parts = 1..N
  BY SequenceFacts
<1>2. /\ Len(more) = N + 1 /\ DOMAIN more = 1..N + 1 /\ more[N + 1] = m
      /\ \A i \in 1..N : more[i] = parts[i]
  <2> DEFINE S == ToSet(parts) \cup {m}
  <2>1. parts \in Seq(S) /\ <<m>> \in Seq(S)
    BY SeqMonotonic DEF Sequence
  <2> HIDE DEF S
  <2> QED BY <1>1, <2>1 DEF Cat, One
<1>3. Sequence(more)
  BY OneTyped, CatTyped
<1>4. ASSUME NEW i \in DOMAIN more PROVE Sequence(more[i])
  <2>1. i \in 1..N \/ i = N + 1
    BY <1>1, <1>2
  <2> HIDE DEF more
  <2> QED BY <1>1, <1>2, <2>1
<1> HIDE DEF more
<1>5. PICK F : /\ Joined(more) = F[N + 1] /\ F[1] = more[1]
               /\ \A i \in 1..N : F[i + 1] = Cat(F[i], Cat(One(","), more[i + 1]))
  <2>1. Len(more) # 0 /\ Len(more) - 1 = N /\ Len(more) = N + 1
    BY <1>1, <1>2
  <2>2. \E F : /\ Joined(more) = F[Len(more)] /\ F[1] = more[1]
                /\ \A i \in 1..Len(more) - 1 : F[i + 1] = Cat(F[i], Cat(One(","), more[i + 1]))
    BY <1>3, <1>4, <2>1, JoinedFunction
  <2> HIDE DEF N
  <2> QED BY <2>1, <2>2
<1>6. CASE N = 0
  <2>1. parts = <<>> /\ more[1] = m
    BY <1>1, <1>2, <1>6
  <2> QED BY <1>5, <1>6, <2>1 DEF more
<1>7. CASE N # 0
  <2>1. PICK E : /\ Joined(parts) = E[N] /\ E[1] = parts[1]
                 /\ \A i \in 1..N - 1 : E[i + 1] = Cat(E[i], Cat(One(","), parts[i + 1]))
    BY <1>7, JoinedFunction
  <2> DEFINE T == {i \in Nat : i # 0 => E[i] = F[i]}
  <2>2. 0 \in T
    OBVIOUS
  <2>3. ASSUME NEW i \in 0..N - 1, i \in T PROVE i + 1 \in T
    <3>1. i \in Nat /\ i + 1 \in Nat /\ i + 1 \in 1..N /\ (i # 0 => E[i] = F[i] /\ i \in 1..N - 1 /\ i \in 1..N)
      BY <1>1, <2>3
    <3>2. more[i + 1] = parts[i + 1]
      BY <1>2, <3>1
    <3>3. CASE i = 0
      <4>1. E[1] = F[1]
        <5>1. 1 \in 1..N
          BY <1>1, <1>7
        <5> QED BY <1>2, <1>5, <2>1, <5>1
      <4> QED BY <3>1, <3>3, <4>1
    <3>4. CASE i # 0
      <4>1. E[i + 1] = Cat(E[i], Cat(One(","), parts[i + 1])) /\ F[i + 1] = Cat(F[i], Cat(One(","), more[i + 1]))
        BY <1>5, <2>1, <3>1, <3>4
      <4> QED BY <3>1, <3>2, <3>4, <4>1
    <3> QED BY <3>3, <3>4
  <2>4. E[N] = F[N]
    <3>1. \A i \in 0..N : i \in T
      <4> HIDE DEF T
      <4> QED BY <1>1, <2>2, <2>3, PrefixInd
    <3> QED BY <1>1, <1>7, <3>1
  <2>5. F[N + 1] = Cat(F[N], Cat(One(","), m))
    <3>1. N \in 1..N
      BY <1>1, <1>7
    <3> QED BY <1>2, <1>5, <3>1
  <2>6. parts # <<>>
    BY <1>7
  <2> QED BY <1>5, <2>1, <2>4, <2>5, <2>6 DEF more
<1> QED BY <1>6, <1>7

\* The list an encoder's loop makes when each turn appends what one item is.
Turns(W, start, values) ==
  /\ W[0] = start
  /\ \A k \in 1..Len(values) : W[k] = Cat(IF k = 1 THEN W[0] ELSE Append(W[k - 1], ","), values[k])

LEMMA ListFunction ==
  ASSUME NEW start, Sequence(start), NEW values, Sequence(values),
         \A i \in DOMAIN values : Sequence(values[i])
  PROVE  \E W : /\ W = [k \in 0..Len(values) |-> W[k]] /\ Turns(W, start, values)
                /\ W[Len(values)] = Cat(start, Joined(values)) /\ \A k \in 0..Len(values) : Sequence(W[k])
<1> DEFINE N == Len(values)
<1>1. N \in Nat /\ DOMAIN values = 1..N
  BY SequenceFacts
<1>2. CASE N = 0
  <2> DEFINE W == [k \in 0..N |-> start]
  <2>1. values = <<>>
    BY <1>1, <1>2, SequenceFacts
  <2>2. Joined(values) = <<>>
    BY <2>1, JoinedTyped
  <2>3. W[N] = Cat(start, Joined(values))
    BY <1>1, <2>2, CatNothing
  <2>4. W = [k \in 0..N |-> W[k]] /\ \A k \in 0..N : Sequence(W[k])
    OBVIOUS
  <2>5. Turns(W, start, values)
    BY <1>2 DEF Turns
  <2> HIDE DEF W
  <2> QED BY <2>3, <2>4, <2>5
<1>3. CASE N # 0
  <2>1. PICK F : /\ Joined(values) = F[N] /\ F[1] = values[1]
                 /\ \A i \in 1..N - 1 : F[i + 1] = Cat(F[i], Cat(One(","), values[i + 1]))
    BY <1>3, JoinedFunction
  <2> DEFINE T == {i \in Nat : i # 0 => Sequence(F[i])}
             W == [k \in 0..N |-> IF k = 0 THEN start ELSE Cat(start, F[k])]
  <2>2. ASSUME NEW i \in 0..N - 1, i \in T PROVE i + 1 \in T
    <3>1. i \in Nat /\ i + 1 \in Nat /\ i + 1 \in 1..N /\ (i # 0 => Sequence(F[i]) /\ i \in 1..N - 1)
      BY <1>1, <2>2
    <3>2. Sequence(values[i + 1])
      BY <1>1, <3>1
    <3>3. CASE i = 0
      <4>1. Sequence(F[1])
        <5>1. 1 \in 1..N
          BY <1>1, <1>3
        <5> QED BY <1>1, <2>1, <5>1
      <4> QED BY <3>1, <3>3, <4>1
    <3>4. CASE i # 0
      <4>1. Sequence(Cat(One(","), values[i + 1]))
        BY <3>2, OneTyped, CatTyped
      <4>2. Sequence(F[i + 1])
        BY <2>1, <3>1, <3>4, <4>1, CatTyped
      <4> QED BY <3>1, <4>2
    <3> QED BY <3>3, <3>4
  <2>3. \A i \in 0..N : i \in T
    <3>1. 0 \in T
      OBVIOUS
    <3> HIDE DEF T
    <3> QED BY <1>1, <2>2, <3>1, PrefixInd
  <2>4. \A k \in 1..N : Sequence(F[k]) /\ W[k] = Cat(start, F[k])
    BY <1>1, <2>3
  <2>5. W[0] = start /\ W = [k \in 0..N |-> W[k]] /\ W[N] = Cat(start, Joined(values))
    <3>1. N \in 0..N /\ 0 \in 0..N
      BY <1>1
    <3>2. W[N] = Cat(start, F[N])
      BY <1>3, <3>1
    <3> QED BY <2>1, <3>1, <3>2
  <2> HIDE DEF T, W
  <2>6. \A k \in 0..N : Sequence(W[k])
    <3>1. \A k \in 0..N : k = 0 \/ k \in 1..N
      BY <1>1
    <3> QED BY <2>4, <2>5, <3>1, CatTyped
  <2>7. ASSUME NEW k \in 1..N
        PROVE  W[k] = Cat(IF k = 1 THEN W[0] ELSE Append(W[k - 1], ","), values[k])
    <3>1. CASE k = 1
      BY <2>1, <2>4, <2>5, <3>1
    <3>2. CASE k # 1
      <4> DEFINE i == k - 1
      <4>1. i \in 1..N - 1 /\ i \in 1..N /\ i + 1 = k
        BY <1>1, <3>2
      <4> HIDE DEF i
      <4>2. /\ Sequence(F[i]) /\ Sequence(values[k]) /\ Sequence(One(","))
            /\ Sequence(Cat(One(","), values[k])) /\ Sequence(W[i])
        BY <1>1, <2>4, <2>6, <4>1, OneTyped, CatTyped
      <4>3. W[k] = Cat(start, Cat(F[i], Cat(One(","), values[k])))
        BY <2>1, <2>4, <4>1
      <4>4. W[k] = Cat(W[i], Cat(One(","), values[k]))
        <5> DEFINE f == F[i]
                   v == Cat(One(","), values[k])
        <5>1. Sequence(f) /\ Sequence(v)
          BY <4>2
        <5> HIDE DEF f, v
        <5>2. Cat(Cat(start, f), v) = Cat(start, Cat(f, v))
          BY <5>1, CatAssociates
        <5> QED BY <2>4, <4>1, <4>3, <5>2 DEF f, v
      <4>5. W[k] = Cat(Cat(W[i], One(",")), values[k])
        <5> DEFINE w == W[i]
                   c == One(",")
                   v == values[k]
        <5>1. Sequence(w) /\ Sequence(c) /\ Sequence(v)
          BY <4>2
        <5> HIDE DEF w, c, v
        <5>2. Cat(Cat(w, c), v) = Cat(w, Cat(c, v))
          BY <5>1, CatAssociates
        <5> QED BY <4>4, <5>2 DEF w, c, v
      <4>6. W[k] = Cat(Append(W[i], ","), values[k])
        BY <4>2, <4>5, AppendIsCat
      <4> QED BY <3>2, <4>6 DEF i
    <3> QED BY <3>1, <3>2
  <2>8. Turns(W, start, values)
    BY <2>5, <2>7 DEF Turns
  <2> QED BY <2>5, <2>6, <2>8
<1> QED BY <1>2, <1>3

\* The first m of a sequence, those before the n-th, and a run of it.
Upto(e, m) == [k \in 1..m |-> e[k]]
Copied(e, n) == Upto(e, n - 1)
Run(s, m, n) == SubSeq(s, m, n)

LEMMA RunCopied ==
  ASSUME NEW S, NEW e \in Seq(S), NEW s \in Seq(S), Len(e) = Len(s), NEW i \in 0..Len(s), NEW n \in 1..i + 1,
         \A k \in n..i : s[k] = e[k]
  PROVE  /\ Cat(Copied(e, n), Run(s, n, i)) = Upto(e, i)
         /\ Copied(e, n) \in Seq(S) /\ Run(s, n, i) \in Seq(S) /\ Upto(e, i) \in Seq(S)
<1> DEFINE a == Copied(e, n)
           b == SubSeq(s, n, i)
           r == a \o b
<1>1. i \in Nat /\ n \in Nat /\ n >= 1 /\ n <= i + 1 /\ i <= Len(s) /\ DOMAIN s = 1..Len(s) /\ DOMAIN e = 1..Len(s)
  OBVIOUS
<1>2. \A k \in 1..Len(s) : s[k] \in S /\ e[k] \in S
  BY <1>1
<1>3. \A m \in 0..i : Upto(e, m) \in Seq(S) /\ Len(Upto(e, m)) = m /\ \A k \in 1..m : Upto(e, m)[k] = e[k]
  <2>1. ASSUME NEW m \in 0..i PROVE Upto(e, m) \in [1..m -> S] /\ m \in Nat
    BY <1>1, <1>2 DEF Upto
  <2>2. ASSUME NEW m \in 0..i
        PROVE  Upto(e, m) \in Seq(S) /\ Len(Upto(e, m)) = m /\ \A k \in 1..m : Upto(e, m)[k] = e[k]
    <3>1. Upto(e, m) \in Seq(S) /\ Len(Upto(e, m)) = m
      BY <2>1
    <3> QED BY <3>1 DEF Upto
  <2> QED BY <2>2
<1>4. a \in Seq(S) /\ Len(a) = n - 1 /\ \A k \in 1..n - 1 : a[k] = e[k]
  <2>1. n - 1 \in 0..i
    BY <1>1
  <2> QED BY <1>3, <2>1 DEF Copied
<1>5. b \in Seq(S) /\ Len(b) = i - n + 1 /\ \A k \in 1..i - n + 1 : b[k] = s[n + k - 1]
  <2>1. \A k \in n..i : s[k] \in S
    BY <1>1, <1>2
  <2>2. /\ b \in Seq(S) /\ Len(b) = IF n <= i THEN i - n + 1 ELSE 0
        /\ \A k \in 1..i - n + 1 : b[k] = s[n + k - 1]
    BY <1>1, <2>1, SubSeqProperties
  <2> HIDE DEF b
  <2> QED BY <1>1, <2>2
<1> HIDE DEF a, b
<1>6. r \in Seq(S) /\ Len(r) = i
  <2>1. r \in Seq(S) /\ Len(r) = Len(a) + Len(b)
    BY <1>4, <1>5, ConcatProperties
  <2>2. Len(a) + Len(b) = i
    BY <1>1, <1>4, <1>5
  <2> HIDE DEF r
  <2> QED BY <2>1, <2>2
<1>7. ASSUME NEW k \in 1..i PROVE r[k] = e[k]
  <2>1. CASE k <= n - 1
    <3>1. r[k] = a[k] /\ k \in 1..n - 1
      BY <1>1, <1>4, <1>5, <2>1
    <3> QED BY <1>4, <3>1
  <2>2. CASE ~(k <= n - 1)
    <3> DEFINE j == k - (n - 1)
    <3>1. j \in 1..i - n + 1 /\ n + j - 1 = k /\ k \in n..i
      BY <1>1, <2>2
    <3>2. r[k] = b[j]
      BY <1>1, <1>4, <1>5, <2>2
    <3> HIDE DEF j
    <3> QED BY <1>5, <3>1, <3>2
  <2> QED BY <2>1, <2>2
<1>8. r = Upto(e, i)
  <2>1. i \in 0..i
    BY <1>1
  <2>2. Upto(e, i) \in Seq(S) /\ Len(Upto(e, i)) = i /\ \A k \in 1..i : Upto(e, i)[k] = e[k]
    BY <1>3, <2>1
  <2> HIDE DEF r
  <2>3. \A k \in 1..i : r[k] = Upto(e, i)[k]
    BY <1>7, <2>2
  <2> QED BY <1>6, <2>2, <2>3, SeqEqual
<1>9. Upto(e, i) \in Seq(S)
  <2> HIDE DEF r
  <2> QED BY <1>6, <1>8
<1> QED BY <1>4, <1>5, <1>8, <1>9 DEF Cat, Run, a, b

Written1(s) == [k \in DOMAIN s |-> IF s[k] \in Safe THEN s[k] ELSE Escapes[s[k]]]

\* The scan of appendJSONString after i characters: what stands before the run
\* is written, and the run holds safe characters only.
Scanned(scan, d, s, i) ==
  /\ scan = [dst |-> scan.dst, start |-> scan.start] /\ scan.start \in 1..i + 1
  /\ \A k \in scan.start..i : s[k] \in Safe
  /\ scan.dst = Cat(d, Copied(Written1(s), scan.start))

LEMMA WrittenFacts ==
  ASSUME NEW s, Sequence(s)
  PROVE  /\ Sequence(Written1(s)) /\ Len(Written1(s)) = Len(s)
         /\ \A k \in 1..Len(s) : Written1(s)[k] = IF s[k] \in Safe THEN s[k] ELSE Escapes[s[k]]
         /\ Upto(Written1(s), Len(s)) = Written1(s) /\ Upto(Written1(s), 0) = <<>>
<1> DEFINE n == Len(s)
           e == [k \in 1..n |-> IF s[k] \in Safe THEN s[k] ELSE Escapes[s[k]]]
<1>1. n \in Nat /\ DOMAIN s = 1..n
  BY SequenceFacts
<1>2. Written1(s) = e
  BY <1>1 DEF Written1
<1>3. e = [k \in 1..n |-> e[k]] /\ \A k \in 1..n : e[k] = IF s[k] \in Safe THEN s[k] ELSE Escapes[s[k]]
  OBVIOUS
<1> HIDE DEF e, n
<1>4. Sequence(e) /\ Len(e) = n
  BY <1>1, <1>3, SequenceByIndex
<1>5. Upto(e, n) = e /\ Upto(e, 0) = <<>>
  BY <1>3 DEF Upto
<1> QED BY <1>2, <1>3, <1>4, <1>5 DEF n

\* One turn of the loop.
LEMMA ScanStep ==
  ASSUME NEW s, Sequence(s), NEW d, Sequence(d), NEW i \in 0..Len(s) - 1, NEW scan, Scanned(scan, d, s, i)
  PROVE  Scanned(EscapeAt(s, scan, i + 1), d, s, i + 1)
<1> DEFINE e == Written1(s)
           n == scan.start
           j == i + 1
           S == ToSet(e) \cup ToSet(s)
<1>1. i \in Nat /\ j \in 1..Len(s) /\ j - 1 = i /\ Len(s) \in Nat /\ i \in 0..Len(s)
  BY SequenceFacts
<1>2. /\ Sequence(e) /\ Len(e) = Len(s)
      /\ \A k \in 1..Len(s) : e[k] = IF s[k] \in Safe THEN s[k] ELSE Escapes[s[k]]
  BY WrittenFacts
<1>3. n \in 1..j /\ n \in 1..i + 1 /\ (\A k \in n..i : s[k] \in Safe) /\ scan.dst = Cat(d, Copied(e, n))
  BY DEF Scanned
<1>4. e \in Seq(S) /\ s \in Seq(S)
  BY <1>2, SeqMonotonic DEF Sequence
<1> HIDE DEF e, S, j
<1>5. CASE s[j] \in Safe
  <2>1. EscapeAt(s, scan, j) = scan
    BY <1>5 DEF EscapeAt
  <2>2. \A k \in n..j : s[k] \in Safe
    <3>1. \A k \in n..j : k = j \/ k \in n..i
      BY <1>1, <1>3
    <3> QED BY <1>3, <1>5, <3>1
  <2>3. n \in 1..j + 1
    BY <1>1, <1>3
  <2> QED BY <2>1, <2>2, <2>3 DEF Scanned, j, e
<1>6. CASE s[j] \notin Safe
  <2> DEFINE new == [dst |-> scan.dst \o SubSeq(s, n, i) \o <<Escapes[s[j]]>>, start |-> j + 1]
  <2>1. EscapeAt(s, scan, j) = new
    BY <1>1, <1>6 DEF EscapeAt, AfterEscape
  <2>2. \A k \in n..i : s[k] = e[k]
    BY <1>1, <1>2, <1>3
  <2>3. /\ Cat(Copied(e, n), Run(s, n, i)) = Upto(e, i)
        /\ Copied(e, n) \in Seq(S) /\ Run(s, n, i) \in Seq(S) /\ Upto(e, i) \in Seq(S)
    <3>1. Len(e) = Len(s) /\ i \in 0..Len(s) /\ n \in 1..i + 1
      BY <1>1, <1>2, <1>3
    <3> HIDE DEF n
    <3> QED BY <1>4, <2>2, <3>1, RunCopied, Zenon
  <2>4. Cat(Upto(e, i), One(e[j])) = Upto(e, j)
    <3> DEFINE t == Run(e, j, j)
    <3>1. Cat(Copied(e, j), t) = Upto(e, j)
      <4>1. j \in 0..Len(e) /\ j \in 1..j + 1 /\ \A k \in j..j : e[k] = e[k]
        BY <1>1, <1>2
      <4> QED BY <1>4, <4>1, RunCopied
    <3>2. t = One(e[j])
      <4>1. \A k \in j..j : e[k] \in S
        BY <1>1, <1>2, <1>4
      <4>2. t \in Seq(S) /\ Len(t) = 1 /\ t[1] = e[j]
        BY <1>1, <4>1, SubSeqProperties DEF Run
      <4> HIDE DEF t
      <4> QED BY <4>2 DEF One
    <3>3. Copied(e, j) = Upto(e, i)
      BY <1>1 DEF Copied
    <3> QED BY <3>1, <3>2, <3>3
  <2>5. new.dst = Cat(Cat(Cat(d, Copied(e, n)), Run(s, n, i)), One(e[j]))
    BY <1>1, <1>2, <1>3, <1>6 DEF Cat, One, Run
  <2>6. new.dst = Cat(d, Upto(e, j))
    <3> DEFINE a == Copied(e, n)
               b == Run(s, n, i)
               c == One(e[j])
    <3>1. Sequence(a) /\ Sequence(b) /\ Sequence(c) /\ Sequence(Cat(a, b))
      BY <2>3, TypedSequence, OneTyped, CatTyped
    <3> HIDE DEF a, b, c
    <3>2. Cat(Cat(Cat(d, a), b), c) = Cat(d, Cat(Cat(a, b), c))
      <4>1. Cat(Cat(d, a), b) = Cat(d, Cat(a, b))
        BY <3>1, CatAssociates
      <4>2. Cat(Cat(d, Cat(a, b)), c) = Cat(d, Cat(Cat(a, b), c))
        BY <3>1, CatAssociates
      <4> QED BY <4>1, <4>2
    <3> QED BY <2>3, <2>4, <2>5, <3>2 DEF a, b, c
  <2>7. new.start = j + 1 /\ (j + 1) - 1 = j /\ j + 1 \in 1..j + 1 /\ \A k \in j + 1..j : FALSE
    BY <1>1
  <2>8. new = [dst |-> new.dst, start |-> new.start]
    OBVIOUS
  <2>9. Copied(e, new.start) = Upto(e, j)
    BY <2>7 DEF Copied
  <2> HIDE DEF new
  <2>10. Scanned(new, d, s, j)
    BY <2>6, <2>7, <2>8, <2>9 DEF Scanned, e
  <2> QED BY <2>1, <2>10 DEF j
<1> QED BY <1>5, <1>6

LEMMA StringAppended ==
  ASSUME NEW dst, Sequence(dst), NEW s, Sequence(s)
  PROVE  AppendString(dst, s) = Cat(dst, Str(s)) /\ Sequence(Str(s))
<1> DEFINE N == Len(s)
           e == Written1(s)
           d == Append(dst, "quote")
           b == [dst |-> d, start |-> 1]
           Step(w) == [i \in 0..N |-> IF i = 0 THEN b ELSE EscapeAt(s, w[i - 1], i)]
           F == CHOOSE w : w = Step(w)
<1>1. N \in Nat
  BY SequenceFacts
<1>2. /\ Sequence(e) /\ Len(e) = N
      /\ \A k \in 1..N : e[k] = IF s[k] \in Safe THEN s[k] ELSE Escapes[s[k]]
      /\ Upto(e, N) = e /\ Upto(e, 0) = <<>>
  BY WrittenFacts
<1>3. Sequence(d) /\ d = Cat(dst, One("quote"))
  BY AppendIsCat
<1>4. AppendString(dst, s) = F[N].dst \o SubSeq(s, F[N].start, N) \o <<"quote">>
  BY DEF AppendString
<1> HIDE DEF e, d
<1>5. \E w : w = Step(w)
  <2> DEFINE U == ToSet(d) \cup ToSet(s) \cup ToSet(e)
             S == [dst : Seq(U), start : 1..N + 1]
             G == [i \in 1..N |-> [x \in S |-> EscapeAt(s, x, i)]]
  <2>1. b \in S
    <3>1. d \in Seq(U)
      BY <1>3, SeqMonotonic DEF Sequence
    <3>2. 1 \in 1..N + 1
      BY <1>1
    <3> HIDE DEF U
    <3> QED BY <3>1, <3>2
  <2>2. ASSUME NEW i \in 1..N, NEW x \in S PROVE EscapeAt(s, x, i) \in S
    <3>1. CASE s[i] \in Safe
      BY <3>1 DEF EscapeAt
    <3>2. CASE s[i] \notin Safe
      <4> DEFINE r == SubSeq(s, x.start, i - 1)
                 c == <<Escapes[s[i]]>>
      <4>1. s \in Seq(U)
        BY SeqMonotonic DEF Sequence
      <4>2. r \in Seq(U)
        <5>1. \A k \in x.start..i - 1 : s[k] \in U
          <6>1. \A k \in x.start..i - 1 : k \in 1..N
            BY <1>1
          <6> HIDE DEF U
          <6> QED BY <4>1, <6>1
        <5>2. x.start \in Int /\ i - 1 \in Int
          BY <1>1
        <5> HIDE DEF U
        <5> QED BY <5>1, <5>2, SubSeqProperties
      <4>3. c \in Seq(U)
        <5>1. Escapes[s[i]] \in U
          <6>1. e[i] = Escapes[s[i]] /\ e[i] \in ToSet(e)
            BY <1>2, <3>2, SequenceFacts
          <6> QED BY <6>1
        <5> HIDE DEF U
        <5> QED BY <5>1
      <4>4. x.dst \in Seq(U)
        OBVIOUS
      <4>5. i + 1 \in 1..N + 1
        BY <1>1
      <4> HIDE DEF r, c, U
      <4>6. (x.dst \o r) \o c \in Seq(U)
        BY <4>2, <4>3, <4>4, ConcatProperties
      <4>7. [dst |-> (x.dst \o r) \o c, start |-> i + 1] \in S
        BY <4>5, <4>6
      <4> QED BY <3>2, <4>7 DEF EscapeAt, AfterEscape, r, c
    <3> QED BY <3>1, <3>2
  <2>3. G \in [1..N -> [S -> S]]
    <3> HIDE DEF S
    <3> QED BY <2>2
  <2> HIDE DEF S, G
  <2>4. PICK W : Walks(W, S, N, b, G)
    BY <1>1, <2>1, <2>3, PrefixRecursion
  <2>5. W = [i \in 0..N |-> W[i]]
    BY <2>4 DEF Walks
  <2>6. ASSUME NEW i \in 0..N PROVE W[i] = IF i = 0 THEN b ELSE EscapeAt(s, W[i - 1], i)
    <3>1. CASE i = 0
      BY <2>4, <3>1 DEF Walks
    <3>2. CASE i # 0
      <4>1. i \in 1..N /\ i - 1 \in 0..N
        BY <1>1, <3>2
      <4>2. W[i - 1] \in S /\ W[i] = G[i][W[i - 1]]
        BY <2>4, <4>1 DEF Walks
      <4>3. G[i][W[i - 1]] = EscapeAt(s, W[i - 1], i)
        BY <4>1, <4>2 DEF G
      <4> QED BY <3>2, <4>2, <4>3
    <3> QED BY <3>1, <3>2
  <2>7. W = Step(W)
    <3> HIDE DEF b
    <3> QED BY <2>5, <2>6
  <2> QED BY <2>7
<1>6. F = Step(F)
  <2> HIDE DEF Step
  <2> QED BY <1>5
<1> HIDE DEF F
<1>7. F[0] = b
  <2>1. Step(F)[0] = b
    BY <1>1
  <2> HIDE DEF Step, b
  <2> QED BY <1>6, <2>1
<1>8. ASSUME NEW i \in 0..N - 1 PROVE F[i + 1] = EscapeAt(s, F[i], i + 1)
  <2>1. i + 1 \in 0..N /\ (i + 1) - 1 = i /\ i + 1 # 0
    BY <1>1
  <2>2. Step(F)[i + 1] = EscapeAt(s, F[i], i + 1)
    BY <2>1
  <2> HIDE DEF Step
  <2> QED BY <1>6, <2>2
<1> DEFINE T == {i \in Nat : Scanned(F[i], d, s, i)}
<1>9. 0 \in T
  <2>1. Copied(e, 1) = <<>>
    BY <1>2 DEF Copied
  <2>2. Cat(d, Copied(e, 1)) = d
    BY <1>3, <2>1, CatNothing
  <2>3. Scanned(b, d, s, 0)
    BY <2>2 DEF Scanned, e
  <2> HIDE DEF b
  <2> QED BY <1>7, <2>3
<1>10. ASSUME NEW i \in 0..N - 1, i \in T PROVE i + 1 \in T
  <2>1. i + 1 \in Nat /\ Scanned(F[i], d, s, i)
    BY <1>1, <1>10
  <2>2. Scanned(EscapeAt(s, F[i], i + 1), d, s, i + 1)
    BY <1>3, <2>1, ScanStep
  <2> QED BY <1>8, <2>1, <2>2
<1>11. Scanned(F[N], d, s, N)
  <2>1. \A i \in 0..N : i \in T
    <3> HIDE DEF T
    <3> QED BY <1>1, <1>9, <1>10, PrefixInd
  <2> QED BY <1>1, <2>1
<1> HIDE DEF T, Step
<1> DEFINE n == F[N].start
           q == One("quote")
           h == Copied(e, n)
           r == Run(s, n, N)
<1>12. /\ n \in 1..N + 1 /\ F[N].dst = Cat(d, h) /\ \A k \in n..N : s[k] \in Safe
  BY <1>11 DEF Scanned, e
<1>13. Cat(h, r) = e /\ Sequence(h) /\ Sequence(r)
  <2> DEFINE S == ToSet(e) \cup ToSet(s)
  <2>1. e \in Seq(S) /\ s \in Seq(S)
    BY <1>2, SeqMonotonic DEF Sequence
  <2>2. N \in 0..Len(s) /\ Len(e) = Len(s) /\ \A k \in n..N : s[k] = e[k]
    BY <1>1, <1>2, <1>12
  <2>3. n \in 1..N + 1
    BY <1>12
  <2> HIDE DEF S, n, N
  <2>4. Cat(Copied(e, n), Run(s, n, N)) = Upto(e, N) /\ Copied(e, n) \in Seq(S) /\ Run(s, n, N) \in Seq(S)
    BY <2>1, <2>2, <2>3, RunCopied
  <2> QED BY <1>2, <2>4, TypedSequence
<1>14. Sequence(q)
  BY OneTyped
<1>15. AppendString(dst, s) = Cat(Cat(Cat(Cat(dst, q), h), r), q)
  BY <1>3, <1>4, <1>12 DEF Cat, One, Run
<1>16. Str(s) = Cat(Cat(q, e), q)
  BY DEF Str, Cat, One, e, Written1
<1> HIDE DEF q, h, r
<1>17. Cat(Cat(Cat(Cat(dst, q), h), r), q) = Cat(dst, Cat(Cat(q, e), q))
  <2>1. Sequence(Cat(dst, q)) /\ Sequence(Cat(q, e))
    BY <1>2, <1>14, CatTyped
  <2>2. Cat(Cat(Cat(dst, q), h), r) = Cat(Cat(dst, q), e)
    BY <1>13, <2>1, CatAssociates
  <2>3. Cat(Cat(dst, q), e) = Cat(dst, Cat(q, e))
    BY <1>2, <1>14, CatAssociates
  <2>4. Cat(Cat(dst, Cat(q, e)), q) = Cat(dst, Cat(Cat(q, e), q))
    BY <1>14, <2>1, CatAssociates
  <2> QED BY <2>2, <2>3, <2>4
<1>18. Sequence(Cat(Cat(q, e), q))
  BY <1>2, <1>14, CatTyped
<1> QED BY <1>15, <1>16, <1>17, <1>18

-----------------------------------------------------------------------------
(* Lists.  The argument is the same for every kind of item, and is made    *)
(* once for each: a lemma cannot be about an operator it is given.         *)

\* The two loops agree, whatever brackets are around them.
LEMMA Bracketed ==
  ASSUME NEW dst, Sequence(dst), NEW j, Sequence(j), NEW open, NEW close
  PROVE  /\ Append(Cat(Append(dst, open), j), close) = Cat(dst, Cat(Cat(One(open), j), One(close)))
         /\ Sequence(Cat(Cat(One(open), j), One(close)))
<1> DEFINE o == One(open)
           c == One(close)
<1>1. Sequence(o) /\ Sequence(c) /\ Sequence(Cat(o, j)) /\ Sequence(Cat(Cat(o, j), c)) /\ Sequence(Cat(dst, o))
  BY OneTyped, CatTyped
<1>2. Append(dst, open) = Cat(dst, o)
  BY AppendIsCat
<1>3. Append(Cat(Cat(dst, o), j), close) = Cat(Cat(Cat(dst, o), j), c)
  BY <1>1, CatTyped, AppendIsCat
<1> HIDE DEF o, c
<1>4. Cat(Cat(dst, o), j) = Cat(dst, Cat(o, j))
  BY <1>1, CatAssociates
<1>5. Cat(Cat(dst, Cat(o, j)), c) = Cat(dst, Cat(Cat(o, j), c))
  BY <1>1, CatAssociates
<1> QED BY <1>1, <1>2, <1>3, <1>4, <1>5 DEF o, c

LEMMA StringsAppended ==
  ASSUME NEW dst, Sequence(dst), NEW list, Sequence(list.items),
         \A x \in ToSet(list.items) :
           Sequence(Str(x)) /\ \A d : Sequence(d) => AppendString(d, x) = Cat(d, Str(x))
  PROVE  AppendStrings(dst, list) = Cat(dst, ListOf(list, Str)) /\ Sequence(ListOf(list, Str))
<1> DEFINE items == list.items
           N == Len(items)
           values == [k \in 1..N |-> Str(items[k])]
           start == Append(dst, "[")
           After(w, k) == AppendString(IF k = 1 THEN w[0] ELSE Append(w[k - 1], ","), items[k])
           Step(w) == [k \in 0..N |-> IF k = 0 THEN start ELSE After(w, k)]
           F == CHOOSE w : w = Step(w)
<1>1. /\ N \in Nat /\ DOMAIN items = 1..N /\ Sequence(start)
      /\ \A k \in 1..N : /\ Sequence(Str(items[k]))
                         /\ \A d : Sequence(d) => AppendString(d, items[k]) = Cat(d, Str(items[k]))
  BY SequenceFacts, AppendIsCat
<1>2. CASE list.nil
  <2>1. AppendStrings(dst, list) = Append(dst, "null") /\ ListOf(list, Str) = One("null")
    BY <1>2 DEF AppendStrings, AppendList, ListOf, One
  <2> QED BY <2>1, AppendIsCat, OneTyped
<1>3. CASE ~list.nil
  <2>1. AppendStrings(dst, list) = Append(F[N], "]")
    BY <1>3 DEF AppendStrings, AppendList
  <2>2. ListOf(list, Str) = Cat(Cat(One("["), Joined(values)), One("]"))
    BY <1>1, <1>3 DEF ListOf, Cat, One
  <2>3. /\ Sequence(values) /\ Len(values) = N /\ DOMAIN values = 1..N
        /\ \A k \in 1..N : values[k] = Str(items[k]) /\ Sequence(values[k])
    <3>1. values = [k \in 1..N |-> values[k]] /\ DOMAIN values = 1..N
      OBVIOUS
    <3>2. \A k \in 1..N : values[k] = Str(items[k]) /\ Sequence(values[k])
      BY <1>1
    <3> HIDE DEF values, N
    <3> QED BY <1>1, <3>1, <3>2, SequenceByIndex
  <2> HIDE DEF start, values
  <2>4. PICK W : /\ W = [k \in 0..N |-> W[k]] /\ Turns(W, start, values)
                 /\ W[N] = Cat(start, Joined(values)) /\ \A k \in 0..N : Sequence(W[k])
    BY <1>1, <2>3, ListFunction
  <2>5. W[0] = start /\ 0 \in 0..N
    <3> HIDE DEF N
    <3>1. W[0] = start
      BY <2>4 DEF Turns
    <3> QED BY <1>1, <3>1
  <2>6. ASSUME NEW k \in 1..N
        PROVE  W[k] = AppendString(IF k = 1 THEN W[0] ELSE Append(W[k - 1], ","), items[k])
    <3> DEFINE before == IF k = 1 THEN W[0] ELSE Append(W[k - 1], ",")
    <3>1. k - 1 \in 0..N
      BY <1>1
    <3>2. Sequence(before)
      BY <2>4, <2>5, <3>1, AppendIsCat
    <3>3. W[k] = Cat(before, values[k])
      BY <2>3, <2>4 DEF Turns
    <3> HIDE DEF before
    <3>4. W[k] = AppendString(before, items[k])
      BY <1>1, <2>3, <3>2, <3>3
    <3> QED BY <3>4 DEF before
  <2>7. W = Step(W)
    <3>1. \A k \in 0..N : k = 0 \/ k \in 1..N
      BY <1>1
    <3> QED BY <2>4, <2>5, <2>6, <3>1
  <2>8. F = Step(F)
    <3> HIDE DEF Step
    <3> QED BY <2>7
  <2> HIDE DEF F
  <2> DEFINE T == {k \in Nat : F[k] = W[k]}
  <2>9. 0 \in T
    <3>1. Step(F)[0] = start
      BY <2>5
    <3> HIDE DEF Step
    <3> QED BY <2>5, <2>8, <3>1
  <2>10. ASSUME NEW k \in 0..N - 1, k \in T PROVE k + 1 \in T
    <3>1. k + 1 \in 1..N /\ k + 1 \in 0..N /\ k + 1 # 0 /\ (k + 1) - 1 = k /\ k + 1 \in Nat /\ F[k] = W[k]
      BY <1>1, <2>10
    <3>2. F[0] = W[0]
      BY <2>9
    <3>3. \A i \in 1..N : Step(F)[i] = After(F, i)
      <4> HIDE DEF After, N
      <4> QED BY <1>1
    <3> HIDE DEF Step
    <3>4. F[k + 1] = AppendString(IF k + 1 = 1 THEN W[0] ELSE Append(W[k], ","), items[k + 1])
      BY <2>8, <3>1, <3>2, <3>3
    <3>5. W[k + 1] = AppendString(IF k + 1 = 1 THEN W[0] ELSE Append(W[k], ","), items[k + 1])
      BY <2>6, <3>1
    <3> QED BY <3>1, <3>4, <3>5
  <2>11. F[N] = W[N]
    <3>1. \A k \in 0..N : k \in T
      <4> HIDE DEF T
      <4> QED BY <1>1, <2>9, <2>10, PrefixInd
    <3> QED BY <1>1, <3>1
  <2>12. Sequence(Joined(values))
    BY <2>3, JoinedTyped
  <2> DEFINE J == Joined(values)
  <2> HIDE DEF J
  <2>13. /\ Append(Cat(Append(dst, "["), J), "]") = Cat(dst, Cat(Cat(One("["), J), One("]")))
         /\ Sequence(Cat(Cat(One("["), J), One("]")))
    BY <2>12, Bracketed DEF J
  <2>14. W[N] = Cat(Append(dst, "["), J)
    BY <2>4 DEF start, J
  <2>15. ListOf(list, Str) = Cat(Cat(One("["), J), One("]"))
    BY <2>2 DEF J
  <2> HIDE DEF N
  <2> QED BY <2>1, <2>11, <2>13, <2>14, <2>15
<1> QED BY <1>2, <1>3

LEMMA EntriesAppended ==
  ASSUME NEW dst, Sequence(dst), NEW list, Sequence(list.items),
         \A x \in ToSet(list.items) :
           Sequence(EntryValue(x)) /\ \A d : Sequence(d) => AppendEntry(d, x) = Cat(d, EntryValue(x))
  PROVE  AppendMap(dst, list) = Cat(dst, MapOf(list)) /\ Sequence(MapOf(list))
<1> DEFINE items == list.items
           N == Len(items)
           values == [k \in 1..N |-> EntryValue(items[k])]
           start == Append(dst, "{")
           After(w, k) == AppendEntry(IF k = 1 THEN w[0] ELSE Append(w[k - 1], ","), items[k])
           Step(w) == [k \in 0..N |-> IF k = 0 THEN start ELSE After(w, k)]
           F == CHOOSE w : w = Step(w)
<1>1. /\ N \in Nat /\ DOMAIN items = 1..N /\ Sequence(start)
      /\ \A k \in 1..N : /\ Sequence(EntryValue(items[k]))
                         /\ \A d : Sequence(d) => AppendEntry(d, items[k]) = Cat(d, EntryValue(items[k]))
  BY SequenceFacts, AppendIsCat
<1>2. CASE list.nil
  <2>1. AppendMap(dst, list) = Append(dst, "null") /\ MapOf(list) = One("null")
    BY <1>2 DEF AppendMap, AppendList, MapOf, One
  <2> QED BY <2>1, AppendIsCat, OneTyped
<1>3. CASE ~list.nil
  <2>1. AppendMap(dst, list) = Append(F[N], "}")
    BY <1>3 DEF AppendMap, AppendList
  <2>2. MapOf(list) = Cat(Cat(One("{"), Joined(values)), One("}"))
    BY <1>1, <1>3 DEF MapOf, Cat, One
  <2>3. /\ Sequence(values) /\ Len(values) = N /\ DOMAIN values = 1..N
        /\ \A k \in 1..N : values[k] = EntryValue(items[k]) /\ Sequence(values[k])
    <3>1. values = [k \in 1..N |-> values[k]] /\ DOMAIN values = 1..N
      OBVIOUS
    <3>2. \A k \in 1..N : values[k] = EntryValue(items[k]) /\ Sequence(values[k])
      BY <1>1
    <3> HIDE DEF values, N
    <3> QED BY <1>1, <3>1, <3>2, SequenceByIndex
  <2> HIDE DEF start, values
  <2>4. PICK W : /\ W = [k \in 0..N |-> W[k]] /\ Turns(W, start, values)
                 /\ W[N] = Cat(start, Joined(values)) /\ \A k \in 0..N : Sequence(W[k])
    BY <1>1, <2>3, ListFunction
  <2>5. W[0] = start /\ 0 \in 0..N
    <3> HIDE DEF N
    <3>1. W[0] = start
      BY <2>4 DEF Turns
    <3> QED BY <1>1, <3>1
  <2>6. ASSUME NEW k \in 1..N
        PROVE  W[k] = AppendEntry(IF k = 1 THEN W[0] ELSE Append(W[k - 1], ","), items[k])
    <3> DEFINE before == IF k = 1 THEN W[0] ELSE Append(W[k - 1], ",")
    <3>1. k - 1 \in 0..N
      BY <1>1
    <3>2. Sequence(before)
      BY <2>4, <2>5, <3>1, AppendIsCat
    <3>3. W[k] = Cat(before, values[k])
      BY <2>3, <2>4 DEF Turns
    <3> HIDE DEF before
    <3>4. W[k] = AppendEntry(before, items[k])
      BY <1>1, <2>3, <3>2, <3>3
    <3> QED BY <3>4 DEF before
  <2>7. W = Step(W)
    <3>1. \A k \in 0..N : k = 0 \/ k \in 1..N
      BY <1>1
    <3> QED BY <2>4, <2>5, <2>6, <3>1
  <2>8. F = Step(F)
    <3> HIDE DEF Step
    <3> QED BY <2>7
  <2> HIDE DEF F
  <2> DEFINE T == {k \in Nat : F[k] = W[k]}
  <2>9. 0 \in T
    <3>1. Step(F)[0] = start
      BY <2>5
    <3> HIDE DEF Step
    <3> QED BY <2>5, <2>8, <3>1
  <2>10. ASSUME NEW k \in 0..N - 1, k \in T PROVE k + 1 \in T
    <3>1. k + 1 \in 1..N /\ k + 1 \in 0..N /\ k + 1 # 0 /\ (k + 1) - 1 = k /\ k + 1 \in Nat /\ F[k] = W[k]
      BY <1>1, <2>10
    <3>2. F[0] = W[0]
      BY <2>9
    <3>3. \A i \in 1..N : Step(F)[i] = After(F, i)
      <4> HIDE DEF After, N
      <4> QED BY <1>1
    <3> HIDE DEF Step
    <3>4. F[k + 1] = AppendEntry(IF k + 1 = 1 THEN W[0] ELSE Append(W[k], ","), items[k + 1])
      BY <2>8, <3>1, <3>2, <3>3
    <3>5. W[k + 1] = AppendEntry(IF k + 1 = 1 THEN W[0] ELSE Append(W[k], ","), items[k + 1])
      BY <2>6, <3>1
    <3> QED BY <3>1, <3>4, <3>5
  <2>11. F[N] = W[N]
    <3>1. \A k \in 0..N : k \in T
      <4> HIDE DEF T
      <4> QED BY <1>1, <2>9, <2>10, PrefixInd
    <3> QED BY <1>1, <3>1
  <2>12. Sequence(Joined(values))
    BY <2>3, JoinedTyped
  <2> DEFINE J == Joined(values)
  <2> HIDE DEF J
  <2>13. /\ Append(Cat(Append(dst, "{"), J), "}") = Cat(dst, Cat(Cat(One("{"), J), One("}")))
         /\ Sequence(Cat(Cat(One("{"), J), One("}")))
    BY <2>12, Bracketed DEF J
  <2>14. W[N] = Cat(Append(dst, "{"), J)
    BY <2>4 DEF start, J
  <2>15. MapOf(list) = Cat(Cat(One("{"), J), One("}"))
    BY <2>2 DEF J
  <2> HIDE DEF N
  <2> QED BY <2>1, <2>11, <2>13, <2>14, <2>15
<1> QED BY <1>2, <1>3

LEMMA ParamsAppended ==
  ASSUME NEW dst, Sequence(dst), NEW list, Sequence(list.items),
         \A x \in ToSet(list.items) :
           Sequence(ParamValue(x)) /\ \A d : Sequence(d) => AppendParam(d, x) = Cat(d, ParamValue(x))
  PROVE  AppendList(dst, "[", "]", list, AppendParam) = Cat(dst, ListOf(list, ParamValue)) /\ Sequence(ListOf(list, ParamValue))
<1> DEFINE items == list.items
           N == Len(items)
           values == [k \in 1..N |-> ParamValue(items[k])]
           start == Append(dst, "[")
           After(w, k) == AppendParam(IF k = 1 THEN w[0] ELSE Append(w[k - 1], ","), items[k])
           Step(w) == [k \in 0..N |-> IF k = 0 THEN start ELSE After(w, k)]
           F == CHOOSE w : w = Step(w)
<1>1. /\ N \in Nat /\ DOMAIN items = 1..N /\ Sequence(start)
      /\ \A k \in 1..N : /\ Sequence(ParamValue(items[k]))
                         /\ \A d : Sequence(d) => AppendParam(d, items[k]) = Cat(d, ParamValue(items[k]))
  BY SequenceFacts, AppendIsCat
<1>2. CASE list.nil
  <2>1. AppendList(dst, "[", "]", list, AppendParam) = Append(dst, "null") /\ ListOf(list, ParamValue) = One("null")
    BY <1>2 DEF AppendList, ListOf, One
  <2> QED BY <2>1, AppendIsCat, OneTyped
<1>3. CASE ~list.nil
  <2>1. AppendList(dst, "[", "]", list, AppendParam) = Append(F[N], "]")
    BY <1>3 DEF AppendList
  <2>2. ListOf(list, ParamValue) = Cat(Cat(One("["), Joined(values)), One("]"))
    BY <1>1, <1>3 DEF ListOf, Cat, One
  <2>3. /\ Sequence(values) /\ Len(values) = N /\ DOMAIN values = 1..N
        /\ \A k \in 1..N : values[k] = ParamValue(items[k]) /\ Sequence(values[k])
    <3>1. values = [k \in 1..N |-> values[k]] /\ DOMAIN values = 1..N
      OBVIOUS
    <3>2. \A k \in 1..N : values[k] = ParamValue(items[k]) /\ Sequence(values[k])
      BY <1>1
    <3> HIDE DEF values, N
    <3> QED BY <1>1, <3>1, <3>2, SequenceByIndex
  <2> HIDE DEF start, values
  <2>4. PICK W : /\ W = [k \in 0..N |-> W[k]] /\ Turns(W, start, values)
                 /\ W[N] = Cat(start, Joined(values)) /\ \A k \in 0..N : Sequence(W[k])
    BY <1>1, <2>3, ListFunction
  <2>5. W[0] = start /\ 0 \in 0..N
    <3> HIDE DEF N
    <3>1. W[0] = start
      BY <2>4 DEF Turns
    <3> QED BY <1>1, <3>1
  <2>6. ASSUME NEW k \in 1..N
        PROVE  W[k] = AppendParam(IF k = 1 THEN W[0] ELSE Append(W[k - 1], ","), items[k])
    <3> DEFINE before == IF k = 1 THEN W[0] ELSE Append(W[k - 1], ",")
    <3>1. k - 1 \in 0..N
      BY <1>1
    <3>2. Sequence(before)
      BY <2>4, <2>5, <3>1, AppendIsCat
    <3>3. W[k] = Cat(before, values[k])
      BY <2>3, <2>4 DEF Turns
    <3> HIDE DEF before
    <3>4. W[k] = AppendParam(before, items[k])
      BY <1>1, <2>3, <3>2, <3>3
    <3> QED BY <3>4 DEF before
  <2>7. W = Step(W)
    <3>1. \A k \in 0..N : k = 0 \/ k \in 1..N
      BY <1>1
    <3> QED BY <2>4, <2>5, <2>6, <3>1
  <2>8. F = Step(F)
    <3> HIDE DEF Step
    <3> QED BY <2>7
  <2> HIDE DEF F
  <2> DEFINE T == {k \in Nat : F[k] = W[k]}
  <2>9. 0 \in T
    <3>1. Step(F)[0] = start
      BY <2>5
    <3> HIDE DEF Step
    <3> QED BY <2>5, <2>8, <3>1
  <2>10. ASSUME NEW k \in 0..N - 1, k \in T PROVE k + 1 \in T
    <3>1. k + 1 \in 1..N /\ k + 1 \in 0..N /\ k + 1 # 0 /\ (k + 1) - 1 = k /\ k + 1 \in Nat /\ F[k] = W[k]
      BY <1>1, <2>10
    <3>2. F[0] = W[0]
      BY <2>9
    <3>3. \A i \in 1..N : Step(F)[i] = After(F, i)
      <4> HIDE DEF After, N
      <4> QED BY <1>1
    <3> HIDE DEF Step
    <3>4. F[k + 1] = AppendParam(IF k + 1 = 1 THEN W[0] ELSE Append(W[k], ","), items[k + 1])
      BY <2>8, <3>1, <3>2, <3>3
    <3>5. W[k + 1] = AppendParam(IF k + 1 = 1 THEN W[0] ELSE Append(W[k], ","), items[k + 1])
      BY <2>6, <3>1
    <3> QED BY <3>1, <3>4, <3>5
  <2>11. F[N] = W[N]
    <3>1. \A k \in 0..N : k \in T
      <4> HIDE DEF T
      <4> QED BY <1>1, <2>9, <2>10, PrefixInd
    <3> QED BY <1>1, <3>1
  <2>12. Sequence(Joined(values))
    BY <2>3, JoinedTyped
  <2> DEFINE J == Joined(values)
  <2> HIDE DEF J
  <2>13. /\ Append(Cat(Append(dst, "["), J), "]") = Cat(dst, Cat(Cat(One("["), J), One("]")))
         /\ Sequence(Cat(Cat(One("["), J), One("]")))
    BY <2>12, Bracketed DEF J
  <2>14. W[N] = Cat(Append(dst, "["), J)
    BY <2>4 DEF start, J
  <2>15. ListOf(list, ParamValue) = Cat(Cat(One("["), J), One("]"))
    BY <2>2 DEF J
  <2> HIDE DEF N
  <2> QED BY <2>1, <2>11, <2>13, <2>14, <2>15
<1> QED BY <1>2, <1>3

LEMMA HopsAppended ==
  ASSUME NEW dst, Sequence(dst), NEW list, Sequence(list.items),
         \A x \in ToSet(list.items) :
           Sequence(HopValue(x)) /\ \A d : Sequence(d) => AppendHop(d, x) = Cat(d, HopValue(x))
  PROVE  AppendList(dst, "[", "]", list, AppendHop) = Cat(dst, ListOf(list, HopValue)) /\ Sequence(ListOf(list, HopValue))
<1> DEFINE items == list.items
           N == Len(items)
           values == [k \in 1..N |-> HopValue(items[k])]
           start == Append(dst, "[")
           After(w, k) == AppendHop(IF k = 1 THEN w[0] ELSE Append(w[k - 1], ","), items[k])
           Step(w) == [k \in 0..N |-> IF k = 0 THEN start ELSE After(w, k)]
           F == CHOOSE w : w = Step(w)
<1>1. /\ N \in Nat /\ DOMAIN items = 1..N /\ Sequence(start)
      /\ \A k \in 1..N : /\ Sequence(HopValue(items[k]))
                         /\ \A d : Sequence(d) => AppendHop(d, items[k]) = Cat(d, HopValue(items[k]))
  BY SequenceFacts, AppendIsCat
<1>2. CASE list.nil
  <2>1. AppendList(dst, "[", "]", list, AppendHop) = Append(dst, "null") /\ ListOf(list, HopValue) = One("null")
    BY <1>2 DEF AppendList, ListOf, One
  <2> QED BY <2>1, AppendIsCat, OneTyped
<1>3. CASE ~list.nil
  <2>1. AppendList(dst, "[", "]", list, AppendHop) = Append(F[N], "]")
    BY <1>3 DEF AppendList
  <2>2. ListOf(list, HopValue) = Cat(Cat(One("["), Joined(values)), One("]"))
    BY <1>1, <1>3 DEF ListOf, Cat, One
  <2>3. /\ Sequence(values) /\ Len(values) = N /\ DOMAIN values = 1..N
        /\ \A k \in 1..N : values[k] = HopValue(items[k]) /\ Sequence(values[k])
    <3>1. values = [k \in 1..N |-> values[k]] /\ DOMAIN values = 1..N
      OBVIOUS
    <3>2. \A k \in 1..N : values[k] = HopValue(items[k]) /\ Sequence(values[k])
      BY <1>1
    <3> HIDE DEF values, N
    <3> QED BY <1>1, <3>1, <3>2, SequenceByIndex
  <2> HIDE DEF start, values
  <2>4. PICK W : /\ W = [k \in 0..N |-> W[k]] /\ Turns(W, start, values)
                 /\ W[N] = Cat(start, Joined(values)) /\ \A k \in 0..N : Sequence(W[k])
    BY <1>1, <2>3, ListFunction
  <2>5. W[0] = start /\ 0 \in 0..N
    <3> HIDE DEF N
    <3>1. W[0] = start
      BY <2>4 DEF Turns
    <3> QED BY <1>1, <3>1
  <2>6. ASSUME NEW k \in 1..N
        PROVE  W[k] = AppendHop(IF k = 1 THEN W[0] ELSE Append(W[k - 1], ","), items[k])
    <3> DEFINE before == IF k = 1 THEN W[0] ELSE Append(W[k - 1], ",")
    <3>1. k - 1 \in 0..N
      BY <1>1
    <3>2. Sequence(before)
      BY <2>4, <2>5, <3>1, AppendIsCat
    <3>3. W[k] = Cat(before, values[k])
      BY <2>3, <2>4 DEF Turns
    <3> HIDE DEF before
    <3>4. W[k] = AppendHop(before, items[k])
      BY <1>1, <2>3, <3>2, <3>3
    <3> QED BY <3>4 DEF before
  <2>7. W = Step(W)
    <3>1. \A k \in 0..N : k = 0 \/ k \in 1..N
      BY <1>1
    <3> QED BY <2>4, <2>5, <2>6, <3>1
  <2>8. F = Step(F)
    <3> HIDE DEF Step
    <3> QED BY <2>7
  <2> HIDE DEF F
  <2> DEFINE T == {k \in Nat : F[k] = W[k]}
  <2>9. 0 \in T
    <3>1. Step(F)[0] = start
      BY <2>5
    <3> HIDE DEF Step
    <3> QED BY <2>5, <2>8, <3>1
  <2>10. ASSUME NEW k \in 0..N - 1, k \in T PROVE k + 1 \in T
    <3>1. k + 1 \in 1..N /\ k + 1 \in 0..N /\ k + 1 # 0 /\ (k + 1) - 1 = k /\ k + 1 \in Nat /\ F[k] = W[k]
      BY <1>1, <2>10
    <3>2. F[0] = W[0]
      BY <2>9
    <3>3. \A i \in 1..N : Step(F)[i] = After(F, i)
      <4> HIDE DEF After, N
      <4> QED BY <1>1
    <3> HIDE DEF Step
    <3>4. F[k + 1] = AppendHop(IF k + 1 = 1 THEN W[0] ELSE Append(W[k], ","), items[k + 1])
      BY <2>8, <3>1, <3>2, <3>3
    <3>5. W[k + 1] = AppendHop(IF k + 1 = 1 THEN W[0] ELSE Append(W[k], ","), items[k + 1])
      BY <2>6, <3>1
    <3> QED BY <3>1, <3>4, <3>5
  <2>11. F[N] = W[N]
    <3>1. \A k \in 0..N : k \in T
      <4> HIDE DEF T
      <4> QED BY <1>1, <2>9, <2>10, PrefixInd
    <3> QED BY <1>1, <3>1
  <2>12. Sequence(Joined(values))
    BY <2>3, JoinedTyped
  <2> DEFINE J == Joined(values)
  <2> HIDE DEF J
  <2>13. /\ Append(Cat(Append(dst, "["), J), "]") = Cat(dst, Cat(Cat(One("["), J), One("]")))
         /\ Sequence(Cat(Cat(One("["), J), One("]")))
    BY <2>12, Bracketed DEF J
  <2>14. W[N] = Cat(Append(dst, "["), J)
    BY <2>4 DEF start, J
  <2>15. ListOf(list, HopValue) = Cat(Cat(One("["), J), One("]"))
    BY <2>2 DEF J
  <2> HIDE DEF N
  <2> QED BY <2>1, <2>11, <2>13, <2>14, <2>15
<1> QED BY <1>2, <1>3

LEMMA DiscoveriesAppended ==
  ASSUME NEW dst, Sequence(dst), NEW list, Sequence(list.items),
         \A x \in ToSet(list.items) :
           Sequence(DiscoveryValue(x)) /\ \A d : Sequence(d) => AppendDiscovery(d, x) = Cat(d, DiscoveryValue(x))
  PROVE  AppendList(dst, "[", "]", list, AppendDiscovery) = Cat(dst, ListOf(list, DiscoveryValue)) /\ Sequence(ListOf(list, DiscoveryValue))
<1> DEFINE items == list.items
           N == Len(items)
           values == [k \in 1..N |-> DiscoveryValue(items[k])]
           start == Append(dst, "[")
           After(w, k) == AppendDiscovery(IF k = 1 THEN w[0] ELSE Append(w[k - 1], ","), items[k])
           Step(w) == [k \in 0..N |-> IF k = 0 THEN start ELSE After(w, k)]
           F == CHOOSE w : w = Step(w)
<1>1. /\ N \in Nat /\ DOMAIN items = 1..N /\ Sequence(start)
      /\ \A k \in 1..N : /\ Sequence(DiscoveryValue(items[k]))
                         /\ \A d : Sequence(d) => AppendDiscovery(d, items[k]) = Cat(d, DiscoveryValue(items[k]))
  BY SequenceFacts, AppendIsCat
<1>2. CASE list.nil
  <2>1. AppendList(dst, "[", "]", list, AppendDiscovery) = Append(dst, "null") /\ ListOf(list, DiscoveryValue) = One("null")
    BY <1>2 DEF AppendList, ListOf, One
  <2> QED BY <2>1, AppendIsCat, OneTyped
<1>3. CASE ~list.nil
  <2>1. AppendList(dst, "[", "]", list, AppendDiscovery) = Append(F[N], "]")
    BY <1>3 DEF AppendList
  <2>2. ListOf(list, DiscoveryValue) = Cat(Cat(One("["), Joined(values)), One("]"))
    BY <1>1, <1>3 DEF ListOf, Cat, One
  <2>3. /\ Sequence(values) /\ Len(values) = N /\ DOMAIN values = 1..N
        /\ \A k \in 1..N : values[k] = DiscoveryValue(items[k]) /\ Sequence(values[k])
    <3>1. values = [k \in 1..N |-> values[k]] /\ DOMAIN values = 1..N
      OBVIOUS
    <3>2. \A k \in 1..N : values[k] = DiscoveryValue(items[k]) /\ Sequence(values[k])
      BY <1>1
    <3> HIDE DEF values, N
    <3> QED BY <1>1, <3>1, <3>2, SequenceByIndex
  <2> HIDE DEF start, values
  <2>4. PICK W : /\ W = [k \in 0..N |-> W[k]] /\ Turns(W, start, values)
                 /\ W[N] = Cat(start, Joined(values)) /\ \A k \in 0..N : Sequence(W[k])
    BY <1>1, <2>3, ListFunction
  <2>5. W[0] = start /\ 0 \in 0..N
    <3> HIDE DEF N
    <3>1. W[0] = start
      BY <2>4 DEF Turns
    <3> QED BY <1>1, <3>1
  <2>6. ASSUME NEW k \in 1..N
        PROVE  W[k] = AppendDiscovery(IF k = 1 THEN W[0] ELSE Append(W[k - 1], ","), items[k])
    <3> DEFINE before == IF k = 1 THEN W[0] ELSE Append(W[k - 1], ",")
    <3>1. k - 1 \in 0..N
      BY <1>1
    <3>2. Sequence(before)
      BY <2>4, <2>5, <3>1, AppendIsCat
    <3>3. W[k] = Cat(before, values[k])
      BY <2>3, <2>4 DEF Turns
    <3> HIDE DEF before
    <3>4. W[k] = AppendDiscovery(before, items[k])
      BY <1>1, <2>3, <3>2, <3>3
    <3> QED BY <3>4 DEF before
  <2>7. W = Step(W)
    <3>1. \A k \in 0..N : k = 0 \/ k \in 1..N
      BY <1>1
    <3> QED BY <2>4, <2>5, <2>6, <3>1
  <2>8. F = Step(F)
    <3> HIDE DEF Step
    <3> QED BY <2>7
  <2> HIDE DEF F
  <2> DEFINE T == {k \in Nat : F[k] = W[k]}
  <2>9. 0 \in T
    <3>1. Step(F)[0] = start
      BY <2>5
    <3> HIDE DEF Step
    <3> QED BY <2>5, <2>8, <3>1
  <2>10. ASSUME NEW k \in 0..N - 1, k \in T PROVE k + 1 \in T
    <3>1. k + 1 \in 1..N /\ k + 1 \in 0..N /\ k + 1 # 0 /\ (k + 1) - 1 = k /\ k + 1 \in Nat /\ F[k] = W[k]
      BY <1>1, <2>10
    <3>2. F[0] = W[0]
      BY <2>9
    <3>3. \A i \in 1..N : Step(F)[i] = After(F, i)
      <4> HIDE DEF After, N
      <4> QED BY <1>1
    <3> HIDE DEF Step
    <3>4. F[k + 1] = AppendDiscovery(IF k + 1 = 1 THEN W[0] ELSE Append(W[k], ","), items[k + 1])
      BY <2>8, <3>1, <3>2, <3>3
    <3>5. W[k + 1] = AppendDiscovery(IF k + 1 = 1 THEN W[0] ELSE Append(W[k], ","), items[k + 1])
      BY <2>6, <3>1
    <3> QED BY <3>1, <3>4, <3>5
  <2>11. F[N] = W[N]
    <3>1. \A k \in 0..N : k \in T
      <4> HIDE DEF T
      <4> QED BY <1>1, <2>9, <2>10, PrefixInd
    <3> QED BY <1>1, <3>1
  <2>12. Sequence(Joined(values))
    BY <2>3, JoinedTyped
  <2> DEFINE J == Joined(values)
  <2> HIDE DEF J
  <2>13. /\ Append(Cat(Append(dst, "["), J), "]") = Cat(dst, Cat(Cat(One("["), J), One("]")))
         /\ Sequence(Cat(Cat(One("["), J), One("]")))
    BY <2>12, Bracketed DEF J
  <2>14. W[N] = Cat(Append(dst, "["), J)
    BY <2>4 DEF start, J
  <2>15. ListOf(list, DiscoveryValue) = Cat(Cat(One("["), J), One("]"))
    BY <2>2 DEF J
  <2> HIDE DEF N
  <2> QED BY <2>1, <2>11, <2>13, <2>14, <2>15
<1> QED BY <1>2, <1>3

LEMMA EndpointsAppended ==
  ASSUME NEW dst, Sequence(dst), NEW list, Sequence(list.items),
         \A x \in ToSet(list.items) :
           Sequence(EndpointValue(x)) /\ \A d : Sequence(d) => AppendEndpoint(d, x) = Cat(d, EndpointValue(x))
  PROVE  AppendList(dst, "[", "]", list, AppendEndpoint) = Cat(dst, ListOf(list, EndpointValue)) /\ Sequence(ListOf(list, EndpointValue))
<1> DEFINE items == list.items
           N == Len(items)
           values == [k \in 1..N |-> EndpointValue(items[k])]
           start == Append(dst, "[")
           After(w, k) == AppendEndpoint(IF k = 1 THEN w[0] ELSE Append(w[k - 1], ","), items[k])
           Step(w) == [k \in 0..N |-> IF k = 0 THEN start ELSE After(w, k)]
           F == CHOOSE w : w = Step(w)
<1>1. /\ N \in Nat /\ DOMAIN items = 1..N /\ Sequence(start)
      /\ \A k \in 1..N : /\ Sequence(EndpointValue(items[k]))
                         /\ \A d : Sequence(d) => AppendEndpoint(d, items[k]) = Cat(d, EndpointValue(items[k]))
  BY SequenceFacts, AppendIsCat
<1>2. CASE list.nil
  <2>1. AppendList(dst, "[", "]", list, AppendEndpoint) = Append(dst, "null") /\ ListOf(list, EndpointValue) = One("null")
    BY <1>2 DEF AppendList, ListOf, One
  <2> QED BY <2>1, AppendIsCat, OneTyped
<1>3. CASE ~list.nil
  <2>1. AppendList(dst, "[", "]", list, AppendEndpoint) = Append(F[N], "]")
    BY <1>3 DEF AppendList
  <2>2. ListOf(list, EndpointValue) = Cat(Cat(One("["), Joined(values)), One("]"))
    BY <1>1, <1>3 DEF ListOf, Cat, One
  <2>3. /\ Sequence(values) /\ Len(values) = N /\ DOMAIN values = 1..N
        /\ \A k \in 1..N : values[k] = EndpointValue(items[k]) /\ Sequence(values[k])
    <3>1. values = [k \in 1..N |-> values[k]] /\ DOMAIN values = 1..N
      OBVIOUS
    <3>2. \A k \in 1..N : values[k] = EndpointValue(items[k]) /\ Sequence(values[k])
      BY <1>1
    <3> HIDE DEF values, N
    <3> QED BY <1>1, <3>1, <3>2, SequenceByIndex
  <2> HIDE DEF start, values
  <2>4. PICK W : /\ W = [k \in 0..N |-> W[k]] /\ Turns(W, start, values)
                 /\ W[N] = Cat(start, Joined(values)) /\ \A k \in 0..N : Sequence(W[k])
    BY <1>1, <2>3, ListFunction
  <2>5. W[0] = start /\ 0 \in 0..N
    <3> HIDE DEF N
    <3>1. W[0] = start
      BY <2>4 DEF Turns
    <3> QED BY <1>1, <3>1
  <2>6. ASSUME NEW k \in 1..N
        PROVE  W[k] = AppendEndpoint(IF k = 1 THEN W[0] ELSE Append(W[k - 1], ","), items[k])
    <3> DEFINE before == IF k = 1 THEN W[0] ELSE Append(W[k - 1], ",")
    <3>1. k - 1 \in 0..N
      BY <1>1
    <3>2. Sequence(before)
      BY <2>4, <2>5, <3>1, AppendIsCat
    <3>3. W[k] = Cat(before, values[k])
      BY <2>3, <2>4 DEF Turns
    <3> HIDE DEF before
    <3>4. W[k] = AppendEndpoint(before, items[k])
      BY <1>1, <2>3, <3>2, <3>3
    <3> QED BY <3>4 DEF before
  <2>7. W = Step(W)
    <3>1. \A k \in 0..N : k = 0 \/ k \in 1..N
      BY <1>1
    <3> QED BY <2>4, <2>5, <2>6, <3>1
  <2>8. F = Step(F)
    <3> HIDE DEF Step
    <3> QED BY <2>7
  <2> HIDE DEF F
  <2> DEFINE T == {k \in Nat : F[k] = W[k]}
  <2>9. 0 \in T
    <3>1. Step(F)[0] = start
      BY <2>5
    <3> HIDE DEF Step
    <3> QED BY <2>5, <2>8, <3>1
  <2>10. ASSUME NEW k \in 0..N - 1, k \in T PROVE k + 1 \in T
    <3>1. k + 1 \in 1..N /\ k + 1 \in 0..N /\ k + 1 # 0 /\ (k + 1) - 1 = k /\ k + 1 \in Nat /\ F[k] = W[k]
      BY <1>1, <2>10
    <3>2. F[0] = W[0]
      BY <2>9
    <3>3. \A i \in 1..N : Step(F)[i] = After(F, i)
      <4> HIDE DEF After, N
      <4> QED BY <1>1
    <3> HIDE DEF Step
    <3>4. F[k + 1] = AppendEndpoint(IF k + 1 = 1 THEN W[0] ELSE Append(W[k], ","), items[k + 1])
      BY <2>8, <3>1, <3>2, <3>3
    <3>5. W[k + 1] = AppendEndpoint(IF k + 1 = 1 THEN W[0] ELSE Append(W[k], ","), items[k + 1])
      BY <2>6, <3>1
    <3> QED BY <3>1, <3>4, <3>5
  <2>11. F[N] = W[N]
    <3>1. \A k \in 0..N : k \in T
      <4> HIDE DEF T
      <4> QED BY <1>1, <2>9, <2>10, PrefixInd
    <3> QED BY <1>1, <3>1
  <2>12. Sequence(Joined(values))
    BY <2>3, JoinedTyped
  <2> DEFINE J == Joined(values)
  <2> HIDE DEF J
  <2>13. /\ Append(Cat(Append(dst, "["), J), "]") = Cat(dst, Cat(Cat(One("["), J), One("]")))
         /\ Sequence(Cat(Cat(One("["), J), One("]")))
    BY <2>12, Bracketed DEF J
  <2>14. W[N] = Cat(Append(dst, "["), J)
    BY <2>4 DEF start, J
  <2>15. ListOf(list, EndpointValue) = Cat(Cat(One("["), J), One("]"))
    BY <2>2 DEF J
  <2> HIDE DEF N
  <2> QED BY <2>1, <2>11, <2>13, <2>14, <2>15
<1> QED BY <1>2, <1>3

-----------------------------------------------------------------------------
(* Objects.  What is written after some of the fields is an object that    *)
(* still misses its closing brace.                                         *)

Opened(dst, key) == dst \o <<"{", key>>
Comma(dst, key) == dst \o <<",", key>>
Closed(dst) == dst \o <<"}">>
And(members, more) == members \o more

Members(members) == Sequence(members) /\ \A i \in DOMAIN members : Sequence(members[i])
Unclosed(dst, members) == Cat(dst, Cat(One("{"), Joined(members)))
Begun(dst, members) == Sequence(dst) /\ Members(members) /\ members # <<>>

LEMMA TwoTokens == ASSUME NEW a, NEW b PROVE <<a, b>> = Cat(One(a), One(b))
<1>1. Append(<<a>>, b) = <<a, b>>
  <2> DEFINE S == {a, b}
             s == Append(<<a>>, b)
             t == <<a, b>>
  <2>1. <<a>> \in Seq(S) /\ b \in S /\ Len(<<a>>) = 1 /\ <<a>>[1] = a
    OBVIOUS
  <2>2. s \in Seq(S) /\ Len(s) = 2 /\ s[1] = a /\ s[2] = b
    <3> HIDE DEF S
    <3> QED BY <2>1, AppendProperties
  <2>3. t \in Seq(S) /\ Len(t) = 2 /\ t[1] = a /\ t[2] = b
    OBVIOUS
  <2>4. \A i \in 1..2 : i = 1 \/ i = 2
    OBVIOUS
  <2> HIDE DEF S, s, t
  <2>5. s = t
    BY <2>2, <2>3, <2>4, SeqEqual
  <2> QED BY <2>5 DEF s, t
<1>2. Append(One(a), b) = Cat(One(a), One(b))
  BY OneTyped, AppendIsCat
<1> QED BY <1>1, <1>2 DEF One

LEMMA UnclosedTyped ==
  ASSUME NEW dst, NEW m, Begun(dst, m)
  PROVE  Sequence(Unclosed(dst, m))
<1>1. Sequence(dst) /\ Sequence(Joined(m)) /\ Sequence(One("{"))
  BY JoinedTyped, OneTyped DEF Begun, Members
<1> DEFINE j == Joined(m)
<1> HIDE DEF j
<1>2. Sequence(Cat(One("{"), j))
  BY <1>1, CatTyped DEF j
<1>3. Sequence(Cat(dst, Cat(One("{"), j)))
  BY <1>1, <1>2, CatTyped
<1> QED BY <1>3 DEF Unclosed, j

LEMMA AlwaysTyped ==
  ASSUME NEW key, NEW value, Sequence(value)
  PROVE  /\ Always(key, value) = One(Cat(One(key), value)) /\ Sequence(Cat(One(key), value))
         /\ Members(Always(key, value)) /\ Always(key, value) # <<>>
<1> DEFINE v == Cat(One(key), value)
<1>1. Always(key, value) = One(v)
  BY DEF Always, One, Cat
<1>2. Sequence(v)
  BY OneTyped, CatTyped
<1> HIDE DEF v
<1>3. Sequence(One(v)) /\ One(v) # <<>> /\ DOMAIN One(v) = {1} /\ One(v)[1] = v
  BY OneTyped DEF One
<1>4. Members(One(v)) /\ One(v) # <<>>
  BY <1>2, <1>3 DEF Members
<1> QED BY <1>1, <1>2, <1>4 DEF v

LEMMA FirstField ==
  ASSUME NEW dst, Sequence(dst), NEW key, NEW value, Sequence(value)
  PROVE  /\ Cat(Opened(dst, key), value) = Unclosed(dst, Always(key, value)) /\ Sequence(Opened(dst, key))
         /\ Begun(dst, Always(key, value))
<1> DEFINE m == Always(key, value)
           o == One("{")
           k == One(key)
           v == Cat(k, value)
<1>1. /\ Members(m) /\ m # <<>> /\ m = One(v) /\ Sequence(v)
  BY AlwaysTyped
<1>2. Sequence(o) /\ Sequence(k)
  BY OneTyped
<1>3. Opened(dst, key) = Cat(dst, Cat(o, k))
  BY TwoTokens DEF Opened, Cat
<1>4. Joined(m) = v
  <2>1. Joined(Cat(<<>>, One(v))) = v
    <3> HIDE DEF v
    <3>1. Sequence(<<>>) /\ \A i \in DOMAIN <<>> : Sequence(<<>>[i])
      BY OneTyped
    <3>2. Joined(Cat(<<>>, One(v))) = IF <<>> = <<>> THEN v ELSE Cat(Joined(<<>>), Cat(One(","), v))
      BY <1>1, <3>1, JoinedAppend
    <3> QED BY <3>2
  <2>2. Sequence(One(v))
    BY OneTyped
  <2>3. Cat(<<>>, One(v)) = One(v)
    <3> HIDE DEF v
    <3> QED BY <2>2, CatNothing
  <2> HIDE DEF v, m
  <2> QED BY <1>1, <2>1, <2>3
<1> HIDE DEF o, k, m
<1>5. Sequence(Cat(o, k)) /\ Sequence(Cat(dst, Cat(o, k)))
  BY <1>2, CatTyped
<1>6. Cat(Cat(dst, Cat(o, k)), value) = Cat(dst, Cat(Cat(o, k), value))
  BY <1>5, CatAssociates
<1>7. Cat(Cat(o, k), value) = Cat(o, v)
  BY <1>2, CatAssociates
<1>8. Unclosed(dst, m) = Cat(dst, Cat(o, v))
  BY <1>4 DEF Unclosed, o
<1> HIDE DEF v
<1>9. Cat(Opened(dst, key), value) = Unclosed(dst, m) /\ Sequence(Opened(dst, key)) /\ Begun(dst, m)
  BY <1>1, <1>3, <1>5, <1>6, <1>7, <1>8 DEF Begun
<1> QED BY <1>9 DEF m

LEMMA NextField ==
  ASSUME NEW dst, NEW m, Begun(dst, m), NEW key, NEW value, Sequence(value)
  PROVE  /\ Cat(Comma(Unclosed(dst, m), key), value) = Unclosed(dst, And(m, Always(key, value)))
         /\ Sequence(Comma(Unclosed(dst, m), key)) /\ Begun(dst, And(m, Always(key, value)))
<1> DEFINE t == Unclosed(dst, m)
           o == One("{")
           c == One(",")
           k == One(key)
           v == Cat(k, value)
           j == Joined(m)
           more == And(m, Always(key, value))
<1>1. Sequence(dst) /\ Sequence(m) /\ (\A i \in DOMAIN m : Sequence(m[i])) /\ m # <<>>
  BY DEF Begun, Members
<1>2. Always(key, value) = One(v) /\ Sequence(v)
  BY AlwaysTyped
<1>3. Sequence(o) /\ Sequence(c) /\ Sequence(k)
  BY OneTyped
<1>4. Sequence(j)
  BY <1>1, JoinedTyped
<1>5. Comma(t, key) = Cat(t, Cat(c, k))
  BY TwoTokens DEF Comma, Cat
<1>6. more = Cat(m, One(v))
  BY <1>2 DEF And, Cat
<1>7. t = Cat(dst, Cat(o, j)) /\ Sequence(t)
  BY UnclosedTyped DEF Unclosed
<1>8. Unclosed(dst, more) = Cat(dst, Cat(o, Joined(more)))
  BY DEF Unclosed
<1> HIDE DEF o, c, k, j, t
<1>9. Sequence(Cat(c, k)) /\ Sequence(Cat(t, Cat(c, k))) /\ Sequence(Cat(o, j)) /\ Sequence(Cat(c, v))
  <2>1. Sequence(Cat(c, k)) /\ Sequence(Cat(o, j))
    BY <1>3, <1>4, CatTyped
  <2>2. Sequence(Cat(t, Cat(c, k)))
    BY <1>7, <2>1, CatTyped
  <2> HIDE DEF v
  <2> QED BY <1>2, <1>3, <2>1, <2>2, CatTyped
<1>10. Cat(Cat(t, Cat(c, k)), value) = Cat(t, Cat(c, v))
  <2>1. Cat(Cat(t, Cat(c, k)), value) = Cat(t, Cat(Cat(c, k), value))
    BY <1>7, <1>9, CatAssociates
  <2>2. Cat(Cat(c, k), value) = Cat(c, v)
    BY <1>3, CatAssociates
  <2> QED BY <2>1, <2>2
<1> HIDE DEF v
<1>11. Joined(Cat(m, One(v))) = Cat(j, Cat(c, v))
  BY <1>1, <1>2, JoinedAppend DEF j, c
<1>12. Cat(t, Cat(c, v)) = Cat(dst, Cat(o, Cat(j, Cat(c, v))))
  <2> DEFINE w == Cat(c, v)
             oj == Cat(o, j)
  <2>1. Sequence(w) /\ Sequence(oj) /\ t = Cat(dst, oj)
    BY <1>7, <1>9
  <2>2. Cat(oj, w) = Cat(o, Cat(j, w))
    <3> HIDE DEF w
    <3> QED BY <1>3, <1>4, <2>1, CatAssociates
  <2> HIDE DEF w, oj
  <2>3. Cat(Cat(dst, oj), w) = Cat(dst, Cat(oj, w))
    BY <1>1, <2>1, CatAssociates
  <2>4. Cat(t, w) = Cat(dst, Cat(o, Cat(j, w)))
    BY <2>1, <2>2, <2>3
  <2> QED BY <2>4 DEF w
<1>13. Members(Cat(m, One(v))) /\ Cat(m, One(v)) # <<>>
  <2> DEFINE N == Len(m)
             x == Cat(m, One(v))
  <2>1. N \in Nat /\ DOMAIN m = 1..N
    BY <1>1, SequenceFacts
  <2>2. m \in Seq(ToSet(m) \cup {v}) /\ One(v) \in Seq(ToSet(m) \cup {v})
    BY <1>1, SeqMonotonic DEF Sequence, One
  <2>3. Len(x) = N + 1 /\ x[N + 1] = v /\ (\A i \in 1..N : x[i] = m[i]) /\ DOMAIN x = 1..N + 1
    BY <2>1, <2>2 DEF Cat, One
  <2>4. Sequence(x)
    BY <1>1, OneTyped, CatTyped
  <2> HIDE DEF x
  <2>5. x # <<>>
    BY <2>1, <2>3
  <2>6. \A i \in DOMAIN x : Sequence(x[i])
    <3> HIDE DEF N
    <3>1. \A i \in 1..N + 1 : i \in 1..N \/ i = N + 1
      BY <2>1
    <3> QED BY <1>1, <1>2, <2>1, <2>3, <3>1
  <2>7. Members(x) /\ x # <<>>
    BY <2>4, <2>5, <2>6 DEF Members
  <2> QED BY <2>7 DEF x
<1> HIDE DEF more
<1>14. Cat(Comma(t, key), value) = Unclosed(dst, more) /\ Sequence(Comma(t, key)) /\ Begun(dst, more)
  BY <1>1, <1>5, <1>6, <1>8, <1>9, <1>10, <1>11, <1>12, <1>13 DEF Begun
<1> QED BY <1>14 DEF more, t

\* A field that may be left out.
LEMMA OptionalField ==
  ASSUME NEW dst, NEW m, Begun(dst, m), NEW key, NEW value, Sequence(value), NEW empty \in BOOLEAN
  PROVE  /\ AppendField(Unclosed(dst, m), key, ~empty, value) = Unclosed(dst, And(m, OmitEmpty(key, empty, value)))
         /\ Begun(dst, And(m, OmitEmpty(key, empty, value)))
<1> DEFINE t == Unclosed(dst, m)
<1>1. CASE empty
  <2>1. AppendField(t, key, ~empty, value) = t /\ OmitEmpty(key, empty, value) = <<>>
    BY <1>1 DEF AppendField, OmitEmpty
  <2>2. And(m, <<>>) = m
    BY CatNothing DEF And, Cat, Begun, Members
  <2> QED BY <2>1, <2>2
<1>2. CASE ~empty
  <2>1. AppendField(t, key, ~empty, value) = Cat(Comma(t, key), value)
    BY <1>2 DEF AppendField, Cat, Comma
  <2>2. OmitEmpty(key, empty, value) = Always(key, value)
    BY <1>2 DEF OmitEmpty
  <2> QED BY <2>1, <2>2, NextField
<1> QED BY <1>1, <1>2

LEMMA LastField ==
  ASSUME NEW dst, NEW m, Begun(dst, m)
  PROVE  /\ Closed(Unclosed(dst, m)) = Cat(dst, Struct(m)) /\ Append(Unclosed(dst, m), "}") = Cat(dst, Struct(m))
         /\ Sequence(Struct(m))
<1> DEFINE t == Unclosed(dst, m)
           o == One("{")
           c == One("}")
           j == Joined(m)
<1>1. Sequence(dst) /\ Sequence(j)
  BY JoinedTyped DEF Begun, Members
<1>2. Sequence(o) /\ Sequence(c)
  BY OneTyped
<1>3. t = Cat(dst, Cat(o, j)) /\ Sequence(t)
  BY UnclosedTyped DEF Unclosed
<1>4. Closed(t) = Cat(t, c)
  BY DEF Closed, Cat, One
<1>5. Struct(m) = Cat(Cat(o, j), c)
  BY DEF Struct, Cat, One
<1> HIDE DEF j, t, o
<1>6. Append(t, "}") = Cat(t, c)
  BY <1>3, AppendIsCat
<1> HIDE DEF c
<1>7. Sequence(Cat(o, j))
  BY <1>1, <1>2, CatTyped
<1>8. Cat(Cat(dst, Cat(o, j)), c) = Cat(dst, Cat(Cat(o, j), c)) /\ Sequence(Cat(Cat(o, j), c))
  BY <1>1, <1>2, <1>7, CatAssociates, CatTyped
<1> QED BY <1>3, <1>4, <1>5, <1>6, <1>8 DEF t

LEMMA EntryAppended ==
  ASSUME NEW dst, Sequence(dst), NEW e, Sequence(e[1]), Sequence(e[2])
  PROVE  AppendEntry(dst, e) = Cat(dst, EntryValue(e)) /\ Sequence(EntryValue(e))
<1> DEFINE k == Str(e[1])
           v == Str(e[2])
           c == One(":")
<1>1. Sequence(k) /\ Sequence(v) /\ Sequence(c) /\ AppendString(dst, e[1]) = Cat(dst, k)
  BY StringAppended, OneTyped
<1>2. EntryValue(e) = Cat(Cat(k, c), v)
  BY DEF EntryValue, Cat, One
<1>3. AppendEntry(dst, e) = AppendString(Cat(AppendString(dst, e[1]), c), e[2])
  BY DEF AppendEntry, Cat, One
<1>4. \A q : Sequence(q) => AppendString(q, e[2]) = Cat(q, v)
  BY StringAppended
<1> HIDE DEF k, v, c
<1>5. Sequence(Cat(dst, k)) /\ Sequence(Cat(k, c))
  BY <1>1, CatTyped
<1>6. Sequence(Cat(Cat(dst, k), c)) /\ Sequence(Cat(Cat(k, c), v))
  BY <1>1, <1>5, CatTyped
<1>7. Cat(Cat(dst, k), c) = Cat(dst, Cat(k, c))
  BY <1>1, CatAssociates
<1>8. Cat(Cat(dst, Cat(k, c)), v) = Cat(dst, Cat(Cat(k, c), v))
  BY <1>1, <1>5, CatAssociates
<1> QED BY <1>1, <1>2, <1>3, <1>4, <1>6, <1>7, <1>8

LEMMA ParamAppended ==
  ASSUME NEW dst, Sequence(dst), NEW p,
         Sequence(p.name), Sequence(p.value)
  PROVE  AppendParam(dst, p) = Cat(dst, ParamValue(p)) /\ Sequence(ParamValue(p))
<1> DEFINE v1 == Str(p.name)
           v2 == Str(p.value)
           m1 == Always("Name:", v1)
           m2 == And(m1, Always("Value:", v2))
           t1 == AppendString(Opened(dst, "Name:"), p.name)
           t2 == AppendString(Comma(t1, "Value:"), p.value)
<1>1. Sequence(dst) /\ Sequence(v1) /\ Sequence(v2)
  BY StringAppended
<1>2. ASSUME NEW q, Sequence(q)
      PROVE  /\ AppendString(q, p.name) = Cat(q, v1)
             /\ AppendString(q, p.value) = Cat(q, v2)
  BY <1>2, StringAppended
<1> HIDE DEF v1, v2, m1, m2, t1, t2
<1>3. t1 = Unclosed(dst, m1) /\ Begun(dst, m1)
  <2>1. Cat(Opened(dst, "Name:"), v1) = Unclosed(dst, m1) /\ Sequence(Opened(dst, "Name:")) /\ Begun(dst, m1)
    BY <1>1, FirstField DEF m1
  <2> QED BY <2>1, <1>2 DEF t1
<1>4. t2 = Unclosed(dst, m2) /\ Begun(dst, m2)
  <2>1. Cat(Comma(Unclosed(dst, m1), "Value:"), v2) = Unclosed(dst, m2) /\ Sequence(Comma(Unclosed(dst, m1), "Value:")) /\ Begun(dst, m2)
    BY <1>3, <1>1, NextField DEF m2
  <2> QED BY <1>3, <2>1, <1>2 DEF t2
<1>5. Closed(Unclosed(dst, m2)) = Cat(dst, Struct(m2)) /\ Sequence(Struct(m2))
  BY <1>4, LastField
<1>6. ParamValue(p) = Struct(m2)
  BY Zenon DEF ParamValue, m1, m2, v1, v2, And, One
<1>7. AppendParam(dst, p) = Closed(t2)
  BY Zenon DEF AppendParam, t1, t2, Comma, Opened, Closed, Cat, One
<1> QED BY <1>4, <1>5, <1>6, <1>7

LEMMA HopAppended ==
  ASSUME NEW dst, Sequence(dst), NEW h,
         Sequence(h.url)
  PROVE  AppendHop(dst, h) = Cat(dst, HopValue(h)) /\ Sequence(HopValue(h))
<1> DEFINE v1 == Str(h.url)
           v2 == One(h.status)
           m1 == Always("URL:", v1)
           m2 == And(m1, Always("StatusCode:", v2))
           t1 == AppendString(Opened(dst, "URL:"), h.url)
           t2 == Cat(Comma(t1, "StatusCode:"), v2)
<1>1. Sequence(dst) /\ Sequence(v1) /\ Sequence(v2)
  BY StringAppended, OneTyped
<1>2. ASSUME NEW q, Sequence(q)
      PROVE  /\ AppendString(q, h.url) = Cat(q, v1)
  BY <1>2, StringAppended
<1> HIDE DEF v1, v2, m1, m2, t1, t2
<1>3. t1 = Unclosed(dst, m1) /\ Begun(dst, m1)
  <2>1. Cat(Opened(dst, "URL:"), v1) = Unclosed(dst, m1) /\ Sequence(Opened(dst, "URL:")) /\ Begun(dst, m1)
    BY <1>1, FirstField DEF m1
  <2> QED BY <2>1, <1>2 DEF t1
<1>4. t2 = Unclosed(dst, m2) /\ Begun(dst, m2)
  <2>1. Cat(Comma(Unclosed(dst, m1), "StatusCode:"), v2) = Unclosed(dst, m2) /\ Sequence(Comma(Unclosed(dst, m1), "StatusCode:")) /\ Begun(dst, m2)
    BY <1>3, <1>1, NextField DEF m2
  <2> QED BY <1>3, <2>1 DEF t2
<1>5. Closed(Unclosed(dst, m2)) = Cat(dst, Struct(m2)) /\ Sequence(Struct(m2))
  BY <1>4, LastField
<1>6. HopValue(h) = Struct(m2)
  BY Zenon DEF HopValue, m1, m2, v1, v2, And, One
<1>7. AppendHop(dst, h) = Closed(t2)
  BY Zenon DEF AppendHop, t1, t2, Comma, Opened, Closed, Cat, One, v2
<1> QED BY <1>4, <1>5, <1>6, <1>7

LEMMA EndpointAppended ==
  ASSUME NEW dst, Sequence(dst), NEW e,
         IsEndpoint(e)
  PROVE  AppendEndpoint(dst, e) = Cat(dst, EndpointValue(e)) /\ Sequence(EndpointValue(e))
<1> DEFINE v1 == Str(e.url)
           v2 == ListOf(e.query, Str)
           m1 == Always("URL:", v1)
           m2 == And(m1, Always("QueryParams:", v2))
           t1 == AppendString(Opened(dst, "URL:"), e.url)
           t2 == AppendStrings(Comma(t1, "QueryParams:"), e.query)
<1>a. Sequence(e.url) /\ Sequence(e.query.items) /\ \A q \in ToSet(e.query.items) : Sequence(q)
  BY DEF IsEndpoint
<1>1. Sequence(dst) /\ Sequence(v1) /\ Sequence(v2)
  <2>1. Sequence(dst) /\ Sequence(v1)
    BY <1>a, StringAppended
  <2>2. Sequence(v2)
    <3>1. \A x \in ToSet(e.query.items) : Sequence(Str(x)) /\ \A q : Sequence(q) => AppendString(q, x) = Cat(q, Str(x))
      BY <1>a, StringAppended
    <3> QED BY <2>1, <1>a, <3>1, StringsAppended
  <2> QED BY <2>1, <2>2
<1>2. ASSUME NEW q, Sequence(q)
      PROVE  /\ AppendString(q, e.url) = Cat(q, v1)
             /\ AppendStrings(q, e.query) = Cat(q, v2)
  <2>1. AppendStrings(q, e.query) = Cat(q, v2)
    <3>1. \A x \in ToSet(e.query.items) : Sequence(Str(x)) /\ \A p : Sequence(p) => AppendString(p, x) = Cat(p, Str(x))
      BY <1>a, StringAppended
    <3> QED BY <1>2, <1>a, <3>1, StringsAppended
  <2> QED BY <1>2, <1>a, <2>1, StringAppended
<1> HIDE DEF v1, v2, m1, m2, t1, t2
<1>3. t1 = Unclosed(dst, m1) /\ Begun(dst, m1)
  <2>1. Cat(Opened(dst, "URL:"), v1) = Unclosed(dst, m1) /\ Sequence(Opened(dst, "URL:")) /\ Begun(dst, m1)
    BY <1>1, FirstField DEF m1
  <2> QED BY <2>1, <1>2 DEF t1
<1>4. t2 = Unclosed(dst, m2) /\ Begun(dst, m2)
  <2>1. Cat(Comma(Unclosed(dst, m1), "QueryParams:"), v2) = Unclosed(dst, m2) /\ Sequence(Comma(Unclosed(dst, m1), "QueryParams:")) /\ Begun(dst, m2)
    BY <1>3, <1>1, NextField DEF m2
  <2> QED BY <1>3, <2>1, <1>2 DEF t2
<1>5. Closed(Unclosed(dst, m2)) = Cat(dst, Struct(m2)) /\ Sequence(Struct(m2))
  BY <1>4, LastField
<1>6. EndpointValue(e) = Struct(m2)
  BY Zenon DEF EndpointValue, m1, m2, v1, v2, And, One
<1>7. AppendEndpoint(dst, e) = Closed(t2)
  BY Zenon DEF AppendEndpoint, t1, t2, Comma, Opened, Closed, Cat, One
<1> QED BY <1>4, <1>5, <1>6, <1>7

LEMMA DiscoveryAppended ==
  ASSUME NEW dst, Sequence(dst), NEW d,
         IsDiscovery(d)
  PROVE  AppendDiscovery(dst, d) = Cat(dst, DiscoveryValue(d)) /\ Sequence(DiscoveryValue(d))
<1> DEFINE v1 == Str(d.url)
           v2 == ListOf(d.params, ParamValue)
           v3 == MapOf(d.base)
           m1 == Always("URL:", v1)
           m2 == And(m1, Always("Params:", v2))
           m3 == And(m2, Always("Base:", v3))
           t1 == AppendString(Opened(dst, "URL:"), d.url)
           t2 == AppendList(Comma(t1, "Params:"), "[", "]", d.params, AppendParam)
           t3 == AppendMap(Comma(t2, "Base:"), d.base)
<1>a. /\ Sequence(d.url) /\ Sequence(d.params.items) /\ Sequence(d.base.items)
      /\ \A p \in ToSet(d.params.items) : Sequence(p.name) /\ Sequence(p.value)
      /\ \A b \in ToSet(d.base.items) : Sequence(b[1]) /\ Sequence(b[2])
  BY DEF IsDiscovery
<1>1. Sequence(dst) /\ Sequence(v1) /\ Sequence(v2) /\ Sequence(v3)
  <2>1. Sequence(dst) /\ Sequence(v1)
    BY <1>a, StringAppended
  <2>2. Sequence(v2)
    <3>1. \A x \in ToSet(d.params.items) : Sequence(ParamValue(x)) /\ \A q : Sequence(q) => AppendParam(q, x) = Cat(q, ParamValue(x))
      BY <1>a, ParamAppended
    <3> QED BY <2>1, <1>a, <3>1, ParamsAppended
  <2>3. Sequence(v3)
    <3>1. \A x \in ToSet(d.base.items) : Sequence(EntryValue(x)) /\ \A q : Sequence(q) => AppendEntry(q, x) = Cat(q, EntryValue(x))
      BY <1>a, EntryAppended
    <3> QED BY <2>1, <1>a, <3>1, EntriesAppended
  <2> QED BY <2>1, <2>2, <2>3
<1>2. ASSUME NEW q, Sequence(q)
      PROVE  /\ AppendString(q, d.url) = Cat(q, v1)
             /\ AppendList(q, "[", "]", d.params, AppendParam) = Cat(q, v2)
             /\ AppendMap(q, d.base) = Cat(q, v3)
  <2>1. AppendList(q, "[", "]", d.params, AppendParam) = Cat(q, v2)
    <3>1. \A x \in ToSet(d.params.items) : Sequence(ParamValue(x)) /\ \A p : Sequence(p) => AppendParam(p, x) = Cat(p, ParamValue(x))
      BY <1>a, ParamAppended
    <3> QED BY <1>2, <1>a, <3>1, ParamsAppended
  <2>2. AppendMap(q, d.base) = Cat(q, v3)
    <3>1. \A x \in ToSet(d.base.items) : Sequence(EntryValue(x)) /\ \A p : Sequence(p) => AppendEntry(p, x) = Cat(p, EntryValue(x))
      BY <1>a, EntryAppended
    <3> QED BY <1>2, <1>a, <3>1, EntriesAppended
  <2> QED BY <1>2, <1>a, <2>1, <2>2, StringAppended
<1> HIDE DEF v1, v2, v3, m1, m2, m3, t1, t2, t3
<1>3. t1 = Unclosed(dst, m1) /\ Begun(dst, m1)
  <2>1. Cat(Opened(dst, "URL:"), v1) = Unclosed(dst, m1) /\ Sequence(Opened(dst, "URL:")) /\ Begun(dst, m1)
    BY <1>1, FirstField DEF m1
  <2> QED BY <2>1, <1>2 DEF t1
<1>4. t2 = Unclosed(dst, m2) /\ Begun(dst, m2)
  <2>1. Cat(Comma(Unclosed(dst, m1), "Params:"), v2) = Unclosed(dst, m2) /\ Sequence(Comma(Unclosed(dst, m1), "Params:")) /\ Begun(dst, m2)
    BY <1>3, <1>1, NextField DEF m2
  <2> QED BY <1>3, <2>1, <1>2 DEF t2
<1>5. t3 = Unclosed(dst, m3) /\ Begun(dst, m3)
  <2>1. Cat(Comma(Unclosed(dst, m2), "Base:"), v3) = Unclosed(dst, m3) /\ Sequence(Comma(Unclosed(dst, m2), "Base:")) /\ Begun(dst, m3)
    BY <1>4, <1>1, NextField DEF m3
  <2> QED BY <1>4, <2>1, <1>2 DEF t3
<1>6. Closed(Unclosed(dst, m3)) = Cat(dst, Struct(m3)) /\ Sequence(Struct(m3))
  BY <1>5, LastField
<1>7. DiscoveryValue(d) = Struct(m3)
  BY Zenon DEF DiscoveryValue, m1, m2, m3, v1, v2, v3, And, One
<1>8. AppendDiscovery(dst, d) = Closed(t3)
  BY Zenon DEF AppendDiscovery, t1, t2, t3, Comma, Opened, Closed, Cat, One
<1> QED BY <1>5, <1>6, <1>7, <1>8

LEMMA PageEncoded ==
  ASSUME NEW e,
         IsPageEvent(e)
  PROVE  AppendPage(e) = PageValue(e)
<1> DEFINE v1 == One("page")
           v2 == One("time")
           v3 == Str(e.url)
           v4 == Str(e.final)
           v5 == One(e.status)
           v6 == One("true")
           v7 == ListOf(e.chain, HopValue)
           v8 == ListOf(e.found, DiscoveryValue)
           v9 == One(e.retries)
           b4 == e.final = <<>>
           b6 == ~e.truncated
           b7 == e.chain.items = <<>>
           b8 == e.found.items = <<>>
           b9 == e.retries = "0"
           m1 == Always("type:", v1)
           m2 == And(m1, Always("ts:", v2))
           m3 == And(m2, Always("url:", v3))
           m4 == And(m3, OmitEmpty("final_url:", b4, v4))
           m5 == And(m4, Always("status:", v5))
           m6 == And(m5, OmitEmpty("truncated:", b6, v6))
           m7 == And(m6, OmitEmpty("redirect_chain:", b7, v7))
           m8 == And(m7, OmitEmpty("discoveries:", b8, v8))
           m9 == And(m8, OmitEmpty("retry_attempts:", b9, v9))
           t1 == Cat(Opened(<<>>, "type:"), v1)
           t2 == Cat(Comma(t1, "ts:"), v2)
           t3 == AppendString(Comma(t2, "url:"), e.url)
           t4 == AppendField(t3, "final_url:", e.final # <<>>, AppendString(<<>>, e.final))
           t5 == Cat(Comma(t4, "status:"), v5)
           t6 == AppendField(t5, "truncated:", e.truncated, v6)
           t7 == AppendField(t6, "redirect_chain:", NotEmpty(e.chain), AppendList(<<>>, "[", "]", e.chain, AppendHop))
           t8 == AppendField(t7, "discoveries:", NotEmpty(e.found), AppendList(<<>>, "[", "]", e.found, AppendDiscovery))
           t9 == AppendField(t8, "retry_attempts:", e.retries # "0", v9)
<1>b. b4 \in BOOLEAN /\ b6 \in BOOLEAN /\ b7 \in BOOLEAN /\ b8 \in BOOLEAN /\ b9 \in BOOLEAN
  OBVIOUS
<1>a. /\ Sequence(e.url) /\ Sequence(e.final) /\ Sequence(e.chain.items) /\ Sequence(e.found.items)
      /\ \A h \in ToSet(e.chain.items) : Sequence(h.url)
      /\ \A d \in ToSet(e.found.items) : IsDiscovery(d)
  BY DEF IsPageEvent
<1>1. Sequence(<<>>) /\ Sequence(v1) /\ Sequence(v2) /\ Sequence(v3) /\ Sequence(v4) /\ Sequence(v5) /\ Sequence(v6) /\ Sequence(v7) /\ Sequence(v8) /\ Sequence(v9)
  <2>1. Sequence(<<>>) /\ Sequence(v1) /\ Sequence(v2) /\ Sequence(v3) /\ Sequence(v4) /\ Sequence(v5) /\ Sequence(v6) /\ Sequence(v9)
    BY <1>a, OneTyped, StringAppended
  <2>2. Sequence(v7)
    <3>1. \A x \in ToSet(e.chain.items) : Sequence(HopValue(x)) /\ \A q : Sequence(q) => AppendHop(q, x) = Cat(q, HopValue(x))
      BY <1>a, HopAppended
    <3> QED BY <2>1, <1>a, <3>1, HopsAppended
  <2>3. Sequence(v8)
    <3>1. \A x \in ToSet(e.found.items) : Sequence(DiscoveryValue(x)) /\ \A q : Sequence(q) => AppendDiscovery(q, x) = Cat(q, DiscoveryValue(x))
      BY <1>a, DiscoveryAppended
    <3> QED BY <2>1, <1>a, <3>1, DiscoveriesAppended
  <2> QED BY <2>1, <2>2, <2>3
<1>2. ASSUME NEW q, Sequence(q)
      PROVE  /\ AppendString(q, e.url) = Cat(q, v3)
             /\ AppendString(q, e.final) = Cat(q, v4)
             /\ AppendList(q, "[", "]", e.chain, AppendHop) = Cat(q, v7)
             /\ AppendList(q, "[", "]", e.found, AppendDiscovery) = Cat(q, v8)
  <2>1. AppendList(q, "[", "]", e.chain, AppendHop) = Cat(q, v7)
    <3>1. \A x \in ToSet(e.chain.items) : Sequence(HopValue(x)) /\ \A p : Sequence(p) => AppendHop(p, x) = Cat(p, HopValue(x))
      BY <1>a, HopAppended
    <3> QED BY <1>2, <1>a, <3>1, HopsAppended
  <2>2. AppendList(q, "[", "]", e.found, AppendDiscovery) = Cat(q, v8)
    <3>1. \A x \in ToSet(e.found.items) : Sequence(DiscoveryValue(x)) /\ \A p : Sequence(p) => AppendDiscovery(p, x) = Cat(p, DiscoveryValue(x))
      BY <1>a, DiscoveryAppended
    <3> QED BY <1>2, <1>a, <3>1, DiscoveriesAppended
  <2> QED BY <1>2, <1>a, <2>1, <2>2, StringAppended
<1> HIDE DEF v1, v2, v3, v4, v5, v6, v7, v8, v9, m1, m2, m3, m4, m5, m6, m7, m8, m9, t1, t2, t3, t4, t5, t6, t7, t8, t9, b4, b6, b7, b8, b9
<1>3. t1 = Unclosed(<<>>, m1) /\ Begun(<<>>, m1)
  <2>1. Cat(Opened(<<>>, "type:"), v1) = Unclosed(<<>>, m1) /\ Sequence(Opened(<<>>, "type:")) /\ Begun(<<>>, m1)
    BY <1>1, FirstField DEF m1
  <2> QED BY <2>1 DEF t1
<1>4. t2 = Unclosed(<<>>, m2) /\ Begun(<<>>, m2)
  <2>1. Cat(Comma(Unclosed(<<>>, m1), "ts:"), v2) = Unclosed(<<>>, m2) /\ Sequence(Comma(Unclosed(<<>>, m1), "ts:")) /\ Begun(<<>>, m2)
    BY <1>3, <1>1, NextField DEF m2
  <2> QED BY <1>3, <2>1 DEF t2
<1>5. t3 = Unclosed(<<>>, m3) /\ Begun(<<>>, m3)
  <2>1. Cat(Comma(Unclosed(<<>>, m2), "url:"), v3) = Unclosed(<<>>, m3) /\ Sequence(Comma(Unclosed(<<>>, m2), "url:")) /\ Begun(<<>>, m3)
    BY <1>4, <1>1, NextField DEF m3
  <2> QED BY <1>4, <2>1, <1>2 DEF t3
<1>6. t4 = Unclosed(<<>>, m4) /\ Begun(<<>>, m4)
  <2>1. AppendString(<<>>, e.final) = v4
    BY <1>1, <1>2, CatNothing
  <2>2. AppendField(Unclosed(<<>>, m3), "final_url:", ~b4, v4) = Unclosed(<<>>, m4) /\ Begun(<<>>, m4)
    BY <1>5, <1>1, <1>b, OptionalField DEF m4
  <2>3. AppendField(Unclosed(<<>>, m3), "final_url:", e.final # <<>>, v4) = AppendField(Unclosed(<<>>, m3), "final_url:", ~b4, v4)
    BY DEF AppendField, NotEmpty, b4
  <2> QED BY <1>5, <2>1, <2>2, <2>3 DEF t4
<1>7. t5 = Unclosed(<<>>, m5) /\ Begun(<<>>, m5)
  <2>1. Cat(Comma(Unclosed(<<>>, m4), "status:"), v5) = Unclosed(<<>>, m5) /\ Sequence(Comma(Unclosed(<<>>, m4), "status:")) /\ Begun(<<>>, m5)
    BY <1>6, <1>1, NextField DEF m5
  <2> QED BY <1>6, <2>1 DEF t5
<1>8. t6 = Unclosed(<<>>, m6) /\ Begun(<<>>, m6)
  <2>2. AppendField(Unclosed(<<>>, m5), "truncated:", ~b6, v6) = Unclosed(<<>>, m6) /\ Begun(<<>>, m6)
    BY <1>7, <1>1, <1>b, OptionalField DEF m6
  <2>3. AppendField(Unclosed(<<>>, m5), "truncated:", e.truncated, v6) = AppendField(Unclosed(<<>>, m5), "truncated:", ~b6, v6)
    BY DEF AppendField, NotEmpty, b6
  <2> QED BY <1>7, <2>2, <2>3 DEF t6
<1>9. t7 = Unclosed(<<>>, m7) /\ Begun(<<>>, m7)
  <2>1. AppendList(<<>>, "[", "]", e.chain, AppendHop) = v7
    BY <1>1, <1>2, CatNothing
  <2>2. AppendField(Unclosed(<<>>, m6), "redirect_chain:", ~b7, v7) = Unclosed(<<>>, m7) /\ Begun(<<>>, m7)
    BY <1>8, <1>1, <1>b, OptionalField DEF m7
  <2>3. AppendField(Unclosed(<<>>, m6), "redirect_chain:", NotEmpty(e.chain), v7) = AppendField(Unclosed(<<>>, m6), "redirect_chain:", ~b7, v7)
    BY DEF AppendField, NotEmpty, b7
  <2> QED BY <1>8, <2>1, <2>2, <2>3 DEF t7
<1>10. t8 = Unclosed(<<>>, m8) /\ Begun(<<>>, m8)
  <2>1. AppendList(<<>>, "[", "]", e.found, AppendDiscovery) = v8
    BY <1>1, <1>2, CatNothing
  <2>2. AppendField(Unclosed(<<>>, m7), "discoveries:", ~b8, v8) = Unclosed(<<>>, m8) /\ Begun(<<>>, m8)
    BY <1>9, <1>1, <1>b, OptionalField DEF m8
  <2>3. AppendField(Unclosed(<<>>, m7), "discoveries:", NotEmpty(e.found), v8) = AppendField(Unclosed(<<>>, m7), "discoveries:", ~b8, v8)
    BY DEF AppendField, NotEmpty, b8
  <2> QED BY <1>9, <2>1, <2>2, <2>3 DEF t8
<1>11. t9 = Unclosed(<<>>, m9) /\ Begun(<<>>, m9)
  <2>2. AppendField(Unclosed(<<>>, m8), "retry_attempts:", ~b9, v9) = Unclosed(<<>>, m9) /\ Begun(<<>>, m9)
    BY <1>10, <1>1, <1>b, OptionalField DEF m9
  <2>3. AppendField(Unclosed(<<>>, m8), "retry_attempts:", e.retries # "0", v9) = AppendField(Unclosed(<<>>, m8), "retry_attempts:", ~b9, v9)
    BY DEF AppendField, NotEmpty, b9
  <2> QED BY <1>10, <2>2, <2>3 DEF t9
<1>12. Append(Unclosed(<<>>, m9), "}") = Cat(<<>>, Struct(m9)) /\ Sequence(Struct(m9))
  BY <1>11, LastField
<1>13. PageValue(e) = Struct(m9)
  BY Zenon DEF PageValue, m1, m2, m3, m4, m5, m6, m7, m8, m9, b4, b6, b7, b8, b9, v1, v2, v3, v4, v5, v6, v7, v8, v9, And, One, Retries
<1>14. Opened(<<>>, "type:") = <<"{", "type:">>
  BY TwoTokens, OneTyped, CatTyped, CatNothing DEF Opened, Cat
<1>15. AppendPage(e) = Append(t9, "}")
  BY <1>14, Zenon DEF AppendPage, t1, t2, t3, t4, t5, t6, t7, t8, t9, Comma, Closed, Cat, One, v1, v2, v5, v6, v9
<1>16. Cat(<<>>, Struct(m9)) = Struct(m9)
  BY <1>12, CatNothing
<1> QED BY <1>11, <1>12, <1>13, <1>15, <1>16

LEMMA ErrorEncoded ==
  ASSUME NEW e,
         Sequence(e.url), Sequence(e.error)
  PROVE  AppendError(e) = ErrorValue(e)
<1> DEFINE v1 == One("error")
           v2 == Str(e.url)
           v3 == Str(e.error)
           v4 == One(e.retries)
           b4 == e.retries = "0"
           m1 == Always("type:", v1)
           m2 == And(m1, Always("url:", v2))
           m3 == And(m2, Always("error:", v3))
           m4 == And(m3, OmitEmpty("retry_attempts:", b4, v4))
           t1 == Cat(Opened(<<>>, "type:"), v1)
           t2 == AppendString(Comma(t1, "url:"), e.url)
           t3 == AppendString(Comma(t2, "error:"), e.error)
           t4 == AppendField(t3, "retry_attempts:", e.retries # "0", v4)
<1>b. b4 \in BOOLEAN
  OBVIOUS
<1>1. Sequence(<<>>) /\ Sequence(v1) /\ Sequence(v2) /\ Sequence(v3) /\ Sequence(v4)
  BY OneTyped, StringAppended
<1>2. ASSUME NEW q, Sequence(q)
      PROVE  /\ AppendString(q, e.url) = Cat(q, v2)
             /\ AppendString(q, e.error) = Cat(q, v3)
  BY <1>2, StringAppended
<1> HIDE DEF v1, v2, v3, v4, m1, m2, m3, m4, t1, t2, t3, t4, b4
<1>3. t1 = Unclosed(<<>>, m1) /\ Begun(<<>>, m1)
  <2>1. Cat(Opened(<<>>, "type:"), v1) = Unclosed(<<>>, m1) /\ Sequence(Opened(<<>>, "type:")) /\ Begun(<<>>, m1)
    BY <1>1, FirstField DEF m1
  <2> QED BY <2>1 DEF t1
<1>4. t2 = Unclosed(<<>>, m2) /\ Begun(<<>>, m2)
  <2>1. Cat(Comma(Unclosed(<<>>, m1), "url:"), v2) = Unclosed(<<>>, m2) /\ Sequence(Comma(Unclosed(<<>>, m1), "url:")) /\ Begun(<<>>, m2)
    BY <1>3, <1>1, NextField DEF m2
  <2> QED BY <1>3, <2>1, <1>2 DEF t2
<1>5. t3 = Unclosed(<<>>, m3) /\ Begun(<<>>, m3)
  <2>1. Cat(Comma(Unclosed(<<>>, m2), "error:"), v3) = Unclosed(<<>>, m3) /\ Sequence(Comma(Unclosed(<<>>, m2), "error:")) /\ Begun(<<>>, m3)
    BY <1>4, <1>1, NextField DEF m3
  <2> QED BY <1>4, <2>1, <1>2 DEF t3
<1>6. t4 = Unclosed(<<>>, m4) /\ Begun(<<>>, m4)
  <2>2. AppendField(Unclosed(<<>>, m3), "retry_attempts:", ~b4, v4) = Unclosed(<<>>, m4) /\ Begun(<<>>, m4)
    BY <1>5, <1>1, <1>b, OptionalField DEF m4
  <2>3. AppendField(Unclosed(<<>>, m3), "retry_attempts:", e.retries # "0", v4) = AppendField(Unclosed(<<>>, m3), "retry_attempts:", ~b4, v4)
    BY DEF AppendField, NotEmpty, b4
  <2> QED BY <1>5, <2>2, <2>3 DEF t4
<1>7. Append(Unclosed(<<>>, m4), "}") = Cat(<<>>, Struct(m4)) /\ Sequence(Struct(m4))
  BY <1>6, LastField
<1>8. ErrorValue(e) = Struct(m4)
  BY Zenon DEF ErrorValue, m1, m2, m3, m4, b4, v1, v2, v3, v4, And, One, Retries
<1>9. Opened(<<>>, "type:") = <<"{", "type:">>
  BY TwoTokens, OneTyped, CatTyped, CatNothing DEF Opened, Cat
<1>10. AppendError(e) = Append(t4, "}")
  BY <1>9, Zenon DEF AppendError, t1, t2, t3, t4, Comma, Closed, Cat, One, v1, v4
<1>11. Cat(<<>>, Struct(m4)) = Struct(m4)
  BY <1>7, CatNothing
<1> QED BY <1>6, <1>7, <1>8, <1>10, <1>11

LEMMA OpenAPIEncoded ==
  ASSUME NEW e,
         Sequence(e.endpoints.items), \A p \in ToSet(e.endpoints.items) : IsEndpoint(p)
  PROVE  AppendOpenAPI(e) = OpenAPIValue(e)
<1> DEFINE v1 == One("openapi")
           v2 == ListOf(e.endpoints, EndpointValue)
           m1 == Always("type:", v1)
           m2 == And(m1, Always("endpoints:", v2))
           t1 == Cat(Opened(<<>>, "type:"), v1)
           t2 == AppendList(Comma(t1, "endpoints:"), "[", "]", e.endpoints, AppendEndpoint)
<1>1. Sequence(<<>>) /\ Sequence(v1) /\ Sequence(v2)
  <2>1. Sequence(<<>>) /\ Sequence(v1)
    BY OneTyped
  <2>2. Sequence(v2)
    <3>1. \A x \in ToSet(e.endpoints.items) : Sequence(EndpointValue(x)) /\ \A q : Sequence(q) => AppendEndpoint(q, x) = Cat(q, EndpointValue(x))
      BY EndpointAppended
    <3> QED BY <2>1, <3>1, EndpointsAppended
  <2> QED BY <2>1, <2>2
<1>2. ASSUME NEW q, Sequence(q)
      PROVE  /\ AppendList(q, "[", "]", e.endpoints, AppendEndpoint) = Cat(q, v2)
  <2>1. AppendList(q, "[", "]", e.endpoints, AppendEndpoint) = Cat(q, v2)
    <3>1. \A x \in ToSet(e.endpoints.items) : Sequence(EndpointValue(x)) /\ \A p : Sequence(p) => AppendEndpoint(p, x) = Cat(p, EndpointValue(x))
      BY EndpointAppended
    <3> QED BY <1>2, <3>1, EndpointsAppended
  <2> QED BY <1>2, <2>1
<1> HIDE DEF v1, v2, m1, m2, t1, t2
<1>3. t1 = Unclosed(<<>>, m1) /\ Begun(<<>>, m1)
  <2>1. Cat(Opened(<<>>, "type:"), v1) = Unclosed(<<>>, m1) /\ Sequence(Opened(<<>>, "type:")) /\ Begun(<<>>, m1)
    BY <1>1, FirstField DEF m1
  <2> QED BY <2>1 DEF t1
<1>4. t2 = Unclosed(<<>>, m2) /\ Begun(<<>>, m2)
  <2>1. Cat(Comma(Unclosed(<<>>, m1), "endpoints:"), v2) = Unclosed(<<>>, m2) /\ Sequence(Comma(Unclosed(<<>>, m1), "endpoints:")) /\ Begun(<<>>, m2)
    BY <1>3, <1>1, NextField DEF m2
  <2> QED BY <1>3, <2>1, <1>2 DEF t2
<1>5. Closed(Unclosed(<<>>, m2)) = Cat(<<>>, Struct(m2)) /\ Sequence(Struct(m2))
  BY <1>4, LastField
<1>6. OpenAPIValue(e) = Struct(m2)
  BY Zenon DEF OpenAPIValue, m1, m2, v1, v2, And, One
<1>7. Opened(<<>>, "type:") = <<"{", "type:">>
  BY TwoTokens, OneTyped, CatTyped, CatNothing DEF Opened, Cat
<1>8. AppendOpenAPI(e) = Closed(t2)
  BY <1>7, Zenon DEF AppendOpenAPI, t1, t2, Comma, Closed, Cat, One, v1
<1>9. Cat(<<>>, Struct(m2)) = Struct(m2)
  BY <1>5, CatNothing
<1> QED BY <1>4, <1>5, <1>6, <1>8, <1>9

LEMMA SummaryEncoded ==
  ASSUME NEW e,
         Sequence(e.seed)
  PROVE  AppendSummary(e) = IF "NaN" \in {e.rate, e.useful} THEN <<>> ELSE SummaryValue(e)
<1> DEFINE v1 == One("summary")
           v2 == Str(e.seed)
           v3 == One("true")
           v4 == One(e.requests)
           v5 == One(e.rate)
           v6 == One(e.useful)
           b3 == ~e.partial
           m1 == Always("type:", v1)
           m2 == And(m1, Always("seed:", v2))
           m3 == And(m2, OmitEmpty("partial:", b3, v3))
           m4 == And(m3, Always("requests_made:", v4))
           m5 == And(m4, Always("urls_per_sec:", v5))
           m6 == And(m5, Always("useful:", v6))
           t1 == Cat(Opened(<<>>, "type:"), v1)
           t2 == AppendString(Comma(t1, "seed:"), e.seed)
           t3 == AppendField(t2, "partial:", e.partial, v3)
           t4 == Cat(Comma(t3, "requests_made:"), v4)
           t5 == Cat(Comma(t4, "urls_per_sec:"), v5)
           t6 == Cat(Comma(t5, "useful:"), v6)
<1>b. b3 \in BOOLEAN
  OBVIOUS
<1>1. Sequence(<<>>) /\ Sequence(v1) /\ Sequence(v2) /\ Sequence(v3) /\ Sequence(v4) /\ Sequence(v5) /\ Sequence(v6)
  BY OneTyped, StringAppended
<1>2. ASSUME NEW q, Sequence(q)
      PROVE  /\ AppendString(q, e.seed) = Cat(q, v2)
  BY <1>2, StringAppended
<1> HIDE DEF v1, v2, v3, v4, v5, v6, m1, m2, m3, m4, m5, m6, t1, t2, t3, t4, t5, t6, b3
<1>3. t1 = Unclosed(<<>>, m1) /\ Begun(<<>>, m1)
  <2>1. Cat(Opened(<<>>, "type:"), v1) = Unclosed(<<>>, m1) /\ Sequence(Opened(<<>>, "type:")) /\ Begun(<<>>, m1)
    BY <1>1, FirstField DEF m1
  <2> QED BY <2>1 DEF t1
<1>4. t2 = Unclosed(<<>>, m2) /\ Begun(<<>>, m2)
  <2>1. Cat(Comma(Unclosed(<<>>, m1), "seed:"), v2) = Unclosed(<<>>, m2) /\ Sequence(Comma(Unclosed(<<>>, m1), "seed:")) /\ Begun(<<>>, m2)
    BY <1>3, <1>1, NextField DEF m2
  <2> QED BY <1>3, <2>1, <1>2 DEF t2
<1>5. t3 = Unclosed(<<>>, m3) /\ Begun(<<>>, m3)
  <2>2. AppendField(Unclosed(<<>>, m2), "partial:", ~b3, v3) = Unclosed(<<>>, m3) /\ Begun(<<>>, m3)
    BY <1>4, <1>1, <1>b, OptionalField DEF m3
  <2>3. AppendField(Unclosed(<<>>, m2), "partial:", e.partial, v3) = AppendField(Unclosed(<<>>, m2), "partial:", ~b3, v3)
    BY DEF AppendField, NotEmpty, b3
  <2> QED BY <1>4, <2>2, <2>3 DEF t3
<1>6. t4 = Unclosed(<<>>, m4) /\ Begun(<<>>, m4)
  <2>1. Cat(Comma(Unclosed(<<>>, m3), "requests_made:"), v4) = Unclosed(<<>>, m4) /\ Sequence(Comma(Unclosed(<<>>, m3), "requests_made:")) /\ Begun(<<>>, m4)
    BY <1>5, <1>1, NextField DEF m4
  <2> QED BY <1>5, <2>1 DEF t4
<1>7. t5 = Unclosed(<<>>, m5) /\ Begun(<<>>, m5)
  <2>1. Cat(Comma(Unclosed(<<>>, m4), "urls_per_sec:"), v5) = Unclosed(<<>>, m5) /\ Sequence(Comma(Unclosed(<<>>, m4), "urls_per_sec:")) /\ Begun(<<>>, m5)
    BY <1>6, <1>1, NextField DEF m5
  <2> QED BY <1>6, <2>1 DEF t5
<1>8. t6 = Unclosed(<<>>, m6) /\ Begun(<<>>, m6)
  <2>1. Cat(Comma(Unclosed(<<>>, m5), "useful:"), v6) = Unclosed(<<>>, m6) /\ Sequence(Comma(Unclosed(<<>>, m5), "useful:")) /\ Begun(<<>>, m6)
    BY <1>7, <1>1, NextField DEF m6
  <2> QED BY <1>7, <2>1 DEF t6
<1>9. Append(Unclosed(<<>>, m6), "}") = Cat(<<>>, Struct(m6)) /\ Sequence(Struct(m6))
  BY <1>8, LastField
<1>10. SummaryValue(e) = Struct(m6)
  BY Zenon DEF SummaryValue, m1, m2, m3, m4, m5, m6, b3, v1, v2, v3, v4, v5, v6, And, One
<1>11. Opened(<<>>, "type:") = <<"{", "type:">>
  BY TwoTokens, OneTyped, CatTyped, CatNothing DEF Opened, Cat
<1>12. AppendSummary(e) = IF "NaN" \in {e.rate, e.useful} THEN <<>> ELSE Append(t6, "}")
  BY <1>11, Zenon DEF AppendSummary, t1, t2, t3, t4, t5, t6, Comma, Closed, Cat, One, v1, v3, v4, v5, v6
<1>13. Cat(<<>>, Struct(m6)) = Struct(m6)
  BY <1>9, CatNothing
<1> QED BY <1>8, <1>9, <1>10, <1>12, <1>13

\* "byte-exact compatibility with json.Marshal", of every event whatever its strings,
\* lists and absent fields: what the encoder appends is what encoding/json writes,
\* and nothing at all when a rate cannot be encoded.
THEOREM EncodingCorrect == Spec => []EncodingMatchesMarshal
<1>1. ASSUME IsCase(input) PROVE EncodingMatchesMarshal
  <2> DEFINE e == input.event
  <2>1. SUFFICES ASSUME Is("event")
                 PROVE  Encode(e) = IF Writable(e) THEN Marshal(e) ELSE <<>>
    BY Zenon DEF EncodingMatchesMarshal
  <2>2. IsEvent(e)
    BY <1>1, <2>1, CaseOfKind, AlgorithmsAssumption DEF Is
  <2> HIDE DEF e
  <2>3. CASE e.type = "page"
    <3>1. IsPageEvent(e)
      BY <2>2, <2>3 DEF IsEvent
    <3>2. AppendPage(e) = PageValue(e)
      BY <3>1, PageEncoded
    <3> QED BY <2>3, <3>2 DEF Encode, Marshal, Writable
  <2>4. CASE e.type = "error"
    <3>1. Sequence(e.url) /\ Sequence(e.error)
      BY <2>2, <2>4 DEF IsEvent
    <3>2. AppendError(e) = ErrorValue(e)
      BY <3>1, ErrorEncoded
    <3> QED BY <2>4, <3>2 DEF Encode, Marshal, Writable
  <2>5. CASE e.type = "openapi"
    <3>1. Sequence(e.endpoints.items) /\ \A p \in ToSet(e.endpoints.items) : IsEndpoint(p)
      BY <2>2, <2>5 DEF IsEvent
    <3>2. AppendOpenAPI(e) = OpenAPIValue(e)
      BY <3>1, OpenAPIEncoded
    <3> QED BY <2>5, <3>2 DEF Encode, Marshal, Writable
  <2>6. CASE e.type = "summary"
    <3>1. Sequence(e.seed)
      BY <2>2, <2>6 DEF IsEvent
    <3>2. AppendSummary(e) = IF "NaN" \in {e.rate, e.useful} THEN <<>> ELSE SummaryValue(e)
      BY <3>1, SummaryEncoded
    <3> QED BY <2>6, <3>2 DEF Encode, Marshal, Writable
  <2> QED BY <2>2, <2>3, <2>4, <2>5, <2>6 DEF IsEvent, EventTypes
<1>2. Init => IsCase(input)
  BY DEF Init
<1>3. IsCase(input) /\ [Next]_<<input, writerVars>> => IsCase(input)'
  BY DEF Next
<1> QED BY <1>1, <1>2, <1>3, PTL DEF Spec
-----------------------------------------------------------------------------
(* The canonical form.                                                     *)

\* How much of a path stays when the slashes at its end are cut off.
Kept(x, n) ==
  /\ n \in 0..Len(x)
  /\ \A k \in n + 1..Len(x) : x[k] = "/"
  /\ n = 0 \/ x[n] # "/"

LEMMA KeptExists ==
  ASSUME NEW x, Sequence(x)
  PROVE  \E n \in 0..Len(x) : Kept(x, n)
<1> DEFINE T == {n \in 0..Len(x) : \A k \in n + 1..Len(x) : x[k] = "/"}
           L == Len(x)
<1>1. L \in Nat
  BY SequenceFacts
<1> HIDE DEF L
<1>2. T = {n \in 0..L : \A k \in n + 1..L : x[k] = "/"}
  BY DEF L
<1> HIDE DEF T
<1>3. L \in T
  <2>1. L \in 0..L /\ \A k \in L + 1..L : FALSE
    BY <1>1
  <2> QED BY <1>2, <2>1
<1>4. T \subseteq Nat
  BY <1>1, <1>2
<1>5. PICK n \in T : \A m \in T : n <= m
  BY <1>3, <1>4, LeastNat
<1>6. n \in 0..L /\ \A k \in n + 1..L : x[k] = "/"
  BY <1>2
<1>7. n = 0 \/ x[n] # "/"
  <2>1. SUFFICES ASSUME n # 0, x[n] = "/" PROVE FALSE
    OBVIOUS
  <2>2. n - 1 \in 0..L /\ ~(n <= n - 1)
    BY <1>1, <1>6, <2>1
  <2>3. \A k \in (n - 1) + 1..L : k = n \/ k \in n + 1..L
    BY <1>1, <1>6
  <2>4. n - 1 \in T
    BY <1>2, <1>6, <2>1, <2>2, <2>3
  <2> QED BY <1>5, <2>2, <2>4
<1> QED BY <1>6, <1>7 DEF Kept, L

LEMMA KeptUnique ==
  ASSUME NEW x, Sequence(x), NEW n, Kept(x, n), NEW m, Kept(x, m)
  PROVE  n = m
<1> DEFINE L == Len(x)
<1>1. L \in Nat
  BY SequenceFacts
<1> HIDE DEF L
<1>2. n \in 0..L /\ m \in 0..L
  BY DEF Kept, L
<1>3. ASSUME NEW a \in 0..L, NEW b \in 0..L, Kept(x, a), Kept(x, b), a < b PROVE FALSE
  <2>1. b \in a + 1..L /\ b # 0
    BY <1>1, <1>3
  <2>2. x[b] = "/" /\ x[b] # "/"
    BY <1>3, <2>1 DEF Kept, L
  <2> QED BY <2>2
<1>4. n < m \/ m < n \/ n = m
  BY <1>1, <1>2
<1> QED BY <1>2, <1>3, <1>4

LEMMA CanonicalPathIs ==
  ASSUME NEW x, Sequence(x), NEW n, Kept(x, n)
  PROVE  CanonicalPath(x) = IF n = 0 THEN <<"/">> ELSE [k \in 1..n |-> x[k]]
<1> DEFINE L == Len(x)
           t == SubSeq(x, 1, n)
<1>1. L \in Nat
  BY SequenceFacts
<1>2. TrimSlashes(x) = t
  <2>1. TrimSlashes(x) = SubSeq(x, 1, CHOOSE m \in 0..Len(x) : Kept(x, m))
    BY DEF TrimSlashes, Kept
  <2>2. n \in 0..Len(x)
    BY DEF Kept
  <2> DEFINE c == CHOOSE m \in 0..Len(x) : Kept(x, m)
  <2>3. Kept(x, c)
    BY <2>2
  <2> HIDE DEF c
  <2>4. c = n
    BY <2>3, KeptUnique
  <2> QED BY <2>1, <2>4 DEF c
<1>3. n \in 0..L
  BY DEF Kept
<1>4. t = [k \in 1..n |-> x[k]]
  <2>1. x \in Seq(ToSet(x)) /\ n \in Nat /\ n <= Len(x)
    BY <1>1, <1>3 DEF Sequence
  <2> DEFINE S == ToSet(x)
  <2> HIDE DEF S
  <2>2. /\ SubSeq(x, 1, n) \in Seq(S) /\ Len(SubSeq(x, 1, n)) = n
        /\ \A i \in 1..n : SubSeq(x, 1, n)[i] = x[i]
    <3>1. x \in Seq(S)
      BY <2>1 DEF S
    <3> QED BY <2>1, <3>1
  <2> QED BY <2>1, <2>2
<1>5. CASE n = 0
  <2>1. t = <<>>
    BY <1>1, <1>3, <1>5
  <2> QED BY <1>2, <1>5, <2>1 DEF CanonicalPath
<1>6. CASE n # 0
  <2>1. t # <<>>
    BY <1>3, <1>4, <1>6, SMT
  <2> QED BY <1>2, <1>4, <1>6, <2>1 DEF CanonicalPath
<1> QED BY <1>5, <1>6

LEMMA PathIsKept ==
  ASSUME NEW x, Sequence(x), NEW y, Sequence(y), NEW n, Kept(x, n), NEW m, Kept(y, m)
  PROVE  (CanonicalPath(x) = CanonicalPath(y)) = (n = m /\ \A k \in 1..n : x[k] = y[k])
<1> DEFINE Cut(z, l) == IF l = 0 THEN <<"/">> ELSE [k \in 1..l |-> z[k]]
<1>1. CanonicalPath(x) = Cut(x, n) /\ CanonicalPath(y) = Cut(y, m)
  BY CanonicalPathIs
<1>2. n \in Nat /\ m \in Nat /\ (n # 0 => x[n] # "/") /\ (m # 0 => y[m] # "/")
  <2>1. Len(x) \in Nat /\ Len(y) \in Nat
    BY SequenceFacts
  <2> QED BY <2>1 DEF Kept
<1>3. ASSUME NEW z, NEW l \in Nat, l # 0, z[l] # "/" PROVE Cut(z, l) # <<"/">>
  <2>1. SUFFICES ASSUME [k \in 1..l |-> z[k]] = <<"/">> PROVE FALSE
    BY <1>3
  <2>2. Len([k \in 1..l |-> z[k]]) = l
    OBVIOUS
  <2>3. l = 1
    BY <2>1, <2>2
  <2>4. [k \in 1..l |-> z[k]][1] = z[1]
    BY <2>3
  <2> QED BY <1>3, <2>1, <2>3, <2>4
<1>4. n = m /\ (\A k \in 1..n : x[k] = y[k]) => Cut(x, n) = Cut(y, m)
  OBVIOUS
<1>5. ASSUME Cut(x, n) = Cut(y, m) PROVE n = m /\ \A k \in 1..n : x[k] = y[k]
  <2>1. CASE n = 0 \/ m = 0
    <3>1. n = 0 /\ m = 0
      BY <1>2, <1>3, <1>5, <2>1
    <3> QED BY <3>1
  <2>2. CASE n # 0 /\ m # 0
    <3> DEFINE f == [k \in 1..n |-> x[k]]
               g == [k \in 1..m |-> y[k]]
    <3>1. f = g
      BY <1>5, <2>2
    <3>2. Len(f) = n /\ Len(g) = m
      BY <1>2
    <3>3. n = m
      BY <3>1, <3>2
    <3>4. \A k \in 1..n : f[k] = x[k] /\ g[k] = y[k]
      BY <3>3
    <3> QED BY <3>1, <3>3, <3>4
  <2> QED BY <2>1, <2>2
<1> HIDE DEF Cut
<1> QED BY <1>1, <1>4, <1>5

\* One path is the other and slashes.
SlashesMore(x, y) == IsPrefix(x, y) /\ \A k \in Len(x) + 1..Len(y) : y[k] = "/"

LEMMA SlashesMoreIs ==
  ASSUME NEW x, Sequence(x), NEW y, Sequence(y)
  PROVE  SlashesMore(x, y) = (/\ Len(x) <= Len(y) /\ \A k \in 1..Len(x) : x[k] = y[k]
                              /\ \A k \in Len(x) + 1..Len(y) : y[k] = "/")
<1> DEFINE S == ToSet(x) \cup ToSet(y)
           L == Len(x)
<1> HIDE DEF S
<1>1. x \in Seq(S) /\ y \in Seq(S)
  <2>1. x \in Seq(ToSet(x)) /\ y \in Seq(ToSet(y))
    BY DEF Sequence
  <2> QED BY <2>1 DEF S
<1>2. L \in Nat /\ Len(y) \in Nat
  BY <1>1
<1>3. ASSUME L <= Len(y)
      PROVE  (SubSeq(x, 1, L) = SubSeq(y, 1, L)) = (\A k \in 1..L : x[k] = y[k])
  <2>1. /\ SubSeq(x, 1, L) \in Seq(S) /\ Len(SubSeq(x, 1, L)) = L
        /\ \A i \in 1..L : SubSeq(x, 1, L)[i] = x[i]
    BY <1>1, <1>2
  <2>2. /\ SubSeq(y, 1, L) \in Seq(S) /\ Len(SubSeq(y, 1, L)) = L
        /\ \A i \in 1..L : SubSeq(y, 1, L)[i] = y[i]
    BY <1>1, <1>2, <1>3
  <2> DEFINE a == SubSeq(x, 1, L)
             b == SubSeq(y, 1, L)
  <2> HIDE DEF a, b
  <2>3. /\ a = [k \in 1..L |-> a[k]] /\ b = [k \in 1..L |-> b[k]]
        /\ \A k \in 1..L : a[k] = x[k] /\ b[k] = y[k]
    BY <2>1, <2>2 DEF a, b
  <2>4. (a = b) = (\A k \in 1..L : x[k] = y[k])
    <3>1. a = b => \A k \in 1..L : x[k] = y[k]
      BY <2>3
    <3>2. (\A k \in 1..L : x[k] = y[k]) => a = b
      BY <2>3
    <3> QED BY <3>1, <3>2
  <2> QED BY <2>4 DEF a, b
<1> QED BY <1>3 DEF SlashesMore, IsPrefix

\* Two paths are cut to one when they differ in slashes at the end.
LEMMA PathsAgree ==
  ASSUME NEW x, Sequence(x), NEW y, Sequence(y)
  PROVE  (CanonicalPath(x) = CanonicalPath(y)) = (SlashesMore(x, y) \/ SlashesMore(y, x))
<1>1. PICK n \in 0..Len(x) : Kept(x, n)
  BY KeptExists
<1>2. PICK m \in 0..Len(y) : Kept(y, m)
  BY KeptExists
<1> DEFINE Agree == n = m /\ \A k \in 1..n : x[k] = y[k]
           L == Len(x)
           M == Len(y)
<1>3. (CanonicalPath(x) = CanonicalPath(y)) = Agree
  BY <1>1, <1>2, PathIsKept
<1>4. /\ L \in Nat /\ M \in Nat /\ n \in 0..L /\ m \in 0..M
      /\ \A k \in n + 1..L : x[k] = "/"
      /\ \A k \in m + 1..M : y[k] = "/"
      /\ n = 0 \/ x[n] # "/"
      /\ m = 0 \/ y[m] # "/"
  BY <1>1, <1>2, SequenceFacts DEF Kept
<1> DEFINE More1 == L <= M /\ (\A k \in 1..L : x[k] = y[k]) /\ \A k \in L + 1..M : y[k] = "/"
           More2 == M <= L /\ (\A k \in 1..M : y[k] = x[k]) /\ \A k \in M + 1..L : x[k] = "/"
<1>5. SlashesMore(x, y) = More1 /\ SlashesMore(y, x) = More2
  BY SlashesMoreIs
<1>6. ASSUME More1 PROVE Agree
  <2>1. n \in 0..M /\ \A k \in n + 1..M : k \in n + 1..L \/ k \in L + 1..M
    BY <1>4, <1>6
  <2>2. \A k \in n + 1..L : k \in 1..L
    BY <1>4
  <2>3. \A k \in n + 1..M : y[k] = "/"
    BY <1>4, <1>6, <2>1, <2>2
  <2>4. n = 0 \/ y[n] # "/"
    BY <1>4, <1>6
  <2>5. Kept(y, n)
    BY <2>1, <2>3, <2>4 DEF Kept
  <2>6. n = m
    BY <1>2, <2>5, KeptUnique
  <2> QED BY <1>4, <1>6, <2>6
<1>7. ASSUME More2 PROVE Agree
  <2>1. m \in 0..L /\ \A k \in m + 1..L : k \in m + 1..M \/ k \in M + 1..L
    BY <1>4, <1>7
  <2>2. \A k \in m + 1..M : k \in 1..M
    BY <1>4
  <2>3. \A k \in m + 1..L : x[k] = "/"
    BY <1>4, <1>7, <2>1, <2>2
  <2>4. m = 0 \/ x[m] # "/"
    BY <1>4, <1>7
  <2>5. Kept(x, m)
    BY <2>1, <2>3, <2>4 DEF Kept
  <2>6. n = m
    BY <1>1, <2>5, KeptUnique
  <2> QED BY <1>4, <1>7, <2>6
<1>8. ASSUME Agree PROVE More1 \/ More2
  <2>1. \A k \in 1..L : k \in 1..M => k \in 1..n \/ (k \in n + 1..L /\ k \in m + 1..M)
    BY <1>4, <1>8
  <2>2. \A k \in 1..L : k \in 1..M => x[k] = y[k]
    BY <1>4, <1>8, <2>1
  <2>3. CASE L <= M
    <3>1. \A k \in L + 1..M : k \in m + 1..M
      BY <1>4, <1>8
    <3> QED BY <1>4, <2>2, <2>3, <3>1
  <2>4. CASE M <= L
    <3>1. \A k \in M + 1..L : k \in n + 1..L
      BY <1>4, <1>8
    <3> QED BY <1>4, <2>2, <2>4, <3>1
  <2> QED BY <1>4, <2>3, <2>4
<1> HIDE DEF Agree, More1, More2
<1> QED BY <1>3, <1>5, <1>6, <1>7, <1>8

\* A canonical path stays as it is.
LEMMA PathStays ==
  ASSUME NEW p, Sequence(p)
  PROVE  LET c == CanonicalPath(Unescaped(p)) IN
         /\ Sequence(Unescaped(p))
         /\ CanonicalPath(Unescaped(c)) = c
<1> DEFINE x == Unescaped(p)
           L == Len(p)
           c == CanonicalPath(x)
<1>1. L \in Nat /\ DOMAIN p = 1..L
  BY SequenceFacts
<1>2. /\ x = [k \in 1..L |-> x[k]]
      /\ \A k \in 1..L : x[k] # "%2F" /\ x[k] # "%61"
  BY <1>1 DEF Unescaped
<1> HIDE DEF L, x
<1>3. Sequence(x) /\ Len(x) = L
  BY <1>1, <1>2, SequenceByIndex
<1>4. PICK n \in 0..Len(x) : Kept(x, n)
  BY <1>3, KeptExists
<1>5. n \in Nat /\ n \in 0..L /\ (n = 0 \/ x[n] # "/")
  BY <1>1, <1>3, <1>4 DEF Kept
<1>6. c = IF n = 0 THEN <<"/">> ELSE [k \in 1..n |-> x[k]]
  BY <1>3, <1>4, CanonicalPathIs
<1> HIDE DEF c
<1> DEFINE l == IF n = 0 THEN 1 ELSE n
<1>7. /\ l \in Nat /\ c = [k \in 1..l |-> c[k]] /\ Len(c) = l /\ DOMAIN c = 1..l
      /\ \A k \in 1..l : c[k] # "%2F" /\ c[k] # "%61"
  <2>1. CASE n = 0
    <3>1. c = <<"/">> /\ l = 1
      BY <1>6, <2>1
    <3> QED BY <3>1
  <2>2. CASE n # 0
    <3>1. c = [k \in 1..n |-> x[k]] /\ l = n
      BY <1>6, <2>2
    <3>2. \A k \in 1..n : k \in 1..L
      BY <1>1, <1>5
    <3> QED BY <1>2, <1>5, <3>1, <3>2
  <2> QED BY <2>1, <2>2
<1>8. Sequence(c)
  BY <1>7, SequenceByIndex
<1>9. Unescaped(c) = c
  <2>1. Unescaped(c) = [k \in 1..l |-> CASE c[k] = "%2F" -> "/" [] c[k] = "%61" -> "a" [] OTHER -> c[k]]
    BY <1>7 DEF Unescaped
  <2>2. ASSUME NEW k \in 1..l
        PROVE  (CASE c[k] = "%2F" -> "/" [] c[k] = "%61" -> "a" [] OTHER -> c[k]) = c[k]
    BY <1>7, Zenon
  <2> QED BY <1>7, <2>1, <2>2
<1>10. CanonicalPath(c) = c
  <2>1. CASE n = 0
    <3>1. c = <<"/">>
      BY <1>6, <2>1
    <3>2. Kept(c, 0)
      BY <3>1 DEF Kept
    <3> QED BY <1>8, <3>1, <3>2, CanonicalPathIs
  <2>2. CASE n # 0
    <3>1. l = n /\ c = [k \in 1..n |-> x[k]]
      BY <1>6, <2>2
    <3>2. n \in 0..Len(c) /\ (\A k \in n + 1..Len(c) : FALSE) /\ c[n] # "/"
      BY <1>5, <1>7, <2>2, <3>1
    <3>3. Kept(c, n)
      BY <3>2 DEF Kept
    <3>4. CanonicalPath(c) = [k \in 1..n |-> c[k]]
      BY <1>8, <2>2, <3>3, CanonicalPathIs
    <3> QED BY <1>7, <3>1, <3>4
  <2> QED BY <2>1, <2>2
<1> QED BY <1>3, <1>9, <1>10 DEF c, x

\* Where the parameters of a set stand in a query.
Places(query, B) == {k \in DOMAIN query : query[k] \in B}
IsQuery(query) == Sequence(query) /\ ToSet(query) \subseteq Nat \X Nat

LEMMA ApartAdds ==
  ASSUME NEW S, IsFiniteSet(S), NEW T, IsFiniteSet(T), S \cap T = {}
  PROVE  IsFiniteSet(S \cup T) /\ Cardinality(S \cup T) = Cardinality(S) + Cardinality(T)
<1>1. /\ IsFiniteSet(S \cup T)
      /\ Cardinality(S \cup T) = Cardinality(S) + Cardinality(T) - Cardinality(S \cap T)
  BY FS_Union
<1>2. Cardinality(S \cap T) = 0
  BY FS_EmptySet
<1>3. Cardinality(S) \in Nat /\ Cardinality(T) \in Nat
  BY FS_CardinalityType
<1> QED BY <1>1, <1>2, <1>3

LEMMA BeforeOrders ==
  /\ \A p \in Nat \X Nat : ~Before(p, p)
  /\ \A p, q, r \in Nat \X Nat : Before(p, q) /\ Before(q, r) => Before(p, r)
  /\ \A p, q \in Nat \X Nat : p = q \/ Before(p, q) \/ Before(q, p)
<1>1. \A p \in Nat \X Nat : p[1] \in Nat /\ p[2] \in Nat /\ p = <<p[1], p[2]>>
  OBVIOUS
<1>2. \A p \in Nat \X Nat : ~Before(p, p)
  BY <1>1 DEF Before
<1>3. \A p, q, r \in Nat \X Nat : Before(p, q) /\ Before(q, r) => Before(p, r)
  BY <1>1 DEF Before
<1>4. ASSUME NEW p \in Nat \X Nat, NEW q \in Nat \X Nat, ~Before(p, q), ~Before(q, p) PROVE p = q
  <2>1. p[1] = q[1] /\ p[2] = q[2]
    BY <1>1, <1>4 DEF Before
  <2> QED BY <1>1, <2>1
<1> QED BY <1>2, <1>3, <1>4

LEMMA QueryCounts ==
  ASSUME NEW q, IsQuery(q)
  PROVE  /\ Len(q) \in Nat /\ DOMAIN q = 1..Len(q)
         /\ \A k \in 1..Len(q) : q[k] \in ToSet(q) /\ q[k] \in Nat \X Nat
         /\ \A r \in ToSet(q) : \E k \in 1..Len(q) : q[k] = r
         /\ \A S \in SUBSET (1..Len(q)) : IsFiniteSet(S) /\ Cardinality(S) \in 0..Len(q)
         /\ \A r : Smaller(r, q) \in Nat /\ Occurs(r, q) \in Nat
         /\ \A r : Occurs(r, q) = 0 <=> r \notin ToSet(q)
<1> DEFINE L == Len(q)
<1>1. L \in Nat /\ DOMAIN q = 1..L /\ \A k \in 1..L : q[k] \in ToSet(q)
  BY SequenceFacts DEF IsQuery
<1>2. \A k \in 1..L : q[k] \in Nat \X Nat
  BY <1>1 DEF IsQuery
<1>3. \A r \in ToSet(q) : \E k \in 1..L : q[k] = r
  BY <1>1 DEF ToSet
<1> HIDE DEF L
<1>4. IsFiniteSet(1..L) /\ Cardinality(1..L) = L
  BY <1>1, FS_Interval
<1>5. ASSUME NEW S \in SUBSET (1..L) PROVE IsFiniteSet(S) /\ Cardinality(S) \in 0..L
  <2>1. IsFiniteSet(S) /\ Cardinality(S) <= L
    BY <1>4, FS_Subset
  <2>2. Cardinality(S) \in Nat
    BY <2>1, FS_CardinalityType
  <2> QED BY <1>1, <2>1, <2>2
<1>6. ASSUME NEW r
      PROVE  /\ Smaller(r, q) \in Nat /\ Occurs(r, q) \in Nat
             /\ Occurs(r, q) = 0 <=> r \notin ToSet(q)
  <2> DEFINE A == {k \in 1..L : Before(q[k], r)}
             B == {k \in 1..L : q[k] = r}
  <2>1. Smaller(r, q) = Cardinality(A) /\ Occurs(r, q) = Cardinality(B)
    BY <1>1 DEF Smaller, Occurs
  <2>2. A \in SUBSET (1..L) /\ B \in SUBSET (1..L)
    OBVIOUS
  <2>3. B = {} <=> r \notin ToSet(q)
    BY <1>1, <1>3
  <2> HIDE DEF A, B
  <2>4. IsFiniteSet(B) /\ Cardinality(A) \in 0..L /\ Cardinality(B) \in 0..L
    BY <1>5, <2>2
  <2>5. Cardinality(B) = 0 <=> B = {}
    BY <2>4, FS_EmptySet
  <2> QED BY <1>1, <2>1, <2>3, <2>4, <2>5
<1> QED BY <1>1, <1>2, <1>3, <1>5, <1>6 DEF L

\* The places a parameter takes follow those of all that come before it.
LEMMA RankAdds ==
  ASSUME NEW q, IsQuery(q), NEW p \in ToSet(q)
  PROVE  /\ Smaller(p, q) + Occurs(p, q) <= Len(q)
         /\ \A r \in ToSet(q) : Before(p, r) => Smaller(p, q) + Occurs(p, q) <= Smaller(r, q)
<1> DEFINE L == Len(q)
           A(r) == {k \in 1..L : Before(q[k], r)}
           B == {k \in 1..L : q[k] = p}
<1>1. /\ L \in Nat /\ DOMAIN q = 1..L
      /\ \A k \in 1..L : q[k] \in Nat \X Nat
      /\ \A S \in SUBSET (1..L) : IsFiniteSet(S) /\ Cardinality(S) \in 0..L
  BY QueryCounts
<1>2. p \in Nat \X Nat /\ \A r \in ToSet(q) : r \in Nat \X Nat
  BY DEF IsQuery
<1>3. Occurs(p, q) = Cardinality(B) /\ \A r : Smaller(r, q) = Cardinality(A(r))
  BY <1>1 DEF Occurs, Smaller
<1>4. A(p) \in SUBSET (1..L) /\ B \in SUBSET (1..L) /\ A(p) \cup B \in SUBSET (1..L)
  OBVIOUS
<1>5. A(p) \cap B = {}
  BY <1>2, BeforeOrders
<1>6. Cardinality(A(p) \cup B) = Smaller(p, q) + Occurs(p, q)
  <2>1. IsFiniteSet(A(p)) /\ IsFiniteSet(B)
    BY <1>1, <1>4
  <2> HIDE DEF A, B
  <2> QED BY <1>3, <1>5, <2>1, ApartAdds
<1>7. Cardinality(A(p) \cup B) <= L
  <2> HIDE DEF A, B
  <2>1. Cardinality(A(p) \cup B) \in 0..L
    BY <1>1, <1>4
  <2> QED BY <1>1, <2>1
<1>8. ASSUME NEW r \in ToSet(q), Before(p, r) PROVE Smaller(p, q) + Occurs(p, q) <= Smaller(r, q)
  <2>1. A(p) \cup B \subseteq A(r)
    BY <1>1, <1>2, <1>8, BeforeOrders
  <2>2. A(r) \in SUBSET (1..L)
    OBVIOUS
  <2>3. IsFiniteSet(A(r))
    BY <1>1, <2>2
  <2>4. Cardinality(A(p) \cup B) <= Cardinality(A(r))
    <3> HIDE DEF A, B
    <3> QED BY <2>1, <2>3, FS_Subset
  <2> QED BY <1>3, <1>6, <2>4
<1> QED BY <1>6, <1>7, <1>8

Span(p, q) == Smaller(p, q) + 1..Smaller(p, q) + Occurs(p, q)

\* Every place is some parameter's,
LEMMA PlaceTaken ==
  ASSUME NEW q, IsQuery(q), NEW i \in 1..Len(q)
  PROVE  \E p \in ToSet(q) : i \in Span(p, q)
<1> DEFINE L == Len(q)
<1>1. /\ L \in Nat /\ i \in 1..L /\ DOMAIN q = 1..L
      /\ \A k \in 1..L : q[k] \in ToSet(q) /\ q[k] \in Nat \X Nat
      /\ \A r \in ToSet(q) : \E k \in 1..L : q[k] = r
      /\ \A S \in SUBSET (1..L) : IsFiniteSet(S) /\ Cardinality(S) \in 0..L
      /\ \A r \in ToSet(q) : Smaller(r, q) \in Nat /\ Occurs(r, q) \in Nat /\ Occurs(r, q) # 0
  BY QueryCounts
<1>2. \A r \in ToSet(q) : r \in Nat \X Nat
  BY DEF IsQuery
<1>3. \A p, r \in ToSet(q) : Before(p, r) => Smaller(p, q) + Occurs(p, q) <= Smaller(r, q)
  BY RankAdds
<1> HIDE DEF L
<1>0. i \in Nat /\ \A r \in ToSet(q) : Smaller(r, q) \in Nat /\ Occurs(r, q) \in Nat /\ Occurs(r, q) # 0
  BY <1>1
<1> DEFINE Low == {p \in ToSet(q) : Smaller(p, q) < i}
<1>4. \E p \in ToSet(q) : Smaller(p, q) = 0
  <2> DEFINE T == {Smaller(p, q) : p \in ToSet(q)}
  <2>1. T \subseteq Nat /\ T # {}
    BY <1>1
  <2>2. PICK m \in T : \A t \in T : m <= t
    BY <2>1, LeastNat
  <2>3. PICK p \in ToSet(q) : m = Smaller(p, q)
    OBVIOUS
  <2>4. \A k \in 1..L : ~Before(q[k], p)
    <3>1. ASSUME NEW k \in 1..L, Before(q[k], p) PROVE FALSE
      <4> DEFINE r == q[k]
      <4>1. r \in ToSet(q)
        BY <1>1
      <4> HIDE DEF r
      <4>2. Smaller(r, q) + Occurs(r, q) <= Smaller(p, q)
        BY <1>3, <2>3, <3>1, <4>1 DEF r
      <4>3. m <= Smaller(r, q)
        BY <2>2, <4>1
      <4>4. Smaller(r, q) \in Nat /\ Occurs(r, q) \in Nat /\ Occurs(r, q) # 0 /\ Smaller(p, q) \in Nat
        BY <1>0, <4>1
      <4>5. Smaller(p, q) <= Smaller(r, q)
        BY <2>3, <4>3
      <4> QED BY <4>2, <4>4, <4>5
    <3> QED BY <3>1
  <2>5. {k \in DOMAIN q : Before(q[k], p)} = {}
    BY <1>1, <2>4
  <2>6. Smaller(p, q) = 0
    BY <2>5, FS_EmptySet DEF Smaller
  <2> QED BY <2>6
<1>5. PICK p \in Low : \A r \in Low : Smaller(r, q) <= Smaller(p, q)
  <2> DEFINE T == {i - Smaller(r, q) : r \in Low}
  <2>1. T \subseteq Nat /\ T # {}
    <3>1. PICK r \in ToSet(q) : Smaller(r, q) = 0
      BY <1>4
    <3>2. r \in Low
      BY <1>1, <3>1
    <3>3. ASSUME NEW x \in Low PROVE i - Smaller(x, q) \in Nat
      <4>1. Smaller(x, q) \in Nat /\ Smaller(x, q) < i
        BY <1>0
      <4> QED BY <1>0, <4>1
    <3> QED BY <3>2, <3>3
  <2>2. PICK m \in T : \A t \in T : m <= t
    <3> HIDE DEF T
    <3> QED BY <2>1, LeastNat
  <2>3. PICK p \in Low : m = i - Smaller(p, q)
    OBVIOUS
  <2>4. ASSUME NEW r \in Low PROVE Smaller(r, q) <= Smaller(p, q)
    <3>1. m <= i - Smaller(r, q)
      BY <2>2
    <3>2. Smaller(r, q) \in Nat /\ Smaller(p, q) \in Nat /\ i \in Nat
      BY <1>1
    <3> QED BY <2>3, <3>1, <3>2
  <2> QED BY <2>4
<1>6. p \in ToSet(q) /\ Smaller(p, q) < i
  OBVIOUS
<1> HIDE DEF Low
<1>7. i <= Smaller(p, q) + Occurs(p, q)
  <2> DEFINE s == Smaller(p, q) + Occurs(p, q)
             After == {r \in ToSet(q) : Before(p, r)}
             T == {Smaller(r, q) : r \in After}
  <2>1. SUFFICES ASSUME s < i PROVE FALSE
    BY <1>1, <1>6
  <2>2. After # {}
    <3>1. SUFFICES ASSUME After = {} PROVE FALSE
      OBVIOUS
    <3> DEFINE A == {k \in 1..L : Before(q[k], p)}
               B == {k \in 1..L : q[k] = p}
    <3>2. \A k \in 1..L : k \in A \cup B
      BY <1>1, <1>2, <1>6, <3>1, BeforeOrders
    <3>3. A \cup B = 1..L /\ A \cap B = {}
      BY <1>2, <1>6, <3>2, BeforeOrders
    <3>4. A \in SUBSET (1..L) /\ B \in SUBSET (1..L)
      OBVIOUS
    <3>5. Cardinality(A) = Smaller(p, q) /\ Cardinality(B) = Occurs(p, q)
      BY <1>1 DEF Smaller, Occurs
    <3> HIDE DEF A, B
    <3>6. IsFiniteSet(A) /\ IsFiniteSet(B)
      BY <1>1, <3>4
    <3>7. Cardinality(A \cup B) = Cardinality(A) + Cardinality(B)
      BY <3>3, <3>6, ApartAdds
    <3>8. Cardinality(1..L) = L
      BY <1>1, FS_Interval
    <3>9. L = s
      BY <3>3, <3>5, <3>7, <3>8
    <3> QED BY <1>1, <2>1, <3>9
  <2>3. T \subseteq Nat /\ T # {}
    BY <1>1, <2>2
  <2>4. PICK m \in T : \A t \in T : m <= t
    <3> HIDE DEF T
    <3> QED BY <2>3, LeastNat
  <2>5. PICK r \in After : m = Smaller(r, q)
    OBVIOUS
  <2> DEFINE A == {k \in 1..L : Before(q[k], p)}
             B == {k \in 1..L : q[k] = p}
             C == {k \in 1..L : Before(q[k], r)}
  <2>6. C \subseteq A \cup B
    <3>1. ASSUME NEW k \in C, k \notin A, k \notin B PROVE FALSE
      <4> DEFINE x == q[k]
      <4>1. x \in ToSet(q) /\ Before(x, r) /\ Before(p, x)
        BY <1>1, <1>2, <1>6, <3>1, BeforeOrders
      <4> HIDE DEF x
      <4>2. x \in After
        BY <4>1
      <4>3. m <= Smaller(x, q)
        BY <2>4, <4>2
      <4>4. Smaller(x, q) + Occurs(x, q) <= Smaller(r, q)
        BY <1>3, <4>1
      <4>5. Smaller(x, q) \in Nat /\ Occurs(x, q) \in Nat /\ Occurs(x, q) # 0 /\ Smaller(r, q) \in Nat
        BY <1>0, <4>1
      <4>6. Smaller(r, q) <= Smaller(x, q)
        BY <2>5, <4>3
      <4> QED BY <4>4, <4>5, <4>6
    <3> QED BY <3>1
  <2>7. Cardinality(A) = Smaller(p, q) /\ Cardinality(B) = Occurs(p, q) /\ Cardinality(C) = Smaller(r, q)
    BY <1>1 DEF Smaller, Occurs
  <2>8. A \in SUBSET (1..L) /\ B \in SUBSET (1..L) /\ A \cap B = {}
    BY <1>2, <1>6, BeforeOrders
  <2>9. r \in ToSet(q) /\ Before(p, r)
    OBVIOUS
  <2> HIDE DEF A, B, C
  <2>10. IsFiniteSet(A) /\ IsFiniteSet(B)
    BY <1>1, <2>8
  <2>11. IsFiniteSet(A \cup B) /\ Cardinality(A \cup B) = s
    <3>1. IsFiniteSet(A \cup B) /\ Cardinality(A \cup B) = Cardinality(A) + Cardinality(B)
      BY <2>8, <2>10, ApartAdds
    <3> QED BY <2>7, <3>1
  <2>12. Cardinality(C) <= s
    BY <2>6, <2>11, FS_Subset
  <2>13. Smaller(r, q) < i
    <3>1. Smaller(r, q) \in Nat /\ Smaller(p, q) \in Nat /\ Occurs(p, q) \in Nat /\ i \in Nat
      BY <1>0, <1>6, <2>9
    <3>2. Smaller(r, q) <= s
      BY <2>7, <2>12
    <3> QED BY <2>1, <3>1, <3>2
  <2>14. Smaller(r, q) <= Smaller(p, q)
    BY <1>5, <2>9, <2>13 DEF Low
  <2>15. Smaller(p, q) + Occurs(p, q) <= Smaller(r, q)
    BY <1>3, <1>6, <2>9
  <2>16. Smaller(r, q) \in Nat /\ Smaller(p, q) \in Nat /\ Occurs(p, q) \in Nat /\ Occurs(p, q) # 0
    BY <1>0, <1>6, <2>9
  <2> QED BY <2>14, <2>15, <2>16
<1> QED BY <1>1, <1>6, <1>7 DEF Span

\* and of one only.
LEMMA PlaceOfOne ==
  ASSUME NEW q, IsQuery(q), NEW p \in ToSet(q), NEW r \in ToSet(q),
         NEW i, i \in Span(p, q), i \in Span(r, q)
  PROVE  p = r
<1>1. /\ Smaller(p, q) \in Nat /\ Occurs(p, q) \in Nat
      /\ Smaller(r, q) \in Nat /\ Occurs(r, q) \in Nat
  BY QueryCounts
<1>2. p \in Nat \X Nat /\ r \in Nat \X Nat
  BY DEF IsQuery
<1>3. ~Before(p, r)
  <2>1. Before(p, r) => Smaller(p, q) + Occurs(p, q) <= Smaller(r, q)
    BY RankAdds
  <2> QED BY <1>1, <2>1 DEF Span
<1>4. ~Before(r, p)
  <2>1. Before(r, p) => Smaller(r, q) + Occurs(r, q) <= Smaller(p, q)
    BY RankAdds
  <2> QED BY <1>1, <2>1 DEF Span
<1> QED BY <1>2, <1>3, <1>4, BeforeOrders

\* Sorting keeps the parameters, each as often as it was.
LEMMA SortingKeeps ==
  ASSUME NEW q, IsQuery(q)
  PROVE  LET s == InOrder(q) IN
         /\ IsQuery(s) /\ ToSet(s) = ToSet(q)
         /\ \A r : Occurs(r, s) = Occurs(r, q)
<1> DEFINE L == Len(q)
           Place(i) == CHOOSE p \in ToSet(q) : i \in Span(p, q)
           s == InOrder(q)
<1>1. /\ L \in Nat /\ DOMAIN q = 1..L
      /\ \A r : Smaller(r, q) \in Nat /\ Occurs(r, q) \in Nat
      /\ \A r : Occurs(r, q) = 0 <=> r \notin ToSet(q)
  BY QueryCounts
<1>2. s = [i \in 1..L |-> Place(i)]
  BY <1>1 DEF InOrder, Span
<1>3. \A i \in 1..L : Place(i) \in ToSet(q) /\ i \in Span(Place(i), q)
  BY PlaceTaken
<1> HIDE DEF L, s, Place
<1>4. s = [i \in 1..L |-> s[i]] /\ DOMAIN s = 1..L
      /\ \A i \in 1..L : s[i] \in ToSet(q) /\ i \in Span(s[i], q)
  BY <1>2, <1>3
<1>5. Sequence(s) /\ ToSet(s) \subseteq ToSet(q)
  BY <1>1, <1>4, SequenceByIndex DEF ToSet
<1>6. IsQuery(s)
  BY <1>5 DEF IsQuery
<1>7. ASSUME NEW r PROVE Occurs(r, s) = Occurs(r, q)
  <2>1. CASE r \in ToSet(q)
    <3> DEFINE a == Smaller(r, q)
               b == Occurs(r, q)
    <3>1. a \in Nat /\ b \in Nat /\ b # 0 /\ a + b <= L
      BY <1>1, <2>1, RankAdds DEF L
    <3>2. \A i \in a + 1..a + b : i \in 1..L
      BY <1>1, <3>1
    <3>3. \A i \in 1..L : s[i] = r <=> i \in Span(r, q)
      BY <1>4, <2>1, PlaceOfOne
    <3>4. Span(r, q) = a + 1..a + b
      BY DEF Span
    <3>5. {i \in DOMAIN s : s[i] = r} = a + 1..a + b
      BY <1>4, <3>2, <3>3, <3>4
    <3>6. Cardinality(a + 1..a + b) = b
      <4> HIDE DEF a, b
      <4>1. a + 1 \in Int /\ a + b \in Int /\ ~(a + 1 > a + b) /\ (a + b) - (a + 1) + 1 = b
        BY <3>1
      <4>2. Cardinality(a + 1..a + b) = IF a + 1 > a + b THEN 0 ELSE (a + b) - (a + 1) + 1
        BY <4>1, FS_Interval
      <4> QED BY <4>1, <4>2
    <3> QED BY <3>5, <3>6 DEF Occurs
  <2>2. CASE r \notin ToSet(q)
    <3>1. r \notin ToSet(s)
      BY <1>5, <2>2
    <3>2. Occurs(r, s) = 0
      BY <1>6, <3>1, QueryCounts
    <3> QED BY <1>1, <2>2, <3>2
  <2> QED BY <2>1, <2>2
<1>8. ToSet(q) \subseteq ToSet(s)
  <2>1. ASSUME NEW r \in ToSet(q) PROVE r \in ToSet(s)
    <3>1. Occurs(r, s) # 0
      BY <1>1, <1>7
    <3> QED BY <1>6, <3>1, QueryCounts
  <2> QED BY <2>1
<1> QED BY <1>5, <1>6, <1>7, <1>8 DEF s

SameCounts(p, q) == \A r : Occurs(r, p) = Occurs(r, q)

LEMMA PlacesSplit ==
  ASSUME NEW q, IsQuery(q), NEW B, NEW x \in B
  PROVE  /\ Cardinality(Places(q, B)) = Cardinality(Places(q, B \ {x})) + Occurs(x, q)
         /\ Cardinality(Places(q, B)) \in Nat /\ Cardinality(Places(q, B \ {x})) \in Nat
<1> DEFINE S == Places(q, B \ {x})
           T == {k \in DOMAIN q : q[k] = x}
<1>1. Places(q, B) = S \cup T /\ S \cap T = {}
  BY DEF Places
<1>2. S \in SUBSET (1..Len(q)) /\ T \in SUBSET (1..Len(q)) /\ Places(q, B) \in SUBSET (1..Len(q))
  BY QueryCounts DEF Places
<1>3. Occurs(x, q) = Cardinality(T)
  BY DEF Occurs
<1> HIDE DEF S, T
<1>4. IsFiniteSet(S) /\ IsFiniteSet(T) /\ IsFiniteSet(Places(q, B))
  BY <1>2, QueryCounts
<1>5. Cardinality(S) \in Nat /\ Cardinality(Places(q, B)) \in Nat
  BY <1>4, FS_CardinalityType
<1>6. Cardinality(S \cup T) = Cardinality(S) + Cardinality(T)
  BY <1>1, <1>4, ApartAdds
<1> QED BY <1>1, <1>3, <1>5, <1>6 DEF S

LEMMA NonePlaced ==
  ASSUME NEW q, IsQuery(q), NEW B
  PROVE  (Cardinality(Places(q, B)) = 0) <=> (\A r \in B : Occurs(r, q) = 0)
<1>1. Places(q, B) \in SUBSET (1..Len(q))
  BY QueryCounts DEF Places
<1>2. IsFiniteSet(Places(q, B))
  BY <1>1, QueryCounts
<1>3. Cardinality(Places(q, B)) = 0 <=> Places(q, B) = {}
  BY <1>2, FS_EmptySet
<1>4. Places(q, B) = {} <=> \A r \in B : r \notin ToSet(q)
  BY QueryCounts DEF Places
<1> QED BY <1>3, <1>4, QueryCounts

\* Two queries with the same parameters have as many in every set.
LEMMA SamePlaces ==
  ASSUME NEW p, IsQuery(p), NEW q, IsQuery(q), SameCounts(p, q), NEW B
  PROVE  Cardinality(Places(p, B)) = Cardinality(Places(q, B))
<1> DEFINE Wrong(C) == Cardinality(Places(p, C)) # Cardinality(Places(q, C))
           T == {Cardinality(Places(p, C)) : C \in {D \in SUBSET B : Wrong(D)}}
<1>1. SUFFICES ASSUME Wrong(B) PROVE FALSE
  OBVIOUS
<1>2. ASSUME NEW C, NEW r, IsQuery(r) PROVE Cardinality(Places(r, C)) \in Nat
  <2>1. Places(r, C) \in SUBSET (1..Len(r))
    BY <1>2, QueryCounts DEF Places
  <2>2. IsFiniteSet(Places(r, C))
    BY <1>2, <2>1, QueryCounts
  <2> QED BY <2>2, FS_CardinalityType
<1>3. T \subseteq Nat /\ T # {}
  BY <1>1, <1>2
<1>4. PICK m \in T : \A t \in T : m <= t
  <2> HIDE DEF T
  <2> QED BY <1>3, LeastNat
<1>5. PICK C \in SUBSET B : Wrong(C) /\ m = Cardinality(Places(p, C))
  OBVIOUS
<1>6. PICK x \in C : Occurs(x, p) # 0
  <2>1. SUFFICES ASSUME \A x \in C : Occurs(x, p) = 0 PROVE FALSE
    OBVIOUS
  <2>2. \A x \in C : Occurs(x, q) = 0
    BY <2>1 DEF SameCounts
  <2>3. Cardinality(Places(p, C)) = 0 /\ Cardinality(Places(q, C)) = 0
    BY <2>1, <2>2, NonePlaced
  <2> QED BY <1>5, <2>3
<1> DEFINE D == C \ {x}
           c == Cardinality(Places(p, C))
           d == Cardinality(Places(p, D))
           e == Cardinality(Places(q, C))
           f == Cardinality(Places(q, D))
<1>7. c = d + Occurs(x, p) /\ e = f + Occurs(x, q)
  BY PlacesSplit
<1>8. Occurs(x, p) = Occurs(x, q) /\ Occurs(x, p) \in Nat
  BY QueryCounts DEF SameCounts
<1>9. c \in Nat /\ d \in Nat /\ e \in Nat /\ f \in Nat
  BY <1>2
<1>10. d # f
  <2>1. c # e
    BY <1>5
  <2> HIDE DEF c, d, e, f
  <2> QED BY <1>7, <1>8, <1>9, <2>1
<1>11. d \in T
  <2>1. D \in SUBSET B /\ Wrong(D)
    BY <1>10
  <2> QED BY <2>1
<1>12. m <= d /\ m = c
  BY <1>4, <1>5, <1>11
<1> HIDE DEF c, d
<1> QED BY <1>6, <1>7, <1>8, <1>9, <1>12

\* Two queries are sorted into one when they have the same parameters.
LEMMA SortedAlike ==
  ASSUME NEW p, IsQuery(p), NEW q, IsQuery(q)
  PROVE  InOrder(p) = InOrder(q) <=> SameCounts(p, q)
<1>1. ASSUME InOrder(p) = InOrder(q) PROVE SameCounts(p, q)
  BY <1>1, SortingKeeps DEF SameCounts
<1>2. ASSUME SameCounts(p, q) PROVE InOrder(p) = InOrder(q)
  <2>1. ToSet(p) = ToSet(q)
    <3>1. \A r : Occurs(r, p) = Occurs(r, q)
      BY <1>2 DEF SameCounts
    <3>2. \A r : r \in ToSet(p) <=> r \in ToSet(q)
      BY <3>1, QueryCounts
    <3> QED BY <3>2
  <2>2. DOMAIN p = DOMAIN q
    <3> DEFINE U == ToSet(p)
    <3>1. /\ Len(p) \in Nat /\ Len(q) \in Nat /\ DOMAIN p = 1..Len(p) /\ DOMAIN q = 1..Len(q)
          /\ \A k \in 1..Len(p) : p[k] \in ToSet(p)
          /\ \A k \in 1..Len(q) : q[k] \in ToSet(q)
      BY QueryCounts
    <3>2. Places(p, U) = 1..Len(p) /\ Places(q, U) = 1..Len(q)
      BY <2>1, <3>1 DEF Places
    <3> HIDE DEF U
    <3>3. ASSUME NEW n \in Nat PROVE Cardinality(1..n) = n
      BY FS_Interval
    <3>4. Cardinality(Places(p, U)) = Cardinality(Places(q, U))
      BY <1>2, SamePlaces
    <3> QED BY <3>1, <3>2, <3>3, <3>4
  <2>3. ASSUME NEW r PROVE Smaller(r, p) = Smaller(r, q)
    <3> DEFINE B == {x \in ToSet(p) : Before(x, r)}
    <3>1. /\ {k \in DOMAIN p : Before(p[k], r)} = Places(p, B)
          /\ {k \in DOMAIN q : Before(q[k], r)} = Places(q, B)
      BY <2>1, QueryCounts DEF Places
    <3>2. Cardinality(Places(p, B)) = Cardinality(Places(q, B))
      BY <1>2, SamePlaces
    <3> QED BY <3>1, <3>2 DEF Smaller
  <2>4. \A r : Occurs(r, p) = Occurs(r, q)
    BY <1>2 DEF SameCounts
  <2>5. \A r : Span(r, p) = Span(r, q)
    BY <2>3, <2>4 DEF Span
  <2>6. InOrder(p) = [i \in DOMAIN p |-> CHOOSE r \in ToSet(p) : i \in Span(r, p)]
    BY DEF InOrder, Span
  <2>7. InOrder(q) = [i \in DOMAIN q |-> CHOOSE r \in ToSet(q) : i \in Span(r, q)]
    BY DEF InOrder, Span
  <2> QED BY <2>1, <2>2, <2>5, <2>6, <2>7
<1> QED BY <1>1, <1>2

\* The query of the canonical form tells parameters apart, not their order.
LEMMA QueriesAgree ==
  ASSUME NEW p, IsQuery(p), NEW q, IsQuery(q)
  PROVE  /\ SortQuery(p) = SortQuery(q) <=> SameParams(p, q)
         /\ SortQuery(SortQuery(p)) = SortQuery(p)
<1>1. ASSUME NEW r, IsQuery(r) PROVE Malformed(r) <=> \E x \in ToSet(r) : x[1] = 0
  BY <1>1, QueryCounts DEF Malformed
<1>2. ASSUME NEW r, IsQuery(r), ~Malformed(r)
      PROVE  IsQuery(InOrder(r)) /\ ~Malformed(InOrder(r)) /\ SortQuery(r) = InOrder(r)
  <2>1. IsQuery(InOrder(r)) /\ ToSet(InOrder(r)) = ToSet(r)
    BY <1>2, SortingKeeps
  <2>2. ~Malformed(InOrder(r))
    BY <1>1, <1>2, <2>1
  <2> QED BY <1>2, <2>1, <2>2, Zenon DEF SortQuery
<1>3. ASSUME NEW r, Malformed(r) PROVE SortQuery(r) = r
  BY <1>3, Zenon DEF SortQuery
<1> DEFINE Agree == SortQuery(p) = SortQuery(q) <=> SameParams(p, q)
<1>4. ASSUME Malformed(p) \/ Malformed(q) PROVE Agree
  <2>1. SameParams(p, q) <=> p = q
    BY <1>4, Zenon DEF SameParams
  <2>2. CASE Malformed(p) /\ Malformed(q)
    BY <1>3, <2>1, <2>2
  <2>3. CASE Malformed(p) /\ ~Malformed(q)
    <3>1. SortQuery(p) = p /\ ~Malformed(SortQuery(q))
      BY <1>2, <1>3, <2>3
    <3> QED BY <2>1, <2>3, <3>1, Zenon
  <2>4. CASE ~Malformed(p) /\ Malformed(q)
    <3>1. SortQuery(q) = q /\ ~Malformed(SortQuery(p))
      BY <1>2, <1>3, <2>4
    <3>2. p # q /\ SortQuery(p) # SortQuery(q)
      BY <2>4, <3>1
    <3> QED BY <2>1, <3>2
  <2> QED BY <1>4, <2>2, <2>3, <2>4
<1>5. ASSUME ~Malformed(p), ~Malformed(q) PROVE Agree
  <2>1. SameParams(p, q) <=> (\A r \in ToSet(p) \cup ToSet(q) : Occurs(r, p) = Occurs(r, q))
    BY <1>5, Zenon DEF SameParams
  <2>2. (\A r \in ToSet(p) \cup ToSet(q) : Occurs(r, p) = Occurs(r, q)) <=> SameCounts(p, q)
    <3>1. \A r : r \notin ToSet(p) \cup ToSet(q) => Occurs(r, p) = 0 /\ Occurs(r, q) = 0
      BY QueryCounts
    <3> QED BY <3>1 DEF SameCounts
  <2>3. SortQuery(p) = InOrder(p) /\ SortQuery(q) = InOrder(q)
    BY <1>2, <1>5
  <2>4. InOrder(p) = InOrder(q) <=> SameCounts(p, q)
    BY SortedAlike
  <2>5. SortQuery(p) = SortQuery(q) <=> InOrder(p) = InOrder(q)
    BY <2>3
  <2> QED BY <2>1, <2>2, <2>4, <2>5, Zenon
<1>6. SortQuery(SortQuery(p)) = SortQuery(p)
  <2>1. CASE Malformed(p)
    BY <1>3, <2>1
  <2>2. CASE ~Malformed(p)
    <3> DEFINE s == InOrder(p)
    <3>1. IsQuery(s) /\ ~Malformed(s) /\ SortQuery(p) = s
      BY <1>2, <2>2
    <3>2. SortQuery(s) = InOrder(s)
      <4> HIDE DEF s
      <4> QED BY <1>2, <3>1
    <3>3. SameCounts(s, p)
      BY SortingKeeps DEF SameCounts
    <3>4. InOrder(s) = InOrder(p)
      BY <3>1, <3>3, SortedAlike
    <3> QED BY <3>1, <3>2, <3>4
  <2> QED BY <2>1, <2>2
<1> QED BY <1>4, <1>5, <1>6

\* A default port that is written is one that is not.
LEMMA PortsOf ==
  ASSUME NEW D, NEW a, NEW b, NEW sa, NEW sb, NEW ea, NEW eb,
         sa = IF a = D THEN "" ELSE a, sb = IF b = D THEN "" ELSE b,
         ea = IF a = "" THEN D ELSE a, eb = IF b = "" THEN D ELSE b
  PROVE  sa = sb <=> ea = eb
OBVIOUS

LEMMA PortsAgree ==
  ASSUME NEW u, NEW v, u.scheme = v.scheme
  PROVE  StripDefaultPort(u) = StripDefaultPort(v) <=> EffectivePort(u) = EffectivePort(v)
<1> DEFINE D == DefaultPort(u.scheme)
<1>1. D = DefaultPort(v.scheme)
  OBVIOUS
<1> HIDE DEF D
<1>2. /\ StripDefaultPort(u) = IF u.port = D THEN "" ELSE u.port
      /\ StripDefaultPort(v) = IF v.port = D THEN "" ELSE v.port
  BY <1>1 DEF StripDefaultPort, D
<1>3. /\ EffectivePort(u) = IF u.port = "" THEN D ELSE u.port
      /\ EffectivePort(v) = IF v.port = "" THEN D ELSE v.port
  BY <1>1 DEF EffectivePort, D
<1> QED BY <1>2, <1>3, PortsOf, Zenon

LEMMA SameFunction ==
  ASSUME NEW f, NEW g, NEW D, f = [i \in D |-> f[i]], g = [i \in D |-> g[i]], \A i \in D : f[i] = g[i]
  PROVE  f = g
OBVIOUS

LEMMA UrlWith ==
  ASSUME NEW u, IsRecord(u), NEW port, NEW path, NEW query
  PROVE  [u EXCEPT !.upper = FALSE, !.frag = FALSE, !.port = port, !.path = path, !.query = query]
           = [scheme |-> u.scheme, host |-> u.host, port |-> port, path |-> path, query |-> query,
              upper |-> FALSE, frag |-> FALSE]
<1> DEFINE D == {"scheme", "host", "port", "path", "query", "upper", "frag"}
           e == [u EXCEPT !.upper = FALSE, !.frag = FALSE, !.port = port, !.path = path, !.query = query]
           t == [scheme |-> u.scheme, host |-> u.host, port |-> port, path |-> path, query |-> query,
                 upper |-> FALSE, frag |-> FALSE]
<1>1. DOMAIN u = D
  BY DEF IsRecord
<1>2. e = [i \in D |-> e[i]]
  BY <1>1
<1>3. t = [i \in D |-> t[i]]
  OBVIOUS
<1>4. /\ e["scheme"] = u.scheme /\ e["host"] = u.host /\ e["port"] = port /\ e["path"] = path
      /\ e["query"] = query /\ e["upper"] = FALSE /\ e["frag"] = FALSE
  BY <1>1
<1>5. /\ t["scheme"] = u.scheme /\ t["host"] = u.host /\ t["port"] = port /\ t["path"] = path
      /\ t["query"] = query /\ t["upper"] = FALSE /\ t["frag"] = FALSE
  OBVIOUS
<1> HIDE DEF e, t
<1>6. \A i \in D : e[i] = t[i]
  BY <1>4, <1>5
<1> HIDE DEF D
<1>7. e = t
  BY <1>2, <1>3, <1>6, SameFunction
<1> QED BY <1>7 DEF e, t

LEMMA FormIs ==
  ASSUME NEW u, IsSpelling(u), NEW strict, NEW sortQuery
  PROVE  FromParsed(u, strict, sortQuery) =
           [scheme |-> u.scheme, host |-> u.host, port |-> IF strict THEN StripDefaultPort(u) ELSE u.port,
            path |-> CanonicalPath(Unescaped(u.path)),
            query |-> IF sortQuery THEN SortQuery(u.query) ELSE u.query, upper |-> FALSE, frag |-> FALSE]
<1>1. IsRecord(u)
  BY DEF IsSpelling, IsUrl, IsRecord
<1> DEFINE port == IF strict THEN StripDefaultPort(u) ELSE u.port
           path == CanonicalPath(Unescaped(u.path))
           query == IF sortQuery THEN SortQuery(u.query) ELSE u.query
<1>2. FromParsed(u, strict, sortQuery) =
        [u EXCEPT !.upper = FALSE, !.frag = FALSE, !.port = port, !.path = path, !.query = query]
  BY DEF FromParsed
<1> HIDE DEF port, path, query
<1>3. [u EXCEPT !.upper = FALSE, !.frag = FALSE, !.port = port, !.path = path, !.query = query] =
        [scheme |-> u.scheme, host |-> u.host, port |-> port, path |-> path, query |-> query,
         upper |-> FALSE, frag |-> FALSE]
  BY <1>1, UrlWith
<1> QED BY <1>2, <1>3 DEF port, path, query

LEMMA FormsAgree ==
  ASSUME NEW u, IsSpelling(u), NEW v, IsSpelling(v), NEW strict \in BOOLEAN, NEW sortQuery \in BOOLEAN
  PROVE  FromParsed(u, strict, sortQuery) = FromParsed(v, strict, sortQuery)
           <=> SameResource(u, v, strict, sortQuery)
<1> DEFINE port(x) == IF strict THEN StripDefaultPort(x) ELSE x.port
           path(x) == CanonicalPath(Unescaped(x.path))
           query(x) == IF sortQuery THEN SortQuery(x.query) ELSE x.query
           form(x) == [scheme |-> x.scheme, host |-> x.host, port |-> port(x), path |-> path(x),
                       query |-> query(x), upper |-> FALSE, frag |-> FALSE]
           Ports == u.scheme = v.scheme /\ u.host = v.host /\ port(u) = port(v)
           Paths == path(u) = path(v)
           Queries == query(u) = query(v)
<1>1. FromParsed(u, strict, sortQuery) = form(u) /\ FromParsed(v, strict, sortQuery) = form(v)
  BY FormIs
<1>2. form(u) = form(v) <=> Ports /\ Paths /\ Queries
  <2> HIDE DEF port, path, query
  <2> QED OBVIOUS
<1>3. Ports <=> IF strict THEN Origin(u) = Origin(v)
                          ELSE <<u.scheme, u.host, u.port>> = <<v.scheme, v.host, v.port>>
  <2>1. CASE strict
    <3>1. u.scheme = v.scheme => (StripDefaultPort(u) = StripDefaultPort(v) <=> EffectivePort(u) = EffectivePort(v))
      BY PortsAgree
    <3>2. Origin(u) = Origin(v) <=> u.scheme = v.scheme /\ u.host = v.host /\ EffectivePort(u) = EffectivePort(v)
      BY DEF Origin
    <3>3. port(u) = StripDefaultPort(u) /\ port(v) = StripDefaultPort(v)
      BY <2>1
    <3> HIDE DEF port
    <3> QED BY <2>1, <3>1, <3>2, <3>3
  <2>2. CASE ~strict
    BY <2>2
  <2> QED BY <2>1, <2>2
<1>4. Paths <=> SamePath(u.path, v.path)
  <2> DEFINE x == Unescaped(u.path)
             y == Unescaped(v.path)
  <2>1. Sequence(x) /\ Sequence(y)
    BY PathStays DEF IsSpelling
  <2>2. SamePath(u.path, v.path) <=> SlashesMore(x, y) \/ SlashesMore(y, x)
    BY DEF SamePath, SlashesMore
  <2> HIDE DEF x, y
  <2>3. (CanonicalPath(x) = CanonicalPath(y)) = (SlashesMore(x, y) \/ SlashesMore(y, x))
    BY <2>1, PathsAgree
  <2> QED BY <2>2, <2>3 DEF x, y
<1>5. Queries <=> IF sortQuery THEN SameParams(u.query, v.query) ELSE u.query = v.query
  <2>1. IsQuery(u.query) /\ IsQuery(v.query)
    BY DEF IsSpelling, IsQuery
  <2>2. SortQuery(u.query) = SortQuery(v.query) <=> SameParams(u.query, v.query)
    BY <2>1, QueriesAgree
  <2>3. CASE sortQuery
    BY <2>2, <2>3, Zenon
  <2>4. CASE ~sortQuery
    BY <2>4, Zenon
  <2> QED BY <2>3, <2>4
<1> HIDE DEF form, Ports, Paths, Queries
<1>6. SameResource(u, v, strict, sortQuery) <=> Ports /\ Paths /\ Queries
  BY <1>3, <1>4, <1>5, Zenon DEF SameResource
<1> QED BY <1>1, <1>2, <1>6, Zenon

LEMMA FormStays ==
  ASSUME NEW u, IsSpelling(u), NEW strict \in BOOLEAN, NEW sortQuery \in BOOLEAN
  PROVE  LET N(x) == FromParsed(x, strict, sortQuery) IN N(N(u)) = N(u)
<1> DEFINE n == FromParsed(u, strict, sortQuery)
           port == IF strict THEN StripDefaultPort(u) ELSE u.port
           path == CanonicalPath(Unescaped(u.path))
           query == IF sortQuery THEN SortQuery(u.query) ELSE u.query
<1>1. n = [scheme |-> u.scheme, host |-> u.host, port |-> port, path |-> path, query |-> query,
           upper |-> FALSE, frag |-> FALSE]
  BY FormIs
<1>2. CanonicalPath(Unescaped(path)) = path
  BY PathStays DEF IsSpelling
<1>3. (IF sortQuery THEN SortQuery(query) ELSE query) = query
  <2>1. IsQuery(u.query)
    BY DEF IsSpelling, IsQuery
  <2>2. SortQuery(SortQuery(u.query)) = SortQuery(u.query)
    BY <2>1, QueriesAgree
  <2> QED BY <2>2, Zenon
<1> HIDE DEF n, path, query
<1>4. (IF strict THEN StripDefaultPort(n) ELSE n.port) = port
  <2>1. n.port = port /\ n.scheme = u.scheme
    BY <1>1
  <2>2. StripDefaultPort(n) = IF port = DefaultPort(u.scheme) THEN "" ELSE port
    BY <2>1 DEF StripDefaultPort
  <2>3. StripDefaultPort(u) = IF u.port = DefaultPort(u.scheme) THEN "" ELSE u.port
    BY DEF StripDefaultPort
  <2> QED BY <2>1, <2>2, <2>3
<1> HIDE DEF port
<1> DEFINE np == IF strict THEN StripDefaultPort(n) ELSE n.port
           nq == IF sortQuery THEN SortQuery(n.query) ELSE n.query
           npath == CanonicalPath(Unescaped(n.path))
<1>5. FromParsed(n, strict, sortQuery) =
        [n EXCEPT !.upper = FALSE, !.frag = FALSE, !.port = np, !.path = npath, !.query = nq]
  BY DEF FromParsed
<1>6. n.query = query /\ n.path = path
  BY <1>1
<1>7. np = port /\ nq = query /\ npath = path
  BY <1>2, <1>3, <1>4, <1>6
<1> HIDE DEF np, nq, npath
<1>8. [n EXCEPT !.upper = FALSE, !.frag = FALSE, !.port = port, !.path = path, !.query = query] = n
  <2>1. IsRecord(n)
    BY <1>1 DEF IsRecord
  <2>2. /\ n.scheme = u.scheme /\ n.host = u.host /\ n.port = port /\ n.path = path /\ n.query = query
    BY <1>1
  <2>3. [n EXCEPT !.upper = FALSE, !.frag = FALSE, !.port = port, !.path = path, !.query = query]
          = [scheme |-> n.scheme, host |-> n.host, port |-> port, path |-> path, query |-> query,
             upper |-> FALSE, frag |-> FALSE]
    BY <2>1, UrlWith
  <2> QED BY <1>1, <2>2, <2>3, Zenon
<1> QED BY <1>5, <1>7, <1>8 DEF n

\* The key of the visited set names one resource, however it is spelled, and is
\* its own key (normalize.FromParsed).
THEOREM NormalFormCorrect == Spec => []NormalFormIsCanonical
<1>1. ASSUME IsCase(input) PROVE NormalFormIsCanonical
  <2>1. SUFFICES ASSUME Is("url"), NEW v \in Spellings
                 PROVE  CanonicalFor(input.u, v, input.strict, input.sortQuery)
    BY DEF NormalFormIsCanonical
  <2>2. input \in UrlCases
    BY <1>1, <2>1, CaseOfKind DEF Is
  <2>3. IsSpelling(input.u) /\ IsSpelling(v) /\ input.strict \in BOOLEAN /\ input.sortQuery \in BOOLEAN
    BY <2>2, AlgorithmsAssumption
  <2> DEFINE N(x) == FromParsed(x, input.strict, input.sortQuery)
             Same == SameResource(input.u, v, input.strict, input.sortQuery)
  <2>4. N(input.u) = N(v) <=> Same
    BY <2>3, FormsAgree
  <2>5. N(N(input.u)) = N(input.u)
    BY <2>3, FormStays
  <2>6. Same \in BOOLEAN
    BY DEF SameResource
  <2> HIDE DEF N, Same
  <2>7. (N(input.u) = N(v)) = Same
    BY <2>4, <2>6
  <2> QED BY <2>5, <2>7 DEF CanonicalFor, N, Same
<1>2. Init => IsCase(input)
  BY DEF Init
<1>3. IsCase(input) /\ [Next]_<<input, writerVars>> => IsCase(input)'
  BY DEF Next
<1> QED BY <1>1, <1>2, <1>3, PTL DEF Spec
=============================================================================
