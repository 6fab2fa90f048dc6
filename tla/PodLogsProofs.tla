--------------------------- MODULE PodLogsProofs ---------------------------
(***************************************************************************)
(* Proofs about PodLogs: the types, that the screen shows the entries of   *)
(* the current stream with each restart marked once, and that the channel  *)
(* in use keeps a reader.                                                  *)
(***************************************************************************)
EXTENDS PodLogs, SequenceTheorems, TLAPS

Positions == Nat \X Nat
Words     == {"error", "waiting", "closed"}
Points    == {"unborn", "begin", "history", "fallback", "reading", "telling", "follow",
              "marking", "following", "polling", "final", "done"}
Goroutine == [id : Nat, pc : Points, cancelled : BOOLEAN, closed : BOOLEAN,
              queue : Seq(Message), out : Control \cup {"none"}, live : BOOLEAN,
              last : Nat \cup {NoCount}, run : Nat, next : Nat, end : Nat, dedup : Positions]
Reader    == [ch : 0..MaxStreams, lines : Seq(Positions),
              tail : Control \cup {"none", "end"}, sent : BOOLEAN]
Check     == [id : Nat, says : {"none", "ready", "waiting"}]
Entry     == [id : Nat, by : Streams, at : Positions]

(* The screen's part of the types, and the pod's.                          *)
ScreenTypes ==
  /\ id \in Nat /\ left \in BOOLEAN /\ news \in BOOLEAN /\ begun \in 0..MaxStreams
  /\ stream \in {"loading", "reconnecting", "streaming"} \cup Control
  /\ current \in 0..begun /\ cancel \in {NoStream, current}
  /\ shown \in Seq(Entry)
  /\ checks \in [Checks -> Check]
  /\ \A k \in Checks : checks[k].id <= id
LogTypes == log \in Seq(Nat) /\ Len(log) >= 1

(* One goroutine: born when it was connected, and with a last word to say  *)
(* before it is through.                                                   *)
Formed(g, s) ==
  /\ g \in Goroutine
  /\ g.id <= id
  /\ (g.pc = "unborn") <=> (s > begun)
  /\ g.pc = "final" => g.out \in Control
  /\ Len(g.queue) <= Buffer
StreamTypes == DOMAIN streams = Streams /\ \A s \in Streams : Formed(streams[s], s)

Reading(r) ==
  /\ readers[r] \in Reader
  /\ readers[r].ch <= begun
  /\ Len(readers[r].lines) <= Buffer
  /\ readers[r].sent => readers[r].ch # NoStream
ReaderTypes == DOMAIN readers = Streams /\ \A r \in Streams : Reading(r)

Types == ScreenTypes /\ LogTypes /\ StreamTypes /\ ReaderTypes

-----------------------------------------------------------------------------
(* A step of one goroutine keeps the types if what it becomes is formed.   *)
LEMMA BecomesTyped ==
  ASSUME Types, NEW s \in Streams, NEW g, Formed(g, s), Becomes(s, g)
  PROVE  Types'
<1>1. ScreenTypes' BY DEF Types, ScreenTypes, Becomes, screenVars, podVars
<1>2. LogTypes' BY DEF Types, LogTypes, Becomes, podVars
<1>3. StreamTypes' BY DEF Types, StreamTypes, Becomes, screenVars, podVars, Formed
<1>4. ReaderTypes' BY DEF Types, ReaderTypes, Reading, Becomes
<1> QED BY <1>1, <1>2, <1>3, <1>4 DEF Types

(* The current run's log has come some way.                                *)
LEMMA RunTyped ==
  ASSUME LogTypes
  PROVE  restarts \in Nat /\ Written(restarts) \in Nat
BY DEF LogTypes, restarts, Written

LEMMA SentTyped ==
  ASSUME StreamTypes, NEW s \in Streams, NEW m \in Message, HasRoom(s)
  PROVE  /\ Sent(s, m) \in Goroutine
         /\ Len(Sent(s, m).queue) <= Buffer
         /\ Sent(s, m).queue = Append(streams[s].queue, m)
         /\ \A g \in {streams[s]} :
              /\ Sent(s, m).id = g.id /\ Sent(s, m).pc = g.pc /\ Sent(s, m).out = g.out
              /\ Sent(s, m).next = g.next /\ Sent(s, m).closed = g.closed
              /\ Sent(s, m).last = g.last
<1> DEFINE q == Append(streams[s].queue, m)
<1>1. streams[s] \in Goroutine BY DEF StreamTypes, Formed
<1>2. q \in Seq(Message) /\ Len(q) = Len(streams[s].queue) + 1
  BY <1>1 DEF Goroutine
<1>3. Buffer \in Nat /\ Len(streams[s].queue) \in Nat BY <1>1, LogsAssumption DEF Goroutine
<1>4. Sent(s, m) = [streams[s] EXCEPT !.queue = q] BY DEF Sent
<1>5. Len(q) <= Buffer BY <1>2, <1>3 DEF HasRoom
<1> HIDE DEF q
<1>6. Sent(s, m) \in Goroutine BY <1>1, <1>2, <1>4 DEF Goroutine
<1>7. Sent(s, m).queue = q BY <1>1, <1>4 DEF Goroutine
<1> QED BY <1>1, <1>4, <1>5, <1>6, <1>7 DEF Goroutine, q

LEMMA GoroutineTyped ==
  ASSUME Types, NEW s \in Streams, GoroutineSteps(s)
  PROVE  Types'
<1> DEFINE g == streams[s]
<1>1. Formed(g, s) /\ g \in Goroutine /\ s \in Nat BY DEF Types, StreamTypes, Formed, Streams
<1>2. restarts \in Nat /\ Written(restarts) \in Nat BY RunTyped DEF Types
<1>3. begun \in Nat BY DEF Types, ScreenTypes
<1> USE DEF Goroutine, Points
<1>a. ASSUME NEW kind \in Control, g.pc # "unborn", Ends(s, kind) PROVE Types'
  <2>1. Formed([g EXCEPT !.pc = "final", !.out = kind], s) BY <1>1, <1>3, <1>a DEF Formed
  <2> QED BY <2>1, <1>a, BecomesTyped DEF Ends
<1>4. CASE Begins(s)
  <2>1. \A l \in Nat \cup {NoCount} : Formed([g EXCEPT !.pc = "history", !.last = l], s)
    BY <1>1, <1>3, <1>4 DEF Formed, Begins
  <2> QED BY <2>1, <1>2, <1>4, BecomesTyped DEF Begins
<1>5. CASE OpenFails(s)
  BY <1>5, <1>a DEF OpenFails, Opening, Control
<1>6. CASE OpensHistory(s)
  <2>1. g.pc \in {"history", "fallback"} BY <1>6 DEF OpensHistory
  <2>2. ASSUME NEW run \in Nat, NEW from \in Nat, NEW end \in Nat
        PROVE  Formed([g EXCEPT !.pc = "reading", !.run = run, !.next = from, !.end = end], s)
    BY <2>1, <1>1, <1>3 DEF Formed
  <2>5. \A from \in 1..Written(restarts) : from \in Nat BY <1>2
  <2>3. Formed([g EXCEPT !.pc = "fallback"], s) BY <2>1, <1>1, <1>3 DEF Formed
  <2>4. Formed([g EXCEPT !.pc = "telling"], s) BY <2>1, <1>1, <1>3 DEF Formed
  <2> QED BY <1>2, <1>6, <2>2, <2>3, <2>4, <2>5, BecomesTyped DEF OpensHistory
<1>7. CASE TellsEmpty(s)
  <2>1. g.pc = "telling" BY <1>7 DEF TellsEmpty
  <2>2. Formed([g EXCEPT !.pc = "follow"], s) BY <2>1, <1>1, <1>3 DEF Formed
  <2>3. Plain("empty") \in Message BY DEF Plain, Message, Control, NoLine
  <2>4. ASSUME HasRoom(s) PROVE Formed([Sent(s, Plain("empty")) EXCEPT !.pc = "follow"], s)
    BY <2>1, <2>3, <2>4, <1>1, <1>3, SentTyped DEF Formed, Types
  <2> QED BY <1>7, <2>2, <2>4, BecomesTyped DEF TellsEmpty
<1>8. CASE OpensFollow(s)
  <2>1. g.pc = "follow" BY <1>8 DEF OpensFollow
  <2>2. Overlap(s) \subseteq Nat BY <1>2 DEF Overlap
  <2>3. ASSUME NEW from \in Nat
        PROVE  Formed([g EXCEPT !.pc = IF g.live THEN "marking" ELSE "following",
                                !.live = TRUE, !.run = restarts, !.next = from], s)
    BY <2>1, <1>1, <1>2, <1>3 DEF Formed
  <2> QED BY <1>8, <2>2, <2>3, BecomesTyped DEF OpensFollow
<1>9. CASE Marks(s)
  <2>1. g.pc = "marking" BY <1>9 DEF Marks
  <2> DEFINE mark == Line(<<IF g.last = NoCount THEN restarts ELSE g.last, 0>>)
  <2>2. mark \in Message BY <1>1, <1>2 DEF Line, Message, NoCount
  <2>3. ASSUME HasRoom(s) PROVE Formed([Sent(s, mark) EXCEPT !.pc = "following"], s)
    <3> HIDE DEF mark
    <3> QED BY <2>1, <2>2, <2>3, <1>1, <1>3, SentTyped DEF Formed, Types
  <2>4. CASE g.cancelled /\ Ends(s, "closed") BY <2>1, <2>4, <1>a DEF Control
  <2> QED BY <1>9, <2>3, <2>4, BecomesTyped DEF Marks
<1>10. CASE Reads(s)
  <2>1. g.pc \in {"reading", "following"} BY <1>10 DEF Reads
  <2> DEFINE at == <<g.run, g.next>>
  <2>2. at \in Positions /\ Line(at) \in Message /\ NoLine \in Positions
    BY <1>1 DEF Line, Message, Positions, NoLine
  <2> DEFINE n == g.next + 1
  <2>0. n \in Nat BY <1>1
  <2>3. Formed([g EXCEPT !.next = @ + 1], s)
    <3>1. \A k \in Nat : Formed([g EXCEPT !.next = k], s) BY <2>1, <1>1, <1>3 DEF Formed
    <3> QED BY <2>0, <3>1
  <2>4. ASSUME HasRoom(s), NEW d \in Positions, NEW m \in Message
        PROVE  Formed([Sent(s, m) EXCEPT !.next = @ + 1, !.dedup = d], s)
    <3> DEFINE h == Sent(s, m)
    <3>1. /\ h \in Goroutine /\ Len(h.queue) <= Buffer
          /\ h.id = g.id /\ h.pc = g.pc /\ h.out = g.out /\ h.next = g.next
      <4> HIDE DEF Goroutine
      <4> QED BY <2>4, SentTyped DEF Types
    <3> HIDE DEF h
    <3>2. \A k \in Nat : Formed([h EXCEPT !.next = k, !.dedup = d], s)
      BY <2>1, <3>1, <1>1, <1>3 DEF Formed
    <3>3. Formed([h EXCEPT !.next = @ + 1, !.dedup = d], s) BY <2>0, <3>1, <3>2
    <3> QED BY <3>3 DEF h
  <2>5. CASE Ends(s, "closed") BY <2>1, <2>5, <1>a DEF Control
  <2>6. CASE Ends(s, "error") BY <2>1, <2>6, <1>a DEF Control
  <2> HIDE DEF Goroutine, Points
  <2> QED BY <1>10, <2>2, <2>3, <2>4, <2>5, <2>6, BecomesTyped DEF Reads
<1>11. CASE HistoryEnds(s)
  <2>1. Formed([g EXCEPT !.pc = "follow"], s) BY <1>11, <1>1, <1>3 DEF Formed, HistoryEnds
  <2> QED BY <1>11, <2>1, BecomesTyped DEF HistoryEnds
<1>12. CASE FollowEnds(s)
  <2>1. Formed([g EXCEPT !.pc = "polling"], s) BY <1>12, <1>1, <1>3 DEF Formed, FollowEnds
  <2> QED BY <1>12, <2>1, BecomesTyped DEF FollowEnds
<1>13. CASE Polls(s)
  <2>1. g.pc = "polling" BY <1>13 DEF Polls
  <2>2. Formed([g EXCEPT !.pc = "follow"], s) BY <2>1, <1>1, <1>3 DEF Formed
  <2>3. Formed([g EXCEPT !.pc = "follow", !.last = restarts], s)
    BY <2>1, <1>1, <1>2, <1>3 DEF Formed
  <2>4. CASE Ends(s, "closed") BY <2>1, <2>4, <1>a DEF Control
  <2>5. CASE Ends(s, "error") BY <2>1, <2>5, <1>a DEF Control
  <2> QED BY <1>13, <2>2, <2>3, <2>4, <2>5, BecomesTyped DEF Polls
<1>14. CASE LastWord(s)
  <2>1. g.pc = "final" /\ g.out \in Control BY <1>14, <1>1 DEF LastWord, Formed
  <2>2. Plain(g.out) \in Message BY <2>1 DEF Plain, Message, NoLine
  <2>3. HasRoom(s) BY <1>14 DEF LastWord
  <2>4. Formed([Sent(s, Plain(g.out)) EXCEPT !.pc = "done", !.closed = TRUE], s)
    <3> DEFINE m == Plain(g.out)
    <3>1. m \in Message BY <2>2
    <3> HIDE DEF m
    <3> QED BY <2>1, <3>1, <2>3, <1>1, <1>3, SentTyped DEF Formed, Types, m
  <2> QED BY <1>14, <2>4, BecomesTyped DEF LastWord
<1> QED BY <1>4, <1>5, <1>6, <1>7, <1>8, <1>9, <1>10, <1>11, <1>12, <1>13, <1>14 DEF GoroutineSteps

(* Cancelling goroutines changes no type.                                  *)
LEMMA CancelledTyped ==
  ASSUME StreamTypes, NEW C, id \in Nat, id' \in Nat, id' >= id, begun' = begun,
         streams' = [s \in Streams |->
                       IF s \in C THEN [streams[s] EXCEPT !.cancelled = TRUE] ELSE streams[s]]
  PROVE  StreamTypes'
<1>1. DOMAIN streams' = Streams OBVIOUS
<1>2. ASSUME NEW s \in Streams PROVE Formed(streams[s], s)'
  <2>1. streams[s] \in Goroutine /\ Formed(streams[s], s) BY DEF StreamTypes, Formed
  <2>2. streams'[s] \in {streams[s], [streams[s] EXCEPT !.cancelled = TRUE]} OBVIOUS
  <2>3. \A h \in {streams[s], [streams[s] EXCEPT !.cancelled = TRUE]} :
          /\ h \in Goroutine /\ h.id = streams[s].id /\ h.pc = streams[s].pc
          /\ h.out = streams[s].out /\ h.queue = streams[s].queue
    BY <2>1 DEF Goroutine
  <2>4. streams[s].id \in Nat BY <2>1 DEF Goroutine
  <2> HIDE DEF Goroutine
  <2> QED BY <2>1, <2>2, <2>3, <2>4 DEF Formed
<1> QED BY <1>1, <1>2 DEF StreamTypes

LEMMA CancelStreamTyped ==
  ASSUME Types, CancelStream, id' = id + 1, begun' = begun
  PROVE  StreamTypes'
<1>1. streams' = [s \in Streams |->
                    IF s \in {cancel} THEN [streams[s] EXCEPT !.cancelled = TRUE] ELSE streams[s]]
  BY DEF CancelStream
<1>2. StreamTypes /\ id \in Nat /\ id' \in Nat /\ id' >= id BY DEF Types, ScreenTypes
<1> QED BY <1>1, <1>2, CancelledTyped

LEMMA UnbornTyped == Unborn \in Goroutine /\ Unborn.queue = <<>>
<1>1. <<>> \in Seq(Message) OBVIOUS
<1>2. NoLine \in Positions /\ NoCount \in Nat \cup {NoCount} BY DEF NoLine, Positions
<1> QED BY <1>1, <1>2 DEF Unborn, Goroutine, Points

LEMMA IdleTyped == Idle \in Reader /\ Idle.lines = <<>>
<1>1. <<>> \in Seq(Positions) /\ NoStream \in 0..MaxStreams BY LogsAssumption DEF NoStream
<1> QED BY <1>1 DEF Idle, Reader

LEMMA ScreenTyped ==
  ASSUME Types,
         \/ BeginStream \/ Esc \/ PodChanged
         \/ \E k \in Checks : Lookup(k) \/ ContainerReady(k) \/ ContainerWaiting(k)
  PROVE  Types'
<1> USE DEF Check
<1>1. Types /\ ScreenTypes /\ LogTypes /\ StreamTypes /\ ReaderTypes /\ begun \in Nat /\ id \in Nat
  BY DEF Types, ScreenTypes
<1>0. MaxStreams \in Nat BY LogsAssumption
<1>2. ASSUME UNCHANGED podVars PROVE LogTypes' BY <1>1, <1>2 DEF LogTypes, podVars
<1>3. ASSUME UNCHANGED <<readers, begun>> PROVE ReaderTypes'
  BY <1>1, <1>3 DEF ReaderTypes, Reading
<1>4. ASSUME UNCHANGED <<streams, begun, id>> PROVE StreamTypes'
  BY <1>1, <1>4 DEF StreamTypes, Formed
<1>5. ASSUME NEW n \in Nat, n >= id, checks' = Asked(n), id' = n
      PROVE  checks' \in [Checks -> Check] /\ \A k \in Checks : checks'[k].id <= id'
  <2>1. PICK k : checks' = [checks EXCEPT ![k] = [id |-> n, says |-> "none"]]
    BY <1>5 DEF Asked
  <2>2. checks \in [Checks -> Check] /\ \A j \in Checks : checks[j].id <= id
    BY <1>1 DEF ScreenTypes
  <2>3. [id |-> n, says |-> "none"] \in Check OBVIOUS
  <2>4. \A j \in Checks : checks'[j] = checks[j] \/ checks'[j] = [id |-> n, says |-> "none"]
    BY <2>1, <2>2
  <2>5. \A j \in Checks : checks[j].id \in Nat BY <2>2
  <2>6. checks' \in [Checks -> Check] BY <2>1, <2>2, <2>3
  <2>7. ASSUME NEW j \in Checks PROVE checks'[j].id <= n
    <3>1. CASE checks'[j] = checks[j]
      <4>1. checks[j].id \in Nat /\ checks[j].id <= id BY <2>2, <2>5
      <4> QED BY <1>1, <1>5, <3>1, <4>1
    <3>2. CASE checks'[j] = [id |-> n, says |-> "none"] BY <3>2
    <3> QED BY <2>4, <3>1, <3>2
  <2> QED BY <1>5, <2>6, <2>7
<1>6. CASE BeginStream
  <2>1. CancelStream /\ UNCHANGED <<readers, begun, podVars>> /\ id' = id + 1 BY <1>6 DEF BeginStream
  <2>2. checks' = Asked(id + 1) /\ id + 1 \in Nat /\ id + 1 >= id BY <1>1, <1>6 DEF BeginStream
  <2>3. checks' \in [Checks -> Check] /\ \A k \in Checks : checks'[k].id <= id'
    BY <2>1, <2>2, <1>5
  <2>4. ScreenTypes' BY <1>1, <1>6, <2>3 DEF BeginStream, ScreenTypes, podVars
  <2> QED BY <1>1, <1>2, <1>3, <2>1, <2>4, CancelStreamTyped DEF Types
<1>7. CASE Esc
  <2>1. CancelStream /\ UNCHANGED <<readers, begun, podVars>> /\ id' = id + 1 BY <1>7 DEF Esc
  <2>2. ScreenTypes' BY <1>1, <1>7 DEF Esc, ScreenTypes, podVars, NoCheck, Control
  <2> QED BY <1>1, <1>2, <1>3, <2>1, <2>2, CancelStreamTyped DEF Types
<1>8. CASE PodChanged
  <2>1. checks' = Asked(id) \/ checks' = checks BY <1>8 DEF PodChanged
  <2>2. UNCHANGED <<screenVars, begun, streams, readers, phase, log>> /\ news' = FALSE
    BY <1>8 DEF PodChanged
  <2>3. checks' \in [Checks -> Check] /\ \A k \in Checks : checks'[k].id <= id'
    BY <1>1, <1>5, <2>1, <2>2 DEF ScreenTypes, screenVars
  <2>4. ScreenTypes' BY <1>1, <2>2, <2>3 DEF ScreenTypes, screenVars
  <2>5. LogTypes' BY <1>1, <2>2 DEF LogTypes
  <2> QED BY <1>3, <1>4, <2>2, <2>4, <2>5 DEF Types, screenVars
<1>9. ASSUME NEW k \in Checks, Lookup(k) PROVE Types'
  <2>1. UNCHANGED <<screenVars, begun, streams, readers, podVars>> BY <1>9 DEF Lookup
  <2>2. ScreenTypes' BY <1>1, <1>9, <2>1 DEF Lookup, ScreenTypes, screenVars, podVars
  <2> QED BY <1>2, <1>3, <1>4, <2>1, <2>2 DEF Types, screenVars
<1>10. ASSUME NEW k \in Checks, ContainerWaiting(k) PROVE Types'
  <2>1. UNCHANGED <<id, current, cancel, shown, left, begun, streams, readers, podVars>>
    BY <1>10 DEF ContainerWaiting
  <2>2. ScreenTypes' BY <1>1, <1>10, <2>1 DEF ContainerWaiting, ScreenTypes, podVars, NoCheck, Control
  <2> QED BY <1>2, <1>3, <1>4, <2>1, <2>2 DEF Types
<1>11. ASSUME NEW k \in Checks, ContainerReady(k), Connect PROVE Types'
  <2>0. PICK b : b = begun + 1 OBVIOUS
  <2>1. b \in Streams /\ b \in 1..MaxStreams /\ begun' = b
    BY <1>0, <1>1, <1>11, <2>0 DEF Connect, Streams
  <2>2. UNCHANGED <<id, stream, shown, left, podVars>> BY <1>11 DEF ContainerReady
  <2>3. ScreenTypes'
    BY <1>1, <1>11, <2>0, <2>1, <2>2 DEF ContainerReady, Connect, ScreenTypes, podVars, NoCheck
  <2>3a. PICK h : h = [Unborn EXCEPT !.id = id, !.pc = "begin"] OBVIOUS
  <2>4. h \in Goroutine /\ h.id = id /\ h.pc = "begin" /\ h.queue = <<>>
    <3>1. Unborn \in Goroutine /\ Unborn.queue = <<>> BY UnbornTyped
    <3> HIDE DEF Unborn
    <3> QED BY <1>1, <2>3a, <3>1 DEF Goroutine, Points
  <2>5. Formed(h, b)'
    <3>1. b \in Nat /\ ~(b > begun') /\ Len(h.queue) = 0 /\ Buffer \in Nat
      BY <1>1, <2>1, <2>4, LogsAssumption
    <3> QED BY <1>1, <2>2, <2>4, <3>1 DEF Formed
  <2>6. ASSUME NEW s \in Streams, s # b PROVE Formed(streams[s], s)'
    <3>1. Formed(streams[s], s) /\ s \in Nat BY <1>1 DEF StreamTypes, Streams
    <3>2. streams'[s] = streams[s] BY <1>1, <1>11, <2>0, <2>6 DEF Connect, StreamTypes
    <3>3. (s > begun) <=> (s > begun') BY <1>1, <2>0, <2>1, <2>6, <3>1
    <3> QED BY <2>2, <3>1, <3>2, <3>3 DEF Formed
  <2>7. DOMAIN streams' = Streams /\ streams'[b] = h
    BY <1>1, <1>11, <2>0, <2>1, <2>3a DEF Connect, StreamTypes
  <2>8. StreamTypes'
    <3>1. ASSUME NEW s \in Streams PROVE Formed(streams[s], s)'
      <4>1. CASE s = b BY <2>5, <2>7, <4>1
      <4>2. CASE s # b BY <2>6, <4>2
      <4> QED BY <4>1, <4>2
    <3> QED BY <2>7, <3>1 DEF StreamTypes
  <2>9. ReaderTypes'
    <3>1. readers' = [readers EXCEPT ![b] = [Idle EXCEPT !.ch = b]] BY <1>11, <2>0 DEF Connect
    <3>2. [Idle EXCEPT !.ch = b] \in Reader BY <2>1, IdleTyped DEF Reader
    <3>3. ASSUME NEW r \in Streams PROVE Reading(r)'
      <4>1. CASE r = b
        BY <1>1, <3>1, <3>2, <2>1, <4>1, LogsAssumption DEF ReaderTypes, Reading, Idle
      <4>2. CASE r # b
        <5>1. readers'[r] = readers[r] /\ Reading(r) BY <1>1, <3>1, <4>2 DEF ReaderTypes
        <5>2. readers[r].ch \in Nat BY <5>1, <1>0 DEF Reading, Reader
        <5> QED BY <1>1, <2>0, <2>1, <5>1, <5>2 DEF Reading
      <4> QED BY <4>1, <4>2
    <3> QED BY <1>1, <3>1, <3>3 DEF ReaderTypes
  <2> QED BY <1>2, <2>2, <2>3, <2>8, <2>9 DEF Types
<1>12. ASSUME NEW k \in Checks, ContainerReady(k),
              UNCHANGED <<begun, streams, readers, current, cancel>>
       PROVE  Types'
  <2>1. UNCHANGED <<id, stream, shown, left, podVars>> BY <1>12 DEF ContainerReady
  <2>2. ScreenTypes' BY <1>1, <1>12, <2>1 DEF ContainerReady, ScreenTypes, podVars, NoCheck
  <2> QED BY <1>2, <1>3, <1>4, <1>12, <2>1, <2>2 DEF Types
<1> QED BY <1>6, <1>7, <1>8, <1>9, <1>10, <1>11, <1>12 DEF ContainerReady

(* A receive or a delivery: the queue gets shorter, the batch no longer    *)
(* than the bound.                                                         *)
LEMMA ReaderStepsTyped ==
  ASSUME Types, NEW r \in Streams, readers[r].ch # NoStream,
         NEW q \in Seq(Message), Len(q) <= Buffer,
         NEW h \in Reader, h.ch = readers[r].ch, Len(h.lines) <= Buffer,
         ReaderSteps(r, q, h)
  PROVE  Types'
<1>1. UNCHANGED <<screenVars, checks, begun, podVars>> BY DEF ReaderSteps
<1>2. ScreenTypes' /\ LogTypes'
  BY <1>1 DEF Types, ScreenTypes, LogTypes, screenVars, podVars
<1>3. PICK c : c = readers[r].ch OBVIOUS
<1>4. c \in Streams /\ c <= begun
  BY <1>3, LogsAssumption DEF Types, ReaderTypes, Reading, Reader, Streams, NoStream
<1>5. streams' = [streams EXCEPT ![c].queue = q] /\ readers' = [readers EXCEPT ![r] = h]
  BY <1>3 DEF ReaderSteps
<1>6. StreamTypes'
  <2>1. ASSUME NEW s \in Streams PROVE Formed(streams[s], s)'
    <3>1. Formed(streams[s], s) /\ streams[s] \in Goroutine BY DEF Types, StreamTypes, Formed
    <3>2. CASE s # c
      <4>1. streams'[s] = streams[s] BY <1>5, <3>2 DEF Types, StreamTypes
      <4> QED BY <1>1, <3>1, <4>1 DEF Formed, screenVars
    <3>3. CASE s = c
      <4>1. streams'[s] = [streams[s] EXCEPT !.queue = q] BY <1>5, <3>3 DEF Types, StreamTypes
      <4> QED BY <1>1, <3>1, <4>1 DEF Formed, Goroutine, screenVars
    <3> QED BY <3>2, <3>3
  <2> QED BY <1>5, <2>1 DEF StreamTypes, Types
<1>7. ReaderTypes'
  <2>1. ASSUME NEW k \in Streams PROVE Reading(k)'
    BY <1>1, <1>3, <1>4, <1>5 DEF Types, ReaderTypes, Reading
  <2> QED BY <1>5, <2>1 DEF ReaderTypes, Types
<1> QED BY <1>2, <1>6, <1>7 DEF Types

LEMMA DrainTyped ==
  ASSUME Types, NEW r \in Streams, Receives(r) \/ Delivers(r)
  PROVE  Types'
<1>1. PICK c : c = readers[r].ch OBVIOUS
<1>2. readers[r] \in Reader /\ Len(readers[r].lines) <= Buffer /\ c # NoStream /\ c \in Streams
  BY <1>1, LogsAssumption
     DEF Types, ReaderTypes, Reading, Reader, Streams, NoStream, Receives, Delivers
<1>3. /\ streams[c].queue \in Seq(Message) /\ Len(streams[c].queue) <= Buffer
      /\ Buffer \in Nat
  BY <1>2, LogsAssumption DEF Types, StreamTypes, Formed, Goroutine
<1>4. CASE Receives(r)
  <2>1. PICK m, t, q : q = streams[c].queue /\ m = Head(q) /\ t = Tail(q) OBVIOUS
  <2>2. q # <<>> /\ Len(readers[r].lines) < Buffer BY <1>1, <1>4, <2>1 DEF Receives
  <2>3. m \in Message /\ t \in Seq(Message) /\ Len(t) = Len(q) - 1
    BY <1>3, <2>1, <2>2
  <2>4. Len(t) <= Buffer BY <1>3, <2>1, <2>3
  <2>5. PICK l : l = Append(readers[r].lines, m.at) OBVIOUS
  <2>6. l \in Seq(Positions) /\ Len(l) = Len(readers[r].lines) + 1
    BY <1>2, <2>3, <2>5 DEF Reader, Message, Positions
  <2>7. Len(l) <= Buffer BY <1>2, <1>3, <2>2, <2>6 DEF Reader
  <2>8. CASE m.kind = "line"
    <3>1. PICK h : h = [readers[r] EXCEPT !.lines = l] OBVIOUS
    <3>2. h \in Reader /\ h.ch = c /\ h.lines = l BY <1>1, <1>2, <2>6, <3>1 DEF Reader
    <3>3. ReaderSteps(r, t, h)
      BY <1>1, <1>4, <2>1, <2>5, <2>8, <3>1 DEF Receives
    <3> QED BY <1>1, <1>2, <2>3, <2>4, <2>7, <3>2, <3>3, ReaderStepsTyped
  <2>9. CASE m.kind # "line"
    <3>1. PICK h : h = [readers[r] EXCEPT !.tail = m.kind, !.sent = TRUE] OBVIOUS
    <3>2. h \in Reader /\ h.ch = c /\ h.lines = readers[r].lines
      BY <1>1, <1>2, <2>3, <2>9, <3>1 DEF Reader, Message
    <3>3. ReaderSteps(r, t, h)
      BY <1>1, <1>4, <2>1, <2>9, <3>1 DEF Receives
    <3> QED BY <1>1, <1>2, <2>3, <2>4, <3>2, <3>3, ReaderStepsTyped
  <2> QED BY <2>8, <2>9
<1>5. CASE Delivers(r)
  <2>1. PICK h, e : /\ h = [readers[r] EXCEPT !.sent = TRUE]
                    /\ e = [readers[r] EXCEPT !.tail = "end", !.sent = TRUE]
    OBVIOUS
  <2>2. /\ h \in Reader /\ h.ch = c /\ h.lines = readers[r].lines
        /\ e \in Reader /\ e.ch = c /\ e.lines = readers[r].lines
    BY <1>1, <1>2, <2>1 DEF Reader
  <2>3. \/ ReaderSteps(r, <<>>, e) /\ streams[c].queue = <<>>
        \/ ReaderSteps(r, streams[c].queue, h)
    BY <1>1, <1>5, <2>1 DEF Delivers
  <2> QED BY <1>1, <1>2, <1>3, <2>2, <2>3, ReaderStepsTyped
<1> QED BY <1>4, <1>5

LEMMA HandlesTyped ==
  ASSUME Types, NEW r \in Streams, Handles(r)
  PROVE  Types'
<1>1. PICK c : c = readers[r].ch OBVIOUS
<1>2. UNCHANGED <<id, current, cancel, left, checks, begun, streams, podVars>> BY DEF Handles
<1>3. readers[r] \in Reader /\ c \in Streams
  BY <1>1, LogsAssumption DEF Handles, Types, ReaderTypes, Reading, Reader, Streams, NoStream
<1>4. ScreenTypes'
  <2>1. CASE ~Fresh(c)
    <3>1. UNCHANGED <<shown, stream>> BY <1>1, <2>1 DEF Handles
    <3> QED BY <1>2, <3>1 DEF Types, ScreenTypes, podVars
  <2>2. CASE Fresh(c)
    <3>1. /\ shown' = Appended(c, readers[r].lines)
          /\ stream' = Told(readers[r].tail, Streaming(readers[r].lines))
      BY <1>1, <2>2 DEF Handles
    <3>2. stream' \in {"loading", "reconnecting", "streaming"} \cup Control
      BY <3>1 DEF Told, Streaming, Types, ScreenTypes, Control
    <3>3. PICK q : q = [i \in 1..Len(readers[r].lines) |->
                          [id |-> streams[c].id, by |-> c, at |-> readers[r].lines[i]]]
      OBVIOUS
    <3>4. streams[c].id \in Nat BY <1>3 DEF Types, StreamTypes, Formed, Goroutine
    <3>5. q \in Seq(Entry) BY <1>3, <3>3, <3>4 DEF Reader, Entry
    <3>6. shown' \in Seq(Entry) BY <3>1, <3>3, <3>5 DEF Appended, Types, ScreenTypes
    <3> QED BY <1>2, <3>2, <3>6 DEF Types, ScreenTypes, podVars
  <2> QED BY <2>1, <2>2
<1>5. LogTypes' /\ StreamTypes'
  BY <1>2 DEF Types, LogTypes, StreamTypes, Formed, podVars
<1>6. ReaderTypes'
  <2>1. PICK h : /\ readers' = [readers EXCEPT ![r] = h]
                 /\ h = Idle \/ h = [Idle EXCEPT !.ch = current]
    BY DEF Handles
  <2>2. current \in 0..begun /\ begun \in 0..MaxStreams BY DEF Types, ScreenTypes
  <2>3. h \in Reader /\ h.ch \in 0..begun /\ h.lines = <<>> /\ ~h.sent
    <3>1. Idle \in Reader /\ Idle.lines = <<>> /\ Idle.ch = 0 /\ ~Idle.sent
      BY IdleTyped DEF Idle, NoStream
    <3>2. current \in 0..MaxStreams BY <2>2, LogsAssumption
    <3> HIDE DEF Idle
    <3> QED BY <2>1, <2>2, <3>1, <3>2 DEF Reader
  <2>4. ASSUME NEW k \in Streams PROVE Reading(k)'
    BY <1>2, <2>1, <2>2, <2>3, LogsAssumption DEF Types, ReaderTypes, Reading
  <2> QED BY <2>1, <2>4 DEF Types, ReaderTypes
<1> QED BY <1>4, <1>5, <1>6 DEF Types

LEMMA PodTyped ==
  ASSUME Types,
         Starts \/ Crashes \/ Restarts \/ Goes \/ OtherEvent \/ Writes \/ ContextEnds
  PROVE  Types'
<1>1. UNCHANGED <<screenVars, checks, begun, readers>>
  BY DEF Starts, Crashes, Restarts, Goes, OtherEvent, Writes, ContextEnds, PodSteps, screenVars
<1>2. ReaderTypes' BY <1>1 DEF Types, ReaderTypes, Reading
<1>3. ScreenTypes'
  <2>1. news' \in BOOLEAN
    BY DEF Starts, Crashes, Restarts, Goes, OtherEvent, Writes, ContextEnds, PodSteps, podVars,
           Types, ScreenTypes
  <2> QED BY <1>1, <2>1 DEF Types, ScreenTypes, screenVars
<1>4. LogTypes'
  <2>1. log' = log \/ log' = Append(log, 0) \/ log' = [log EXCEPT ![Len(log)] = @ + 1]
    BY DEF Starts, Crashes, Restarts, Goes, OtherEvent, Writes, ContextEnds, podVars
  <2>2. log \in Seq(Nat) /\ Len(log) >= 1 BY DEF Types, LogTypes
  <2> QED BY <2>1, <2>2 DEF LogTypes
<1>5. StreamTypes'
  <2>1. CASE UNCHANGED streams BY <1>1, <2>1 DEF Types, StreamTypes, Formed, screenVars
  <2>2. CASE ContextEnds
    <3>1. PICK C : C = {s \in Streams : streams[s].pc # "unborn"} OBVIOUS
    <3>2. streams' = [s \in Streams |->
                        IF s \in C THEN [streams[s] EXCEPT !.cancelled = TRUE] ELSE streams[s]]
      BY <2>2, <3>1 DEF ContextEnds
    <3>3. StreamTypes /\ id \in Nat /\ id' \in Nat /\ id' >= id /\ begun' = begun
      BY <1>1 DEF Types, ScreenTypes, screenVars
    <3> QED BY <3>2, <3>3, CancelledTyped
  <2> QED BY <2>1, <2>2 DEF Starts, Crashes, Restarts, Goes, OtherEvent, Writes, PodSteps
<1> QED BY <1>2, <1>3, <1>4, <1>5 DEF Types

LEMMA StepTyped == Types /\ [Next]_vars => Types'
<1> SUFFICES ASSUME Types, [Next]_vars PROVE Types' OBVIOUS
<1>1. CASE UNCHANGED vars
  BY <1>1 DEF vars, screenVars, podVars, Types, ScreenTypes, LogTypes, StreamTypes, Formed,
              ReaderTypes, Reading
<1>2. CASE Next
  BY <1>2, ScreenTyped, HandlesTyped, DrainTyped, GoroutineTyped, PodTyped DEF Next
<1> QED BY <1>1, <1>2

LEMMA InitTyped == Init => Types
<1> SUFFICES ASSUME Init PROVE Types OBVIOUS
<1>1. ScreenTypes
  <2>1. PICK c : c = [id |-> 1, says |-> "none"] OBVIOUS
  <2>2. c \in Check /\ c.id = 1 /\ NoCheck \in Check /\ NoCheck.id = 0
    BY <2>1 DEF NoCheck, Check
  <2>3. /\ DOMAIN checks = Checks
        /\ checks = [k \in Checks |-> IF k = 1 THEN c ELSE NoCheck]
    BY <2>1 DEF Init, NoCheck
  <2>4. checks \in [Checks -> Check] /\ \A k \in Checks : checks[k].id <= 1
    <3> HIDE DEF Check, NoCheck
    <3> QED BY <2>2, <2>3
  <2>5. /\ id = 1 /\ stream = "loading" /\ current = 0 /\ cancel = 0 /\ shown = <<>>
        /\ left = FALSE /\ news = FALSE /\ begun = 0 /\ MaxStreams \in Nat
    BY LogsAssumption DEF Init, NoStream
  <2>6. shown \in Seq(Entry) BY <2>5
  <2>7. begun \in 0..MaxStreams /\ current \in 0..begun /\ cancel \in {NoStream, current}
    BY <2>5 DEF NoStream
  <2>8. id \in Nat /\ \A k \in Checks : checks[k].id <= id BY <2>4, <2>5
  <2> HIDE DEF Check
  <2> QED BY <2>4, <2>5, <2>6, <2>7, <2>8 DEF ScreenTypes
<1>2. LogTypes
  <2>1. \E n \in {0, 1} : log = <<n>> BY DEF Init
  <2>2. \A n \in {0, 1} : <<n>> \in Seq(Nat) /\ Len(<<n>>) = 1 OBVIOUS
  <2> QED BY <2>1, <2>2 DEF LogTypes
<1>3. StreamTypes
  <2>1. ASSUME NEW s \in Streams PROVE Formed(streams[s], s)
    <3>1. streams[s] = Unborn /\ begun = 0 /\ id = 1 /\ s \in Nat /\ s > 0
      BY DEF Init, Streams
    <3>2. Unborn \in Goroutine /\ Unborn.queue = <<>> BY UnbornTyped
    <3>3. Unborn.id = 0 /\ Unborn.pc = "unborn" BY DEF Unborn
    <3>4. Len(Unborn.queue) = 0 BY <3>2
    <3> HIDE DEF Unborn
    <3> QED BY <3>1, <3>2, <3>3, <3>4, LogsAssumption DEF Formed
  <2> QED BY <2>1 DEF Init, StreamTypes
<1>4. ReaderTypes
  BY IdleTyped, LogsAssumption DEF Init, ReaderTypes, Reading, Idle, NoStream
<1> QED BY <1>1, <1>2, <1>3, <1>4 DEF Types

LEMMA TypesHold == Spec => []Types
BY InitTyped, StepTyped, PTL DEF Spec

(* TypeOK for every number of connections, checks and sessions: the buffer *)
(* of a channel and a batch keep their bounds, and the cancel function the *)
(* screen holds is the one of the goroutine whose channel it reads.        *)
THEOREM TypeCorrect == Spec => []TypeOK
<1>1. Types => TypeOK
  <2> SUFFICES ASSUME Types PROVE TypeOK OBVIOUS
  <2>1. MaxStreams \in Nat BY LogsAssumption
  <2>2. \A s \in Streams :
          /\ streams[s].id \in 0..id
          /\ (streams[s].pc = "unborn") <=> (s > begun)
          /\ streams[s].queue \in Seq(Message) /\ Len(streams[s].queue) <= Buffer
    BY DEF Types, StreamTypes, Formed, Goroutine, ScreenTypes
  <2>3. \A s \in Streams : readers[s].ch \in 0..begun /\ Len(readers[s].lines) <= Buffer
    BY <2>1 DEF Types, ReaderTypes, Reading, Reader, ScreenTypes
  <2> QED BY <2>2, <2>3 DEF TypeOK, Types, ScreenTypes, Entry, Check, Positions
<1> QED BY <1>1, TypesHold, PTL

-----------------------------------------------------------------------------
(* Whatever the order in which superseded readers and goroutines report,   *)
(* the entries of the log view carry the streamID of the current stream:   *)
(* the part of EntriesAreTrue that beginStream's bump is there for.        *)
THEOREM OnlyCurrentShown == Spec => []OnlyTheCurrentStream
<1>1. Init => OnlyTheCurrentStream BY DEF Init, OnlyTheCurrentStream
<1>2. Types /\ OnlyTheCurrentStream /\ [Next]_vars => OnlyTheCurrentStream'
  <2> SUFFICES ASSUME Types, OnlyTheCurrentStream, [Next]_vars PROVE OnlyTheCurrentStream'
    OBVIOUS
  <2>1. ASSUME UNCHANGED <<id, shown, left>> PROVE OnlyTheCurrentStream'
    BY <2>1 DEF OnlyTheCurrentStream
  <2>2. CASE BeginStream BY <2>2 DEF BeginStream, OnlyTheCurrentStream
  <2>3. CASE Esc BY <2>3 DEF Esc, OnlyTheCurrentStream
  <2>4. ASSUME NEW r \in Streams, Handles(r) PROVE OnlyTheCurrentStream'
    <3>1. PICK c, lines : c = readers[r].ch /\ lines = readers[r].lines OBVIOUS
    <3>2. UNCHANGED <<id, left>> /\ ~left BY <2>4 DEF Handles
    <3>3. CASE ~Fresh(c) BY <2>1, <2>4, <3>1, <3>2, <3>3 DEF Handles
    <3>4. CASE Fresh(c)
      <4>1. PICK q : q = [i \in 1..Len(lines) |->
                            [id |-> streams[c].id, by |-> c, at |-> lines[i]]]
        OBVIOUS
      <4>2. shown' = shown \o q BY <2>4, <3>1, <3>4, <4>1 DEF Handles, Appended
      <4>3. readers[r] \in Reader /\ c \in Streams
        BY <2>4, <3>1, LogsAssumption
           DEF Handles, Types, ReaderTypes, Reading, Reader, Streams, NoStream
      <4>4. streams[c].id = id /\ id \in Nat BY <3>4 DEF Fresh, Types, ScreenTypes
      <4>5. q \in Seq(Entry) /\ Len(q) = Len(lines)
        BY <3>1, <4>1, <4>3, <4>4 DEF Reader, Entry
      <4>6. ASSUME NEW i \in 1..Len(q) PROVE q[i].id = id
        <5>1. i \in 1..Len(lines) BY <4>5
        <5>2. q[i] = [id |-> streams[c].id, by |-> c, at |-> lines[i]] BY <4>1, <5>1
        <5> QED BY <4>4, <5>2
      <4>7. shown \in Seq(Entry) /\ \A i \in 1..Len(shown) : shown[i].id = id
        BY <3>2 DEF Types, ScreenTypes, OnlyTheCurrentStream
      <4>8. ASSUME NEW i \in 1..Len(shown') PROVE shown'[i].id = id
        <5>0. shown \in Seq(Entry) /\ q \in Seq(Entry) BY <4>5, <4>7
        <5>1. Len(shown') = Len(shown) + Len(q) BY <4>2, <5>0, ConcatProperties, Zenon
        <5>2. CASE i <= Len(shown)
          <6>1. i \in 1..Len(shown) BY <4>7, <5>2
          <6>2. shown'[i] = shown[i] BY <4>2, <4>5, <4>7, <6>1
          <6> QED BY <4>7, <6>1, <6>2
        <5>3. CASE i > Len(shown)
          <6>1. shown'[i] = q[i - Len(shown)] /\ i - Len(shown) \in 1..Len(q)
            BY <4>2, <4>5, <4>7, <5>1, <5>3
          <6> QED BY <4>6, <6>1
        <5> QED BY <4>7, <5>2, <5>3
      <4> QED BY <3>2, <4>8 DEF OnlyTheCurrentStream
    <3> QED BY <3>3, <3>4
  <2>5. ASSUME NEW s \in Streams, GoroutineSteps(s) PROVE UNCHANGED <<id, shown, left>>
    BY <2>5 DEF GoroutineSteps, Begins, OpenFails, OpensHistory, TellsEmpty, OpensFollow, Marks,
                Reads, HistoryEnds, FollowEnds, Polls, LastWord, Ends, Becomes, screenVars
  <2>6. ASSUME NEW r \in Streams, Receives(r) \/ Delivers(r) PROVE UNCHANGED <<id, shown, left>>
    BY <2>6 DEF Receives, Delivers, ReaderSteps, screenVars
  <2>7. ASSUME NEW k \in Checks, Lookup(k) \/ ContainerReady(k) \/ ContainerWaiting(k)
        PROVE  UNCHANGED <<id, shown, left>>
    BY <2>7 DEF Lookup, ContainerReady, ContainerWaiting, screenVars
  <2>8. CASE PodChanged \/ Starts \/ Crashes \/ Restarts \/ Goes \/ OtherEvent \/ Writes
             \/ ContextEnds
    BY <2>1, <2>8 DEF PodChanged, Starts, Crashes, Restarts, Goes, OtherEvent, Writes,
                      ContextEnds, PodSteps, screenVars
  <2>9. CASE UNCHANGED vars BY <2>1, <2>9 DEF vars, screenVars
  <2> QED BY <2>1, <2>2, <2>3, <2>4, <2>5, <2>6, <2>7, <2>8, <2>9 DEF Next
<1> QED BY <1>1, <1>2, TypesHold, PTL DEF Spec

-----------------------------------------------------------------------------
(* The strengthening that makes ChannelHasItsReader inductive.  A channel  *)
(* is closed by the goroutine's last step, right behind its last word, so  *)
(* that word is the last thing queued; a reader that came away with it, or *)
(* with the end, therefore left the channel closed and empty; and the      *)
(* channel in use is in that state or in some reader's hands, whose        *)
(* handler otherwise reads it again.                                       *)
Through(s) == streams[s].closed /\ streams[s].queue = <<>>
Plugged(g) ==
  /\ g.closed => g.pc = "done"
  /\ \A i \in 1..Len(g.queue) : g.queue[i].kind \in Words => g.closed /\ i = Len(g.queue)
Wired ==
  /\ \A s \in Streams : Plugged(streams[s])
  /\ \A r \in Streams : readers[r].tail \in Words \cup {"end"} =>
       readers[r].ch # NoStream /\ Through(readers[r].ch)
  /\ current # NoStream => Through(current) \/ \E r \in Streams : readers[r].ch = current

(* A step of a goroutine that is not its last leaves what its channel      *)
(* promises: it queues nothing, or a message that is not a last word.      *)
LEMMA StepWired ==
  ASSUME Types, Wired, NEW s \in Streams, streams[s].pc # "done", NEW g, Plugged(g),
         Becomes(s, g)
  PROVE  Wired'
<1>1. streams' = [streams EXCEPT ![s] = g] /\ UNCHANGED <<current, readers>>
  BY DEF Becomes, screenVars
<1>2. DOMAIN streams = Streams /\ ~streams[s].closed
  BY DEF Types, StreamTypes, Wired, Plugged
<1>3. \A k \in Streams : Plugged(streams'[k]) BY <1>1, <1>2 DEF Wired
<1>4. ASSUME NEW c, Through(c) PROVE Through(c)' BY <1>1, <1>2, <1>4 DEF Through
<1> QED BY <1>1, <1>3, <1>4 DEF Wired, Plugged

LEMMA GoroutineWired ==
  ASSUME Types, Wired, NEW s \in Streams, GoroutineSteps(s)
  PROVE  Wired'
<1>1. streams[s] \in Goroutine /\ streams[s].queue \in Seq(Message)
  BY DEF Types, StreamTypes, Formed, Goroutine
<1>2. streams[s].pc # "done"
  BY DEF GoroutineSteps, Begins, OpenFails, Opening, OpensHistory, TellsEmpty, OpensFollow, Marks,
         Reads, HistoryEnds, FollowEnds, Polls, LastWord
<1>3. ~streams[s].closed /\ \A i \in 1..Len(streams[s].queue) : streams[s].queue[i].kind \notin Words
  BY <1>2 DEF Wired, Plugged
<1>4. ASSUME NEW g, g.closed = streams[s].closed, g.queue = streams[s].queue, Becomes(s, g)
      PROVE  Wired'
  BY <1>2, <1>3, <1>4, StepWired DEF Plugged
<1>5. ASSUME NEW m \in Message, NEW g, g.queue = Append(streams[s].queue, m),
             m.kind \in Words => g.closed, g.closed => g.pc = "done", Becomes(s, g)
      PROVE  Wired'
  <2>1. PICK q : q = Append(streams[s].queue, m) OBVIOUS
  <2>2. ASSUME NEW i \in 1..Len(q), q[i].kind \in Words PROVE g.closed /\ i = Len(q)
    <3>1. Len(q) = Len(streams[s].queue) + 1 /\ q[Len(q)] = m BY <1>1, <2>1
    <3>2. i \in 1..Len(streams[s].queue) => q[i] = streams[s].queue[i] BY <1>1, <2>1
    <3>3. i = Len(q) BY <1>1, <1>3, <2>2, <3>1, <3>2
    <3> QED BY <1>5, <2>2, <3>1, <3>3
  <2> QED BY <1>2, <1>5, <2>1, <2>2, StepWired DEF Plugged
<1>7. ASSUME NEW kind, Ends(s, kind) PROVE Wired'
  BY <1>1, <1>4, <1>7 DEF Ends, Goroutine
<1>8. CASE Begins(s)
  <2>1. PICK l : Becomes(s, [streams[s] EXCEPT !.pc = "history", !.last = l]) BY <1>8 DEF Begins
  <2> QED BY <1>1, <1>4, <2>1 DEF Goroutine
<1>9. CASE OpenFails(s) BY <1>7, <1>9 DEF OpenFails
<1>10. CASE OpensHistory(s)
  <2>1. ASSUME NEW run, NEW from, NEW end,
               Becomes(s, [streams[s] EXCEPT !.pc = "reading", !.run = run,
                                             !.next = from, !.end = end])
        PROVE  Wired'
    BY <1>1, <1>4, <2>1 DEF Goroutine
  <2>2. ASSUME NEW p, Becomes(s, [streams[s] EXCEPT !.pc = p]) PROVE Wired'
    BY <1>1, <1>4, <2>2 DEF Goroutine
  <2> QED BY <1>10, <2>1, <2>2 DEF OpensHistory
<1>11. CASE TellsEmpty(s)
  <2>1. PICK m : m = Plain("empty") OBVIOUS
  <2>2. m \in Message /\ m.kind \notin Words BY <2>1 DEF Plain, Message, Control, NoLine, Words
  <2>3. CASE Becomes(s, [Sent(s, m) EXCEPT !.pc = "follow"])
    <3>1. PICK g : g = [Sent(s, m) EXCEPT !.pc = "follow"] OBVIOUS
    <3>2. g.queue = Append(streams[s].queue, m) /\ g.closed = streams[s].closed
      BY <1>1, <3>1 DEF Sent, Goroutine
    <3> QED BY <1>3, <1>5, <2>2, <2>3, <3>1, <3>2
  <2>4. CASE Becomes(s, [streams[s] EXCEPT !.pc = "follow"])
    BY <1>1, <1>4, <2>4 DEF Goroutine
  <2> QED BY <1>11, <2>1, <2>3, <2>4 DEF TellsEmpty
<1>12. CASE OpensFollow(s)
  <2>1. PICK p, from : Becomes(s, [streams[s] EXCEPT !.pc = p, !.live = TRUE,
                                                     !.run = restarts, !.next = from])
    BY <1>12 DEF OpensFollow
  <2> QED BY <1>1, <1>4, <2>1 DEF Goroutine
<1>13. ASSUME NEW at \in Positions PROVE Line(at) \in Message /\ Line(at).kind \notin Words
  BY DEF Line, Message, Words, Positions
<1>14. CASE Marks(s)
  <2>1. PICK at : at = <<IF streams[s].last = NoCount THEN restarts ELSE streams[s].last, 0>>
    OBVIOUS
  <2>2. at \in Positions BY <1>1, <2>1, RunTyped DEF Types, Goroutine, Positions, NoCount
  <2>3. CASE Becomes(s, [Sent(s, Line(at)) EXCEPT !.pc = "following"])
    <3>1. PICK g, m : m = Line(at) /\ g = [Sent(s, m) EXCEPT !.pc = "following"] OBVIOUS
    <3>2. g.queue = Append(streams[s].queue, m) /\ g.closed = streams[s].closed
      BY <1>1, <3>1 DEF Sent, Goroutine
    <3> QED BY <1>3, <1>5, <1>13, <2>2, <2>3, <3>1, <3>2
  <2> QED BY <1>7, <1>14, <2>1, <2>3 DEF Marks
<1>15. CASE Reads(s)
  <2>1. PICK at : at = <<streams[s].run, streams[s].next>> OBVIOUS
  <2>2. at \in Positions BY <1>1, <2>1 DEF Goroutine, Positions
  <2>3. CASE Becomes(s, [streams[s] EXCEPT !.next = @ + 1])
    <3>1. PICK g : g = [streams[s] EXCEPT !.next = @ + 1] OBVIOUS
    <3> QED BY <1>1, <1>4, <2>3, <3>1 DEF Goroutine
  <2>4. ASSUME NEW d, Becomes(s, [Sent(s, Line(at)) EXCEPT !.next = @ + 1, !.dedup = d])
        PROVE  Wired'
    <3>1. PICK g, m : m = Line(at) /\ g = [Sent(s, m) EXCEPT !.next = @ + 1, !.dedup = d]
      OBVIOUS
    <3>2. g.queue = Append(streams[s].queue, m) /\ g.closed = streams[s].closed
      BY <1>1, <3>1 DEF Sent, Goroutine
    <3> QED BY <1>3, <1>5, <1>13, <2>2, <2>4, <3>1, <3>2
  <2> QED BY <1>7, <1>15, <2>1, <2>3, <2>4 DEF Reads
<1>16. CASE HistoryEnds(s) BY <1>1, <1>4, <1>16 DEF HistoryEnds, Goroutine
<1>17. CASE FollowEnds(s) BY <1>1, <1>4, <1>17 DEF FollowEnds, Goroutine
<1>18. CASE Polls(s)
  <2>1. CASE Becomes(s, [streams[s] EXCEPT !.pc = "follow"]) BY <1>1, <1>4, <2>1 DEF Goroutine
  <2>2. CASE Becomes(s, [streams[s] EXCEPT !.pc = "follow", !.last = restarts])
    BY <1>1, <1>4, <2>2 DEF Goroutine
  <2> QED BY <1>7, <1>18, <2>1, <2>2 DEF Polls
<1>19. CASE LastWord(s)
  <2>1. PICK g, m : /\ m = Plain(streams[s].out)
                    /\ g = [Sent(s, m) EXCEPT !.pc = "done", !.closed = TRUE]
    OBVIOUS
  <2>2. streams[s].pc = "final" /\ streams[s].out \in Control /\ Becomes(s, g)
    BY <1>19, <2>1 DEF LastWord, Types, StreamTypes, Formed
  <2>3. m \in Message BY <2>1, <2>2 DEF Plain, Message, NoLine
  <2>4. g.queue = Append(streams[s].queue, m) /\ g.closed /\ g.pc = "done"
    BY <1>1, <2>1 DEF Sent, Goroutine
  <2> QED BY <1>5, <2>2, <2>3, <2>4
<1> QED BY <1>8, <1>9, <1>10, <1>11, <1>12, <1>14, <1>15, <1>16, <1>17, <1>18, <1>19 DEF GoroutineSteps

(* A receive takes the head of a queue, which is a last word only when it  *)
(* is all there is; a delivery takes nothing.                              *)
LEMMA DrainWired ==
  ASSUME Types, Wired, NEW r \in Streams, Receives(r) \/ Delivers(r)
  PROVE  Wired'
<1>1. PICK c, q : c = readers[r].ch /\ q = streams[c].queue OBVIOUS
<1>2. readers[r] \in Reader /\ c \in Streams
  BY <1>1, LogsAssumption
     DEF Types, ReaderTypes, Reading, Reader, Streams, NoStream, Receives, Delivers
<1>3. streams[c] \in Goroutine /\ q \in Seq(Message) /\ Plugged(streams[c])
  BY <1>1, <1>2 DEF Types, StreamTypes, Formed, Goroutine, Wired
<1>4. DOMAIN streams = Streams /\ DOMAIN readers = Streams
  BY DEF Types, StreamTypes, ReaderTypes
<1>5. ASSUME NEW t, NEW h, ReaderSteps(r, t, h), h.ch = c,
             Plugged([streams[c] EXCEPT !.queue = t]),
             Through(c) => t = <<>>,
             h.tail \in Words \cup {"end"} => streams[c].closed /\ t = <<>>
      PROVE  Wired'
  <2>1. /\ streams' = [streams EXCEPT ![c].queue = t] /\ readers' = [readers EXCEPT ![r] = h]
        /\ current' = current
    BY <1>1, <1>5 DEF ReaderSteps, screenVars
  <2>2. /\ streams'[c] = [streams[c] EXCEPT !.queue = t]
        /\ streams'[c].queue = t /\ streams'[c].closed = streams[c].closed
    BY <1>2, <1>3, <1>4, <2>1 DEF Goroutine
  <2>3. \A s \in Streams : Plugged(streams'[s]) BY <1>4, <1>5, <2>1, <2>2 DEF Wired
  <2>4. ASSUME NEW s, Through(s) PROVE Through(s)'
    BY <1>4, <1>5, <2>1, <2>2, <2>4 DEF Through
  <2>5. ASSUME NEW k \in Streams, readers'[k].tail \in Words \cup {"end"}
        PROVE  readers[k].ch # NoStream /\ Through(readers[k].ch)'
    <3>1. CASE k = r
      BY <1>1, <1>2, <1>4, <1>5, <2>1, <2>2, <2>5, <3>1 DEF Through, NoStream, Streams
    <3>2. CASE k # r BY <1>4, <2>1, <2>4, <2>5, <3>2 DEF Wired
    <3> QED BY <3>1, <3>2
  <2>6. \A k \in Streams : readers'[k].ch = readers[k].ch BY <1>1, <1>4, <1>5, <2>1
  <2> QED BY <2>1, <2>3, <2>4, <2>5, <2>6 DEF Wired, Plugged
<1>6. CASE Receives(r)
  <2>1. PICK m, t : m = Head(q) /\ t = Tail(q) OBVIOUS
  <2>2. q # <<>> BY <1>1, <1>6 DEF Receives
  <2>3. /\ m = q[1] /\ m \in Message /\ t \in Seq(Message) /\ Len(t) = Len(q) - 1
        /\ \A i \in 1..Len(t) : t[i] = q[i + 1]
    BY <1>3, <2>1, <2>2
  <2>4. m.kind \in Words => streams[c].closed /\ t = <<>>
    BY <1>1, <1>3, <2>3 DEF Plugged
  <2>5. Plugged([streams[c] EXCEPT !.queue = t])
    <3>1. ASSUME NEW i \in 1..Len(t), t[i].kind \in Words
          PROVE  streams[c].closed /\ i = Len(t)
      BY <1>1, <1>3, <2>3, <3>1 DEF Plugged
    <3> QED BY <1>3, <3>1 DEF Plugged, Goroutine
  <2>6. ASSUME m.kind = "line" PROVE Wired'
    <3>1. PICK h : h = [readers[r] EXCEPT !.lines = Append(@, m.at)] OBVIOUS
    <3>2. h.ch = c /\ h.tail = readers[r].tail BY <1>1, <1>2, <3>1 DEF Reader
    <3>3. ~Through(c) BY <1>1, <2>2 DEF Through
    <3>4. ReaderSteps(r, t, h) BY <1>1, <1>6, <2>1, <2>6, <3>1 DEF Receives
    <3> QED BY <1>1, <1>5, <2>5, <3>2, <3>3, <3>4 DEF Wired
  <2>7. ASSUME m.kind # "line" PROVE Wired'
    <3>1. PICK h : h = [readers[r] EXCEPT !.tail = m.kind, !.sent = TRUE] OBVIOUS
    <3>2. h.ch = c /\ h.tail = m.kind /\ m.kind # "end"
      BY <1>1, <1>2, <2>3, <3>1 DEF Reader, Message, Control
    <3>3. ~Through(c) BY <1>1, <2>2 DEF Through
    <3>4. ReaderSteps(r, t, h) BY <1>1, <1>6, <2>1, <2>7, <3>1 DEF Receives
    <3> QED BY <1>5, <2>4, <2>5, <3>2, <3>3, <3>4
  <2> QED BY <2>6, <2>7
<1>7. CASE Delivers(r)
  <2>1. PICK h, e : /\ h = [readers[r] EXCEPT !.sent = TRUE]
                    /\ e = [readers[r] EXCEPT !.tail = "end", !.sent = TRUE]
    OBVIOUS
  <2>2. h.ch = c /\ h.tail = readers[r].tail /\ e.ch = c BY <1>1, <1>2, <2>1 DEF Reader
  <2>3. [streams[c] EXCEPT !.queue = q] = streams[c] BY <1>1, <1>3 DEF Goroutine
  <2>4. CASE ReaderSteps(r, q, h)
    BY <1>1, <1>3, <1>5, <2>2, <2>3, <2>4 DEF Wired, Through
  <2>5. CASE ReaderSteps(r, <<>>, e) /\ q = <<>> /\ streams[c].closed
    BY <1>3, <1>5, <2>2, <2>3, <2>5
  <2> QED BY <1>1, <1>7, <2>1, <2>4, <2>5 DEF Delivers
<1> QED BY <1>6, <1>7

(* A handler that does not read again had the last word, so its channel is *)
(* through; one that does reads the channel in use.                        *)
LEMMA HandlesWired ==
  ASSUME Types, Wired, NEW r \in Streams, Handles(r)
  PROVE  Wired'
<1>1. PICK h : /\ readers' = [readers EXCEPT ![r] = h]
               /\ IF ReadsOn(readers[r].ch, readers[r].tail) THEN h = [Idle EXCEPT !.ch = current]
                  ELSE h = Idle
  BY DEF Handles
<1>2. UNCHANGED <<streams, current>> BY DEF Handles
<1>3. readers[r] \in Reader /\ DOMAIN readers = Streams
  BY DEF Types, ReaderTypes, Reading
<1>4. h.tail = "none" BY <1>1 DEF Idle
<1>5. \A s : Through(s)' <=> Through(s) BY <1>2 DEF Through
<1>6. \A k \in Streams : readers'[k].tail \in Words \cup {"end"} =>
        readers'[k].ch # NoStream /\ Through(readers'[k].ch)
  BY <1>1, <1>3, <1>4 DEF Wired, Words
<1>7. ASSUME current # NoStream, ~Through(current)
      PROVE  \E k \in Streams : readers'[k].ch = current
  <2>1. PICK k \in Streams : readers[k].ch = current BY <1>7 DEF Wired
  <2>2. CASE k # r BY <1>1, <1>3, <2>1, <2>2
  <2>3. CASE k = r
    <3>1. readers[r].tail \notin Words \cup {"end"} BY <1>7, <2>1, <2>3 DEF Wired
    <3>2. ReadsOn(readers[r].ch, readers[r].tail)
      BY <1>3, <3>1 DEF ReadsOn, Reader, Control, Words
    <3>3. h.ch = current BY <1>1, <3>2 DEF Idle
    <3> QED BY <1>1, <1>3, <3>3
  <2> QED BY <2>2, <2>3
<1> QED BY <1>2, <1>5, <1>6, <1>7 DEF Wired, Plugged

LEMMA CancelledWired ==
  ASSUME Types, Wired, UNCHANGED <<readers, current>>, NEW C,
         streams' = [s \in Streams |->
                       IF s \in C THEN [streams[s] EXCEPT !.cancelled = TRUE] ELSE streams[s]]
  PROVE  Wired'
<1>1. ASSUME NEW s \in Streams
      PROVE  /\ streams'[s].closed = streams[s].closed /\ streams'[s].pc = streams[s].pc
             /\ streams'[s].queue = streams[s].queue
  <2>1. streams[s] \in Goroutine BY DEF Types, StreamTypes, Formed
  <2>2. streams'[s] \in {streams[s], [streams[s] EXCEPT !.cancelled = TRUE]} OBVIOUS
  <2> QED BY <2>1, <2>2 DEF Goroutine
<1>2. \A s \in Streams : Plugged(streams'[s]) BY <1>1 DEF Wired, Plugged
<1>3. ASSUME NEW s \in Streams, Through(s) PROVE Through(s)' BY <1>1, <1>3 DEF Through
<1>4. current # NoStream => current \in Streams
  BY LogsAssumption DEF Types, ScreenTypes, NoStream, Streams
<1>5. ASSUME NEW r \in Streams, readers[r].tail \in Words \cup {"end"}
      PROVE  readers[r].ch # NoStream /\ Through(readers[r].ch)'
  <2>1. readers[r].ch \in Streams /\ readers[r].ch # NoStream
    BY <1>5, LogsAssumption DEF Wired, Types, ReaderTypes, Reading, Reader, Streams, NoStream
  <2> QED BY <1>3, <1>5, <2>1 DEF Wired
<1> QED BY <1>2, <1>3, <1>4, <1>5 DEF Wired, Plugged

(* A connect puts a reader on the new channel, and leaves the others be.   *)
LEMMA ConnectWired ==
  ASSUME Types, Wired, Connect
  PROVE  Wired'
<1>1. PICK b, g, h : /\ b = begun + 1 /\ g = [Unborn EXCEPT !.id = id, !.pc = "begin"]
                     /\ h = [Idle EXCEPT !.ch = b]
  OBVIOUS
<1>2. /\ streams' = [streams EXCEPT ![b] = g] /\ readers' = [readers EXCEPT ![b] = h]
      /\ current' = b
  BY <1>1 DEF Connect
<1>3. b \in Streams /\ \A k \in Nat : k <= begun => k # b
  BY <1>1, LogsAssumption DEF Connect, Types, ScreenTypes, Streams
<1>4. DOMAIN streams = Streams /\ DOMAIN readers = Streams
  BY DEF Types, StreamTypes, ReaderTypes
<1>5. g.closed = FALSE /\ g.queue = <<>> /\ h.tail = "none" /\ h.ch = b
  BY <1>1 DEF Unborn, Idle
<1>6. \A s \in Streams : Plugged(streams'[s]) BY <1>2, <1>4, <1>5 DEF Wired, Plugged
<1>7. ASSUME NEW r \in Streams, readers'[r].tail \in Words \cup {"end"}
      PROVE  readers'[r].ch # NoStream /\ Through(readers[r].ch)'
  <2>1. r # b BY <1>2, <1>4, <1>5, <1>7 DEF Words
  <2>2. readers'[r] = readers[r] BY <1>2, <1>4, <2>1
  <2>3. readers[r].ch # b
    BY <1>3, LogsAssumption DEF Types, ReaderTypes, Reading, Reader
  <2>4. readers[r].ch # NoStream /\ Through(readers[r].ch) BY <1>7, <2>2 DEF Wired
  <2> QED BY <1>2, <1>4, <2>2, <2>3, <2>4 DEF Through
<1>8. readers'[b].ch = b BY <1>2, <1>3, <1>4, <1>5
<1> QED BY <1>2, <1>3, <1>6, <1>7, <1>8 DEF Wired, Plugged

LEMMA StepsWired == Types /\ Wired /\ [Next]_vars => Wired'
<1> SUFFICES ASSUME Types, Wired, [Next]_vars PROVE Wired' OBVIOUS
<1>1. ASSUME UNCHANGED <<streams, readers, current>> PROVE Wired'
  BY <1>1 DEF Wired, Plugged, Through
<1>2. ASSUME CancelStream, UNCHANGED <<readers, current>> PROVE Wired'
  <2>1. PICK C : C = {cancel} OBVIOUS
  <2> QED BY <1>2, <2>1, CancelledWired DEF CancelStream
<1>3. CASE BeginStream BY <1>2, <1>3 DEF BeginStream
<1>4. CASE Esc BY <1>2, <1>4 DEF Esc
<1>5. ASSUME NEW k \in Checks, Lookup(k) \/ ContainerReady(k) \/ ContainerWaiting(k)
      PROVE  Wired'
  <2>1. CASE ContainerReady(k) BY <1>1, <2>1, ConnectWired DEF ContainerReady
  <2> QED BY <1>1, <1>5, <2>1 DEF Lookup, ContainerWaiting, screenVars
<1>6. CASE ContextEnds
  <2>1. PICK C : C = {s \in Streams : streams[s].pc # "unborn"} OBVIOUS
  <2>2. UNCHANGED <<readers, current>> BY <1>6 DEF ContextEnds, screenVars
  <2>3. streams' = [s \in Streams |->
                      IF s \in C THEN [streams[s] EXCEPT !.cancelled = TRUE] ELSE streams[s]]
    BY <1>6, <2>1 DEF ContextEnds
  <2> QED BY <2>2, <2>3, CancelledWired
<1>7. CASE PodChanged \/ Starts \/ Crashes \/ Restarts \/ Goes \/ OtherEvent \/ Writes
  BY <1>1, <1>7 DEF PodChanged, Starts, Crashes, Restarts, Goes, OtherEvent, Writes, PodSteps,
                    screenVars
<1>8. CASE UNCHANGED vars BY <1>1, <1>8 DEF vars, screenVars
<1> QED BY <1>3, <1>4, <1>5, <1>6, <1>7, <1>8, DrainWired, HandlesWired, GoroutineWired DEF Next

(* The channel in use is through, or some command reads it or carries a    *)
(* message whose handler will, for every number of connections, whatever   *)
(* superseded readers come back when: a follow never stands still because  *)
(* nobody waits on its channel.                                            *)
THEOREM ChannelKeepsItsReader == Spec => []ChannelHasItsReader
<1>1. Init => Wired
  <2> SUFFICES ASSUME Init PROVE Wired OBVIOUS
  <2>1. \A s \in Streams : streams[s] = Unborn BY DEF Init
  <2>2. \A r \in Streams : readers[r] = Idle BY DEF Init
  <2> QED BY <2>1, <2>2 DEF Init, Wired, Plugged, Unborn, Idle, Words
<1>2. Types /\ Wired => ChannelHasItsReader
  <2> SUFFICES ASSUME Types, Wired, current # NoStream, ~Through(current)
               PROVE  \E r \in Streams : ReadsFrom(r, current)
    BY DEF ChannelHasItsReader, Through
  <2>1. PICK r \in Streams : readers[r].ch = current BY DEF Wired
  <2>2. readers[r].tail \notin Words \cup {"end"} BY <2>1 DEF Wired
  <2>3. readers[r] \in Reader BY DEF Types, ReaderTypes, Reading
  <2>4. ReadsOn(current, readers[r].tail)
    BY <2>2, <2>3 DEF ReadsOn, Reader, Control, Words
  <2> QED BY <2>1, <2>4 DEF ReadsFrom
<1> QED BY <1>1, <1>2, StepsWired, TypesHold, PTL DEF Spec
-----------------------------------------------------------------------------
(* The strengthening that makes MarkersAreRestarts inductive.  A boundary  *)
(* marker is at one place: among the entries, in the lines a reader holds, *)
(* or in a channel.  Two markers of a goroutine that knows its container's *)
(* restart count tell different restarts, whatever places they have got    *)
(* to; each tells a restart up to the count the goroutine knows, and an    *)
(* earlier one when that count has moved and its marker is still to come;  *)
(* and a goroutine that is not live yet has sent none.                     *)
Places == {"shown", "read", "queued"} \X Nat \X Nat
Marker(s, p, n) ==
  \/ /\ p[1] = "shown" /\ p[2] = 0 /\ p[3] \in 1..Len(shown)
     /\ shown[p[3]].by = s /\ shown[p[3]].at = <<n, 0>>
  \/ /\ p[1] = "read" /\ p[2] \in Streams /\ p[3] \in 1..Len(readers[p[2]].lines)
     /\ readers[p[2]].ch = s /\ readers[p[2]].lines[p[3]] = <<n, 0>>
  \/ /\ p[1] = "queued" /\ p[2] = 0 /\ p[3] \in 1..Len(streams[s].queue)
     /\ streams[s].queue[p[3]] = Line(<<n, 0>>)

Early == {"unborn", "begin", "history", "fallback", "reading", "telling"}
Sound(g) ==
  /\ g.next >= 1
  /\ g.pc \in Early => ~g.live
  /\ g.pc = "marking" => g.live
HasTold(g, n) ==
  /\ g.live
  /\ g.last # NoCount => n <= g.last /\ (g.pc \in {"follow", "marking"} => n < g.last)
Apart(s) ==
  \A p, q \in Places, n \in Nat : Marker(s, p, n) /\ Marker(s, q, n) => p = q
Marked(s) ==
  /\ Sound(streams[s])
  /\ \A p \in Places, n \in Nat : Marker(s, p, n) => HasTold(streams[s], n)
  /\ streams[s].last # NoCount => Apart(s)
AllMarked == \A s \in Streams : Marked(s)

(* What is marked stays so when no marker is added and no goroutine moves: *)
(* each place a marker has got to is the one place it came from.           *)
LEMMA MovesMarked ==
  ASSUME NEW s \in Streams, Marked(s), NEW F,
         \A p \in Places, n \in Nat : Marker(s, p, n)' => F[p] \in Places /\ Marker(s, F[p], n),
         \A p, q \in Places, n \in Nat :
           Marker(s, p, n)' /\ Marker(s, q, n)' /\ F[p] = F[q] => p = q,
         streams'[s].next = streams[s].next, streams'[s].pc = streams[s].pc,
         streams'[s].live = streams[s].live, streams'[s].last = streams[s].last
  PROVE  Marked(s)'
<1>1. Sound(streams[s])' BY DEF Marked, Sound
<1>2. \A n \in Nat : HasTold(streams[s], n) => HasTold(streams[s], n)' BY DEF HasTold
<1>3. \A p \in Places, n \in Nat : Marker(s, p, n)' => HasTold(streams[s], n)'
  BY <1>2 DEF Marked
<1>4. streams'[s].last # NoCount => Apart(s)' BY DEF Marked, Apart
<1> QED BY <1>1, <1>3, <1>4 DEF Marked

(* Nothing moves: the entries, the readers' lines and the queues are as    *)
(* they were, or fewer.                                                    *)
LEMMA StaysMarked ==
  ASSUME NEW s \in Streams, Marked(s), \A p \in Places, n \in Nat : Marker(s, p, n)' => Marker(s, p, n),
         streams'[s].next = streams[s].next, streams'[s].pc = streams[s].pc,
         streams'[s].live = streams[s].live, streams'[s].last = streams[s].last
  PROVE  Marked(s)'
<1>1. PICK F : F = [p \in Places |-> p] OBVIOUS
<1>2. \A p \in Places : F[p] = p BY <1>1
<1> QED BY <1>2, MovesMarked

(* A step of a goroutine that sends no marker and knows no less of the     *)
(* restart count than it did.                                              *)
Knows(g, h) ==
  /\ \A n \in Nat : HasTold(g, n) => HasTold(h, n)
  /\ h.last # NoCount /\ g.live => g.last # NoCount
LEMMA QuietMarked ==
  ASSUME Types, AllMarked, NEW s \in Streams, NEW g, Becomes(s, g), Sound(g), Knows(streams[s], g),
         \/ g.queue = streams[s].queue
         \/ \E m \in Message : g.queue = Append(streams[s].queue, m) /\ ~(\E n \in Nat : m = Line(<<n, 0>>))
  PROVE  AllMarked'
<1>1. streams' = [streams EXCEPT ![s] = g] /\ UNCHANGED <<shown, readers>>
  BY DEF Becomes, screenVars
<1>2. DOMAIN streams = Streams /\ streams[s].queue \in Seq(Message)
  BY DEF Types, StreamTypes, Formed, Goroutine
<1>3. ASSUME NEW p \in Places, NEW n \in Nat, Marker(s, p, n)' PROVE Marker(s, p, n)
  <2>1. ASSUME p[1] = "queued", p[3] \in 1..Len(g.queue), g.queue[p[3]] = Line(<<n, 0>>)
        PROVE  p[3] \in 1..Len(streams[s].queue) /\ streams[s].queue[p[3]] = Line(<<n, 0>>)
    <3>1. CASE g.queue = streams[s].queue BY <2>1, <3>1
    <3>2. ASSUME NEW m \in Message, g.queue = Append(streams[s].queue, m), m # Line(<<n, 0>>)
          PROVE  p[3] \in 1..Len(streams[s].queue) /\ streams[s].queue[p[3]] = Line(<<n, 0>>)
      <4>1. Len(g.queue) = Len(streams[s].queue) + 1 /\ Len(streams[s].queue) \in Nat
        BY <1>2, <3>2
      <4>2. g.queue[Len(streams[s].queue) + 1] = m BY <1>2, <3>2
      <4>3. p[3] # Len(streams[s].queue) + 1 BY <2>1, <3>2, <4>2
      <4>4. p[3] \in 1..Len(streams[s].queue) BY <2>1, <4>1, <4>3
      <4> QED BY <1>2, <2>1, <3>2, <4>4
    <3> QED BY <3>1, <3>2
  <2>2. streams'[s] = g BY <1>1, <1>2
  <2> QED BY <1>1, <1>3, <2>1, <2>2 DEF Marker
<1>4. Marked(s)'
  <2>1. streams'[s] = g BY <1>1, <1>2
  <2>2. \A p \in Places, n \in Nat : Marker(s, p, n)' => HasTold(streams[s], n)
    BY <1>3 DEF AllMarked, Marked
  <2>3. \A p \in Places, n \in Nat : Marker(s, p, n)' => HasTold(streams[s], n)'
    BY <2>1, <2>2 DEF Knows
  <2>4. g.last # NoCount => Apart(s)'
    BY <1>3, <2>2 DEF AllMarked, Marked, Apart, Knows, HasTold
  <2> QED BY <2>1, <2>3, <2>4 DEF Marked
<1>5. ASSUME NEW t \in Streams, t # s PROVE Marked(t)'
  <2>1. streams'[t] = streams[t] BY <1>1, <1>2, <1>5
  <2>2. \A p \in Places, n \in Nat : Marker(t, p, n)' => Marker(t, p, n) BY <1>1, <2>1 DEF Marker
  <2> QED BY <2>1, <2>2, StaysMarked DEF AllMarked
<1> QED BY <1>4, <1>5 DEF AllMarked

(* The boundary marker: every earlier one tells a smaller count, so the    *)
(* one that is queued now tells another restart.                           *)
LEMMA MarksMarked ==
  ASSUME Types, AllMarked, NEW s \in Streams, streams[s].pc = "marking", NEW k \in Nat,
         streams[s].last # NoCount => k = streams[s].last,
         NEW g, g.queue = Append(streams[s].queue, Line(<<k, 0>>)),
         g.next = streams[s].next, g.live = streams[s].live, g.last = streams[s].last,
         g.pc = "following", Becomes(s, g)
  PROVE  AllMarked'
<1>1. streams' = [streams EXCEPT ![s] = g] /\ UNCHANGED <<shown, readers>>
  BY DEF Becomes, screenVars
<1>2. /\ DOMAIN streams = Streams /\ streams[s].queue \in Seq(Message)
      /\ streams[s].last \in Nat \cup {NoCount}
  BY DEF Types, StreamTypes, Formed, Goroutine
<1>3. PICK end : end = Len(streams[s].queue) + 1 OBVIOUS
<1>4. /\ Len(g.queue) = end /\ g.queue[end] = Line(<<k, 0>>)
      /\ \A i \in 1..Len(g.queue) : i # end =>
           i \in 1..Len(streams[s].queue) /\ g.queue[i] = streams[s].queue[i]
  BY <1>2, <1>3
<1>5. streams'[s] = g /\ Marked(s) /\ g.live BY <1>1, <1>2 DEF AllMarked, Marked, Sound
<1>6. \A n \in Nat : Line(<<n, 0>>) = Line(<<k, 0>>) => n = k
  <2>1. \A n \in Nat : Line(<<n, 0>>).at = <<n, 0>> BY DEF Line
  <2> QED BY <2>1
<1>7. ASSUME NEW p \in Places, NEW n \in Nat, Marker(s, p, n)'
      PROVE  Marker(s, p, n) \/ (p = <<"queued", 0, end>> /\ n = k)
  <2>1. CASE p[1] = "queued" /\ p[3] = end
    BY <1>4, <1>5, <1>6, <1>7, <2>1 DEF Marker, Places
  <2>2. CASE ~(p[1] = "queued" /\ p[3] = end)
    BY <1>1, <1>4, <1>5, <1>7, <2>2 DEF Marker
  <2> QED BY <2>1, <2>2
<1>8. \A p \in Places, n \in Nat : Marker(s, p, n) =>
        HasTold(g, n) /\ (g.last # NoCount => n # k)
  BY <1>2, <1>5 DEF Marked, HasTold, NoCount
<1>9. HasTold(g, k) BY <1>2, <1>5 DEF HasTold, NoCount
<1>10. Marked(s)'
  <2>1. Sound(g) BY <1>5 DEF Marked, Sound, Early
  <2>2. \A p \in Places, n \in Nat : Marker(s, p, n)' => HasTold(g, n) BY <1>7, <1>8, <1>9
  <2>3. g.last # NoCount => Apart(s)' BY <1>5, <1>7, <1>8 DEF Marked, Apart
  <2> QED BY <1>5, <2>1, <2>2, <2>3 DEF Marked
<1>11. ASSUME NEW t \in Streams, t # s PROVE Marked(t)'
  <2>1. streams'[t] = streams[t] BY <1>1, <1>2, <1>11
  <2>2. \A p \in Places, n \in Nat : Marker(t, p, n)' => Marker(t, p, n) BY <1>1, <2>1 DEF Marker
  <2> QED BY <2>1, <2>2, StaysMarked DEF AllMarked
<1> QED BY <1>10, <1>11 DEF AllMarked

LEMMA GoroutineMarked ==
  ASSUME Types, AllMarked, NEW s \in Streams, GoroutineSteps(s)
  PROVE  AllMarked'
<1> DEFINE old == streams[s]
<1>1. old \in Goroutine /\ Sound(old) BY DEF Types, StreamTypes, Formed, AllMarked, Marked
<1>2. restarts \in Nat /\ Written(restarts) \in Nat BY RunTyped DEF Types
<1>3. ASSUME NEW g, g.queue = old.queue, g.next >= 1, g.live = old.live, g.last = old.last,
             g.pc \in Early => old.pc \in Early, g.pc # "marking",
             g.pc = "follow" => old.pc \in {"follow", "marking"} \/ ~old.live, Becomes(s, g)
      PROVE  AllMarked'
  <2>1. Sound(g) BY <1>1, <1>3 DEF Sound
  <2>2. Knows(old, g) BY <1>3 DEF Knows, HasTold
  <2> QED BY <1>3, <2>1, <2>2, QuietMarked
<1>4. ASSUME NEW kind, old.pc # "unborn", Ends(s, kind) PROVE AllMarked'
  <2>1. PICK g : g = [old EXCEPT !.pc = "final", !.out = kind] OBVIOUS
  <2>2. /\ g.queue = old.queue /\ g.next = old.next /\ g.live = old.live /\ g.last = old.last
        /\ g.pc = "final"
    BY <1>1, <2>1 DEF Goroutine
  <2> QED BY <1>1, <1>3, <1>4, <2>1, <2>2 DEF Ends, Sound, Early
<1>5. CASE Begins(s)
  <2>1. PICK l : Becomes(s, [old EXCEPT !.pc = "history", !.last = l]) BY <1>5 DEF Begins
  <2>2. PICK g : g = [old EXCEPT !.pc = "history", !.last = l] OBVIOUS
  <2>3. /\ g.queue = old.queue /\ g.next = old.next /\ g.live = old.live /\ g.pc = "history"
        /\ old.pc = "begin"
    BY <1>1, <1>5, <2>2 DEF Goroutine, Begins
  <2>4. ~old.live BY <1>1, <2>3 DEF Sound, Early
  <2>5. Sound(g) BY <1>1, <2>3, <2>4 DEF Sound
  <2>6. Knows(old, g) BY <2>4 DEF Knows, HasTold
  <2> QED BY <2>1, <2>2, <2>3, <2>5, <2>6, QuietMarked
<1>6. CASE OpenFails(s)
  <2>1. old.pc # "unborn" BY <1>6 DEF OpenFails, Opening
  <2> QED BY <1>4, <1>6, <2>1 DEF OpenFails
<1>7. CASE OpensHistory(s)
  <2>1. old.pc \in Early BY <1>7 DEF OpensHistory, Early
  <2>2. ASSUME NEW from \in 1..Written(restarts),
               Becomes(s, [old EXCEPT !.pc = "reading", !.run = restarts, !.next = from,
                                      !.end = Written(restarts)])
        PROVE  AllMarked'
    <3>1. PICK g : g = [old EXCEPT !.pc = "reading", !.run = restarts, !.next = from,
                                   !.end = Written(restarts)]
      OBVIOUS
    <3>2. /\ g.queue = old.queue /\ g.next = from /\ g.live = old.live /\ g.last = old.last
          /\ g.pc = "reading" /\ from >= 1
      BY <1>1, <1>2, <3>1 DEF Goroutine
    <3> QED BY <1>3, <2>1, <2>2, <3>1, <3>2
  <2>3. ASSUME NEW pc \in {"fallback", "telling"}, Becomes(s, [old EXCEPT !.pc = pc])
        PROVE  AllMarked'
    <3>1. PICK g : g = [old EXCEPT !.pc = pc] OBVIOUS
    <3>2. /\ g.queue = old.queue /\ g.next = old.next /\ g.live = old.live /\ g.last = old.last
          /\ g.pc = pc
      BY <1>1, <3>1 DEF Goroutine
    <3> QED BY <1>1, <1>3, <2>1, <2>3, <3>1, <3>2 DEF Sound
  <2> QED BY <1>7, <2>2, <2>3 DEF OpensHistory
<1>8. CASE TellsEmpty(s)
  <2>1. old.pc = "telling" /\ ~old.live BY <1>1, <1>8 DEF TellsEmpty, Sound, Early
  <2>2. PICK m : m = Plain("empty") OBVIOUS
  <2>3. m \in Message /\ ~(\E n \in Nat : m = Line(<<n, 0>>))
    BY <2>2 DEF Plain, Line, Message, Control, NoLine
  <2>4. CASE Becomes(s, [old EXCEPT !.pc = "follow"])
    <3>1. PICK g : g = [old EXCEPT !.pc = "follow"] OBVIOUS
    <3>2. /\ g.queue = old.queue /\ g.next = old.next /\ g.live = old.live /\ g.last = old.last
          /\ g.pc = "follow"
      BY <1>1, <3>1 DEF Goroutine
    <3> QED BY <1>1, <1>3, <2>1, <2>4, <3>1, <3>2 DEF Sound, Early
  <2>5. CASE Becomes(s, [Sent(s, m) EXCEPT !.pc = "follow"])
    <3>1. PICK g : g = [Sent(s, m) EXCEPT !.pc = "follow"] OBVIOUS
    <3>2. /\ g.queue = Append(old.queue, m) /\ g.next = old.next /\ g.live = old.live
          /\ g.last = old.last /\ g.pc = "follow"
      BY <1>1, <3>1 DEF Goroutine, Sent
    <3>3. Sound(g) /\ Knows(old, g)
      BY <1>1, <2>1, <3>2 DEF Sound, Early, Knows, HasTold
    <3> QED BY <2>3, <2>5, <3>1, <3>2, <3>3, QuietMarked
  <2> QED BY <1>8, <2>2, <2>4, <2>5 DEF TellsEmpty
<1>9. CASE OpensFollow(s)
  <2>1. PICK from \in Overlap(s) :
          Becomes(s, [old EXCEPT !.pc = IF old.live THEN "marking" ELSE "following",
                                 !.live = TRUE, !.run = restarts, !.next = from])
    BY <1>9 DEF OpensFollow
  <2>2. PICK g : g = [old EXCEPT !.pc = IF old.live THEN "marking" ELSE "following",
                                 !.live = TRUE, !.run = restarts, !.next = from]
    OBVIOUS
  <2>3. old.pc = "follow" BY <1>9 DEF OpensFollow
  <2>4. /\ g.queue = old.queue /\ g.next = from /\ g.live /\ g.last = old.last
        /\ g.pc = IF old.live THEN "marking" ELSE "following"
    BY <1>1, <2>2 DEF Goroutine
  <2>5. from >= 1 BY <1>2 DEF Overlap
  <2>6. Sound(g) BY <2>4, <2>5 DEF Sound, Early
  <2>7. Knows(old, g)
    <3>1. \A n \in Nat : HasTold(old, n) => HasTold(g, n) BY <2>3, <2>4 DEF HasTold
    <3> QED BY <2>4, <3>1 DEF Knows
  <2> QED BY <2>1, <2>2, <2>4, <2>6, <2>7, QuietMarked
<1>10. CASE Marks(s)
  <2>1. old.pc = "marking" BY <1>10 DEF Marks
  <2>2. PICK k : k = IF old.last = NoCount THEN restarts ELSE old.last OBVIOUS
  <2>3. k \in Nat /\ (old.last # NoCount => k = old.last)
    BY <1>1, <1>2, <2>2 DEF Goroutine, NoCount
  <2>4. CASE Becomes(s, [Sent(s, Line(<<k, 0>>)) EXCEPT !.pc = "following"])
    <3>1. PICK m, g : m = Line(<<k, 0>>) /\ g = [Sent(s, m) EXCEPT !.pc = "following"] OBVIOUS
    <3>2. /\ g.queue = Append(old.queue, m) /\ g.next = old.next /\ g.live = old.live
          /\ g.last = old.last /\ g.pc = "following"
      BY <1>1, <3>1 DEF Goroutine, Sent
    <3> QED BY <2>1, <2>3, <2>4, <3>1, <3>2, MarksMarked
  <2> QED BY <1>4, <1>10, <2>1, <2>2, <2>4 DEF Marks
<1>11. CASE Reads(s)
  <2>1. old.pc \in {"reading", "following"} BY <1>11 DEF Reads
  <2>2. PICK at : at = <<old.run, old.next>> OBVIOUS
  <2>3. at \in Positions /\ old.next >= 1 /\ old.next \in Nat
    BY <1>1, <2>2 DEF Goroutine, Positions, Sound
  <2>4. CASE Becomes(s, [old EXCEPT !.next = @ + 1])
    <3>1. PICK g : g = [old EXCEPT !.next = @ + 1] OBVIOUS
    <3>2. /\ g.queue = old.queue /\ g.next = old.next + 1 /\ g.live = old.live
          /\ g.last = old.last /\ g.pc = old.pc
      BY <1>1, <3>1 DEF Goroutine
    <3>3. g.next >= 1 BY <2>3, <3>2
    <3>4. g.pc # "marking" /\ g.pc # "follow" BY <2>1, <3>2
    <3> QED BY <1>3, <2>4, <3>1, <3>2, <3>3, <3>4
  <2>5. ASSUME NEW d, Becomes(s, [Sent(s, Line(at)) EXCEPT !.next = @ + 1, !.dedup = d])
        PROVE  AllMarked'
    <3>1. PICK m, g : m = Line(at) /\ g = [Sent(s, m) EXCEPT !.next = @ + 1, !.dedup = d]
      OBVIOUS
    <3>2. /\ g.queue = Append(old.queue, m) /\ g.next = old.next + 1 /\ g.live = old.live
          /\ g.last = old.last /\ g.pc = old.pc
      BY <1>1, <3>1 DEF Goroutine, Sent
    <3>3. m \in Message /\ m.at = at BY <2>3, <3>1 DEF Line, Message, Positions
    <3>4. \A n \in Nat : m # Line(<<n, 0>>)
      <4>1. \A n \in Nat : Line(<<n, 0>>).at = <<n, 0>> BY DEF Line
      <4>2. at[2] # 0 BY <2>2, <2>3
      <4>3. \A n \in Nat : <<n, 0>>[2] = 0 OBVIOUS
      <4> QED BY <3>3, <4>1, <4>2, <4>3, Zenon
    <3>5. Sound(g) BY <1>1, <2>3, <3>2 DEF Sound
    <3>6. Knows(old, g) BY <3>2 DEF Knows, HasTold
    <3> QED BY <2>5, <3>1, <3>2, <3>3, <3>4, <3>5, <3>6, QuietMarked
  <2> QED BY <1>4, <1>11, <2>1, <2>2, <2>4, <2>5 DEF Reads
<1>12. CASE HistoryEnds(s)
  <2>1. PICK g : g = [old EXCEPT !.pc = "follow"] OBVIOUS
  <2>2. /\ g.queue = old.queue /\ g.next = old.next /\ g.live = old.live /\ g.last = old.last
        /\ g.pc = "follow" /\ old.pc = "reading" /\ Becomes(s, g)
    BY <1>1, <1>12, <2>1 DEF Goroutine, HistoryEnds
  <2> QED BY <1>1, <1>3, <2>2 DEF Sound, Early
<1>13. CASE FollowEnds(s)
  <2>1. PICK g : g = [old EXCEPT !.pc = "polling"] OBVIOUS
  <2>2. /\ g.queue = old.queue /\ g.next = old.next /\ g.live = old.live /\ g.last = old.last
        /\ g.pc = "polling" /\ Becomes(s, g)
    BY <1>1, <1>13, <2>1 DEF Goroutine, FollowEnds
  <2> QED BY <1>1, <1>3, <2>2 DEF Sound, Early
<1>14. CASE Polls(s)
  <2>1. old.pc = "polling" BY <1>14 DEF Polls
  <2>2. ASSUME NEW g, g.queue = old.queue, g.next = old.next, g.live = old.live,
               g.pc = "follow", Knows(old, g), Becomes(s, g)
        PROVE  AllMarked'
    BY <1>1, <2>2, QuietMarked DEF Sound, Early
  <2>3. CASE old.last = NoCount /\ Becomes(s, [old EXCEPT !.pc = "follow"])
    <3>1. PICK g : g = [old EXCEPT !.pc = "follow"] OBVIOUS
    <3>2. /\ g.queue = old.queue /\ g.next = old.next /\ g.live = old.live /\ g.last = old.last
          /\ g.pc = "follow"
      BY <1>1, <3>1 DEF Goroutine
    <3>3. Knows(old, g) BY <2>3, <3>2 DEF Knows, HasTold
    <3> QED BY <2>2, <2>3, <3>1, <3>2, <3>3
  <2>4. CASE /\ old.last # NoCount /\ restarts > old.last
             /\ Becomes(s, [old EXCEPT !.pc = "follow", !.last = restarts])
    <3>1. PICK g : g = [old EXCEPT !.pc = "follow", !.last = restarts] OBVIOUS
    <3>2. /\ g.queue = old.queue /\ g.next = old.next /\ g.live = old.live /\ g.last = restarts
          /\ g.pc = "follow" /\ old.last \in Nat
      BY <1>1, <2>4, <3>1 DEF Goroutine
    <3>3. Knows(old, g) BY <1>2, <2>4, <3>2 DEF Knows, HasTold
    <3> QED BY <2>2, <2>4, <3>1, <3>2, <3>3
  <2> QED BY <1>4, <1>14, <2>1, <2>3, <2>4 DEF Polls
<1>15. CASE LastWord(s)
  <2>1. PICK m, g : m = Plain(old.out) /\ g = [Sent(s, m) EXCEPT !.pc = "done", !.closed = TRUE]
    OBVIOUS
  <2>2. old.pc = "final" /\ old.out \in Control /\ Becomes(s, g)
    BY <1>15, <2>1 DEF LastWord, Types, StreamTypes, Formed
  <2>3. m \in Message /\ ~(\E n \in Nat : m = Line(<<n, 0>>))
    BY <2>1, <2>2 DEF Plain, Line, Message, Control, NoLine
  <2>4. /\ g.queue = Append(old.queue, m) /\ g.next = old.next /\ g.live = old.live
        /\ g.last = old.last /\ g.pc = "done"
    BY <1>1, <2>1 DEF Goroutine, Sent
  <2>5. Sound(g) /\ Knows(old, g) BY <1>1, <2>4 DEF Sound, Early, Knows, HasTold
  <2> QED BY <2>2, <2>3, <2>4, <2>5, QuietMarked
<1> QED BY <1>5, <1>6, <1>7, <1>8, <1>9, <1>10, <1>11, <1>12, <1>13, <1>14, <1>15 DEF GoroutineSteps

(* A reader takes the head of its channel's queue behind its own lines; a  *)
(* delivery moves nothing.                                                 *)
LEMMA DrainMarked ==
  ASSUME Types, AllMarked, NEW r \in Streams, Receives(r) \/ Delivers(r)
  PROVE  AllMarked'
<1>1. PICK c, q, L : c = readers[r].ch /\ q = streams[c].queue /\ L = readers[r].lines OBVIOUS
<1>2. readers[r] \in Reader /\ c \in Streams /\ L \in Seq(Positions)
  BY <1>1, LogsAssumption
     DEF Types, ReaderTypes, Reading, Reader, Streams, NoStream, Receives, Delivers
<1>3. streams[c] \in Goroutine /\ q \in Seq(Message)
  BY <1>1, <1>2 DEF Types, StreamTypes, Formed, Goroutine
<1>4. DOMAIN streams = Streams /\ DOMAIN readers = Streams
  BY DEF Types, StreamTypes, ReaderTypes
<1>5. ASSUME NEW t, NEW h, ReaderSteps(r, t, h)
      PROVE  /\ streams' = [streams EXCEPT ![c].queue = t] /\ readers' = [readers EXCEPT ![r] = h]
             /\ shown' = shown
             /\ streams'[c].queue = t
             /\ \A s \in Streams : s # c => streams'[s] = streams[s]
             /\ \A s \in Streams :
                  /\ streams'[s].next = streams[s].next /\ streams'[s].pc = streams[s].pc
                  /\ streams'[s].live = streams[s].live /\ streams'[s].last = streams[s].last
  <2>1. /\ streams' = [streams EXCEPT ![c].queue = t] /\ readers' = [readers EXCEPT ![r] = h]
        /\ shown' = shown
    BY <1>1, <1>5 DEF ReaderSteps, screenVars
  <2>2. streams'[c] = [streams[c] EXCEPT !.queue = t] BY <1>2, <1>4, <2>1
  <2> QED BY <1>3, <1>4, <2>1, <2>2 DEF Goroutine
<1>6. CASE Delivers(r)
  <2>1. PICK h, e : /\ h = [readers[r] EXCEPT !.sent = TRUE]
                    /\ e = [readers[r] EXCEPT !.tail = "end", !.sent = TRUE]
    OBVIOUS
  <2>2. h.ch = c /\ h.lines = L /\ e.ch = c /\ e.lines = L BY <1>1, <1>2, <2>1 DEF Reader
  <2>3. PICK t, d : ReaderSteps(r, t, d) /\ t \in {q, <<>>} /\ d.ch = c /\ d.lines = L
    BY <1>1, <1>6, <2>1, <2>2 DEF Delivers
  <2>4. ASSUME NEW s \in Streams PROVE Marked(s)'
    <3>1. shown' = shown /\ readers' = [readers EXCEPT ![r] = d] BY <1>5, <2>3
    <3>2. \A k \in Streams : readers'[k].ch = readers[k].ch /\ readers'[k].lines = readers[k].lines
      BY <1>1, <1>4, <2>3, <3>1
    <3>3. \A p \in Places, n \in Nat : Marker(s, p, n)' => Marker(s, p, n)
      <4>1. CASE streams'[s].queue = streams[s].queue BY <3>1, <3>2, <4>1 DEF Marker
      <4>2. CASE streams'[s].queue = <<>> BY <3>1, <3>2, <4>2 DEF Marker
      <4> QED BY <1>1, <1>5, <2>3, <4>1, <4>2
    <3> QED BY <1>5, <2>3, <3>3, StaysMarked DEF AllMarked
  <2> QED BY <2>4 DEF AllMarked
<1>7. CASE Receives(r)
  <2>1. PICK m, t, len : m = Head(q) /\ t = Tail(q) /\ len = Len(L) OBVIOUS
  <2>2. q # <<>> BY <1>1, <1>7 DEF Receives
  <2>3. /\ m = q[1] /\ m \in Message /\ Len(q) \in Nat /\ 1 \in 1..Len(q)
        /\ Len(t) = Len(q) - 1 /\ \A i \in 1..Len(t) : t[i] = q[i + 1]
    BY <1>3, <2>1, <2>2
  <2>4. PICK h : ReaderSteps(r, t, h) /\ h.ch = c
                 /\ (h.lines = L \/ (h.lines = Append(L, m.at) /\ m.kind = "line"))
    <3>1. PICK h, e : /\ h = [readers[r] EXCEPT !.lines = Append(@, m.at)]
                      /\ e = [readers[r] EXCEPT !.tail = m.kind, !.sent = TRUE]
      OBVIOUS
    <3>2. h.ch = c /\ h.lines = Append(L, m.at) /\ e.ch = c /\ e.lines = L
      BY <1>1, <1>2, <3>1 DEF Reader
    <3>3. (ReaderSteps(r, t, h) /\ m.kind = "line") \/ ReaderSteps(r, t, e)
      BY <1>1, <1>7, <2>1, <3>1 DEF Receives
    <3> QED BY <3>2, <3>3
  <2>5. ASSUME NEW i \in 1..Len(h.lines)
        PROVE  \/ i \in 1..len /\ h.lines[i] = L[i]
               \/ i = len + 1 /\ h.lines[i] = m.at /\ m = Line(m.at)
    <3>1. len \in Nat /\ m.at \in Positions BY <1>2, <2>1, <2>3 DEF Message, Positions
    <3>2. m.kind = "line" => m = Line(m.at) BY <2>3 DEF Message, Line
    <3> QED BY <1>2, <2>1, <2>4, <3>1, <3>2
  <2>6. PICK F : F = [p \in Places |->
                        IF p[1] = "queued" THEN <<"queued", p[2], p[3] + 1>>
                        ELSE IF p = <<"read", r, len + 1>> THEN <<"queued", 0, 1>>
                        ELSE p]
    OBVIOUS
  <2>7. len \in Nat /\ r \in Nat BY <1>2, <2>1 DEF Streams
  <2>8. ASSUME NEW p \in Places, NEW n \in Nat, Marker(c, p, n)'
        PROVE  F[p] \in Places /\ Marker(c, F[p], n) /\ (p[1] = "queued" => p[3] # 0)
    <3>1. CASE p[1] = "queued"
      <4>1. p[2] = 0 /\ p[3] \in 1..Len(t) /\ t[p[3]] = Line(<<n, 0>>)
        BY <1>5, <2>4, <2>8, <3>1 DEF Marker
      <4>2. PICK j : j = p[3] + 1 OBVIOUS
      <4>3. j \in 1..Len(q) /\ q[j] = Line(<<n, 0>>) /\ p[3] # 0 BY <2>3, <4>1, <4>2
      <4>4. F[p] = <<"queued", 0, j>> /\ j \in Nat BY <2>6, <3>1, <4>1, <4>2
      <4> QED BY <1>1, <4>3, <4>4 DEF Marker, Places
    <3>2. CASE p = <<"read", r, len + 1>>
      <4>1. F[p] = <<"queued", 0, 1>> BY <2>6, <2>8, <3>2
      <4>2. readers'[r] = h /\ len + 1 \notin 1..len BY <1>4, <1>5, <2>4, <2>7
      <4>3. h.lines[len + 1] = <<n, 0>> /\ len + 1 \in 1..Len(h.lines)
        BY <2>8, <3>2, <4>2 DEF Marker
      <4>4. m = Line(<<n, 0>>) BY <2>5, <4>2, <4>3
      <4>5. Marker(c, <<"queued", 0, 1>>, n) BY <1>1, <2>3, <4>4 DEF Marker
      <4>6. <<"queued", 0, 1>> \in Places BY DEF Places
      <4> QED BY <3>2, <4>1, <4>5, <4>6
    <3>3. CASE p[1] # "queued" /\ p # <<"read", r, len + 1>>
      <4>1. F[p] = p BY <2>6, <3>3
      <4>2. CASE p[1] = "read" /\ p[2] = r
        <5>1. readers'[r] = h BY <1>4, <1>5, <2>4
        <5>2. p[3] \in 1..Len(h.lines) /\ h.lines[p[3]] = <<n, 0>> BY <2>8, <4>2, <5>1 DEF Marker
        <5>3. p[3] # len + 1 BY <3>3, <4>2 DEF Places
        <5>4. p[3] \in 1..len /\ L[p[3]] = <<n, 0>> BY <2>5, <5>2, <5>3
        <5> QED BY <1>1, <2>1, <4>1, <4>2, <5>4 DEF Marker
      <4>3. CASE ~(p[1] = "read" /\ p[2] = r)
        BY <1>4, <1>5, <2>4, <2>8, <3>3, <4>1, <4>3 DEF Marker
      <4> QED BY <3>3, <4>1, <4>2, <4>3
    <3> QED BY <3>1, <3>2, <3>3
  <2>9. ASSUME NEW p1 \in Places, NEW p2 \in Places, p1[1] = "queued" => p1[3] # 0,
               p2[1] = "queued" => p2[3] # 0, F[p1] = F[p2]
        PROVE  p1 = p2
    BY <2>6, <2>9 DEF Places
  <2>10. Marked(c)'
    <3>1. \A p \in Places, n \in Nat : Marker(c, p, n)' => F[p] \in Places /\ Marker(c, F[p], n)
      BY <2>8
    <3>2. \A p1, p2 \in Places, n \in Nat :
            Marker(c, p1, n)' /\ Marker(c, p2, n)' /\ F[p1] = F[p2] => p1 = p2
      BY <2>8, <2>9
    <3> QED BY <1>2, <1>5, <2>4, <3>1, <3>2, MovesMarked DEF AllMarked
  <2>11. ASSUME NEW s \in Streams, s # c PROVE Marked(s)'
    <3>1. shown' = shown /\ streams'[s].queue = streams[s].queue BY <1>5, <2>4, <2>11
    <3>2. \A k \in Streams : readers'[k].ch = s => readers'[k] = readers[k]
      BY <1>4, <1>5, <2>4, <2>11
    <3>3. \A p \in Places, n \in Nat : Marker(s, p, n)' => Marker(s, p, n)
      BY <3>1, <3>2 DEF Marker
    <3> QED BY <1>5, <2>4, <3>3, StaysMarked DEF AllMarked
  <2> QED BY <2>10, <2>11 DEF AllMarked
<1> QED BY <1>6, <1>7

(* A handler of the current stream moves a reader's lines behind the       *)
(* entries; any other drops them.                                          *)
LEMMA HandlesMarked ==
  ASSUME Types, AllMarked, NEW r \in Streams, Handles(r)
  PROVE  AllMarked'
<1>1. PICK c, L : c = readers[r].ch /\ L = readers[r].lines OBVIOUS
<1>2. readers[r] \in Reader /\ c \in Streams /\ L \in Seq(Positions)
  BY <1>1, LogsAssumption DEF Handles, Types, ReaderTypes, Reading, Reader, Streams, NoStream
<1>3. DOMAIN readers = Streams /\ shown \in Seq(Entry)
  BY DEF Types, ReaderTypes, ScreenTypes
<1>4. PICK h : readers' = [readers EXCEPT ![r] = h] /\ h.lines = <<>>
  <2>1. PICK h : /\ readers' = [readers EXCEPT ![r] = h]
                 /\ h = Idle \/ h = [Idle EXCEPT !.ch = current]
    BY DEF Handles
  <2>2. h.lines = <<>> BY <2>1 DEF Idle
  <2> QED BY <2>1, <2>2
<1>5. streams' = streams BY DEF Handles
<1>6. CASE ~Fresh(c)
  <2>1. shown' = shown BY <1>1, <1>6 DEF Handles
  <2>2. ASSUME NEW s \in Streams PROVE Marked(s)'
    <3>1. \A p \in Places, n \in Nat : Marker(s, p, n)' => Marker(s, p, n)
      BY <1>3, <1>4, <1>5, <2>1 DEF Marker
    <3> QED BY <1>5, <3>1, StaysMarked DEF AllMarked
  <2> QED BY <2>2 DEF AllMarked
<1>7. CASE Fresh(c)
  <2>1. PICK q : q = [i \in 1..Len(L) |-> [id |-> streams[c].id, by |-> c, at |-> L[i]]] OBVIOUS
  <2>2. shown' = shown \o q BY <1>1, <1>7, <2>1 DEF Handles, Appended
  <2>3. streams[c].id \in Nat BY <1>2 DEF Types, StreamTypes, Formed, Goroutine
  <2>4. q \in Seq(Entry) /\ Len(q) = Len(L) /\ Len(L) \in Nat
    BY <1>2, <2>1, <2>3 DEF Entry
  <2>5. PICK len : len = Len(shown) /\ len \in Nat BY <1>3
  <2>6. ASSUME NEW i \in 1..Len(shown')
        PROVE  \/ i \in 1..len /\ shown'[i] = shown[i]
               \/ i > len /\ i - len \in 1..Len(L) /\ shown'[i].by = c /\ shown'[i].at = L[i - len]
    <3>1. Len(shown') = len + Len(q) BY <1>3, <2>2, <2>4, <2>5, ConcatProperties, Zenon
    <3>2. CASE i <= len BY <1>3, <2>2, <2>4, <2>5, <3>2
    <3>3. CASE i > len
      <4>1. shown'[i] = q[i - len] /\ i - len \in 1..Len(L)
        BY <1>3, <2>2, <2>4, <2>5, <3>1, <3>3
      <4>2. q[i - len] = [id |-> streams[c].id, by |-> c, at |-> L[i - len]] BY <2>1, <4>1
      <4> QED BY <3>3, <4>1, <4>2
    <3> QED BY <2>5, <3>2, <3>3
  <2>7. PICK F : F = [p \in Places |->
                        IF p[1] = "shown" /\ p[3] > len THEN <<"read", r, p[3] - len>> ELSE p]
    OBVIOUS
  <2>8. r \in Nat BY DEF Streams
  <2>9. ASSUME NEW s \in Streams, NEW p \in Places, NEW n \in Nat, Marker(s, p, n)'
        PROVE  /\ F[p] \in Places /\ Marker(s, F[p], n)
               /\ p[1] = "read" => p[2] # r
               /\ p[1] = "shown" => p[2] = 0
    <3>1. CASE p[1] = "shown"
      <4>1. p[2] = 0 /\ p[3] \in 1..Len(shown') /\ shown'[p[3]].by = s /\ shown'[p[3]].at = <<n, 0>>
        BY <2>9, <3>1 DEF Marker
      <4>2. CASE p[3] \in 1..len /\ shown'[p[3]] = shown[p[3]]
        <5>1. F[p] = p BY <2>5, <2>7, <4>2
        <5> QED BY <2>5, <3>1, <4>1, <4>2, <5>1 DEF Marker
      <4>3. CASE /\ p[3] > len /\ p[3] - len \in 1..Len(L)
                 /\ shown'[p[3]].by = c /\ shown'[p[3]].at = L[p[3] - len]
        <5>1. PICK j : j = p[3] - len OBVIOUS
        <5>2. F[p] = <<"read", r, j>> BY <2>7, <3>1, <4>3, <5>1
        <5>3. j \in 1..Len(L) /\ j \in Nat /\ L[j] = <<n, 0>> /\ s = c BY <4>1, <4>3, <5>1
        <5> QED BY <1>1, <2>8, <3>1, <4>1, <5>2, <5>3 DEF Marker, Places
      <4> QED BY <2>6, <4>1, <4>2, <4>3
    <3>2. CASE p[1] # "shown"
      <4>1. F[p] = p BY <2>7, <3>2
      <4>2. p[1] = "read" => p[2] # r BY <1>3, <1>4, <2>9 DEF Marker
      <4> QED BY <1>3, <1>4, <1>5, <2>9, <3>2, <4>1, <4>2 DEF Marker
    <3> QED BY <3>1, <3>2
  <2>10. ASSUME NEW p1 \in Places, NEW p2 \in Places, F[p1] = F[p2],
                p1[1] = "read" => p1[2] # r, p2[1] = "read" => p2[2] # r,
                p1[1] = "shown" => p1[2] = 0, p2[1] = "shown" => p2[2] = 0
         PROVE  p1 = p2
    BY <2>5, <2>7, <2>10 DEF Places
  <2>11. ASSUME NEW s \in Streams PROVE Marked(s)'
    <3>1. \A p \in Places, n \in Nat : Marker(s, p, n)' => F[p] \in Places /\ Marker(s, F[p], n)
      BY <2>9
    <3>2. \A p1, p2 \in Places, n \in Nat :
            Marker(s, p1, n)' /\ Marker(s, p2, n)' /\ F[p1] = F[p2] => p1 = p2
      BY <2>9, <2>10
    <3> QED BY <1>5, <3>1, <3>2, MovesMarked DEF AllMarked
  <2> QED BY <2>11 DEF AllMarked
<1> QED BY <1>6, <1>7

(* Cancelling goroutines, emptying the screen and leaving the readers be   *)
(* moves no marker.                                                        *)
LEMMA CancelledMarked ==
  ASSUME Types, AllMarked, UNCHANGED readers, shown' = shown \/ shown' = <<>>, NEW C,
         streams' = [s \in Streams |->
                       IF s \in C THEN [streams[s] EXCEPT !.cancelled = TRUE] ELSE streams[s]]
  PROVE  AllMarked'
<1>1. ASSUME NEW s \in Streams PROVE Marked(s)'
  <2>1. streams[s] \in Goroutine BY DEF Types, StreamTypes, Formed
  <2>2. streams'[s] \in {streams[s], [streams[s] EXCEPT !.cancelled = TRUE]} OBVIOUS
  <2>3. /\ streams'[s].next = streams[s].next /\ streams'[s].pc = streams[s].pc
        /\ streams'[s].live = streams[s].live /\ streams'[s].last = streams[s].last
        /\ streams'[s].queue = streams[s].queue
    BY <2>1, <2>2 DEF Goroutine
  <2>4. \A p \in Places, n \in Nat : Marker(s, p, n)' => Marker(s, p, n)
    BY <2>3 DEF Marker
  <2> QED BY <2>3, <2>4, StaysMarked DEF AllMarked
<1> QED BY <1>1 DEF AllMarked

(* A goroutine that begins has sent nothing, and nothing was sent in its   *)
(* name.                                                                   *)
LEMMA ConnectMarked ==
  ASSUME Types, AllMarked, Connect, UNCHANGED shown
  PROVE  AllMarked'
<1>1. PICK b, g, h : /\ b = begun + 1 /\ g = [Unborn EXCEPT !.id = id, !.pc = "begin"]
                     /\ h = [Idle EXCEPT !.ch = b]
  OBVIOUS
<1>2. streams' = [streams EXCEPT ![b] = g] /\ readers' = [readers EXCEPT ![b] = h]
  BY <1>1 DEF Connect
<1>3. b \in Streams /\ begun \in Nat
  BY <1>1, LogsAssumption DEF Connect, Types, ScreenTypes, Streams
<1>4. DOMAIN streams = Streams /\ DOMAIN readers = Streams
  BY DEF Types, StreamTypes, ReaderTypes
<1>5. /\ g.queue = <<>> /\ g.next = 1 /\ g.live = FALSE /\ g.pc = "begin"
      /\ h.lines = <<>>
  BY <1>1 DEF Unborn, Idle
<1>6. ASSUME NEW s \in Streams, NEW p \in Places, NEW n \in Nat, Marker(s, p, n)'
      PROVE  Marker(s, p, n)
  <2>1. CASE p[1] = "queued"
    <3>1. s # b BY <1>2, <1>4, <1>5, <1>6, <2>1 DEF Marker
    <3> QED BY <1>2, <1>4, <1>6, <2>1, <3>1 DEF Marker
  <2>2. CASE p[1] = "read"
    <3>1. p[2] # b BY <1>2, <1>4, <1>5, <1>6, <2>2 DEF Marker
    <3> QED BY <1>2, <1>4, <1>6, <2>2, <3>1 DEF Marker
  <2>3. CASE p[1] = "shown" BY <1>6, <2>3 DEF Marker
  <2> QED BY <2>1, <2>2, <2>3 DEF Places
<1>7. Marked(b)'
  <2>1. streams'[b] = g BY <1>2, <1>3, <1>4
  <2>2. streams[b].pc = "unborn" /\ ~streams[b].live
    BY <1>1, <1>3 DEF Types, StreamTypes, Formed, AllMarked, Marked, Sound, Early
  <2>3. \A p \in Places, n \in Nat : ~Marker(b, p, n)
    BY <1>3, <2>2 DEF AllMarked, Marked, HasTold
  <2>4. \A p \in Places, n \in Nat : ~Marker(b, p, n)' BY <1>3, <1>6, <2>3
  <2> QED BY <1>5, <2>1, <2>4 DEF Marked, Sound, Apart
<1>8. ASSUME NEW s \in Streams, s # b PROVE Marked(s)'
  <2>1. streams'[s] = streams[s] BY <1>2, <1>4, <1>8
  <2>2. \A p \in Places, n \in Nat : Marker(s, p, n)' => Marker(s, p, n) BY <1>6
  <2> QED BY <2>1, <2>2, StaysMarked DEF AllMarked
<1> QED BY <1>7, <1>8 DEF AllMarked

LEMMA StepsMarked == Types /\ AllMarked /\ [Next]_vars => AllMarked'
<1> SUFFICES ASSUME Types, AllMarked, [Next]_vars PROVE AllMarked' OBVIOUS
<1>1. ASSUME UNCHANGED <<streams, readers, shown>> PROVE AllMarked'
  <2>1. ASSUME NEW s \in Streams PROVE Marked(s)'
    <3>1. \A p \in Places, n \in Nat : Marker(s, p, n)' => Marker(s, p, n) BY <1>1 DEF Marker
    <3> QED BY <1>1, <3>1, StaysMarked DEF AllMarked
  <2> QED BY <2>1 DEF AllMarked
<1>2. ASSUME CancelStream, UNCHANGED readers, shown' = shown \/ shown' = <<>> PROVE AllMarked'
  <2>1. PICK C : C = {cancel} OBVIOUS
  <2>2. streams' = [s \in Streams |->
                      IF s \in C THEN [streams[s] EXCEPT !.cancelled = TRUE] ELSE streams[s]]
    BY <1>2, <2>1 DEF CancelStream
  <2> QED BY <1>2, <2>2, CancelledMarked
<1>3. CASE BeginStream BY <1>2, <1>3 DEF BeginStream
<1>4. CASE Esc BY <1>2, <1>4 DEF Esc
<1>5. ASSUME NEW k \in Checks, Lookup(k) \/ ContainerReady(k) \/ ContainerWaiting(k)
      PROVE  AllMarked'
  <2>1. CASE ContainerReady(k) BY <1>1, <2>1, ConnectMarked DEF ContainerReady
  <2> QED BY <1>1, <1>5, <2>1 DEF Lookup, ContainerWaiting, screenVars
<1>6. CASE ContextEnds
  <2>1. PICK C : C = {s \in Streams : streams[s].pc # "unborn"} OBVIOUS
  <2>2. UNCHANGED <<readers, shown>> BY <1>6 DEF ContextEnds, screenVars
  <2>3. streams' = [s \in Streams |->
                      IF s \in C THEN [streams[s] EXCEPT !.cancelled = TRUE] ELSE streams[s]]
    BY <1>6, <2>1 DEF ContextEnds
  <2> QED BY <2>2, <2>3, CancelledMarked
<1>7. CASE PodChanged \/ Starts \/ Crashes \/ Restarts \/ Goes \/ OtherEvent \/ Writes
  BY <1>1, <1>7 DEF PodChanged, Starts, Crashes, Restarts, Goes, OtherEvent, Writes, PodSteps,
                    screenVars
<1>8. CASE UNCHANGED vars BY <1>1, <1>8 DEF vars, screenVars
<1> QED BY <1>3, <1>4, <1>5, <1>6, <1>7, <1>8, DrainMarked, HandlesMarked, GoroutineMarked DEF Next

(* What the log view shows, for every number of connections and restarts   *)
(* and whatever order superseded readers report in: only entries of the    *)
(* current stream, and each restart the goroutine counts marked once.      *)
THEOREM EntriesStayTrue == Spec => []EntriesAreTrue
<1>1. Init => AllMarked
  <2> SUFFICES ASSUME Init PROVE AllMarked OBVIOUS
  <2>1. \A s \in Streams : streams[s] = Unborn /\ readers[s] = Idle BY DEF Init
  <2>2. ASSUME NEW s \in Streams, NEW p, NEW n PROVE ~Marker(s, p, n)
    BY <2>1 DEF Init, Marker, Unborn, Idle
  <2>3. Sound(Unborn) BY DEF Sound, Unborn
  <2> QED BY <2>1, <2>2, <2>3 DEF AllMarked, Marked, Apart
<1>2. Types /\ AllMarked => MarkersAreRestarts
  <2> SUFFICES ASSUME Types, AllMarked, NEW i \in 1..Len(shown), NEW j \in 1..Len(shown), i # j,
                      shown[i].by = shown[j].by, shown[i].at[2] = 0, shown[j].at[2] = 0,
                      streams[shown[i].by].last # NoCount, shown[i].at[1] = shown[j].at[1]
               PROVE  FALSE
    BY DEF MarkersAreRestarts
  <2>1. shown[i] \in Entry /\ shown[j] \in Entry /\ Len(shown) \in Nat BY DEF Types, ScreenTypes
  <2>2. PICK s \in Streams, n \in Nat : s = shown[i].by /\ n = shown[i].at[1]
    BY <2>1 DEF Entry, Positions
  <2>3. shown[i].at = <<n, 0>> /\ shown[j].at = <<n, 0>> BY <2>1, <2>2 DEF Entry, Positions
  <2>4. Marker(s, <<"shown", 0, i>>, n) /\ Marker(s, <<"shown", 0, j>>, n)
    BY <2>2, <2>3 DEF Marker
  <2>5. <<"shown", 0, i>> \in Places /\ <<"shown", 0, j>> \in Places BY DEF Places
  <2>6. <<"shown", 0, i>> = <<"shown", 0, j>>
    BY <2>2, <2>4, <2>5 DEF AllMarked, Marked, Apart
  <2> QED BY <2>6
<1>3. Spec => []MarkersAreRestarts BY <1>1, <1>2, StepsMarked, TypesHold, PTL DEF Spec
<1> QED BY <1>3, OnlyCurrentShown, PTL DEF EntriesAreTrue
=============================================================================
