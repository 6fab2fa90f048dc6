------------------------------- MODULE PodLogs -------------------------------
(***************************************************************************)
(* The log view of a pod (internal/tui/tasks/podlogs): the screen, which   *)
(* numbers its streams and drops what a superseded one still reports; the  *)
(* checks of the pod cache that come before a connection; the goroutine of *)
(* each connection, which reads the history, follows, and reopens when the *)
(* container has restarted; the channel it writes to; and the commands     *)
(* that read a channel and hand a batch to the screen.                     *)
(*                                                                         *)
(* Goroutine s is the s-th connect and owns channel s.  A line is <<r, k>>,*)
(* the k-th line of the container's r-th run; <<r, 0>> is the boundary     *)
(* marker "container restarted, restart r".  The text of lines, filters,   *)
(* scrolling, the layout index, the line rate, the eviction of the oldest  *)
(* lines and other containers of the pod are left out: a container change  *)
(* and a window change restart the stream in the same way.                 *)
(***************************************************************************)
EXTENDS Integers, Sequences, FiniteSets

CONSTANTS
  Buffer,       (* streamChanBuffer, which is also maxLogBatch.             *)
  MaxStreams,   (* Bound: connections made while the screen is open.        *)
  MaxChecks,    (* Bound: checks of the pod cache in flight.                *)
  Sessions      (* Bound: how often each thing may happen, per session.     *)

Streams == 1..MaxStreams
Checks  == 1..MaxChecks
NoStream == 0
NoLine   == <<0, 0>>
NoCount  == -1

(* Presses of tab or s, and of esc; restarts, lines and the deletion of    *)
(* the container, and Pod events; failed requests and cache reads; dropped *)
(* connections; ends of the cluster context.                               *)
Budgets == [{"press", "esc", "restart", "line", "gone", "event", "fault", "drop", "end"} -> Nat]

ASSUME LogsAssumption ==
  /\ Buffer \in Nat \ {0} /\ MaxStreams \in Nat \ {0} /\ MaxChecks \in Nat \ {0}
  /\ Sessions \subseteq Budgets

VARIABLES
  id,           (* m.streamID                                               *)
  stream,       (* m.stream                                                 *)
  current,      (* m.streamCh: the goroutine that owns it                   *)
  cancel,       (* m.streamCancel: the goroutine it cancels                 *)
  shown,        (* m.buffer.Entries                                         *)
  left,         (* esc has closed the screen                                *)
  checks,       (* checkContainerCmd commands and their answers             *)
  begun,        (* connects so far                                          *)
  streams,      (* the goroutines and their channels                        *)
  readers,      (* waitForStream commands, by the connect that began them   *)
  phase,        (* the container: starting, running, crashed or gone        *)
  log,          (* how many lines each of its runs has written              *)
  news,         (* a Pod event the screen has not been handed yet           *)
  may           (* what the session may still do                            *)

screenVars == <<id, stream, current, cancel, shown, left>>
podVars    == <<phase, log, news>>
vars == <<screenVars, checks, begun, streams, readers, podVars, may>>

Spends(what) == may[what] > 0 /\ may' = [may EXCEPT ![what] = @ - 1]

(* The restart count, and how far a run's log has come.                    *)
restarts   == Len(log) - 1
Written(r) == log[r + 1]

Control == {"empty", "error", "waiting", "closed"}
Message == [kind : Control \cup {"line"}, at : Nat \X Nat]
Line(at)    == [kind |-> "line", at |-> at]
Plain(kind) == [kind |-> kind, at |-> NoLine]

Idle    == [ch |-> NoStream, lines |-> <<>>, tail |-> "none", sent |-> FALSE]
NoCheck == [id |-> 0, says |-> "none"]
Unborn  == [id |-> 0, pc |-> "unborn", cancelled |-> FALSE, closed |-> FALSE,
            queue |-> <<>>, out |-> "none", live |-> FALSE, last |-> NoCount,
            run |-> 0, next |-> 1, end |-> 0, dedup |-> NoLine]

-----------------------------------------------------------------------------
(***************************************************************************)
(* The screen's Update.                                                    *)
(***************************************************************************)

(* checkContainerCmd for the current stream, in a free slot.               *)
FreeChecks == {k \in Checks : checks[k] = NoCheck}
Asked(n) == LET k == CHOOSE j \in FreeChecks : \A i \in FreeChecks : j <= i
            IN  [checks EXCEPT ![k] = [id |-> n, says |-> "none"]]

CancelStream ==
  streams' = [s \in Streams |->
                IF s = cancel THEN [streams[s] EXCEPT !.cancelled = TRUE] ELSE streams[s]]

(* beginStream, from the tab and s keys.                                   *)
BeginStream ==
  /\ ~left /\ Spends("press") /\ FreeChecks # {}
  /\ CancelStream
  /\ cancel' = NoStream
  /\ id' = id + 1
  /\ stream' = "reconnecting"
  /\ shown' = <<>>
  /\ checks' = Asked(id + 1)
  /\ UNCHANGED <<current, left, begun, readers, podVars>>

(* esc: what is still on its way to the screen then has no reader.         *)
Esc ==
  /\ ~left /\ Spends("esc")
  /\ CancelStream
  /\ cancel' = NoStream
  /\ id' = id + 1
  /\ stream' = "closed"
  /\ left' = TRUE
  /\ checks' = [k \in Checks |-> NoCheck]
  /\ UNCHANGED <<current, shown, begun, readers, podVars>>

(* A Pod event, which is looked at only by a screen that is parked.        *)
PodChanged ==
  /\ ~left /\ news
  /\ news' = FALSE
  /\ IF stream = "waiting"
     THEN FreeChecks # {} /\ checks' = Asked(id)
     ELSE UNCHANGED checks
  /\ UNCHANGED <<screenVars, begun, streams, readers, phase, log, may>>

(* The check reads the cache; a read that fails counts as ready.           *)
Lookup(k) ==
  /\ checks[k] # NoCheck /\ checks[k].says = "none"
  /\ \/ /\ checks' = [checks EXCEPT ![k].says = IF phase = "starting" THEN "waiting" ELSE "ready"]
        /\ UNCHANGED may
     \/ /\ Spends("fault")
        /\ checks' = [checks EXCEPT ![k].says = "ready"]
  /\ UNCHANGED <<screenVars, begun, streams, readers, podVars>>

(* connect: a goroutine and a reader for its channel.                      *)
Connect ==
  /\ begun < MaxStreams
  /\ begun' = begun + 1
  /\ streams' = [streams EXCEPT ![begun + 1] = [Unborn EXCEPT !.id = id, !.pc = "begin"]]
  /\ readers' = [readers EXCEPT ![begun + 1] = [Idle EXCEPT !.ch = begun + 1]]
  /\ current' = begun + 1
  /\ cancel' = begun + 1

ContainerReady(k) ==
  /\ checks[k].says = "ready"
  /\ checks' = [checks EXCEPT ![k] = NoCheck]
  /\ IF checks[k].id = id THEN Connect
     ELSE UNCHANGED <<begun, streams, readers, current, cancel>>
  /\ UNCHANGED <<id, stream, shown, left, podVars, may>>

ContainerWaiting(k) ==
  /\ checks[k].says = "waiting"
  /\ checks' = [checks EXCEPT ![k] = NoCheck]
  /\ stream' = IF checks[k].id = id THEN "waiting" ELSE stream
  /\ UNCHANGED <<id, current, cancel, shown, left, begun, streams, readers, podVars, may>>

(* What a message of goroutine s does to m.stream and to the entries.      *)
FreshAlways(s) == TRUE   (* Fault: the streamID is not compared. *)
Fresh(s) == streams[s].id = id
Appended(s, lines) ==
  shown \o [i \in 1..Len(lines) |-> [id |-> streams[s].id, by |-> s, at |-> lines[i]]]
Streaming(lines) == IF lines = <<>> \/ stream = "error" THEN stream ELSE "streaming"
Told(tail, was)  == IF tail \in Control THEN tail ELSE was

(* Fault: an empty history is taken for the end of the stream.             *)
ReadsOnLines(s, tail) == tail = "none" \/ (tail \in {"empty", "error"} /\ ~Fresh(s))

(* Which handlers return nextStreamCmd, and so read m.streamCh again: for  *)
(* a closed channel, and for the last word of the current stream, none.    *)
ReadsOn(s, tail) == \/ tail \in {"none", "empty"}
                    \/ tail = "error" /\ ~Fresh(s)

(* logBatchMsg with its tail, or a message that is not a line.             *)
Handles(r) ==
  LET s == readers[r].ch
      lines == readers[r].lines
      tail == readers[r].tail IN
  /\ ~left /\ readers[r].sent
  /\ IF Fresh(s)
     THEN /\ shown' = Appended(s, lines)
          /\ stream' = Told(tail, Streaming(lines))
     ELSE UNCHANGED <<shown, stream>>
  /\ readers' = [readers EXCEPT ![r] =
                   IF ReadsOn(s, tail) THEN [Idle EXCEPT !.ch = current] ELSE Idle]
  /\ UNCHANGED <<id, current, cancel, left, checks, begun, streams, podVars, may>>

-----------------------------------------------------------------------------
(***************************************************************************)
(* waitForStream: blocks for a message, then takes the lines queued behind *)
(* it without blocking.  Each receive is a step.                           *)
(***************************************************************************)
ReaderSteps(r, q, reader) ==
  /\ streams' = [streams EXCEPT ![readers[r].ch].queue = q]
  /\ readers' = [readers EXCEPT ![r] = reader]
  /\ UNCHANGED <<screenVars, checks, begun, podVars, may>>

Receives(r) ==
  LET s == readers[r].ch
      m == Head(streams[s].queue) IN
  /\ s # NoStream /\ ~readers[r].sent
  /\ Len(readers[r].lines) < Buffer
  /\ streams[s].queue # <<>>
  /\ ReaderSteps(r, Tail(streams[s].queue),
       IF m.kind = "line" THEN [readers[r] EXCEPT !.lines = Append(@, m.at)]
       ELSE [readers[r] EXCEPT !.tail = m.kind, !.sent = TRUE])

(* The drain ends: nothing is queued, the batch is full, or the channel is *)
(* closed, which alone also ends a reader that holds no line.              *)
Delivers(r) ==
  LET s == readers[r].ch IN
  /\ s # NoStream /\ ~readers[r].sent
  /\ \/ /\ Len(readers[r].lines) < Buffer
        /\ streams[s].queue = <<>> /\ streams[s].closed
        /\ ReaderSteps(r, <<>>, [readers[r] EXCEPT !.tail = "end", !.sent = TRUE])
     \/ /\ readers[r].lines # <<>>
        /\ \/ Len(readers[r].lines) = Buffer
           \/ streams[s].queue = <<>> /\ ~streams[s].closed
        /\ ReaderSteps(r, streams[s].queue, [readers[r] EXCEPT !.sent = TRUE])

-----------------------------------------------------------------------------
(***************************************************************************)
(* runStream and streamContainer, the goroutine of a connect.  A select    *)
(* that finds both its context cancelled and room in the channel is taken  *)
(* to see the former: the send it could have made is a step that came      *)
(* before.  The final send has no select.                                  *)
(***************************************************************************)
Becomes(s, new) ==
  /\ streams' = [streams EXCEPT ![s] = new]
  /\ UNCHANGED <<screenVars, checks, begun, readers, podVars>>

Ends(s, kind) == Becomes(s, [streams[s] EXCEPT !.pc = "final", !.out = kind])
HasRoomForOneMore(s) == Len(streams[s].queue) <= Buffer   (* Fault: the bound is off by one. *)
HasRoom(s) == Len(streams[s].queue) < Buffer
Sent(s, m) == [streams[s] EXCEPT !.queue = Append(@, m)]

(* containerRestartCount, or none when the cache cannot be read or has no  *)
(* such pod.                                                               *)
Begins(s) ==
  /\ streams[s].pc = "begin"
  /\ \/ /\ Becomes(s, [streams[s] EXCEPT !.pc = "history",
                           !.last = IF phase = "gone" THEN NoCount ELSE restarts])
        /\ UNCHANGED may
     \/ /\ Becomes(s, [streams[s] EXCEPT !.pc = "history", !.last = NoCount])
        /\ Spends("fault")

(* StreamPodLogs fails: cancelled, not started, or anything else.          *)
Opening == {"history", "fallback", "follow"}
OpenFails(s) ==
  /\ streams[s].pc \in Opening
  /\ \/ streams[s].cancelled /\ Ends(s, "closed") /\ UNCHANGED may
     \/ ~streams[s].cancelled /\ phase = "starting" /\ Ends(s, "waiting") /\ UNCHANGED may
     \/ ~streams[s].cancelled /\ phase = "gone" /\ Ends(s, "error") /\ UNCHANGED may
     \/ Spends("fault") /\ Ends(s, "error")

Opens(s) ==
  /\ ~streams[s].cancelled
  /\ phase \in {"running", "crashed"}
  /\ UNCHANGED may

(* A history request reads what the container's current run has written,   *)
(* from the first line the window or the tail leaves.  A window that       *)
(* leaves none is followed by a request without one; the screen is told    *)
(* when the log itself is empty.                                           *)
OpensHistory(s) ==
  LET n == Written(restarts) IN
  /\ Opens(s)
  /\ streams[s].pc \in {"history", "fallback"}
  /\ \/ \E from \in 1..n :
          Becomes(s, [streams[s] EXCEPT !.pc = "reading",
                                        !.run = restarts, !.next = from, !.end = n])
     \/ streams[s].pc = "history" /\ Becomes(s, [streams[s] EXCEPT !.pc = "fallback"])
     \/ n = 0 /\ Becomes(s, [streams[s] EXCEPT !.pc = "telling"])

(* Fault: an empty history is not told to the screen.                      *)
TellsNobody(s) ==
  /\ streams[s].pc = "telling"
  /\ Becomes(s, [streams[s] EXCEPT !.pc = "follow"])
  /\ UNCHANGED may

(* onEmpty, and on to following from the first line.                       *)
TellsEmpty(s) ==
  /\ streams[s].pc = "telling"
  /\ \/ /\ ~streams[s].cancelled /\ HasRoom(s)
        /\ Becomes(s, [Sent(s, Plain("empty")) EXCEPT !.pc = "follow"])
     \/ /\ streams[s].cancelled
        /\ Becomes(s, [streams[s] EXCEPT !.pc = "follow"])
  /\ UNCHANGED may

(* The follow request.  After a history with lines the first one asks for  *)
(* the last second, which may begin anywhere in the log, and what has been *)
(* shown is dropped; any other has the run's whole log.  A later one comes *)
(* after a boundary marker.                                                *)
Overlap(s) ==
  IF streams[s].live \/ streams[s].dedup = NoLine THEN {1} ELSE 1..(Written(restarts) + 1)

OpensFollow(s) ==
  /\ Opens(s)
  /\ streams[s].pc = "follow"
  /\ \E from \in Overlap(s) :
       Becomes(s, [streams[s] EXCEPT
         !.pc = IF streams[s].live THEN "marking" ELSE "following",
         !.live = TRUE, !.run = restarts, !.next = from])

Marks(s) ==
  /\ streams[s].pc = "marking"
  /\ \/ /\ ~streams[s].cancelled /\ HasRoom(s)
        /\ Becomes(s, [Sent(s, Line(<<IF streams[s].last = NoCount THEN restarts
                                      ELSE streams[s].last, 0>>)) EXCEPT !.pc = "following"])
     \/ /\ streams[s].cancelled
        /\ Ends(s, "closed")
  /\ UNCHANGED may

(* The next line of the log, unless the history has shown it.              *)
Reads(s) ==
  LET at == <<streams[s].run, streams[s].next>>
      seen == streams[s].dedup IN
  /\ streams[s].pc \in {"reading", "following"}
  /\ \/ /\ ~streams[s].cancelled
        /\ streams[s].next <=
             (IF streams[s].pc = "reading" THEN streams[s].end ELSE Written(streams[s].run))
        /\ IF streams[s].pc = "following" /\ seen # NoLine /\ at[1] = seen[1] /\ at[2] <= seen[2]
           THEN Becomes(s, [streams[s] EXCEPT !.next = @ + 1])
           ELSE /\ HasRoom(s)
                /\ Becomes(s, [Sent(s, Line(at)) EXCEPT
                     !.next = @ + 1,
                     !.dedup = IF streams[s].pc = "reading" THEN at ELSE NoLine])
        /\ UNCHANGED may
     \/ streams[s].cancelled /\ Ends(s, "closed") /\ UNCHANGED may
     \/ Spends("fault") /\ Ends(s, "error")

HistoryEnds(s) ==
  /\ streams[s].pc = "reading" /\ ~streams[s].cancelled
  /\ streams[s].next > streams[s].end
  /\ Becomes(s, [streams[s] EXCEPT !.pc = "follow"])
  /\ UNCHANGED may

(* The follow connection ends with the run it reads, or is dropped.        *)
RunIsOver(s) == phase \in {"crashed", "gone"} \/ restarts > streams[s].run
FollowEnds(s) ==
  /\ streams[s].pc = "following" /\ ~streams[s].cancelled
  /\ \/ RunIsOver(s) /\ streams[s].next > Written(streams[s].run) /\ UNCHANGED may
     \/ Spends("drop")
  /\ Becomes(s, [streams[s] EXCEPT !.pc = "polling"])

(* Fault: a restart count that has not moved is enough.                    *)
PollsAgain(s) ==
  /\ streams[s].pc = "polling"
  /\ \/ streams[s].cancelled /\ Ends(s, "closed") /\ UNCHANGED may
     \/ /\ ~streams[s].cancelled /\ phase # "gone"
        /\ Becomes(s, [streams[s] EXCEPT !.pc = "follow", !.last = restarts])
        /\ UNCHANGED may

(* waitForContainerRestart; without a count, the plain delay, each of      *)
(* which is charged as a fault.                                            *)
Polls(s) ==
  /\ streams[s].pc = "polling"
  /\ \/ streams[s].cancelled /\ Ends(s, "closed") /\ UNCHANGED may
     \/ /\ ~streams[s].cancelled /\ streams[s].last = NoCount
        /\ Spends("fault")
        /\ Becomes(s, [streams[s] EXCEPT !.pc = "follow"])
     \/ /\ ~streams[s].cancelled /\ streams[s].last # NoCount /\ phase = "gone"
        /\ Ends(s, "error") /\ UNCHANGED may
     \/ /\ ~streams[s].cancelled /\ streams[s].last # NoCount /\ phase # "gone"
        /\ restarts > streams[s].last
        /\ Becomes(s, [streams[s] EXCEPT !.pc = "follow", !.last = restarts])
        /\ UNCHANGED may

(* The last word, then close(ch).                                          *)
LastWord(s) ==
  /\ streams[s].pc = "final" /\ HasRoom(s)
  /\ Becomes(s, [Sent(s, Plain(streams[s].out)) EXCEPT !.pc = "done", !.closed = TRUE])
  /\ UNCHANGED may

GoroutineSteps(s) ==
  \/ Begins(s) \/ OpenFails(s) \/ OpensHistory(s) \/ TellsEmpty(s) \/ OpensFollow(s)
  \/ Marks(s) \/ Reads(s) \/ HistoryEnds(s) \/ FollowEnds(s) \/ Polls(s) \/ LastWord(s)

-----------------------------------------------------------------------------
(***************************************************************************)
(* The container, and the session's cluster context.                       *)
(***************************************************************************)
PodSteps(p) ==
  /\ phase' = p
  /\ news' = TRUE
  /\ UNCHANGED <<screenVars, checks, begun, streams, readers>>

Starts     == phase = "starting" /\ PodSteps("running") /\ UNCHANGED <<log, may>>
Crashes    == phase = "running" /\ Spends("restart") /\ PodSteps("crashed") /\ UNCHANGED log
Restarts   == phase = "crashed" /\ PodSteps("running") /\ log' = Append(log, 0) /\ UNCHANGED may
Goes       == phase # "gone" /\ Spends("gone") /\ PodSteps("gone") /\ UNCHANGED log
OtherEvent == ~news /\ Spends("event") /\ PodSteps(phase) /\ UNCHANGED log

Writes ==
  /\ phase = "running" /\ Spends("line")
  /\ log' = [log EXCEPT ![Len(log)] = @ + 1]
  /\ UNCHANGED <<screenVars, checks, begun, streams, readers, phase, news>>

(* A context switch or the program's end cancels what every stream is      *)
(* parented on.                                                            *)
ContextEnds ==
  /\ Spends("end")
  /\ streams' = [s \in Streams |->
                   IF streams[s].pc = "unborn" THEN streams[s]
                   ELSE [streams[s] EXCEPT !.cancelled = TRUE]]
  /\ UNCHANGED <<screenVars, checks, begun, readers, podVars>>

Init ==
  /\ id = 1 /\ stream = "loading" /\ current = NoStream /\ cancel = NoStream
  /\ shown = <<>> /\ left = FALSE
  /\ checks = [[k \in Checks |-> NoCheck] EXCEPT ![1].id = 1]
  /\ begun = 0
  /\ streams = [s \in Streams |-> Unborn]
  /\ readers = [r \in Streams |-> Idle]
  /\ \/ phase = "starting" /\ log = <<0>>
     \/ phase \in {"running", "crashed"} /\ log \in {<<0>>, <<1>>}
  /\ news = FALSE
  /\ may \in Sessions

Next ==
  \/ BeginStream \/ Esc \/ PodChanged
  \/ \E k \in Checks : Lookup(k) \/ ContainerReady(k) \/ ContainerWaiting(k)
  \/ \E r \in Streams : Handles(r) \/ Receives(r) \/ Delivers(r)
  \/ \E s \in Streams : GoroutineSteps(s)
  \/ Starts \/ Crashes \/ Restarts \/ Goes \/ OtherEvent \/ Writes
  \/ ContextEnds

Spec == Init /\ [][Next]_vars

(* Steps of the program, all of which its goroutines and its event loop    *)
(* get round to; nothing is assumed of the user and of the container.      *)
Fairness ==
  /\ \A k \in Checks :
       WF_vars(Lookup(k)) /\ WF_vars(ContainerReady(k)) /\ WF_vars(ContainerWaiting(k))
  /\ \A r \in Streams : WF_vars(Handles(r)) /\ WF_vars(Receives(r)) /\ WF_vars(Delivers(r))
  /\ \A s \in Streams : WF_vars(GoroutineSteps(s))

FairSpec == Spec /\ Fairness

-----------------------------------------------------------------------------
(* Every part of the state has its type, the buffer of a channel and a     *)
(* batch keep their bounds, and cancelStream can only be meant for the     *)
(* goroutine of m.streamCh.                                                *)
TypeOK ==
  /\ id \in Nat /\ left \in BOOLEAN /\ news \in BOOLEAN /\ begun \in 0..MaxStreams
  /\ stream \in {"loading", "reconnecting", "streaming"} \cup Control
  /\ current \in 0..begun /\ cancel \in {NoStream, current}
  /\ shown \in Seq([id : Nat, by : Streams, at : Nat \X Nat])
  /\ \A k \in Checks : checks[k] \in [id : Nat, says : {"none", "ready", "waiting"}]
  /\ \A s \in Streams :
       /\ streams[s].id \in 0..id
       /\ (streams[s].pc = "unborn") <=> (s > begun)
       /\ streams[s].queue \in Seq(Message) /\ Len(streams[s].queue) <= Buffer
       /\ readers[s].ch \in 0..begun /\ Len(readers[s].lines) <= Buffer

(* A channel is never left without a reader: as long as the goroutine of   *)
(* m.streamCh is not through, some command reads that channel, or holds a  *)
(* message whose handler will read it again.                               *)
ReadsFrom(r, s) ==
  /\ readers[r].ch = s
  /\ readers[r].sent => ReadsOn(s, readers[r].tail)
ChannelHasItsReader ==
  ~left /\ current # NoStream =>
    \/ streams[current].closed /\ streams[current].queue = <<>>
    \/ \E r \in Streams : ReadsFrom(r, current)

(* What is on the screen, beginStream's streamID and streamContainer's     *)
(* restart wait: nothing a superseded stream still reports gets there,     *)
(* however late a reader comes with lines of another container or window;  *)
(* and a goroutine that knows its container's restart count marks each     *)
(* restart once, so it does not read a run that is over again and again.   *)
OnlyTheCurrentStream == ~left => \A i \in 1..Len(shown) : shown[i].id = id
MarkersAreRestarts ==
  \A i, j \in 1..Len(shown) :
    /\ i # j /\ shown[i].by = shown[j].by
    /\ shown[i].at[2] = 0 /\ shown[j].at[2] = 0
    /\ streams[shown[i].by].last # NoCount
    => shown[i].at[1] # shown[j].at[1]
EntriesAreTrue == OnlyTheCurrentStream /\ MarkersAreRestarts

(* The spinner of a stream that was begun or restarted ends: with a line,  *)
(* an empty log, an error, or parked until the container starts.           *)
Loading == stream \in {"loading", "reconnecting"}
LoadingEnds == Loading ~> ~Loading
=============================================================================
