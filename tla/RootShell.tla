----------------------------- MODULE RootShell -----------------------------
(***************************************************************************)
(* The root shell and what replaces the cluster under it: the rebuild gate *)
(* (internal/tui/rebuildgate.go), the context switch with its rollback     *)
(* (internal/tui/context.go), the rebuild a setup screen asks for          *)
(* (internal/app/app.go, rebuildCluster), the reader that carries each     *)
(* cluster's messages to the root (clusterwatch.go, app.go forwardEvents), *)
(* and the root's handlers of all of it (model.go Update).                 *)
(*                                                                         *)
(* Commands run beside the Update loop and end in a message; the loop      *)
(* handles one message at a time, in whatever order they come.             *)
(***************************************************************************)
EXTENDS TaskStack

CONSTANTS
  Contexts,      \* kubeconfig contexts
  Clusters,      \* clusters a session can build, numbered from 1
  LaunchContext, \* the one the session starts in
  ConnBuffer,    \* what a cluster's connection channel holds; 8 in the code
  Sessions       \* what a user and the network may do in one session

ASSUME ShellAssumption ==
  /\ Clusters \in Nat \ {0} /\ LaunchContext \in Contexts
  /\ ConnBuffer \in Nat \ {0}
  /\ \A s \in Sessions :
        /\ s.launched \in BOOLEAN            \* a kubeconfig was found at launch
        /\ s.trouble \subseteq Phases \ {Connected}
        /\ s.traffic \in BOOLEAN             \* its informers reach the clusters
        /\ {s.outages, s.switches, s.rebuilds, s.screens} \subseteq Nat

NoCluster == 0
Known     == 1..Clusters

VARIABLES
  clusters,  \* per cluster: context, life, health, channels and their reader
  gate,      \* the Session's rebuild gate: the holder's token, the last one
  ops,       \* switches and rebuilds whose command is running
  results,   \* their messages, not yet handled
  root,      \* the session's cluster and Location, and the shell's flags
  ui,        \* the screens (TaskStack)
  left,      \* what the session may still do
  strayed    \* clusters that a failed rollback left on the target (history)

vars == <<clusters, gate, ops, results, root, ui, left, strayed>>

None == [what |-> "none", phase |-> Unknown]
Conn(p) == [what |-> "conn", phase |-> p]
Event == [what |-> "event", phase |-> Unknown]
Messages == {None, Event} \cup {Conn(p) : p \in Phases}

(* newHealth starts Connected without saying so.                           *)
NewCluster(ctx, life, reader) ==
  [on |-> ctx, life |-> life, phase |-> Connected, queue |-> <<>>, reached |-> FALSE,
   changed |-> FALSE, reader |-> reader, taken |-> None]

Unborn == NewCluster(LaunchContext, "unborn", "none")

Readers == {"none", "bridge", "drain", "ended", "dropped"}

Init ==
  \E s \in Sessions :
    /\ clusters = [c \in Known |-> IF s.launched /\ c = 1
                                   THEN NewCluster(LaunchContext, "live", "bridge") ELSE Unborn]
    /\ gate = [held |-> 0, last |-> 0]
    /\ ops = {} /\ results = {} /\ strayed = {}
    /\ root = [cl |-> IF s.launched THEN 1 ELSE NoCluster, context |-> LaunchContext,
               switching |-> FALSE, neverConnected |-> s.launched, showingSetup |-> FALSE]
    /\ ui = RootTask(IF s.launched THEN "browse" ELSE "setup")
    /\ left = s

Spends(what) == left[what] > 0 /\ left' = [left EXCEPT ![what] = @ - 1]

(* The setup and browse factories are installed with the first cluster.    *)
Factories == root.cl # NoCluster

-----------------------------------------------------------------------------
(* The cluster's side: health reports, informer traffic, the reader.       *)

ReportsUnbounded(c, p) == [c EXCEPT !.phase = p, !.queue = Append(@, p)]

(* set: a full channel loses its oldest state.                             *)
Reports(c, p) ==
  [c EXCEPT !.phase = p,
            !.queue = Append(IF Len(@) < ConnBuffer THEN @ ELSE Tail(@), p)]

(* Only an answered ping says Connected, and the answer proves the reach.  *)
Answered(c, p) == [c EXCEPT !.reached = @ \/ p = Connected]

(* A ping, or a failed watch, reports.                                     *)
Ping(c, p) ==
  /\ clusters[c].life = "live"
  /\ IF Offline(p) /\ p # clusters[c].phase THEN p \in left.trouble /\ Spends("outages")
     ELSE UNCHANGED left
  /\ clusters' = [clusters EXCEPT ![c] = Answered(Reports(@, p), p)]
  /\ UNCHANGED <<gate, ops, results, root, ui, strayed>>

(* The loop's own ticks; an authentication failure waits for the user's r. *)
Repeats(c) == clusters[c].phase # Unauthenticated /\ Ping(c, clusters[c].phase)

(* An object came out of the cluster (the message it sends may be dropped) *)
(* or the launch's own Start found its caches filled.                      *)
Reaches(c) ==
  /\ left.traffic /\ clusters[c].life = "live" /\ ~clusters[c].reached
  /\ clusters' = [clusters EXCEPT ![c].reached = TRUE]
  /\ UNCHANGED <<gate, ops, results, root, ui, left, strayed>>

Changes(c) ==
  /\ left.traffic /\ clusters[c].life = "live"
  /\ clusters[c].reached /\ ~clusters[c].changed
  /\ clusters' = [clusters EXCEPT ![c].changed = TRUE]
  /\ UNCHANGED <<gate, ops, results, root, ui, left, strayed>>

(* One read of the cluster's channels, on its way to the root.             *)
Idle(c) == clusters[c].reader \in {"bridge", "drain"} /\ clusters[c].taken = None

ReadsConn(c) ==
  /\ Idle(c) /\ clusters[c].queue # <<>>
  /\ clusters' = [clusters EXCEPT ![c].taken = Conn(Head(clusters[c].queue)),
                                  ![c].queue = Tail(@)]
  /\ UNCHANGED <<gate, ops, results, root, ui, left, strayed>>

ReadsEvent(c) ==
  /\ Idle(c) /\ clusters[c].changed
  /\ clusters' = [clusters EXCEPT ![c].taken = Event, ![c].changed = FALSE]
  /\ UNCHANGED <<gate, ops, results, root, ui, left, strayed>>

(* Done is closed: a drain may end, the launch bridge never looks.         *)
DrainEnds(c) ==
  /\ Idle(c) /\ clusters[c].reader = "drain" /\ clusters[c].life = "stopped"
  /\ clusters' = [clusters EXCEPT ![c].reader = "ended"]
  /\ UNCHANGED <<gate, ops, results, root, ui, left, strayed>>

-----------------------------------------------------------------------------
(* The root's handlers of a cluster's messages. They do not say which      *)
(* cluster they came from: a replaced one's last message is handled like   *)
(* the current one's.                                                      *)

(* A Connected takes the setup screen away.                                *)
LeavesSetupOnce(p) == p = Connected /\ root.showingSetup /\ root.neverConnected /\ Factories
LeavesSetup(p) == p = Connected /\ root.showingSetup /\ Factories

HandledUnlessSwapped(c) ==
  [clusters EXCEPT ![c].taken = None,
     ![c].reader = IF @ = "drain" /\ LeavesSetup(clusters[c].taken.phase) THEN "ended" ELSE @]
Handled(c) == [clusters EXCEPT ![c].taken = None]

NotRearmed(c) ==
  [Handled(c) EXCEPT ![c].reader = IF @ = "drain" THEN "dropped" ELSE @]

StillNever == root.neverConnected
NeverConnected ==
  root.neverConnected /\ ~(root.cl # NoCluster /\ clusters[root.cl].reached)

(* An outage of a cluster that was never reached brings it.                *)
ShowsSetup(p) == Offline(p) /\ NeverConnected /\ ~root.showingSetup /\ Factories

HandlesConn(c) ==
  LET p == clusters[c].taken.phase
      heard == [ui EXCEPT !.conn = p]
  IN /\ clusters[c].taken.what = "conn"
     /\ ui' = CASE LeavesSetup(p) -> StartsOver(heard, "browse")
                [] ShowsSetup(p)  -> StartsOver(heard, "setup")
                [] OTHER          -> ForwardConn(heard, p)
     /\ root' = [root EXCEPT !.neverConnected = NeverConnected /\ p # Connected,
                             !.showingSetup = (@ /\ ~LeavesSetup(p)) \/ ShowsSetup(p)]
     /\ clusters' = Handled(c)
     /\ UNCHANGED <<gate, ops, results, left, strayed>>

(* While a switch is shown as running the event is swallowed, and with it  *)
(* the command that would have read the next message.                      *)
HandlesEvent(c) ==
  /\ clusters[c].taken.what = "event"
  /\ root' = [root EXCEPT !.neverConnected = FALSE]
  /\ clusters' = IF root.switching THEN NotRearmed(c) ELSE Handled(c)
  /\ UNCHANGED <<gate, ops, results, ui, left, strayed>>

-----------------------------------------------------------------------------
(* The gate.                                                               *)

GateIgnored == TRUE
GateOpen == gate.held = 0

BeginClusterRebuild == [held |-> gate.last + 1, last |-> gate.last + 1]

EndsAny(token) == [gate EXCEPT !.held = 0]
EndClusterRebuild(token) ==
  IF token # 0 /\ gate.held = token THEN [gate EXCEPT !.held = 0] ELSE gate

(* A context switch, from the palette of any screen.                       *)
Switch(token, to) ==
  [kind |-> "switch", token |-> token, at |-> "client", to |-> to, from |-> root.context,
   cl |-> root.cl, fresh |-> NoCluster, owner |-> 0]

Switched(token, to, ok) ==
  [kind |-> "switched", token |-> token, to |-> to, cl |-> NoCluster, ok |-> ok,
   owner |-> 0]

PicksContext(to) ==
  /\ root.cl # NoCluster /\ to # root.context
  /\ Spends("switches")
  /\ root' = [root EXCEPT !.switching = TRUE]

SwitchBegins(to) ==
  /\ GateOpen /\ PicksContext(to)
  /\ gate' = BeginClusterRebuild
  /\ ops' = ops \cup {Switch(gate.last + 1, to)}
  /\ UNCHANGED <<clusters, results, ui, strayed>>

SwitchRefused(to) ==
  /\ gate.held # 0 /\ PicksContext(to)
  /\ results' = results \cup {Switched(0, to, FALSE)}
  /\ UNCHANGED <<clusters, gate, ops, ui, strayed>>

(* SwitchContext's critical section: the health state is reset and said,   *)
(* the proof of reach is withdrawn, and a stopped cluster would run again. *)
Enters(c, ctx) ==
  [Reports(c, Connected) EXCEPT !.on = ctx, !.life = "live", !.reached = FALSE]

SwitchMoves(o) == ops' = (ops \ {o}) \cup {[o EXCEPT !.at = "sync"]}
SwitchLands(o, ok) ==
  /\ ops' = ops \ {o}
  /\ results' = results \cup {Switched(o.token, o.to, ok)}

(* The target's client: when it cannot be built nothing was touched.       *)
SwitchStarts(o) ==
  /\ o.kind = "switch" /\ o.at = "client"
  /\ \/ SwitchLands(o, FALSE) /\ UNCHANGED clusters
     \/ /\ clusters' = [clusters EXCEPT ![o.cl] = Enters(@, o.to)]
        /\ SwitchMoves(o) /\ UNCHANGED results
  /\ UNCHANGED <<gate, root, ui, left, strayed>>

(* A Start whose caches settled proves the reach of its cluster, which no  *)
(* other rebuild can have replaced since: the gate is held.                *)
Settles(c) == clusters' = [clusters EXCEPT ![c].reached = TRUE]

SwitchSyncs(o) ==
  /\ o.kind = "switch" /\ o.at = "sync"
  /\ \/ SwitchLands(o, TRUE) /\ Settles(o.cl)
     \/ /\ ops' = (ops \ {o}) \cup {[o EXCEPT !.at = "rollback"]}
        /\ UNCHANGED <<clusters, results>>
  /\ UNCHANGED <<gate, root, ui, left, strayed>>

(* The old context is entered again; the switch has failed either way.     *)
SwitchRollsBack(o) ==
  /\ o.kind = "switch" /\ o.at = "rollback"
  /\ \/ SwitchLands(o, FALSE) /\ strayed' = strayed \cup {o.cl} /\ UNCHANGED clusters
     \/ /\ clusters' = [clusters EXCEPT ![o.cl] = Enters(@, o.from)]
        /\ ops' = (ops \ {o}) \cup {[o EXCEPT !.at = "resync"]}
        /\ strayed' = strayed \ {o.cl} /\ UNCHANGED results
  /\ UNCHANGED <<gate, root, ui, left>>

SwitchResyncs(o) ==
  /\ o.kind = "switch" /\ o.at = "resync"
  /\ SwitchLands(o, FALSE)
  /\ Settles(o.cl) \/ UNCHANGED clusters
  /\ UNCHANGED <<gate, root, ui, left, strayed>>

(* SwitchContextMsg: a failure leaves Location and the screens alone.      *)
HandlesSwitched(r) ==
  /\ r.kind = "switched"
  /\ results' = results \ {r}
  /\ gate' = EndClusterRebuild(r.token)
  /\ root' = [root EXCEPT !.switching = FALSE,
                          !.context = IF r.ok THEN r.to ELSE @]
  /\ ui' = IF r.ok THEN StartsOver([ui EXCEPT !.conn = Unknown], "browse") ELSE ui
  /\ strayed' = IF r.ok THEN strayed \ {root.cl} ELSE strayed
  /\ UNCHANGED <<clusters, ops, left>>

-----------------------------------------------------------------------------
(* A rebuild, from a setup screen that is not already waiting for one.     *)
Rebuild(token, to) ==
  [kind |-> "rebuild", token |-> token, at |-> "build", to |-> to, from |-> root.context,
   cl |-> root.cl, fresh |-> NoCluster, owner |-> ui.task.id]

RebuildFailed(owner, token) ==
  [kind |-> "failed", token |-> token, to |-> LaunchContext, cl |-> NoCluster, ok |-> FALSE,
   owner |-> owner]

Retries == ui' = [ui EXCEPT !.task.retrying = TRUE]

AsksForRebuild ==
  /\ ui.task.kind = "setup" /\ ~ui.task.retrying
  /\ Spends("rebuilds")

RebuildBegins(to) ==
  /\ GateOpen /\ AsksForRebuild /\ Retries
  /\ gate' = BeginClusterRebuild
  /\ ops' = ops \cup {Rebuild(gate.last + 1, to)}
  /\ UNCHANGED <<clusters, results, root, strayed>>

RebuildRefused ==
  /\ gate.held # 0 /\ AsksForRebuild
  /\ Retries
  /\ results' = results \cup {RebuildFailed(ui.task.id, 0)}
  /\ UNCHANGED <<clusters, gate, ops, root, strayed>>

NextCluster == {c \in Known : clusters[c].life = "unborn" /\ \A d \in 1..(c - 1) :
                                clusters[d].life # "unborn"}

(* Built before the old cluster is touched.                                *)
RebuildBuilds(o) ==
  /\ o.kind = "rebuild" /\ o.at = "build"
  /\ \/ /\ ops' = ops \ {o}
        /\ results' = results \cup {RebuildFailed(o.owner, o.token)}
        /\ UNCHANGED clusters
     \/ \E c \in NextCluster :
          /\ clusters' = [clusters EXCEPT ![c] = NewCluster(o.to, "built", "none")]
          /\ ops' = (ops \ {o}) \cup {[o EXCEPT !.at = "stop", !.fresh = c]}
          /\ UNCHANGED results
  /\ UNCHANGED <<gate, root, ui, left, strayed>>

RebuildStops(o) ==
  /\ o.kind = "rebuild" /\ o.at = "stop"
  /\ clusters' = IF o.cl = NoCluster THEN clusters
                 ELSE [clusters EXCEPT ![o.cl].life = "stopped"]
  /\ ops' = (ops \ {o}) \cup {[o EXCEPT !.at = "start"]}
  /\ UNCHANGED <<gate, results, root, ui, left, strayed>>

RebuildStarts(o) ==
  /\ o.kind = "rebuild" /\ o.at = "start"
  /\ clusters' = [clusters EXCEPT ![o.fresh].life = "live"]
  /\ ops' = (ops \ {o}) \cup {[o EXCEPT !.at = "land"]}
  /\ UNCHANGED <<gate, results, root, ui, left, strayed>>

(* Start returned, synced or not.                                          *)
RebuildLands(o) ==
  /\ o.kind = "rebuild" /\ o.at = "land"
  /\ ops' = ops \ {o}
  /\ results' = results \cup {[kind |-> "replace", token |-> o.token, to |-> o.to,
                               cl |-> o.fresh, ok |-> TRUE, owner |-> 0]}
  /\ Settles(o.fresh) \/ UNCHANGED clusters
  /\ UNCHANGED <<gate, root, ui, left, strayed>>

(* ReplaceRootMsg.                                                         *)
ReplacedRoot(r) ==
  [root EXCEPT !.cl = r.cl, !.context = r.to, !.showingSetup = FALSE,
               !.neverConnected = TRUE]

Watched(c) == [clusters EXCEPT ![c].reader = "drain"]

HandlesReplaceRoot(r) ==
  /\ r.kind = "replace"
  /\ results' = results \ {r}
  /\ gate' = EndClusterRebuild(r.token)
  /\ ui' = StartsOver([ui EXCEPT !.conn = Unknown], "browse")
  /\ root' = ReplacedRoot(r)
  /\ clusters' = Watched(r.cl)
  /\ UNCHANGED <<ops, left, strayed>>

(* ClusterRebuildFailedMsg: the gate first, then the screen that asked,    *)
(* which may be active, parked or gone.                                    *)
SettledIfRouted(r) == IF r.owner = ui.task.id THEN EndClusterRebuild(r.token) ELSE gate
Settled(r) == EndClusterRebuild(r.token)

HandlesFailed(r) ==
  /\ r.kind = "failed"
  /\ results' = results \ {r}
  /\ gate' = Settled(r)
  /\ ui' = RouteOwned(ui, r.owner, "failed")
  /\ UNCHANGED <<clusters, ops, root, left, strayed>>

-----------------------------------------------------------------------------
(* The screens: opening, going back, jumping, and their own messages.      *)

Navigates(next) ==
  /\ ui' = next
  /\ UNCHANGED <<clusters, gate, ops, results, root, strayed>>

HandlesOwned(om) ==
  /\ Navigates(RouteOwned([ui EXCEPT !.flight = @ \ {om}], om.owner, om.what))
  /\ UNCHANGED left

Opens(kind) == ui.task.kind # "setup" /\ Spends("screens") /\ Navigates(OpensChild(ui, kind))
Loads ==
  /\ ui.task.kind # "setup" /\ Owned(ui.task.id, "open") \notin ui.flight
  /\ Spends("screens")
  /\ Navigates([ui EXCEPT !.flight = @ \cup {Owned(ui.task.id, "open")}])
Jumps == ui.task.kind # "setup" /\ Spends("screens") /\ Navigates(RouteGoto(ui))
ShowsUpdate == Spends("screens") /\ Navigates(OpenUpdatePanel(ui))
GoesBack == ui.stack # <<>> /\ Navigates(PopTask(ui)) /\ UNCHANGED left

-----------------------------------------------------------------------------
ClusterSteps(c) ==
  \/ \E p \in Phases : Ping(c, p)
  \/ Reaches(c) \/ Changes(c) \/ ReadsConn(c) \/ ReadsEvent(c) \/ DrainEnds(c)
  \/ HandlesConn(c) \/ HandlesEvent(c)

CommandSteps(o) ==
  \/ SwitchStarts(o) \/ SwitchSyncs(o) \/ SwitchRollsBack(o) \/ SwitchResyncs(o)
  \/ RebuildBuilds(o) \/ RebuildStops(o) \/ RebuildStarts(o) \/ RebuildLands(o)

HandlesResult(r) == HandlesSwitched(r) \/ HandlesReplaceRoot(r) \/ HandlesFailed(r)

UserSteps ==
  \/ \E to \in Contexts : SwitchBegins(to) \/ SwitchRefused(to) \/ RebuildBegins(to)
  \/ RebuildRefused
  \/ \E kind \in {"detail", "transient"} : Opens(kind)
  \/ Loads \/ Jumps \/ ShowsUpdate \/ GoesBack

Next ==
  \/ \E c \in Known : ClusterSteps(c)
  \/ \E o \in ops : CommandSteps(o)
  \/ \E r \in results : HandlesResult(r)
  \/ \E om \in ui.flight : HandlesOwned(om)
  \/ UserSteps

Spec == Init /\ [][Next]_vars

(* The probe loop pings on a timer, goroutines run, and the Update loop    *)
(* handles every message it was sent. Go chooses at random among the       *)
(* channels that are ready, so a state is not passed over for ever.        *)
Fairness ==
  /\ \A c \in Known : /\ WF_vars(Repeats(c)) /\ SF_vars(ReadsConn(c))
                      /\ WF_vars(HandlesConn(c) \/ HandlesEvent(c))
  /\ WF_vars(\E o \in ops : CommandSteps(o))
  /\ WF_vars(\E r \in results : HandlesResult(r))

FairSpec == Spec /\ Fairness

-----------------------------------------------------------------------------
ClusterRecs ==
  [on : Contexts, life : {"unborn", "built", "live", "stopped"}, phase : Phases,
   queue : UNION {[1..n -> Phases] : n \in 0..ConnBuffer}, reached : BOOLEAN,
   changed : BOOLEAN, reader : Readers, taken : Messages]

Tasks == [id : Nat, kind : Kinds, conn : Phases \cup {Unknown}, retrying : BOOLEAN]

OpRecs ==
  [kind : {"switch", "rebuild"}, token : Nat,
   at : {"client", "sync", "rollback", "resync", "build", "stop", "start", "land"},
   to : Contexts, from : Contexts, cl : 0..Clusters, fresh : 0..Clusters, owner : Nat]

ResultRecs ==
  [kind : {"switched", "replace", "failed"}, token : Nat, to : Contexts, cl : 0..Clusters,
   ok : BOOLEAN, owner : Nat]

(* Every variable holds what its declaration says; the connection channel  *)
(* never holds more than its capacity.                                     *)
TypeOK ==
  /\ clusters \in [Known -> ClusterRecs]
  /\ gate \in [held : Nat, last : Nat]
  /\ \A o \in ops : o \in OpRecs
  /\ \A r \in results : r \in ResultRecs
  /\ root \in [cl : 0..Clusters, context : Contexts, switching : BOOLEAN,
              neverConnected : BOOLEAN, showingSetup : BOOLEAN]
  /\ \A i \in DOMAIN Entries(ui) : Entries(ui)[i].task \in Tasks
  /\ ui.last \in Nat /\ ui.conn \in Phases \cup {Unknown}
  /\ \A om \in ui.flight : om \in [owner : 0..ui.last, what : Whats \ {"failed"}]
  /\ strayed \subseteq Known

Holders == {o.token : o \in ops} \cup {r.token : r \in results}

(* rebuildgate.go: one switch or rebuild at a time. The gate is held       *)
(* exactly while its holder's command runs or its message is under way,    *)
(* whoever that message is routed to and whether or not that screen still  *)
(* exists: it neither leaks nor opens for somebody else's failure.         *)
OneRebuild ==
  /\ Cardinality(ops) <= 1
  /\ Holders \ {0} = {gate.held} \ {0}

(* cluster.go, Stop is terminal: no switch still in flight sets a cluster  *)
(* that a rebuild has stopped going again.                                 *)
StoppedStaysStopped ==
  [][\A c \in Known : clusters[c].life = "stopped" => clusters'[c].life = "stopped"]_vars

(* With no switch or rebuild under way, Session.Location names the context *)
(* the session's cluster is connected to, and that cluster runs; after any *)
(* order of successes, failures, refusals and rollbacks. The one exception *)
(* is a rollback that could not build the old context's client.            *)
LabelIsTruth ==
  gate.held = 0 /\ root.cl \notin {NoCluster} \cup strayed
    => clusters[root.cl].life = "live" /\ clusters[root.cl].on = root.context

(* clusterwatch.go: one call keeps the cluster's channels draining until   *)
(* it is stopped. An event swallowed while a switch is shown as running    *)
(* ends the drain instead (README, observations).                          *)
DrainGoesOn ==
  root.cl # NoCluster /\ clusters[root.cl].life = "live"
    => clusters[root.cl].reader \in {"bridge", "drain", "dropped"}

(* Once the session's cluster settles on Connected or Reconnecting and its *)
(* channels are still read, the root says so for good, and a Connected one *)
(* leaves nobody on a setup screen: whatever late messages of a replaced   *)
(* cluster or wiped states came in between.                                *)
ConnCatchesUp ==
  \A c \in Known, p \in {Connected, Reconnecting} :
    <>[](/\ root.cl = c /\ clusters[c].life = "live" /\ clusters[c].phase = p
         /\ clusters[c].reader # "dropped")
      => <>[](ui.conn = p /\ (p = Connected => ui.task.kind # "setup"))

Discarded == ui'.stack = <<>> /\ ui'.last > ui.last

(* model.go: an outage in mid-session keeps the screens that were open.    *)
(* All of them are discarded only when the cluster or its context changed, *)
(* when the cluster was never reached, or when a setup screen gives way.   *)
ScreensStay ==
  [][Discarded => \/ root'.cl # root.cl \/ root'.context # root.context
                  \/ ~clusters[root.cl].reached
                  \/ root.showingSetup]_vars

(* model.go, activate: the active screen shows the connection state the    *)
(* root last heard, however it became active and whatever it missed while  *)
(* it was parked or before it was built.                                   *)
ConnReplay == ui.task.conn = ui.conn

(* taskrouting.go: no two screens share an identity, and the chain of      *)
(* every screen, active or parked, has exactly one link: on its way, or    *)
(* held until the screen is active again.                                  *)
ChainsSurvive == ChainsAlive(ui)
=============================================================================
