--------------------------- MODULE ForwardManager ---------------------------
(***************************************************************************)
(* The port-forward manager of kute (internal/kube/forward.go): sessions   *)
(* kept under m.mu, one run goroutine per session and per Restart (dial,   *)
(* publish the tunnel, serve it, mark the session Reconnecting, wait,      *)
(* resolve the pod again), the checks a Pod event starts, and the user's   *)
(* Start, Stop, StopAll and Restart, which close tunnels after unlocking.  *)
(*                                                                         *)
(* A run goroutine <<s, n>> is the n-th of session s and holds the n-th    *)
(* context.  A step is one critical section of m.mu, one call to the       *)
(* dialer, the resolver or the tunnel, or one unlocked ctx.Err() check.    *)
(* Ports, container-port names, activity times and the retry delay itself  *)
(* are left out; each session has a local port of its own, as the picker   *)
(* sees to, shared by the tunnels of all its runs.                         *)
(***************************************************************************)
EXTENDS Integers, FiniteSets

CONSTANTS
  Sessions,     (* Session IDs.                                             *)
  Pods,         (* Pods the targets can resolve to.                         *)
  Picked,       (* Bound: what the picker resolved a target to.             *)
  MaxRuns,      (* Bound: run goroutines of one session (1 + Restarts).     *)
  MaxTunnels,   (* Bound: tunnels somebody still refers to.                 *)
  MaxFaults,    (* Bound: failed dials, failed checks and lost connections. *)
  MaxPodEvents  (* Bound: changes of the pods.                              *)

Runs    == 1..MaxRuns
Tunnels == 1..MaxTunnels
NoTunnel == 0
NoPod    == "no pod"
NoRun    == [pc |-> "none", pod |-> NoPod, tunnel |-> NoTunnel]
NoCheck  == [pc |-> "idle", ctx |-> 0, pod |-> NoPod, answer |-> "error"]

ASSUME ForwardAssumption ==
  /\ NoPod \notin Pods /\ Picked \subseteq Pods \cup {NoPod}
  /\ MaxRuns \in Nat \ {0} /\ MaxTunnels \in Nat \ {0}
  /\ MaxFaults \in Nat /\ MaxPodEvents \in Nat

VARIABLES
  born, live,    (* IDs handed out (nextID), and keys of m.sessions         *)
  podTarget,     (* sessions whose target is a Pod, not a Service           *)
  ctx,           (* entry.ctx: the number of the session's current context  *)
  handle,        (* entry.tunnel                                            *)
  state,         (* session.State                                           *)
  resolvedPod,   (* session.ResolvedPod                                     *)
  checking,      (* sessions whose entry.checking is set                    *)
  run,           (* the run goroutines                                      *)
  check,         (* the reconcilePodTarget goroutine of each session        *)
  closing,       (* Close calls about to be made, outside m.mu              *)
  spawning,      (* sessions whose Restart has not started its goroutine    *)
  open,          (* tunnels that listen and forward                         *)
  closed,        (* tunnels Close was called on (spdyTunnel.closed)         *)
  tunnelPod,     (* the pod each tunnel was dialed to                       *)
  available,     (* running, non-terminating pods                           *)
  podChanged,    (* a Pod event the event bridge has not flushed yet        *)
  faults, podEvents   (* used up so far                                     *)

entryVars  == <<born, live, podTarget, ctx, handle, state, resolvedPod, checking>>
tunnelVars == <<open, closed, tunnelPod>>
worldVars  == <<available, podChanged, podEvents>>
uiVars     == <<closing, spawning>>
vars == <<entryVars, run, check, uiVars, tunnelVars, worldVars, faults>>

Cancelled(s, n) == s \notin live \/ n # ctx[s]

RunAt(s, n, pc, pod, tunnel) ==
  run' = [run EXCEPT ![s][n] = [pc |-> pc, pod |-> pod, tunnel |-> tunnel]]

Ends(s, n) == RunAt(s, n, "done", NoPod, NoTunnel)

(* A handle nobody refers to any more can stand for a new tunnel.          *)
Free == { t \in Tunnels :
            /\ \A s \in Sessions : handle[s] # t /\ \A n \in Runs : run[s][n].tunnel # t
            /\ \A c \in closing : c.tunnel # t }

-----------------------------------------------------------------------------
(***************************************************************************)
(* The user, one call at a time: Update calls the manager synchronously.   *)
(***************************************************************************)
UiIsFree == spawning = {} /\ \A c \in closing : c.by # "user"

HandlesOrNil(S) ==   (* Fault: nil is closed too. *)
  {[by |-> "user", tunnel |-> handle[s], pod |-> NoPod] : s \in S}
Handles(S) ==
  {[by |-> "user", tunnel |-> handle[s], pod |-> NoPod] : s \in {x \in S : handle[x] # NoTunnel}}

(* StartPort, on a Pod or with the pod the picker resolved, if it could.   *)
StartPort(s, pod) ==
  /\ UiIsFree
  /\ s \notin born
  /\ podTarget' \in {podTarget} \cup (IF pod = NoPod THEN {} ELSE {podTarget \cup {s}})
  /\ born' = born \cup {s} /\ live' = live \cup {s}
  /\ ctx' = [ctx EXCEPT ![s] = 1]
  /\ resolvedPod' = [resolvedPod EXCEPT ![s] = pod]
  /\ RunAt(s, 1, "top", pod, NoTunnel)
  /\ UNCHANGED <<handle, state, checking, check, uiVars, tunnelVars, worldVars, faults>>

Stop(s) ==
  /\ UiIsFree
  /\ s \in live
  /\ live' = live \ {s}
  /\ closing' = closing \cup Handles({s})
  /\ UNCHANGED <<born, podTarget, ctx, handle, state, resolvedPod, checking, run, check,
                 spawning, tunnelVars, worldVars, faults>>

StopAll ==
  /\ UiIsFree
  /\ live # {}
  /\ live' = {}
  /\ closing' = closing \cup Handles(live)
  /\ UNCHANGED <<born, podTarget, ctx, handle, state, resolvedPod, checking, run, check,
                 spawning, tunnelVars, worldVars, faults>>

Restart(s) ==
  /\ UiIsFree
  /\ s \in live /\ ctx[s] < MaxRuns
  /\ ctx' = [ctx EXCEPT ![s] = ctx[s] + 1]
  /\ handle' = [handle EXCEPT ![s] = NoTunnel]
  /\ state' = [state EXCEPT ![s] = "active"]
  /\ closing' = closing \cup Handles({s})
  /\ spawning' = {s}
  /\ UNCHANGED <<born, live, podTarget, resolvedPod, checking, run, check, tunnelVars,
                 worldVars, faults>>

(* Restart's last lines, after its Close: the pod is the one it read under *)
(* the lock, and only a run of this context could have replaced it.        *)
Spawn(s) ==
  /\ s \in spawning /\ \A c \in closing : c.by # "user"
  /\ spawning' = {}
  /\ RunAt(s, ctx[s], "top", resolvedPod[s], NoTunnel)
  /\ UNCHANGED <<entryVars, check, closing, tunnelVars, worldVars, faults>>

(* Fault: Close only signals a Run in progress (spdyTunnel.stopCh).        *)
CloseRunningTunnel(c) ==
  /\ c \in closing
  /\ closing' = closing \ {c}
  /\ closed' = closed \cup ({c.tunnel} \cap open)
  /\ UNCHANGED <<entryVars, run, check, spawning, open, tunnelPod, worldVars, faults>>

(* Tunnel.Close, called by the user's goroutine or by a check: sticky, a   *)
(* tunnel closed before its Run never opens.                               *)
CloseTunnel(c) ==
  /\ c \in closing
  /\ closing' = closing \ {c}
  /\ closed' = closed \cup {c.tunnel}
  /\ UNCHANGED <<entryVars, run, check, spawning, open, tunnelPod, worldVars, faults>>

-----------------------------------------------------------------------------
(***************************************************************************)
(* run                                                                     *)
(***************************************************************************)
LoopTop(s, n) ==
  /\ run[s][n].pc = "top"
  /\ IF Cancelled(s, n) THEN Ends(s, n) ELSE RunAt(s, n, "dialing", run[s][n].pod, NoTunnel)
  /\ UNCHANGED <<entryVars, check, uiVars, tunnelVars, worldVars, faults>>

(* The pod port is resolved (a request, for a named port) and the dialer   *)
(* makes a tunnel, unopened yet.  A dial that names no pod fails, at the   *)
(* latest in Run: it is left to DialFails.                                 *)
Dial(s, n) ==
  /\ run[s][n].pc = "dialing" /\ run[s][n].pod # NoPod
  /\ \E t \in Free :
       /\ \A u \in Free : t <= u
       /\ RunAt(s, n, "dialed", run[s][n].pod, t)
       /\ closed' = closed \ {t}
       /\ tunnelPod' = [tunnelPod EXCEPT ![t] = run[s][n].pod]
  /\ UNCHANGED <<entryVars, check, uiVars, open, worldVars, faults>>

DialFails(s, n) ==
  /\ run[s][n].pc = "dialing"
  /\ \/ (run[s][n].pod = NoPod \/ Cancelled(s, n)) /\ UNCHANGED faults
     \/ faults < MaxFaults /\ faults' = faults + 1
  /\ RunAt(s, n, "ended", run[s][n].pod, NoTunnel)
  /\ UNCHANGED <<entryVars, check, uiVars, tunnelVars, worldVars>>

(* Fault: no ctx.Err() check between Dial and the write.                   *)
PublishStale(s, n) ==
  LET t == run[s][n].tunnel IN
  /\ run[s][n].pc = "dialed"
  /\ RunAt(s, n, "published", run[s][n].pod, t)
  /\ IF s \in live
       THEN /\ handle' = [handle EXCEPT ![s] = t]
            /\ state' = [state EXCEPT ![s] = "active"]
            /\ resolvedPod' = [resolvedPod EXCEPT ![s] = run[s][n].pod]
       ELSE UNCHANGED <<handle, state, resolvedPod>>
  /\ UNCHANGED <<born, live, podTarget, ctx, checking, check, uiVars, tunnelVars, worldVars,
                 faults>>

(* The handle is published under m.mu, unless a Stop or a Restart landed   *)
(* while Dial was in flight: then this goroutine closes what it dialed.    *)
Publish(s, n) ==
  LET t == run[s][n].tunnel IN
  /\ run[s][n].pc = "dialed"
  /\ IF Cancelled(s, n)
       THEN /\ Ends(s, n)
            /\ closed' = closed \cup {t}
            /\ UNCHANGED <<handle, state, resolvedPod>>
       ELSE /\ RunAt(s, n, "published", run[s][n].pod, t)
            /\ handle' = [handle EXCEPT ![s] = t]
            /\ state' = [state EXCEPT ![s] = "active"]
            /\ resolvedPod' = [resolvedPod EXCEPT ![s] = run[s][n].pod]
            /\ UNCHANGED closed
  /\ UNCHANGED <<born, live, podTarget, ctx, checking, check, uiVars, open, tunnelPod,
                 worldVars, faults>>

RunReturns(s, n) == RunAt(s, n, "ended", run[s][n].pod, NoTunnel)

(* Tunnel.Run's first lines.                                               *)
TunnelRuns(s, n) ==
  LET t == run[s][n].tunnel IN
  /\ run[s][n].pc = "published"
  /\ IF t \in closed THEN RunReturns(s, n) ELSE RunAt(s, n, "connecting", run[s][n].pod, t)
  /\ UNCHANGED <<entryVars, check, uiVars, tunnelVars, worldVars, faults>>

(* The connection is made first, then the local port is bound: it may      *)
(* still be held by the tunnel of a run that a Restart replaced.           *)
PortBusy(s) == \E n \in Runs : run[s][n].tunnel \in open

Connect(s, n) ==
  LET t == run[s][n].tunnel IN
  /\ run[s][n].pc = "connecting"
  /\ run[s][n].pod \in available /\ ~PortBusy(s)
  /\ RunAt(s, n, "serving", run[s][n].pod, t)
  /\ open' = open \cup {t}
  /\ UNCHANGED <<entryVars, check, uiVars, closed, tunnelPod, worldVars, faults>>

ConnectFails(s, n) ==
  /\ run[s][n].pc = "connecting"
  /\ \/ (run[s][n].pod \notin available \/ PortBusy(s)) /\ UNCHANGED faults
     \/ faults < MaxFaults /\ faults' = faults + 1
  /\ RunReturns(s, n)
  /\ UNCHANGED <<entryVars, check, uiVars, tunnelVars, worldVars>>

(* A tunnel ends because it was closed, or because its connection is lost. *)
(* The connection of a deleted pod may stay up.                            *)
TunnelEnds(s, n) ==
  LET t == run[s][n].tunnel IN
  /\ run[s][n].pc = "serving"
  /\ \/ t \in closed /\ UNCHANGED faults
     \/ t \notin closed /\ faults < MaxFaults /\ faults' = faults + 1
  /\ RunReturns(s, n)
  /\ open' = open \ {t}
  /\ UNCHANGED <<entryVars, check, uiVars, closed, tunnelPod, worldVars>>

(* The ctx.Err() check after Run is made without m.mu ...                  *)
AfterRun(s, n) ==
  /\ run[s][n].pc = "ended"
  /\ IF Cancelled(s, n) THEN Ends(s, n) ELSE RunAt(s, n, "marking", run[s][n].pod, NoTunnel)
  /\ UNCHANGED <<entryVars, check, uiVars, tunnelVars, worldVars, faults>>

(* ... and the write that follows finds the session by its ID alone.       *)
MarkReconnecting(s, n) ==
  /\ run[s][n].pc = "marking"
  /\ RunAt(s, n, "waiting", run[s][n].pod, NoTunnel)
  /\ state' = IF s \in live THEN [state EXCEPT ![s] = "reconnecting"] ELSE state
  /\ UNCHANGED <<born, live, podTarget, ctx, handle, resolvedPod, checking, check, uiVars,
                 tunnelVars, worldVars, faults>>

(* The select between ctx.Done() and the retry timer takes either when     *)
(* both are ready.                                                         *)
WaitCancelled(s, n) ==
  /\ run[s][n].pc = "waiting" /\ Cancelled(s, n)
  /\ Ends(s, n)
  /\ UNCHANGED <<entryVars, check, uiVars, tunnelVars, worldVars, faults>>

RetryTimer(s, n) ==
  /\ run[s][n].pc = "waiting"
  /\ IF s \in live THEN RunAt(s, n, "resolving", run[s][n].pod, NoTunnel) ELSE Ends(s, n)
  /\ UNCHANGED <<entryVars, check, uiVars, tunnelVars, worldVars, faults>>

NeverResolves(s) == FALSE   (* Fault: every target is treated like a Pod. *)
Resolves(s) == s \notin podTarget

(* ResolveForwardPod picks an available pod; its failure keeps the old one. *)
Resolve(s, n) ==
  /\ run[s][n].pc = "resolving"
  /\ \/ Resolves(s) /\ (\E p \in available : RunAt(s, n, "top", p, NoTunnel)) /\ UNCHANGED faults
     \/ /\ RunAt(s, n, "top", run[s][n].pod, NoTunnel)
        /\ \/ (~Resolves(s) \/ available = {} \/ Cancelled(s, n)) /\ UNCHANGED faults
           \/ faults < MaxFaults /\ faults' = faults + 1
  /\ UNCHANGED <<entryVars, check, uiVars, tunnelVars, worldVars>>

-----------------------------------------------------------------------------
(***************************************************************************)
(* Pod events.                                                             *)
(***************************************************************************)
PodChanges(p, up) ==
  /\ podEvents < MaxPodEvents
  /\ podEvents' = podEvents + 1
  /\ podChanged' = TRUE
  /\ available' = IF up THEN available \cup {p} ELSE available \ {p}
  /\ UNCHANGED <<entryVars, run, check, uiVars, tunnelVars, faults>>

(* The event bridge's flush of KindPod calls ReconcilePodTargets.          *)
ReconcilePodTargets ==
  LET targets == {s \in live \ checking : resolvedPod[s] # NoPod} IN
  /\ podChanged
  /\ podChanged' = FALSE
  /\ checking' = checking \cup targets
  /\ check' = [s \in Sessions |->
                 IF s \in targets
                   THEN [pc |-> "asking", ctx |-> ctx[s], pod |-> resolvedPod[s],
                         answer |-> "error"]
                   ELSE check[s]]
  /\ UNCHANGED <<born, live, podTarget, ctx, handle, state, resolvedPod, run, uiVars,
                 tunnelVars, available, podEvents, faults>>

(* ForwardPodAvailable: the Get is answered ...                            *)
CheckAsks(s) ==
  /\ check[s].pc = "asking"
  /\ \E answer \in {"available", "gone", "error"} :
       /\ answer = "available" => check[s].pod \in available
       /\ answer = "gone" => check[s].pod \notin available
       /\ \/ (answer # "error" \/ Cancelled(s, check[s].ctx)) /\ UNCHANGED faults
          \/ answer = "error" /\ faults < MaxFaults /\ faults' = faults + 1
       /\ check' = [check EXCEPT ![s] = [pc |-> "answered", ctx |-> 0, pod |-> check[s].pod,
                                         answer |-> answer]]
  /\ UNCHANGED <<entryVars, run, uiVars, tunnelVars, worldVars>>

AnyPod(s) == TRUE   (* Fault: the session may have moved to another pod. *)
SamePod(s) == resolvedPod[s] = check[s].pod

(* ... and reconcilePodTarget's critical section decides on the answer.    *)
CheckDecides(s) ==
  /\ check[s].pc = "answered"
  /\ check' = [check EXCEPT ![s] = NoCheck]
  /\ checking' = IF s \in live THEN checking \ {s} ELSE checking
  /\ closing' = IF s \in live /\ check[s].answer = "gone" /\ SamePod(s) /\ handle[s] # NoTunnel
                  THEN closing \cup {[by |-> "check", tunnel |-> handle[s], pod |-> check[s].pod]}
                  ELSE closing
  /\ UNCHANGED <<born, live, podTarget, ctx, handle, state, resolvedPod, run, spawning,
                 tunnelVars, worldVars, faults>>

-----------------------------------------------------------------------------
Init ==
  /\ born = {} /\ live = {} /\ podTarget = {}
  /\ ctx = [s \in Sessions |-> 0]
  /\ handle = [s \in Sessions |-> NoTunnel]
  /\ state = [s \in Sessions |-> "active"]
  /\ resolvedPod = [s \in Sessions |-> NoPod]
  /\ checking = {}
  /\ run = [s \in Sessions |-> [n \in Runs |-> NoRun]]
  /\ check = [s \in Sessions |-> NoCheck]
  /\ closing = {} /\ spawning = {}
  /\ open = {} /\ closed = {}
  /\ tunnelPod = [t \in Tunnels |-> NoPod]
  /\ available = Pods /\ podChanged = FALSE
  /\ faults = 0 /\ podEvents = 0

RunSteps(s, n) ==
  \/ LoopTop(s, n) \/ Dial(s, n) \/ DialFails(s, n) \/ Publish(s, n)
  \/ TunnelRuns(s, n) \/ Connect(s, n) \/ ConnectFails(s, n) \/ TunnelEnds(s, n)
  \/ AfterRun(s, n) \/ MarkReconnecting(s, n)
  \/ WaitCancelled(s, n) \/ RetryTimer(s, n) \/ Resolve(s, n)

UserSteps ==
  \/ \E s \in Sessions :
       \/ \E pod \in Picked : StartPort(s, pod)
       \/ Stop(s) \/ Restart(s)
  \/ StopAll

Next ==
  \/ \E s \in Sessions, n \in Runs : RunSteps(s, n)
  \/ UserSteps
  \/ \E s \in Sessions : Spawn(s) \/ CheckAsks(s) \/ CheckDecides(s)
  \/ \E c \in closing : CloseTunnel(c)
  \/ ReconcilePodTargets
  \/ \E p \in Pods, up \in BOOLEAN : PodChanges(p, up)

Spec == Init /\ [][Next]_vars

(***************************************************************************)
(* Fairness: goroutines run, calls return (each has a deadline or ends     *)
(* with the tunnel), a closed tunnel's Run returns, and a flushed event is *)
(* handled.  Nothing makes the user act, a connection break or a pod       *)
(* change.                                                                 *)
(***************************************************************************)
Fairness ==
  /\ WF_vars((\E s \in Sessions : Spawn(s)) \/ \E c \in closing : CloseTunnel(c))
  /\ WF_vars(ReconcilePodTargets)
  /\ \A s \in Sessions :
       /\ WF_vars(CheckAsks(s) \/ CheckDecides(s))
       /\ \A n \in Runs :
            WF_vars(RunSteps(s, n) /\ (run[s][n].pc = "serving" => run[s][n].tunnel \in closed))

FairSpec == Spec /\ Fairness

-----------------------------------------------------------------------------
RunStates == [pc : {"none", "top", "dialing", "dialed", "published", "connecting", "serving",
                    "ended", "marking", "waiting", "resolving", "done"},
              pod : Pods \cup {NoPod}, tunnel : Tunnels \cup {NoTunnel}]

Checks == [pc : {"idle", "asking", "answered"}, ctx : 0..MaxRuns, pod : Pods \cup {NoPod},
           answer : {"available", "gone", "error"}]

TypeOK ==
  /\ born \subseteq Sessions /\ live \subseteq born /\ podTarget \subseteq born
  /\ ctx \in [Sessions -> 0..MaxRuns]
  /\ handle \in [Sessions -> Tunnels \cup {NoTunnel}]
  /\ state \in [Sessions -> {"active", "reconnecting"}]
  /\ resolvedPod \in [Sessions -> Pods \cup {NoPod}]
  /\ checking \subseteq Sessions
  /\ run \in [Sessions -> [Runs -> RunStates]]
  /\ check \in [Sessions -> Checks]
  /\ closing \subseteq [by : {"user", "check"}, tunnel : Tunnels, pod : Pods \cup {NoPod}]
  /\ spawning \subseteq Sessions
  /\ open \subseteq Tunnels /\ closed \subseteq Tunnels
  /\ tunnelPod \in [Tunnels -> Pods \cup {NoPod}]
  /\ available \subseteq Pods /\ podChanged \in BOOLEAN
  /\ faults \in 0..MaxFaults /\ podEvents \in 0..MaxPodEvents

(* A tunnel some goroutine runs or is about to run can be closed: it is    *)
(* closed already, its session holds the handle, or somebody is on the way *)
(* to close it.  No Stop, StopAll or Restart that lands while a Dial is in *)
(* flight leaves a tunnel and its local port behind (run's comment on the  *)
(* check between Dial and the write).                                      *)
NoLeakedTunnel ==
  \A s \in Sessions, n \in Runs :
    run[s][n].pc \in {"published", "connecting", "serving"} =>
      LET t == run[s][n].tunnel IN
      \/ t \in closed
      \/ ~Cancelled(s, n) /\ handle[s] = t
      \/ \E c \in closing : c.tunnel = t

(* A check closes a tunnel to the pod it found gone, never the tunnel of a *)
(* pod the session has moved to since.                                     *)
ChecksCloseTheirPod == \A c \in closing : c.by = "check" => tunnelPod[c.tunnel] = c.pod

(* The runs whose sessions were stopped or restarted all end, whatever     *)
(* they were doing, and take their tunnels and local ports with them.      *)
CancelledRunsEnd ==
  []<>(\A s \in Sessions, n \in Runs : Cancelled(s, n) => run[s][n].pc \in {"none", "done"})

(* A session that is kept comes to forward as long as there is a pod for   *)
(* it: a failed dial, a port still held by the run that a Restart replaced *)
(* and a pod that was deleted are all retried, on another pod if need be.  *)
Reachable(s) ==
  IF s \in podTarget THEN resolvedPod[s] \in available ELSE available # {}
Forwarding(s) == \E n \in Runs : run[s][n].pc = "serving"

Reconnects ==
  \A s \in Sessions : s \in live /\ Reachable(s) ~> s \notin live \/ ~Reachable(s) \/ Forwarding(s)

(***************************************************************************)
(* What the source says and the code does not do: a run refutes it.        *)
(***************************************************************************)

(* "a missing/terminating Pod closes the active tunnel": a tunnel to a pod *)
(* that is gone is closed in the end.                                      *)
GonePodClosesTheTunnel ==
  \A t \in Tunnels : t \in open /\ tunnelPod[t] \notin available
                       ~> t \notin open \/ tunnelPod[t] \in available
=============================================================================
