-------------------------- MODULE RootShellProofs --------------------------
(***************************************************************************)
(* Proofs about the rebuild gate and what it protects (OneRebuild,         *)
(* LabelIsTruth, DrainGoesOn, StoppedStaysStopped), and then about the     *)
(* screens over it (TypeOK, ConnReplay, ChainsSurvive, ScreensStay). The   *)
(* gate's invariant mentions no screen; the screens' is TaskStackProofs'   *)
(* Whole, beside the types and the targets of switches.                    *)
(***************************************************************************)
EXTENDS RootShell, TaskStackProofs, TLAPS, FiniteSetTheorems

-----------------------------------------------------------------------------
(* Shapes: which fields the records have.                                  *)

ClusterFields ==
  {"on", "life", "phase", "queue", "reached", "changed", "reader", "taken"}
IsCluster(r) == DOMAIN r = ClusterFields

IsOp(o) == DOMAIN o = {"kind", "token", "at", "to", "from", "cl", "fresh", "owner"}

IsRoot(r) == DOMAIN r = {"cl", "context", "switching", "neverConnected", "showingSetup"}

Shapes ==
  /\ DOMAIN clusters = Known
  /\ \A c \in Known : IsCluster(clusters[c])
  /\ \A o \in ops : IsOp(o)
  /\ DOMAIN gate = {"held", "last"}
  /\ gate.held \in Nat /\ gate.last \in Nat
  /\ IsRoot(root) /\ root.cl \in 0..Clusters

-----------------------------------------------------------------------------
(* The inductive invariant.                                                *)

(* The gate is open and nothing is under way, or its holder's command is   *)
(* running, or its holder's message is under way.                          *)
Nobody  == gate.held = 0 /\ ops = {} /\ \A r \in results : r.token = 0
Running ==
  /\ gate.held # 0
  /\ \E o \in ops : ops = {o} /\ o.token = gate.held
  /\ \A r \in results : r.token = 0
Landing ==
  /\ gate.held # 0 /\ ops = {}
  /\ \E r \in results : /\ r.token = gate.held
                        /\ \A q \in results : q.token # 0 => q = r

GateInv == Nobody \/ Running \/ Landing

(* A switch works on the session's cluster and starts from its context; a  *)
(* rebuild has built a cluster that is not the session's yet.              *)
SwitchInv(o) ==
  /\ o.cl = root.cl /\ root.cl # NoCluster /\ o.from = root.context
  /\ o.at \in {"client", "sync", "rollback", "resync"}
  /\ o.at \in {"sync", "rollback"} => clusters[root.cl].on = o.to

Ready(c, to, life) ==
  c \in Known /\ c # root.cl /\ clusters[c].on = to /\ clusters[c].life = life

RebuildInv(o) ==
  /\ o.cl = root.cl
  /\ o.at \in {"build", "stop", "start", "land"}
  /\ o.at \in {"stop", "start"} => Ready(o.fresh, o.to, "built")
  /\ o.at = "land" => Ready(o.fresh, o.to, "live")

OpsInv ==
  \A o \in ops : \/ o.kind = "switch" /\ SwitchInv(o)
                 \/ o.kind = "rebuild" /\ RebuildInv(o)

ResultsInv ==
  \A r \in results :
     /\ r.kind \in {"switched", "replace", "failed"}
     /\ r.kind = "replace" => r.token # 0 /\ Ready(r.cl, r.to, "live")
     /\ r.kind = "switched" /\ r.ok =>
           r.token # 0 /\ root.cl # NoCluster /\ clusters[root.cl].on = r.to

(* The label is right except while a switch has the cluster elsewhere.     *)
Elsewhere ==
  \/ \E o \in ops : o.kind = "switch" /\ o.at \in {"sync", "rollback"}
  \/ \E r \in results : r.kind = "switched" /\ r.ok
LabelInv ==
  root.cl \notin {NoCluster} \cup strayed /\ ~Elsewhere
    => clusters[root.cl].on = root.context

(* The session's cluster runs except while its successor is on its way.    *)
Succeeded ==
  \/ \E o \in ops : o.kind = "rebuild" /\ o.at \in {"start", "land"}
  \/ \E r \in results : r.kind = "replace"
LifeInv == root.cl # NoCluster /\ ~Succeeded => clusters[root.cl].life = "live"

ShellInv ==
  Shapes /\ GateInv /\ OpsInv /\ ResultsInv /\ LabelInv /\ LifeInv /\ DrainGoesOn

-----------------------------------------------------------------------------
(* What the cluster updates leave alone.                                   *)

LEMMA NewShape ==
  ASSUME NEW ctx, NEW life, NEW reader
  PROVE  /\ IsCluster(NewCluster(ctx, life, reader))
         /\ NewCluster(ctx, life, reader).on = ctx
         /\ NewCluster(ctx, life, reader).life = life
         /\ NewCluster(ctx, life, reader).reader = reader
BY DEF IsCluster, ClusterFields, NewCluster

LEMMA ReportKeeps ==
  ASSUME NEW r, IsCluster(r), NEW p
  PROVE  /\ IsCluster(Reports(r, p))
         /\ Reports(r, p).on = r.on /\ Reports(r, p).life = r.life
         /\ Reports(r, p).reader = r.reader
BY DEF IsCluster, ClusterFields, Reports

LEMMA EnterKeeps ==
  ASSUME NEW r, IsCluster(r), NEW ctx
  PROVE  /\ IsCluster(Enters(r, ctx))
         /\ Enters(r, ctx).on = ctx /\ Enters(r, ctx).life = "live"
         /\ Enters(r, ctx).reader = r.reader
<1>1. IsCluster(Reports(r, Connected)) /\ Reports(r, Connected).reader = r.reader
  BY ReportKeeps
<1> QED BY <1>1 DEF IsCluster, ClusterFields, Enters

-----------------------------------------------------------------------------
THEOREM InitInv == Init => ShellInv
<1> SUFFICES ASSUME Init PROVE ShellInv
  OBVIOUS
<1> USE DEF Known, NoCluster
<1>1. PICK s \in Sessions :
        /\ clusters = [c \in Known |-> IF s.launched /\ c = 1
                                      THEN NewCluster(LaunchContext, "live", "bridge")
                                      ELSE Unborn]
        /\ root = [cl |-> IF s.launched THEN 1 ELSE NoCluster, context |-> LaunchContext,
                  switching |-> FALSE, neverConnected |-> s.launched, showingSetup |-> FALSE]
  BY DEF Init
<1>2. gate = [held |-> 0, last |-> 0] /\ ops = {} /\ results = {}
  BY DEF Init
<1>3. /\ 1 \in Known /\ DOMAIN clusters = Known
      /\ \A c \in Known : IsCluster(clusters[c])
      /\ s.launched => /\ clusters[1].on = LaunchContext /\ clusters[1].life = "live"
                       /\ clusters[1].reader = "bridge"
  BY <1>1, NewShape, ShellAssumption DEF Unborn
<1>4. /\ IsRoot(root) /\ root.context = LaunchContext
      /\ root.cl = IF s.launched THEN 1 ELSE NoCluster
  BY <1>1 DEF IsRoot
<1>5. Shapes
  BY <1>2, <1>3, <1>4, ShellAssumption DEF Shapes
<1>6. GateInv /\ OpsInv /\ ResultsInv
  BY <1>2 DEF GateInv, Nobody, OpsInv, ResultsInv
<1>7. LabelInv /\ LifeInv /\ DrainGoesOn
  BY <1>3, <1>4 DEF LabelInv, LifeInv, DrainGoesOn
<1> QED
  BY <1>5, <1>6, <1>7 DEF ShellInv

-----------------------------------------------------------------------------
StopStep ==
  \A c \in Known : clusters[c].life = "stopped" => clusters'[c].life = "stopped"

(* A step that keeps every cluster's context and life.                     *)
SameRoot == IsRoot(root') /\ root'.cl = root.cl /\ root'.context = root.context
SameWork == UNCHANGED <<gate, ops, results, strayed>>

LEMMA QuietStep ==
  ASSUME ShellInv, SameRoot, SameWork,
         DOMAIN clusters' = Known,
         \A c \in Known : /\ IsCluster(clusters'[c])
                          /\ clusters'[c].on = clusters[c].on
                          /\ clusters'[c].life = clusters[c].life
                          /\ \/ clusters'[c].reader = clusters[c].reader
                             \/ clusters'[c].reader = "dropped"
                             \/ clusters[c].life = "stopped"
  PROVE  ShellInv' /\ StopStep
<1> USE DEF ShellInv, SameRoot, SameWork, Known, NoCluster
<1>1. Shapes'
  BY DEF Shapes
<1>2. GateInv'
  BY DEF GateInv, Nobody, Running, Landing
<1>3. OpsInv'
  BY DEF OpsInv, SwitchInv, RebuildInv, Ready, Shapes
<1>4. ResultsInv'
  BY DEF ResultsInv, Ready, Shapes
<1>5. LabelInv' /\ LifeInv'
  BY DEF LabelInv, LifeInv, Elsewhere, Succeeded, Shapes
<1>6. DrainGoesOn'
  BY DEF DrainGoesOn, Shapes
<1> QED
  BY <1>1, <1>2, <1>3, <1>4, <1>5, <1>6 DEF StopStep

(* The same when one cluster is updated.                                   *)
LEMMA QuietUpdate ==
  ASSUME ShellInv, SameRoot, SameWork,
         NEW c \in Known, NEW r, clusters' = [clusters EXCEPT ![c] = r],
         IsCluster(r), r.on = clusters[c].on, r.life = clusters[c].life,
         \/ r.reader = clusters[c].reader \/ r.reader = "dropped" \/ r.life = "stopped"
  PROVE  ShellInv' /\ StopStep
<1>1. DOMAIN clusters = Known /\ \A d \in Known : IsCluster(clusters[d])
  BY DEF ShellInv, Shapes
<1>2. DOMAIN clusters' = Known /\ clusters'[c] = r
  BY <1>1
<1>3. \A d \in Known : d # c => clusters'[d] = clusters[d]
  BY <1>1
<1> QED
  BY <1>1, <1>2, <1>3, QuietStep

LEMMA ClusterStep ==
  ASSUME ShellInv, NEW c \in Known, ClusterSteps(c)
  PROVE  ShellInv' /\ StopStep
<1>1. /\ IsCluster(clusters[c]) /\ DOMAIN clusters = Known /\ IsRoot(root)
  BY DEF ShellInv, Shapes
<1>2. ASSUME NEW p \in Phases, Ping(c, p) PROVE ShellInv' /\ StopStep
  <2>1. clusters' = [clusters EXCEPT ![c] = Answered(Reports(clusters[c], p), p)]
    BY <1>1, <1>2 DEF Ping
  <2>2. SameRoot /\ SameWork
    BY <1>1, <1>2 DEF Ping, SameRoot, SameWork
  <2>3. /\ IsCluster(Reports(clusters[c], p))
        /\ Reports(clusters[c], p).on = clusters[c].on
        /\ Reports(clusters[c], p).life = clusters[c].life
        /\ Reports(clusters[c], p).reader = clusters[c].reader
    BY <1>1, ReportKeeps
  <2>4. PICK r : r = Answered(Reports(clusters[c], p), p)
    OBVIOUS
  <2>5. IsCluster(r) /\ r.on = clusters[c].on /\ r.life = clusters[c].life
        /\ r.reader = clusters[c].reader
    BY <2>3, <2>4 DEF Answered, IsCluster, ClusterFields
  <2>6. clusters' = [clusters EXCEPT ![c] = r]
    BY <2>1, <2>4
  <2> QED BY <2>2, <2>5, <2>6, QuietUpdate
<1>3. CASE Reaches(c)
  <2>1. PICK r : clusters' = [clusters EXCEPT ![c] = r] /\ r = [clusters[c] EXCEPT !.reached = TRUE]
    BY <1>1, <1>3 DEF Reaches
  <2>2. SameRoot /\ SameWork
    BY <1>1, <1>3 DEF Reaches, SameRoot, SameWork
  <2>3. IsCluster(r) /\ r.on = clusters[c].on /\ r.life = clusters[c].life
        /\ r.reader = clusters[c].reader
    BY <1>1, <2>1 DEF IsCluster, ClusterFields
  <2> QED BY <2>1, <2>2, <2>3, QuietUpdate
<1>4. CASE Changes(c)
  <2>1. PICK r : clusters' = [clusters EXCEPT ![c] = r] /\ r = [clusters[c] EXCEPT !.changed = TRUE]
    BY <1>1, <1>4 DEF Changes
  <2>2. SameRoot /\ SameWork
    BY <1>1, <1>4 DEF Changes, SameRoot, SameWork
  <2>3. IsCluster(r) /\ r.on = clusters[c].on /\ r.life = clusters[c].life
        /\ r.reader = clusters[c].reader
    BY <1>1, <2>1 DEF IsCluster, ClusterFields
  <2> QED BY <2>1, <2>2, <2>3, QuietUpdate
<1>5. CASE ReadsConn(c)
  <2> DEFINE r == [clusters[c] EXCEPT !.taken = Conn(Head(clusters[c].queue)),
                                      !.queue = Tail(clusters[c].queue)]
  <2>1. clusters' = [clusters EXCEPT ![c] = r]
    BY <1>1, <1>5 DEF ReadsConn, IsCluster, ClusterFields
  <2>2. SameRoot /\ SameWork
    BY <1>1, <1>5 DEF ReadsConn, SameRoot, SameWork
  <2>3. IsCluster(r) /\ r.on = clusters[c].on /\ r.life = clusters[c].life
        /\ r.reader = clusters[c].reader
    BY <1>1, <2>1 DEF IsCluster, ClusterFields
  <2> QED BY <2>1, <2>2, <2>3, QuietUpdate
<1>6. CASE ReadsEvent(c)
  <2>1. PICK r : /\ clusters' = [clusters EXCEPT ![c] = r]
                 /\ r = [clusters[c] EXCEPT !.taken = Event, !.changed = FALSE]
    BY <1>1, <1>6 DEF ReadsEvent
  <2>2. SameRoot /\ SameWork
    BY <1>1, <1>6 DEF ReadsEvent, SameRoot, SameWork
  <2>3. IsCluster(r) /\ r.on = clusters[c].on /\ r.life = clusters[c].life
        /\ r.reader = clusters[c].reader
    BY <1>1, <2>1 DEF IsCluster, ClusterFields
  <2> QED BY <2>1, <2>2, <2>3, QuietUpdate
<1>7. CASE DrainEnds(c)
  <2>1. PICK r : clusters' = [clusters EXCEPT ![c] = r] /\ r = [clusters[c] EXCEPT !.reader = "ended"]
    BY <1>1, <1>7 DEF DrainEnds
  <2>2. SameRoot /\ SameWork /\ clusters[c].life = "stopped"
    BY <1>1, <1>7 DEF DrainEnds, SameRoot, SameWork
  <2>3. IsCluster(r) /\ r.on = clusters[c].on /\ r.life = clusters[c].life
    BY <1>1, <2>1 DEF IsCluster, ClusterFields
  <2> QED BY <2>1, <2>2, <2>3, QuietUpdate
<1>8. CASE HandlesConn(c)
  <2>1. PICK r : clusters' = [clusters EXCEPT ![c] = r] /\ r = [clusters[c] EXCEPT !.taken = None]
    BY <1>1, <1>8 DEF HandlesConn, Handled
  <2>2. SameRoot /\ SameWork
    BY <1>1, <1>8 DEF HandlesConn, SameRoot, SameWork, IsRoot
  <2>3. IsCluster(r) /\ r.on = clusters[c].on /\ r.life = clusters[c].life
        /\ r.reader = clusters[c].reader
    BY <1>1, <2>1 DEF IsCluster, ClusterFields
  <2> QED BY <2>1, <2>2, <2>3, QuietUpdate
<1>9. CASE HandlesEvent(c)
  <2>1. PICK r : /\ clusters' = [clusters EXCEPT ![c] = r]
                 /\ IsCluster(r) /\ r.on = clusters[c].on /\ r.life = clusters[c].life
                 /\ r.reader \in {clusters[c].reader, "dropped"}
    <3> DEFINE h == [clusters[c] EXCEPT !.taken = None]
               d == [h EXCEPT !.reader = IF h.reader = "drain" THEN "dropped" ELSE h.reader]
    <3>1. Handled(c) = [clusters EXCEPT ![c] = h]
      BY <1>1 DEF Handled
    <3>2. NotRearmed(c) = [clusters EXCEPT ![c] = d]
      BY <1>1, <3>1 DEF NotRearmed
    <3>3. /\ IsCluster(h) /\ h.on = clusters[c].on /\ h.life = clusters[c].life
          /\ h.reader = clusters[c].reader
      BY <1>1 DEF IsCluster, ClusterFields
    <3>4. /\ IsCluster(d) /\ d.on = clusters[c].on /\ d.life = clusters[c].life
          /\ d.reader \in {clusters[c].reader, "dropped"}
      BY <3>3 DEF IsCluster, ClusterFields
    <3>5. clusters' = NotRearmed(c) \/ clusters' = Handled(c)
      BY <1>9 DEF HandlesEvent
    <3> HIDE DEF h, d
    <3> QED BY <3>1, <3>2, <3>3, <3>4, <3>5
  <2>2. SameRoot /\ SameWork
    BY <1>1, <1>9 DEF HandlesEvent, SameRoot, SameWork, IsRoot
  <2> QED BY <2>1, <2>2, QuietUpdate
<1> QED
  BY <1>2, <1>3, <1>4, <1>5, <1>6, <1>7, <1>8, <1>9 DEF ClusterSteps

-----------------------------------------------------------------------------
(* The running command: it is alone, and nothing has landed.               *)
Alone(o) ==
  /\ ops = {o} /\ IsOp(o) /\ o.token = gate.held /\ gate.held # 0
  /\ \A r \in results : r.token = 0 /\ r.kind # "replace" /\ ~(r.kind = "switched" /\ r.ok)

LEMMA CommandIsAlone ==
  ASSUME ShellInv, NEW o \in ops
  PROVE  Alone(o)
<1>1. Running
  BY DEF ShellInv, GateInv, Nobody, Landing
<1>2. ops = {o} /\ o.token = gate.held /\ gate.held # 0 /\ \A r \in results : r.token = 0
  BY <1>1 DEF Running
<1> QED
  BY <1>2 DEF ShellInv, Alone, Shapes, ResultsInv

LEMMA MoveKeeps ==
  ASSUME NEW o, IsOp(o), NEW at
  PROVE  LET p == [o EXCEPT !.at = at]
         IN  /\ IsOp(p) /\ p.at = at /\ p.fresh = o.fresh /\ p.kind = o.kind
             /\ p.token = o.token /\ p.to = o.to /\ p.from = o.from /\ p.cl = o.cl
BY DEF IsOp

LEMMA BuildKeeps ==
  ASSUME NEW o, IsOp(o), NEW at, NEW c
  PROVE  LET p == [o EXCEPT !.at = at, !.fresh = c]
         IN  /\ IsOp(p) /\ p.at = at /\ p.fresh = c /\ p.kind = o.kind
             /\ p.token = o.token /\ p.to = o.to /\ p.cl = o.cl
BY DEF IsOp

(* The command goes on as p.                                               *)
LEMMA MovedGate ==
  ASSUME NEW o, Alone(o), NEW p, ops' = (ops \ {o}) \cup {p}, p.token = o.token,
         gate' = gate, results' = results
  PROVE  GateInv' /\ ops' = {p}
BY DEF Alone, GateInv, Running

(* The command has ended in the message m.                                 *)
LEMMA LandedGate ==
  ASSUME NEW o, Alone(o), NEW m, ops' = ops \ {o}, results' = results \cup {m},
         m.token = o.token, gate' = gate
  PROVE  GateInv' /\ ops' = {}
BY DEF Alone, GateInv, Landing

(* What a Start does to the clusters, settled or not: at most the proof of *)
(* reach of one of them.                                                   *)
Kept ==
  /\ DOMAIN clusters' = Known
  /\ \A d \in Known : /\ IsCluster(clusters'[d])
                       /\ clusters'[d].on = clusters[d].on
                       /\ clusters'[d].life = clusters[d].life
                       /\ clusters'[d].reader = clusters[d].reader

LEMMA StartKeeps ==
  ASSUME Shapes, NEW c \in Known, Settles(c) \/ UNCHANGED clusters
  PROVE  Kept
BY DEF Shapes, IsCluster, ClusterFields, Settles, Kept

(* A switch that ends: only a sync that went through ends well, and a      *)
(* rollback that ends here could not enter the old context.                *)
LEMMA SwitchEnds ==
  ASSUME ShellInv, NEW o \in ops, o.kind = "switch", NEW ok \in BOOLEAN,
         SwitchLands(o, ok), Settles(o.cl) \/ UNCHANGED clusters, UNCHANGED <<gate, root>>,
         ok <=> o.at = "sync",
         strayed' = strayed \cup {o.cl} \/ (strayed' = strayed /\ o.at # "rollback")
  PROVE  ShellInv' /\ StopStep
<1> USE DEF Known, NoCluster
<1> DEFINE m == Switched(o.token, o.to, ok)
<1>1. Alone(o)
  BY CommandIsAlone
<1>2. /\ ops' = ops \ {o} /\ results' = results \cup {m}
      /\ m.token = o.token /\ m.kind = "switched" /\ m.to = o.to /\ m.ok = ok
  BY DEF SwitchLands, Switched
<1> HIDE DEF m
<1>3. GateInv' /\ ops' = {}
  BY <1>1, <1>2, LandedGate
<1>4. SwitchInv(o)
  BY DEF ShellInv, OpsInv
<1>5. Kept /\ root.cl \in Known
  <2>1. root.cl \in Known /\ o.cl = root.cl
    BY <1>4 DEF ShellInv, Shapes, SwitchInv
  <2> QED BY <2>1, StartKeeps DEF ShellInv
<1>6. Shapes' /\ OpsInv'
  BY <1>3, <1>5 DEF ShellInv, Shapes, OpsInv, Kept
<1>7. ResultsInv'
  BY <1>1, <1>2, <1>4, <1>5 DEF ShellInv, ResultsInv, Alone, SwitchInv, Ready, Kept
<1>8. LabelInv'
  BY <1>1, <1>2, <1>3, <1>4, <1>5 DEF ShellInv, LabelInv, Elsewhere, Alone, SwitchInv, Kept
<1>9. LifeInv' /\ DrainGoesOn' /\ StopStep
  BY <1>1, <1>2, <1>3, <1>5
     DEF ShellInv, LifeInv, Succeeded, Alone, DrainGoesOn, StopStep, Kept
<1> QED
  BY <1>3, <1>6, <1>7, <1>8, <1>9 DEF ShellInv

(* A switch that enters a context: the cluster it enters was running.      *)
LEMMA SwitchEnters ==
  ASSUME ShellInv, NEW o \in ops, o.kind = "switch", NEW ctx, NEW at,
         clusters' = [clusters EXCEPT ![o.cl] = Enters(clusters[o.cl], ctx)],
         ops' = (ops \ {o}) \cup {[o EXCEPT !.at = at]},
         UNCHANGED <<gate, results, root>>,
         \/ at = "sync" /\ ctx = o.to /\ strayed' = strayed
         \/ at = "resync" /\ ctx = o.from /\ strayed' = strayed \ {o.cl}
  PROVE  ShellInv' /\ StopStep
<1> USE DEF Known, NoCluster
<1> DEFINE p == [o EXCEPT !.at = at]
<1>1. Alone(o) /\ SwitchInv(o)
  BY CommandIsAlone DEF ShellInv, OpsInv
<1>2. /\ IsOp(p) /\ p.at = at /\ p.kind = "switch" /\ p.token = o.token
      /\ p.to = o.to /\ p.from = o.from /\ p.cl = o.cl
  BY <1>1, MoveKeeps DEF Alone
<1> HIDE DEF p
<1>3. GateInv' /\ ops' = {p}
  <2>1. ops' = (ops \ {o}) \cup {p}
    BY DEF p
  <2> QED BY <1>1, <1>2, <2>1, MovedGate
<1>4. root.cl \in Known /\ o.cl = root.cl
  BY <1>1 DEF SwitchInv, ShellInv, Shapes
<1>5. clusters[root.cl].life = "live"
  BY <1>1, <1>4 DEF ShellInv, LifeInv, Succeeded, Alone
<1>6. /\ DOMAIN clusters' = Known
      /\ IsCluster(clusters'[root.cl])
      /\ clusters'[root.cl].on = ctx /\ clusters'[root.cl].life = "live"
      /\ clusters'[root.cl].reader = clusters[root.cl].reader
      /\ \A d \in Known : d # root.cl => clusters'[d] = clusters[d]
  BY <1>4, EnterKeeps DEF ShellInv, Shapes
<1>7. Shapes'
  BY <1>2, <1>3, <1>6 DEF ShellInv, Shapes
<1>8. OpsInv'
  BY <1>1, <1>2, <1>3, <1>6 DEF OpsInv, SwitchInv
<1>9. ResultsInv'
  BY <1>1, <1>6 DEF ShellInv, ResultsInv, Alone
<1>10. LabelInv'
  BY <1>1, <1>2, <1>3, <1>6 DEF ShellInv, LabelInv, Elsewhere, Alone, SwitchInv
<1>11. LifeInv' /\ DrainGoesOn'
  BY <1>5, <1>6 DEF ShellInv, LifeInv, DrainGoesOn
<1>12. StopStep
  BY <1>5, <1>6 DEF StopStep
<1> QED
  BY <1>3, <1>7, <1>8, <1>9, <1>10, <1>11, <1>12 DEF ShellInv

LEMMA SwitchStep ==
  ASSUME ShellInv, NEW o \in ops,
         SwitchStarts(o) \/ SwitchSyncs(o) \/ SwitchRollsBack(o) \/ SwitchResyncs(o)
  PROVE  ShellInv' /\ StopStep
<1>1. Alone(o)
  BY CommandIsAlone
<1>2. CASE SwitchStarts(o)
  <2>1. CASE SwitchLands(o, FALSE) /\ UNCHANGED clusters
    BY <1>2, <2>1, SwitchEnds DEF SwitchStarts
  <2>2. CASE /\ clusters' = [clusters EXCEPT ![o.cl] = Enters(@, o.to)]
             /\ SwitchMoves(o) /\ UNCHANGED results
    BY <1>2, <2>2, SwitchEnters DEF SwitchStarts, SwitchMoves
  <2> QED BY <1>2, <2>1, <2>2 DEF SwitchStarts
<1>3. CASE SwitchSyncs(o)
  <2>1. CASE SwitchLands(o, TRUE) /\ Settles(o.cl)
    BY <1>3, <2>1, SwitchEnds DEF SwitchSyncs
  <2>2. CASE /\ ops' = (ops \ {o}) \cup {[o EXCEPT !.at = "rollback"]}
             /\ UNCHANGED <<clusters, results>>
    <3> DEFINE p == [o EXCEPT !.at = "rollback"]
    <3>1. UNCHANGED <<clusters, gate, root, strayed>> /\ o.kind = "switch" /\ o.at = "sync"
      BY <1>3, <2>2 DEF SwitchSyncs
    <3>2. /\ IsOp(p) /\ p.at = "rollback" /\ p.kind = o.kind /\ p.token = o.token
          /\ p.to = o.to /\ p.from = o.from /\ p.cl = o.cl
      BY <1>1, MoveKeeps DEF Alone
    <3> HIDE DEF p
    <3>3. ops' = (ops \ {o}) \cup {p} /\ gate' = gate /\ results' = results
      BY <2>2, <3>1 DEF p
    <3>4. GateInv' /\ ops' = {p}
      BY <1>1, <3>2, <3>3, MovedGate
    <3>5. Shapes' /\ ResultsInv'
      BY <3>1, <3>2, <3>3, <3>4 DEF ShellInv, Shapes, ResultsInv, Ready
    <3>6. OpsInv'
      BY <3>1, <3>2, <3>4 DEF ShellInv, OpsInv, SwitchInv
    <3>7. LabelInv' /\ DrainGoesOn'
      BY <3>1, <3>2, <3>4 DEF ShellInv, LabelInv, Elsewhere, DrainGoesOn
    <3>8. LifeInv'
      BY <1>1, <3>1, <3>2, <3>3, <3>4 DEF ShellInv, LifeInv, Succeeded, Alone
    <3> QED BY <3>1, <3>4, <3>5, <3>6, <3>7, <3>8 DEF ShellInv, StopStep
  <2> QED BY <1>3, <2>1, <2>2 DEF SwitchSyncs
<1>4. CASE SwitchRollsBack(o)
  <2>1. CASE SwitchLands(o, FALSE) /\ strayed' = strayed \cup {o.cl} /\ UNCHANGED clusters
    BY <1>4, <2>1, SwitchEnds DEF SwitchRollsBack
  <2>2. CASE /\ clusters' = [clusters EXCEPT ![o.cl] = Enters(@, o.from)]
             /\ ops' = (ops \ {o}) \cup {[o EXCEPT !.at = "resync"]}
             /\ strayed' = strayed \ {o.cl} /\ UNCHANGED results
    BY <1>4, <2>2, SwitchEnters DEF SwitchRollsBack
  <2> QED BY <1>4, <2>1, <2>2 DEF SwitchRollsBack
<1>5. CASE SwitchResyncs(o)
  BY <1>5, SwitchEnds DEF SwitchResyncs
<1> QED
  BY <1>2, <1>3, <1>4, <1>5

LEMMA RebuildStep ==
  ASSUME ShellInv, NEW o \in ops,
         RebuildBuilds(o) \/ RebuildStops(o) \/ RebuildStarts(o) \/ RebuildLands(o)
  PROVE  ShellInv' /\ StopStep
<1> USE DEF Known, NoCluster
<1>1. Alone(o) /\ o.kind = "rebuild" /\ RebuildInv(o)
  BY CommandIsAlone DEF ShellInv, OpsInv, RebuildBuilds, RebuildStops, RebuildStarts,
     RebuildLands
<1>2. UNCHANGED <<gate, root, strayed>>
  BY DEF RebuildBuilds, RebuildStops, RebuildStarts, RebuildLands
<1>3. IsRoot(root') /\ root'.cl = root.cl /\ root'.context = root.context
  BY <1>2 DEF ShellInv, Shapes
<1>4. ~(\E x \in ops : x.kind = "switch")
  BY <1>1 DEF Alone
<1>5. LabelInv => (root.cl \notin {NoCluster} \cup strayed
                     => clusters[root.cl].on = root.context)
  BY <1>1, <1>4 DEF LabelInv, Elsewhere, Alone
<1>6. CASE RebuildBuilds(o)
  <2>1. root.cl # NoCluster => clusters[root.cl].life = "live"
    BY <1>1, <1>6 DEF ShellInv, LifeInv, Succeeded, Alone, RebuildBuilds
  <2>2. CASE ops' = ops \ {o} /\ results' = results \cup {RebuildFailed(o.owner, o.token)}
             /\ UNCHANGED clusters
    <3> DEFINE m == RebuildFailed(o.owner, o.token)
    <3>1. m.token = o.token /\ m.kind = "failed"
      BY DEF RebuildFailed
    <3>2. results' = results \cup {m}
      BY <2>2
    <3> HIDE DEF m
    <3>3. GateInv' /\ ops' = {}
      BY <1>1, <1>2, <2>2, <3>1, <3>2, LandedGate
    <3>4. Shapes' /\ OpsInv'
      BY <1>2, <2>2, <3>3 DEF ShellInv, Shapes, OpsInv
    <3>5. ResultsInv'
      BY <1>2, <2>2, <3>1, <3>2 DEF ShellInv, ResultsInv, Ready
    <3>6. LabelInv' /\ LifeInv' /\ DrainGoesOn'
      BY <1>2, <1>5, <2>1, <2>2 DEF ShellInv, LabelInv, LifeInv, DrainGoesOn
    <3> QED BY <2>2, <3>3, <3>4, <3>5, <3>6 DEF ShellInv, StopStep
  <2>3. ASSUME NEW c \in NextCluster,
               clusters' = [clusters EXCEPT ![c] = NewCluster(o.to, "built", "none")],
               ops' = (ops \ {o}) \cup {[o EXCEPT !.at = "stop", !.fresh = c]},
               UNCHANGED results
        PROVE  ShellInv' /\ StopStep
    <3> DEFINE p == [o EXCEPT !.at = "stop", !.fresh = c]
    <3>0. IsOp(o)
      BY <1>1 DEF Alone
    <3>1. /\ IsOp(p) /\ p.at = "stop" /\ p.fresh = c /\ p.kind = "rebuild"
          /\ p.token = o.token /\ p.to = o.to /\ p.cl = o.cl
      BY <1>1, <3>0 DEF IsOp
    <3> HIDE DEF p
    <3>2. ops' = (ops \ {o}) \cup {p}
      BY <2>3 DEF p
    <3>3. GateInv' /\ ops' = {p}
      BY <1>1, <1>2, <2>3, <3>1, <3>2, MovedGate
    <3>4. c \in Known /\ clusters[c].life = "unborn" /\ c # root.cl
      BY <2>1 DEF NextCluster
    <3>5. /\ DOMAIN clusters' = Known /\ IsCluster(clusters'[c])
          /\ clusters'[c].on = o.to /\ clusters'[c].life = "built"
          /\ \A d \in Known : d # c => clusters'[d] = clusters[d]
      BY <2>3, <3>4, NewShape DEF ShellInv, Shapes
    <3>6. Shapes'
      BY <1>2, <3>1, <3>3, <3>5 DEF ShellInv, Shapes
    <3>7. OpsInv'
      BY <1>1, <1>3, <3>1, <3>3, <3>4, <3>5 DEF OpsInv, RebuildInv, Ready
    <3>8. ResultsInv'
      BY <1>1, <2>3 DEF ShellInv, ResultsInv, Alone
    <3>9. root.cl # NoCluster => root.cl \in Known /\ clusters'[root.cl] = clusters[root.cl]
      BY <3>4, <3>5 DEF ShellInv, Shapes
    <3>10. LabelInv' /\ LifeInv' /\ DrainGoesOn'
      BY <1>2, <1>5, <2>1, <3>9 DEF ShellInv, LabelInv, LifeInv, DrainGoesOn
    <3>11. StopStep
      BY <3>4, <3>5 DEF StopStep
    <3> QED BY <3>3, <3>6, <3>7, <3>8, <3>10, <3>11 DEF ShellInv
  <2> QED BY <1>6, <2>2, <2>3 DEF RebuildBuilds
<1>7. CASE RebuildStops(o) \/ RebuildStarts(o)
  <2> DEFINE at == IF o.at = "stop" THEN "start" ELSE "land"
             p == [o EXCEPT !.at = at]
  <2>1. /\ \/ o.at = "stop" /\ RebuildStops(o)
           \/ o.at = "start" /\ RebuildStarts(o)
        /\ results' = results
    BY <1>7 DEF RebuildStops, RebuildStarts
  <2>2. Ready(o.fresh, o.to, "built")
    BY <1>1, <2>1 DEF RebuildInv
  <2>3. ops' = (ops \ {o}) \cup {p}
    BY <2>1 DEF RebuildStops, RebuildStarts
  <2>4. /\ IsOp(p) /\ p.at = at /\ p.fresh = o.fresh /\ p.kind = "rebuild"
        /\ p.token = o.token /\ p.to = o.to /\ p.cl = o.cl
    BY <1>1, MoveKeeps DEF Alone
  <2> HIDE DEF p
  <2>5. GateInv' /\ ops' = {p}
    BY <1>1, <1>2, <2>1, <2>3, <2>4, MovedGate
  <2>6. root.cl # NoCluster => root.cl \in Known
    BY DEF ShellInv, Shapes
  <2>7. /\ DOMAIN clusters' = Known
        /\ \A d \in Known : /\ IsCluster(clusters'[d]) /\ clusters'[d].on = clusters[d].on
                            /\ clusters'[d].reader = clusters[d].reader
    <3>1. CASE RebuildStops(o)
      BY <3>1 DEF RebuildStops, ShellInv, Shapes, IsCluster, ClusterFields
    <3>2. CASE RebuildStarts(o)
      BY <3>2 DEF RebuildStarts, ShellInv, Shapes, IsCluster, ClusterFields
    <3> QED BY <2>1, <3>1, <3>2
  <2>8. /\ clusters'[o.fresh].life = IF o.at = "stop" THEN "built" ELSE "live"
        /\ o.at = "start" /\ root.cl # NoCluster
              => clusters'[root.cl].life = clusters[root.cl].life
        /\ o.at = "stop" /\ root.cl # NoCluster => clusters'[root.cl].life = "stopped"
        /\ StopStep
    <3>1. CASE o.at = "stop" /\ RebuildStops(o)
      <4>1. CASE o.cl = NoCluster
        BY <1>1, <2>2, <3>1, <4>1 DEF RebuildStops, Ready, RebuildInv, StopStep
      <4>2. CASE o.cl # NoCluster
        <5>1. o.cl = root.cl /\ o.cl \in Known /\ o.fresh \in Known /\ o.fresh # o.cl
          BY <1>1, <2>2, <2>6, <4>2 DEF Ready, RebuildInv
        <5>2. clusters' = [clusters EXCEPT ![o.cl].life = "stopped"]
          BY <3>1, <4>2 DEF RebuildStops
        <5>3. clusters'[o.cl].life = "stopped"
              /\ \A d \in Known : d # o.cl => clusters'[d] = clusters[d]
          BY <5>1, <5>2 DEF ShellInv, Shapes, IsCluster, ClusterFields
        <5> QED BY <2>2, <3>1, <5>1, <5>3 DEF Ready, StopStep
      <4> QED BY <4>1, <4>2
    <3>2. CASE o.at = "start" /\ RebuildStarts(o)
      <4>1. clusters' = [clusters EXCEPT ![o.fresh].life = "live"]
        BY <3>2 DEF RebuildStarts
      <4>2. clusters'[o.fresh].life = "live"
            /\ \A d \in Known : d # o.fresh => clusters'[d] = clusters[d]
        BY <2>2, <4>1 DEF ShellInv, Shapes, IsCluster, ClusterFields, Ready
      <4> QED BY <2>2, <2>6, <3>2, <4>2 DEF Ready, StopStep
    <3> QED BY <2>1, <3>1, <3>2
  <2>9. Shapes'
    BY <1>2, <2>4, <2>5, <2>7 DEF ShellInv, Shapes
  <2>10. OpsInv'
    BY <1>1, <1>3, <2>1, <2>2, <2>4, <2>5, <2>7, <2>8 DEF OpsInv, RebuildInv, Ready
  <2>11. ResultsInv'
    BY <1>1, <2>1 DEF ShellInv, ResultsInv, Alone
  <2>12. LabelInv'
    BY <1>2, <1>5, <2>6, <2>7 DEF ShellInv, LabelInv
  <2>13. LifeInv'
    BY <2>4, <2>5 DEF LifeInv, Succeeded
  <2>14. DrainGoesOn'
    BY <1>2, <2>1, <2>6, <2>7, <2>8 DEF ShellInv, DrainGoesOn
  <2> QED BY <2>5, <2>8, <2>9, <2>10, <2>11, <2>12, <2>13, <2>14 DEF ShellInv
<1>8. CASE RebuildLands(o)
  <2> DEFINE m == [kind |-> "replace", token |-> o.token, to |-> o.to, cl |-> o.fresh,
                   ok |-> TRUE, owner |-> 0]
  <2>1. /\ ops' = ops \ {o} /\ results' = results \cup {m}
        /\ Settles(o.fresh) \/ UNCHANGED clusters
        /\ m.token = o.token /\ m.kind = "replace" /\ m.to = o.to /\ m.cl = o.fresh
    BY <1>8 DEF RebuildLands
  <2> HIDE DEF m
  <2>2. Ready(o.fresh, o.to, "live")
    BY <1>1, <1>8 DEF RebuildInv, RebuildLands
  <2>3. GateInv' /\ ops' = {}
    BY <1>1, <1>2, <2>1, LandedGate
  <2>4. Kept /\ (root.cl # NoCluster => root.cl \in Known)
    BY <2>1, <2>2, StartKeeps DEF ShellInv, Shapes, Ready
  <2>5. Shapes' /\ OpsInv'
    BY <1>2, <2>3, <2>4 DEF ShellInv, Shapes, OpsInv, Kept
  <2>6. ResultsInv'
    BY <1>1, <1>2, <2>1, <2>2, <2>4 DEF ShellInv, ResultsInv, Ready, Alone, Kept
  <2>7. LabelInv' /\ LifeInv'
    BY <1>2, <1>5, <2>1, <2>4 DEF ShellInv, LabelInv, LifeInv, Succeeded, Kept
  <2>8. DrainGoesOn' /\ StopStep
    BY <1>2, <2>4 DEF ShellInv, DrainGoesOn, StopStep, Kept
  <2> QED BY <2>3, <2>5, <2>6, <2>7, <2>8 DEF ShellInv
<1> QED
  BY <1>6, <1>7, <1>8

-----------------------------------------------------------------------------
(* A handled message: what its token does to the gate.                     *)
LEMMA SettledGate ==
  ASSUME GateInv, gate.held \in Nat, DOMAIN gate = {"held", "last"}, NEW r \in results,
         results' = results \ {r}, ops' = ops, gate' = EndClusterRebuild(r.token)
  PROVE  /\ GateInv' /\ gate'.held \in Nat /\ gate'.last = gate.last
         /\ DOMAIN gate' = {"held", "last"}
         /\ r.token # 0 => ops = {} /\ \A q \in results' : q.token = 0
<1>1. CASE r.token = 0
  <2>1. gate' = gate
    BY <1>1 DEF EndClusterRebuild
  <2> QED BY <1>1, <2>1 DEF GateInv, Nobody, Running, Landing
<1>2. CASE r.token # 0
  <2>1. Landing
    BY <1>2 DEF GateInv, Nobody, Running
  <2>2. r.token = gate.held /\ \A q \in results : q.token # 0 => q = r
    BY <1>2, <2>1 DEF Landing
  <2>3. gate' = [gate EXCEPT !.held = 0]
    BY <1>2, <2>2 DEF EndClusterRebuild
  <2>4. Nobody'
    BY <2>1, <2>2, <2>3 DEF Nobody, Landing
  <2> QED BY <2>1, <2>2, <2>3, <2>4 DEF GateInv, Landing, Nobody
<1> QED BY <1>1, <1>2

LEMMA ResultStep ==
  ASSUME ShellInv, NEW r \in results, HandlesResult(r)
  PROVE  ShellInv' /\ StopStep
<1> USE DEF Known, NoCluster
<1>1. /\ ops' = ops /\ results' = results \ {r} /\ gate' = EndClusterRebuild(r.token)
  BY DEF HandlesResult, HandlesSwitched, HandlesReplaceRoot, HandlesFailed, Settled
<1>2. /\ GateInv' /\ gate'.held \in Nat /\ gate'.last \in Nat
      /\ DOMAIN gate' = {"held", "last"}
      /\ r.token # 0 => ops = {} /\ \A q \in results' : q.token = 0
  BY <1>1, SettledGate DEF ShellInv, Shapes
<1>3. ASSUME ~r.ok, r.kind # "replace", SameRoot, UNCHANGED <<clusters, strayed>>
      PROVE  ShellInv' /\ StopStep
  <2>1. Shapes' /\ OpsInv' /\ ResultsInv'
    BY <1>1, <1>2, <1>3 DEF ShellInv, Shapes, OpsInv, SwitchInv, RebuildInv, Ready,
       ResultsInv, SameRoot
  <2>2. LabelInv' /\ LifeInv' /\ DrainGoesOn'
    BY <1>1, <1>3 DEF ShellInv, LabelInv, Elsewhere, LifeInv, Succeeded, DrainGoesOn, SameRoot
  <2> QED BY <1>2, <1>3, <2>1, <2>2 DEF ShellInv, StopStep
<1>4. CASE HandlesFailed(r)
  <2>1. UNCHANGED <<clusters, root, strayed>> /\ r.kind = "failed"
    BY <1>4 DEF HandlesFailed
  <2>2. Shapes' /\ OpsInv' /\ ResultsInv'
    BY <1>1, <1>2, <2>1 DEF ShellInv, Shapes, OpsInv, SwitchInv, RebuildInv, Ready, ResultsInv
  <2>3. LabelInv' /\ LifeInv' /\ DrainGoesOn'
    BY <1>1, <2>1 DEF ShellInv, LabelInv, Elsewhere, LifeInv, Succeeded, DrainGoesOn
  <2> QED BY <1>2, <2>1, <2>2, <2>3 DEF ShellInv, StopStep
<1>5. CASE HandlesSwitched(r)
  <2>1. CASE ~r.ok
    <3>1. SameRoot /\ UNCHANGED <<clusters, strayed>> /\ r.kind # "replace"
      BY <1>5, <2>1 DEF HandlesSwitched, SameRoot, ShellInv, Shapes, IsRoot
    <3> QED BY <1>3, <2>1, <3>1
  <2>2. CASE r.ok
    <3>1. /\ r.token # 0 /\ root.cl # NoCluster /\ clusters[root.cl].on = r.to
      BY <1>5, <2>2 DEF HandlesSwitched, ShellInv, ResultsInv
    <3>2. /\ IsRoot(root') /\ root'.cl = root.cl /\ root'.context = r.to
          /\ clusters' = clusters /\ strayed' = strayed \ {root.cl}
      BY <1>5, <2>2 DEF HandlesSwitched, ShellInv, Shapes, IsRoot
    <3>3. ops' = {} /\ \A q \in results' : q.token = 0
      BY <1>1, <1>2, <3>1
    <3>4. Shapes' /\ OpsInv' /\ ResultsInv'
      BY <1>1, <1>2, <3>2, <3>3 DEF ShellInv, Shapes, OpsInv, ResultsInv
    <3>5. LabelInv'
      BY <3>1, <3>2 DEF LabelInv
    <3>6. LifeInv' /\ DrainGoesOn'
      <4>1. ~Succeeded
        BY <1>1, <1>5, <3>1, <3>3 DEF Succeeded, ShellInv, ResultsInv, HandlesSwitched
      <4> QED BY <3>2, <4>1 DEF ShellInv, LifeInv, DrainGoesOn
    <3> QED BY <1>2, <3>2, <3>4, <3>5, <3>6 DEF ShellInv, StopStep
  <2> QED BY <2>1, <2>2
<1>6. CASE HandlesReplaceRoot(r)
  <2>1. r.token # 0 /\ Ready(r.cl, r.to, "live")
    BY <1>6 DEF HandlesReplaceRoot, ShellInv, ResultsInv
  <2>2. /\ IsRoot(root') /\ root'.cl = r.cl /\ root'.context = r.to /\ strayed' = strayed
        /\ clusters' = [clusters EXCEPT ![r.cl].reader = "drain"]
    BY <1>6 DEF HandlesReplaceRoot, ReplacedRoot, Watched, ShellInv, Shapes, IsRoot
  <2>3. /\ DOMAIN clusters' = Known
        /\ \A d \in Known : /\ IsCluster(clusters'[d]) /\ clusters'[d].on = clusters[d].on
                            /\ clusters'[d].life = clusters[d].life
    BY <2>2 DEF ShellInv, Shapes, IsCluster, ClusterFields
  <2>4. clusters'[r.cl].reader = "drain"
    BY <2>1, <2>2 DEF Ready, ShellInv, Shapes, IsCluster, ClusterFields
  <2>5. ops' = {} /\ \A q \in results' : q.token = 0
    BY <1>1, <1>2, <2>1
  <2>6. Shapes' /\ OpsInv' /\ ResultsInv'
    BY <1>1, <1>2, <2>1, <2>2, <2>3, <2>5 DEF ShellInv, Shapes, OpsInv, ResultsInv, Ready
  <2>7. LabelInv' /\ LifeInv' /\ DrainGoesOn'
    BY <2>1, <2>2, <2>3, <2>4 DEF LabelInv, LifeInv, DrainGoesOn, Ready
  <2> QED BY <1>2, <2>3, <2>6, <2>7 DEF ShellInv, StopStep
<1> QED
  BY <1>4, <1>5, <1>6 DEF HandlesResult

-----------------------------------------------------------------------------
(* A command begins: nobody held the gate.                                 *)
LEMMA Begins ==
  ASSUME ShellInv, GateOpen, NEW o, IsOp(o), o.token = gate.last + 1,
         o.cl = root.cl,
         \/ /\ o.kind = "switch" /\ o.at = "client" /\ o.from = root.context
            /\ root.cl # NoCluster
         \/ o.kind = "rebuild" /\ o.at = "build",
         ops' = ops \cup {o}, gate' = BeginClusterRebuild,
         SameRoot, UNCHANGED <<clusters, results, strayed>>
  PROVE  ShellInv' /\ StopStep
<1> USE DEF Known, NoCluster, SameRoot
<1>1. gate.last \in Nat
  BY DEF ShellInv, Shapes
<1>2. Nobody
  BY DEF ShellInv, GateInv, Running, Landing, GateOpen
<1>3. ops' = {o} /\ gate'.held = gate.last + 1 /\ gate'.last = gate.last + 1
      /\ DOMAIN gate' = {"held", "last"}
  BY <1>2 DEF Nobody, BeginClusterRebuild
<1>4. GateInv'
  BY <1>1, <1>2, <1>3 DEF GateInv, Running, Nobody
<1>5. Shapes'
  BY <1>1, <1>3 DEF ShellInv, Shapes
<1>6. OpsInv' /\ ResultsInv'
  BY <1>3 DEF ShellInv, OpsInv, SwitchInv, RebuildInv, ResultsInv, Ready
<1>7. LabelInv' /\ LifeInv' /\ DrainGoesOn'
  BY <1>2, <1>3 DEF ShellInv, LabelInv, Elsewhere, LifeInv, Succeeded, Nobody, DrainGoesOn
<1> QED
  BY <1>4, <1>5, <1>6, <1>7 DEF ShellInv, StopStep

(* A refused attempt's own message carries no token.                       *)
LEMMA Refused ==
  ASSUME ShellInv, NEW m, m.token = 0, m.kind \in {"switched", "failed"}, ~m.ok,
         results' = results \cup {m}, SameRoot, UNCHANGED <<clusters, gate, ops, strayed>>
  PROVE  ShellInv' /\ StopStep
<1> USE DEF Known, NoCluster, SameRoot
<1>1. GateInv'
  <2>1. CASE Nobody
    BY <2>1 DEF GateInv, Nobody
  <2>2. CASE Running
    BY <2>2 DEF GateInv, Running
  <2>3. CASE Landing
    BY <2>3 DEF GateInv, Landing
  <2> QED BY <2>1, <2>2, <2>3 DEF ShellInv, GateInv
<1>2. Shapes' /\ OpsInv'
  BY DEF ShellInv, Shapes, OpsInv, SwitchInv, RebuildInv, Ready
<1>3. ResultsInv'
  BY DEF ShellInv, ResultsInv, Ready
<1>4. LabelInv' /\ LifeInv' /\ DrainGoesOn'
  BY DEF ShellInv, LabelInv, Elsewhere, LifeInv, Succeeded, DrainGoesOn
<1> QED
  BY <1>1, <1>2, <1>3, <1>4 DEF ShellInv, StopStep

(* A step of the screens alone.                                            *)
LEMMA StillStep ==
  ASSUME ShellInv, UNCHANGED <<clusters, gate, ops, results, root, strayed>>
  PROVE  ShellInv' /\ StopStep
<1> SameRoot /\ SameWork
  BY DEF ShellInv, Shapes, SameRoot, SameWork
<1> QED
  BY QuietStep DEF ShellInv, Shapes

LEMMA UserStep ==
  ASSUME ShellInv, UserSteps
  PROVE  ShellInv' /\ StopStep
<1>1. IsRoot(root)
  BY DEF ShellInv, Shapes
<1>2. ASSUME NEW to \in Contexts, PicksContext(to)
      PROVE  SameRoot /\ root.cl # NoCluster
  BY <1>1, <1>2 DEF PicksContext, SameRoot, IsRoot
<1>3. ASSUME NEW to \in Contexts, SwitchBegins(to) PROVE ShellInv' /\ StopStep
  <2> DEFINE o == Switch(gate.last + 1, to)
  <2>1. /\ IsOp(o) /\ o.token = gate.last + 1 /\ o.cl = root.cl /\ o.kind = "switch"
        /\ o.at = "client" /\ o.from = root.context
    BY DEF Switch, IsOp
  <2>2. /\ GateOpen /\ ops' = ops \cup {o} /\ gate' = BeginClusterRebuild
        /\ UNCHANGED <<clusters, results, strayed>> /\ SameRoot /\ root.cl # NoCluster
    BY <1>2, <1>3 DEF SwitchBegins
  <2> HIDE DEF o
  <2> QED BY <2>1, <2>2, Begins
<1>4. ASSUME NEW to \in Contexts, SwitchRefused(to) PROVE ShellInv' /\ StopStep
  <2> DEFINE m == Switched(0, to, FALSE)
  <2>1. m.token = 0 /\ m.kind = "switched" /\ ~m.ok
    BY DEF Switched
  <2>2. /\ results' = results \cup {m} /\ UNCHANGED <<clusters, gate, ops, strayed>>
        /\ SameRoot
    BY <1>2, <1>4 DEF SwitchRefused
  <2> HIDE DEF m
  <2> QED BY <2>1, <2>2, Refused
<1>5. ASSUME NEW to \in Contexts, RebuildBegins(to) PROVE ShellInv' /\ StopStep
  <2> DEFINE o == Rebuild(gate.last + 1, to)
  <2>1. /\ IsOp(o) /\ o.token = gate.last + 1 /\ o.cl = root.cl /\ o.kind = "rebuild"
        /\ o.at = "build"
    BY DEF Rebuild, IsOp
  <2>2. /\ GateOpen /\ ops' = ops \cup {o} /\ gate' = BeginClusterRebuild
        /\ UNCHANGED <<clusters, results, strayed>> /\ SameRoot
    BY <1>1, <1>5 DEF RebuildBegins, SameRoot
  <2> HIDE DEF o
  <2> QED BY <2>1, <2>2, Begins
<1>6. CASE RebuildRefused
  <2> DEFINE m == RebuildFailed(ui.task.id, 0)
  <2>1. m.token = 0 /\ m.kind = "failed" /\ ~m.ok
    BY DEF RebuildFailed
  <2>2. /\ results' = results \cup {m} /\ UNCHANGED <<clusters, gate, ops, strayed>>
        /\ SameRoot
    BY <1>1, <1>6 DEF RebuildRefused, SameRoot
  <2> HIDE DEF m
  <2> QED BY <2>1, <2>2, Refused
<1>7. CASE (\E kind \in {"detail", "transient"} : Opens(kind))
           \/ Loads \/ Jumps \/ ShowsUpdate \/ GoesBack
  BY <1>7, StillStep DEF Opens, Loads, Jumps, ShowsUpdate, GoesBack, Navigates
<1> QED
  BY <1>3, <1>4, <1>5, <1>6, <1>7 DEF UserSteps

LEMMA StepInv == ShellInv /\ [Next]_vars => ShellInv' /\ StopStep
<1> SUFFICES ASSUME ShellInv, [Next]_vars PROVE ShellInv' /\ StopStep
  OBVIOUS
<1>1. CASE \E c \in Known : ClusterSteps(c)
  BY <1>1, ClusterStep
<1>2. CASE \E o \in ops : CommandSteps(o)
  BY <1>2, SwitchStep, RebuildStep DEF CommandSteps
<1>3. CASE \E r \in results : HandlesResult(r)
  BY <1>3, ResultStep
<1>4. CASE \E om \in ui.flight : HandlesOwned(om)
  BY <1>4, StillStep DEF HandlesOwned, Navigates
<1>5. CASE UserSteps
  BY <1>5, UserStep
<1>6. CASE UNCHANGED vars
  BY <1>6, StillStep DEF vars
<1> QED
  BY <1>1, <1>2, <1>3, <1>4, <1>5, <1>6 DEF Next

(* The gate, the commands and the clusters keep their relations in every   *)
(* reachable state.                                                        *)
THEOREM ShellInvariant == Spec => []ShellInv
<1>1. ShellInv /\ [Next]_vars => ShellInv'
  BY StepInv
<1> QED
  BY InitInv, <1>1, PTL DEF Spec

(* However many contexts, clusters and attempts: at most one switch or     *)
(* rebuild runs, and the gate is held exactly while it is under way.       *)
THEOREM OneRebuildAtATime == Spec => []OneRebuild
<1>1. ShellInv => OneRebuild
  <2> SUFFICES ASSUME ShellInv PROVE OneRebuild
    OBVIOUS
  <2>1. CASE Nobody
    BY <2>1, FS_EmptySet DEF Nobody, OneRebuild, Holders
  <2>2. CASE Running
    <3>1. PICK o \in ops : ops = {o} /\ o.token = gate.held
      BY <2>2 DEF Running
    <3>2. Cardinality(ops) = 1
      BY <3>1, FS_Singleton
    <3>3. Holders \ {0} = {gate.held} \ {0}
      BY <2>2, <3>1 DEF Running, Holders
    <3> QED BY <3>2, <3>3 DEF OneRebuild
  <2>3. CASE Landing
    <3>1. Cardinality(ops) = 0
      BY <2>3, FS_EmptySet DEF Landing
    <3>2. Holders \ {0} = {gate.held} \ {0}
      BY <2>3 DEF Landing, Holders
    <3> QED BY <3>1, <3>2 DEF OneRebuild
  <2> QED BY <2>1, <2>2, <2>3 DEF ShellInv, GateInv
<1> QED
  BY ShellInvariant, <1>1, PTL

(* With the gate open, Location names the context the session's cluster is *)
(* connected to and that cluster runs, whatever switches, rollbacks,       *)
(* refusals and rebuilds came before.                                      *)
THEOREM LabelStaysTrue == Spec => []LabelIsTruth
<1>1. ShellInv => LabelIsTruth
  <2> SUFFICES ASSUME ShellInv, gate.held = 0, root.cl \notin {NoCluster} \cup strayed
               PROVE  clusters[root.cl].life = "live" /\ clusters[root.cl].on = root.context
    BY DEF LabelIsTruth
  <2>1. Nobody
    BY DEF ShellInv, GateInv, Running, Landing
  <2>2. ~Elsewhere /\ ~Succeeded
    BY <2>1 DEF Nobody, Elsewhere, Succeeded, ShellInv, ResultsInv
  <2> QED
    BY <2>2 DEF ShellInv, LabelInv, LifeInv
<1> QED
  BY ShellInvariant, <1>1, PTL

(* The session's running cluster always has a reader, but for the drain a  *)
(* swallowed event ended.                                                  *)
THEOREM DrainsGoOn == Spec => []DrainGoesOn
<1>1. ShellInv => DrainGoesOn
  BY DEF ShellInv
<1> QED
  BY ShellInvariant, <1>1, PTL

(* No step sets a stopped cluster going again.                             *)
THEOREM StopIsTerminal == Spec => StoppedStaysStopped
<1>1. ShellInv /\ [Next]_vars
        => [\A c \in Known : clusters[c].life = "stopped"
                             => clusters'[c].life = "stopped"]_vars
  BY StepInv DEF StopStep
<1> QED
  BY ShellInvariant, <1>1, PTL DEF Spec, StoppedStaysStopped

-----------------------------------------------------------------------------
(* The types of everything but the screens.                                *)
Typed ==
  /\ clusters \in [Known -> ClusterRecs]
  /\ gate \in [held : Nat, last : Nat]
  /\ \A o \in ops : o \in OpRecs
  /\ \A r \in results : r \in ResultRecs
  /\ root \in [cl : 0..Clusters, context : Contexts, switching : BOOLEAN,
               neverConnected : BOOLEAN, showingSetup : BOOLEAN]
  /\ strayed \subseteq Known

Queues == UNION {[1..n -> Phases] : n \in 0..ConnBuffer}

LEMMA QueuesAre ==
  /\ \A q \in Queues : q \in Seq(Phases) /\ Len(q) \in 0..ConnBuffer
  /\ \A q \in Seq(Phases) : Len(q) <= ConnBuffer => q \in Queues
  /\ ConnBuffer \in Nat \ {0}
<1>1. ConnBuffer \in Nat \ {0} BY ShellAssumption
<1>2. ASSUME NEW q \in Queues PROVE q \in Seq(Phases) /\ Len(q) \in 0..ConnBuffer
  <2>1. PICK n \in 0..ConnBuffer : q \in [1..n -> Phases] BY DEF Queues
  <2>2. n \in Nat BY <1>1, <2>1
  <2> QED BY <2>1, <2>2
<1>3. ASSUME NEW q \in Seq(Phases), Len(q) <= ConnBuffer PROVE q \in Queues
  <2>1. Len(q) \in 0..ConnBuffer /\ q \in [1..Len(q) -> Phases] BY <1>1, <1>3
  <2> QED BY <2>1 DEF Queues
<1> QED BY <1>1, <1>2, <1>3

LEMMA MessageKinds ==
  /\ None \in Messages /\ Event \in Messages /\ \A p \in Phases : Conn(p) \in Messages
  /\ \A m \in Messages : m.what = "conn" => m.phase \in Phases
<1>1. None \in Messages /\ Event \in Messages /\ \A p \in Phases : Conn(p) \in Messages
  BY DEF Messages
<1>2. ASSUME NEW m \in Messages, m.what = "conn" PROVE m.phase \in Phases
  <2>1. m # None /\ m # Event BY <1>2 DEF None, Event
  <2>2. PICK p \in Phases : m = Conn(p) BY <2>1 DEF Messages
  <2> QED BY <2>2 DEF Conn
<1> QED BY <1>1, <1>2

LEMMA ReportsTyped ==
  ASSUME NEW r \in ClusterRecs, NEW p \in Phases
  PROVE  Reports(r, p) \in ClusterRecs
<1>1. r.queue \in Queues BY DEF ClusterRecs, Queues
<1>2. PICK q : q = Append(IF Len(r.queue) < ConnBuffer THEN r.queue ELSE Tail(r.queue), p)
  OBVIOUS
<1>3. r.queue \in Seq(Phases) /\ Len(r.queue) \in 0..ConnBuffer /\ ConnBuffer \in Nat \ {0}
  BY <1>1, QueuesAre
<1>4. q \in Seq(Phases) /\ Len(q) <= ConnBuffer
  <2>1. CASE Len(r.queue) < ConnBuffer BY <1>2, <1>3, <2>1
  <2>2. CASE ~(Len(r.queue) < ConnBuffer)
    <3>1. \A s \in Seq(Phases) : Len(s) = 0 => s = <<>> OBVIOUS
    <3>2. r.queue # <<>> BY <1>3, <2>2
    <3>3. Tail(r.queue) \in Seq(Phases) /\ Len(Tail(r.queue)) = Len(r.queue) - 1
      BY <1>3, <3>2
    <3> QED BY <1>2, <1>3, <2>2, <3>3
  <2> QED BY <2>1, <2>2
<1>5. q \in Queues BY <1>4, QueuesAre
<1>6. Reports(r, p) = [r EXCEPT !.phase = p, !.queue = q]
  BY <1>2 DEF Reports, ClusterRecs
<1> QED BY <1>5, <1>6 DEF ClusterRecs, Queues

LEMMA EntersTyped ==
  ASSUME NEW r \in ClusterRecs, NEW ctx \in Contexts
  PROVE  Enters(r, ctx) \in ClusterRecs
<1>1. Reports(r, Connected) \in ClusterRecs BY ReportsTyped DEF Phases
<1> QED BY <1>1 DEF Enters, ClusterRecs

LEMMA NewTyped ==
  ASSUME NEW ctx \in Contexts, NEW life \in {"unborn", "built", "live", "stopped"},
         NEW reader \in Readers
  PROVE  NewCluster(ctx, life, reader) \in ClusterRecs
<1>1. PICK q \in Queues : q = <<>>
  <2>0. <<>> \in Seq(Phases) /\ Len(<<>>) = 0 OBVIOUS
  <2>1. PICK s \in Seq(Phases) : s = <<>> /\ Len(s) = 0 BY <2>0, Zenon
  <2>2. Len(s) <= ConnBuffer BY <2>1, QueuesAre
  <2> QED BY <2>1, <2>2, QueuesAre
<1>2. None \in Messages BY MessageKinds
<1>3. Connected \in Phases BY DEF Phases
<1>4. NewCluster(ctx, life, reader)
        = [on |-> ctx, life |-> life, phase |-> Connected, queue |-> q, reached |-> FALSE,
           changed |-> FALSE, reader |-> reader, taken |-> None]
  BY <1>1 DEF NewCluster
<1> QED BY <1>1, <1>2, <1>3, <1>4 DEF ClusterRecs, Queues

LEMMA InitTyped == Init => Typed
<1> SUFFICES ASSUME Init PROVE Typed OBVIOUS
<1>1. PICK s \in Sessions :
        /\ clusters = [c \in Known |-> IF s.launched /\ c = 1
                                      THEN NewCluster(LaunchContext, "live", "bridge")
                                      ELSE Unborn]
        /\ root = [cl |-> IF s.launched THEN 1 ELSE NoCluster, context |-> LaunchContext,
                   switching |-> FALSE, neverConnected |-> s.launched, showingSetup |-> FALSE]
  BY DEF Init
<1>2. LaunchContext \in Contexts /\ s.launched \in BOOLEAN /\ Clusters \in Nat \ {0}
  BY ShellAssumption
<1>3. /\ NewCluster(LaunchContext, "live", "bridge") \in ClusterRecs
      /\ Unborn \in ClusterRecs
  BY <1>2, NewTyped DEF Readers, Unborn
<1>4. clusters \in [Known -> ClusterRecs] BY <1>1, <1>3
<1>5. /\ gate \in [held : Nat, last : Nat] /\ ops = {} /\ results = {} /\ strayed = {}
  BY DEF Init
<1>6. root.cl \in 0..Clusters BY <1>1, <1>2 DEF NoCluster
<1>7. root \in [cl : 0..Clusters, context : Contexts, switching : BOOLEAN,
                neverConnected : BOOLEAN, showingSetup : BOOLEAN]
  BY <1>1, <1>2 DEF NoCluster
<1> QED BY <1>4, <1>5, <1>7 DEF Typed

-----------------------------------------------------------------------------
LEMMA ClusterTyped ==
  ASSUME Typed, NEW c \in Known, ClusterSteps(c)
  PROVE  Typed'
<1>1. /\ clusters \in [Known -> ClusterRecs] /\ clusters[c] \in ClusterRecs
      /\ gate \in [held : Nat, last : Nat] /\ (\A o \in ops : o \in OpRecs)
      /\ (\A r \in results : r \in ResultRecs) /\ strayed \subseteq Known
      /\ root \in [cl : 0..Clusters, context : Contexts, switching : BOOLEAN,
                   neverConnected : BOOLEAN, showingSetup : BOOLEAN]
  BY DEF Typed
<1>2. ASSUME NEW r \in ClusterRecs, clusters' = [clusters EXCEPT ![c] = r],
             UNCHANGED <<gate, ops, results, strayed>>,
             root' \in [cl : 0..Clusters, context : Contexts, switching : BOOLEAN,
                        neverConnected : BOOLEAN, showingSetup : BOOLEAN]
      PROVE  Typed'
  BY <1>1, <1>2 DEF Typed
<1>3. ASSUME NEW p \in Phases, Ping(c, p) PROVE Typed'
  <2>1. PICK r : r = Answered(Reports(clusters[c], p), p) OBVIOUS
  <2>2. Reports(clusters[c], p) \in ClusterRecs BY <1>1, ReportsTyped
  <2>3. r \in ClusterRecs
    <3>1. PICK q : q = Reports(clusters[c], p) OBVIOUS
    <3>2. r = [q EXCEPT !.reached = q.reached \/ p = Connected]
      BY <2>1, <3>1 DEF Answered
    <3>3. q \in ClusterRecs /\ (q.reached \/ p = Connected) \in BOOLEAN
      BY <2>2, <3>1 DEF ClusterRecs
    <3> QED BY <3>2, <3>3 DEF ClusterRecs
  <2>4. clusters' = [clusters EXCEPT ![c] = r] BY <1>1, <1>3, <2>1 DEF Ping
  <2> QED BY <1>1, <1>2, <1>3, <2>3, <2>4 DEF Ping
<1>4. CASE Reaches(c)
  <2>1. PICK r : r = [clusters[c] EXCEPT !.reached = TRUE] OBVIOUS
  <2>2. r \in ClusterRecs BY <1>1, <2>1 DEF ClusterRecs
  <2>3. clusters' = [clusters EXCEPT ![c] = r] BY <1>1, <1>4, <2>1 DEF Reaches
  <2> QED BY <1>1, <1>2, <1>4, <2>2, <2>3 DEF Reaches
<1>5. CASE Changes(c)
  <2>1. PICK r : r = [clusters[c] EXCEPT !.changed = TRUE] OBVIOUS
  <2>2. r \in ClusterRecs BY <1>1, <2>1 DEF ClusterRecs
  <2>3. clusters' = [clusters EXCEPT ![c] = r] BY <1>1, <1>5, <2>1 DEF Changes
  <2> QED BY <1>1, <1>2, <1>5, <2>2, <2>3 DEF Changes
<1>6. CASE ReadsConn(c)
  <2>1. PICK r, q : /\ q = Tail(clusters[c].queue)
                    /\ r = [clusters[c] EXCEPT !.taken = Conn(Head(clusters[c].queue)),
                                               !.queue = q]
    OBVIOUS
  <2>2. /\ clusters[c].queue \in Seq(Phases) /\ Len(clusters[c].queue) \in 0..ConnBuffer
        /\ clusters[c].queue # <<>> /\ ConnBuffer \in Nat
    <3>1. clusters[c].queue \in Queues BY <1>1 DEF ClusterRecs, Queues
    <3> QED BY <1>6, <3>1, QueuesAre DEF ReadsConn
  <2>3. q \in Seq(Phases) /\ Len(q) <= ConnBuffer /\ Head(clusters[c].queue) \in Phases
    BY <2>1, <2>2
  <2>4. q \in Queues /\ Conn(Head(clusters[c].queue)) \in Messages
    BY <2>3, QueuesAre, MessageKinds
  <2>5. r \in ClusterRecs BY <1>1, <2>1, <2>4 DEF ClusterRecs, Queues
  <2>6. clusters' = [clusters EXCEPT ![c] = r]
    BY <1>1, <1>6, <2>1 DEF ReadsConn, ClusterRecs
  <2> QED BY <1>1, <1>2, <1>6, <2>5, <2>6 DEF ReadsConn
<1>7. CASE ReadsEvent(c)
  <2>1. PICK r : r = [clusters[c] EXCEPT !.taken = Event, !.changed = FALSE] OBVIOUS
  <2>2. r \in ClusterRecs BY <1>1, <2>1, MessageKinds DEF ClusterRecs
  <2>3. clusters' = [clusters EXCEPT ![c] = r] BY <1>1, <1>7, <2>1 DEF ReadsEvent
  <2> QED BY <1>1, <1>2, <1>7, <2>2, <2>3 DEF ReadsEvent
<1>8. CASE DrainEnds(c)
  <2>1. PICK r : r = [clusters[c] EXCEPT !.reader = "ended"] OBVIOUS
  <2>2. r \in ClusterRecs BY <1>1, <2>1 DEF ClusterRecs, Readers
  <2>3. clusters' = [clusters EXCEPT ![c] = r] BY <1>1, <1>8, <2>1 DEF DrainEnds
  <2> QED BY <1>1, <1>2, <1>8, <2>2, <2>3 DEF DrainEnds
<1>9. [clusters[c] EXCEPT !.taken = None] \in ClusterRecs
  BY <1>1, MessageKinds DEF ClusterRecs
<1>10. CASE HandlesConn(c)
  <2>1. PICK r : r = [clusters[c] EXCEPT !.taken = None] OBVIOUS
  <2>2. clusters' = [clusters EXCEPT ![c] = r] BY <1>1, <1>10, <2>1 DEF HandlesConn, Handled
  <2>3. PICK n, s \in BOOLEAN :
          root' = [root EXCEPT !.neverConnected = n, !.showingSetup = s]
    <3>1. PICK p : p = clusters[c].taken.phase OBVIOUS
    <3>2. PICK n : n = (NeverConnected /\ p # Connected) OBVIOUS
    <3>3. PICK s : s = ((root.showingSetup /\ ~LeavesSetup(p)) \/ ShowsSetup(p)) OBVIOUS
    <3>4. n \in BOOLEAN BY <3>2, Zenon
    <3>5. s \in BOOLEAN BY <3>3, Zenon
    <3>6. root' = [root EXCEPT !.neverConnected = n, !.showingSetup = s]
      BY <1>1, <1>10, <3>1, <3>2, <3>3 DEF HandlesConn
    <3> QED BY <3>4, <3>5, <3>6
  <2>4. root' \in [cl : 0..Clusters, context : Contexts, switching : BOOLEAN,
                   neverConnected : BOOLEAN, showingSetup : BOOLEAN]
    BY <1>1, <2>3
  <2>5. UNCHANGED <<gate, ops, results, strayed>> BY <1>10 DEF HandlesConn
  <2> QED BY <1>2, <1>9, <2>1, <2>2, <2>4, <2>5
<1>11. CASE HandlesEvent(c)
  <2>1. PICK h, r : /\ h = [clusters[c] EXCEPT !.taken = None]
                    /\ r = [h EXCEPT !.reader = IF h.reader = "drain" THEN "dropped" ELSE h.reader]
    OBVIOUS
  <2>2. h \in ClusterRecs /\ r \in ClusterRecs
    <3>1. h \in ClusterRecs BY <1>9, <2>1
    <3>2. h.reader \in Readers /\ "dropped" \in Readers BY <3>1 DEF ClusterRecs, Readers
    <3> QED BY <2>1, <3>1, <3>2 DEF ClusterRecs
  <2>3. Handled(c) = [clusters EXCEPT ![c] = h] BY <1>1, <2>1 DEF Handled
  <2>4. NotRearmed(c) = [clusters EXCEPT ![c] = r]
    <3>1. PICK f : f = [clusters EXCEPT ![c] = h] OBVIOUS
    <3>2. f[c] = h BY <1>1, <3>1
    <3>3. NotRearmed(c) = [f EXCEPT ![c].reader = IF @ = "drain" THEN "dropped" ELSE @]
      BY <2>3, <3>1 DEF NotRearmed
    <3>4. NotRearmed(c) = [f EXCEPT ![c] = r] BY <2>1, <3>2, <3>3
    <3> QED BY <1>1, <3>1, <3>4
  <2>5. clusters' = [clusters EXCEPT ![c] = h] \/ clusters' = [clusters EXCEPT ![c] = r]
    BY <1>11, <2>3, <2>4 DEF HandlesEvent
  <2>6. root' = [root EXCEPT !.neverConnected = FALSE]
        /\ UNCHANGED <<gate, ops, results, strayed>>
    BY <1>11 DEF HandlesEvent
  <2>7. root' \in [cl : 0..Clusters, context : Contexts, switching : BOOLEAN,
                   neverConnected : BOOLEAN, showingSetup : BOOLEAN]
    BY <1>1, <2>6
  <2> QED BY <1>2, <2>2, <2>5, <2>6, <2>7
<1> QED
  BY <1>3, <1>4, <1>5, <1>6, <1>7, <1>8, <1>10, <1>11 DEF ClusterSteps

LEMMA CommandTyped ==
  ASSUME ShellInv, Typed, NEW o \in ops, CommandSteps(o)
  PROVE  Typed'
<1>1. /\ clusters \in [Known -> ClusterRecs] /\ gate \in [held : Nat, last : Nat]
      /\ o \in OpRecs /\ (\A p \in ops : p \in OpRecs) /\ (\A r \in results : r \in ResultRecs)
      /\ strayed \subseteq Known
      /\ root \in [cl : 0..Clusters, context : Contexts, switching : BOOLEAN,
                   neverConnected : BOOLEAN, showingSetup : BOOLEAN]
  BY DEF Typed
<1>2. Clusters \in Nat \ {0} /\ LaunchContext \in Contexts BY ShellAssumption
<1>3. /\ o.token \in Nat /\ o.to \in Contexts /\ o.from \in Contexts /\ o.cl \in 0..Clusters
      /\ o.fresh \in 0..Clusters /\ o.owner \in Nat
      /\ (o.cl # NoCluster => o.cl \in Known) /\ (o.kind = "switch" => o.cl \in Known)
  <2>1. /\ o.token \in Nat /\ o.to \in Contexts /\ o.from \in Contexts /\ o.cl \in 0..Clusters
        /\ o.fresh \in 0..Clusters /\ o.owner \in Nat
    BY <1>1 DEF OpRecs
  <2>2. o.cl # NoCluster => o.cl \in Known BY <1>2, <2>1 DEF NoCluster, Known
  <2>3. o.kind = "switch" => o.cl # NoCluster BY DEF ShellInv, OpsInv, SwitchInv, RebuildInv
  <2> QED BY <2>1, <2>2, <2>3
<1>4. ASSUME NEW c \in Known, NEW r \in ClusterRecs
      PROVE  [clusters EXCEPT ![c] = r] \in [Known -> ClusterRecs]
  BY <1>1
<1>5. ASSUME NEW c \in Known, NEW life \in {"unborn", "built", "live", "stopped"}
      PROVE  [clusters EXCEPT ![c].life = life] \in [Known -> ClusterRecs]
  <2>1. clusters[c] \in ClusterRecs BY <1>1
  <2>2. [clusters[c] EXCEPT !.life = life] \in ClusterRecs BY <2>1 DEF ClusterRecs
  <2> QED BY <1>1, <2>2
<1>6. ASSUME NEW c \in Known, NEW ctx \in Contexts
      PROVE  [clusters EXCEPT ![c] = Enters(@, ctx)] \in [Known -> ClusterRecs]
  <2>1. Enters(clusters[c], ctx) \in ClusterRecs BY <1>1, EntersTyped
  <2> QED BY <1>1, <2>1
<1>7. clusters' \in [Known -> ClusterRecs]
  <2>1. CASE SwitchStarts(o)
    <3>1. PICK c \in Known, ctx \in Contexts : c = o.cl /\ ctx = o.to
      BY <1>3, <2>1 DEF SwitchStarts
    <3>2. [clusters EXCEPT ![c] = Enters(@, ctx)] \in [Known -> ClusterRecs] BY <1>6
    <3>3. clusters' = clusters \/ clusters' = [clusters EXCEPT ![c] = Enters(@, ctx)]
      BY <2>1, <3>1 DEF SwitchStarts
    <3> QED BY <1>1, <3>2, <3>3
  <2>2. CASE SwitchRollsBack(o)
    <3>1. PICK c \in Known, ctx \in Contexts : c = o.cl /\ ctx = o.from
      BY <1>3, <2>2 DEF SwitchRollsBack
    <3>2. [clusters EXCEPT ![c] = Enters(@, ctx)] \in [Known -> ClusterRecs] BY <1>6
    <3>3. clusters' = clusters \/ clusters' = [clusters EXCEPT ![c] = Enters(@, ctx)]
      BY <2>2, <3>1 DEF SwitchRollsBack
    <3> QED BY <1>1, <3>2, <3>3
  <2>3. CASE RebuildBuilds(o)
    <3>1. ASSUME NEW c \in NextCluster,
                 clusters' = [clusters EXCEPT ![c] = NewCluster(o.to, "built", "none")]
          PROVE  clusters' \in [Known -> ClusterRecs]
      <4>1. c \in Known BY <3>1 DEF NextCluster
      <4>2. NewCluster(o.to, "built", "none") \in ClusterRecs BY <1>3, NewTyped DEF Readers
      <4> QED BY <1>4, <3>1, <4>1, <4>2
    <3> QED BY <1>1, <2>3, <3>1 DEF RebuildBuilds
  <2>4. CASE RebuildStops(o) BY <1>1, <1>3, <1>5, <2>4 DEF RebuildStops
  <2>5. CASE RebuildStarts(o)
    <3>1. o.fresh \in Known
      BY <2>5 DEF RebuildStarts, ShellInv, OpsInv, SwitchInv, RebuildInv, Ready
    <3> QED BY <1>5, <2>5, <3>1 DEF RebuildStarts
  <2>6. CASE SwitchSyncs(o) \/ SwitchResyncs(o) \/ RebuildLands(o)
    <3>1. ASSUME NEW c \in Known, Settles(c) \/ UNCHANGED clusters
          PROVE  clusters' \in [Known -> ClusterRecs]
      <4>1. clusters[c] \in ClusterRecs BY <1>1
      <4>2. [clusters[c] EXCEPT !.reached = TRUE] \in ClusterRecs BY <4>1 DEF ClusterRecs
      <4> QED BY <1>1, <3>1, <4>2 DEF Settles
    <3>2. CASE SwitchSyncs(o) \/ SwitchResyncs(o)
      BY <1>3, <3>1, <3>2 DEF SwitchSyncs, SwitchResyncs
    <3>3. CASE RebuildLands(o)
      <4>1. o.fresh \in Known
        BY <3>3 DEF RebuildLands, ShellInv, OpsInv, SwitchInv, RebuildInv, Ready
      <4> QED BY <3>1, <3>3, <4>1 DEF RebuildLands
    <3> QED BY <2>6, <3>2, <3>3
  <2> QED BY <2>1, <2>2, <2>3, <2>4, <2>5, <2>6 DEF CommandSteps
<1>8. \A p \in ops' : p \in OpRecs
  <2>1. ASSUME NEW at \in {"sync", "rollback", "resync", "start", "land"}
        PROVE  [o EXCEPT !.at = at] \in OpRecs
    BY <1>1 DEF OpRecs
  <2>2. ASSUME NEW c \in NextCluster PROVE [o EXCEPT !.at = "stop", !.fresh = c] \in OpRecs
    <3>1. c \in 0..Clusters BY <1>2 DEF NextCluster, Known
    <3> QED BY <1>1, <3>1 DEF OpRecs
  <2>3. \/ ops' \subseteq ops
        \/ \E at \in {"sync", "rollback", "resync", "start", "land"} :
             ops' = (ops \ {o}) \cup {[o EXCEPT !.at = at]}
        \/ \E c \in NextCluster : ops' = (ops \ {o}) \cup {[o EXCEPT !.at = "stop", !.fresh = c]}
    BY DEF CommandSteps, SwitchStarts, SwitchSyncs, SwitchRollsBack, SwitchResyncs,
       RebuildBuilds, RebuildStops, RebuildStarts, RebuildLands, SwitchLands, SwitchMoves
  <2> QED BY <1>1, <2>1, <2>2, <2>3
<1>9. \A r \in results' : r \in ResultRecs
  <2>1. \A ok \in BOOLEAN : Switched(o.token, o.to, ok) \in ResultRecs
    BY <1>2, <1>3 DEF Switched, ResultRecs, NoCluster
  <2>2. RebuildFailed(o.owner, o.token) \in ResultRecs
    BY <1>2, <1>3 DEF RebuildFailed, ResultRecs, NoCluster
  <2>3. [kind |-> "replace", token |-> o.token, to |-> o.to, cl |-> o.fresh, ok |-> TRUE,
         owner |-> 0] \in ResultRecs
    BY <1>3 DEF ResultRecs
  <2>4. \/ results' = results
        \/ \E ok \in BOOLEAN : results' = results \cup {Switched(o.token, o.to, ok)}
        \/ results' = results \cup {RebuildFailed(o.owner, o.token)}
        \/ results' = results \cup {[kind |-> "replace", token |-> o.token, to |-> o.to,
                                     cl |-> o.fresh, ok |-> TRUE, owner |-> 0]}
    BY DEF CommandSteps, SwitchStarts, SwitchSyncs, SwitchRollsBack, SwitchResyncs,
       RebuildBuilds, RebuildStops, RebuildStarts, RebuildLands, SwitchLands
  <2> QED BY <1>1, <2>1, <2>2, <2>3, <2>4
<1>10. gate' = gate /\ root' = root /\ strayed' \subseteq strayed \cup {o.cl}
       /\ (o.kind # "switch" => strayed' = strayed)
  BY DEF CommandSteps, SwitchStarts, SwitchSyncs, SwitchRollsBack, SwitchResyncs,
     RebuildBuilds, RebuildStops, RebuildStarts, RebuildLands
<1> QED BY <1>1, <1>3, <1>7, <1>8, <1>9, <1>10 DEF Typed

LEMMA ResultTyped ==
  ASSUME ShellInv, Typed, NEW r \in results, HandlesResult(r)
  PROVE  Typed'
<1>1. /\ clusters \in [Known -> ClusterRecs] /\ gate \in [held : Nat, last : Nat]
      /\ r \in ResultRecs /\ (\A p \in ops : p \in OpRecs)
      /\ (\A q \in results : q \in ResultRecs) /\ strayed \subseteq Known
      /\ root \in [cl : 0..Clusters, context : Contexts, switching : BOOLEAN,
                   neverConnected : BOOLEAN, showingSetup : BOOLEAN]
  BY DEF Typed
<1>2. r.to \in Contexts /\ r.cl \in 0..Clusters /\ r.ok \in BOOLEAN BY <1>1 DEF ResultRecs
<1>3. gate' \in [held : Nat, last : Nat]
  <2>1. EndClusterRebuild(r.token) \in [held : Nat, last : Nat]
    BY <1>1 DEF EndClusterRebuild
  <2> QED BY <2>1 DEF HandlesResult, HandlesSwitched, HandlesReplaceRoot, HandlesFailed, Settled
<1>4. /\ ops' = ops /\ results' \subseteq results /\ strayed' \subseteq strayed
  BY DEF HandlesResult, HandlesSwitched, HandlesReplaceRoot, HandlesFailed
<1>5. clusters' \in [Known -> ClusterRecs]
  <2>1. CASE HandlesReplaceRoot(r)
    <3>1. r.cl \in Known BY <2>1 DEF HandlesReplaceRoot, ShellInv, ResultsInv, Ready
    <3>2. clusters[r.cl] \in ClusterRecs BY <1>1, <3>1
    <3>3. [clusters[r.cl] EXCEPT !.reader = "drain"] \in ClusterRecs
      BY <3>2 DEF ClusterRecs, Readers
    <3> QED BY <1>1, <2>1, <3>1, <3>3 DEF HandlesReplaceRoot, Watched
  <2> QED BY <1>1, <2>1 DEF HandlesResult, HandlesSwitched, HandlesFailed
<1>6. root' \in [cl : 0..Clusters, context : Contexts, switching : BOOLEAN,
                 neverConnected : BOOLEAN, showingSetup : BOOLEAN]
  <2>1. CASE HandlesSwitched(r)
    <3>1. PICK ctx : ctx = IF r.ok THEN r.to ELSE root.context OBVIOUS
    <3>2. ctx \in Contexts BY <1>1, <1>2, <3>1
    <3>3. root' = [root EXCEPT !.switching = FALSE, !.context = ctx]
      BY <1>1, <2>1, <3>1 DEF HandlesSwitched
    <3> QED BY <1>1, <3>2, <3>3
  <2>2. CASE HandlesReplaceRoot(r) BY <1>1, <1>2, <2>2 DEF HandlesReplaceRoot, ReplacedRoot
  <2>3. CASE HandlesFailed(r) BY <1>1, <2>3 DEF HandlesFailed
  <2> QED BY <2>1, <2>2, <2>3 DEF HandlesResult
<1> QED BY <1>1, <1>3, <1>4, <1>5, <1>6 DEF Typed

LEMMA UserTyped ==
  ASSUME Typed, ui.task.id \in Nat, UserSteps
  PROVE  Typed'
<1>1. /\ clusters \in [Known -> ClusterRecs] /\ gate \in [held : Nat, last : Nat]
      /\ (\A p \in ops : p \in OpRecs)
      /\ (\A q \in results : q \in ResultRecs) /\ strayed \subseteq Known
      /\ root \in [cl : 0..Clusters, context : Contexts, switching : BOOLEAN,
                   neverConnected : BOOLEAN, showingSetup : BOOLEAN]
  BY DEF Typed
<1>2. Clusters \in Nat \ {0} /\ LaunchContext \in Contexts BY ShellAssumption
<1>3. gate.last + 1 \in Nat /\ root.context \in Contexts /\ root.cl \in 0..Clusters
      /\ NoCluster \in 0..Clusters
  BY <1>1, <1>2 DEF NoCluster
<1>4. clusters' = clusters /\ strayed' = strayed
  BY DEF UserSteps, SwitchBegins, SwitchRefused, RebuildBegins, RebuildRefused, Opens, Loads,
     Jumps, ShowsUpdate, GoesBack, Navigates
<1>5. gate' \in [held : Nat, last : Nat]
  <2>1. BeginClusterRebuild \in [held : Nat, last : Nat] BY <1>3 DEF BeginClusterRebuild
  <2> QED BY <1>1, <2>1 DEF UserSteps, SwitchBegins, SwitchRefused, RebuildBegins,
       RebuildRefused, Opens, Loads, Jumps, ShowsUpdate, GoesBack, Navigates
<1>6. \A p \in ops' : p \in OpRecs
  <2>1. ASSUME NEW to \in Contexts
        PROVE  Switch(gate.last + 1, to) \in OpRecs /\ Rebuild(gate.last + 1, to) \in OpRecs
    BY <1>3 DEF Switch, Rebuild, OpRecs
  <2>2. ops' = ops \/ \E to \in Contexts : \/ ops' = ops \cup {Switch(gate.last + 1, to)}
                                           \/ ops' = ops \cup {Rebuild(gate.last + 1, to)}
    BY DEF UserSteps, SwitchBegins, SwitchRefused, RebuildBegins, RebuildRefused, Opens, Loads,
       Jumps, ShowsUpdate, GoesBack, Navigates
  <2> QED BY <1>1, <2>1, <2>2
<1>7. \A q \in results' : q \in ResultRecs
  <2>1. \A to \in Contexts : Switched(0, to, FALSE) \in ResultRecs
    BY <1>3 DEF Switched, ResultRecs
  <2>2. RebuildFailed(ui.task.id, 0) \in ResultRecs
    BY <1>2, <1>3 DEF RebuildFailed, ResultRecs
  <2>3. \/ results' = results
        \/ \E to \in Contexts : results' = results \cup {Switched(0, to, FALSE)}
        \/ results' = results \cup {RebuildFailed(ui.task.id, 0)}
    BY DEF UserSteps, SwitchBegins, SwitchRefused, RebuildBegins, RebuildRefused, Opens, Loads,
       Jumps, ShowsUpdate, GoesBack, Navigates
  <2> QED BY <1>1, <2>1, <2>2, <2>3
<1>8. root' = root \/ root' = [root EXCEPT !.switching = TRUE]
  BY DEF UserSteps, SwitchBegins, SwitchRefused, RebuildBegins, RebuildRefused, Opens, Loads,
     Jumps, ShowsUpdate, GoesBack, Navigates, PicksContext
<1>9. root' \in [cl : 0..Clusters, context : Contexts, switching : BOOLEAN,
                 neverConnected : BOOLEAN, showingSetup : BOOLEAN]
  BY <1>1, <1>8
<1> QED BY <1>1, <1>4, <1>5, <1>6, <1>7, <1>9 DEF Typed

-----------------------------------------------------------------------------
(* The screens. A switch that is under way leads to another context than   *)
(* the session's, so that the screens it discards are those of the old one.*)
LeadsAway ==
  /\ \A o \in ops : o.kind = "switch" => o.to # root.context
  /\ \A r \in results : r.kind = "switched" /\ r.ok => r.to # root.context

ScreensInv == Typed /\ LeadsAway /\ Whole(ui, 0, {})

StayStep ==
  Discarded => \/ root'.cl # root.cl \/ root'.context # root.context
               \/ ~clusters[root.cl].reached
               \/ root.showingSetup

LEMMA CoversAll ==
  ASSUME Covered(ui', ui.last)
  PROVE  StayStep
BY DEF Covered, Discarded, StayStep

LEMMA SameCovers ==
  ASSUME Whole(ui, 0, {}), ui'.last = ui.last
  PROVE  StayStep
<1>1. ui \in Shells BY DEF Whole, Sane
<1>2. ui.last \in Nat BY <1>1, StackEntries
<1> QED BY <1>2, CoversAll DEF Covered

LEMMA ClusterScreens ==
  ASSUME ScreensInv, NEW c \in Known, ClusterSteps(c)
  PROVE  Whole(ui', 0, {}) /\ StayStep
<1>1. Typed /\ Whole(ui, 0, {}) /\ ui \in Shells BY DEF ScreensInv, Whole, Sane
<1>4. {"browse", "setup"} \subseteq Kinds \ {"transient"} BY DEF Kinds
<1>2. CASE HandlesConn(c)
  <2>1. PICK p : p = clusters[c].taken.phase OBVIOUS
  <2>2. p \in Phases
    <3>1. clusters[c] \in ClusterRecs BY <1>1 DEF Typed
    <3>2. clusters[c].taken \in Messages BY <3>1 DEF ClusterRecs
    <3> QED BY <1>2, <2>1, <3>2, MessageKinds DEF HandlesConn
  <2>3. p \in States BY <2>2 DEF States
  <2>4. CASE LeavesSetup(p)
    <3>0. ~ShowsSetup(p) BY <2>4 DEF LeavesSetup, ShowsSetup
    <3>1. ui' = StartsOver([ui EXCEPT !.conn = p], "browse")
      BY <1>2, <2>1, <2>4, <3>0 DEF HandlesConn
    <3>2. Whole(ui', 0, {}) BY <1>1, <1>4, <2>3, <3>1, StartsOverWhole
    <3> QED BY <2>4, <3>2 DEF LeavesSetup, StayStep
  <2>5. CASE ~LeavesSetup(p) /\ ShowsSetup(p)
    <3>1. ui' = StartsOver([ui EXCEPT !.conn = p], "setup") BY <1>2, <2>1, <2>5 DEF HandlesConn
    <3>2. Whole(ui', 0, {}) BY <1>1, <1>4, <2>3, <3>1, StartsOverWhole
    <3>3. ~clusters[root.cl].reached BY <2>5 DEF ShowsSetup, NeverConnected, Factories
    <3> QED BY <3>2, <3>3 DEF StayStep
  <2>6. CASE ~LeavesSetup(p) /\ ~ShowsSetup(p)
    <3>1. ui' = ForwardConn([ui EXCEPT !.conn = p], p) BY <1>2, <2>1, <2>6 DEF HandlesConn
    <3>2. Whole(ui', 0, {}) /\ ui'.last = ui.last BY <1>1, <2>2, <3>1, HeardWhole
    <3> QED BY <1>1, <3>2, SameCovers
  <2> QED BY <2>4, <2>5, <2>6
<1>3. CASE ~HandlesConn(c)
  <2>1. ui' = ui
    BY <1>3 DEF ClusterSteps, Ping, Reaches, Changes, ReadsConn, ReadsEvent, DrainEnds,
       HandlesEvent
  <2> QED BY <1>1, <2>1, SameCovers
<1> QED BY <1>2, <1>3

LEMMA ResultScreens ==
  ASSUME ShellInv, ScreensInv, NEW r \in results, HandlesResult(r)
  PROVE  Whole(ui', 0, {}) /\ StayStep
<1>1. Typed /\ LeadsAway /\ Whole(ui, 0, {}) /\ ui \in Shells BY DEF ScreensInv, Whole, Sane
<1>2. Unknown \in States BY DEF States
<1>3. ASSUME ui' = StartsOver([ui EXCEPT !.conn = Unknown], "browse")
      PROVE  Whole(ui', 0, {})
  BY <1>1, <1>2, <1>3, StartsOverWhole DEF Kinds
<1>4. CASE HandlesSwitched(r)
  <2>1. CASE r.ok
    <3>1. r.to # root.context BY <1>1, <1>4, <2>1 DEF LeadsAway, HandlesSwitched
    <3>2. root'.context = r.to
      BY <1>1, <1>4, <2>1 DEF HandlesSwitched, Typed
    <3> QED BY <1>3, <1>4, <2>1, <3>1, <3>2 DEF HandlesSwitched, StayStep
  <2>2. CASE ~r.ok BY <1>1, <1>4, <2>2, SameCovers DEF HandlesSwitched
  <2> QED BY <2>1, <2>2
<1>5. CASE HandlesReplaceRoot(r)
  <2>1. r.cl # root.cl BY <1>5 DEF HandlesReplaceRoot, ShellInv, ResultsInv, Ready
  <2>2. root'.cl = r.cl BY <1>1, <1>5 DEF HandlesReplaceRoot, ReplacedRoot, Typed
  <2> QED BY <1>3, <1>5, <2>1, <2>2 DEF HandlesReplaceRoot, StayStep
<1>6. CASE HandlesFailed(r)
  <2>1. ui' = RouteOwned(ui, r.owner, "failed") BY <1>6 DEF HandlesFailed
  <2>2. Whole(ui', 0, {}) /\ Covered(ui', ui.last) BY <1>1, <2>1, FailedWhole
  <2> QED BY <2>2, CoversAll
<1> QED BY <1>4, <1>5, <1>6 DEF HandlesResult

LEMMA OwnedScreens ==
  ASSUME ScreensInv, NEW om \in ui.flight, HandlesOwned(om)
  PROVE  Whole(ui', 0, {}) /\ StayStep
<1>1. Whole(ui, 0, {}) /\ ui \in Shells BY DEF ScreensInv, Whole, Sane
<1>2. PICK v : v = RouteOwned([ui EXCEPT !.flight = @ \ {om}], om.owner, om.what) OBVIOUS
<1>3. ui' = v BY <1>2 DEF HandlesOwned, Navigates
<1>4. Whole(v, om.owner, {}) /\ \A L \in Nat : Covered(ui, L) => Covered(v, L)
  BY <1>1, <1>2, RouteWhole
<1>5. ui.last \in Nat BY <1>1, StackEntries
<1>6. Covered(ui, ui.last) BY <1>5 DEF Covered
<1>7. Covered(v, ui.last) BY <1>4, <1>5, <1>6
<1>8. v \in Shells BY <1>4 DEF Whole, Sane
<1>9. 0 \in 0..v.last
  <2>1. v.last \in Nat BY <1>8, StackEntries
  <2> QED BY <2>1
<1>10. Whole(v, 0, {}) BY <1>4, <1>9, WholeForAny
<1> QED BY <1>3, <1>7, <1>10, CoversAll

LEMMA UserScreens ==
  ASSUME ScreensInv, UserSteps
  PROVE  Whole(ui', 0, {}) /\ StayStep
<1>1. Whole(ui, 0, {}) /\ ui \in Shells BY DEF ScreensInv, Whole, Sane
<1>2. ASSUME ui' = ui PROVE Whole(ui', 0, {}) /\ StayStep BY <1>1, <1>2, SameCovers
<1>3. ASSUME ui' = [ui EXCEPT !.task.retrying = TRUE]
      PROVE  Whole(ui', 0, {}) /\ StayStep
  <2>1. Whole(ui', 0, {}) /\ ui'.last = ui.last BY <1>1, <1>3, RetryWhole
  <2> QED BY <1>1, <2>1, SameCovers
<1>4. ASSUME NEW kind \in {"detail", "transient"}, Opens(kind)
      PROVE  Whole(ui', 0, {}) /\ StayStep
  <2>1. kind \in Kinds BY DEF Kinds
  <2>2. ui' = OpensChild(ui, kind) BY <1>4 DEF Opens, Navigates
  <2>3. Whole(OpensChild(ui, kind), 0, {}) /\ OpensChild(ui, kind).stack # <<>>
    BY <1>1, <2>1, OpensWhole
  <2> QED BY <2>2, <2>3, CoversAll DEF Covered
<1>5. ASSUME NEW kind \in {"browse", "detail"}, ui' = ActivateFresh(Push(ui), kind)
      PROVE  Whole(ui', 0, {}) /\ StayStep
  <2>1. kind \in Kinds BY DEF Kinds
  <2>2. Whole(ui', 0, {}) /\ ui'.stack # <<>> BY <1>1, <1>5, <2>1, OverWhole
  <2> QED BY <2>2, CoversAll DEF Covered
<1>6. CASE Loads
  <2>1. PICK v : v = [ui EXCEPT !.flight = @ \cup {Owned(ui.task.id, "open")}] OBVIOUS
  <2>2. ui' = v BY <1>6, <2>1 DEF Loads, Navigates
  <2>3. Whole(v, 0, {}) /\ v.last = ui.last BY <1>1, <2>1, LoadsWhole
  <2> QED BY <1>1, <2>2, <2>3, SameCovers
<1>7. CASE Jumps
  <2>1. ui' = ui \/ ui' = ActivateFresh(Push(ui), "browse")
    BY <1>7 DEF Jumps, Navigates, RouteGoto
  <2> QED BY <1>2, <1>5, <2>1
<1>8. CASE ShowsUpdate
  <2>1. ui' = ActivateFresh(Push(ui), "detail") BY <1>8 DEF ShowsUpdate, Navigates, OpenUpdatePanel
  <2> QED BY <1>5, <2>1
<1>9. CASE GoesBack
  <2>1. ui' = PopTask(ui) /\ ui.stack # <<>> BY <1>9 DEF GoesBack, Navigates
  <2>2. Whole(PopTask(ui), 0, {}) /\ Covered(PopTask(ui), ui.last) BY <1>1, <2>1, PopWhole
  <2> QED BY <2>1, <2>2, CoversAll
<1>10. CASE \E to \in Contexts : SwitchBegins(to) \/ SwitchRefused(to)
  BY <1>2, <1>10 DEF SwitchBegins, SwitchRefused
<1>11. CASE RebuildRefused \/ \E to \in Contexts : RebuildBegins(to)
  <2>1. ui' = [ui EXCEPT !.task.retrying = TRUE]
    BY <1>11 DEF RebuildRefused, RebuildBegins, Retries
  <2> QED BY <1>3, <2>1
<1> QED BY <1>4, <1>6, <1>7, <1>8, <1>9, <1>10, <1>11 DEF UserSteps

-----------------------------------------------------------------------------
LEMMA AwayStep ==
  ASSUME ShellInv, ScreensInv, [Next]_vars
  PROVE  LeadsAway'
<1>1. LeadsAway /\ IsRoot(root) BY DEF ScreensInv, ShellInv, Shapes
<1>2. ASSUME root'.context = root.context, ops' \subseteq ops, results' \subseteq results
      PROVE  LeadsAway'
  BY <1>1, <1>2 DEF LeadsAway
<1>3. CASE \E c \in Known : ClusterSteps(c)
  BY <1>1, <1>2, <1>3 DEF ClusterSteps, Ping, Reaches, Changes, ReadsConn, ReadsEvent, DrainEnds,
     HandlesConn, HandlesEvent, IsRoot
<1>4. ASSUME NEW o \in ops, CommandSteps(o) PROVE LeadsAway'
  <2>1. IsOp(o) /\ (o.kind = "switch" => o.to # root.context)
    BY <1>1 DEF LeadsAway, ShellInv, Shapes
  <2>2. root' = root
    BY <1>4 DEF CommandSteps, SwitchStarts, SwitchSyncs, SwitchRollsBack, SwitchResyncs,
       RebuildBuilds, RebuildStops, RebuildStarts, RebuildLands
  <2>3. \A p \in ops' : p \in ops \/ (p.kind = o.kind /\ p.to = o.to)
    <3>1. \A at : [o EXCEPT !.at = at].kind = o.kind /\ [o EXCEPT !.at = at].to = o.to
      BY <2>1 DEF IsOp
    <3>2. \A at, c : /\ [o EXCEPT !.at = at, !.fresh = c].kind = o.kind
                     /\ [o EXCEPT !.at = at, !.fresh = c].to = o.to
      BY <2>1 DEF IsOp
    <3>3. \/ ops' \subseteq ops
          \/ \E at : ops' = (ops \ {o}) \cup {[o EXCEPT !.at = at]}
          \/ \E at, c : ops' = (ops \ {o}) \cup {[o EXCEPT !.at = at, !.fresh = c]}
      BY <1>4 DEF CommandSteps, SwitchStarts, SwitchSyncs, SwitchRollsBack, SwitchResyncs,
         RebuildBuilds, RebuildStops, RebuildStarts, RebuildLands, SwitchLands, SwitchMoves
    <3>4. ASSUME NEW p \in ops', p \notin ops PROVE p.kind = o.kind /\ p.to = o.to
      <4>1. CASE \E at : ops' = (ops \ {o}) \cup {[o EXCEPT !.at = at]}
        <5>1. PICK at : p = [o EXCEPT !.at = at] BY <3>4, <4>1
        <5> QED BY <3>1, <5>1
      <4>2. CASE \E at, c : ops' = (ops \ {o}) \cup {[o EXCEPT !.at = at, !.fresh = c]}
        <5>1. PICK at, c : p = [o EXCEPT !.at = at, !.fresh = c] BY <3>4, <4>2
        <5> QED BY <3>2, <5>1
      <4> QED BY <3>3, <3>4, <4>1, <4>2
    <3> QED BY <3>4
  <2>4. ASSUME NEW r \in results', r \notin results, r.kind = "switched"
        PROVE  o.kind = "switch" /\ r.to = o.to
    <3>1. \/ results' = results
          \/ o.kind = "switch"
             /\ \E ok \in BOOLEAN : results' = results \cup {Switched(o.token, o.to, ok)}
          \/ results' = results \cup {RebuildFailed(o.owner, o.token)}
          \/ results' = results \cup {[kind |-> "replace", token |-> o.token, to |-> o.to,
                                       cl |-> o.fresh, ok |-> TRUE, owner |-> 0]}
      BY <1>4 DEF CommandSteps, SwitchStarts, SwitchSyncs, SwitchRollsBack, SwitchResyncs,
         RebuildBuilds, RebuildStops, RebuildStarts, RebuildLands, SwitchLands
    <3>2. \A ok \in BOOLEAN : Switched(o.token, o.to, ok).to = o.to BY DEF Switched
    <3>3. RebuildFailed(o.owner, o.token).kind = "failed" BY DEF RebuildFailed
    <3> QED BY <2>4, <3>1, <3>2, <3>3
  <2> QED BY <1>1, <2>1, <2>2, <2>3, <2>4 DEF LeadsAway
<1>5. ASSUME NEW r \in results, HandlesResult(r) PROVE LeadsAway'
  <2>1. /\ ops' = ops /\ results' = results \ {r} /\ gate' = EndClusterRebuild(r.token)
    BY <1>5 DEF HandlesResult, HandlesSwitched, HandlesReplaceRoot, HandlesFailed, Settled
  <2>2. r.token # 0 => ops' = {} /\ \A q \in results' : q.token = 0
    BY <2>1, SettledGate DEF ShellInv, Shapes
  <2>3. CASE r.token # 0
    <3>1. \A q \in results' : ~(q.kind = "switched" /\ q.ok)
      BY <2>1, <2>2, <2>3 DEF ShellInv, ResultsInv
    <3> QED BY <2>2, <2>3, <3>1 DEF LeadsAway
  <2>4. CASE r.token = 0
    <3>1. r.kind # "replace" /\ ~(r.kind = "switched" /\ r.ok)
      BY <2>4 DEF ShellInv, ResultsInv
    <3>2. root'.context = root.context
      BY <1>1, <1>5, <3>1 DEF HandlesResult, HandlesSwitched, HandlesReplaceRoot, HandlesFailed,
         IsRoot
    <3> QED BY <1>2, <2>1, <3>2
  <2> QED BY <2>3, <2>4
<1>6. CASE UserSteps
  <2>1. root'.context = root.context
    BY <1>1, <1>6 DEF UserSteps, SwitchBegins, SwitchRefused, RebuildBegins, RebuildRefused, Opens,
       Loads, Jumps, ShowsUpdate, GoesBack, Navigates, PicksContext, IsRoot
  <2>2. \A p \in ops' : p \in ops \/ p.kind = "rebuild"
                        \/ (p.kind = "switch" /\ p.to # root.context)
    <3>1. \/ ops' = ops
          \/ \E to \in Contexts : to # root.context /\ ops' = ops \cup {Switch(gate.last + 1, to)}
          \/ \E to \in Contexts : ops' = ops \cup {Rebuild(gate.last + 1, to)}
      BY <1>6 DEF UserSteps, SwitchBegins, SwitchRefused, RebuildBegins, RebuildRefused, Opens,
         Loads, Jumps, ShowsUpdate, GoesBack, Navigates, PicksContext
    <3>2. \A to : /\ Rebuild(gate.last + 1, to).kind = "rebuild"
                  /\ Switch(gate.last + 1, to).kind = "switch" /\ Switch(gate.last + 1, to).to = to
      BY DEF Switch, Rebuild
    <3> QED BY <3>1, <3>2
  <2>3. \A q \in results' : q \in results \/ ~q.ok
    BY <1>6 DEF UserSteps, SwitchBegins, SwitchRefused, RebuildBegins, RebuildRefused, Opens,
       Loads, Jumps, ShowsUpdate, GoesBack, Navigates, Switched, RebuildFailed
  <2> QED BY <1>1, <2>1, <2>2, <2>3 DEF LeadsAway
<1>7. CASE \E om \in ui.flight : HandlesOwned(om)
  BY <1>2, <1>7 DEF HandlesOwned, Navigates
<1>8. CASE UNCHANGED vars
  BY <1>2, <1>8 DEF vars
<1> QED BY <1>3, <1>4, <1>5, <1>6, <1>7, <1>8 DEF Next, CommandSteps

LEMMA ScreensStep ==
  ASSUME ShellInv, ScreensInv, [Next]_vars
  PROVE  ScreensInv' /\ StayStep
<1>1. Typed /\ Whole(ui, 0, {}) /\ ui \in Shells BY DEF ScreensInv, Whole, Sane
<1>2. ui.task.id \in Nat BY <1>1, StackEntries
<1>3. ASSUME ui' = ui PROVE Whole(ui', 0, {}) /\ StayStep BY <1>1, <1>3, SameCovers
<1>4. ASSUME UNCHANGED <<clusters, gate, ops, results, root, strayed>> PROVE Typed'
  BY <1>1, <1>4 DEF Typed
<1>5. Typed' /\ Whole(ui', 0, {}) /\ StayStep
  <2>1. CASE \E c \in Known : ClusterSteps(c) BY <1>1, <2>1, ClusterTyped, ClusterScreens
  <2>2. CASE \E o \in ops : CommandSteps(o)
    <3>1. ui' = ui
      BY <2>2 DEF CommandSteps, SwitchStarts, SwitchSyncs, SwitchRollsBack, SwitchResyncs,
         RebuildBuilds, RebuildStops, RebuildStarts, RebuildLands
    <3> QED BY <1>1, <1>3, <2>2, <3>1, CommandTyped
  <2>3. CASE \E r \in results : HandlesResult(r) BY <1>1, <2>3, ResultTyped, ResultScreens
  <2>4. CASE \E om \in ui.flight : HandlesOwned(om)
    BY <1>4, <2>4, OwnedScreens DEF HandlesOwned, Navigates
  <2>5. CASE UserSteps BY <1>1, <1>2, <2>5, UserTyped, UserScreens
  <2>6. CASE UNCHANGED vars BY <1>3, <1>4, <2>6 DEF vars
  <2> QED BY <2>1, <2>2, <2>3, <2>4, <2>5, <2>6 DEF Next
<1>6. LeadsAway' BY AwayStep
<1> QED BY <1>5, <1>6 DEF ScreensInv

LEMMA InitScreens == Init => ScreensInv
<1> SUFFICES ASSUME Init PROVE ScreensInv OBVIOUS
<1>1. PICK kind \in Kinds \ {"transient"} : ui = RootTask(kind) BY DEF Init, Kinds
<1>2. Whole(ui, 0, {}) BY <1>1, RootWhole
<1>3. LeadsAway BY DEF Init, LeadsAway
<1> QED BY <1>2, <1>3, InitTyped DEF ScreensInv

(* The screens, the types and the targets of switches hold together with   *)
(* the gate's invariant in every reachable state.                          *)
THEOREM ScreensInvariant == Spec => [](ShellInv /\ ScreensInv)
<1>1. Init => ShellInv /\ ScreensInv BY InitInv, InitScreens
<1>2. (ShellInv /\ ScreensInv) /\ [Next]_vars => (ShellInv /\ ScreensInv)'
  BY StepInv, ScreensStep
<1> QED BY <1>1, <1>2, PTL DEF Spec

(* Every variable has its type in every reachable state, and no connection *)
(* channel holds more than its capacity.                                   *)
THEOREM ShellTypeCorrect == Spec => []TypeOK
<1>1. ScreensInv => TypeOK
  <2> SUFFICES ASSUME ScreensInv PROVE TypeOK OBVIOUS
  <2>1. Typed /\ ui \in Shells /\ Numbered(ui) BY DEF ScreensInv, Whole, Sane
  <2>2. PICK n \in Nat : n = Len(ui.stack) BY <2>1, StackEntries
  <2>3. ASSUME NEW i \in DOMAIN Entries(ui) PROVE Entries(ui)[i].task \in Tasks
    <3>1. \A k \in 1..(n + 1) : k = n + 1 \/ k \in 1..n OBVIOUS
    <3>2. Entry(ui.task).task = ui.task BY DEF Entry
    <3>3. Entries(ui)[i].task \in Screens BY <2>1, <2>2, <3>1, <3>2, EntriesOf, StackEntries
    <3> QED BY <3>3 DEF Screens, Tasks, States
  <2>4. ui.last \in Nat /\ ui.conn \in Phases \cup {Unknown} BY <2>1 DEF Shells, States
  <2>5. ASSUME NEW om \in ui.flight PROVE om \in [owner : 0..ui.last, what : Whats \ {"failed"}]
    <3>1. om \in [owner : Nat, what : {"tick", "open"}] BY <2>1 DEF Shells
    <3>2. om.owner <= ui.last BY <2>1 DEF Numbered
    <3>3. om.owner \in 0..ui.last /\ om.what \in Whats \ {"failed"}
      BY <2>4, <3>1, <3>2 DEF Whats
    <3> QED BY <3>1, <3>3
  <2> QED BY <2>1, <2>3, <2>4, <2>5 DEF Typed, TypeOK
<1> QED BY ScreensInvariant, <1>1, PTL

(* Whatever it missed while it was parked or before it was built, the      *)
(* active screen shows the connection state the root last heard.           *)
THEOREM ConnIsReplayed == Spec => []ConnReplay
<1>1. ScreensInv => ConnReplay BY DEF ScreensInv, Whole, Sane, Told, ConnReplay
<1> QED BY ScreensInvariant, <1>1, PTL

(* However deep the stack and in whatever order messages, screens and      *)
(* returns come: no two screens share an identity, and every screen's      *)
(* chain has exactly one link.                                             *)
THEOREM ChainsGoOn == Spec => []ChainsSurvive
<1>1. ScreensInv => ChainsSurvive BY WholeChains DEF ScreensInv, ChainsSurvive
<1> QED BY ScreensInvariant, <1>1, PTL

(* No step discards every screen, but one that changes the cluster or its  *)
(* context, shows the setup of a cluster never reached, or leaves a setup. *)
THEOREM ScreensAreKept == Spec => ScreensStay
<1>1. (ShellInv /\ ScreensInv) /\ [Next]_vars
        => [Discarded => \/ root'.cl # root.cl \/ root'.context # root.context
                         \/ ~clusters[root.cl].reached
                         \/ root.showingSetup]_vars
  BY ScreensStep DEF StayStep
<1> QED BY ScreensInvariant, <1>1, PTL DEF Spec, ScreensStay

=============================================================================
