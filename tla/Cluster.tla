------------------------------ MODULE Cluster ------------------------------
(***************************************************************************)
(* One *kube.Cluster of kute (internal/kube/cluster.go, health.go,         *)
(* request_gate.go, watch.go): the per-(kind, scope) informer caches and   *)
(* what is recorded about them, the authentication gate in front of every  *)
(* request, the health loop, and the in-place SwitchContext that replaces  *)
(* all of it while goroutines of the old context are still running.        *)
(*                                                                         *)
(* Actors: the goroutine that runs the launch's Start, the one that runs   *)
(* SwitchContext and its Start, the reader (ListRaw, KindSynced), the user *)
(* (RetryNow), one reflector per informer, the onBlocked callback of the   *)
(* gate, and one health loop per Start.  A step is one critical section of *)
(* c.mu or of the gate's mutex, or one request's outcome.                  *)
(*                                                                         *)
(* A client (0, 1, 2, ...) is what one NewClientForContext call built: a   *)
(* clientset, its gate, its watch observer and its stop channel.           *)
(***************************************************************************)
EXTENDS ConnHealth, FiniteSets

CONSTANTS
  Kinds,        (* Cache keys: a resource kind at the scope it resolves to. *)
  Eager,        (* The keys Start registers and waits for.                  *)
  Static,       (* Clients whose context has a certificate or token.        *)
  Errors,       (* What a failing request can come back with in this model. *)
  MaxSwitch,    (* Bound: SwitchContext calls.                              *)
  MaxInFlight,  (* Bound: informer handler calls in flight at once.         *)
  Occurs        (* Which of these may happen: "retry", the user presses r;  *)
                (* "stop", Stop is called; "early_read", a screen reads a   *)
                (* kind before Start has run; "recover", the link recovers  *)
                (* for good (liveness runs).                                *)

Clients == 0..MaxSwitch

ASSUME ClusterAssumption ==
  /\ Eager \subseteq Kinds
  /\ MaxSwitch \in Nat /\ MaxInFlight \in Nat
  /\ Static \subseteq Clients
  /\ Errors \subseteq Failures \ {"gated"}
  /\ Occurs \subseteq {"retry", "stop", "early_read", "recover"}

VARIABLES
  (* Cluster fields, written under c.mu.                                    *)
  generation,     (* c.generation                                           *)
  client,         (* the client in c.clientset/authGate/watcher/factory     *)
  stopped,        (* c.stopCh == nil, Stop's sentinel                       *)
  started,        (* c.started; c.eagerKeys is set and cleared with it      *)
  synced,         (* c.synced: the client it was latched for                *)
  reached,        (* c.reached: the client whose answer latched it          *)
  kindInformers,  (* generation captured by the observer and event handlers *)
                  (* of each registered informer, NoGen when unregistered   *)
  errHandler,     (* generation captured by its WatchErrorHandler           *)
  kindFailed,     (* client whose 403 is recorded for the kind              *)
  kindStalled,    (* client whose LIST failure is recorded for the kind     *)
  watchUnhealthy, (* client whose broken WATCH is recorded for the kind     *)
  allKindsSynced, (* the latch in front of the HasSynced sweep              *)
  (* health: its state, and its one-slot channels                           *)
  health, retry, wake,
  (* authenticationGate, one per client                                     *)
  blocked, probeAllowed,
  responded,      (* clients whose server has answered anything             *)
  calling,        (* clients whose onBlocked callback has not run yet       *)
  passed,         (* kinds with a request in flight that the blocked gate   *)
                  (* had let through                                        *)
  (* goroutines                                                             *)
  starter,        (* the two callers of Start                               *)
  loop,           (* the health loop of each client                         *)
  (* client-go and the apiserver                                            *)
  hasSynced,      (* informer.HasSynced(), for the current client           *)
  stream,         (* whether the kind's WATCH is up                         *)
  reports,        (* handler calls an informer goroutine is about to make   *)
  denied,         (* kinds this identity may not list                       *)
  healthy,        (* the link and the apiserver have recovered for good     *)
  (* history                                                                *)
  asked           (* clients with a RetryNow on their blocked gate since     *)
                  (* their last /livez request                              *)

clusterVars  == <<generation, client, stopped, started, synced>>
kindVars     == <<kindInformers, errHandler, kindFailed, kindStalled, watchUnhealthy>>
gateVars     == <<blocked, probeAllowed, responded, calling, passed>>
clientGoVars == <<hasSynced, stream, denied, healthy>>
vars == <<clusterVars, reached, kindVars, allKindsSynced, health, retry, wake, gateVars,
          starter, loop, clientGoVars, reports, asked>>

NoGen       == -1
Starters    == {"launch", "switch"}

(***************************************************************************)
(* Derived state.                                                          *)
(***************************************************************************)
Started(k)    == kindInformers[k] # NoGen

(* The generation check every callback makes in the critical section that  *)
(* applies it.  (NeverStale and the other definitions marked "Fault" are   *)
(* plausible bugs, used by no action: each replaces the definition after   *)
(* it in a run that shows a property can fail.)                            *)
NeverStale(gen) == FALSE   (* Fault: the check is missing. *)
Stale(gen) == gen # generation

StopClosed(c) == c # client \/ stopped

(* kindSyncedLockedKey *)
KindSettled(k) == stopped \/ kindFailed[k] # NoClient \/ (Started(k) /\ hasSynced[k])

(* KindSynced's answer to a screen deciding whether to keep its spinner.   *)
KindSynced(k) == KindSettled(k) \/ kindStalled[k] # NoClient

(* allStartedKindsSweepLocked: a forbidden kind is never waited for.       *)
Sweep(failed) == \A k \in Kinds : Started(k) /\ failed[k] = NoClient => hasSynced[k]

(* allStartedKindsReadyLocked, given the latch and the broken watches      *)
ReadyWhenSynced(latch, unhealthy) == latch   (* Fault: broken watches do not count. *)
Ready(latch, unhealthy) == latch /\ \A k \in Kinds : unhealthy[k] = NoClient

AnyCacheSynced == \E k \in Kinds : Started(k) /\ hasSynced[k]

-----------------------------------------------------------------------------
(***************************************************************************)
(* The authentication gate.                                                *)
(***************************************************************************)

(* authenticationGate.block: the first failure latches the gate and owes   *)
(* its owner a callback, made after the gate's mutex is released; any      *)
(* failure takes back the grant of a probe.  A static credential never     *)
(* latches.                                                                *)
Block(c) ==
  IF c \in Static
    THEN UNCHANGED <<blocked, probeAllowed, calling>>
    ELSE /\ blocked' = [blocked EXCEPT ![c] = TRUE]
         /\ probeAllowed' = [probeAllowed EXCEPT ![c] = FALSE]
         /\ calling' = IF blocked[c] THEN calling ELSE calling \cup {c}

(* The gate's part of a failed request: a credential failure blocks, and   *)
(* an HTTP status below 500 proves the link.  A credential can fail in the *)
(* plugin, before any request is made, or as a 401.                        *)
GateSees(c, err) ==
  /\ IF err = "auth" THEN Block(c) ELSE UNCHANGED <<blocked, probeAllowed, calling>>
  /\ \E answered \in BOOLEAN :
       /\ answered => err \in {"forbidden", "auth"}
       /\ err = "forbidden" => answered
       /\ responded' = IF answered THEN responded \cup {c} ELSE responded

(* Fault: the callback does not compare its gate with c.authGate.          *)
OnBlockedOfAnyGate(c) ==
  /\ c \in calling
  /\ calling' = calling \ {c}
  /\ health' = Unauthenticated(c) /\ wake' = TRUE
  /\ UNCHANGED <<clusterVars, reached, kindVars, allKindsSynced, retry, blocked, probeAllowed,
                 responded, passed, starter, loop, clientGoVars, reports, asked>>

(* Fault: like a watch error, silent while an outage is already shown.     *)
OnBlockedIfOnline(c) ==
  /\ c \in calling
  /\ calling' = calling \ {c}
  /\ IF c = client /\ ~Offline(health)
       THEN health' = Unauthenticated(c) /\ wake' = TRUE
       ELSE UNCHANGED <<health, wake>>
  /\ UNCHANGED <<clusterVars, reached, kindVars, allKindsSynced, retry, blocked, probeAllowed,
                 responded, passed, starter, loop, clientGoVars, reports, asked>>

(* recordAuthenticationFailure: dropped for a gate that has been replaced. *)
OnBlocked(c) ==
  /\ c \in calling
  /\ calling' = calling \ {c}
  /\ IF c = client
       THEN health' = Unauthenticated(c) /\ wake' = TRUE
       ELSE UNCHANGED <<health, wake>>
  /\ UNCHANGED <<clusterVars, reached, kindVars, allKindsSynced, retry, blocked, probeAllowed,
                 responded, passed, starter, loop, clientGoVars, reports, asked>>

(* RetryNow: grants one probe through a blocked gate, and asks for it.     *)
RetryNow ==
  /\ "retry" \in Occurs
  /\ probeAllowed' = [probeAllowed EXCEPT ![client] = @ \/ blocked[client]]
  /\ retry' = TRUE
  /\ asked' = IF blocked[client] THEN asked \cup {client} ELSE asked
  /\ UNCHANGED <<clusterVars, reached, kindVars, allKindsSynced, health, wake, blocked,
                 responded, calling, passed, starter, loop, clientGoVars, reports>>

-----------------------------------------------------------------------------
(***************************************************************************)
(* Reflectors and listeners.  A reflector is one goroutine, so it has at   *)
(* most one handler call outstanding.  A call is made (Report) and applied *)
(* (Deliver) in two steps: every handler first resolves the credential     *)
(* plugin's message or waits for c.mu, and a SwitchContext may come        *)
(* between the two.                                                        *)
(***************************************************************************)
Running(k) ==
  /\ Started(k) /\ ~stopped
  /\ \A r \in reports : r.client = client /\ r.kind = k => r.what = "event"

(* What passes the gate: anything until a credential failure blocks it,    *)
(* and then the requests of the reflectors that were in flight.            *)
GateLetsThrough(k) == ~blocked[client] \/ k \in passed

(* A failure that turns the gate of client c from open to blocked, and the *)
(* reflectors that may have a LIST or WATCH in flight.                     *)
Blocks(c, err) == err = "auth" /\ c \notin Static /\ ~blocked[c]
InFlight == {k \in Kinds : Running(k) /\ stream[k] = "down"}

Report(k, gen, what) ==
  /\ Cardinality(reports) < MaxInFlight
  /\ reports' = reports \cup {[client |-> client, gen |-> gen, kind |-> k, what |-> what]}

(* A LIST (or a streaming list) is answered and the cache fills.           *)
ListSucceeds(k) ==
  /\ Running(k)
  /\ ~hasSynced[k] /\ k \notin denied /\ GateLetsThrough(k)
  /\ hasSynced' = [hasSynced EXCEPT ![k] = TRUE]
  /\ responded' = responded \cup {client}
  /\ passed' = passed \ {k}
  /\ UNCHANGED <<clusterVars, reached, kindVars, allKindsSynced, health, retry, wake, blocked,
                 probeAllowed, calling, starter, loop, stream, denied, healthy, reports,
                 asked>>

(* A WATCH is answered 2xx: the transport observer calls `established`.    *)
(* The call made for a streaming list is left out: the kind has no record  *)
(* of a broken watch yet for it to clear.                                  *)
WatchOpens(k) ==
  /\ Running(k)
  /\ stream[k] = "down" /\ hasSynced[k] /\ k \notin denied /\ GateLetsThrough(k)
  /\ stream' = [stream EXCEPT ![k] = "up"]
  /\ responded' = responded \cup {client}
  /\ passed' = passed \ {k}
  /\ Report(k, kindInformers[k], "established")
  /\ UNCHANGED <<clusterVars, reached, kindVars, allKindsSynced, health, retry, wake, blocked,
                 probeAllowed, calling, starter, loop, hasSynced, denied, healthy, asked>>

(* An established WATCH's body ends: a routine rotation, or a read error.  *)
WatchEnds(k, how) ==
  /\ Running(k)
  /\ stream[k] = "up" /\ ~healthy
  /\ stream' = [stream EXCEPT ![k] = "down"]
  /\ Report(k, kindInformers[k], how)
  /\ UNCHANGED <<clusterVars, reached, kindVars, allKindsSynced, health, retry, wake, gateVars,
                 starter, loop, hasSynced, denied, healthy, asked>>

(* A LIST or WATCH request fails, and the reflector is about to call its   *)
(* WatchErrorHandler.  A blocked gate answers before any request is made,  *)
(* and the failure that blocks it leaves the requests already made alone:  *)
(* any of the other reflectors' may be among them.                         *)
RequestFails(k, err) ==
  /\ Running(k)
  /\ stream[k] = "down"
  /\ (err = "gated") <=> ~GateLetsThrough(k)
  /\ err = "forbidden" => k \in denied
  /\ healthy => err \in {"gated", "forbidden"}
  /\ GateSees(client, err)
  /\ passed' \in IF Blocks(client, err) THEN SUBSET (InFlight \ {k}) ELSE {passed \ {k}}
  /\ Report(k, errHandler[k], err)
  /\ UNCHANGED <<clusterVars, reached, kindVars, allKindsSynced, health, retry, wake, starter,
                 loop, clientGoVars, asked>>

(* An object changes, and the event is queued for the informer's handlers. *)
(* Only the first queued event of a client not yet reached matters here.   *)
ObjectChanges(k) ==
  /\ Started(k) /\ ~stopped /\ client \in responded
  /\ reached = NoClient /\ \A r \in reports : r.client = client => r.what # "event"
  /\ Report(k, kindInformers[k], "event")
  /\ UNCHANGED <<clusterVars, reached, kindVars, allKindsSynced, health, retry, wake, gateVars,
                 starter, loop, clientGoVars, asked>>

(* Fault: a 403 is dropped as "not a connection fact" and recorded nowhere. *)
NoteWatchErrorBut403(r) ==
  /\ kindStalled' = IF IsPermissionError(r.what) \/ KindSettled(r.kind)
                      THEN kindStalled ELSE [kindStalled EXCEPT ![r.kind] = r.client]
  /\ UNCHANGED kindFailed

(* noteWatchErrorLocked: a 403 is recorded for good; anything else is this *)
(* kind's problem only while its initial LIST has never succeeded.         *)
NoteWatchError(r) ==
  IF IsPermissionError(r.what)
    THEN kindFailed' = [kindFailed EXCEPT ![r.kind] = r.client] /\ UNCHANGED kindStalled
    ELSE /\ kindStalled' = IF KindSettled(r.kind) THEN kindStalled
                             ELSE [kindStalled EXCEPT ![r.kind] = r.client]
         /\ UNCHANGED kindFailed

(* recordWatchError: the generation check, the kind's record and the       *)
(* connection health are one critical section of c.mu.                     *)
RecordWatchError(r) ==
  /\ NoteWatchError(r)
  /\ watchUnhealthy' = IF KindSettled(r.kind) /\ ~IsPermissionError(r.what)
                         THEN [watchUnhealthy EXCEPT ![r.kind] = r.client]
                         ELSE watchUnhealthy
  /\ allKindsSynced' = (allKindsSynced \/ Sweep(kindFailed'))
  /\ \E recent \in BOOLEAN :
       health' = OnWatchError(health, r.what, client \in Static,
                              Ready(allKindsSynced', watchUnhealthy'),
                              reached # NoClient \/ client \in responded, recent, r.client)
  /\ wake' = (wake \/ health' # health)
  /\ UNCHANGED <<reached, retry>>

(* recordWatchEnded for a clean end: never connection news.                *)
RecordWatchRotated(r) ==
  /\ watchUnhealthy' = IF KindSettled(r.kind)
                         THEN [watchUnhealthy EXCEPT ![r.kind] = r.client]
                         ELSE watchUnhealthy
  /\ UNCHANGED <<kindFailed, kindStalled, reached, allKindsSynced, health, retry, wake>>

(* Fault: the record is left for the informer's next object event to clear. *)
RecordWatchEstablishedLater(r) ==
  UNCHANGED <<kindFailed, kindStalled, watchUnhealthy, reached, allKindsSynced, health, wake,
              retry>>

(* recordWatchEstablished: the last broken watch to come back asks for a   *)
(* probe at once.                                                          *)
RecordWatchEstablished(r) ==
  /\ watchUnhealthy' = [watchUnhealthy EXCEPT ![r.kind] = NoClient]
  /\ retry' = \/ retry
              \/ /\ watchUnhealthy[r.kind] # NoClient
                 /\ Ready(TRUE, watchUnhealthy')
  /\ UNCHANGED <<kindFailed, kindStalled, reached, allKindsSynced, health, wake>>

(* notifyScope's latch (the message itself is in module EventCoalescer).     *)
NoteReached(r) ==
  /\ reached' = r.client
  /\ UNCHANGED <<kindFailed, kindStalled, watchUnhealthy, allKindsSynced, health, retry, wake>>

(* A handler call reaches its critical section, and does nothing when the  *)
(* generation its closure captured has been replaced.                      *)
Deliver(r) ==
  /\ r \in reports
  /\ reports' = reports \ {r}
  /\ \/ /\ Stale(r.gen)
        /\ UNCHANGED <<kindFailed, kindStalled, watchUnhealthy, reached, allKindsSynced, health,
                       retry, wake>>
     \/ ~Stale(r.gen) /\ r.what = "event"       /\ NoteReached(r)
     \/ ~Stale(r.gen) /\ r.what = "established" /\ RecordWatchEstablished(r)
     \/ ~Stale(r.gen) /\ r.what = "rotated"     /\ RecordWatchRotated(r)
     \/ ~Stale(r.gen) /\ r.what \in Failures    /\ RecordWatchError(r)
  /\ UNCHANGED <<clusterVars, kindInformers, errHandler, gateVars, starter, loop, clientGoVars,
                 asked>>

-----------------------------------------------------------------------------
(***************************************************************************)
(* Readers.                                                                *)
(***************************************************************************)

(* Fault: no noteInformerStartedLocked, the latch stands.                  *)
EnsureKindUnderLatch(k) ==
  /\ ~stopped /\ ~Started(k)
  /\ started \/ "early_read" \in Occurs
  /\ kindInformers' = [kindInformers EXCEPT ![k] = generation]
  /\ errHandler' = [errHandler EXCEPT ![k] = generation]
  /\ UNCHANGED <<clusterVars, reached, kindFailed, kindStalled, watchUnhealthy, allKindsSynced,
                 health, retry, wake, gateVars, starter, loop, clientGoVars, reports, asked>>

(* ensureKind: the first read of a kind registers and starts its informer. *)
(* Nothing makes it wait for Start: the launch's Start has a goroutine of  *)
(* its own, and SwitchContext lets c.mu go before it calls Start.          *)
EnsureKind(k) ==
  /\ ~stopped /\ ~Started(k)
  /\ started \/ "early_read" \in Occurs
  /\ kindInformers' = [kindInformers EXCEPT ![k] = generation]
  /\ errHandler' = [errHandler EXCEPT ![k] = generation]
  /\ allKindsSynced' = FALSE
  /\ UNCHANGED <<clusterVars, reached, kindFailed, kindStalled, watchUnhealthy, health, retry,
                 wake, gateVars, starter, loop, clientGoVars, reports, asked>>

(* KindSynced and KindError forget a stall once the cache has filled.      *)
ReadKind(k) ==
  /\ KindSettled(k)
  /\ kindStalled' = [kindStalled EXCEPT ![k] = NoClient]
  /\ UNCHANGED <<clusterVars, reached, kindInformers, errHandler, kindFailed, watchUnhealthy,
                 allKindsSynced, health, retry, wake, gateVars, starter, loop, clientGoVars,
                 reports, asked>>

-----------------------------------------------------------------------------
(***************************************************************************)
(* Start, SwitchContext, Stop.                                             *)
(***************************************************************************)
Moved(t, pc, keys) ==
  [starter EXCEPT ![t] = [pc |-> pc, client |-> starter[t].client, gen |-> starter[t].gen,
                          keys |-> keys]]
Move(t, pc) == starter' = Moved(t, pc, starter[t].keys)

(* Start's two early returns.                                              *)
RegistersAgain == ~stopped   (* Fault: a started cluster is started again. *)
MayRegister == ~started /\ ~stopped

(* Start's critical section: bump the generation, register the eager kinds *)
(* under it, spawn the health loop.  The handlers of a kind that a read    *)
(* registered first are added again, all but the WatchErrorHandler: a      *)
(* running informer refuses to replace it.                                 *)
StartRegisters(t) ==
  /\ starter[t].pc = "called"
  /\ MayRegister
  /\ started' = TRUE
  /\ generation' = generation + 1
  /\ kindInformers' = [k \in Kinds |-> IF k \in Eager THEN generation + 1 ELSE kindInformers[k]]
  /\ errHandler' = [k \in Kinds |-> IF k \in Eager /\ ~Started(k) THEN generation + 1
                                                                   ELSE errHandler[k]]
  /\ allKindsSynced' = IF Eager = {} THEN allKindsSynced ELSE FALSE
  /\ loop' = [loop EXCEPT ![client] = [pc |-> "spawned", gen |-> generation + 1,
                                        timer |-> "fired", result |-> "ok"]]
  /\ starter' = [starter EXCEPT ![t] = [pc |-> "started", client |-> client,
                                        gen |-> generation + 1, keys |-> {}]]
  /\ UNCHANGED <<client, stopped, synced, reached, kindFailed, kindStalled, watchUnhealthy,
                 health, retry, wake, gateVars, clientGoVars, reports, asked>>

(* Start on a started cluster returns at once, on a stopped one it fails.  *)
StartRefused(t) ==
  /\ starter[t].pc = "called"
  /\ started \/ stopped
  /\ Move(t, IF started THEN "returned" ELSE "failed")
  /\ UNCHANGED <<clusterVars, reached, kindVars, allKindsSynced, health, retry, wake, gateVars,
                 loop, clientGoVars, reports, asked>>

(* eagerHasSynced reads c.eagerKeys in a critical section of its own: a    *)
(* SwitchContext that came first leaves it nothing to wait for.            *)
StartCaptures(t) ==
  /\ starter[t].pc = "started"
  /\ starter' = Moved(t, "waiting", IF started THEN Eager ELSE {})
  /\ UNCHANGED <<clusterVars, reached, kindVars, allKindsSynced, health, retry, wake, gateVars,
                 loop, clientGoVars, reports, asked>>

(* eagerHasSynced's function of one key: a denial settles it, a failing    *)
(* LIST does not, and a key of a replaced cluster has nothing to wait for. *)
EagerSettled(k) == kindFailed[k] # NoClient \/ (Started(k) => hasSynced[k])

(* waitForCacheSync polls the current cluster's caches, whichever it is.   *)
StartSettles(t) ==
  /\ starter[t].pc = "waiting"
  /\ \A k \in starter[t].keys : EagerSettled(k)
  /\ Move(t, "settled")
  /\ UNCHANGED <<clusterVars, reached, kindVars, allKindsSynced, health, retry, wake, gateVars,
                 loop, clientGoVars, reports, asked>>

(* ... or its stop channel closes, or the switch's own deadline passes.    *)
CutShortByDeadline(t) == t = "switch"   (* Fault: the stop channel is not watched. *)
CutShort(t) == StopClosed(starter[t].client) \/ t = "switch"

StartGivesUp(t) ==
  /\ starter[t].pc = "waiting"
  /\ CutShort(t)
  /\ Move(t, "failed")
  /\ UNCHANGED <<clusterVars, reached, kindVars, allKindsSynced, health, retry, wake, gateVars,
                 loop, clientGoVars, reports, asked>>

(* The settled Start marks the cluster it connected, if it still is it.    *)
StartMarks(t) ==
  /\ starter[t].pc = "settled"
  /\ starter' = Moved(t, "returned", {})
  /\ IF Stale(starter[t].gen)
       THEN UNCHANGED <<synced, reached>>
       ELSE synced' = starter[t].client /\ reached' = starter[t].client
  /\ UNCHANGED <<generation, client, stopped, started, kindVars, allKindsSynced, health, retry,
                 wake, gateVars, loop, clientGoVars, reports, asked>>

(* SwitchContext's critical section, once the target's client was built    *)
(* (a failure to build it changes nothing).  The root shell's rebuild gate *)
(* lets one switch run at a time.                                          *)
ReplaceClient ==
  /\ client < MaxSwitch
  /\ starter["switch"].pc \in {"idle", "returned", "failed"}
  /\ client' = client + 1
  /\ stopped' = FALSE /\ started' = FALSE
  /\ synced' = NoClient /\ reached' = NoClient
  /\ kindInformers' = [k \in Kinds |-> NoGen]
  /\ errHandler' = [k \in Kinds |-> NoGen]
  /\ kindFailed' = [k \in Kinds |-> NoClient]
  /\ kindStalled' = [k \in Kinds |-> NoClient]
  /\ watchUnhealthy' = [k \in Kinds |-> NoClient]
  /\ allKindsSynced' = FALSE
  /\ health' = Connected /\ wake' = TRUE
  /\ Move("switch", "called")
  /\ hasSynced' = [k \in Kinds |-> FALSE]
  /\ stream' = [k \in Kinds |-> "down"]
  /\ denied' = {} /\ healthy' = FALSE
  /\ passed' = {}
  /\ UNCHANGED <<retry, blocked, probeAllowed, responded, calling, loop, reports, asked>>

SwitchContext == ReplaceClient /\ generation' = generation + 1

(* Fault: Stop only closes the stop channel.                               *)
StopWithoutBump ==
  /\ "stop" \in Occurs /\ ~stopped
  /\ stopped' = TRUE
  /\ UNCHANGED <<generation, client, started, synced, reached, kindVars, allKindsSynced, health,
                 retry, wake, gateVars, starter, loop, clientGoVars, reports, asked>>

(* Stop: the generation goes first, so that nothing in flight lands.       *)
Stop ==
  /\ "stop" \in Occurs /\ ~stopped
  /\ stopped' = TRUE
  /\ generation' = generation + 1
  /\ UNCHANGED <<client, started, synced, reached, kindVars, allKindsSynced, health, retry,
                 wake, gateVars, starter, loop, clientGoVars, reports, asked>>

-----------------------------------------------------------------------------
(***************************************************************************)
(* The health loop of client c, spawned by its Start.  When its stop       *)
(* channel is closed and a token is also waiting, select picks either.     *)
(***************************************************************************)
LoopAt(c, pc, timer, result) ==
  [loop EXCEPT ![c] = [pc |-> pc, gen |-> loop[c].gen, timer |-> timer, result |-> result]]

LoopBegins(c) ==
  /\ loop[c].pc = "spawned"
  /\ loop' = LoopAt(c, "selecting", ProbeTimer(health), "ok")
  /\ UNCHANGED <<clusterVars, reached, kindVars, allKindsSynced, health, retry, wake, gateVars,
                 starter, clientGoVars, reports, asked>>

(* Fault: the loop reads c.stopCh, which Stop makes nil, at every turn.    *)
LoopExitsOnSwitch(c) ==
  /\ loop[c].pc = "selecting" /\ c # client
  /\ loop' = LoopAt(c, "exited", "fired", "ok")
  /\ UNCHANGED <<clusterVars, reached, kindVars, allKindsSynced, health, retry, wake, gateVars,
                 starter, clientGoVars, reports, asked>>

LoopExits(c) ==
  /\ loop[c].pc = "selecting" /\ StopClosed(c)
  /\ loop' = LoopAt(c, "exited", "fired", "ok")
  /\ UNCHANGED <<clusterVars, reached, kindVars, allKindsSynced, health, retry, wake, gateVars,
                 starter, clientGoVars, reports, asked>>

LoopRearms(c) ==
  /\ loop[c].pc = "selecting" /\ wake
  /\ wake' = FALSE
  /\ loop' = LoopAt(c, "selecting", ProbeTimer(health), "ok")
  /\ UNCHANGED <<clusterVars, reached, kindVars, allKindsSynced, health, retry, gateVars,
                 starter, clientGoVars, reports, asked>>

(* Fault: the probe does not use the grant up.                             *)
ProbesFreely(c) ==
  /\ IF ~blocked[c] \/ probeAllowed[c]
       THEN /\ loop' = LoopAt(c, "probing", "fired", "ok")
            /\ asked' = asked \ {c}
       ELSE /\ loop' = LoopAt(c, "probed", "fired", "gated")
            /\ UNCHANGED asked
  /\ UNCHANGED <<clusterVars, reached, kindVars, allKindsSynced, health, wake, gateVars, starter,
                 clientGoVars, reports>>

(* The probe's request reaches the gate: let through, let through on the   *)
(* one grant of a RetryNow, or answered with errAuthenticationGated.       *)
Probes(c) ==
  /\ IF ~blocked[c] \/ probeAllowed[c]
       THEN /\ loop' = LoopAt(c, "probing", "fired", "ok")
            /\ probeAllowed' = [probeAllowed EXCEPT ![c] = FALSE]
            /\ asked' = asked \ {c}
       ELSE /\ loop' = LoopAt(c, "probed", "fired", "gated")
            /\ UNCHANGED <<probeAllowed, asked>>
  /\ UNCHANGED <<clusterVars, reached, kindVars, allKindsSynced, health, wake, blocked, responded,
                 calling, passed, starter, clientGoVars, reports>>

LoopTicks(c) ==
  /\ loop[c].pc = "selecting" /\ loop[c].timer = "armed"
  /\ Probes(c)
  /\ UNCHANGED retry

LoopRetries(c) ==
  /\ loop[c].pc = "selecting" /\ retry
  /\ retry' = FALSE
  /\ Probes(c)

(* The answer to /livez.  A cancelled request may still return anything.   *)
ProbeReturns(c, answer) ==
  /\ loop[c].pc = "probing"
  /\ healthy /\ c = client => answer = "ok"
  /\ loop' = LoopAt(c, "probed", "fired", answer)
  /\ IF answer = "ok"
       THEN /\ responded' = responded \cup {c}
            /\ UNCHANGED <<blocked, probeAllowed, calling>>
       ELSE GateSees(c, answer)
  /\ passed' \in IF c = client /\ Blocks(c, answer) THEN SUBSET InFlight ELSE {passed}
  /\ UNCHANGED <<clusterVars, reached, kindVars, allKindsSynced, health, retry, wake, starter,
                 clientGoVars, reports, asked>>

(* ping's critical section, for a generation that is still current.        *)
ProbeAnswered(c) ==
  /\ loop[c].result = "ok"
  /\ blocked' = [blocked EXCEPT ![c] = FALSE]
  /\ probeAllowed' = [probeAllowed EXCEPT ![c] = FALSE]
  /\ passed' = {}
  /\ reached' = c
  /\ allKindsSynced' = (allKindsSynced \/ Sweep(kindFailed))
  /\ health' = OnPingAnswered(health, Ready(allKindsSynced', watchUnhealthy), c)
  /\ wake' = TRUE

ProbeFailed(c) ==
  LET err == loop[c].result IN
  /\ err # "ok"
  /\ ~(blocked[c] /\ ~IsAuthenticationError(err))
  /\ reached' = IF AnyCacheSynced THEN c ELSE reached
  /\ allKindsSynced' = (allKindsSynced \/ Sweep(kindFailed))
  /\ \E recent \in BOOLEAN :
       LET synced_ == Ready(allKindsSynced', watchUnhealthy)
           proven == reached' # NoClient \/ c \in responded
       IN  /\ health' = OnPingFailed(health, err, c \in Static, synced_, proven, recent, c)
           /\ wake' = \/ wake
                      \/ NeedsReauth(err, c \in Static)
                      \/ ~InConnectGrace(synced_, proven, err, recent)
  /\ UNCHANGED <<blocked, probeAllowed, passed>>

(* A failure other than the credential's says nothing while the gate is    *)
(* blocked, and a result of a replaced generation says nothing at all.     *)
ProbeIgnored(c) ==
  /\ \/ Stale(loop[c].gen)
     \/ loop[c].result # "ok" /\ blocked[c] /\ ~IsAuthenticationError(loop[c].result)
  /\ UNCHANGED <<blocked, probeAllowed, passed, reached, allKindsSynced, health, wake>>

ProbeApplies(c) ==
  /\ loop[c].pc = "probed"
  /\ \/ ~Stale(loop[c].gen) /\ (ProbeAnswered(c) \/ ProbeFailed(c))
     \/ ProbeIgnored(c)
  /\ loop' = LoopAt(c, "selecting", ProbeTimer(health'), "ok")
  /\ UNCHANGED <<clusterVars, kindVars, retry, responded, calling, starter, clientGoVars,
                 reports, asked>>

-----------------------------------------------------------------------------
(***************************************************************************)
(* The environment: this identity loses the right to list a kind, and the  *)
(* link and the apiserver recover for good.                                *)
(***************************************************************************)
Deny(k) ==
  /\ "forbidden" \in Errors /\ ~healthy /\ k \notin denied
  /\ denied' = denied \cup {k}
  /\ UNCHANGED <<clusterVars, reached, kindVars, allKindsSynced, health, retry, wake, gateVars,
                 starter, loop, hasSynced, stream, healthy, reports, asked>>

Recover ==
  /\ "recover" \in Occurs /\ ~healthy
  /\ healthy' = TRUE
  /\ UNCHANGED <<clusterVars, reached, kindVars, allKindsSynced, health, retry, wake, gateVars,
                 starter, loop, hasSynced, stream, denied, reports, asked>>

-----------------------------------------------------------------------------
Init ==
  /\ generation = 0 /\ client = 0
  /\ stopped = FALSE /\ started = FALSE
  /\ synced = NoClient /\ reached = NoClient
  /\ kindInformers = [k \in Kinds |-> NoGen]
  /\ errHandler = [k \in Kinds |-> NoGen]
  /\ kindFailed = [k \in Kinds |-> NoClient]
  /\ kindStalled = [k \in Kinds |-> NoClient]
  /\ watchUnhealthy = [k \in Kinds |-> NoClient]
  /\ allKindsSynced = FALSE
  /\ health = Connected
  /\ retry = FALSE /\ wake = FALSE
  /\ blocked = [c \in Clients |-> FALSE]
  /\ probeAllowed = [c \in Clients |-> FALSE]
  /\ responded = {}
  /\ calling = {} /\ passed = {}
  /\ starter = [t \in Starters |-> [pc |-> IF t = "launch" THEN "called" ELSE "idle",
                                    client |-> 0, gen |-> NoGen, keys |-> {}]]
  /\ loop = [c \in Clients |-> [pc |-> "none", gen |-> NoGen, timer |-> "fired", result |-> "ok"]]
  /\ hasSynced = [k \in Kinds |-> FALSE]
  /\ stream = [k \in Kinds |-> "down"]
  /\ reports = {}
  /\ denied = {} /\ healthy = FALSE
  /\ asked = {}

KindSteps(k) ==
  \/ EnsureKind(k) \/ ReadKind(k)
  \/ ListSucceeds(k) \/ WatchOpens(k) \/ ObjectChanges(k) \/ Deny(k)
  \/ \E how \in {"rotated"} \cup (Errors \cap {"timeout", "refused"}) : WatchEnds(k, how)
  \/ \E err \in Errors \cup {"gated"} : RequestFails(k, err)

StartSteps(t) ==
  \/ StartRegisters(t) \/ StartRefused(t) \/ StartCaptures(t)
  \/ StartSettles(t) \/ StartGivesUp(t) \/ StartMarks(t)

LoopSteps(c) ==
  \/ LoopBegins(c) \/ LoopExits(c) \/ LoopRearms(c) \/ LoopTicks(c) \/ LoopRetries(c)
  \/ \E answer \in Errors \cup {"ok"} : ProbeReturns(c, answer)
  \/ ProbeApplies(c)

Next ==
  \/ \E k \in Kinds : KindSteps(k)
  \/ \E r \in reports : Deliver(r)
  \/ \E t \in Starters : StartSteps(t)
  \/ \E c \in Clients : LoopSteps(c) \/ OnBlocked(c)
  \/ SwitchContext \/ Stop \/ RetryNow \/ Recover

Spec == Init /\ [][Next]_vars

(***************************************************************************)
(* Fairness.  Every goroutine keeps running, every request ends (client    *)
(* timeouts bound each), and a select that finds a channel ready again and *)
(* again takes it in the end.  Nothing makes the user press r, switch or   *)
(* stop, an object change, a watch break or an identity lose a right.      *)
(***************************************************************************)

(* What the end of a context takes: its Start and its loop run on, a probe *)
(* returns, and the closed stop channel is taken in the end however often  *)
(* a tick or a token is ready too.  No request has to succeed for it, and  *)
(* no reflector, token or tick to be served.                               *)
ContextGoroutines ==
  /\ \A t \in Starters : WF_vars(StartSteps(t))
  /\ \A c \in Clients :
       /\ WF_vars(LoopBegins(c)) /\ SF_vars(LoopExits(c)) /\ WF_vars(ProbeApplies(c))
       /\ WF_vars(\E answer \in Errors \cup {"ok"} : ProbeReturns(c, answer))

Fairness ==
  /\ ContextGoroutines
  /\ \A k \in Kinds :
       /\ WF_vars(ListSucceeds(k)) /\ WF_vars(WatchOpens(k))
       /\ WF_vars(\E err \in Errors \cup {"gated"} : RequestFails(k, err))
  /\ WF_vars(\E r \in reports : Deliver(r))
  /\ \A c \in Clients :
       /\ WF_vars(OnBlocked(c))
       /\ SF_vars(LoopRearms(c)) /\ SF_vars(LoopTicks(c)) /\ SF_vars(LoopRetries(c))

LeavingSpec == Spec /\ ContextGoroutines

FairSpec == Spec /\ Fairness

-----------------------------------------------------------------------------
ConnStates == [phase : Phases, attempt : 0..MaxAttempt, from : Clients \cup {NoClient}]

Reports == [client : Clients, gen : Nat \cup {NoGen}, kind : Kinds,
            what : Failures \cup {"event", "established", "rotated"}]

Loops == [pc : {"none", "spawned", "selecting", "probing", "probed", "exited"},
          gen : Nat \cup {NoGen}, timer : {"armed", "parked", "fired"},
          result : Failures \cup {"ok"}]

StarterStates == [pc : {"idle", "called", "started", "waiting", "settled", "returned", "failed"},
                  client : Clients, gen : Nat \cup {NoGen}, keys : SUBSET Eager]

TypeOK ==
  /\ generation \in Nat /\ client \in Clients
  /\ stopped \in BOOLEAN /\ started \in BOOLEAN
  /\ synced \in Clients \cup {NoClient} /\ reached \in Clients \cup {NoClient}
  /\ kindInformers \in [Kinds -> Nat \cup {NoGen}]
  /\ errHandler \in [Kinds -> Nat \cup {NoGen}]
  /\ kindFailed \in [Kinds -> Clients \cup {NoClient}]
  /\ kindStalled \in [Kinds -> Clients \cup {NoClient}]
  /\ watchUnhealthy \in [Kinds -> Clients \cup {NoClient}]
  /\ allKindsSynced \in BOOLEAN
  /\ health \in ConnStates
  /\ retry \in BOOLEAN /\ wake \in BOOLEAN
  /\ blocked \in [Clients -> BOOLEAN] /\ probeAllowed \in [Clients -> BOOLEAN]
  /\ responded \subseteq Clients /\ calling \subseteq Clients /\ passed \subseteq Kinds
  /\ starter \in [Starters -> StarterStates]
  /\ loop \in [Clients -> Loops]
  /\ hasSynced \in [Kinds -> BOOLEAN] /\ stream \in [Kinds -> {"up", "down"}]
  /\ reports \subseteq Reports
  /\ denied \subseteq Kinds /\ healthy \in BOOLEAN
  /\ asked \subseteq Clients

(***************************************************************************)
(* Safety.                                                                 *)
(***************************************************************************)

(* Everything recorded about the cluster (its latches, each kind's denial, *)
(* stall and broken watch, the outage on the header) came from the context *)
(* now active: a watch error, an event, a probe, a credential callback or  *)
(* a settled Start of the context a SwitchContext replaced leaves no trace *)
(* (generation's and recordWatchError's comments).                         *)
OnlyTheCurrentCluster ==
  LET here == {client, NoClient} IN
  /\ synced \in here /\ reached \in here /\ health.from \in here
  /\ \A k \in Kinds : {kindFailed[k], kindStalled[k], watchUnhealthy[k]} \subseteq here

(* Why that holds: whatever a goroutine of any context still carries, the  *)
(* generation it captured is current only if its client is, so the check   *)
(* in each callback tells the contexts apart without naming them.          *)
GenerationIdentifiesClient ==
  /\ \A r \in reports : r.gen <= generation /\ (r.gen = generation => r.client = client)
  /\ \A c \in Clients : loop[c].gen <= generation /\ (loop[c].gen = generation => c = client)
  /\ \A t \in Starters :
       /\ starter[t].gen <= generation
       /\ starter[t].gen = generation => starter[t].client = client
  /\ \A k \in Kinds : kindInformers[k] <= generation /\ errHandler[k] <= generation

(* The allKindsSynced latch never answers for an informer that is still    *)
(* doing its initial LIST, however informers start, fail and sync around   *)
(* it: it is what tells the connect grace and the recovery from an outage  *)
(* that nothing is listing any more.                                       *)
LatchIsSound == allKindsSynced => Sweep(kindFailed)

(* A cluster reported synced has every eager cache settled: a Start whose  *)
(* wait was cut short by a SwitchContext (no keys left to wait for, or the *)
(* other cluster's caches to poll) does not mark the cluster that replaced *)
(* its own.                                                                *)
SyncedMeansSettled ==
  synced # NoClient => \A k \in Eager : Started(k) /\ (hasSynced[k] \/ kindFailed[k] # NoClient)

(* A Start still in flight under the current generation waits for its own  *)
(* eager kinds, all registered: the critical section that captures them    *)
(* comes after the one that started the cluster, and only a SwitchContext  *)
(* (which bumps the generation) could come between with none to capture.   *)
StartUnderWay(t) == starter[t].pc \in {"started", "waiting", "settled"}

StartInFlight(t) == starter[t].gen = generation /\ StartUnderWay(t)

CurrentStartWaitsForEager ==
  /\ started => \A k \in Eager : Started(k)
  /\ \A t \in Starters : StartInFlight(t) =>
       /\ started
       /\ starter[t].pc # "started" => starter[t].keys = Eager
       /\ starter[t].pc = "settled" =>
            \A k \in Eager : hasSynced[k] \/ kindFailed[k] # NoClient

(* A probe passes a blocked gate only for a press of r made since the last *)
(* probe of that client: neither the reflectors' retries nor the health    *)
(* loop's own ticks re-run a credential plugin that has just failed.       *)
OneProbePerPress ==
  [][ \A c \in Clients :
        blocked[c] /\ loop[c].pc = "selecting" /\ loop'[c].pc = "probing" => c \in asked ]_vars

(* Traffic that the gate holds back is never held back silently: once its  *)
(* callback has run, the session says credentials are needed.              *)
BlockedIsShown ==
  blocked[client] /\ client \notin calling => health.phase = "unauthenticated"

(* The health loop never sleeps on its 24h timer through an outage that is *)
(* meant to be retried: out of the unauthenticated phase its timer is      *)
(* armed, or a wake token is there to make it recompute.                   *)
ProbingGoesOn ==
  loop[client].pc = "selecting" /\ loop[client].timer = "parked" =>
    health.phase = "unauthenticated" \/ wake \/ stopped

(* An outage ends only when nothing is broken: the step that turns the     *)
(* header green on the same client finds every started kind filled or      *)
(* forbidden and no watch waiting to be re-established.                    *)
GreenOnlyWhenReady ==
  [][ Offline(health) /\ ~Offline(health') /\ client' = client =>
        /\ Sweep(kindFailed)
        /\ \A k \in Kinds : watchUnhealthy[k] = NoClient ]_vars

(* A client gets one health loop for its whole life, whichever of the      *)
(* launch's Start and the switch's Start comes first.                      *)
OneLoopPerClient ==
  [][ \A c \in Clients : loop[c].pc # "none" => loop'[c].pc # "spawned" \/ loop'[c] = loop[c] ]_vars

(* Once Stop has run, a probe, a watch error, an event or a settled Start  *)
(* still in flight records nothing more (Stop bumps the generation before  *)
(* it cancels them); only a credential callback may still change what the  *)
(* header said.                                                            *)
NothingLandsAfterStop ==
  [][ stopped /\ stopped' =>
        /\ UNCHANGED <<synced, reached, kindFailed, watchUnhealthy, allKindsSynced>>
        /\ health' # health => calling' # calling ]_vars

(***************************************************************************)
(* Liveness.                                                               *)
(***************************************************************************)

(* Once the link and the apiserver are well again the session turns green, *)
(* unless it waits for a human to sign in again or was stopped: no lost    *)
(* wake token, sleeping timer or stuck watch record keeps it offline.      *)
Recovers ==
  healthy /\ denied = {} ~> health.phase \in {"connected", "unauthenticated"} \/ stopped

(* A kind this identity may not list settles once requests get through, so *)
(* that the screen reading it shows the denial: "a caller gating a loading *)
(* state on this can never spin forever waiting for a cache that is never  *)
(* going to arrive" (KindSynced).  A read that comes before Start refutes  *)
(* it (the violation run), no other order does: Start's second bump of the *)
(* generation is not "redundant but harmless".                             *)
SpinnersEnd ==
  \A k \in Kinds : healthy /\ k \in denied /\ Started(k) ~> KindSynced(k)

(* A Start that registered the caches of a context, and whose context is   *)
(* then left by a SwitchContext or stopped, returns: it is not stranded on *)
(* caches nobody fills any more.  (One that has not registered yet belongs *)
(* to no context: it starts the one now active, or is refused.)            *)
Superseded(t) == StartUnderWay(t) /\ StopClosed(starter[t].client)

SupersededStartReturns ==
  \A t \in Starters : Superseded(t) ~> starter[t].pc \in {"returned", "failed"}

(* A health loop whose client was replaced or stopped ends.                *)
LoopsEnd ==
  \A c \in Clients : StopClosed(c) ~> loop[c].pc \in {"none", "exited"}

(***************************************************************************)
(* What the source says and the code does not do: one run refutes each.    *)
(***************************************************************************)

(* "A 403 is not a connection fact ... it has answered one kind's LIST     *)
(* with no ... while the rest of the app carries on" (onWatchError): a     *)
(* forbidden kind alone does not keep a recovered session offline.         *)
ForbiddenKindNeverKeepsOffline ==
  healthy /\ (\A k \in Kinds : Started(k) => k \in denied \/ stream[k] = "up")
    ~> health.phase = "connected"

(* "ConnUnauthenticated is: there is no usable credential for this         *)
(* cluster": the session does not say so once /livez has opened the gate.  *)
UnauthenticatedMeansGated == health.phase = "unauthenticated" => blocked[client]
=============================================================================
