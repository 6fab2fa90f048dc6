----------------------------- MODULE EventBridge -----------------------------
(***************************************************************************)
(* How a change in a cluster reaches a screen of kute, and how the kinds   *)
(* only the cluster knows reach the kind registry.                         *)
(*                                                                         *)
(*   informers, column fetches  --c.events-->  eventCoalescer              *)
(*       --program.Send-->  the root shell: registry, then the screens     *)
(*                                                                         *)
(* Actors: the informers' callbacks, the bridge goroutine (forwardEvents), *)
(* one goroutine per printer-column fetch, the launch's detached Start,    *)
(* the Cmd of a context switch, and the event loop, which handles one      *)
(* message per Send or Land step.  A context switch replaces every cache,  *)
(* which c.generation tells apart; the events channel survives it.         *)
(*                                                                         *)
(* Time is a number of ticks.  The bridge is prompt: no tick passes while  *)
(* its timer has fired or a message of a flush is still to be sent.        *)
(***************************************************************************)
EXTENDS Integers, Sequences, FiniteSets, Discovery

CONSTANTS
  Kinds,        (* Kinds whose changes are modelled, the built-in ones.     *)
  Namespaces,   (* Namespaces a cache or a read is limited to.              *)
  Caches,       (* The caches that change: a kind at a scope.               *)
  Reads,        (* What screens show: a kind, or one derived, at a scope.   *)
  Served,       (* What the cluster of each generation serves.              *)
  Curated,      (* Discovered kinds with columns of kute's own.             *)
  Debounce,     (* resourceEventDebounce in ticks.                          *)
  MaxWait,      (* resourceEventMaxWait in ticks.                           *)
  EventBuffer,  (* Capacity of c.events.                                    *)
  LastGeneration, (* Bound: SwitchContext calls.                            *)
  Sessions      (* Bound: what changes, what is opened, how many switches.  *)

Everywhere == "every namespace"
Scopes     == Namespaces \cup {Everywhere}
CRD        == "CustomResourceDefinition"
Off        == -1             \* eventTimerC is nil
Generations == 0..LastGeneration
NoSnapshot == -1
Neutral    == -1             \* NAME and AGE, before the CRD was fetched

DerivedKinds == {"HelmRelease", "Tunnel"}
Messages == [kind : Kinds, scope : Scopes, columns : BOOLEAN]

ASSUME BridgeAssumption ==
  /\ CRD \in Kinds /\ Kinds \cap DerivedKinds = {}
  /\ Everywhere \notin Namespaces
  /\ Caches \subseteq [kind : Kinds, scope : Scopes]
  /\ Reads \subseteq [kind : Kinds \cup DerivedKinds, scope : Scopes]
  /\ Debounce \in Nat \ {0} /\ MaxWait \in Nat /\ Debounce <= MaxWait
  /\ EventBuffer \in Nat \ {0}
  /\ LastGeneration \in Nat
  /\ Served \in [Generations -> SUBSET DiscoveredKind]
  /\ Curated \subseteq DiscoveredKind
  /\ Sessions \subseteq [changes : SUBSET Caches, opened : SUBSET Keys, switches : Nat]

VARIABLES
  session,      (* the session's bounds, chosen at the start               *)
  events,       (* c.events                                                *)
  pending,      (* eventCoalescer.pending: per kind, the ages of its first *)
                (* and last event, the folded scope and columnsArrived     *)
  timer,        (* ticks until the bridge's timer fires                    *)
  outbox,       (* messages of the running flushDue still to be sent       *)
  gen,          (* c.generation, counting SwitchContexts                   *)
  discovered,   (* c.discovered: the generation it is of, kinds, columns   *)
  fetched,      (* c.crdColumnsFetched                                     *)
  inFlight,     (* c.crdColumnsInFlight                                    *)
  fetches,      (* the goroutines of ensurePrinterColumns                  *)
  launch,       (* the first Start: "discovering", "announced", "done"     *)
  switch,       (* the switch Cmd: "idle", at work ("client", "target",    *)
                (* "rollback") or its message ("refused", "back", "there") *)
  registry,     (* Session.Registry: the snapshot it was built from        *)
  stale,        (* history: reads that changed, their screens not told     *)
  dropped       (* history: an announcement of columns found c.events full *)

bridgeVars   == <<pending, timer, outbox>>
contextVars  == <<gen, discovered, fetched, inFlight, launch, switch>>
vars == <<session, events, bridgeVars, contextVars, fetches, registry, stale, dropped>>

Switching == switch # "idle"

Nothing == [of |-> NoSnapshot, kinds |-> {}, columns |-> [dk \in {} |-> Neutral]]
Snapshot(g) == [of |-> g, kinds |-> Served[g],
                columns |-> [dk \in Served[g] |-> Neutral]]

Init ==
  /\ session \in Sessions
  /\ events = << >> /\ pending = [k \in {} |-> 0] /\ timer = Off /\ outbox = {}
  /\ gen = 0 /\ discovered = Nothing /\ fetched = {} /\ inFlight = {}
  /\ fetches = {} /\ launch = "discovering" /\ switch = "idle"
  /\ registry = Nothing /\ stale = {} /\ dropped = FALSE
-----------------------------------------------------------------------------
(*                     From the informers to the channel                   *)

(* ResourceChangedMsg.Affects, of a message and a read. *)
Affects(scope, r) == scope = Everywhere \/ r.scope = Everywhere \/ r.scope = scope

(* What renders a kind: its list, and what is derived from it. *)
Renders(r, kind) == \/ r.kind = kind
                    \/ kind = "Secret" /\ r.kind = "HelmRelease"
                    \/ kind = "Pod" /\ r.kind = "Tunnel"

(* The send every notify ends in: a full channel drops the message. *)
NotifyAlways(m) == events' = Append(events, m)
Notify(m) ==
  events' = IF Len(events) < EventBuffer THEN Append(events, m) ELSE events

ChangeMsg(c) == [kind |-> c.kind, scope |-> c.scope, columns |-> FALSE]

(* An object changes in the cache (c.kind, c.scope): notifyScope. *)
Change(c) ==
  /\ stale' = stale \cup {r \in Reads : Renders(r, c.kind) /\ Affects(c.scope, r)}
  /\ Notify(ChangeMsg(c))
  /\ UNCHANGED <<session, bridgeVars, contextVars, fetches, registry, dropped>>

(* The informer's resync repeats an object of that cache as an update. *)
Resync(c) ==
  /\ Notify(ChangeMsg(c))
  /\ UNCHANGED <<session, bridgeVars, contextVars, fetches, registry, stale, dropped>>
-----------------------------------------------------------------------------
(*                           The bridge goroutine                          *)

Least(a, b) == IF a <= b THEN a ELSE b

(* pendingEvent.due, counted from now. *)
QuietAlone(p) == Debounce - p.last     \* no bound: a plain debounce
Due(p) == Least(Debounce - p.last, MaxWait - p.first)

Delay(p) == IF Due(p) >= 0 THEN Due(p) ELSE 0

(* resetEventTimer: t is the time left to the earliest due time. *)
IsNext(t, waiting) ==
  \/ DOMAIN waiting = {} /\ t = Off
  \/ \E k \in DOMAIN waiting : /\ t = Delay(waiting[k])
                               /\ \A j \in DOMAIN waiting : t <= Delay(waiting[j])

(* observeMsg: one more event of m.kind, arriving now. *)
FlagOverwritten(m) == [first |-> pending[m.kind].first, last |-> 0,
                       scope |-> IF pending[m.kind].scope = m.scope THEN m.scope
                                 ELSE Everywhere, columns |-> m.columns]
FirstScopeKept(m) == [first |-> pending[m.kind].first, last |-> 0,
                      scope |-> pending[m.kind].scope,
                      columns |-> pending[m.kind].columns \/ m.columns]
Folded(m) ==
  LET p == pending[m.kind]
  IN  [first   |-> p.first,
       last    |-> 0,
       scope   |-> IF p.scope = m.scope THEN p.scope ELSE Everywhere,
       columns |-> p.columns \/ m.columns]

Fresh(m) == [first |-> 0, last |-> 0, scope |-> m.scope, columns |-> m.columns]

Observe ==
  /\ outbox = {} /\ events # << >>
  /\ LET m == Head(events)
     IN  pending' = [k \in DOMAIN pending \cup {m.kind} |->
                       IF k # m.kind THEN pending[k]
                       ELSE IF m.kind \in DOMAIN pending THEN Folded(m) ELSE Fresh(m)]
  /\ events' = Tail(events)
  /\ timer' \in Off..Debounce /\ IsNext(timer', pending')
  /\ UNCHANGED <<session, outbox, contextVars, fetches, registry, stale, dropped>>

DueKinds == {k \in DOMAIN pending : Due(pending[k]) <= 0}

(* The timer fires: flushDue takes every kind that is due. *)
FlushDue ==
  /\ outbox = {} /\ timer = 0
  /\ outbox' = {[kind |-> k, scope |-> pending[k].scope, columns |-> pending[k].columns] :
                  k \in DueKinds}
  /\ pending' = [k \in DOMAIN pending \ DueKinds |-> pending[k]]
  /\ timer' = Off
  /\ UNCHANGED <<session, events, contextVars, fetches, registry, stale, dropped>>

(* The reads a message reaches: the screens', with the Helm releases a     *)
(* Secret may hold, unless a switch swallows it; and the port-forwards     *)
(* ReconcilePodTargets checks, which no switch stops.                      *)
Told(m) ==
  {r \in Reads : Affects(m.scope, r) /\
     \/ ~ Switching /\ r.kind = m.kind
     \/ ~ Switching /\ m.kind = "Secret" /\ r.kind = "HelmRelease"
     \/ m.kind = "Pod" /\ r.kind = "Tunnel"}

(* One program.Send of flushDue and the root shell's handling of it; after *)
(* the last one flushDue sets its timer again.                             *)
Send(m) ==
  /\ outbox' = outbox \ {m}
  /\ IF outbox' = {} THEN timer' \in Off..Debounce /\ IsNext(timer', pending)
                     ELSE timer' = timer
  /\ stale' = stale \ Told(m)
  /\ registry' = IF m.columns THEN discovered ELSE registry
  /\ dropped' = (dropped /\ ~ m.columns)
  /\ UNCHANGED <<session, events, pending, contextVars, fetches>>

Tick ==
  /\ outbox = {} /\ timer > 0
  /\ timer' = timer - 1
  /\ pending' = [k \in DOMAIN pending |->
                   [pending[k] EXCEPT !.first = @ + 1, !.last = @ + 1]]
  /\ UNCHANGED <<session, events, outbox, contextVars, fetches, registry, stale, dropped>>
-----------------------------------------------------------------------------
(*                 Discovery, the launch and context switches              *)

(* What refreshDiscovery leaves: a failed list changes nothing. *)
DiscoveredBy(g) ==
  \/ discovered' = IF gen = g THEN Snapshot(g) ELSE discovered
  \/ discovered' = discovered

LaunchDiscovers ==
  /\ launch = "discovering" /\ launch' = "announced"
  /\ DiscoveredBy(0)
  /\ UNCHANGED <<session, events, bridgeVars, gen, fetched, inFlight, fetches, switch,
                 registry, stale, dropped>>

(* CRDsDiscoveredMsg. *)
LandLaunch ==
  /\ launch = "announced" /\ launch' = "done"
  /\ registry' = discovered /\ dropped' = FALSE
  /\ UNCHANGED <<session, events, bridgeVars, gen, discovered, fetched, inFlight, fetches,
                 switch, stale>>

(* switchContextCmd, with the feedback that sets m.switching. *)
SwitchBegins ==
  /\ switch = "idle" /\ session.switches > 0
  /\ switch' = "client"
  /\ session' = [session EXCEPT !.switches = @ - 1]
  /\ UNCHANGED <<events, bridgeVars, gen, discovered, fetched, inFlight, launch, fetches,
                 registry, stale, dropped>>

(* The target's client cannot be built: nothing was torn down. *)
SwitchRefused ==
  /\ switch = "client" /\ switch' = "refused"
  /\ UNCHANGED <<session, events, bridgeVars, gen, discovered, fetched, inFlight, launch,
                 fetches, registry, stale, dropped>>

(* SwitchContext replaces the caches: of the target, or, when the target   *)
(* does not start, of the context the rollback returns to.                 *)
SwitchContext ==
  /\ \/ switch = "client" /\ switch' = "target"
     \/ switch = "target" /\ switch' = "rollback"
  /\ gen + 1 \in Generations
  /\ gen' = gen + 1
  /\ discovered' = Nothing /\ fetched' = {} /\ inFlight' = {}
  /\ UNCHANGED <<session, events, bridgeVars, launch, fetches, registry, stale, dropped>>

SwitchDiscovers ==
  /\ \/ switch = "target" /\ switch' = "there"
     \/ switch = "rollback" /\ switch' = "back"
  /\ DiscoveredBy(gen)
  /\ UNCHANGED <<session, events, bridgeVars, gen, fetched, inFlight, launch, fetches,
                 registry, stale, dropped>>

(* SwitchContextMsg: both a switch and a rollback rebuild the registry and *)
(* have the list read its caches again; a refused switch does neither.     *)
(* The port-forwards are not checked against their pods on this message.   *)
RegistryKept == registry' = registry
RegistryRebuilt == registry' = discovered

LandSwitch ==
  /\ \/ /\ switch = "refused"
        /\ UNCHANGED <<registry, stale, dropped>>
     \/ /\ switch \in {"there", "back"}
        /\ RegistryRebuilt /\ dropped' = FALSE
        /\ stale' = {r \in stale : r.kind = "Tunnel"}
  /\ switch' = "idle"
  /\ UNCHANGED <<session, events, bridgeVars, gen, discovered, fetched, inFlight, launch,
                 fetches>>
-----------------------------------------------------------------------------
(*                           Printer columns                               *)

Named(key) == {dk \in discovered.kinds : Assign(discovered.kinds)[dk] = key}

(* ListRaw of a discovered kind: ensurePrinterColumns. *)
Open(key) ==
  /\ Named(key) # {} /\ Named(key) \cap Curated = {}
  /\ key \notin fetched \cup inFlight
  /\ inFlight' = inFlight \cup {key}
  /\ fetches' = fetches \cup
       {[key |-> key, gen |-> gen, pc |-> "begin", arrived |-> FALSE]}
  /\ UNCHANGED <<session, events, bridgeVars, gen, discovered, fetched, launch, switch,
                 registry, stale, dropped>>

At(f, pc) == f.pc = pc /\ f \in fetches
Moves(f, pc) == fetches' = (fetches \ {f}) \cup {[f EXCEPT !.pc = pc]}

(* The first half of fetchPrinterColumns, before the Get. *)
FetchBegins(f) ==
  /\ At(f, "begin")
  /\ Moves(f, IF gen = f.gen /\ f.key \notin fetched THEN "get" ELSE "clear")
  /\ UNCHANGED <<session, events, bridgeVars, contextVars, registry, stale, dropped>>

(* The CRD arrives from the context the fetch is of, or the Get fails. *)
FetchGets(f) ==
  /\ At(f, "get")
  /\ Moves(f, "fold") \/ Moves(f, "clear")
  /\ UNCHANGED <<session, events, bridgeVars, contextVars, registry, stale, dropped>>

(* The second half, which folds the columns into the snapshot. *)
Stamp(f, dk) == discovered' = [discovered EXCEPT !.columns[dk] = f.gen]

FoldUngated(f) ==
  /\ At(f, "fold")
  /\ fetched' = fetched \cup {f.key}
  /\ \/ \E dk \in Named(f.key) : Stamp(f, dk)
     \/ discovered' = discovered
  /\ Moves(f, "clear")
  /\ UNCHANGED <<session, events, bridgeVars, gen, inFlight, launch, switch, registry,
                 stale, dropped>>

FetchFolds(f) ==
  /\ At(f, "fold")
  /\ \/ /\ gen = f.gen /\ fetched' = fetched \cup {f.key}
        /\ \/ /\ \E dk \in Named(f.key) : Stamp(f, dk)
              /\ fetches' = (fetches \ {f}) \cup
                              {[f EXCEPT !.pc = "clear", !.arrived = TRUE]}
           \/ discovered' = discovered /\ Moves(f, "clear")     \* it declares none
     \/ /\ gen # f.gen /\ UNCHANGED <<fetched, discovered>>
        /\ Moves(f, "clear")
  /\ UNCHANGED <<session, events, bridgeVars, gen, inFlight, launch, switch, registry,
                 stale, dropped>>

(* clearPrinterColumnsInFlight; a fetch that changed nothing ends here. *)
ClearedUngated(f) == inFlight \ {f.key}
Cleared(f) == IF gen = f.gen THEN inFlight \ {f.key} ELSE inFlight

FetchClears(f) ==
  /\ At(f, "clear")
  /\ inFlight' = Cleared(f)
  /\ IF f.arrived THEN Moves(f, "announce") ELSE fetches' = fetches \ {f}
  /\ UNCHANGED <<session, events, bridgeVars, gen, discovered, fetched, launch, switch,
                 registry, stale, dropped>>

(* notifyColumnsArrived.  Its check and its send are apart in the code,    *)
(* but a switch between them leaves what a switch after both does.         *)
Arrived == [kind |-> CRD, scope |-> Everywhere, columns |-> TRUE]

FetchAnnounces(f) ==
  /\ At(f, "announce")
  /\ fetches' = fetches \ {f}
  /\ IF gen = f.gen
     THEN Notify(Arrived) /\ dropped' = (dropped \/ Len(events) = EventBuffer)
     ELSE UNCHANGED <<events, dropped>>
  /\ UNCHANGED <<session, bridgeVars, contextVars, registry, stale>>
-----------------------------------------------------------------------------
SwitchSteps == SwitchRefused \/ SwitchContext \/ SwitchDiscovers \/ LandSwitch

FetchSteps(f) == \/ FetchBegins(f) \/ FetchGets(f) \/ FetchFolds(f)
                 \/ FetchClears(f) \/ FetchAnnounces(f)

Next ==
  \/ \E c \in session.changes : Change(c) \/ Resync(c)
  \/ Observe \/ FlushDue \/ Tick
  \/ \E m \in outbox : Send(m)
  \/ LaunchDiscovers \/ LandLaunch
  \/ SwitchBegins \/ SwitchSteps
  \/ \E key \in session.opened : Open(key)
  \/ \E f \in fetches : FetchSteps(f)

Spec == Init /\ [][Next]_vars

HasRoom == Len(events) < EventBuffer

(* The bridge and the event loop run; discovery and a switch end by their  *)
(* timeouts; every resync period repeats an object of each cache, at some  *)
(* time when the bridge, which never waits long, has drained the channel.  *)
Fairness ==
  /\ WF_vars(Observe) /\ WF_vars(FlushDue) /\ WF_vars(Tick)
  /\ WF_vars(\E m \in outbox : Send(m))
  /\ WF_vars(LaunchDiscovers) /\ WF_vars(LandLaunch) /\ WF_vars(SwitchSteps)
  /\ \A c \in Caches : SF_vars(c \in session.changes /\ HasRoom /\ Resync(c))

FairSpec == Spec /\ Fairness
-----------------------------------------------------------------------------
IsSnapshot(s) ==
  /\ s = [of |-> s.of, kinds |-> s.kinds, columns |-> s.columns]
  /\ s.of \in {NoSnapshot} \cup Generations
  /\ s.kinds \subseteq DiscoveredKind
  /\ s.columns \in [s.kinds -> {Neutral} \cup Generations]

TypeOK ==
  /\ session \in [changes : SUBSET Caches, opened : SUBSET Keys, switches : Nat]
  /\ events \in Seq(Messages) /\ Len(events) <= EventBuffer
  /\ DOMAIN pending \subseteq Kinds
  /\ pending \in [DOMAIN pending ->
                    [first : Nat, last : Nat, scope : Scopes, columns : BOOLEAN]]
  /\ timer \in Off..Debounce
  /\ outbox \subseteq Messages
  /\ gen \in Generations
  /\ IsSnapshot(discovered) /\ IsSnapshot(registry)
  /\ fetched \subseteq Keys /\ inFlight \subseteq Keys
  /\ fetches \subseteq [key : Keys, gen : Generations,
                        pc : {"begin", "get", "fold", "clear", "announce"},
                        arrived : BOOLEAN]
  /\ launch \in {"discovering", "announced", "done"}
  /\ switch \in {"idle", "client", "refused", "target", "there", "rollback", "back"}
  /\ stale \subseteq Reads /\ dropped \in BOOLEAN

(* However continuously a kind changes, its first event waits no longer    *)
(* than the bound before its message is taken for sending (app.go:1976).   *)
WaitIsBounded == \A k \in DOMAIN pending : pending[k].first <= MaxWait

(* Columns the snapshot has and the registry lacks are on their way: their *)
(* fetch has still to announce them, the announcement is in the channel,   *)
(* folded or being sent, or a message that rebuilds the registry anyway is *)
(* to come (app.go:1999).  A full channel is the one place they are lost.  *)
InRegistry(dk) == /\ registry.of = discovered.of
                  /\ registry.columns[dk] = discovered.columns[dk]

Announced(dk) ==
  \/ \E f \in fetches : /\ f.arrived /\ f.gen = gen
                        /\ f.key = Assign(discovered.kinds)[dk]
  \/ \E i \in DOMAIN events : events[i].columns
  \/ \E k \in DOMAIN pending : pending[k].columns
  \/ \E m \in outbox : m.columns
  \/ launch = "announced"
  \/ switch \in {"target", "there", "rollback", "back"}

ColumnsOnTheirWay ==
  \A dk \in discovered.kinds :
    discovered.columns[dk] # Neutral => InRegistry(dk) \/ Announced(dk) \/ dropped

(* A custom kind's CRD is fetched by one goroutine of the context at a     *)
(* time, and no more once it was: the markers of a context are never       *)
(* cleared by a fetch of the one before (dynamic.go:358).                  *)
OneFetchPerKind ==
  \A f \in fetches : f.gen = gen =>
    /\ \A g \in fetches : g.gen = gen /\ g.key = f.key => g = f
    /\ f.key \in fetched => f.pc \in {"clear", "announce"}

(* A snapshot and its columns come from the current context, however late  *)
(* a list or a Get of another one returns (dynamic.go:379, 128).           *)
ColumnsOfThisContext ==
  /\ discovered.of \in {NoSnapshot, gen}
  /\ \A dk \in discovered.kinds : discovered.columns[dk] \in {Neutral, gen}

(* Once the messages of the launch and of a switch have been handled, the  *)
(* registry is built from the snapshot of the context that is shown, also  *)
(* after a rollback rebuilt the old context (model.go:894).                *)
RegistryOfThisContext ==
  launch # "announced" /\ switch \in {"idle", "client", "refused"} =>
    registry.of = discovered.of

(* The registry key of a discovered kind is no other one's, hides none of  *)
(* kute's own kinds, and is bare for the owning group alone (discovery.go). *)
KeysAreUnambiguous ==
  Unambiguous(discovered.kinds) /\ NothingHidden(discovered.kinds)

(* What the bridge implements: every read whose data changed is told to    *)
(* the screens, through folding, full channels and switches that swallow   *)
(* messages (watch.go:354, app.go:2004, model.go:448).                     *)
Feed == INSTANCE ChangeFeed WITH Reads <- Reads, stale <- stale

ChangesAreShown == Feed!Spec
=============================================================================
