------------------------- MODULE EventBridgeProofs -------------------------
(***************************************************************************)
(* Theorems about EventBridge, for every set of kinds, namespaces and      *)
(* clusters, every debounce and bound, and every number of switches.       *)
(***************************************************************************)
EXTENDS EventBridge, DiscoveryProofs

-----------------------------------------------------------------------------
(***************************************************************************)
(* Type correctness.                                                       *)
(***************************************************************************)

LEMMA Bounds ==
  /\ Debounce \in Nat \ {0} /\ MaxWait \in Nat /\ Debounce <= MaxWait
  /\ EventBuffer \in Nat \ {0} /\ LastGeneration \in Nat
BY BridgeAssumption

LEMMA HeadAndTail ==
  ASSUME NEW S, NEW s \in Seq(S), s # << >>
  PROVE  Head(s) \in S /\ Tail(s) \in Seq(S) /\ Len(Tail(s)) <= Len(s)
OBVIOUS

LEMMA NothingIsSnapshot == IsSnapshot(Nothing)
BY DEF IsSnapshot, Nothing

LEMMA SnapshotIsSnapshot ==
  ASSUME NEW g \in Generations
  PROVE  IsSnapshot(Snapshot(g))
BY BridgeAssumption DEF IsSnapshot, Snapshot

LEMMA NotifyTypes ==
  ASSUME TypeOK, NEW m \in Messages, Notify(m)
  PROVE  events' \in Seq(Messages) /\ Len(events') <= EventBuffer
<1>1. CASE Len(events) < EventBuffer
  BY <1>1, BridgeAssumption DEF TypeOK, Notify
<1>2. CASE ~ Len(events) < EventBuffer
  BY <1>2 DEF TypeOK, Notify
<1>. QED  BY <1>1, <1>2

LEMMA TypeInit == Init => TypeOK
<1>. SUFFICES ASSUME Init PROVE TypeOK
  OBVIOUS
<1>1. session \in [changes : SUBSET Caches, opened : SUBSET Keys, switches : Nat]
  BY BridgeAssumption DEF Init
<1>2. events \in Seq(Messages) /\ Len(events) <= EventBuffer
  BY BridgeAssumption DEF Init
<1>3. /\ DOMAIN pending \subseteq Kinds
      /\ pending \in [DOMAIN pending ->
                        [first : Nat, last : Nat, scope : Scopes, columns : BOOLEAN]]
      /\ timer \in Off..Debounce
  BY BridgeAssumption DEF Init, Off
<1>. QED
  BY <1>1, <1>2, <1>3, NothingIsSnapshot, BridgeAssumption DEF Init, TypeOK, Generations

LEMMA TypeChange ==
  ASSUME TypeOK, NEW c \in session.changes, Change(c) \/ Resync(c)
  PROVE  TypeOK'
<1>1. ChangeMsg(c) \in Messages
  BY BridgeAssumption DEF TypeOK, ChangeMsg, Messages
<1>2. events' \in Seq(Messages) /\ Len(events') <= EventBuffer
  BY <1>1, NotifyTypes DEF Change, Resync
<1>3. stale' \subseteq Reads
  BY DEF Change, Resync, TypeOK
<1>. QED
  BY <1>2, <1>3 DEF TypeOK, Change, Resync, bridgeVars, contextVars

LEMMA TypeObserve ==
  ASSUME TypeOK, Observe
  PROVE  TypeOK'
<1>. DEFINE m == Head(events)
            Pending == [first : Nat, last : Nat, scope : Scopes, columns : BOOLEAN]
<1>1. m \in Messages /\ events' \in Seq(Messages) /\ Len(events') <= EventBuffer
  <2>1. events \in Seq(Messages) /\ events # << >> /\ events' = Tail(events)
    BY DEF Observe, TypeOK
  <2>2. Len(Tail(events)) <= Len(events) /\ Len(events) <= EventBuffer
    BY <2>1, HeadAndTail DEF TypeOK
  <2>3. Head(events) \in Messages /\ Tail(events) \in Seq(Messages)
    BY <2>1, HeadAndTail
  <2>. QED  BY <2>1, <2>2, <2>3, Bounds
<1>2. m.kind \in Kinds /\ Fresh(m) \in Pending
  BY <1>1 DEF Messages, Fresh
<1>3. m.kind \in DOMAIN pending => Folded(m) \in Pending
  BY <1>1 DEF TypeOK, Messages, Folded, Scopes
<1>4. /\ DOMAIN pending' = DOMAIN pending \cup {m.kind}
      /\ pending' \in [DOMAIN pending' -> Pending]
  BY <1>2, <1>3 DEF Observe, TypeOK
<1>5. timer' \in Off..Debounce
  BY DEF Observe
<1>. QED
  BY <1>1, <1>2, <1>4, <1>5 DEF TypeOK, Observe, contextVars

LEMMA TypeFlushDue ==
  ASSUME TypeOK, FlushDue
  PROVE  TypeOK'
<1>1. outbox' \subseteq Messages
  BY DEF FlushDue, TypeOK, Messages, DueKinds
<1>2. /\ DOMAIN pending' \subseteq Kinds
      /\ pending' \in [DOMAIN pending' ->
                         [first : Nat, last : Nat, scope : Scopes, columns : BOOLEAN]]
  BY DEF FlushDue, TypeOK
<1>3. timer' \in Off..Debounce
  BY BridgeAssumption DEF FlushDue, Off
<1>. QED
  BY <1>1, <1>2, <1>3 DEF TypeOK, FlushDue, contextVars

LEMMA TypeSend ==
  ASSUME TypeOK, NEW m \in outbox, Send(m)
  PROVE  TypeOK'
<1>1. IsSnapshot(registry') /\ IsSnapshot(discovered')
  BY DEF Send, TypeOK, contextVars
<1>2. timer' \in Off..Debounce
  BY DEF Send, TypeOK
<1>3. outbox' \subseteq Messages /\ stale' \subseteq Reads
  BY DEF Send, TypeOK
<1>4. m.columns \in BOOLEAN /\ dropped' \in BOOLEAN
  BY DEF Send, TypeOK, Messages
<1>. QED
  BY <1>1, <1>2, <1>3, <1>4 DEF TypeOK, Send, contextVars

LEMMA TypeTick ==
  ASSUME TypeOK, Tick
  PROVE  TypeOK'
<1>. DEFINE Pending == [first : Nat, last : Nat, scope : Scopes, columns : BOOLEAN]
            Older(p) == [p EXCEPT !.first = @ + 1, !.last = @ + 1]
<1>0. ASSUME NEW p \in Pending PROVE Older(p) \in Pending
  <2>1. p.first + 1 \in Nat /\ p.last + 1 \in Nat
    OBVIOUS
  <2>. QED  BY <2>1
<1>1. /\ DOMAIN pending' = DOMAIN pending
      /\ pending' \in [DOMAIN pending' -> Pending]
  BY <1>0 DEF Tick, TypeOK
<1>2. timer' \in Off..Debounce
  <2>1. timer \in Off..Debounce
    BY DEF TypeOK
  <2>2. timer > 0 /\ timer' = timer - 1
    BY DEF Tick
  <2>. QED  BY <2>1, <2>2, Bounds DEF Off
<1>. QED
  BY <1>1, <1>2 DEF TypeOK, Tick, contextVars

LEMMA TypeDiscoveredBy ==
  ASSUME TypeOK, NEW g \in Generations, DiscoveredBy(g)
  PROVE  IsSnapshot(discovered')
BY SnapshotIsSnapshot DEF TypeOK, DiscoveredBy

LEMMA TypeContext ==
  ASSUME TypeOK, LaunchDiscovers \/ LandLaunch \/ SwitchBegins \/ SwitchSteps
  PROVE  TypeOK'
<1>0. 0 \in Generations /\ gen \in Generations
  BY BridgeAssumption DEF TypeOK, Generations
<1>1. CASE LaunchDiscovers
  <2>1. IsSnapshot(discovered')
    BY <1>0, <1>1, TypeDiscoveredBy DEF LaunchDiscovers
  <2>. QED  BY <1>1, <2>1 DEF TypeOK, LaunchDiscovers, bridgeVars
<1>2. CASE LandLaunch
  BY <1>2 DEF TypeOK, LandLaunch, bridgeVars, IsSnapshot
<1>3. CASE SwitchBegins
  <2>1. session' \in [changes : SUBSET Caches, opened : SUBSET Keys, switches : Nat]
    BY <1>3 DEF SwitchBegins, TypeOK
  <2>. QED  BY <1>3, <2>1 DEF TypeOK, SwitchBegins, bridgeVars
<1>4. CASE SwitchRefused
  BY <1>4 DEF TypeOK, SwitchRefused, bridgeVars
<1>5. CASE SwitchContext
  <2>1. IsSnapshot(discovered')
    BY <1>5, NothingIsSnapshot DEF SwitchContext
  <2>. QED  BY <1>5, <2>1 DEF TypeOK, SwitchContext, bridgeVars
<1>6. CASE SwitchDiscovers
  <2>1. IsSnapshot(discovered')
    BY <1>0, <1>6, TypeDiscoveredBy DEF SwitchDiscovers
  <2>. QED  BY <1>6, <2>1 DEF TypeOK, SwitchDiscovers, bridgeVars
<1>7. CASE LandSwitch
  <2>1. IsSnapshot(registry') /\ IsSnapshot(discovered')
    BY <1>7 DEF TypeOK, LandSwitch, RegistryRebuilt
  <2>2. stale' \subseteq Reads /\ dropped' \in BOOLEAN
    BY <1>7 DEF TypeOK, LandSwitch
  <2>. QED  BY <1>7, <2>1, <2>2 DEF TypeOK, LandSwitch, bridgeVars
<1>. QED
  BY <1>1, <1>2, <1>3, <1>4, <1>5, <1>6, <1>7 DEF SwitchSteps

FetchRecords == [key : Keys, gen : Generations,
                 pc : {"begin", "get", "fold", "clear", "announce"}, arrived : BOOLEAN]

LEMMA StampTypes ==
  ASSUME TypeOK, NEW f \in fetches, NEW dk \in Named(f.key), Stamp(f, dk)
  PROVE  /\ IsSnapshot(discovered') /\ discovered'.of = discovered.of
         /\ discovered'.kinds = discovered.kinds
         /\ discovered'.columns = [discovered.columns EXCEPT ![dk] = f.gen]
<1>1. dk \in discovered.kinds /\ f.gen \in Generations
  BY DEF TypeOK, Named
<1>2. discovered' = [of |-> discovered.of, kinds |-> discovered.kinds,
                     columns |-> [discovered.columns EXCEPT ![dk] = f.gen]]
  BY DEF Stamp, TypeOK, IsSnapshot
<1>3. [discovered.columns EXCEPT ![dk] = f.gen]
        \in [discovered.kinds -> {Neutral} \cup Generations]
  BY <1>1 DEF TypeOK, IsSnapshot
<1>. QED  BY <1>2, <1>3 DEF IsSnapshot, TypeOK

LEMMA TypeOpen ==
  ASSUME TypeOK, NEW key \in session.opened, Open(key)
  PROVE  TypeOK'
<1>0. key \in Keys /\ gen \in Generations
  BY DEF TypeOK
<1>1. fetches' \subseteq FetchRecords /\ inFlight' \subseteq Keys
  <2>1. [key |-> key, gen |-> gen, pc |-> "begin", arrived |-> FALSE] \in FetchRecords
    BY <1>0 DEF FetchRecords
  <2>2. fetches \subseteq FetchRecords /\ inFlight \subseteq Keys
    BY DEF TypeOK, FetchRecords
  <2>. QED  BY <1>0, <2>1, <2>2 DEF Open
<1>. QED  BY <1>1 DEF TypeOK, Open, bridgeVars, FetchRecords

LEMMA TypeFetch ==
  ASSUME TypeOK, NEW f \in fetches, FetchSteps(f)
  PROVE  TypeOK'
<1>1. f \in FetchRecords
  BY DEF TypeOK, FetchRecords
<1>2. \A pc \in {"begin", "get", "fold", "clear", "announce"}, b \in BOOLEAN :
        /\ [f EXCEPT !.pc = pc] \in FetchRecords
        /\ [f EXCEPT !.pc = pc, !.arrived = b] \in FetchRecords
  BY <1>1 DEF FetchRecords
<1>3. fetches' \subseteq FetchRecords
  <2>0. fetches \subseteq FetchRecords
    BY DEF TypeOK, FetchRecords
  <2>1. CASE FetchBegins(f)
    BY <1>2, <2>0, <2>1 DEF FetchBegins, Moves
  <2>2. CASE FetchGets(f)
    BY <1>2, <2>0, <2>2 DEF FetchGets, Moves
  <2>3. CASE FetchFolds(f)
    BY <1>2, <2>0, <2>3 DEF FetchFolds, Moves
  <2>4. CASE FetchClears(f)
    BY <1>2, <2>0, <2>4 DEF FetchClears, Moves
  <2>5. CASE FetchAnnounces(f)
    BY <2>0, <2>5 DEF FetchAnnounces
  <2>. QED  BY <2>1, <2>2, <2>3, <2>4, <2>5 DEF FetchSteps
<1>4. CASE FetchBegins(f) \/ FetchGets(f)
  BY <1>3, <1>4 DEF TypeOK, FetchBegins, FetchGets, bridgeVars, contextVars, FetchRecords
<1>5. CASE FetchFolds(f)
  <2>1. IsSnapshot(discovered')
    BY <1>5, StampTypes DEF FetchFolds, TypeOK
  <2>2. fetched' \subseteq Keys
    BY <1>1, <1>5 DEF FetchFolds, TypeOK, FetchRecords
  <2>. QED  BY <1>3, <1>5, <2>1, <2>2 DEF TypeOK, FetchFolds, bridgeVars, FetchRecords
<1>6. CASE FetchClears(f)
  <2>1. inFlight' \subseteq Keys
    BY <1>6 DEF FetchClears, Cleared, TypeOK
  <2>. QED  BY <1>3, <1>6, <2>1 DEF TypeOK, FetchClears, bridgeVars, FetchRecords
<1>7. CASE FetchAnnounces(f)
  <2>1. Arrived \in Messages
    BY BridgeAssumption DEF Arrived, Messages, Scopes
  <2>2. events' \in Seq(Messages) /\ Len(events') <= EventBuffer /\ dropped' \in BOOLEAN
    BY <1>7, <2>1, NotifyTypes DEF FetchAnnounces, TypeOK
  <2>. QED
    BY <1>3, <1>7, <2>2 DEF TypeOK, FetchAnnounces, bridgeVars, contextVars, FetchRecords
<1>. QED  BY <1>4, <1>5, <1>6, <1>7 DEF FetchSteps

LEMMA TypeStep == TypeOK /\ [Next]_vars => TypeOK'
<1>. SUFFICES ASSUME TypeOK, [Next]_vars PROVE TypeOK'
  OBVIOUS
<1>1. CASE UNCHANGED vars
  BY <1>1 DEF TypeOK, vars, bridgeVars, contextVars
<1>. QED
  BY <1>1, TypeChange, TypeObserve, TypeFlushDue, TypeSend, TypeTick, TypeContext, TypeOpen,
     TypeFetch DEF Next

(* Every state of the bridge, the snapshot and the registry has its type.  *)
THEOREM TypeCorrect == Spec => []TypeOK
BY TypeInit, TypeStep, PTL DEF Spec

-----------------------------------------------------------------------------
(***************************************************************************)
(* The bridge's timer is set to the earliest due time whenever the bridge  *)
(* waits, and nothing is overdue: that is what bounds every wait.          *)
(***************************************************************************)

Punctual ==
  /\ \A k \in DOMAIN pending : Due(pending[k]) >= 0
  /\ IF outbox = {} THEN IsNext(timer, pending) ELSE timer = Off

LEMMA DueIsNumber ==
  ASSUME TypeOK, NEW k \in DOMAIN pending
  PROVE  /\ Due(pending[k]) \in Int
         /\ pending[k].first \in Nat /\ pending[k].last \in Nat
BY Bounds DEF TypeOK, Due, Least

LEMMA PunctualObserve ==
  ASSUME TypeOK, Punctual, Observe
  PROVE  Punctual'
<1>. DEFINE m == Head(events)
<1>1. outbox' = {} /\ IsNext(timer', pending')
  BY DEF Observe
<1>2. ASSUME NEW k \in DOMAIN pending' PROVE Due(pending'[k]) >= 0
  <2>1. CASE k # m.kind
    <3>1. k \in DOMAIN pending /\ pending'[k] = pending[k]
      BY <1>2, <2>1 DEF Observe
    <3>. QED  BY <3>1 DEF Punctual
  <2>2. CASE k = m.kind /\ m.kind \in DOMAIN pending
    <3>1. pending'[k] = Folded(m)
      BY <1>2, <2>2 DEF Observe
    <3>2. pending'[k].first = pending[k].first /\ pending'[k].last = 0
      BY <2>2, <3>1 DEF Folded
    <3>3. Due(pending[k]) >= 0
      BY <2>2 DEF Punctual
    <3>. QED  BY <2>2, <3>2, <3>3, DueIsNumber, Bounds DEF Due, Least
  <2>3. CASE k = m.kind /\ m.kind \notin DOMAIN pending
    <3>1. pending'[k] = Fresh(m)
      BY <1>2, <2>3 DEF Observe
    <3>. QED  BY <3>1, Bounds DEF Fresh, Due, Least
  <2>. QED  BY <2>1, <2>2, <2>3
<1>. QED  BY <1>1, <1>2 DEF Punctual

LEMMA PunctualFlushDue ==
  ASSUME TypeOK, Punctual, FlushDue
  PROVE  Punctual'
<1>1. PICK k \in DOMAIN pending : Delay(pending[k]) = 0
  BY DEF FlushDue, Punctual, IsNext, Off
<1>2. k \in DueKinds
  BY <1>1, DueIsNumber DEF DueKinds, Delay
<1>3. outbox' # {} /\ timer' = Off
  BY <1>2 DEF FlushDue
<1>4. \A j \in DOMAIN pending' : j \in DOMAIN pending /\ pending'[j] = pending[j]
  BY DEF FlushDue
<1>. QED  BY <1>3, <1>4 DEF Punctual

LEMMA PunctualSend ==
  ASSUME TypeOK, Punctual, NEW m \in outbox, Send(m)
  PROVE  Punctual'
<1>1. pending' = pending
  BY DEF Send
<1>2. outbox' = {} => IsNext(timer', pending)
  BY DEF Send
<1>3. outbox' # {} => timer' = Off
  BY DEF Send, Punctual
<1>. QED  BY <1>1, <1>2, <1>3 DEF Punctual

LEMMA PunctualTick ==
  ASSUME TypeOK, Punctual, Tick
  PROVE  Punctual'
<1>0. IsNext(timer, pending) /\ timer \in Int /\ timer > 0 /\ timer' = timer - 1
  <2>1. outbox = {} /\ timer > 0 /\ timer' = timer - 1
    BY DEF Tick
  <2>2. timer \in Off..Debounce
    BY DEF TypeOK
  <2>3. IsNext(timer, pending)
    BY <2>1 DEF Punctual
  <2>. QED  BY <2>1, <2>2, <2>3, Bounds DEF Off
<1>1. DOMAIN pending' = DOMAIN pending /\ outbox' = {}
  BY DEF Tick
<1>2. ASSUME NEW k \in DOMAIN pending
      PROVE  Due(pending'[k]) = Due(pending[k]) - 1
  <2>1. /\ pending'[k].first = pending[k].first + 1
        /\ pending'[k].last = pending[k].last + 1
    BY DEF Tick, TypeOK
  <2>. QED  BY <2>1, DueIsNumber, Bounds DEF Due, Least
<1>3. PICK k \in DOMAIN pending :
        /\ timer = Delay(pending[k])
        /\ \A j \in DOMAIN pending : timer <= Delay(pending[j])
  BY <1>0 DEF IsNext, Off
<1>4. ASSUME NEW j \in DOMAIN pending
      PROVE  Due(pending[j]) >= 1 /\ Delay(pending[j]) = Due(pending[j])
             /\ Delay(pending'[j]) = Delay(pending[j]) - 1
  BY <1>0, <1>2, <1>3, DueIsNumber DEF Delay, Punctual
<1>5. IsNext(timer', pending')
  <2>1. timer' = Delay(pending'[k])
    BY <1>0, <1>3, <1>4
  <2>2. \A j \in DOMAIN pending' : timer' <= Delay(pending'[j])
    <3>1. \A j \in DOMAIN pending : Delay(pending[j]) \in Int
      BY DueIsNumber DEF Delay
    <3>. QED  BY <1>0, <1>1, <1>3, <1>4, <3>1
  <2>. QED  BY <1>1, <1>3, <2>1, <2>2 DEF IsNext
<1>6. \A j \in DOMAIN pending' : Due(pending'[j]) >= 0
  BY <1>1, <1>2, <1>4, DueIsNumber
<1>. QED  BY <1>1, <1>5, <1>6 DEF Punctual

(* Every other step leaves the bridge alone. *)
LEMMA OthersLeaveTheBridge ==
  ASSUME [Next]_vars
  PROVE  \/ Observe \/ FlushDue \/ Tick \/ \E m \in outbox : Send(m)
         \/ UNCHANGED bridgeVars
BY DEF Next, vars, Change, Resync, LaunchDiscovers, LandLaunch, SwitchBegins, SwitchSteps,
       SwitchRefused, SwitchContext, SwitchDiscovers, LandSwitch, Open, FetchSteps, FetchBegins,
       FetchGets, FetchFolds, FetchClears, FetchAnnounces

LEMMA PunctualStep == TypeOK /\ Punctual /\ [Next]_vars => Punctual'
<1>. SUFFICES ASSUME TypeOK, Punctual, [Next]_vars PROVE Punctual'
  OBVIOUS
<1>1. CASE UNCHANGED bridgeVars
  BY <1>1 DEF Punctual, bridgeVars
<1>. QED
  BY <1>1, OthersLeaveTheBridge, PunctualObserve, PunctualFlushDue, PunctualSend, PunctualTick

LEMMA PunctualInit == Init => Punctual
BY DEF Init, Punctual, IsNext

(* No kind's first event waits longer than the bound, however it churns.   *)
THEOREM WaitsAreBounded == Spec => []WaitIsBounded
<1>1. TypeOK /\ Punctual => WaitIsBounded
  BY DueIsNumber, Bounds DEF Punctual, WaitIsBounded, Due, Least
<1>. QED
  BY <1>1, TypeInit, TypeStep, PunctualInit, PunctualStep, PTL DEF Spec

-----------------------------------------------------------------------------
(***************************************************************************)
(* The columns of the current context.  No fetch is of a generation to     *)
(* come, and a fetch of the current one that still has to clear its marker *)
(* has it set; that is why a second fetch of its key cannot start.         *)
(***************************************************************************)

Current == {f \in fetches : f.gen = gen}

Marked ==
  /\ \A f \in fetches : f.gen <= gen
  /\ \A f \in Current : /\ f.pc # "announce" => f.key \in inFlight
                        /\ f.pc = "announce" => f.arrived
                        /\ f.arrived => f.key \in fetched

FetchInv == Marked /\ OneFetchPerKind /\ ColumnsOfThisContext

LEMMA Generation ==
  ASSUME TypeOK
  PROVE  /\ gen \in Nat /\ gen # Neutral
         /\ \A f \in fetches : f.gen \in Nat
BY Bounds DEF TypeOK, Generations, Neutral

LEMMA FetchInvInit == Init => FetchInv
BY DEF Init, FetchInv, Marked, Current, OneFetchPerKind, ColumnsOfThisContext, Nothing

LEMMA NewContext ==
  ASSUME TypeOK, FetchInv, SwitchContext
  PROVE  FetchInv'
<1>1. gen' = gen + 1 /\ fetches' = fetches /\ discovered' = Nothing
  BY DEF SwitchContext
<1>2. \A f \in fetches : f.gen < gen'
  BY <1>1, Generation DEF FetchInv, Marked
<1>3. Current' = {}
  BY <1>1, <1>2, Generation DEF Current
<1>4. Marked'
  BY <1>1, <1>2, <1>3, Generation DEF Marked
<1>5. OneFetchPerKind'
  BY <1>3 DEF OneFetchPerKind, Current
<1>6. ColumnsOfThisContext'
  BY <1>1 DEF ColumnsOfThisContext, Nothing
<1>. QED  BY <1>4, <1>5, <1>6 DEF FetchInv

LEMMA NewSnapshot ==
  ASSUME TypeOK, FetchInv, LaunchDiscovers \/ SwitchDiscovers
  PROVE  FetchInv'
<1>1. UNCHANGED <<gen, fetches, fetched, inFlight>>
  BY DEF LaunchDiscovers, SwitchDiscovers
<1>2. discovered' \in {discovered, Snapshot(gen)}
  BY DEF LaunchDiscovers, SwitchDiscovers, DiscoveredBy
<1>3. ColumnsOfThisContext'
  BY <1>1, <1>2 DEF FetchInv, ColumnsOfThisContext, Snapshot
<1>. QED
  BY <1>1, <1>3 DEF FetchInv, Marked, Current, OneFetchPerKind

LEMMA FetchInvOpen ==
  ASSUME TypeOK, FetchInv, NEW key \in session.opened, Open(key)
  PROVE  FetchInv'
<1>. DEFINE new == [key |-> key, gen |-> gen, pc |-> "begin", arrived |-> FALSE]
<1>1. /\ fetches' = fetches \cup {new} /\ inFlight' = inFlight \cup {key}
      /\ UNCHANGED <<gen, discovered, fetched>> /\ key \notin fetched \cup inFlight
  BY DEF Open
<1>2. \A f \in fetches : f.gen = gen => f.key # key
  BY <1>1 DEF FetchInv, Marked, Current
<1>3. Marked'
  BY <1>1, Generation DEF FetchInv, Marked, Current
<1>4. OneFetchPerKind'
  <2>1. ASSUME NEW f \in fetches', f.gen = gen, NEW g \in fetches', g.gen = gen, g.key = f.key
        PROVE  g = f
    <3>1. CASE f \in fetches /\ g \in fetches
      BY <2>1, <3>1 DEF FetchInv, OneFetchPerKind
    <3>2. \A h \in fetches' : h \in fetches \/ h = new
      BY <1>1
    <3>3. CASE f = new
      <4>1. g.key = key
        BY <2>1, <3>3
      <4>. QED  BY <1>2, <2>1, <3>2, <3>3, <4>1
    <3>4. CASE g = new
      <4>1. f.key = key
        BY <2>1, <3>4
      <4>. QED  BY <1>2, <2>1, <3>2, <3>4, <4>1
    <3>. QED  BY <3>1, <3>2, <3>3, <3>4
  <2>2. ASSUME NEW f \in fetches', f.gen = gen, f.key \in fetched
        PROVE  f.pc \in {"clear", "announce"}
    <3>1. f \in fetches
      BY <1>1, <2>2
    <3>. QED  BY <2>2, <3>1 DEF FetchInv, OneFetchPerKind
  <2>. QED  BY <1>1, <2>1, <2>2 DEF OneFetchPerKind
<1>5. ColumnsOfThisContext'
  BY <1>1 DEF FetchInv, ColumnsOfThisContext
<1>. QED  BY <1>3, <1>4, <1>5 DEF FetchInv

(* A step of f replaces it by a fetch of the same key and generation, or   *)
(* ends it; fetched grows by f's key at most, inFlight shrinks by it.      *)
Replaces(f, g) ==
  /\ UNCHANGED gen
  /\ fetches' = (fetches \ {f}) \cup {g} \/ fetches' = fetches \ {f}
  /\ g.key = f.key /\ g.gen = f.gen
  /\ f.gen = gen => fetched \subseteq fetched' /\ fetched' \subseteq fetched \cup {f.key}
  /\ f.gen # gen => UNCHANGED <<fetched, inFlight>>
  /\ f.gen = gen => inFlight \ {f.key} \subseteq inFlight'
  /\ f.gen = gen /\ g \in fetches' =>
       /\ g.pc # "announce" => f.key \in inFlight'
       /\ g.pc = "announce" => g.arrived
       /\ g.arrived => f.key \in fetched'
       /\ f.key \in fetched' => g.pc \in {"clear", "announce"}

LEMMA FetchMoves ==
  ASSUME TypeOK, FetchInv, NEW f \in fetches, NEW g, Replaces(f, g)
  PROVE  Marked' /\ OneFetchPerKind'
<1>. USE DEF Replaces
<1>1. \A h \in fetches : h.gen = gen /\ f.gen = gen /\ h.key = f.key => h = f
  BY DEF FetchInv, OneFetchPerKind
<1>2. fetches' \subseteq (fetches \ {f}) \cup {g}
  OBVIOUS
<1>3. \A h \in fetches' : h.gen <= gen
  BY <1>2 DEF FetchInv, Marked
<1>4. ASSUME NEW h \in fetches', h.gen = gen, h # g
      PROVE  /\ h \in fetches /\ (f.gen = gen => h.key # f.key)
             /\ h.key \in fetched <=> h.key \in fetched'
             /\ h.key \in inFlight => h.key \in inFlight'
  <2>1. h \in fetches /\ h # f
    BY <1>2, <1>4
  <2>2. f.gen = gen => h.key # f.key
    BY <1>1, <1>4, <2>1
  <2>. QED  BY <2>1, <2>2
<1>5. Marked'
  <2>1. ASSUME NEW h \in fetches', h.gen = gen
        PROVE  /\ h.pc # "announce" => h.key \in inFlight'
               /\ h.pc = "announce" => h.arrived
               /\ h.arrived => h.key \in fetched'
    <3>1. CASE h = g
      BY <2>1, <3>1
    <3>2. CASE h # g
      BY <2>1, <3>2, <1>4 DEF FetchInv, Marked, Current
    <3>. QED  BY <3>1, <3>2
  <2>. QED  BY <1>3, <2>1 DEF Marked, Current
<1>6. OneFetchPerKind'
  <2>1. ASSUME NEW h \in fetches', h.gen = gen
        PROVE  h.key \in fetched' => h.pc \in {"clear", "announce"}
    <3>1. CASE h = g
      BY <2>1, <3>1
    <3>2. CASE h # g
      BY <2>1, <3>2, <1>4 DEF FetchInv, OneFetchPerKind
    <3>. QED  BY <3>1, <3>2
  <2>2. ASSUME NEW h \in fetches', NEW i \in fetches', h.gen = gen, i.gen = gen, h.key = i.key
        PROVE  h = i
    <3>1. CASE h = g \/ i = g
      BY <2>2, <3>1, <1>4
    <3>2. CASE h # g /\ i # g
      BY <2>2, <3>2, <1>4 DEF FetchInv, OneFetchPerKind
    <3>. QED  BY <3>1, <3>2
  <2>. QED  BY <2>1, <2>2 DEF OneFetchPerKind
<1>. QED  BY <1>5, <1>6

LEMMA FetchInvFetch ==
  ASSUME TypeOK, FetchInv, NEW f \in fetches, FetchSteps(f)
  PROVE  FetchInv'
<1>. DEFINE Folds == [f EXCEPT !.pc = "clear", !.arrived = TRUE]
<1>0. f = [key |-> f.key, gen |-> f.gen, pc |-> f.pc, arrived |-> f.arrived]
  BY DEF TypeOK
<1>2. f.gen = gen => /\ f.pc # "announce" => f.key \in inFlight
                     /\ f.pc = "announce" => f.arrived
                     /\ f.arrived => f.key \in fetched
                     /\ f.key \in fetched => f.pc \in {"clear", "announce"}
  BY DEF FetchInv, Marked, Current, OneFetchPerKind
<1>3. ASSUME NEW pc \in {"get", "fold", "clear"}, f.pc \in {"begin", "get"},
             UNCHANGED <<gen, discovered, fetched, inFlight>>, Moves(f, pc)
      PROVE  FetchInv'
  <2>. DEFINE g == [f EXCEPT !.pc = pc]
  <2>1. g.key = f.key /\ g.gen = f.gen /\ g.pc = pc /\ g.arrived = f.arrived
    BY <1>0
  <2>2. fetches' = (fetches \ {f}) \cup {g}
    BY <1>3 DEF Moves
  <2>. HIDE DEF g
  <2>3. Replaces(f, g)
    BY <1>2, <1>3, <2>1, <2>2 DEF Replaces
  <2>4. Marked' /\ OneFetchPerKind'
    BY <2>3, FetchMoves
  <2>. QED  BY <1>3, <2>4 DEF FetchInv, ColumnsOfThisContext
<1>4. CASE FetchBegins(f) \/ FetchGets(f)
  BY <1>3, <1>4 DEF FetchBegins, FetchGets, At, contextVars
<1>5. CASE FetchFolds(f)
  <2>1. f.pc = "fold" /\ UNCHANGED <<gen, inFlight>>
    BY <1>5 DEF FetchFolds, At
  <2>2. PICK arrived \in BOOLEAN :
          /\ fetches' = (fetches \ {f}) \cup
               {[f EXCEPT !.pc = "clear", !.arrived = arrived]}
          /\ arrived => f.arrived \/ gen = f.gen
          /\ gen # f.gen => UNCHANGED <<fetched, discovered>>
          /\ gen = f.gen => fetched' = fetched \cup {f.key}
          /\ \/ discovered' = discovered
             \/ gen = f.gen /\ \E dk \in Named(f.key) : Stamp(f, dk)
    <3>1. CASE /\ gen = f.gen /\ fetched' = fetched \cup {f.key}
               /\ \E dk \in Named(f.key) : Stamp(f, dk)
               /\ fetches' = (fetches \ {f}) \cup {Folds}
      <4>. WITNESS TRUE \in BOOLEAN
      <4>. QED  BY <3>1
    <3>2. CASE /\ gen = f.gen => fetched' = fetched \cup {f.key}
               /\ gen # f.gen => UNCHANGED fetched
               /\ discovered' = discovered /\ Moves(f, "clear")
      <4>1. f.arrived \in BOOLEAN
        BY DEF TypeOK
      <4>2. [f EXCEPT !.pc = "clear"] = [f EXCEPT !.pc = "clear", !.arrived = f.arrived]
        BY <1>0
      <4>3. fetches' = (fetches \ {f}) \cup {[f EXCEPT !.pc = "clear"]}
        BY <3>2 DEF Moves
      <4>4. fetches' = (fetches \ {f}) \cup
              {[f EXCEPT !.pc = "clear", !.arrived = f.arrived]}
        BY <4>2, <4>3
      <4>5. /\ f.arrived => f.arrived \/ gen = f.gen
            /\ gen # f.gen => UNCHANGED <<fetched, discovered>>
        BY <3>2
      <4>. WITNESS f.arrived \in BOOLEAN
      <4>. QED  BY <3>2, <4>4, <4>5
    <3>. QED  BY <1>5, <3>1, <3>2 DEF FetchFolds
  <2>. DEFINE g == [f EXCEPT !.pc = "clear", !.arrived = arrived]
  <2>3. g.key = f.key /\ g.gen = f.gen /\ g.pc = "clear" /\ g.arrived = arrived
    BY <1>0
  <2>4. fetches' = (fetches \ {f}) \cup {g}
    BY <2>2
  <2>. HIDE DEF g
  <2>5. Replaces(f, g)
    BY <1>2, <2>1, <2>2, <2>3, <2>4 DEF Replaces
  <2>6. Marked' /\ OneFetchPerKind'
    BY <2>5, FetchMoves
  <2>7. CASE discovered' = discovered
    BY <2>1, <2>6, <2>7 DEF FetchInv, ColumnsOfThisContext
  <2>8. ASSUME gen = f.gen, NEW dk \in Named(f.key), Stamp(f, dk)
        PROVE  ColumnsOfThisContext'
    <3>1. /\ discovered'.of = discovered.of /\ discovered'.kinds = discovered.kinds
          /\ discovered'.columns = [discovered.columns EXCEPT ![dk] = f.gen]
      BY <2>8, StampTypes
    <3>2. DOMAIN discovered.columns = discovered.kinds
      BY DEF TypeOK, IsSnapshot
    <3>. QED  BY <2>1, <2>8, <3>1, <3>2 DEF FetchInv, ColumnsOfThisContext
  <2>. QED  BY <2>2, <2>6, <2>7, <2>8 DEF FetchInv
<1>6. CASE FetchClears(f)
  <2>1. /\ f.pc = "clear" /\ UNCHANGED <<gen, discovered, fetched>>
        /\ f.gen # gen => inFlight' = inFlight
        /\ f.gen = gen => inFlight \ {f.key} \subseteq inFlight'
    BY <1>6 DEF FetchClears, At, Cleared
  <2>. DEFINE g == [f EXCEPT !.pc = "announce"]
  <2>2. g.key = f.key /\ g.gen = f.gen /\ g.pc = "announce" /\ g.arrived = f.arrived
    BY <1>0
  <2>3. \/ f.arrived /\ fetches' = (fetches \ {f}) \cup {g}
        \/ fetches' = fetches \ {f} /\ g \notin fetches'
        \/ fetches' = fetches \ {f} /\ ~ f.arrived
    BY <1>6 DEF FetchClears, Moves
  <2>. HIDE DEF g
  <2>4. f.gen = gen /\ ~ f.arrived => g \notin fetches
    BY <2>2 DEF FetchInv, Marked, Current
  <2>5. Replaces(f, g)
    BY <1>2, <2>1, <2>2, <2>3, <2>4 DEF Replaces
  <2>6. Marked' /\ OneFetchPerKind'
    BY <2>5, FetchMoves
  <2>. QED  BY <2>1, <2>6 DEF FetchInv, ColumnsOfThisContext
<1>7. CASE FetchAnnounces(f)
  <2>1. fetches' = fetches \ {f} /\ UNCHANGED <<gen, discovered, fetched, inFlight>>
    BY <1>7 DEF FetchAnnounces, contextVars
  <2>2. Replaces(f, f)
    BY <2>1 DEF Replaces
  <2>3. Marked' /\ OneFetchPerKind'
    BY <2>2, FetchMoves
  <2>. QED  BY <2>1, <2>3 DEF FetchInv, ColumnsOfThisContext
<1>. QED  BY <1>4, <1>5, <1>6, <1>7 DEF FetchSteps

LEMMA OthersLeaveTheColumns ==
  ASSUME [Next]_vars
  PROVE  \/ SwitchContext \/ LaunchDiscovers \/ SwitchDiscovers
         \/ \E key \in session.opened : Open(key)
         \/ \E f \in fetches : FetchSteps(f)
         \/ UNCHANGED <<gen, discovered, fetched, inFlight, fetches>>
BY DEF Next, vars, Change, Resync, Observe, FlushDue, Send, Tick, LandLaunch, SwitchBegins,
       SwitchSteps, SwitchRefused, LandSwitch, contextVars

LEMMA FetchInvStep == TypeOK /\ FetchInv /\ [Next]_vars => FetchInv'
<1>. SUFFICES ASSUME TypeOK, FetchInv, [Next]_vars PROVE FetchInv'
  OBVIOUS
<1>1. CASE UNCHANGED <<gen, discovered, fetched, inFlight, fetches>>
  BY <1>1 DEF FetchInv, Marked, Current, OneFetchPerKind, ColumnsOfThisContext
<1>. QED
  BY <1>1, OthersLeaveTheColumns, NewContext, NewSnapshot, FetchInvOpen, FetchInvFetch

LEMMA FetchInvariant == Spec => []FetchInv
BY TypeInit, TypeStep, FetchInvInit, FetchInvStep, PTL DEF Spec

(* A context fetches the CRD of a kind one at a time and once (dynamic.go). *)
THEOREM FetchedOnce == Spec => []OneFetchPerKind
<1>1. FetchInv => OneFetchPerKind
  BY DEF FetchInv
<1>. QED  BY <1>1, FetchInvariant, PTL

(* No column of another context is stamped on a kind of this one.          *)
THEOREM NoForeignColumns == Spec => []ColumnsOfThisContext
<1>1. FetchInv => ColumnsOfThisContext
  BY DEF FetchInv
<1>. QED  BY <1>1, FetchInvariant, PTL

(* Registry keys stay unambiguous in every state of a session.             *)
THEOREM KeysStayUnambiguous == Spec => []KeysAreUnambiguous
<1>1. TypeOK => KeysAreUnambiguous
  BY KeysAreUnique, NothingIsHidden DEF TypeOK, IsSnapshot, KeysAreUnambiguous
<1>. QED  BY <1>1, TypeCorrect, PTL

-----------------------------------------------------------------------------
(***************************************************************************)
(* Columns on their way to the registry.                                   *)
(***************************************************************************)

(* A fetch of this context has columns to announce for the key; a message  *)
(* that has the registry rebuilt is in the channel, folded, being sent, or *)
(* is what the launch or the switch ends with.                             *)
Arriving(key) == \E f \in fetches : f.arrived /\ f.gen = gen /\ f.key = key
Rebuilding ==
  \/ \E i \in DOMAIN events : events[i].columns
  \/ \E k \in DOMAIN pending : pending[k].columns
  \/ \E m \in outbox : m.columns
  \/ launch = "announced"
  \/ switch \in {"target", "there", "rollback", "back"}

LEMMA AnnouncedIs ==
  ASSUME NEW dk
  PROVE  Announced(dk) <=> Arriving(Assign(discovered.kinds)[dk]) \/ Rebuilding
BY DEF Announced, Arriving, Rebuilding

(* What is enough of a step that leaves the snapshot and the registry.     *)
LEMMA ColumnsKept ==
  ASSUME ColumnsOnTheirWay, UNCHANGED <<discovered, registry>>, dropped => dropped',
         Rebuilding => Rebuilding' \/ dropped',
         \A key : Arriving(key) => Arriving(key)' \/ Rebuilding' \/ dropped'
  PROVE  ColumnsOnTheirWay'
<1>1. ASSUME NEW dk \in discovered.kinds, discovered.columns[dk] # Neutral
      PROVE  InRegistry(dk)' \/ Announced(dk)' \/ dropped'
  <2>1. InRegistry(dk) \/ Announced(dk) \/ dropped BY <1>1 DEF ColumnsOnTheirWay
  <2>2. CASE InRegistry(dk) BY <2>2 DEF InRegistry
  <2>3. CASE Announced(dk)
    <3>1. Arriving(Assign(discovered.kinds)[dk]) \/ Rebuilding BY <2>3, AnnouncedIs
    <3>2. CASE Rebuilding BY <3>2 DEF Announced, Rebuilding
    <3>3. CASE Arriving(Assign(discovered.kinds)[dk])
      <4>1. Arriving(Assign(discovered.kinds)[dk])' \/ Rebuilding' \/ dropped' BY <3>3
      <4> QED BY <4>1 DEF Announced, Arriving, Rebuilding
    <3> QED BY <3>1, <3>2, <3>3
  <2> QED BY <2>1, <2>2, <2>3
<1> QED BY <1>1 DEF ColumnsOnTheirWay

LEMMA AppendKeeps ==
  ASSUME NEW S, NEW s \in Seq(S), NEW e \in S
  PROVE  /\ DOMAIN s \subseteq DOMAIN Append(s, e)
         /\ \A i \in DOMAIN s : Append(s, e)[i] = s[i]
         /\ Len(s) + 1 \in DOMAIN Append(s, e) /\ Append(s, e)[Len(s) + 1] = e
OBVIOUS

LEMMA TailKeeps ==
  ASSUME NEW S, NEW s \in Seq(S), s # << >>, NEW i \in DOMAIN s
  PROVE  s[i] = Head(s) \/ \E j \in DOMAIN Tail(s) : Tail(s)[j] = s[i]
<1>1. CASE i = 1 BY <1>1
<1>2. CASE i # 1
  <2>1. i - 1 \in DOMAIN Tail(s) /\ Tail(s)[i - 1] = s[i] BY <1>2
  <2> QED BY <2>1
<1> QED BY <1>1, <1>2

LEMMA ColumnsNotify ==
  ASSUME TypeOK, NEW c \in session.changes, Change(c) \/ Resync(c), ColumnsOnTheirWay
  PROVE  ColumnsOnTheirWay'
<1>1. ChangeMsg(c) \in Messages BY BridgeAssumption DEF TypeOK, ChangeMsg, Messages
<1>2. /\ UNCHANGED <<discovered, registry, dropped, pending, outbox, launch, switch, fetches, gen>>
      /\ Notify(ChangeMsg(c))
  BY DEF Change, Resync, bridgeVars, contextVars
<1>3. \A i \in DOMAIN events : i \in DOMAIN events' /\ events'[i] = events[i]
  BY <1>1, <1>2, AppendKeeps DEF Notify, TypeOK
<1>4. Rebuilding => Rebuilding' BY <1>2, <1>3 DEF Rebuilding
<1>5. \A key : Arriving(key) => Arriving(key)' BY <1>2 DEF Arriving
<1> QED BY <1>2, <1>4, <1>5, ColumnsKept

LEMMA ColumnsObserve ==
  ASSUME TypeOK, Observe, ColumnsOnTheirWay
  PROVE  ColumnsOnTheirWay'
<1> DEFINE m == Head(events)
<1>1. /\ UNCHANGED <<discovered, registry, dropped, outbox, launch, switch, fetches, gen>>
      /\ events # << >> /\ events' = Tail(events)
      /\ pending' = [k \in DOMAIN pending \cup {m.kind} |->
                       IF k # m.kind THEN pending[k]
                       ELSE IF m.kind \in DOMAIN pending THEN Folded(m) ELSE Fresh(m)]
  BY DEF Observe, contextVars
<1>2. events \in Seq(Messages) BY DEF TypeOK
<1>3. ASSUME m.columns PROVE \E k \in DOMAIN pending' : pending'[k].columns
  BY <1>1, <1>3 DEF Folded, Fresh
<1>4. ASSUME NEW k \in DOMAIN pending, pending[k].columns
      PROVE  k \in DOMAIN pending' /\ pending'[k].columns
  BY <1>1, <1>4 DEF Folded
<1>5. ASSUME NEW i \in DOMAIN events, events[i].columns PROVE Rebuilding'
  <2>1. events[i] = m \/ \E j \in DOMAIN Tail(events) : Tail(events)[j] = events[i]
    BY <1>1, <1>2, TailKeeps
  <2> QED BY <1>1, <1>3, <1>5, <2>1 DEF Rebuilding
<1>6. Rebuilding => Rebuilding' BY <1>1, <1>4, <1>5 DEF Rebuilding
<1>7. \A key : Arriving(key) => Arriving(key)' BY <1>1 DEF Arriving
<1> QED BY <1>1, <1>6, <1>7, ColumnsKept

LEMMA ColumnsBridge ==
  ASSUME TypeOK, FlushDue \/ Tick \/ \E m \in outbox : Send(m), ColumnsOnTheirWay
  PROVE  ColumnsOnTheirWay'
<1>1. UNCHANGED <<discovered, launch, switch, fetches, gen, events>>
  BY DEF FlushDue, Tick, Send, contextVars
<1>2. \A key : Arriving(key) => Arriving(key)' BY <1>1 DEF Arriving
<1>3. CASE FlushDue
  <2>1. ASSUME NEW k \in DOMAIN pending, pending[k].columns PROVE Rebuilding'
    <3>1. CASE k \in DueKinds
      <4>1. [kind |-> k, scope |-> pending[k].scope, columns |-> pending[k].columns] \in outbox'
        BY <1>3, <3>1 DEF FlushDue
      <4> QED BY <2>1, <4>1 DEF Rebuilding
    <3>2. CASE k \notin DueKinds
      <4>1. k \in DOMAIN pending' /\ pending'[k] = pending[k] BY <1>3, <3>2 DEF FlushDue
      <4> QED BY <2>1, <4>1 DEF Rebuilding
    <3> QED BY <3>1, <3>2
  <2>2. Rebuilding => Rebuilding' BY <1>1, <1>3, <2>1 DEF Rebuilding, FlushDue
  <2> QED BY <1>1, <1>2, <1>3, <2>2, ColumnsKept DEF FlushDue
<1>4. CASE Tick
  <2>1. \A k \in DOMAIN pending :
          k \in DOMAIN pending' /\ pending'[k].columns = pending[k].columns
    BY <1>4 DEF Tick, TypeOK
  <2>2. Rebuilding => Rebuilding' BY <1>1, <1>4, <2>1 DEF Rebuilding, Tick
  <2> QED BY <1>1, <1>2, <1>4, <2>2, ColumnsKept DEF Tick
<1>5. ASSUME NEW m \in outbox, Send(m) PROVE ColumnsOnTheirWay'
  <2>1. CASE m.columns BY <1>1, <1>5, <2>1 DEF Send, ColumnsOnTheirWay, InRegistry
  <2>2. CASE ~m.columns
    <3>1. UNCHANGED <<registry, pending>> /\ outbox' = outbox \ {m} /\ (dropped => dropped')
      BY <1>5, <2>2 DEF Send
    <3>2. Rebuilding => Rebuilding' BY <1>1, <2>2, <3>1 DEF Rebuilding
    <3> QED BY <1>1, <1>2, <3>1, <3>2, ColumnsKept
  <2> QED BY <2>1, <2>2
<1> QED BY <1>3, <1>4, <1>5

LEMMA ColumnsContext ==
  ASSUME LaunchDiscovers \/ LandLaunch \/ SwitchBegins \/ SwitchSteps, ColumnsOnTheirWay
  PROVE  ColumnsOnTheirWay'
<1>1. CASE LaunchDiscovers
  BY <1>1 DEF LaunchDiscovers, ColumnsOnTheirWay, Announced
<1>2. CASE LandLaunch BY <1>2 DEF LandLaunch, ColumnsOnTheirWay, InRegistry
<1>3. CASE SwitchBegins \/ SwitchRefused \/ (switch = "refused" /\ LandSwitch)
  <2>1. UNCHANGED <<discovered, registry, dropped, events, pending, outbox, launch, fetches, gen>>
    BY <1>3 DEF SwitchBegins, SwitchRefused, LandSwitch, bridgeVars
  <2>2. switch \notin {"target", "there", "rollback", "back"}
    BY <1>3 DEF SwitchBegins, SwitchRefused
  <2>3. Rebuilding => Rebuilding' BY <2>1, <2>2 DEF Rebuilding
  <2>4. \A key : Arriving(key) => Arriving(key)' BY <2>1 DEF Arriving
  <2> QED BY <2>1, <2>3, <2>4, ColumnsKept
<1>4. CASE SwitchContext BY <1>4 DEF SwitchContext, Nothing, ColumnsOnTheirWay
<1>5. CASE SwitchDiscovers
  BY <1>5 DEF SwitchDiscovers, ColumnsOnTheirWay, Announced
<1>6. CASE switch # "refused" /\ LandSwitch
  BY <1>6 DEF LandSwitch, RegistryRebuilt, ColumnsOnTheirWay, InRegistry
<1> QED BY <1>1, <1>2, <1>3, <1>4, <1>5, <1>6 DEF SwitchSteps

LEMMA ColumnsFetch ==
  ASSUME TypeOK, NEW f \in fetches, FetchSteps(f), ColumnsOnTheirWay
  PROVE  ColumnsOnTheirWay'
<1>1. UNCHANGED <<registry, pending, outbox, launch, switch, gen>>
  BY DEF FetchSteps, FetchBegins, FetchGets, FetchFolds, FetchClears, FetchAnnounces, bridgeVars,
         contextVars
<1>2. f = [key |-> f.key, gen |-> f.gen, pc |-> f.pc, arrived |-> f.arrived] BY DEF TypeOK
<1>3. ASSUME NEW g \in fetches', fetches \ {f} \subseteq fetches',
             g.key = f.key, g.gen = f.gen, f.arrived => g.arrived, NEW key, Arriving(key)
      PROVE  Arriving(key)'
  BY <1>1, <1>3 DEF Arriving
<1>4. ASSUME UNCHANGED <<discovered, events, dropped>>, \A key : Arriving(key) => Arriving(key)'
      PROVE  ColumnsOnTheirWay'
  <2>1. Rebuilding => Rebuilding' BY <1>1, <1>4 DEF Rebuilding
  <2> QED BY <1>1, <1>4, <2>1, ColumnsKept
<1>5. ASSUME NEW pc, Moves(f, pc) PROVE \A key : Arriving(key) => Arriving(key)'
  <2> DEFINE g == [f EXCEPT !.pc = pc]
  <2>1. g.key = f.key /\ g.gen = f.gen /\ g.arrived = f.arrived BY <1>2
  <2>2. g \in fetches' /\ fetches \ {f} \subseteq fetches' BY <1>5 DEF Moves
  <2> HIDE DEF g
  <2> QED BY <1>3, <2>1, <2>2
<1>6. CASE FetchBegins(f) \/ FetchGets(f)
  BY <1>4, <1>5, <1>6 DEF FetchBegins, FetchGets, contextVars
<1>7. CASE FetchFolds(f)
  <2>1. UNCHANGED <<events, dropped>> BY <1>7 DEF FetchFolds
  <2>2. CASE discovered' = discovered /\ Moves(f, "clear") BY <1>4, <1>5, <2>1, <2>2
  <2>3. ASSUME gen = f.gen, NEW dk \in Named(f.key), Stamp(f, dk),
               fetches' = (fetches \ {f}) \cup {[f EXCEPT !.pc = "clear", !.arrived = TRUE]}
        PROVE  ColumnsOnTheirWay'
    <3> DEFINE g == [f EXCEPT !.pc = "clear", !.arrived = TRUE]
    <3>1. g.key = f.key /\ g.gen = f.gen /\ g.arrived BY <1>2
    <3>2. g \in fetches' /\ fetches \ {f} \subseteq fetches' BY <2>3
    <3> HIDE DEF g
    <3>3. \A key : Arriving(key) => Arriving(key)' BY <1>3, <3>1, <3>2
    <3>4. Arriving(f.key)' BY <1>1, <2>3, <3>1, <3>2 DEF Arriving
    <3>5. /\ discovered'.of = discovered.of /\ discovered'.kinds = discovered.kinds
          /\ discovered'.columns = [discovered.columns EXCEPT ![dk] = f.gen]
          /\ DOMAIN discovered.columns = discovered.kinds
      BY <2>3, StampTypes DEF TypeOK, IsSnapshot
    <3>6. Rebuilding => Rebuilding' BY <1>1, <2>1 DEF Rebuilding
    <3>7. ASSUME NEW d \in discovered.kinds, discovered'.columns[d] # Neutral
          PROVE  InRegistry(d)' \/ Announced(d)' \/ dropped'
      <4>1. CASE d = dk
        <5>1. f.key = Assign(discovered'.kinds)[d] BY <3>5, <4>1, <2>3 DEF Named
        <5> QED BY <3>4, <5>1 DEF Announced, Arriving
      <4>2. CASE d # dk
        <5>1. discovered'.columns[d] = discovered.columns[d] BY <3>5, <4>2
        <5>2. InRegistry(d) \/ Announced(d) \/ dropped BY <3>7, <5>1 DEF ColumnsOnTheirWay
        <5>3. CASE InRegistry(d) BY <1>1, <3>5, <5>1, <5>3 DEF InRegistry
        <5>4. CASE Announced(d)
          <6>1. PICK key : key = Assign(discovered.kinds)[d] OBVIOUS
          <6>2. Arriving(key) \/ Rebuilding BY <5>4, <6>1, AnnouncedIs
          <6>3. Arriving(key)' \/ Rebuilding' BY <3>3, <3>6, <6>2
          <6>4. key = Assign(discovered'.kinds)[d] BY <3>5, <6>1
          <6> QED BY <6>3, <6>4 DEF Announced, Arriving, Rebuilding
        <5> QED BY <2>1, <5>2, <5>3, <5>4
      <4> QED BY <4>1, <4>2
    <3> QED BY <3>5, <3>7 DEF ColumnsOnTheirWay
  <2> QED BY <1>7, <2>2, <2>3 DEF FetchFolds
<1>8. CASE FetchClears(f)
  <2>1. UNCHANGED <<discovered, events, dropped>> BY <1>8 DEF FetchClears
  <2>2. CASE f.arrived BY <1>4, <1>5, <1>8, <2>1, <2>2 DEF FetchClears
  <2>3. CASE ~f.arrived
    <3>1. fetches' = fetches \ {f} BY <1>8, <2>3 DEF FetchClears
    <3>2. \A key : Arriving(key) => Arriving(key)' BY <1>1, <2>3, <3>1 DEF Arriving
    <3> QED BY <1>4, <2>1, <3>2
  <2> QED BY <2>2, <2>3
<1>9. CASE FetchAnnounces(f)
  <2>1. fetches' = fetches \ {f} /\ UNCHANGED discovered /\ (dropped => dropped')
    BY <1>9 DEF FetchAnnounces, contextVars
  <2>2. CASE gen # f.gen
    <3>1. UNCHANGED <<events, dropped>> BY <1>9, <2>2 DEF FetchAnnounces
    <3>2. \A key : Arriving(key) => Arriving(key)' BY <1>1, <2>1, <2>2 DEF Arriving
    <3> QED BY <1>4, <2>1, <3>1, <3>2
  <2>3. CASE gen = f.gen
    <3>1. Notify(Arrived) /\ dropped' = (dropped \/ Len(events) = EventBuffer)
      BY <1>9, <2>3 DEF FetchAnnounces
    <3>2. CASE Len(events) = EventBuffer
      <4>1. dropped' BY <3>1, <3>2
      <4> QED BY <1>1, <2>1, <4>1, ColumnsKept
    <3>3. CASE Len(events) # EventBuffer
      <4>1. Arrived \in Messages /\ Arrived.columns
        BY BridgeAssumption DEF Arrived, Messages, Scopes
      <4>2. events \in Seq(Messages) /\ Len(events) < EventBuffer
        BY <3>3, Bounds DEF TypeOK
      <4>3. events' = Append(events, Arrived) BY <3>1, <4>2 DEF Notify
      <4>4. \E i \in DOMAIN events' : events'[i].columns BY <4>1, <4>2, <4>3, AppendKeeps
      <4>5. Rebuilding' BY <4>4 DEF Rebuilding
      <4> QED BY <1>1, <2>1, <4>5, ColumnsKept
    <3> QED BY <3>2, <3>3
  <2> QED BY <2>2, <2>3
<1> QED BY <1>6, <1>7, <1>8, <1>9 DEF FetchSteps

LEMMA ColumnsStep == TypeOK /\ ColumnsOnTheirWay /\ [Next]_vars => ColumnsOnTheirWay'
<1> SUFFICES ASSUME TypeOK, ColumnsOnTheirWay, [Next]_vars PROVE ColumnsOnTheirWay' OBVIOUS
<1>1. CASE UNCHANGED vars
  BY <1>1 DEF ColumnsOnTheirWay, InRegistry, Announced, vars, bridgeVars, contextVars
<1>2. ASSUME NEW key \in session.opened, Open(key) PROVE ColumnsOnTheirWay'
  <2>1. UNCHANGED <<discovered, registry, dropped, events, pending, outbox, launch, switch, gen>>
        /\ fetches \subseteq fetches'
    BY <1>2 DEF Open, bridgeVars
  <2>2. Rebuilding => Rebuilding' BY <2>1 DEF Rebuilding
  <2>3. \A k : Arriving(k) => Arriving(k)' BY <2>1 DEF Arriving
  <2> QED BY <2>1, <2>2, <2>3, ColumnsKept
<1> QED BY <1>1, <1>2, ColumnsNotify, ColumnsObserve, ColumnsBridge, ColumnsContext, ColumnsFetch
        DEF Next

(* Columns folded into the snapshot reach the registry, unless a full      *)
(* channel dropped their announcement: until then a fetch, a message in    *)
(* the channel, folded or being sent, or a landing is still to bring them. *)
THEOREM ColumnsArrive == Spec => []ColumnsOnTheirWay
<1>1. Init => ColumnsOnTheirWay BY DEF Init, Nothing, ColumnsOnTheirWay
<1> QED BY <1>1, TypeInit, TypeStep, ColumnsStep, PTL DEF Spec

-----------------------------------------------------------------------------
(***************************************************************************)
(* The registry, and the steps of the abstract feed.                       *)
(***************************************************************************)

LEMMA RegistryStep == TypeOK /\ RegistryOfThisContext /\ [Next]_vars => RegistryOfThisContext'
<1>. SUFFICES ASSUME TypeOK, RegistryOfThisContext, [Next]_vars
              PROVE  RegistryOfThisContext'
  OBVIOUS
<1>. DEFINE Kept == /\ discovered'.of = discovered.of /\ UNCHANGED <<registry, launch>>
                    /\ \/ switch' = switch
                       \/ switch \in {"idle", "client"} /\ switch' \in {"client", "refused"}
            Equal == registry'.of = discovered'.of
            Due2 == launch' = "announced" \/ switch' \in {"target", "there", "rollback", "back"}
<1>1. CASE \E f \in fetches : FetchSteps(f)
  <2>1. PICK f \in fetches : FetchSteps(f)
    BY <1>1
  <2>2. discovered'.of = discovered.of
    BY <2>1, StampTypes DEF FetchSteps, FetchBegins, FetchGets, FetchFolds, FetchClears,
                            FetchAnnounces, contextVars
  <2>3. Kept
    BY <2>1, <2>2 DEF FetchSteps, FetchBegins, FetchGets, FetchFolds, FetchClears,
                      FetchAnnounces, contextVars
  <2>. QED  BY <2>3 DEF RegistryOfThisContext
<1>2. CASE \E m \in outbox : Send(m)
  BY <1>2 DEF Send, contextVars, RegistryOfThisContext
<1>3. CASE LandLaunch \/ LaunchDiscovers
  BY <1>3 DEF LandLaunch, LaunchDiscovers, RegistryOfThisContext
<1>4. CASE SwitchContext \/ SwitchDiscovers
  BY <1>4 DEF SwitchContext, SwitchDiscovers, RegistryOfThisContext
<1>5. CASE LandSwitch
  BY <1>5 DEF LandSwitch, RegistryRebuilt, RegistryOfThisContext
<1>6. CASE SwitchBegins \/ SwitchRefused
  BY <1>6 DEF SwitchBegins, SwitchRefused, RegistryOfThisContext
<1>7. CASE UNCHANGED <<discovered, registry, launch, switch>>
  BY <1>7 DEF RegistryOfThisContext
<1>8. ASSUME \/ \E c \in session.changes : Change(c) \/ Resync(c)
             \/ Observe \/ FlushDue \/ Tick \/ \E key \in session.opened : Open(key)
             \/ UNCHANGED vars
      PROVE  UNCHANGED <<discovered, registry, launch, switch>>
  BY <1>8 DEF Change, Resync, Observe, FlushDue, Tick, Open, contextVars, vars
<1>. QED
  BY <1>1, <1>2, <1>3, <1>4, <1>5, <1>6, <1>7, <1>8 DEF Next, SwitchSteps

(* Between the messages of launches and switches the registry is that of   *)
(* the context the cluster is on (model.go:894, 924).                      *)
THEOREM RegistryIsOfThisContext == Spec => []RegistryOfThisContext
<1>1. Init => RegistryOfThisContext
  BY DEF Init, RegistryOfThisContext
<1>. QED
  BY <1>1, TypeInit, TypeStep, RegistryStep, PTL DEF Spec

(* Every step of the bridge is a step of the feed it implements, or leaves *)
(* it alone; that no read stays stale is liveness, and TLC's.              *)
THEOREM BridgeStepsAreFeedSteps == Spec => Feed!Init /\ [][Feed!Next]_stale
<1>1. Init => Feed!Init
  BY DEF Init, Feed!Init
<1>2. TypeOK /\ TypeOK' /\ [Next]_vars => [Feed!Next]_stale
  <2>. SUFFICES ASSUME TypeOK, TypeOK', [Next]_vars, stale' # stale
                PROVE  Feed!Next
    OBVIOUS
  <2>1. stale \subseteq Reads /\ stale' \subseteq Reads
    BY DEF TypeOK
  <2>2. stale \subseteq stale' \/ stale' \subseteq stale
    BY DEF Next, vars, Change, Resync, Observe, FlushDue, Tick, Send, LaunchDiscovers,
           LandLaunch, SwitchBegins, SwitchSteps, SwitchRefused, SwitchContext,
           SwitchDiscovers, LandSwitch, Open, FetchSteps, FetchBegins, FetchGets, FetchFolds,
           FetchClears, FetchAnnounces
  <2>3. CASE stale \subseteq stale'
    BY <2>1, <2>3 DEF Feed!Next, Feed!Change
  <2>4. CASE stale' \subseteq stale
    <3>1. PICK r \in stale : r \notin stale'
      BY <2>4
    <3>. QED  BY <2>1, <2>4, <3>1 DEF Feed!Next, Feed!Tell
  <2>. QED  BY <2>2, <2>3, <2>4
<1>. QED
  BY <1>1, <1>2, TypeInit, TypeStep, PTL DEF Spec
=============================================================================
