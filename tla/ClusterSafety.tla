--------------------------- MODULE ClusterSafety ---------------------------
(***************************************************************************)
(* The safety theorems about Cluster that rest on its type correctness,    *)
(* for every set of kinds and every number of context switches.            *)
(***************************************************************************)
EXTENDS ClusterProofs

-----------------------------------------------------------------------------
(***************************************************************************)
(* The latch in front of the HasSynced sweep.                              *)
(***************************************************************************)

(* Denials and fills only accumulate under one client, so a sweep that     *)
(* held still holds.                                                       *)
LEMMA SweepIsMonotone ==
  ASSUME \A k \in Kinds : kindFailed[k] # NoClient => kindFailed'[k] # NoClient,
         \A k \in Kinds : hasSynced[k] => hasSynced'[k],
         kindInformers' = kindInformers,
         Sweep(kindFailed)
  PROVE  Sweep(kindFailed)'
BY DEF Sweep, Started

LEMMA LatchStep == TypeOK /\ LatchIsSound /\ [Next]_vars => LatchIsSound'
<1> SUFFICES ASSUME TypeOK, LatchIsSound, [Next]_vars PROVE LatchIsSound' OBVIOUS
<1> USE DEF LatchIsSound, clusterVars, kindVars, gateVars, clientGoVars
<1>1. ASSUME UNCHANGED <<allKindsSynced, kindInformers, kindFailed, hasSynced>>
      PROVE  LatchIsSound'
  BY <1>1 DEF Sweep, Started
<1>2. CASE UNCHANGED vars BY <1>1, <1>2 DEF vars
<1>3. ASSUME NEW k \in Kinds, KindSteps(k) PROVE LatchIsSound'
  <2>1. CASE EnsureKind(k) BY <2>1 DEF EnsureKind
  <2>2. CASE ListSucceeds(k)
    <3>1. hasSynced \in [Kinds -> BOOLEAN] BY DEF TypeOK
    <3>2. \A j \in Kinds : hasSynced[j] => hasSynced'[j] BY <2>2, <3>1 DEF ListSucceeds
    <3> QED BY <2>2, <3>2, SweepIsMonotone DEF ListSucceeds
  <2>3. CASE ReadKind(k) BY <1>1, <2>3 DEF ReadKind
  <2>4. CASE WatchOpens(k) BY <1>1, <2>4 DEF WatchOpens
  <2>5. CASE ObjectChanges(k) BY <1>1, <2>5 DEF ObjectChanges
  <2>6. CASE Deny(k) BY <1>1, <2>6 DEF Deny
  <2>7. ASSUME NEW how, WatchEnds(k, how) PROVE LatchIsSound'
    BY <1>1, <2>7 DEF WatchEnds
  <2>8. ASSUME NEW err, RequestFails(k, err) PROVE LatchIsSound'
    BY <1>1, <2>8 DEF RequestFails
  <2> QED BY <1>3, <2>1, <2>2, <2>3, <2>4, <2>5, <2>6, <2>7, <2>8 DEF KindSteps
<1>4. ASSUME NEW r \in reports, Deliver(r) PROVE LatchIsSound'
  <2>1. kindInformers' = kindInformers /\ hasSynced' = hasSynced BY <1>4 DEF Deliver
  <2>2. CASE UNCHANGED <<allKindsSynced, kindFailed>> BY <1>1, <2>1, <2>2
  <2>3. CASE RecordWatchError(r)
    <3>1. r.client # NoClient BY DEF TypeOK, Reports, Clients, NoClient
    <3>2. kindFailed \in [Kinds -> Clients \cup {NoClient}] BY DEF TypeOK
    <3>3. \A k \in Kinds : kindFailed[k] # NoClient => kindFailed'[k] # NoClient
      BY <2>3, <3>1, <3>2 DEF RecordWatchError, NoteWatchError
    <3>4. Sweep(kindFailed) => Sweep(kindFailed)' BY <2>1, <3>3, SweepIsMonotone
    <3>5. Sweep(kindFailed') => Sweep(kindFailed)' BY <2>1 DEF Sweep, Started
    <3>6. allKindsSynced' => allKindsSynced \/ Sweep(kindFailed')
      BY <2>3 DEF RecordWatchError
    <3> QED BY <3>4, <3>5, <3>6
  <2> QED BY <1>4, <2>2, <2>3
          DEF Deliver, NoteReached, RecordWatchEstablished, RecordWatchRotated
<1>5. ASSUME NEW t \in Starters, StartSteps(t) PROVE LatchIsSound'
  <2>1. CASE StartRegisters(t)
    <3>1. CASE Eager = {}
      <4>1. kindInformers \in [Kinds -> Nat \cup {NoGen}] BY DEF TypeOK
      <4>2. kindInformers' = kindInformers BY <2>1, <3>1, <4>1 DEF StartRegisters
      <4> QED BY <1>1, <2>1, <3>1, <4>2 DEF StartRegisters
    <3>2. CASE Eager # {} BY <2>1, <3>2 DEF StartRegisters
    <3> QED BY <3>1, <3>2
  <2>2. CASE StartRefused(t) BY <1>1, <2>2 DEF StartRefused
  <2>3. CASE StartCaptures(t) BY <1>1, <2>3 DEF StartCaptures
  <2>4. CASE StartSettles(t) BY <1>1, <2>4 DEF StartSettles
  <2>5. CASE StartGivesUp(t) BY <1>1, <2>5 DEF StartGivesUp
  <2>6. CASE StartMarks(t) BY <1>1, <2>6 DEF StartMarks
  <2> QED BY <1>5, <2>1, <2>2, <2>3, <2>4, <2>5, <2>6 DEF StartSteps
<1>6. ASSUME NEW c \in Clients, LoopSteps(c) PROVE LatchIsSound'
  <2>1. kindInformers' = kindInformers /\ hasSynced' = hasSynced /\ kindFailed' = kindFailed
    BY <1>6 DEF LoopSteps, LoopBegins, LoopExits, LoopRearms, LoopTicks, LoopRetries, Probes,
                ProbeReturns, ProbeApplies
  <2>2. allKindsSynced' => allKindsSynced \/ Sweep(kindFailed)
    BY <1>6 DEF LoopSteps, LoopBegins, LoopExits, LoopRearms, LoopTicks, LoopRetries, Probes,
                ProbeReturns, ProbeApplies, ProbeAnswered, ProbeFailed, ProbeIgnored
  <2> QED BY <2>1, <2>2 DEF Sweep, Started
<1>7. ASSUME NEW c \in Clients, OnBlocked(c) PROVE LatchIsSound'
  BY <1>1, <1>7 DEF OnBlocked
<1>8. CASE SwitchContext BY <1>8 DEF SwitchContext, ReplaceClient
<1>9. CASE Stop \/ RetryNow \/ Recover BY <1>1, <1>9 DEF Stop, RetryNow, Recover
<1> QED BY <1>2, <1>3, <1>4, <1>5, <1>6, <1>7, <1>8, <1>9 DEF Next

(* The latch never answers for an informer still doing its initial LIST,   *)
(* however many informers start, fail and fill around it.                  *)
THEOREM LatchCorrect == Spec => []LatchIsSound
<1>1. Init => LatchIsSound BY DEF Init, LatchIsSound
<1> QED BY <1>1, LatchStep, TypeCorrect, PTL DEF Spec

-----------------------------------------------------------------------------
(***************************************************************************)
(* Generations.                                                            *)
(***************************************************************************)

(* Registration, Start and SwitchContext hand out the newest generation    *)
(* only, and SwitchContext makes every older one stale.                    *)
LEMMA GenerationStep ==
  TypeOK /\ GenerationIdentifiesClient /\ [Next]_vars => GenerationIdentifiesClient'
<1> SUFFICES ASSUME TypeOK, GenerationIdentifiesClient, [Next]_vars
             PROVE  GenerationIdentifiesClient'
  OBVIOUS
<1> DEFINE Carried == <<generation, client, loop, starter, kindInformers, errHandler>>
<1> USE DEF clusterVars, kindVars, gateVars, clientGoVars
<1>1. ASSUME UNCHANGED Carried, reports' \subseteq reports
      PROVE  GenerationIdentifiesClient'
  BY <1>1 DEF GenerationIdentifiesClient
<1>2. CASE UNCHANGED vars BY <1>1, <1>2 DEF vars
<1>3. ASSUME NEW k \in Kinds, KindSteps(k) PROVE GenerationIdentifiesClient'
  <2>1. ASSUME UNCHANGED Carried, NEW gen, NEW what, Report(k, gen, what), gen <= generation
        PROVE  GenerationIdentifiesClient'
    BY <2>1 DEF GenerationIdentifiesClient, Report
  <2>2. kindInformers[k] <= generation /\ errHandler[k] <= generation
    BY DEF GenerationIdentifiesClient
  <2>3. CASE EnsureKind(k)
    <3>1. \A j \in Kinds : kindInformers'[j] <= generation /\ errHandler'[j] <= generation
      BY <2>3 DEF EnsureKind, GenerationIdentifiesClient, TypeOK
    <3> QED BY <2>3, <3>1 DEF EnsureKind, GenerationIdentifiesClient
  <2>4. CASE ReadKind(k) BY <1>1, <2>4 DEF ReadKind
  <2>5. CASE ListSucceeds(k) BY <1>1, <2>5 DEF ListSucceeds
  <2>6. CASE WatchOpens(k) BY <2>1, <2>2, <2>6 DEF WatchOpens
  <2>7. CASE ObjectChanges(k) BY <2>1, <2>2, <2>7 DEF ObjectChanges
  <2>8. CASE Deny(k) BY <1>1, <2>8 DEF Deny
  <2>9. ASSUME NEW how, WatchEnds(k, how) PROVE GenerationIdentifiesClient'
    BY <2>1, <2>2, <2>9 DEF WatchEnds
  <2>10. ASSUME NEW err, RequestFails(k, err) PROVE GenerationIdentifiesClient'
    BY <2>1, <2>2, <2>10 DEF RequestFails
  <2> QED BY <1>3, <2>3, <2>4, <2>5, <2>6, <2>7, <2>8, <2>9, <2>10 DEF KindSteps
<1>4. ASSUME NEW r \in reports, Deliver(r) PROVE GenerationIdentifiesClient'
  BY <1>1, <1>4 DEF Deliver
<1>5. ASSUME NEW t \in Starters, StartSteps(t) PROVE GenerationIdentifiesClient'
  <2>1. CASE StartRegisters(t)
    <3>1. generation \in Nat /\ client \in Clients BY DEF TypeOK
    <3>2. \A r \in reports' : /\ r.gen <= generation'
                              /\ r.gen = generation' => r.client = client'
      BY <2>1, <3>1 DEF StartRegisters, GenerationIdentifiesClient, TypeOK, Reports, NoGen
    <3>3. \A c \in Clients : /\ loop'[c].gen <= generation'
                             /\ loop'[c].gen = generation' => c = client'
      BY <2>1, <3>1 DEF StartRegisters, GenerationIdentifiesClient, TypeOK, Loops, NoGen
    <3>4. \A s \in Starters : /\ starter'[s].gen <= generation'
                              /\ starter'[s].gen = generation' => starter'[s].client = client'
      BY <2>1, <3>1 DEF StartRegisters, GenerationIdentifiesClient, TypeOK, StarterStates, NoGen
    <3>5. \A k \in Kinds : kindInformers'[k] <= generation' /\ errHandler'[k] <= generation'
      BY <2>1, <3>1 DEF StartRegisters, GenerationIdentifiesClient, TypeOK, NoGen
    <3> QED BY <3>2, <3>3, <3>4, <3>5 DEF GenerationIdentifiesClient
  <2>2. CASE ~StartRegisters(t)
    <3>1. UNCHANGED <<generation, client, loop, kindInformers, errHandler, reports>>
      BY <1>5, <2>2 DEF StartSteps, StartRefused, StartCaptures, StartSettles, StartGivesUp,
                        StartMarks
    <3>2. \A s \in Starters : /\ starter'[s].gen = starter[s].gen
                              /\ starter'[s].client = starter[s].client
      <4>1. \E pc, keys : starter' = Moved(t, pc, keys)
        BY <1>5, <2>2 DEF StartSteps, StartRefused, StartCaptures, StartSettles, StartGivesUp,
                          StartMarks, Move
      <4> QED BY <4>1 DEF Moved, TypeOK
    <3> QED BY <3>1, <3>2 DEF GenerationIdentifiesClient
  <2> QED BY <2>1, <2>2
<1>6. ASSUME NEW c \in Clients, LoopSteps(c) PROVE GenerationIdentifiesClient'
  <2>1. UNCHANGED <<generation, client, starter, kindInformers, errHandler, reports>>
    BY <1>6 DEF LoopSteps, LoopBegins, LoopExits, LoopRearms, LoopTicks, LoopRetries, Probes,
                ProbeReturns, ProbeApplies
  <2>2. \A d \in Clients : loop'[d].gen = loop[d].gen
    <3>1. \E pc, timer, result : loop' = LoopAt(c, pc, timer, result)
      BY <1>6 DEF LoopSteps, LoopBegins, LoopExits, LoopRearms, LoopTicks, LoopRetries, Probes,
                  ProbeReturns, ProbeApplies
    <3> QED BY <3>1 DEF LoopAt, TypeOK
  <2> QED BY <2>1, <2>2 DEF GenerationIdentifiesClient
<1>7. ASSUME NEW c \in Clients, OnBlocked(c) PROVE GenerationIdentifiesClient'
  BY <1>1, <1>7 DEF OnBlocked
<1>8. ASSUME generation' = generation + 1, UNCHANGED <<loop, reports>>,
             \A s \in Starters : starter'[s].gen = starter[s].gen,
             \A k \in Kinds : /\ kindInformers'[k] \in {kindInformers[k], NoGen}
                              /\ errHandler'[k] \in {errHandler[k], NoGen}
      PROVE  GenerationIdentifiesClient'
  <2>1. generation \in Nat BY DEF TypeOK
  <2>2. \A r \in reports : r.gen \in Int /\ r.gen <= generation
    BY DEF GenerationIdentifiesClient, TypeOK, Reports, NoGen
  <2>3. \A c \in Clients : loop[c].gen \in Int /\ loop[c].gen <= generation
    BY DEF GenerationIdentifiesClient, TypeOK, Loops, NoGen
  <2>4. \A s \in Starters : starter[s].gen \in Int /\ starter[s].gen <= generation
    BY DEF GenerationIdentifiesClient, TypeOK, StarterStates, NoGen
  <2>5. \A k \in Kinds : /\ kindInformers[k] \in Int /\ kindInformers[k] <= generation
                         /\ errHandler[k] \in Int /\ errHandler[k] <= generation
    BY DEF GenerationIdentifiesClient, TypeOK, NoGen
  <2>6. \A r \in reports' : r.gen < generation' BY <1>8, <2>1, <2>2
  <2>7. \A c \in Clients : loop'[c].gen < generation' BY <1>8, <2>1, <2>3
  <2>8. \A s \in Starters : starter'[s].gen < generation' BY <1>8, <2>1, <2>4
  <2>9. \A k \in Kinds : kindInformers'[k] <= generation' /\ errHandler'[k] <= generation'
    BY <1>8, <2>1, <2>5 DEF NoGen
  <2>10. /\ \A r \in reports' : r.gen \in Int
         /\ \A c \in Clients : loop'[c].gen \in Int
         /\ \A s \in Starters : starter'[s].gen \in Int
         /\ generation' \in Int
    BY <1>8, <2>1, <2>2, <2>3, <2>4
  <2> QED BY <2>6, <2>7, <2>8, <2>9, <2>10 DEF GenerationIdentifiesClient
<1>9. CASE SwitchContext
  <2>1. \A s \in Starters : starter'[s].gen = starter[s].gen
    BY <1>9 DEF SwitchContext, ReplaceClient, Move, Moved, TypeOK, StarterStates
  <2> QED BY <1>8, <1>9, <2>1 DEF SwitchContext, ReplaceClient
<1>10. CASE Stop BY <1>8, <1>10 DEF Stop
<1>11. CASE RetryNow \/ Recover BY <1>1, <1>11 DEF RetryNow, Recover
<1> QED BY <1>2, <1>3, <1>4, <1>5, <1>6, <1>7, <1>9, <1>10, <1>11 DEF Next

(* A generation that is still current belongs to the current client: every *)
(* callback's one integer comparison is enough.                            *)
THEOREM GenerationCorrect == Spec => []GenerationIdentifiesClient
<1>1. Init => GenerationIdentifiesClient
  BY ClusterAssumption DEF Init, GenerationIdentifiesClient, NoGen
<1> QED BY <1>1, GenerationStep, TypeCorrect, PTL DEF Spec

-----------------------------------------------------------------------------
(***************************************************************************)
(* One context at a time.                                                  *)
(***************************************************************************)

LEMMA CurrentClusterStep ==
  TypeOK /\ GenerationIdentifiesClient /\ OnlyTheCurrentCluster /\ [Next]_vars
    => OnlyTheCurrentCluster'
<1> SUFFICES ASSUME TypeOK, GenerationIdentifiesClient, OnlyTheCurrentCluster, [Next]_vars
             PROVE  OnlyTheCurrentCluster'
  OBVIOUS
<1> DEFINE Records == <<synced, reached, kindFailed, kindStalled, watchUnhealthy, health>>
           Here == {client, NoClient}
<1> USE DEF clusterVars, kindVars, gateVars, clientGoVars
<1>1. ASSUME client' = client, synced' \in Here, reached' \in Here, health'.from \in Here,
             \A k \in Kinds : /\ kindFailed'[k] \in {kindFailed[k], client}
                              /\ kindStalled'[k] \in {kindStalled[k], client, NoClient}
                              /\ watchUnhealthy'[k] \in {watchUnhealthy[k], client, NoClient}
      PROVE  OnlyTheCurrentCluster'
  BY <1>1 DEF OnlyTheCurrentCluster
<1>2. ASSUME UNCHANGED client, UNCHANGED Records PROVE OnlyTheCurrentCluster'
  BY <1>2 DEF OnlyTheCurrentCluster
<1>3. synced \in Here /\ reached \in Here /\ health.from \in Here BY DEF OnlyTheCurrentCluster
<1>4. CASE UNCHANGED vars BY <1>2, <1>4 DEF vars
<1>5. ASSUME NEW k \in Kinds, KindSteps(k) PROVE OnlyTheCurrentCluster'
  <2>1. CASE ReadKind(k)
    <3>1. kindStalled \in [Kinds -> Clients \cup {NoClient}] BY DEF TypeOK
    <3> QED BY <1>1, <1>3, <2>1, <3>1 DEF ReadKind
  <2>2. CASE ~ReadKind(k)
    BY <1>2, <1>5, <2>2 DEF KindSteps, EnsureKind, ListSucceeds, WatchOpens, ObjectChanges,
                            Deny, WatchEnds, RequestFails
  <2> QED BY <2>1, <2>2
<1>6. ASSUME NEW r \in reports, Deliver(r) PROVE OnlyTheCurrentCluster'
  <2>1. client' = client /\ synced' = synced BY <1>6 DEF Deliver
  <2>2. CASE Stale(r.gen) /\ UNCHANGED Records BY <1>2, <2>1, <2>2
  <2>3. CASE ~Stale(r.gen)
    <3>1. r.client = client BY <2>3 DEF Stale, GenerationIdentifiesClient
    <3>2. /\ kindFailed \in [Kinds -> Clients \cup {NoClient}]
          /\ kindStalled \in [Kinds -> Clients \cup {NoClient}]
          /\ watchUnhealthy \in [Kinds -> Clients \cup {NoClient}]
      BY DEF TypeOK
    <3>3. CASE NoteReached(r) BY <1>1, <1>3, <2>1, <3>1, <3>3 DEF NoteReached
    <3>4. CASE RecordWatchEstablished(r)
      BY <1>1, <1>3, <2>1, <3>2, <3>4 DEF RecordWatchEstablished
    <3>5. CASE RecordWatchRotated(r)
      BY <1>1, <1>3, <2>1, <3>1, <3>2, <3>5 DEF RecordWatchRotated
    <3>6. CASE RecordWatchError(r) /\ r.what \in Failures
      <4>1. PICK recent \in BOOLEAN :
              health' = OnWatchError(health, r.what, client \in Static,
                                     Ready(allKindsSynced', watchUnhealthy'),
                                     reached # NoClient \/ client \in responded, recent, r.client)
        BY <3>6 DEF RecordWatchError
      <4>2. health'.from \in {health.from, r.client}
        <5>1. allKindsSynced' \in BOOLEAN BY <3>6 DEF RecordWatchError, TypeOK, Sweep
        <5>2. /\ (client \in Static) \in BOOLEAN
              /\ Ready(allKindsSynced', watchUnhealthy') \in BOOLEAN
              /\ (reached # NoClient \/ client \in responded) \in BOOLEAN
          BY <5>1 DEF Ready
        <5>3. health \in ConnStates /\ r.client \in Clients BY DEF TypeOK, Reports
        <5> QED BY <3>6, <4>1, <5>2, <5>3, WatchErrorHealth, Zenon
      <4>3. health'.from \in Here BY <1>3, <3>1, <4>2
      <4> QED BY <1>1, <1>3, <2>1, <3>1, <3>2, <3>6, <4>3 DEF RecordWatchError, NoteWatchError
    <3> QED BY <1>6, <2>3, <3>3, <3>4, <3>5, <3>6 DEF Deliver
  <2> QED BY <1>6, <2>2, <2>3, <2>1 DEF Deliver
<1>7. ASSUME NEW t \in Starters, StartSteps(t) PROVE OnlyTheCurrentCluster'
  <2>1. CASE StartMarks(t)
    <3>1. ~Stale(starter[t].gen) => starter[t].client = client
      BY DEF Stale, GenerationIdentifiesClient
    <3>2. synced' \in Here /\ reached' \in Here BY <1>3, <2>1, <3>1 DEF StartMarks
    <3> QED BY <1>1, <1>3, <2>1, <3>2 DEF StartMarks
  <2>2. CASE ~StartMarks(t)
    BY <1>2, <1>7, <2>2 DEF StartSteps, StartRegisters, StartRefused, StartCaptures,
                            StartSettles, StartGivesUp
  <2> QED BY <2>1, <2>2
<1>8. ASSUME NEW c \in Clients, LoopSteps(c) PROVE OnlyTheCurrentCluster'
  <2>1. CASE ProbeApplies(c)
    <3>1. /\ client' = client /\ synced' = synced /\ kindFailed' = kindFailed
          /\ kindStalled' = kindStalled /\ watchUnhealthy' = watchUnhealthy
      BY <2>1 DEF ProbeApplies
    <3>2. CASE ProbeIgnored(c) BY <1>2, <3>1, <3>2 DEF ProbeIgnored
    <3>3. CASE ~Stale(loop[c].gen) /\ (ProbeAnswered(c) \/ ProbeFailed(c))
      <4>1. c = client BY <3>3 DEF Stale, GenerationIdentifiesClient
      <4>2. health \in ConnStates /\ reached \in Clients \cup {NoClient} BY DEF TypeOK
      <4>3. allKindsSynced' \in BOOLEAN
        BY <3>3 DEF ProbeAnswered, ProbeFailed, TypeOK, Sweep
      <4>4. CASE ProbeAnswered(c)
        <5>1. health'.from \in Here
          BY <1>3, <4>1, <4>2, <4>3, <4>4, PingAnsweredHealth DEF ProbeAnswered, Ready
        <5> QED BY <1>1, <1>3, <3>1, <4>1, <4>4, <5>1 DEF ProbeAnswered
      <4>5. CASE ProbeFailed(c)
        <5>1. PICK recent \in BOOLEAN :
                health' = OnPingFailed(health, loop[c].result, c \in Static,
                                       Ready(allKindsSynced', watchUnhealthy),
                                       reached' # NoClient \/ c \in responded, recent, c)
          BY <4>5 DEF ProbeFailed
        <5>2. loop[c].result \in Failures BY <4>5 DEF ProbeFailed, TypeOK, Loops
        <5>3. /\ (c \in Static) \in BOOLEAN
              /\ Ready(allKindsSynced', watchUnhealthy) \in BOOLEAN
              /\ (reached' # NoClient \/ c \in responded) \in BOOLEAN
          BY <4>3 DEF Ready
        <5>4. health'.from \in {health.from, c}
          BY <4>2, <5>1, <5>2, <5>3, PingFailedHealth, Zenon
        <5>5. health'.from \in Here /\ reached' \in Here
          BY <1>3, <4>1, <4>5, <5>4 DEF ProbeFailed
        <5> QED BY <1>1, <1>3, <3>1, <5>5
      <4> QED BY <3>3, <4>4, <4>5
    <3> QED BY <2>1, <3>2, <3>3 DEF ProbeApplies
  <2>2. CASE ~ProbeApplies(c)
    BY <1>2, <1>8, <2>2 DEF LoopSteps, LoopBegins, LoopExits, LoopRearms, LoopTicks,
                            LoopRetries, Probes, ProbeReturns
  <2> QED BY <2>1, <2>2
<1>9. ASSUME NEW c \in Clients, OnBlocked(c) PROVE OnlyTheCurrentCluster'
  <2>1. health'.from \in Here BY <1>3, <1>9, OtherHealth DEF OnBlocked
  <2> QED BY <1>1, <1>3, <1>9, <2>1 DEF OnBlocked
<1>10. CASE SwitchContext
  BY <1>10 DEF SwitchContext, ReplaceClient, OnlyTheCurrentCluster, Connected
<1>11. CASE Stop \/ RetryNow \/ Recover BY <1>2, <1>11 DEF Stop, RetryNow, Recover
<1> QED BY <1>4, <1>5, <1>6, <1>7, <1>8, <1>9, <1>10, <1>11 DEF Next

(* Nothing a replaced context's goroutines still had to say is ever        *)
(* recorded against the context that replaced it.                          *)
THEOREM CurrentClusterCorrect == Spec => []OnlyTheCurrentCluster
<1>1. Init => OnlyTheCurrentCluster BY DEF Init, OnlyTheCurrentCluster, Connected
<1> QED BY <1>1, CurrentClusterStep, TypeCorrect, GenerationCorrect, PTL DEF Spec

-----------------------------------------------------------------------------
(***************************************************************************)
(* What a Start waited for.                                                *)
(***************************************************************************)

(* Under one generation a registered kind stays registered, and a cache    *)
(* that filled or was denied stays so: the rest of the wait's state is the *)
(* starters' own.                                                          *)
LEMMA WaitKept ==
  ASSUME CurrentStartWaitsForEager, SyncedMeansSettled,
         UNCHANGED <<starter, started, synced>>,
         \/ generation' = generation
         \/ \A t \in Starters : starter[t].gen # generation',
         \A k \in Kinds : Started(k) => Started(k)',
         \A k \in Kinds : hasSynced[k] => hasSynced'[k],
         \A k \in Kinds : kindFailed[k] # NoClient => kindFailed'[k] # NoClient
  PROVE  CurrentStartWaitsForEager' /\ SyncedMeansSettled'
BY ClusterAssumption
   DEF CurrentStartWaitsForEager, SyncedMeansSettled, StartInFlight, StartUnderWay, Started

LEMMA WaitStep ==
  /\ TypeOK /\ GenerationIdentifiesClient
  /\ CurrentStartWaitsForEager /\ SyncedMeansSettled
  /\ [Next]_vars
  => CurrentStartWaitsForEager' /\ SyncedMeansSettled'
<1> SUFFICES ASSUME TypeOK, GenerationIdentifiesClient, CurrentStartWaitsForEager,
                    SyncedMeansSettled, [Next]_vars
             PROVE  CurrentStartWaitsForEager' /\ SyncedMeansSettled'
  OBVIOUS
<1> DEFINE Goal == CurrentStartWaitsForEager' /\ SyncedMeansSettled'
           Waits == <<starter, started, synced, generation>>
           Caches == <<kindInformers, hasSynced, kindFailed>>
<1> USE DEF clusterVars, kindVars, gateVars, clientGoVars
<1>1. ASSUME UNCHANGED Waits, UNCHANGED Caches PROVE Goal BY <1>1, WaitKept DEF Started
<1>2. CASE UNCHANGED vars BY <1>1, <1>2 DEF vars
<1>3. ASSUME NEW k \in Kinds, KindSteps(k) PROVE Goal
  <2>1. CASE EnsureKind(k)
    <3>1. \A j \in Kinds : Started(j) => Started(j)'
      BY <2>1 DEF EnsureKind, Started, TypeOK, NoGen
    <3> QED BY <2>1, <3>1, WaitKept DEF EnsureKind
  <2>2. CASE ListSucceeds(k)
    <3>1. \A j \in Kinds : hasSynced[j] => hasSynced'[j] BY <2>2 DEF ListSucceeds, TypeOK
    <3> QED BY <2>2, <3>1, WaitKept DEF ListSucceeds, Started
  <2>3. CASE ~EnsureKind(k) /\ ~ListSucceeds(k)
    BY <1>1, <1>3, <2>3 DEF KindSteps, ReadKind, WatchOpens, ObjectChanges, Deny, WatchEnds,
                            RequestFails
  <2> QED BY <2>1, <2>2, <2>3
<1>4. ASSUME NEW r \in reports, Deliver(r) PROVE Goal
  <2>1. UNCHANGED Waits /\ UNCHANGED <<kindInformers, hasSynced>> BY <1>4 DEF Deliver
  <2>2. CASE kindFailed' = kindFailed BY <1>1, <2>1, <2>2
  <2>3. CASE RecordWatchError(r)
    <3>1. r.client # NoClient BY DEF TypeOK, Reports, Clients, NoClient
    <3>2. \A k \in Kinds : kindFailed[k] # NoClient => kindFailed'[k] # NoClient
      BY <2>3, <3>1 DEF RecordWatchError, NoteWatchError, TypeOK
    <3> QED BY <2>1, <3>2, WaitKept DEF Started
  <2> QED BY <1>4, <2>2, <2>3
          DEF Deliver, NoteReached, RecordWatchEstablished, RecordWatchRotated
<1>5. ASSUME NEW t \in Starters, StartSteps(t) PROVE Goal
  <2>1. CASE StartRegisters(t)
    <3>1. \A s \in Starters : StartInFlight(s)' => s = t /\ starter'[s].pc = "started"
      BY <2>1 DEF StartRegisters, StartInFlight, StartUnderWay, GenerationIdentifiesClient, TypeOK,
                  StarterStates, NoGen
    <3>2. started' /\ synced' = synced BY <2>1 DEF StartRegisters
    <3>3. \A k \in Eager : Started(k)'
      BY <2>1, ClusterAssumption DEF StartRegisters, Started, TypeOK, NoGen
    <3>4. UNCHANGED <<hasSynced, kindFailed>> BY <2>1 DEF StartRegisters
    <3> QED BY <3>1, <3>2, <3>3, <3>4 DEF CurrentStartWaitsForEager, SyncedMeansSettled
  <2>2. CASE ~StartRegisters(t)
    <3>1. UNCHANGED <<generation, started>> /\ UNCHANGED Caches
      BY <1>5, <2>2 DEF StartSteps, StartRefused, StartCaptures, StartSettles, StartGivesUp,
                        StartMarks
    <3>2. \A s \in Starters \ {t} : starter'[s] = starter[s]
      BY <1>5, <2>2 DEF StartSteps, StartRefused, StartCaptures, StartSettles, StartGivesUp,
                        StartMarks, Move, Moved, TypeOK
    <3>3. /\ starter'[t].gen = starter[t].gen
          /\ \/ starter'[t].pc \in {"returned", "failed"}
             \/ StartCaptures(t) /\ starter'[t].pc = "waiting"
             \/ StartSettles(t) /\ starter'[t].pc = "settled"
      BY <1>5, <2>2 DEF StartSteps, StartRefused, StartCaptures, StartSettles, StartGivesUp,
                        StartMarks, Move, Moved, TypeOK
    <3>4. StartInFlight(t)' =>
            /\ started
            /\ starter'[t].pc # "started" /\ starter'[t].keys = Eager
            /\ starter'[t].pc = "settled" =>
                 \A k \in Eager : hasSynced[k] \/ kindFailed[k] # NoClient
      <4> SUFFICES ASSUME StartInFlight(t)' PROVE
            /\ started
            /\ starter'[t].pc # "started" /\ starter'[t].keys = Eager
            /\ starter'[t].pc = "settled" =>
                 \A k \in Eager : hasSynced[k] \/ kindFailed[k] # NoClient
        OBVIOUS
      <4>1. starter[t].gen = generation BY <3>1, <3>3 DEF StartInFlight, StartUnderWay
      <4>2. CASE StartCaptures(t) /\ starter'[t].pc = "waiting"
        BY <4>1, <4>2
           DEF StartCaptures, Moved, TypeOK, CurrentStartWaitsForEager, StartInFlight,
               StartUnderWay
      <4>3. CASE StartSettles(t) /\ starter'[t].pc = "settled"
        <5>1. started /\ starter[t].keys = Eager /\ \A k \in Eager : Started(k)
          BY <4>1, <4>3 DEF StartSettles, CurrentStartWaitsForEager, StartInFlight, StartUnderWay
        <5>2. starter'[t].keys = Eager BY <4>3, <5>1 DEF StartSettles, Move, Moved, TypeOK
        <5>3. \A k \in Eager : hasSynced[k] \/ kindFailed[k] # NoClient
          BY <4>3, <5>1 DEF StartSettles, EagerSettled
        <5> QED BY <4>3, <5>1, <5>2, <5>3
      <4> QED BY <3>3, <4>2, <4>3 DEF StartInFlight, StartUnderWay
    <3>5. CurrentStartWaitsForEager'
      BY <3>1, <3>2, <3>4 DEF CurrentStartWaitsForEager, StartInFlight, StartUnderWay, Started
    <3>6. SyncedMeansSettled'
      <4>1. CASE synced' = synced BY <3>1, <4>1 DEF SyncedMeansSettled, Started
      <4>2. CASE StartMarks(t) /\ ~Stale(starter[t].gen)
        <5>1. \A k \in Eager : Started(k) /\ (hasSynced[k] \/ kindFailed[k] # NoClient)
          BY <4>2 DEF StartMarks, Stale, CurrentStartWaitsForEager, StartInFlight, StartUnderWay
        <5> QED BY <3>1, <5>1 DEF SyncedMeansSettled, Started
      <4> QED BY <1>5, <2>2, <4>1, <4>2 DEF StartSteps, StartRefused, StartCaptures,
                                            StartSettles, StartGivesUp, StartMarks
    <3> QED BY <3>5, <3>6
  <2> QED BY <2>1, <2>2
<1>6. ASSUME NEW c \in Clients, LoopSteps(c) PROVE Goal
  BY <1>1, <1>6 DEF LoopSteps, LoopBegins, LoopExits, LoopRearms, LoopTicks, LoopRetries, Probes,
                    ProbeReturns, ProbeApplies
<1>7. ASSUME NEW c \in Clients, OnBlocked(c) PROVE Goal BY <1>1, <1>7 DEF OnBlocked
<1>8. CASE SwitchContext
  <2>1. \A t \in Starters : starter'[t].gen = starter[t].gen
    BY <1>8 DEF SwitchContext, ReplaceClient, Move, Moved, TypeOK
  <2>2. \A t \in Starters : starter[t].gen # generation'
    BY <1>8 DEF SwitchContext, GenerationIdentifiesClient, TypeOK, StarterStates, NoGen
  <2>3. ~started' /\ synced' = NoClient BY <1>8 DEF SwitchContext, ReplaceClient
  <2> QED BY <2>1, <2>2, <2>3
          DEF CurrentStartWaitsForEager, SyncedMeansSettled, StartInFlight, StartUnderWay
<1>9. CASE Stop
  <2>1. \A t \in Starters : starter[t].gen # generation'
    BY <1>9 DEF Stop, GenerationIdentifiesClient, TypeOK, StarterStates, NoGen
  <2> QED BY <1>9, <2>1, WaitKept DEF Stop, Started
<1>10. CASE RetryNow \/ Recover BY <1>1, <1>10 DEF RetryNow, Recover
<1> QED BY <1>2, <1>3, <1>4, <1>5, <1>6, <1>7, <1>8, <1>9, <1>10 DEF Next

(* A cluster is reported synced only with its own eager caches filled or   *)
(* denied, whichever Start or switch came between.                         *)
THEOREM SyncedCorrect == Spec => [](CurrentStartWaitsForEager /\ SyncedMeansSettled)
<1>1. Init => CurrentStartWaitsForEager /\ SyncedMeansSettled
  BY DEF Init, CurrentStartWaitsForEager, SyncedMeansSettled, StartInFlight, StartUnderWay, NoGen
<1> QED BY <1>1, WaitStep, TypeCorrect, GenerationCorrect, PTL DEF Spec

-----------------------------------------------------------------------------
(***************************************************************************)
(* The gate, the health loop and the header.                               *)
(***************************************************************************)

(* A grant in the gate is a press of r that no probe has answered yet; the *)
(* gate of a static credential never blocks; a client that was not built   *)
(* has an open gate and no loop; the current client has a loop only once   *)
(* it was started; and its loop sleeps on the 24h timer only under a header *)
(* that asks for credentials.                                              *)
GrantsAreAsked == \A c \in Clients : probeAllowed[c] => c \in asked
StaticIsOpen   == \A c \in Clients : blocked[c] => c \notin Static
FutureIsBlank  == \A c \in Clients : c > client => ~blocked[c] /\ loop[c].pc = "none"
LoopIsStarted  == loop[client].pc # "none" => started \/ stopped
ParkedIsShown  ==
  loop[client].pc = "selecting" /\ loop[client].timer = "parked" => health.phase = "unauthenticated"

GateInv ==
  GrantsAreAsked /\ StaticIsOpen /\ FutureIsBlank /\ LoopIsStarted /\ ParkedIsShown /\ BlockedIsShown

LEMMA LoopFields ==
  ASSUME TypeOK, NEW c \in Clients, NEW pc, NEW timer, NEW result,
         loop' = LoopAt(c, pc, timer, result)
  PROVE  /\ loop'[c] = [pc |-> pc, gen |-> loop[c].gen, timer |-> timer, result |-> result]
         /\ \A d \in Clients : d # c => loop'[d] = loop[d]
BY DEF TypeOK, LoopAt

(* A failed request blocks the gate of its own client and owes a callback. *)
LEMMA GateSeesStep ==
  ASSUME TypeOK, GateInv, NEW c \in Clients, c <= client, NEW err, GateSees(c, err),
         UNCHANGED <<client, health, asked>>
  PROVE  /\ GrantsAreAsked' /\ StaticIsOpen' /\ BlockedIsShown'
         /\ \A d \in Clients : d > client => ~blocked'[d]
<1> USE DEF GateInv
<1>1. /\ blocked \in [Clients -> BOOLEAN] /\ probeAllowed \in [Clients -> BOOLEAN]
      /\ client \in Clients /\ Clients \subseteq Int
  BY DEF TypeOK, Clients
<1>2. CASE UNCHANGED <<blocked, probeAllowed, calling>>
  BY <1>2 DEF GrantsAreAsked, StaticIsOpen, BlockedIsShown, FutureIsBlank
<1>3. CASE /\ c \notin Static
           /\ blocked' = [blocked EXCEPT ![c] = TRUE]
           /\ probeAllowed' = [probeAllowed EXCEPT ![c] = FALSE]
           /\ calling' = IF blocked[c] THEN calling ELSE calling \cup {c}
  <2>1. GrantsAreAsked' BY <1>1, <1>3 DEF GrantsAreAsked
  <2>2. StaticIsOpen' BY <1>1, <1>3 DEF StaticIsOpen
  <2>3. BlockedIsShown' BY <1>1, <1>3 DEF BlockedIsShown
  <2>4. \A d \in Clients : d > client => ~blocked'[d] BY <1>1, <1>3 DEF FutureIsBlank
  <2> QED BY <2>1, <2>2, <2>3, <2>4
<1> QED BY <1>2, <1>3 DEF GateSees, Block

LEMMA GateStep == TypeOK /\ GenerationIdentifiesClient /\ GateInv /\ [Next]_vars => GateInv'
<1> SUFFICES ASSUME TypeOK, GenerationIdentifiesClient, GateInv, [Next]_vars PROVE GateInv'
  OBVIOUS
<1> DEFINE Gates == <<blocked, probeAllowed, calling, asked>>
<1> USE DEF clusterVars, kindVars, gateVars, clientGoVars
<1>1. /\ blocked \in [Clients -> BOOLEAN] /\ probeAllowed \in [Clients -> BOOLEAN]
      /\ client \in Clients /\ Clients \subseteq Int /\ loop \in [Clients -> Loops]
  BY DEF TypeOK, Clients
<1>2. ASSUME UNCHANGED <<client, stopped, started, loop>>, UNCHANGED Gates,
             health.phase = "unauthenticated" => health'.phase = "unauthenticated"
      PROVE  GateInv'
  BY <1>2 DEF GateInv, GrantsAreAsked, StaticIsOpen, FutureIsBlank, LoopIsStarted, ParkedIsShown,
              BlockedIsShown
<1>3. CASE UNCHANGED vars BY <1>2, <1>3 DEF vars
<1>4. ASSUME NEW k \in Kinds, KindSteps(k) PROVE GateInv'
  <2>1. ASSUME NEW err, RequestFails(k, err) PROVE GateInv'
    <3>1. GateSees(client, err) /\ UNCHANGED <<client, stopped, started, health, asked, loop>>
      BY <2>1 DEF RequestFails
    <3>2. /\ GrantsAreAsked' /\ StaticIsOpen' /\ BlockedIsShown'
          /\ \A d \in Clients : d > client => ~blocked'[d]
      BY <1>1, <3>1, GateSeesStep
    <3> QED BY <3>1, <3>2 DEF GateInv, FutureIsBlank, LoopIsStarted, ParkedIsShown
  <2>2. ASSUME \A err : ~RequestFails(k, err) PROVE GateInv'
    BY <1>2, <1>4, <2>2 DEF KindSteps, EnsureKind, ReadKind, ListSucceeds, WatchOpens,
                            ObjectChanges, Deny, WatchEnds
  <2> QED BY <2>1, <2>2
<1>5. ASSUME NEW r \in reports, Deliver(r) PROVE GateInv'
  <2>1. UNCHANGED <<client, stopped, started, loop>> /\ UNCHANGED Gates BY <1>5 DEF Deliver
  <2>2. CASE RecordWatchError(r)
    BY <1>2, <2>1, <2>2 DEF RecordWatchError, OnWatchError, Offline
  <2> QED BY <1>2, <1>5, <2>1, <2>2
          DEF Deliver, NoteReached, RecordWatchEstablished, RecordWatchRotated
<1>6. ASSUME NEW t \in Starters, StartSteps(t) PROVE GateInv'
  <2>1. CASE StartRegisters(t)
    <3>1. UNCHANGED <<client, stopped, health>> /\ UNCHANGED Gates /\ started' = TRUE
      BY <2>1 DEF StartRegisters
    <3>2. loop'[client].pc = "spawned" /\ \A d \in Clients : d # client => loop'[d] = loop[d]
      BY <1>1, <2>1 DEF StartRegisters
    <3> QED BY <1>1, <3>1, <3>2
         DEF GateInv, GrantsAreAsked, StaticIsOpen, FutureIsBlank, LoopIsStarted, ParkedIsShown,
             BlockedIsShown
  <2>2. CASE ~StartRegisters(t)
    BY <1>2, <1>6, <2>2 DEF StartSteps, StartRefused, StartCaptures, StartSettles, StartGivesUp,
                            StartMarks
  <2> QED BY <2>1, <2>2
<1>7. ASSUME NEW c \in Clients, LoopSteps(c) PROVE GateInv'
  <2>1. UNCHANGED <<client, stopped, started>>
    BY <1>7 DEF LoopSteps, LoopBegins, LoopExits, LoopRearms, LoopTicks, LoopRetries, Probes,
                ProbeReturns, ProbeApplies
  <2>2. loop[c].pc # "none"
    BY <1>7 DEF LoopSteps, LoopBegins, LoopExits, LoopRearms, LoopTicks, LoopRetries,
                ProbeReturns, ProbeApplies
  <2>3. c <= client BY <1>1, <2>2 DEF GateInv, FutureIsBlank
  <2>4. ASSUME NEW pc, NEW timer, NEW result, loop' = LoopAt(c, pc, timer, result),
               pc = "selecting" /\ timer = "parked" => health'.phase = "unauthenticated",
               health.phase = "unauthenticated" => health'.phase = "unauthenticated" \/ c = client,
               GrantsAreAsked', StaticIsOpen', BlockedIsShown',
               \A d \in Clients : d > client => ~blocked'[d]
        PROVE  GateInv'
    <3>1. /\ loop'[c] = [pc |-> pc, gen |-> loop[c].gen, timer |-> timer, result |-> result]
          /\ \A d \in Clients : d # c => loop'[d] = loop[d]
      BY <2>4, LoopFields
    <3>2. FutureIsBlank' BY <1>1, <2>1, <2>3, <2>4, <3>1 DEF GateInv, FutureIsBlank
    <3>3. LoopIsStarted' BY <1>1, <2>1, <2>2, <3>1 DEF GateInv, LoopIsStarted
    <3>4. ParkedIsShown' BY <1>1, <2>1, <2>4, <3>1 DEF GateInv, ParkedIsShown
    <3> QED BY <2>4, <3>2, <3>3, <3>4 DEF GateInv
  <2>5. CASE LoopBegins(c) \/ LoopExits(c) \/ LoopRearms(c)
    <3>1. UNCHANGED health /\ UNCHANGED Gates BY <2>5 DEF LoopBegins, LoopExits, LoopRearms
    <3>2. /\ GrantsAreAsked' /\ StaticIsOpen' /\ BlockedIsShown'
          /\ \A d \in Clients : d > client => ~blocked'[d]
      BY <2>1, <3>1 DEF GateInv, GrantsAreAsked, StaticIsOpen, BlockedIsShown, FutureIsBlank
    <3> QED BY <2>4, <2>5, <3>1, <3>2 DEF LoopBegins, LoopExits, LoopRearms, ProbeTimer
  <2>6. CASE LoopTicks(c) \/ LoopRetries(c)
    <3>1. Probes(c) BY <2>6 DEF LoopTicks, LoopRetries
    <3>2. GrantsAreAsked' BY <1>1, <3>1 DEF Probes, GateInv, GrantsAreAsked
    <3>3. /\ StaticIsOpen' /\ BlockedIsShown' /\ UNCHANGED health
          /\ \A d \in Clients : d > client => ~blocked'[d]
      BY <2>1, <3>1 DEF Probes, GateInv, StaticIsOpen, BlockedIsShown, FutureIsBlank
    <3> QED BY <2>4, <3>1, <3>2, <3>3 DEF Probes
  <2>7. ASSUME NEW answer, ProbeReturns(c, answer) PROVE GateInv'
    <3>1. UNCHANGED <<health, asked>> /\ loop' = LoopAt(c, "probed", "fired", answer)
      BY <2>7 DEF ProbeReturns
    <3>2. CASE answer = "ok"
      <4>1. UNCHANGED <<blocked, probeAllowed, calling>> BY <2>7, <3>2 DEF ProbeReturns
      <4>2. /\ GrantsAreAsked' /\ StaticIsOpen' /\ BlockedIsShown'
            /\ \A d \in Clients : d > client => ~blocked'[d]
        BY <2>1, <3>1, <4>1 DEF GateInv, GrantsAreAsked, StaticIsOpen, BlockedIsShown,
                                FutureIsBlank
      <4> QED BY <2>4, <3>1, <4>2
    <3>3. CASE answer # "ok"
      <4>1. GateSees(c, answer) BY <2>7, <3>3 DEF ProbeReturns
      <4>2. /\ GrantsAreAsked' /\ StaticIsOpen' /\ BlockedIsShown'
            /\ \A d \in Clients : d > client => ~blocked'[d]
        BY <2>1, <2>3, <3>1, <4>1, GateSeesStep
      <4> QED BY <2>4, <3>1, <4>2
    <3> QED BY <3>2, <3>3
  <2>8. CASE ProbeApplies(c)
    <3>1. loop' = LoopAt(c, "selecting", ProbeTimer(health'), "ok") /\ UNCHANGED <<calling, asked>>
      BY <2>8 DEF ProbeApplies
    <3>2. CASE ProbeIgnored(c)
      <4>1. UNCHANGED health /\ UNCHANGED Gates BY <3>1, <3>2 DEF ProbeIgnored
      <4>2. /\ GrantsAreAsked' /\ StaticIsOpen' /\ BlockedIsShown'
            /\ \A d \in Clients : d > client => ~blocked'[d]
        BY <2>1, <4>1 DEF GateInv, GrantsAreAsked, StaticIsOpen, BlockedIsShown, FutureIsBlank
      <4> QED BY <2>4, <3>1, <4>1, <4>2 DEF ProbeTimer
    <3>3. CASE ~Stale(loop[c].gen) /\ ProbeAnswered(c)
      <4>1. c = client BY <3>3 DEF Stale, GenerationIdentifiesClient
      <4>2. ~blocked'[client] /\ \A d \in Clients : blocked'[d] => blocked[d]
        BY <1>1, <3>3, <4>1 DEF ProbeAnswered
      <4>3. \A d \in Clients : probeAllowed'[d] => probeAllowed[d]
        BY <1>1, <3>3 DEF ProbeAnswered
      <4>4. /\ GrantsAreAsked' /\ StaticIsOpen' /\ BlockedIsShown'
            /\ \A d \in Clients : d > client => ~blocked'[d]
        BY <2>1, <3>1, <4>2, <4>3 DEF GateInv, GrantsAreAsked, StaticIsOpen, BlockedIsShown,
                                      FutureIsBlank
      <4> QED BY <2>4, <3>1, <4>1, <4>4 DEF ProbeTimer
    <3>4. CASE ~Stale(loop[c].gen) /\ ProbeFailed(c)
      <4>1. c = client BY <3>4 DEF Stale, GenerationIdentifiesClient
      <4>2. UNCHANGED Gates BY <3>1, <3>4 DEF ProbeFailed
      <4>3. blocked[client] => health'.phase = "unauthenticated"
        BY <1>1, <3>4, <4>1 DEF ProbeFailed, GateInv, StaticIsOpen, OnPingFailed, NeedsReauth,
                                Unauthenticated
      <4>4. /\ GrantsAreAsked' /\ StaticIsOpen' /\ BlockedIsShown'
            /\ \A d \in Clients : d > client => ~blocked'[d]
        BY <2>1, <4>2, <4>3 DEF GateInv, GrantsAreAsked, StaticIsOpen, BlockedIsShown,
                                FutureIsBlank
      <4> QED BY <2>4, <3>1, <4>1, <4>4 DEF ProbeTimer
    <3> QED BY <2>8, <3>2, <3>3, <3>4 DEF ProbeApplies
  <2> QED BY <1>7, <2>5, <2>6, <2>7, <2>8 DEF LoopSteps
<1>8. ASSUME NEW c \in Clients, OnBlocked(c) PROVE GateInv'
  <2>1. UNCHANGED <<client, stopped, started, loop, blocked, probeAllowed, asked>>
    BY <1>8 DEF OnBlocked
  <2>2. calling' = calling \ {c} BY <1>8 DEF OnBlocked
  <2>3. CASE c = client
    <3>1. health'.phase = "unauthenticated" BY <1>8, <2>3 DEF OnBlocked, Unauthenticated
    <3> QED BY <2>1, <3>1 DEF GateInv, GrantsAreAsked, StaticIsOpen, FutureIsBlank, LoopIsStarted,
                              ParkedIsShown, BlockedIsShown
  <2>4. CASE c # client
    <3>1. health' = health BY <1>8, <2>4 DEF OnBlocked
    <3> QED BY <2>1, <2>2, <2>4, <3>1
         DEF GateInv, GrantsAreAsked, StaticIsOpen, FutureIsBlank, LoopIsStarted, ParkedIsShown,
             BlockedIsShown
  <2> QED BY <2>3, <2>4
<1>9. CASE SwitchContext
  <2>1. client' = client + 1 /\ client' \in Clients /\ UNCHANGED <<loop>> /\ UNCHANGED Gates
    BY <1>1, <1>9, ClusterAssumption DEF SwitchContext, ReplaceClient, Clients
  <2>2. ~blocked'[client'] /\ loop'[client'].pc = "none" BY <1>1, <2>1 DEF GateInv, FutureIsBlank
  <2> QED BY <1>1, <2>1, <2>2
       DEF GateInv, GrantsAreAsked, StaticIsOpen, FutureIsBlank, LoopIsStarted, ParkedIsShown,
           BlockedIsShown
<1>10. CASE Stop
  BY <1>10 DEF Stop, GateInv, GrantsAreAsked, StaticIsOpen, FutureIsBlank, LoopIsStarted,
               ParkedIsShown, BlockedIsShown
<1>11. CASE RetryNow
  <2>1. UNCHANGED <<client, stopped, started, loop, health, blocked, calling>>
    BY <1>11 DEF RetryNow
  <2>2. GrantsAreAsked' BY <1>1, <1>11 DEF RetryNow, GateInv, GrantsAreAsked
  <2> QED BY <2>1, <2>2
       DEF GateInv, StaticIsOpen, FutureIsBlank, LoopIsStarted, ParkedIsShown, BlockedIsShown
<1>12. CASE Recover BY <1>2, <1>12 DEF Recover
<1> QED BY <1>3, <1>4, <1>5, <1>6, <1>7, <1>8, <1>9, <1>10, <1>11, <1>12 DEF Next

LEMMA GateAlways == Spec => []GateInv
<1>1. Init => GateInv
  <2> SUFFICES ASSUME Init PROVE GateInv OBVIOUS
  <2>1. client = 0 /\ 0 \in Clients /\ \A c \in Clients : ~blocked[c] /\ loop[c].pc = "none"
    BY ClusterAssumption DEF Init, Clients
  <2> QED BY <2>1 DEF Init, GateInv, GrantsAreAsked, StaticIsOpen, FutureIsBlank, LoopIsStarted,
                      ParkedIsShown, BlockedIsShown
<1> QED BY <1>1, GateStep, TypeCorrect, GenerationCorrect, PTL DEF Spec

(* Requests that the gate of a failing credential holds back are shown as  *)
(* such, whatever watch errors, probes and switches come in between.       *)
THEOREM BlockedCorrect == Spec => []BlockedIsShown
<1>1. GateInv => BlockedIsShown BY DEF GateInv
<1> QED BY <1>1, GateAlways, PTL

(* The health loop of the current client sleeps on its 24h timer only      *)
(* while the header asks for credentials: nothing but its own probe ends   *)
(* that phase, and a probe recomputes the timer.                           *)
THEOREM ProbingCorrect == Spec => []ProbingGoesOn
<1>1. GateInv => ProbingGoesOn BY DEF GateInv, ParkedIsShown, ProbingGoesOn
<1> QED BY <1>1, GateAlways, PTL

(* Only a press of r not answered by a probe since lets one through a      *)
(* blocked gate, whatever ticks and wake tokens the loops of several       *)
(* clients take.                                                           *)
THEOREM OneProbeCorrect == Spec => OneProbePerPress
<1> DEFINE A == \A c \in Clients :
                  blocked[c] /\ loop[c].pc = "selecting" /\ loop'[c].pc = "probing" => c \in asked
<1>1. TypeOK /\ GateInv /\ [Next]_vars => [A]_vars
  <2> SUFFICES ASSUME TypeOK, GateInv, [Next]_vars, NEW d \in Clients,
                      blocked[d], loop[d].pc = "selecting", loop'[d].pc = "probing"
               PROVE  d \in asked
    OBVIOUS
  <2> USE DEF clusterVars, kindVars, gateVars, clientGoVars
  <2>1. CASE loop' = loop BY <2>1
  <2>2. ASSUME NEW t \in Starters, StartRegisters(t) PROVE FALSE
    <3>1. loop'[d] = loop[d] \/ loop'[d].pc = "spawned" BY <2>2 DEF StartRegisters, TypeOK
    <3> QED BY <3>1
  <2>3. ASSUME NEW c \in Clients, LoopSteps(c) PROVE d \in asked
    <3>1. ASSUME NEW pc, NEW timer, NEW result, loop' = LoopAt(c, pc, timer, result)
          PROVE  c = d /\ pc = "probing"
      <4>1. /\ loop'[c] = [pc |-> pc, gen |-> loop[c].gen, timer |-> timer, result |-> result]
            /\ \A e \in Clients : e # c => loop'[e] = loop[e]
        BY <3>1, LoopFields
      <4> QED BY <4>1
    <3>2. CASE LoopTicks(c) \/ LoopRetries(c)
      <4>1. Probes(c) BY <3>2 DEF LoopTicks, LoopRetries
      <4>2. CASE probeAllowed[c]
        <5>1. c = d BY <3>1, <4>1, <4>2 DEF Probes
        <5> QED BY <4>2, <5>1 DEF GateInv, GrantsAreAsked
      <4>3. CASE ~blocked[c]
        <5>1. c = d BY <3>1, <4>1, <4>3 DEF Probes
        <5> QED BY <4>3, <5>1
      <4>4. CASE blocked[c] /\ ~probeAllowed[c] BY <3>1, <4>1, <4>4 DEF Probes
      <4> QED BY <4>2, <4>3, <4>4
    <3>3. CASE LoopBegins(c) \/ LoopExits(c) \/ LoopRearms(c) \/ ProbeApplies(c)
      BY <3>1, <3>3 DEF LoopBegins, LoopExits, LoopRearms, ProbeApplies
    <3>4. ASSUME NEW answer, ProbeReturns(c, answer) PROVE FALSE
      BY <3>1, <3>4 DEF ProbeReturns
    <3> QED BY <2>3, <3>2, <3>3, <3>4 DEF LoopSteps
  <2>4. ASSUME ~(\E t \in Starters : StartRegisters(t)), ~(\E c \in Clients : LoopSteps(c))
        PROVE  loop' = loop
    BY <2>4 DEF Next, KindSteps, EnsureKind, ReadKind, ListSucceeds, WatchOpens, ObjectChanges,
                Deny, WatchEnds, RequestFails, Deliver, StartSteps, StartRefused, StartCaptures,
                StartSettles, StartGivesUp, StartMarks, OnBlocked, SwitchContext, ReplaceClient,
                Stop, RetryNow, Recover, vars
  <2> QED BY <2>1, <2>2, <2>3, <2>4
<1>2. Spec => [][A]_vars BY <1>1, TypeCorrect, GateAlways, PTL DEF Spec
<1> QED BY <1>2 DEF OneProbePerPress

(* No client is given a second health loop: a Start that finds the cluster *)
(* neither started nor stopped finds a client that never had one.          *)
THEOREM OneLoopCorrect == Spec => OneLoopPerClient
<1> DEFINE A == \A c \in Clients :
                  loop[c].pc # "none" => loop'[c].pc # "spawned" \/ loop'[c] = loop[c]
<1>1. TypeOK /\ GateInv /\ [Next]_vars => [A]_vars
  <2> SUFFICES ASSUME TypeOK, GateInv, [Next]_vars, NEW d \in Clients, loop[d].pc # "none"
               PROVE  loop'[d].pc # "spawned" \/ loop'[d] = loop[d]
    OBVIOUS
  <2> USE DEF clusterVars, kindVars, gateVars, clientGoVars
  <2>1. ASSUME NEW t \in Starters, StartRegisters(t) PROVE loop'[d] = loop[d]
    <3>1. d # client BY <2>1 DEF StartRegisters, MayRegister, GateInv, LoopIsStarted
    <3> QED BY <2>1, <3>1 DEF StartRegisters, TypeOK
  <2>2. ASSUME NEW c \in Clients, LoopSteps(c)
        PROVE  loop'[d].pc # "spawned" \/ loop'[d] = loop[d]
    <3>1. PICK pc, timer, result : /\ pc \in {"selecting", "exited", "probing", "probed"}
                                   /\ loop' = LoopAt(c, pc, timer, result)
      BY <2>2 DEF LoopSteps, LoopBegins, LoopExits, LoopRearms, LoopTicks, LoopRetries, Probes,
                  ProbeReturns, ProbeApplies
    <3>2. /\ loop'[c] = [pc |-> pc, gen |-> loop[c].gen, timer |-> timer, result |-> result]
          /\ \A e \in Clients : e # c => loop'[e] = loop[e]
      BY <3>1, LoopFields
    <3> QED BY <3>1, <3>2
  <2>3. ASSUME ~(\E t \in Starters : StartRegisters(t)), ~(\E c \in Clients : LoopSteps(c))
        PROVE  loop' = loop
    BY <2>3 DEF Next, KindSteps, EnsureKind, ReadKind, ListSucceeds, WatchOpens, ObjectChanges,
                Deny, WatchEnds, RequestFails, Deliver, StartSteps, StartRefused, StartCaptures,
                StartSettles, StartGivesUp, StartMarks, OnBlocked, SwitchContext, ReplaceClient,
                Stop, RetryNow, Recover, vars
  <2> QED BY <2>1, <2>2, <2>3
<1>2. Spec => [][A]_vars BY <1>1, TypeCorrect, GateAlways, PTL DEF Spec
<1> QED BY <1>2 DEF OneLoopPerClient

(* An outage on the header ends only in a probe, one that finds every      *)
(* started kind filled or forbidden and no watch still broken.             *)
THEOREM GreenCorrect == Spec => GreenOnlyWhenReady
<1> DEFINE A == Offline(health) /\ ~Offline(health') /\ client' = client =>
                  /\ Sweep(kindFailed)
                  /\ \A k \in Kinds : watchUnhealthy[k] = NoClient
<1>1. TypeOK /\ LatchIsSound /\ [Next]_vars => [A]_vars
  <2> SUFFICES ASSUME TypeOK, LatchIsSound, [Next]_vars, Offline(health), ~Offline(health'),
                      client' = client
               PROVE  Sweep(kindFailed) /\ \A k \in Kinds : watchUnhealthy[k] = NoClient
    OBVIOUS
  <2> USE DEF clusterVars, kindVars, gateVars, clientGoVars
  <2>1. CASE health' = health BY <2>1
  <2>2. ASSUME NEW r \in reports, Deliver(r) PROVE health' = health
    BY <2>2 DEF Deliver, NoteReached, RecordWatchEstablished, RecordWatchRotated,
                RecordWatchError, OnWatchError
  <2>3. ASSUME NEW c \in Clients, OnBlocked(c) PROVE health' = health
    BY <2>3 DEF OnBlocked, Unauthenticated, Offline
  <2>4. ASSUME SwitchContext PROVE FALSE
    BY <2>4 DEF SwitchContext, ReplaceClient, TypeOK, Clients
  <2>5. ASSUME NEW c \in Clients, LoopSteps(c), health' # health
        PROVE  Sweep(kindFailed) /\ \A k \in Kinds : watchUnhealthy[k] = NoClient
    <3>1. ProbeAnswered(c) \/ ProbeFailed(c)
      BY <2>5 DEF LoopSteps, LoopBegins, LoopExits, LoopRearms, LoopTicks, LoopRetries, Probes,
                  ProbeReturns, ProbeApplies, ProbeIgnored
    <3>2. CASE ProbeAnswered(c)
      <4>1. Ready(allKindsSynced', watchUnhealthy)
        BY <3>2 DEF ProbeAnswered, OnPingAnswered, Reconnecting, Offline
      <4>2. allKindsSynced \/ Sweep(kindFailed) BY <3>2, <4>1 DEF ProbeAnswered, Ready
      <4> QED BY <4>1, <4>2 DEF Ready, LatchIsSound
    <3>3. CASE ProbeFailed(c)
      BY <2>5, <3>3 DEF ProbeFailed, OnPingFailed, Unauthenticated, Reconnecting, Offline
    <3> QED BY <3>1, <3>2, <3>3
  <2>6. ASSUME ~(\E r \in reports : Deliver(r)), ~SwitchContext,
               ~(\E c \in Clients : LoopSteps(c) \/ OnBlocked(c))
        PROVE  health' = health
    BY <2>6 DEF Next, KindSteps, EnsureKind, ReadKind, ListSucceeds, WatchOpens, ObjectChanges,
                Deny, WatchEnds, RequestFails, StartSteps, StartRegisters, StartRefused,
                StartCaptures, StartSettles, StartGivesUp, StartMarks, Stop, RetryNow, Recover, vars
  <2> QED BY <2>1, <2>2, <2>3, <2>4, <2>5, <2>6
<1>2. Spec => [][A]_vars BY <1>1, TypeCorrect, LatchCorrect, PTL DEF Spec
<1> QED BY <1>2 DEF GreenOnlyWhenReady

-----------------------------------------------------------------------------
(***************************************************************************)
(* After Stop.                                                             *)
(***************************************************************************)

(* Stop bumps the generation, so nothing still carried is current, and     *)
(* nothing is handed the new one any more.                                 *)
StoppedIsStale ==
  stopped => /\ \A r \in reports : r.gen # generation
             /\ \A c \in Clients : loop[c].gen # generation
             /\ \A t \in Starters : starter[t].gen # generation

LEMMA StoppedStep ==
  TypeOK /\ GenerationIdentifiesClient /\ StoppedIsStale /\ [Next]_vars => StoppedIsStale'
<1> SUFFICES ASSUME TypeOK, GenerationIdentifiesClient, StoppedIsStale, [Next]_vars, stopped'
             PROVE  /\ \A r \in reports' : r.gen # generation'
                    /\ \A c \in Clients : loop'[c].gen # generation'
                    /\ \A t \in Starters : starter'[t].gen # generation'
  BY DEF StoppedIsStale
<1> USE DEF clusterVars, kindVars, gateVars, clientGoVars
<1>1. CASE Stop
  <2>1. UNCHANGED <<reports, loop, starter>> /\ generation' = generation + 1 BY <1>1 DEF Stop
  <2>2. generation \in Nat BY DEF TypeOK
  <2>3. /\ \A r \in reports : r.gen <= generation /\ r.gen \in Int
        /\ \A c \in Clients : loop[c].gen <= generation /\ loop[c].gen \in Int
        /\ \A t \in Starters : starter[t].gen <= generation /\ starter[t].gen \in Int
    BY DEF GenerationIdentifiesClient, TypeOK, Reports, Loops, StarterStates, NoGen
  <2> QED BY <2>1, <2>2, <2>3
<1>2. ASSUME stopped, UNCHANGED generation, reports' \subseteq reports,
             \A c \in Clients : loop'[c].gen = loop[c].gen,
             \A t \in Starters : starter'[t].gen = starter[t].gen
      PROVE  /\ \A r \in reports' : r.gen # generation'
             /\ \A c \in Clients : loop'[c].gen # generation'
             /\ \A t \in Starters : starter'[t].gen # generation'
  BY <1>2 DEF StoppedIsStale
<1>3. ASSUME ~stopped, ~Stop PROVE FALSE
  BY <1>3 DEF Next, KindSteps, EnsureKind, ReadKind, ListSucceeds, WatchOpens, ObjectChanges,
              Deny, WatchEnds, RequestFails, Deliver, StartSteps, StartRegisters, StartRefused,
              StartCaptures, StartSettles, StartGivesUp, StartMarks, LoopSteps, LoopBegins,
              LoopExits, LoopRearms, LoopTicks, LoopRetries, Probes, ProbeReturns, ProbeApplies,
              OnBlocked, SwitchContext, ReplaceClient, RetryNow, Recover, vars
<1>4. ASSUME stopped, NEW t \in Starters, StartSteps(t)
      PROVE  /\ UNCHANGED <<generation, reports, loop>>
             /\ \A u \in Starters : starter'[u].gen = starter[u].gen
  <2>1. ~StartRegisters(t) BY <1>4 DEF StartRegisters, MayRegister
  <2>2. UNCHANGED <<generation, reports, loop>> /\ \E pc, keys : starter' = Moved(t, pc, keys)
    BY <1>4, <2>1 DEF StartSteps, StartRefused, StartCaptures, StartSettles, StartGivesUp,
                      StartMarks, Move
  <2> QED BY <2>2 DEF Moved, TypeOK
<1>5. ASSUME NEW c \in Clients, LoopSteps(c)
      PROVE  /\ UNCHANGED <<generation, reports, starter>>
             /\ \A d \in Clients : loop'[d].gen = loop[d].gen
  <2>1. \E pc, timer, result : loop' = LoopAt(c, pc, timer, result)
    BY <1>5 DEF LoopSteps, LoopBegins, LoopExits, LoopRearms, LoopTicks, LoopRetries, Probes,
                ProbeReturns, ProbeApplies
  <2>2. \A d \in Clients : loop'[d].gen = loop[d].gen BY <2>1 DEF LoopAt, TypeOK
  <2> QED BY <1>5, <2>2 DEF LoopSteps, LoopBegins, LoopExits, LoopRearms, LoopTicks, LoopRetries,
                            Probes, ProbeReturns, ProbeApplies
<1>6. ASSUME stopped, NEW k \in Kinds, KindSteps(k) PROVE UNCHANGED <<generation, reports, loop, starter>>
  BY <1>6 DEF KindSteps, EnsureKind, ReadKind, ListSucceeds, WatchOpens, ObjectChanges, Deny,
              WatchEnds, RequestFails, Running
<1>7. ASSUME NEW r \in reports, Deliver(r)
      PROVE  UNCHANGED <<generation, loop, starter>> /\ reports' \subseteq reports
  BY <1>7 DEF Deliver
<1>8. ASSUME stopped, ~Stop,
             UNCHANGED vars \/ RetryNow \/ Recover \/ \E c \in Clients : OnBlocked(c)
      PROVE  UNCHANGED <<generation, reports, loop, starter>>
  BY <1>8 DEF OnBlocked, RetryNow, Recover, vars
<1>9. ~SwitchContext BY DEF SwitchContext, ReplaceClient
<1> QED BY <1>1, <1>2, <1>3, <1>4, <1>5, <1>6, <1>7, <1>8, <1>9 DEF Next

LEMMA StoppedAlways == Spec => []StoppedIsStale
<1>1. Init => StoppedIsStale BY DEF Init, StoppedIsStale
<1> QED BY <1>1, StoppedStep, TypeCorrect, GenerationCorrect, PTL DEF Spec

(* Nothing that was still in flight when Stop ran is recorded any more,    *)
(* but for a credential failure's callback on the header.                  *)
THEOREM StopCorrect == Spec => NothingLandsAfterStop
<1> DEFINE A == stopped /\ stopped' =>
                  /\ UNCHANGED <<synced, reached, kindFailed, watchUnhealthy, allKindsSynced>>
                  /\ health' # health => calling' # calling
<1>1. TypeOK /\ StoppedIsStale /\ [Next]_vars => [A]_vars
  <2> SUFFICES ASSUME TypeOK, StoppedIsStale, [Next]_vars, stopped, stopped'
               PROVE  /\ UNCHANGED <<synced, reached, kindFailed, watchUnhealthy, allKindsSynced>>
                      /\ health' # health => calling' # calling
    OBVIOUS
  <2> DEFINE Records == <<synced, reached, kindFailed, watchUnhealthy, allKindsSynced>>
  <2> USE DEF clusterVars, kindVars, gateVars, clientGoVars
  <2>1. ASSUME NEW r \in reports, Deliver(r) PROVE UNCHANGED Records /\ UNCHANGED health
    <3>1. Stale(r.gen) BY DEF StoppedIsStale, Stale
    <3> QED BY <2>1, <3>1 DEF Deliver
  <2>2. ASSUME NEW t \in Starters, StartSteps(t) PROVE UNCHANGED Records /\ UNCHANGED health
    <3>1. Stale(starter[t].gen) BY DEF StoppedIsStale, Stale
    <3> QED BY <2>2, <3>1 DEF StartSteps, StartRegisters, MayRegister, StartRefused, StartCaptures,
                              StartSettles, StartGivesUp, StartMarks
  <2>3. ASSUME NEW c \in Clients, LoopSteps(c) PROVE UNCHANGED Records /\ UNCHANGED health
    <3>1. Stale(loop[c].gen) BY DEF StoppedIsStale, Stale
    <3> QED BY <2>3, <3>1 DEF LoopSteps, LoopBegins, LoopExits, LoopRearms, LoopTicks, LoopRetries,
                              Probes, ProbeReturns, ProbeApplies, ProbeIgnored
  <2>4. ASSUME NEW c \in Clients, OnBlocked(c) PROVE UNCHANGED Records /\ calling' # calling
    BY <2>4 DEF OnBlocked
  <2>5. ASSUME NEW k \in Kinds, KindSteps(k) PROVE UNCHANGED Records /\ UNCHANGED health
    BY <2>5 DEF KindSteps, EnsureKind, ReadKind, ListSucceeds, WatchOpens, ObjectChanges, Deny,
                WatchEnds, RequestFails
  <2>6. CASE UNCHANGED vars \/ RetryNow \/ Recover \/ Stop
    BY <2>6 DEF RetryNow, Recover, Stop, vars
  <2>7. ~SwitchContext BY DEF SwitchContext, ReplaceClient
  <2> QED BY <2>1, <2>2, <2>3, <2>4, <2>5, <2>6, <2>7 DEF Next
<1>2. Spec => [][A]_vars BY <1>1, TypeCorrect, StoppedAlways, PTL DEF Spec
<1> QED BY <1>2 DEF NothingLandsAfterStop

=============================================================================
