--------------------------- MODULE ClusterProofs ---------------------------
(***************************************************************************)
(* Theorems about Cluster, for every set of kinds, every number of context *)
(* switches and every MaxAttempt.                                          *)
(***************************************************************************)
EXTENDS Cluster, TLAPS

-----------------------------------------------------------------------------
(***************************************************************************)
(* What the health transitions of ConnHealth return: a ConnState, whose    *)
(* message is the old one, the reporter's, or none.                        *)
(***************************************************************************)

LEMMA WatchErrorHealth ==
  ASSUME NEW s \in ConnStates, NEW err \in Failures, NEW static \in BOOLEAN,
         NEW isSynced \in BOOLEAN, NEW proven \in BOOLEAN, NEW recent \in BOOLEAN,
         NEW c \in Clients
  PROVE  /\ OnWatchError(s, err, static, isSynced, proven, recent, c) \in ConnStates
         /\ OnWatchError(s, err, static, isSynced, proven, recent, c).from \in {s.from, c}
BY AttemptAssumption, ClusterAssumption
   DEF OnWatchError, ConnStates, Phases, Failures, Clients, NoClient, Offline, NeedsReauth,
       IsAuthenticationError, IsPermissionError, IsTimeout, InConnectGrace, Unauthenticated,
       Reconnecting, Bumped

LEMMA PingAnsweredHealth ==
  ASSUME NEW s \in ConnStates, NEW isSynced \in BOOLEAN, NEW c \in Clients
  PROVE  /\ OnPingAnswered(s, isSynced, c) \in ConnStates
         /\ OnPingAnswered(s, isSynced, c).from \in {s.from, c, NoClient}
BY AttemptAssumption, ClusterAssumption
   DEF OnPingAnswered, ConnStates, Phases, Clients, NoClient, Offline, Connected, Reconnecting,
       Bumped

LEMMA PingFailedHealth ==
  ASSUME NEW s \in ConnStates, NEW err \in Failures, NEW static \in BOOLEAN,
         NEW isSynced \in BOOLEAN, NEW proven \in BOOLEAN, NEW recent \in BOOLEAN,
         NEW c \in Clients
  PROVE  /\ OnPingFailed(s, err, static, isSynced, proven, recent, c) \in ConnStates
         /\ OnPingFailed(s, err, static, isSynced, proven, recent, c).from \in {s.from, c}
BY AttemptAssumption, ClusterAssumption
   DEF OnPingFailed, ConnStates, Phases, Failures, Clients, NoClient, NeedsReauth,
       IsAuthenticationError, IsTimeout, InConnectGrace, Unauthenticated, Reconnecting, Bumped

LEMMA OtherHealth ==
  ASSUME NEW c \in Clients
  PROVE  /\ Connected \in ConnStates /\ Unauthenticated(c) \in ConnStates
         /\ Connected.from = NoClient /\ Unauthenticated(c).from = c
BY AttemptAssumption, ClusterAssumption
   DEF ConnStates, Phases, Clients, NoClient, Connected, Unauthenticated

(* A GateSees step keeps the gate's types.                                 *)
LEMMA GateTypes ==
  ASSUME TypeOK, NEW c \in Clients, NEW err, GateSees(c, err)
  PROVE  /\ blocked' \in [Clients -> BOOLEAN] /\ probeAllowed' \in [Clients -> BOOLEAN]
         /\ responded' \subseteq Clients /\ calling' \subseteq Clients
BY DEF TypeOK, GateSees, Block

-----------------------------------------------------------------------------
(***************************************************************************)
(* Type correctness.                                                       *)
(***************************************************************************)

LEMMA InitTypeOK == Init => TypeOK
<1> SUFFICES ASSUME Init PROVE TypeOK OBVIOUS
<1>1. 0 \in Clients BY ClusterAssumption DEF Clients
<1>2. starter \in [Starters -> StarterStates]
  BY <1>1 DEF Init, StarterStates, Starters, NoGen
<1>3. loop \in [Clients -> Loops] BY DEF Init, Loops, NoGen
<1>4. health \in ConnStates BY <1>1, OtherHealth DEF Init
<1> QED BY <1>1, <1>2, <1>3, <1>4 DEF Init, TypeOK, NoClient, NoGen, Reports

LEMMA KindStepsTypeOK ==
  ASSUME TypeOK, NEW k \in Kinds, KindSteps(k)
  PROVE  TypeOK'
<1> USE ClusterAssumption
    DEF TypeOK, clusterVars, kindVars, gateVars, clientGoVars
<1>1. CASE EnsureKind(k) BY <1>1 DEF EnsureKind
<1>2. CASE ReadKind(k) BY <1>2 DEF ReadKind, Clients, NoClient
<1>3. CASE ListSucceeds(k) BY <1>3 DEF ListSucceeds
<1>4. CASE WatchOpens(k)
  BY <1>4 DEF WatchOpens, Report, Reports, Running, Started, NoGen
<1>5. CASE ObjectChanges(k)
  BY <1>5 DEF ObjectChanges, Report, Reports, Started, NoGen
<1>6. CASE Deny(k) BY <1>6 DEF Deny
<1>7. ASSUME NEW how \in {"rotated"} \cup (Errors \cap {"timeout", "refused"}), WatchEnds(k, how)
      PROVE TypeOK'
  BY <1>7 DEF WatchEnds, Report, Reports, Running, Started, NoGen, Failures
<1>8. ASSUME NEW err \in Errors \cup {"gated"}, RequestFails(k, err)
      PROVE TypeOK'
  <2>1. GateSees(client, err) BY <1>8 DEF RequestFails
  <2>2. /\ blocked' \in [Clients -> BOOLEAN] /\ probeAllowed' \in [Clients -> BOOLEAN]
        /\ responded' \subseteq Clients /\ calling' \subseteq Clients
    BY <2>1, GateTypes
  <2>3. reports' \subseteq Reports
    BY <1>8 DEF RequestFails, Report, Reports, Failures
  <2>4. passed' \subseteq Kinds BY <1>8 DEF RequestFails, InFlight
  <2> QED BY <1>8, <2>2, <2>3, <2>4 DEF RequestFails
<1> QED BY <1>1, <1>2, <1>3, <1>4, <1>5, <1>6, <1>7, <1>8 DEF KindSteps

LEMMA DeliverTypeOK ==
  ASSUME TypeOK, NEW r \in reports, Deliver(r)
  PROVE  TypeOK'
<1> USE ClusterAssumption
    DEF TypeOK, clusterVars, kindVars, gateVars, clientGoVars
<1>1. r \in Reports OBVIOUS
<1>2. r.client \in Clients /\ r.kind \in Kinds BY <1>1 DEF Reports
<1>3. reports' \subseteq Reports BY DEF Deliver
<1>4. CASE Stale(r.gen) BY <1>3, <1>4 DEF Deliver
<1>5. CASE ~Stale(r.gen) /\ r.what = "event" /\ NoteReached(r)
  BY <1>2, <1>3, <1>5 DEF Deliver, NoteReached
<1>6. CASE ~Stale(r.gen) /\ r.what = "established" /\ RecordWatchEstablished(r)
  <2>1. retry' \in BOOLEAN BY <1>6 DEF RecordWatchEstablished
  <2> QED BY <1>2, <1>3, <1>6, <2>1 DEF Deliver, RecordWatchEstablished
<1>7. CASE ~Stale(r.gen) /\ r.what = "rotated" /\ RecordWatchRotated(r)
  BY <1>2, <1>3, <1>7 DEF Deliver, RecordWatchRotated
<1>8. CASE ~Stale(r.gen) /\ r.what \in Failures /\ RecordWatchError(r)
  <2>1. PICK recent \in BOOLEAN :
          health' = OnWatchError(health, r.what, client \in Static,
                                 Ready(allKindsSynced', watchUnhealthy'),
                                 reached # NoClient \/ client \in responded, recent, r.client)
    BY <1>8 DEF RecordWatchError
  <2>2. allKindsSynced' \in BOOLEAN /\ wake' \in BOOLEAN BY <1>8 DEF RecordWatchError, Sweep
  <2>3. health' \in ConnStates
    <3>1. /\ (client \in Static) \in BOOLEAN
          /\ Ready(allKindsSynced', watchUnhealthy') \in BOOLEAN
          /\ (reached # NoClient \/ client \in responded) \in BOOLEAN
      BY <2>2 DEF Ready
    <3>2. health \in ConnStates OBVIOUS
    <3> QED BY <1>2, <1>8, <2>1, <3>1, <3>2, WatchErrorHealth, Zenon
  <2>4. /\ kindFailed' \in [Kinds -> Clients \cup {NoClient}]
        /\ kindStalled' \in [Kinds -> Clients \cup {NoClient}]
        /\ watchUnhealthy' \in [Kinds -> Clients \cup {NoClient}]
    BY <1>2, <1>8 DEF RecordWatchError, NoteWatchError
  <2> QED BY <1>3, <1>8, <2>2, <2>3, <2>4 DEF Deliver, RecordWatchError
<1> QED BY <1>4, <1>5, <1>6, <1>7, <1>8 DEF Deliver

LEMMA StartStepsTypeOK ==
  ASSUME TypeOK, NEW t \in Starters, StartSteps(t)
  PROVE  TypeOK'
<1> USE ClusterAssumption
    DEF TypeOK, clusterVars, kindVars, gateVars, clientGoVars, StarterStates, Moved, Move
<1>1. CASE StartRegisters(t)
  <2>1. generation' \in Nat BY <1>1 DEF StartRegisters
  <2>2. starter' \in [Starters -> StarterStates] BY <1>1, <2>1 DEF StartRegisters
  <2>3. loop' \in [Clients -> Loops] BY <1>1, <2>1 DEF StartRegisters, Loops
  <2> QED BY <1>1, <2>1, <2>2, <2>3 DEF StartRegisters, MayRegister
<1>2. CASE StartRefused(t) BY <1>2 DEF StartRefused
<1>3. CASE StartCaptures(t) BY <1>3 DEF StartCaptures
<1>4. CASE StartSettles(t) BY <1>4 DEF StartSettles
<1>5. CASE StartGivesUp(t) BY <1>5 DEF StartGivesUp
<1>6. CASE StartMarks(t) BY <1>6 DEF StartMarks
<1> QED BY <1>1, <1>2, <1>3, <1>4, <1>5, <1>6 DEF StartSteps

LEMMA LoopStepsTypeOK ==
  ASSUME TypeOK, NEW c \in Clients, LoopSteps(c)
  PROVE  TypeOK'
<1> USE ClusterAssumption
    DEF TypeOK, clusterVars, kindVars, gateVars, clientGoVars, Loops, LoopAt
<1>1. CASE LoopBegins(c) BY <1>1 DEF LoopBegins, ProbeTimer
<1>2. CASE LoopExits(c) BY <1>2 DEF LoopExits
<1>3. CASE LoopRearms(c)
  <2>1. loop' \in [Clients -> Loops] BY <1>3 DEF LoopRearms, ProbeTimer
  <2> QED BY <1>3, <2>1 DEF LoopRearms
<1>4. ASSUME Probes(c), retry' \in BOOLEAN PROVE TypeOK'
  <2>1. loop' \in [Clients -> Loops] BY <1>4 DEF Probes, Failures
  <2>2. probeAllowed' \in [Clients -> BOOLEAN] BY <1>4 DEF Probes
  <2>3. asked' \subseteq Clients BY <1>4 DEF Probes
  <2> QED BY <1>4, <2>1, <2>2, <2>3 DEF Probes
<1>5. CASE LoopTicks(c) \/ LoopRetries(c) BY <1>4, <1>5 DEF LoopTicks, LoopRetries
<1>6. ASSUME NEW answer \in Errors \cup {"ok"}, ProbeReturns(c, answer)
      PROVE TypeOK'
  <2>1. loop' \in [Clients -> Loops] BY <1>6 DEF ProbeReturns, Failures
  <2>2. passed' \subseteq Kinds BY <1>6 DEF ProbeReturns, InFlight
  <2>3. CASE answer = "ok" BY <1>6, <2>1, <2>2, <2>3 DEF ProbeReturns
  <2>4. CASE answer # "ok"
    <3>1. GateSees(c, answer) BY <1>6, <2>4 DEF ProbeReturns
    <3> QED BY <1>6, <2>1, <2>2, <3>1, GateTypes DEF ProbeReturns
  <2> QED BY <2>3, <2>4
<1>7. CASE ProbeApplies(c)
  <2>1. loop' \in [Clients -> Loops] BY <1>7 DEF ProbeApplies, ProbeTimer
  <2>2. loop[c].result \in Failures \cup {"ok"} OBVIOUS
  <2>3. CASE ProbeIgnored(c) BY <1>7, <2>1, <2>3 DEF ProbeApplies, ProbeIgnored
  <2>4. CASE ProbeAnswered(c)
    <3>1. allKindsSynced' \in BOOLEAN BY <2>4 DEF ProbeAnswered, Sweep
    <3>2. health' \in ConnStates BY <2>4, <3>1, PingAnsweredHealth DEF ProbeAnswered, Ready
    <3> QED BY <1>7, <2>1, <2>4, <3>1, <3>2 DEF ProbeApplies, ProbeAnswered
  <2>5. CASE ProbeFailed(c)
    <3>1. allKindsSynced' \in BOOLEAN BY <2>5 DEF ProbeFailed, Sweep
    <3>2. loop[c].result \in Failures BY <2>2, <2>5 DEF ProbeFailed
    <3>3. PICK recent \in BOOLEAN :
            /\ health' = OnPingFailed(health, loop[c].result, c \in Static,
                                      Ready(allKindsSynced', watchUnhealthy),
                                      reached' # NoClient \/ c \in responded, recent, c)
            /\ wake' = \/ wake
                       \/ NeedsReauth(loop[c].result, c \in Static)
                       \/ ~InConnectGrace(Ready(allKindsSynced', watchUnhealthy),
                                          reached' # NoClient \/ c \in responded,
                                          loop[c].result, recent)
      BY <2>5 DEF ProbeFailed
    <3>4. health' \in ConnStates
      <4>1. /\ (c \in Static) \in BOOLEAN
            /\ Ready(allKindsSynced', watchUnhealthy) \in BOOLEAN
            /\ (reached' # NoClient \/ c \in responded) \in BOOLEAN
        BY <3>1 DEF Ready
      <4>2. health \in ConnStates OBVIOUS
      <4> QED BY <3>2, <3>3, <4>1, <4>2, PingFailedHealth, Zenon
    <3>5. wake' \in BOOLEAN BY <3>3
    <3> QED BY <1>7, <2>1, <2>5, <3>1, <3>4, <3>5 DEF ProbeApplies, ProbeFailed
  <2> QED BY <1>7, <2>3, <2>4, <2>5 DEF ProbeApplies
<1> QED BY <1>1, <1>2, <1>3, <1>4, <1>5, <1>6, <1>7 DEF LoopSteps

LEMMA OtherStepsTypeOK ==
  ASSUME TypeOK,
         \/ \E c \in Clients : OnBlocked(c)
         \/ SwitchContext \/ Stop \/ RetryNow \/ Recover
  PROVE  TypeOK'
<1> USE ClusterAssumption
    DEF TypeOK, clusterVars, kindVars, gateVars, clientGoVars
<1>1. ASSUME NEW c \in Clients, OnBlocked(c) PROVE TypeOK'
  <2>1. health' \in ConnStates /\ wake' \in BOOLEAN BY <1>1, OtherHealth DEF OnBlocked
  <2> QED BY <1>1, <2>1 DEF OnBlocked
<1>2. CASE SwitchContext
  <2>1. client' \in Clients BY <1>2 DEF SwitchContext, ReplaceClient, Clients
  <2>2. health' \in ConnStates BY <1>2, OtherHealth DEF SwitchContext, ReplaceClient
  <2>3. starter' \in [Starters -> StarterStates]
    BY <1>2 DEF SwitchContext, ReplaceClient, Move, Moved, StarterStates
  <2>4. generation' \in Nat BY <1>2 DEF SwitchContext
  <2>5. /\ kindInformers' \in [Kinds -> Nat \cup {NoGen}]
        /\ errHandler' \in [Kinds -> Nat \cup {NoGen}]
        /\ kindFailed' \in [Kinds -> Clients \cup {NoClient}]
        /\ kindStalled' \in [Kinds -> Clients \cup {NoClient}]
        /\ watchUnhealthy' \in [Kinds -> Clients \cup {NoClient}]
        /\ hasSynced' \in [Kinds -> BOOLEAN] /\ stream' \in [Kinds -> {"up", "down"}]
    BY <1>2 DEF SwitchContext, ReplaceClient
  <2> QED BY <1>2, <2>1, <2>2, <2>3, <2>4, <2>5 DEF SwitchContext, ReplaceClient
<1>3. CASE Stop BY <1>3 DEF Stop
<1>4. CASE RetryNow
  <2>1. (probeAllowed[client] \/ blocked[client]) \in BOOLEAN OBVIOUS
  <2>2. probeAllowed' \in [Clients -> BOOLEAN] BY <1>4, <2>1 DEF RetryNow
  <2>3. asked' \subseteq Clients BY <1>4 DEF RetryNow
  <2> QED BY <1>4, <2>2, <2>3 DEF RetryNow
<1>5. CASE Recover BY <1>5 DEF Recover
<1> QED BY <1>1, <1>2, <1>3, <1>4, <1>5

(* No step of any actor leaves the types: the attempt counter stays within *)
(* its saturation and every record names a client that exists.             *)
THEOREM TypeCorrect == Spec => []TypeOK
<1>1. TypeOK /\ [Next]_vars => TypeOK'
  <2> SUFFICES ASSUME TypeOK, [Next]_vars PROVE TypeOK' OBVIOUS
  <2>1. CASE UNCHANGED vars
    BY <2>1 DEF TypeOK, vars, clusterVars, kindVars, gateVars, clientGoVars
  <2>2. CASE Next
    BY <2>2, KindStepsTypeOK, DeliverTypeOK, StartStepsTypeOK, LoopStepsTypeOK,
       OtherStepsTypeOK DEF Next
  <2> QED BY <2>1, <2>2
<1> QED BY <1>1, InitTypeOK, PTL DEF Spec

=============================================================================
