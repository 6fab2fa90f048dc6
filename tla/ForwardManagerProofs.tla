------------------------ MODULE ForwardManagerProofs ------------------------
(***************************************************************************)
(* Theorems about ForwardManager, for any number of sessions, restarts,    *)
(* pods, tunnels and faults: its types, that no tunnel is left behind, and *)
(* that a check closes only the tunnel of the pod it asked about.          *)
(***************************************************************************)
EXTENDS ForwardManager, TLAPS

-----------------------------------------------------------------------------
(***************************************************************************)
(* Type correctness.                                                       *)
(***************************************************************************)

(* A run holds a tunnel from the dial to the end of the tunnel's Run.      *)
Holding == {"dialed", "published", "connecting", "serving"}
HoldsTunnel ==
  \A s \in Sessions, n \in Runs : run[s][n].tunnel # NoTunnel <=> run[s][n].pc \in Holding

LEMMA RunTypes ==
  ASSUME TypeOK, HoldsTunnel, NEW s \in Sessions, NEW n \in Runs,
         NEW pc \in {"top", "dialing", "dialed", "published", "connecting", "serving",
                     "ended", "marking", "waiting", "resolving", "done"},
         NEW pod \in Pods \cup {NoPod}, NEW tunnel \in Tunnels \cup {NoTunnel},
         tunnel # NoTunnel <=> pc \in Holding,
         RunAt(s, n, pc, pod, tunnel)
  PROVE  run' \in [Sessions -> [Runs -> RunStates]] /\ HoldsTunnel'
BY DEF TypeOK, RunAt, RunStates, HoldsTunnel

LEMMA RunFields ==
  ASSUME TypeOK, NEW s \in Sessions, NEW n \in Runs
  PROVE  run[s][n].pod \in Pods \cup {NoPod} /\ run[s][n].tunnel \in Tunnels \cup {NoTunnel}
BY DEF TypeOK, RunStates

LEMMA TypeInit == Init => TypeOK /\ HoldsTunnel
<1> SUFFICES ASSUME Init PROVE TypeOK /\ HoldsTunnel OBVIOUS
<1>1. NoRun \in RunStates BY DEF NoRun, RunStates
<1>2. NoCheck \in Checks BY ForwardAssumption DEF NoCheck, Checks
<1>3. run \in [Sessions -> [Runs -> RunStates]] BY <1>1 DEF Init
<1>4. 0 \in 0..MaxRuns /\ 0 \in 0..MaxFaults /\ 0 \in 0..MaxPodEvents BY ForwardAssumption
<1>6. /\ ctx \in [Sessions -> 0..MaxRuns] /\ check \in [Sessions -> Checks]
      /\ tunnelPod \in [Tunnels -> Pods \cup {NoPod}]
  BY <1>2, <1>4 DEF Init
<1>7. TypeOK BY <1>3, <1>4, <1>6 DEF Init, TypeOK
<1>5. HoldsTunnel BY DEF Init, HoldsTunnel, NoRun, Holding
<1> QED BY <1>5, <1>7

LEMMA TypeRun ==
  ASSUME TypeOK, HoldsTunnel, NEW s \in Sessions, NEW n \in Runs, RunSteps(s, n)
  PROVE  TypeOK' /\ HoldsTunnel'
<1> USE ForwardAssumption DEF Holding, entryVars, tunnelVars, worldVars, uiVars
<1>1. run[s][n].pod \in Pods \cup {NoPod} /\ run[s][n].tunnel \in Tunnels \cup {NoTunnel}
  BY RunFields
<1>12. run[s][n].tunnel # NoTunnel <=> run[s][n].pc \in Holding BY DEF HoldsTunnel
<1>2. NoPod \in Pods \cup {NoPod} /\ NoTunnel \in Tunnels \cup {NoTunnel} OBVIOUS
<1>3. CASE LoopTop(s, n) \/ AfterRun(s, n) \/ WaitCancelled(s, n) \/ RetryTimer(s, n)
  <2>1. run' \in [Sessions -> [Runs -> RunStates]] /\ HoldsTunnel'
    BY <1>1, <1>2, <1>12, <1>3, RunTypes DEF LoopTop, AfterRun, WaitCancelled, RetryTimer, Ends
  <2> QED BY <1>3, <2>1 DEF LoopTop, AfterRun, WaitCancelled, RetryTimer, TypeOK
<1>4. CASE Dial(s, n)
  <2>1. PICK t \in Free : /\ RunAt(s, n, "dialed", run[s][n].pod, t)
                          /\ closed' = closed \ {t}
                          /\ tunnelPod' = [tunnelPod EXCEPT ![t] = run[s][n].pod]
    BY <1>4 DEF Dial
  <2>2. t \in Tunnels /\ t # NoTunnel BY DEF Free, Tunnels, NoTunnel
  <2>3. run' \in [Sessions -> [Runs -> RunStates]] /\ HoldsTunnel' BY <1>1, <2>1, <2>2, RunTypes
  <2> QED BY <1>1, <1>4, <2>1, <2>2, <2>3 DEF Dial, TypeOK
<1>5. CASE DialFails(s, n) \/ ConnectFails(s, n)
  <2>1. run' \in [Sessions -> [Runs -> RunStates]] /\ HoldsTunnel'
    BY <1>1, <1>2, <1>12, <1>5, RunTypes DEF DialFails, ConnectFails, RunReturns
  <2>2. faults' \in 0..MaxFaults BY <1>5 DEF DialFails, ConnectFails, TypeOK
  <2> QED BY <1>5, <2>1, <2>2 DEF DialFails, ConnectFails, TypeOK
<1>6. CASE Publish(s, n)
  <2>1. run' \in [Sessions -> [Runs -> RunStates]] /\ HoldsTunnel'
    BY <1>1, <1>2, <1>12, <1>6, RunTypes DEF Publish, Ends
  <2>2. handle' \in [Sessions -> Tunnels \cup {NoTunnel}] BY <1>1, <1>6 DEF Publish, TypeOK
  <2>3. resolvedPod' \in [Sessions -> Pods \cup {NoPod}] BY <1>1, <1>6 DEF Publish, TypeOK
  <2>4. closed' \subseteq Tunnels
    BY <1>1, <1>6, <1>12 DEF Publish, TypeOK
  <2> QED BY <1>6, <2>1, <2>2, <2>3, <2>4 DEF Publish, TypeOK
<1>7. CASE TunnelRuns(s, n)
  <2>1. run' \in [Sessions -> [Runs -> RunStates]] /\ HoldsTunnel'
    BY <1>1, <1>2, <1>12, <1>7, RunTypes DEF TunnelRuns, RunReturns
  <2> QED BY <1>7, <2>1 DEF TunnelRuns, TypeOK
<1>8. CASE Connect(s, n)
  <2>1. run' \in [Sessions -> [Runs -> RunStates]] /\ HoldsTunnel' BY <1>1, <1>8, <1>12, RunTypes DEF Connect
  <2>2. run[s][n].tunnel \in Tunnels BY <1>1, <1>8, <1>12 DEF Connect
  <2> QED BY <1>8, <2>1, <2>2 DEF Connect, TypeOK
<1>9. CASE TunnelEnds(s, n)
  <2>1. run' \in [Sessions -> [Runs -> RunStates]] /\ HoldsTunnel'
    BY <1>1, <1>2, <1>12, <1>9, RunTypes DEF TunnelEnds, RunReturns
  <2>2. faults' \in 0..MaxFaults BY <1>9 DEF TunnelEnds, TypeOK
  <2> QED BY <1>9, <2>1, <2>2 DEF TunnelEnds, TypeOK
<1>10. CASE MarkReconnecting(s, n)
  <2>1. run' \in [Sessions -> [Runs -> RunStates]] /\ HoldsTunnel'
    BY <1>1, <1>2, <1>12, <1>10, RunTypes DEF MarkReconnecting
  <2> QED BY <1>10, <2>1 DEF MarkReconnecting, TypeOK
<1>11. CASE Resolve(s, n)
  <2>1. available \subseteq Pods BY DEF TypeOK
  <2>2. run' \in [Sessions -> [Runs -> RunStates]] /\ HoldsTunnel'
    BY <1>1, <1>2, <1>12, <1>11, <2>1, RunTypes DEF Resolve
  <2>3. faults' \in 0..MaxFaults BY <1>11 DEF Resolve, TypeOK
  <2> QED BY <1>11, <2>2, <2>3 DEF Resolve, TypeOK
<1> QED BY <1>3, <1>4, <1>5, <1>6, <1>7, <1>8, <1>9, <1>10, <1>11 DEF RunSteps

LEMMA TypeOther ==
  ASSUME TypeOK, HoldsTunnel,
         \/ UserSteps \/ ReconcilePodTargets
         \/ \E s \in Sessions : Spawn(s) \/ CheckAsks(s) \/ CheckDecides(s)
         \/ \E c \in closing : CloseTunnel(c)
         \/ \E p \in Pods, up \in BOOLEAN : PodChanges(p, up)
  PROVE  TypeOK' /\ HoldsTunnel'
<1> USE ForwardAssumption DEF entryVars, tunnelVars, worldVars, uiVars
<1>1. ASSUME run' = run PROVE HoldsTunnel' BY <1>1 DEF HoldsTunnel
<1>2. NoPod \in Pods \cup {NoPod} /\ NoTunnel \in Tunnels \cup {NoTunnel} OBVIOUS
<1>3. ASSUME NEW S \in SUBSET Sessions
      PROVE  Handles(S) \subseteq [by : {"user", "check"}, tunnel : Tunnels,
                                   pod : Pods \cup {NoPod}]
  BY DEF Handles, TypeOK, NoTunnel
<1>4. ASSUME NEW s \in Sessions, NEW pod \in Picked, StartPort(s, pod)
      PROVE  TypeOK' /\ HoldsTunnel'
  <2>1. 1 \in Runs /\ 1 \in 0..MaxRuns BY DEF Runs
  <2>2. pod \in Pods \cup {NoPod} OBVIOUS
  <2>3. run' \in [Sessions -> [Runs -> RunStates]] /\ HoldsTunnel'
    BY <1>2, <1>4, <2>1, <2>2, RunTypes DEF StartPort, Holding
  <2>4. ctx' \in [Sessions -> 0..MaxRuns] BY <1>4, <2>1 DEF StartPort, TypeOK
  <2>5. resolvedPod' \in [Sessions -> Pods \cup {NoPod}] BY <1>4, <2>2 DEF StartPort, TypeOK
  <2>6. born' \subseteq Sessions /\ live' \subseteq born' /\ podTarget' \subseteq born'
    BY <1>4 DEF StartPort, TypeOK
  <2> QED BY <1>4, <2>3, <2>4, <2>5, <2>6 DEF StartPort, TypeOK
<1>5. ASSUME StopAll \/ \E s \in Sessions : Stop(s) PROVE TypeOK' /\ HoldsTunnel'
  <2>1. live \subseteq Sessions BY DEF TypeOK
  <2>2. live' \subseteq born
        /\ closing' \subseteq [by : {"user", "check"}, tunnel : Tunnels, pod : Pods \cup {NoPod}]
    BY <1>3, <1>5, <2>1 DEF Stop, StopAll, TypeOK
  <2> QED BY <1>1, <1>5, <2>2 DEF Stop, StopAll, TypeOK
<1>6. ASSUME NEW s \in Sessions, Restart(s) PROVE TypeOK' /\ HoldsTunnel'
  <2>1. ctx' \in [Sessions -> 0..MaxRuns] BY <1>6 DEF Restart, TypeOK
  <2>2. handle' \in [Sessions -> Tunnels \cup {NoTunnel}]
        /\ state' \in [Sessions -> {"active", "reconnecting"}]
    BY <1>2, <1>6 DEF Restart, TypeOK
  <2>3. closing' \subseteq [by : {"user", "check"}, tunnel : Tunnels, pod : Pods \cup {NoPod}]
    BY <1>3, <1>6 DEF Restart, TypeOK
  <2> QED BY <1>1, <1>6, <2>1, <2>2, <2>3 DEF Restart, TypeOK
<1>7. ASSUME NEW s \in Sessions, Spawn(s) PROVE TypeOK' /\ HoldsTunnel'
  <2>1. CASE ctx[s] \in Runs
    <3>1. resolvedPod[s] \in Pods \cup {NoPod} BY DEF TypeOK
    <3>2. run' \in [Sessions -> [Runs -> RunStates]] /\ HoldsTunnel'
      BY <1>2, <1>7, <2>1, <3>1, RunTypes DEF Spawn, Holding
    <3> QED BY <1>7, <3>2 DEF Spawn, TypeOK
  <2>2. CASE ctx[s] \notin Runs
    <3>1. run' = run BY <1>7, <2>2 DEF Spawn, RunAt, TypeOK
    <3> QED BY <1>1, <1>7, <3>1 DEF Spawn, TypeOK
  <2> QED BY <2>1, <2>2
<1>8. ASSUME NEW c \in closing, CloseTunnel(c) PROVE TypeOK' /\ HoldsTunnel'
  <2>1. closing' \subseteq closing /\ closed' \subseteq Tunnels BY <1>8 DEF CloseTunnel, TypeOK
  <2> QED BY <1>1, <1>8, <2>1 DEF CloseTunnel, TypeOK
<1>9. CASE ReconcilePodTargets
  <2>1. ctx \in [Sessions -> 0..MaxRuns] /\ resolvedPod \in [Sessions -> Pods \cup {NoPod}]
    BY DEF TypeOK
  <2>2. check' \in [Sessions -> Checks] BY <1>9, <2>1 DEF ReconcilePodTargets, Checks, TypeOK
  <2>3. checking' \subseteq Sessions BY <1>9 DEF ReconcilePodTargets, TypeOK
  <2> QED BY <1>1, <1>9, <2>2, <2>3 DEF ReconcilePodTargets, TypeOK
<1>10. ASSUME NEW s \in Sessions, CheckAsks(s) PROVE TypeOK' /\ HoldsTunnel'
  <2>1. PICK answer \in {"available", "gone", "error"} :
          /\ faults' = faults \/ (faults < MaxFaults /\ faults' = faults + 1)
          /\ check' = [check EXCEPT ![s] = [pc |-> "answered", ctx |-> 0, pod |-> check[s].pod,
                                            answer |-> answer]]
    BY <1>10 DEF CheckAsks
  <2>2. faults' \in 0..MaxFaults BY <2>1 DEF TypeOK
  <2>3. check' \in [Sessions -> Checks] BY <2>1 DEF TypeOK, Checks
  <2> QED BY <1>1, <1>10, <2>2, <2>3 DEF CheckAsks, TypeOK
<1>11. ASSUME NEW s \in Sessions, CheckDecides(s) PROVE TypeOK' /\ HoldsTunnel'
  <2>1. check' \in [Sessions -> Checks]
    BY <1>11 DEF CheckDecides, TypeOK, Checks, NoCheck
  <2>2. closing' \subseteq [by : {"user", "check"}, tunnel : Tunnels, pod : Pods \cup {NoPod}]
    BY <1>11 DEF CheckDecides, TypeOK, Checks
  <2>3. checking' \subseteq Sessions BY <1>11 DEF CheckDecides, TypeOK
  <2> QED BY <1>1, <1>11, <2>1, <2>2, <2>3 DEF CheckDecides, TypeOK
<1>12. ASSUME NEW p \in Pods, NEW up \in BOOLEAN, PodChanges(p, up)
       PROVE  TypeOK' /\ HoldsTunnel'
  <2>1. available' \subseteq Pods /\ podEvents' \in 0..MaxPodEvents BY <1>12 DEF PodChanges, TypeOK
  <2> QED BY <1>1, <1>12, <2>1 DEF PodChanges, TypeOK
<1> QED BY <1>4, <1>5, <1>6, <1>7, <1>8, <1>9, <1>10, <1>11, <1>12 DEF UserSteps

LEMMA TypeStep == TypeOK /\ HoldsTunnel /\ [Next]_vars => TypeOK' /\ HoldsTunnel'
<1>1. TypeOK /\ HoldsTunnel /\ UNCHANGED vars => TypeOK' /\ HoldsTunnel'
  BY DEF TypeOK, HoldsTunnel, vars, entryVars, tunnelVars, worldVars, uiVars
<1> QED BY <1>1, TypeRun, TypeOther DEF Next

(* No step of the user, of a run, of a check or of the pods leaves the     *)
(* types, and a run has a tunnel exactly from its dial to its Run's end.   *)
THEOREM TypeCorrect == Spec => [](TypeOK /\ HoldsTunnel)
BY TypeInit, TypeStep, PTL DEF Spec

-----------------------------------------------------------------------------
(***************************************************************************)
(* No tunnel is left behind, and checks close what they asked about.       *)
(***************************************************************************)

(* A handle names a tunnel to the pod the session shows as resolved, a run *)
(* holds a tunnel to its own pod, and a session that was never started has *)
(* no handle.                                                              *)
HandlesAreTrue ==
  \A s \in Sessions : handle[s] # NoTunnel => s \in born /\ tunnelPod[handle[s]] = resolvedPod[s]
RunsAreTrue ==
  \A s \in Sessions, n \in Runs :
    run[s][n].tunnel # NoTunnel => tunnelPod[run[s][n].tunnel] = run[s][n].pod

Tidy == NoLeakedTunnel /\ ChecksCloseTheirPod /\ HandlesAreTrue /\ RunsAreTrue

LEMMA RunMoves ==
  ASSUME TypeOK, NEW s \in Sessions, NEW n \in Runs, NEW pc, NEW pod, NEW tunnel,
         RunAt(s, n, pc, pod, tunnel)
  PROVE  /\ run'[s][n] = [pc |-> pc, pod |-> pod, tunnel |-> tunnel]
         /\ \A q \in Sessions, m \in Runs : <<q, m>> # <<s, n>> => run'[q][m] = run[q][m]
BY DEF TypeOK, RunAt

(* A step of one run that keeps its tunnel or lets it go.                  *)
LEMMA TidyQuietRun ==
  ASSUME TypeOK, Tidy, NEW s \in Sessions, NEW n \in Runs, NEW pc, NEW pod, NEW tunnel,
         RunAt(s, n, pc, pod, tunnel),
         UNCHANGED <<born, live, ctx, handle, resolvedPod, closing, closed, tunnelPod>>,
         \/ tunnel = NoTunnel /\ pc \notin Holding
         \/ /\ tunnel = run[s][n].tunnel /\ pod = run[s][n].pod
            /\ run[s][n].pc \in {"published", "connecting", "serving"}
  PROVE  Tidy'
<1>1. run'[s][n] = [pc |-> pc, pod |-> pod, tunnel |-> tunnel] BY RunMoves
<1>2. \A q \in Sessions, m \in Runs : <<q, m>> # <<s, n>> => run'[q][m] = run[q][m] BY RunMoves
<1>3. NoLeakedTunnel' BY <1>1, <1>2 DEF Tidy, NoLeakedTunnel, Cancelled, Holding
<1>4. ChecksCloseTheirPod' /\ HandlesAreTrue' BY DEF Tidy, ChecksCloseTheirPod, HandlesAreTrue
<1>5. RunsAreTrue' BY <1>1, <1>2 DEF Tidy, RunsAreTrue
<1> QED BY <1>3, <1>4, <1>5 DEF Tidy

LEMMA TidyDial ==
  ASSUME TypeOK, Tidy, NEW s \in Sessions, NEW n \in Runs, Dial(s, n)
  PROVE  Tidy'
<1>1. PICK t \in Free : /\ RunAt(s, n, "dialed", run[s][n].pod, t)
                        /\ closed' = closed \ {t}
                        /\ tunnelPod' = [tunnelPod EXCEPT ![t] = run[s][n].pod]
  BY DEF Dial
<1>2. UNCHANGED <<born, live, ctx, handle, resolvedPod, closing>> BY DEF Dial, entryVars, uiVars
<1>3. t \in Tunnels /\ t # NoTunnel BY DEF Free, Tunnels, NoTunnel
<1>4. \A q \in Sessions : handle[q] # t /\ \A m \in Runs : run[q][m].tunnel # t BY DEF Free
<1>5. \A c \in closing : c.tunnel # t BY DEF Free
<1>6. tunnelPod'[t] = run[s][n].pod /\ \A u \in Tunnels \ {t} : tunnelPod'[u] = tunnelPod[u]
  BY <1>1, <1>3 DEF TypeOK
<1>7. run'[s][n] = [pc |-> "dialed", pod |-> run[s][n].pod, tunnel |-> t] BY <1>1, RunMoves
<1>8. \A q \in Sessions, m \in Runs : <<q, m>> # <<s, n>> => run'[q][m] = run[q][m]
  BY <1>1, RunMoves
<1>9. NoLeakedTunnel'
  BY <1>1, <1>2, <1>4, <1>7, <1>8 DEF Tidy, NoLeakedTunnel, Cancelled
<1>10. ChecksCloseTheirPod' BY <1>2, <1>5, <1>6 DEF Tidy, ChecksCloseTheirPod, TypeOK
<1>11. HandlesAreTrue' BY <1>2, <1>4, <1>6 DEF Tidy, HandlesAreTrue, TypeOK
<1>12. RunsAreTrue'
  <2> SUFFICES ASSUME NEW q \in Sessions, NEW m \in Runs, run'[q][m].tunnel # NoTunnel
               PROVE  tunnelPod'[run'[q][m].tunnel] = run'[q][m].pod
    BY DEF RunsAreTrue
  <2>1. CASE <<q, m>> = <<s, n>> BY <1>6, <1>7, <2>1
  <2>2. CASE <<q, m>> # <<s, n>>
    <3>1. run'[q][m] = run[q][m] BY <1>8, <2>2
    <3>2. run[q][m].tunnel \in Tunnels \ {t} BY <1>4, <3>1, RunFields
    <3> QED BY <1>6, <3>1, <3>2 DEF Tidy, RunsAreTrue
  <2> QED BY <2>1, <2>2
<1> QED BY <1>9, <1>10, <1>11, <1>12 DEF Tidy

LEMMA TidyPublish ==
  ASSUME TypeOK, HoldsTunnel, Tidy, NEW s \in Sessions, NEW n \in Runs, Publish(s, n)
  PROVE  Tidy'
<1> DEFINE t == run[s][n].tunnel
<1>1. UNCHANGED <<born, live, ctx, closing, tunnelPod>> BY DEF Publish, uiVars
<1>2. t # NoTunnel /\ tunnelPod[t] = run[s][n].pod
  BY DEF Publish, HoldsTunnel, Holding, Tidy, RunsAreTrue
<1>3. CASE Cancelled(s, n)
  <2>1. RunAt(s, n, "done", NoPod, NoTunnel) /\ closed' = closed \cup {t}
    BY <1>3 DEF Publish, Ends
  <2>2. run'[s][n] = [pc |-> "done", pod |-> NoPod, tunnel |-> NoTunnel] BY <2>1, RunMoves
  <2>3. \A q \in Sessions, m \in Runs : <<q, m>> # <<s, n>> => run'[q][m] = run[q][m]
    BY <2>1, RunMoves
  <2>4. UNCHANGED <<handle, resolvedPod>> BY <1>3 DEF Publish
  <2>5. NoLeakedTunnel' BY <1>1, <2>1, <2>2, <2>3, <2>4 DEF Tidy, NoLeakedTunnel, Cancelled
  <2>6. ChecksCloseTheirPod' /\ HandlesAreTrue'
    BY <1>1, <2>4 DEF Tidy, ChecksCloseTheirPod, HandlesAreTrue
  <2>7. RunsAreTrue' BY <1>1, <2>2, <2>3 DEF Tidy, RunsAreTrue
  <2> QED BY <2>5, <2>6, <2>7 DEF Tidy
<1>4. CASE ~Cancelled(s, n)
  <2>1. /\ RunAt(s, n, "published", run[s][n].pod, t) /\ closed' = closed
        /\ handle' = [handle EXCEPT ![s] = t]
        /\ resolvedPod' = [resolvedPod EXCEPT ![s] = run[s][n].pod]
    BY <1>4 DEF Publish
  <2>2. run'[s][n] = [pc |-> "published", pod |-> run[s][n].pod, tunnel |-> t] BY <2>1, RunMoves
  <2>3. \A q \in Sessions, m \in Runs : <<q, m>> # <<s, n>> => run'[q][m] = run[q][m]
    BY <2>1, RunMoves
  <2>4. handle'[s] = t /\ \A q \in Sessions : q # s => handle'[q] = handle[q] BY <2>1 DEF TypeOK
  <2>5. NoLeakedTunnel'
    <3> SUFFICES ASSUME NEW q \in Sessions, NEW m \in Runs,
                        run'[q][m].pc \in {"published", "connecting", "serving"}
                 PROVE  \/ run'[q][m].tunnel \in closed'
                        \/ ~Cancelled(q, m)' /\ handle'[q] = run'[q][m].tunnel
                        \/ \E c \in closing' : c.tunnel = run'[q][m].tunnel
      BY DEF NoLeakedTunnel
    <3>1. CASE <<q, m>> = <<s, n>> BY <1>1, <1>4, <2>2, <2>4, <3>1 DEF Cancelled
    <3>2. CASE q = s /\ m # n
      <4>1. run'[q][m] = run[q][m] /\ Cancelled(q, m) BY <1>4, <2>3, <3>2 DEF Cancelled
      <4> QED BY <1>1, <2>1, <4>1 DEF Tidy, NoLeakedTunnel
    <3>3. CASE q # s
      <4>1. run'[q][m] = run[q][m] /\ handle'[q] = handle[q] BY <2>3, <2>4, <3>3
      <4> QED BY <1>1, <2>1, <4>1 DEF Tidy, NoLeakedTunnel, Cancelled
    <3> QED BY <3>1, <3>2, <3>3
  <2>6. ChecksCloseTheirPod' BY <1>1 DEF Tidy, ChecksCloseTheirPod
  <2>7. HandlesAreTrue'
    BY <1>1, <1>2, <1>4, <2>1 DEF Tidy, HandlesAreTrue, TypeOK, Cancelled
  <2>8. RunsAreTrue' BY <1>1, <1>2, <2>2, <2>3 DEF Tidy, RunsAreTrue
  <2> QED BY <2>5, <2>6, <2>7, <2>8 DEF Tidy
<1> QED BY <1>3, <1>4

LEMMA TidyRun ==
  ASSUME TypeOK, HoldsTunnel, Tidy, NEW s \in Sessions, NEW n \in Runs, RunSteps(s, n)
  PROVE  Tidy'
<1> USE DEF entryVars, tunnelVars, uiVars
<1>1. CASE LoopTop(s, n) \/ AfterRun(s, n) \/ WaitCancelled(s, n) \/ RetryTimer(s, n)
  BY <1>1, TidyQuietRun DEF LoopTop, AfterRun, WaitCancelled, RetryTimer, Ends, Holding
<1>2. CASE DialFails(s, n) \/ ConnectFails(s, n) \/ TunnelEnds(s, n)
  BY <1>2, TidyQuietRun DEF DialFails, ConnectFails, TunnelEnds, RunReturns, Holding
<1>3. CASE MarkReconnecting(s, n)
  BY <1>3, TidyQuietRun DEF MarkReconnecting, Holding
<1>4. CASE Resolve(s, n)
  BY <1>4, TidyQuietRun DEF Resolve, Holding
<1>5. CASE TunnelRuns(s, n) \/ Connect(s, n)
  BY <1>5, TidyQuietRun DEF TunnelRuns, Connect, RunReturns, Holding
<1> QED BY <1>1, <1>2, <1>3, <1>4, <1>5, TidyDial, TidyPublish DEF RunSteps

LEMMA TidyUser ==
  ASSUME TypeOK, HoldsTunnel, Tidy, UserSteps
  PROVE  Tidy'
<1> USE DEF tunnelVars, uiVars
<1>1. ASSUME NEW s \in Sessions, NEW pod \in Picked, StartPort(s, pod) PROVE Tidy'
  <2>1. UNCHANGED <<handle, closing, closed, tunnelPod>> BY <1>1 DEF StartPort
  <2>2. 1 \in Runs /\ RunAt(s, 1, "top", pod, NoTunnel)
    BY <1>1, ForwardAssumption DEF StartPort, Runs
  <2>3. run'[s][1] = [pc |-> "top", pod |-> pod, tunnel |-> NoTunnel] BY <2>2, RunMoves
  <2>4. \A q \in Sessions, m \in Runs : <<q, m>> # <<s, 1>> => run'[q][m] = run[q][m]
    BY <2>2, RunMoves
  <2>5. s \notin born /\ s \notin live /\ born' = born \cup {s} /\ live' = live \cup {s}
    BY <1>1 DEF StartPort, TypeOK
  <2>6. \A q \in Sessions \ {s} : ctx'[q] = ctx[q] /\ resolvedPod'[q] = resolvedPod[q]
    BY <1>1 DEF StartPort, TypeOK
  <2>7. NoLeakedTunnel'
    BY <2>1, <2>3, <2>4, <2>5, <2>6 DEF Tidy, NoLeakedTunnel, Cancelled
  <2>8. ChecksCloseTheirPod' BY <2>1 DEF Tidy, ChecksCloseTheirPod
  <2>9. HandlesAreTrue' BY <2>1, <2>5, <2>6 DEF Tidy, HandlesAreTrue
  <2>10. RunsAreTrue' BY <2>1, <2>3, <2>4 DEF Tidy, RunsAreTrue
  <2> QED BY <2>7, <2>8, <2>9, <2>10 DEF Tidy
<1>2. ASSUME StopAll \/ \E s \in Sessions : Stop(s) PROVE Tidy'
  <2>1. UNCHANGED <<born, ctx, handle, resolvedPod, run, closed, tunnelPod>>
    BY <1>2 DEF Stop, StopAll
  <2>2. live' \subseteq live /\ closing' = closing \cup Handles(live \ live')
    BY <1>2 DEF Stop, StopAll
  <2>3. NoLeakedTunnel'
    <3> SUFFICES ASSUME NEW q \in Sessions, NEW m \in Runs,
                        run[q][m].pc \in {"published", "connecting", "serving"}
                 PROVE  \/ run[q][m].tunnel \in closed
                        \/ ~Cancelled(q, m)' /\ handle[q] = run[q][m].tunnel
                        \/ \E c \in closing' : c.tunnel = run[q][m].tunnel
      BY <2>1 DEF NoLeakedTunnel
    <3>1. CASE ~Cancelled(q, m) /\ handle[q] = run[q][m].tunnel
      <4>1. run[q][m].tunnel # NoTunnel BY DEF HoldsTunnel, Holding
      <4>2. CASE q \in live \ live'
        <5>1. [by |-> "user", tunnel |-> handle[q], pod |-> NoPod] \in closing'
          BY <2>2, <3>1, <4>1, <4>2 DEF Handles
        <5> QED BY <3>1, <5>1
      <4> QED BY <2>1, <3>1, <4>2 DEF Cancelled
    <3> QED BY <2>2, <3>1 DEF Tidy, NoLeakedTunnel
  <2>4. ChecksCloseTheirPod' BY <2>1, <2>2 DEF Tidy, ChecksCloseTheirPod, Handles
  <2>5. HandlesAreTrue' /\ RunsAreTrue' BY <2>1 DEF Tidy, HandlesAreTrue, RunsAreTrue
  <2> QED BY <2>3, <2>4, <2>5 DEF Tidy
<1>3. ASSUME NEW s \in Sessions, Restart(s) PROVE Tidy'
  <2>1. UNCHANGED <<born, live, resolvedPod, run, closed, tunnelPod>> BY <1>3 DEF Restart
  <2>2. closing' = closing \cup Handles({s}) BY <1>3 DEF Restart
  <2>3. handle'[s] = NoTunnel
        /\ \A q \in Sessions \ {s} : handle'[q] = handle[q] /\ ctx'[q] = ctx[q]
    BY <1>3 DEF Restart, TypeOK
  <2>4. NoLeakedTunnel'
    <3> SUFFICES ASSUME NEW q \in Sessions, NEW m \in Runs,
                        run[q][m].pc \in {"published", "connecting", "serving"}
                 PROVE  \/ run[q][m].tunnel \in closed
                        \/ ~Cancelled(q, m)' /\ handle'[q] = run[q][m].tunnel
                        \/ \E c \in closing' : c.tunnel = run[q][m].tunnel
      BY <2>1 DEF NoLeakedTunnel
    <3>1. CASE ~Cancelled(q, m) /\ handle[q] = run[q][m].tunnel
      <4>1. run[q][m].tunnel # NoTunnel BY DEF HoldsTunnel, Holding
      <4>2. CASE q = s
        <5>1. [by |-> "user", tunnel |-> handle[q], pod |-> NoPod] \in closing'
          BY <2>2, <3>1, <4>1, <4>2 DEF Handles
        <5> QED BY <3>1, <5>1
      <4> QED BY <2>1, <2>3, <3>1, <4>2 DEF Cancelled
    <3> QED BY <2>2, <3>1 DEF Tidy, NoLeakedTunnel
  <2>5. ChecksCloseTheirPod' BY <2>1, <2>2 DEF Tidy, ChecksCloseTheirPod, Handles
  <2>6. HandlesAreTrue' BY <2>1, <2>3 DEF Tidy, HandlesAreTrue
  <2>7. RunsAreTrue' BY <2>1 DEF Tidy, RunsAreTrue
  <2> QED BY <2>4, <2>5, <2>6, <2>7 DEF Tidy
<1> QED BY <1>1, <1>2, <1>3 DEF UserSteps

LEMMA TidyOther ==
  ASSUME TypeOK, HoldsTunnel, Tidy,
         \/ ReconcilePodTargets
         \/ \E s \in Sessions : Spawn(s) \/ CheckAsks(s) \/ CheckDecides(s)
         \/ \E c \in closing : CloseTunnel(c)
         \/ \E p \in Pods, up \in BOOLEAN : PodChanges(p, up)
  PROVE  Tidy'
<1> USE DEF entryVars, tunnelVars, uiVars
<1>1. ASSUME NEW s \in Sessions, Spawn(s) PROVE Tidy'
  <2>1. CASE ctx[s] \in Runs BY <1>1, <2>1, TidyQuietRun DEF Spawn, Holding
  <2>2. CASE ctx[s] \notin Runs
    <3>1. run' = run BY <1>1, <2>2 DEF Spawn, RunAt, TypeOK
    <3> QED BY <1>1, <3>1
         DEF Spawn, Tidy, NoLeakedTunnel, ChecksCloseTheirPod, HandlesAreTrue, RunsAreTrue, Cancelled
  <2> QED BY <2>1, <2>2
<1>2. ASSUME NEW c \in closing, CloseTunnel(c) PROVE Tidy'
  <2>1. UNCHANGED <<born, live, ctx, handle, resolvedPod, run, tunnelPod>>
        /\ closing' = closing \ {c} /\ closed' = closed \cup {c.tunnel}
    BY <1>2 DEF CloseTunnel
  <2>2. NoLeakedTunnel' BY <2>1 DEF Tidy, NoLeakedTunnel, Cancelled
  <2> QED BY <2>1, <2>2 DEF Tidy, ChecksCloseTheirPod, HandlesAreTrue, RunsAreTrue
<1>3. ASSUME ReconcilePodTargets \/ (\E s \in Sessions : CheckAsks(s))
             \/ (\E p \in Pods, up \in BOOLEAN : PodChanges(p, up))
      PROVE  Tidy'
  <2>1. UNCHANGED <<born, live, ctx, handle, resolvedPod, run, closing, closed, tunnelPod>>
    BY <1>3 DEF ReconcilePodTargets, CheckAsks, PodChanges
  <2> QED BY <2>1
       DEF Tidy, NoLeakedTunnel, ChecksCloseTheirPod, HandlesAreTrue, RunsAreTrue, Cancelled
<1>4. ASSUME NEW s \in Sessions, CheckDecides(s) PROVE Tidy'
  <2>1. UNCHANGED <<born, live, ctx, handle, resolvedPod, run, closed, tunnelPod>>
    BY <1>4 DEF CheckDecides
  <2>2. closing \subseteq closing'
        /\ \A c \in closing' \ closing :
              handle[s] # NoTunnel /\ resolvedPod[s] = check[s].pod
              /\ c = [by |-> "check", tunnel |-> handle[s], pod |-> check[s].pod]
    BY <1>4 DEF CheckDecides, SamePod
  <2>3. NoLeakedTunnel' BY <2>1, <2>2 DEF Tidy, NoLeakedTunnel, Cancelled
  <2>4. ChecksCloseTheirPod' BY <2>1, <2>2 DEF Tidy, ChecksCloseTheirPod, HandlesAreTrue
  <2>5. HandlesAreTrue' /\ RunsAreTrue' BY <2>1 DEF Tidy, HandlesAreTrue, RunsAreTrue
  <2> QED BY <2>3, <2>4, <2>5 DEF Tidy
<1> QED BY <1>1, <1>2, <1>3, <1>4

LEMMA TidyInit == Init => Tidy
<1> SUFFICES ASSUME Init PROVE Tidy OBVIOUS
<1>1. \A s \in Sessions, n \in Runs : run[s][n] = NoRun BY DEF Init
<1>2. NoLeakedTunnel /\ RunsAreTrue BY <1>1 DEF NoRun, NoLeakedTunnel, RunsAreTrue
<1> QED BY <1>2 DEF Init, Tidy, ChecksCloseTheirPod, HandlesAreTrue

LEMMA TidyStep == TypeOK /\ HoldsTunnel /\ Tidy /\ [Next]_vars => Tidy'
<1>1. TypeOK /\ HoldsTunnel /\ Tidy /\ UNCHANGED vars => Tidy'
  BY DEF Tidy, NoLeakedTunnel, ChecksCloseTheirPod, HandlesAreTrue, RunsAreTrue, Cancelled,
         vars, entryVars, tunnelVars, worldVars, uiVars
<1> QED BY <1>1, TidyRun, TidyUser, TidyOther DEF Next

LEMMA TidyAlways == Spec => []Tidy
BY TidyInit, TidyStep, TypeCorrect, PTL DEF Spec

(* However many sessions are started, stopped and restarted while dials,   *)
(* resolutions and checks are in flight, a tunnel that runs or is about to *)
(* run is closed, is the session's handle, or is being closed.             *)
THEOREM NoTunnelIsLeaked == Spec => []NoLeakedTunnel
<1>1. Tidy => NoLeakedTunnel BY DEF Tidy
<1> QED BY <1>1, TidyAlways, PTL

(* A check that found a pod gone closes a tunnel to that very pod, whatever *)
(* was published or restarted while it asked.                              *)
THEOREM ChecksCloseTheirOwn == Spec => []ChecksCloseTheirPod
<1>1. Tidy => ChecksCloseTheirPod BY DEF Tidy
<1> QED BY <1>1, TidyAlways, PTL

=============================================================================
