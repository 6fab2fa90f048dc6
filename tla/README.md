# Verification of kute

kute is a terminal interface to Kubernetes: a Bubble Tea program whose single `Update` loop reads
informer caches that client-go fills from goroutines of its own. Most of it is formatting. What is
hard to get right, and hard to test, is the concurrent part: a cluster connection that is replaced
in place while the goroutines of the old one still run, an authentication gate that decides which
request may re-run a credential plugin, a port-forward manager whose sessions outlive the
cluster they were opened on, a lossy bridge from the informers to the screens, a root shell
that replaces clusters and screens while messages for both are under way, and a log view that
replaces its stream while goroutines, channels and readers of the old one are still about. This directory models that part in TLA+, model-checks it with TLC on
small instances, and proves its main safety properties for every value of the constants with
TLAPS. `PROJECT.json` lists the components, the runs, the mutants (one plausible bug per
property, each found by its run), the source lines of every definition, the hazards and the
theorems.

Paths below are relative to `src/internal`.

## 1. Inventory

| Component | State it keeps | Operations | Talks to |
|---|---|---|---|
| **Connection core** `kube/cluster.go`, `kube/watch.go` | the client in use, the `generation`, `started`/`synced`/`reached`, and per cache key the informer, its denial (`kindFailed`), its failing first LIST (`kindStalled`), its broken WATCH (`watchUnhealthy`), and the latch `allKindsSynced` | `Start`, `SwitchContext`, `Stop`, `ensureKind`, `KindSynced`, `recordWatchError`, `recordWatchEnded`, `recordWatchEstablished`, `notifyScope` | called by the root shell and the screens; called back by client-go |
| **Health and probe loop** `kube/health.go` | `ConnState` (phase, attempt, error), two one-slot channels (`retryCh`, `wakeCh`), a timer | `onWatchError`, `recordPing`, `setUnauthenticated`, the loop, `RetryNow` | reads the core's records under `c.mu`; sends `/livez` through the gate |
| **Authentication gate and watch observer** `kube/request_gate.go` | `blocked`, `probeAllowed`, whether the server has answered | `RoundTrip`, `block`, `permitProbe`, `allow`, `open`, the body observer | between every client and the network; calls `recordAuthenticationFailure` back |
| **Port-forward manager** `kube/forward.go` | sessions under `m.mu` (context, tunnel handle, state, resolved pod, `checking`), one goroutine per session and Restart | `StartPort`, `Stop`, `StopAll`, `Restart`, `run`, `ReconcilePodTargets` | called by the Forwards screen and by the event bridge; dials through the snapshot of a cluster |
| **Event bridge and coalescer** `app/app.go`, `kube/watch.go` | the lossy `events` channel, per kind the first and last arrival with the folded scope and flag, one timer | `send`, `observeMsg`, `flushMsgs`, `forwardEvents` | informers to Update loop; calls `ReconcilePodTargets` |
| **Dynamic kinds and discovery** `kube/dynamic.go`, `kube/discovery.go` | the discovered kinds with their registry keys and printer columns, which CRDs were fetched or are being fetched | `refreshDiscovery`, `AssignRegistryKinds`, `ensurePrinterColumns`, `fetchPrinterColumns` | the core's generation; announces columns over the bridge |
| **Root shell** `tui/model.go`, `tui/context.go`, `tui/rebuildgate.go`, `tui/clusterwatch.go`, `app/app.go` | the rebuild gate's token, the session's cluster and Location, the last connection state, `switching`, `neverConnected`, `showingSetup`, one reader per cluster | begin and end of a rebuild, `switchContextCmd` with its rollback, `rebuildCluster`, `WatchCluster`, the handlers of `Update` | calls `SwitchContext`, `Start`, `Stop`; swaps the screens |
| **Task routing** `tui/taskrouting.go`, `tui/model.go` | the active screen, a stack of parked ones with the messages held for each | push, pop, activate, jump, `routeOwned`, `deliverHeld` | every screen |
| **Actions controller** `tui/actions` | the confirmation pending, the mutation running | propose, confirm, cancel, result | the cluster's mutators |
| **Pod logs** `tui/tasks/podlogs`, `kube/logs.go` | the stream number, the stream's state, one channel and one cancel function, the entries; per connection a goroutine with its channel; commands that read a channel | `beginStream`, `checkContainerCmd`, `connect`, `waitForStream`, `runStream`, `streamContainer`, `waitForContainerRestart` | the pod cache, the apiserver's log endpoint |
| Job actions, Helm, RBAC, exec, config and state files, tables, rendering, diagnostics | | | see `PROJECT.json` for why each is planned or left out |

**What is hard, and what makes each component correct**

* *Connection core.* Every reflector, event handler, probe, `Start` and gate callback of a context
  may run after the `SwitchContext` that replaced it. Each captured a generation and must do
  nothing if that generation is gone. Correct means: nothing recorded about the session came from
  another context; the latch never answers for a cache that is still listing; a cluster is called
  synced only with its own eager caches settled; after `Stop` nothing lands; superseded `Start`s
  and loops end.
* *Health.* Ends of watches, routine rotations, LIST failures and `/livez` answers arrive in any
  order. Correct means: green only with nothing broken; back to green once the link recovers; the
  24-hour timer of the unauthenticated phase never slept through another outage; the backoff not
  reset by watch errors.
* *Gate.* Reflectors retry for ever. Correct means: a plugin that has failed is run again only for
  a press of `r`, once, and traffic held back is shown on the header.
* *Port forwards.* `Stop` and `Restart` land anywhere inside dial, publish, `Run`, wait, resolve;
  `Close` may come before `Run`; a pod check's answer is stale when it arrives. Correct means: no
  tunnel without somebody to close it, every cancelled run ends, a check closes only the tunnel of
  the pod it asked about, a session that can forward does.
* *Bridge.* A kind that never stops changing, events folded with their scope or flag lost, a full
  channel, a switch that swallows messages. Correct means: a change is told to every screen that
  shows it, within the bound, and new columns reach the registry.
* *Discovery.* A fetch of one context ends in another; several groups serve one Kind. Correct means:
  the snapshot, its columns and the registry are the current context's, each CRD is fetched by one
  goroutine, and no kind hides another.
* *Root shell.* Two rebuilds at once, a switch that fails after the teardown, the asking screen gone
  when its rebuild fails, late messages of a replaced cluster. Correct means: one rebuild at a time,
  the label names the cluster that runs, the header catches up with the cluster, an outage does not
  discard open screens.
* *Task routing.* A chain of ticks of a parked screen. Correct means: each screen keeps exactly one
  link of its chain, and an activated screen knows the connection state.
* *Pod logs.* A key restarts the stream while the old goroutine, lines in its channel and a reader
  of it are still there; the container restarts, or goes, between two requests. Correct means: the
  screen shows the current stream only, the channel in use always has a reader, each restart is
  followed once, and a spinner ends.

## 2. The modules

| Module | Models | Lines of code it stands for |
|---|---|---|
| `ConnHealth` | the pure transitions of `ConnState` | `kube/health.go`, part of `kube/execauth.go` |
| `Cluster` (EXTENDS `ConnHealth`) | core, gate, observer, probe loop, together | `kube/cluster.go`, `health.go`, `request_gate.go`, `watch.go` |
| `MCCluster` | small instances of it | |
| `ClusterProofs`, `ClusterSafety` | lemmas, type correctness; the safety theorems | |
| `ForwardManager` | sessions, runs, tunnels, pod checks | `kube/forward.go` |
| `MCForwardManager` | small instances of it | |
| `ForwardManagerProofs` | its theorems | |
| `Discovery` | registry keys, as operators on a set of kinds | `kube/discovery.go`, `kube/kinds.go` |
| `EventBridge` (EXTENDS `Discovery`) | channel, coalescer, fetches, discovery, registry, together | `app/app.go`, `kube/watch.go`, `kube/dynamic.go`, part of `tui/model.go` |
| `ChangeFeed` | abstract: what a bridge promises, without channels or timers | |
| `MCEventBridge` | small instances of it | |
| `DiscoveryProofs`, `EventBridgeProofs` | their theorems | |
| `TaskStack` | the screens, as operators on one record | `tui/taskrouting.go`, part of `tui/model.go` |
| `RootShell` (EXTENDS `TaskStack`) | gate, switch, rebuild, readers, the root's handlers | `tui/context.go`, `rebuildgate.go`, `clusterwatch.go`, `model.go`, `app/app.go` |
| `MCRootShell` | small instances of it | |
| `TaskStackProofs` | what every operation of the task stack preserves | |
| `RootShellProofs` (EXTENDS both) | the theorems of the gate and of the screens | |
| `PodLogs` | screen, checks, goroutines, channels, readers, together with the container | `tui/tasks/podlogs/stream.go`, part of its `update.go` and `model.go`, `kube/logs.go` |
| `MCPodLogs` | small instances of it | |
| `PodLogsProofs` | its theorems | |

### `Cluster`: state and steps

The core, its health and the gate are one module because they are one monitor: `recordWatchError`,
`ping` and `noteWatchErrorLocked` change the records, the latch and the health in one critical
section of `c.mu`. **A step is one critical section of `c.mu` or of the gate's mutex, or the
outcome of one request.** Where the code unlocks between two of them, the model has two actions:
`Report`/`Deliver` for each callback (the closure's generation is captured at the first, checked
at the second), `GateSees`/`OnBlocked` for the credential callback made outside both mutexes,
`Probes`/`ProbeReturns`/`ProbeApplies` for a ping, and `StartRegisters`, `StartCaptures`,
`StartSettles`/`StartGivesUp`, `StartMarks` for the four separate parts of `Start`.

* A **client** 0, 1, ... is what one `NewClientForContext` built: clientset, gate, observer, stop
  channel. The record fields (`kindFailed`, `watchUnhealthy`, `synced`, `health.from`, ...) hold
  the client the information came from, where the code holds an error or a Boolean. That is what
  makes "from another context" a statement about the state.
* `kindInformers[k]` and `errHandler[k]` are the generations captured by the two kinds of closures
  of one informer. They differ after a read that came before `Start`: client-go refuses to replace
  the `WatchErrorHandler` of a running informer.
* A **cache key** is a resource kind at the scope it resolves to, one model value; namespaces
  and scoped factories are left out.
* `starter` holds the two goroutines that call `Start` (the launch, the switch), `loop` one health
  loop per client, with its timer: `armed`, `parked` (the 24 h delay) or `fired`.
* The environment is what client-go and the apiserver may do: fill a cache, open and end a WATCH,
  fail a request with one of `Errors`, deny a kind. A reflector is one goroutine and makes one
  handler call at a time (`Running`). `passed` holds the kinds whose request was already out when
  the gate blocked: it may still be answered, or fail again for a reason of its own.
* `Occurs` selects which rare inputs a run contains: `retry` (the `r` key), `stop`, `early_read` (a
  screen reads a kind before `Start` has registered it: the launch's `Start` runs in a goroutine of
  its own), `recover` (link and apiserver are well for good).

Abstracted: latency, texts, and durations. The 90-second connect grace is a nondeterministic
choice, so a property holds whichever side of it a failure falls on. The attempt counter
saturates at `MaxAttempt` as its delay does at `maxBackoff`.

### `ForwardManager`: state and steps

A step is one critical section of `m.mu`, one call of the dialer, resolver or tunnel, or one
unlocked `ctx.Err()` check; those checks are actions (`LoopTop`, `AfterRun`) because what follows
them is another critical section. A run `<<s, n>>` holds the n-th context of session `s`, and it
is cancelled once the session is gone or has a newer context. `closing` holds the `Close` calls
made after unlocking. The user's calls are made one at a time by `Update`, which waits for their
`Close`. `CloseTunnel` is sticky as `spdyTunnel.closed` is; `Connect` makes the connection first
and then binds the local port, which the tunnel of the replaced run may still hold.

Each session has a local port of its own. Retry delays, the attempt counter, activity times and
the one-slot notification channel are left out. Tunnel handles are reused once nobody refers to
them, so `MaxTunnels` bounds the live ones only.

### `EventBridge`, `Discovery` and `ChangeFeed`: state and steps

A step is one send to the channel, one turn of the bridge's `select`, one `program.Send` together
with the root's handling of it, one critical section of a fetch, or one part of a switch. Time is
counted in ticks; `pending` holds the ages of a kind's first and last event, where the code holds
their times, so the state space is finite. The bridge is prompt: no tick passes while its timer
has fired or a flush is half sent. A tick may fall between any two other steps.

* A **scope** is a namespace or `Everywhere`, the code's `""`. A **read** is what a screen shows:
  a kind, or one derived from another (Helm releases from Secrets, port-forwards from Pods), at a
  scope. `stale` is history: the reads whose data changed since their screens were last told.
  A change makes every affected read stale; a message untells exactly those `Affects` names, and
  none of the screens' while `switching` swallows it.
* A **snapshot** is the generation it was taken of, its kinds, and per kind the generation its
  columns came from (`Neutral` before). `registry` is the snapshot the root's registry was built
  from. `dropped` is history: an announcement of columns found the channel full.
* The launch's discovery and a switch are sequences of steps, with `CRDsDiscoveredMsg` and
  `SwitchContextMsg` as their last; a switch may be refused, may roll back, and a list of CRDs may
  fail at any point.
* `FetchAnnounces` joins the check and the send of `notifyColumnsArrived`. A switch between the
  two would leave one message more in the channel, which rebuilds the registry from the snapshot it
  would have been rebuilt from anyway.

`ChangeFeed` has one variable, the stale reads. Reads may become stale at any time; telling one
takes it out; a read may not leave the set unless some read is told; every stale read is told in
the end. `EventBridge` implements it with `stale` as the mapping (`ChangesAreShown`): this is where
the folded scope, the full channel with the informers' resync, the swallowed messages and the
reload after a switch come together.

Registry keys are records `[kind, group]`, the bare Kind without a group. Groups are numbers in
their lexical order. The tables of built-in, owned and substituted kinds are constants.

### `RootShell` and `TaskStack`: state and steps

A step is one message handled by `Update`, one blocking part of a command (`SwitchContext`, `Start`,
`Stop`, `build`), one report of a cluster, or one read of its channels. `ops` holds the commands
running and `results` their messages; every interleaving of those with the clusters is explored.

* A **cluster** is what one `NewClusterForContext` built: the context it is on, whether it is
  built, live or stopped, its phase, its connection channel, whether it was `reached`, one bit for
  "an event is in the channel", and its reader: the launch's bridge, a `WatchCluster` drain, none.
  `taken` is the message its reader has sent and `Update` has not handled.
* `root` holds the session's cluster, the context of its Location, and the shell's three flags.
  `strayed` is history: clusters whose rollback could not build the old context's client, so that
  Location and cluster disagree until the next switch.
* A **screen** has a routing identity, a kind (`browse`, `setup`, `transient`, any other is
  `detail`), the connection state it last saw, and whether it waits for a rebuild. `ui.flight` holds
  the messages its commands still have to deliver: one self-rescheduling tick per screen, and loads
  whose result makes the screen open another.
* `DeliverHeld` is a fold over the held messages, as the code's loop is, and hands the rest back as
  soon as the screen has opened another.

A session's budget (`Sessions`) says how many outages, switches, rebuilds and screens it has, and
whether objects arrive. Pings, reads and ticks are not bounded.

Not in it: `Reload` of a resumed screen and the reads it cancels (no property is about them),
`WithInitialPush` (one more parked screen at launch), sizes, palettes, the registry (`EventBridge`).

### `PodLogs`: state and steps

A step is one message handled by the screen, one read of the pod cache, one receive of
`waitForStream`, one send or request of the goroutine of a connection, or one thing that happens
to the container.

* `connect` starts a goroutine, a channel and a reader; the s-th connect has goroutine s and
  channel s. `streams[s]` holds both, with the `streamID` the goroutine was given; `current` and
  `cancel` are the ones `m.streamCh` and `m.streamCancel` belong to. A reader takes message after
  message until its drain ends (`Receives`, `Delivers`), and its batch is then handled with its
  tail (`Handles`), which says which channel is read next: `m.streamCh` of that moment, which may be
  another than the one the batch came from.
* `streamContainer` is a program counter: count the restarts, ask for the history, again without a
  window if it left nothing, tell an empty one, follow from one second back and drop what was
  shown, poll for a restart, follow again behind a marker; at the end the last word, then
  `close`. A request fails, or starts anywhere its window or tail leaves, or (the follow with its
  one-second overlap) anywhere in the log.
* A **line** is `<<r, k>>`, line k of the container's run r; `<<r, 0>>` is the marker
  "container restarted". The **container** starts, writes, crashes, restarts and is deleted; `log`
  holds how many lines each run has written. The cache shows it without delay.
* A session's budget (`Sessions`) says how often each thing from outside happens.

A change of container and of window are one action (`BeginStream`). Not in it: texts, the layout,
filters and scrolling, the eviction of old lines, the line rate, `ctrl+q`, delays, and a screen
covered by another.

## 3. The runs

Every passing run uses `CHECK_DEADLOCK FALSE` because these systems may stop: the user does
nothing, all loops have exited. The times are for two workers.

| Run | Instance | Checks | Size |
|---|---|---|---|
| `session` | one client with a plugin, two kinds, one of them read later, credential failures, `r`, `Stop`, a call in flight | `TypeOK`, `BlockedIsShown`, `ProbingGoesOn`, `LatchIsSound`, `OneProbePerPress`, `GreenOnlyWhenReady`, `NothingLandsAfterStop` | 2.8 M states, 2 min |
| `switch` | one `SwitchContext`, plugin to static credential, the launch's `Start` in flight | `OnlyTheCurrentCluster`, `SyncedMeansSettled`, `OneLoopPerClient` | 4.4 M, 2 min |
| `recovery` | fairness, a recovering link, refused connections, denials, `Stop` | `Recovers`, `SpinnersEnd` | 137 k, 1 min |
| `leaving` | fairness of the `Start`s and loops only; one `SwitchContext`, `r`, `Stop` | `SupersededStartReturns`, `LoopsEnd` | 109 k, 1 min |
| `forwards` | fairness; one session, one Restart, two pods, a fault, a pod change | `TypeOK`, `NoLeakedTunnel`, `ChecksCloseTheirPod`, `CancelledRunsEnd`, `Reconnects` | 850 k, 2 min |
| `events` | fairness; window 2, bound 3 ticks, a channel of one, six sessions: two namespaces or two kinds changing, columns fetched, switches with rollbacks | `TypeOK`, `WaitIsBounded`, `ColumnsOnTheirWay`, `OneFetchPerKind`, `ColumnsOfThisContext`, `RegistryOfThisContext`, `KeysAreUnambiguous`, `ChangesAreShown` | 48 k, 30 s |
| `shell` | fairness; two clusters, two contexts, a connection channel of one, seven sessions: screens alone, screens with an outage, two switches with events, a switch and a rebuild, launches without a kubeconfig | `TypeOK`, `OneRebuild`, `LabelIsTruth`, `DrainGoesOn`, `ConnReplay`, `ChainsSurvive`, `StoppedStaysStopped`, `ScreensStay`, `ConnCatchesUp` | 207 k, 1 min |
| `logs` | fairness; two connections, two checks in flight, a channel of two, eight sessions: a restart, a key, esc, a parked stream, a deleted pod, an ended context, a dropped connection, an unreadable restart count | `TypeOK`, `EntriesAreTrue`, `ChannelHasItsReader`, `LoadingEnds` | 365 k, 1 min |

The other four runs each refute one sentence of the source (section 5).

**Why these bounds are enough to be interesting.** One kind already exhibits every record, because
the records of different kinds meet only in the conjunctions `Sweep` and `Ready`; `session` has two
for those. One switch gives two contexts, and any number of older ones behaves like the older of
the two because staleness is one comparison. One callback in flight races `Start`, the
probe, the switch, `Stop` and the gate. `session` leaves out what would multiply its states:
two callbacks overtaking each other, a read before `Start` (`v_spinner.cfg` has it), timeouts and
denials (`recovery` and `v_forbidden.cfg` have a failure of each sort). Its properties, and those of
`switch`, are the ones the theorems below prove with all of these and no bound on any. In
`leaving`, the switch is to the second of two contexts, before, during or after either `Start`,
and the replaced loop's wake and retry tokens are its successor's too; failures are left out,
because neither a `Start` nor a loop needs one to be cut short, and none keeps it from it.
No property reads more of the attempt counter
than that it saturates, so `MaxAttempt` is 1. In `forwards`, two runs of
a session are the replaced one and its replacement; with one session nothing is lost that the code
could mix up, since sessions share only `m.mu` and no two of them share a port. Two pods let a
Service move; one lost connection and one pod change can be placed at any point. In `events`, a
bound that is not a multiple of the window lets each of the two be the earlier; a channel of one is
full as soon as a message is in it, and a larger one only delays what a drop does. Three
generations are the launch, a target and a rollback. The kinds served cover each branch of
`AssignRegistryKinds`: a clash without an owner, one with, a built-in name and a substituted one.
In `shell`, a connection channel of one drops a state whenever two are reported before a read, the
hardest case; the run also passes with two (the code has eight). Two clusters are the one replaced
and its replacement; two switches let the second start before the first has landed, which the gate
must refuse. The sessions split the budgets because their product is large; each hazard is in one.
In `logs`, two connections are the superseded one and its successor, or the two that one stream can
get (section 5); two checks are an answer under way and a newer question. A channel and a batch of
two make both a full channel and a batch with a tail possible.

**Fairness and its reasons** (`Fairness` in each module). Weak fairness: goroutines run; a request
ends, because each has a client timeout; client-go's reflector tries again for ever; a closed
tunnel's `Run` returns. Strong fairness for the arms of the health loop's `select`: Go picks among
ready cases at random, so an arm that is ready again and again is taken in the end, while it may
be passed over each time another is. `leaving` has a specification of its own with less of it
(`ContextGoroutines`): the `Start`s and each loop's beginning, its probes' returns and its exit. No
request has to succeed, and no reflector, tick or token to be served, for a context that was left
to come to rest. Nothing is assumed of the user, of changes and failures, and
nothing makes the link recover. In `EventBridge`, the bridge's goroutine and the Update loop run
and discovery and switches end by their timeouts (weak); each cache's resync, which client-go
repeats every period, is strongly fair at moments the channel has room, which the bridge, never
waiting long, makes recur. Without the resync a dropped message is lost, as the comment at
`kube/watch.go:354` concedes. In `RootShell`, the probe loop pings unless it is parked on an
authentication failure, commands run and messages are handled (weak); a read of the connection
channel is strongly fair, again because `select` is random. `Recovers` and
`SpinnersEnd` speak of a link that has recovered. In `PodLogs`, checks, readers, goroutines and
messages are weakly fair: a check is a cache read with a timeout, and a goroutine is fair only in
the steps its guards allow, so one whose channel is full, or which polls for a restart that never
comes, may wait for ever. Nothing is assumed of the user and of the container.

## 4. The proofs

Every invariant and every safety action property the runs check is proved by TLAPS for every value
of the constants (any kinds, any number of switches, sessions, runs and tunnels, any bound on
callbacks in flight, any window and channel size, any number of clusters, screens and log
connections), under the modules' `ASSUME`s, which say that the constants have the right kind, that
the window is no longer than the bound, and that the substitution table is one-to-one:

| Module | Theorem | Statement |
|---|---|---|
| `ClusterProofs` | `TypeCorrect` | `Spec => []TypeOK` |
| `ClusterSafety` | `LatchCorrect` | `Spec => []LatchIsSound` |
| | `GenerationCorrect` | `Spec => []GenerationIdentifiesClient` |
| | `CurrentClusterCorrect` | `Spec => []OnlyTheCurrentCluster` |
| | `SyncedCorrect` | `Spec => [](CurrentStartWaitsForEager /\ SyncedMeansSettled)` |
| | `BlockedCorrect`, `ProbingCorrect` | `Spec => []` of `BlockedIsShown`, `ProbingGoesOn` |
| | `OneProbeCorrect`, `OneLoopCorrect`, `GreenCorrect`, `StopCorrect` | `Spec =>` the action properties `OneProbePerPress`, `OneLoopPerClient`, `GreenOnlyWhenReady`, `NothingLandsAfterStop` |
| `ForwardManagerProofs` | `TypeCorrect` | `Spec => [](TypeOK /\ HoldsTunnel)` |
| | `NoTunnelIsLeaked`, `ChecksCloseTheirOwn` | `Spec => []` of `NoLeakedTunnel`, `ChecksCloseTheirPod` |
| `DiscoveryProofs` | `KeysAreUnique`, `NothingIsHidden` | for every set of discovered kinds, the two halves of `KeysAreUnambiguous` |
| `EventBridgeProofs` | `TypeCorrect` | `Spec => []TypeOK` |
| | `WaitsAreBounded` | `Spec => []WaitIsBounded` |
| | `FetchedOnce`, `NoForeignColumns`, `RegistryIsOfThisContext`, `KeysStayUnambiguous`, `ColumnsArrive` | `Spec => []` of `OneFetchPerKind`, `ColumnsOfThisContext`, `RegistryOfThisContext`, `KeysAreUnambiguous`, `ColumnsOnTheirWay` |
| | `BridgeStepsAreFeedSteps` | `Spec => Feed!Init /\ [][Feed!Next]_stale` |
| `RootShellProofs` | `ShellTypeCorrect` | `Spec => []TypeOK` |
| | `OneRebuildAtATime`, `LabelStaysTrue`, `DrainsGoOn` | `Spec => []` of `OneRebuild`, `LabelIsTruth`, `DrainGoesOn` |
| | `ConnIsReplayed`, `ChainsGoOn` | `Spec => []` of `ConnReplay`, `ChainsSurvive` |
| | `StopIsTerminal`, `ScreensAreKept` | `Spec =>` the action properties `StoppedStaysStopped`, `ScreensStay` |
| `PodLogsProofs` | `TypeCorrect` | `Spec => []TypeOK` |
| | `OnlyCurrentShown` | `Spec => []OnlyTheCurrentStream`, the first half of `EntriesAreTrue` |
| | `ChannelKeepsItsReader`, `EntriesStayTrue` | `Spec => []` of `ChannelHasItsReader`, `EntriesAreTrue` |

* *Types.* `TypeOK` is inductive; `ClusterProofs` has a lemma per handler that several actions use.
* *Latch.* With the types, `LatchIsSound` is inductive: a kind is registered only in a step that
  drops the latch, the latch is raised only by a sweep, and `hasSynced` is never taken back under
  the same client.
* *The current cluster.* `OnlyTheCurrentCluster` alone is not inductive: nothing in it says that a
  callback which passes the generation check comes from the client in use. The strengthening is
  `GenerationIdentifiesClient`: no captured generation is ahead of `c.generation`, and one that
  equals it belongs to the current client. A `SwitchContext` preserves it because it bumps the
  generation in the step that changes the client. The
  informers' closures need no client of their own in it: they are forgotten with the client.
  What the proof does *not* get from the generation is the credential callback: it carries none and
  is dropped by comparing gates (`OnBlocked`).
* *Synced.* `SyncedMeansSettled` depends on what a `Start` in flight waits for, and that is read
  in a separate critical section (`StartCaptures`), where a switch may have left it nothing. The
  strengthening `CurrentStartWaitsForEager` says that a `Start` whose generation is current found
  its cluster started, waits for all of `Eager`, and, once settled, has them settled. It rests in
  turn on `GenerationIdentifiesClient`, on `Stale` starts being unable to mark, and on settledness
  being stable under one client.
* *The gate and the probe loop.* `BlockedIsShown` and `ProbingGoesOn` share a strengthening
  (`GateInv`): every grant was asked for, a static credential's gate never blocks, a client that is
  not built yet has an open gate and no loop, and the current client has a loop only once it was
  started. The fact proved of the loop is stronger than `ProbingGoesOn`: a loop that sleeps on its
  24-hour timer does so under a header that asks for credentials (`ParkedIsShown`), with no need of
  a wake token or of `Stop` to excuse it. `OneProbePerPress` and `OneLoopPerClient` follow, and
  `GreenOnlyWhenReady` from the sweep each green step makes. `NothingLandsAfterStop` needs that
  after `Stop` no captured generation equals `c.generation` (`StoppedIsStale`).
* *Tunnels.* `NoLeakedTunnel` is inductive once the types say which steps hold a handle
  (`HoldsTunnel`: a run holds one exactly from the dial to the end of the tunnel's `Run`).
  `ChecksCloseTheirPod` is about a handle captured in one critical section and closed after it, and
  needs to know where a tunnel goes: a session's handle to the pod it shows as resolved
  (`HandlesAreTrue`), a run's tunnel to the run's own pod (`RunsAreTrue`).
* *Registry keys.* Two kinds can share a key only if `RegistryKind` gives both the same one, or if a
  qualified key of one equals a derived key of the other. The first is a clash with one winner; the
  second cannot be, because a key `RegistryKind` qualifies carries the kind's own group.
* *The bridge's bound.* `WaitIsBounded` needs to know that the timer fires in time: while something
  is pending and nothing is being sent, the time left is at most what is left to each kind's bound.
  Every step that changes `pending` sets the timer again, and no tick passes when it is 0.
* *One fetch per kind.* The strengthening ties the markers to the goroutines: a fetch of the current
  generation that has not cleared its marker holds it, and no two of them hold one key. A switch
  starts with no fetch of its generation, and clears of older ones are gated.
* *Columns on their way.* Columns that are not in the registry yet may be in any of six places.
  Every step that takes it from one puts it in another, or sets `dropped`; the proof goes through
  the places one by one.
* *Refinement.* A message takes reads out of `stale` only with a read told; every other step adds
  to it or leaves it, except the landing of a switch, which tells every screen at once.
* *One rebuild.* The invariant (`ShellInv`) counts the holders: at most one command, and of commands
  and messages under way exactly one carries the gate's token, unless the gate is open. From it
  follow the others: a rebuild's old cluster is the session's and no switch is working on it (so a
  stopped cluster stays stopped), a fresh one is nobody else's, and a command's `from` is the
  Location that was true when the gate was taken. The label is true between holders, and while one
  is at work the invariant says how far it has come.
* *The screens.* `ChainsSurvive` counts, and counts do not add up by themselves while messages are
  taken out of a parked screen's entry and delivered one by one. `Whole(u, id, R)` says of a record
  of screens what holds between two deliveries: every screen has one link of its chain, in flight,
  held, or, for screen `id`, at one of the positions `R` of messages taken out and still to come;
  identities are at most `last` and differ; the active screen shows what was last heard, and until
  anything was, no parked one shows anything (so a return replays the right state); the screen at
  the bottom is not a transient one. Each operation of `TaskStack` preserves `Whole`, a delivered
  link leaves `R` in the step that arms or holds it, and a return ends with `R` empty.
  `DeliverHeld` is a fold over a sequence of any length: `DeliverSteps` unfolds it into one record
  per message, from the definition of the community modules' fold, and the induction over those
  records is made on a *set* of numbers (`InductOver`, from the library's theorem on minimal
  elements, which takes no operator). `ScreensStay` needs, beside it, that a return covers what it
  opens (`Covered`: a screen built meanwhile has another under it) and that a switch under way leads
  away from the session's context (`LeadsAway`).
* *The channel's reader.* `ChannelHasItsReader` looks at a reader's message, and whether its
  handler reads again depends on which stream is current. The strengthening (`Wired`) does not: a
  channel is closed in the step that sends its last word, so that word is the last thing queued; a
  reader that came away with it, or with the end, left the channel closed and empty; and the channel
  in use is in that state or in the hands of a reader. Every handler that gives up reading had the
  last word, or the end.

* *Markers.* That a restart is marked once is a fact about two entries that may have come through
  one goroutine, one channel and several readers. The strengthening follows each marker through the
  places it can be (the entries, a reader's lines, a channel): it is at one of them; a goroutine
  that knows its container's restart count marks distinct restarts, none above the count it has
  reached, below it as long as its next marker is still to be sent, and none before it follows.

Only model-checked: liveness, the fairness half of the refinement of `ChangeFeed` included
(`Recovers`, `SpinnersEnd`, `SupersededStartReturns`, `LoopsEnd`, `CancelledRunsEnd`, `Reconnects`,
`ChangesAreShown`, `ConnCatchesUp`, `LoadingEnds`). Liveness under fairness is outside what the
prover reasons about and stays with TLC.

## 5. Where the code and its text differ

| Run | The source says | What happens |
|---|---|---|
| `forbidden_kind_keeps_offline` | `kube/health.go:269` "A 403 is not a connection fact" | A kind whose 403 is recorded counts as settled in `recordWatchError`. Its next LIST failure of another sort enters it in `watchUnhealthy`; only an established WATCH removes it, which a forbidden kind never gets. The session stays Reconnecting after the link has recovered. |
| `spinner_after_early_read` | `kube/cluster.go:723` "can never spin forever"; `:1224` the second bump is "redundant but harmless" | A read before `Start` captures the generation `Start` then leaves. Its `WatchErrorHandler` cannot be replaced, its 403 is dropped as stale, and `KindSynced` stays false. |
| `unauthenticated_with_open_gate` | `kube/health.go:22` "there is no usable credential" | The callback is made outside the mutexes. A probe that succeeds first opens the gate; the late callback then sets the phase whose timer is 24 h. |
| `gone_pod_while_checking` | `kube/forward.go:696` a "missing/terminating Pod closes the active tunnel" | A flush skips a session whose check is in flight. If that check was answered before the deletion, nobody asks again. |

Smaller observations, without a run: a failure already in flight takes back the grant of a press
of `r` (`block` resets `probeAllowed`), so that press goes without a request; `SwitchContext` on a
stopped cluster gives it a new stop channel, although `Stop` is described as terminal. kute
stops a cluster only on its way out. `run` of a port-forward checks `ctx.Err()` without `m.mu`
(`kube/forward.go:644`, `:651`): a `Restart` whose new run publishes in between is overwritten with
Reconnecting, until its tunnel ends.

The probe's own timer reset and the wake token its result leaves are redundant: a model in which
the reset uses the state before the probe still satisfies `ProbingGoesOn`. What breaks it is a
timer parked for other outages than the credential's.

Of the bridge and the root shell, found while modelling them, and stated by no run (the models
contain the behaviour, and the properties name the exception where they meet it):

* `tui/model.go:961` returns without the command that reads the next message when an event arrives
  while `switching` is set. For a cluster that came with a rebuild that command is the only reader,
  so its channels are never read again and the header freezes, although `tui/clusterwatch.go:31`
  says one call "keeps the cluster's channels draining until done closes". In `RootShell` this is
  `NotRearmed`; `DrainGoesOn` and `ConnCatchesUp` except it.
* `tui/model.go:456`: both outcomes of a switch "reload"; a refused one, and one that failed before
  the teardown, reload nothing, and what was swallowed meanwhile waits for the next resync
  (`LandSwitch`, first disjunct; `ChangesAreShown` holds because of the resync).
* A second switch that is refused sends a `SwitchContextMsg`, which clears `switching` while the
  first one is still running: the events it should hold back reach the screens again.
* A successful switch wipes the root's connection state when its message is handled. An
  authentication failure of the new cluster that was heard before that is gone, and is repeated only
  by a press of `r`. `ConnCatchesUp` is stated for the phases that pings repeat.
* A `ColumnsArrived` message that found the channel full is repeated by no resync, unlike what
  `kube/watch.go:354` says of dropped messages in general; and the deletion of a kind's last object
  leaves nothing to resync (`ColumnsOnTheirWay` excepts `dropped`; the model's resync has an object).
* `kube/cluster.go:1280` resets `reached` so that an unreachable target can bring the setup screen,
  but `SwitchContextMsg` does not set `neverConnected` again, so it cannot. Switching from a setup
  screen leaves `showingSetup` set: the next Connected discards the open screens (`ScreensStay`
  excepts it).
* A rollback that fails leaves Location on the old context and the cluster on the target
  (`strayed`).
* A connection message of a replaced cluster that was under way is applied as the new one's, until
  the next ping.
* `forwardEvents` is the only caller of `ReconcilePodTargets`, and is bound to the launch's cluster:
  after a reconnect no pod change closes a tunnel.
* A confirmed write takes `c.clientset` when it executes (`kube/mutate.go:345`), without the lock and
  without a generation. Keys are not swallowed while `switching` is set, so a write confirmed on
  the old screen during a switch can reach the target context; a job's replacement reads the
  field again between its steps (`kube/mutate.go:602`). Nothing here models it yet (§7, 6).

Of the pod logs, in the same way:

* A parked screen asks again on every Pod event until the first line arrives. Two events before it
  give two ready checks of one stream and two `connect`s; the second drops the first one's cancel
  function. Both goroutines write lines of the current stream, and the first is not "cancelled
  (cancelStream, on esc/quit/beginStream)", as `tui/tasks/podlogs/stream.go:239` has it, but only
  with the cluster context.
* A reader of a superseded channel goes on with the current one (`update.go:83`, `:86`), so the
  current channel can have two readers, and their batches may be handled in either order:
  `waitForStream` (`stream.go:198`) keeps the order of messages only within one reader.
* The final send of `runStream` has no `select`. A goroutine that ends while its channel is full and
  unread, after `esc`, waits for ever.
* The restart count is read before the history (`stream.go:328`). A restart between the two is taken
  for a later one: the new run, already shown, comes again in full behind its marker.
* A follow connection that is dropped is reopened only when the container restarts, unless the
  count cannot be read; `stream.go:16` says a dropped connection is covered.
* The check's answer and the Pod event it should have seen can cross: a screen that parks on an
  answer from before the event stays parked until the next event (`PodChanged` is taken only while
  parked). `LoadingEnds` counts a parked screen as one that has been told.

## 6. Not modelled, and why

`PROJECT.json` has one line per component. Left out for good: rendering, tables, command texts,
configuration files, self-update and crash reports (data or pure I/O, no protocol between actors);
exec and node shells (external processes). Within the modelled modules: scopes and namespaces of
cache keys in `Cluster`, the metrics client, ports, messages and durations, and the starting of
dynamic and Helm informers, whose callbacks share the records modelled there. What remains of the
program (tables, screens, mutators, fixtures) is nine tenths of its lines, and mostly turns objects
into text.

## 7. Plan

In the order of what a failure would cost:

1. **`ConnHealth`, `Cluster`**: done; all safety proved.
2. **`ForwardManager`**: done; all safety proved.
3. **`ChangeFeed`, `Discovery`, `EventBridge`**: done; all safety proved, with the safety half of
   the refinement.
4. **`TaskStack`, `RootShell`**: done; all safety proved.
5. **`PodLogs`**: done; all safety proved.
6. The actions controller: one confirmation at a time, a result that arrives after the screen or
   the context has changed, a write that meets a switch. The job re-run, whose replace sequence can fail in the middle.
7. Pure operators: RBAC rule evaluation, the schedule of a re-run job.

Proofs to come: that the steps of `RootShell` give `Cluster` the one switch at a time it assumes,
and that `ForwardManager` and `PodLogs` implement abstract specifications of a session and of a
log, as `EventBridge` implements `ChangeFeed`.
