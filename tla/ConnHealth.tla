----------------------------- MODULE ConnHealth -----------------------------
(***************************************************************************)
(* The transition logic of kute's connection health (internal/kube/        *)
(* health.go): what one watch error, one /livez answer or one credential   *)
(* failure makes of the ConnState the header, the 4a banner and the        *)
(* mutating-verb gate read.                                                *)
(*                                                                         *)
(* A ConnState is [phase, attempt, from].  `from` stands for the error     *)
(* text: the client (one per kubeconfig context built) that reported the   *)
(* outage, NoClient while Connected.  Latency and timestamps are left out; *)
(* NextRetryAt is represented by ProbeTimer, which only tells a timer that *)
(* will fire from the 24h timer of the unauthenticated phase.              *)
(***************************************************************************)
EXTENDS Integers

CONSTANTS
  MaxAttempt    (* Bound: the attempt counter saturates here, as the delay *)
                (* it selects saturates at maxBackoff.                     *)

ASSUME AttemptAssumption == MaxAttempt \in Nat \ {0}

NoClient == -1

Phases == {"connected", "reconnecting", "unauthenticated"}

(* What a request to the apiserver can come back with.  "refused" stands   *)
(* for every failure that is none of the others (DNS, TLS, reset, 5xx);    *)
(* "gated" is errAuthenticationGated, made by the gate without a request.  *)
Failures == {"timeout", "refused", "forbidden", "auth", "gated"}

IsAuthenticationError(err) == err \in {"auth", "gated"}
IsPermissionError(err)     == err = "forbidden"
IsTimeout(err)             == err = "timeout"

Offline(s) == s.phase \in {"reconnecting", "unauthenticated"}

Connected == [phase |-> "connected", attempt |-> 0, from |-> NoClient]

NeedsReauth(err, static) == IsAuthenticationError(err) /\ ~static

Unauthenticated(from) == [phase |-> "unauthenticated", attempt |-> 0, from |-> from]

BumpedOnce(n) == n + 1   (* Fault: the attempt does not saturate. *)
Bumped(n) == IF n < MaxAttempt THEN n + 1 ELSE MaxAttempt

Reconnecting(n, from) == [phase |-> "reconnecting", attempt |-> Bumped(n), from |-> from]

(* The 90s window is abstracted to `recent`: whether the last burst of     *)
(* initial LISTs began less than connectGrace ago.                         *)
InConnectGrace(synced, reached, err, recent) ==
  ~synced /\ reached /\ IsTimeout(err) /\ recent

(* onWatchError: an outage already reported is left to the ping loop.      *)
OnWatchError(s, err, static, synced, reached, recent, from) ==
  IF Offline(s) THEN s
  ELSE IF NeedsReauth(err, static) THEN Unauthenticated(from)
  ELSE IF IsPermissionError(err) \/ InConnectGrace(synced, reached, err, recent) THEN s
  ELSE Reconnecting(s.attempt, from)

(* recordPing's success half: /livez answering does not end an outage      *)
(* while a cache or a watch is still missing, and keeps the outage's own   *)
(* message unless the outage was a credential that works again.            *)
OnPingAnswered(s, synced, from) ==
  IF ~synced /\ Offline(s)
    THEN Reconnecting(s.attempt, IF s.phase = "unauthenticated" THEN from ELSE s.from)
    ELSE Connected

(* recordPing's failure half.                                              *)
OnPingFailed(s, err, static, synced, reached, recent, from) ==
  IF NeedsReauth(err, static) THEN Unauthenticated(from)
  ELSE IF InConnectGrace(synced, reached, err, recent) THEN s
  ELSE Reconnecting(IF s.phase = "reconnecting" THEN s.attempt ELSE 0, from)

(* Fault: every outage waits for the user.                                 *)
ParkedOffline(s) == IF Offline(s) THEN "parked" ELSE "armed"

(* nextProbeDelay: only RetryNow wakes the unauthenticated phase.          *)
ProbeTimer(s) == IF s.phase = "unauthenticated" THEN "parked" ELSE "armed"
=============================================================================
