----------------------------- MODULE MCPodLogs -----------------------------
(* Small instances of PodLogs.                                             *)
EXTENDS PodLogs, TLC

Nothing == [what \in {"press", "esc", "restart", "line", "gone", "event", "fault", "drop",
                      "end"} |-> 0]
Some(what) == what :> 1
Twice(what) == what :> 2

(* A container that restarts; a stream restarted by a key, or left; a      *)
(* parked stream; a pod that goes; a context that ends; a dropped          *)
(* connection; and a restart count that cannot be read.                    *)
SomeSessions ==
  {Some("restart") @@ Some("line") @@ Nothing,
   Some("press") @@ Some("line") @@ Nothing,
   Some("esc") @@ Some("event") @@ Nothing,
   Some("event") @@ Some("line") @@ Some("fault") @@ Nothing,
   Some("gone") @@ Some("line") @@ Some("fault") @@ Nothing,
   Some("end") @@ Some("line") @@ Nothing,
   Twice("line") @@ Some("drop") @@ Nothing,
   Some("restart") @@ Some("fault") @@ Nothing}
=============================================================================
