----------------------------- MODULE ChangeFeed -----------------------------
(***************************************************************************)
(* What the event bridge promises the screens, whatever channels, timers   *)
(* and folding it uses: a read whose data changed is stale until a screen  *)
(* showing it is told, no step hides a change while it tells another, and  *)
(* no read stays stale forever.                                            *)
(***************************************************************************)
CONSTANT Reads  (* What a screen can be reading: a kind at a namespace.   *)

VARIABLE stale  (* reads that changed and whose screens were not told     *)

Init == stale = {}

Change == stale \subseteq stale' /\ stale' \subseteq Reads

Tell(r) == r \in stale /\ stale' \in SUBSET (stale \ {r})

Next == Change \/ \E r \in Reads : Tell(r)

Fairness == \A r \in Reads : WF_stale(Tell(r))

Spec == Init /\ [][Next]_stale /\ Fairness
=============================================================================
