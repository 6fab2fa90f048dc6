--------------------------- MODULE MCEventBridge ---------------------------
(* Small instances of EventBridge: two groups that serve a Kind of the     *)
(* same name, one more under a built-in name, and a substituted one.       *)
EXTENDS EventBridge

CONSTANTS n1, n2

TwoGroups     == 0..1
SomeKinds     == {"Cluster", "Service", "HelmRelease", "FluxHelmRelease", "Gateway"}
BuiltinKinds  == {"Service", "HelmRelease", "FluxHelmRelease"}
GatewayOwner  == [k \in {"Gateway"} |-> 1]
Flux          == [group |-> 0, kind |-> "HelmRelease"]
FluxKey       == [dk \in {Flux} |-> "FluxHelmRelease"]

Capi == [group |-> 0, kind |-> "Cluster"]
Cnpg == [group |-> 1, kind |-> "Cluster"]
Both == {Capi, Cnpg, Flux} \cup {[group |-> g, kind |-> "Gateway"] : g \in 0..1}
          \cup {[group |-> 0, kind |-> "Service"]}

(* The launch context serves both groups, the target only the second. *)
ServedHere == [g \in 0..2 |-> IF g = 1 THEN {Cnpg} ELSE Both]
CuratedKinds == {Flux}

Secret(n) == [kind |-> "Secret", scope |-> n]
Pods      == [kind |-> "Pod", scope |-> Everywhere]
Crds      == [kind |-> CRD, scope |-> Everywhere]
Widgets   == BareKind("Cluster")

(* Two namespaces changing through a switch; two kinds changing while the  *)
(* bridge folds; a churning kind while a custom kind is opened; two custom *)
(* kinds opened at once; one opened through a switch and its rollback; the *)
(* forwards' pods through a switch.                                        *)
SomeSessions ==
  {[changes |-> {Secret(n1), Secret(n2)}, opened |-> {}, switches |-> 1],
   [changes |-> {Secret(n1), Pods}, opened |-> {}, switches |-> 0],
   [changes |-> {Crds}, opened |-> {Widgets}, switches |-> 0],
   [changes |-> {}, opened |-> {Widgets, QualifiedKind("Cluster", 1)}, switches |-> 0],
   [changes |-> {}, opened |-> {Widgets}, switches |-> 1],
   [changes |-> {Pods}, opened |-> {}, switches |-> 1]}

SomeCaches == {Secret(n1), Secret(n2), Pods, Crds}
SomeReads ==
  {Secret(n1), Secret(n2), Secret(Everywhere), Pods, Crds,
   [kind |-> "HelmRelease", scope |-> n1], [kind |-> "Tunnel", scope |-> Everywhere]}
TheKinds == {"Secret", "Pod", CRD}
TwoNamespaces == {n1, n2}
=============================================================================
