----------------------------- MODULE MCCluster -----------------------------
(* Small instances of Cluster: one eager kind (the Pod cache) and one that *)
(* a screen reads later.                                                   *)
EXTENDS Cluster

CONSTANTS pod, widget

OneKind  == {pod}
TwoKinds == {pod, widget}
=============================================================================
