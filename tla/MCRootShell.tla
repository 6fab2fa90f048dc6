---------------------------- MODULE MCRootShell ----------------------------
(* Small instances of RootShell.                                          *)
EXTENDS RootShell

CONSTANTS here, there

TwoContexts == {here, there}

Session(launched, trouble, traffic, outages, switches, rebuilds, screens) ==
  [launched |-> launched, trouble |-> trouble, traffic |-> traffic, outages |-> outages,
   switches |-> switches, rebuilds |-> rebuilds, screens |-> screens]

(* Three screens opened, left and jumped from; two of them through an      *)
(* outage; two switches with events and an outage; a switch and a rebuild  *)
(* of an unreachable cluster; a setup screen left while it waits for its   *)
(* rebuild; sessions launched without a kubeconfig.                        *)
SomeSessions ==
  {Session(TRUE, {}, FALSE, 0, 0, 0, 3),
   Session(TRUE, {Unauthenticated}, FALSE, 1, 0, 0, 2),
   Session(TRUE, {Reconnecting}, TRUE, 1, 2, 0, 0),
   Session(TRUE, {Reconnecting}, FALSE, 1, 1, 1, 0),
   Session(TRUE, {Unauthenticated}, FALSE, 1, 0, 1, 1),
   Session(FALSE, {Reconnecting}, TRUE, 1, 1, 1, 0),
   Session(FALSE, {Reconnecting}, FALSE, 1, 0, 2, 0)}
=============================================================================
