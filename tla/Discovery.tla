----------------------------- MODULE Discovery -----------------------------
(***************************************************************************)
(* The registry keys of discovered kinds (internal/kube/discovery.go and   *)
(* kinds.go).  The kind registry is keyed by one name per kind, while      *)
(* clusters serve the same Kind in several API groups and under the names  *)
(* of kute's own kinds.  A snapshot of discovery is a set of [group, kind] *)
(* pairs, what dedupeDiscovered leaves, and Assign names each of them.     *)
(*                                                                         *)
(* A group is the number of its place in the lexical order.  A key is a    *)
(* record: the bare Kind has no group, QualifiedKind's "<Kind>.<group>"    *)
(* has one.                                                                *)
(***************************************************************************)
EXTENDS Integers

CONSTANTS
  Groups,       (* API groups, numbered in lexical order.                  *)
  KindNames,    (* Kinds.                                                  *)
  Builtin,      (* Kinds whose bare name is a key of kute's own.           *)
  Owner,        (* The group that owns a bare Kind kute routes on.         *)
  Substitute    (* The key substitutedKinds gives a [group, kind] pair.    *)

NoGroup == -1
DiscoveredKind == [group : Groups, kind : KindNames]

BareKind(k)         == [kind |-> k, group |-> NoGroup]
QualifiedKind(k, g) == [kind |-> k, group |-> g]
Keys == [kind : KindNames, group : Groups \cup {NoGroup}]

ASSUME DiscoveryAssumption ==
  /\ Groups \subseteq Nat
  /\ Builtin \subseteq KindNames
  /\ Owner \in [DOMAIN Owner -> Groups] /\ DOMAIN Owner \subseteq KindNames
  /\ Substitute \in [DOMAIN Substitute -> Builtin]
  /\ DOMAIN Substitute \subseteq DiscoveredKind
  /\ \A a, b \in DOMAIN Substitute : Substitute[a] = Substitute[b] => a = b
-----------------------------------------------------------------------------
Taken(dk) == \/ dk.kind \in Builtin
             \/ dk.kind \in DOMAIN Owner /\ Owner[dk.kind] # dk.group

(* RegistryKind's own derivation, from the one kind alone. *)
RegistryKind(dk) ==
  IF dk \in DOMAIN Substitute THEN BareKind(Substitute[dk])
  ELSE IF Taken(dk) THEN QualifiedKind(dk.kind, dk.group)
  ELSE BareKind(dk.kind)

Clash(S, dk) == {other \in S : RegistryKind(other) = RegistryKind(dk)}

Owns(dk) == dk.kind \in DOMAIN Owner /\ Owner[dk.kind] = dk.group

(* Does dk keep the key its clash is about? *)
Keeps(S, dk) ==
  \/ Owns(dk)
  \/ \A other \in Clash(S, dk) : ~ Owns(other) /\ dk.group <= other.group

QualifyAll(S) == [dk \in S |-> RegistryKind(dk)]  \* nobody loses a clash

Assign(S) ==
  [dk \in S |-> IF Keeps(S, dk) THEN RegistryKind(dk)
                                ELSE QualifiedKind(dk.kind, dk.group)]
-----------------------------------------------------------------------------
(* No key names two discovered kinds. *)
Unambiguous(S) ==
  \A a, b \in S : Assign(S)[a] = Assign(S)[b] => a = b

(* A key of kute's own goes only to the kind the substitution table gives  *)
(* it, and a bare Kind kute routes on only to the group that owns it.      *)
NothingHidden(S) ==
  \A dk \in S :
    LET key == Assign(S)[dk]
    IN  key.group = NoGroup =>
          /\ key.kind \in Builtin =>
               dk \in DOMAIN Substitute /\ Substitute[dk] = key.kind
          /\ key.kind \in DOMAIN Owner =>
               \/ Owner[key.kind] = dk.group
               \/ dk \in DOMAIN Substitute
=============================================================================
