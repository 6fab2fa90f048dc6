-------------------------- MODULE DiscoveryProofs --------------------------
(***************************************************************************)
(* The registry keys AssignRegistryKinds hands out, for every snapshot of  *)
(* every cluster.                                                          *)
(***************************************************************************)
EXTENDS Discovery, TLAPS

(* Where a kind's own derivation lands: a key of the substitution table's, *)
(* its qualified key, or its bare one, which then nothing else owns.       *)
LEMMA KeyCases ==
  ASSUME NEW dk \in DiscoveredKind
  PROVE  \/ /\ dk \in DOMAIN Substitute
            /\ RegistryKind(dk) = BareKind(Substitute[dk])
            /\ Substitute[dk] \in Builtin
         \/ RegistryKind(dk) = QualifiedKind(dk.kind, dk.group)
         \/ /\ RegistryKind(dk) = BareKind(dk.kind)
            /\ dk.kind \notin Builtin
            /\ dk.kind \in DOMAIN Owner => Owner[dk.kind] = dk.group
  BY DiscoveryAssumption DEF RegistryKind, Taken, BareKind, QualifiedKind

(* Two kinds with one key of their own derivation share their Kind, and    *)
(* neither has a substituted or a qualified one.                           *)
LEMMA ClashesAreBare ==
  ASSUME NEW a \in DiscoveredKind, NEW b \in DiscoveredKind, a # b,
         RegistryKind(a) = RegistryKind(b)
  PROVE  a.kind = b.kind /\ a.group # b.group
  <1>1. a = [group |-> a.group, kind |-> a.kind] /\ b = [group |-> b.group, kind |-> b.kind]
    BY DEF DiscoveredKind
  <1>2. a.group \in Nat /\ b.group \in Nat
    BY DiscoveryAssumption DEF DiscoveredKind
  <1>3. a.kind = b.kind
    BY <1>1, <1>2, KeyCases, DiscoveryAssumption DEF BareKind, QualifiedKind, NoGroup
  <1>. QED  BY <1>1, <1>3

(* No key names two kinds of a snapshot (discovery.go:105). *)
THEOREM KeysAreUnique ==
  ASSUME NEW S \in SUBSET DiscoveredKind
  PROVE  Unambiguous(S)
<1>. SUFFICES ASSUME NEW a \in S, NEW b \in S, Assign(S)[a] = Assign(S)[b], a # b
              PROVE  FALSE
  BY DEF Unambiguous
<1>. DEFINE Qualified(dk) == QualifiedKind(dk.kind, dk.group)
<1>1. /\ a \in DiscoveredKind /\ b \in DiscoveredKind
      /\ a.group \in Nat /\ b.group \in Nat
  BY DiscoveryAssumption DEF DiscoveredKind
<1>2. Qualified(a) # Qualified(b)
  BY <1>1 DEF QualifiedKind, DiscoveredKind
<1>3. ASSUME Keeps(S, a), Keeps(S, b)
      PROVE  FALSE
  <2>1. RegistryKind(a) = RegistryKind(b)
    BY <1>3 DEF Assign
  <2>2. a \in Clash(S, b) /\ b \in Clash(S, a)
    BY <2>1 DEF Clash
  <2>3. a.kind = b.kind /\ a.group # b.group
    BY <1>1, <2>1, ClashesAreBare
  <2>4. Owns(a) <=> Owns(b)
    BY <1>3, <2>2 DEF Keeps
  <2>5. ~ Owns(a)
    BY <2>3, <2>4 DEF Owns
  <2>6. a.group <= b.group /\ b.group <= a.group
    BY <1>3, <2>2, <2>4, <2>5 DEF Keeps
  <2>. QED  BY <1>1, <2>3, <2>6
<1>4. ASSUME NEW x \in S, NEW y \in S, x # y, Keeps(S, x), RegistryKind(x) = Qualified(y)
      PROVE  FALSE
  <2>1. /\ x \in DiscoveredKind /\ y \in DiscoveredKind
        /\ x.group \in Nat /\ y.group \in Nat
    BY DiscoveryAssumption DEF DiscoveredKind
  <2>2. Qualified(x) # Qualified(y)
    BY <1>4, <2>1 DEF QualifiedKind, DiscoveredKind
  <2>. QED
    BY <1>4, <2>1, <2>2, KeyCases DEF BareKind, QualifiedKind, NoGroup
<1>. QED  BY <1>2, <1>3, <1>4 DEF Assign

(* A discovered kind hides no kind of kute's own, and the bare name of an  *)
(* owned kind stays its owner's (discovery.go:81).                         *)
THEOREM NothingIsHidden ==
  ASSUME NEW S \in SUBSET DiscoveredKind
  PROVE  NothingHidden(S)
<1>. SUFFICES ASSUME NEW dk \in S, Assign(S)[dk].group = NoGroup
              PROVE  LET key == Assign(S)[dk]
                     IN  /\ key.kind \in Builtin =>
                              dk \in DOMAIN Substitute /\ Substitute[dk] = key.kind
                         /\ key.kind \in DOMAIN Owner =>
                              Owner[key.kind] = dk.group \/ dk \in DOMAIN Substitute
  BY DEF NothingHidden
<1>1. dk \in DiscoveredKind /\ dk.group \in Nat
  BY DiscoveryAssumption DEF DiscoveredKind
<1>2. Assign(S)[dk] = RegistryKind(dk)
  BY <1>1 DEF Assign, QualifiedKind, NoGroup
<1>. QED
  BY <1>1, <1>2, KeyCases DEF BareKind, QualifiedKind, NoGroup
=============================================================================
