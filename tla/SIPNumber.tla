----------------------------- MODULE SIPNumber -----------------------------
(***************************************************************************)
(* The SIPNumber controller (internal/controller/sipnumber_controller.go): *)
(* for each SIPNumber it keeps a child SIPInboundTrunk of the same name    *)
(* (OwnedChild), whose spec merges a SIPTrunkConfig, its input, with what  *)
(* the number says itself.                                                 *)
(***************************************************************************)
EXTENDS OwnedChild

CONSTANTS
  Dids,     \* values of spec.number
  Fields,   \* the fields of a trunk a SIPTrunkConfig or a number may set
  Values,   \* values of those fields
  Unset,    \* the field is not set
  NoRef     \* spec.trunkConfigRef is absent

Settings == [Fields -> Values \cup {Unset}]

NumberSpec == [number: Dids, trunkConfigRef: Inputs \cup {NoRef}, inline: Settings]

ASSUME FieldsAssumption == "livekitRef" \in Fields

ASSUME NumbersAssumption ==
  /\ \A n \in Names : SpecsOf[n] \subseteq NumberSpec
  /\ \A c \in Inputs : \A i \in DOMAIN History[c] : History[c][i] \in Settings \cup {Missing}
  /\ NoRef \notin Inputs

NewStatus == [id |-> NoId, observedGeneration |-> 0, ready |-> "Unset"]

ReadyReasons == {"Unset", "Ready", "Pending", "ConfigError", "SyncFailed", "CreateFailed",
                 "UpdateFailed"}

NumberOK(o) ==
  /\ o.spec \in NumberSpec
  /\ o.status \in [id: Nat, observedGeneration: Nat, ready: ReadyReasons]

TrunkOK(spec) ==
  /\ spec.owner \in Nat /\ spec.numbers \in Dids
  /\ spec.config \in Settings /\ spec.config["livekitRef"] # Unset

\* Values stay in their types; in particular no child is ever asked for that names no
\* LiveKit server (the CRD schema of SIPInboundTrunk requires one).
TypeOK == ObjectsOK(NumberOK, TrunkOK)

----------------------------------------------------------------------------
\* resolveConfig: what the number sets itself goes before what the SIPTrunkConfig it
\* refers to sets.

\* Slip: nobody checks that there is a server to create the trunk at.
Resolvable_NoServer(spec, upto) ==
  spec.trunkConfigRef # NoRef => Content(spec.trunkConfigRef, upto) # Missing

Resolvable(spec, upto) ==
  /\ spec.trunkConfigRef # NoRef => Content(spec.trunkConfigRef, upto) # Missing
  /\ \/ spec.inline["livekitRef"] # Unset
     \/ /\ spec.trunkConfigRef # NoRef
        /\ Content(spec.trunkConfigRef, upto)["livekitRef"] # Unset

ResolveConfig(spec, upto) ==
  [f \in Fields |->
     IF spec.inline[f] # Unset \/ spec.trunkConfigRef = NoRef
       THEN spec.inline[f] ELSE Content(spec.trunkConfigRef, upto)[f]]

\* Slip: a child that has an owner keeps it.
DesiredTrunk_KeepsOwner(o, upto, old) ==
  [owner |-> IF old.exists THEN old.spec.owner ELSE o.uid,
   numbers |-> o.spec.number, config |-> ResolveConfig(o.spec, upto)]

\* Slip: the child has no owner.
DesiredTrunk_NoOwner(o, upto, old) ==
  [owner |-> 0, numbers |-> o.spec.number, config |-> ResolveConfig(o.spec, upto)]

\* What reconcileInboundTrunk makes of the child: it belongs to the number o, also if it
\* belonged to an earlier number of that name, and has the spec the number asks for.
DesiredTrunk(o, upto, old) ==
  [owner |-> o.uid, numbers |-> o.spec.number, config |-> ResolveConfig(o.spec, upto)]

\* The status the number gets from its child's.
Propagated(o, trunk) ==
  [id |-> trunk.id, observedGeneration |-> o.generation, ready |-> Readiness(trunk)]

ConfigError(n) ==
  /\ TakeLive(n)
  /\ ~Resolvable(cache[n].spec, seen)
  /\ Failed(cache[n], "ConfigError")

KeepTrunk(n) ==
  /\ TakeLive(n)
  /\ Resolvable(cache[n].spec, seen)
  /\ KeepChild(n, DesiredTrunk(cache[n], seen, known[n]), Propagated(cache[n], StatusRead(n)))

\* Slip: SIPTrunkConfigs are not watched.
FindNumbers_Unwatched(c) == {}

\* findSIPNumbersForTrunkConfig: the cached numbers that refer to c.
FindNumbers(c) == {n \in Names : cache[n].exists /\ cache[n].spec.trunkConfigRef = c}

----------------------------------------------------------------------------
Reconcile(n) == SkipReconcile(n) \/ ConfigError(n) \/ KeepTrunk(n)

Next ==
  \/ CommonNext
  \/ \E n \in Names : UserCreate(n, NewStatus) \/ ConfigError(n) \/ KeepTrunk(n)
  \/ \E c \in Inputs : InputEvent(c, FindNumbers(c))

Fairness ==
  /\ CommonFairness
  /\ \A n \in Names : SF_vars(Reconcile(n))
  /\ \A c \in Inputs : WF_vars(InputEvent(c, FindNumbers(c)))

Spec == Init /\ [][Next]_vars /\ Fairness

----------------------------------------------------------------------------
\* Properties.

\* The number stays and its configuration can be resolved.
Feasible(o) == o.exists /\ ~o.deleting /\ Resolvable(o.spec, at)

\* In the end the child has the spec that number and SIPTrunkConfig ask for, and the
\* number's status shows the child's trunk and readiness: no change of a number, a
\* SIPTrunkConfig or a child is lost between the caches, nor any failed write.
MirrorsTrunk ==
  \A n \in Names :
    <>[](Feasible(api[n]) =>
           /\ child[n].exists /\ ~child[n].deleting
           /\ child[n].spec = DesiredTrunk(api[n], at, child[n])
           /\ api[n].status = Propagated(api[n], child[n].status))
=============================================================================
