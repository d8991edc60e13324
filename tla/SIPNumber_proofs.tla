-------------------------- MODULE SIPNumber_proofs --------------------------
(***************************************************************************)
(* Proofs about the SIPNumber controller, for every value of the           *)
(* constants: what it does beyond OwnedChild preserves the invariant of    *)
(* OwnedChild_proofs.                                                      *)
(***************************************************************************)
EXTENDS SIPNumber, OwnedChild_proofs

LEMMA ConfigErrorInv ==
  ASSUME Inv, NEW n \in Names, ConfigError(n)
  PROVE  Inv'
BY StartFailedInv DEF ConfigError

LEMMA KeepTrunkInv ==
  ASSUME Inv, NEW n \in Names, KeepTrunk(n)
  PROVE  Inv'
<1>1. PICK new : new = DesiredTrunk(cache[n], seen, known[n])
  OBVIOUS
<1>2. PICK status : status = Propagated(cache[n], StatusRead(n))
  OBVIOUS
<1>3. new.owner = cache[n].uid
  BY <1>1 DEF DesiredTrunk
<1>4. IsStatus(status) /\ status.id = StatusRead(n).id
  BY <1>2 DEF Propagated, IsStatus
<1> QED
  BY <1>1, <1>2, <1>3, <1>4, StartKeepInv DEF KeepTrunk

LEMMA NextInv == Inv /\ [Next]_vars => Inv'
<1> SUFFICES ASSUME Inv, [Next]_vars PROVE Inv'
  OBVIOUS
<1>1. CASE CommonNext
  BY <1>1, CommonNextInv
<1>2. ASSUME NEW n \in Names, UserCreate(n, NewStatus) PROVE Inv'
  <2>1. PICK status : status = NewStatus
    OBVIOUS
  <2>2. IsStatus(status) /\ status.id = NoId
    BY <2>1 DEF NewStatus, IsStatus
  <2> QED
    BY <1>2, <2>1, <2>2, UserCreateInv
<1>3. ASSUME NEW n \in Names, ConfigError(n) \/ KeepTrunk(n) PROVE Inv'
  BY <1>3, ConfigErrorInv, KeepTrunkInv
<1>4. ASSUME NEW c \in Inputs, InputEvent(c, FindNumbers(c)) PROVE Inv'
  <2>1. PICK affected : affected = FindNumbers(c)
    OBVIOUS
  <2> QED
    BY <1>4, <2>1, InputStepsInv
<1>5. CASE UNCHANGED vars
  BY <1>5, StutterInv
<1> QED
  BY <1>1, <1>2, <1>3, <1>4, <1>5 DEF Next

\* A SIPNumber whose status shows a trunk id owns the trunk of its name, as long as that is
\* there: reconcileInboundTrunk reads the number and the trunk from caches that may both lag,
\* and still a number created again under an old name never shows the trunk of its
\* predecessor as its own before it has taken it over, nor gives it back to it.
THEOREM NumberOwnsWhatItShows == Spec => []OwnsWhatItShows
<1>1. Inv /\ [Next]_vars => Inv'
  BY NextInv
<1> QED
  BY <1>1, InitInv, InvOwns, PTL DEF Spec

----------------------------------------------------------------------------
\* What the controller makes of objects is of the right type.

NumberStatuses == [id: Nat, observedGeneration: Nat, ready: ReadyReasons]

TrunkSpecs ==
  [owner: Nat, numbers: Dids, config: {c \in Settings : c["livekitRef"] # Unset}]

\* For each name the same specs fit.
SpecsFor == [n \in Names |-> TrunkSpecs]

TypeInv == Inv /\ BoundsInv /\ Fits(NumberStatuses, SpecsFor)

LEMMA StatusReported ==
  ASSUME NEW status \in NumberStatuses, NEW reason \in ReadyReasons
  PROVE  [status EXCEPT !.ready = reason] \in NumberStatuses
BY DEF NumberStatuses

LEMMA NumbersReport == Reports(NumberStatuses)
BY StatusReported DEF Reports, ReadyReasons

\* What an input contains, if it is there.
LEMMA ContentOK ==
  ASSUME BoundsInv, NEW c \in Inputs, Content(c, seen) # Missing
  PROVE  Content(c, seen) \in Settings
<1>1. at[c] \in 1..Len(History[c]) /\ seen[c] \in 1..at[c] /\ Len(History[c]) \in Nat
  BY OwnedChildAssumption DEF BoundsInv
<1>2. seen[c] \in DOMAIN History[c]
  BY <1>1, OwnedChildAssumption
<1> QED
  BY <1>2, NumbersAssumption DEF Content

\* resolveConfig names a server.
LEMMA ResolveConfigOK ==
  ASSUME BoundsInv, NEW spec \in NumberSpec, Resolvable(spec, seen)
  PROVE  /\ ResolveConfig(spec, seen) \in Settings
         /\ ResolveConfig(spec, seen)["livekitRef"] # Unset
<1>1. /\ spec.inline \in Settings /\ spec.trunkConfigRef \in Inputs \cup {NoRef}
  BY DEF NumberSpec
<1>2. spec.trunkConfigRef # NoRef => Content(spec.trunkConfigRef, seen) \in Settings
  BY <1>1, ContentOK DEF Resolvable
<1>3. PICK content : content = Content(spec.trunkConfigRef, seen)
  OBVIOUS
<1>4. ASSUME NEW f \in Fields
      PROVE  (IF spec.inline[f] # Unset \/ spec.trunkConfigRef = NoRef
                THEN spec.inline[f] ELSE content[f]) \in Values \cup {Unset}
  BY <1>1, <1>2, <1>3 DEF Settings
<1>5. ResolveConfig(spec, seen) \in Settings
  BY <1>3, <1>4 DEF ResolveConfig, Settings
<1>6. ResolveConfig(spec, seen)["livekitRef"] # Unset
  BY <1>3, FieldsAssumption DEF ResolveConfig, Resolvable
<1> QED
  BY <1>5, <1>6

LEMMA ConfigErrorFits ==
  ASSUME TypeInv, NEW n \in Names, ConfigError(n),
         NEW specs, Fits(NumberStatuses, specs)
  PROVE  Fits(NumberStatuses, specs)'
<1>1. cache[n].status \in NumberStatuses
  BY DEF TypeInv, Fits, ObjectsFit, ParentFits, ConfigError, TakeLive
<1>2. PICK status \in NumberStatuses : status = cache[n].status
  BY <1>1
<1>3. [status EXCEPT !.ready = "ConfigError"] \in NumberStatuses
  BY StatusReported DEF ReadyReasons
<1>4. PICK statuses : statuses = NumberStatuses
  OBVIOUS
<1> QED
  BY <1>2, <1>3, <1>4, StartFailedFits DEF TypeInv, ConfigError

LEMMA KeepTrunkFits ==
  ASSUME TypeInv, NEW n \in Names, KeepTrunk(n),
         NEW specs, specs = SpecsFor, Fits(NumberStatuses, specs)
  PROVE  Fits(NumberStatuses, specs)'
<1>1. /\ cache[n].exists /\ cache[n].spec \in NumberSpec /\ IsObject(cache[n])
      /\ Resolvable(cache[n].spec, seen)
  BY NumbersAssumption DEF TypeInv, Fits, ObjectsFit, ParentFits, KeepTrunk, TakeLive,
     Inv, ShapeInv, IsParent
<1>2. PICK new : new = DesiredTrunk(cache[n], seen, known[n])
  OBVIOUS
<1>3. PICK trunk : trunk = StatusRead(n)
  OBVIOUS
<1>4. PICK status : status = Propagated(cache[n], trunk)
  OBVIOUS
<1>5. new \in specs[n]
  <2>1. PICK spec \in NumberSpec : spec = cache[n].spec
    BY <1>1
  <2>2. PICK config : config = ResolveConfig(spec, seen)
    OBVIOUS
  <2>3. config \in Settings /\ config["livekitRef"] # Unset
    BY <1>1, <2>1, <2>2, ResolveConfigOK DEF TypeInv
  <2>4. cache[n].uid \in Nat /\ spec.number \in Dids
    BY <1>1, <2>1 DEF IsObject, ObjectSet, NumberSpec
  <2>5. new = [owner |-> cache[n].uid, numbers |-> spec.number, config |-> config]
    BY <1>2, <2>1, <2>2 DEF DesiredTrunk
  <2> QED
    BY <2>3, <2>4, <2>5 DEF SpecsFor, TrunkSpecs
<1>6. trunk \in ChildStatuses
  BY <1>3 DEF TypeInv, Fits, ObjectsFit, ChildFits, StatusRead, ChildStatus, ChildStatuses, NoId
<1>7. status \in NumberStatuses
  <2>1. Readiness(trunk) \in ReadyReasons
    BY <1>6 DEF Readiness, ChildStatuses, ReadyReasons
  <2>2. trunk.id \in Nat /\ cache[n].generation \in Nat
    BY <1>1, <1>6 DEF ChildStatuses, IsObject, ObjectSet
  <2> QED
    BY <1>4, <2>1, <2>2 DEF Propagated, NumberStatuses
<1>8. TakeLive(n) /\ KeepChild(n, new, status)
  BY <1>2, <1>3, <1>4 DEF KeepTrunk
<1> QED
  BY <1>5, <1>7, <1>8, StartKeepFits DEF TypeInv

LEMMA NextFits ==
  ASSUME TypeInv, Next
  PROVE  Fits(NumberStatuses, SpecsFor)'
<1>1. PICK statuses : statuses = NumberStatuses
  OBVIOUS
<1>2. PICK specs : specs = SpecsFor
  OBVIOUS
<1>3. Inv /\ Fits(statuses, specs) /\ Reports(statuses)
  BY <1>1, <1>2, NumbersReport DEF TypeInv
<1>4. CASE CommonNext
  BY <1>1, <1>2, <1>3, <1>4, CommonNextFits
<1>5. ASSUME NEW n \in Names, UserCreate(n, NewStatus) PROVE Fits(statuses, specs)'
  <2>1. PICK status \in statuses : status = NewStatus
    BY <1>1 DEF NewStatus, NumberStatuses, NoId, ReadyReasons
  <2> QED
    BY <1>3, <1>5, <2>1, UserCreateFits
<1>6. ASSUME NEW n \in Names, ConfigError(n) \/ KeepTrunk(n) PROVE Fits(statuses, specs)'
  BY <1>1, <1>2, <1>3, <1>6, ConfigErrorFits, KeepTrunkFits
<1>7. ASSUME NEW c \in Inputs, InputEvent(c, FindNumbers(c)) PROVE Fits(statuses, specs)'
  BY <1>3, <1>7, OtherFits DEF InputEvent
<1> QED
  BY <1>1, <1>2, <1>4, <1>5, <1>6, <1>7 DEF Next

LEMMA NextBounds ==
  ASSUME TypeInv, Next
  PROVE  BoundsInv'
<1>1. Inv /\ BoundsInv
  BY DEF TypeInv
<1>2. CASE CommonNext
  BY <1>1, <1>2, CommonNextBounds
<1>3. ASSUME NEW n \in Names, UserCreate(n, NewStatus) PROVE BoundsInv'
  BY <1>1, <1>3, SameBounds DEF UserCreate, BoundsInv, workerVars
<1>4. ASSUME NEW n \in Names, ConfigError(n) \/ KeepTrunk(n) PROVE BoundsInv'
  <2>1. again' \in BOOLEAN
    BY <1>1, <1>4 DEF ConfigError, KeepTrunk, KeepChild, Failed, ToStatus, BoundsInv
  <2> QED
    BY <1>1, <1>4, <2>1, StartBounds DEF ConfigError, KeepTrunk
<1>5. ASSUME NEW c \in Inputs, InputEvent(c, FindNumbers(c)) PROVE BoundsInv'
  <2>1. PICK affected \in SUBSET Names : affected = FindNumbers(c)
    BY DEF FindNumbers
  <2> QED
    BY <1>1, <1>5, <2>1, InputEventBounds
<1> QED
  BY <1>2, <1>3, <1>4, <1>5 DEF Next

LEMMA TypeInvTypeOK == TypeInv => TypeOK
<1> SUFFICES ASSUME TypeInv PROVE TypeOK
  OBVIOUS
<1>1. ASSUME NEW n \in Names, NEW o, ParentFits(n, o, NumberStatuses), o.exists
      PROVE  NumberOK(o)
  BY <1>1, NumbersAssumption DEF ParentFits, NumberOK, NumberStatuses
<1>2. ASSUME NEW o, ChildFits(o, TrunkSpecs), o.exists
      PROVE  TrunkOK(o.spec) /\ o.status.id \in {NoId, o.uid}
  BY <1>2 DEF ChildFits, TrunkOK, TrunkSpecs
<1>3. /\ pc \in {"idle", "create", "update", "status"} /\ ((key = NoKey) <=> (pc = "idle"))
      /\ key \in Names \cup {NoKey}
  BY OwnedChildAssumption DEF TypeInv, Inv, WorkerInv
<1>4. obj.exists => NumberOK(obj)
  BY <1>1, <1>3, OwnedChildAssumption DEF TypeInv, Fits, WorkerFits
<1>5. copy.exists => TrunkOK(copy.spec) /\ copy.status.id \in {NoId, copy.uid}
  BY <1>2, <1>3, OwnedChildAssumption DEF TypeInv, Fits, WorkerFits, SpecsFor
<1>6. pc \in {"create", "update"} => TrunkOK(want)
  <2>1. pc \in {"create", "update"} => want \in TrunkSpecs
    BY <1>3 DEF TypeInv, Fits, WorkerFits, SpecsFor
  <2> QED
    BY <2>1 DEF TrunkOK, TrunkSpecs
<1>7. \A n \in Names : /\ api[n].exists => NumberOK(api[n])
                       /\ cache[n].exists => NumberOK(cache[n])
  BY <1>1 DEF TypeInv, Fits, ObjectsFit
<1>8. ASSUME NEW n \in Names
      PROVE  /\ child[n].exists =>
                  TrunkOK(child[n].spec) /\ child[n].status.id \in {NoId, child[n].uid}
             /\ known[n].exists =>
                  TrunkOK(known[n].spec) /\ known[n].status.id \in {NoId, known[n].uid}
  BY <1>2 DEF TypeInv, Fits, ObjectsFit, SpecsFor
<1>9. BoundsInv
  BY DEF TypeInv
<1>10. \A o \in {api[n] : n \in Names} \cup {cache[n] : n \in Names} \cup {obj} :
         o.exists => NumberOK(o)
  BY <1>4, <1>7
<1>11. \A o \in {child[n] : n \in Names} \cup {known[n] : n \in Names} \cup {copy} :
         o.exists => TrunkOK(o.spec) /\ o.status.id \in {NoId, o.uid}
  BY <1>5, <1>8
<1> QED
  BY <1>3, <1>6, <1>9, <1>10, <1>11 DEF TypeOK, ObjectsOK, BoundsInv

LEMMA InitTypeInv == Init => TypeInv
BY InitInv, InitFits DEF TypeInv

LEMMA NextTypeInv == TypeInv /\ [Next]_vars => TypeInv'
<1> SUFFICES ASSUME TypeInv, [Next]_vars PROVE TypeInv'
  OBVIOUS
<1>1. Inv'
  BY NextInv DEF TypeInv
<1>2. CASE Next
  BY <1>1, <1>2, NextFits, NextBounds DEF TypeInv
<1>3. CASE UNCHANGED vars
  <2>1. PICK specs : specs = SpecsFor
    OBVIOUS
  <2>2. Fits(NumberStatuses, specs)'
    BY <1>3, <2>1, OtherFits DEF vars, TypeInv
  <2>3. BoundsInv'
    BY <1>3, SameBounds DEF vars, workerVars, TypeInv, BoundsInv
  <2> QED
    BY <1>1, <2>1, <2>2, <2>3 DEF TypeInv
<1> QED
  BY <1>2, <1>3

\* Whatever numbers and SIPTrunkConfigs users write and whichever copies of them
\* resolveConfig reads, every trunk the controller asks for names a LiveKit server and has
\* the number, and every status it writes is one the CRD allows.
THEOREM TypeCorrect == Spec => []TypeOK
<1>1. TypeInv /\ [Next]_vars => TypeInv'
  BY NextTypeInv
<1> QED
  BY <1>1, InitTypeInv, TypeInvTypeOK, PTL DEF Spec
=============================================================================
