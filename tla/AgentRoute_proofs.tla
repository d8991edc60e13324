------------------------- MODULE AgentRoute_proofs -------------------------
(***************************************************************************)
(* Proofs about the AgentRoute controller, for every value of the          *)
(* constants: what it does beyond OwnedChild preserves the invariant of    *)
(* OwnedChild_proofs.                                                      *)
(***************************************************************************)
EXTENDS AgentRoute, OwnedChild_proofs

LEMMA ErrorsInv ==
  ASSUME Inv, NEW n \in Names,
         AgentError(n) \/ NoAgent(n) \/ NumberError(n) \/ NumbersPending(n)
  PROVE  Inv'
BY StartFailedInv DEF AgentError, NoAgent, NumberError, NumbersPending

LEMMA KeepRuleInv ==
  ASSUME Inv, NEW n \in Names, KeepRule(n)
  PROVE  Inv'
<1>1. PICK new : new = DesiredRule(cache[n], seen)
  OBVIOUS
<1>2. PICK status :
        status = Propagated(cache[n], Trunks(cache[n].spec, seen), StatusRead(n))
  OBVIOUS
<1>3. new.owner = cache[n].uid
  BY <1>1 DEF DesiredRule
<1>4. IsStatus(status) /\ status.id = StatusRead(n).id
  BY <1>2 DEF Propagated, IsStatus
<1> QED
  BY <1>1, <1>2, <1>3, <1>4, StartKeepInv DEF KeepRule

LEMMA NextInv == Inv /\ [Next]_vars => Inv'
<1> SUFFICES ASSUME Inv, [Next]_vars PROVE Inv'
  OBVIOUS
<1>1. CASE CommonNext
  BY <1>1, CommonNextInv
<1>2. ASSUME NEW n \in Names, UserCreate(n, NewStatus) PROVE Inv'
  <2>1. PICK status : status = NewStatus
    OBVIOUS
  <2>2. IsStatus(status) /\ status.id = NoId
    BY <2>1 DEF NewStatus, IsStatus
  <2> QED
    BY <1>2, <2>1, <2>2, UserCreateInv
<1>3. ASSUME NEW n \in Names, Start(n) PROVE Inv'
  BY <1>3, ErrorsInv, KeepRuleInv DEF Start
<1>4. ASSUME NEW x \in Inputs, InputEvent(x, FindRoutes(x)) PROVE Inv'
  <2>1. PICK affected : affected = FindRoutes(x)
    OBVIOUS
  <2> QED
    BY <1>4, <2>1, InputStepsInv
<1>5. CASE UNCHANGED vars
  BY <1>5, StutterInv
<1> QED
  BY <1>1, <1>2, <1>3, <1>4, <1>5 DEF Next

\* An AgentRoute whose status shows a rule id owns the rule of its name, as long as that is
\* there, whatever copies of routes and rules reconcileDispatchRule has read.
THEOREM RouteOwnsWhatItShows == Spec => []OwnsWhatItShows
<1>1. Inv /\ [Next]_vars => Inv'
  BY NextInv
<1> QED
  BY <1>1, InitInv, InvOwns, PTL DEF Spec

----------------------------------------------------------------------------
\* What the controller makes of objects is of the right type, and a rule has a trunk of
\* each number of some spec of its route.

RouteStatuses ==
  [id: Nat, observedGeneration: Nat, ready: ReadyReasons, trunkIDs: SUBSET TrunkIds]

\* The trunks number m has had until upto.
TrunksUntil(m, upto) == {History[m][i] : i \in 1..upto[m]} \cap TrunkIds

\* ids has one trunk for each number that spec s lists.
Serves(s, ids, upto) ==
  \E trunk \in [s.numberRefs -> TrunkIds] :
    /\ \A m \in s.numberRefs : trunk[m] \in TrunksUntil(m, upto)
    /\ ids = {trunk[m] : m \in s.numberRefs}

RuleSpecs ==
  [owner: Nat, trunkIDs: SUBSET TrunkIds, individual: AgentNames \cup Individuals,
   agents: AgentNames]

\* For each name, the specs of rules that serve all numbers.
SpecsFor(upto) ==
  [n \in Names |-> {r \in RuleSpecs : \E s \in SpecsOf[n] : Serves(s, r.trunkIDs, upto)}]

RuleInv == Inv /\ BoundsInv /\ Fits(RouteStatuses, SpecsFor(at))

LEMMA StatusReported ==
  ASSUME NEW status \in RouteStatuses, NEW reason \in ReadyReasons
  PROVE  [status EXCEPT !.ready = reason] \in RouteStatuses
BY DEF RouteStatuses

LEMMA RoutesReport == Reports(RouteStatuses)
BY StatusReported DEF Reports, ReadyReasons

\* What an input contains is one of the things it has contained so far.
LEMMA ContentSoFar ==
  ASSUME BoundsInv, NEW x \in Inputs
  PROVE  /\ seen[x] \in DOMAIN History[x] /\ seen[x] \in 1..at[x]
         /\ Content(x, seen) = History[x][seen[x]]
<1>1. at[x] \in 1..Len(History[x]) /\ seen[x] \in 1..at[x] /\ Len(History[x]) \in Nat
  BY OwnedChildAssumption DEF BoundsInv
<1> QED
  BY <1>1, OwnedChildAssumption DEF Content

\* resolveAgentName finds a name.
LEMMA AgentNameOK ==
  ASSUME BoundsInv, NEW spec \in RouteSpec, HasAgent(spec, seen)
  PROVE  AgentName(spec, seen) \in AgentNames
<1>1. spec.agentName \in AgentNames \cup {Unset} /\ spec.agentRef \in Agents \cup {Unset}
  BY DEF RouteSpec
<1>2. CASE spec.agentRef = Unset
  BY <1>1, <1>2 DEF HasAgent, AgentName
<1>3. CASE spec.agentRef # Unset
  <2>1. PICK a \in Agents : a = spec.agentRef
    BY <1>1, <1>3
  <2>2. a \in Inputs /\ Content(a, seen) # Missing
    BY <1>3, <2>1, RoutesAssumption DEF HasAgent, AgentMissing
  <2>3. Content(a, seen) \in [agentName: AgentNames, ready: BOOLEAN]
    BY <2>2, ContentSoFar, RoutesAssumption
  <2> QED
    BY <1>3, <2>1, <2>3 DEF AgentName
<1> QED
  BY <1>2, <1>3

\* collectTrunkIDs finds one trunk for each number.
LEMMA TrunksServe ==
  ASSUME BoundsInv, NEW spec \in RouteSpec, Resolvable(spec, seen)
  PROVE  Trunks(spec, seen) \in SUBSET TrunkIds /\ Serves(spec, Trunks(spec, seen), at)
<1>1. spec.numberRefs \in SUBSET SIPNumbers
  BY DEF RouteSpec
<1>2. ASSUME NEW m \in spec.numberRefs
      PROVE  Content(m, seen) \in TrunkIds /\ Content(m, seen) \in TrunksUntil(m, at)
  <2>1. m \in SIPNumbers /\ m \in Inputs
    BY <1>1, RoutesAssumption
  <2>2. Content(m, seen) # Missing /\ Content(m, seen) # NoTrunk
    BY DEF Resolvable, SomeMissing, Pending
  <2>3. Content(m, seen) \in TrunkIds
    BY <2>1, <2>2, ContentSoFar, RoutesAssumption
  <2> QED
    BY <2>1, <2>3, ContentSoFar DEF TrunksUntil
<1> DEFINE trunk == [m \in spec.numberRefs |-> Content(m, seen)]
<1>3. /\ trunk \in [spec.numberRefs -> TrunkIds]
      /\ \A m \in spec.numberRefs : trunk[m] = Content(m, seen)
  BY <1>2
<1>4. Trunks(spec, seen) = {trunk[m] : m \in spec.numberRefs}
  <2>1. \A m \in spec.numberRefs : trunk[m] # NoTrunk
    BY <1>2, <1>3, RoutesAssumption
  <2>2. Trunks(spec, seen) = {trunk[m] : m \in spec.numberRefs} \ {NoTrunk}
    BY <1>3 DEF Trunks
  <2> HIDE DEF trunk
  <2> QED
    BY <2>1, <2>2
<1>5. \A m \in spec.numberRefs : trunk[m] \in TrunksUntil(m, at)
  BY <1>2, <1>3
<1>6. Serves(spec, Trunks(spec, seen), at)
  <2> HIDE DEF trunk
  <2> QED
    BY <1>3, <1>4, <1>5 DEF Serves
<1> QED
  BY <1>3, <1>4, <1>6

LEMMA ErrorsFit ==
  ASSUME RuleInv, NEW n \in Names,
         AgentError(n) \/ NoAgent(n) \/ NumberError(n) \/ NumbersPending(n),
         NEW specs, Fits(RouteStatuses, specs)
  PROVE  Fits(RouteStatuses, specs)'
<1>1. PICK reason \in ReadyReasons : TakeLive(n) /\ Failed(cache[n], reason)
  BY DEF AgentError, NoAgent, NumberError, NumbersPending, ReadyReasons
<1>2. PICK status \in RouteStatuses : status = cache[n].status
  BY <1>1 DEF Fits, ObjectsFit, ParentFits, TakeLive
<1>3. [status EXCEPT !.ready = reason] \in RouteStatuses
  BY StatusReported
<1>4. PICK statuses : statuses = RouteStatuses
  OBVIOUS
<1> QED
  BY <1>1, <1>2, <1>3, <1>4, StartFailedFits DEF RuleInv

LEMMA KeepRuleFits ==
  ASSUME RuleInv, NEW n \in Names, KeepRule(n),
         NEW specs, specs = SpecsFor(at), Fits(RouteStatuses, specs)
  PROVE  Fits(RouteStatuses, specs)'
<1>1. /\ cache[n].exists /\ cache[n].spec \in SpecsOf[n] /\ IsObject(cache[n])
      /\ Resolvable(cache[n].spec, seen) /\ BoundsInv
  BY DEF RuleInv, Fits, ObjectsFit, ParentFits, KeepRule, TakeLive, Inv, ShapeInv, IsParent
<1>2. PICK new : new = DesiredRule(cache[n], seen)
  OBVIOUS
<1>3. PICK rule : rule = StatusRead(n)
  OBVIOUS
<1>4. PICK status : status = Propagated(cache[n], Trunks(cache[n].spec, seen), rule)
  OBVIOUS
<1>5. PICK spec \in SpecsOf[n] : spec = cache[n].spec /\ spec \in RouteSpec
  BY <1>1, RoutesAssumption
<1>6. PICK ids \in SUBSET TrunkIds : ids = Trunks(spec, seen) /\ Serves(spec, ids, at)
  BY <1>1, <1>5, TrunksServe
<1>7. PICK agent \in AgentNames : agent = AgentName(spec, seen)
  BY <1>1, <1>5, AgentNameOK DEF Resolvable
<1>8. cache[n].uid \in Nat /\ cache[n].generation \in Nat
  BY <1>1 DEF IsObject, ObjectSet
<1>9. new \in specs[n]
  <2>1. new = [owner |-> cache[n].uid, trunkIDs |-> ids,
               individual |-> IF spec.individual # Unset THEN spec.individual ELSE agent,
               agents |-> IF spec.agents # Unset THEN spec.agents ELSE agent]
    BY <1>2, <1>5, <1>6, <1>7 DEF DesiredRule
  <2>2. /\ spec.agents \in AgentNames \cup {Unset}
        /\ spec.individual \in Individuals \cup {Unset}
    BY <1>5 DEF RouteSpec
  <2>3. new \in RuleSpecs /\ new.trunkIDs = ids
    BY <1>8, <2>1, <2>2 DEF RuleSpecs
  <2> QED
    BY <1>6, <2>3 DEF SpecsFor
<1>10. rule \in ChildStatuses
  BY <1>3 DEF RuleInv, Fits, ObjectsFit, ChildFits, StatusRead, ChildStatus, ChildStatuses, NoId
<1>11. status \in RouteStatuses
  <2>1. Readiness(rule) \in ReadyReasons /\ rule.id \in Nat
    BY <1>10 DEF Readiness, ChildStatuses, ReadyReasons
  <2> QED
    BY <1>4, <1>5, <1>6, <1>8, <2>1 DEF Propagated, RouteStatuses
<1>12. TakeLive(n) /\ KeepChild(n, new, status)
  BY <1>2, <1>3, <1>4 DEF KeepRule
<1> QED
  BY <1>9, <1>11, <1>12, StartKeepFits DEF RuleInv

\* The specs that fit now still fit after the step.
LEMMA NextFits ==
  ASSUME RuleInv, Next, NEW specs, specs = SpecsFor(at)
  PROVE  Fits(RouteStatuses, specs)'
<1>1. PICK statuses : statuses = RouteStatuses
  OBVIOUS
<1>2. Inv /\ Fits(statuses, specs) /\ Reports(statuses)
  BY <1>1, RoutesReport DEF RuleInv
<1>3. CASE CommonNext
  BY <1>1, <1>2, <1>3, CommonNextFits
<1>4. ASSUME NEW n \in Names, UserCreate(n, NewStatus) PROVE Fits(statuses, specs)'
  <2>1. PICK status \in statuses : status = NewStatus
    BY <1>1 DEF NewStatus, RouteStatuses, NoId, ReadyReasons
  <2> QED
    BY <1>2, <1>4, <2>1, UserCreateFits
<1>5. ASSUME NEW n \in Names, Start(n) PROVE Fits(statuses, specs)'
  BY <1>1, <1>2, <1>5, ErrorsFit, KeepRuleFits DEF Start
<1>6. ASSUME NEW x \in Inputs, InputEvent(x, FindRoutes(x)) PROVE Fits(statuses, specs)'
  BY <1>2, <1>6, OtherFits DEF InputEvent
<1> QED
  BY <1>1, <1>3, <1>4, <1>5, <1>6 DEF Next

LEMMA NextBounds ==
  ASSUME RuleInv, Next
  PROVE  BoundsInv'
<1>1. Inv /\ BoundsInv
  BY DEF RuleInv
<1>2. CASE CommonNext
  BY <1>1, <1>2, CommonNextBounds
<1>3. ASSUME NEW n \in Names, UserCreate(n, NewStatus) PROVE BoundsInv'
  BY <1>1, <1>3, SameBounds DEF UserCreate, BoundsInv, workerVars
<1>4. ASSUME NEW n \in Names, Start(n) PROVE BoundsInv'
  <2>1. again' \in BOOLEAN
    BY <1>1, <1>4 DEF Start, AgentError, NoAgent, NumberError, NumbersPending, KeepRule,
                      KeepChild, Failed, ToStatus, BoundsInv
  <2> QED
    BY <1>1, <1>4, <2>1, StartBounds
       DEF Start, AgentError, NoAgent, NumberError, NumbersPending, KeepRule
<1>5. ASSUME NEW x \in Inputs, InputEvent(x, FindRoutes(x)) PROVE BoundsInv'
  <2>1. PICK affected \in SUBSET Names : affected = FindRoutes(x)
    BY DEF FindRoutes
  <2> QED
    BY <1>1, <1>5, <2>1, InputEventBounds
<1> QED
  BY <1>2, <1>3, <1>4, <1>5 DEF Next

\* What inputs have contained so far only grows.
LEMMA InputsGrow ==
  ASSUME BoundsInv, Next
  PROVE  \A x \in Inputs : at[x] \in Nat /\ at'[x] \in Nat /\ at[x] <= at'[x]
<1>1. \A x \in Inputs : at[x] \in Nat
  BY OwnedChildAssumption DEF BoundsInv
<1>2. ASSUME UNCHANGED at PROVE \A x \in Inputs : at'[x] = at[x]
  BY <1>2
<1>3. ASSUME NEW x \in Inputs, InputChange(x)
      PROVE  \A y \in Inputs : at'[y] \in {at[y], at[y] + 1}
  BY <1>3 DEF InputChange, BoundsInv
<1>4. UNCHANGED at \/ \E x \in Inputs : InputChange(x)
  <2>1. CASE CommonNext
    BY <2>1 DEF CommonNext, Call, UserEdit, UserDelete, UserDeleteChild, CollectChild,
       CollectParent, Provision, ProvisionFails, WatchEvent, ChildEvent, SkipReconcile, Take,
       Restart, CreateChild, UpdateChild, ChildWrite, WriteStatus, inputVars
  <2>2. ASSUME NEW n \in Names, UserCreate(n, NewStatus) \/ Start(n) PROVE UNCHANGED at
    BY <2>2 DEF UserCreate, Start, AgentError, NoAgent, NumberError, NumbersPending, KeepRule,
                TakeLive, Take, inputVars
  <2>3. ASSUME NEW x \in Inputs, InputEvent(x, FindRoutes(x)) PROVE UNCHANGED at
    BY <2>3 DEF InputEvent
  <2> QED
    BY <2>1, <2>2, <2>3 DEF Next
<1> QED
  BY <1>1, <1>2, <1>3, <1>4

LEMMA SpecsGrow ==
  ASSUME NEW upto, NEW later,
         \A x \in Inputs : upto[x] \in Nat /\ later[x] \in Nat /\ upto[x] <= later[x]
  PROVE  \A n \in Names : SpecsFor(upto)[n] \subseteq SpecsFor(later)[n]
<1>1. ASSUME NEW m \in SIPNumbers PROVE TrunksUntil(m, upto) \subseteq TrunksUntil(m, later)
  <2>1. m \in Inputs
    BY RoutesAssumption
  <2> QED
    BY <2>1 DEF TrunksUntil
<1>2. ASSUME NEW n \in Names, NEW s \in SpecsOf[n], NEW ids, Serves(s, ids, upto)
      PROVE  Serves(s, ids, later)
  <2>1. s.numberRefs \subseteq SIPNumbers
    BY RoutesAssumption DEF RouteSpec
  <2>2. PICK trunk \in [s.numberRefs -> TrunkIds] :
          /\ \A m \in s.numberRefs : trunk[m] \in TrunksUntil(m, upto)
          /\ ids = {trunk[m] : m \in s.numberRefs}
    BY <1>2 DEF Serves
  <2>3. \A m \in s.numberRefs : trunk[m] \in TrunksUntil(m, later)
    BY <1>1, <2>1, <2>2
  <2> QED
    BY <2>2, <2>3 DEF Serves
<1> QED
  BY <1>2 DEF SpecsFor

LEMMA InitRuleInv == Init => RuleInv
<1> SUFFICES ASSUME Init PROVE RuleInv
  OBVIOUS
<1>1. PICK specs : specs = SpecsFor(at)
  OBVIOUS
<1> QED
  BY <1>1, InitInv, InitFits DEF RuleInv

LEMMA NextRuleInv == RuleInv /\ [Next]_vars => RuleInv'
<1> SUFFICES ASSUME RuleInv, [Next]_vars PROVE RuleInv'
  OBVIOUS
<1>1. Inv'
  BY NextInv DEF RuleInv
<1>2. PICK specs : specs = SpecsFor(at)
  OBVIOUS
<1>3. CASE Next
  <2>1. PICK upto : upto = at
    OBVIOUS
  <2>2. PICK later : later = at'
    OBVIOUS
  <2>3. \A x \in Inputs : upto[x] \in Nat /\ later[x] \in Nat /\ upto[x] <= later[x]
    BY <1>3, <2>1, <2>2, InputsGrow DEF RuleInv
  <2>4. PICK more : more = SpecsFor(later)
    OBVIOUS
  <2>5. \A n \in Names : specs[n] \subseteq more[n]
    BY <1>2, <2>1, <2>3, <2>4, SpecsGrow
  <2>6. Fits(RouteStatuses, more)'
    BY <1>1, <1>2, <1>3, <2>5, NextFits, FitsMore
  <2>7. BoundsInv'
    BY <1>3, NextBounds
  <2> QED
    BY <1>1, <2>2, <2>4, <2>6, <2>7 DEF RuleInv
<1>4. CASE UNCHANGED vars
  <2>1. Fits(RouteStatuses, specs)'
    BY <1>2, <1>4, OtherFits DEF vars, RuleInv
  <2>2. BoundsInv' /\ at' = at
    BY <1>4, SameBounds DEF vars, inputVars, workerVars, RuleInv, BoundsInv
  <2> QED
    BY <1>1, <1>2, <2>1, <2>2 DEF RuleInv
<1> QED
  BY <1>3, <1>4

LEMMA RuleInvTypeOK == RuleInv => TypeOK
<1> SUFFICES ASSUME RuleInv PROVE TypeOK
  OBVIOUS
<1>1. ASSUME NEW n \in Names, NEW o, ParentFits(n, o, RouteStatuses), o.exists
      PROVE  RouteOK(o)
  BY <1>1, RoutesAssumption DEF ParentFits, RouteOK, RouteStatuses
<1>2. \A n \in Names : SpecsFor(at)[n] \subseteq RuleSpecs
  BY DEF SpecsFor
<1>3. ASSUME NEW n \in Names, NEW o, ChildFits(o, SpecsFor(at)[n]), o.exists
      PROVE  RuleOK(o.spec) /\ o.status.id \in {NoId, o.uid}
  BY <1>2, <1>3 DEF ChildFits, RuleOK, RuleSpecs
<1>4. /\ pc \in {"idle", "create", "update", "status"} /\ ((key = NoKey) <=> (pc = "idle"))
      /\ key \in Names \cup {NoKey}
  BY OwnedChildAssumption DEF RuleInv, Inv, WorkerInv
<1>5. obj.exists => RouteOK(obj)
  BY <1>1, <1>4, OwnedChildAssumption DEF RuleInv, Fits, WorkerFits
<1>6. copy.exists => RuleOK(copy.spec) /\ copy.status.id \in {NoId, copy.uid}
  BY <1>3, <1>4, OwnedChildAssumption DEF RuleInv, Fits, WorkerFits
<1>7. pc \in {"create", "update"} => RuleOK(want)
  <2>1. pc \in {"create", "update"} => key \in Names /\ want \in SpecsFor(at)[key]
    BY <1>4 DEF RuleInv, Fits, WorkerFits
  <2>2. pc \in {"create", "update"} => want \in RuleSpecs
    BY <1>2, <2>1
  <2> QED
    BY <2>2 DEF RuleOK, RuleSpecs
<1>8. \A o \in {api[n] : n \in Names} \cup {cache[n] : n \in Names} \cup {obj} :
         o.exists => RouteOK(o)
  BY <1>1, <1>5 DEF RuleInv, Fits, ObjectsFit
<1>9. \A o \in {child[n] : n \in Names} \cup {known[n] : n \in Names} \cup {copy} :
         o.exists => RuleOK(o.spec) /\ o.status.id \in {NoId, o.uid}
  BY <1>3, <1>6 DEF RuleInv, Fits, ObjectsFit
<1> QED
  BY <1>4, <1>7, <1>8, <1>9 DEF TypeOK, ObjectsOK, RuleInv, BoundsInv

LEMMA RuleInvServes == RuleInv => ServesAllNumbers
<1> SUFFICES ASSUME RuleInv, NEW n \in Names, child[n].exists
             PROVE  \E s \in SpecsOf[n] :
                      \E trunk \in [s.numberRefs -> TrunkIds] :
                        /\ \A m \in s.numberRefs : trunk[m] \in TrunksSoFar(m)
                        /\ child[n].spec.trunkIDs = {trunk[m] : m \in s.numberRefs}
  BY DEF ServesAllNumbers
<1>1. child[n].spec \in SpecsFor(at)[n]
  BY DEF RuleInv, Fits, ObjectsFit, ChildFits
<1>2. PICK s \in SpecsOf[n] : Serves(s, child[n].spec.trunkIDs, at)
  BY <1>1 DEF SpecsFor
<1> QED
  BY <1>2 DEF Serves, TrunksUntil, TrunksSoFar

\* Whatever routes users write and whichever copies of routes, numbers and agents
\* reconcileDispatchRule reads, every rule it asks for names an agent, and every status it
\* writes is one the CRD allows.
THEOREM TypeCorrect == Spec => []TypeOK
<1>1. RuleInv /\ [Next]_vars => RuleInv'
  BY NextRuleInv
<1> QED
  BY <1>1, InitRuleInv, RuleInvTypeOK, PTL DEF Spec

\* collectTrunkIDs never makes a rule of a part of the numbers: whichever copies of routes and
\* numbers it reads, and whoever deletes and creates them again, each rule there is has one
\* trunk, current or former, for each number of some spec of its route, so never none.
THEOREM RuleServesAllNumbers == Spec => []ServesAllNumbers
<1>1. RuleInv /\ [Next]_vars => RuleInv'
  BY NextRuleInv
<1> QED
  BY <1>1, InitRuleInv, RuleInvServes, PTL DEF Spec
=============================================================================
