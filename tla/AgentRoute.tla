----------------------------- MODULE AgentRoute -----------------------------
(***************************************************************************)
(* The AgentRoute controller (internal/controller/agentroute_controller.go):*)
(* for each AgentRoute it keeps a child SIPDispatchRule of the same name   *)
(* (OwnedChild) that sends the calls on the trunks of some SIPNumbers to   *)
(* an agent.  Its inputs are the SIPNumbers, of which it reads the trunk   *)
(* id they show, and the LivekitAgents.                                    *)
(***************************************************************************)
EXTENDS OwnedChild

CONSTANTS
  SIPNumbers,  \* the inputs that are SIPNumbers; content: the trunk id, or NoTrunk
  Agents,      \* the inputs that are LivekitAgents; content: its name, whether it is ready
  TrunkIds,    \* trunk ids
  NoTrunk,     \* status.trunkID of a SIPNumber is ""
  AgentNames,  \* the names agents register under
  Individuals, \* settings of individual rules: the room prefix and the pin
  Unset        \* a field of the spec is not set

RouteSpec ==
  [agentName: AgentNames \cup {Unset}, agentRef: Agents \cup {Unset},
   numberRefs: SUBSET SIPNumbers \ {{}},
   individual: Individuals \cup {Unset}, agents: AgentNames \cup {Unset}]

ASSUME RoutesAssumption ==
  /\ \A n \in Names : SpecsOf[n] \subseteq RouteSpec
  /\ Inputs = SIPNumbers \cup Agents /\ SIPNumbers \cap Agents = {}
  /\ \A m \in SIPNumbers : \A i \in DOMAIN History[m] :
       History[m][i] \in TrunkIds \cup {NoTrunk, Missing}
  /\ \A a \in Agents : \A i \in DOMAIN History[a] :
       History[a][i] \in [agentName: AgentNames, ready: BOOLEAN] \cup {Missing}
  /\ NoTrunk \notin TrunkIds /\ Unset \notin AgentNames \cup Agents

NewStatus == [id |-> NoId, observedGeneration |-> 0, ready |-> "Unset", trunkIDs |-> {}]

ReadyReasons == {"Unset", "Ready", "Pending", "AgentResolutionError", "InvalidSpec",
                 "TrunkIDCollectionError", "NumbersPending", "SyncFailed", "CreateFailed",
                 "UpdateFailed"}

RouteOK(o) ==
  /\ o.spec \in RouteSpec
  /\ o.status \in [id: Nat, observedGeneration: Nat, ready: ReadyReasons,
                   trunkIDs: SUBSET TrunkIds]

RuleOK(spec) ==
  spec \in [owner: Nat, trunkIDs: SUBSET TrunkIds, individual: AgentNames \cup Individuals,
            agents: AgentNames]

\* Values stay in their types; in particular no rule is ever asked for without an agent.
TypeOK == ObjectsOK(RouteOK, RuleOK)

----------------------------------------------------------------------------
\* resolveAgentName: the name the LivekitAgent has that agentRef names, else agentName.

AgentMissing(spec, upto) ==
  spec.agentRef # Unset /\ Content(spec.agentRef, upto) = Missing

AgentName(spec, upto) ==
  IF spec.agentRef # Unset THEN Content(spec.agentRef, upto).agentName ELSE spec.agentName

AgentError(n) ==
  /\ TakeLive(n)
  /\ AgentMissing(cache[n].spec, seen)
  /\ Failed(cache[n], "AgentResolutionError")

\* Slip: the name is used whatever it is.
HasAgent_Any(spec, upto) == ~AgentMissing(spec, upto)

HasAgent(spec, upto) == ~AgentMissing(spec, upto) /\ AgentName(spec, upto) # Unset

NoAgent(n) ==
  /\ TakeLive(n)
  /\ ~AgentMissing(cache[n].spec, seen) /\ ~HasAgent(cache[n].spec, seen)
  /\ Failed(cache[n], "InvalidSpec")

\* collectTrunkIDs: the trunks of all the numbers, if they are there and have one.  The
\* agent and the numbers are read in one step here, in the code with a Get each.

Trunks(spec, upto) == {Content(m, upto) : m \in spec.numberRefs} \ {NoTrunk}

SomeMissing(spec, upto) == \E m \in spec.numberRefs : Content(m, upto) = Missing

\* Slip: one number with a trunk is enough to go on.
Pending_All(spec, upto) == \A m \in spec.numberRefs : Content(m, upto) = NoTrunk

Pending(spec, upto) == \E m \in spec.numberRefs : Content(m, upto) = NoTrunk

NumberError(n) ==
  /\ TakeLive(n)
  /\ HasAgent(cache[n].spec, seen)
  /\ SomeMissing(cache[n].spec, seen)
  /\ Failed(cache[n], "TrunkIDCollectionError")

NumbersPending(n) ==
  /\ TakeLive(n)
  /\ HasAgent(cache[n].spec, seen)
  /\ ~SomeMissing(cache[n].spec, seen) /\ Pending(cache[n].spec, seen)
  /\ Failed(cache[n], "NumbersPending")

\* A rule can be made of the route.
Resolvable(spec, upto) ==
  HasAgent(spec, upto) /\ ~SomeMissing(spec, upto) /\ ~Pending(spec, upto)

\* What reconcileDispatchRule makes of the child: it belongs to the route o, has the trunks
\* of its numbers, names rooms after the agent unless the route has settings of its own, and
\* dispatches that agent unless the route lists agents itself (buildRoomConfig).
DesiredRule(o, upto) ==
  LET agent == AgentName(o.spec, upto) IN
    [owner |-> o.uid, trunkIDs |-> Trunks(o.spec, upto),
     individual |-> IF o.spec.individual # Unset THEN o.spec.individual ELSE agent,
     agents |-> IF o.spec.agents # Unset THEN o.spec.agents ELSE agent]

\* The status the route gets from its child's.
Propagated(o, trunks, rule) ==
  [id |-> rule.id, observedGeneration |-> o.generation, ready |-> Readiness(rule),
   trunkIDs |-> trunks]

KeepRule(n) ==
  /\ TakeLive(n)
  /\ Resolvable(cache[n].spec, seen)
  /\ KeepChild(n, DesiredRule(cache[n], seen),
               Propagated(cache[n], Trunks(cache[n].spec, seen), StatusRead(n)))

\* Slip: LivekitAgents are not watched.
FindRoutes_NumbersOnly(x) == {n \in Names : cache[n].exists /\ x \in cache[n].spec.numberRefs}

\* findAgentRoutesForSIPNumber, findAgentRoutesForLivekitAgent: the cached routes that
\* refer to x.
FindRoutes(x) ==
  {n \in Names : /\ cache[n].exists
                 /\ x \in cache[n].spec.numberRefs \/ x = cache[n].spec.agentRef}

----------------------------------------------------------------------------
Start(n) == AgentError(n) \/ NoAgent(n) \/ NumberError(n) \/ NumbersPending(n) \/ KeepRule(n)

Reconcile(n) == SkipReconcile(n) \/ Start(n)

Next ==
  \/ CommonNext
  \/ \E n \in Names : UserCreate(n, NewStatus) \/ Start(n)
  \/ \E x \in Inputs : InputEvent(x, FindRoutes(x))

Fairness ==
  /\ CommonFairness
  /\ \A n \in Names : SF_vars(Reconcile(n))
  /\ \A x \in Inputs : WF_vars(InputEvent(x, FindRoutes(x)))

Spec == Init /\ [][Next]_vars /\ Fairness

----------------------------------------------------------------------------
\* Properties.

\* The trunks number m has had so far.
TrunksSoFar(m) == {History[m][i] : i \in 1..at[m]} \cap TrunkIds

\* A rule serves all the numbers its route lists, never a part of them: its trunks are those
\* the numbers of some spec of the route have had, one for each.  So a number that loses its
\* trunk for a while does not silently drop out of the rule; and a rule never comes to list
\* no trunk at all, which LiveKit would take for one that matches the calls of every trunk
\* of the server.
ServesAllNumbers ==
  \A n \in Names :
    child[n].exists =>
      \E s \in SpecsOf[n] :
        \E trunk \in [s.numberRefs -> TrunkIds] :
          /\ \A m \in s.numberRefs : trunk[m] \in TrunksSoFar(m)
          /\ child[n].spec.trunkIDs = {trunk[m] : m \in s.numberRefs}

\* The route stays and a rule can be made of it.
Feasible(o) == o.exists /\ ~o.deleting /\ Resolvable(o.spec, at)

\* In the end the rule has the trunks the route's numbers have and the agent it names, and
\* the route's status shows the rule's id and readiness and those trunks: no change of a
\* route, a number, an agent or a rule is lost between the caches, nor any failed write.
RouteFollows ==
  \A n \in Names :
    <>[](Feasible(api[n]) =>
           /\ child[n].exists /\ ~child[n].deleting
           /\ child[n].spec = DesiredRule(api[n], at)
           /\ api[n].status = Propagated(api[n], Trunks(api[n].spec, at), child[n].status))
=============================================================================
