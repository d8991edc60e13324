------------------------------ MODULE SIPTrunks ------------------------------
(***************************************************************************)
(* The two trunk controllers side by side, as main registers them: two     *)
(* kinds of resources, each with its API objects, informer, queue and      *)
(* worker, in one process, with the same LiveKit servers and secrets.      *)
(* LiveKit lists the trunks of a kind apart, and deletes by id alone.      *)
(***************************************************************************)
EXTENDS Naturals, FiniteSets, TrunkRequests

CONSTANTS
  InTrunks, OutTrunks,      \* names of the resources of each kind
  Names, Servers, AuthSecrets, NoSecret,
  InSpecsOf, OutSpecsOf,    \* the specs users ever give each resource
  Ids, NoId, NoKey,
  Budgets                   \* bounds: pairs, for the inbound and the outbound side

ASSUME KindsAssumption == InTrunks \cap OutTrunks = {} /\ InTrunks # {} /\ OutTrunks # {}

ASSUME MarkersAssumption ==
  /\ IsFiniteSet(Ids) /\ NoId \notin Ids
  /\ NoKey \notin InTrunks \cup OutTrunks
  /\ NoSecret \notin AuthSecrets

VARIABLES
  inApi, inWatch, inCache, inQueue, inPc, inKey, inObj, inDraft, inAgain, inAbandoned,
  inBudget,
  outApi, outWatch, outCache, outQueue, outPc, outKey, outObj, outDraft, outAgain,
  outAbandoned, outBudget,
  remote, readable          \* what the two controllers share

inVars == <<inApi, inWatch, inCache, inQueue, inPc, inKey, inObj, inDraft, inAgain,
            inAbandoned, inBudget>>
outVars == <<outApi, outWatch, outCache, outQueue, outPc, outKey, outObj, outDraft,
             outAgain, outAbandoned, outBudget>>
vars == <<inVars, outVars, remote, readable>>

In == INSTANCE SIPInboundTrunk WITH
  Kind <- "inbound", Settings <- InboundSettings, Payload <- InboundPayload,
  Trunks <- InTrunks, SpecsOf <- InSpecsOf, Budgets <- {b.inbound : b \in Budgets},
  api <- inApi, watch <- inWatch, cache <- inCache, queue <- inQueue, pc <- inPc,
  key <- inKey, obj <- inObj, draft <- inDraft, again <- inAgain,
  abandoned <- inAbandoned, budget <- inBudget

Out == INSTANCE SIPOutboundTrunk WITH
  Trunks <- OutTrunks, SpecsOf <- OutSpecsOf, Budgets <- {b.outbound : b \in Budgets},
  api <- outApi, watch <- outWatch, cache <- outCache, queue <- outQueue, pc <- outPc,
  key <- outKey, obj <- outObj, draft <- outDraft, again <- outAgain,
  abandoned <- outAbandoned, budget <- outBudget

ASSUME SpecsAssumption ==
  /\ InSpecsOf \in [InTrunks -> SUBSET In!TrunkSpec]
  /\ OutSpecsOf \in [OutTrunks -> SUBSET Out!SIPOutboundTrunkSpec]
  /\ \A t \in InTrunks : InSpecsOf[t] # {}
  /\ \A t \in OutTrunks : OutSpecsOf[t] # {}

ASSUME BudgetsAssumption ==
  /\ Budgets \subseteq [inbound: [In!Events -> Nat], outbound: [In!Events -> Nat]]
  /\ Budgets # {}

Init == In!Init /\ Out!Init /\ [inbound |-> inBudget, outbound |-> outBudget] \in Budgets

\* Users of one kind of resources, or the controller for it.
Inbound == (In!Users \/ In!Controller) /\ UNCHANGED outVars
Outbound == (Out!Trunk!Users \/ Out!Controller) /\ UNCHANGED inVars

\* What happens to the secrets and to the process happens to both.
Shared ==
  \/ In!SecretLost /\ Out!Trunk!SecretLost
  \/ In!SecretRestored /\ Out!Trunk!SecretRestored
  \/ In!Restart /\ Out!Trunk!Restart

Next == Inbound \/ Outbound \/ Shared

Spec == Init /\ [][Next]_vars

----------------------------------------------------------------------------
\* Properties.

\* Both kinds' statuses tell the truth of the LiveKit they share, even when a resource
\* is pointed at another server after its trunk was made.
StatusesTrue == In!ObservedTruth /\ Out!Trunk!ObservedTruth

\* LiveKit as the controller of one kind has it: the other kind's ids are foreign.
OfKind(kind) ==
  [id \in Ids |-> IF remote[id].state # "unused" /\ remote[id].kind # kind THEN In!Foreign
                                                                          ELSE remote[id]]

\* Any id may be the other kind's.
AnyOthers(bounds) == [bounds EXCEPT !["others"] = Cardinality(Ids)]

InView == INSTANCE SIPInboundTrunk WITH
  Kind <- "inbound", Settings <- InboundSettings, Payload <- InboundPayload,
  Trunks <- InTrunks, SpecsOf <- InSpecsOf,
  Budgets <- {AnyOthers(b.inbound) : b \in Budgets},
  api <- inApi, watch <- inWatch, cache <- inCache, queue <- inQueue, pc <- inPc,
  key <- inKey, obj <- inObj, draft <- inDraft, again <- inAgain,
  abandoned <- inAbandoned, budget <- AnyOthers(inBudget),
  remote <- OfKind("inbound")

OutView == INSTANCE SIPOutboundTrunk WITH
  Trunks <- OutTrunks, SpecsOf <- OutSpecsOf,
  Budgets <- {AnyOthers(b.outbound) : b \in Budgets},
  api <- outApi, watch <- outWatch, cache <- outCache, queue <- outQueue, pc <- outPc,
  key <- outKey, obj <- outObj, draft <- outDraft, again <- outAgain,
  abandoned <- outAbandoned, budget <- AnyOthers(outBudget),
  remote <- OfKind("outbound")

\* Neither controller notices the other, though they share servers, secrets and names
\* of trunks: what is shown of the inbound controller alone holds with both at work.
InboundAlone == InView!Init /\ [][InView!Next]_(InView!vars)

\* The same of the outbound controller.
OutboundAlone == OutView!Init /\ [][OutView!Next]_(OutView!vars)

Both(inbound, outbound) ==
  [t \in InTrunks \cup OutTrunks |-> IF t \in InTrunks THEN inbound[t] ELSE outbound[t]]

phases == Both(In!phases, Out!Trunk!phases)
holds  == Both(In!holds, Out!Trunk!holds)
states == [id \in Ids |-> remote[id].state]

Lifecycle == INSTANCE TrunkLifecycle WITH
  Trunks <- InTrunks \cup OutTrunks,
  phase <- phases, held <- holds, trunk <- states, lost <- inAbandoned \cup outAbandoned

\* The two together keep the promise of one: in particular no resource records a trunk
\* that is recorded by one of the other kind, or deletes one.
KeepsLifecycle == Lifecycle!Spec
=============================================================================
