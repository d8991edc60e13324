# Verification of livekit-sip-operator

TLA+ models of the operator's controllers, TLC instances that check them, and
proofs, checked by TLAPS, of what matters most about them.  The models follow
the Go code under `src/`; where the code and its documentation part ways, the
model follows the code and a run shows the difference.

## 1. The system

The operator is one process.  Its manager (`cmd/main.go`) keeps an informer
cache of the cluster's objects and runs six controllers, each with a work queue
of object names and one worker.  An event on an object puts a name on the queue;
the worker reads the object *from the cache*, decides what to do, makes remote
calls one after another and writes the object's status.

| Part | State it keeps | Operations | Talks to |
|---|---|---|---|
| SIPInboundTrunk controller | finalizer and status (trunk id, observed generation, conditions) of each resource; one trunk per resource in LiveKit | add finalizer; look up, adopt, create, update, delete the trunk; write the status | API server, LiveKit |
| SIPOutboundTrunk controller | the same for outbound trunks | the same | API server, LiveKit |
| SIPDispatchRule controller | the same for dispatch rules, and a hash of the resolved room configuration | the same; resolve EgressConfig and storage secrets; react to EgressConfig changes | API server, LiveKit |
| SIPNumber controller | one child SIPInboundTrunk per number; the child's trunk id copied to the number's status | merge SIPTrunkConfig and inline fields; create or update the child | API server |
| AgentRoute controller | one child SIPDispatchRule per route, with the trunk ids of the referenced numbers | resolve agent and numbers; create or update the child | API server |
| LivekitAgent controller | readiness and replica counts of the agent's Deployment | copy them to the status | API server |
| Manager | the registered controllers, the leader lease | start, stop, die | all |

What is hard here, and what a unit test hardly reaches:

* the cache lags behind the API server, and behind the controller's own writes;
* a remote call can fail, or take effect and lose its answer; the process can
  die between a call to LiveKit and the status write that records it;
* users edit, delete and recreate resources between any two calls;
* a status write is refused when the object has changed since it was read;
* a single comparison (observed generation, and for rules the hash) decides
  that nothing is left to do, so that it must never hold wrongly.

For each controller that owns something in LiveKit, correctness means: the
status tells the truth, there is never a second trunk or rule, a deleted
resource takes what it made with it, and every resource converges.  For the two
composite controllers it means that the child follows its parent and what the
parent refers to, and that the parent's status follows the child.  The list of
the places where this can go wrong is `hazards` in `PROJECT.json`.

## 2. Modules

| Module | What it is |
|---|---|
| `KubeObject` | one object in the API server: versions, generations, optimistic concurrency, finalizers (external) |
| `SIPInboundTrunk` | the SIPInboundTrunk controller with its environment: cache, queue, worker, users, secrets, LiveKit, faults |
| `TrunkLifecycle` | the abstract specification: how a resource and its trunk live and go together; its own invariant is proved there |
| `TrunkRequests` | the settings of a trunk of either kind, and what a request says of them |
| `SIPOutboundTrunk` | the SIPOutboundTrunk controller: the module `SIPInboundTrunk` for the other kind |
| `SIPTrunks` | the two trunk controllers in one process, with the same LiveKit servers and secrets |
| `SIPInboundTrunk_proofs` | the inductive invariant, the safety theorems, the proof that `SIPInboundTrunk` implements `TrunkLifecycle` |
| `SIPTrunks_proofs` | that neither trunk controller disturbs the other, and that what is proved of one holds of both together |
| `SIPDispatchRule` | the SIPDispatchRule controller with its environment, the EgressConfigs and the secrets they refer to |
| `SIPDispatchRule_proofs` | its type invariant, that a resource that goes away takes its rule with it, and that a push is skipped only if LiveKit is in sync |
| `OwnedChild` | what the SIPNumber and the AgentRoute controllers share: a parent, the child it owns, the resources the child is computed from, the garbage collector, the worker |
| `SIPNumber` | the SIPNumber controller: its child is a SIPInboundTrunk, its input a SIPTrunkConfig |
| `AgentRoute` | the AgentRoute controller: its child is a SIPDispatchRule, its inputs SIPNumbers and LivekitAgents |
| `OwnedChild_proofs` | the invariants behind `OwnsWhatItShows` and the type invariants, and that every step the two controllers share preserves them |
| `SIPNumber_proofs`, `AgentRoute_proofs` | the theorems about each of the two controllers; a route's rule serves all of its numbers |
| `LivekitAgent` | the LivekitAgent controller, with the Deployments it reports on |
| `LivekitAgent_proofs` | its type invariant, and that a status reports on the Deployment its spec names |
| `MCSIPInboundTrunk`, `MCSIPTrunks`, `MCSIPDispatchRule`, `MCSIPNumber`, `MCAgentRoute`, `MCLivekitAgent` | the instances TLC checks |

### 2.1 SIPInboundTrunk: state and code

| Variable | Stands for |
|---|---|
| `api` | the object stored under each name (spec, generation, deletion timestamp, finalizer, status) |
| `watch`, `cache` | stored versions on their way to the informer, and the informer's copy, which `r.Get` reads |
| `queue` | the work queue |
| `pc`, `key`, `obj`, `draft`, `again` | the worker inside `Reconcile`: the call it makes next, the name, the object it read, the status it has changed in memory so far, and whether it will ask to be called again |
| `remote` | LiveKit: what each trunk id stands for.  `from` (the resource version a trunk was last written from) is history, never read by an action |
| `readable` | the secrets that exist with the keys that are needed |
| `abandoned` | history: the ids whose deletion failed and was logged |
| `budget` | what is left of the bounds |

`Reconcile(t)` is everything `Reconcile` does up to its first remote call; its
disjuncts are the branches of the Go function in their order: nothing to do,
deletion, finalizer missing, LiveKit secret unreadable, auth secret unreadable,
create, update, nothing changed.  Each remote call is an action of its own
(`AddFinalizer`, `ListTrunks`, `CreateTrunk`, `UpdateTrunk`, `DeleteTrunk`,
`RemoveFinalizer`, `WriteStatus`), so that users, secrets, deaths and the cache
can come between any two.  Each call succeeds, fails without effect, or takes
effect and loses its answer.  A write to the API server is refused if the object
has changed since it was read.

Abstractions, each with the reason it is harmless:

* the spec keeps the name, the server, the auth secret and its settings, of which the request
  says what `Payload` (`TrunkRequests`) makes of them: the options that `buildTrunkInfo`
  converts, and one value for all the fields it copies;
* the Ready condition is its reason; Synced, LiveKitReady, messages and
  `lastSyncedAt` are left out (they are written together with what is kept);
* secrets are read as they are now, not as a lagging cache shows them: to the
  controller both are a secret that is there or not at an arbitrary moment;
* delays (`RequeueAfter`, rate limits) are left out: the name is back on the
  queue at once, which allows every order the delays allow;
* a call takes effect before it returns; one that takes effect after its
  reconcile has given up is not modelled;
* only the controllers change LiveKit, and LiveKit never reuses an id, nor do two servers give
  out the same one (an id sent to the wrong server is unknown there, never another trunk); what the controller
  of the other kind does there is `ForeignTrunk`, an id that is gone for this one;
* after a restart the controller lists the current objects.

### 2.2 SIPOutboundTrunk and SIPTrunks

`sipoutboundtrunk_controller.go` is `sipinboundtrunk_controller.go` with other types: but for
the names, the two differ in the request (`OutboundPayload`) alone.  `SIPOutboundTrunk`
therefore instantiates `SIPInboundTrunk` for the kind `"outbound"` and names, handler by handler,
what each is a copy of.

`SIPTrunks` has the variables of `SIPInboundTrunk` twice, with prefixes `in` and `out`, but one
`remote` and one `readable`.  A step is a step of one side that leaves the private variables
of the other alone, or one of both: a secret that goes or comes back, a death of the process.
LiveKit lists and updates trunks by kind (`Live`, `Serves`) but deletes them by id alone
(`HasTrunk`).  `InboundAlone` and `OutboundAlone` look at `remote` as one controller knows it,
where the other kind's ids are `Foreign`, and say that what is seen so is a behaviour of
`SIPInboundTrunk`: what is checked and proved of one controller holds beside the other.

### 2.3 SIPDispatchRule

Variables and actions are those of `SIPInboundTrunk`, rule for trunk, with three more
variables: `egress` and `secret` say how far the history of each EgressConfig and each secret has
come, `seen` how far the informer has followed the EgressConfigs.  EgressConfigs are watched
(`EgressEvent` puts the rules that refer to it on the queue, as far as the cached list knows them);
secrets are not, so that a rotation is noticed only by the next reconcile, whatever brings it about.
`room` is the configuration the worker has resolved, and the request carries; `ComputeConfigHash` is
its digest, taken to have no collisions.

`Usable` and `Upload` stand for the four `resolve...Config` functions and `buildEncodedFileOutput`:
all references a backend needs, none (the egress worker's own storage), or an error.  All the
EgressConfigs and secrets of one reconcile are read at one moment; the configuration is not stored
anywhere else, so that reading them one after the other gives no behaviour but one with a mixture of
contents, which a later event corrects in the same way.

### 2.4 OwnedChild, SIPNumber, AgentRoute

| Variable | Stands for |
|---|---|
| `api`, `cache` | the parents (SIPNumbers, AgentRoutes) in the API server, and the informer's copies |
| `child`, `known` | the children of the same names (SIPInboundTrunks, SIPDispatchRules), and the informer's copies |
| `at`, `seen` | how far the history of each input has come, and how far the informer has seen it |
| `queue`, `pc`, `key`, `obj`, `copy`, `want`, `draft`, `again` | the work queue and the worker: `copy` is the child `CreateOrUpdate` has read, `want` what it is to become |
| `budget` | what is left of the bounds |

`Reconcile(n)` is the Go function up to its first write: nothing to do, one of the errors it
reports, or `CreateOrUpdate` having read the child.  `CreateChild`, `UpdateChild` and `WriteStatus` are
the writes.  The owner reference is the field `owner` of the child's spec, and `SetControllerReference`
replaces the reference to an earlier object of the same kind and name, as controller-runtime
does (it compares kind and name, not the uid).

The environment is reduced to what these controllers can see of it.  `Provision` and `ProvisionFails`
are the other controller at work on the child: it records an id and readiness, or the reason of a
failure, and removes the child once it may go; each incarnation of a child gets an id of its own.
`CollectChild` and `CollectParent` are the garbage collector, for background and foreground deletion.
An informer's copy lags by as much as it likes and catches up in one step: an intermediate version is
what it would have been had it caught up earlier.  `lastSyncedAt`, which changes on every reconcile of
a ready parent and so brings it back to the queue at once, is left out, as are labels.

`AgentRoute` reads the agent and the numbers of a route in one step where the code makes one `Get`
for each, so that a mixture of an earlier and a later cache does not occur.  An event comes with
each change of the cache and puts the route back on the queue, so what such a mixture wrote would
be written again; and `ServesAllNumbers` allows the numbers different moments.  Of the fields of a
rule, `trunkIDs`, the agents it dispatches and `individual` (the route's own, or by default a room
prefix made from the agent's name) are kept; the others pass through.

### 2.5 LivekitAgent

| Variable | Stands for |
|---|---|
| `api`, `cache` | the agents in the API server, and the informer's copies |
| `at`, `seen` | how far the history of each Deployment has come, and how far the informer has seen it |
| `queue`, `pc`, `key`, `obj`, `draft`, `again` | the work queue and the worker, with the status it is about to write |
| `budget` | what is left of the bounds |

The controller makes one write, of the status; `ReportHealth` and `ReportError` are what `Reconcile`
does before it, from two copies that lag apart.  Both reads are one step: nothing the controller
can see tells one from the other order, since each copy may lag as it likes.  `ReportError` sets
the observed generation and the Ready condition and leaves `ready` and the counts alone, as the
code does.  An agent has no finalizer of its own: it goes at once, or through the garbage
collector if its deletion is in the foreground, and then it is met while it is being deleted.

### 2.6 A changed livekitRef

The two trunk controllers and the SIPDispatchRule controller take a recorded id to be one of the
server that `livekitRef` names now.  If a user changes `livekitRef` after the trunk was made, the
update goes to the new server with the old id, fails, and is retried for ever; going back to the old
server repairs it.  So the liveness properties, which say that every resource ends up in sync,
carry an exception, `LeftOnOldServer`: the recorded id stands for a live trunk (or rule) on
another server, and the status does not claim to have caught up.  `FollowsServer` is
`Converges` without the exception, what the repository's README promises, and the run `moved`
shows the code breaking it.

### 2.7 Two more places where the code and its documents part

They are in the models and need no run to be seen.  `resolveAgentName` never looks at the
readiness of the LivekitAgent, although its comment (`agentroute_controller.go:172`) and
`agentroute_types.go:52` say that the route waits for it.  After a `DeploymentError` the
LivekitAgent controller leaves `status.ready` and the counts as they were
(`livekitagent_controller.go:83-88`), beside a Ready condition that is False, although
`livekitagent_types.go:53` says that the field tells whether the workload is healthy.

### 2.8 What is promised

`TrunkLifecycle` tells the same story with four variables: where each resource
stands (absent, pending, synced, deleting), which id it holds, what each id
stands for, and which deletions failed.  A resource becomes synced only with a
live trunk nobody else holds, keeps it through edits, and goes away only when
the trunk is gone or its deletion has failed.

## 3. Runs

All of them end by exploring the whole state space (or with the counterexample
they are there for).  `CHECK_DEADLOCK FALSE`: when all resources are gone and
the bounds are spent, the system rightly stops.

| Run | Instance | Checks | Shows |
|---|---|---|---|
| `safety` | 1 trunk resource; 2 edits, 1 deletion and 1 fault, or 1 edit and 2 faults, or 1 deletion and 2 faults, or 1 edit, 1 fault and an id that goes to the other kind | `TypeOK`, `ObservedTruth`, `RecordedLive`, `NoDuplicate`, `Accounted`, `RecordedTrunkReleased`, `TrunkIdKept`, `PushesAdvance`, `KeepsLifecycle`, `Converges`, `DeletionCompletes` | the status never lies, there is never a second trunk, nothing recorded is lost or overwritten by an older spec; the controller implements `TrunkLifecycle`; it converges on its one server once the secrets stay, and a deletion completes even if they do not |
| `trunkmoves` | 1 trunk resource that refers to one of 2 servers, 3 ids; 2 edits and 1 fault, or an edit, a deletion and a fault | `Converges` | it ends up in sync with the server it refers to, or, if the trunk it recorded is on the other server, behind its generation |
| `moved` | 1 trunk resource, 2 servers, 1 edit, no fault | `FollowsServer` (violated) | after an edit of `livekitRef` the old id is sent to the new server for ever; the resource is never in sync with it |
| `orphan` | 1 trunk resource, 1 deletion, no fault | `NothingLeftBehind` (violated) | a deletion between create and status write leaves the trunk behind, unlogged |
| `readiness` | 1 trunk resource, 1 fault | `ReadinessRecovers` (violated) | Ready stays False after a transient secret error |
| `samename` | 2 trunk resources with the same `spec.name` | `ObservedTruth` (violated) | the two adopt one trunk; one of them is never pushed again |
| `kinds` | 1 inbound and 1 outbound resource with the same `spec.name`, 2 servers, 3 ids; one is pointed at another server while the other is deleted and made again, or each has a fault | `StatusesTrue`, `InboundAlone`, `OutboundAlone`, `KeepsLifecycle` | each controller behaves as if it were alone; the statuses stay true when `livekitRef` is edited; no resource records or deletes a trunk of the other kind |
| `rules` | 1 rule with an EgressConfig that appears, is misconfigured and changes; its storage credentials are rotated; an edit, of the server too, an outage of the LiveKit credentials, a deletion, faults | `TypeOK`, `SkipIsSound`, `RecordedRuleReleased`, `EgressFollowed`, `RotationFollowed` | no push that is due is skipped; nothing recorded is left behind; every change of an EgressConfig reaches LiveKit, unless the rule was left on the other server, and rotated credentials with the next resync |
| `revert` | 1 rule with an EgressConfig that is changed and changed back, 1 fault | `EgressFollowed` (violated) | the recorded hash matches again although LiveKit holds the content that was taken back |
| `numbers` | 1 number; once deleted and created again, once with 2 other events | `TypeOK`, `OwnsWhatItShows`, `MirrorsTrunk`, `ChildrenCollected` | a number shows only a trunk it owns; trunk and status end up as number and SIPTrunkConfig say; the trunk goes with its number |
| `routes` | 1 route, 2 numbers, 1 agent, with or without settings of its own; the same two scenarios | `TypeOK`, `ServesAllNumbers`, `RouteFollows` | a rule serves all the numbers of its route or is left as it is; it ends up with their trunks and the agent's name |
| `agents` | 2 agents, one of which is renamed and moved between 2 Deployments that are scaled, go and come back; 3 events of any kind, or a deletion and one event | `TypeOK`, `ReportsItsDeployment`, `HealthFollows` | a status that has caught up shows the health, at one moment, of the Deployment the spec names; in the end it shows that of now |

### Bounds

`Budgets` is, in every module, a set of budgets, one of which a behaviour starts with:
so many edits, delete requests, faults (failing calls, lost answers, lost secrets, deaths)
and other events.  Several small budgets reach the cases that matter with fewer states than
one large one.

*SIPInboundTrunk.*  Two edits are the least with which an older spec can be pushed over a
newer one; one deletion lets a name be used twice, so that a stale copy of the first
object can meet the second; two faults allow a lost answer followed by a death or a failed
status write.  Two ids suffice for one resource: a second trunk is what `NoDuplicate`
looks for.  A server with no id left refuses a creation.  `others` bounds the ids that go to
trunks of the other kind.

In `safety` there is one server: `NoDuplicate` and `Accounted` fail if `livekitRef` is edited
(the lookup by name then asks the wrong server), so the properties that hold in spite of such
edits are checked elsewhere: `Converges` in `trunkmoves`, `StatusesTrue` and `KeepsLifecycle` in
`kinds`.  `trunkmoves` has a third id, because a server may be left with a trunk whose id was
never recorded, twice.  With fewer, creations fail for want of an id, which is no failure of
the code.

*SIPTrunks.*  The budget is a pair, one for each side; a lost secret or a death is paid
for by both.  Three ids allow each side its trunk and one of them a second one, after a
recreation.  Ids are interchangeable (`IdSymmetry`): nothing orders or chooses them.

*SIPDispatchRule, OwnedChild, LivekitAgent.*  `EgressHistory`, `SecretHistory` and `History`
list the contents an outside object successively has; which part of a history a behaviour
reaches, and when, is free.  The histories of `rules` do not come back to an earlier
content, that of `revert` does.  In `rules` an edit may
change the server; the scenario with a rotation has no edit, so `RotationFollowed` meets
none, and `EgressFollowed` does.

*Numbers and routes.*  One deletion followed by a new creation, together with one reconcile
of the deleted object from the cache (`ghosts`: each may create a child that the
collector deletes again, which would go on as long as the cache lags); or two
events of any kind: an edit, a change of an input, a child deleted by hand, a
failing call, a lost answer, a failure in LiveKit, a death.  Two events are enough
for an input to go and come back changed, and for a failure during a change.  The scenario
with a deletion has no failing call, so `ChildrenCollected` is checked without one, and no
scenario has a user who edits the child's spec by hand (one may delete the child).

*Agents.*  Three events allow an edit, a change of the Deployment and a failing write in any
order; the Deployments pass through the default number of replicas, a surplus, a shortage,
none asked for, and absence.

### Fairness

`Spec` assumes that the informers deliver what is stored (`WF` of `WatchEvent`, and of
the events of EgressConfigs, children and inputs), that a name on the queue is taken in
the end (`SF` of `Reconcile(t)`: the queue is first in first out, a name may leave it
only by being taken, and it is taken only while the worker is idle, again and again),
and that every call returns (`WF` of `Call`).  controller-runtime provides the first two; the third is the
time-out of the HTTP clients.  Nothing is assumed of users, secrets or faults;
the periodic resync is ten hours apart and no property of the trunks rests on it.
`RotationFollowed` alone has the resync as its premise: nothing else brings a rotated secret to
the controller's notice.  In `OwnedChild` the garbage collector and the controller of the
children are assumed to do their work in the end (`WF` of `CollectChild`, `CollectParent`,
`Provision`); the liveness of the trunks is what `safety` shows of that controller.

## 4. Proofs

The theorems about SIPInboundTrunk hold for any number of resources, ids, specs and any
bounds.  Constants are assumed to be what `SpecsAssumption`, `MarkersAssumption` and
`BudgetsAssumption` say, which TLC evaluates on every run.

* `TypeCorrect`: `TypeOK`, without further assumptions.
* `StatusTellsTheTruth`, `RecordedTrunkLives`, `RecordedIdStays`,
  `TrunkReleasedFirst`, `OldSpecsStayAway`: the invariants and action properties
  of `safety`, under `OwnNamesOnly` (no two resources ask for the same name on the
  same server; the run `samename` shows why it is needed).
* `OneTrunkEach`: at most one trunk per resource, if moreover names and servers
  are not edited (`NamesStay`).
* `TrunksAreAccounted`: every live trunk is recorded, or its failed deletion was
  noted, or the lookup by name will still find it, if names are not edited.  It
  follows from `IndInv` and from there being one trunk for a resource at most.
* `OwnTrunks`, in `TrunkLifecycle`: no trunk is held twice, a synced resource's
  trunk is live.
* `ImplementsLifecycle`: `Spec => KeepsLifecycle`, under `OwnNamesOnly`; `NoSharedTrunk`
  carries `OwnTrunks` over to the controller.

The inductive invariant `IndInv` says what stale copies may be like.  Its parts:
`VersionsInv` (the cached copy and every version on its way is an earlier version
of the stored object, in the order of uid and generation, and never older than what
the status records), `WorkerInv` (what the worker's own copy and its half-made
status may look like at each call; in particular, a status that claims the
current generation is about to be written only if LiveKit already has what that
copy asked for, and then a concurrent edit makes the write fail), `RemoteInv`
(every live trunk was written for a spec of its resource, from a version no later
than the cached one).  `ObservedTruth` alone is not inductive: nothing in it rules
out a worker with a forged draft.  TLC checked `IndInv` on the instance of
`safety` and on a pair with two deletions before it was proved.

Each action has a lemma of its own, with one step per part of `IndInv` it can
disturb; the temporal step is the last of `InvariantHolds`.

`SIPTrunks_proofs` is about the two trunk controllers with the LiveKit they share, for any
number of resources of either kind, from the assumptions of `SIPTrunks` (no resource is of
both kinds; the rest is what one controller assumes, twice).  `InboundUndisturbed` and
`OutboundUndisturbed` state `InboundAlone` and `OutboundAlone`: through `OfKind`, which shows
a controller the other kind's ids as foreign, every step of the controller itself is the
same step of the controller alone, and every step of the other is `ForeignTrunk` or nothing.
Its `Inv` says that each id is unused or of one kind, and that every id a resource, a copy of
one or the worker has is of the resource's kind (`OwnIds` of `SIPInboundTrunk`, inductive
with `TypeOK`).  Without `OwnIds` the update and the delete by id, which look at no kind,
could reach the other's trunks; without the lookup's kind (`Live`) `OwnIds` could not be kept.
No assumption is made on names: an inbound and an outbound resource may ask for the same one.

The theorems about one controller are then used of each of the two: `SIPInboundTrunk_proofs`
is instantiated for both, with LiveKit as each sees it, and `IndInv` holds of both if the
names are each kind's own (`OwnNamesOnly` of `SIPTrunks_proofs`, which two resources of
different kinds satisfy whatever their names; the instance of `kinds` is of that sort).
`StatusesAreTrue` states `StatusesTrue` of the shared LiveKit.  `LifecycleTogether` states
`KeepsLifecycle`: a step of one side's lifecycle is a step of the lifecycle of all resources,
because a resource of the other kind holds none of the ids the step is about (`Looks`).
`NoTrunkOfTwo` follows by `OwnTrunks`.

`NumberOwnsWhatItShows` and `RouteOwnsWhatItShows` state `OwnsWhatItShows` of the two
controllers that own a child, for any names, specs, inputs and histories and for any
bounds, from `OwnedChildAssumption` alone.  Most of the proof is shared: the invariant
`Inv` of `OwnedChild_proofs` is preserved by every step of `CommonNext`, by a creation that
shows no id, and by the two ways a reconcile can start (an error, or `KeepChild` with the
parent that was read as owner); the two modules that extend it show that their controllers
start in no other way.  `OwnsWhatItShows` alone is not inductive, as it says nothing of what
the worker has in its hands.  `Inv` adds the order of incarnations: the copies of a parent
are never newer than the parent (`VersionsInv`); the owners a child, or a copy of it, has
are never newer than the parent the worker has last read, or will read, and only grow
(`OwnersInv`); and a parent, a copy of one or a status about to be written that shows an id
goes with a child that has no older owner (`ClaimsInv`).  Owners from above and claims from
below leave only one incarnation.  TLC checked `Inv` on the instance of `numbers` first.
The status write needs optimistic concurrency: it is accepted only if the parent is still
the version that was read, hence the incarnation the claim was made for.

The same two modules prove `TypeCorrect` of their controllers.  The part of `TypeOK` that is
not a typing is that a cache's position in the history of an input, and the history's own,
stay within the history, and that versions on their way lie between them (`BoundsInv`, whose
steps are in `OwnedChild_proofs`).  `RuleServesAllNumbers` states `ServesAllNumbers`: a
dispatch rule that a route owns serves exactly the trunks its numbers had, all of them, at one
reading of the caches.  Its invariant (`RuleInv`) says so of the stored child, of the copy in
the cache, of the versions on their way, and of the child the worker is about to write: a
merge that keeps some of what was there would break it.

`SIPDispatchRule_proofs` proves `TypeCorrect` and `RecordedIsReleased` (`TypeOK` and
`RecordedRuleReleased`) for any number of rules, which the run can afford only one of, and
without any assumption on their names: two resources may well share a rule by adoption.
From `SpecsAssumption`, `HistoryAssumption`, `MarkersAssumption`, `BudgetsAssumption`.
`RecordedRuleReleased` speaks of the two writes that remove an object.  A delete request
removes one without a finalizer, and the invariant `Inv` has it that an object which records
an id has the finalizer (`Sound`), because the worker writes an id only into an object that
it has read with one.  The worker's last write removes an object from which it has read the
id it has deleted, or noted (`WorkerInv`), and which is still the version it read
(`CopyOf`: copies agree with what is stored if their resource versions do).  In between,
no call makes a rule of an id that is no longer one: ids once handed out stay so (`Handed`).

`SkippingIsSound` states `SkipIsSound`: `reconcileUpdate` skips a push only when LiveKit has
the rule as the spec, the EgressConfigs and the secrets, as the worker reads them, ask for.
Its hypotheses are those of the code's reasoning, not of the proof's convenience.
`OwnNamesOnly`: two resources that share a name share the rule by adoption and overwrite each
other (`samename` shows it of trunks).  `NothingReturns`: the sources do not come back to a
room configuration they have left; without it the property is false, and the run `revert`
shows how.  `HashesAreNotEmpty`: no configuration's digest is the empty string of a status that
has none.  The instance of `rules` satisfies the three.  The invariant (`SkipInv`) names the
moments of the sources' histories: the recorded hash is that of a moment *i*, LiveKit's rule
was last written at a moment *j*, and *i*, *j* and now come in this order (`TrueUpTo`); so if
what is wanted now hashes as it did at *i*, nothing has changed between *i* and now, and what
was pushed at *j* is what is wanted.  Around it: what the worker has in its hands was read no
earlier than what is recorded (`HandsInv`, `RoomInv`); copies of an object are never ahead of
it (`VersionsInv`); and an id a status records is that of a rule with a name and server of
this resource's own (`Mine`).  TLC checked `SkipInv` on the instance of `rules` before it was
proved; with `NothingReturns` taken away, the proof fails at the step that uses it.

`LivekitAgent_proofs` proves `TypeCorrect` and `StatusTellsItsDeployment` (`TypeOK` and
`ReportsItsDeployment`) from `LivekitAgentAssumption`.  Its `Inv` relates the status in the
worker's hands to the copy it was made from (`WorkerInv`), says that no status claims a
generation to come and that one which claims the current one tells of the Deployment the
spec names (`Truthful`), and again that copies agree with what is stored if their versions
do.  What is told of a Deployment is told of its past, which only grows (`TellsOn`).

Only model-checked: the liveness properties (liveness under fairness is beyond the prover).
Those of `rules` are about one rule: two that share a name also share a rule.

## 5. What is left

### The plan

Modelled so far, in this order: the SIPInboundTrunk controller (with its abstract
specification and its proofs), the SIPDispatchRule controller, the two controllers that own
a child, SIPNumber and AgentRoute, over a common module, with the proof that what they show
is theirs, the SIPOutboundTrunk controller and its composition with SIPInboundTrunk, and the
LivekitAgent controller.  Every safety property that a run checks is a theorem.  What comes
next, the most important first:

1. *Composition.*  SIPNumber with SIPInboundTrunk, in place of `Provision`: a number's trunk
   id is that of a live trunk in LiveKit.  AgentRoute with SIPNumber, in place of the
   histories: the trunks of a rule are those of its numbers.  An abstract specification of a
   parent and its child that both controllers implement.

### Not modelled, and why

Set-up code (`cmd/main.go` apart from start, death and leadership), metrics, probes, generated
code, manifests and charts keep no state of their own.  The text of conditions, labels,
`lastSyncedAt` and events of the Kubernetes event log are left out.  A LiveKit call that takes
effect after its reconcile has given up, what others change in LiveKit (other than the
trunks they create, which the trunk models have), and a second operator that
still works after losing its lease are outside the models.
