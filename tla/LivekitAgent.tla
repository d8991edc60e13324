---------------------------- MODULE LivekitAgent ----------------------------
(***************************************************************************)
(* The LivekitAgent controller                                             *)
(* (internal/controller/livekitagent_controller.go): it reports in the     *)
(* status of each LivekitAgent how the Deployment does that runs the       *)
(* agent.                                                                  *)
(*                                                                         *)
(* It writes nothing but that status.  What it has to live with is that    *)
(* its copies of the agent and of the Deployment lag, each at its own      *)
(* pace, that users point the agent to another Deployment or scale and     *)
(* delete the Deployment at any time, and that status writes fail.         *)
(***************************************************************************)
EXTENDS Sequences, KubeObject

CONSTANTS
  Agents,       \* names of the LivekitAgents
  Deployments,  \* names of the Deployments
  AgentNames,   \* values of spec.agentName
  SpecsOf,      \* SpecsOf[n]: the specs users ever give agent n
  History,      \* History[d]: the states Deployment d successively has
  Missing,      \* the state of a Deployment that does not exist
  Unset,        \* an optional field is not set
  Nothing,      \* stands for a spec or a status nobody has written
  NoKey,        \* the worker holds no key
  Budgets       \* bounds: how many of each kind of event a behaviour may have

AgentSpec == [agentName: AgentNames, deploymentRef: Deployments \cup {Unset}]

\* spec.replicas and status.availableReplicas of a Deployment.
DeploymentState == [replicas: Nat \cup {Unset}, available: Nat]

\* Delete requests; and other events (edits, changes of Deployments, faults).
Kinds == {"deletes", "events"}

ASSUME LivekitAgentAssumption ==
  /\ \A n \in Agents : SpecsOf[n] # {} /\ SpecsOf[n] \subseteq AgentSpec
  /\ \A d \in Deployments :
       History[d] # <<>> /\ History[d] \in Seq(DeploymentState \cup {Missing})
  /\ NoKey \notin Agents
  /\ Unset \notin Deployments \cup Nat
  /\ Missing \notin DeploymentState
  /\ Budgets \subseteq [Kinds -> Nat] /\ Budgets # {}

VARIABLES
  api,      \* the agents in the API server
  cache,    \* the informer's copies
  at,       \* how far the history of each Deployment has come
  seen,     \* and how far the informer has seen it
  queue,    \* the work queue
  pc, key,  \* the worker: the call it makes next, the name it is reconciling
  obj,      \* the agent it has read
  draft,    \* the status it is going to write
  again,    \* whether it asks to be called again
  budget    \* what is left of the bounds

workerVars == <<pc, key, obj, draft, again>>
vars == <<api, cache, at, seen, queue, workerVars, budget>>

Absent == NeverCreated(Nothing, Nothing)

\* The status: the observed generation, the flag and the two counts, and the reason of the
\* Ready condition, which is True exactly if that is "Ready".
Reasons == {"Unset", "Ready", "DeploymentError", "Degraded", "Unavailable"}

AgentStatus == [observedGeneration: Nat, ready: BOOLEAN, replicas: Nat, available: Nat,
                reason: Reasons]

NewStatus == [observedGeneration |-> 0, ready |-> FALSE, replicas |-> 0, available |-> 0,
              reason |-> "Unset"]

AgentOK(o) == o.exists => o.spec \in AgentSpec /\ o.status \in AgentStatus

TypeOK ==
  /\ \A n \in Agents : AgentOK(api[n]) /\ AgentOK(cache[n])
  /\ AgentOK(obj)
  /\ \A d \in Deployments : at[d] \in 1..Len(History[d]) /\ seen[d] \in 1..at[d]
  /\ queue \in SUBSET Agents /\ key \in Agents \cup {NoKey} /\ again \in BOOLEAN
  /\ pc \in {"idle", "status"} /\ ((key = NoKey) <=> (pc = "idle"))
  /\ pc = "status" => obj.exists /\ draft \in AgentStatus
  /\ budget \in [Kinds -> Nat]

----------------------------------------------------------------------------
\* Environment: users, and the controllers that run the Deployments.

Spend(kind) == budget[kind] > 0 /\ budget' = [budget EXCEPT ![kind] = @ - 1]

Store(n, o) == api' = [api EXCEPT ![n] = o] /\ UNCHANGED cache

UserCreate(n) ==
  /\ ~api[n].exists
  /\ \E s \in SpecsOf[n] : Store(n, Creation(api[n], s, NewStatus))
  /\ UNCHANGED <<at, seen, queue, workerVars, budget>>

UserEdit(n) ==
  /\ api[n].exists
  /\ Spend("events")
  /\ \E s \in SpecsOf[n] \ {api[n].spec} : Store(n, SpecEdit(api[n], s))
  /\ UNCHANGED <<at, seen, queue, workerVars>>

\* An agent has no finalizer: it goes at once, unless its deletion is in the foreground,
\* which puts a finalizer on it ...
UserDelete(n) ==
  /\ api[n].exists /\ ~api[n].deleting
  /\ Spend("deletes")
  /\ \E foreground \in BOOLEAN :
       Store(n, DeleteRequest([api[n] EXCEPT !.finalizer = foreground]))
  /\ UNCHANGED <<at, seen, queue, workerVars>>

\* ... that the garbage collector takes away.
Collect(n) ==
  /\ api[n].exists /\ api[n].deleting
  /\ Store(n, Removal(api[n]))
  /\ UNCHANGED <<at, seen, queue, workerVars, budget>>

DeploymentChange(d) ==
  /\ at[d] < Len(History[d])
  /\ Spend("events")
  /\ at' = [at EXCEPT ![d] = @ + 1]
  /\ UNCHANGED <<api, cache, seen, queue, workerVars>>

----------------------------------------------------------------------------
\* The manager: informers, work queue, process.

\* An informer's copy lags by as much as it likes, and catches up in one step.
WatchEvent(n) ==
  /\ cache[n] # api[n]
  /\ cache' = [cache EXCEPT ![n] = api[n]]
  /\ queue' = queue \cup {n}
  /\ UNCHANGED <<api, at, seen, workerVars, budget>>

\* Slip: one agent is enough.
FindAgents_First(d) ==
  LET users == {n \in Agents : cache[n].exists /\ cache[n].spec.deploymentRef = d}
  IN {n \in users : n = CHOOSE m \in users : TRUE}

\* findAgentsForDeployment: the cached agents that refer to d.
FindAgents(d) == {n \in Agents : cache[n].exists /\ cache[n].spec.deploymentRef = d}

DeploymentEvent(d) ==
  /\ seen[d] # at[d]
  /\ seen' = [seen EXCEPT ![d] = at[d]]
  /\ queue' = queue \cup FindAgents(d)
  /\ UNCHANGED <<api, cache, at, workerVars, budget>>

Idle == pc' = "idle" /\ key' = NoKey /\ obj' = Absent /\ draft' = Nothing /\ again' = FALSE

\* A new process lists everything and remembers nothing.
Restart ==
  /\ Spend("events")
  /\ cache' = api /\ seen' = at
  /\ queue' = {n \in Agents : api[n].exists}
  /\ Idle
  /\ UNCHANGED <<api, at>>

----------------------------------------------------------------------------
\* Reconcile.  Both reads are from the informers' copies, and are one step here.

\* getDeploymentStatus, for Deployments as far as `upto`.

Deployment(spec, upto) == History[spec.deploymentRef][upto[spec.deploymentRef]]

Tracked(spec) == spec.deploymentRef # Unset

DeploymentMissing(spec, upto) == Tracked(spec) /\ Deployment(spec, upto) = Missing

Desired(d) == IF d.replicas = Unset THEN 1 ELSE d.replicas

\* Ready with exactly the replicas that are asked for, and at least one.
Verdict(desired, available) ==
  IF desired > 0 /\ available = desired THEN "Ready"
  ELSE IF available > 0 THEN "Degraded" ELSE "Unavailable"

\* An agent that refers to no Deployment is always ready.
Health(spec, upto) ==
  IF ~Tracked(spec) THEN [ready |-> TRUE, replicas |-> 0, available |-> 0, reason |-> "Ready"]
  ELSE LET d == Deployment(spec, upto)
           verdict == Verdict(Desired(d), d.available)
       IN [ready |-> verdict = "Ready", replicas |-> Desired(d), available |-> d.available,
           reason |-> verdict]

Take(n) ==
  /\ pc = "idle" /\ n \in queue /\ queue' = queue \ {n}
  /\ UNCHANGED <<api, cache, at, seen, budget>>

SkipReconcile(n) ==
  /\ Take(n)
  /\ ~cache[n].exists \/ cache[n].deleting
  /\ UNCHANGED workerVars

\* Slip: an agent that is not found is reported on like any other.
Reads_Gone(n) == Take(n) /\ ~cache[n].deleting

\* The agent is there and stays.
Reads(n) == Take(n) /\ cache[n].exists /\ ~cache[n].deleting

\* The worker goes on to write the status.
Report(n, status, requeue) ==
  /\ pc' = "status" /\ key' = n /\ obj' = cache[n] /\ draft' = status /\ again' = requeue

\* The flag and the counts stay as they were.
ReportError(n) ==
  LET o == cache[n] IN
    /\ Reads(n)
    /\ DeploymentMissing(o.spec, seen)
    /\ Report(n, [o.status EXCEPT !.observedGeneration = o.generation,
                                  !.reason = "DeploymentError"], TRUE)

ReportHealth(n) ==
  LET o == cache[n]
      health == Health(o.spec, seen)
  IN /\ Reads(n)
     /\ ~DeploymentMissing(o.spec, seen)
     /\ Report(n, [observedGeneration |-> o.generation, ready |-> health.ready,
                   replicas |-> health.replicas, available |-> health.available,
                   reason |-> health.reason], FALSE)

Reconcile(n) == SkipReconcile(n) \/ ReportError(n) \/ ReportHealth(n)

Finish(requeue) == Idle /\ queue' = IF requeue THEN queue \cup {key} ELSE queue

\* Slip: the status is patched, whatever version the object is of.
AcceptsWrite_Patch(o, copy) == o.exists

\* Status().Update sends the version that was read.
AcceptsWrite(o, copy) == Accepts(o, copy)

\* A status write that fails is tried again, after an error of the Deployment because that
\* asks for it anyway.
WriteStatus ==
  /\ pc = "status"
  /\ \/ /\ AcceptsWrite(api[key], obj) /\ Store(key, StatusWrite(api[key], draft))
        /\ Finish(again) /\ UNCHANGED budget
     \/ ~AcceptsWrite(api[key], obj) /\ Finish(TRUE) /\ UNCHANGED <<api, cache, budget>>
     \/ Spend("events") /\ Finish(TRUE) /\ UNCHANGED <<api, cache>>
     \/ /\ Spend("events") /\ AcceptsWrite(api[key], obj)
        /\ Store(key, StatusWrite(api[key], draft)) /\ Finish(TRUE)
  /\ UNCHANGED <<at, seen>>

----------------------------------------------------------------------------
Init ==
  /\ api = [n \in Agents |-> Absent] /\ cache = api
  /\ at = [d \in Deployments |-> 1] /\ seen = at
  /\ queue = {}
  /\ pc = "idle" /\ key = NoKey /\ obj = Absent /\ draft = Nothing /\ again = FALSE
  /\ budget \in Budgets

Next ==
  \/ \E n \in Agents : \/ UserCreate(n) \/ UserEdit(n) \/ UserDelete(n) \/ Collect(n)
                       \/ WatchEvent(n) \/ Reconcile(n)
  \/ \E d \in Deployments : DeploymentChange(d) \/ DeploymentEvent(d)
  \/ Restart
  \/ WriteStatus

\* The manager serves its workers; nothing is assumed of users and Deployments.
Fairness ==
  /\ \A n \in Agents : WF_vars(WatchEvent(n)) /\ SF_vars(Reconcile(n))
  /\ \A d \in Deployments : WF_vars(DeploymentEvent(d))
  /\ WF_vars(WriteStatus)

Spec == Init /\ [][Next]_vars /\ Fairness

----------------------------------------------------------------------------
\* Properties.

\* What the status shows besides the observed generation.
Shown(o) == [ready |-> o.status.ready, replicas |-> o.status.replicas,
             available |-> o.status.available, reason |-> o.status.reason]

UpToDate(o) == o.status.observedGeneration = o.generation

\* Now, and the moments at which one Deployment was where it has once been.
Sofar == {at} \cup UNION {{[at EXCEPT ![d] = i] : i \in 1..at[d]} : d \in Deployments}

\* A status that has caught up with its generation, and shows no error, is the health, at one
\* and the same moment, of the Deployment the spec now names: never that of the Deployment
\* it named before an edit, nor counts of one moment beside a verdict of another, whatever
\* copies the report was made from.
ReportsItsDeployment ==
  \A n \in Agents :
    LET o == api[n] IN
      o.exists /\ UpToDate(o) /\ o.status.reason # "DeploymentError" =>
        \E upto \in Sofar :
          ~DeploymentMissing(o.spec, upto) /\ Shown(o) = Health(o.spec, upto)

\* In the end the status tells how the Deployment does that the agent refers to, or that
\* there is none: no change of an agent or a Deployment is lost between the two caches, nor
\* any failed write.
HealthFollows ==
  \A n \in Agents :
    <>[](LET o == api[n] IN
           o.exists /\ ~o.deleting =>
             /\ UpToDate(o)
             /\ IF DeploymentMissing(o.spec, at) THEN o.status.reason = "DeploymentError"
                                                 ELSE Shown(o) = Health(o.spec, at))
=============================================================================
