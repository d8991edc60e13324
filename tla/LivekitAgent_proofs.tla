------------------------- MODULE LivekitAgent_proofs -------------------------
(***************************************************************************)
(* Why a LivekitAgent's status never tells of another Deployment than the  *)
(* one its spec names, for every value of the constants.                   *)
(*                                                                         *)
(* A report is made from a copy of the agent and from the Deployment as    *)
(* the informer shows it, which is how it has been at some time.  The      *)
(* status write is accepted only if the agent is still what was read, so   *)
(* that the generation the report claims is that of the spec it is about;  *)
(* and an edit starts a generation no status has claimed.                  *)
(***************************************************************************)
EXTENDS LivekitAgent, TLAPS

\* The shape of a stored object.
IsAgent(o) == o \in ObjectSet({o.spec}, {o.status}) /\ AgentOK(o)

\* What the status shows of a Deployment in state d.
HealthOf(d) ==
  LET verdict == Verdict(Desired(d), d.available)
  IN [ready |-> verdict = "Ready", replicas |-> Desired(d), available |-> d.available,
      reason |-> verdict]

\* The status tells of the Deployment the spec names, as it was at some time up to `upto`.
Tells(spec, status, upto) ==
  LET shown == [ready |-> status.ready, replicas |-> status.replicas,
                available |-> status.available, reason |-> status.reason]
      d == spec.deploymentRef
  IN IF ~Tracked(spec)
       THEN shown = [ready |-> TRUE, replicas |-> 0, available |-> 0, reason |-> "Ready"]
       ELSE \E i \in 1..upto[d] : History[d][i] # Missing /\ shown = HealthOf(History[d][i])

\* The status does not claim a generation to come, and tells the truth of the one it claims.
Truthful(o, upto) ==
  o.exists =>
    /\ o.status.observedGeneration <= o.generation
    /\ UpToDate(o) /\ o.status.reason # "DeploymentError" => Tells(o.spec, o.status, upto)

\* o is what was stored as s at some time.
CopyOf(o, s) == o.rv <= s.rv /\ (o.rv = s.rv => o = s)

DeploymentsInv ==
  /\ DOMAIN at = Deployments /\ DOMAIN seen = Deployments
  /\ \A d \in Deployments : at[d] \in 1..Len(History[d]) /\ seen[d] \in 1..at[d]

AgentsInv ==
  /\ DOMAIN api = Agents /\ DOMAIN cache = Agents
  /\ \A n \in Agents :
       /\ IsAgent(api[n]) /\ Truthful(api[n], at)
       /\ IsAgent(cache[n]) /\ CopyOf(cache[n], api[n])

WorkerInv ==
  /\ pc \in {"idle", "status"} /\ ((key = NoKey) <=> (pc = "idle"))
  /\ pc = "idle" => ~obj.exists
  /\ pc = "status" =>
       /\ key \in Agents
       /\ IsAgent(obj) /\ obj.exists /\ CopyOf(obj, api[key])
       /\ draft \in AgentStatus /\ draft.observedGeneration = obj.generation
       /\ draft.reason # "DeploymentError" => Tells(obj.spec, draft, at)

RestInv == queue \in SUBSET Agents /\ again \in BOOLEAN /\ budget \in [Kinds -> Nat]

Inv == DeploymentsInv /\ AgentsInv /\ WorkerInv /\ RestInv

----------------------------------------------------------------------------
\* The invariant says what the properties ask.

LEMMA InvTyped == Inv => TypeOK
  BY DEF Inv, DeploymentsInv, AgentsInv, WorkerInv, RestInv, TypeOK, IsAgent, AgentOK

\* Where Deployment d has been, the others being where they are, is among the moments.
LEMMA MomentOf ==
  ASSUME DeploymentsInv, NEW d \in Deployments, NEW i \in 1..at[d]
  PROVE  /\ [at EXCEPT ![d] = i] \in Sofar
         /\ [at EXCEPT ![d] = i][d] = i
<1> DEFINE past(e) == {[at EXCEPT ![e] = j] : j \in 1..at[e]}
<1>1. [at EXCEPT ![d] = i] \in past(d) /\ past(d) \in {past(e) : e \in Deployments}
  OBVIOUS
<1>2. Sofar = {at} \cup UNION {past(e) : e \in Deployments}
  BY DEF Sofar
<1>3. [at EXCEPT ![d] = i] \in Sofar
  <2> HIDE DEF past
  <2> QED
    BY <1>1, <1>2
<1> QED
  BY <1>3 DEF DeploymentsInv

LEMMA InvTells == Inv => ReportsItsDeployment
<1> SUFFICES ASSUME Inv, NEW n \in Agents, api[n].exists, UpToDate(api[n]),
                    api[n].status.reason # "DeploymentError"
             PROVE  \E upto \in Sofar :
                      ~DeploymentMissing(api[n].spec, upto)
                      /\ Shown(api[n]) = Health(api[n].spec, upto)
  BY DEF ReportsItsDeployment
<1> DEFINE o == api[n]
           d == o.spec.deploymentRef
<1>1. Tells(o.spec, o.status, at)
  BY DEF Inv, AgentsInv, Truthful
<1>2. o.spec \in AgentSpec
  BY DEF Inv, AgentsInv, IsAgent, AgentOK
<1>3. CASE ~Tracked(o.spec)
  <2>1. at \in Sofar
    BY DEF Sofar
  <2>2. ~DeploymentMissing(o.spec, at) /\ Shown(o) = Health(o.spec, at)
    BY <1>1, <1>3 DEF DeploymentMissing, Shown, Health, Tells
  <2> QED
    BY <2>1, <2>2
<1>4. CASE Tracked(o.spec)
  <2>1. d \in Deployments
    BY <1>2, <1>4 DEF Tracked, AgentSpec
  <2>2. PICK i \in 1..at[d] : History[d][i] # Missing /\ Shown(o) = HealthOf(History[d][i])
    BY <1>1, <1>4 DEF Tells, Shown
  <2> DEFINE upto == [at EXCEPT ![d] = i]
  <2>3. upto \in Sofar /\ upto[d] = i
    BY <2>1, MomentOf DEF Inv
  <2>4. ~DeploymentMissing(o.spec, upto) /\ Shown(o) = Health(o.spec, upto)
    BY <1>4, <2>2, <2>3 DEF DeploymentMissing, Deployment, Health, HealthOf
  <2> QED
    BY <2>3, <2>4
<1> QED
  BY <1>3, <1>4

----------------------------------------------------------------------------
\* Reports.

\* A state of an existing Deployment in a history is one.
LEMMA HistoryTyped ==
  ASSUME NEW d \in Deployments, NEW i \in 1..Len(History[d]), History[d][i] # Missing
  PROVE  History[d][i] \in DeploymentState
  BY LivekitAgentAssumption

LEMMA HealthTyped ==
  ASSUME NEW d \in DeploymentState
  PROVE  /\ HealthOf(d).ready \in BOOLEAN
         /\ HealthOf(d).replicas \in Nat /\ HealthOf(d).available \in Nat
         /\ HealthOf(d).reason \in {"Ready", "Degraded", "Unavailable"}
<1>1. Desired(d) \in Nat /\ d.available \in Nat
  BY LivekitAgentAssumption DEF DeploymentState, Desired
<1>2. Verdict(Desired(d), d.available) \in {"Ready", "Degraded", "Unavailable"}
  BY DEF Verdict
<1> QED
  BY <1>1, <1>2 DEF HealthOf

\* What is reported from a moment the informer has seen is a status that tells the truth.
LEMMA ReportTells ==
  ASSUME DeploymentsInv, NEW spec \in AgentSpec, NEW generation \in Nat,
         ~DeploymentMissing(spec, seen), NEW status,
         status = [observedGeneration |-> generation, ready |-> Health(spec, seen).ready,
                   replicas |-> Health(spec, seen).replicas,
                   available |-> Health(spec, seen).available,
                   reason |-> Health(spec, seen).reason]
  PROVE  status \in AgentStatus /\ Tells(spec, status, at)
<1> DEFINE d == spec.deploymentRef
<1>1. CASE ~Tracked(spec)
  BY <1>1 DEF Health, Tells, AgentStatus, Reasons
<1>2. CASE Tracked(spec)
  <2>1. d \in Deployments
    BY <1>2 DEF Tracked, AgentSpec
  <2>2. seen[d] \in 1..at[d] /\ seen[d] \in 1..Len(History[d]) /\ History[d][seen[d]] # Missing
    BY <1>2, <2>1 DEF DeploymentsInv, DeploymentMissing, Deployment
  <2>3. Health(spec, seen) = HealthOf(History[d][seen[d]])
    BY <1>2 DEF Health, HealthOf, Deployment
  <2>4. HealthOf(History[d][seen[d]]) =
          [ready |-> status.ready, replicas |-> status.replicas,
           available |-> status.available, reason |-> status.reason]
    BY <2>3 DEF HealthOf
  <2>5. status \in AgentStatus
    BY <2>1, <2>2, <2>3, HistoryTyped, HealthTyped DEF AgentStatus, Reasons
  <2> QED
    BY <1>2, <2>2, <2>4, <2>5 DEF Tells
<1> QED
  BY <1>1, <1>2

\* What has been told remains told.
LEMMA TellsOn ==
  ASSUME NEW spec \in AgentSpec, NEW status, NEW upto, NEW later,
         \A d \in Deployments : upto[d] \in Nat /\ later[d] \in Nat /\ upto[d] <= later[d],
         Tells(spec, status, upto)
  PROVE  Tells(spec, status, later)
<1>1. CASE Tracked(spec)
  <2>1. spec.deploymentRef \in Deployments
    BY <1>1 DEF Tracked, AgentSpec
  <2> QED
    BY <1>1, <2>1 DEF Tells
<1> QED
  BY <1>1 DEF Tells

----------------------------------------------------------------------------
\* Requests.

\* What a write makes of o: nothing, or a later version that tells no lies.
Advances(o, new, upto) ==
  IsAgent(new) /\ Truthful(new, upto) /\ (new = o \/ new.rv > o.rv)

LEMMA CreationAdvances ==
  ASSUME NEW o, IsAgent(o), NEW spec \in AgentSpec, NEW upto
  PROVE  Advances(o, Creation(o, spec, NewStatus), upto)
  BY DEF Advances, IsAgent, AgentOK, ObjectSet, Creation, Truthful, UpToDate, NewStatus,
         AgentStatus, Reasons

\* A new generation is one that no status has claimed.
LEMMA GenerationAdvances ==
  ASSUME NEW o, IsAgent(o), o.exists, NEW upto, Truthful(o, upto),
         NEW spec \in AgentSpec, NEW deleting \in BOOLEAN
  PROVE  Advances(o, NextGeneration(o, spec, deleting), upto)
<1>1. o.status \in AgentStatus /\ o.generation \in Nat
  BY DEF IsAgent, AgentOK, ObjectSet
<1>2. o.status.observedGeneration \in Nat
  BY <1>1 DEF AgentStatus
<1> DEFINE new == NextGeneration(o, spec, deleting)
<1>3. IsAgent(new) /\ new.rv > o.rv
  BY <1>1 DEF IsAgent, AgentOK, ObjectSet, NextGeneration
<1>4. Truthful(new, upto)
  BY <1>1, <1>2 DEF Truthful, UpToDate, NextGeneration
<1> QED
  BY <1>3, <1>4 DEF Advances

LEMMA RemovalAdvances ==
  ASSUME NEW o, IsAgent(o), NEW upto
  PROVE  Advances(o, Removal(o), upto)
  BY DEF Advances, IsAgent, AgentOK, ObjectSet, Removal, Truthful

LEMMA StatusAdvances ==
  ASSUME NEW o, IsAgent(o), o.exists, NEW upto, NEW status \in AgentStatus,
         status.observedGeneration = o.generation,
         status.reason # "DeploymentError" => Tells(o.spec, status, upto)
  PROVE  Advances(o, StatusWrite(o, status), upto)
<1> DEFINE new == [o EXCEPT !.status = status]
<1>1. o.rv \in Nat /\ o.generation \in Nat /\ o.spec \in AgentSpec
  BY DEF IsAgent, AgentOK, ObjectSet
<1>2. /\ IsAgent(new) /\ new.exists /\ new.spec = o.spec /\ new.status = status
      /\ new.generation = o.generation
  BY <1>1 DEF IsAgent, AgentOK, ObjectSet
<1>3. CASE new = o
  <2>1. StatusWrite(o, status) = o /\ o.status = status
    BY <1>2, <1>3 DEF StatusWrite, Stored
  <2>2. Truthful(o, upto)
    BY <1>1, <2>1 DEF Truthful
  <2> QED
    BY <2>1, <2>2 DEF Advances
<1>4. CASE new # o
  <2> DEFINE stored == [new EXCEPT !.rv = o.rv + 1]
  <2>1. StatusWrite(o, status) = stored
    <3>1. StatusWrite(o, status) = Stored(o, new)
      BY DEF StatusWrite
    <3> HIDE DEF new
    <3> QED
      BY <1>4, <3>1 DEF Stored
  <2>2. /\ IsAgent(stored) /\ stored.rv > o.rv /\ stored.spec = o.spec
        /\ stored.status = status /\ stored.generation = o.generation
    <3> HIDE DEF new
    <3>1. new \in ObjectSet({new.spec}, {new.status}) /\ AgentOK(new)
      BY <1>2 DEF IsAgent
    <3>2. /\ stored \in ObjectSet({new.spec}, {new.status})
          /\ stored.exists = new.exists /\ stored.rv = o.rv + 1 /\ stored.spec = new.spec
          /\ stored.status = new.status /\ stored.generation = new.generation
      BY <1>1, <3>1 DEF ObjectSet
    <3> HIDE DEF stored
    <3>3. IsAgent(stored)
      BY <3>1, <3>2 DEF IsAgent, AgentOK
    <3> QED
      BY <1>1, <1>2, <3>2, <3>3
  <2>3. Truthful(stored, upto)
    BY <1>1, <2>2 DEF Truthful
  <2> QED
    BY <2>1, <2>2, <2>3 DEF Advances
<1> QED
  BY <1>3, <1>4

----------------------------------------------------------------------------
\* The invariant holds at first, and every step keeps it.

LEMMA InitInv == Init => Inv
<1> SUFFICES ASSUME Init PROVE Inv
  OBVIOUS
<1>1. DeploymentsInv
  BY LivekitAgentAssumption DEF Init, DeploymentsInv
<1>2. AgentsInv
  BY DEF Init, AgentsInv, Absent, NeverCreated, IsAgent, AgentOK, ObjectSet, Truthful, CopyOf
<1>3. WorkerInv
  BY DEF Init, WorkerInv, Absent, NeverCreated
<1>4. RestInv
  BY LivekitAgentAssumption DEF Init, RestInv
<1> QED
  BY <1>1, <1>2, <1>3, <1>4 DEF Inv

\* A write of one agent leaves the informer's copies and the worker's what they are: copies.
LEMMA StoreStep ==
  ASSUME Inv, NEW n \in Agents, NEW new, Advances(api[n], new, at), Store(n, new), at' = at
  PROVE  /\ AgentsInv'
         /\ pc = "status" => CopyOf(obj, api'[key])
<1>1. /\ api' = [api EXCEPT ![n] = new] /\ cache' = cache
      /\ DOMAIN api = Agents /\ DOMAIN cache = Agents
  BY DEF Store, Inv, AgentsInv
<1>2. \A m \in Agents : api'[m] = IF m = n THEN new ELSE api[m]
  BY <1>1
<1>3. ASSUME NEW m \in Agents, NEW o, IsAgent(o), CopyOf(o, api[m])
      PROVE  CopyOf(o, api'[m])
  <2>1. IsAgent(api[m]) /\ o.rv \in Nat /\ api[m].rv \in Nat
    BY <1>3 DEF Inv, AgentsInv, IsAgent, ObjectSet
  <2>2. CASE m = n
    <3>1. api'[m] = new /\ new.rv \in Nat
      BY <1>2, <2>2 DEF Advances, IsAgent, ObjectSet
    <3> QED
      BY <1>3, <2>1, <2>2, <3>1 DEF Advances, CopyOf
  <2> QED
    BY <1>2, <1>3, <2>2
<1>4. ASSUME NEW m \in Agents
      PROVE  /\ IsAgent(api'[m]) /\ Truthful(api'[m], at')
             /\ IsAgent(cache'[m]) /\ CopyOf(cache'[m], api'[m])
  <2>1. IsAgent(cache[m]) /\ CopyOf(cache[m], api[m]) /\ IsAgent(api[m]) /\ Truthful(api[m], at)
    BY DEF Inv, AgentsInv
  <2>2. CopyOf(cache[m], api'[m])
    BY <1>3, <2>1
  <2> QED
    BY <1>1, <1>2, <2>1, <2>2 DEF Advances
<1>5. AgentsInv'
  BY <1>1, <1>4 DEF AgentsInv
<1>6. pc = "status" => CopyOf(obj, api'[key])
  BY <1>3 DEF Inv, WorkerInv
<1> QED
  BY <1>5, <1>6

LEMMA SpendTyped ==
  ASSUME Inv, NEW kind \in Kinds, Spend(kind)
  PROVE  budget' \in [Kinds -> Nat]
  BY DEF Inv, RestInv, Spend

LEMMA EventsTyped ==
  ASSUME Inv, Spend("events")
  PROVE  budget' \in [Kinds -> Nat]
  BY SpendTyped DEF Kinds

\* Users and the garbage collector.
LEMMA UserStep ==
  ASSUME Inv, NEW n \in Agents, NEW new, Advances(api[n], new, at), Store(n, new),
         UNCHANGED <<at, seen, queue, workerVars>>,
         UNCHANGED budget \/ (\E kind \in Kinds : Spend(kind))
  PROVE  Inv'
<1>1. AgentsInv' /\ (pc = "status" => CopyOf(obj, api'[key]))
  BY StoreStep
<1>2. DeploymentsInv'
  BY DEF Inv, DeploymentsInv
<1>3. WorkerInv'
  BY <1>1 DEF Inv, WorkerInv, workerVars
<1>4. budget' \in [Kinds -> Nat]
  BY SpendTyped DEF Inv, RestInv
<1> QED
  BY <1>1, <1>2, <1>3, <1>4 DEF Inv, RestInv, workerVars

LEMMA UsersKeep ==
  ASSUME Inv, NEW n \in Agents, UserCreate(n) \/ UserEdit(n) \/ UserDelete(n) \/ Collect(n)
  PROVE  Inv'
<1> DEFINE o == api[n]
<1>1. IsAgent(o) /\ Truthful(o, at)
  BY DEF Inv, AgentsInv
<1>2. SpecsOf[n] \subseteq AgentSpec
  BY LivekitAgentAssumption
<1>3. CASE UserCreate(n)
  <2>1. PICK s \in SpecsOf[n] : Store(n, Creation(o, s, NewStatus))
    BY <1>3 DEF UserCreate
  <2>2. Advances(o, Creation(o, s, NewStatus), at)
    BY <1>1, <1>2, CreationAdvances
  <2> QED
    BY <1>3, <2>1, <2>2, UserStep DEF UserCreate
<1>4. CASE UserEdit(n)
  <2>1. PICK s \in SpecsOf[n] : Store(n, SpecEdit(o, s))
    BY <1>4 DEF UserEdit
  <2>2. o.exists /\ o.deleting \in BOOLEAN
    BY <1>1, <1>4 DEF UserEdit, IsAgent, ObjectSet
  <2>3. Advances(o, SpecEdit(o, s), at)
    BY <1>1, <1>2, <2>2, GenerationAdvances DEF SpecEdit
  <2>4. \E kind \in Kinds : Spend(kind)
    BY <1>4 DEF UserEdit, Kinds
  <2> QED
    BY <1>4, <2>1, <2>3, <2>4, UserStep DEF UserEdit
<1>5. CASE UserDelete(n)
  <2>1. PICK foreground \in BOOLEAN :
          Store(n, DeleteRequest([o EXCEPT !.finalizer = foreground]))
    BY <1>5 DEF UserDelete
  <2> DEFINE p == [o EXCEPT !.finalizer = foreground]
             new == DeleteRequest(p)
  <2>2. /\ IsAgent(p) /\ p.exists /\ p.spec \in AgentSpec /\ Truthful(p, at) /\ p.rv = o.rv
    BY <1>1, <1>5 DEF UserDelete, IsAgent, AgentOK, ObjectSet, Truthful, UpToDate
  <2>3. Advances(p, NextGeneration(p, p.spec, TRUE), at) /\ Advances(p, Removal(p), at)
    BY <2>2, GenerationAdvances, RemovalAdvances
  <2>4. NextGeneration(p, p.spec, TRUE).rv = p.rv + 1 /\ Removal(p).rv = p.rv + 1
    BY DEF NextGeneration, Removal
  <2>5. IsAgent(new) /\ Truthful(new, at) /\ new.rv = p.rv + 1
    BY <2>3, <2>4 DEF Advances, DeleteRequest
  <2>6. o.rv \in Nat
    BY <1>1 DEF IsAgent, ObjectSet
  <2>7. Advances(o, new, at)
    BY <2>2, <2>5, <2>6 DEF Advances
  <2>8. \E kind \in Kinds : Spend(kind)
    BY <1>5 DEF UserDelete, Kinds
  <2> QED
    BY <1>5, <2>1, <2>7, <2>8, UserStep DEF UserDelete
<1>6. CASE Collect(n)
  <2>1. Advances(o, Removal(o), at)
    BY <1>1, RemovalAdvances
  <2> QED
    BY <1>6, <2>1, UserStep DEF Collect
<1> QED
  BY <1>3, <1>4, <1>5, <1>6

\* As the Deployments go on, what was told of them stays true of their past.
LEMMA DeploymentChangeKeeps ==
  ASSUME Inv, NEW d \in Deployments, DeploymentChange(d)
  PROVE  Inv'
<1>1. /\ UNCHANGED <<api, cache, seen, queue, workerVars>>
      /\ at' = [at EXCEPT ![d] = at[d] + 1] /\ at[d] < Len(History[d])
  BY DEF DeploymentChange
<1>2. \A e \in Deployments : /\ at[e] \in Nat /\ at'[e] \in Nat /\ at[e] <= at'[e]
                             /\ at'[e] \in 1..Len(History[e]) /\ seen'[e] \in 1..at'[e]
  <2> SUFFICES ASSUME NEW e \in Deployments
               PROVE  /\ at[e] \in Nat /\ at'[e] \in Nat /\ at[e] <= at'[e]
                      /\ at'[e] \in 1..Len(History[e]) /\ seen'[e] \in 1..at'[e]
    OBVIOUS
  <2>1. at'[e] = IF e = d THEN at[e] + 1 ELSE at[e]
    BY <1>1 DEF Inv, DeploymentsInv
  <2>2. History[e] \in Seq(DeploymentState \cup {Missing})
    BY LivekitAgentAssumption
  <2>3. Len(History[e]) \in Nat /\ at[e] \in 1..Len(History[e]) /\ seen[e] \in 1..at[e]
    BY <2>2 DEF Inv, DeploymentsInv
  <2> QED
    BY <1>1, <2>1, <2>3
<1>3. DeploymentsInv'
  BY <1>1, <1>2 DEF Inv, DeploymentsInv
<1>4. ASSUME NEW spec \in AgentSpec, NEW status, Tells(spec, status, at)
      PROVE  Tells(spec, status, at')
  <2>1. PICK upto, later : upto = at /\ later = at'
    OBVIOUS
  <2> QED
    BY <1>2, <1>4, <2>1, TellsOn
<1>5. ASSUME NEW n \in Agents PROVE Truthful(api[n], at')
  <2>1. api[n].exists => api[n].spec \in AgentSpec
    BY DEF Inv, AgentsInv, IsAgent, AgentOK
  <2> QED
    BY <1>4, <2>1 DEF Inv, AgentsInv, Truthful
<1>6. AgentsInv'
  BY <1>1, <1>5 DEF Inv, AgentsInv
<1>7. WorkerInv'
  <2>1. pc = "status" => obj.spec \in AgentSpec
    BY DEF Inv, WorkerInv, IsAgent, AgentOK
  <2>2. pc = "status" /\ draft.reason # "DeploymentError" => Tells(obj.spec, draft, at')
    BY <1>4, <2>1 DEF Inv, WorkerInv
  <2> QED
    BY <1>1, <2>2 DEF Inv, WorkerInv, workerVars
<1>8. RestInv'
  BY <1>1, EventsTyped DEF DeploymentChange, Inv, RestInv, workerVars
<1> QED
  BY <1>3, <1>6, <1>7, <1>8 DEF Inv

\* The informers.
LEMMA WatchEventKeeps ==
  ASSUME Inv, NEW n \in Agents, WatchEvent(n)
  PROVE  Inv'
<1>1. /\ cache' = [cache EXCEPT ![n] = api[n]] /\ queue' = queue \cup {n}
      /\ UNCHANGED <<api, at, seen, workerVars, budget>>
  BY DEF WatchEvent
<1>2. ASSUME NEW m \in Agents PROVE IsAgent(cache'[m]) /\ CopyOf(cache'[m], api[m])
  <2>1. cache'[m] = IF m = n THEN api[m] ELSE cache[m]
    BY <1>1 DEF Inv, AgentsInv
  <2>2. IsAgent(api[m]) /\ IsAgent(cache[m]) /\ CopyOf(cache[m], api[m])
    BY DEF Inv, AgentsInv
  <2>3. CopyOf(api[m], api[m])
    BY <2>2 DEF IsAgent, ObjectSet, CopyOf
  <2> QED
    BY <2>1, <2>2, <2>3
<1>3. AgentsInv'
  BY <1>1, <1>2 DEF Inv, AgentsInv
<1>4. DeploymentsInv'
  BY <1>1 DEF Inv, DeploymentsInv
<1>5. WorkerInv'
  BY <1>1 DEF Inv, WorkerInv, workerVars
<1>6. RestInv'
  BY <1>1 DEF Inv, RestInv, workerVars
<1> QED
  BY <1>3, <1>4, <1>5, <1>6 DEF Inv

LEMMA DeploymentEventKeeps ==
  ASSUME Inv, NEW d \in Deployments, DeploymentEvent(d)
  PROVE  Inv'
<1>1. /\ seen' = [seen EXCEPT ![d] = at[d]] /\ queue' = queue \cup FindAgents(d)
      /\ UNCHANGED <<api, cache, at, workerVars, budget>>
  BY DEF DeploymentEvent
<1>2. ASSUME NEW e \in Deployments PROVE seen'[e] \in 1..at[e]
  <2>1. History[e] \in Seq(DeploymentState \cup {Missing})
    BY LivekitAgentAssumption
  <2>2. Len(History[e]) \in Nat /\ at[e] \in 1..Len(History[e])
    BY <2>1 DEF Inv, DeploymentsInv
  <2> QED
    BY <1>1, <2>2 DEF Inv, DeploymentsInv
<1>3. DeploymentsInv'
  BY <1>1, <1>2 DEF Inv, DeploymentsInv
<1>4. AgentsInv'
  BY <1>1 DEF Inv, AgentsInv
<1>5. WorkerInv'
  BY <1>1 DEF Inv, WorkerInv, workerVars
<1>6. RestInv'
  BY <1>1 DEF Inv, RestInv, FindAgents, workerVars
<1> QED
  BY <1>3, <1>4, <1>5, <1>6 DEF Inv

LEMMA RestartKeeps ==
  ASSUME Inv, Restart
  PROVE  Inv'
<1>1. /\ UNCHANGED <<api, at>> /\ cache' = api /\ seen' = at
      /\ queue' \in SUBSET Agents /\ Idle /\ budget' \in [Kinds -> Nat]
  BY EventsTyped DEF Restart
<1>2. DeploymentsInv'
  <2>1. ASSUME NEW e \in Deployments PROVE at[e] \in 1..at[e]
    <3>1. History[e] \in Seq(DeploymentState \cup {Missing})
      BY LivekitAgentAssumption
    <3> QED
      BY <3>1 DEF Inv, DeploymentsInv
  <2> QED
    BY <1>1, <2>1 DEF Inv, DeploymentsInv
<1>3. AgentsInv'
  BY <1>1 DEF Inv, AgentsInv, IsAgent, ObjectSet, CopyOf
<1>4. WorkerInv'
  BY <1>1, LivekitAgentAssumption DEF Idle, WorkerInv, Absent, NeverCreated
<1>5. RestInv'
  BY <1>1 DEF RestInv, Idle
<1> QED
  BY <1>2, <1>3, <1>4, <1>5 DEF Inv

\* The worker.
LEMMA ReadsKeeps ==
  ASSUME Inv, NEW n \in Agents, Reads(n), NEW status \in AgentStatus,
         status.observedGeneration = cache[n].generation,
         status.reason # "DeploymentError" => Tells(cache[n].spec, status, at),
         NEW requeue \in BOOLEAN, Report(n, status, requeue)
  PROVE  Inv'
<1>1. /\ queue' = queue \ {n} /\ UNCHANGED <<api, cache, at, seen, budget>>
      /\ cache[n].exists
  BY DEF Reads, Take
<1>2. DeploymentsInv' /\ AgentsInv'
  BY <1>1 DEF Inv, DeploymentsInv, AgentsInv
<1>3. WorkerInv'
  <2>1. IsAgent(cache[n]) /\ CopyOf(cache[n], api[n])
    BY DEF Inv, AgentsInv
  <2> QED
    BY <1>1, <2>1, LivekitAgentAssumption DEF Report, WorkerInv
<1>4. RestInv'
  BY <1>1 DEF Inv, RestInv, Report
<1> QED
  BY <1>2, <1>3, <1>4 DEF Inv

LEMMA ReconcileKeeps ==
  ASSUME Inv, NEW n \in Agents, Reconcile(n)
  PROVE  Inv'
<1> DEFINE o == cache[n]
<1>1. CASE SkipReconcile(n)
  BY <1>1 DEF SkipReconcile, Take, Inv, DeploymentsInv, AgentsInv, WorkerInv, RestInv,
              workerVars
<1>2. Reads(n) => o.spec \in AgentSpec /\ o.status \in AgentStatus /\ o.generation \in Nat
  BY DEF Reads, Inv, AgentsInv, IsAgent, AgentOK, ObjectSet
<1>3. CASE ReportError(n)
  <2> DEFINE status == [o.status EXCEPT !.observedGeneration = o.generation,
                                        !.reason = "DeploymentError"]
  <2>1. Reads(n) /\ Report(n, status, TRUE)
    BY <1>3 DEF ReportError
  <2>2. /\ status \in AgentStatus /\ status.observedGeneration = o.generation
        /\ status.reason = "DeploymentError"
    BY <1>2, <2>1 DEF AgentStatus, Reasons
  <2> QED
    BY <2>1, <2>2, ReadsKeeps
<1>4. CASE ReportHealth(n)
  <2> DEFINE health == Health(o.spec, seen)
             status == [observedGeneration |-> o.generation, ready |-> health.ready,
                        replicas |-> health.replicas, available |-> health.available,
                        reason |-> health.reason]
  <2>1. Reads(n) /\ Report(n, status, FALSE) /\ ~DeploymentMissing(o.spec, seen)
    BY <1>4 DEF ReportHealth
  <2>2. status \in AgentStatus /\ Tells(o.spec, status, at)
    BY <1>2, <2>1, ReportTells DEF Inv
  <2>3. status.observedGeneration = o.generation
    OBVIOUS
  <2> QED
    BY <2>1, <2>2, <2>3, ReadsKeeps
<1> QED
  BY <1>1, <1>3, <1>4 DEF Reconcile

LEMMA WriteStatusKeeps ==
  ASSUME Inv, WriteStatus
  PROVE  Inv'
<1> DEFINE new == StatusWrite(api[key], draft)
<1>1. /\ pc = "status" /\ key \in Agents /\ again \in BOOLEAN
      /\ \E requeue \in BOOLEAN : Finish(requeue)
      /\ UNCHANGED <<at, seen>>
      /\ UNCHANGED budget \/ Spend("events")
      /\ UNCHANGED <<api, cache>> \/ (AcceptsWrite(api[key], obj) /\ Store(key, new))
  BY DEF WriteStatus, Inv, WorkerInv, RestInv
<1>2. AgentsInv'
  <2>1. CASE UNCHANGED <<api, cache>>
    BY <1>1, <2>1 DEF Inv, AgentsInv
  <2>2. CASE AcceptsWrite(api[key], obj) /\ Store(key, new)
    <3>1. api[key].exists /\ obj = api[key]
      BY <1>1, <2>2 DEF AcceptsWrite, Accepts, Inv, WorkerInv, CopyOf
    <3>2. /\ IsAgent(api[key]) /\ draft \in AgentStatus
          /\ draft.observedGeneration = api[key].generation
          /\ draft.reason # "DeploymentError" => Tells(api[key].spec, draft, at)
      BY <1>1, <3>1 DEF Inv, AgentsInv, WorkerInv
    <3>3. Advances(api[key], new, at)
      BY <3>1, <3>2, StatusAdvances
    <3> QED
      BY <1>1, <2>2, <3>3, StoreStep
  <2> QED
    BY <1>1, <2>1, <2>2
<1>3. DeploymentsInv'
  BY <1>1 DEF Inv, DeploymentsInv
<1>4. WorkerInv'
  BY <1>1, LivekitAgentAssumption DEF Finish, Idle, WorkerInv, Absent, NeverCreated
<1>5. RestInv'
  BY <1>1, EventsTyped DEF Finish, Idle, Inv, RestInv
<1> QED
  BY <1>2, <1>3, <1>4, <1>5 DEF Inv

LEMMA NextInv == Inv /\ [Next]_vars => Inv'
<1> SUFFICES ASSUME Inv, [Next]_vars PROVE Inv'
  OBVIOUS
<1>1. CASE UNCHANGED vars
  BY <1>1 DEF vars, workerVars, Inv, DeploymentsInv, AgentsInv, WorkerInv, RestInv
<1>2. ASSUME NEW n \in Agents,
             \/ UserCreate(n) \/ UserEdit(n) \/ UserDelete(n) \/ Collect(n)
             \/ WatchEvent(n) \/ Reconcile(n)
      PROVE  Inv'
  BY <1>2, UsersKeep, WatchEventKeeps, ReconcileKeeps
<1>3. ASSUME NEW d \in Deployments, DeploymentChange(d) \/ DeploymentEvent(d)
      PROVE  Inv'
  BY <1>3, DeploymentChangeKeeps, DeploymentEventKeeps
<1> QED
  BY <1>1, <1>2, <1>3, RestartKeeps, WriteStatusKeeps DEF Next

----------------------------------------------------------------------------
LEMMA Invariance == Spec => []Inv
<1> QED
  BY InitInv, NextInv, PTL DEF Spec

\* Every stored agent, every copy and the status being written are what the API types allow.
THEOREM TypeCorrect == Spec => []TypeOK
  BY Invariance, InvTyped, PTL

\* A status that has caught up with its generation, and shows no error, is the health, at one
\* and the same moment, of the Deployment the spec now names, however the two copies lag and
\* whatever writes fail.
THEOREM StatusTellsItsDeployment == Spec => []ReportsItsDeployment
  BY Invariance, InvTells, PTL
=============================================================================
