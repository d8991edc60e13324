------------------------ MODULE SIPDispatchRule_proofs ------------------------
(***************************************************************************)
(* Two properties of the SIPDispatchRule controller, for every value of    *)
(* the constants.                                                          *)
(*                                                                         *)
(* A SIPDispatchRule that goes away takes its dispatch rule with it.  An   *)
(* id is recorded only in an object that has the finalizer, so that a      *)
(* delete request never removes an object with one.  Only the worker does, *)
(* with a write that is accepted if the object is still the one it has     *)
(* read: before, it has deleted the rule recorded there, or noted that it  *)
(* could not.  And an id once handed out never comes to stand for another  *)
(* rule.                                                                   *)
(*                                                                         *)
(* A rule whose push is skipped is in sync, if the sources of the room     *)
(* configurations never go back to what they were.  The rule was written   *)
(* from the sources of one moment, and the hash is from that moment or an  *)
(* earlier one, since the write of the status may fail when the push has   *)
(* not: then the hash still says that there is something to push, unless   *)
(* what was pushed in between is undone.                                   *)
(***************************************************************************)
EXTENDS SIPDispatchRule, TLAPS

\* A status and an object with the fields the code gives them.
IsStatus(s) ==
  s \in [dispatchRuleID: Ids \cup {NoId}, observedGeneration: Nat,
         configHash: {s.configHash}, ready: ReadyReasons]

IsObject(o) ==
  o \in ObjectSet(RuleSpec, {o.status}) /\ IsStatus(o.status)

\* The id s records, if any, has been handed out.
Handed(s, rules) == s.dispatchRuleID # NoId => rules[s.dispatchRuleID] # Unused

\* A version of a stored object: it is finalized if it records an id.
Sound(o, rules) ==
  /\ IsObject(o) /\ Handed(o.status, rules)
  /\ o.exists /\ o.status.dispatchRuleID # NoId => o.finalizer

\* o is what was stored as s at some time.
CopyOf(o, s) == o.rv <= s.rv /\ (o.rv = s.rv => o = s)

\* A rule that is recorded is gone, or is noted to be left behind.
Released(id, rules, noted) == id # NoId => rules[id].state # "live" \/ id \in noted

ObjectsInv ==
  /\ DOMAIN api = Rules /\ DOMAIN watch = Rules /\ DOMAIN cache = Rules
  /\ \A r \in Rules :
       /\ Sound(api[r], remote) /\ Sound(cache[r], remote) /\ CopyOf(cache[r], api[r])
       /\ \A o \in watch[r] : Sound(o, remote) /\ CopyOf(o, api[r])

SourcesInv ==
  /\ egress \in [Egresses -> Nat] /\ seen \in [Egresses -> Nat]
  /\ secret \in [Servers \cup Secrets -> Nat]
  /\ \A e \in Egresses : egress[e] \in Stages[e] /\ seen[e] \in 1..egress[e]
  /\ \A s \in Servers \cup Secrets : secret[s] \in 1..Len(SecretHistory[s])

WorkerInv ==
  /\ pc \in Steps /\ ((key = NoKey) <=> (pc = "idle"))
  /\ IsObject(obj) /\ IsStatus(draft) /\ again \in BOOLEAN
  /\ Handed(obj.status, remote) /\ Handed(draft, remote)
  /\ pc # "idle" => key \in Rules /\ CopyOf(obj, api[key]) /\ obj.exists
  /\ pc \in {"status", "list", "create", "update"} => obj.finalizer
  /\ pc \in {"update", "delete"} => obj.status.dispatchRuleID \in Ids
  /\ pc \in {"delete", "removeFinalizer"} => obj.deleting
  /\ pc = "removeFinalizer" => Released(obj.status.dispatchRuleID, remote, abandoned)

RestInv ==
  /\ queue \in SUBSET Rules
  /\ DOMAIN remote = Ids
  /\ \A id \in Ids : remote[id].state \in {"unused", "live", "deleted"}
  /\ abandoned \in SUBSET Ids /\ budget \in [Kinds -> Nat]

Inv == ObjectsInv /\ SourcesInv /\ WorkerInv /\ RestInv

----------------------------------------------------------------------------
\* The invariant says what the type invariant asks.

LEMMA ObjectTyped ==
  ASSUME NEW o, IsObject(o)
  PROVE  ObjectOK(o)
  BY DEF IsObject, IsStatus, ObjectOK, StatusOK, ObjectSet

LEMMA InvTyped == Inv => TypeOK
<1> SUFFICES ASSUME Inv PROVE TypeOK
  OBVIOUS
<1>1. \A r \in Rules : /\ ObjectOK(api[r]) /\ ObjectOK(cache[r])
                       /\ \A o \in watch[r] : ObjectOK(o)
  BY ObjectTyped DEF Inv, ObjectsInv, Sound
<1>2. pc \in Steps /\ key \in Rules \cup {NoKey} /\ ((key = NoKey) <=> (pc = "idle"))
  BY DEF Inv, WorkerInv
<1>3. ObjectOK(obj) /\ StatusOK(draft) /\ again \in BOOLEAN
  BY ObjectTyped DEF Inv, WorkerInv, IsStatus, StatusOK
<1>4. pc \in {"update", "delete"} => obj.status.dispatchRuleID \in Ids
  BY DEF Inv, WorkerInv
<1> QED
  BY <1>1, <1>2, <1>3, <1>4 DEF Inv, SourcesInv, RestInv, TypeOK

----------------------------------------------------------------------------
\* Statuses.

LEMMA NoStatusTyped == IsStatus(NoStatus) /\ NoStatus.dispatchRuleID = NoId
  BY DEF IsStatus, NoStatus, ReadyReasons

\* A report keeps the id; Synced and Adopted record the one they are given.
LEMMA StatusTyped ==
  ASSUME NEW s, IsStatus(s), NEW id \in Ids, NEW o, IsObject(o), NEW config,
         NEW reason \in ReadyReasons
  PROVE  /\ IsStatus(Report(s, reason)) /\ Report(s, reason).dispatchRuleID = s.dispatchRuleID
         /\ IsStatus(Synced(s, id, o, config)) /\ Synced(s, id, o, config).dispatchRuleID = id
         /\ IsStatus(Adopted(s, id, o, config)) /\ Adopted(s, id, o, config).dispatchRuleID = id
<1>1. o.generation \in Nat
  BY DEF IsObject, ObjectSet
<1>2. IsStatus(Report(s, reason)) /\ Report(s, reason).dispatchRuleID = s.dispatchRuleID
  BY DEF IsStatus, Report
<1>3. IsStatus(Adopted(s, id, o, config)) /\ Adopted(s, id, o, config).dispatchRuleID = id
  BY DEF IsStatus, Adopted
<1>4. PICK hash : hash = ComputeConfigHash(config)
  OBVIOUS
<1>5. IsStatus(Synced(s, id, o, config)) /\ Synced(s, id, o, config).dispatchRuleID = id
  BY <1>1, <1>4 DEF IsStatus, Synced, ReadyReasons
<1> QED
  BY <1>2, <1>3, <1>5

----------------------------------------------------------------------------
\* Writes.

\* What a write makes of o: nothing, or a later sound version.
Advances(o, new, rules) == Sound(new, rules) /\ (new = o \/ new.rv > o.rv)

LEMMA CreationAdvances ==
  ASSUME NEW o, NEW rules, Sound(o, rules), NEW spec \in RuleSpec
  PROVE  Advances(o, Creation(o, spec, NoStatus), rules)
  BY NoStatusTyped DEF Advances, Sound, IsObject, ObjectSet, Creation, Handed

LEMMA GenerationAdvances ==
  ASSUME NEW o, NEW rules, Sound(o, rules), o.exists,
         NEW spec \in RuleSpec, NEW deleting \in BOOLEAN
  PROVE  Advances(o, NextGeneration(o, spec, deleting), rules)
  BY DEF Advances, Sound, IsObject, ObjectSet, NextGeneration, Handed

LEMMA RemovalAdvances ==
  ASSUME NEW o, NEW rules, Sound(o, rules)
  PROVE  Advances(o, Removal(o), rules)
  BY DEF Advances, Sound, IsObject, ObjectSet, Removal, Handed

\* Setting the finalizer or the status of an object, which may change nothing.
LEMMA StoredAdvances ==
  ASSUME NEW o, NEW rules, Sound(o, rules), NEW new, Sound(new, rules), new.exists = o.exists
  PROVE  Advances(o, Stored(o, new), rules) /\ Stored(o, new).exists = o.exists
<1>1. CASE new = o
  BY <1>1 DEF Advances, Stored
<1>2. CASE new # o
  <2> DEFINE stored == [new EXCEPT !.rv = o.rv + 1]
  <2>1. Stored(o, new) = stored
    BY <1>2 DEF Stored
  <2>2. o.rv \in Nat /\ new \in ObjectSet(RuleSpec, {new.status})
    BY DEF Sound, IsObject, ObjectSet
  <2>3. /\ stored \in ObjectSet(RuleSpec, {new.status})
        /\ stored.exists = new.exists /\ stored.rv = o.rv + 1
        /\ stored.status = new.status /\ stored.finalizer = new.finalizer
    BY <2>2 DEF ObjectSet
  <2> HIDE DEF stored
  <2>4. Sound(stored, rules)
    BY <2>3 DEF Sound, IsObject, Handed
  <2>5. stored.rv > o.rv
    BY <2>2, <2>3
  <2> QED
    BY <2>1, <2>3, <2>4, <2>5 DEF Advances
<1> QED
  BY <1>1, <1>2

LEMMA FinalizerAdvances ==
  ASSUME NEW o, NEW rules, Sound(o, rules)
  PROVE  Advances(o, FinalizerAdded(o), rules) /\ FinalizerAdded(o).exists = o.exists
<1> DEFINE new == [o EXCEPT !.finalizer = TRUE]
<1>1. Sound(new, rules) /\ new.exists = o.exists
  BY DEF Sound, IsObject, ObjectSet, Handed
<1> QED
  BY <1>1, StoredAdvances DEF FinalizerAdded

LEMMA StatusAdvances ==
  ASSUME NEW o, NEW rules, Sound(o, rules), o.finalizer,
         NEW status, IsStatus(status), Handed(status, rules)
  PROVE  Advances(o, StatusWrite(o, status), rules) /\ StatusWrite(o, status).exists = o.exists
<1> DEFINE new == [o EXCEPT !.status = status]
<1>1. Sound(new, rules) /\ new.exists = o.exists
  BY DEF Sound, IsObject, ObjectSet, Handed
<1> QED
  BY <1>1, StoredAdvances DEF StatusWrite

----------------------------------------------------------------------------
\* The invariant holds at first.

LEMMA SpecsTyped ==
  RuleSpec # {} /\ \A r \in Rules : SpecsOf[r] # {} /\ SpecsOf[r] \subseteq RuleSpec
  BY SpecsAssumption, MarkersAssumption

LEMMA InitInv == Init => Inv
<1> SUFFICES ASSUME Init PROVE Inv
  OBVIOUS
<1>1. ASSUME NEW r \in Rules PROVE Sound(api[r], remote) /\ CopyOf(api[r], api[r])
  <2>1. PICK s \in RuleSpec : api[r] = NeverCreated(s, NoStatus)
    BY SpecsTyped DEF Init
  <2> QED
    BY <2>1, NoStatusTyped DEF NeverCreated, Sound, IsObject, ObjectSet, Handed, CopyOf
<1>2. ObjectsInv
  BY <1>1 DEF Init, ObjectsInv
<1>3. SourcesInv
  BY HistoryAssumption DEF Init, SourcesInv, Stages
<1>4. WorkerInv
  <2>1. PICK s \in RuleSpec : NoObject = NeverCreated(s, NoStatus)
    BY SpecsTyped DEF NoObject
  <2>2. IsObject(NoObject) /\ Handed(NoObject.status, remote)
    BY <2>1, NoStatusTyped DEF NeverCreated, IsObject, ObjectSet, Handed
  <2> QED
    BY <2>2, NoStatusTyped DEF Init, WorkerInv, Steps, Handed
<1>5. RestInv
  BY BudgetsAssumption DEF Init, RestInv, Unused
<1> QED
  BY <1>2, <1>3, <1>4, <1>5 DEF Inv

LEMMA IdleTyped ==
  ASSUME Idle
  PROVE  WorkerInv'
<1>1. PICK s \in RuleSpec : NoObject = NeverCreated(s, NoStatus)
  BY SpecsTyped DEF NoObject
<1>2. IsObject(NoObject) /\ NoObject.status.dispatchRuleID = NoId
  BY <1>1, NoStatusTyped DEF NeverCreated, IsObject, ObjectSet
<1> QED
  BY <1>2, NoStatusTyped, MarkersAssumption DEF Idle, WorkerInv, Steps, Handed

----------------------------------------------------------------------------
\* Users, sources, informers.

LEMMA SpendTyped ==
  ASSUME Inv, NEW kind \in Kinds, Spend(kind)
  PROVE  budget' \in [Kinds -> Nat]
  BY DEF Inv, RestInv, Spend

LEMMA FaultsTyped ==
  ASSUME Inv, Spend("faults")
  PROVE  budget' \in [Kinds -> Nat]
  BY SpendTyped DEF Kinds

\* A write of one object leaves the copies of it what they are.
LEMMA StoreStep ==
  ASSUME Inv, NEW r \in Rules, NEW new, Advances(api[r], new, remote), Store(r, new),
         UNCHANGED <<cache, remote>>
  PROVE  ObjectsInv' /\ (pc # "idle" => CopyOf(obj, api'[key]))
<1>1. /\ api' = [api EXCEPT ![r] = new]
      /\ watch' = IF new = api[r] THEN watch ELSE [watch EXCEPT ![r] = @ \cup {new}]
      /\ DOMAIN api = Rules /\ DOMAIN watch = Rules /\ DOMAIN cache = Rules
  BY DEF Store, Inv, ObjectsInv
<1>2. \A q \in Rules : /\ api'[q] = IF q = r THEN new ELSE api[q]
                       /\ watch'[q] \subseteq watch[q] \cup {api'[q]}
  BY <1>1
<1>3. DOMAIN api' = Rules /\ DOMAIN watch' = Rules /\ DOMAIN cache' = Rules
  BY <1>1
<1>4. ASSUME NEW q \in Rules, NEW o, IsObject(o), CopyOf(o, api[q])
      PROVE  CopyOf(o, api'[q])
  <2>1. o.rv \in Nat /\ api[q].rv \in Nat
    BY <1>4 DEF Inv, ObjectsInv, Sound, IsObject, ObjectSet
  <2>2. CASE q = r
    <3>1. api'[q] = new /\ new.rv \in Nat
      BY <1>2, <2>2 DEF Advances, Sound, IsObject, ObjectSet
    <3> QED
      BY <1>4, <2>1, <2>2, <3>1 DEF Advances, CopyOf
  <2> QED
    BY <1>2, <1>4, <2>2
<1>5. ASSUME NEW q \in Rules
      PROVE  /\ Sound(api'[q], remote') /\ Sound(cache'[q], remote')
             /\ CopyOf(cache'[q], api'[q])
             /\ \A o \in watch'[q] : Sound(o, remote') /\ CopyOf(o, api'[q])
  <2>1. Sound(api[q], remote) /\ Sound(cache[q], remote) /\ CopyOf(cache[q], api[q])
    BY DEF Inv, ObjectsInv
  <2>2. Sound(api'[q], remote) /\ CopyOf(api'[q], api'[q])
    BY <1>2, <2>1 DEF Advances, Sound, IsObject, ObjectSet, CopyOf
  <2>3. CopyOf(cache[q], api'[q])
    BY <1>4, <2>1 DEF Sound
  <2>4. ASSUME NEW o \in watch'[q] PROVE Sound(o, remote) /\ CopyOf(o, api'[q])
    <3>1. CASE o = api'[q]
      BY <2>2, <3>1
    <3>2. CASE o \in watch[q]
      <4>1. Sound(o, remote) /\ CopyOf(o, api[q])
        BY <3>2 DEF Inv, ObjectsInv
      <4> QED
        BY <1>4, <4>1 DEF Sound
    <3> QED
      BY <1>2, <3>1, <3>2
  <2> QED
    BY <2>1, <2>2, <2>3, <2>4
<1>6. pc # "idle" => CopyOf(obj, api'[key])
  BY <1>4 DEF Inv, WorkerInv
<1> QED
  BY <1>3, <1>5, <1>6 DEF ObjectsInv

LEMMA UserStep ==
  ASSUME Inv, NEW r \in Rules, NEW new, Advances(api[r], new, remote), Store(r, new),
         UNCHANGED <<cache, sourceVars, queue, workerVars, remote, abandoned>>,
         budget' \in [Kinds -> Nat]
  PROVE  Inv'
<1>1. ObjectsInv' /\ (pc # "idle" => CopyOf(obj, api'[key]))
  BY StoreStep
<1>2. SourcesInv' /\ RestInv'
  BY DEF Inv, SourcesInv, RestInv, sourceVars
<1>3. WorkerInv'
  BY <1>1 DEF Inv, WorkerInv, workerVars
<1> QED
  BY <1>1, <1>2, <1>3 DEF Inv

\* What a user's request makes of an object.
LEMMA UserWrites ==
  ASSUME Inv, NEW r \in Rules, UserCreate(r) \/ UserEdit(r) \/ UserDelete(r)
  PROVE  \E new : /\ Advances(api[r], new, remote) /\ Store(r, new)
                  /\ api[r].exists /\ ~new.exists => ~api[r].finalizer
                  /\ budget' \in [Kinds -> Nat]
                  /\ UNCHANGED <<cache, sourceVars, queue, workerVars, remote, abandoned>>
<1> DEFINE o == api[r]
<1>1. Sound(o, remote) /\ o.spec \in RuleSpec /\ o.deleting \in BOOLEAN
  BY DEF Inv, ObjectsInv, Sound, IsObject, ObjectSet
<1>2. CASE UserCreate(r)
  <2>1. PICK s \in SpecsOf[r] : Store(r, Creation(o, s, NoStatus))
    BY <1>2 DEF UserCreate
  <2>2. Advances(o, Creation(o, s, NoStatus), remote)
    BY <1>1, SpecsTyped, CreationAdvances
  <2>3. budget' \in [Kinds -> Nat]
    BY <1>2 DEF UserCreate, Inv, RestInv
  <2> QED
    BY <1>2, <2>1, <2>2, <2>3 DEF UserCreate
<1>3. CASE UserEdit(r)
  <2>1. PICK s \in SpecsOf[r] : Store(r, SpecEdit(o, s))
    BY <1>3 DEF UserEdit
  <2>2. Advances(o, SpecEdit(o, s), remote)
    BY <1>1, <1>3, SpecsTyped, GenerationAdvances DEF SpecEdit, UserEdit
  <2>3. SpecEdit(o, s).exists
    BY DEF SpecEdit, NextGeneration
  <2>4. budget' \in [Kinds -> Nat]
    BY <1>3, SpendTyped DEF UserEdit, Kinds
  <2> QED
    BY <1>3, <2>1, <2>2, <2>3, <2>4 DEF UserEdit
<1>4. CASE UserDelete(r)
  <2> DEFINE new == DeleteRequest(o)
  <2>1. Advances(o, new, remote)
    BY <1>1, <1>4, GenerationAdvances, RemovalAdvances DEF DeleteRequest, UserDelete
  <2>2. ~new.exists => ~o.finalizer
    BY DEF DeleteRequest, NextGeneration
  <2>3. budget' \in [Kinds -> Nat]
    BY <1>4, SpendTyped DEF UserDelete, Kinds
  <2> QED
    BY <1>4, <2>1, <2>2, <2>3 DEF UserDelete
<1> QED
  BY <1>2, <1>3, <1>4

LEMMA UsersKeep ==
  ASSUME Inv, NEW r \in Rules, UserCreate(r) \/ UserEdit(r) \/ UserDelete(r)
  PROVE  Inv'
<1>1. PICK new : /\ Advances(api[r], new, remote) /\ Store(r, new)
                 /\ budget' \in [Kinds -> Nat]
                 /\ UNCHANGED <<cache, sourceVars, queue, workerVars, remote, abandoned>>
  BY UserWrites
<1> QED
  BY <1>1, UserStep

\* The contents of EgressConfigs and secrets do not matter to the other invariants.
LEMMA SourceStep ==
  ASSUME Inv, SourcesInv', UNCHANGED <<kubeVars, cache, workerVars, remote, abandoned>>,
         queue' \in SUBSET Rules, budget' \in [Kinds -> Nat]
  PROVE  Inv'
<1>1. ObjectsInv'
  BY DEF Inv, ObjectsInv, kubeVars
<1>2. WorkerInv'
  BY DEF Inv, WorkerInv, workerVars, kubeVars
<1>3. RestInv'
  BY DEF Inv, RestInv
<1> QED
  BY <1>1, <1>2, <1>3 DEF Inv

LEMMA EgressChangeKeeps ==
  ASSUME Inv, NEW e \in Egresses, EgressChange(e)
  PROVE  Inv'
<1>1. /\ egress' = [egress EXCEPT ![e] = egress[e] + 1] /\ egress[e] < Len(EgressHistory[e])
      /\ UNCHANGED <<seen, secret>>
  BY DEF EgressChange
<1>2. ASSUME NEW d \in Egresses
      PROVE  egress'[d] \in 1..Len(EgressHistory[d]) /\ seen'[d] \in 1..egress'[d]
  <2>1. egress'[d] = IF d = e THEN egress[d] + 1 ELSE egress[d]
    BY <1>1 DEF Inv, SourcesInv
  <2>2. /\ Len(EgressHistory[d]) \in Nat /\ egress[d] \in 1..Len(EgressHistory[d])
        /\ seen[d] \in 1..egress[d]
    BY HistoryAssumption DEF Inv, SourcesInv, Stages
  <2> QED
    BY <1>1, <2>1, <2>2
<1>3. SourcesInv'
  BY <1>1, <1>2 DEF Inv, SourcesInv, Stages
<1>4. budget' \in [Kinds -> Nat]
  BY SpendTyped DEF EgressChange, Kinds
<1> QED
  BY <1>3, <1>4, SourceStep DEF EgressChange, Inv, RestInv

LEMMA SecretChangeKeeps ==
  ASSUME Inv, NEW s \in Servers \cup Secrets, SecretChange(s)
  PROVE  Inv'
<1>1. /\ secret' = [secret EXCEPT ![s] = secret[s] + 1] /\ secret[s] < Len(SecretHistory[s])
      /\ UNCHANGED <<egress, seen>>
  BY DEF SecretChange
<1>2. ASSUME NEW k \in Servers \cup Secrets PROVE secret'[k] \in 1..Len(SecretHistory[k])
  <2>1. secret'[k] = IF k = s THEN secret[k] + 1 ELSE secret[k]
    BY <1>1 DEF Inv, SourcesInv
  <2>2. Len(SecretHistory[k]) \in Nat /\ secret[k] \in 1..Len(SecretHistory[k])
    BY HistoryAssumption DEF Inv, SourcesInv
  <2> QED
    BY <1>1, <2>1, <2>2
<1>3. SourcesInv'
  BY <1>1, <1>2 DEF Inv, SourcesInv
<1>4. budget' \in [Kinds -> Nat]
  <2>1. (IF s \in Servers THEN "outages" ELSE "rotations") \in Kinds
    BY DEF Kinds
  <2> QED
    BY <2>1, SpendTyped DEF SecretChange
<1> QED
  BY <1>3, <1>4, SourceStep DEF SecretChange, Inv, RestInv

LEMMA EgressEventKeeps ==
  ASSUME Inv, NEW e \in Egresses, EgressEvent(e)
  PROVE  Inv'
<1>1. PICK n \in (seen[e] + 1)..egress[e] : seen' = [seen EXCEPT ![e] = n]
  BY DEF EgressEvent
<1>2. ASSUME NEW d \in Egresses PROVE seen'[d] \in 1..egress[d]
  <2>1. Len(EgressHistory[d]) \in Nat /\ egress[d] \in 1..Len(EgressHistory[d])
        /\ seen[d] \in 1..egress[d]
    BY HistoryAssumption DEF Inv, SourcesInv, Stages
  <2>2. seen'[d] = IF d = e THEN n ELSE seen[d]
    BY <1>1 DEF Inv, SourcesInv
  <2> QED
    BY <2>1, <2>2
<1>3. SourcesInv'
  BY <1>1, <1>2 DEF EgressEvent, Inv, SourcesInv
<1> QED
  BY <1>3, SourceStep DEF EgressEvent, FindRules, Inv, RestInv

LEMMA ResyncKeeps ==
  ASSUME Inv, NEW r \in Rules, Resync(r)
  PROVE  Inv'
<1>1. SourcesInv'
  BY DEF Resync, Inv, SourcesInv, sourceVars
<1> QED
  BY <1>1, SourceStep DEF Resync, Inv, RestInv

LEMMA WatchEventKeeps ==
  ASSUME Inv, NEW r \in Rules, WatchEvent(r)
  PROVE  Inv'
<1>1. PICK o \in watch[r] : /\ cache' = [cache EXCEPT ![r] = o]
                            /\ watch' = [watch EXCEPT ![r] = {w \in @ : w.rv > o.rv}]
  BY DEF WatchEvent
<1>2. \A q \in Rules : /\ cache'[q] \in {cache[q]} \cup watch[q]
                       /\ watch'[q] \subseteq watch[q]
  BY <1>1 DEF Inv, ObjectsInv
<1>3. ObjectsInv'
  <2>1. ASSUME NEW q \in Rules
        PROVE  /\ Sound(cache'[q], remote) /\ CopyOf(cache'[q], api[q])
               /\ \A w \in watch'[q] : Sound(w, remote) /\ CopyOf(w, api[q])
    BY <1>2 DEF Inv, ObjectsInv
  <2> QED
    BY <1>1, <2>1 DEF WatchEvent, Inv, ObjectsInv
<1>4. SourcesInv'
  BY DEF WatchEvent, Inv, SourcesInv, sourceVars
<1>5. WorkerInv'
  BY DEF WatchEvent, Inv, WorkerInv, workerVars
<1>6. RestInv'
  BY DEF WatchEvent, Inv, RestInv
<1> QED
  BY <1>3, <1>4, <1>5, <1>6 DEF Inv

LEMMA RestartKeeps ==
  ASSUME Inv, Restart
  PROVE  Inv'
<1>1. ObjectsInv'
  <2>1. \A r \in Rules : CopyOf(api[r], api[r])
    BY DEF Inv, ObjectsInv, Sound, IsObject, ObjectSet, CopyOf
  <2> QED
    BY <2>1 DEF Restart, Inv, ObjectsInv
<1>2. SourcesInv'
  <2>1. ASSUME NEW e \in Egresses PROVE egress[e] \in 1..egress[e]
    BY HistoryAssumption DEF Inv, SourcesInv, Stages
  <2> QED
    BY <2>1 DEF Restart, Inv, SourcesInv
<1>3. WorkerInv'
  BY IdleTyped DEF Restart
<1>4. RestInv'
  BY FaultsTyped DEF Restart, Inv, RestInv
<1> QED
  BY <1>1, <1>2, <1>3, <1>4 DEF Inv

----------------------------------------------------------------------------
\* The start of a reconcile.

LEMMA ProceedKeeps ==
  ASSUME Inv, NEW r \in Rules, NEW step \in Steps \ {"idle"}, NEW status, IsStatus(status),
         Handed(status, remote), NEW requeue \in BOOLEAN,
         Take(r), cache[r].exists, Proceed(r, step, status, requeue),
         abandoned' \in SUBSET Ids,
         step \in {"status", "list", "create", "update"} => cache[r].finalizer,
         step \in {"update", "delete"} => cache[r].status.dispatchRuleID \in Ids,
         step \in {"delete", "removeFinalizer"} => cache[r].deleting,
         step = "removeFinalizer" =>
           Released(cache[r].status.dispatchRuleID, remote, abandoned')
  PROVE  Inv'
<1>1. UNCHANGED <<kubeVars, cache, sourceVars, remote, budget>> /\ queue' = queue \ {r}
  BY DEF Take
<1>2. ObjectsInv'
  BY <1>1 DEF Inv, ObjectsInv, kubeVars
<1>3. SourcesInv'
  BY <1>1 DEF Inv, SourcesInv, sourceVars
<1>4. WorkerInv'
  <2>1. Sound(cache[r], remote) /\ CopyOf(cache[r], api[r])
    BY DEF Inv, ObjectsInv
  <2> QED
    BY <1>1, <2>1, MarkersAssumption DEF Proceed, WorkerInv, Sound, kubeVars
<1>5. RestInv'
  BY <1>1 DEF Inv, RestInv
<1> QED
  BY <1>2, <1>3, <1>4, <1>5 DEF Inv

\* Nothing but the queue changes.
LEMMA SkipKeeps ==
  ASSUME Inv, NEW r \in Rules, Take(r), UNCHANGED <<workerVars, abandoned>>
  PROVE  Inv'
<1>1. SourcesInv'
  BY DEF Take, Inv, SourcesInv, sourceVars
<1> QED
  BY <1>1, SourceStep DEF Take, Inv, RestInv

LEMMA ReconcileKeeps ==
  ASSUME Inv, NEW r \in Rules, Reconcile(r)
  PROVE  Inv'
<1> DEFINE o == cache[r]
           id == o.status.dispatchRuleID
<1>1. Sound(o, remote) /\ IsStatus(o.status) /\ Handed(o.status, remote)
  BY DEF Inv, ObjectsInv, Sound, IsObject
<1>2. id \in Ids \cup {NoId} /\ abandoned \in SUBSET Ids
  BY <1>1 DEF IsStatus, Inv, RestInv
<1>3. CASE SkipReconcile(r)
  BY <1>3, SkipKeeps DEF SkipReconcile
<1>4. CASE StartDelete(r)
  <2> DEFINE step == DeleteStep(o)
  <2>1. /\ Take(r) /\ o.exists /\ o.deleting /\ Proceed(r, step, o.status, FALSE)
        /\ abandoned' = IF HasCredentials(o) THEN abandoned ELSE abandoned \cup ({id} \ {NoId})
    BY <1>4 DEF StartDelete
  <2>2. /\ step \in {"delete", "removeFinalizer"}
        /\ step = "delete" => id # NoId
        /\ step = "removeFinalizer" => id = NoId \/ ~HasCredentials(o)
    BY DEF DeleteStep
  <2>3. abandoned' \in SUBSET Ids
    BY <1>2, <2>1
  <2>4. step = "removeFinalizer" => Released(id, remote, abandoned')
    BY <2>1, <2>2 DEF Released
  <2>5. step \in Steps \ {"idle"} /\ step \notin {"status", "list", "create", "update"}
    BY <2>2 DEF Steps
  <2>6. step \in {"update", "delete"} => id \in Ids
    BY <1>2, <2>2
  <2> HIDE DEF step
  <2> QED
    BY <1>1, <2>1, <2>3, <2>4, <2>5, <2>6, ProceedKeeps
<1>5. CASE StartAddFinalizer(r)
  <2>1. /\ Take(r) /\ o.exists /\ Proceed(r, "addFinalizer", o.status, FALSE)
        /\ abandoned' = abandoned
    BY <1>5 DEF StartAddFinalizer
  <2>2. "addFinalizer" \in Steps \ {"idle"}
    BY DEF Steps
  <2> QED
    BY <1>1, <1>2, <2>1, <2>2, ProceedKeeps
<1>6. ASSUME TakeWanted(r), NEW step \in {"status", "list", "update"},
             NEW status, IsStatus(status), status.dispatchRuleID = id,
             Proceed(r, step, status, TRUE), step = "update" => id # NoId
      PROVE  Inv'
  <2>1. Take(r) /\ o.exists /\ o.finalizer /\ abandoned' = abandoned
    BY <1>6 DEF TakeWanted
  <2>2. step \in Steps \ {"idle"} /\ step \notin {"delete", "removeFinalizer"}
    BY DEF Steps
  <2>3. Handed(status, remote)
    BY <1>1, <1>6 DEF Handed
  <2> QED
    BY <1>2, <1>6, <2>1, <2>2, <2>3, ProceedKeeps
<1>7. CASE LiveKitSecretError(r) \/ RoomConfigError(r)
  <2>1. PICK reason \in ReadyReasons :
          TakeWanted(r) /\ Proceed(r, "status", Report(o.status, reason), TRUE)
    BY <1>7 DEF LiveKitSecretError, RoomConfigError, ReadyReasons
  <2>2. IsStatus(Report(o.status, reason)) /\ Report(o.status, reason).dispatchRuleID = id
    BY <1>1 DEF IsStatus, Report
  <2> QED
    BY <1>6, <2>1, <2>2
<1>8. CASE StartCreate(r)
  BY <1>1, <1>6, <1>8 DEF StartCreate, TakeResolved
<1>9. CASE StartUpdate(r)
  BY <1>1, <1>6, <1>9 DEF StartUpdate, TakeResolved
<1>10. CASE SkipUpdate(r)
  BY <1>10, SkipKeeps DEF SkipUpdate, TakeResolved, TakeWanted
<1> QED
  BY <1>3, <1>4, <1>5, <1>7, <1>8, <1>9, <1>10 DEF Reconcile

----------------------------------------------------------------------------
\* The calls.

\* An object the API server accepts a write of is the one the worker has read.
LEMMA AcceptedIsRead ==
  ASSUME Inv, pc # "idle", Accepts(api[key], obj)
  PROVE  obj = api[key] /\ key \in Rules
  BY DEF Accepts, Inv, WorkerInv, CopyOf

LEMMA WriteKeeps ==
  ASSUME Inv, pc # "idle", NEW o, NEW requeue, Write(o, requeue),
         Accepts(api[key], obj) => Advances(api[key], o, remote)
  PROVE  Inv'
<1>1. /\ Idle /\ queue' \in {queue, queue \cup {key}}
      /\ UNCHANGED kubeVars \/ (Accepts(api[key], obj) /\ Store(key, o))
      /\ UNCHANGED budget \/ Spend("faults")
      /\ UNCHANGED <<cache, sourceVars, remote, abandoned>>
  BY DEF Write, Finish
<1>2. key \in Rules
  BY DEF Inv, WorkerInv
<1>3. ObjectsInv'
  <2>1. CASE UNCHANGED kubeVars
    BY <1>1, <2>1 DEF Inv, ObjectsInv, kubeVars
  <2>2. CASE Accepts(api[key], obj) /\ Store(key, o)
    BY <1>1, <1>2, <2>2, StoreStep
  <2> QED
    BY <1>1, <2>1, <2>2
<1>4. SourcesInv'
  BY <1>1 DEF Inv, SourcesInv, sourceVars
<1>5. WorkerInv'
  BY <1>1, IdleTyped
<1>6. RestInv'
  BY <1>1, <1>2, FaultsTyped DEF Inv, RestInv
<1> QED
  BY <1>3, <1>4, <1>5, <1>6 DEF Inv

\* What the worker writes of the object it has read.
LEMMA WorkerWrites ==
  ASSUME Inv, Accepts(api[key], obj)
  PROVE  /\ pc = "addFinalizer" =>
              /\ Advances(api[key], FinalizerAdded(api[key]), remote)
              /\ FinalizerAdded(api[key]).exists
         /\ pc = "status" =>
              /\ Advances(api[key], StatusWrite(api[key], draft), remote)
              /\ StatusWrite(api[key], draft).exists
         /\ pc = "removeFinalizer" =>
              /\ Advances(api[key], FinalizerDropped(api[key]), remote)
              /\ Released(api[key].status.dispatchRuleID, remote, abandoned)
<1>1. pc # "idle" => obj = api[key] /\ Sound(api[key], remote) /\ api[key].exists
  BY AcceptedIsRead DEF Inv, ObjectsInv, WorkerInv
<1>2. CASE pc = "addFinalizer"
  BY <1>1, <1>2, FinalizerAdvances
<1>3. CASE pc = "status"
  <2>1. IsStatus(draft) /\ Handed(draft, remote) /\ obj.finalizer
    BY <1>3 DEF Inv, WorkerInv
  <2> QED
    BY <1>1, <1>3, <2>1, StatusAdvances
<1>4. CASE pc = "removeFinalizer"
  <2>1. obj.deleting /\ Released(obj.status.dispatchRuleID, remote, abandoned)
    BY <1>4 DEF Inv, WorkerInv
  <2> QED
    BY <1>1, <1>4, <2>1, RemovalAdvances DEF FinalizerDropped
<1> QED
  BY <1>2, <1>3, <1>4

LEMMA WritesKeep ==
  ASSUME Inv, AddFinalizer \/ RemoveFinalizer \/ WriteStatus
  PROVE  Inv'
<1>1. CASE AddFinalizer
  BY <1>1, WorkerWrites, WriteKeeps DEF AddFinalizer
<1>2. CASE RemoveFinalizer
  BY <1>2, WorkerWrites, WriteKeeps DEF RemoveFinalizer
<1>3. CASE WriteStatus
  BY <1>3, WorkerWrites, WriteKeeps DEF WriteStatus
<1> QED
  BY <1>1, <1>2, <1>3

\* An id once handed out stays so.
LEMMA SoundOn ==
  ASSUME NEW rules, NEW later, \A id \in Ids : rules[id] # Unused => later[id] # Unused,
         NEW o, Sound(o, rules)
  PROVE  Sound(o, later)
  BY DEF Sound, IsObject, IsStatus, Handed

\* LiveKit may have changed, and the worker goes on with its reconcile.
LEMMA ContinueKeeps ==
  ASSUME Inv, pc # "idle", NEW step \in {"status", "create", "removeFinalizer"},
         NEW status, IsStatus(status), Handed(status, remote'), NEW requeue \in BOOLEAN,
         Continue(step, status, requeue), UNCHANGED <<kubeVars, cache, sourceVars>>,
         DOMAIN remote' = Ids, \A id \in Ids : remote'[id].state \in {"unused", "live", "deleted"},
         \A id \in Ids : remote[id] # Unused => remote'[id] # Unused,
         abandoned' \in SUBSET Ids, budget' \in [Kinds -> Nat],
         step \in {"status", "create"} => obj.finalizer,
         step = "removeFinalizer" =>
           obj.deleting /\ Released(obj.status.dispatchRuleID, remote', abandoned')
  PROVE  Inv'
<1>1. PICK rules, later : rules = remote /\ later = remote'
  OBVIOUS
<1>2. ASSUME NEW o, Sound(o, remote) PROVE Sound(o, remote')
  BY <1>1, <1>2, SoundOn
<1>3. ObjectsInv'
  BY <1>2 DEF Inv, ObjectsInv, kubeVars
<1>4. SourcesInv'
  BY DEF Inv, SourcesInv, sourceVars
<1>5. WorkerInv'
  <2>1. Handed(obj.status, remote')
    BY DEF Inv, WorkerInv, IsObject, IsStatus, Handed
  <2>2. /\ pc' = step /\ draft' = status /\ again' = requeue
        /\ UNCHANGED <<key, obj, api, cache>>
    BY DEF Continue, kubeVars
  <2>3. step \in Steps \ {"idle"} /\ step \notin {"list", "update", "delete"}
    BY DEF Steps
  <2> QED
    BY <2>1, <2>2, <2>3 DEF Inv, WorkerInv
<1>6. RestInv'
  BY DEF Inv, RestInv, Continue
<1> QED
  BY <1>3, <1>4, <1>5, <1>6 DEF Inv

LEMMA CallTyped ==
  ASSUME Inv, UNCHANGED budget \/ Spend("faults")
  PROVE  budget' \in [Kinds -> Nat]
  BY FaultsTyped DEF Inv, RestInv

\* What is set live in LiveKit is handed out.
LEMMA RemoteTyped ==
  ASSUME NEW rules, DOMAIN rules = Ids,
         \A i \in Ids : rules[i].state \in {"unused", "live", "deleted"},
         NEW id \in Ids, NEW copy, copy.state \in {"live", "deleted"},
         NEW later, later = [rules EXCEPT ![id] = copy]
  PROVE  /\ DOMAIN later = Ids
         /\ \A i \in Ids : later[i].state \in {"unused", "live", "deleted"}
         /\ \A i \in Ids : rules[i] # Unused => later[i] # Unused
         /\ later[id] = copy /\ later[id] # Unused
<1>1. copy # Unused
  BY DEF Unused
<1> QED
  BY <1>1

\* The status in memory, with an error.
LEMMA ReportTyped ==
  ASSUME Inv, NEW reason \in ReadyReasons, NEW rules,
         \A id \in Ids : remote[id] # Unused => rules[id] # Unused
  PROVE  IsStatus(Report(draft, reason)) /\ Handed(Report(draft, reason), rules)
<1>1. IsStatus(draft) /\ Handed(draft, remote)
  BY DEF Inv, WorkerInv
<1>2. /\ IsStatus(Report(draft, reason))
      /\ Report(draft, reason).dispatchRuleID = draft.dispatchRuleID
  BY <1>1 DEF IsStatus, Report
<1> QED
  BY <1>1, <1>2 DEF Handed, IsStatus

LEMMA ListRulesKeeps ==
  ASSUME Inv, ListRules
  PROVE  Inv'
<1>1. /\ pc = "list" /\ UNCHANGED <<kubeVars, cache, sourceVars, remote, abandoned>>
      /\ obj.finalizer /\ IsStatus(draft) /\ Handed(draft, remote) /\ IsObject(obj)
  BY DEF ListRules, Inv, WorkerInv
<1>2. /\ DOMAIN remote = Ids /\ abandoned \in SUBSET Ids
      /\ \A id \in Ids : remote[id].state \in {"unused", "live", "deleted"}
  BY DEF Inv, RestInv
<1>3. budget' \in [Kinds -> Nat]
  BY CallTyped DEF ListRules
<1>4. ASSUME NEW status, IsStatus(status), Handed(status, remote),
             NEW step \in {"status", "create"}, Continue(step, status, TRUE)
      PROVE  Inv'
  BY <1>1, <1>2, <1>3, <1>4, ContinueKeeps
<1>5. CASE \E id \in FindByName(obj.spec.livekitRef, obj.spec.name) :
             Continue("status", Adopted(draft, id, obj, room), TRUE)
  <2>1. PICK id \in Ids : Live(id) /\ Continue("status", Adopted(draft, id, obj, room), TRUE)
    BY <1>5 DEF FindByName
  <2>2. /\ IsStatus(Adopted(draft, id, obj, room))
        /\ Adopted(draft, id, obj, room).dispatchRuleID = id
    BY <1>1 DEF IsStatus, Adopted
  <2>3. remote[id] # Unused
    BY <2>1 DEF Live, Unused
  <2> QED
    BY <1>4, <2>1, <2>2, <2>3 DEF Handed
<1>6. CASE Continue("create", draft, TRUE)
  BY <1>1, <1>4, <1>6
<1>7. CASE Continue("status", Report(draft, "ListFailed"), TRUE)
  BY <1>4, <1>7, ReportTyped DEF ReadyReasons
<1> QED
  BY <1>5, <1>6, <1>7 DEF ListRules

LEMMA PushedTyped ==
  ASSUME Inv, NEW id \in Ids, NEW rules, rules[id] # Unused
  PROVE  /\ IsStatus(Synced(draft, id, obj, room))
         /\ Handed(Synced(draft, id, obj, room), rules)
<1>1. IsStatus(draft) /\ IsObject(obj)
  BY DEF Inv, WorkerInv
<1>2. "Ready" \in ReadyReasons
  BY DEF ReadyReasons
<1>3. PICK s, o, config : s = draft /\ o = obj /\ config = room
  OBVIOUS
<1>4. IsStatus(Synced(s, id, o, config)) /\ Synced(s, id, o, config).dispatchRuleID = id
  BY <1>1, <1>2, <1>3, StatusTyped
<1> QED
  BY <1>3, <1>4 DEF Handed

LEMMA CreateRuleKeeps ==
  ASSUME Inv, CreateRule
  PROVE  Inv'
<1>1. pc = "create" /\ UNCHANGED <<kubeVars, cache, sourceVars, abandoned>> /\ obj.finalizer
  BY DEF CreateRule, Inv, WorkerInv
<1>2. /\ DOMAIN remote = Ids /\ abandoned \in SUBSET Ids
      /\ \A id \in Ids : remote[id].state \in {"unused", "live", "deleted"}
  BY DEF Inv, RestInv
<1>3. budget' \in [Kinds -> Nat]
  BY CallTyped DEF CreateRule
<1>4. ASSUME NEW id \in Ids, remote' = [remote EXCEPT ![id] = RemoteCopy(obj, room)],
             \/ Continue("status", Synced(draft, id, obj, room), FALSE)
             \/ Continue("status", Report(draft, "CreateFailed"), TRUE)
      PROVE  Inv'
  <2>1. RemoteCopy(obj, room).state \in {"live", "deleted"}
    BY DEF RemoteCopy
  <2>2. /\ DOMAIN remote' = Ids
        /\ \A i \in Ids : remote'[i].state \in {"unused", "live", "deleted"}
        /\ \A i \in Ids : remote[i] # Unused => remote'[i] # Unused
        /\ remote'[id] # Unused
    <3>1. PICK rules, later, copy :
            rules = remote /\ later = remote' /\ copy = RemoteCopy(obj, room)
      OBVIOUS
    <3>2. later = [rules EXCEPT ![id] = copy] /\ copy.state \in {"live", "deleted"}
      BY <1>4, <2>1, <3>1
    <3> QED
      BY <1>2, <3>1, <3>2, RemoteTyped
  <2>3. ASSUME NEW status, IsStatus(status), Handed(status, remote'),
               NEW requeue \in BOOLEAN, Continue("status", status, requeue)
        PROVE  Inv'
    BY <1>1, <1>2, <1>3, <2>2, <2>3, ContinueKeeps
  <2>4. /\ IsStatus(Synced(draft, id, obj, room))
        /\ Handed(Synced(draft, id, obj, room), remote')
    <3>1. PICK rules : rules = remote'
      OBVIOUS
    <3> QED
      BY <2>2, <3>1, PushedTyped
  <2>5. /\ IsStatus(Report(draft, "CreateFailed"))
        /\ Handed(Report(draft, "CreateFailed"), remote')
    <3>1. PICK rules : rules = remote'
      OBVIOUS
    <3> QED
      BY <2>2, <3>1, ReportTyped DEF ReadyReasons
  <2> QED
    BY <1>4, <2>3, <2>4, <2>5
<1>5. CASE UNCHANGED remote /\ Continue("status", Report(draft, "CreateFailed"), TRUE)
  BY <1>1, <1>2, <1>3, <1>5, ReportTyped, ContinueKeeps DEF ReadyReasons
<1> QED
  BY <1>4, <1>5 DEF CreateRule

LEMMA UpdateRuleKeeps ==
  ASSUME Inv, UpdateRule
  PROVE  Inv'
<1> DEFINE id == obj.status.dispatchRuleID
<1>1. /\ pc = "update" /\ UNCHANGED <<kubeVars, cache, sourceVars, abandoned>>
      /\ obj.finalizer /\ id \in Ids
  BY DEF UpdateRule, Inv, WorkerInv
<1>2. /\ DOMAIN remote = Ids /\ abandoned \in SUBSET Ids
      /\ \A i \in Ids : remote[i].state \in {"unused", "live", "deleted"}
  BY DEF Inv, RestInv
<1>3. budget' \in [Kinds -> Nat]
  BY CallTyped DEF UpdateRule
<1>4. \/ remote' = [remote EXCEPT ![id] = RemoteCopy(obj, room)]
      \/ UNCHANGED remote /\ Continue("status", Report(draft, "UpdateFailed"), TRUE)
  BY DEF UpdateRule
<1>5. \/ Continue("status", Synced(draft, id, obj, room), FALSE)
      \/ Continue("status", Report(draft, "UpdateFailed"), TRUE)
  BY DEF UpdateRule
<1>6. CASE remote' = [remote EXCEPT ![id] = RemoteCopy(obj, room)]
  <2>1. RemoteCopy(obj, room).state \in {"live", "deleted"}
    BY DEF RemoteCopy
  <2>2. /\ DOMAIN remote' = Ids
        /\ \A i \in Ids : remote'[i].state \in {"unused", "live", "deleted"}
        /\ \A i \in Ids : remote[i] # Unused => remote'[i] # Unused
        /\ remote'[id] # Unused
    <3>1. PICK rules, later, i, copy :
            rules = remote /\ later = remote' /\ i = id /\ copy = RemoteCopy(obj, room)
      OBVIOUS
    <3>2. later = [rules EXCEPT ![i] = copy] /\ copy.state \in {"live", "deleted"}
      BY <1>6, <2>1, <3>1
    <3> QED
      BY <1>1, <1>2, <3>1, <3>2, RemoteTyped
  <2>3. ASSUME NEW status, IsStatus(status), Handed(status, remote'),
               NEW requeue \in BOOLEAN, Continue("status", status, requeue)
        PROVE  Inv'
    BY <1>1, <1>2, <1>3, <2>2, <2>3, ContinueKeeps
  <2>4. PICK rules, i : rules = remote' /\ i = id
    OBVIOUS
  <2>5. IsStatus(Synced(draft, i, obj, room)) /\ Handed(Synced(draft, i, obj, room), rules)
    BY <1>1, <2>2, <2>4, PushedTyped
  <2>6. /\ IsStatus(Report(draft, "UpdateFailed"))
        /\ Handed(Report(draft, "UpdateFailed"), rules)
    BY <2>2, <2>4, ReportTyped DEF ReadyReasons
  <2> QED
    BY <1>5, <2>3, <2>4, <2>5, <2>6
<1>7. CASE UNCHANGED remote /\ Continue("status", Report(draft, "UpdateFailed"), TRUE)
  BY <1>1, <1>2, <1>3, <1>7, ReportTyped, ContinueKeeps DEF ReadyReasons
<1> QED
  BY <1>4, <1>6, <1>7

LEMMA DeleteRuleKeeps ==
  ASSUME Inv, DeleteRule
  PROVE  Inv'
<1> DEFINE id == obj.status.dispatchRuleID
<1>1. /\ pc = "delete" /\ UNCHANGED <<kubeVars, cache, sourceVars>>
      /\ Continue("removeFinalizer", draft, FALSE)
      /\ obj.deleting /\ id \in Ids /\ IsStatus(draft) /\ Handed(draft, remote)
  BY DEF DeleteRule, Inv, WorkerInv
<1>2. /\ DOMAIN remote = Ids /\ abandoned \in SUBSET Ids
      /\ \A i \in Ids : remote[i].state \in {"unused", "live", "deleted"}
  BY DEF Inv, RestInv
<1>3. budget' \in [Kinds -> Nat]
  BY CallTyped DEF DeleteRule
<1>4. abandoned' \in {abandoned, abandoned \cup {id}}
  BY DEF DeleteRule
<1>5. \/ remote' = [remote EXCEPT ![id] = Deleted]
      \/ UNCHANGED remote /\ abandoned' = abandoned \cup {id}
  BY DEF DeleteRule
<1>6. CASE remote' = [remote EXCEPT ![id] = Deleted]
  <2>1. Deleted.state = "deleted"
    BY DEF Deleted
  <2>2. /\ DOMAIN remote' = Ids
        /\ \A i \in Ids : remote'[i].state \in {"unused", "live", "deleted"}
        /\ \A i \in Ids : remote[i] # Unused => remote'[i] # Unused
        /\ remote'[id] = Deleted
    <3>1. PICK rules, later, i, copy :
            rules = remote /\ later = remote' /\ i = id /\ copy = Deleted
      OBVIOUS
    <3>2. later = [rules EXCEPT ![i] = copy] /\ copy.state \in {"live", "deleted"}
      BY <1>6, <2>1, <3>1
    <3> QED
      BY <1>1, <1>2, <3>1, <3>2, RemoteTyped
  <2>3. Handed(draft, remote')
    BY <1>1, <2>2 DEF Handed, IsStatus
  <2>4. Released(id, remote', abandoned')
    BY <2>1, <2>2 DEF Released
  <2> QED
    BY <1>1, <1>2, <1>3, <1>4, <2>2, <2>3, <2>4, ContinueKeeps
<1>7. CASE UNCHANGED remote /\ abandoned' = abandoned \cup {id}
  <2>1. Handed(draft, remote') /\ Released(id, remote', abandoned')
    BY <1>1, <1>7 DEF Released
  <2> QED
    BY <1>1, <1>2, <1>3, <1>4, <1>7, <2>1, ContinueKeeps
<1> QED
  BY <1>5, <1>6, <1>7

----------------------------------------------------------------------------
LEMMA NextInv == Inv /\ [Next]_vars => Inv'
<1> SUFFICES ASSUME Inv, [Next]_vars PROVE Inv'
  OBVIOUS
<1>1. CASE UNCHANGED vars
  <2>1. SourcesInv' /\ UNCHANGED <<kubeVars, cache, workerVars, remote, abandoned, queue, budget>>
    BY <1>1 DEF vars, sourceVars, Inv, SourcesInv
  <2> QED
    BY <2>1, SourceStep DEF Inv, RestInv
<1>2. CASE Environment
  BY <1>2, UsersKeep, EgressChangeKeeps, SecretChangeKeeps, RestartKeeps DEF Environment
<1>3. ASSUME NEW r \in Rules, WatchEvent(r) \/ Resync(r) \/ Reconcile(r) PROVE Inv'
  BY <1>3, WatchEventKeeps, ResyncKeeps, ReconcileKeeps
<1>4. CASE Call
  BY <1>4, WritesKeep, ListRulesKeeps, CreateRuleKeeps, UpdateRuleKeeps, DeleteRuleKeeps
     DEF Call
<1> QED
  BY <1>1, <1>2, <1>3, <1>4, EgressEventKeeps DEF Next

LEMMA Invariance == Spec => []Inv
<1> QED
  BY InitInv, NextInv, PTL DEF Spec

\* Stored and cached objects, the worker's and LiveKit's are what their types allow.
THEOREM TypeCorrect == Spec => []TypeOK
  BY Invariance, InvTyped, PTL

----------------------------------------------------------------------------
\* How a resource goes away.

\* The only writes that remove an object are a delete request that finds no finalizer, and
\* the worker's last write.
LEMMA GoneReleased ==
  ASSUME Inv, Next, NEW r \in Rules, api[r].exists, ~api'[r].exists,
         api[r].status.dispatchRuleID # NoId
  PROVE  Released(api[r].status.dispatchRuleID, remote, abandoned)
<1>1. api' # api /\ Sound(api[r], remote) /\ DOMAIN api = Rules
  BY DEF Inv, ObjectsInv
<1>2. ASSUME NEW q \in Rules, NEW new, Store(q, new) PROVE q = r /\ ~new.exists
  BY <1>1, <1>2 DEF Store
<1>3. ASSUME NEW q \in Rules, UserCreate(q) \/ UserEdit(q) \/ UserDelete(q) PROVE FALSE
  <2>1. PICK new : Store(q, new) /\ (api[q].exists /\ ~new.exists => ~api[q].finalizer)
    BY <1>3, UserWrites
  <2>2. q = r /\ ~new.exists
    BY <1>2, <2>1
  <2> QED
    BY <1>1, <2>1, <2>2 DEF Sound
<1>4. ASSUME pc # "idle", NEW o, NEW requeue, Write(o, requeue)
      PROVE  Accepts(api[key], obj) /\ key = r /\ ~o.exists
  <2>1. Accepts(api[key], obj) /\ Store(key, o)
    BY <1>1, <1>4 DEF Write, kubeVars
  <2> QED
    BY <1>2, <1>4, <2>1, AcceptedIsRead
<1>5. CASE AddFinalizer \/ WriteStatus
  BY <1>4, <1>5, WorkerWrites DEF AddFinalizer, WriteStatus
<1>6. CASE RemoveFinalizer
  BY <1>4, <1>6, WorkerWrites DEF RemoveFinalizer
<1>7. CASE ListRules \/ CreateRule \/ UpdateRule \/ DeleteRule
  BY <1>1, <1>7 DEF ListRules, CreateRule, UpdateRule, DeleteRule, kubeVars
<1>8. ASSUME NEW q \in Rules, WatchEvent(q) \/ Resync(q) PROVE FALSE
  BY <1>1, <1>8 DEF WatchEvent, Resync, kubeVars
<1>9. ASSUME NEW q \in Rules, Reconcile(q) PROVE FALSE
  <2>1. Take(q)
    BY <1>9 DEF Reconcile, SkipReconcile, StartDelete, StartAddFinalizer, LiveKitSecretError,
                RoomConfigError, StartCreate, StartUpdate, SkipUpdate, TakeResolved, TakeWanted
  <2> QED
    BY <1>1, <2>1 DEF Take, kubeVars
<1>10. ASSUME NEW e \in Egresses, EgressChange(e) \/ EgressEvent(e) PROVE FALSE
  BY <1>1, <1>10 DEF EgressChange, EgressEvent, kubeVars
<1>11. ASSUME NEW s \in Servers \cup Secrets, SecretChange(s) PROVE FALSE
  BY <1>1, <1>11 DEF SecretChange, kubeVars
<1>12. CASE Restart
  BY <1>1, <1>12 DEF Restart
<1> QED
  BY <1>3, <1>5, <1>6, <1>7, <1>8, <1>9, <1>10, <1>11, <1>12 DEF Next, Environment, Call

\* A resource that goes away takes the rule it has recorded with it, unless the deletion
\* failed and was logged: whoever deletes it, whatever copies the worker has read, and
\* whenever the process dies.
THEOREM RecordedIsReleased == Spec => RecordedRuleReleased
<1> DEFINE Goes == \A r \in Rules :
                     LET id == api[r].status.dispatchRuleID IN
                       api[r].exists /\ ~api'[r].exists /\ id # NoId
                         => ~Live(id) \/ id \in abandoned
<1>1. Inv /\ [Next]_vars => [Goes]_vars
  <2> SUFFICES ASSUME Inv, Next, NEW r \in Rules, api[r].exists, ~api'[r].exists,
                      api[r].status.dispatchRuleID # NoId
               PROVE  \/ ~Live(api[r].status.dispatchRuleID)
                      \/ api[r].status.dispatchRuleID \in abandoned
    OBVIOUS
  <2> QED
    BY GoneReleased DEF Released, Live
<1>2. RecordedRuleReleased <=> [][Goes]_vars
  BY DEF RecordedRuleReleased
<1> HIDE DEF Goes
<1> QED
  BY <1>1, <1>2, Invariance, PTL DEF Spec

----------------------------------------------------------------------------
\* Why a rule whose push is skipped is in sync.

\* How far the sources of the room configurations have come: each EgressConfig and each secret.
Moments ==
  LET contents == UNION {1..Len(EgressHistory[e]) : e \in Egresses}
      values == UNION {1..Len(SecretHistory[s]) : s \in Servers \cup Secrets}
  IN [egress: {a \in [Egresses -> contents] :
                 \A e \in Egresses : a[e] \in 1..Len(EgressHistory[e])},
      secret: {a \in [Servers \cup Secrets -> values] :
                 \A s \in Servers \cup Secrets : a[s] \in 1..Len(SecretHistory[s])}]

\* What the worker would read now.
Now == [egress |-> seen, secret |-> secret]

UpTo(m, n) ==
  /\ \A e \in Egresses : m.egress[e] <= n.egress[e]
  /\ \A s \in Servers \cup Secrets : m.secret[s] <= n.secret[s]

\* The room configuration of a spec at a moment, and whether there was one.
ValueAt(s, m) == SecretHistory[s][m.secret[s]]

UploadAt(spec, m) ==
  IF OwnStorage(spec) THEN [storage |-> "worker"]
  ELSE [storage |-> spec.storage, bucket |-> spec.bucket,
        credentials |-> [k \in DOMAIN spec.refs |-> ValueAt(spec.refs[k], m)]]

ResolvableAt(spec, m) ==
  \A e \in Egresses :
    ReferencesEgressConfig(spec, e) =>
      LET content == EgressHistory[e][m.egress[e]] IN
        /\ content # NoEgress
        /\ content.storage \in DOMAIN Required
        /\ \/ OwnStorage(content)
           \/ /\ Required[content.storage] \subseteq DOMAIN content.refs
              /\ \A k \in DOMAIN content.refs : ValueAt(content.refs[k], m) # Missing

RoomAt(spec, m) ==
  IF spec.roomConfig = NoRoom THEN NoRoom
  ELSE [e \in spec.roomConfig |-> UploadAt(EgressHistory[e][m.egress[e]], m)]

\* No two resources may ask for the same name on the same server.
OwnNamesOnly ==
  \A q, r \in Rules : \A a \in SpecsOf[q], b \in SpecsOf[r] :
    a.name = b.name /\ a.livekitRef = b.livekitRef => q = r

\* The sources never come back to a configuration that they have left.
NothingReturns ==
  \A r \in Rules : \A s \in SpecsOf[r] : \A i, j, k \in Moments :
    UpTo(i, j) /\ UpTo(j, k) /\ ResolvableAt(s, i) /\ ResolvableAt(s, j) /\ ResolvableAt(s, k)
      /\ RoomAt(s, i) = RoomAt(s, k)
    => RoomAt(s, j) = RoomAt(s, i)

\* The digest of a configuration is never the empty string.
HashesAreNotEmpty ==
  \A r \in Rules : \A s \in SpecsOf[r] : \A m \in Moments :
    ResolvableAt(s, m) => NoHash # [of |-> RoomAt(s, m)]

\* The rule with this id, if there is one, has the name and the server of a spec of r.
BelongsTo(r, id, rules) ==
  id # NoId /\ rules[id].state = "live" =>
    \E s \in SpecsOf[r] : rules[id].server = s.livekitRef /\ rules[id].info.name = s.name

\* A version of r.
Mine(r, o, rules) ==
  /\ o.spec \in SpecsOf[r]
  /\ BelongsTo(r, o.status.dispatchRuleID, rules)
  /\ o.status.dispatchRuleID = NoId => o.status.observedGeneration = 0
  /\ o.status.observedGeneration <= o.generation
  /\ o.exists => o.generation > 0

\* v is an earlier version of o.
Earlier(v, o) ==
  /\ v.rv <= o.rv
  /\ v.uid < o.uid \/ (v.uid = o.uid /\ v.generation <= o.generation)
  /\ v.uid = o.uid /\ o.exists => v.exists
  /\ v.uid = o.uid /\ v.generation = o.generation =>
       v.spec = o.spec /\ (o.exists => v.deleting = o.deleting)

\* The status of o was made from v, or from an earlier version.
Covers(v, o) ==
  o.status.observedGeneration > 0 =>
    v.uid = o.uid /\ o.status.observedGeneration <= v.generation

\* A status that claims that o is in sync tells the truth of LiveKit, as it was pushed at some
\* moment j, after the moment i the hash is from.
TrueUpTo(m, o, status, rules) ==
  LET id == status.dispatchRuleID IN
    o.exists /\ ~o.deleting /\ id # NoId /\ status.observedGeneration = o.generation =>
      /\ rules[id].state = "live" /\ rules[id].server = o.spec.livekitRef
      /\ rules[id].info = BuildRuleInfo(o)
      /\ \E i, j \in Moments :
           /\ UpTo(i, j) /\ UpTo(j, m) /\ ResolvableAt(o.spec, i) /\ ResolvableAt(o.spec, j)
           /\ status.configHash = ComputeConfigHash(RoomAt(o.spec, i))
           /\ rules[id].roomConfig = RoomAt(o.spec, j)

VersionsInv ==
  \A r \in Rules :
    /\ Mine(r, api[r], remote) /\ Mine(r, cache[r], remote)
    /\ Earlier(cache[r], api[r]) /\ Covers(cache[r], api[r])
    /\ \A w \in watch[r] :
         Mine(r, w, remote) /\ Earlier(w, api[r]) /\ Earlier(cache[r], w)
    /\ \A v, w \in watch[r] : v.rv < w.rv => Earlier(v, w)

HandsInv ==
  pc # "idle" =>
    /\ Mine(key, obj, remote)
    /\ Earlier(obj, cache[key]) /\ Earlier(obj, api[key]) /\ Covers(obj, api[key])
    /\ BelongsTo(key, draft.dispatchRuleID, remote)
    /\ draft.dispatchRuleID = NoId => draft.observedGeneration = 0
    /\ draft.observedGeneration <= obj.generation
    /\ pc \in {"list", "create", "update"} => draft = obj.status
    /\ pc \in {"list", "create"} => obj.status.dispatchRuleID = NoId

RoomInv ==
  pc \in {"list", "create", "update"} =>
    \E m \in Moments :
      /\ UpTo(m, Now) /\ ResolvableAt(obj.spec, m) /\ room = RoomAt(obj.spec, m)
      /\ TrueUpTo(m, api[key], api[key].status, remote)

ClaimsInv ==
  /\ \A r \in Rules : TrueUpTo(Now, api[r], api[r].status, remote)
  /\ pc = "status" /\ obj = api[key] => TrueUpTo(Now, obj, draft, remote)

SkipInv == VersionsInv /\ HandsInv /\ RoomInv /\ ClaimsInv

----------------------------------------------------------------------------
\* Moments.

LEMMA MomentMade ==
  ASSUME NEW a \in [Egresses -> Nat], \A e \in Egresses : a[e] \in 1..Len(EgressHistory[e]),
         NEW b \in [Servers \cup Secrets -> Nat],
         \A s \in Servers \cup Secrets : b[s] \in 1..Len(SecretHistory[s])
  PROVE  [egress |-> a, secret |-> b] \in Moments
<1>1. a \in [Egresses -> UNION {1..Len(EgressHistory[e]) : e \in Egresses}]
  OBVIOUS
<1>2. b \in [Servers \cup Secrets ->
              UNION {1..Len(SecretHistory[s]) : s \in Servers \cup Secrets}]
  OBVIOUS
<1> QED
  BY <1>1, <1>2 DEF Moments

LEMMA SeenTyped ==
  ASSUME NEW now \in [Egresses -> Nat], NEW cached \in [Egresses -> Nat], NEW e \in Egresses,
         now[e] \in Stages[e], cached[e] \in 1..now[e]
  PROVE  cached[e] \in 1..Len(EgressHistory[e]) /\ now[e] \in 1..Len(EgressHistory[e])
  BY HistoryAssumption DEF Stages

LEMMA NowTyped == Inv => Now \in Moments
  BY SeenTyped, MomentMade DEF Inv, SourcesInv, Now

LEMMA LaterTyped == Inv' => Now' \in Moments
<1> SUFFICES ASSUME Inv' PROVE Now' \in Moments
  OBVIOUS
<1>1. PICK a, b, c : a = egress' /\ b = seen' /\ c = secret'
  OBVIOUS
<1>2. /\ a \in [Egresses -> Nat] /\ b \in [Egresses -> Nat]
      /\ c \in [Servers \cup Secrets -> Nat]
      /\ \A e \in Egresses : a[e] \in Stages[e] /\ b[e] \in 1..a[e]
      /\ \A s \in Servers \cup Secrets : c[s] \in 1..Len(SecretHistory[s])
  BY <1>1 DEF Inv, SourcesInv
<1>3. \A e \in Egresses : b[e] \in 1..Len(EgressHistory[e])
  BY <1>2, SeenTyped
<1>4. [egress |-> b, secret |-> c] \in Moments
  BY <1>2, <1>3, MomentMade
<1> QED
  BY <1>1, <1>4 DEF Now

LEMMA MomentTyped ==
  ASSUME NEW m \in Moments
  PROVE  /\ \A e \in Egresses : m.egress[e] \in Nat
         /\ \A s \in Servers \cup Secrets : m.secret[s] \in Nat
  BY HistoryAssumption DEF Moments

LEMMA UpToSelf ==
  ASSUME NEW m \in Moments
  PROVE  UpTo(m, m)
  BY MomentTyped DEF UpTo

LEMMA UpToTransitive ==
  ASSUME NEW m \in Moments, NEW n \in Moments, NEW k \in Moments, UpTo(m, n), UpTo(n, k)
  PROVE  UpTo(m, k)
<1>1. ASSUME NEW e \in Egresses PROVE m.egress[e] <= k.egress[e]
  BY MomentTyped DEF UpTo
<1>2. ASSUME NEW s \in Servers \cup Secrets PROVE m.secret[s] <= k.secret[s]
  BY MomentTyped DEF UpTo
<1> QED
  BY <1>1, <1>2 DEF UpTo

\* What the worker makes of a spec is what RoomAt says of the moment.
LEMMA RoomNow ==
  ASSUME NEW spec, NEW at, NEW m, m = [egress |-> at, secret |-> secret]
  PROVE  /\ RoomAt(spec, m) = BuildRoomConfig(spec, at)
         /\ ResolvableAt(spec, m) <=> Resolvable(spec, at)
<1>1. m.egress = at /\ m.secret = secret
  OBVIOUS
<1>2. \A content : UploadAt(content, m) = Upload(content)
  BY <1>1 DEF UploadAt, Upload, ValueAt, Value
<1>3. RoomAt(spec, m) = BuildRoomConfig(spec, at)
  BY <1>1, <1>2 DEF RoomAt, BuildRoomConfig
<1>4. ResolvableAt(spec, m) <=> Resolvable(spec, at)
  BY <1>1 DEF ResolvableAt, Resolvable, Usable, ValueAt, Value
<1> QED
  BY <1>3, <1>4

----------------------------------------------------------------------------
\* What the truth of a status depends on.

LEMMA TrueLater ==
  ASSUME NEW m \in Moments, NEW n \in Moments, UpTo(m, n), NEW o, NEW status, NEW rules,
         TrueUpTo(m, o, status, rules)
  PROVE  TrueUpTo(n, o, status, rules)
  BY UpToTransitive DEF TrueUpTo

LEMMA TrueAlike ==
  ASSUME NEW m, NEW o, NEW status, NEW rules, TrueUpTo(m, o, status, rules),
         NEW p, p.exists = o.exists, p.deleting = o.deleting, p.generation = o.generation,
         p.spec = o.spec,
         NEW other, other.dispatchRuleID = status.dispatchRuleID,
         other.observedGeneration = status.observedGeneration,
         other.configHash = status.configHash,
         NEW later, later[status.dispatchRuleID] = rules[status.dispatchRuleID]
  PROVE  TrueUpTo(m, p, other, later)
  BY DEF TrueUpTo, BuildRuleInfo

\* A push at moment m is true of that moment.
LEMMA TruePush ==
  ASSUME NEW m \in Moments, NEW n \in Moments, UpTo(m, n), NEW o, ResolvableAt(o.spec, m),
         NEW status, status.configHash = ComputeConfigHash(RoomAt(o.spec, m)),
         NEW rules, rules[status.dispatchRuleID] = RemoteCopy(o, RoomAt(o.spec, m))
  PROVE  TrueUpTo(n, o, status, rules)
  BY UpToSelf DEF TrueUpTo, RemoteCopy

----------------------------------------------------------------------------
\* The order of versions.

LEMMA EarlierSelf ==
  ASSUME NEW o, IsObject(o)
  PROVE  Earlier(o, o)
  BY DEF Earlier, IsObject, ObjectSet

LEMMA EarlierTransitive ==
  ASSUME NEW u, NEW v, NEW w, IsObject(u), IsObject(v), IsObject(w),
         Earlier(u, v), Earlier(v, w)
  PROVE  Earlier(u, w)
<1>1. /\ u.rv \in Nat /\ v.rv \in Nat /\ w.rv \in Nat
      /\ u.uid \in Nat /\ v.uid \in Nat /\ w.uid \in Nat
      /\ u.generation \in Nat /\ v.generation \in Nat /\ w.generation \in Nat
  BY DEF IsObject, ObjectSet
<1> QED
  BY <1>1 DEF Earlier

\* A status made from v, or from an earlier version, is made from what follows v.
LEMMA CoversLater ==
  ASSUME NEW v, NEW w, NEW o, IsObject(v), IsObject(w), IsObject(o),
         Covers(v, o), Earlier(v, w), Earlier(w, o)
  PROVE  Covers(w, o)
<1>1. /\ v.uid \in Nat /\ w.uid \in Nat /\ o.uid \in Nat
      /\ v.generation \in Nat /\ w.generation \in Nat /\ o.generation \in Nat
      /\ o.status.observedGeneration \in Nat
  BY DEF IsObject, IsStatus, ObjectSet
<1> QED
  BY <1>1 DEF Covers, Earlier

\* n is o, or a later version of it.
Follows(n, o) == Earlier(o, n) /\ (n = o \/ n.rv > o.rv)

LEMMA NextVersionFollows ==
  ASSUME NEW o, IsObject(o), NEW spec, NEW status, NEW deleting
  PROVE  /\ Follows(Creation(o, spec, status), o)
         /\ o.exists => Follows(NextGeneration(o, spec, deleting), o)
         /\ Follows(Removal(o), o)
<1>1. o.rv \in Nat /\ o.uid \in Nat /\ o.generation \in Nat
  BY DEF IsObject, ObjectSet
<1>2. Follows(Creation(o, spec, status), o)
  <2>1. PICK n : n = Creation(o, spec, status)
    OBVIOUS
  <2>2. n.rv = o.rv + 1 /\ n.uid = o.uid + 1
    BY <2>1 DEF Creation
  <2>3. o.uid < n.uid /\ o.uid # n.uid /\ o.rv < n.rv
    BY <1>1, <2>2
  <2> QED
    BY <1>1, <2>1, <2>2, <2>3 DEF Follows, Earlier
<1>3. o.exists => Follows(NextGeneration(o, spec, deleting), o)
  BY <1>1 DEF Follows, Earlier, NextGeneration
<1>4. Follows(Removal(o), o)
  BY <1>1 DEF Follows, Earlier, Removal
<1> QED
  BY <1>2, <1>3, <1>4

\* Storing an object whose finalizer or status alone is changed.
LEMMA StoredFollows ==
  ASSUME NEW o, IsObject(o), NEW new, IsObject(new), new.exists = o.exists, new.uid = o.uid,
         new.generation = o.generation, new.deleting = o.deleting, new.spec = o.spec
  PROVE  LET n == Stored(o, new) IN
           /\ Follows(n, o)
           /\ n.exists = o.exists /\ n.uid = o.uid /\ n.generation = o.generation
           /\ n.deleting = o.deleting /\ n.spec = o.spec /\ n.status = new.status
<1>1. o.rv \in Nat /\ o.uid \in Nat /\ o.generation \in Nat
  BY DEF IsObject, ObjectSet
<1>2. CASE new = o
  BY <1>1, <1>2, EarlierSelf DEF Stored, Follows
<1>3. CASE new # o
  <2> DEFINE n == [new EXCEPT !.rv = o.rv + 1]
  <2>1. /\ n.rv = o.rv + 1 /\ n.exists = o.exists /\ n.uid = o.uid
        /\ n.generation = o.generation /\ n.deleting = o.deleting /\ n.spec = o.spec
        /\ n.status = new.status
    BY DEF IsObject, ObjectSet
  <2>2. Stored(o, new) = n
    BY <1>3 DEF Stored
  <2> HIDE DEF n
  <2> QED
    BY <1>1, <2>1, <2>2 DEF Follows, Earlier
<1> QED
  BY <1>2, <1>3

----------------------------------------------------------------------------
\* Writes.

\* What is stored of one object leaves the copies of it what they are.
LEMMA StoreVersions ==
  ASSUME Inv, VersionsInv, NEW r \in Rules, NEW n, IsObject(n), Store(r, n),
         Follows(n, api[r]), Mine(r, n, remote), Covers(cache[r], n),
         UNCHANGED <<cache, remote>>
  PROVE  VersionsInv'
<1>1. /\ \A q \in Rules : api'[q] = IF q = r THEN n ELSE api[q]
      /\ \A q \in Rules \ {r} : watch'[q] = watch[q]
      /\ watch'[r] \subseteq watch[r] \cup {n}
  BY DEF Store, Inv, ObjectsInv
<1>2. \A q \in Rules : /\ IsObject(api[q]) /\ IsObject(cache[q])
                       /\ \A w \in watch[q] : IsObject(w)
  BY DEF Inv, ObjectsInv, Sound
<1>3. ASSUME NEW v, IsObject(v), Earlier(v, api[r]) PROVE Earlier(v, n)
  BY <1>2, <1>3, EarlierTransitive DEF Follows
<1>4. Earlier(n, n)
  BY EarlierSelf
<1>5. ASSUME NEW q \in Rules, q # r
      PROVE  /\ Mine(q, api'[q], remote) /\ Mine(q, cache[q], remote)
             /\ Earlier(cache[q], api'[q]) /\ Covers(cache[q], api'[q])
             /\ \A w \in watch'[q] :
                  Mine(q, w, remote) /\ Earlier(w, api'[q]) /\ Earlier(cache[q], w)
             /\ \A v, w \in watch'[q] : v.rv < w.rv => Earlier(v, w)
  BY <1>1, <1>5 DEF VersionsInv
<1>6. \A w \in watch[r] : w.rv \in Nat /\ w.rv <= n.rv
  BY <1>2, <1>3 DEF VersionsInv, Earlier, IsObject, ObjectSet
<1>7. \A w \in watch'[r] :
        Mine(r, w, remote) /\ Earlier(w, n) /\ Earlier(cache[r], w)
  BY <1>1, <1>2, <1>3, <1>4 DEF VersionsInv
<1>8. n.rv \in Nat
  BY DEF IsObject, ObjectSet
<1>9. ASSUME NEW v \in watch'[r], NEW w \in watch'[r], v.rv < w.rv PROVE Earlier(v, w)
  <2>1. CASE v \in watch[r] /\ w \in watch[r]
    BY <1>9, <2>1 DEF VersionsInv
  <2>2. CASE w = n
    BY <1>7, <2>2
  <2>3. CASE v = n /\ w \in watch[r]
    BY <1>6, <1>8, <1>9, <2>3
  <2> QED
    BY <1>1, <2>1, <2>2, <2>3
<1>10. /\ Mine(r, cache[r], remote) /\ Earlier(cache[r], n) /\ api'[r] = n
  BY <1>1, <1>2, <1>3 DEF VersionsInv
<1> QED
  BY <1>5, <1>7, <1>9, <1>10 DEF VersionsInv

\* A user's request leaves no status that claims to be up to date.
LEMMA UserSkips ==
  ASSUME Inv, SkipInv, NEW r \in Rules, UserCreate(r) \/ UserEdit(r) \/ UserDelete(r)
  PROVE  SkipInv'
<1> DEFINE o == api[r]
           Result(n) == /\ Store(r, n) /\ IsObject(n) /\ Follows(n, o) /\ Mine(r, n, remote)
                        /\ \A v : Covers(v, o) => Covers(v, n)
                        /\ \A m : TrueUpTo(m, n, n.status, remote)
<1>1. /\ IsObject(o) /\ Mine(r, o, remote) /\ o.spec \in SpecsOf[r]
      /\ o.generation \in Nat /\ o.status.observedGeneration \in Nat /\ o.rv \in Nat
      /\ IsObject(cache[r]) /\ Covers(cache[r], o)
  BY DEF Inv, ObjectsInv, Sound, SkipInv, VersionsInv, Mine, IsObject, IsStatus, ObjectSet
<1>2. UNCHANGED <<cache, sourceVars, workerVars, remote>>
  BY DEF UserCreate, UserEdit, UserDelete
<1>3. \E n : Result(n)
  <2>1. CASE UserCreate(r)
    <3>1. PICK s \in SpecsOf[r] : Store(r, Creation(o, s, NoStatus))
      BY <2>1 DEF UserCreate
    <3> DEFINE n == Creation(o, s, NoStatus)
    <3>2. s \in RuleSpec
      BY SpecsTyped
    <3>3. IsObject(n)
      BY <1>1, <3>2, NoStatusTyped DEF IsObject, ObjectSet, Creation
    <3>4. Mine(r, n, remote)
      BY DEF Mine, BelongsTo, Creation, NoStatus
    <3>5. \A v : Covers(v, n)
      BY DEF Covers, Creation, NoStatus
    <3>6. \A m : TrueUpTo(m, n, n.status, remote)
      BY DEF TrueUpTo, Creation, NoStatus
    <3>7. Follows(n, o)
      BY <1>1, NextVersionFollows
    <3> QED
      BY <3>1, <3>3, <3>4, <3>5, <3>6, <3>7
  <2>2. ASSUME NEW spec \in SpecsOf[r], NEW deleting \in BOOLEAN, o.exists,
               Store(r, NextGeneration(o, spec, deleting))
        PROVE  \E n : Result(n)
    <3> DEFINE n == NextGeneration(o, spec, deleting)
    <3>2. spec \in RuleSpec
      BY SpecsTyped
    <3>3. IsObject(n)
      BY <1>1, <3>2 DEF IsObject, ObjectSet, NextGeneration
    <3>4. Mine(r, n, remote)
      BY <1>1 DEF Mine, NextGeneration
    <3>5. \A v : Covers(v, o) => Covers(v, n)
      BY DEF Covers, NextGeneration
    <3>6. n.status.observedGeneration # n.generation
      BY <1>1 DEF NextGeneration, Mine
    <3>7. \A m : TrueUpTo(m, n, n.status, remote)
      BY <3>6 DEF TrueUpTo
    <3>8. Follows(n, o)
      BY <1>1, <2>2, NextVersionFollows
    <3> QED
      BY <2>2, <3>3, <3>4, <3>5, <3>7, <3>8
  <2>3. CASE UserEdit(r)
    <3>1. o.deleting \in BOOLEAN
      BY <1>1 DEF IsObject, ObjectSet
    <3> QED
      BY <2>2, <2>3, <3>1 DEF UserEdit, SpecEdit
  <2>4. CASE UserDelete(r) /\ o.finalizer
    BY <1>1, <2>2, <2>4 DEF UserDelete, DeleteRequest
  <2>5. CASE UserDelete(r) /\ ~o.finalizer
    <3> DEFINE n == Removal(o)
    <3>1. Store(r, n)
      BY <2>5 DEF UserDelete, DeleteRequest
    <3>2. IsObject(n)
      BY <1>1 DEF IsObject, ObjectSet, Removal
    <3>3. Mine(r, n, remote)
      BY <1>1 DEF Mine, Removal
    <3>4. \A v : Covers(v, o) => Covers(v, n)
      BY DEF Covers, Removal
    <3>5. \A m : TrueUpTo(m, n, n.status, remote)
      BY DEF TrueUpTo, Removal
    <3>6. Follows(n, o)
      BY <1>1, NextVersionFollows
    <3> QED
      BY <3>1, <3>2, <3>3, <3>4, <3>5, <3>6
  <2> QED
    BY <2>1, <2>3, <2>4, <2>5
<1>4. PICK n : Result(n)
  BY <1>3
<1>5. \A q \in Rules : api'[q] = IF q = r THEN n ELSE api[q]
  BY <1>4 DEF Store, Inv, ObjectsInv
<1>6. VersionsInv'
  BY <1>1, <1>2, <1>4, StoreVersions DEF SkipInv
<1>7. pc # "idle" => key \in Rules /\ IsObject(obj) /\ CopyOf(obj, api[key])
  BY DEF Inv, WorkerInv
<1>8. HandsInv'
  <2>1. SUFFICES ASSUME pc # "idle" PROVE Earlier(obj, api'[key]) /\ Covers(obj, api'[key])
    BY <1>2 DEF SkipInv, HandsInv, workerVars
  <2>2. Earlier(obj, api[key]) /\ Covers(obj, api[key])
    BY <2>1 DEF SkipInv, HandsInv
  <2>3. CASE key = r
    BY <1>1, <1>4, <1>5, <1>7, <2>1, <2>2, <2>3, EarlierTransitive DEF Follows
  <2> QED
    BY <1>5, <1>7, <2>1, <2>2, <2>3
<1>9. \A m : \A q \in Rules : TrueUpTo(m, api[q], api[q].status, remote)
                            => TrueUpTo(m, api'[q], api'[q].status, remote)
  BY <1>4, <1>5
<1>10. Now' = Now
  BY <1>2 DEF Now, sourceVars
<1>11. RoomInv'
  <2>1. pc \in {"list", "create", "update"} => key \in Rules
    BY <1>7
  <2> QED
    BY <1>2, <1>9, <1>10, <2>1 DEF SkipInv, RoomInv, workerVars
<1>12. pc = "status" /\ obj = api'[key] => obj = api[key]
  <2>1. SUFFICES ASSUME pc = "status", obj = api'[key], key = r, n # o PROVE FALSE
    BY <1>5, <1>7
  <2>2. obj.rv <= o.rv /\ obj.rv = n.rv /\ n.rv > o.rv
    BY <1>4, <1>5, <1>7, <2>1 DEF CopyOf, Follows
  <2> QED
    BY <1>1, <1>4, <2>2 DEF IsObject, ObjectSet
<1>13. ClaimsInv'
  BY <1>2, <1>9, <1>10, <1>12 DEF SkipInv, ClaimsInv, workerVars
<1> QED
  BY <1>6, <1>8, <1>11, <1>13 DEF SkipInv

----------------------------------------------------------------------------
\* Sources, informers, and the start of a reconcile.

\* The sources are read later; no object and no rule changes.
LEMMA LaterSkips ==
  ASSUME Inv, Inv', SkipInv, UNCHANGED <<kubeVars, cache, workerVars, remote>>, UpTo(Now, Now')
  PROVE  SkipInv'
<1>1. Now \in Moments /\ Now' \in Moments
  BY NowTyped, LaterTyped
<1>2. PICK later : later = Now'
  OBVIOUS
<1>3. \A m \in Moments : UpTo(m, Now) => UpTo(m, later)
  BY <1>1, <1>2, UpToTransitive
<1>4. \A o, status : TrueUpTo(Now, o, status, remote) => TrueUpTo(later, o, status, remote)
  BY <1>1, <1>2, TrueLater
<1>5. VersionsInv' /\ HandsInv'
  BY DEF SkipInv, VersionsInv, HandsInv, kubeVars, workerVars
<1>6. RoomInv'
  BY <1>2, <1>3 DEF SkipInv, RoomInv, kubeVars, workerVars
<1>7. ClaimsInv'
  BY <1>2, <1>4 DEF SkipInv, ClaimsInv, kubeVars, workerVars
<1> QED
  BY <1>5, <1>6, <1>7 DEF SkipInv

LEMMA SourcesSkip ==
  ASSUME Inv, Inv', SkipInv,
         \/ \E e \in Egresses : EgressChange(e) \/ EgressEvent(e)
         \/ \E s \in Servers \cup Secrets : SecretChange(s)
  PROVE  SkipInv'
<1>1. Now \in Moments
  BY NowTyped
<1>2. UNCHANGED <<kubeVars, cache, workerVars, remote>>
  BY DEF EgressChange, EgressEvent, SecretChange
<1>3. ASSUME NEW e \in Egresses, EgressChange(e) PROVE UpTo(Now, Now')
  BY <1>1, <1>3, UpToSelf DEF EgressChange, Now
<1>4. ASSUME NEW e \in Egresses, EgressEvent(e) PROVE UpTo(Now, Now')
  <2>1. PICK n \in (seen[e] + 1)..egress[e] : seen' = [seen EXCEPT ![e] = n]
    BY <1>4 DEF EgressEvent
  <2>2. \A d \in Egresses : seen[d] \in Nat /\ egress[d] \in Nat
    BY DEF Inv, SourcesInv
  <2>3. \A d \in Egresses : seen[d] <= seen'[d]
    BY <2>1, <2>2 DEF Inv, SourcesInv
  <2>4. secret' = secret /\ \A s \in Servers \cup Secrets : secret[s] <= secret[s]
    BY <1>4 DEF EgressEvent, Inv, SourcesInv
  <2> QED
    BY <2>3, <2>4 DEF UpTo, Now
<1>5. ASSUME NEW s \in Servers \cup Secrets, SecretChange(s) PROVE UpTo(Now, Now')
  <2>1. \A k \in Servers \cup Secrets : secret[k] \in Nat
    BY DEF Inv, SourcesInv
  <2>2. \A k \in Servers \cup Secrets : secret[k] <= secret'[k]
    BY <1>5, <2>1 DEF SecretChange, Inv, SourcesInv
  <2>3. seen' = seen /\ \A e \in Egresses : seen[e] <= seen[e]
    BY <1>5 DEF SecretChange, Inv, SourcesInv
  <2> QED
    BY <2>2, <2>3 DEF UpTo, Now
<1> QED
  BY <1>2, <1>3, <1>4, <1>5, LaterSkips

LEMMA WatchEventSkips ==
  ASSUME Inv, SkipInv, NEW r \in Rules, WatchEvent(r)
  PROVE  SkipInv'
<1>1. PICK o \in watch[r] : /\ cache' = [cache EXCEPT ![r] = o]
                            /\ watch' = [watch EXCEPT ![r] = {w \in @ : w.rv > o.rv}]
  BY DEF WatchEvent
<1>2. /\ \A q \in Rules : cache'[q] = IF q = r THEN o ELSE cache[q]
      /\ \A q \in Rules \ {r} : watch'[q] = watch[q]
      /\ watch'[r] = {w \in watch[r] : w.rv > o.rv}
  BY <1>1 DEF Inv, ObjectsInv
<1>3. UNCHANGED <<api, sourceVars, workerVars, remote>> /\ Now' = Now
  BY DEF WatchEvent, sourceVars, Now
<1>4. \A q \in Rules : /\ IsObject(api[q]) /\ IsObject(cache[q])
                       /\ \A w \in watch[q] : IsObject(w)
  BY DEF Inv, ObjectsInv, Sound
<1>5. /\ Mine(r, o, remote) /\ Earlier(o, api[r]) /\ Earlier(cache[r], o)
      /\ Covers(cache[r], api[r])
  BY DEF SkipInv, VersionsInv
<1>6. Covers(o, api[r])
  BY <1>4, <1>5, CoversLater
<1>7. \A w \in watch'[r] : /\ w \in watch[r] /\ Earlier(o, w)
                           /\ Mine(r, w, remote) /\ Earlier(w, api[r])
  <2>1. o.rv \in Nat /\ \A w \in watch[r] : w.rv \in Nat
    BY <1>4 DEF IsObject, ObjectSet
  <2> QED
    BY <1>2, <2>1 DEF SkipInv, VersionsInv
<1>8. VersionsInv'
  <2>1. SUFFICES ASSUME NEW q \in Rules
                 PROVE  /\ Mine(q, api[q], remote) /\ Mine(q, cache'[q], remote)
                        /\ Earlier(cache'[q], api[q]) /\ Covers(cache'[q], api[q])
                        /\ \A w \in watch'[q] : /\ Mine(q, w, remote) /\ Earlier(w, api[q])
                                                /\ Earlier(cache'[q], w)
                        /\ \A v, w \in watch'[q] : v.rv < w.rv => Earlier(v, w)
    BY <1>3 DEF VersionsInv
  <2>2. CASE q = r
    BY <1>2, <1>5, <1>6, <1>7, <2>2 DEF SkipInv, VersionsInv
  <2>3. CASE q # r
    BY <1>2, <2>3 DEF SkipInv, VersionsInv
  <2> QED
    BY <2>2, <2>3
<1>9. HandsInv'
  <2>1. SUFFICES ASSUME pc # "idle" PROVE Earlier(obj, cache'[key])
    BY <1>3 DEF SkipInv, HandsInv, workerVars
  <2>2. key \in Rules /\ IsObject(obj) /\ Earlier(obj, cache[key])
    BY <2>1 DEF Inv, WorkerInv, SkipInv, HandsInv
  <2> QED
    BY <1>2, <1>4, <1>5, <2>2, EarlierTransitive
<1>10. RoomInv' /\ ClaimsInv'
  BY <1>3 DEF SkipInv, RoomInv, ClaimsInv, workerVars
<1> QED
  BY <1>8, <1>9, <1>10 DEF SkipInv

\* A new process has the versions that are stored, and sees all there is of the EgressConfigs.
LEMMA RestartSkips ==
  ASSUME Inv, Inv', SkipInv, Restart
  PROVE  SkipInv'
<1>1. /\ api' = api /\ cache' = api /\ watch' = [r \in Rules |-> {}] /\ remote' = remote
      /\ pc' = "idle" /\ seen' = egress /\ secret' = secret
  BY DEF Restart, Idle
<1>2. Now \in Moments /\ Now' \in Moments
  BY NowTyped, LaterTyped
<1>3. UpTo(Now, Now')
  <2>1. \A e \in Egresses : seen[e] <= egress[e]
    BY DEF Inv, SourcesInv
  <2>2. \A s \in Servers \cup Secrets : secret[s] <= secret[s]
    BY DEF Inv, SourcesInv
  <2> QED
    BY <1>1, <2>1, <2>2 DEF UpTo, Now
<1>4. ASSUME NEW r \in Rules PROVE Earlier(api[r], api[r]) /\ Covers(api[r], api[r])
  <2>1. IsObject(api[r]) /\ api[r].status.observedGeneration <= api[r].generation
    BY DEF Inv, ObjectsInv, Sound, SkipInv, VersionsInv, Mine
  <2> QED
    BY <2>1, EarlierSelf DEF Covers
<1>5. VersionsInv'
  BY <1>1, <1>4 DEF SkipInv, VersionsInv
<1>6. HandsInv' /\ RoomInv'
  BY <1>1 DEF HandsInv, RoomInv
<1>7. ClaimsInv'
  <2>1. PICK later : later = Now'
    OBVIOUS
  <2>2. \A r \in Rules : TrueUpTo(later, api[r], api[r].status, remote)
    BY <1>2, <1>3, <2>1, TrueLater DEF SkipInv, ClaimsInv
  <2> QED
    BY <1>1, <2>1, <2>2 DEF ClaimsInv
<1> QED
  BY <1>5, <1>6, <1>7 DEF SkipInv

\* Nothing but the queue changes.
LEMMA NothingSkips ==
  ASSUME Inv, Inv', SkipInv,
         UNCHANGED <<kubeVars, cache, sourceVars, workerVars, remote>>
  PROVE  SkipInv'
<1>1. UpTo(Now, Now')
  BY NowTyped, UpToSelf DEF Now, sourceVars
<1> QED
  BY <1>1, LaterSkips

LEMMA ReconcileSkips ==
  ASSUME Inv, Inv', SkipInv, NEW r \in Rules, Reconcile(r)
  PROVE  SkipInv'
<1> DEFINE o == cache[r]
<1>1. Take(r) /\ UNCHANGED <<kubeVars, cache, sourceVars, remote>>
  BY DEF Reconcile, SkipReconcile, StartDelete, StartAddFinalizer, LiveKitSecretError,
         RoomConfigError, StartCreate, StartUpdate, SkipUpdate, TakeResolved, TakeWanted, Take
<1>2. /\ IsObject(o) /\ IsObject(api[r]) /\ Mine(r, o, remote) /\ Earlier(o, api[r])
      /\ Covers(o, api[r]) /\ Earlier(o, o)
  BY EarlierSelf DEF Inv, ObjectsInv, Sound, SkipInv, VersionsInv
<1>3. Now' = Now /\ Now \in Moments
  BY <1>1, NowTyped DEF Now, sourceVars
<1>4. VersionsInv'
  BY <1>1 DEF SkipInv, VersionsInv, kubeVars
<1>5. \A q \in Rules : TrueUpTo(Now, api[q], api[q].status, remote)
  BY DEF SkipInv, ClaimsInv
<1>6. ASSUME NEW step, NEW status, NEW requeue, Proceed(r, step, status, requeue),
             status.dispatchRuleID = o.status.dispatchRuleID,
             status.observedGeneration = o.status.observedGeneration,
             status.configHash = o.status.configHash,
             step \in {"list", "create", "update"} =>
               /\ status = o.status
               /\ Resolvable(o.spec, seen) /\ room' = BuildRoomConfig(o.spec, seen),
             step \in {"list", "create"} => o.status.dispatchRuleID = NoId
      PROVE  SkipInv'
  <2>1. pc' = step /\ key' = r /\ obj' = o /\ draft' = status
    BY <1>6 DEF Proceed
  <2>2. HandsInv'
    BY <1>1, <1>2, <1>6, <2>1 DEF HandsInv, Mine, kubeVars
  <2>3. RoomInv'
    <3>1. SUFFICES ASSUME step \in {"list", "create", "update"}
                   PROVE  /\ UpTo(Now, Now) /\ ResolvableAt(o.spec, Now)
                          /\ room' = RoomAt(o.spec, Now)
                          /\ TrueUpTo(Now, api[r], api[r].status, remote)
      BY <1>1, <1>3, <2>1 DEF RoomInv, kubeVars
    <3>2. PICK at : at = seen
      OBVIOUS
    <3>3. PICK m : m = [egress |-> at, secret |-> secret]
      OBVIOUS
    <3>4. /\ RoomAt(o.spec, m) = BuildRoomConfig(o.spec, at)
          /\ ResolvableAt(o.spec, m) <=> Resolvable(o.spec, at)
      BY <3>3, RoomNow
    <3>5. m = Now
      BY <3>2, <3>3 DEF Now
    <3> QED
      BY <1>3, <1>5, <1>6, <3>1, <3>2, <3>4, <3>5, UpToSelf
  <2>4. ClaimsInv'
    <3>1. ASSUME o = api[r] PROVE TrueUpTo(Now, o, status, remote)
      BY <1>5, <1>6, <3>1, TrueAlike
    <3> QED
      BY <1>1, <1>3, <1>5, <2>1, <3>1 DEF ClaimsInv, kubeVars
  <2> QED
    BY <1>4, <2>2, <2>3, <2>4 DEF SkipInv
<1>7. CASE UNCHANGED workerVars
  BY <1>1, <1>7, NothingSkips
<1>8. CASE StartDelete(r)
  <2>1. Proceed(r, DeleteStep(o), o.status, FALSE)
    BY <1>8 DEF StartDelete
  <2>2. DeleteStep(o) \notin {"list", "create", "update"}
    BY DEF DeleteStep
  <2> QED
    BY <1>6, <2>1, <2>2
<1>9. CASE StartAddFinalizer(r)
  BY <1>6, <1>9 DEF StartAddFinalizer
<1>10. ASSUME NEW reason \in ReadyReasons, Proceed(r, "status", Report(o.status, reason), TRUE)
       PROVE  SkipInv'
  <2>1. /\ Report(o.status, reason).dispatchRuleID = o.status.dispatchRuleID
        /\ Report(o.status, reason).observedGeneration = o.status.observedGeneration
        /\ Report(o.status, reason).configHash = o.status.configHash
    BY <1>2 DEF Report, IsObject, IsStatus
  <2> QED
    BY <1>6, <1>10, <2>1
<1>11. CASE LiveKitSecretError(r) \/ RoomConfigError(r)
  BY <1>10, <1>11 DEF LiveKitSecretError, RoomConfigError, ReadyReasons
<1>12. CASE StartCreate(r)
  BY <1>6, <1>12 DEF StartCreate, TakeResolved
<1>13. CASE StartUpdate(r)
  BY <1>6, <1>13 DEF StartUpdate, TakeResolved
<1> QED
  BY <1>7, <1>8, <1>9, <1>11, <1>12, <1>13 DEF Reconcile, SkipReconcile, SkipUpdate

----------------------------------------------------------------------------
\* The writes that end a reconcile.

LEMMA WriteSkips ==
  ASSUME Inv, SkipInv, pc # "idle", NEW n, NEW requeue, Write(n, requeue),
         Accepts(api[key], obj) =>
           /\ IsObject(n) /\ Follows(n, api[key]) /\ Mine(key, n, remote)
           /\ Covers(cache[key], n) /\ TrueUpTo(Now, n, n.status, remote)
  PROVE  SkipInv'
<1>1. /\ UNCHANGED kubeVars \/ (Accepts(api[key], obj) /\ Store(key, n))
      /\ pc' = "idle" /\ UNCHANGED <<cache, sourceVars, remote>>
  BY DEF Write, Finish, Idle
<1>2. key \in Rules
  BY DEF Inv, WorkerInv
<1>3. VersionsInv'
  <2>1. CASE UNCHANGED kubeVars
    BY <1>1, <2>1 DEF SkipInv, VersionsInv, kubeVars
  <2>2. CASE Accepts(api[key], obj) /\ Store(key, n)
    BY <1>1, <1>2, <2>2, StoreVersions DEF SkipInv
  <2> QED
    BY <1>1, <2>1, <2>2
<1>4. HandsInv' /\ RoomInv'
  BY <1>1 DEF HandsInv, RoomInv
<1>5. ClaimsInv'
  <2>1. Now' = Now
    BY <1>1 DEF Now, sourceVars
  <2>2. \A r \in Rules : api'[r] = api[r] \/ (Accepts(api[key], obj) /\ r = key /\ api'[r] = n)
    BY <1>1, <1>2 DEF kubeVars, Store, Inv, ObjectsInv
  <2>3. \A r \in Rules : TrueUpTo(Now, api'[r], api'[r].status, remote)
    BY <2>2 DEF SkipInv, ClaimsInv
  <2> QED
    BY <1>1, <2>1, <2>3 DEF ClaimsInv
<1> QED
  BY <1>3, <1>4, <1>5 DEF SkipInv

\* A write that is accepted finds the worker, its cache and the API server of one mind.
LEMMA AcceptedIsCached ==
  ASSUME Inv, SkipInv, pc # "idle", Accepts(api[key], obj)
  PROVE  /\ key \in Rules /\ obj = api[key] /\ IsObject(obj) /\ Mine(key, obj, remote)
         /\ cache[key].uid = obj.uid /\ cache[key].generation = obj.generation
<1>1. key \in Rules /\ obj = api[key] /\ IsObject(obj) /\ IsObject(cache[key])
  BY AcceptedIsRead DEF Inv, ObjectsInv, WorkerInv, Sound
<1>2. /\ Earlier(obj, cache[key]) /\ Earlier(cache[key], api[key])
      /\ Mine(key, obj, remote)
  BY <1>1 DEF SkipInv, VersionsInv, HandsInv
<1> QED
  BY <1>1, <1>2 DEF Earlier, IsObject, ObjectSet

LEMMA WritesSkip ==
  ASSUME Inv, SkipInv, AddFinalizer \/ RemoveFinalizer \/ WriteStatus
  PROVE  SkipInv'
<1> DEFINE o == api[key]
<1>1. pc # "idle"
  BY DEF AddFinalizer, RemoveFinalizer, WriteStatus
<1>2. ASSUME Accepts(o, obj)
      PROVE  /\ key \in Rules /\ obj = o /\ IsObject(o) /\ Mine(key, o, remote)
             /\ cache[key].uid = o.uid /\ cache[key].generation = o.generation
             /\ TrueUpTo(Now, o, o.status, remote) /\ Covers(cache[key], o)
  BY <1>1, <1>2, AcceptedIsCached DEF SkipInv, ClaimsInv, VersionsInv
<1>3. ASSUME Accepts(o, obj), NEW new, IsObject(new), new.exists = o.exists, new.uid = o.uid,
             new.generation = o.generation, new.deleting = o.deleting, new.spec = o.spec,
             IsObject(Stored(o, new)), BelongsTo(key, new.status.dispatchRuleID, remote),
             new.status.dispatchRuleID = NoId => new.status.observedGeneration = 0,
             new.status.observedGeneration <= o.generation,
             TrueUpTo(Now, o, new.status, remote)
      PROVE  LET n == Stored(o, new) IN
               /\ IsObject(n) /\ Follows(n, o) /\ Mine(key, n, remote)
               /\ Covers(cache[key], n) /\ TrueUpTo(Now, n, n.status, remote)
  <2>1. PICK n : n = Stored(o, new)
    OBVIOUS
  <2>2. /\ Follows(n, o)
        /\ n.exists = o.exists /\ n.uid = o.uid /\ n.generation = o.generation
        /\ n.deleting = o.deleting /\ n.spec = o.spec /\ n.status = new.status
    BY <1>2, <1>3, <2>1, StoredFollows
  <2>3. Mine(key, n, remote)
    BY <1>2, <1>3, <2>2 DEF Mine
  <2>4. Covers(cache[key], n)
    BY <1>2, <1>3, <2>2 DEF Covers
  <2>5. TrueUpTo(Now, n, n.status, remote)
    BY <1>3, <2>2, TrueAlike
  <2> QED
    BY <1>3, <2>1, <2>2, <2>3, <2>4, <2>5
<1>4. CASE AddFinalizer
  <2>1. ASSUME Accepts(o, obj)
        PROVE  LET n == FinalizerAdded(o) IN
                 /\ IsObject(n) /\ Follows(n, o) /\ Mine(key, n, remote)
                 /\ Covers(cache[key], n) /\ TrueUpTo(Now, n, n.status, remote)
    <3>1. PICK new : new = [o EXCEPT !.finalizer = TRUE]
      OBVIOUS
    <3>2. /\ IsObject(new) /\ new.exists = o.exists /\ new.uid = o.uid
          /\ new.generation = o.generation /\ new.deleting = o.deleting /\ new.spec = o.spec
          /\ new.status = o.status
      BY <1>2, <2>1, <3>1 DEF IsObject, ObjectSet
    <3>3. FinalizerAdded(o) = Stored(o, new)
      BY <3>1 DEF FinalizerAdded
    <3>4. IsObject(Stored(o, new))
      BY <1>4, <2>1, <3>3, WorkerWrites DEF AddFinalizer, Advances, Sound
    <3> QED
      BY <1>2, <1>3, <2>1, <3>2, <3>3, <3>4 DEF Mine
  <2> QED
    BY <1>1, <1>4, <2>1, WriteSkips DEF AddFinalizer
<1>5. CASE RemoveFinalizer
  <2>1. ASSUME Accepts(o, obj)
        PROVE  LET n == FinalizerDropped(o) IN
                 /\ IsObject(n) /\ Follows(n, o) /\ Mine(key, n, remote)
                 /\ Covers(cache[key], n) /\ TrueUpTo(Now, n, n.status, remote)
    <3>1. o.deleting
      BY <1>2, <1>5, <2>1 DEF RemoveFinalizer, Inv, WorkerInv
    <3>2. FinalizerDropped(o) = Removal(o)
      BY <3>1 DEF FinalizerDropped
    <3>3. IsObject(Removal(o))
      BY <1>2, <2>1 DEF IsObject, ObjectSet, Removal
    <3>4. Mine(key, Removal(o), remote) /\ Covers(cache[key], Removal(o))
      BY <1>2, <2>1 DEF Mine, Covers, Removal
    <3>5. Follows(Removal(o), o)
      BY <1>2, <2>1, NextVersionFollows
    <3>6. TrueUpTo(Now, Removal(o), Removal(o).status, remote)
      BY DEF TrueUpTo, Removal
    <3> QED
      BY <3>2, <3>3, <3>4, <3>5, <3>6
  <2> QED
    BY <1>1, <1>5, <2>1, WriteSkips DEF RemoveFinalizer
<1>6. CASE WriteStatus
  <2>1. ASSUME Accepts(o, obj)
        PROVE  LET n == StatusWrite(o, draft) IN
                 /\ IsObject(n) /\ Follows(n, o) /\ Mine(key, n, remote)
                 /\ Covers(cache[key], n) /\ TrueUpTo(Now, n, n.status, remote)
    <3>1. PICK new : new = [o EXCEPT !.status = draft]
      OBVIOUS
    <3>2. IsStatus(draft)
      BY DEF Inv, WorkerInv
    <3>3. /\ IsObject(new) /\ new.exists = o.exists /\ new.uid = o.uid
          /\ new.generation = o.generation /\ new.deleting = o.deleting /\ new.spec = o.spec
          /\ new.status = draft
      BY <1>2, <2>1, <3>1, <3>2 DEF IsObject, ObjectSet
    <3>4. StatusWrite(o, draft) = Stored(o, new)
      BY <3>1 DEF StatusWrite
    <3>5. IsObject(Stored(o, new))
      BY <1>6, <2>1, <3>4, WorkerWrites DEF WriteStatus, Advances, Sound
    <3>6. /\ BelongsTo(key, draft.dispatchRuleID, remote)
          /\ draft.dispatchRuleID = NoId => draft.observedGeneration = 0
          /\ draft.observedGeneration <= o.generation
      BY <1>1, <1>2, <2>1 DEF SkipInv, HandsInv
    <3>7. TrueUpTo(Now, o, draft, remote)
      BY <1>2, <1>6, <2>1 DEF WriteStatus, SkipInv, ClaimsInv
    <3> QED
      BY <1>3, <2>1, <3>3, <3>4, <3>5, <3>6, <3>7
  <2> QED
    BY <1>1, <1>6, <2>1, WriteSkips DEF WriteStatus
<1> QED
  BY <1>4, <1>5, <1>6

----------------------------------------------------------------------------
\* The calls to LiveKit.

\* LiveKit may have changed, and the worker goes on with its reconcile.
LEMMA CallSkips ==
  ASSUME Inv, SkipInv, pc # "idle", NEW step \in {"status", "create", "removeFinalizer"},
         NEW status, NEW requeue, Continue(step, status, requeue),
         UNCHANGED <<kubeVars, cache, sourceVars>>,
         \A r \in Rules : \A o : IsObject(o) /\ Handed(o.status, remote) /\ Mine(r, o, remote)
                                 => Mine(r, o, remote'),
         \A r \in Rules : TrueUpTo(Now, api[r], api[r].status, remote'),
         BelongsTo(key, status.dispatchRuleID, remote'),
         status.dispatchRuleID = NoId => status.observedGeneration = 0,
         status.observedGeneration <= obj.generation,
         step = "create" => pc = "list" /\ status = draft /\ UNCHANGED remote,
         step = "status" /\ obj = api[key] => TrueUpTo(Now, obj, status, remote')
  PROVE  SkipInv'
<1>1. /\ pc' = step /\ draft' = status /\ (step = "create" => room' = room)
      /\ UNCHANGED <<key, obj, api, watch, cache>> /\ Now' = Now
  BY DEF Continue, kubeVars, sourceVars, Now
<1>2. /\ key \in Rules /\ IsObject(obj) /\ Handed(obj.status, remote)
      /\ \A r \in Rules : /\ Sound(api[r], remote) /\ Sound(cache[r], remote)
                          /\ \A w \in watch[r] : Sound(w, remote)
  BY DEF Inv, WorkerInv, ObjectsInv
<1>3. VersionsInv'
  <2>1. ASSUME NEW r \in Rules
        PROVE  /\ Mine(r, api[r], remote') /\ Mine(r, cache[r], remote')
               /\ \A w \in watch[r] : Mine(r, w, remote')
    BY <1>2 DEF SkipInv, VersionsInv, Sound
  <2> QED
    BY <1>1, <2>1 DEF SkipInv, VersionsInv
<1>4. HandsInv'
  <2>1. Mine(key, obj, remote')
    BY <1>2 DEF SkipInv, HandsInv
  <2> QED
    BY <1>1, <2>1 DEF SkipInv, HandsInv
<1>5. RoomInv'
  BY <1>1 DEF SkipInv, RoomInv
<1>6. ClaimsInv'
  BY <1>1 DEF ClaimsInv
<1> QED
  BY <1>3, <1>4, <1>5, <1>6 DEF SkipInv

\* The status in memory with an error, when LiveKit agrees with what is stored.
LEMMA ReportSkips ==
  ASSUME Inv, SkipInv, pc \in {"list", "create", "update"},
         NEW reason \in ReadyReasons, Continue("status", Report(draft, reason), TRUE),
         UNCHANGED <<kubeVars, cache, sourceVars>>,
         \A r \in Rules : \A o : IsObject(o) /\ Handed(o.status, remote) /\ Mine(r, o, remote)
                                 => Mine(r, o, remote'),
         \A r \in Rules : TrueUpTo(Now, api[r], api[r].status, remote')
  PROVE  SkipInv'
<1>1. /\ key \in Rules /\ IsObject(obj) /\ Handed(obj.status, remote) /\ draft = obj.status
      /\ Mine(key, obj, remote) /\ IsStatus(draft)
  BY DEF Inv, WorkerInv, SkipInv, HandsInv
<1>2. PICK status : status = Report(draft, reason)
  OBVIOUS
<1>3. /\ status.dispatchRuleID = draft.dispatchRuleID
      /\ status.observedGeneration = draft.observedGeneration
      /\ status.configHash = draft.configHash
  BY <1>1, <1>2 DEF Report, IsStatus
<1>4. Mine(key, obj, remote')
  BY <1>1
<1>5. obj = api[key] => TrueUpTo(Now, obj, status, remote')
  <2>1. PICK later : later = remote'
    OBVIOUS
  <2>2. obj = api[key] => TrueUpTo(Now, obj, obj.status, later)
    BY <1>1, <2>1
  <2>3. obj = api[key] => TrueUpTo(Now, obj, status, later)
    BY <1>1, <1>3, <2>2, TrueAlike
  <2> QED
    BY <2>1, <2>3
<1>6. /\ BelongsTo(key, status.dispatchRuleID, remote')
      /\ status.dispatchRuleID = NoId => status.observedGeneration = 0
      /\ status.observedGeneration <= obj.generation
  BY <1>1, <1>3, <1>4 DEF Mine
<1>7. Continue("status", status, TRUE)
  BY <1>2
<1> QED
  BY <1>5, <1>6, <1>7, CallSkips

LEMMA ListRulesSkips ==
  ASSUME Inv, SkipInv, ListRules
  PROVE  SkipInv'
<1>1. /\ pc = "list" /\ UNCHANGED <<kubeVars, cache, sourceVars, remote>>
      /\ \A r \in Rules : TrueUpTo(Now, api[r], api[r].status, remote')
  BY DEF ListRules, SkipInv, ClaimsInv
<1>2. /\ key \in Rules /\ Mine(key, obj, remote) /\ draft = obj.status /\ obj.exists
      /\ obj.status.dispatchRuleID = NoId /\ IsStatus(draft)
  BY <1>1 DEF Inv, WorkerInv, SkipInv, HandsInv
<1>3. CASE \E id \in FindByName(obj.spec.livekitRef, obj.spec.name) :
             Continue("status", Adopted(draft, id, obj, room), TRUE)
  <2>1. PICK id \in FindByName(obj.spec.livekitRef, obj.spec.name) :
          Continue("status", Adopted(draft, id, obj, room), TRUE)
    BY <1>3
  <2>2. PICK status : status = Adopted(draft, id, obj, room)
    OBVIOUS
  <2>3. status.dispatchRuleID = id /\ status.observedGeneration = 0
    BY <1>2, <2>2 DEF Adopted, IsStatus, Mine
  <2>4. BelongsTo(key, id, remote) /\ id # NoId
    BY <1>2, <2>1, MarkersAssumption DEF FindByName, BelongsTo, Mine
  <2>5. obj.generation > 0 /\ obj.generation \in Nat
    BY <1>2 DEF Mine, Inv, WorkerInv, IsObject, ObjectSet
  <2>6. TrueUpTo(Now, obj, status, remote')
    BY <2>3, <2>5 DEF TrueUpTo
  <2>7. Continue("status", status, TRUE)
    BY <2>1, <2>2
  <2>8. status.observedGeneration <= obj.generation
    BY <2>3, <2>5
  <2> QED
    BY <1>1, <2>3, <2>4, <2>6, <2>7, <2>8, CallSkips
<1>4. CASE Continue("create", draft, TRUE)
  <2>1. /\ BelongsTo(key, draft.dispatchRuleID, remote')
        /\ draft.dispatchRuleID = NoId => draft.observedGeneration = 0
        /\ draft.observedGeneration <= obj.generation
    BY <1>1, <1>2 DEF Mine
  <2>2. PICK status : status = draft
    OBVIOUS
  <2> QED
    BY <1>1, <1>4, <2>1, <2>2, CallSkips
<1>5. CASE Continue("status", Report(draft, "ListFailed"), TRUE)
  BY <1>1, <1>5, ReportSkips DEF ReadyReasons
<1> QED
  BY <1>3, <1>4, <1>5 DEF ListRules

\* A change of a rule of the worker's resource leaves the rules of the others alone.
LEMMA OthersKept ==
  ASSUME Inv, SkipInv, OwnNamesOnly, key \in Rules, NEW id \in Ids,
         remote[id] = Unused \/ (Live(id) /\ BelongsTo(key, id, remote)),
         NEW copy, copy.state = "live" =>
                     \E s \in SpecsOf[key] : copy.server = s.livekitRef /\ copy.info.name = s.name,
         NEW later, later = [remote EXCEPT ![id] = copy]
  PROVE  /\ \A r \in Rules : \A o : IsObject(o) /\ Handed(o.status, remote) /\ Mine(r, o, remote)
                                    => Mine(r, o, later)
         /\ \A r \in Rules : api[r].status.dispatchRuleID # id =>
              TrueUpTo(Now, api[r], api[r].status, later)
         /\ \A r \in Rules \ {key} : TrueUpTo(Now, api[r], api[r].status, later)
         /\ remote[id] = Unused => TrueUpTo(Now, api[key], api[key].status, later)
<1>1. \A i \in Ids : later[i] = IF i = id THEN copy ELSE remote[i]
  BY DEF Inv, RestInv
<1>2. id # NoId
  BY MarkersAssumption
<1>3. ASSUME NEW r \in Rules, NEW i \in Ids, r # key, i = id,
             BelongsTo(r, i, remote), Live(id)
      PROVE  FALSE
  BY <1>2, <1>3 DEF OwnNamesOnly, BelongsTo, Live, Unused
<1>4. ASSUME NEW r \in Rules, NEW o, IsObject(o), Handed(o.status, remote), Mine(r, o, remote)
      PROVE  Mine(r, o, later)
  <2> DEFINE i == o.status.dispatchRuleID
  <2>1. i \in Ids \cup {NoId} /\ (i # NoId => remote[i] # Unused)
    BY <1>4 DEF IsObject, IsStatus, Handed
  <2>2. CASE i # id
    BY <1>1, <1>4, <2>1, <2>2 DEF Mine, BelongsTo
  <2>3. CASE i = id
    <3>1. Live(id) /\ BelongsTo(r, i, remote)
      BY <1>2, <1>4, <2>1, <2>3 DEF Mine
    <3>2. r = key
      BY <1>3, <2>3, <3>1
    <3>3. BelongsTo(key, i, later)
      BY <1>1, <2>3 DEF BelongsTo
    <3> QED
      BY <1>4, <3>2, <3>3 DEF Mine
  <2> QED
    BY <2>2, <2>3
<1>5. \A r \in Rules : /\ TrueUpTo(Now, api[r], api[r].status, remote)
                       /\ api[r].status.dispatchRuleID \in Ids \cup {NoId}
                       /\ BelongsTo(r, api[r].status.dispatchRuleID, remote)
                       /\ Handed(api[r].status, remote)
  BY DEF SkipInv, ClaimsInv, VersionsInv, Mine, Inv, ObjectsInv, Sound, IsObject, IsStatus
<1>6. ASSUME NEW r \in Rules, api[r].status.dispatchRuleID # id
      PROVE  TrueUpTo(Now, api[r], api[r].status, later)
  <2>1. CASE api[r].status.dispatchRuleID = NoId
    BY <2>1 DEF TrueUpTo
  <2>2. CASE api[r].status.dispatchRuleID # NoId
    <3>1. later[api[r].status.dispatchRuleID] = remote[api[r].status.dispatchRuleID]
      BY <1>1, <1>5, <1>6, <2>2
    <3> QED
      BY <1>5, <3>1, TrueAlike
  <2> QED
    BY <2>1, <2>2
<1>7. ASSUME NEW r \in Rules, r # key PROVE api[r].status.dispatchRuleID # id
  <2>1. SUFFICES ASSUME api[r].status.dispatchRuleID = id PROVE FALSE
    OBVIOUS
  <2>2. Live(id) /\ BelongsTo(r, id, remote)
    BY <1>2, <1>5, <2>1 DEF Handed
  <2> QED
    BY <1>3, <1>7, <2>2
<1>8. ASSUME remote[id] = Unused PROVE api[key].status.dispatchRuleID # id
  BY <1>2, <1>5, <1>8 DEF Handed
<1> QED
  BY <1>4, <1>6, <1>7, <1>8

\* What the worker writes has the name and the server of a spec of its resource.
LEMMA CopyBelongs ==
  ASSUME Inv, SkipInv, pc # "idle"
  PROVE  LET copy == RemoteCopy(obj, room) IN
           \E s \in SpecsOf[key] : copy.server = s.livekitRef /\ copy.info.name = s.name
  BY DEF SkipInv, HandsInv, Mine, RemoteCopy, BuildRuleInfo

\* A status of what has just been pushed is true.
LEMMA PushedTruth ==
  ASSUME Inv, SkipInv, pc \in {"create", "update"}, NEW id,
         NEW later, later[id] = RemoteCopy(obj, room)
  PROVE  LET status == Synced(draft, id, obj, room) IN
           /\ TrueUpTo(Now, obj, status, later)
           /\ BelongsTo(key, status.dispatchRuleID, later)
           /\ status.dispatchRuleID = id /\ status.observedGeneration = obj.generation
<1>1. PICK m \in Moments :
        UpTo(m, Now) /\ ResolvableAt(obj.spec, m) /\ room = RoomAt(obj.spec, m)
  BY DEF SkipInv, RoomInv
<1>2. PICK status : status = Synced(draft, id, obj, room)
  OBVIOUS
<1>3. IsStatus(draft)
  BY DEF Inv, WorkerInv
<1>4. PICK hash : hash = ComputeConfigHash(room)
  OBVIOUS
<1>5. /\ status.dispatchRuleID = id /\ status.observedGeneration = obj.generation
      /\ status.configHash = hash
  BY <1>2, <1>3, <1>4 DEF Synced, IsStatus
<1>6. TrueUpTo(Now, obj, status, later)
  BY <1>1, <1>4, <1>5, NowTyped, TruePush
<1>7. BelongsTo(key, status.dispatchRuleID, later)
  BY <1>5, CopyBelongs DEF BelongsTo
<1> QED
  BY <1>2, <1>5, <1>6, <1>7

\* The worker may hold an old copy of an object that claims to be up to date, but then it
\* is a copy of the same generation.
LEMMA UpToDateCopy ==
  ASSUME Inv, SkipInv, pc # "idle", api[key].exists,
         api[key].status.observedGeneration = api[key].generation
  PROVE  obj.spec = api[key].spec /\ obj.deleting = api[key].deleting
<1>1. /\ key \in Rules /\ IsObject(obj) /\ IsObject(api[key])
      /\ Covers(obj, api[key]) /\ Earlier(obj, api[key]) /\ Mine(key, api[key], remote)
  BY DEF Inv, WorkerInv, ObjectsInv, Sound, SkipInv, HandsInv, VersionsInv
<1>2. /\ obj.uid \in Nat /\ obj.generation \in Nat
      /\ api[key].uid \in Nat /\ api[key].generation \in Nat
  BY <1>1 DEF IsObject, ObjectSet
<1> QED
  BY <1>1, <1>2 DEF Covers, Earlier, Mine

LEMMA CreateRuleSkips ==
  ASSUME Inv, SkipInv, OwnNamesOnly, CreateRule
  PROVE  SkipInv'
<1>1. pc = "create" /\ UNCHANGED <<kubeVars, cache, sourceVars>> /\ key \in Rules
  BY DEF CreateRule, Inv, WorkerInv
<1>2. ASSUME UNCHANGED remote PROVE \A r \in Rules : TrueUpTo(Now, api[r], api[r].status, remote')
  BY <1>2 DEF SkipInv, ClaimsInv
<1>3. CASE UNCHANGED remote /\ Continue("status", Report(draft, "CreateFailed"), TRUE)
  BY <1>1, <1>2, <1>3, ReportSkips DEF ReadyReasons
<1>4. ASSUME NEW id \in Ids, remote[id] = Unused,
             remote' = [remote EXCEPT ![id] = RemoteCopy(obj, room)],
             \/ Continue("status", Synced(draft, id, obj, room), FALSE)
             \/ Continue("status", Report(draft, "CreateFailed"), TRUE)
      PROVE  SkipInv'
  <2>1. PICK later, copy : later = remote' /\ copy = RemoteCopy(obj, room)
    OBVIOUS
  <2>2. later = [remote EXCEPT ![id] = copy]
    BY <1>4, <2>1
  <2>3. \E s \in SpecsOf[key] : copy.server = s.livekitRef /\ copy.info.name = s.name
    BY <1>1, <2>1, CopyBelongs
  <2>4. /\ \A r \in Rules : \A o : IsObject(o) /\ Handed(o.status, remote) /\ Mine(r, o, remote)
                                   => Mine(r, o, later)
        /\ \A r \in Rules \ {key} : TrueUpTo(Now, api[r], api[r].status, later)
        /\ TrueUpTo(Now, api[key], api[key].status, later)
    BY <1>1, <1>4, <2>2, <2>3, OthersKept
  <2>5. \A r \in Rules : TrueUpTo(Now, api[r], api[r].status, later)
    BY <2>4
  <2>6. CASE Continue("status", Report(draft, "CreateFailed"), TRUE)
    BY <1>1, <2>1, <2>4, <2>5, <2>6, ReportSkips DEF ReadyReasons
  <2>7. CASE Continue("status", Synced(draft, id, obj, room), FALSE)
    <3>1. later[id] = copy
      BY <2>2 DEF Inv, RestInv
    <3>2. PICK status : status = Synced(draft, id, obj, room)
      OBVIOUS
    <3>3. /\ TrueUpTo(Now, obj, status, later) /\ BelongsTo(key, status.dispatchRuleID, later)
          /\ status.dispatchRuleID = id /\ status.observedGeneration = obj.generation
      BY <1>1, <2>1, <3>1, <3>2, PushedTruth
    <3>4. id # NoId /\ obj.generation <= obj.generation
      BY MarkersAssumption DEF Inv, WorkerInv, IsObject, ObjectSet
    <3>5. Continue("status", status, FALSE)
      BY <2>7, <3>2
    <3>6. /\ status.dispatchRuleID = NoId => status.observedGeneration = 0
          /\ status.observedGeneration <= obj.generation
      BY <3>3, <3>4
    <3> QED
      BY <1>1, <2>1, <2>4, <2>5, <3>3, <3>5, <3>6, CallSkips
  <2> QED
    BY <1>4, <2>6, <2>7
<1> QED
  BY <1>3, <1>4 DEF CreateRule

LEMMA UpdateRuleSkips ==
  ASSUME Inv, SkipInv, OwnNamesOnly, UpdateRule
  PROVE  SkipInv'
<1> DEFINE id == obj.status.dispatchRuleID
<1>1. /\ pc = "update" /\ UNCHANGED <<kubeVars, cache, sourceVars>>
      /\ key \in Rules /\ id \in Ids /\ Mine(key, obj, remote)
  BY DEF UpdateRule, Inv, WorkerInv, SkipInv, HandsInv
<1>2. ASSUME UNCHANGED remote PROVE \A r \in Rules : TrueUpTo(Now, api[r], api[r].status, remote')
  BY <1>2 DEF SkipInv, ClaimsInv
<1>3. CASE UNCHANGED remote /\ Continue("status", Report(draft, "UpdateFailed"), TRUE)
  BY <1>1, <1>2, <1>3, ReportSkips DEF ReadyReasons
<1>4. ASSUME Serves(obj.spec.livekitRef, id),
             remote' = [remote EXCEPT ![id] = RemoteCopy(obj, room)],
             \/ Continue("status", Synced(draft, id, obj, room), FALSE)
             \/ Continue("status", Report(draft, "UpdateFailed"), TRUE)
      PROVE  SkipInv'
  <2>1. PICK later, copy, i : later = remote' /\ copy = RemoteCopy(obj, room) /\ i = id
    OBVIOUS
  <2>2. later = [remote EXCEPT ![i] = copy] /\ i \in Ids
    BY <1>1, <1>4, <2>1
  <2>3. \E s \in SpecsOf[key] : copy.server = s.livekitRef /\ copy.info.name = s.name
    BY <1>1, <2>1, CopyBelongs
  <2>4. Live(i) /\ BelongsTo(key, i, remote)
    BY <1>1, <1>4, <2>1 DEF Serves, Mine
  <2>5. /\ \A r \in Rules : \A o : IsObject(o) /\ Handed(o.status, remote) /\ Mine(r, o, remote)
                                   => Mine(r, o, later)
        /\ \A r \in Rules \ {key} : TrueUpTo(Now, api[r], api[r].status, later)
        /\ \A r \in Rules : api[r].status.dispatchRuleID # i =>
             TrueUpTo(Now, api[r], api[r].status, later)
    BY <1>1, <2>2, <2>3, <2>4, OthersKept
  <2>6. later[i] = copy
    BY <2>2 DEF Inv, RestInv
  <2>7. ASSUME api[key].status.dispatchRuleID = i
        PROVE  TrueUpTo(Now, api[key], api[key].status, later)
    <3> DEFINE o == api[key]
    <3>1. SUFFICES ASSUME o.exists, ~o.deleting, i # NoId,
                          o.status.observedGeneration = o.generation
                   PROVE  TrueUpTo(Now, o, o.status, later)
      BY <2>7 DEF TrueUpTo
    <3>2. o.spec = obj.spec
      BY <1>1, <3>1, UpToDateCopy
    <3>3. PICK m \in Moments :
            /\ UpTo(m, Now) /\ ResolvableAt(obj.spec, m) /\ room = RoomAt(obj.spec, m)
            /\ TrueUpTo(m, o, o.status, remote)
      BY <1>1 DEF SkipInv, RoomInv
    <3>4. PICK h, j \in Moments :
            /\ UpTo(h, j) /\ UpTo(j, m) /\ ResolvableAt(o.spec, h)
            /\ o.status.configHash = ComputeConfigHash(RoomAt(o.spec, h))
      BY <2>7, <3>1, <3>3 DEF TrueUpTo
    <3>5. UpTo(h, m)
      BY <3>3, <3>4, UpToTransitive
    <3>6. /\ later[i].state = "live" /\ later[i].server = o.spec.livekitRef
          /\ later[i].info = BuildRuleInfo(o) /\ later[i].roomConfig = RoomAt(o.spec, m)
      BY <2>1, <2>6, <3>2, <3>3 DEF RemoteCopy, BuildRuleInfo
    <3>7. /\ UpTo(h, m) /\ UpTo(m, Now) /\ ResolvableAt(o.spec, h) /\ ResolvableAt(o.spec, m)
      BY <3>2, <3>3, <3>4, <3>5
    <3> QED
      BY <2>7, <3>3, <3>4, <3>6, <3>7 DEF TrueUpTo
  <2>8. \A r \in Rules : TrueUpTo(Now, api[r], api[r].status, later)
    BY <2>5, <2>7
  <2>9. CASE Continue("status", Report(draft, "UpdateFailed"), TRUE)
    BY <1>1, <2>1, <2>5, <2>8, <2>9, ReportSkips DEF ReadyReasons
  <2>10. CASE Continue("status", Synced(draft, id, obj, room), FALSE)
    <3>1. PICK status : status = Synced(draft, i, obj, room)
      OBVIOUS
    <3>2. /\ TrueUpTo(Now, obj, status, later) /\ BelongsTo(key, status.dispatchRuleID, later)
          /\ status.dispatchRuleID = i /\ status.observedGeneration = obj.generation
      BY <1>1, <2>1, <2>6, <3>1, PushedTruth
    <3>3. i # NoId /\ obj.generation <= obj.generation
      BY <2>2, MarkersAssumption DEF Inv, WorkerInv, IsObject, ObjectSet
    <3>4. Continue("status", status, FALSE)
      BY <2>1, <2>10, <3>1
    <3>5. /\ status.dispatchRuleID = NoId => status.observedGeneration = 0
          /\ status.observedGeneration <= obj.generation
      BY <3>2, <3>3
    <3> QED
      BY <1>1, <2>1, <2>5, <2>8, <3>2, <3>4, <3>5, CallSkips
  <2> QED
    BY <1>4, <2>9, <2>10
<1> QED
  BY <1>3, <1>4 DEF UpdateRule

LEMMA DeleteRuleSkips ==
  ASSUME Inv, SkipInv, OwnNamesOnly, DeleteRule
  PROVE  SkipInv'
<1> DEFINE id == obj.status.dispatchRuleID
<1>1. /\ pc = "delete" /\ UNCHANGED <<kubeVars, cache, sourceVars>>
      /\ Continue("removeFinalizer", draft, FALSE)
      /\ key \in Rules /\ id \in Ids /\ Mine(key, obj, remote) /\ obj.deleting
      /\ Handed(draft, remote) /\ IsStatus(draft)
      /\ BelongsTo(key, draft.dispatchRuleID, remote)
      /\ draft.dispatchRuleID = NoId => draft.observedGeneration = 0
  BY DEF DeleteRule, Inv, WorkerInv, SkipInv, HandsInv
<1>2. draft.observedGeneration <= obj.generation
  BY <1>1 DEF SkipInv, HandsInv
<1>3. PICK status : status = draft
  OBVIOUS
<1>4. CASE UNCHANGED remote
  <2>1. \A r \in Rules : TrueUpTo(Now, api[r], api[r].status, remote')
    BY <1>4 DEF SkipInv, ClaimsInv
  <2>2. Continue("removeFinalizer", status, FALSE) /\ BelongsTo(key, status.dispatchRuleID, remote')
    BY <1>1, <1>3, <1>4
  <2> QED
    BY <1>1, <1>2, <1>3, <1>4, <2>1, <2>2, CallSkips
<1>5. CASE Serves(obj.spec.livekitRef, id) /\ remote' = [remote EXCEPT ![id] = Deleted]
  <2>1. PICK later, copy, i : later = remote' /\ copy = Deleted /\ i = id
    OBVIOUS
  <2>2. later = [remote EXCEPT ![i] = copy] /\ i \in Ids /\ copy.state # "live"
    BY <1>1, <1>5, <2>1 DEF Deleted
  <2>3. Live(i) /\ BelongsTo(key, i, remote)
    BY <1>1, <1>5, <2>1 DEF Serves, Mine
  <2>4. /\ \A r \in Rules : \A o : IsObject(o) /\ Handed(o.status, remote) /\ Mine(r, o, remote)
                                   => Mine(r, o, later)
        /\ \A r \in Rules \ {key} : TrueUpTo(Now, api[r], api[r].status, later)
        /\ \A r \in Rules : api[r].status.dispatchRuleID # i =>
             TrueUpTo(Now, api[r], api[r].status, later)
    BY <1>1, <2>2, <2>3, OthersKept
  <2>5. TrueUpTo(Now, api[key], api[key].status, later)
    BY <1>1, UpToDateCopy DEF TrueUpTo
  <2>6. \A r \in Rules : TrueUpTo(Now, api[r], api[r].status, later)
    BY <2>4, <2>5
  <2>7. BelongsTo(key, status.dispatchRuleID, later)
    <3>1. \A d \in Ids : later[d] = IF d = i THEN copy ELSE remote[d]
      BY <2>2 DEF Inv, RestInv
    <3> QED
      BY <1>1, <1>3, <2>2, <3>1 DEF BelongsTo, IsStatus
  <2>8. Continue("removeFinalizer", status, FALSE)
    BY <1>1, <1>3
  <2> QED
    BY <1>1, <1>2, <1>3, <2>1, <2>4, <2>6, <2>7, <2>8, CallSkips
<1> QED
  BY <1>4, <1>5 DEF DeleteRule

----------------------------------------------------------------------------
LEMMA InitSkips == Init => SkipInv
<1> SUFFICES ASSUME Init PROVE SkipInv
  OBVIOUS
<1>1. ASSUME NEW r \in Rules
      PROVE  /\ Mine(r, api[r], remote) /\ Earlier(api[r], api[r]) /\ Covers(api[r], api[r])
             /\ TrueUpTo(Now, api[r], api[r].status, remote) /\ ~api[r].exists
  <2>1. PICK s \in SpecsOf[r] : api[r] = NeverCreated(s, NoStatus)
    BY SpecsTyped DEF Init
  <2> QED
    BY <2>1 DEF NeverCreated, NoStatus, Mine, BelongsTo, Earlier, Covers, TrueUpTo
<1>2. VersionsInv
  BY <1>1 DEF Init, VersionsInv
<1>3. HandsInv /\ RoomInv /\ ClaimsInv
  BY <1>1 DEF Init, HandsInv, RoomInv, ClaimsInv
<1> QED
  BY <1>2, <1>3 DEF SkipInv

LEMMA NextSkips ==
  ASSUME OwnNamesOnly, Inv, Inv', SkipInv, [Next]_vars
  PROVE  SkipInv'
<1>1. CASE UNCHANGED vars
  BY <1>1, NothingSkips DEF vars, sourceVars, kubeVars, workerVars
<1>2. CASE Environment
  BY <1>2, UserSkips, SourcesSkip, RestartSkips DEF Environment
<1>3. ASSUME NEW r \in Rules, WatchEvent(r) \/ Resync(r) \/ Reconcile(r) PROVE SkipInv'
  BY <1>3, WatchEventSkips, ReconcileSkips, NothingSkips DEF Resync
<1>4. CASE \E e \in Egresses : EgressEvent(e)
  BY <1>4, SourcesSkip
<1>5. CASE Call
  BY <1>5, WritesSkip, ListRulesSkips, CreateRuleSkips, UpdateRuleSkips, DeleteRuleSkips
     DEF Call
<1> QED
  BY <1>1, <1>2, <1>3, <1>4, <1>5 DEF Next

\* Between the moment of the hash and now, the configuration cannot have changed and come back.
LEMMA SkipInvSound ==
  ASSUME NothingReturns, HashesAreNotEmpty, Inv, SkipInv
  PROVE  SkipIsSound
<1> SUFFICES ASSUME NEW r \in Rules, api[r].exists, ~api[r].deleting,
                    api[r].status.dispatchRuleID # NoId, Resolvable(api[r].spec, egress),
                    UpToDate(api[r], BuildRoomConfig(api[r].spec, egress))
             PROVE  InSync(api[r])
  BY DEF SkipIsSound
<1> DEFINE o == api[r]
           id == o.status.dispatchRuleID
<1>1. PICK k : k = [egress |-> egress, secret |-> secret]
  OBVIOUS
<1>2. k \in Moments /\ UpTo(Now, k) /\ Now \in Moments
  <2>1. k \in Moments
    BY <1>1, SeenTyped, MomentMade DEF Inv, SourcesInv
  <2>2. /\ \A e \in Egresses : seen[e] <= egress[e]
        /\ \A s \in Servers \cup Secrets : secret[s] <= secret[s]
    BY DEF Inv, SourcesInv
  <2> QED
    BY <1>1, <2>1, <2>2, NowTyped DEF UpTo, Now
<1>3. /\ RoomAt(o.spec, k) = BuildRoomConfig(o.spec, egress)
      /\ ResolvableAt(o.spec, k)
  <2>1. PICK at : at = egress
    OBVIOUS
  <2>2. /\ RoomAt(o.spec, k) = BuildRoomConfig(o.spec, at)
        /\ ResolvableAt(o.spec, k) <=> Resolvable(o.spec, at)
    BY <1>1, <2>1, RoomNow
  <2> QED
    BY <2>1, <2>2
<1>4. /\ remote[id].state = "live" /\ remote[id].server = o.spec.livekitRef
      /\ remote[id].info = BuildRuleInfo(o)
      /\ \E i, j \in Moments :
           /\ UpTo(i, j) /\ UpTo(j, Now) /\ ResolvableAt(o.spec, i) /\ ResolvableAt(o.spec, j)
           /\ o.status.configHash = ComputeConfigHash(RoomAt(o.spec, i))
           /\ remote[id].roomConfig = RoomAt(o.spec, j)
  BY DEF SkipInv, ClaimsInv, TrueUpTo, UpToDate
<1>5. PICK i, j \in Moments :
        /\ UpTo(i, j) /\ UpTo(j, Now) /\ ResolvableAt(o.spec, i) /\ ResolvableAt(o.spec, j)
        /\ o.status.configHash = ComputeConfigHash(RoomAt(o.spec, i))
        /\ remote[id].roomConfig = RoomAt(o.spec, j)
  BY <1>4
<1>6. o.spec \in SpecsOf[r] /\ id \in Ids
  BY DEF SkipInv, VersionsInv, Mine, Inv, ObjectsInv, Sound, IsObject, IsStatus
<1>7. ComputeConfigHash(RoomAt(o.spec, i)) = ComputeConfigHash(RoomAt(o.spec, k))
  BY <1>3, <1>5 DEF UpToDate
<1>8. RoomAt(o.spec, i) = RoomAt(o.spec, k)
  <2>1. PICK a, b : a = RoomAt(o.spec, i) /\ b = RoomAt(o.spec, k)
    OBVIOUS
  <2>2. NoHash # [of |-> a] /\ NoHash # [of |-> b]
    BY <1>2, <1>3, <1>5, <1>6, <2>1 DEF HashesAreNotEmpty
  <2>3. ComputeConfigHash(a) = ComputeConfigHash(b)
    BY <1>7, <2>1
  <2>4. [of |-> a] = [of |-> b] => a = b
    <3>1. [of |-> a].of = a /\ [of |-> b].of = b
      OBVIOUS
    <3> QED
      BY <3>1
  <2> QED
    BY <2>1, <2>2, <2>3, <2>4 DEF ComputeConfigHash
<1>9. UpTo(j, k)
  BY <1>2, <1>5, UpToTransitive
<1>10. RoomAt(o.spec, j) = RoomAt(o.spec, i)
  BY <1>2, <1>3, <1>5, <1>6, <1>8, <1>9 DEF NothingReturns
<1> QED
  BY <1>3, <1>4, <1>5, <1>6, <1>8, <1>10 DEF InSync, PushedSpec, Serves, Live

\* SkipIsSound for any number of rules, EgressConfigs and secrets, provided that no two
\* resources share a rule and that the sources never go back to what they were: what
\* reconcileUpdate compares is enough, however much of it has changed between its reads, its
\* pushes and its writes, whichever of them failed, and however far its caches lag behind.
THEOREM SkippingIsSound ==
  ASSUME OwnNamesOnly, NothingReturns, HashesAreNotEmpty
  PROVE  Spec => []SkipIsSound
<1>1. Inv /\ SkipInv /\ [Next]_vars => SkipInv'
  BY NextInv, NextSkips
<1>2. Inv /\ SkipInv => SkipIsSound
  BY SkipInvSound
<1> QED
  BY <1>1, <1>2, InitSkips, Invariance, PTL DEF Spec
=============================================================================
