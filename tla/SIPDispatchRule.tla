--------------------------- MODULE SIPDispatchRule ---------------------------
(***************************************************************************)
(* The SIPDispatchRule controller                                          *)
(* (internal/controller/sipdispatchrule_controller.go): it keeps one       *)
(* dispatch rule on a LiveKit server for each SIPDispatchRule custom       *)
(* resource, together with the room configuration the rule gives its       *)
(* calls.  That configuration is resolved from outside the resource: from  *)
(* EgressConfig objects, which are watched, and from secrets, which are    *)
(* not.  A hash of what was last pushed, kept in the status, tells the     *)
(* controller whether any of it has changed.                               *)
(*                                                                         *)
(* The parties are those of SIPInboundTrunk: users, the controller's       *)
(* single worker, an informer cache behind the API server, LiveKit, and    *)
(* faults at every remote call.                                            *)
(***************************************************************************)
EXTENDS FiniteSets, Sequences, KubeObject

CONSTANTS
  Rules,          \* names of the resources (all in one namespace)
  Names,          \* values of spec.name
  Servers,        \* LiveKit servers, each with its credentials secret
  Bodies,         \* values of the rest of the spec
  NoRoom,         \* spec.roomConfig is absent
  SpecsOf,        \* SpecsOf[r]: the specs users ever give resource r
  Egresses,       \* names of EgressConfig objects
  EgressHistory,  \* EgressHistory[e]: the contents e successively has
  NoEgress,       \* content of an EgressConfig that does not exist
  Secrets,        \* secrets with storage credentials
  SecretHistory,  \* SecretHistory[s]: the values secret s successively has
  Missing,        \* value of a secret that does not exist or lacks a key
  Ids,            \* rule ids the LiveKit servers hand out
  NoId,           \* status.dispatchRuleID is ""
  NoHash,         \* status.configHash is ""
  NoKey,          \* the worker holds no key
  Budgets         \* bounds: how many of each kind of event a behaviour may have

RuleSpec == [name: Names, livekitRef: Servers, body: Bodies,
             roomConfig: {NoRoom} \cup SUBSET Egresses]

ASSUME SpecsAssumption ==
  /\ SpecsOf \in [Rules -> SUBSET RuleSpec]
  /\ \A r \in Rules : SpecsOf[r] # {}

ASSUME HistoryAssumption ==
  /\ \A e \in Egresses : Len(EgressHistory[e]) \in Nat \ {0}
  /\ \A s \in Servers \cup Secrets : Len(SecretHistory[s]) \in Nat \ {0}

ASSUME MarkersAssumption == Rules # {} /\ NoId \notin Ids /\ NoKey \notin Rules

\* Spec edits; delete requests; failing calls and process deaths; changes of EgressConfigs;
\* changes of LiveKit credentials; changes of storage credentials.
Kinds == {"edits", "deletes", "faults", "changes", "outages", "rotations"}

ASSUME BudgetsAssumption == Budgets \subseteq [Kinds -> Nat] /\ Budgets # {}

VARIABLES
  api,       \* the API server: the stored object of each name
  watch,     \* the stored versions the informer has not yet received
  cache,     \* the informer cache
  egress,    \* how far the history of each EgressConfig has come
  seen,      \* and how far the informer has seen it
  secret,    \* how far the history of each secret has come
  queue,     \* the work queue
  pc,        \* the call the worker makes next ("idle": none)
  key,       \* the name the worker is reconciling
  obj,       \* the object it has read
  room,      \* the room configuration it has resolved
  draft,     \* the status it is going to write
  again,     \* whether it asks to be called again once that status is written
  remote,    \* the LiveKit servers: the rule each id stands for
  abandoned, \* history: ids whose deletion failed and was logged
  budget     \* what is left of the bounds

kubeVars   == <<api, watch>>
sourceVars == <<egress, seen, secret>>
workerVars == <<pc, key, obj, room, draft, again>>
vars == <<kubeVars, cache, sourceVars, queue, workerVars, remote, abandoned, budget>>

----------------------------------------------------------------------------
\* The room configuration a rule gives its calls.

\* The credential references a storage backend needs; S3 may have a session token too.
Required == [S3 |-> {"accessKey", "secretKey"}, Azure |-> {"accountName", "accountKey"},
             GCP |-> {"credentials"}, AliOSS |-> {"accessKey", "secretKey"}]

Value(s) == SecretHistory[s][secret[s]]

\* No required reference is given: the upload is left to the egress worker's own storage.
OwnStorage(spec) == DOMAIN spec.refs \cap Required[spec.storage] = {}

\* An EgressConfig can be used if it exists, has a storage backend, and has either all or
\* none of the references that one needs; those given must be there to be read.
Usable(spec) ==
  /\ spec # NoEgress
  /\ spec.storage \in DOMAIN Required
  /\ \/ OwnStorage(spec)
     \/ /\ Required[spec.storage] \subseteq DOMAIN spec.refs
        /\ \A k \in DOMAIN spec.refs : Value(spec.refs[k]) # Missing

\* What the request carries of it: nothing, or the storage with its credentials.
Upload(spec) ==
  IF OwnStorage(spec) THEN [storage |-> "worker"]
  ELSE [storage |-> spec.storage, bucket |-> spec.bucket,
        credentials |-> [k \in DOMAIN spec.refs |-> Value(spec.refs[k])]]

ReferencesEgressConfig(spec, e) == spec.roomConfig # NoRoom /\ e \in spec.roomConfig

\* The room configuration of a spec, with the EgressConfigs as seen through `at`.
Resolvable(spec, at) ==
  \A e \in Egresses : ReferencesEgressConfig(spec, e) => Usable(EgressHistory[e][at[e]])

BuildRoomConfig(spec, at) ==
  IF spec.roomConfig = NoRoom THEN NoRoom
                              ELSE [e \in spec.roomConfig |-> Upload(EgressHistory[e][at[e]])]

\* Slip: only what the rule itself says is hashed.
ComputeConfigHash_NoUploads(config) == IF config = NoRoom THEN NoHash ELSE [of |-> DOMAIN config]

\* The digest of the configuration (without collisions); the empty string if there is none.
ComputeConfigHash(config) == IF config = NoRoom THEN NoHash ELSE [of |-> config]

----------------------------------------------------------------------------
ReadyReasons == {"Unset", "Ready", "LiveKitSecretError", "RoomConfigError", "ListFailed",
                 "CreateFailed", "UpdateFailed"}

\* The states the sources of a rule can be in, one after the other.
Stages == [e \in Egresses |-> 1..Len(EgressHistory[e])]

NoStatus == [dispatchRuleID |-> NoId, observedGeneration |-> 0, configHash |-> NoHash,
             ready |-> "Unset"]

NoObject == NeverCreated(CHOOSE s \in RuleSpec : TRUE, NoStatus)

Steps == {"idle", "addFinalizer", "list", "create", "update", "delete", "removeFinalizer",
          "status"}

Unused == [state |-> "unused"]
Deleted == [state |-> "deleted"]

StatusOK(status) ==
  /\ status.dispatchRuleID \in Ids \cup {NoId}
  /\ status.observedGeneration \in Nat
  /\ status.ready \in ReadyReasons

ObjectOK(o) == o.spec \in RuleSpec /\ StatusOK(o.status) /\ o.generation \in Nat

TypeOK ==
  /\ \A r \in Rules : /\ ObjectOK(api[r]) /\ ObjectOK(cache[r])
                      /\ \A o \in watch[r] : ObjectOK(o)
  /\ \A e \in Egresses : egress[e] \in Stages[e] /\ seen[e] \in 1..egress[e]
  /\ \A s \in Servers \cup Secrets : secret[s] \in 1..Len(SecretHistory[s])
  /\ queue \in SUBSET Rules
  /\ pc \in Steps /\ key \in Rules \cup {NoKey} /\ ((key = NoKey) <=> (pc = "idle"))
  /\ ObjectOK(obj) /\ StatusOK(draft) /\ again \in BOOLEAN
  /\ pc \in {"update", "delete"} => obj.status.dispatchRuleID \in Ids
  /\ \A id \in Ids : remote[id].state \in {"unused", "live", "deleted"}
  /\ abandoned \in SUBSET Ids
  /\ budget \in [Kinds -> Nat]

----------------------------------------------------------------------------
\* Environment: the API server and its users, the EgressConfigs, the secrets.

Spend(kind) == budget[kind] > 0 /\ budget' = [budget EXCEPT ![kind] = @ - 1]

\* The API server stores o under the name r and tells the informer, if o is new.
Store(r, o) ==
  /\ api' = [api EXCEPT ![r] = o]
  /\ watch' = IF o = api[r] THEN watch ELSE [watch EXCEPT ![r] = @ \cup {o}]

UserCreate(r) ==
  /\ ~api[r].exists
  /\ \E s \in SpecsOf[r] : Store(r, Creation(api[r], s, NoStatus))
  /\ UNCHANGED <<cache, sourceVars, queue, workerVars, remote, abandoned, budget>>

UserEdit(r) ==
  /\ api[r].exists
  /\ Spend("edits")
  /\ \E s \in SpecsOf[r] \ {api[r].spec} : Store(r, SpecEdit(api[r], s))
  /\ UNCHANGED <<cache, sourceVars, queue, workerVars, remote, abandoned>>

UserDelete(r) ==
  /\ api[r].exists /\ ~api[r].deleting
  /\ Spend("deletes")
  /\ Store(r, DeleteRequest(api[r]))
  /\ UNCHANGED <<cache, sourceVars, queue, workerVars, remote, abandoned>>

EgressChange(e) ==
  /\ egress[e] < Len(EgressHistory[e])
  /\ Spend("changes")
  /\ egress' = [egress EXCEPT ![e] = @ + 1]
  /\ UNCHANGED <<kubeVars, cache, seen, secret, queue, workerVars, remote, abandoned>>

SecretChange(s) ==
  /\ secret[s] < Len(SecretHistory[s])
  /\ Spend(IF s \in Servers THEN "outages" ELSE "rotations")
  /\ secret' = [secret EXCEPT ![s] = @ + 1]
  /\ UNCHANGED <<kubeVars, cache, egress, seen, queue, workerVars, remote, abandoned>>

----------------------------------------------------------------------------
\* The manager: informers, work queue, process.

WatchEvent(r) ==
  /\ \E o \in watch[r] :
       /\ cache' = [cache EXCEPT ![r] = o]
       /\ watch' = [watch EXCEPT ![r] = {w \in @ : w.rv > o.rv}]
  /\ queue' = queue \cup {r}
  /\ UNCHANGED <<api, sourceVars, workerVars, remote, abandoned, budget>>

\* Slip: EgressConfigs are not watched.
FindRules_Unwatched(e) == {}

\* findDispatchRulesForEgressConfig: the cached rules that refer to e.
FindRules(e) ==
  {r \in Rules : cache[r].exists /\ ReferencesEgressConfig(cache[r].spec, e)}

\* The informer receives a later content of e (after a broken watch it may skip some).
EgressEvent(e) ==
  /\ \E n \in (seen[e] + 1)..egress[e] : seen' = [seen EXCEPT ![e] = n]
  /\ queue' = queue \cup FindRules(e)
  /\ UNCHANGED <<kubeVars, cache, egress, secret, workerVars, remote, abandoned, budget>>

Resync(r) ==
  /\ cache[r].exists
  /\ queue' = queue \cup {r}
  /\ UNCHANGED <<kubeVars, cache, sourceVars, workerVars, remote, abandoned, budget>>

Idle ==
  /\ pc' = "idle" /\ key' = NoKey /\ obj' = NoObject /\ room' = NoRoom
  /\ draft' = NoStatus /\ again' = FALSE

\* The worker puts its key down, and back on the queue if the reconcile returned an
\* error, Requeue or RequeueAfter (the delay is left out).
Finish(requeue) == Idle /\ queue' = IF requeue THEN queue \cup {key} ELSE queue

\* The process dies and a new one starts: it lists all the objects, each an event.
Restart ==
  /\ Spend("faults")
  /\ cache' = api
  /\ watch' = [r \in Rules |-> {}]
  /\ seen' = egress
  /\ queue' = {r \in Rules : api[r].exists}
  /\ Idle
  /\ UNCHANGED <<api, egress, secret, remote, abandoned>>

----------------------------------------------------------------------------
\* Reconcile, up to the first remote call.

Take(r) ==
  /\ pc = "idle" /\ r \in queue /\ queue' = queue \ {r}
  /\ UNCHANGED <<kubeVars, cache, sourceVars, remote, budget>>

\* The worker goes on to make the call `step` for r, with the status it has in memory.
Proceed(r, step, status, requeue) ==
  /\ pc' = step /\ key' = r /\ obj' = cache[r] /\ draft' = status /\ again' = requeue

Report(status, reason) == [status EXCEPT !.ready = reason]

\* The status records the generation that was read and the configuration pushed.
Synced(status, id, o, config) ==
  [status EXCEPT !.dispatchRuleID = id, !.observedGeneration = o.generation,
                 !.configHash = ComputeConfigHash(config), !.ready = "Ready"]

\* Slip: the generation alone is compared.
UpToDate_NoHash(o, config) == o.status.observedGeneration = o.generation

\* reconcileUpdate has nothing to push.
UpToDate(o, config) ==
  /\ o.status.observedGeneration = o.generation
  /\ o.status.configHash = ComputeConfigHash(config)

HasCredentials(o) == Value(o.spec.livekitRef) # Missing

SkipReconcile(r) ==
  /\ Take(r)
  /\ ~cache[r].exists \/ (cache[r].deleting /\ ~cache[r].finalizer)
  /\ UNCHANGED <<workerVars, abandoned>>

\* Slips: the id is not looked at; an object whose status is behind its generation is
\* taken for one without a rule.
DeleteStep_AnyId(o) == IF HasCredentials(o) THEN "delete" ELSE "removeFinalizer"

DeleteStep_OnlyIfUpToDate(o) ==
  IF /\ o.status.dispatchRuleID # NoId /\ HasCredentials(o)
     /\ o.status.observedGeneration = o.generation
    THEN "delete" ELSE "removeFinalizer"

\* The rule is deleted from LiveKit if its id is known and the credentials can be read.
DeleteStep(o) ==
  IF o.status.dispatchRuleID # NoId /\ HasCredentials(o) THEN "delete" ELSE "removeFinalizer"

StartDelete(r) ==
  /\ Take(r)
  /\ cache[r].exists /\ cache[r].deleting /\ cache[r].finalizer
  /\ Proceed(r, DeleteStep(cache[r]), cache[r].status, FALSE) /\ UNCHANGED room
  /\ abandoned' = IF HasCredentials(cache[r]) THEN abandoned
                  ELSE abandoned \cup ({cache[r].status.dispatchRuleID} \ {NoId})

StartAddFinalizer(r) ==
  /\ Take(r)
  /\ cache[r].exists /\ ~cache[r].deleting /\ ~cache[r].finalizer
  /\ Proceed(r, "addFinalizer", cache[r].status, FALSE)
  /\ UNCHANGED <<room, abandoned>>

TakeWanted(r) ==
  /\ Take(r)
  /\ cache[r].exists /\ ~cache[r].deleting /\ cache[r].finalizer
  /\ UNCHANGED abandoned

LiveKitSecretError(r) ==
  /\ TakeWanted(r)
  /\ ~HasCredentials(cache[r])
  /\ Proceed(r, "status", Report(cache[r].status, "LiveKitSecretError"), TRUE)
  /\ UNCHANGED room

RoomConfigError(r) ==
  /\ TakeWanted(r)
  /\ HasCredentials(cache[r]) /\ ~Resolvable(cache[r].spec, seen)
  /\ Proceed(r, "status", Report(cache[r].status, "RoomConfigError"), TRUE)
  /\ UNCHANGED room

\* The configuration is resolved from the cached EgressConfigs and the secrets.
TakeResolved(r) ==
  /\ TakeWanted(r)
  /\ HasCredentials(cache[r]) /\ Resolvable(cache[r].spec, seen)

StartCreate(r) ==
  /\ TakeResolved(r)
  /\ cache[r].status.dispatchRuleID = NoId
  /\ Proceed(r, "list", cache[r].status, TRUE)
  /\ room' = BuildRoomConfig(cache[r].spec, seen)

StartUpdate(r) ==
  /\ TakeResolved(r)
  /\ cache[r].status.dispatchRuleID # NoId
  /\ room' = BuildRoomConfig(cache[r].spec, seen)
  /\ ~UpToDate(cache[r], room')
  /\ Proceed(r, "update", cache[r].status, TRUE)

SkipUpdate(r) ==
  /\ TakeResolved(r)
  /\ cache[r].status.dispatchRuleID # NoId
  /\ UpToDate(cache[r], BuildRoomConfig(cache[r].spec, seen))
  /\ UNCHANGED workerVars

Reconcile(r) ==
  \/ SkipReconcile(r) \/ StartDelete(r) \/ StartAddFinalizer(r)
  \/ LiveKitSecretError(r) \/ RoomConfigError(r)
  \/ StartCreate(r) \/ StartUpdate(r) \/ SkipUpdate(r)

----------------------------------------------------------------------------
\* The remote calls of a reconcile.  Each is answered, or fails with no effect, or
\* fails after it has taken effect (the answer is lost).

Live(id) == remote[id].state = "live"

BuildRuleInfo(o) == [name |-> o.spec.name, body |-> o.spec.body]

RemoteCopy(o, config) ==
  [state |-> "live", server |-> o.spec.livekitRef, info |-> BuildRuleInfo(o),
   roomConfig |-> config]

Continue(step, status, requeue) ==
  /\ pc' = step /\ draft' = status /\ again' = requeue
  /\ room' = IF step = "create" THEN room ELSE NoRoom
  /\ UNCHANGED <<key, obj, queue>>

\* A write of the object ends the reconcile: it asks to be called again as the code
\* says, and in any case if the write failed.
Write(o, requeue) ==
  /\ \/ Accepts(api[key], obj) /\ Store(key, o) /\ Finish(requeue) /\ UNCHANGED budget
     \/ ~Accepts(api[key], obj) /\ Finish(TRUE) /\ UNCHANGED <<kubeVars, budget>>
     \/ Spend("faults") /\ Finish(TRUE) /\ UNCHANGED kubeVars
     \/ Spend("faults") /\ Accepts(api[key], obj) /\ Store(key, o) /\ Finish(TRUE)
  /\ UNCHANGED <<cache, sourceVars, remote, abandoned>>

AddFinalizer == pc = "addFinalizer" /\ Write(FinalizerAdded(api[key]), TRUE)

RemoveFinalizer == pc = "removeFinalizer" /\ Write(FinalizerDropped(api[key]), FALSE)

WriteStatus == pc = "status" /\ Write(StatusWrite(api[key], draft), again)

\* findDispatchRuleByName: the rules of the server with that name, whoever made them.
FindByName(server, name) ==
  {id \in Ids : Live(id) /\ remote[id].server = server /\ remote[id].info.name = name}

\* Slip: the adopted rule is taken to be in sync.
Adopted_AsSynced(status, id, o, config) == Synced(status, id, o, config)

\* The id of the adopted rule alone is recorded: the next reconcile pushes the spec.
Adopted(status, id, o, config) == [status EXCEPT !.dispatchRuleID = id]

ListRules ==
  /\ pc = "list"
  /\ LET found == FindByName(obj.spec.livekitRef, obj.spec.name) IN
       \/ /\ \E id \in found : Continue("status", Adopted(draft, id, obj, room), TRUE)
          /\ UNCHANGED budget
       \/ found = {} /\ Continue("create", draft, TRUE) /\ UNCHANGED budget
       \/ Spend("faults") /\ Continue("status", Report(draft, "ListFailed"), TRUE)
  /\ UNCHANGED <<kubeVars, cache, sourceVars, remote, abandoned>>

\* A server with no id left (a bound of the model) refuses too.
CreateRule ==
  /\ pc = "create"
  /\ \/ \E id \in Ids :
          /\ remote[id] = Unused
          /\ remote' = [remote EXCEPT ![id] = RemoteCopy(obj, room)]
          /\ \/ Continue("status", Synced(draft, id, obj, room), FALSE) /\ UNCHANGED budget
             \/ Spend("faults") /\ Continue("status", Report(draft, "CreateFailed"), TRUE)
     \/ /\ Spend("faults") \/ (UNCHANGED budget /\ \A id \in Ids : remote[id] # Unused)
        /\ Continue("status", Report(draft, "CreateFailed"), TRUE)
        /\ UNCHANGED remote
  /\ UNCHANGED <<kubeVars, cache, sourceVars, abandoned>>

Serves(server, id) == id \in Ids /\ Live(id) /\ remote[id].server = server

\* The whole rule is replaced by what the spec and its sources say.
UpdateRule ==
  /\ pc = "update"
  /\ LET id == obj.status.dispatchRuleID
         pushed == /\ Serves(obj.spec.livekitRef, id)
                   /\ remote' = [remote EXCEPT ![id] = RemoteCopy(obj, room)]
         failed == Continue("status", Report(draft, "UpdateFailed"), TRUE)
     IN \/ pushed /\ Continue("status", Synced(draft, id, obj, room), FALSE) /\ UNCHANGED budget
        \/ ~Serves(obj.spec.livekitRef, id) /\ failed /\ UNCHANGED <<remote, budget>>
        \/ Spend("faults") /\ pushed /\ failed
        \/ Spend("faults") /\ failed /\ UNCHANGED remote
  /\ UNCHANGED <<kubeVars, cache, sourceVars, abandoned>>

\* An error is logged and the finalizer goes all the same.
DeleteRule ==
  /\ pc = "delete"
  /\ LET id == obj.status.dispatchRuleID
         gone == /\ Serves(obj.spec.livekitRef, id)
                 /\ remote' = [remote EXCEPT ![id] = Deleted]
         noted == abandoned' = abandoned \cup {id}
     IN \/ gone /\ UNCHANGED <<abandoned, budget>>
        \/ ~Serves(obj.spec.livekitRef, id) /\ noted /\ UNCHANGED <<remote, budget>>
        \/ Spend("faults") /\ gone /\ noted
        \/ Spend("faults") /\ noted /\ UNCHANGED remote
  /\ Continue("removeFinalizer", draft, FALSE)
  /\ UNCHANGED <<kubeVars, cache, sourceVars>>

----------------------------------------------------------------------------
Init ==
  /\ api = [r \in Rules |-> NeverCreated(CHOOSE s \in SpecsOf[r] : TRUE, NoStatus)]
  /\ watch = [r \in Rules |-> {}]
  /\ cache = api
  /\ egress = [e \in Egresses |-> 1] /\ seen = egress
  /\ secret = [s \in Servers \cup Secrets |-> 1]
  /\ queue = {}
  /\ pc = "idle" /\ key = NoKey /\ obj = NoObject /\ room = NoRoom
  /\ draft = NoStatus /\ again = FALSE
  /\ remote = [id \in Ids |-> Unused]
  /\ abandoned = {}
  /\ budget \in Budgets

Environment ==
  \/ \E r \in Rules : UserCreate(r) \/ UserEdit(r) \/ UserDelete(r)
  \/ \E e \in Egresses : EgressChange(e)
  \/ \E s \in Servers \cup Secrets : SecretChange(s)
  \/ Restart

Call == AddFinalizer \/ RemoveFinalizer \/ WriteStatus
        \/ ListRules \/ CreateRule \/ UpdateRule \/ DeleteRule

Next ==
  \/ Environment
  \/ \E r \in Rules : WatchEvent(r) \/ Resync(r) \/ Reconcile(r)
  \/ \E e \in Egresses : EgressEvent(e)
  \/ Call

\* The informers deliver what is stored, the queue is first in first out, and every call
\* returns.  Nothing is assumed of users, sources, faults, nor of the resync.
Fairness ==
  /\ \A r \in Rules : WF_vars(WatchEvent(r)) /\ SF_vars(Reconcile(r))
  /\ \A e \in Egresses : WF_vars(EgressEvent(e))
  /\ WF_vars(Call)

Spec == Init /\ [][Next]_vars /\ Fairness

----------------------------------------------------------------------------
\* Properties.

\* LiveKit holds, under the recorded id, the rule the resource asks for.
PushedSpec(o) ==
  LET id == o.status.dispatchRuleID IN
    Serves(o.spec.livekitRef, id) /\ remote[id].info = BuildRuleInfo(o)

\* And that rule has the configuration the EgressConfigs and secrets now stand for.
InSync(o) ==
  /\ PushedSpec(o)
  /\ remote[o.status.dispatchRuleID].roomConfig = BuildRoomConfig(o.spec, egress)

\* When generation and hash say that nothing is left to push, LiveKit has the rule as the
\* spec, the EgressConfigs and the secrets now ask for it: reconcileUpdate returns on that
\* comparison alone, so nothing would ever be pushed again.
SkipIsSound ==
  \A r \in Rules :
    LET o == api[r] IN
      o.exists /\ ~o.deleting /\ o.status.dispatchRuleID # NoId /\ Resolvable(o.spec, egress)
        /\ UpToDate(o, BuildRoomConfig(o.spec, egress))
      => InSync(o)

\* A resource that goes away takes the rule it has recorded with it, unless the deletion
\* failed and was logged.
RecordedRuleReleased ==
  [][\A r \in Rules :
       LET id == api[r].status.dispatchRuleID IN
         api[r].exists /\ ~api'[r].exists /\ id # NoId
           => ~Live(id) \/ id \in abandoned]_vars

\* The resource can be brought in sync: it stays, and what it refers to can be read.
Feasible(o) ==
  o.exists /\ ~o.deleting /\ HasCredentials(o) /\ Resolvable(o.spec, egress)

StorageSecretsStay == [](\A k \in Secrets : secret[k] = 1)

\* The rule a resource has recorded is on another server than the one its spec refers to by
\* now: reconcileUpdate sends the id to that one, and never looks up or makes a rule there.
LeftOnOldServer(o) ==
  /\ o.status.dispatchRuleID # NoId
  /\ remote[o.status.dispatchRuleID].state = "live"
  /\ remote[o.status.dispatchRuleID].server # o.spec.livekitRef
  /\ ~UpToDate(o, BuildRoomConfig(o.spec, egress))

Followed ==
  \A r \in Rules : <>[](Feasible(api[r]) => InSync(api[r]) \/ LeftOnOldServer(api[r]))

\* Every change of a spec or of an EgressConfig reaches LiveKit, without waiting for the
\* resync: an event that comes too early, while the rule is being reconciled or before the
\* rule that refers to the EgressConfig is cached, is not lost.  Only a livekitRef changed
\* after the rule was made is never followed, and rotated storage credentials are another
\* matter.
EgressFollowed == StorageSecretsStay => Followed

\* A storage secret is not watched: its rotation reaches LiveKit with the resync, unless the
\* rule was left on an old server.
RotationFollowed == (\A r \in Rules : WF_vars(Resync(r))) => Followed
=============================================================================
