--------------------------- MODULE SIPInboundTrunk ---------------------------
(***************************************************************************)
(* The SIPInboundTrunk controller                                          *)
(* (internal/controller/sipinboundtrunk_controller.go): it keeps one       *)
(* trunk on a LiveKit server for each SIPInboundTrunk custom resource.     *)
(*                                                                         *)
(* Three parties act.  Users create, edit and delete resources in the      *)
(* Kubernetes API server and replace secrets.  The controller's single     *)
(* worker takes a key from the work queue, reads the resource from its     *)
(* informer cache, which lags behind the API server, and makes one remote  *)
(* call after another, each a step of its own here, so that everything     *)
(* else can happen in between.  The LiveKit server executes its calls.     *)
(* Any remote call may fail, with or without having taken effect, and the  *)
(* operator's process may die at any moment.                               *)
(*                                                                         *)
(* The SIPOutboundTrunk controller is the same code over other types, so   *)
(* the module is written for the kind of trunk it is given.                *)
(***************************************************************************)
EXTENDS FiniteSets, KubeObject

CONSTANTS
  Trunks,         \* names of the resources (all in one namespace)
  Names,          \* values of spec.name, by which LiveKit trunks are looked up
  Servers,        \* LiveKit servers, each with its credentials secret
  AuthSecrets,    \* secrets spec.authSecretRef may name
  NoSecret,       \* spec.authSecretRef is absent
  Settings,       \* values of the rest of the spec
  Payload,        \* Payload[s]: what a request says of the settings s (TrunkRequests)
  Kind,           \* the kind of trunk this controller is for
  SpecsOf,        \* SpecsOf[t]: the specs users ever give resource t
  Ids,            \* trunk ids the LiveKit servers hand out
  NoId,           \* status.trunkID is ""
  NoKey,          \* the worker holds no key
  Budgets         \* bounds: how many of each kind of event a behaviour may have

TrunkSpec == [name: Names, livekitRef: Servers,
              authSecretRef: AuthSecrets \cup {NoSecret}, settings: Settings]

ASSUME SpecsAssumption ==
  /\ SpecsOf \in [Trunks -> SUBSET TrunkSpec]
  /\ \A t \in Trunks : SpecsOf[t] # {}

ASSUME MarkersAssumption ==
  /\ Trunks # {}
  /\ NoId \notin Ids
  /\ NoKey \notin Trunks
  /\ NoSecret \notin AuthSecrets

\* Spec edits; delete requests; failing calls, lost secrets and process deaths; ids that
\* LiveKit gives to trunks of other kinds.
Events == {"edits", "deletes", "faults", "others"}

ASSUME BudgetsAssumption == Budgets \subseteq [Events -> Nat] /\ Budgets # {}

\* Reason of the Ready condition. Message texts and the Synced and LiveKitReady
\* conditions, which are set beside it, are left out.
ReadyReasons == {"Unset", "Ready", "LiveKitSecretError", "ListFailed", "CreateFailed",
                 "UpdateFailed"}

TrunkStatus == [trunkID: Ids \cup {NoId}, observedGeneration: Nat,
                ready: ReadyReasons, secretRead: {"Unset", "True", "False"}]

NoStatus == [trunkID |-> NoId, observedGeneration |-> 0, ready |-> "Unset",
             secretRead |-> "Unset"]

TrunkObject == ObjectSet(TrunkSpec, TrunkStatus)

\* What LiveKit stores of a trunk: the fields of the request the model keeps.
TrunkInfo == [name: Names, auth: AuthSecrets \cup {NoSecret},
              settings: {Payload[s] : s \in Settings}]

\* The resource version a LiveKit trunk was last written from (history, never read
\* by the controller).
Provenance == [trunk: Trunks, uid: Nat, generation: Nat]

NoObject == NeverCreated(CHOOSE s \in TrunkSpec : TRUE, NoStatus)

VARIABLES
  api,       \* the API server: the stored object of each name
  watch,     \* the stored versions the informer has not yet received
  cache,     \* the informer cache the controller reads from
  queue,     \* the work queue: names waiting to be reconciled
  pc,        \* the call the worker makes next ("idle": none)
  key,       \* the name the worker is reconciling
  obj,       \* the object it has read
  draft,     \* the status it is going to write
  again,     \* whether it asks to be called again once that status is written
  remote,    \* the LiveKit servers: the trunk each id stands for
  readable,  \* the secrets that exist with the keys that are needed
  abandoned, \* history: ids whose deletion failed and was logged
  budget     \* what is left of the bounds

kubeVars   == <<api, watch>>
workerVars == <<pc, key, obj, draft, again>>
vars == <<kubeVars, cache, queue, workerVars, remote, readable, abandoned, budget>>

Steps == {"idle", "addFinalizer", "list", "create", "update", "delete", "removeFinalizer",
          "status"}

RemoteTrunk == [state: {"live"}, kind: {Kind}, server: Servers, info: TrunkInfo,
                from: Provenance]
Unused == [state |-> "unused"]
Deleted == [state |-> "deleted", kind |-> Kind]

\* The id is, or was, that of a trunk of another kind.
Foreign == [state |-> "foreign"]

TypeOK ==
  /\ api \in [Trunks -> TrunkObject]
  /\ watch \in [Trunks -> SUBSET TrunkObject]
  /\ cache \in [Trunks -> TrunkObject]
  /\ queue \in SUBSET Trunks
  /\ pc \in Steps
  /\ key \in Trunks \cup {NoKey}
  /\ (key = NoKey) <=> (pc = "idle")
  /\ obj \in TrunkObject
  /\ pc \in {"update", "delete"} => obj.status.trunkID \in Ids
  /\ draft \in TrunkStatus
  /\ again \in BOOLEAN
  /\ remote \in [Ids -> RemoteTrunk \cup {Unused, Deleted, Foreign}]
  /\ readable \in SUBSET (Servers \cup AuthSecrets)
  /\ abandoned \in SUBSET Ids
  /\ budget \in [Events -> Nat]

----------------------------------------------------------------------------
\* Environment: the bounds, the API server and its users, the secrets.

\* A bounded event happens.
Spend(kind) == budget[kind] > 0 /\ budget' = [budget EXCEPT ![kind] = @ - 1]

\* The API server stores o under the name t and tells the informer, if o is new.
Store(t, o) ==
  /\ api' = [api EXCEPT ![t] = o]
  /\ watch' = IF o = api[t] THEN watch ELSE [watch EXCEPT ![t] = @ \cup {o}]

UserCreate(t) ==
  /\ ~api[t].exists
  /\ \E s \in SpecsOf[t] : Store(t, Creation(api[t], s, NoStatus))
  /\ UNCHANGED <<cache, queue, workerVars, remote, readable, abandoned, budget>>

UserEdit(t) ==
  /\ api[t].exists
  /\ Spend("edits")
  /\ \E s \in SpecsOf[t] \ {api[t].spec} : Store(t, SpecEdit(api[t], s))
  /\ UNCHANGED <<cache, queue, workerVars, remote, readable, abandoned>>

UserDelete(t) ==
  /\ api[t].exists /\ ~api[t].deleting
  /\ Spend("deletes")
  /\ Store(t, DeleteRequest(api[t]))
  /\ UNCHANGED <<cache, queue, workerVars, remote, readable, abandoned>>

SecretLost ==
  /\ Spend("faults")
  /\ \E s \in readable : readable' = readable \ {s}
  /\ UNCHANGED <<kubeVars, cache, queue, workerVars, remote, abandoned>>

SecretRestored ==
  /\ \E s \in (Servers \cup AuthSecrets) \ readable : readable' = readable \cup {s}
  /\ UNCHANGED <<kubeVars, cache, queue, workerVars, remote, abandoned, budget>>

\* LiveKit gives an id to a trunk of another kind (a bound of the model: not too many).
ForeignTrunk ==
  /\ Cardinality({id \in Ids : remote[id] = Foreign}) < budget["others"]
  /\ \E id \in Ids : remote[id] = Unused /\ remote' = [remote EXCEPT ![id] = Foreign]
  /\ UNCHANGED <<kubeVars, cache, queue, workerVars, readable, abandoned, budget>>

----------------------------------------------------------------------------
\* The manager: informer, work queue, process.

\* The informer receives a version newer than the one it has (after a broken watch
\* it may skip some) and the event puts the name on the queue; the controller
\* filters no event, so its own status writes come back here too.
WatchEvent(t) ==
  /\ \E o \in watch[t] :
       /\ cache' = [cache EXCEPT ![t] = o]
       /\ watch' = [watch EXCEPT ![t] = {w \in @ : w.rv > o.rv}]
  /\ queue' = queue \cup {t}
  /\ UNCHANGED <<api, workerVars, remote, readable, abandoned, budget>>

\* The periodic resync replays the cached objects as events.
Resync(t) ==
  /\ cache[t].exists
  /\ queue' = queue \cup {t}
  /\ UNCHANGED <<kubeVars, cache, workerVars, remote, readable, abandoned, budget>>

\* Slip: a failed reconcile is not retried.
Finish_NoRetry(requeue) ==
  /\ UNCHANGED queue
  /\ pc' = "idle" /\ key' = NoKey /\ obj' = NoObject /\ draft' = NoStatus /\ again' = FALSE

\* The worker puts its key down, and back on the queue if the reconcile returned an
\* error, Requeue or RequeueAfter (the delay is left out).
Finish(requeue) ==
  /\ queue' = IF requeue THEN queue \cup {key} ELSE queue
  /\ pc' = "idle" /\ key' = NoKey /\ obj' = NoObject /\ draft' = NoStatus /\ again' = FALSE

\* The process dies (or loses its lease) and a new one starts: it lists all the
\* objects, each of which is an event, and remembers nothing else.
Restart ==
  /\ Spend("faults")
  /\ cache' = api
  /\ watch' = [t \in Trunks |-> {}]
  /\ queue' = {t \in Trunks : api[t].exists}
  /\ pc' = "idle" /\ key' = NoKey /\ obj' = NoObject /\ draft' = NoStatus /\ again' = FALSE
  /\ UNCHANGED <<api, remote, readable, abandoned>>

----------------------------------------------------------------------------
\* Reconcile: what is decided from the cached object and the secrets, up to the
\* first remote call.

Take(t) == pc = "idle" /\ t \in queue /\ queue' = queue \ {t}

\* Slip: the object is read past the cache, from an API server that may or may not be
\* ahead of it.
Proceed_Uncached(t, step, status, requeue) ==
  /\ pc' = step /\ key' = t /\ obj' \in {cache[t]} \cup watch[t]
  /\ draft' = status /\ again' = requeue

\* The worker goes on to make the call `step` for t, with the status it has in memory.
Proceed(t, step, status, requeue) ==
  /\ pc' = step /\ key' = t /\ obj' = cache[t] /\ draft' = status /\ again' = requeue

\* Errors are reported in the Ready condition; nothing else of the status changes.
Report(status, reason) == [status EXCEPT !.ready = reason]

\* Slip: the generation is not recorded.
Synced_NoGeneration(status, id, o) ==
  [status EXCEPT !.trunkID = id, !.ready = "Ready"]

\* The status records the generation of the object that was read.
Synced(status, id, o) ==
  [status EXCEPT !.trunkID = id, !.observedGeneration = o.generation, !.ready = "Ready"]

UpToDate(o) == o.status.observedGeneration = o.generation

NothingToDo(o) == ~o.exists \/ (o.deleting /\ ~o.finalizer)

\* The status after resolveAuthSecret has succeeded: SecretRead is set only when
\* the spec refers to a secret.
AuthResolved(o) ==
  IF o.spec.authSecretRef = NoSecret THEN o.status
                                     ELSE [o.status EXCEPT !.secretRead = "True"]

SkipReconcile(t) ==
  /\ Take(t)
  /\ NothingToDo(cache[t])
  /\ UNCHANGED <<kubeVars, cache, workerVars, remote, readable, abandoned, budget>>

\* Slip: an object whose status is behind its generation is taken for one without a trunk.
DeleteStep_OnlyIfUpToDate(o) ==
  IF o.status.trunkID # NoId /\ UpToDate(o) /\ o.spec.livekitRef \in readable
    THEN "delete" ELSE "removeFinalizer"

\* Slip: the id is not looked at.
DeleteStep_AnyId(o) == IF o.spec.livekitRef \in readable THEN "delete" ELSE "removeFinalizer"

\* The trunk is deleted from LiveKit if its id is known and the credentials can be
\* read; if they cannot, that is logged and the finalizer goes all the same.
DeleteStep(o) ==
  IF o.status.trunkID # NoId /\ o.spec.livekitRef \in readable
    THEN "delete" ELSE "removeFinalizer"

\* Slip: without credentials the deletion is put off.
StartDelete_NeedsSecret(t) ==
  /\ Take(t)
  /\ cache[t].exists /\ cache[t].deleting /\ cache[t].finalizer
  /\ cache[t].spec.livekitRef \in readable
  /\ Proceed(t, DeleteStep(cache[t]), cache[t].status, FALSE)
  /\ UNCHANGED <<kubeVars, cache, remote, readable, abandoned, budget>>

StartDelete(t) ==
  /\ Take(t)
  /\ cache[t].exists /\ cache[t].deleting /\ cache[t].finalizer
  /\ Proceed(t, DeleteStep(cache[t]), cache[t].status, FALSE)
  /\ abandoned' = IF cache[t].spec.livekitRef \in readable THEN abandoned
                  ELSE abandoned \cup ({cache[t].status.trunkID} \ {NoId})
  /\ UNCHANGED <<kubeVars, cache, remote, readable, budget>>

StartAddFinalizer(t) ==
  /\ Take(t)
  /\ cache[t].exists /\ ~cache[t].deleting /\ ~cache[t].finalizer
  /\ Proceed(t, "addFinalizer", cache[t].status, FALSE)
  /\ UNCHANGED <<kubeVars, cache, remote, readable, abandoned, budget>>

\* The object is to be kept in LiveKit: the rest of Reconcile applies.
TakeWanted(t) ==
  /\ Take(t)
  /\ cache[t].exists /\ ~cache[t].deleting /\ cache[t].finalizer
  /\ UNCHANGED <<kubeVars, cache, remote, readable, abandoned, budget>>

LiveKitSecretError(t) ==
  /\ TakeWanted(t)
  /\ cache[t].spec.livekitRef \notin readable
  /\ Proceed(t, "status", Report(cache[t].status, "LiveKitSecretError"), TRUE)

\* A missing auth secret is reported in SecretRead and leaves Ready as it was.
AuthSecretError(t) ==
  /\ TakeWanted(t)
  /\ cache[t].spec.livekitRef \in readable
  /\ cache[t].spec.authSecretRef \notin readable \cup {NoSecret}
  /\ Proceed(t, "status", [cache[t].status EXCEPT !.secretRead = "False"], TRUE)

TakeResolved(t) ==
  /\ TakeWanted(t)
  /\ cache[t].spec.livekitRef \in readable
  /\ cache[t].spec.authSecretRef \in readable \cup {NoSecret}

\* Slip: a spec that has changed is created anew.
StartCreate_Recreates(t) ==
  /\ TakeResolved(t)
  /\ cache[t].status.trunkID = NoId \/ ~UpToDate(cache[t])
  /\ Proceed(t, "create", AuthResolved(cache[t]), TRUE)

StartCreate(t) ==
  /\ TakeResolved(t)
  /\ cache[t].status.trunkID = NoId
  /\ Proceed(t, "list", AuthResolved(cache[t]), TRUE)

StartUpdate(t) ==
  /\ TakeResolved(t)
  /\ cache[t].status.trunkID # NoId /\ ~UpToDate(cache[t])
  /\ Proceed(t, "update", AuthResolved(cache[t]), TRUE)

\* reconcileUpdate returns early, and writes no status.
SkipUpdate(t) ==
  /\ TakeResolved(t)
  /\ cache[t].status.trunkID # NoId /\ UpToDate(cache[t])
  /\ UNCHANGED workerVars

Reconcile(t) ==
  \/ SkipReconcile(t) \/ StartDelete(t) \/ StartAddFinalizer(t)
  \/ LiveKitSecretError(t) \/ AuthSecretError(t)
  \/ StartCreate(t) \/ StartUpdate(t) \/ SkipUpdate(t)

----------------------------------------------------------------------------
\* The remote calls of a reconcile.  Each is answered, or fails with no effect, or
\* fails after it has taken effect (the answer is lost).

\* Slip: the trunks of both kinds are in one list.
Live_AnyKind(id) == remote[id].state = "live"

\* LiveKit has a trunk of this id and of the controller's kind.
Live(id) == remote[id].state = "live" /\ remote[id].kind = Kind

\* What the request carries (buildTrunkInfo), and what the trunk was made from.
BuildTrunkInfo(o) ==
  [name |-> o.spec.name, auth |-> o.spec.authSecretRef, settings |-> Payload[o.spec.settings]]

RemoteCopy(t, o) ==
  [state |-> "live", kind |-> Kind, server |-> o.spec.livekitRef, info |-> BuildTrunkInfo(o),
   from |-> [trunk |-> t, uid |-> o.uid, generation |-> o.generation]]

\* The worker goes on to the call `step` within the same reconcile.
Continue(step, status, requeue) ==
  /\ pc' = step /\ draft' = status /\ again' = requeue
  /\ UNCHANGED <<key, obj, queue>>

\* A write of the object (r.Update, r.Status().Update) ends the reconcile: it asks to
\* be called again as the code says, and in any case if the write failed.
Write(o, requeue) ==
  \/ Accepts(api[key], obj) /\ Store(key, o) /\ Finish(requeue) /\ UNCHANGED budget
  \/ ~Accepts(api[key], obj) /\ Finish(TRUE) /\ UNCHANGED <<kubeVars, budget>>
  \/ Spend("faults") /\ Finish(TRUE) /\ UNCHANGED kubeVars
  \/ Spend("faults") /\ Accepts(api[key], obj) /\ Store(key, o) /\ Finish(TRUE)

AddFinalizer ==
  /\ pc = "addFinalizer"
  /\ Write(FinalizerAdded(api[key]), TRUE)
  /\ UNCHANGED <<cache, remote, readable, abandoned>>

RemoveFinalizer ==
  /\ pc = "removeFinalizer"
  /\ Write(FinalizerDropped(api[key]), FALSE)
  /\ UNCHANGED <<cache, remote, readable, abandoned>>

WriteStatus ==
  /\ pc = "status"
  /\ Write(StatusWrite(api[key], draft), again)
  /\ UNCHANGED <<cache, remote, readable, abandoned>>

\* Slips: no lookup; a lookup in a list that still shows deleted trunks; a lookup by
\* server alone.
FindByName_None(server, name) == {}
FindByName_OldList(server, name) == {id \in Ids : Live(id) \/ remote[id] = Deleted}
FindByName_AnyName(server, name) == {id \in Ids : Live(id) /\ remote[id].server = server}

\* findInboundTrunkByName: the trunks of the server with that name, whoever made them.
FindByName(server, name) ==
  {id \in Ids : Live(id) /\ remote[id].server = server /\ remote[id].info.name = name}

\* Slip: the adopted trunk is taken to be in sync.
Adopted_AsSynced(status, id, o) == Synced(status, id, o)

\* A trunk found is adopted: its id alone is recorded, and the next reconcile pushes
\* the spec.
Adopted(status, id, o) == [status EXCEPT !.trunkID = id]

ListTrunks ==
  /\ pc = "list"
  /\ LET found == FindByName(obj.spec.livekitRef, obj.spec.name) IN
       \/ /\ \E id \in found : Continue("status", Adopted(draft, id, obj), TRUE)
          /\ UNCHANGED budget
       \/ /\ found = {}
          /\ Continue("create", draft, TRUE)
          /\ UNCHANGED budget
       \/ Spend("faults") /\ Continue("status", Report(draft, "ListFailed"), TRUE)
  /\ UNCHANGED <<kubeVars, cache, remote, readable, abandoned>>

\* A server with no id left (a bound of the model) refuses too.
CreateTrunk ==
  /\ pc = "create"
  /\ \/ \E id \in Ids :
          /\ remote[id] = Unused
          /\ remote' = [remote EXCEPT ![id] = RemoteCopy(key, obj)]
          /\ \/ Continue("status", Synced(draft, id, obj), FALSE) /\ UNCHANGED budget
             \/ Spend("faults") /\ Continue("status", Report(draft, "CreateFailed"), TRUE)
     \/ /\ Spend("faults") \/ (UNCHANGED budget /\ \A id \in Ids : remote[id] # Unused)
        /\ Continue("status", Report(draft, "CreateFailed"), TRUE)
        /\ UNCHANGED remote
  /\ UNCHANGED <<kubeVars, cache, readable, abandoned>>

\* The server the client talks to has a trunk of that id: of the controller's kind, as
\* the list and update calls want it, or of any, as the delete call does.
Serves(server, id) == id \in Ids /\ Live(id) /\ remote[id].server = server

HasTrunk(server, id) ==
  id \in Ids /\ remote[id].state = "live" /\ remote[id].server = server

\* The whole trunk is replaced by what the spec says.
UpdateTrunk ==
  /\ pc = "update"
  /\ LET id == obj.status.trunkID
         pushed == /\ Serves(obj.spec.livekitRef, id)
                   /\ remote' = [remote EXCEPT ![id] = RemoteCopy(key, obj)]
         failed == Continue("status", Report(draft, "UpdateFailed"), TRUE)
     IN \/ pushed /\ Continue("status", Synced(draft, id, obj), FALSE) /\ UNCHANGED budget
        \/ ~Serves(obj.spec.livekitRef, id) /\ failed /\ UNCHANGED <<remote, budget>>
        \/ Spend("faults") /\ pushed /\ failed
        \/ Spend("faults") /\ failed /\ UNCHANGED remote
  /\ UNCHANGED <<kubeVars, cache, readable, abandoned>>

\* An error is logged and the finalizer goes all the same.
DeleteTrunk ==
  /\ pc = "delete"
  /\ LET id == obj.status.trunkID
         gone == /\ HasTrunk(obj.spec.livekitRef, id)
                 /\ remote' = [remote EXCEPT ![id] = Deleted]
         noted == abandoned' = abandoned \cup {id}
     IN \/ gone /\ UNCHANGED <<abandoned, budget>>
        \/ ~HasTrunk(obj.spec.livekitRef, id) /\ noted /\ UNCHANGED <<remote, budget>>
        \/ Spend("faults") /\ gone /\ noted
        \/ Spend("faults") /\ noted /\ UNCHANGED remote
  /\ Continue("removeFinalizer", draft, FALSE)
  /\ UNCHANGED <<kubeVars, cache, readable>>

----------------------------------------------------------------------------
Init ==
  /\ api = [t \in Trunks |-> NeverCreated(CHOOSE s \in SpecsOf[t] : TRUE, NoStatus)]
  /\ watch = [t \in Trunks |-> {}]
  /\ cache = api
  /\ queue = {}
  /\ pc = "idle" /\ key = NoKey /\ obj = NoObject /\ draft = NoStatus /\ again = FALSE
  /\ remote = [id \in Ids |-> Unused]
  /\ readable = Servers \cup AuthSecrets
  /\ abandoned = {}
  /\ budget \in Budgets

Users == \E t \in Trunks : UserCreate(t) \/ UserEdit(t) \/ UserDelete(t)

Environment == Users \/ SecretLost \/ SecretRestored \/ ForeignTrunk \/ Restart

Call == AddFinalizer \/ RemoveFinalizer \/ WriteStatus
        \/ ListTrunks \/ CreateTrunk \/ UpdateTrunk \/ DeleteTrunk

Controller == (\E t \in Trunks : WatchEvent(t) \/ Resync(t) \/ Reconcile(t)) \/ Call

Next == Environment \/ Controller

\* The informer delivers what is stored, the queue is first in first out, so that no
\* name waits for ever, and every call returns.  Nothing is assumed of users,
\* secrets, faults and deaths; nor of the resync, ten hours apart.
Fairness ==
  /\ \A t \in Trunks : WF_vars(WatchEvent(t)) /\ SF_vars(Reconcile(t))
  /\ WF_vars(Call)

Spec == Init /\ [][Next]_vars /\ Fairness

----------------------------------------------------------------------------
\* Properties.

\* LiveKit holds, under the recorded id, the trunk the resource asks for.
InSync(o) ==
  LET id == o.status.trunkID IN
    /\ Serves(o.spec.livekitRef, id)
    /\ remote[id].info = BuildTrunkInfo(o)

\* A resource whose status has caught up with its generation is telling the truth:
\* reconcileUpdate returns early on that comparison alone, so a wrong answer would
\* never be repaired.  Stale copies, failed writes, lost answers and other resources'
\* reconciles must not come between.
ObservedTruth ==
  \A t \in Trunks :
    api[t].exists /\ ~api[t].deleting /\ UpToDate(api[t]) => InSync(api[t])

\* The trunk a resource has recorded exists, until the resource is to be deleted: a
\* resource with an id never creates a trunk again, so nothing would bring it back.
\* No copy from before a name was reused may delete what the new resource adopted.
RecordedLive ==
  \A t \in Trunks :
    LET id == api[t].status.trunkID IN
      api[t].exists /\ ~api[t].deleting /\ id # NoId => Live(id)

\* One resource never has two trunks in LiveKit: reconcileCreate is re-entered with a
\* stale cache, after a lost answer or a failed status write, and must then adopt.
NoDuplicate ==
  \A i, j \in Ids :
    Live(i) /\ Live(j) /\ remote[i].from.trunk = remote[j].from.trunk => i = j

Recorded(id) == \E t \in Trunks : api[t].exists /\ api[t].status.trunkID = id

\* A resource without an id has the name, and the server, the lookup goes by.
Adoptable(id) ==
  \E t \in Trunks : /\ api[t].exists /\ ~api[t].deleting /\ api[t].status.trunkID = NoId
                   /\ remote[id].server = api[t].spec.livekitRef
                   /\ remote[id].info.name = api[t].spec.name

\* The object the trunk was made from is still there, and nobody has asked to delete it.
OwnerStays(id) ==
  LET from == remote[id].from IN
    api[from.trunk].exists /\ ~api[from.trunk].deleting /\ api[from.trunk].uid = from.uid

\* As long as its resource stays, a trunk in LiveKit is recorded by a resource or will
\* be adopted by one, as the comment in reconcileCreate has it.
Accounted ==
  \A id \in Ids : Live(id) /\ OwnerStays(id) => Recorded(id) \/ Adoptable(id)

\* A trunk outlives the resource it was made for only if its deletion failed and was
\* logged: a deleted resource's finalizer cleans up after it.
NothingLeftBehind ==
  \A id \in Ids : Live(id) => id \in abandoned \/ api[remote[id].from.trunk].exists

\* A resource that goes away takes the trunk it has recorded with it, unless the
\* deletion failed and was logged: no stale copy may drop the finalizer first.
RecordedTrunkReleased ==
  [][\A t \in Trunks :
       LET id == api[t].status.trunkID IN
         api[t].exists /\ ~api'[t].exists /\ id # NoId
           => ~Live(id) \/ id \in abandoned]_vars

\* A recorded id is kept for the life of the resource.
TrunkIdKept ==
  [][\A t \in Trunks :
       api[t].exists /\ api[t].status.trunkID # NoId /\ api'[t].uid = api[t].uid
         => api'[t].status.trunkID = api[t].status.trunkID]_vars

\* A trunk is only ever written from the version of its resource it came from or a
\* later one: what the user has replaced does not come back.
PushesAdvance ==
  [][\A id \in Ids :
       Live(id) /\ Live(id)' =>
         LET old == remote[id].from
             new == remote'[id].from
         IN old.trunk = new.trunk =>
              old.uid < new.uid \/ (old.uid = new.uid /\ old.generation <= new.generation)]_vars

SecretsStay == <>[](readable = Servers \cup AuthSecrets)

\* The trunk a resource has recorded is on another server than the one its spec refers to
\* by now: reconcileUpdate sends the id to that one, and never looks up or makes a trunk there.
LeftOnOldServer(o) ==
  /\ o.exists /\ o.status.trunkID # NoId
  /\ remote[o.status.trunkID].state = "live"
  /\ remote[o.status.trunkID].server # o.spec.livekitRef

\* Once the secrets stay readable, every resource ends up in sync and stays so, save one
\* whose livekitRef was changed after its trunk was made: that one ends up behind its
\* generation, still with its trunk on the old server.
Converges ==
  SecretsStay =>
    \A t \in Trunks :
      <>[](\/ ~api[t].exists
           \/ UpToDate(api[t]) /\ InSync(api[t])
           \/ ~UpToDate(api[t]) /\ LeftOnOldServer(api[t]))

\* Once the secrets stay readable, every resource ends up in sync and stays so, with the
\* server its livekitRef names by then: what the repository's README says of the operator.
FollowsServer ==
  SecretsStay =>
    \A t \in Trunks : <>[](~api[t].exists \/ (UpToDate(api[t]) /\ InSync(api[t])))

\* A resource whose deletion was requested goes away, whatever the secrets and
\* LiveKit do.
DeletionCompletes ==
  \A t \in Trunks : (api[t].exists /\ api[t].deleting) ~> ~api[t].exists

\* Once the secrets stay readable, every resource ends up showing that it is ready.
ReadinessRecovers ==
  SecretsStay =>
    \A t \in Trunks : <>[](~api[t].exists \/ api[t].status.ready = "Ready")

----------------------------------------------------------------------------
\* The promise this controller keeps.

Phase(o) ==
  IF ~o.exists THEN "absent"
  ELSE IF o.deleting THEN "deleting"
  ELSE IF UpToDate(o) THEN "synced" ELSE "pending"

Held(o) == IF o.exists THEN o.status.trunkID ELSE NoId

phases == [t \in Trunks |-> Phase(api[t])]
holds  == [t \in Trunks |-> Held(api[t])]

\* To a resource, an id of another kind is as good as deleted.
states == [id \in Ids |-> IF remote[id] = Foreign THEN "deleted" ELSE remote[id].state]

Lifecycle == INSTANCE TrunkLifecycle WITH
  phase <- phases, held <- holds, trunk <- states, lost <- abandoned

\* Seen through its status and LiveKit, every step is one TrunkLifecycle allows: a
\* resource becomes synced only with a live trunk that is its own, keeps it while it is
\* edited, and goes away only after it.
KeepsLifecycle == Lifecycle!Spec

\* No trunk is recorded by two resources: deleting one resource never takes the other's
\* trunk away, and the two never overwrite each other's spec in LiveKit.
ExclusiveIds == Lifecycle!Exclusive

----------------------------------------------------------------------------
\* The inductive invariant behind ObservedTruth and the three action properties.

\* No two resources may ask for the same name on the same server.
OwnNamesOnly ==
  \A t, u \in Trunks : \A a \in SpecsOf[t], b \in SpecsOf[u] :
    a.name = b.name /\ a.livekitRef = b.livekitRef => t = u

\* a comes from the same version of the spec as b, or from an earlier one.
Older(a, b) == a.uid < b.uid \/ (a.uid = b.uid /\ a.generation <= b.generation)

\* id stands for a trunk that was made, and last written, for t.
Made(t, id) == id \in Ids /\ remote[id] # Unused /\ (Live(id) => remote[id].from.trunk = t)

\* Every version of t ever stored.
Wellformed(t, o) ==
  /\ o.spec \in SpecsOf[t]
  /\ o.exists => o.generation >= 1
  /\ o.status.observedGeneration <= o.generation
  /\ o.status.trunkID = NoId => o.status.observedGeneration = 0
  /\ o.status.trunkID # NoId => Made(t, o.status.trunkID)
  /\ o.exists /\ o.status.trunkID # NoId => o.finalizer

\* A version o that was read somewhere against the stored version s.
Behind(o, s) ==
  /\ o.rv <= s.rv
  /\ o.rv = s.rv => o = s
  /\ Older(o, s)
  /\ o.uid = s.uid /\ o.generation = s.generation /\ o.exists /\ s.exists => o.spec = s.spec
  /\ o.uid = s.uid /\ o.deleting /\ s.exists => s.deleting

\* No copy the controller still acts on is older than what the status records.
Covers(o, s) ==
  s.exists /\ s.status.trunkID # NoId =>
    o.uid = s.uid /\ s.status.observedGeneration <= o.generation

VersionsInv ==
  \A t \in Trunks :
    /\ Wellformed(t, api[t])
    /\ Wellformed(t, cache[t]) /\ Behind(cache[t], api[t]) /\ Covers(cache[t], api[t])
    /\ \A w \in watch[t] :
         Wellformed(t, w) /\ Behind(w, api[t]) /\ Older(cache[t], w)
    /\ \A v, w \in watch[t] : v.rv < w.rv => Older(v, w)

\* What the worker knows at each of its calls.
WorkerInv ==
  key # NoKey =>
    /\ obj.exists /\ Wellformed(key, obj)
    /\ Behind(obj, api[key]) /\ Covers(obj, api[key]) /\ Older(obj, cache[key])
    /\ draft.trunkID # NoId => Made(key, draft.trunkID)
    /\ obj.status.trunkID # NoId => draft.trunkID = obj.status.trunkID
    /\ pc \in {"list", "create", "update", "status"} => obj.finalizer /\ ~obj.deleting
    /\ pc \in {"list", "create"} => draft.trunkID = NoId
    /\ pc \in {"list", "create", "update"} =>
         draft.observedGeneration = obj.status.observedGeneration
    /\ pc = "status" =>
         \/ draft.observedGeneration = obj.status.observedGeneration
         \/ /\ draft.observedGeneration = obj.generation
            /\ Serves(obj.spec.livekitRef, draft.trunkID)
            /\ remote[draft.trunkID].info = BuildTrunkInfo(obj)
    /\ pc = "status" /\ obj.status.trunkID = NoId /\ draft.trunkID # NoId =>
         Live(draft.trunkID)
    /\ pc \in {"delete", "removeFinalizer"} => obj.deleting
    /\ pc = "removeFinalizer" /\ obj.status.trunkID # NoId =>
         ~Live(obj.status.trunkID) \/ obj.status.trunkID \in abandoned

\* Every live trunk was written for a spec of its resource, no later than what is cached.
RemoteInv ==
  \A id \in Ids : Live(id) =>
    LET from == remote[id].from IN
      /\ \E s \in SpecsOf[from.trunk] :
           remote[id].server = s.livekitRef /\ remote[id].info.name = s.name
      /\ Older(from, cache[from.trunk])
      /\ key = from.trunk => Older(from, obj)

IndInv ==
  TypeOK /\ VersionsInv /\ WorkerInv /\ RemoteInv /\ ObservedTruth /\ RecordedLive

\* The id in a status, if there is one, is that of a trunk of the controller's kind.
OwnId(id) == remote[id].state \in {"live", "deleted"}

Own(status) == status.trunkID # NoId => OwnId(status.trunkID)

\* So are the ids in everything the controller keeps, and those it has given up.
OwnIds ==
  /\ \A t \in Trunks : /\ Own(api[t].status) /\ Own(cache[t].status)
                       /\ \A w \in watch[t] : Own(w.status)
  /\ Own(obj.status) /\ Own(draft)
  /\ \A id \in abandoned : OwnId(id)

\* A resource's name and server are never edited.
NamesStay ==
  \A t \in Trunks : \A a, b \in SpecsOf[t] :
    a.name = b.name /\ a.livekitRef = b.livekitRef

\* The worker creates only for a resource that has no trunk.
DuplicateInv ==
  /\ NoDuplicate
  /\ pc = "create" => \A id \in Ids : Live(id) => remote[id].from.trunk # key
=============================================================================
