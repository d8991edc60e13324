----------------------- MODULE SIPInboundTrunk_proofs -----------------------
(***************************************************************************)
(* Proofs, for every value of the constants, of the safety properties of   *)
(* the SIPInboundTrunk controller.                                         *)
(***************************************************************************)
EXTENDS SIPInboundTrunk, TLAPS

----------------------------------------------------------------------------
\* Typing.

\* What every request of the API server makes of an object is an object.
LEMMA ObjectsTyped ==
  ASSUME NEW o \in TrunkObject, NEW s \in TrunkSpec, NEW st \in TrunkStatus
  PROVE  /\ Creation(o, s, st) \in TrunkObject
         /\ SpecEdit(o, s) \in TrunkObject
         /\ DeleteRequest(o) \in TrunkObject
         /\ StatusWrite(o, st) \in TrunkObject
         /\ FinalizerAdded(o) \in TrunkObject
         /\ FinalizerDropped(o) \in TrunkObject
<1> USE DEF TrunkObject, ObjectSet
<1>1. Creation(o, s, st) \in TrunkObject
  BY DEF Creation
<1>2. \A d \in BOOLEAN, spec \in TrunkSpec : NextGeneration(o, spec, d) \in TrunkObject
  BY DEF NextGeneration
<1>3. Removal(o) \in TrunkObject
  BY DEF Removal
<1>4. \A new \in TrunkObject : Stored(o, new) \in TrunkObject
  BY DEF Stored
<1>5. /\ [o EXCEPT !.status = st] \in TrunkObject
      /\ [o EXCEPT !.finalizer = TRUE] \in TrunkObject
      /\ [o EXCEPT !.finalizer = FALSE] \in TrunkObject
  OBVIOUS
<1>6. o.spec \in TrunkSpec /\ o.deleting \in BOOLEAN
  OBVIOUS
<1> HIDE DEF TrunkObject, ObjectSet
<1> QED
  BY <1>1, <1>2, <1>3, <1>4, <1>5, <1>6
     DEF SpecEdit, DeleteRequest, StatusWrite, FinalizerAdded, FinalizerDropped

LEMMA BlanksTyped == NoStatus \in TrunkStatus /\ NoObject \in TrunkObject
<1>1. NoStatus \in TrunkStatus
  BY DEF NoStatus, TrunkStatus, ReadyReasons
<1>2. PICK t \in Trunks : SpecsOf[t] # {} /\ SpecsOf[t] \subseteq TrunkSpec
  BY SpecsAssumption, MarkersAssumption
<1>3. (CHOOSE s \in TrunkSpec : TRUE) \in TrunkSpec
  BY <1>2
<1> QED
  BY <1>1, <1>3 DEF NoObject, NeverCreated, TrunkObject, ObjectSet

LEMMA InitTyped == Init => TypeOK
<1> SUFFICES ASSUME Init PROVE TypeOK
  OBVIOUS
<1>1. \A t \in Trunks : (CHOOSE s \in SpecsOf[t] : TRUE) \in TrunkSpec
  BY SpecsAssumption
<1>2. api \in [Trunks -> TrunkObject]
  BY <1>1, BlanksTyped DEF Init, NeverCreated, TrunkObject, ObjectSet
<1>3. budget \in [Events -> Nat]
  BY BudgetsAssumption DEF Init
<1> QED
  BY <1>2, <1>3, BlanksTyped, MarkersAssumption DEF Init, TypeOK, Steps, Unused

\* Storing a version and the ways a reconcile goes on keep the types.
LEMMA StoreTyped ==
  ASSUME TypeOK, NEW t \in Trunks, NEW o \in TrunkObject, Store(t, o)
  PROVE  /\ api' \in [Trunks -> TrunkObject]
         /\ watch' \in [Trunks -> SUBSET TrunkObject]
  BY DEF TypeOK, Store

LEMMA SpendTyped ==
  ASSUME TypeOK, NEW kind \in Events, Spend(kind)
  PROVE  budget' \in [Events -> Nat]
  BY DEF TypeOK, Spend

\* What the worker keeps in memory.
WorkerTyped ==
  /\ pc \in Steps
  /\ key \in Trunks \cup {NoKey}
  /\ (key = NoKey) <=> (pc = "idle")
  /\ obj \in TrunkObject
  /\ pc \in {"update", "delete"} => obj.status.trunkID \in Ids
  /\ draft \in TrunkStatus
  /\ again \in BOOLEAN

LEMMA FinishTyped ==
  ASSUME TypeOK, NEW requeue, Finish(requeue), pc # "idle"
  PROVE  WorkerTyped' /\ queue' \in SUBSET Trunks
  BY BlanksTyped DEF TypeOK, Finish, WorkerTyped, Steps

LEMMA StatusesTyped ==
  ASSUME NEW st \in TrunkStatus, NEW o \in TrunkObject
  PROVE  /\ \A reason \in ReadyReasons : Report(st, reason) \in TrunkStatus
         /\ AuthResolved(o) \in TrunkStatus
         /\ [o.status EXCEPT !.secretRead = "False"] \in TrunkStatus
<1> USE DEF TrunkStatus
<1>1. o.status \in TrunkStatus
  BY DEF TrunkObject, ObjectSet
<1>2. \A reason \in ReadyReasons : Report(st, reason) \in TrunkStatus
  BY DEF Report
<1>3. AuthResolved(o) \in TrunkStatus
  BY <1>1 DEF AuthResolved
<1>4. [o.status EXCEPT !.secretRead = "False"] \in TrunkStatus
  BY <1>1
<1> QED
  BY <1>2, <1>3, <1>4

LEMMA IdStatusesTyped ==
  ASSUME NEW st \in TrunkStatus, NEW o \in TrunkObject, NEW id \in Ids
  PROVE  Synced(st, id, o) \in TrunkStatus /\ Adopted(st, id, o) \in TrunkStatus
<1> USE DEF TrunkStatus
<1>1. o.generation \in Nat
  BY DEF TrunkObject, ObjectSet
<1>2. Synced(st, id, o) \in TrunkStatus
  BY <1>1 DEF Synced, ReadyReasons
<1>3. Adopted(st, id, o) \in TrunkStatus
  BY DEF Adopted
<1> QED
  BY <1>2, <1>3

LEMMA EnvironmentTyped == TypeOK /\ Environment => TypeOK'
<1> SUFFICES ASSUME TypeOK, Environment PROVE TypeOK'
  OBVIOUS
<1>1. \A t \in Trunks : api[t] \in TrunkObject
  BY DEF TypeOK
<1>2. ASSUME NEW t \in Trunks, UserCreate(t) PROVE TypeOK'
  <2>1. PICK s \in SpecsOf[t] : Store(t, Creation(api[t], s, NoStatus))
    BY <1>2 DEF UserCreate
  <2>2. Creation(api[t], s, NoStatus) \in TrunkObject
    BY <1>1, SpecsAssumption, BlanksTyped, ObjectsTyped
  <2>3. api' \in [Trunks -> TrunkObject] /\ watch' \in [Trunks -> SUBSET TrunkObject]
    BY <2>1, <2>2, StoreTyped
  <2> QED
    BY <1>2, <2>3 DEF TypeOK, UserCreate, workerVars
<1>3. ASSUME NEW t \in Trunks, UserEdit(t) PROVE TypeOK'
  <2>1. PICK s \in SpecsOf[t] : Store(t, SpecEdit(api[t], s))
    BY <1>3 DEF UserEdit
  <2>2. SpecEdit(api[t], s) \in TrunkObject
    BY <1>1, SpecsAssumption, BlanksTyped, ObjectsTyped
  <2>3. api' \in [Trunks -> TrunkObject] /\ watch' \in [Trunks -> SUBSET TrunkObject]
    BY <2>1, <2>2, StoreTyped
  <2>4. budget' \in [Events -> Nat]
    BY <1>3, SpendTyped DEF Events, UserEdit
  <2> QED
    BY <1>3, <2>3, <2>4 DEF TypeOK, UserEdit, workerVars
<1>4. ASSUME NEW t \in Trunks, UserDelete(t) PROVE TypeOK'
  <2>1. DeleteRequest(api[t]) \in TrunkObject
    BY <1>1, SpecsAssumption, BlanksTyped, ObjectsTyped
  <2>2. api' \in [Trunks -> TrunkObject] /\ watch' \in [Trunks -> SUBSET TrunkObject]
    BY <1>4, <2>1, StoreTyped DEF UserDelete
  <2>3. budget' \in [Events -> Nat]
    BY <1>4, SpendTyped DEF Events, UserDelete
  <2> QED
    BY <1>4, <2>2, <2>3 DEF TypeOK, UserDelete, workerVars
<1>5. CASE SecretLost
  <2>1. budget' \in [Events -> Nat]
    BY <1>5, SpendTyped DEF Events, SecretLost
  <2> QED
    BY <1>5, <2>1 DEF TypeOK, SecretLost, kubeVars, workerVars
<1>6. CASE SecretRestored
  BY <1>6 DEF TypeOK, SecretRestored, kubeVars, workerVars
<1>7. CASE Restart
  <2>1. budget' \in [Events -> Nat]
    BY <1>7, SpendTyped DEF Events, Restart
  <2> QED
    BY <1>7, <2>1, BlanksTyped DEF TypeOK, Restart, Steps
<1>8. CASE ForeignTrunk
  BY <1>8 DEF TypeOK, ForeignTrunk, kubeVars, workerVars
<1> QED
  BY <1>2, <1>3, <1>4, <1>5, <1>6, <1>7, <1>8 DEF Environment, Users

LEMMA InformerTyped ==
  ASSUME TypeOK, NEW t \in Trunks, WatchEvent(t) \/ Resync(t)
  PROVE  TypeOK'
  BY DEF TypeOK, WatchEvent, Resync, kubeVars, workerVars

\* The start of a reconcile: the object is the cached one, and the status typed.
LEMMA ProceedTyped ==
  ASSUME TypeOK, NEW t \in Trunks, NEW step \in Steps, NEW status \in TrunkStatus,
         NEW requeue \in BOOLEAN, Take(t), Proceed(t, step, status, requeue),
         step # "idle",
         step \in {"update", "delete"} => cache[t].status.trunkID \in Ids
  PROVE  WorkerTyped' /\ queue' \in SUBSET Trunks
  BY MarkersAssumption DEF TypeOK, Take, Proceed, WorkerTyped

LEMMA ReconcileTyped ==
  ASSUME TypeOK, NEW t \in Trunks, Reconcile(t)
  PROVE  TypeOK'
<1> DEFINE o == cache[t]
<1>1. o \in TrunkObject /\ o.status \in TrunkStatus /\ o.status.trunkID \in Ids \cup {NoId}
  BY DEF TypeOK, TrunkObject, ObjectSet, TrunkStatus
<1>2. /\ \A reason \in ReadyReasons : Report(o.status, reason) \in TrunkStatus
      /\ AuthResolved(o) \in TrunkStatus
      /\ [o.status EXCEPT !.secretRead = "False"] \in TrunkStatus
  BY <1>1, StatusesTyped
<1> USE DEF kubeVars, workerVars
<1>3. CASE SkipReconcile(t)
  BY <1>3 DEF TypeOK, SkipReconcile, Take
<1>4. CASE StartDelete(t)
  <2>1. DeleteStep(o) \in {"delete", "removeFinalizer"}
        /\ (DeleteStep(o) = "delete" => o.status.trunkID \in Ids)
    BY <1>1 DEF DeleteStep
  <2>2. WorkerTyped' /\ queue' \in SUBSET Trunks
    BY <1>1, <1>4, <2>1, ProceedTyped DEF StartDelete, Steps
  <2>3. abandoned' \in SUBSET Ids
    BY <1>1, <1>4 DEF StartDelete, TypeOK
  <2> QED
    BY <1>4, <2>2, <2>3 DEF TypeOK, WorkerTyped, StartDelete
<1>5. CASE StartAddFinalizer(t)
  <2>1. WorkerTyped' /\ queue' \in SUBSET Trunks
    BY <1>1, <1>5, ProceedTyped DEF StartAddFinalizer, Steps
  <2> QED
    BY <1>5, <2>1 DEF TypeOK, WorkerTyped, StartAddFinalizer
<1> USE DEF TakeWanted, TakeResolved
<1>6. CASE LiveKitSecretError(t)
  <2>1. WorkerTyped' /\ queue' \in SUBSET Trunks
    BY <1>2, <1>6, ProceedTyped DEF LiveKitSecretError, Steps, ReadyReasons
  <2> QED
    BY <1>6, <2>1 DEF TypeOK, WorkerTyped, LiveKitSecretError
<1>7. CASE AuthSecretError(t)
  <2>1. WorkerTyped' /\ queue' \in SUBSET Trunks
    BY <1>2, <1>7, ProceedTyped DEF AuthSecretError, Steps
  <2> QED
    BY <1>7, <2>1 DEF TypeOK, WorkerTyped, AuthSecretError
<1>8. CASE StartCreate(t)
  <2>1. WorkerTyped' /\ queue' \in SUBSET Trunks
    BY <1>2, <1>8, ProceedTyped DEF StartCreate, Steps
  <2> QED
    BY <1>8, <2>1 DEF TypeOK, WorkerTyped, StartCreate
<1>9. CASE StartUpdate(t)
  <2>1. WorkerTyped' /\ queue' \in SUBSET Trunks
    BY <1>1, <1>2, <1>9, ProceedTyped DEF StartUpdate, Steps
  <2> QED
    BY <1>9, <2>1 DEF TypeOK, WorkerTyped, StartUpdate
<1>10. CASE SkipUpdate(t)
  BY <1>10 DEF TypeOK, SkipUpdate, Take
<1> QED
  BY <1>3, <1>4, <1>5, <1>6, <1>7, <1>8, <1>9, <1>10 DEF Reconcile

LEMMA WriteTyped ==
  ASSUME TypeOK, pc # "idle", NEW o \in TrunkObject, NEW requeue \in BOOLEAN,
         Write(o, requeue), UNCHANGED <<cache, remote, readable, abandoned>>
  PROVE  TypeOK'
<1>1. key \in Trunks
  BY DEF TypeOK
<1>2. WorkerTyped' /\ queue' \in SUBSET Trunks
  BY FinishTyped DEF Write
<1>3. api' \in [Trunks -> TrunkObject] /\ watch' \in [Trunks -> SUBSET TrunkObject]
  BY <1>1, StoreTyped DEF Write, TypeOK, kubeVars
<1>4. budget' \in [Events -> Nat]
  BY SpendTyped DEF Events, Write, TypeOK
<1> QED
  BY <1>2, <1>3, <1>4 DEF TypeOK, WorkerTyped

LEMMA RemoteCopyTyped ==
  ASSUME NEW t \in Trunks, NEW o \in TrunkObject
  PROVE  RemoteCopy(t, o) \in RemoteTrunk
<1>1. o.spec \in TrunkSpec /\ o.uid \in Nat /\ o.generation \in Nat
  BY DEF TrunkObject, ObjectSet
<1> QED
  BY <1>1 DEF RemoteCopy, RemoteTrunk, BuildTrunkInfo, TrunkInfo, Provenance, TrunkSpec

LEMMA ContinueTyped ==
  ASSUME TypeOK, pc # "idle", NEW step \in Steps \ {"idle", "update", "delete"},
         NEW status \in TrunkStatus, NEW requeue \in BOOLEAN,
         Continue(step, status, requeue)
  PROVE  WorkerTyped' /\ queue' \in SUBSET Trunks
  BY DEF TypeOK, Continue, WorkerTyped

LEMMA CallTyped == TypeOK /\ Call => TypeOK'
<1> SUFFICES ASSUME TypeOK, Call PROVE TypeOK'
  OBVIOUS
<1>1. pc # "idle" /\ key \in Trunks
  BY DEF Call, AddFinalizer, RemoveFinalizer, WriteStatus, ListTrunks, CreateTrunk,
         UpdateTrunk, DeleteTrunk, TypeOK
<1>2. api[key] \in TrunkObject /\ obj \in TrunkObject /\ draft \in TrunkStatus
  BY <1>1 DEF TypeOK
<1>13. api[key].spec \in TrunkSpec
  BY <1>2 DEF TrunkObject, ObjectSet
<1>3. \A reason \in ReadyReasons : Report(draft, reason) \in TrunkStatus
  BY <1>2, StatusesTyped
<1>4. \A id \in Ids : /\ Synced(draft, id, obj) \in TrunkStatus
                     /\ Adopted(draft, id, obj) \in TrunkStatus
  BY <1>2, IdStatusesTyped
<1>5. RemoteCopy(key, obj) \in RemoteTrunk
  BY <1>1, <1>2, RemoteCopyTyped
<1>6. CASE AddFinalizer
  BY <1>1, <1>2, <1>13, <1>6, BlanksTyped, ObjectsTyped, WriteTyped DEF AddFinalizer
<1>7. CASE RemoveFinalizer
  BY <1>1, <1>2, <1>13, <1>7, BlanksTyped, ObjectsTyped, WriteTyped DEF RemoveFinalizer
<1>8. CASE WriteStatus
  <2>1. again \in BOOLEAN
    BY DEF TypeOK
  <2>2. StatusWrite(api[key], draft) \in TrunkObject
    BY <1>2, <1>13, ObjectsTyped
  <2> QED
    BY <1>1, <1>2, <1>8, <2>1, <2>2, WriteTyped DEF WriteStatus
<1>9. CASE ListTrunks
  <2>1. WorkerTyped' /\ queue' \in SUBSET Trunks
    BY <1>1, <1>2, <1>3, <1>4, <1>9, ContinueTyped
       DEF ListTrunks, Steps, ReadyReasons, FindByName
  <2>2. budget' \in [Events -> Nat]
    BY <1>9, SpendTyped DEF Events, ListTrunks, TypeOK
  <2> QED
    BY <1>9, <2>1, <2>2 DEF ListTrunks, TypeOK, WorkerTyped, kubeVars
<1>10. CASE CreateTrunk
  <2>1. WorkerTyped' /\ queue' \in SUBSET Trunks
    BY <1>1, <1>2, <1>3, <1>4, <1>10, ContinueTyped DEF CreateTrunk, Steps, ReadyReasons
  <2>2. budget' \in [Events -> Nat]
    BY <1>10, SpendTyped DEF Events, CreateTrunk, TypeOK
  <2>3. remote' \in [Ids -> RemoteTrunk \cup {Unused, Deleted, Foreign}]
    BY <1>5, <1>10 DEF CreateTrunk, TypeOK
  <2> QED
    BY <1>10, <2>1, <2>2, <2>3 DEF CreateTrunk, TypeOK, WorkerTyped, kubeVars
<1>11. CASE UpdateTrunk
  <2>1. WorkerTyped' /\ queue' \in SUBSET Trunks
    BY <1>1, <1>2, <1>3, <1>4, <1>11, ContinueTyped
       DEF UpdateTrunk, Steps, ReadyReasons, Serves
  <2>2. budget' \in [Events -> Nat]
    BY <1>11, SpendTyped DEF Events, UpdateTrunk, TypeOK
  <2>3. remote' \in [Ids -> RemoteTrunk \cup {Unused, Deleted, Foreign}]
    BY <1>5, <1>11 DEF UpdateTrunk, TypeOK
  <2> QED
    BY <1>11, <2>1, <2>2, <2>3 DEF UpdateTrunk, TypeOK, WorkerTyped, kubeVars
<1>12. CASE DeleteTrunk
  <2>1. WorkerTyped' /\ queue' \in SUBSET Trunks
    BY <1>1, <1>2, <1>12, ContinueTyped DEF DeleteTrunk, Steps
  <2>2. budget' \in [Events -> Nat]
    BY <1>12, SpendTyped DEF Events, DeleteTrunk, TypeOK
  <2>3. remote' \in [Ids -> RemoteTrunk \cup {Unused, Deleted, Foreign}]
    BY <1>12 DEF DeleteTrunk, TypeOK
  <2>4. abandoned' \in SUBSET Ids
    BY <1>12 DEF DeleteTrunk, TypeOK
  <2> QED
    BY <1>12, <2>1, <2>2, <2>3, <2>4 DEF DeleteTrunk, TypeOK, WorkerTyped, kubeVars
<1> QED
  BY <1>6, <1>7, <1>8, <1>9, <1>10, <1>11, <1>12 DEF Call

LEMMA NextTyped == TypeOK /\ [Next]_vars => TypeOK'
<1> SUFFICES ASSUME TypeOK, [Next]_vars PROVE TypeOK'
  OBVIOUS
<1>1. CASE UNCHANGED vars
  BY <1>1 DEF TypeOK, vars, kubeVars, workerVars
<1> QED
  BY <1>1, EnvironmentTyped, InformerTyped, ReconcileTyped, CallTyped DEF Next, Controller

\* The variables of the model keep their types, the worker holds a key exactly while
\* it is in the middle of a reconcile, and it never asks LiveKit to update or delete a
\* trunk whose id it does not know.
THEOREM TypeCorrect == Spec => []TypeOK
<1> QED
  BY InitTyped, NextTyped, PTL DEF Spec

----------------------------------------------------------------------------
\* The versions of an object.

\* n can be stored after o.
Succeeds(n, o) ==
  /\ n = o \/ o.rv < n.rv
  /\ Older(o, n)
  /\ o.uid = n.uid /\ n.exists => o.exists
  /\ o.uid = n.uid /\ n.exists /\ o.generation = n.generation => o.spec = n.spec
  /\ o.uid = n.uid /\ n.exists /\ o.deleting => n.deleting

LEMMA OlderTransitive ==
  ASSUME NEW a, NEW b, NEW c, a.uid \in Nat, b.uid \in Nat, c.uid \in Nat,
         a.generation \in Nat, b.generation \in Nat, c.generation \in Nat,
         Older(a, b), Older(b, c)
  PROVE  Older(a, c)
  BY DEF Older

\* A copy that lags behind the stored version lags behind the next one too.
LEMMA BehindSuccessor ==
  ASSUME NEW v \in TrunkObject, NEW o \in TrunkObject, NEW n \in TrunkObject,
         Behind(v, o), Succeeds(n, o)
  PROVE  Behind(v, n) /\ (v.rv = n.rv => n = o)
  BY DEF Behind, Succeeds, Older, TrunkObject, ObjectSet

\* The users' requests store successors, and nothing they store counts as observed.
LEMMA UserRequests ==
  ASSUME NEW o \in TrunkObject, NEW s \in TrunkSpec
  PROVE  /\ ~o.exists => Succeeds(Creation(o, s, NoStatus), o)
         /\ o.exists => Succeeds(SpecEdit(o, s), o)
         /\ o.exists => Succeeds(DeleteRequest(o), o)
  BY DEF Succeeds, Older, TrunkObject, ObjectSet, Creation, SpecEdit, DeleteRequest,
         NextGeneration, Removal

\* The controller's writes start no new generation.
LEMMA StoredFields ==
  ASSUME NEW o \in TrunkObject, NEW m \in TrunkObject, m.uid = o.uid,
         m.generation = o.generation, m.spec = o.spec, m.exists = o.exists,
         m.deleting = o.deleting, NEW n, n = Stored(o, m)
  PROVE  /\ Succeeds(n, o)
         /\ n.uid = o.uid /\ n.generation = o.generation /\ n.spec = o.spec
         /\ n.exists = o.exists /\ n.deleting = o.deleting
         /\ n.status = m.status /\ n.finalizer = m.finalizer
<1>1. n = m \/ n = [m EXCEPT !.rv = o.rv + 1]
  BY DEF Stored
<1>2. n = o \/ n.rv = o.rv + 1
  BY DEF Stored, TrunkObject, ObjectSet
<1>3. /\ n.uid = o.uid /\ n.generation = o.generation /\ n.spec = o.spec
      /\ n.exists = o.exists /\ n.deleting = o.deleting
      /\ n.status = m.status /\ n.finalizer = m.finalizer
  BY <1>1 DEF TrunkObject, ObjectSet
<1> QED
  BY <1>2, <1>3 DEF Succeeds, Older, TrunkObject, ObjectSet

LEMMA StatusWriteFields ==
  ASSUME NEW o \in TrunkObject, NEW st \in TrunkStatus, NEW n, n = StatusWrite(o, st)
  PROVE  /\ Succeeds(n, o)
         /\ n.uid = o.uid /\ n.generation = o.generation /\ n.spec = o.spec
         /\ n.exists = o.exists /\ n.deleting = o.deleting
         /\ n.status = st /\ n.finalizer = o.finalizer
<1> DEFINE m == [o EXCEPT !.status = st]
<1>1. /\ m \in TrunkObject /\ m.uid = o.uid /\ m.generation = o.generation
      /\ m.spec = o.spec /\ m.status = st /\ m.exists = o.exists
      /\ m.deleting = o.deleting /\ m.finalizer = o.finalizer
  BY DEF TrunkObject, ObjectSet
<1>2. n = Stored(o, m)
  BY DEF StatusWrite
<1> HIDE DEF m
<1> QED
  BY <1>1, <1>2, StoredFields

LEMMA FinalizerAddedFields ==
  ASSUME NEW o \in TrunkObject, NEW n, n = FinalizerAdded(o)
  PROVE  /\ Succeeds(n, o)
         /\ n.uid = o.uid /\ n.generation = o.generation /\ n.spec = o.spec
         /\ n.exists = o.exists /\ n.deleting = o.deleting
         /\ n.status = o.status /\ n.finalizer
<1> DEFINE m == [o EXCEPT !.finalizer = TRUE]
<1>1. /\ m \in TrunkObject /\ m.uid = o.uid /\ m.generation = o.generation
      /\ m.spec = o.spec /\ m.status = o.status /\ m.exists = o.exists
      /\ m.deleting = o.deleting /\ m.finalizer
  BY DEF TrunkObject, ObjectSet
<1>2. n = Stored(o, m)
  BY DEF FinalizerAdded
<1> HIDE DEF m
<1> QED
  BY <1>1, <1>2, StoredFields

LEMMA FinalizerDroppedFields ==
  ASSUME NEW o \in TrunkObject, o.deleting
  PROVE  FinalizerDropped(o) = Removal(o) /\ Succeeds(Removal(o), o)
  BY DEF FinalizerDropped, Removal, Succeeds, Older, TrunkObject, ObjectSet

LEMMA WellformedKept ==
  ASSUME NEW t, NEW o, Wellformed(t, o),
         \A u, id : Made(u, id) => Made(u, id)'
  PROVE  Wellformed(t, o)'
  BY DEF Wellformed

LEMMA MadeUnchanged ==
  ASSUME UNCHANGED remote
  PROVE  \A u, id : Made(u, id) => Made(u, id)'
  BY DEF Made, Live

\* Storing a successor of t's stored version.
LEMMA StoreVersions ==
  ASSUME TypeOK, VersionsInv, NEW t \in Trunks, NEW n \in TrunkObject, Store(t, n),
         Succeeds(n, api[t]), Wellformed(t, n), Covers(cache[t], n),
         UNCHANGED <<cache, remote>>
  PROVE  VersionsInv'
<1>1. \A u, o : Wellformed(u, o) => Wellformed(u, o)'
  BY WellformedKept, MadeUnchanged
<1>2. SUFFICES ASSUME NEW u \in Trunks
               PROVE  /\ Wellformed(u, api'[u])
                      /\ Wellformed(u, cache[u]) /\ Behind(cache[u], api'[u])
                      /\ Covers(cache[u], api'[u])
                      /\ \A w \in watch'[u] : /\ Wellformed(u, w) /\ Behind(w, api'[u])
                                               /\ Older(cache[u], w)
                      /\ \A v, w \in watch'[u] : v.rv < w.rv => Older(v, w)
  BY <1>1 DEF VersionsInv
<1>3. CASE u # t
  BY <1>3 DEF TypeOK, Store, VersionsInv
<1>4. CASE u = t
  <2>1. /\ api[t] \in TrunkObject /\ cache[t] \in TrunkObject
        /\ watch[t] \subseteq TrunkObject
    BY DEF TypeOK
  <2>2. api'[t] = n /\ watch'[t] \subseteq watch[t] \cup {n}
    BY DEF TypeOK, Store
  <2>3. Wellformed(t, cache[t]) /\ Behind(cache[t], n)
    BY <2>1, BehindSuccessor DEF VersionsInv
  <2>4. \A w \in watch[t] : Wellformed(t, w) /\ Behind(w, n) /\ Older(cache[t], w)
    BY <2>1, BehindSuccessor DEF VersionsInv
  <2>5. Behind(n, n)
    BY DEF Behind, Older, TrunkObject, ObjectSet
  <2>6. ASSUME NEW v \in watch'[t], NEW w \in watch'[t], v.rv < w.rv PROVE Older(v, w)
    <3>1. CASE v \in watch[t] /\ w \in watch[t]
      BY <2>6, <3>1 DEF VersionsInv
    <3>2. CASE w = n
      BY <2>2, <2>4, <2>5, <3>2 DEF Behind
    <3>3. CASE v = n /\ w \in watch[t]
      BY <2>1, <2>4, <2>6, <3>3 DEF Behind, TrunkObject, ObjectSet
    <3> QED
      BY <2>2, <3>1, <3>2, <3>3
  <2> QED
    BY <1>4, <2>2, <2>3, <2>4, <2>5, <2>6 DEF Behind
<1> QED
  BY <1>3, <1>4

LEMMA SameVersions ==
  ASSUME TypeOK, VersionsInv, UNCHANGED <<api, watch, cache>>,
         \A u, id : Made(u, id) => Made(u, id)'
  PROVE  VersionsInv'
  BY WellformedKept DEF VersionsInv

\* The informer takes a later version.
LEMMA WatchEventVersions ==
  ASSUME TypeOK, VersionsInv, NEW t \in Trunks, WatchEvent(t)
  PROVE  VersionsInv' /\ \A u \in Trunks : Older(cache[u], cache'[u])
<1>1. \A u, o : Wellformed(u, o) => Wellformed(u, o)'
  BY WellformedKept, MadeUnchanged DEF WatchEvent
<1>2. PICK o \in watch[t] : /\ cache' = [cache EXCEPT ![t] = o]
                            /\ watch' = [watch EXCEPT ![t] = {w \in @ : w.rv > o.rv}]
  BY DEF WatchEvent
<1>3. api' = api
  BY DEF WatchEvent
<1>4. \A u \in Trunks : /\ api[u] \in TrunkObject /\ cache[u] \in TrunkObject
                        /\ watch[u] \subseteq TrunkObject
  BY DEF TypeOK
<1>5. Wellformed(t, o) /\ Behind(o, api[t]) /\ Older(cache[t], o)
  BY DEF VersionsInv
<1>6. Covers(o, api[t])
  BY <1>4, <1>5 DEF VersionsInv, Covers, Behind, Older, TrunkObject, ObjectSet, TrunkStatus
<1>7. cache'[t] = o /\ watch'[t] = {w \in watch[t] : w.rv > o.rv}
  BY <1>2 DEF TypeOK
<1>8. \A u \in Trunks \ {t} : cache'[u] = cache[u] /\ watch'[u] = watch[u]
  BY <1>2 DEF TypeOK
<1>9. \A w \in watch'[t] : Wellformed(t, w) /\ Behind(w, api[t]) /\ Older(o, w)
  BY <1>4, <1>7 DEF VersionsInv, TrunkObject, ObjectSet
<1>10. \A v, w \in watch'[t] : v.rv < w.rv => Older(v, w)
  BY <1>7 DEF VersionsInv
<1>11. VersionsInv'
  <2>1. SUFFICES ASSUME NEW u \in Trunks
                 PROVE  /\ Wellformed(u, api[u])
                        /\ Wellformed(u, cache'[u]) /\ Behind(cache'[u], api[u])
                        /\ Covers(cache'[u], api[u])
                        /\ \A w \in watch'[u] : /\ Wellformed(u, w) /\ Behind(w, api[u])
                                                 /\ Older(cache'[u], w)
                        /\ \A v, w \in watch'[u] : v.rv < w.rv => Older(v, w)
    BY <1>1, <1>3 DEF VersionsInv
  <2>2. CASE u = t
    BY <1>5, <1>6, <1>7, <1>9, <1>10, <2>2 DEF VersionsInv
  <2>3. CASE u # t
    BY <1>8, <2>3 DEF VersionsInv
  <2> QED
    BY <2>2, <2>3
<1>12. \A u \in Trunks : Older(cache[u], cache'[u])
  BY <1>4, <1>5, <1>7, <1>8 DEF Older, TrunkObject, ObjectSet
<1> QED
  BY <1>11, <1>12

\* A new process has the versions that are stored.
LEMMA RestartVersions ==
  ASSUME TypeOK, VersionsInv, Restart
  PROVE  VersionsInv' /\ \A u \in Trunks : Older(cache[u], cache'[u])
<1>1. \A u, o : Wellformed(u, o) => Wellformed(u, o)'
  BY WellformedKept, MadeUnchanged DEF Restart
<1>2. api' = api /\ cache' = api /\ watch' = [u \in Trunks |-> {}]
  BY DEF Restart
<1>3. \A u \in Trunks : Wellformed(u, api[u]) /\ Behind(api[u], api[u])
                        /\ Covers(api[u], api[u])
  BY DEF VersionsInv, Wellformed, Behind, Covers, Older, TypeOK, TrunkObject, ObjectSet
<1>4. \A u \in Trunks : Older(cache[u], api[u])
  BY DEF VersionsInv, Behind
<1> QED
  BY <1>1, <1>2, <1>3, <1>4 DEF VersionsInv

----------------------------------------------------------------------------
\* The inductive invariant.

LEMMA InitInv == Init => IndInv
<1> SUFFICES ASSUME Init PROVE IndInv
  OBVIOUS
<1>1. TypeOK
  BY InitTyped
<1>2. \A t \in Trunks : (CHOOSE s \in SpecsOf[t] : TRUE) \in SpecsOf[t]
  BY SpecsAssumption
<1>3. \A t \in Trunks : /\ ~api[t].exists /\ ~api[t].deleting /\ api[t].spec \in SpecsOf[t]
                        /\ api[t].status = NoStatus /\ api[t].generation = 0
                        /\ cache[t] = api[t] /\ watch[t] = {}
  BY <1>2 DEF Init, NeverCreated
<1>4. \A t \in Trunks : Wellformed(t, api[t])
  BY <1>3 DEF Wellformed, NoStatus
<1>5. VersionsInv
  BY <1>1, <1>3, <1>4 DEF VersionsInv, Behind, Covers, Older, TypeOK, TrunkObject, ObjectSet
<1>6. WorkerInv
  BY DEF Init, WorkerInv
<1>7. RemoteInv
  BY DEF Init, RemoteInv, Live, Unused
<1>8. ObservedTruth /\ RecordedLive
  BY <1>3 DEF ObservedTruth, RecordedLive
<1> QED
  BY <1>1, <1>5, <1>6, <1>7, <1>8 DEF IndInv

\* A request of a user that stores n under the name t.
LEMMA UserStep ==
  ASSUME IndInv, TypeOK', NEW t \in Trunks, NEW n \in TrunkObject, Store(t, n),
         Succeeds(n, api[t]), Wellformed(t, n),
         \A v : Covers(v, api[t]) => Covers(v, n),
         n.exists => n.deleting \/ ~UpToDate(n),
         n.exists /\ ~n.deleting /\ n.status.trunkID # NoId =>
           /\ api[t].exists /\ ~api[t].deleting
           /\ n.status.trunkID = api[t].status.trunkID,
         UNCHANGED <<cache, workerVars, remote, abandoned>>
  PROVE  IndInv'
<1> USE DEF workerVars
<1>1. TypeOK /\ VersionsInv /\ WorkerInv /\ RemoteInv /\ ObservedTruth /\ RecordedLive
  BY DEF IndInv
<1>2. Covers(cache[t], n)
  BY <1>1 DEF VersionsInv
<1>3. VersionsInv'
  BY <1>1, <1>2, StoreVersions
<1>4. api'[t] = n /\ \A u \in Trunks \ {t} : api'[u] = api[u]
  BY <1>1 DEF TypeOK, Store
<1>5. ASSUME key # NoKey
      PROVE  Behind(obj, api'[key]) /\ Covers(obj, api'[key])
  <2>1. key \in Trunks /\ obj \in TrunkObject /\ api[key] \in TrunkObject
    BY <1>1, <1>5 DEF TypeOK
  <2>2. Behind(obj, api[key]) /\ Covers(obj, api[key])
    BY <1>1, <1>5 DEF WorkerInv
  <2> QED
    BY <1>4, <2>1, <2>2, BehindSuccessor
<1>6. WorkerInv'
  <2>1. key # NoKey /\ Wellformed(key, obj) => Wellformed(key, obj)'
    BY WellformedKept, MadeUnchanged
  <2> QED
    BY <1>1, <1>5, <2>1 DEF WorkerInv, Made, Live, Serves
<1>7. RemoteInv'
  BY <1>1 DEF RemoteInv, Live
<1>8. ObservedTruth'
  BY <1>1, <1>4 DEF ObservedTruth, InSync, Serves, Live, UpToDate
<1>9. RecordedLive'
  BY <1>1, <1>4 DEF RecordedLive, Live
<1> QED
  BY <1>3, <1>6, <1>7, <1>8, <1>9 DEF IndInv

\* When the caches move on and the worker has not started, or is where it was.
LEMMA LaterCacheRemote ==
  ASSUME TypeOK, TypeOK', RemoteInv, UNCHANGED remote,
         \A u \in Trunks : Older(cache[u], cache'[u]),
         key' = NoKey \/ UNCHANGED <<key, obj>>
  PROVE  RemoteInv'
<1> SUFFICES ASSUME NEW id \in Ids, Live(id)
             PROVE  LET from == remote[id].from IN
                      /\ \E s \in SpecsOf[from.trunk] :
                           remote[id].server = s.livekitRef /\ remote[id].info.name = s.name
                      /\ Older(from, cache'[from.trunk])
                      /\ key' = from.trunk => Older(from, obj')
  BY DEF RemoteInv, Live
<1> DEFINE from == remote[id].from
<1>1. from \in Provenance
  BY DEF TypeOK, Live, RemoteTrunk, Unused, Deleted, Foreign
<1>2. from.trunk \in Trunks /\ from.uid \in Nat /\ from.generation \in Nat
  BY <1>1 DEF Provenance
<1>3. /\ cache[from.trunk].uid \in Nat /\ cache[from.trunk].generation \in Nat
      /\ cache'[from.trunk].uid \in Nat /\ cache'[from.trunk].generation \in Nat
  BY <1>2 DEF TypeOK, TrunkObject, ObjectSet
<1>4. Older(from, cache'[from.trunk])
  BY <1>2, <1>3, OlderTransitive DEF RemoteInv
<1> QED
  BY <1>2, <1>4, MarkersAssumption DEF RemoteInv

\* An id given to a trunk of another kind was unused, and no trunk of this kind changes.
LEMMA ForeignStep ==
  ASSUME TypeOK, ForeignTrunk, NEW id \in Ids
  PROVE  /\ Live(id)' <=> Live(id)
         /\ remote[id] # Unused => remote'[id] = remote[id]
         /\ remote'[id] = Unused => remote[id] = Unused
  BY DEF TypeOK, ForeignTrunk, Live, Foreign, Unused

LEMMA EnvironmentInv == IndInv /\ Environment => IndInv'
<1> SUFFICES ASSUME IndInv, Environment PROVE IndInv'
  OBVIOUS
<1>1. TypeOK /\ VersionsInv /\ WorkerInv /\ RemoteInv /\ ObservedTruth /\ RecordedLive
  BY DEF IndInv
<1>2. TypeOK'
  BY <1>1, EnvironmentTyped
<1>3. \A t \in Trunks : api[t] \in TrunkObject /\ Wellformed(t, api[t])
  BY <1>1 DEF TypeOK, VersionsInv
<1>4. ASSUME NEW t \in Trunks, UserCreate(t) PROVE IndInv'
  <2>1. PICK s \in SpecsOf[t] : Store(t, Creation(api[t], s, NoStatus))
    BY <1>4 DEF UserCreate
  <2> DEFINE n == Creation(api[t], s, NoStatus)
  <2>2. s \in TrunkSpec
    BY SpecsAssumption
  <2>3. n \in TrunkObject /\ Succeeds(n, api[t])
    BY <1>3, <1>4, <2>2, BlanksTyped, ObjectsTyped, UserRequests DEF UserCreate
  <2>4. /\ Wellformed(t, n) /\ ~UpToDate(n) /\ n.status.trunkID = NoId
        /\ \A v : Covers(v, n)
    BY DEF Wellformed, Creation, NoStatus, UpToDate, Covers
  <2> QED
    BY <1>2, <1>4, <2>1, <2>3, <2>4, UserStep DEF UserCreate
<1>5. ASSUME NEW t \in Trunks, UserEdit(t) PROVE IndInv'
  <2>1. PICK s \in SpecsOf[t] : Store(t, SpecEdit(api[t], s))
    BY <1>5 DEF UserEdit
  <2> DEFINE n == SpecEdit(api[t], s)
  <2>2. s \in TrunkSpec
    BY SpecsAssumption
  <2>3. n \in TrunkObject /\ Succeeds(n, api[t])
    BY <1>3, <1>5, <2>2, BlanksTyped, ObjectsTyped, UserRequests DEF UserEdit
  <2>4. /\ Wellformed(t, n) /\ ~UpToDate(n) /\ n.status = api[t].status
        /\ n.deleting = api[t].deleting /\ \A v : Covers(v, api[t]) => Covers(v, n)
    BY <1>3, <1>5 DEF UserEdit, Wellformed, SpecEdit, NextGeneration, UpToDate, Covers,
                      TrunkObject, ObjectSet, TrunkStatus
  <2> QED
    BY <1>2, <1>5, <2>1, <2>3, <2>4, UserStep DEF UserEdit
<1>6. ASSUME NEW t \in Trunks, UserDelete(t) PROVE IndInv'
  <2> DEFINE n == DeleteRequest(api[t])
  <2>1. api[t].spec \in TrunkSpec
    BY <1>3 DEF TrunkObject, ObjectSet
  <2>2. n \in TrunkObject /\ Succeeds(n, api[t])
    BY <1>3, <1>6, <2>1, BlanksTyped, ObjectsTyped, UserRequests DEF UserDelete
  <2>3. /\ Wellformed(t, n)
        /\ n.exists => n.deleting
        /\ \A v : Covers(v, api[t]) => Covers(v, n)
    BY <1>3, <1>6 DEF UserDelete, Wellformed, DeleteRequest, NextGeneration, Removal,
                      Covers, TrunkObject, ObjectSet, TrunkStatus
  <2> QED
    BY <1>2, <1>6, <2>2, <2>3, UserStep DEF UserDelete
<1>7. CASE SecretLost \/ SecretRestored
  <2>1. UNCHANGED <<kubeVars, cache, workerVars, remote, abandoned>>
    BY <1>7 DEF SecretLost, SecretRestored
  <2> QED
    BY <1>1, <1>2, <2>1
       DEF IndInv, kubeVars, workerVars, VersionsInv, WorkerInv, RemoteInv, ObservedTruth,
           RecordedLive, Wellformed, Made, Live, Serves, InSync
<1>8. CASE Restart
  <2>1. VersionsInv' /\ \A u \in Trunks : Older(cache[u], cache'[u])
    BY <1>1, <1>8, RestartVersions
  <2>2. WorkerInv'
    BY <1>8 DEF Restart, WorkerInv
  <2>3. RemoteInv'
    BY <1>1, <1>2, <1>8, <2>1, LaterCacheRemote DEF Restart
  <2>4. ObservedTruth' /\ RecordedLive'
    BY <1>1, <1>8 DEF Restart, ObservedTruth, RecordedLive, InSync, Serves, Live, UpToDate
  <2> QED
    BY <1>2, <2>1, <2>2, <2>3, <2>4 DEF IndInv
<1>9. CASE ForeignTrunk
  <2>1. UNCHANGED <<kubeVars, cache, workerVars, abandoned>>
    BY <1>9 DEF ForeignTrunk
  <2>2. \A id \in Ids : /\ Live(id)' <=> Live(id)
                        /\ remote[id] # Unused => remote'[id] = remote[id]
                        /\ remote'[id] = Unused => remote[id] = Unused
    BY <1>1, <1>9, ForeignStep
  <2>3. \A id \in Ids : Live(id) => remote'[id] = remote[id]
    BY <2>2 DEF Live, Unused
  <2>4. \A t \in Trunks : \A id : Made(t, id) => Made(t, id)'
    BY <2>2, <2>3 DEF Made
  <2>5. \A server, id : Serves(server, id) =>
          Serves(server, id)' /\ remote'[id] = remote[id]
    BY <2>2, <2>3 DEF Serves
  <2>6. \A t \in Trunks, o \in TrunkObject : Wellformed(t, o) => Wellformed(t, o)'
    BY <2>4 DEF Wellformed
  <2>7. VersionsInv'
    BY <1>1, <2>1, <2>6 DEF VersionsInv, TypeOK, kubeVars
  <2>8. WorkerInv'
    <3>1. ASSUME key # NoKey
          PROVE  /\ key \in Trunks /\ obj \in TrunkObject /\ draft.trunkID \in Ids \cup {NoId}
                 /\ obj.status.trunkID \in Ids \cup {NoId}
      BY <1>1, <3>1 DEF TypeOK, TrunkStatus, TrunkObject, ObjectSet
    <3> QED
      BY <1>1, <2>1, <2>2, <2>4, <2>5, <2>6, <3>1, MarkersAssumption
         DEF WorkerInv, kubeVars, workerVars
  <2>9. RemoteInv'
    BY <1>1, <2>1, <2>2, <2>3 DEF RemoteInv, workerVars
  <2>10. ObservedTruth' /\ RecordedLive'
    <3>1. \A t \in Trunks : api[t].status.trunkID \in Ids \cup {NoId}
      BY <1>1 DEF TypeOK, TrunkStatus, TrunkObject, ObjectSet
    <3>2. ObservedTruth'
      BY <1>1, <2>1, <2>5 DEF ObservedTruth, InSync, UpToDate, kubeVars
    <3>3. RecordedLive'
      BY <1>1, <2>1, <2>2, <3>1 DEF RecordedLive, kubeVars
    <3> QED
      BY <3>2, <3>3
  <2> QED
    BY <1>2, <2>7, <2>8, <2>9, <2>10 DEF IndInv
<1> QED
  BY <1>4, <1>5, <1>6, <1>7, <1>8, <1>9 DEF Environment, Users

LEMMA InformerInv ==
  ASSUME IndInv, NEW t \in Trunks, WatchEvent(t) \/ Resync(t)
  PROVE  IndInv'
<1>1. TypeOK /\ VersionsInv /\ WorkerInv /\ RemoteInv /\ ObservedTruth /\ RecordedLive
  BY DEF IndInv
<1>2. TypeOK'
  BY <1>1, InformerTyped
<1>3. CASE WatchEvent(t)
  <2> USE DEF workerVars
  <2>1. VersionsInv' /\ \A u \in Trunks : Older(cache[u], cache'[u])
    BY <1>1, <1>3, WatchEventVersions
  <2>2. api' = api /\ remote' = remote /\ abandoned' = abandoned /\ UNCHANGED workerVars
    BY <1>3 DEF WatchEvent
  <2>3. RemoteInv'
    BY <1>1, <1>2, <2>1, <2>2, LaterCacheRemote
  <2>4. key # NoKey => Older(obj, cache'[key])
    <3>1. SUFFICES ASSUME key # NoKey PROVE Older(obj, cache'[key])
      OBVIOUS
    <3>2. key \in Trunks /\ Older(obj, cache[key]) /\ Older(cache[key], cache'[key])
      BY <1>1, <2>1, <3>1 DEF WorkerInv, TypeOK
    <3>3. obj \in TrunkObject /\ cache[key] \in TrunkObject /\ cache'[key] \in TrunkObject
      BY <1>1, <1>2, <3>2 DEF TypeOK
    <3> QED
      BY <3>2, <3>3, OlderTransitive DEF TrunkObject, ObjectSet
  <2>5. WorkerInv'
    <3>1. key # NoKey /\ Wellformed(key, obj) => Wellformed(key, obj)'
      BY <2>2, WellformedKept, MadeUnchanged
    <3> QED
      BY <1>1, <2>2, <2>4, <3>1 DEF WorkerInv, Made, Live, Serves
  <2>6. ObservedTruth' /\ RecordedLive'
    BY <1>1, <2>2 DEF ObservedTruth, RecordedLive, InSync, Serves, Live
  <2> QED
    BY <1>2, <2>1, <2>3, <2>5, <2>6 DEF IndInv
<1>4. CASE Resync(t)
  BY <1>1, <1>2, <1>4
     DEF Resync, IndInv, kubeVars, workerVars, VersionsInv, WorkerInv, RemoteInv,
         ObservedTruth, RecordedLive, Wellformed, Made, Live, Serves, InSync
<1> QED
  BY <1>3, <1>4

\* The worker reads t from the cache and decides on its first call.
LEMMA ProceedInv ==
  ASSUME IndInv, TypeOK', NEW t \in Trunks, NEW step, NEW status, NEW requeue,
         Proceed(t, step, status, requeue),
         UNCHANGED <<api, watch, cache, remote>>,
         cache[t].exists,
         status.trunkID = cache[t].status.trunkID,
         status.observedGeneration = cache[t].status.observedGeneration,
         step \in {"list", "create", "update", "status"} =>
           cache[t].finalizer /\ ~cache[t].deleting,
         step \in {"list", "create"} => cache[t].status.trunkID = NoId,
         step \in {"delete", "removeFinalizer"} => cache[t].deleting,
         step = "removeFinalizer" /\ cache[t].status.trunkID # NoId
           => cache[t].status.trunkID \in abandoned'
  PROVE  IndInv'
<1>1. TypeOK /\ VersionsInv /\ WorkerInv /\ RemoteInv /\ ObservedTruth /\ RecordedLive
  BY DEF IndInv
<1>2. VersionsInv'
  BY <1>1, SameVersions, MadeUnchanged
<1>3. pc' = step /\ key' = t /\ obj' = cache[t] /\ draft' = status
  BY DEF Proceed
<1>4. /\ Wellformed(t, cache[t]) /\ Behind(cache[t], api[t]) /\ Covers(cache[t], api[t])
      /\ Older(cache[t], cache[t])
  BY <1>1 DEF VersionsInv, Older, TypeOK, TrunkObject, ObjectSet
<1>5. Wellformed(t, cache[t])'
  BY <1>4, WellformedKept, MadeUnchanged DEF Wellformed, Made, Live
<1>6. WorkerInv'
  BY <1>3, <1>4, <1>5 DEF WorkerInv, Made, Wellformed, Live
<1>7. RemoteInv'
  BY <1>1, <1>3 DEF RemoteInv, Live
<1>8. ObservedTruth' /\ RecordedLive'
  BY <1>1 DEF ObservedTruth, RecordedLive, InSync, Serves, Live
<1> QED
  BY <1>2, <1>6, <1>7, <1>8 DEF IndInv

LEMMA ReconcileInv ==
  ASSUME IndInv, NEW t \in Trunks, Reconcile(t)
  PROVE  IndInv'
<1> DEFINE o == cache[t]
<1>1. TypeOK /\ VersionsInv /\ WorkerInv /\ RemoteInv /\ ObservedTruth /\ RecordedLive
  BY DEF IndInv
<1>2. TypeOK'
  BY <1>1, ReconcileTyped
<1>3. o \in TrunkObject /\ o.status \in TrunkStatus
  BY <1>1 DEF TypeOK, TrunkObject, ObjectSet
<1>4. /\ AuthResolved(o).trunkID = o.status.trunkID
      /\ AuthResolved(o).observedGeneration = o.status.observedGeneration
      /\ \A reason : /\ Report(o.status, reason).trunkID = o.status.trunkID
                     /\ Report(o.status, reason).observedGeneration
                           = o.status.observedGeneration
      /\ [o.status EXCEPT !.secretRead = "False"].trunkID = o.status.trunkID
      /\ [o.status EXCEPT !.secretRead = "False"].observedGeneration
            = o.status.observedGeneration
  BY <1>3 DEF AuthResolved, Report, TrunkStatus
<1>5. CASE SkipReconcile(t) \/ SkipUpdate(t)
  <2>1. UNCHANGED <<kubeVars, cache, workerVars, remote, abandoned>>
    BY <1>5 DEF SkipReconcile, SkipUpdate, TakeResolved, TakeWanted
  <2> QED
    BY <1>1, <1>2, <2>1
       DEF IndInv, kubeVars, workerVars, VersionsInv, WorkerInv, RemoteInv, ObservedTruth,
           RecordedLive, Wellformed, Made, Live, Serves, InSync
<1> USE DEF kubeVars
<1>6. CASE StartDelete(t)
  <2>1. /\ DeleteStep(o) \in {"delete", "removeFinalizer"}
        /\ DeleteStep(o) = "removeFinalizer" /\ o.status.trunkID # NoId
             => o.status.trunkID \in abandoned'
    BY <1>6 DEF StartDelete, DeleteStep
  <2> QED
    BY <1>2, <1>6, <2>1, ProceedInv DEF StartDelete
<1>7. CASE StartAddFinalizer(t)
  BY <1>2, <1>7, ProceedInv DEF StartAddFinalizer
<1> USE DEF TakeWanted, TakeResolved
<1>8. CASE LiveKitSecretError(t)
  BY <1>2, <1>4, <1>8, ProceedInv DEF LiveKitSecretError
<1>9. CASE AuthSecretError(t)
  BY <1>2, <1>4, <1>9, ProceedInv DEF AuthSecretError
<1>10. CASE StartCreate(t)
  BY <1>2, <1>4, <1>10, ProceedInv DEF StartCreate
<1>11. CASE StartUpdate(t)
  BY <1>2, <1>4, <1>11, ProceedInv DEF StartUpdate
<1> QED
  BY <1>5, <1>6, <1>7, <1>8, <1>9, <1>10, <1>11 DEF Reconcile

\* The write that ends a reconcile.
LEMMA WriteInv ==
  ASSUME IndInv, TypeOK', pc # "idle", NEW n \in TrunkObject, NEW requeue,
         Write(n, requeue), UNCHANGED <<cache, remote>>,
         Accepts(api[key], obj) =>
           /\ Succeeds(n, api[key]) /\ Wellformed(key, n) /\ Covers(cache[key], n)
           /\ n.exists /\ ~n.deleting /\ UpToDate(n) => InSync(n)
           /\ n.exists /\ ~n.deleting /\ n.status.trunkID # NoId => Live(n.status.trunkID)
  PROVE  IndInv'
<1>1. TypeOK /\ VersionsInv /\ WorkerInv /\ RemoteInv /\ ObservedTruth /\ RecordedLive
  BY DEF IndInv
<1>2. key' = NoKey /\ key \in Trunks
  BY <1>1 DEF Write, Finish, TypeOK
<1>3. WorkerInv'
  BY <1>2 DEF WorkerInv
<1>4. \A u \in Trunks : Older(cache[u], cache'[u])
  BY <1>1 DEF Older, TypeOK, TrunkObject, ObjectSet
<1>5. RemoteInv'
  BY <1>1, <1>2, <1>4, LaterCacheRemote
<1>6. CASE UNCHANGED kubeVars
  <2>1. VersionsInv'
    BY <1>1, <1>6, SameVersions, MadeUnchanged DEF kubeVars
  <2>2. ObservedTruth' /\ RecordedLive'
    BY <1>1, <1>6 DEF kubeVars, ObservedTruth, RecordedLive, InSync, Serves, Live
  <2> QED
    BY <1>3, <1>5, <2>1, <2>2 DEF IndInv
<1>7. CASE Accepts(api[key], obj) /\ Store(key, n)
  <2>1. VersionsInv'
    BY <1>1, <1>2, <1>7, StoreVersions
  <2>2. api'[key] = n /\ \A u \in Trunks \ {key} : api'[u] = api[u]
    BY <1>1, <1>2, <1>7 DEF TypeOK, Store
  <2>3. ObservedTruth' /\ RecordedLive'
    BY <1>1, <1>7, <2>2 DEF ObservedTruth, RecordedLive, InSync, Serves, Live
  <2> QED
    BY <1>3, <1>5, <2>1, <2>3 DEF IndInv
<1> QED
  BY <1>6, <1>7 DEF Write

LEMMA FinalizerWritesInv ==
  ASSUME IndInv, AddFinalizer \/ RemoveFinalizer
  PROVE  IndInv'
<1> DEFINE o == api[key]
<1>1. TypeOK /\ VersionsInv /\ WorkerInv /\ RemoteInv /\ ObservedTruth /\ RecordedLive
  BY DEF IndInv
<1>2. TypeOK'
  BY <1>1, CallTyped DEF Call
<1>3. pc # "idle" /\ key \in Trunks /\ key # NoKey /\ o \in TrunkObject
  BY <1>1, MarkersAssumption DEF AddFinalizer, RemoveFinalizer, TypeOK
<1>4. o.spec \in TrunkSpec
  BY <1>3 DEF TrunkObject, ObjectSet
<1>5. Accepts(o, obj) => o = obj
  BY <1>1, <1>3 DEF WorkerInv, Behind, Accepts
<1>6. Wellformed(key, o) /\ Covers(cache[key], o)
  BY <1>1, <1>3 DEF VersionsInv
<1>7. /\ o.exists /\ ~o.deleting /\ UpToDate(o) => InSync(o)
      /\ o.exists /\ ~o.deleting /\ o.status.trunkID # NoId => Live(o.status.trunkID)
  BY <1>1, <1>3 DEF ObservedTruth, RecordedLive
<1>8. CASE AddFinalizer
  <2> DEFINE n == FinalizerAdded(o)
  <2>1. n \in TrunkObject
    BY <1>3, <1>4, BlanksTyped, ObjectsTyped
  <2>2. /\ Succeeds(n, o) /\ n.uid = o.uid /\ n.generation = o.generation
        /\ n.spec = o.spec /\ n.exists = o.exists /\ n.deleting = o.deleting
        /\ n.status = o.status /\ n.finalizer
    BY <1>3, FinalizerAddedFields
  <2> HIDE DEF n
  <2>3. Wellformed(key, n) /\ Covers(cache[key], n)
    BY <1>6, <2>2 DEF Wellformed, Covers
  <2>4. /\ n.exists /\ ~n.deleting /\ UpToDate(n) => InSync(n)
        /\ n.exists /\ ~n.deleting /\ n.status.trunkID # NoId => Live(n.status.trunkID)
    BY <1>7, <2>2 DEF UpToDate, InSync, BuildTrunkInfo
  <2> QED
    BY <1>2, <1>3, <1>8, <2>1, <2>2, <2>3, <2>4, WriteInv DEF AddFinalizer, n
<1>9. CASE RemoveFinalizer
  <2> DEFINE n == FinalizerDropped(o)
  <2>1. n \in TrunkObject
    BY <1>3, <1>4, BlanksTyped, ObjectsTyped
  <2>2. obj.deleting
    BY <1>1, <1>3, <1>9 DEF RemoveFinalizer, WorkerInv
  <2>3. Accepts(o, obj) => n = Removal(o) /\ Succeeds(n, o)
    BY <1>3, <1>5, <2>2, FinalizerDroppedFields
  <2>4. Accepts(o, obj) => /\ Wellformed(key, n) /\ Covers(cache[key], n)
                           /\ ~n.exists
    BY <1>6, <2>3 DEF Removal, Wellformed, Covers
  <2> QED
    BY <1>2, <1>3, <1>9, <2>1, <2>3, <2>4, WriteInv DEF RemoveFinalizer
<1> QED
  BY <1>8, <1>9

\* The status that is written tells the truth about the version it is written to.
LEMMA WriteStatusInv ==
  ASSUME IndInv, WriteStatus
  PROVE  IndInv'
<1> DEFINE o == api[key]
           n == StatusWrite(o, draft)
<1>1. TypeOK /\ VersionsInv /\ WorkerInv /\ RemoteInv /\ ObservedTruth /\ RecordedLive
  BY DEF IndInv
<1>2. TypeOK'
  BY <1>1, CallTyped DEF Call
<1>3. pc = "status" /\ key \in Trunks /\ key # NoKey /\ o \in TrunkObject
      /\ obj \in TrunkObject /\ draft \in TrunkStatus /\ cache[key] \in TrunkObject
  BY <1>1, MarkersAssumption DEF WriteStatus, TypeOK
<1>4. n \in TrunkObject
  <2>1. o.spec \in TrunkSpec
    BY <1>3 DEF TrunkObject, ObjectSet
  <2> QED
    BY <1>3, <2>1, ObjectsTyped
<1>5. /\ Succeeds(n, o) /\ n.uid = o.uid /\ n.generation = o.generation
      /\ n.spec = o.spec /\ n.exists = o.exists /\ n.deleting = o.deleting
      /\ n.status = draft /\ n.finalizer = o.finalizer
  BY <1>3, StatusWriteFields
<1> HIDE DEF n
<1>6. SUFFICES ASSUME Accepts(o, obj)
               PROVE  /\ Wellformed(key, n) /\ Covers(cache[key], n)
                      /\ n.exists /\ ~n.deleting /\ UpToDate(n) => InSync(n)
                      /\ n.exists /\ ~n.deleting /\ n.status.trunkID # NoId
                           => Live(n.status.trunkID)
  BY <1>2, <1>3, <1>4, <1>5, WriteInv DEF WriteStatus, n
<1>7. o = obj
  BY <1>1, <1>3, <1>6 DEF WorkerInv, Behind, Accepts
<1>8. /\ obj.exists /\ obj.finalizer /\ Wellformed(key, obj)
      /\ draft.trunkID # NoId => Made(key, draft.trunkID)
      /\ obj.status.trunkID # NoId => draft.trunkID = obj.status.trunkID
  BY <1>1, <1>3 DEF WorkerInv
<1>9. obj.status.observedGeneration \in Nat /\ obj.generation \in Nat
      /\ draft.observedGeneration \in Nat
  BY <1>3 DEF TrunkObject, ObjectSet, TrunkStatus
<1>10. Older(obj, cache[key]) /\ Older(cache[key], obj)
  BY <1>1, <1>3, <1>7 DEF WorkerInv, VersionsInv, Behind
<1>11. n.status.trunkID # NoId => Live(n.status.trunkID)
  <2>1. obj.status.trunkID = NoId /\ draft.trunkID # NoId => Live(draft.trunkID)
    BY <1>1, <1>3 DEF WorkerInv
  <2>2. obj.status.trunkID # NoId => Live(obj.status.trunkID)
    BY <1>1, <1>3, <1>7 DEF RecordedLive, WorkerInv
  <2> QED
    BY <1>5, <1>8, <2>1, <2>2
<1>12. CASE draft.observedGeneration = obj.status.observedGeneration
  <2>1. Wellformed(key, n)
    BY <1>5, <1>7, <1>8, <1>12 DEF Wellformed
  <2>2. Covers(cache[key], n)
    BY <1>3, <1>5, <1>7, <1>8, <1>9, <1>10, <1>12
       DEF Covers, Older, Wellformed, TrunkObject, ObjectSet
  <2>3. n.exists /\ ~n.deleting /\ UpToDate(n) => InSync(n)
    <3>1. SUFFICES ASSUME n.exists, ~n.deleting, UpToDate(n) PROVE InSync(n)
      OBVIOUS
    <3>2. UpToDate(obj) /\ InSync(obj)
      BY <1>1, <1>3, <1>5, <1>7, <1>12, <3>1 DEF ObservedTruth, UpToDate
    <3>3. obj.status.trunkID # NoId
      BY <1>8, <1>9, <3>2 DEF UpToDate, Wellformed
    <3> QED
      BY <1>5, <1>7, <1>8, <3>2, <3>3 DEF InSync, BuildTrunkInfo
  <2> QED
    BY <1>11, <2>1, <2>2, <2>3
<1>13. CASE /\ draft.observedGeneration = obj.generation
            /\ Serves(obj.spec.livekitRef, draft.trunkID)
            /\ remote[draft.trunkID].info = BuildTrunkInfo(obj)
  <2>1. draft.trunkID # NoId
    BY <1>13, MarkersAssumption DEF Serves
  <2>2. Wellformed(key, n)
    BY <1>5, <1>7, <1>8, <1>9, <1>13, <2>1 DEF Wellformed
  <2>3. Covers(cache[key], n)
    BY <1>3, <1>5, <1>7, <1>10, <1>13 DEF Covers, Older, TrunkObject, ObjectSet
  <2>4. InSync(n)
    BY <1>5, <1>7, <1>13 DEF InSync, BuildTrunkInfo
  <2> QED
    BY <1>11, <2>2, <2>3, <2>4
<1> QED
  BY <1>1, <1>3, <1>12, <1>13 DEF WorkerInv

\* A call after which the reconcile goes on, whatever it did to LiveKit.
LEMMA ContinueInv ==
  ASSUME IndInv, TypeOK', pc # "idle", NEW step, NEW status, NEW requeue,
         Continue(step, status, requeue), UNCHANGED <<api, watch, cache>>,
         \A u, id : Made(u, id) => Made(u, id)',
         RemoteInv', ObservedTruth', RecordedLive',
         status.trunkID # NoId => Made(key, status.trunkID)',
         obj.status.trunkID # NoId => status.trunkID = obj.status.trunkID,
         \/ step \in {"create", "status"} /\ obj.finalizer /\ ~obj.deleting
         \/ step = "removeFinalizer",
         step = "status" /\ obj.status.trunkID = NoId /\ status.trunkID # NoId =>
           Live(status.trunkID)',
         step = "create" => status.trunkID = NoId,
         step = "create" => status.observedGeneration = obj.status.observedGeneration,
         step = "status" =>
           \/ status.observedGeneration = obj.status.observedGeneration
           \/ /\ status.observedGeneration = obj.generation
              /\ Serves(obj.spec.livekitRef, status.trunkID)'
              /\ remote'[status.trunkID].info = BuildTrunkInfo(obj),
         step = "removeFinalizer" =>
           /\ obj.deleting
           /\ ~Live(obj.status.trunkID)' \/ obj.status.trunkID \in abandoned'
  PROVE  IndInv'
<1>1. TypeOK /\ VersionsInv /\ WorkerInv
  BY DEF IndInv
<1>2. VersionsInv'
  BY <1>1, SameVersions
<1>3. pc' = step /\ key' = key /\ obj' = obj /\ draft' = status
  BY DEF Continue
<1>4. WorkerInv'
  <2>1. SUFFICES ASSUME key # NoKey PROVE WorkerInv'
    BY <1>3 DEF WorkerInv
  <2>2. /\ obj.exists /\ Wellformed(key, obj)'
        /\ Behind(obj, api[key]) /\ Covers(obj, api[key]) /\ Older(obj, cache[key])
    BY <1>1, <1>3, <2>1, WellformedKept DEF WorkerInv
  <2>3. /\ obj'.exists /\ Wellformed(key, obj)'
        /\ Behind(obj, api[key])' /\ Covers(obj, api[key])' /\ Older(obj, cache[key])'
    BY <1>3, <2>2
  <2>4. (Serves(obj.spec.livekitRef, status.trunkID))'
          => (Serves(obj.spec.livekitRef, draft.trunkID))'
    BY <1>3 DEF Serves
  <2> QED
    BY <1>3, <2>3 DEF WorkerInv, Made, Serves, Live
<1> QED
  BY <1>2, <1>4 DEF IndInv

\* A trunk found under the name asked for was made for the same resource, if no two
\* resources may ask for that name.
LEMMA ListInv ==
  ASSUME OwnNamesOnly, IndInv, ListTrunks
  PROVE  IndInv'
<1>1. TypeOK /\ VersionsInv /\ WorkerInv /\ RemoteInv /\ ObservedTruth /\ RecordedLive
  BY DEF IndInv
<1>2. TypeOK'
  BY <1>1, CallTyped DEF Call
<1>3. /\ pc = "list" /\ key \in Trunks /\ key # NoKey /\ draft \in TrunkStatus
      /\ UNCHANGED <<api, watch, cache, remote>>
  BY <1>1, MarkersAssumption DEF ListTrunks, TypeOK, kubeVars
<1>4. /\ Wellformed(key, obj) /\ obj.finalizer /\ ~obj.deleting
      /\ draft.trunkID = NoId /\ obj.status.trunkID = NoId
      /\ draft.observedGeneration = obj.status.observedGeneration
  BY <1>1, <1>3 DEF WorkerInv
<1>5. \A u, id : Made(u, id) => Made(u, id)'
  BY <1>3, MadeUnchanged
<1>6. RemoteInv'
  <2>1. \A u \in Trunks : Older(cache[u], cache'[u])
    BY <1>1, <1>3 DEF Older, TypeOK, TrunkObject, ObjectSet
  <2>2. UNCHANGED <<key, obj>>
    BY DEF ListTrunks, Continue
  <2> QED
    BY <1>1, <1>2, <1>3, <2>1, <2>2, LaterCacheRemote
<1>7. ObservedTruth' /\ RecordedLive'
  BY <1>1, <1>3 DEF ObservedTruth, RecordedLive, InSync, Serves, Live
<1>8. \A id \in FindByName(obj.spec.livekitRef, obj.spec.name) : Made(key, id)
  <2>1. SUFFICES ASSUME NEW id \in Ids, Live(id), remote[id].server = obj.spec.livekitRef,
                        remote[id].info.name = obj.spec.name
                 PROVE  remote[id].from.trunk = key
    BY DEF FindByName, Made, Live, Unused
  <2>2. remote[id].from.trunk \in Trunks
    BY <1>1, <2>1 DEF TypeOK, Live, RemoteTrunk, Provenance, Unused, Deleted, Foreign
  <2> QED
    BY <1>1, <1>3, <1>4, <2>1, <2>2 DEF RemoteInv, Wellformed, OwnNamesOnly
<1>9. ASSUME NEW id \in FindByName(obj.spec.livekitRef, obj.spec.name),
             Continue("status", Adopted(draft, id, obj), TRUE)
      PROVE  IndInv'
  <2>1. PICK st : st = Adopted(draft, id, obj)
    OBVIOUS
  <2>2. st.trunkID = id /\ st.observedGeneration = obj.status.observedGeneration
    BY <1>3, <1>4, <2>1 DEF Adopted, TrunkStatus
  <2>3. UNCHANGED key
    BY <1>9 DEF Continue
  <2>4. Made(key, st.trunkID)' /\ Live(st.trunkID)'
    BY <1>3, <1>5, <1>8, <2>2, <2>3 DEF FindByName, Live
  <2> QED
    BY <1>2, <1>3, <1>4, <1>5, <1>6, <1>7, <1>9, <2>1, <2>2, <2>4, ContinueInv
<1>10. CASE Continue("create", draft, TRUE)
  BY <1>2, <1>3, <1>4, <1>5, <1>6, <1>7, <1>10, ContinueInv
<1>11. CASE Continue("status", Report(draft, "ListFailed"), TRUE)
  <2>1. PICK st : st = Report(draft, "ListFailed")
    OBVIOUS
  <2>2. st.trunkID = NoId /\ st.observedGeneration = obj.status.observedGeneration
    BY <1>3, <1>4, <2>1 DEF Report, TrunkStatus
  <2> QED
    BY <1>2, <1>3, <1>4, <1>5, <1>6, <1>7, <1>11, <2>1, <2>2, ContinueInv
<1> QED
  BY <1>9, <1>10, <1>11 DEF ListTrunks

\* The worker writes the trunk `id` of its resource, new or known, from its copy.
LEMMA PushRemote ==
  ASSUME IndInv, NEW id \in Ids, pc \in {"create", "update"},
         remote' = [remote EXCEPT ![id] = RemoteCopy(key, obj)],
         remote[id] = Unused \/ (Live(id) /\ remote[id].from.trunk = key),
         UNCHANGED <<api, cache, key, obj>>
  PROVE  /\ \A u, i : Made(u, i) => Made(u, i)'
         /\ RemoteInv' /\ ObservedTruth' /\ RecordedLive' /\ Made(key, id)'
         /\ Serves(obj.spec.livekitRef, id)' /\ remote'[id].info = BuildTrunkInfo(obj)
<1>1. TypeOK /\ VersionsInv /\ WorkerInv /\ RemoteInv /\ ObservedTruth /\ RecordedLive
  BY DEF IndInv
<1>2. key \in Trunks /\ key # NoKey /\ obj \in TrunkObject
  BY <1>1, MarkersAssumption DEF TypeOK
<1>3. /\ remote'[id] = RemoteCopy(key, obj)
      /\ \A i \in Ids \ {id} : remote'[i] = remote[i]
  BY <1>1 DEF TypeOK
<1>4. /\ Live(id)' /\ remote'[id] # Unused
      /\ remote'[id].server = obj.spec.livekitRef
      /\ remote'[id].info = BuildTrunkInfo(obj) /\ remote'[id].from.trunk = key
      /\ remote'[id].from.uid = obj.uid /\ remote'[id].from.generation = obj.generation
      /\ remote'[id].info.name = obj.spec.name
  BY <1>3 DEF RemoteCopy, BuildTrunkInfo, Unused, Live
<1>5. \A u, i : Made(u, i) => Made(u, i)'
  <2>1. SUFFICES ASSUME NEW u, NEW i, Made(u, i) PROVE Made(u, i)'
    OBVIOUS
  <2>2. CASE i = id
    <3>1. u = key
      BY <2>1, <2>2 DEF Made
    <3> QED
      BY <1>4, <2>2, <3>1 DEF Made
  <2>3. CASE i # id
    BY <1>3, <2>1, <2>3 DEF Made, Live
  <2> QED
    BY <2>2, <2>3
<1>6. Made(key, id)'
  BY <1>4 DEF Made
<1>7. Serves(obj.spec.livekitRef, id)'
  BY <1>4 DEF Serves, Live
<1>8. RemoteInv'
  <2>1. obj.spec \in SpecsOf[key] /\ Older(obj, cache[key])
    BY <1>1, <1>2 DEF WorkerInv, Wellformed
  <2>2. Older(remote'[id].from, cache[key]) /\ Older(remote'[id].from, obj)
    BY <1>2, <1>4, <2>1 DEF Older, TrunkObject, ObjectSet
  <2> QED
    BY <1>1, <1>3, <1>4, <2>1, <2>2 DEF RemoteInv, Live
<1>9. ObservedTruth'
  <2>1. SUFFICES ASSUME NEW t \in Trunks, api[t].exists, ~api[t].deleting, UpToDate(api[t])
                 PROVE  InSync(api[t])'
    BY DEF ObservedTruth
  <2>2. InSync(api[t])
    BY <1>1, <2>1 DEF ObservedTruth
  <2>3. CASE api[t].status.trunkID # id
    BY <1>3, <2>2, <2>3 DEF InSync, Serves, Live
  <2>4. CASE api[t].status.trunkID = id
    <3>1. t = key
      BY <1>1, <2>2, <2>4, MarkersAssumption
         DEF VersionsInv, Wellformed, Made, InSync, Serves, Live, Unused
    <3>2. /\ Covers(obj, api[key]) /\ Behind(obj, api[key]) /\ obj.exists
          /\ Wellformed(key, api[key])
      BY <1>1, <1>2 DEF WorkerInv, VersionsInv
    <3>3. api[key] \in TrunkObject
      BY <1>1, <1>2 DEF TypeOK
    <3>4. api[key].status.trunkID # NoId
      BY <2>4, <3>1, MarkersAssumption
    <3>5. obj.uid = api[key].uid /\ obj.generation = api[key].generation
      BY <1>2, <2>1, <3>1, <3>2, <3>3, <3>4
         DEF Covers, Behind, Older, UpToDate, TrunkObject, ObjectSet
    <3>6. api[key].spec = obj.spec
      BY <2>1, <3>1, <3>2, <3>5 DEF Behind
    <3> QED
      BY <1>4, <2>4, <3>1, <3>6 DEF InSync, Serves, Live, BuildTrunkInfo
  <2> QED
    BY <2>3, <2>4
<1>10. RecordedLive'
  BY <1>1, <1>3, <1>4 DEF RecordedLive, Live, VersionsInv, Wellformed, Made
<1> QED
  BY <1>4, <1>5, <1>6, <1>7, <1>8, <1>9, <1>10

\* Creating and updating: whether or not the answer arrives, only the resource's own
\* trunk is written, and a status that says "synced" is backed by it.
LEMMA PushInv ==
  ASSUME IndInv, CreateTrunk \/ UpdateTrunk
  PROVE  IndInv'
<1>1. TypeOK /\ VersionsInv /\ WorkerInv /\ RemoteInv /\ ObservedTruth /\ RecordedLive
  BY DEF IndInv
<1>2. TypeOK'
  BY <1>1, CallTyped DEF Call
<1>3. /\ pc \in {"create", "update"} /\ pc # "idle"
      /\ key \in Trunks /\ key # NoKey /\ draft \in TrunkStatus
      /\ UNCHANGED <<api, watch, cache, key, obj>>
  BY <1>1, MarkersAssumption DEF CreateTrunk, UpdateTrunk, TypeOK, kubeVars, Continue
<1>4. /\ Wellformed(key, obj) /\ obj.finalizer /\ ~obj.deleting
      /\ draft.trunkID # NoId => Made(key, draft.trunkID)
      /\ obj.status.trunkID # NoId => draft.trunkID = obj.status.trunkID
      /\ draft.observedGeneration = obj.status.observedGeneration
  BY <1>1, <1>3 DEF WorkerInv
\* Nothing was written, and the error is reported.
<1>5. ASSUME NEW reason, Continue("status", Report(draft, reason), TRUE),
             \A u, i : Made(u, i) => Made(u, i)', RemoteInv', ObservedTruth', RecordedLive'
      PROVE  IndInv'
  <2>1. PICK st : st = Report(draft, reason)
    OBVIOUS
  <2>2. /\ st.trunkID = draft.trunkID
        /\ st.observedGeneration = obj.status.observedGeneration
        /\ obj.status.trunkID = NoId => draft.trunkID = NoId
    BY <1>1, <1>3, <1>4, <2>1, MarkersAssumption DEF Report, TrunkStatus, WorkerInv, TypeOK
  <2>3. st.trunkID # NoId => Made(key, st.trunkID)'
    BY <1>3, <1>4, <1>5, <2>2
  <2> QED
    BY <1>2, <1>3, <1>4, <1>5, <2>1, <2>2, <2>3, ContinueInv
<1>6. ASSUME NEW reason, Continue("status", Report(draft, reason), TRUE), UNCHANGED remote
      PROVE  IndInv'
  <2>1. \A u, i : Made(u, i) => Made(u, i)'
    BY <1>6, MadeUnchanged
  <2>2. RemoteInv' /\ ObservedTruth' /\ RecordedLive'
    BY <1>1, <1>3, <1>6 DEF RemoteInv, ObservedTruth, RecordedLive, InSync, Serves, Live
  <2> QED
    BY <1>5, <1>6, <2>1, <2>2
\* The trunk was written.
<1>7. ASSUME NEW id \in Ids, remote' = [remote EXCEPT ![id] = RemoteCopy(key, obj)],
             \/ remote[id] = Unused /\ pc = "create"
             \/ Live(id) /\ id = obj.status.trunkID,
             \/ Continue("status", Synced(draft, id, obj), FALSE)
             \/ \E reason : Continue("status", Report(draft, reason), TRUE)
      PROVE  IndInv'
  <2>1. remote[id] = Unused \/ (Live(id) /\ remote[id].from.trunk = key)
    BY <1>4, <1>7, MarkersAssumption DEF Wellformed, Made
  <2>2. /\ \A u, i : Made(u, i) => Made(u, i)'
        /\ RemoteInv' /\ ObservedTruth' /\ RecordedLive' /\ Made(key, id)'
        /\ Serves(obj.spec.livekitRef, id)' /\ remote'[id].info = BuildTrunkInfo(obj)
    BY <1>3, <1>7, <2>1, PushRemote
  <2>3. CASE \E reason : Continue("status", Report(draft, reason), TRUE)
    BY <1>5, <2>2, <2>3
  <2>4. CASE Continue("status", Synced(draft, id, obj), FALSE)
    <3>1. PICK st : st = Synced(draft, id, obj)
      OBVIOUS
    <3>2. st.trunkID = id /\ st.observedGeneration = obj.generation
      BY <1>3, <3>1 DEF Synced, TrunkStatus
    <3>3. obj.status.trunkID # NoId => id = obj.status.trunkID
      BY <1>1, <1>3, <1>4, <1>7 DEF WorkerInv
    <3>4. Live(st.trunkID)'
      BY <2>2, <3>2 DEF Serves, Live
    <3> QED
      BY <1>2, <1>3, <1>4, <2>2, <2>4, <3>1, <3>2, <3>3, <3>4, ContinueInv
  <2> QED
    BY <1>7, <2>3, <2>4
<1>8. CASE CreateTrunk
  BY <1>6, <1>7, <1>8 DEF CreateTrunk
<1>9. CASE UpdateTrunk
  BY <1>6, <1>7, <1>9 DEF UpdateTrunk, Serves
<1> QED
  BY <1>8, <1>9

\* Deleting: the worker's copy is being deleted, hence so is the stored object.
LEMMA DeleteInv ==
  ASSUME IndInv, DeleteTrunk
  PROVE  IndInv'
<1> DEFINE id == obj.status.trunkID
<1>1. TypeOK /\ VersionsInv /\ WorkerInv /\ RemoteInv /\ ObservedTruth /\ RecordedLive
  BY DEF IndInv
<1>2. TypeOK'
  BY <1>1, CallTyped DEF Call
<1>3. /\ pc = "delete" /\ key \in Trunks /\ key # NoKey /\ id \in Ids
      /\ Continue("removeFinalizer", draft, FALSE)
      /\ UNCHANGED <<api, watch, cache, key, obj, draft>>
  BY <1>1, MarkersAssumption DEF DeleteTrunk, TypeOK, kubeVars, Continue
<1>4. /\ Wellformed(key, obj) /\ Covers(obj, api[key]) /\ Behind(obj, api[key])
      /\ obj.deleting /\ draft.trunkID = id /\ Made(key, id)
  BY <1>1, <1>3, MarkersAssumption DEF WorkerInv, Wellformed
<1>5. CASE remote' = [remote EXCEPT ![id] = Deleted] /\ Live(id)
  <2>1. remote'[id] = Deleted /\ \A i \in Ids \ {id} : remote'[i] = remote[i]
    BY <1>1, <1>3, <1>5 DEF TypeOK
  <2>2. Deleted # Unused /\ Deleted.state # "live"
    BY DEF Deleted, Unused
  <2>3. \A u, i : Made(u, i) => Made(u, i)'
    BY <2>1, <2>2 DEF Made, Live
  <2>4. RemoteInv'
    BY <1>1, <1>3, <2>1, <2>2 DEF RemoteInv, Live
  <2>5. \A t \in Trunks : api[t].exists /\ ~api[t].deleting => api[t].status.trunkID # id
    <3>1. SUFFICES ASSUME NEW t \in Trunks, api[t].exists, ~api[t].deleting,
                          api[t].status.trunkID = id
                   PROVE  FALSE
      OBVIOUS
    <3>2. t = key
      BY <1>1, <1>3, <1>4, <1>5, <3>1, MarkersAssumption DEF VersionsInv, Wellformed, Made
    <3> QED
      BY <1>3, <1>4, <3>1, <3>2, MarkersAssumption DEF Covers, Behind
  <2>7. ObservedTruth' /\ RecordedLive'
    BY <1>1, <1>3, <2>1, <2>5 DEF ObservedTruth, RecordedLive, InSync, Serves, Live,
                                  VersionsInv, Wellformed, Made
  <2> HIDE DEF id
  <2>6. Made(key, draft.trunkID)'
    BY <1>3, <1>4, <2>3
  <2> QED
    BY <1>2, <1>3, <1>4, <2>1, <2>2, <2>3, <2>4, <2>6, <2>7, ContinueInv DEF Live, id
<1>6. CASE UNCHANGED remote /\ id \in abandoned'
  <2>1. \A u, i : Made(u, i) => Made(u, i)'
    BY <1>6, MadeUnchanged
  <2>2. RemoteInv' /\ ObservedTruth' /\ RecordedLive'
    BY <1>1, <1>3, <1>6 DEF RemoteInv, ObservedTruth, RecordedLive, InSync, Serves, Live
  <2>3. Made(key, draft.trunkID)'
    BY <1>3, <1>4, <2>1
  <2> QED
    BY <1>2, <1>3, <1>4, <1>6, <2>1, <2>2, <2>3, ContinueInv
<1>7. HasTrunk(obj.spec.livekitRef, id) => Live(id)
  BY <1>1 DEF HasTrunk, TypeOK, Live, RemoteTrunk, Unused, Deleted, Foreign
<1> QED
  BY <1>5, <1>6, <1>7 DEF DeleteTrunk

LEMMA NextInv ==
  ASSUME OwnNamesOnly
  PROVE  IndInv /\ [Next]_vars => IndInv'
<1> SUFFICES ASSUME IndInv, [Next]_vars PROVE IndInv'
  OBVIOUS
<1>1. CASE Environment
  BY <1>1, EnvironmentInv
<1>2. ASSUME NEW t \in Trunks, WatchEvent(t) \/ Resync(t) PROVE IndInv'
  BY <1>2, InformerInv
<1>3. ASSUME NEW t \in Trunks, Reconcile(t) PROVE IndInv'
  BY <1>3, ReconcileInv
<1>4. CASE Call
  BY <1>4, FinalizerWritesInv, WriteStatusInv, ListInv, PushInv, DeleteInv DEF Call
<1>5. CASE UNCHANGED vars
  BY <1>5 DEF vars, kubeVars, workerVars, IndInv, TypeOK, VersionsInv, WorkerInv, RemoteInv,
              ObservedTruth, RecordedLive, Wellformed, Made, Live, Serves, InSync
<1> QED
  BY <1>1, <1>2, <1>3, <1>4, <1>5 DEF Next, Controller

LEMMA InvariantHolds ==
  ASSUME OwnNamesOnly
  PROVE  Spec => []IndInv
<1>1. Init => IndInv
  BY InitInv
<1>2. IndInv /\ [Next]_vars => IndInv'
  BY NextInv
<1> QED
  BY <1>1, <1>2, PTL DEF Spec

\* ObservedTruth for any number of resources, faults, edits and deletes: whatever is
\* stale, lost or refused, a status whose observedGeneration matches is true, so that
\* the early return of reconcileUpdate never leaves LiveKit behind.
THEOREM StatusTellsTheTruth ==
  ASSUME OwnNamesOnly
  PROVE  Spec => []ObservedTruth
<1>1. IndInv => ObservedTruth
  BY DEF IndInv
<1> QED
  BY <1>1, InvariantHolds, PTL

\* RecordedLive for any number of resources, faults and reuses of a name: the trunk a
\* resource has recorded is there until the resource is to be deleted.
THEOREM RecordedTrunkLives ==
  ASSUME OwnNamesOnly
  PROVE  Spec => []RecordedLive
<1>1. IndInv => RecordedLive
  BY DEF IndInv
<1> QED
  BY <1>1, InvariantHolds, PTL

LEMMA DuplicateStep ==
  ASSUME NamesStay, IndInv, DuplicateInv, [Next]_vars
  PROVE  DuplicateInv'
<1>1. TypeOK /\ WorkerInv /\ RemoteInv
  BY DEF IndInv
<1>2. \A id \in Ids : Live(id) => remote[id].from.trunk \in Trunks
  BY <1>1 DEF TypeOK, Live, RemoteTrunk, Provenance, Unused, Deleted, Foreign
<1>3. ASSUME UNCHANGED remote, pc' # "create" \/ UNCHANGED <<pc, key>> PROVE DuplicateInv'
  BY <1>3 DEF DuplicateInv, NoDuplicate, Live
<1>4. CASE Environment
  <2>1. CASE ForeignTrunk
    <3>1. \A id \in Ids : (Live(id)' <=> Live(id)) /\ (Live(id) => remote'[id] = remote[id])
      BY <1>1, <2>1, ForeignStep DEF Live, Unused
    <3>2. UNCHANGED <<pc, key>>
      BY <2>1 DEF ForeignTrunk, workerVars
    <3> QED
      BY <3>1, <3>2 DEF DuplicateInv, NoDuplicate
  <2> QED
    BY <1>3, <1>4, <2>1 DEF Environment, Users, UserCreate, UserEdit, UserDelete, SecretLost,
                            SecretRestored, Restart, workerVars
<1>5. ASSUME NEW t \in Trunks, WatchEvent(t) \/ Resync(t) \/ Reconcile(t)
      PROVE  DuplicateInv'
  <2>1. CASE WatchEvent(t) \/ Resync(t) \/ SkipReconcile(t) \/ SkipUpdate(t)
    BY <1>3, <2>1 DEF WatchEvent, Resync, SkipReconcile, SkipUpdate, TakeResolved,
                      TakeWanted, workerVars
  <2>2. CASE StartDelete(t)
    BY <1>3, <2>2 DEF StartDelete, Proceed, DeleteStep
  <2>3. CASE \/ StartAddFinalizer(t) \/ LiveKitSecretError(t) \/ AuthSecretError(t)
             \/ StartCreate(t) \/ StartUpdate(t)
    BY <1>3, <2>3 DEF StartAddFinalizer, LiveKitSecretError, AuthSecretError, StartCreate,
                      StartUpdate, TakeResolved, TakeWanted, Proceed
  <2> QED
    BY <1>5, <2>1, <2>2, <2>3 DEF Reconcile
<1>6. CASE AddFinalizer \/ RemoveFinalizer \/ WriteStatus
  BY <1>3, <1>6 DEF AddFinalizer, RemoveFinalizer, WriteStatus, Write, Finish
\* If nothing is found, the resource has no trunk: it would have the name asked for.
<1>7. CASE ListTrunks
  <2>1. CASE Continue("create", draft, TRUE)
             /\ FindByName(obj.spec.livekitRef, obj.spec.name) = {}
    <3>1. key \in Trunks /\ key # NoKey
      BY <1>1, <1>7, MarkersAssumption DEF ListTrunks, TypeOK
    <3>2. obj.spec \in SpecsOf[key]
      BY <1>1, <3>1 DEF WorkerInv, Wellformed
    <3>3. \A id \in Ids : Live(id) => remote[id].from.trunk # key
      BY <1>1, <2>1, <3>1, <3>2 DEF RemoteInv, FindByName, NamesStay
    <3> QED
      BY <1>7, <2>1, <3>3 DEF ListTrunks, Continue, DuplicateInv, NoDuplicate, Live
  <2> QED
    BY <1>3, <1>7, <2>1 DEF ListTrunks, Continue
<1>8. CASE CreateTrunk
  <2>1. ASSUME NEW id \in Ids, remote[id] = Unused,
               remote' = [remote EXCEPT ![id] = RemoteCopy(key, obj)]
        PROVE  NoDuplicate'
    <3>1. remote'[id].from.trunk = key /\ \A i \in Ids \ {id} : remote'[i] = remote[i]
      BY <1>1, <2>1 DEF TypeOK, RemoteCopy
    <3> QED
      BY <1>8, <3>1 DEF CreateTrunk, DuplicateInv, NoDuplicate, Live
  <2> QED
    BY <1>3, <1>8, <2>1 DEF CreateTrunk, Continue, DuplicateInv
<1>9. CASE UpdateTrunk
  <2>1. ASSUME remote' = [remote EXCEPT ![obj.status.trunkID] = RemoteCopy(key, obj)],
               Live(obj.status.trunkID)
        PROVE  NoDuplicate'
    <3> DEFINE id == obj.status.trunkID
    <3>1. key \in Trunks /\ key # NoKey /\ id \in Ids
      BY <1>1, <1>9, MarkersAssumption DEF UpdateTrunk, TypeOK
    <3>2. remote[id].from.trunk = key
      BY <1>1, <2>1, <3>1, MarkersAssumption DEF WorkerInv, Wellformed, Made
    <3>3. remote'[id].from.trunk = key /\ \A i \in Ids \ {id} : remote'[i] = remote[i]
      BY <1>1, <2>1, <3>1 DEF TypeOK, RemoteCopy
    <3> QED
      BY <2>1, <3>1, <3>2, <3>3 DEF DuplicateInv, NoDuplicate, Live
  <2> QED
    BY <1>3, <1>9, <2>1 DEF UpdateTrunk, Continue, Serves, DuplicateInv
<1>10. CASE DeleteTrunk
  <2>1. ASSUME remote' = [remote EXCEPT ![obj.status.trunkID] = Deleted]
        PROVE  NoDuplicate'
    <3>1. obj.status.trunkID \in Ids
      BY <1>1, <1>10 DEF DeleteTrunk, TypeOK
    <3>2. \A i \in Ids : remote'[i] = remote[i] \/ remote'[i] = Deleted
      BY <1>1, <2>1, <3>1 DEF TypeOK
    <3> QED
      BY <3>2 DEF DuplicateInv, NoDuplicate, Live, Deleted
  <2> QED
    BY <1>3, <1>10, <2>1 DEF DeleteTrunk, Continue, DuplicateInv
<1>11. CASE UNCHANGED vars
  BY <1>3, <1>11 DEF vars, workerVars
<1> QED
  BY <1>4, <1>5, <1>6, <1>7, <1>8, <1>9, <1>10, <1>11 DEF Next, Controller, Call

LEMMA DuplicateHolds ==
  ASSUME OwnNamesOnly, NamesStay
  PROVE  Spec => []DuplicateInv
<1>1. Init => DuplicateInv
  BY DEF Init, DuplicateInv, NoDuplicate, Live, Unused
<1>2. IndInv /\ DuplicateInv /\ [Next]_vars => DuplicateInv'
  BY DuplicateStep
<1> QED
  BY <1>1, <1>2, InvariantHolds, PTL DEF Spec

\* For any number of faults and re-entries of reconcileCreate, a resource whose name and
\* server are not edited never has two trunks: the lookup by name finds the first.
THEOREM OneTrunkEach ==
  ASSUME OwnNamesOnly, NamesStay
  PROVE  Spec => []NoDuplicate
<1>1. DuplicateInv => NoDuplicate
  BY DEF DuplicateInv
<1> QED
  BY <1>1, DuplicateHolds, PTL

\* Accounted for any number of resources and faults: the trunk of a resource that stays is
\* the one it has recorded, since it has no second one, or one its next lookup will find,
\* since the trunk has the name and the server every spec of the resource has.
THEOREM TrunksAreAccounted ==
  ASSUME OwnNamesOnly, NamesStay
  PROVE  Spec => []Accounted
<1>1. ASSUME IndInv, NoDuplicate PROVE Accounted
  <2> SUFFICES ASSUME NEW id \in Ids, Live(id), OwnerStays(id)
               PROVE  Recorded(id) \/ Adoptable(id)
    BY DEF Accounted
  <2> DEFINE t == remote[id].from.trunk
  <2>1. t \in Trunks
    BY <1>1 DEF IndInv, TypeOK, Live, RemoteTrunk, Provenance, Unused, Deleted, Foreign
  <2>2. api[t].exists /\ ~api[t].deleting /\ Wellformed(t, api[t])
    BY <1>1, <2>1 DEF OwnerStays, IndInv, VersionsInv
  <2>3. CASE api[t].status.trunkID = NoId
    <3>1. PICK s \in SpecsOf[t] :
            remote[id].server = s.livekitRef /\ remote[id].info.name = s.name
      BY <1>1 DEF IndInv, RemoteInv
    <3>2. s.livekitRef = api[t].spec.livekitRef /\ s.name = api[t].spec.name
      BY <2>1, <2>2, <3>1 DEF NamesStay, Wellformed
    <3> QED
      BY <2>1, <2>2, <2>3, <3>1, <3>2 DEF Adoptable
  <2>4. CASE api[t].status.trunkID # NoId
    <3> DEFINE j == api[t].status.trunkID
    <3>1. Live(j) /\ Made(t, j)
      BY <1>1, <2>1, <2>2, <2>4 DEF IndInv, RecordedLive, Wellformed
    <3>2. j = id
      BY <1>1, <3>1 DEF NoDuplicate, Made
    <3> QED
      BY <2>1, <2>2, <3>2 DEF Recorded
  <2> QED
    BY <2>3, <2>4
<1> QED
  BY <1>1, InvariantHolds, OneTrunkEach, PTL

----------------------------------------------------------------------------
\* The action properties.

\* What a step may do to a stored object: a user's request, or a write of the worker
\* whose copy is the stored version.
UserRequest(t) ==
  \/ ~api[t].exists
  \/ \E s \in TrunkSpec : api'[t] = SpecEdit(api[t], s)
  \/ api'[t] = DeleteRequest(api[t])

WorkerWrite(t) ==
  /\ t = key /\ obj = api[t]
  /\ \/ api'[t] = FinalizerAdded(api[t])
     \/ pc = "removeFinalizer" /\ api'[t] = FinalizerDropped(api[t])
     \/ pc = "status" /\ api'[t] = StatusWrite(api[t], draft)

LEMMA ApiChanges ==
  ASSUME IndInv, Next, NEW t \in Trunks
  PROVE  api'[t] = api[t] \/ UserRequest(t) \/ WorkerWrite(t)
<1>1. TypeOK /\ WorkerInv
  BY DEF IndInv
<1>2. ASSUME NEW u \in Trunks, NEW n, Store(u, n) PROVE api'[t] = IF u = t THEN n ELSE api[t]
  BY <1>1, <1>2 DEF Store, TypeOK
<1>3. CASE Environment
  <2>1. ASSUME NEW u \in Trunks, UserCreate(u) \/ UserEdit(u) \/ UserDelete(u)
        PROVE  api'[t] = api[t] \/ UserRequest(t)
    BY <1>2, <2>1, SpecsAssumption DEF UserCreate, UserEdit, UserDelete, UserRequest
  <2> QED
    BY <1>3, <2>1 DEF Environment, Users, SecretLost, SecretRestored, ForeignTrunk, Restart, kubeVars
<1>4. ASSUME NEW u \in Trunks, WatchEvent(u) \/ Resync(u) \/ Reconcile(u)
      PROVE  api'[t] = api[t]
  BY <1>4 DEF WatchEvent, Resync, Reconcile, SkipReconcile, StartDelete, StartAddFinalizer,
              LiveKitSecretError, AuthSecretError, StartCreate, StartUpdate, SkipUpdate,
              TakeResolved, TakeWanted, kubeVars
<1>5. CASE AddFinalizer \/ RemoveFinalizer \/ WriteStatus
  <2>1. key \in Trunks /\ key # NoKey
    BY <1>1, <1>5, MarkersAssumption DEF TypeOK, AddFinalizer, RemoveFinalizer, WriteStatus
  <2>2. Accepts(api[key], obj) => obj = api[key]
    BY <1>1, <2>1 DEF WorkerInv, Behind, Accepts
  <2>3. ASSUME NEW n, NEW requeue, Write(n, requeue)
        PROVE  api'[t] = api[t] \/ (t = key /\ obj = api[t] /\ api'[t] = n)
    BY <1>2, <2>1, <2>2, <2>3 DEF Write, kubeVars
  <2> QED
    BY <1>5, <2>3 DEF AddFinalizer, RemoveFinalizer, WriteStatus, WorkerWrite
<1>6. CASE ListTrunks \/ CreateTrunk \/ UpdateTrunk \/ DeleteTrunk
  BY <1>6 DEF ListTrunks, CreateTrunk, UpdateTrunk, DeleteTrunk, kubeVars
<1> QED
  BY <1>3, <1>4, <1>5, <1>6 DEF Next, Controller, Call

LEMMA RequestFields ==
  ASSUME NEW o \in TrunkObject, NEW s
  PROVE  /\ SpecEdit(o, s).exists /\ SpecEdit(o, s).status = o.status
         /\ Removal(o).status = o.status
         /\ DeleteRequest(o).status = o.status
         /\ o.finalizer => DeleteRequest(o).exists
<1>1. \A d : NextGeneration(o, s, d).exists /\ NextGeneration(o, s, d).status = o.status
  BY DEF NextGeneration
<1>2. NextGeneration(o, o.spec, TRUE).exists
      /\ NextGeneration(o, o.spec, TRUE).status = o.status
  BY DEF NextGeneration
<1>3. Removal(o).status = o.status
  BY DEF Removal
<1> QED
  BY <1>1, <1>2, <1>3 DEF SpecEdit, DeleteRequest

\* For any number of resources and faults, a status write never replaces or loses a
\* recorded trunk id, whatever copy it was computed from.
THEOREM RecordedIdStays ==
  ASSUME OwnNamesOnly
  PROVE  Spec => TrunkIdKept
<1> DEFINE Kept ==
      \A t \in Trunks :
        api[t].exists /\ api[t].status.trunkID # NoId /\ api'[t].uid = api[t].uid
          => api'[t].status.trunkID = api[t].status.trunkID
<1>1. ASSUME IndInv, [Next]_vars PROVE [Kept]_vars
  <2>1. SUFFICES ASSUME Next, NEW t \in Trunks, api[t].exists, api[t].status.trunkID # NoId,
                        api'[t].uid = api[t].uid
                 PROVE  api'[t].status.trunkID = api[t].status.trunkID
    BY <1>1
  <2>2. api[t] \in TrunkObject /\ obj \in TrunkObject /\ draft \in TrunkStatus
    BY <1>1 DEF IndInv, TypeOK
  <2>3. CASE UserRequest(t)
    BY <2>1, <2>2, <2>3, RequestFields DEF UserRequest
  <2>4. CASE WorkerWrite(t)
    <3>1. api'[t] = FinalizerAdded(api[t]) => api'[t].status = api[t].status
      BY <2>2, FinalizerAddedFields
    <3>2. CASE pc = "removeFinalizer" /\ api'[t] = FinalizerDropped(api[t])
      <4>1. api[t].deleting
        BY <1>1, <2>4, <3>2, MarkersAssumption DEF WorkerWrite, IndInv, WorkerInv
      <4> QED
        BY <2>2, <3>2, <4>1, FinalizerDroppedFields, RequestFields
    <3>3. CASE pc = "status" /\ api'[t] = StatusWrite(api[t], draft)
      <4>1. api'[t].status = draft
        BY <2>2, <3>3, StatusWriteFields
      <4>2. draft.trunkID = obj.status.trunkID
        BY <1>1, <2>1, <2>4, MarkersAssumption DEF WorkerWrite, IndInv, WorkerInv
      <4> QED
        BY <2>4, <4>1, <4>2 DEF WorkerWrite
    <3> QED
      BY <2>4, <3>1, <3>2, <3>3 DEF WorkerWrite
  <2> QED
    BY <1>1, <2>1, <2>3, <2>4, ApiChanges
<1> HIDE DEF Kept
<1>2. Spec => [][Kept]_vars
  BY <1>1, InvariantHolds, PTL DEF Spec
<1> QED
  BY <1>2 DEF Kept, TrunkIdKept

\* For any number of resources and faults, no stale copy drops the finalizer of a
\* resource whose recorded trunk is neither gone nor known to be abandoned.
THEOREM TrunkReleasedFirst ==
  ASSUME OwnNamesOnly
  PROVE  Spec => RecordedTrunkReleased
<1> DEFINE Released ==
      \A t \in Trunks :
        LET id == api[t].status.trunkID IN
          api[t].exists /\ ~api'[t].exists /\ id # NoId => ~Live(id) \/ id \in abandoned
<1>1. ASSUME IndInv, [Next]_vars PROVE [Released]_vars
  <2>1. SUFFICES ASSUME Next, NEW t \in Trunks, api[t].exists, ~api'[t].exists,
                        api[t].status.trunkID # NoId
                 PROVE  ~Live(api[t].status.trunkID) \/ api[t].status.trunkID \in abandoned
    BY <1>1
  <2>2. api[t] \in TrunkObject /\ draft \in TrunkStatus
    BY <1>1 DEF IndInv, TypeOK
  <2>3. api[t].finalizer
    BY <1>1, <2>1 DEF IndInv, VersionsInv, Wellformed
  <2>4. ~UserRequest(t)
    BY <2>1, <2>2, <2>3, RequestFields DEF UserRequest
  <2>5. WorkerWrite(t)
    BY <1>1, <2>1, <2>4, ApiChanges
  <2>6. pc = "removeFinalizer"
    BY <2>1, <2>2, <2>5, FinalizerAddedFields, StatusWriteFields DEF WorkerWrite
  <2> QED
    BY <1>1, <2>1, <2>5, <2>6, MarkersAssumption DEF WorkerWrite, IndInv, WorkerInv
<1> HIDE DEF Released
<1>2. Spec => [][Released]_vars
  BY <1>1, InvariantHolds, PTL DEF Spec
<1> QED
  BY <1>2 DEF Released, RecordedTrunkReleased

\* For any number of resources and faults, a LiveKit trunk is never overwritten from a
\* version of its resource older than the one it shows.
THEOREM OldSpecsStayAway ==
  ASSUME OwnNamesOnly
  PROVE  Spec => PushesAdvance
<1> DEFINE Advance ==
      \A id \in Ids :
        Live(id) /\ Live(id)' =>
          LET old == remote[id].from
              new == remote'[id].from
          IN old.trunk = new.trunk =>
               old.uid < new.uid \/ (old.uid = new.uid /\ old.generation <= new.generation)
<1>1. ASSUME IndInv, [Next]_vars PROVE [Advance]_vars
  <2>1. SUFFICES ASSUME Next, NEW id \in Ids, Live(id), Live(id)',
                        remote[id].from.trunk = remote'[id].from.trunk
                 PROVE  Older(remote[id].from, remote'[id].from)
    BY <1>1 DEF Older
  <2>2. remote[id].from \in Provenance
    BY <1>1, <2>1 DEF IndInv, TypeOK, Live, RemoteTrunk, Unused, Deleted, Foreign
  <2>3. CASE remote'[id] = remote[id]
    BY <2>2, <2>3 DEF Older, Provenance
  <2>4. CASE CreateTrunk
    <3>1. ASSUME NEW i \in Ids, remote[i] = Unused,
                 remote' = [remote EXCEPT ![i] = RemoteCopy(key, obj)]
          PROVE  remote'[id] = remote[id]
      <4>1. i # id
        BY <2>1, <3>1 DEF Live, Unused
      <4> QED
        BY <1>1, <3>1, <4>1 DEF IndInv, TypeOK
    <3> QED
      BY <2>3, <2>4, <3>1 DEF CreateTrunk
  <2>5. CASE UpdateTrunk
    <3>1. CASE remote'[id] = RemoteCopy(key, obj)
      <4>1. remote'[id].from.trunk = key /\ remote'[id].from.uid = obj.uid
            /\ remote'[id].from.generation = obj.generation
        BY <3>1 DEF RemoteCopy
      <4>2. Older(remote[id].from, obj)
        BY <1>1, <2>1, <4>1 DEF IndInv, RemoteInv
      <4> QED
        BY <4>1, <4>2 DEF Older
    <3> QED
      BY <1>1, <2>3, <2>5, <3>1 DEF UpdateTrunk, IndInv, TypeOK
  <2>6. CASE DeleteTrunk
    BY <1>1, <2>1, <2>3, <2>6 DEF DeleteTrunk, IndInv, TypeOK, Live, Deleted
  <2>7. CASE UNCHANGED remote
    BY <2>3, <2>7
  <2>8. CASE ForeignTrunk
    <3>1. remote[id] # Unused
      BY <2>1 DEF Live, Unused
    <3> QED
      BY <1>1, <2>3, <2>8, <3>1, ForeignStep DEF IndInv
  <2>9. ~(CreateTrunk \/ UpdateTrunk \/ DeleteTrunk \/ ForeignTrunk) => UNCHANGED remote
    BY <2>1 DEF Next, Controller, Environment, Users, UserCreate, UserEdit, UserDelete, SecretLost,
                SecretRestored, Restart, WatchEvent, Resync, Reconcile, SkipReconcile,
                StartDelete, StartAddFinalizer, LiveKitSecretError, AuthSecretError,
                StartCreate, StartUpdate, SkipUpdate, TakeResolved, TakeWanted, Call,
                AddFinalizer, RemoveFinalizer, WriteStatus, ListTrunks
  <2> QED
    BY <2>4, <2>5, <2>6, <2>7, <2>8, <2>9
<1> HIDE DEF Advance
<1>2. Spec => [][Advance]_vars
  BY <1>1, InvariantHolds, PTL DEF Spec
<1> QED
  BY <1>2 DEF Advance, PushesAdvance

----------------------------------------------------------------------------
\* The controller implements TrunkLifecycle.

\* A step that shows neither in the status of a resource nor in LiveKit.
LEMMA Unseen ==
  ASSUME UNCHANGED <<phases, holds, states, abandoned>>
  PROVE  [Lifecycle!Next]_(Lifecycle!vars)
  BY DEF Lifecycle!vars

LEMMA SameApi ==
  ASSUME UNCHANGED api
  PROVE  UNCHANGED <<phases, holds>>
  BY DEF phases, holds

LEMMA SameRemote ==
  ASSUME UNCHANGED remote
  PROVE  UNCHANGED states
  BY DEF states

\* A step that stores n as the object t.
LEMMA OneObject ==
  ASSUME TypeOK, NEW t \in Trunks, NEW n, Store(t, n)
  PROVE  /\ phases' = [phases EXCEPT ![t] = Phase(n)]
         /\ holds' = [holds EXCEPT ![t] = Held(n)]
         /\ phases[t] = Phase(api[t]) /\ holds[t] = Held(api[t])
         /\ phases \in [Trunks -> {"absent", "pending", "synced", "deleting"}]
         /\ holds \in [Trunks -> Ids \cup {NoId}]
<1>1. api' = [api EXCEPT ![t] = n] /\ api \in [Trunks -> TrunkObject]
  BY DEF Store, TypeOK
<1>2. \A u \in Trunks : api[u].status.trunkID \in Ids \cup {NoId}
  BY <1>1 DEF TrunkObject, ObjectSet, TrunkStatus
<1>3. /\ phases' = [phases EXCEPT ![t] = Phase(n)]
      /\ phases[t] = Phase(api[t])
      /\ phases \in [Trunks -> {"absent", "pending", "synced", "deleting"}]
  BY <1>1 DEF phases, Phase
<1>4. /\ holds' = [holds EXCEPT ![t] = Held(n)]
      /\ holds[t] = Held(api[t])
      /\ holds \in [Trunks -> Ids \cup {NoId}]
  BY <1>1, <1>2 DEF holds, Held
<1> QED
  BY <1>3, <1>4

\* What a resource sees of an id.
Seen(r) == IF r = Foreign THEN "deleted" ELSE r.state

\* A step that changes what one id stands for.
LEMMA OneId ==
  ASSUME TypeOK, NEW id \in Ids, NEW r, remote' = [remote EXCEPT ![id] = r]
  PROVE  states[id] = Seen(remote[id]) /\ states' = [states EXCEPT ![id] = Seen(r)]
<1>1. \A i \in Ids : remote'[i] = IF i = id THEN r ELSE remote[i]
  BY DEF TypeOK
<1>2. states' = [i \in Ids |-> IF i = id THEN Seen(r) ELSE Seen(remote[i])]
  BY <1>1 DEF states, Seen
<1>3. states = [i \in Ids |-> Seen(remote[i])]
  BY DEF states, Seen
<1> QED
  BY <1>2, <1>3

\* The ids seen to be live are those of the controller's own trunks.
LEMMA LiveSeen ==
  ASSUME TypeOK, NEW id \in Ids
  PROVE  states[id] = "live" <=> Live(id)
<1>1. states[id] = Seen(remote[id]) /\ remote[id] \in RemoteTrunk \cup {Unused, Deleted, Foreign}
  BY DEF states, Seen, TypeOK
<1> QED
  BY <1>1 DEF Seen, Live, RemoteTrunk, Unused, Deleted, Foreign

LEMMA InitLifecycle == Init => Lifecycle!Init
<1> SUFFICES ASSUME Init PROVE Lifecycle!Init
  OBVIOUS
<1>1. \A t \in Trunks : ~api[t].exists
  BY DEF Init, NeverCreated
<1>2. phases = [t \in Trunks |-> "absent"] /\ holds = [t \in Trunks |-> NoId]
  BY <1>1 DEF phases, holds, Phase, Held
<1>3. states = [id \in Ids |-> "unused"] /\ abandoned = {}
  BY DEF Init, states, Unused, Foreign
<1> QED
  BY <1>2, <1>3 DEF Lifecycle!Init

LEMMA UsersLifecycle ==
  ASSUME IndInv, NEW t \in Trunks, UserCreate(t) \/ UserEdit(t) \/ UserDelete(t)
  PROVE  [Lifecycle!Next]_(Lifecycle!vars)
<1>1. TypeOK /\ VersionsInv
  BY DEF IndInv
<1>2. api[t] \in TrunkObject /\ Wellformed(t, api[t])
  BY <1>1 DEF TypeOK, VersionsInv
<1>3. UNCHANGED <<states, abandoned>>
  BY SameRemote DEF UserCreate, UserEdit, UserDelete
<1>4. CASE UserCreate(t)
  <2>1. PICK s \in SpecsOf[t] : Store(t, Creation(api[t], s, NoStatus))
    BY <1>4 DEF UserCreate
  <2>2. Phase(Creation(api[t], s, NoStatus)) = "pending"
        /\ Held(Creation(api[t], s, NoStatus)) = NoId
    BY DEF Creation, Phase, Held, UpToDate, NoStatus
  <2>3. Phase(api[t]) = "absent" /\ Held(api[t]) = NoId
    BY <1>4 DEF UserCreate, Phase, Held
  <2>4. Lifecycle!Request(t)
    BY <1>1, <1>3, <2>1, <2>2, <2>3, OneObject DEF Lifecycle!Request, Lifecycle!Moves
  <2> QED
    BY <2>4 DEF Lifecycle!Next
<1>5. CASE UserEdit(t)
  <2>1. PICK s \in SpecsOf[t] : Store(t, SpecEdit(api[t], s))
    BY <1>5 DEF UserEdit
  <2> DEFINE n == SpecEdit(api[t], s)
  <2>2. /\ api[t].exists /\ n.exists /\ n.deleting = api[t].deleting
        /\ n.status = api[t].status /\ ~UpToDate(n)
    BY <1>2, <1>5 DEF UserEdit, SpecEdit, NextGeneration, UpToDate, Wellformed,
                      TrunkObject, ObjectSet, TrunkStatus
  <2>3. Held(n) = Held(api[t])
        /\ \/ Phase(n) = Phase(api[t])
           \/ Phase(api[t]) = "synced" /\ Phase(n) = "pending"
    BY <2>2 DEF Held, Phase
  <2> HIDE DEF n
  <2>4. CASE Phase(n) = Phase(api[t])
    <3>1. UNCHANGED <<phases, holds>>
      BY <1>1, <2>1, <2>3, <2>4, OneObject DEF n
    <3> QED
      BY <1>3, <3>1, Unseen
  <2>5. CASE Phase(api[t]) = "synced" /\ Phase(n) = "pending"
    <3>1. Lifecycle!Edit(t)
      BY <1>1, <1>3, <2>1, <2>3, <2>5, OneObject DEF n, Lifecycle!Edit, Lifecycle!Moves
    <3> QED
      BY <3>1 DEF Lifecycle!Next
  <2> QED
    BY <2>3, <2>4, <2>5
<1>6. CASE UserDelete(t)
  <2> DEFINE n == DeleteRequest(api[t])
  <2>1. Store(t, n) /\ api[t].exists /\ ~api[t].deleting
    BY <1>6 DEF UserDelete
  <2>2. Phase(api[t]) \in {"pending", "synced"}
    BY <2>1 DEF Phase
  <2>3. CASE api[t].finalizer
    <3>1. n.exists /\ n.deleting /\ n.status = api[t].status
      BY <2>3 DEF DeleteRequest, NextGeneration
    <3>2. Phase(n) = "deleting" /\ Held(n) = Held(api[t])
      BY <2>1, <3>1 DEF Phase, Held
    <3> HIDE DEF n
    <3>3. Lifecycle!Doom(t)
      BY <1>1, <1>3, <2>1, <2>2, <3>2, OneObject
         DEF Lifecycle!Doom, Lifecycle!Moves, Lifecycle!Wanted
    <3> QED
      BY <3>3 DEF Lifecycle!Next
  <2>4. CASE ~api[t].finalizer
    <3>1. ~n.exists
      BY <1>2, <2>4 DEF DeleteRequest, Removal, TrunkObject, ObjectSet
    <3>2. Phase(n) = "absent" /\ Held(n) = NoId /\ Held(api[t]) = NoId
      BY <1>2, <2>1, <2>4, <3>1 DEF Phase, Held, Wellformed
    <3> HIDE DEF n
    <3>3. Lifecycle!Drop(t)
      BY <1>1, <1>3, <2>1, <2>2, <3>2, OneObject
         DEF Lifecycle!Drop, Lifecycle!Moves, Lifecycle!Wanted
    <3> QED
      BY <3>3 DEF Lifecycle!Next
  <2> QED
    BY <2>3, <2>4
<1> QED
  BY <1>4, <1>5, <1>6

\* No resource that is to stay has recorded the id of a copy that is being deleted.
LEMMA DoomedId ==
  ASSUME IndInv, NEW t \in Trunks, NEW c, Wellformed(t, c), Covers(c, api[t]),
         Behind(c, api[t]), c.deleting, c.status.trunkID # NoId
  PROVE  \A u \in Trunks : Lifecycle!Wanted(u) => holds[u] # c.status.trunkID
<1> SUFFICES ASSUME NEW u \in Trunks, phases[u] \in {"pending", "synced"},
                    holds[u] = c.status.trunkID
             PROVE  FALSE
  BY DEF Lifecycle!Wanted
<1>1. api[u].exists /\ ~api[u].deleting /\ api[u].status.trunkID = c.status.trunkID
  BY DEF phases, holds, Phase, Held
<1>2. Live(c.status.trunkID) /\ Made(u, c.status.trunkID) /\ Made(t, c.status.trunkID)
  BY <1>1 DEF IndInv, RecordedLive, VersionsInv, Wellformed
<1>3. u = t
  BY <1>2 DEF Made
<1> QED
  BY <1>1, <1>3 DEF Covers, Behind

\* What becomes of the id is the same for every way its deletion may go.
LEMMA ReleaseLifecycle ==
  ASSUME TypeOK, NEW id \in Ids, \A t \in Trunks : Lifecycle!Wanted(t) => holds[t] # id,
         UNCHANGED api,
         remote' \in {remote, [remote EXCEPT ![id] = Deleted]},
         abandoned' \in {abandoned, abandoned \cup {id}}
  PROVE  [Lifecycle!Next]_(Lifecycle!vars)
<1>1. UNCHANGED <<phases, holds>>
  BY SameApi
<1>2. states' \in {states, [states EXCEPT ![id] = "deleted"]}
  <2>1. CASE remote' = remote
    BY <2>1, SameRemote
  <2>2. CASE remote' = [remote EXCEPT ![id] = Deleted]
    <3>1. states' = [states EXCEPT ![id] = Seen(Deleted)]
      BY <2>2, OneId
    <3> QED
      BY <3>1 DEF Seen, Deleted, Foreign
  <2> QED
    BY <2>1, <2>2
<1>3. Lifecycle!Release(id)
  BY <1>1, <1>2 DEF Lifecycle!Release
<1> QED
  BY <1>3 DEF Lifecycle!Next

LEMMA ReconcileLifecycle ==
  ASSUME IndInv, NEW t \in Trunks, Reconcile(t)
  PROVE  [Lifecycle!Next]_(Lifecycle!vars)
<1>1. TypeOK /\ VersionsInv
  BY DEF IndInv
<1>2. UNCHANGED <<api, remote>>
  BY DEF Reconcile, SkipReconcile, StartDelete, StartAddFinalizer, LiveKitSecretError,
         AuthSecretError, StartCreate, StartUpdate, SkipUpdate, TakeResolved, TakeWanted,
         kubeVars
<1>3. CASE UNCHANGED abandoned
  BY <1>2, <1>3, SameApi, SameRemote, Unseen
<1>4. CASE StartDelete(t) /\ abandoned' # abandoned
  <2> DEFINE id == cache[t].status.trunkID
  <2>1. id # NoId /\ abandoned' = abandoned \cup {id} /\ cache[t].deleting
    BY <1>4 DEF StartDelete
  <2>2. Wellformed(t, cache[t]) /\ Covers(cache[t], api[t]) /\ Behind(cache[t], api[t])
    BY <1>1 DEF VersionsInv
  <2>3. id \in Ids /\ \A u \in Trunks : Lifecycle!Wanted(u) => holds[u] # id
    BY <2>1, <2>2, DoomedId DEF Wellformed, Made
  <2> HIDE DEF id
  <2> QED
    BY <1>1, <1>2, <2>1, <2>3, ReleaseLifecycle
<1>5. StartDelete(t) \/ UNCHANGED abandoned
  BY DEF Reconcile, SkipReconcile, StartAddFinalizer, LiveKitSecretError, AuthSecretError,
         StartCreate, StartUpdate, SkipUpdate, TakeResolved, TakeWanted
<1> QED
  BY <1>3, <1>4, <1>5

\* A write of the worker either shows nothing, or stores n over the copy it has read.
LEMMA WriteSeen ==
  ASSUME IndInv, NEW n, NEW requeue, Write(n, requeue), pc # "idle"
  PROVE  UNCHANGED api \/ (Store(key, n) /\ obj = api[key] /\ api[key].exists)
<1>1. key \in Trunks /\ key # NoKey
  BY MarkersAssumption DEF IndInv, TypeOK
<1>2. Accepts(api[key], obj) => obj = api[key]
  BY <1>1 DEF IndInv, WorkerInv, Behind, Accepts
<1> QED
  BY <1>2 DEF Write, kubeVars, Accepts

LEMMA FinalizerLifecycle ==
  ASSUME IndInv, AddFinalizer \/ RemoveFinalizer
  PROVE  [Lifecycle!Next]_(Lifecycle!vars)
<1> DEFINE o == api[key]
<1>1. TypeOK /\ WorkerInv
  BY DEF IndInv
<1>2. pc # "idle" /\ key \in Trunks /\ key # NoKey /\ o \in TrunkObject
  BY <1>1, MarkersAssumption DEF AddFinalizer, RemoveFinalizer, TypeOK
<1>3. UNCHANGED <<states, abandoned>>
  BY SameRemote DEF AddFinalizer, RemoveFinalizer
<1>4. CASE UNCHANGED api
  BY <1>3, <1>4, SameApi, Unseen
<1>5. CASE AddFinalizer /\ ~UNCHANGED api
  <2> DEFINE n == FinalizerAdded(o)
  <2>1. Store(key, n)
    BY <1>2, <1>5, WriteSeen DEF AddFinalizer
  <2>2. /\ n.exists = o.exists /\ n.deleting = o.deleting /\ n.status = o.status
        /\ n.generation = o.generation
    BY <1>2, FinalizerAddedFields
  <2> HIDE DEF n
  <2>3. Phase(n) = Phase(o) /\ Held(n) = Held(o)
    BY <2>2 DEF Phase, Held, UpToDate
  <2>4. UNCHANGED <<phases, holds>>
    BY <1>1, <1>2, <2>1, <2>3, OneObject
  <2> QED
    BY <1>3, <2>4, Unseen
<1>6. CASE RemoveFinalizer /\ ~UNCHANGED api
  <2> DEFINE n == FinalizerDropped(o)
  <2>1. Store(key, n) /\ obj = o /\ o.exists
    BY <1>2, <1>6, WriteSeen DEF RemoveFinalizer
  <2>2. /\ o.deleting
        /\ o.status.trunkID # NoId =>
             ~Live(o.status.trunkID) \/ o.status.trunkID \in abandoned
    BY <1>1, <1>2, <1>6, <2>1 DEF RemoveFinalizer, WorkerInv
  <2>3. n = Removal(o)
    BY <1>2, <2>2, FinalizerDroppedFields
  <2>4. ~n.exists
    BY <2>3 DEF Removal
  <2> HIDE DEF n
  <2>5. Phase(n) = "absent" /\ Held(n) = NoId
        /\ Phase(o) = "deleting" /\ Held(o) = o.status.trunkID
    BY <2>1, <2>2, <2>4 DEF Phase, Held
  <2>6. o.status.trunkID \in Ids \cup {NoId}
    BY <1>2 DEF TrunkObject, ObjectSet, TrunkStatus
  <2>7. holds[key] # NoId => states[holds[key]] # "live" \/ holds[key] \in abandoned
    BY <1>1, <1>2, <2>1, <2>2, <2>5, <2>6, OneObject, LiveSeen
  <2>8. Lifecycle!Retire(key)
    BY <1>1, <1>2, <1>3, <2>1, <2>5, <2>7, OneObject
       DEF Lifecycle!Retire, Lifecycle!Moves
  <2> QED
    BY <1>2, <2>8 DEF Lifecycle!Next
<1> QED
  BY <1>4, <1>5, <1>6

LEMMA WriteStatusLifecycle ==
  ASSUME IndInv, WriteStatus
  PROVE  [Lifecycle!Next]_(Lifecycle!vars)
<1> DEFINE o == api[key]
           n == StatusWrite(o, draft)
           id == draft.trunkID
<1>1. TypeOK /\ WorkerInv /\ VersionsInv /\ RecordedLive
  BY DEF IndInv
<1>2. /\ pc = "status" /\ pc # "idle" /\ key \in Trunks /\ key # NoKey
      /\ o \in TrunkObject /\ draft \in TrunkStatus
  BY <1>1, MarkersAssumption DEF WriteStatus, TypeOK
<1>3. UNCHANGED <<states, abandoned>>
  BY SameRemote DEF WriteStatus
<1>4. CASE UNCHANGED api
  BY <1>3, <1>4, SameApi, Unseen
<1>5. CASE ~UNCHANGED api
  <2>1. Store(key, n) /\ obj = o /\ o.exists
    BY <1>2, <1>5, WriteSeen DEF WriteStatus
  <2>2. /\ n.exists = o.exists /\ n.deleting = o.deleting /\ n.status = draft
        /\ n.generation = o.generation
    BY <1>2, StatusWriteFields
  <2>3. /\ ~o.deleting /\ Wellformed(key, o)
        /\ id # NoId => Made(key, id)
        /\ o.status.trunkID # NoId => id = o.status.trunkID
        /\ o.status.trunkID = NoId /\ id # NoId => Live(id)
        /\ \/ draft.observedGeneration = o.status.observedGeneration
           \/ draft.observedGeneration = o.generation /\ id \in Ids
    BY <1>1, <1>2, <2>1 DEF WorkerInv, Serves
  <2> HIDE DEF n
  <2>4. /\ Held(o) = o.status.trunkID /\ Held(n) = id
        /\ Phase(o) \in {"pending", "synced"}
        /\ Phase(n) = "synced" <=> UpToDate(n)
        /\ Phase(n) \in {"pending", "synced"}
        /\ Phase(o) = "synced" => o.status.trunkID # NoId /\ Phase(n) = "synced"
    BY <1>2, <2>1, <2>2, <2>3
       DEF Held, Phase, UpToDate, Wellformed, TrunkObject, ObjectSet, TrunkStatus
  <2>5. CASE Held(n) = Held(o) /\ Phase(n) = Phase(o)
    <3>1. UNCHANGED <<phases, holds>>
      BY <1>1, <1>2, <2>1, <2>5, OneObject
    <3> QED
      BY <1>3, <3>1, Unseen
  <2>6. CASE id # NoId /\ Phase(o) = "pending"
    <3>1. Live(id) /\ Made(key, id) /\ id \in Ids
      BY <1>1, <1>2, <2>1, <2>3, <2>6 DEF RecordedLive, Made
    <3>2. \A u \in Trunks \ {key} : holds[u] # id
      BY <1>1, <1>2, <2>6, <3>1 DEF holds, Held, VersionsInv, Wellformed, Made
    <3>3. states[id] = "live"
      BY <1>1, <3>1, LiveSeen
    <3>4. holds[key] \in {NoId, id} /\ phases[key] = "pending"
          /\ holds' = [holds EXCEPT ![key] = id]
          /\ phases' = [phases EXCEPT ![key] = Phase(n)]
          /\ phases \in [Trunks -> {"absent", "pending", "synced", "deleting"}]
      BY <1>1, <1>2, <2>1, <2>3, <2>4, <2>6, OneObject
    <3>5. Lifecycle!Takes(key, id)
      BY <1>3, <3>2, <3>3, <3>4 DEF Lifecycle!Takes
    <3>6. Lifecycle!Record(key, id) \/ Lifecycle!Sync(key, id)
      BY <2>4, <3>4, <3>5 DEF Lifecycle!Record, Lifecycle!Sync, Lifecycle!Moves
    <3> QED
      BY <1>2, <3>1, <3>6 DEF Lifecycle!Next
  <2>7. id = NoId => Held(n) = Held(o) /\ Phase(n) = Phase(o)
    BY <1>2, <2>2, <2>3, <2>4, MarkersAssumption DEF UpToDate, Phase
  <2> QED
    BY <2>3, <2>4, <2>5, <2>6, <2>7
<1> QED
  BY <1>4, <1>5

LEMMA LiveKitLifecycle ==
  ASSUME IndInv, ListTrunks \/ CreateTrunk \/ UpdateTrunk \/ DeleteTrunk
  PROVE  [Lifecycle!Next]_(Lifecycle!vars)
<1>1. TypeOK /\ WorkerInv
  BY DEF IndInv
<1>2. UNCHANGED <<phases, holds>>
  BY SameApi DEF ListTrunks, CreateTrunk, UpdateTrunk, DeleteTrunk, kubeVars
<1>3. ASSUME UNCHANGED <<remote, abandoned>> PROVE [Lifecycle!Next]_(Lifecycle!vars)
  BY <1>2, <1>3, SameRemote, Unseen
<1>4. Seen(RemoteCopy(key, obj)) = "live"
  BY DEF Seen, RemoteCopy, Foreign
<1>5. CASE ListTrunks
  BY <1>3, <1>5 DEF ListTrunks
<1>6. CASE CreateTrunk
  <2>1. ASSUME NEW id \in Ids, remote[id] = Unused, UNCHANGED abandoned,
               remote' = [remote EXCEPT ![id] = RemoteCopy(key, obj)]
        PROVE  [Lifecycle!Next]_(Lifecycle!vars)
    <3>1. states[id] = "unused" /\ states' = [states EXCEPT ![id] = "live"]
      <4>1. states[id] = Seen(remote[id])
            /\ states' = [states EXCEPT ![id] = Seen(RemoteCopy(key, obj))]
        BY <1>1, <2>1, OneId
      <4>2. Seen(Unused) = "unused"
        BY DEF Seen, Unused, Foreign
      <4> QED
        BY <1>4, <2>1, <4>1, <4>2
    <3>2. Lifecycle!Make(id)
      BY <1>2, <2>1, <3>1 DEF Lifecycle!Make
    <3> QED
      BY <3>2 DEF Lifecycle!Next
  <2> QED
    BY <1>3, <1>6, <2>1 DEF CreateTrunk
<1>7. CASE UpdateTrunk
  <2>1. ASSUME NEW id \in Ids, Live(id), UNCHANGED abandoned,
               remote' = [remote EXCEPT ![id] = RemoteCopy(key, obj)]
        PROVE  [Lifecycle!Next]_(Lifecycle!vars)
    <3>1. UNCHANGED states
      <4>1. states' = [states EXCEPT ![id] = "live"] /\ states[id] = "live"
        BY <1>1, <1>4, <2>1, OneId, LiveSeen
      <4> QED
        BY <4>1 DEF states
    <3> QED
      BY <1>2, <2>1, <3>1, Unseen
  <2> QED
    BY <1>3, <1>7, <2>1 DEF UpdateTrunk, Serves
<1>8. CASE DeleteTrunk
  <2> DEFINE id == obj.status.trunkID
  <2>1. /\ key \in Trunks /\ key # NoKey /\ id \in Ids /\ id # NoId /\ obj.deleting
        /\ Wellformed(key, obj) /\ Covers(obj, api[key]) /\ Behind(obj, api[key])
    BY <1>1, <1>8, MarkersAssumption DEF DeleteTrunk, TypeOK, WorkerInv
  <2>2. \A u \in Trunks : Lifecycle!Wanted(u) => holds[u] # id
    BY <2>1, DoomedId
  <2>3. /\ UNCHANGED api
        /\ remote' \in {remote, [remote EXCEPT ![id] = Deleted]}
        /\ abandoned' \in {abandoned, abandoned \cup {id}}
    BY <1>8 DEF DeleteTrunk, kubeVars
  <2> HIDE DEF id
  <2> QED
    BY <1>1, <2>1, <2>2, <2>3, ReleaseLifecycle
<1> QED
  BY <1>5, <1>6, <1>7, <1>8

\* An unused id that goes to the other kind is released: no resource has recorded it.
LEMMA ForeignLifecycle ==
  ASSUME IndInv, ForeignTrunk
  PROVE  [Lifecycle!Next]_(Lifecycle!vars)
<1>1. TypeOK /\ VersionsInv
  BY DEF IndInv
<1>2. PICK id \in Ids : remote[id] = Unused /\ remote' = [remote EXCEPT ![id] = Foreign]
  BY DEF ForeignTrunk
<1>3. \A t \in Trunks : Lifecycle!Wanted(t) => holds[t] # id
  <2> SUFFICES ASSUME NEW t \in Trunks, Lifecycle!Wanted(t), holds[t] = id PROVE FALSE
    OBVIOUS
  <2>1. api[t].status.trunkID = id /\ id # NoId
    BY MarkersAssumption DEF Lifecycle!Wanted, phases, holds, Phase, Held
  <2> QED
    BY <1>1, <1>2, <2>1 DEF VersionsInv, Wellformed, Made
<1>4. states' = [states EXCEPT ![id] = "deleted"]
  BY <1>1, <1>2, OneId DEF Seen
<1>5. UNCHANGED <<phases, holds, abandoned>>
  BY SameApi DEF ForeignTrunk, kubeVars
<1>6. Lifecycle!Release(id)
  BY <1>3, <1>4, <1>5 DEF Lifecycle!Release
<1> QED
  BY <1>6 DEF Lifecycle!Next

LEMMA StepLifecycle ==
  ASSUME IndInv, [Next]_vars
  PROVE  [Lifecycle!Next]_(Lifecycle!vars)
<1>1. CASE Environment
  <2>1. CASE SecretLost \/ SecretRestored \/ Restart
    BY <2>1, SameApi, SameRemote, Unseen DEF SecretLost, SecretRestored, Restart, kubeVars
  <2> QED
    BY <1>1, <2>1, UsersLifecycle, ForeignLifecycle DEF Environment, Users
<1>2. ASSUME NEW t \in Trunks, WatchEvent(t) \/ Resync(t)
      PROVE  [Lifecycle!Next]_(Lifecycle!vars)
  BY <1>2, SameApi, SameRemote, Unseen DEF WatchEvent, Resync, kubeVars
<1>3. ASSUME NEW t \in Trunks, Reconcile(t) PROVE [Lifecycle!Next]_(Lifecycle!vars)
  BY <1>3, ReconcileLifecycle
<1>4. CASE Call
  BY <1>4, FinalizerLifecycle, WriteStatusLifecycle, LiveKitLifecycle DEF Call
<1>5. CASE UNCHANGED vars
  BY <1>5, SameApi, SameRemote, Unseen DEF vars, kubeVars
<1> QED
  BY <1>1, <1>2, <1>3, <1>4, <1>5 DEF Next, Controller

\* The controller, with its caches, faults and retries, implements TrunkLifecycle.
THEOREM ImplementsLifecycle ==
  ASSUME OwnNamesOnly
  PROVE  Spec => KeepsLifecycle
<1>1. Init => Lifecycle!Init
  BY InitLifecycle
<1>2. IndInv /\ [Next]_vars => [Lifecycle!Next]_(Lifecycle!vars)
  BY StepLifecycle
<1> QED
  BY <1>1, <1>2, InvariantHolds, PTL DEF Spec, KeepsLifecycle, Lifecycle!Spec

\* Hence no two resources ever record the same trunk.
THEOREM NoSharedTrunk ==
  ASSUME OwnNamesOnly
  PROVE  Spec => []ExclusiveIds
<1>1. Spec => Lifecycle!Spec
  BY ImplementsLifecycle DEF KeepsLifecycle
<1>2. Lifecycle!Inv => ExclusiveIds
  BY DEF Lifecycle!Inv, ExclusiveIds
<1> QED
  BY <1>1, <1>2, Lifecycle!OwnTrunks, PTL

----------------------------------------------------------------------------
\* The controller among those of other kinds.

\* The worker's and the informer's copies only ever have ids some status had before, or
\* that LiveKit has just told the worker of.
OwnObjects ==
  \A t \in Trunks : /\ Own(api[t].status) /\ Own(cache[t].status)
                   /\ \A w \in watch[t] : Own(w.status)

\* An object is stored, while LiveKit stays as it is.
LEMMA StoreOwn ==
  ASSUME TypeOK, OwnIds, NEW t \in Trunks, NEW o, Own(o.status), Store(t, o),
         UNCHANGED <<cache, remote>>
  PROVE  OwnObjects'
<1>1. \A u \in Trunks : api'[u] = IF u = t THEN o ELSE api[u]
  BY DEF Store, TypeOK
<1>2. \A u \in Trunks : watch'[u] \subseteq watch[u] \cup {o}
  BY DEF Store, TypeOK
<1> QED
  BY <1>1, <1>2 DEF OwnIds, OwnObjects, Own, OwnId

LEMMA BlanksOwn == Own(NoStatus) /\ Own(NoObject.status)
BY DEF Own, OwnId, NoStatus, NoObject, NeverCreated

LEMMA EnvironmentOwn == TypeOK /\ OwnIds /\ Environment => OwnIds'
<1> SUFFICES ASSUME TypeOK, OwnIds, Environment PROVE OwnIds'
  OBVIOUS
<1>1. \A t \in Trunks : Own(api[t].status)
  BY DEF OwnIds
<1>2. ASSUME NEW t \in Trunks, NEW o, Own(o.status), Store(t, o),
             UNCHANGED <<cache, remote, workerVars, abandoned>>
      PROVE  OwnIds'
  <2>1. OwnObjects'
    BY <1>2, StoreOwn
  <2> QED
    BY <1>2, <2>1 DEF OwnIds, OwnObjects, Own, OwnId, workerVars
<1>3. ASSUME NEW t \in Trunks, UserCreate(t) PROVE OwnIds'
  <2>1. PICK o : Store(t, o) /\ o.status = NoStatus
    BY <1>3 DEF UserCreate, Creation
  <2> QED
    BY <1>2, <1>3, <2>1, BlanksOwn DEF UserCreate
<1>4. ASSUME NEW t \in Trunks, UserEdit(t) PROVE OwnIds'
  <2>1. PICK o : Store(t, o) /\ o.status = api[t].status
    BY <1>4 DEF UserEdit, SpecEdit, NextGeneration
  <2> QED
    BY <1>1, <1>2, <1>4, <2>1 DEF UserEdit
<1>5. ASSUME NEW t \in Trunks, UserDelete(t) PROVE OwnIds'
  <2>1. DeleteRequest(api[t]).status = api[t].status
    BY DEF DeleteRequest, NextGeneration, Removal
  <2> QED
    BY <1>1, <1>2, <1>5, <2>1 DEF UserDelete
<1>6. CASE SecretLost \/ SecretRestored
  BY <1>6 DEF SecretLost, SecretRestored, OwnIds, Own, OwnId, kubeVars, workerVars
<1>7. CASE Restart
  <2>1. /\ api' = api /\ cache' = api /\ watch' = [t \in Trunks |-> {}]
        /\ obj' = NoObject /\ draft' = NoStatus
        /\ remote' = remote /\ abandoned' = abandoned
    BY <1>7 DEF Restart
  <2> QED
    BY <1>1, <2>1, BlanksOwn DEF OwnIds, Own, OwnId
<1>8. CASE ForeignTrunk
  <2>1. PICK id \in Ids : remote[id] = Unused /\ remote' = [remote EXCEPT ![id] = Foreign]
    BY <1>8 DEF ForeignTrunk
  <2>2. ASSUME NEW i, remote[i].state \in {"live", "deleted"}
        PROVE  remote'[i].state \in {"live", "deleted"}
    BY <2>1, <2>2 DEF TypeOK, Unused
  <2> QED
    BY <1>8, <2>2 DEF ForeignTrunk, OwnIds, Own, OwnId, kubeVars, workerVars
<1> QED
  BY <1>3, <1>4, <1>5, <1>6, <1>7, <1>8 DEF Environment, Users

\* Reading the cache, and going on from what was read.
LEMMA ReadOwn ==
  ASSUME TypeOK, OwnIds,
         \E t \in Trunks : WatchEvent(t) \/ Resync(t) \/ Reconcile(t)
  PROVE  OwnIds'
<1>1. PICK t \in Trunks : WatchEvent(t) \/ Resync(t) \/ Reconcile(t)
  OBVIOUS
<1>2. CASE WatchEvent(t) \/ Resync(t)
  BY <1>2 DEF WatchEvent, Resync, OwnIds, Own, OwnId, kubeVars, workerVars, TypeOK
<1>3. ASSUME NEW step, NEW status, NEW requeue, Proceed(t, step, status, requeue),
             status.trunkID = cache[t].status.trunkID, UNCHANGED <<kubeVars, cache, remote>>,
             abandoned' \subseteq abandoned \cup ({cache[t].status.trunkID} \ {NoId})
      PROVE  OwnIds'
  BY <1>3 DEF Proceed, OwnIds, Own, OwnId, kubeVars
<1>4. cache[t].status \in TrunkStatus
  BY DEF TypeOK, TrunkObject, ObjectSet
<1>5. CASE SkipReconcile(t) \/ SkipUpdate(t)
  BY <1>5 DEF SkipReconcile, SkipUpdate, TakeResolved, TakeWanted, OwnIds, Own, OwnId, kubeVars,
              workerVars
<1>6. CASE StartDelete(t)
  BY <1>3, <1>6 DEF StartDelete
<1>7. CASE StartAddFinalizer(t)
  BY <1>3, <1>7 DEF StartAddFinalizer
<1>8. CASE LiveKitSecretError(t)
  BY <1>3, <1>4, <1>8 DEF LiveKitSecretError, TakeWanted, Report, TrunkStatus
<1>9. CASE AuthSecretError(t)
  BY <1>3, <1>4, <1>9 DEF AuthSecretError, TakeWanted, TrunkStatus
<1>10. AuthResolved(cache[t]).trunkID = cache[t].status.trunkID
  BY <1>4 DEF AuthResolved, TrunkStatus
<1>11. CASE StartCreate(t) \/ StartUpdate(t)
  BY <1>3, <1>10, <1>11 DEF StartCreate, StartUpdate, TakeResolved, TakeWanted
<1> QED
  BY <1>1, <1>2, <1>5, <1>6, <1>7, <1>8, <1>9, <1>11 DEF Reconcile

\* What a call leaves of LiveKit: ids of the controller's kind stay so.
LEMMA CallOwn ==
  ASSUME TypeOK, OwnIds, Call
  PROVE  OwnIds'
<1>1. pc # "idle" /\ key \in Trunks
  BY DEF Call, AddFinalizer, RemoveFinalizer, WriteStatus, ListTrunks, CreateTrunk,
         UpdateTrunk, DeleteTrunk, TypeOK
<1>2. /\ Own(api[key].status) /\ Own(obj.status) /\ Own(draft)
      /\ obj \in TrunkObject /\ draft \in TrunkStatus /\ api[key] \in TrunkObject
  BY <1>1 DEF OwnIds, TypeOK
<1>3. ASSUME NEW o, Own(o.status), NEW requeue, Write(o, requeue),
             UNCHANGED <<cache, remote, abandoned>>
      PROVE  OwnIds'
  <2>1. obj' = NoObject /\ draft' = NoStatus
    BY <1>3 DEF Write, Finish
  <2>2. OwnObjects'
    <3>1. CASE Store(key, o)
      BY <1>1, <1>3, <3>1, StoreOwn
    <3>2. CASE UNCHANGED kubeVars
      BY <1>3, <3>2 DEF OwnIds, OwnObjects, Own, OwnId, kubeVars
    <3> QED
      BY <1>3, <3>1, <3>2 DEF Write
  <2> QED
    BY <1>3, <2>1, <2>2, BlanksOwn DEF OwnIds, OwnObjects, Own, OwnId
<1>4. CASE AddFinalizer
  <2>1. FinalizerAdded(api[key]).status = api[key].status
    BY <1>2 DEF FinalizerAdded, Stored, TrunkObject, ObjectSet
  <2> QED
    BY <1>2, <1>3, <1>4, <2>1 DEF AddFinalizer
<1>5. CASE RemoveFinalizer
  <2>1. FinalizerDropped(api[key]).status = api[key].status
    BY <1>2 DEF FinalizerDropped, Removal, Stored, TrunkObject, ObjectSet
  <2> QED
    BY <1>2, <1>3, <1>5, <2>1 DEF RemoveFinalizer
<1>6. CASE WriteStatus
  <2>1. StatusWrite(api[key], draft).status = draft
    BY <1>2 DEF StatusWrite, Stored, TrunkObject, ObjectSet
  <2> QED
    BY <1>2, <1>3, <1>6, <2>1 DEF WriteStatus
<1>7. ASSUME NEW step, NEW status, NEW requeue, Continue(step, status, requeue),
             Own(status)', UNCHANGED <<kubeVars, cache>>,
             abandoned' \subseteq abandoned \cup ({obj.status.trunkID} \ {NoId}),
             \A i : i \in Ids /\ remote[i].state \in {"live", "deleted"}
                      => remote'[i].state \in {"live", "deleted"}
      PROVE  OwnIds'
  <2>1. obj' = obj /\ draft' = status /\ api' = api /\ watch' = watch /\ cache' = cache
    BY <1>7 DEF Continue, kubeVars
  <2>2. ASSUME NEW o \in TrunkObject, Own(o.status) PROVE Own(o.status)'
    BY <1>7, <2>2 DEF Own, OwnId, TrunkObject, ObjectSet, TrunkStatus
  <2>4. \A id \in abandoned' : OwnId(id)'
    <3>1. ASSUME NEW id \in abandoned \cup ({obj.status.trunkID} \ {NoId})
          PROVE  id \in Ids /\ OwnId(id)
      BY <1>2, <3>1 DEF OwnIds, Own, TypeOK, TrunkObject, ObjectSet, TrunkStatus
    <3> QED
      BY <1>7, <3>1 DEF OwnId
  <2>3. /\ obj \in TrunkObject
        /\ \A t \in Trunks : /\ api[t] \in TrunkObject /\ cache[t] \in TrunkObject
                             /\ watch[t] \subseteq TrunkObject
    BY DEF TypeOK
  <2> QED
    BY <1>7, <2>1, <2>2, <2>3, <2>4 DEF OwnIds
<1>8. \A id, o, reason :
        /\ Adopted(draft, id, o).trunkID = id /\ Synced(draft, id, o).trunkID = id
        /\ Report(draft, reason).trunkID = draft.trunkID
  BY <1>2 DEF Adopted, Synced, Report, TrunkStatus
<1>9. ASSUME NEW step, NEW status, NEW requeue, Continue(step, status, requeue),
             UNCHANGED <<kubeVars, cache, remote, abandoned>>,
             \/ status.trunkID = draft.trunkID
             \/ status.trunkID \in Ids /\ Live(status.trunkID)
      PROVE  OwnIds'
  <2>1. Own(status)'
    BY <1>2, <1>9 DEF Own, OwnId, Live
  <2> QED
    BY <1>7, <1>9, <2>1
<1>10. ASSUME NEW id \in Ids, NEW status, NEW requeue, Continue("status", status, requeue),
              status.trunkID \in {draft.trunkID, id}, UNCHANGED <<kubeVars, cache, abandoned>>,
              remote' = [remote EXCEPT ![id] = RemoteCopy(key, obj)]
       PROVE  OwnIds'
  <2>1. /\ remote'[id].state = "live"
        /\ \A i : i \in Ids /\ remote[i].state \in {"live", "deleted"}
                  => remote'[i].state \in {"live", "deleted"}
    BY <1>10 DEF TypeOK, RemoteCopy
  <2>2. Own(status)'
    BY <1>2, <1>10, <2>1 DEF Own, OwnId, TrunkStatus
  <2> QED
    BY <1>7, <1>10, <2>1, <2>2
<1>11. CASE ListTrunks
  <2>1. \A id \in FindByName(obj.spec.livekitRef, obj.spec.name) : id \in Ids /\ Live(id)
    BY DEF FindByName
  <2> QED
    BY <1>8, <1>9, <1>11, <2>1 DEF ListTrunks
<1>12. CASE CreateTrunk
  BY <1>8, <1>9, <1>10, <1>12 DEF CreateTrunk
<1>13. CASE UpdateTrunk
  <2>1. obj.status.trunkID \in Ids
    BY <1>13 DEF UpdateTrunk, TypeOK
  <2> QED
    BY <1>8, <1>9, <1>10, <1>13, <2>1 DEF UpdateTrunk
<1>14. CASE DeleteTrunk
  <2>1. Continue("removeFinalizer", draft, FALSE) /\ UNCHANGED <<kubeVars, cache>>
    BY <1>14 DEF DeleteTrunk
  <2>2. \A i : i \in Ids /\ remote[i].state \in {"live", "deleted"}
               => remote'[i].state \in {"live", "deleted"}
    BY <1>14 DEF DeleteTrunk, TypeOK, Deleted
  <2>3. abandoned' \subseteq abandoned \cup ({obj.status.trunkID} \ {NoId})
    BY <1>14, MarkersAssumption DEF DeleteTrunk, TypeOK
  <2>4. PICK status : status = draft
    OBVIOUS
  <2>5. Own(status)'
    BY <1>2, <2>2, <2>4 DEF Own, OwnId, TrunkStatus
  <2> QED
    BY <1>7, <2>1, <2>2, <2>3, <2>4, <2>5
<1> QED
  BY <1>4, <1>5, <1>6, <1>11, <1>12, <1>13, <1>14 DEF Call

LEMMA InitOwn == Init => OwnIds
  BY BlanksOwn DEF Init, OwnIds, Own, OwnId, NeverCreated, NoStatus

\* No step gives a resource the id of a trunk of another kind.
LEMMA NextOwn == TypeOK /\ OwnIds /\ [Next]_vars => OwnIds'
<1> SUFFICES ASSUME TypeOK, OwnIds, [Next]_vars PROVE OwnIds'
  OBVIOUS
<1>1. CASE UNCHANGED vars
  BY <1>1 DEF vars, kubeVars, workerVars, OwnIds, Own, OwnId
<1> QED
  BY <1>1, EnvironmentOwn, ReadOwn, CallOwn DEF Next, Controller
=============================================================================
