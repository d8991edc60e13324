-------------------------- MODULE OwnedChild_proofs --------------------------
(***************************************************************************)
(* Why a parent whose status shows an id owns the child of its name: an    *)
(* invariant on what copies of parents and children may be like, which     *)
(* every step the SIPNumber and the AgentRoute controllers have in common  *)
(* preserves.                                                              *)
(*                                                                         *)
(* The argument rests on the order in which incarnations of a parent come: *)
(* only the worker gives a child an owner, always the parent it has read,  *)
(* and what it reads is never older than what it has read before.  So the  *)
(* owners of a child only grow, up to the parent last read; and an id is   *)
(* shown only by the parent that was last read when it was written.        *)
(***************************************************************************)
EXTENDS OwnedChild, TLAPS

\* The shape of a stored object.
IsObject(o) == o \in ObjectSet({o.spec}, {o.status})

IsStatus(status) == "id" \in DOMAIN status

IsParent(o) == IsObject(o) /\ (o.exists => IsStatus(o.status))

IsChild(o) == IsObject(o) /\ (o.exists => o.spec.owner \in Nat)

ShapeInv ==
  /\ DOMAIN api = Names /\ DOMAIN cache = Names
  /\ DOMAIN child = Names /\ DOMAIN known = Names
  /\ \A n \in Names : /\ IsParent(api[n]) /\ IsParent(cache[n])
                      /\ IsChild(child[n]) /\ IsChild(known[n])

WorkerInv ==
  /\ pc \in {"idle", "create", "update", "status"}
  /\ IF pc = "idle" THEN key = NoKey ELSE key \in Names /\ IsParent(obj) /\ obj.exists
  /\ pc # "idle" => IsStatus(draft)
  /\ pc \in {"create", "update"} => want.owner = obj.uid

\* o is a copy of what was stored as s at some time.
Before(o, s) == o.rv <= s.rv /\ o.uid <= s.uid /\ (o.rv = s.rv => o.uid = s.uid)

VersionsInv ==
  /\ \A n \in Names : Before(cache[n], api[n])
  /\ pc # "idle" => Before(obj, api[key]) /\ obj.uid <= cache[key].uid

\* The incarnation of the parent n the worker has last read, or is going to read.
Limit(n) == IF key = n THEN obj.uid ELSE cache[n].uid

\* Owners only grow, up to that incarnation.
OwnersInv ==
  \A n \in Names :
    /\ child[n].exists => child[n].spec.owner <= Limit(n)
    /\ known[n].exists => known[n].spec.owner <= Limit(n)
    /\ child[n].exists /\ known[n].exists => known[n].spec.owner <= child[n].spec.owner

\* No child of name n has an owner older than incarnation u.
NotOlder(n, u) == child[n].exists => u <= child[n].spec.owner

\* A copy of the parent n that shows an id is one the worker may have read, and its child
\* has no older owner.
ClaimOK(n, o) == o.exists /\ o.status.id # NoId => o.uid <= Limit(n) /\ NotOlder(n, o.uid)

ClaimsInv ==
  /\ \A n \in Names : ClaimOK(n, api[n]) /\ ClaimOK(n, cache[n])
  /\ pc # "idle" => ClaimOK(key, obj)
  /\ pc = "status" /\ draft.id # NoId => NotOlder(key, obj.uid)

Inv == ShapeInv /\ WorkerInv /\ VersionsInv /\ OwnersInv /\ ClaimsInv

\* The invariant says what the property asks.
LEMMA InvOwns == Inv => OwnsWhatItShows
<1> SUFFICES ASSUME Inv, NEW n \in Names,
                    api[n].exists, api[n].status.id # NoId, child[n].exists
             PROVE  child[n].spec.owner = api[n].uid
  BY DEF OwnsWhatItShows
<1>1. api[n].uid <= child[n].spec.owner
  BY DEF Inv, ClaimsInv, ClaimOK, NotOlder
<1>2. child[n].spec.owner <= Limit(n)
  BY DEF Inv, OwnersInv
<1>3. Limit(n) \in Nat /\ Limit(n) <= api[n].uid
  <2>1. cache[n].uid \in Nat /\ cache[n].uid <= api[n].uid
    BY DEF Inv, ShapeInv, IsParent, IsObject, ObjectSet, VersionsInv, Before
  <2>2. CASE key = n
    BY <2>2, OwnedChildAssumption
       DEF Inv, WorkerInv, IsParent, IsObject, ObjectSet, VersionsInv, Before, Limit
  <2> QED
    BY <2>1, <2>2 DEF Limit
<1>4. child[n].spec.owner \in Nat /\ api[n].uid \in Nat
  BY DEF Inv, ShapeInv, IsChild, IsParent, IsObject, ObjectSet
<1> QED
  BY <1>1, <1>2, <1>3, <1>4

----------------------------------------------------------------------------
\* What requests make of an object.

\* p is o, or a version stored after it.
Later(o, p) == IsObject(p) /\ o.uid <= p.uid /\ (p = o \/ o.rv < p.rv)

LEMMA RequestsLater ==
  ASSUME NEW o, IsObject(o), NEW s, NEW st
  PROVE  /\ Later(o, Creation(o, s, st))
         /\ Later(o, SpecEdit(o, s))
         /\ Later(o, Removal(o))
         /\ Later(o, DeleteRequest(o))
         /\ Later(o, StatusWrite(o, st))
         /\ Later(o, FinalizerAdded(o))
<1> USE DEF IsObject, ObjectSet, Later
<1>1. Later(o, Creation(o, s, st))
  BY DEF Creation
<1>2. ASSUME NEW spec, NEW d \in BOOLEAN PROVE Later(o, NextGeneration(o, spec, d))
  BY DEF NextGeneration
<1>3. Later(o, Removal(o))
  BY DEF Removal
<1>4. ASSUME NEW new, IsObject(new), new.uid = o.uid PROVE Later(o, Stored(o, new))
  <2>1. CASE new = o
    BY <2>1 DEF Stored
  <2>2. CASE new # o
    <3> DEFINE p == [new EXCEPT !.rv = o.rv + 1]
    <3>1. IsObject(p) /\ p.uid = o.uid /\ p.rv = o.rv + 1
      BY <1>4
    <3> QED
      BY <2>2, <3>1 DEF Stored
  <2> QED
    BY <2>1, <2>2
<1>5. /\ IsObject([o EXCEPT !.status = st]) /\ [o EXCEPT !.status = st].uid = o.uid
      /\ IsObject([o EXCEPT !.finalizer = TRUE]) /\ [o EXCEPT !.finalizer = TRUE].uid = o.uid
  OBVIOUS
<1>6. Later(o, StatusWrite(o, st)) /\ Later(o, FinalizerAdded(o))
  <2> HIDE DEF IsObject, Later
  <2> QED
    BY <1>4, <1>5 DEF StatusWrite, FinalizerAdded
<1> QED
  BY <1>1, <1>2, <1>3, <1>6 DEF SpecEdit, DeleteRequest

\* What they keep of it.
LEMMA RequestsKeep ==
  ASSUME NEW o, IsObject(o), NEW s, NEW st
  PROVE  /\ SpecEdit(o, s).exists /\ SpecEdit(o, s).spec = s
         /\ SpecEdit(o, s).status = o.status /\ SpecEdit(o, s).uid = o.uid
         /\ ~Removal(o).exists
         /\ DeleteRequest(o).exists =>
              DeleteRequest(o).spec = o.spec /\ DeleteRequest(o).status = o.status
         /\ DeleteRequest(o).uid = o.uid
         /\ StatusWrite(o, st).exists = o.exists /\ StatusWrite(o, st).uid = o.uid
         /\ StatusWrite(o, st).spec = o.spec /\ StatusWrite(o, st).status = st
         /\ FinalizerAdded(o).exists = o.exists /\ FinalizerAdded(o).spec = o.spec
<1> USE DEF IsObject, ObjectSet
<1>1. /\ SpecEdit(o, s).exists /\ SpecEdit(o, s).spec = s
      /\ SpecEdit(o, s).status = o.status /\ SpecEdit(o, s).uid = o.uid
      /\ ~Removal(o).exists
  BY DEF SpecEdit, NextGeneration, Removal
<1>2. /\ DeleteRequest(o).exists =>
           DeleteRequest(o).spec = o.spec /\ DeleteRequest(o).status = o.status
      /\ DeleteRequest(o).uid = o.uid
  BY DEF DeleteRequest, NextGeneration, Removal
<1>3. /\ StatusWrite(o, st).exists = o.exists /\ StatusWrite(o, st).uid = o.uid
      /\ StatusWrite(o, st).spec = o.spec /\ StatusWrite(o, st).status = st
  BY DEF StatusWrite, Stored
<1>4. FinalizerAdded(o).exists = o.exists /\ FinalizerAdded(o).spec = o.spec
  BY DEF FinalizerAdded, Stored
<1> QED
  BY <1>1, <1>2, <1>3, <1>4

----------------------------------------------------------------------------
\* Steps of the environment on parents.

\* Parent n is stored anew, and shows no id it has not shown before.
ParentMoves(n) ==
  /\ DOMAIN api' = Names /\ \A m \in Names \ {n} : api'[m] = api[m]
  /\ Later(api[n], api'[n]) /\ (api'[n].exists => IsStatus(api'[n].status))
  /\ api'[n].exists /\ api'[n].status.id # NoId
       => api[n].exists /\ api[n].status.id # NoId /\ api'[n].uid = api[n].uid
  /\ UNCHANGED <<cache, child, known, workerVars>>

LEMMA ParentMovesInv ==
  ASSUME Inv, NEW n \in Names, ParentMoves(n)
  PROVE  Inv'
<1> USE DEF Inv, ParentMoves
<1>1. \A m \in Names : Later(api[m], api'[m])
  BY DEF Later, ShapeInv, IsParent, IsObject, ObjectSet
<1>2. ShapeInv'
  BY DEF ShapeInv, IsParent, IsChild, Later
<1>3. WorkerInv'
  BY DEF WorkerInv, workerVars
<1>4. VersionsInv'
  <2>1. ASSUME NEW m \in Names PROVE Before(cache[m], api[m])'
    BY <1>1 DEF VersionsInv, ShapeInv, IsParent, IsObject, ObjectSet, Before, Later
  <2>2. ASSUME pc # "idle" PROVE Before(obj, api[key])'
    <3>1. key \in Names /\ IsObject(obj) /\ IsObject(api[key]) /\ Before(obj, api[key])
      BY <2>2 DEF WorkerInv, VersionsInv, ShapeInv, IsParent
    <3>2. Later(api[key], api'[key])
      BY <1>1, <3>1
    <3>3. UNCHANGED <<obj, key>>
      BY DEF workerVars
    <3> QED
      BY <3>1, <3>2, <3>3 DEF IsObject, ObjectSet, Before, Later
  <2> QED
    BY <2>1, <2>2 DEF VersionsInv, workerVars
<1>5. OwnersInv'
  BY DEF OwnersInv, Limit, workerVars
<1>6. ClaimsInv'
  BY DEF ClaimsInv, ClaimOK, NotOlder, Limit, workerVars
<1> QED
  BY <1>2, <1>3, <1>4, <1>5, <1>6

LEMMA StoredParentMoves ==
  ASSUME Inv, NEW n \in Names, NEW p, StoreParent(n, p),
         UNCHANGED <<child, known, workerVars>>,
         Later(api[n], p), p.exists => IsStatus(p.status),
         p.exists /\ p.status.id # NoId
           => api[n].exists /\ api[n].status.id # NoId /\ p.uid = api[n].uid
  PROVE  Inv'
<1>1. DOMAIN api = Names
  BY DEF Inv, ShapeInv
<1>2. DOMAIN api' = Names /\ api'[n] = p /\ \A m \in Names \ {n} : api'[m] = api[m]
  BY <1>1 DEF StoreParent
<1>3. ParentMoves(n)
  BY <1>2 DEF ParentMoves, StoreParent
<1> QED
  BY <1>3, ParentMovesInv

\* A parent is created showing no id.
LEMMA UserCreateInv ==
  ASSUME Inv, NEW n \in Names, NEW status, IsStatus(status), status.id = NoId,
         UserCreate(n, status)
  PROVE  Inv'
<1>1. PICK s \in SpecsOf[n] : StoreParent(n, Creation(api[n], s, status))
  BY DEF UserCreate
<1>2. PICK p : p = Creation(api[n], s, status)
  OBVIOUS
<1>3. IsObject(api[n])
  BY DEF Inv, ShapeInv, IsParent
<1>4. Later(api[n], p) /\ p.status = status
  BY <1>2, <1>3, RequestsLater DEF Creation
<1> QED
  BY <1>1, <1>2, <1>4, StoredParentMoves DEF UserCreate

LEMMA ParentStepsInv ==
  ASSUME Inv, NEW n \in Names, UserEdit(n) \/ UserDelete(n) \/ CollectParent(n)
  PROVE  Inv'
<1>1. IsParent(api[n]) /\ IsObject(api[n])
  BY DEF Inv, ShapeInv, IsParent
<1>2. CASE UserEdit(n)
  <2>1. PICK s \in SpecsOf[n] : StoreParent(n, SpecEdit(api[n], s))
    BY <1>2 DEF UserEdit
  <2>2. PICK p : p = SpecEdit(api[n], s)
    OBVIOUS
  <2>3. Later(api[n], p) /\ p.status = api[n].status /\ p.uid = api[n].uid
    BY <1>1, <2>2, RequestsLater, RequestsKeep
  <2> QED
    BY <1>1, <1>2, <2>1, <2>2, <2>3, StoredParentMoves DEF UserEdit, IsParent
<1>3. CASE UserDelete(n)
  <2>1. PICK f \in BOOLEAN :
          StoreParent(n, DeleteRequest([api[n] EXCEPT !.finalizer = f]))
    BY <1>3 DEF UserDelete
  <2>2. PICK o : o = [api[n] EXCEPT !.finalizer = f]
    OBVIOUS
  <2>3. IsObject(o) /\ o.rv = api[n].rv /\ o.uid = api[n].uid /\ o.status = api[n].status
    BY <1>1, <2>2 DEF IsObject, ObjectSet
  <2>4. PICK p : p = DeleteRequest(o)
    OBVIOUS
  <2>5. /\ IsObject(p) /\ p.uid = o.uid /\ p.rv > o.rv
        /\ p.exists => p.status = o.status
    BY <2>3, <2>4 DEF DeleteRequest, NextGeneration, Removal, IsObject, ObjectSet
  <2>6. Later(api[n], p)
    BY <1>1, <2>3, <2>5 DEF Later, IsObject, ObjectSet
  <2> QED
    BY <1>1, <1>3, <2>1, <2>2, <2>3, <2>4, <2>5, <2>6, StoredParentMoves
       DEF UserDelete, IsParent
<1>4. CASE CollectParent(n)
  <2>1. PICK p : p = Removal(api[n])
    OBVIOUS
  <2>2. Later(api[n], p) /\ ~p.exists
    BY <1>1, <2>1, RequestsLater, RequestsKeep
  <2> QED
    BY <1>4, <2>1, <2>2, StoredParentMoves DEF CollectParent
<1> QED
  BY <1>2, <1>3, <1>4

----------------------------------------------------------------------------
\* Steps of others than the worker on children.

\* Child n is stored anew or removed; if it stays, so does its owner.
LEMMA ChildMovesInv ==
  ASSUME Inv, NEW n \in Names, NEW c, StoreChild(n, c), IsObject(c),
         c.exists => child[n].exists /\ c.spec = child[n].spec,
         UNCHANGED <<parentVars, known, workerVars>>
  PROVE  Inv'
<1> USE DEF Inv
<1>1. /\ DOMAIN child' = Names /\ child'[n] = c
      /\ \A m \in Names \ {n} : child'[m] = child[m]
  BY DEF StoreChild, ShapeInv
<1>2. ShapeInv'
  BY <1>1 DEF ShapeInv, IsChild, IsParent, parentVars
<1>3. WorkerInv' /\ VersionsInv'
  BY DEF WorkerInv, VersionsInv, workerVars, parentVars
<1>4. OwnersInv'
  BY <1>1 DEF OwnersInv, Limit, workerVars, parentVars
<1>5. ClaimsInv'
  BY <1>1 DEF ClaimsInv, ClaimOK, NotOlder, Limit, workerVars, parentVars, WorkerInv
<1> QED
  BY <1>2, <1>3, <1>4, <1>5

LEMMA ChildStepsInv ==
  ASSUME Inv, NEW n \in Names,
         UserDeleteChild(n) \/ CollectChild(n) \/ Provision(n) \/ ProvisionFails(n)
  PROVE  Inv'
<1>1. IsObject(child[n])
  BY DEF Inv, ShapeInv, IsChild
<1>2. CASE UserDeleteChild(n) \/ CollectChild(n)
  <2>1. PICK c : c = DeleteRequest(child[n])
    OBVIOUS
  <2>2. IsObject(c) /\ (c.exists => c.spec = child[n].spec)
    BY <1>1, <2>1, RequestsLater, RequestsKeep DEF Later
  <2> QED
    BY <1>2, <2>1, <2>2, ChildMovesInv DEF UserDeleteChild, CollectChild
<1>3. ASSUME NEW st, StoreChild(n, StatusWrite(FinalizerAdded(child[n]), st)),
             child[n].exists, UNCHANGED <<parentVars, known, workerVars>>
      PROVE  Inv'
  <2>1. PICK o : o = FinalizerAdded(child[n])
    OBVIOUS
  <2>2. IsObject(o) /\ o.spec = child[n].spec
    BY <1>1, <2>1, RequestsLater, RequestsKeep DEF Later
  <2>3. PICK c : c = StatusWrite(o, st)
    OBVIOUS
  <2>4. IsObject(c) /\ c.spec = child[n].spec
    BY <2>2, <2>3, RequestsLater, RequestsKeep DEF Later
  <2> QED
    BY <1>3, <2>1, <2>3, <2>4, ChildMovesInv
<1>4. CASE Provision(n)
  <2>1. CASE child[n].deleting /\ StoreChild(n, Removal(child[n]))
    <3>1. PICK c : c = Removal(child[n])
      OBVIOUS
    <3>2. IsObject(c) /\ ~c.exists
      BY <1>1, <3>1, RequestsLater, RequestsKeep DEF Later
    <3> QED
      BY <1>4, <2>1, <3>1, <3>2, ChildMovesInv DEF Provision
  <2>2. CASE StoreChild(n, StatusWrite(FinalizerAdded(child[n]),
                                       ChildStatus(child[n].uid, "Ready")))
    <3>1. PICK st : st = ChildStatus(child[n].uid, "Ready")
      OBVIOUS
    <3> QED
      BY <1>3, <1>4, <2>2, <3>1 DEF Provision
  <2> QED
    BY <1>4, <2>1, <2>2 DEF Provision
<1>5. CASE ProvisionFails(n)
  <2>1. PICK st : StoreChild(n, StatusWrite(FinalizerAdded(child[n]), st))
    BY <1>5 DEF ProvisionFails
  <2> QED
    BY <1>3, <1>5, <2>1 DEF ProvisionFails
<1> QED
  BY <1>2, <1>4, <1>5

----------------------------------------------------------------------------
\* Steps of the manager.

LEMMA WatchEventInv ==
  ASSUME Inv, NEW n \in Names, WatchEvent(n)
  PROVE  Inv'
<1> USE DEF Inv
<1>1. /\ DOMAIN cache' = Names /\ cache'[n] = api[n]
      /\ \A m \in Names \ {n} : cache'[m] = cache[m]
      /\ UNCHANGED <<api, child, known, pc, key, obj, want, draft>>
  BY DEF WatchEvent, ShapeInv, workerVars
<1>2. \A m \in Names : /\ cache[m].uid \in Nat /\ cache'[m].uid \in Nat
                       /\ cache[m].uid <= cache'[m].uid
  BY <1>1 DEF VersionsInv, Before, ShapeInv, IsParent, IsObject, ObjectSet
<1>3. ShapeInv'
  BY <1>1 DEF ShapeInv, IsChild, IsParent
<1>4. WorkerInv'
  BY <1>1 DEF WorkerInv
<1>5. VersionsInv'
  <2>1. ASSUME NEW m \in Names PROVE Before(cache[m], api[m])'
    BY <1>1 DEF VersionsInv, Before, ShapeInv, IsParent, IsObject, ObjectSet
  <2>2. ASSUME pc # "idle" PROVE obj.uid <= cache'[key].uid
    BY <1>2, <2>2 DEF VersionsInv, WorkerInv, IsParent, IsObject, ObjectSet
  <2> QED
    BY <1>1, <2>1, <2>2 DEF VersionsInv
<1>6. \A m \in Names : /\ Limit(m) \in Nat /\ Limit(m)' \in Nat
                       /\ Limit(m) <= Limit(m)'
  BY <1>1, <1>2, OwnedChildAssumption DEF Limit, WorkerInv, IsParent, IsObject, ObjectSet
<1>7. OwnersInv'
  BY <1>1, <1>6 DEF OwnersInv, ShapeInv, IsChild
<1>8. ClaimsInv'
  <2>1. ASSUME NEW m \in Names, NEW o, IsObject(o), ClaimOK(m, o) PROVE ClaimOK(m, o)'
    BY <1>1, <1>6, <2>1 DEF ClaimOK, NotOlder, IsObject, ObjectSet
  <2>2. \A m \in Names : ClaimOK(m, api[m])' /\ ClaimOK(m, cache[m])'
    BY <1>1, <2>1 DEF ClaimsInv, ShapeInv, IsParent
  <2>3. pc # "idle" => ClaimOK(key, obj)'
    BY <1>1, <2>1 DEF ClaimsInv, WorkerInv, IsParent
  <2> QED
    BY <1>1, <2>2, <2>3 DEF ClaimsInv, NotOlder
<1> QED
  BY <1>3, <1>4, <1>5, <1>7, <1>8

LEMMA ChildEventInv ==
  ASSUME Inv, NEW n \in Names, ChildEvent(n)
  PROVE  Inv'
<1> USE DEF Inv
<1>1. /\ DOMAIN known' = Names /\ known'[n] = child[n]
      /\ \A m \in Names \ {n} : known'[m] = known[m]
      /\ UNCHANGED <<api, cache, child, pc, key, obj, want, draft>>
  BY DEF ChildEvent, ShapeInv, workerVars, parentVars
<1>2. ShapeInv'
  BY <1>1 DEF ShapeInv, IsChild, IsParent
<1>3. WorkerInv' /\ VersionsInv' /\ ClaimsInv'
  BY <1>1 DEF WorkerInv, VersionsInv, ClaimsInv, ClaimOK, NotOlder, Limit
<1>4. OwnersInv'
  BY <1>1 DEF OwnersInv, Limit, ShapeInv, IsChild
<1> QED
  BY <1>2, <1>3, <1>4

LEMMA RestartInv ==
  ASSUME Inv, Restart
  PROVE  Inv'
<1> USE DEF Inv
<1>1. /\ cache' = api /\ known' = child /\ pc' = "idle" /\ key' = NoKey
      /\ UNCHANGED <<api, child>>
  BY DEF Restart, Idle
<1>2. ShapeInv' /\ WorkerInv'
  BY <1>1 DEF ShapeInv, WorkerInv, IsChild, IsParent
<1>3. VersionsInv'
  BY <1>1 DEF VersionsInv, Before, ShapeInv, IsParent, IsObject, ObjectSet
<1>4. \A m \in Names : /\ Limit(m) \in Nat /\ Limit(m)' = api[m].uid /\ api[m].uid \in Nat
                       /\ Limit(m) <= Limit(m)'
  BY <1>1, OwnedChildAssumption
     DEF Limit, WorkerInv, VersionsInv, Before, ShapeInv, IsParent, IsObject, ObjectSet
<1>5. OwnersInv'
  BY <1>1, <1>4 DEF OwnersInv, ShapeInv, IsChild
<1>6. ClaimsInv'
  BY <1>1, <1>4 DEF ClaimsInv, ClaimOK, NotOlder
<1> QED
  BY <1>2, <1>3, <1>5, <1>6

\* A step that changes none of this.
LEMMA OtherInv ==
  ASSUME Inv, UNCHANGED <<parentVars, child, known, workerVars>>
  PROVE  Inv'
BY DEF Inv, ShapeInv, WorkerInv, VersionsInv, OwnersInv, ClaimsInv, ClaimOK, NotOlder, Limit,
       Before, IsChild, IsParent, parentVars, workerVars

LEMMA SkipReconcileInv ==
  ASSUME Inv, NEW n \in Names, SkipReconcile(n)
  PROVE  Inv'
BY OtherInv DEF SkipReconcile, Take

LEMMA InputStepsInv ==
  ASSUME Inv, NEW x, NEW affected, InputChange(x) \/ InputEvent(x, affected)
  PROVE  Inv'
BY OtherInv DEF InputChange, InputEvent

----------------------------------------------------------------------------
\* Steps of the worker.

\* The worker takes up parent n: it has read a copy of it, and goes on to something it may
\* do.
LEMMA StartInv ==
  ASSUME Inv, NEW n \in Names, TakeLive(n),
         pc' \in {"create", "update", "status"},
         IsStatus(draft'),
         pc' \in {"create", "update"} => want'.owner = cache[n].uid,
         pc' = "status" /\ draft'.id # NoId => NotOlder(n, cache[n].uid)
  PROVE  Inv'
<1> USE DEF Inv
<1>1. /\ key = NoKey /\ key # n /\ pc = "idle" /\ cache[n].exists
      /\ key' = n /\ obj' = cache[n]
      /\ UNCHANGED <<api, cache, child, known>>
  BY OwnedChildAssumption DEF TakeLive, Take, WorkerInv, parentVars
<1>2. ShapeInv' /\ WorkerInv'
  BY <1>1 DEF ShapeInv, WorkerInv, IsChild, IsParent
<1>3. VersionsInv'
  BY <1>1 DEF VersionsInv, Before, ShapeInv, IsParent, IsObject, ObjectSet
<1>4. \A m \in Names : Limit(m)' = Limit(m)
  BY <1>1, OwnedChildAssumption DEF Limit
<1>5. OwnersInv'
  BY <1>1, <1>4 DEF OwnersInv
<1>6. ClaimsInv'
  BY <1>1, <1>4 DEF ClaimsInv, ClaimOK, NotOlder
<1> QED
  BY <1>2, <1>3, <1>5, <1>6

LEMMA StartFailedInv ==
  ASSUME Inv, NEW n \in Names, TakeLive(n), NEW reason, Failed(cache[n], reason)
  PROVE  Inv'
<1>1. IsParent(cache[n]) /\ cache[n].exists /\ ClaimOK(n, cache[n])
  BY DEF Inv, ShapeInv, ClaimsInv, TakeLive
<1>2. pc' = "status" /\ IsStatus(draft') /\ draft'.id = cache[n].status.id
  BY <1>1 DEF Failed, ToStatus, IsStatus, IsParent
<1>3. draft'.id # NoId => NotOlder(n, cache[n].uid)
  BY <1>1, <1>2 DEF ClaimOK
<1> QED
  BY <1>2, <1>3, StartInv

\* A child that has already the owner it should have is one of this incarnation.
LEMMA StartKeepInv ==
  ASSUME Inv, NEW n \in Names, NEW new, NEW status, TakeLive(n), KeepChild(n, new, status),
         new.owner = cache[n].uid, IsStatus(status), status.id = StatusRead(n).id
  PROVE  Inv'
<1>1. CASE ~known[n].exists
  <2>1. pc' = "create" /\ want' = new /\ draft' = status
    BY <1>1 DEF KeepChild
  <2> QED
    BY <2>1, StartInv
<1>2. CASE known[n].exists /\ known[n].spec # new
  <2>1. pc' = "update" /\ want' = new /\ draft' = status
    BY <1>2 DEF KeepChild
  <2> QED
    BY <2>1, StartInv
<1>3. CASE known[n].exists /\ known[n].spec = new
  <2>1. pc' = "status" /\ draft' = status
    BY <1>3 DEF KeepChild, ToStatus
  <2>2. NotOlder(n, cache[n].uid)
    BY <1>3 DEF Inv, OwnersInv, NotOlder
  <2> QED
    BY <2>1, <2>2, StartInv
<1> QED
  BY <1>1, <1>2, <1>3

\* The worker is done with the child, whether it has written it or not.
LEMMA ToStatusInv ==
  ASSUME Inv, pc \in {"create", "update"}, pc' = "status", IsStatus(draft'),
         UNCHANGED <<parentVars, known, key, obj>>,
         DOMAIN child' = Names /\ \A m \in Names \ {key} : child'[m] = child[m],
         \/ child' = child
         \/ IsChild(child'[key]) /\ child'[key].exists /\ child'[key].spec.owner = obj.uid,
         draft'.id # NoId => NotOlder(key, obj.uid)'
  PROVE  Inv'
<1> USE DEF Inv
<1>1. key \in Names /\ IsParent(obj) /\ obj.exists /\ Limit(key) = obj.uid /\ obj.uid \in Nat
  BY DEF WorkerInv, IsParent, IsObject, ObjectSet, Limit
<1>2. ShapeInv'
  BY <1>1 DEF ShapeInv, IsChild, IsParent, parentVars
<1>3. WorkerInv' /\ VersionsInv'
  BY <1>1 DEF WorkerInv, VersionsInv, parentVars
<1>4. \A m \in Names : Limit(m)' = Limit(m)
  BY DEF Limit, parentVars
<1>5. OwnersInv'
  BY <1>1, <1>4 DEF OwnersInv
<1>6. \A m \in Names, u \in Nat : NotOlder(m, u) /\ u <= Limit(m) => NotOlder(m, u)'
  BY <1>1 DEF NotOlder
<1>7. ASSUME NEW m \in Names, NEW o, IsObject(o), ClaimOK(m, o) PROVE ClaimOK(m, o)'
  BY <1>4, <1>6, <1>7 DEF ClaimOK, IsObject, ObjectSet
<1>8. \A m \in Names : ClaimOK(m, api[m])' /\ ClaimOK(m, cache[m])'
  BY <1>7 DEF ClaimsInv, ShapeInv, IsParent, parentVars
<1>9. ClaimOK(key, obj)'
  BY <1>1, <1>7 DEF ClaimsInv, IsParent
<1>10. ClaimsInv'
  BY <1>8, <1>9 DEF ClaimsInv
<1> QED
  BY <1>2, <1>3, <1>5, <1>10

LEMMA ChildWriteInv ==
  ASSUME Inv, pc \in {"create", "update"}, NEW accepted, NEW stored,
         ChildWrite(accepted, stored),
         IsChild(stored) /\ stored.exists /\ stored.spec.owner = obj.uid
  PROVE  Inv'
<1>1. /\ key \in Names /\ IsParent(obj) /\ obj.exists /\ IsStatus(obj.status)
      /\ ClaimOK(key, obj) /\ IsStatus(draft) /\ obj.uid \in Nat
  BY DEF Inv, WorkerInv, IsParent, ClaimsInv, IsObject, ObjectSet
<1>2. UNCHANGED <<parentVars, known, key, obj>>
  BY DEF ChildWrite
<1>3. DOMAIN child = Names
  BY DEF Inv, ShapeInv
<1>4. CASE UNCHANGED child /\ Failed(obj, "SyncFailed")
  <2>1. pc' = "status" /\ IsStatus(draft') /\ draft'.id = obj.status.id
    BY <1>1, <1>4 DEF Failed, ToStatus, IsStatus
  <2>2. draft'.id # NoId => NotOlder(key, obj.uid)'
    BY <1>1, <1>2, <1>4, <2>1 DEF ClaimOK, NotOlder
  <2> QED
    BY <1>2, <1>3, <1>4, <2>1, <2>2, ToStatusInv
<1>5. CASE StoreChild(key, stored) /\ (Failed(obj, "SyncFailed") \/ ToStatus(draft, FALSE))
  <2>1. pc' = "status" /\ IsStatus(draft')
    BY <1>1, <1>5 DEF Failed, ToStatus, IsStatus
  <2>2. /\ DOMAIN child' = Names /\ child'[key] = stored
        /\ \A m \in Names \ {key} : child'[m] = child[m]
    BY <1>1, <1>3, <1>5 DEF StoreChild
  <2>3. NotOlder(key, obj.uid)'
    BY <1>1, <1>2, <2>2 DEF NotOlder
  <2> QED
    BY <1>2, <2>1, <2>2, <2>3, ToStatusInv
<1> QED
  BY <1>4, <1>5 DEF ChildWrite

LEMMA CreateChildInv ==
  ASSUME Inv, CreateChild
  PROVE  Inv'
<1>1. /\ pc = "create" /\ key \in Names /\ want.owner = obj.uid /\ obj.uid \in Nat
      /\ IsObject(child[key])
  BY DEF Inv, WorkerInv, ShapeInv, IsChild, IsParent, IsObject, ObjectSet, CreateChild
<1>2. PICK stored : stored = Creation(child[key], want, ChildStatus(NoId, "Unset"))
  OBVIOUS
<1>3. IsObject(stored) /\ stored.exists /\ stored.spec = want
  BY <1>1, <1>2, RequestsLater DEF Later, Creation
<1> QED
  BY <1>1, <1>2, <1>3, ChildWriteInv DEF CreateChild, IsChild

LEMMA UpdateChildInv ==
  ASSUME Inv, UpdateChild
  PROVE  Inv'
<1>1. /\ pc = "update" /\ key \in Names /\ want.owner = obj.uid /\ obj.uid \in Nat
      /\ IsObject(child[key])
  BY DEF Inv, WorkerInv, ShapeInv, IsChild, IsParent, IsObject, ObjectSet, UpdateChild
<1>2. PICK stored : stored = SpecEdit(child[key], want)
  OBVIOUS
<1>3. IsObject(stored) /\ stored.exists /\ stored.spec = want
  BY <1>1, <1>2, RequestsLater, RequestsKeep DEF Later
<1> QED
  BY <1>1, <1>2, <1>3, ChildWriteInv DEF UpdateChild, IsChild

\* The worker writes the status, or fails to, and drops what it has read.
LEMMA WriteStatusInv ==
  ASSUME Inv, WriteStatus
  PROVE  Inv'
<1> USE DEF Inv
<1>1. /\ pc = "status" /\ key \in Names /\ IsParent(obj) /\ IsObject(obj) /\ IsStatus(draft)
      /\ Before(obj, api[key]) /\ obj.uid <= cache[key].uid
      /\ pc' = "idle" /\ key' = NoKey /\ UNCHANGED <<cache, child, known>>
  BY DEF WriteStatus, Finish, Idle, WorkerInv, VersionsInv, IsParent, StoreParent, parentVars
<1>2. DOMAIN api = Names /\ IsParent(api[key]) /\ IsObject(api[key])
  BY <1>1 DEF ShapeInv, IsParent
<1>3. PICK p : p = StatusWrite(api[key], draft)
  OBVIOUS
<1>4. /\ Later(api[key], p) /\ p.exists = api[key].exists
      /\ p.uid = api[key].uid /\ p.status = draft
  BY <1>2, <1>3, RequestsLater, RequestsKeep
<1>5. \/ UNCHANGED api
      \/ Accepts(api[key], obj) /\ api' = [api EXCEPT ![key] = p]
  BY <1>3 DEF WriteStatus, StoreParent, parentVars
<1>6. /\ DOMAIN api' = Names
      /\ \A m \in Names : api'[m] # api[m] => m = key /\ api'[m] = p
  BY <1>1, <1>2, <1>5
<1>7. ShapeInv' /\ WorkerInv'
  <2>1. IsParent(p)
    BY <1>1, <1>4 DEF IsParent, Later
  <2> QED
    BY <1>1, <1>6, <2>1 DEF ShapeInv, WorkerInv, IsChild, IsParent
<1>8. VersionsInv'
  BY <1>1, <1>2, <1>4, <1>6
     DEF VersionsInv, Before, Later, ShapeInv, IsParent, IsObject, ObjectSet
<1>9. \A m \in Names : /\ Limit(m) \in Nat /\ Limit(m)' = cache[m].uid /\ cache[m].uid \in Nat
                       /\ Limit(m) <= Limit(m)'
  BY <1>1, OwnedChildAssumption DEF Limit, ShapeInv, IsParent, IsObject, ObjectSet
<1>10. OwnersInv'
  BY <1>1, <1>9 DEF OwnersInv, ShapeInv, IsChild
<1>11. ASSUME NEW m \in Names, NEW o, IsObject(o), ClaimOK(m, o) PROVE ClaimOK(m, o)'
  BY <1>1, <1>9, <1>11 DEF ClaimOK, NotOlder, IsObject, ObjectSet
<1>12. ASSUME NEW m \in Names, m = key, Accepts(api[m], obj) PROVE ClaimOK(m, p)'
  <2>1. SUFFICES ASSUME draft.id # NoId
                 PROVE  p.uid <= Limit(m)' /\ NotOlder(m, p.uid)'
    BY <1>4 DEF ClaimOK
  <2>2. p.uid = obj.uid
    BY <1>1, <1>4, <1>12 DEF Accepts, Before
  <2> QED
    BY <1>1, <1>9, <1>12, <2>1, <2>2 DEF ClaimsInv, NotOlder
<1>13. ClaimsInv'
  <2>1. \A m \in Names : ClaimOK(m, api[m])' /\ ClaimOK(m, cache[m])'
    <3>1. ASSUME NEW m \in Names, api'[m] = api[m] PROVE ClaimOK(m, api[m])'
      BY <1>11, <3>1 DEF ClaimsInv, ShapeInv, IsParent
    <3>2. ASSUME NEW m \in Names PROVE ClaimOK(m, cache[m])'
      BY <1>1, <1>11 DEF ClaimsInv, ShapeInv, IsParent
    <3>3. ASSUME NEW m \in Names, api'[m] # api[m] PROVE ClaimOK(m, api[m])'
      <4>1. m = key /\ api'[m] = p /\ Accepts(api[m], obj)
        BY <1>5, <1>6, <3>3
      <4>2. ClaimOK(m, p)'
        BY <1>12, <4>1
      <4> QED
        BY <4>1, <4>2 DEF ClaimOK
    <3> QED
      BY <3>1, <3>2, <3>3
  <2> QED
    BY <1>1, <2>1 DEF ClaimsInv
<1> QED
  BY <1>7, <1>8, <1>10, <1>13

----------------------------------------------------------------------------
\* Every step the two controllers share preserves the invariant.

LEMMA CommonNextInv ==
  ASSUME Inv, CommonNext
  PROVE  Inv'
BY ParentStepsInv, ChildStepsInv, WatchEventInv, ChildEventInv, SkipReconcileInv,
   InputStepsInv, RestartInv, CreateChildInv, UpdateChildInv, WriteStatusInv
   DEF CommonNext, Call

LEMMA StutterInv == Inv /\ UNCHANGED vars => Inv'
BY OtherInv DEF vars

LEMMA InitInv == Init => Inv
BY OwnedChildAssumption
   DEF Init, Inv, ShapeInv, WorkerInv, VersionsInv, OwnersInv, ClaimsInv, ClaimOK, Before,
       Limit, IsChild, IsParent, IsObject, ObjectSet, Absent, NeverCreated

----------------------------------------------------------------------------
\* What the objects contain, given what parents' statuses and children's specs may be.

ChildStatuses == [id: Nat, ready: {"Unset", "Ready", "CreateFailed", "UpdateFailed"}]

\* The parent o of name n; a child whose spec is one of specs.
ParentFits(n, o, statuses) == o.exists => o.spec \in SpecsOf[n] /\ o.status \in statuses

ChildFits(o, specs) ==
  o.exists => o.spec \in specs /\ o.status \in ChildStatuses /\ o.status.id \in {NoId, o.uid}

\* specs[n]: the specs a child of name n may have.
ObjectsFit(statuses, specs) ==
  \A n \in Names :
    /\ ParentFits(n, api[n], statuses) /\ ParentFits(n, cache[n], statuses)
    /\ ChildFits(child[n], specs[n]) /\ ChildFits(known[n], specs[n])

WorkerFits(statuses, specs) ==
  /\ IF pc = "idle" THEN ~obj.exists /\ ~copy.exists
     ELSE /\ ParentFits(key, obj, statuses) /\ draft \in statuses
          /\ ChildFits(copy, specs[key])
  /\ pc \in {"create", "update"} => want \in specs[key]

Fits(statuses, specs) == ObjectsFit(statuses, specs) /\ WorkerFits(statuses, specs)

\* The rest of the state.
BoundsInv ==
  /\ DOMAIN at = Inputs /\ DOMAIN seen = Inputs
  /\ \A x \in Inputs : at[x] \in 1..Len(History[x]) /\ seen[x] \in 1..at[x]
  /\ queue \in SUBSET Names /\ again \in BOOLEAN /\ budget \in [Kinds -> Nat]

\* A status that reports a failed write of the child is a status.
Reports(statuses) == \A status \in statuses : [status EXCEPT !.ready = "SyncFailed"] \in statuses

LEMMA InitFits ==
  ASSUME Init, NEW statuses, NEW specs
  PROVE  Fits(statuses, specs) /\ BoundsInv
<1>1. Fits(statuses, specs)
  BY DEF Init, Fits, ObjectsFit, WorkerFits, ParentFits, ChildFits, Absent, NeverCreated
<1>2. at = [x \in Inputs |-> 1] /\ seen = at /\ queue = {} /\ again = FALSE
  BY DEF Init
<1>3. budget \in [Kinds -> Nat]
  BY OwnedChildAssumption DEF Init
<1>4. \A x \in Inputs : Len(History[x]) \in Nat \ {0}
  BY OwnedChildAssumption
<1>5. \A x \in Inputs : at[x] \in 1..Len(History[x]) /\ seen[x] \in 1..at[x]
  BY <1>2, <1>4
<1>6. BoundsInv
  BY <1>2, <1>3, <1>5 DEF BoundsInv
<1> QED
  BY <1>1, <1>6

\* More specs fit too.
LEMMA FitsMore ==
  ASSUME NEW statuses, NEW specs, NEW more, \A n \in Names : specs[n] \subseteq more[n],
         Inv', Fits(statuses, specs)'
  PROVE  Fits(statuses, more)'
<1>1. pc' # "idle" => key' \in Names
  BY DEF Inv, WorkerInv
<1>2. ASSUME NEW n \in Names, NEW o, ChildFits(o, specs[n]) PROVE ChildFits(o, more[n])
  BY <1>2 DEF ChildFits
<1>3. ObjectsFit(statuses, more)'
  BY <1>2 DEF Fits, ObjectsFit
<1>4. WorkerFits(statuses, more)'
  BY <1>1, <1>2 DEF Fits, WorkerFits
<1> QED
  BY <1>3, <1>4 DEF Fits

\* A step that changes none of this.
LEMMA OtherFits ==
  ASSUME NEW statuses, NEW specs, Fits(statuses, specs),
         UNCHANGED <<parentVars, child, known, workerVars>>
  PROVE  Fits(statuses, specs)'
BY DEF Fits, ObjectsFit, WorkerFits, ParentFits, ChildFits, parentVars, workerVars

LEMMA StoreParentFits ==
  ASSUME NEW statuses, NEW specs, Inv, Fits(statuses, specs),
         NEW n \in Names, NEW p, StoreParent(n, p), ParentFits(n, p, statuses),
         UNCHANGED <<child, known, workerVars>>
  PROVE  Fits(statuses, specs)'
<1>1. \A m \in Names : api'[m] = IF m = n THEN p ELSE api[m]
  BY DEF StoreParent, Inv, ShapeInv
<1>2. ObjectsFit(statuses, specs)'
  BY <1>1 DEF StoreParent, Fits, ObjectsFit, ParentFits, ChildFits
<1>3. WorkerFits(statuses, specs)'
  BY DEF Fits, WorkerFits, ParentFits, ChildFits, workerVars
<1> QED
  BY <1>2, <1>3 DEF Fits

\* What users and the garbage collector make of a parent.
LEMMA UserCreateFits ==
  ASSUME NEW statuses, NEW specs, Inv, Fits(statuses, specs),
         NEW n \in Names, NEW status \in statuses, UserCreate(n, status)
  PROVE  Fits(statuses, specs)'
<1>1. PICK s \in SpecsOf[n] : StoreParent(n, Creation(api[n], s, status))
  BY DEF UserCreate
<1>2. PICK p : p = Creation(api[n], s, status)
  OBVIOUS
<1>3. ParentFits(n, p, statuses)
  BY <1>2 DEF ParentFits, Creation
<1> QED
  BY <1>1, <1>2, <1>3, StoreParentFits DEF UserCreate

LEMMA ParentStepsFit ==
  ASSUME NEW statuses, NEW specs, Inv, Fits(statuses, specs),
         NEW n \in Names, UserEdit(n) \/ UserDelete(n) \/ CollectParent(n)
  PROVE  Fits(statuses, specs)'
<1>1. IsObject(api[n]) /\ ParentFits(n, api[n], statuses)
  BY DEF Inv, ShapeInv, IsParent, Fits, ObjectsFit
<1>2. CASE UserEdit(n)
  <2>1. PICK s \in SpecsOf[n] : StoreParent(n, SpecEdit(api[n], s))
    BY <1>2 DEF UserEdit
  <2>2. PICK p : p = SpecEdit(api[n], s)
    OBVIOUS
  <2>3. ParentFits(n, p, statuses)
    BY <1>1, <1>2, <2>2, RequestsKeep DEF ParentFits, UserEdit
  <2> QED
    BY <1>2, <2>1, <2>2, <2>3, StoreParentFits DEF UserEdit
<1>3. CASE UserDelete(n)
  <2>1. PICK f \in BOOLEAN :
          StoreParent(n, DeleteRequest([api[n] EXCEPT !.finalizer = f]))
    BY <1>3 DEF UserDelete
  <2>2. PICK o : o = [api[n] EXCEPT !.finalizer = f]
    OBVIOUS
  <2>3. IsObject(o) /\ o.spec = api[n].spec /\ o.status = api[n].status
    BY <1>1, <2>2 DEF IsObject, ObjectSet
  <2>4. PICK p : p = DeleteRequest(o)
    OBVIOUS
  <2>5. p.exists => p.spec = o.spec /\ p.status = o.status
    BY <2>3, <2>4, RequestsKeep
  <2>6. ParentFits(n, p, statuses)
    BY <1>1, <1>3, <2>3, <2>5 DEF ParentFits, UserDelete
  <2> QED
    BY <1>3, <2>1, <2>2, <2>4, <2>6, StoreParentFits DEF UserDelete
<1>4. CASE CollectParent(n)
  <2>1. PICK p : p = Removal(api[n])
    OBVIOUS
  <2>2. ParentFits(n, p, statuses)
    BY <1>1, <2>1, RequestsKeep DEF ParentFits
  <2> QED
    BY <1>4, <2>1, <2>2, StoreParentFits DEF CollectParent
<1> QED
  BY <1>2, <1>3, <1>4

LEMMA StoreChildFits ==
  ASSUME NEW statuses, NEW specs, Inv, Fits(statuses, specs),
         NEW n \in Names, NEW c, StoreChild(n, c), ChildFits(c, specs[n]),
         UNCHANGED <<parentVars, known>>
  PROVE  ObjectsFit(statuses, specs)'
<1>1. \A m \in Names : child'[m] = IF m = n THEN c ELSE child[m]
  BY DEF StoreChild, Inv, ShapeInv
<1> QED
  BY <1>1 DEF Fits, ObjectsFit, ParentFits, ChildFits, parentVars

\* What others than the worker make of a child.
LEMMA ChildStepsFit ==
  ASSUME NEW statuses, NEW specs, Inv, Fits(statuses, specs), NEW n \in Names,
         UserDeleteChild(n) \/ CollectChild(n) \/ Provision(n) \/ ProvisionFails(n)
  PROVE  Fits(statuses, specs)'
<1>1. IsObject(child[n]) /\ ChildFits(child[n], specs[n]) /\ child[n].exists
  BY DEF Inv, ShapeInv, IsChild, Fits, ObjectsFit, UserDeleteChild, CollectChild, Provision,
         ProvisionFails
<1>2. child[n].uid \in Nat
  BY <1>1 DEF IsObject, ObjectSet
<1>3. WorkerFits(statuses, specs)' /\ UNCHANGED <<parentVars, known>>
  BY DEF UserDeleteChild, CollectChild, Provision, ProvisionFails, Fits, WorkerFits,
         ParentFits, ChildFits, workerVars
<1>4. ASSUME NEW c, StoreChild(n, c), ChildFits(c, specs[n]) PROVE Fits(statuses, specs)'
  BY <1>3, <1>4, StoreChildFits DEF Fits
<1>5. CASE UserDeleteChild(n) \/ CollectChild(n)
  <2>1. PICK c : c = DeleteRequest(child[n])
    OBVIOUS
  <2>2. ChildFits(c, specs[n])
    BY <1>1, <2>1, RequestsKeep DEF ChildFits
  <2> QED
    BY <1>4, <1>5, <2>1, <2>2 DEF UserDeleteChild, CollectChild
<1>6. ASSUME NEW st \in ChildStatuses, st.id \in {NoId, child[n].uid},
             StoreChild(n, StatusWrite(FinalizerAdded(child[n]), st))
      PROVE  Fits(statuses, specs)'
  <2>1. PICK o : o = FinalizerAdded(child[n])
    OBVIOUS
  <2>2. IsObject(o) /\ o.spec = child[n].spec /\ o.uid = child[n].uid
    <3>1. IsObject(o) /\ o.spec = child[n].spec
      BY <1>1, <2>1, RequestsLater, RequestsKeep DEF Later
    <3>2. o.uid = child[n].uid
      BY <1>1, <2>1 DEF FinalizerAdded, Stored, IsObject, ObjectSet
    <3> QED
      BY <3>1, <3>2
  <2>3. PICK c : c = StatusWrite(o, st)
    OBVIOUS
  <2>4. c.spec = child[n].spec /\ c.uid = child[n].uid /\ c.status = st
    BY <2>2, <2>3, RequestsKeep
  <2>5. ChildFits(c, specs[n])
    BY <1>1, <1>6, <2>4 DEF ChildFits
  <2> QED
    BY <1>4, <1>6, <2>1, <2>3, <2>5
<1>7. CASE Provision(n)
  <2>1. CASE StoreChild(n, Removal(child[n]))
    <3>1. PICK c : c = Removal(child[n])
      OBVIOUS
    <3>2. ChildFits(c, specs[n])
      BY <1>1, <3>1, RequestsKeep DEF ChildFits
    <3> QED
      BY <1>4, <2>1, <3>1, <3>2
  <2>2. CASE StoreChild(n, StatusWrite(FinalizerAdded(child[n]),
                                       ChildStatus(child[n].uid, "Ready")))
    <3>1. PICK st : st = ChildStatus(child[n].uid, "Ready")
      OBVIOUS
    <3>2. st \in ChildStatuses /\ st.id = child[n].uid
      BY <1>2, <3>1 DEF ChildStatus, ChildStatuses
    <3> QED
      BY <1>6, <2>2, <3>1, <3>2
  <2> QED
    BY <1>7, <2>1, <2>2 DEF Provision
<1>8. CASE ProvisionFails(n)
  <2>1. PICK st : /\ st = ChildStatus(child[n].status.id,
                            IF child[n].status.id = NoId THEN "CreateFailed" ELSE "UpdateFailed")
                  /\ StoreChild(n, StatusWrite(FinalizerAdded(child[n]), st))
    BY <1>8 DEF ProvisionFails
  <2>2. st \in ChildStatuses /\ st.id = child[n].status.id
    BY <1>1, <2>1 DEF ChildFits, ChildStatus, ChildStatuses
  <2> QED
    BY <1>1, <1>6, <2>1, <2>2 DEF ChildFits
<1> QED
  BY <1>5, <1>7, <1>8

\* The informers copy what fits, and a new process holds nothing.
LEMMA ManagerStepsFit ==
  ASSUME NEW statuses, NEW specs, Inv, Fits(statuses, specs),
         Restart \/ (\E n \in Names : WatchEvent(n) \/ ChildEvent(n))
  PROVE  Fits(statuses, specs)'
<1>1. CASE Restart
  BY <1>1 DEF Restart, Idle, Absent, NeverCreated, Fits, ObjectsFit, WorkerFits, ParentFits,
              ChildFits
<1>2. ASSUME NEW n \in Names, WatchEvent(n) PROVE Fits(statuses, specs)'
  <2>1. \A m \in Names : cache'[m] \in {cache[m], api[m]}
    BY <1>2 DEF WatchEvent, Inv, ShapeInv
  <2>2. UNCHANGED <<api, child, known, workerVars>>
    BY <1>2 DEF WatchEvent
  <2> QED
    BY <2>1, <2>2 DEF Fits, ObjectsFit, WorkerFits, ParentFits, ChildFits, workerVars
<1>3. ASSUME NEW n \in Names, ChildEvent(n) PROVE Fits(statuses, specs)'
  <2>1. \A m \in Names : known'[m] \in {known[m], child[m]}
    BY <1>3 DEF ChildEvent, Inv, ShapeInv
  <2>2. UNCHANGED <<parentVars, child, workerVars>>
    BY <1>3 DEF ChildEvent
  <2> QED
    BY <2>1, <2>2 DEF Fits, ObjectsFit, WorkerFits, ParentFits, ChildFits, parentVars,
                      workerVars
<1> QED
  BY <1>1, <1>2, <1>3

\* The worker goes on to write a status that fits, and drops the child.
LEMMA ToStatusFits ==
  ASSUME NEW statuses, NEW specs, ObjectsFit(statuses, specs)',
         ParentFits(key', obj', statuses), key' \in Names,
         NEW status \in statuses, NEW requeue, ToStatus(status, requeue)
  PROVE  Fits(statuses, specs)'
BY DEF ToStatus, Fits, WorkerFits, ChildFits, Absent, NeverCreated

LEMMA StartFailedFits ==
  ASSUME NEW statuses, NEW specs, Inv, Fits(statuses, specs),
         NEW n \in Names, TakeLive(n), NEW reason, Failed(cache[n], reason),
         [cache[n].status EXCEPT !.ready = reason] \in statuses
  PROVE  Fits(statuses, specs)'
<1>1. PICK status \in statuses : status = [cache[n].status EXCEPT !.ready = reason]
  OBVIOUS
<1>2. /\ key' = n /\ obj' = cache[n] /\ UNCHANGED <<parentVars, child, known>>
      /\ ToStatus(status, TRUE)
  BY <1>1 DEF TakeLive, Take, Failed
<1>3. ObjectsFit(statuses, specs)' /\ ParentFits(key', obj', statuses)
  BY <1>2 DEF Fits, ObjectsFit, ParentFits, ChildFits, parentVars
<1> QED
  BY <1>2, <1>3, ToStatusFits

LEMMA StartKeepFits ==
  ASSUME NEW statuses, NEW specs, Inv, Fits(statuses, specs),
         NEW n \in Names, NEW new \in specs[n], NEW status \in statuses,
         TakeLive(n), KeepChild(n, new, status)
  PROVE  Fits(statuses, specs)'
<1>1. key' = n /\ obj' = cache[n] /\ UNCHANGED <<parentVars, child, known>>
  BY DEF TakeLive, Take
<1>2. ObjectsFit(statuses, specs)' /\ ParentFits(key', obj', statuses)
  BY <1>1 DEF Fits, ObjectsFit, ParentFits, ChildFits, parentVars
<1>3. CASE ToStatus(status, FALSE)
  BY <1>1, <1>2, <1>3, ToStatusFits
<1>4. CASE /\ pc' \in {"create", "update"} /\ copy' = known[n] /\ want' = new
           /\ draft' = status
  <2>1. ChildFits(copy', specs[n])
    BY <1>4 DEF Fits, ObjectsFit
  <2>2. WorkerFits(statuses, specs)'
    BY <1>1, <1>2, <1>4, <2>1 DEF WorkerFits, ChildFits, ParentFits
  <2> QED
    BY <1>2, <2>2 DEF Fits
<1> QED
  BY <1>3, <1>4 DEF KeepChild

LEMMA ChildWriteFits ==
  ASSUME NEW statuses, NEW specs, Reports(statuses), Inv, Fits(statuses, specs),
         pc \in {"create", "update"}, NEW accepted, NEW stored, ChildWrite(accepted, stored),
         accepted => ChildFits(stored, specs[key])
  PROVE  Fits(statuses, specs)'
<1>1. /\ key \in Names /\ obj.exists /\ ParentFits(key, obj, statuses) /\ draft \in statuses
  BY DEF Inv, WorkerInv, Fits, WorkerFits
<1>2. UNCHANGED <<parentVars, known, key, obj>>
  BY DEF ChildWrite
<1>3. ParentFits(key', obj', statuses) /\ key' \in Names
  BY <1>1, <1>2
<1>4. ObjectsFit(statuses, specs)'
  <2>1. CASE UNCHANGED child
    BY <1>2, <2>1 DEF Fits, ObjectsFit, ParentFits, ChildFits, parentVars
  <2>2. CASE accepted /\ StoreChild(key, stored)
    BY <1>1, <1>2, <2>2, StoreChildFits
  <2> QED
    BY <2>1, <2>2 DEF ChildWrite
<1>5. PICK report \in statuses : report = [obj.status EXCEPT !.ready = "SyncFailed"]
  BY <1>1 DEF Reports, ParentFits
<1>6. ToStatus(draft, FALSE) \/ ToStatus(report, TRUE)
  BY <1>5 DEF ChildWrite, Failed
<1>7. PICK status \in statuses : status = draft
  BY <1>1
<1> QED
  BY <1>3, <1>4, <1>6, <1>7, ToStatusFits

LEMMA CallsFit ==
  ASSUME NEW statuses, NEW specs, Reports(statuses), Inv, Fits(statuses, specs), Call
  PROVE  Fits(statuses, specs)'
<1>1. CASE CreateChild
  <2>1. pc = "create" /\ key \in Names /\ IsObject(child[key]) /\ want \in specs[key]
    BY <1>1 DEF CreateChild, Inv, WorkerInv, ShapeInv, IsChild, Fits, WorkerFits
  <2>2. PICK stored : stored = Creation(child[key], want, ChildStatus(NoId, "Unset"))
    OBVIOUS
  <2>3. ChildFits(stored, specs[key])
    BY <2>1, <2>2 DEF ChildFits, Creation, ChildStatus, ChildStatuses, NoId
  <2> QED
    BY <1>1, <2>1, <2>2, <2>3, ChildWriteFits DEF CreateChild
<1>2. CASE UpdateChild
  <2>1. /\ pc = "update" /\ key \in Names /\ IsObject(child[key]) /\ want \in specs[key]
        /\ ChildFits(child[key], specs[key])
    BY <1>2 DEF UpdateChild, Inv, WorkerInv, ShapeInv, IsChild, Fits, WorkerFits, ObjectsFit
  <2>2. PICK stored : stored = SpecEdit(child[key], want)
    OBVIOUS
  <2>3. Accepts(child[key], copy) => ChildFits(stored, specs[key])
    BY <2>1, <2>2, RequestsKeep DEF ChildFits, Accepts
  <2> QED
    BY <1>2, <2>1, <2>2, <2>3, ChildWriteFits DEF UpdateChild
<1>3. CASE WriteStatus
  <2>1. /\ pc = "status" /\ key \in Names /\ draft \in statuses /\ IsObject(api[key])
        /\ ParentFits(key, api[key], statuses)
    BY <1>3 DEF WriteStatus, Inv, WorkerInv, ShapeInv, IsParent, Fits, WorkerFits, ObjectsFit
  <2>2. PICK p : p = StatusWrite(api[key], draft)
    OBVIOUS
  <2>3. ParentFits(key, p, statuses)
    BY <2>1, <2>2, RequestsKeep DEF ParentFits
  <2>4. /\ Idle /\ UNCHANGED <<cache, child, known>>
        /\ \A m \in Names : api'[m] # api[m] => m = key /\ api'[m] = p
    BY <1>3, <2>1, <2>2
       DEF WriteStatus, Finish, StoreParent, parentVars, Inv, ShapeInv
  <2>5. ObjectsFit(statuses, specs)'
    BY <2>3, <2>4 DEF Fits, ObjectsFit, ParentFits, ChildFits
  <2>6. WorkerFits(statuses, specs)'
    BY <2>4 DEF Idle, WorkerFits, Absent, NeverCreated
  <2> QED
    BY <2>5, <2>6 DEF Fits
<1> QED
  BY <1>1, <1>2, <1>3 DEF Call

LEMMA CommonNextFits ==
  ASSUME NEW statuses, NEW specs, Reports(statuses), Inv, Fits(statuses, specs), CommonNext
  PROVE  Fits(statuses, specs)'
<1>1. ASSUME NEW n \in Names, SkipReconcile(n) PROVE Fits(statuses, specs)'
  BY <1>1, OtherFits DEF SkipReconcile, Take
<1>2. ASSUME NEW x \in Inputs, InputChange(x) PROVE Fits(statuses, specs)'
  BY <1>2, OtherFits DEF InputChange
<1> QED
  BY <1>1, <1>2, ParentStepsFit, ChildStepsFit, ManagerStepsFit, CallsFit DEF CommonNext

----------------------------------------------------------------------------
\* The bounds, the queue and how far the inputs are.

LEMMA SpendBudget ==
  ASSUME BoundsInv, NEW kind \in Kinds, Spend(kind)
  PROVE  budget' \in [Kinds -> Nat]
<1>1. budget \in [Kinds -> Nat] /\ budget[kind] \in Nat /\ budget[kind] > 0
  BY DEF BoundsInv, Spend
<1>2. budget[kind] - 1 \in Nat
  BY <1>1
<1> QED
  BY <1>1, <1>2 DEF Spend

LEMMA SameBounds ==
  ASSUME BoundsInv, UNCHANGED inputVars, queue' \in SUBSET Names, again' \in BOOLEAN,
         \/ UNCHANGED budget
         \/ \E kind \in Kinds : Spend(kind)
  PROVE  BoundsInv'
<1>1. budget' \in [Kinds -> Nat]
  BY SpendBudget DEF BoundsInv
<1>2. at' = at /\ seen' = seen
  BY DEF inputVars
<1> QED
  BY <1>1, <1>2 DEF BoundsInv

\* The informer sees how far the inputs are, or some of them.
LEMMA SeenBounds ==
  ASSUME BoundsInv, UNCHANGED at, DOMAIN seen' = Inputs,
         \A x \in Inputs : seen'[x] \in {seen[x], at[x]},
         queue' \in SUBSET Names, again' \in BOOLEAN, budget' \in [Kinds -> Nat]
  PROVE  BoundsInv'
<1>1. ASSUME NEW x \in Inputs PROVE at'[x] \in 1..Len(History[x]) /\ seen'[x] \in 1..at'[x]
  <2>1. /\ at[x] \in 1..Len(History[x]) /\ seen[x] \in 1..at[x] /\ Len(History[x]) \in Nat
        /\ at'[x] = at[x]
    BY OwnedChildAssumption DEF BoundsInv
  <2>2. at[x] \in 1..at[x]
    BY <2>1
  <2> QED
    BY <2>1, <2>2
<1> QED
  BY <1>1 DEF BoundsInv

LEMMA InputEventBounds ==
  ASSUME BoundsInv, NEW x \in Inputs, NEW affected \in SUBSET Names, InputEvent(x, affected)
  PROVE  BoundsInv'
<1>1. DOMAIN seen' = Inputs /\ \A y \in Inputs : seen'[y] \in {seen[y], at[y]}
  BY DEF BoundsInv, InputEvent
<1>2. /\ UNCHANGED <<at, again, budget>> /\ queue' \in SUBSET Names
  BY DEF BoundsInv, InputEvent, workerVars
<1> QED
  BY <1>1, <1>2, SeenBounds DEF BoundsInv

LEMMA InputChangeBounds ==
  ASSUME BoundsInv, NEW x \in Inputs, InputChange(x)
  PROVE  BoundsInv'
<1>1. /\ at' = [at EXCEPT ![x] = @ + 1] /\ UNCHANGED <<seen, queue, again>>
      /\ at[x] < Len(History[x]) /\ Spend("events")
  BY DEF InputChange, workerVars
<1>2. budget' \in [Kinds -> Nat]
  BY <1>1, SpendBudget DEF Kinds
<1>3. ASSUME NEW y \in Inputs PROVE at'[y] \in 1..Len(History[y]) /\ seen'[y] \in 1..at'[y]
  <2>1. /\ at[y] \in 1..Len(History[y]) /\ seen[y] \in 1..at[y] /\ Len(History[y]) \in Nat
        /\ at'[y] = IF y = x THEN at[y] + 1 ELSE at[y]
    BY <1>1, OwnedChildAssumption DEF BoundsInv
  <2> QED
    BY <1>1, <2>1
<1>4. DOMAIN at' = Inputs /\ DOMAIN seen' = Inputs
  BY <1>1 DEF BoundsInv
<1> QED
  BY <1>1, <1>2, <1>3, <1>4 DEF BoundsInv

LEMMA StartBounds ==
  ASSUME BoundsInv, NEW n \in Names, TakeLive(n), again' \in BOOLEAN
  PROVE  BoundsInv'
BY SameBounds DEF TakeLive, Take, BoundsInv, Kinds

LEMMA CommonNextBounds ==
  ASSUME Inv, BoundsInv, CommonNext
  PROVE  BoundsInv'
<1>1. queue \in SUBSET Names /\ again \in BOOLEAN
  BY DEF BoundsInv
<1>2. ASSUME NEW n \in Names,
             \/ UserEdit(n) \/ UserDelete(n) \/ UserDeleteChild(n) \/ ProvisionFails(n)
             \/ CollectChild(n) \/ CollectParent(n) \/ Provision(n)
      PROVE  BoundsInv'
  BY <1>1, <1>2, SameBounds
     DEF UserEdit, UserDelete, UserDeleteChild, ProvisionFails, CollectChild, CollectParent,
         Provision, workerVars, Kinds
<1>3. ASSUME NEW n \in Names, WatchEvent(n) \/ ChildEvent(n) \/ SkipReconcile(n)
      PROVE  BoundsInv'
  BY <1>1, <1>3, SameBounds
     DEF WatchEvent, ChildEvent, SkipReconcile, Take, Owners, workerVars
<1>4. ASSUME Restart PROVE BoundsInv'
  <2>1. seen' = at /\ UNCHANGED at /\ queue' \in SUBSET Names /\ again' \in BOOLEAN
    BY <1>4 DEF Restart, Idle
  <2>2. budget' \in [Kinds -> Nat]
    BY <1>4, SpendBudget DEF Restart, Kinds
  <2> QED
    BY <2>1, <2>2, SeenBounds DEF BoundsInv
<1>5. ASSUME Call PROVE BoundsInv'
  <2>1. UNCHANGED inputVars /\ queue' \in SUBSET Names /\ again' \in BOOLEAN
    <3>1. CASE CreateChild \/ UpdateChild
      BY <1>1, <3>1 DEF CreateChild, UpdateChild, ChildWrite, ToStatus, Failed
    <3>2. CASE WriteStatus
      BY <1>1, <3>2 DEF WriteStatus, Finish, Idle, Inv, WorkerInv
    <3> QED
      BY <1>5, <3>1, <3>2 DEF Call
  <2>2. UNCHANGED budget \/ \E kind \in Kinds : Spend(kind)
    BY <1>5 DEF Call, CreateChild, UpdateChild, ChildWrite, WriteStatus, Kinds
  <2> QED
    BY <2>1, <2>2, SameBounds
<1> QED
  BY <1>2, <1>3, <1>4, <1>5, InputChangeBounds DEF CommonNext
=============================================================================
