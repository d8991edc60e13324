----------------------------- MODULE OwnedChild -----------------------------
(***************************************************************************)
(* What the SIPNumber and the AgentRoute controllers have in common        *)
(* (internal/controller/sipnumber_controller.go, agentroute_controller.go):*)
(* for each custom resource, the parent, they keep a child of the same     *)
(* name, whose spec is computed from the parent and from other resources,  *)
(* the inputs, and copy the child's id and readiness to the parent's       *)
(* status.                                                                 *)
(*                                                                         *)
(* These controllers never talk to LiveKit.  What they have to live with   *)
(* is three lagging caches (of parents, of children, of inputs), another   *)
(* controller that writes the child, the garbage collector, and users who  *)
(* delete and recreate both kinds of objects.                              *)
(***************************************************************************)
EXTENDS FiniteSets, Sequences, KubeObject

CONSTANTS
  Names,       \* names of the parents, and of their children
  SpecsOf,     \* SpecsOf[n]: the specs users ever give parent n
  Inputs,      \* names of the resources the children are computed from
  History,     \* History[x]: the contents input x successively has
  Nothing,     \* stands for a spec or a status nobody has written
  Missing,     \* content of an input that does not exist
  NoKey,       \* the worker holds no key
  Budgets      \* bounds: how many of each kind of event a behaviour may have

\* Delete requests; other events (edits, changes of inputs, children deleted by hand,
\* faults); and reconciles of parents that are deleted and still cached.
Kinds == {"deletes", "events", "ghosts"}

ASSUME OwnedChildAssumption ==
  /\ \A n \in Names : SpecsOf[n] # {}
  /\ \A x \in Inputs : /\ Len(History[x]) \in Nat \ {0}
                        /\ DOMAIN History[x] = 1..Len(History[x])
  /\ NoKey \notin Names
  /\ Budgets \subseteq [Kinds -> Nat] /\ Budgets # {}

VARIABLES
  api,      \* the parents in the API server
  cache,    \* the informer's copies
  child,    \* the child of each name in the API server
  known,    \* the informer's copies
  at,       \* how far the history of each input has come
  seen,     \* and how far the informer has seen it
  queue,    \* the work queue
  pc, key,  \* the worker: the call it makes next, the name it is reconciling
  obj,      \* the parent it has read
  copy,     \* the child as it has read it
  want,     \* the spec it wants the child to have
  draft,    \* the status it is going to write
  again,    \* whether it asks to be called again
  budget    \* what is left of the bounds

parentVars == <<api, cache>>
inputVars  == <<at, seen>>
workerVars == <<pc, key, obj, copy, want, draft, again>>
vars == <<parentVars, child, known, inputVars, queue, workerVars, budget>>

Absent == NeverCreated(Nothing, Nothing)

\* The id in a status (trunkID, dispatchRuleID): each LiveKit object ever created for a
\* child has a number of its own, here that of the child's incarnation.
NoId == 0

\* A child's status, as far as it is copied to the parent.
ChildStatus(id, ready) == [id |-> id, ready |-> ready]

Content(x, upto) == History[x][upto[x]]

\* The type invariant, given those of the parents' and the children's specs.
ObjectsOK(ParentOK(_), ChildOK(_)) ==
  /\ \A o \in {api[n] : n \in Names} \cup {cache[n] : n \in Names} \cup {obj} :
       o.exists => ParentOK(o)
  /\ \A o \in {child[n] : n \in Names} \cup {known[n] : n \in Names} \cup {copy} :
       o.exists => ChildOK(o.spec) /\ o.status.id \in {NoId, o.uid}
  /\ pc \in {"create", "update"} => ChildOK(want)
  /\ \A x \in Inputs : at[x] \in 1..Len(History[x]) /\ seen[x] \in 1..at[x]
  /\ queue \in SUBSET Names /\ key \in Names \cup {NoKey} /\ again \in BOOLEAN
  /\ pc \in {"idle", "create", "update", "status"} /\ ((key = NoKey) <=> (pc = "idle"))
  /\ budget \in [Kinds -> Nat]

----------------------------------------------------------------------------
\* Environment: users, the garbage collector, the controller of the children.

Spend(kind) == budget[kind] > 0 /\ budget' = [budget EXCEPT ![kind] = @ - 1]

StoreParent(n, o) == api' = [api EXCEPT ![n] = o] /\ UNCHANGED cache

StoreChild(n, o) == child' = [child EXCEPT ![n] = o]

UserCreate(n, newStatus) ==
  /\ ~api[n].exists
  /\ \E s \in SpecsOf[n] : StoreParent(n, Creation(api[n], s, newStatus))
  /\ UNCHANGED <<child, known, inputVars, queue, workerVars, budget>>

UserEdit(n) ==
  /\ api[n].exists
  /\ Spend("events")
  /\ \E s \in SpecsOf[n] \ {api[n].spec} : StoreParent(n, SpecEdit(api[n], s))
  /\ UNCHANGED <<child, known, inputVars, queue, workerVars>>

\* A parent has no finalizer: it goes at once, unless its deletion is in the foreground,
\* which puts a finalizer on it and waits for its child to go first.
UserDelete(n) ==
  /\ api[n].exists /\ ~api[n].deleting
  /\ Spend("deletes")
  /\ \E foreground \in BOOLEAN :
       StoreParent(n, DeleteRequest([api[n] EXCEPT !.finalizer = foreground]))
  /\ UNCHANGED <<child, known, inputVars, queue, workerVars>>

UserDeleteChild(n) ==
  /\ child[n].exists /\ ~child[n].deleting
  /\ Spend("events")
  /\ StoreChild(n, DeleteRequest(child[n]))
  /\ UNCHANGED <<parentVars, known, inputVars, queue, workerVars>>

InputChange(x) ==
  /\ at[x] < Len(History[x])
  /\ Spend("events")
  /\ at' = [at EXCEPT ![x] = @ + 1]
  /\ UNCHANGED <<parentVars, child, known, seen, queue, workerVars>>

\* The garbage collector deletes a child whose owner is gone or waits for it ...
CollectChild(n) ==
  /\ child[n].exists /\ ~child[n].deleting /\ child[n].spec.owner # 0
  /\ ~api[n].exists \/ api[n].deleting \/ api[n].uid # child[n].spec.owner
  /\ StoreChild(n, DeleteRequest(child[n]))
  /\ UNCHANGED <<parentVars, known, inputVars, queue, workerVars, budget>>

\* ... and then lets an owner that waits go.
CollectParent(n) ==
  /\ api[n].exists /\ api[n].deleting
  /\ ~(child[n].exists /\ child[n].spec.owner = api[n].uid)
  /\ StoreParent(n, Removal(api[n]))
  /\ UNCHANGED <<child, known, inputVars, queue, workerVars, budget>>

\* What the controller of the children does to a child in the end: it adds its finalizer
\* and records what it has created in LiveKit, and removes what is to be deleted.
Provision(n) ==
  /\ child[n].exists
  /\ \/ /\ ~child[n].deleting /\ child[n].status.ready # "Ready"
        /\ StoreChild(n, StatusWrite(FinalizerAdded(child[n]),
                                     ChildStatus(child[n].uid, "Ready")))
     \/ child[n].deleting /\ StoreChild(n, Removal(child[n]))
  /\ UNCHANGED <<parentVars, known, inputVars, queue, workerVars, budget>>

\* And what it reports when a call to LiveKit fails.
ProvisionFails(n) ==
  /\ child[n].exists /\ ~child[n].deleting
  /\ Spend("events")
  /\ LET id == child[n].status.id IN
       StoreChild(n, StatusWrite(FinalizerAdded(child[n]),
                    ChildStatus(id, IF id = NoId THEN "CreateFailed" ELSE "UpdateFailed")))
  /\ UNCHANGED <<parentVars, known, inputVars, queue, workerVars>>

----------------------------------------------------------------------------
\* The manager: informers, work queue, process.

\* An informer's copy lags by as much as it likes, and catches up in one step.
WatchEvent(n) ==
  /\ cache[n] # api[n]
  /\ cache' = [cache EXCEPT ![n] = api[n]]
  /\ queue' = queue \cup {n}
  /\ UNCHANGED <<api, child, known, inputVars, workerVars, budget>>

\* Slip: the events of children do not lead to their owners.
Owners_None(o, n) == {}

\* Owns: the event of a child puts the parent its owner reference names on the queue.
Owners(o, n) == IF o.uid # 0 /\ o.spec.owner # 0 THEN {n} ELSE {}

ChildEvent(n) ==
  /\ known[n] # child[n]
  /\ known' = [known EXCEPT ![n] = child[n]]
  /\ queue' = queue \cup Owners(known[n], n) \cup Owners(child[n], n)
  /\ UNCHANGED <<parentVars, child, inputVars, workerVars, budget>>

\* affected: the parents the controller's map function finds for the input.
InputEvent(x, affected) ==
  /\ seen[x] # at[x]
  /\ seen' = [seen EXCEPT ![x] = at[x]]
  /\ queue' = queue \cup affected
  /\ UNCHANGED <<parentVars, child, known, at, workerVars, budget>>

Idle ==
  /\ pc' = "idle" /\ key' = NoKey /\ obj' = Absent /\ copy' = Absent /\ want' = Nothing
  /\ draft' = Nothing /\ again' = FALSE

Restart ==
  /\ Spend("events")
  /\ cache' = api /\ known' = child /\ seen' = at
  /\ queue' = {n \in Names : api[n].exists}
  /\ Idle
  /\ UNCHANGED <<api, child, at>>

----------------------------------------------------------------------------
\* Reconcile, as far as the two controllers agree.

Take(n) ==
  /\ pc = "idle" /\ n \in queue /\ queue' = queue \ {n}
  /\ UNCHANGED <<parentVars, child, known, inputVars>>

SkipReconcile(n) ==
  /\ Take(n)
  /\ ~cache[n].exists \/ cache[n].deleting
  /\ UNCHANGED <<workerVars, budget>>

\* The parent the worker finds in the cache is gone, or about to go.
Ghost(n) == ~api[n].exists \/ api[n].deleting \/ api[n].uid # cache[n].uid

TakeLive(n) ==
  /\ Take(n)
  /\ cache[n].exists /\ ~cache[n].deleting
  /\ key' = n /\ obj' = cache[n]
  /\ \/ ~Ghost(n) /\ UNCHANGED budget
     \/ Ghost(n) /\ Spend("ghosts")

\* The worker goes on to write the status, and is done with the child.
ToStatus(status, requeue) ==
  /\ pc' = "status" /\ draft' = status /\ again' = requeue
  /\ copy' = Absent /\ want' = Nothing

\* An error is reported, and the parent is looked at again later.
Failed(o, reason) == ToStatus([o.status EXCEPT !.ready = reason], TRUE)

\* The readiness a parent copies from its child.
Readiness(trunk) ==
  IF trunk.id = NoId \/ trunk.ready = "Unset" THEN "Pending" ELSE trunk.ready

\* The status the child has as read from the cache, or will have when created.
StatusRead(n) == IF known[n].exists THEN known[n].status ELSE ChildStatus(NoId, "Unset")

\* CreateOrUpdate reads the child from the cache, and creates it, updates it, or finds
\* that it has the spec and owner it should have.
KeepChild(n, new, status) ==
  LET old == known[n]
      Go(step) == /\ pc' = step /\ copy' = old /\ want' = new
                  /\ draft' = status /\ UNCHANGED again
  IN  \/ ~old.exists /\ Go("create")
      \/ old.exists /\ old.spec # new /\ Go("update")
      \/ old.exists /\ old.spec = new /\ ToStatus(status, FALSE)

\* The write of the child succeeds, is refused, or fails before or after it has taken
\* effect.  A write that succeeds is one of the very version the worker has read, so that
\* the status it returns is the one the draft has been made from.
ChildWrite(accepted, stored) ==
  /\ \/ accepted /\ StoreChild(key, stored) /\ ToStatus(draft, FALSE) /\ UNCHANGED budget
     \/ ~accepted /\ Failed(obj, "SyncFailed") /\ UNCHANGED <<child, budget>>
     \/ Spend("events") /\ Failed(obj, "SyncFailed") /\ UNCHANGED child
     \/ Spend("events") /\ accepted /\ StoreChild(key, stored) /\ Failed(obj, "SyncFailed")
  /\ UNCHANGED <<parentVars, known, inputVars, queue, key, obj>>

CreateChild ==
  /\ pc = "create"
  /\ ChildWrite(~child[key].exists, Creation(child[key], want, ChildStatus(NoId, "Unset")))

UpdateChild ==
  /\ pc = "update"
  /\ ChildWrite(Accepts(child[key], copy), SpecEdit(child[key], want))

Finish(requeue) == Idle /\ queue' = IF requeue THEN queue \cup {key} ELSE queue

WriteStatus ==
  /\ pc = "status"
  /\ \/ /\ Accepts(api[key], obj) /\ StoreParent(key, StatusWrite(api[key], draft))
        /\ Finish(again) /\ UNCHANGED budget
     \/ ~Accepts(api[key], obj) /\ Finish(TRUE) /\ UNCHANGED <<parentVars, budget>>
     \/ Spend("events") /\ Finish(TRUE) /\ UNCHANGED parentVars
  /\ UNCHANGED <<child, known, inputVars>>

----------------------------------------------------------------------------
Init ==
  /\ api = [n \in Names |-> Absent] /\ cache = api
  /\ child = [n \in Names |-> Absent] /\ known = child
  /\ at = [x \in Inputs |-> 1] /\ seen = at
  /\ queue = {}
  /\ pc = "idle" /\ key = NoKey /\ obj = Absent /\ copy = Absent /\ want = Nothing
  /\ draft = Nothing /\ again = FALSE
  /\ budget \in Budgets

\* The worker's calls.
Call == CreateChild \/ UpdateChild \/ WriteStatus

\* All steps but those in which the two controllers differ: creations, the events of
\* inputs, and the start of a reconcile.
CommonNext ==
  \/ \E n \in Names : \/ UserEdit(n) \/ UserDelete(n) \/ UserDeleteChild(n)
                      \/ CollectChild(n) \/ CollectParent(n)
                      \/ Provision(n) \/ ProvisionFails(n)
                      \/ WatchEvent(n) \/ ChildEvent(n) \/ SkipReconcile(n)
  \/ \E x \in Inputs : InputChange(x)
  \/ Restart
  \/ Call

\* The manager serves its workers, and the garbage collector and the controller of the
\* children do their work in the end.
CommonFairness ==
  /\ \A n \in Names : /\ WF_vars(WatchEvent(n)) /\ WF_vars(ChildEvent(n))
                      /\ WF_vars(CollectChild(n)) /\ WF_vars(CollectParent(n))
                      /\ WF_vars(Provision(n))
  /\ WF_vars(Call)

----------------------------------------------------------------------------
\* Properties of both.

\* A parent whose status shows an id owns the child of its name, as long as that is there:
\* a parent that is created again under its old name has first taken over the child of its
\* predecessor, from whatever copies it has read, and never gives it back.
OwnsWhatItShows ==
  \A n \in Names :
    api[n].exists /\ api[n].status.id # NoId /\ child[n].exists
      => child[n].spec.owner = api[n].uid

\* A parent that is gone takes its child with it, unless it is created again.
ChildrenCollected ==
  \A n \in Names : ~api[n].exists ~> (~child[n].exists \/ api[n].exists)
=============================================================================
