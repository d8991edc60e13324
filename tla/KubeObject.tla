----------------------------- MODULE KubeObject -----------------------------
(***************************************************************************)
(* One custom resource as the Kubernetes API server stores it, and what    *)
(* each request does to it.  The API server is not part of the repository: *)
(* these operators say how the controllers' calls (Get, Update,            *)
(* Status().Update) and the users' requests act on the stored object.      *)
(*                                                                         *)
(* An object is a record                                                   *)
(*   [exists, rv, uid, generation, deleting, finalizer, spec, status]      *)
(* rv is metadata.resourceVersion: it grows with every write that changes  *)
(* the object and is what optimistic concurrency compares.  uid numbers    *)
(* the incarnations of a name.  generation grows when the spec changes and *)
(* when deletion is requested, and restarts at 1 with a new incarnation;   *)
(* metadata and status writes leave it alone.  An object with              *)
(* exists = FALSE stands for its absence (and, in a watch, for the delete  *)
(* event).                                                                 *)
(***************************************************************************)
EXTENDS Naturals

\* The set of such objects, for given sets of specs and of statuses.
ObjectSet(specs, statuses) ==
  [exists: BOOLEAN, rv: Nat, uid: Nat, generation: Nat, deleting: BOOLEAN,
   finalizer: BOOLEAN, spec: specs, status: statuses]

\* A name no object has yet had; spec and status are place holders.
NeverCreated(spec, status) ==
  [exists |-> FALSE, rv |-> 0, uid |-> 0, generation |-> 0, deleting |-> FALSE,
   finalizer |-> FALSE, spec |-> spec, status |-> status]

\* A write bumps the resource version, unless it changes nothing.
Stored(old, new) == IF new = old THEN old ELSE [new EXCEPT !.rv = old.rv + 1]

\* A new incarnation of the name of the absent object o.
Creation(o, spec, status) ==
  [exists |-> TRUE, rv |-> o.rv + 1, uid |-> o.uid + 1, generation |-> 1,
   deleting |-> FALSE, finalizer |-> FALSE, spec |-> spec, status |-> status]

\* Editing the spec and marking for deletion start a new generation.
NextGeneration(o, spec, deleting) ==
  [exists |-> TRUE, rv |-> o.rv + 1, uid |-> o.uid, generation |-> o.generation + 1,
   deleting |-> deleting, finalizer |-> o.finalizer, spec |-> spec, status |-> o.status]

SpecEdit(o, spec) == NextGeneration(o, spec, o.deleting)

Removal(o) ==
  [exists |-> FALSE, rv |-> o.rv + 1, uid |-> o.uid, generation |-> o.generation,
   deleting |-> FALSE, finalizer |-> FALSE, spec |-> o.spec, status |-> o.status]

\* A delete request removes the object at once, or marks it while a finalizer holds it.
DeleteRequest(o) ==
  IF o.finalizer THEN NextGeneration(o, o.spec, TRUE) ELSE Removal(o)

\* The API server accepts a write of a copy that is still the stored version;
\* otherwise it answers Conflict, or NotFound when the object is gone.
Accepts(stored, copy) == stored.exists /\ stored.rv = copy.rv

StatusWrite(o, status) == Stored(o, [o EXCEPT !.status = status])

FinalizerAdded(o) == Stored(o, [o EXCEPT !.finalizer = TRUE])

\* Dropping the only finalizer of an object that is being deleted removes it.
FinalizerDropped(o) ==
  IF o.deleting THEN Removal(o) ELSE Stored(o, [o EXCEPT !.finalizer = FALSE])
=============================================================================
