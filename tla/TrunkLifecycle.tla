--------------------------- MODULE TrunkLifecycle ---------------------------
(***************************************************************************)
(* What the SIPInboundTrunk controller promises, told without API server,  *)
(* caches, calls or secrets: how a resource and the trunk LiveKit keeps    *)
(* for it live and go together.                                            *)
(***************************************************************************)
EXTENDS TLAPS

CONSTANTS
  Trunks,   \* names of the resources
  Ids,      \* trunk ids
  NoId      \* no id is recorded

VARIABLES
  phase,    \* where each resource stands
  held,     \* the trunk id each resource has recorded
  trunk,    \* what each id stands for in LiveKit
  lost      \* the ids LiveKit failed to delete

vars == <<phase, held, trunk, lost>>

Phases == {"absent", "pending", "synced", "deleting"}

TypeOK ==
  /\ phase \in [Trunks -> Phases]
  /\ held \in [Trunks -> Ids \cup {NoId}]
  /\ trunk \in [Ids -> {"unused", "live", "deleted"}]
  /\ lost \in SUBSET Ids

Wanted(t) == phase[t] \in {"pending", "synced"}

Moves(t, to) == phase' = [phase EXCEPT ![t] = to]

\* The resource is created.
Request(t) ==
  /\ phase[t] = "absent"
  /\ Moves(t, "pending")
  /\ UNCHANGED <<held, trunk, lost>>

\* Its spec is edited.
Edit(t) ==
  /\ phase[t] = "synced"
  /\ Moves(t, "pending")
  /\ UNCHANGED <<held, trunk, lost>>

\* Its deletion is requested.
Doom(t) ==
  /\ Wanted(t)
  /\ Moves(t, "deleting")
  /\ UNCHANGED <<held, trunk, lost>>

\* It goes away at once: nothing has been recorded yet.
Drop(t) ==
  /\ Wanted(t) /\ held[t] = NoId
  /\ Moves(t, "absent")
  /\ UNCHANGED <<held, trunk, lost>>

\* LiveKit makes a trunk.
Make(id) ==
  /\ trunk[id] = "unused"
  /\ trunk' = [trunk EXCEPT ![id] = "live"]
  /\ UNCHANGED <<phase, held, lost>>

\* A resource without an id records one of a trunk that is there and is nobody else's.
Takes(t, id) ==
  /\ phase[t] = "pending"
  /\ held[t] \in {NoId, id}
  /\ trunk[id] = "live"
  /\ \A u \in Trunks \ {t} : held[u] # id
  /\ held' = [held EXCEPT ![t] = id]
  /\ UNCHANGED <<trunk, lost>>

Record(t, id) == Takes(t, id) /\ UNCHANGED phase

\* The status says that LiveKit has what the spec asks for.
Sync(t, id) == Takes(t, id) /\ Moves(t, "synced")

\* A trunk is deleted, or its deletion fails, or both as far as anybody knows: only
\* when no resource that is to stay has recorded it.
Release(id) ==
  /\ \A t \in Trunks : Wanted(t) => held[t] # id
  /\ trunk' \in {trunk, [trunk EXCEPT ![id] = "deleted"]}
  /\ lost' \in {lost, lost \cup {id}}
  /\ UNCHANGED <<phase, held>>

\* A doomed resource goes away after the trunk it has recorded.
Retire(t) ==
  /\ phase[t] = "deleting"
  /\ held[t] # NoId => trunk[held[t]] # "live" \/ held[t] \in lost
  /\ Moves(t, "absent")
  /\ held' = [held EXCEPT ![t] = NoId]
  /\ UNCHANGED <<trunk, lost>>

Init ==
  /\ phase = [t \in Trunks |-> "absent"]
  /\ held = [t \in Trunks |-> NoId]
  /\ trunk = [id \in Ids |-> "unused"]
  /\ lost = {}

Next ==
  \/ \E t \in Trunks : Request(t) \/ Edit(t) \/ Doom(t) \/ Drop(t) \/ Retire(t)
  \/ \E t \in Trunks, id \in Ids : Record(t, id) \/ Sync(t, id)
  \/ \E id \in Ids : Make(id) \/ Release(id)

Spec == Init /\ [][Next]_vars

----------------------------------------------------------------------------
\* No trunk is recorded by two resources: deleting one never takes the other's trunk
\* away, and the two never overwrite each other's spec in LiveKit.
Exclusive ==
  \A t, u \in Trunks : held[t] # NoId /\ held[t] = held[u] => t = u

\* A resource that says it is synced has a trunk in LiveKit.
SyncedIsServed ==
  \A t \in Trunks : phase[t] = "synced" => held[t] \in Ids /\ trunk[held[t]] = "live"

Inv == TypeOK /\ Exclusive /\ SyncedIsServed

\* Exclusive and SyncedIsServed follow from the transitions alone, for any number of
\* resources and ids.
THEOREM OwnTrunks == Spec => []Inv
<1>1. Init => Inv
  BY DEF Init, Inv, TypeOK, Exclusive, SyncedIsServed, Phases
<1>2. ASSUME Inv, [Next]_vars PROVE Inv'
  <2> USE <1>2 DEF Inv, TypeOK, Exclusive, SyncedIsServed, Phases, Moves, Wanted
  <2>1. ASSUME NEW t \in Trunks, Request(t) \/ Edit(t) \/ Doom(t) \/ Drop(t) PROVE Inv'
    BY <2>1 DEF Request, Edit, Doom, Drop
  <2>2. ASSUME NEW t \in Trunks, Retire(t) PROVE Inv'
    BY <2>2 DEF Retire
  <2>3. ASSUME NEW t \in Trunks, NEW id \in Ids, Record(t, id) \/ Sync(t, id) PROVE Inv'
    BY <2>3 DEF Record, Sync, Takes
  <2>4. ASSUME NEW id \in Ids, Make(id) PROVE Inv'
    BY <2>4 DEF Make
  <2>5. ASSUME NEW id \in Ids, Release(id) PROVE Inv'
    BY <2>5 DEF Release
  <2>6. CASE UNCHANGED vars
    BY <2>6 DEF vars
  <2> QED
    BY <2>1, <2>2, <2>3, <2>4, <2>5, <2>6 DEF Next
<1> QED
  BY <1>1, <1>2, PTL DEF Spec
=============================================================================
