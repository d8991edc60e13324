-------------------------- MODULE SIPTrunks_proofs --------------------------
(***************************************************************************)
(* Proofs that the two trunk controllers do not disturb each other, and    *)
(* that what is proved of one alone therefore holds of both together.      *)
(***************************************************************************)
EXTENDS SIPTrunks, FiniteSetTheorems, TLAPS

\* What is proved of one controller, for each side and LiveKit as it sees it.
InP == INSTANCE SIPInboundTrunk_proofs WITH
  Kind <- "inbound", Settings <- InboundSettings, Payload <- InboundPayload,
  Trunks <- InTrunks, SpecsOf <- InSpecsOf,
  Budgets <- {AnyOthers(b.inbound) : b \in Budgets},
  api <- inApi, watch <- inWatch, cache <- inCache, queue <- inQueue, pc <- inPc,
  key <- inKey, obj <- inObj, draft <- inDraft, again <- inAgain,
  abandoned <- inAbandoned, budget <- AnyOthers(inBudget), remote <- OfKind("inbound")

OutP == INSTANCE SIPInboundTrunk_proofs WITH
  Kind <- "outbound", Settings <- OutboundSettings, Payload <- OutboundPayload,
  Trunks <- OutTrunks, SpecsOf <- OutSpecsOf,
  Budgets <- {AnyOthers(b.outbound) : b \in Budgets},
  api <- outApi, watch <- outWatch, cache <- outCache, queue <- outQueue, pc <- outPc,
  key <- outKey, obj <- outObj, draft <- outDraft, again <- outAgain,
  abandoned <- outAbandoned, budget <- AnyOthers(outBudget), remote <- OfKind("outbound")

\* Every id is unused, or was given to a trunk of one of the two kinds.
RemoteKinds ==
  /\ remote = [id \in Ids |-> remote[id]]
  /\ \A id \in Ids :
       \/ remote[id] = In!Unused
       \/ /\ remote[id].state \in {"live", "deleted"}
          /\ remote[id].kind \in {"inbound", "outbound"}

\* What the controller of a kind does to LiveKit: it changes one of its own ids, or takes
\* one that is unused.
Touches(kind) ==
  /\ UNCHANGED readable
  /\ \/ UNCHANGED remote
     \/ \E id \in Ids :
          /\ remote[id] = In!Unused \/ remote[id].kind = kind
          /\ remote'[id].state \in {"live", "deleted"} /\ remote'[id].kind = kind
          /\ remote' = [remote EXCEPT ![id] = remote'[id]]

\* An id as the controller of a kind sees it.
LEMMA IdSeen ==
  ASSUME RemoteKinds, NEW kind \in {"inbound", "outbound"}, NEW id \in Ids
  PROVE  LET view == OfKind(kind) IN
           /\ remote[id].state = "live" /\ remote[id].kind = kind
                <=> view[id].state = "live" /\ view[id].kind = kind
           /\ view[id] = In!Unused <=> remote[id] = In!Unused
           /\ view[id].state \in {"live", "deleted"}
                <=> /\ remote[id].state \in {"live", "deleted"}
                    /\ remote[id].kind = kind
           /\ remote[id].state \in {"live", "deleted"} /\ remote[id].kind = kind
                => view[id] = remote[id]
  BY DEF RemoteKinds, OfKind, In!Foreign, In!Unused

\* What does not touch LiveKit does not change what is seen of it.
LEMMA SeenAlike ==
  ASSUME NEW kind, remote' = remote
  PROVE  OfKind(kind)' = OfKind(kind)
  BY DEF OfKind, In!Foreign

\* To the other controller, nothing happens, or an id goes to a trunk of another kind.
LEMMA SeenForeign ==
  ASSUME RemoteKinds, NEW kind \in {"inbound", "outbound"},
         NEW other \in {"inbound", "outbound"} \ {kind}, Touches(other)
  PROVE  \/ OfKind(kind)' = OfKind(kind)
         \/ \E id \in Ids : /\ OfKind(kind)[id] = In!Unused
                            /\ OfKind(kind)' = [OfKind(kind) EXCEPT ![id] = In!Foreign]
<1>1. CASE remote' = remote
  BY <1>1, SeenAlike
<1>2. CASE remote' # remote
  <2>1. PICK id \in Ids :
          /\ remote[id] = In!Unused \/ remote[id].kind = other
          /\ remote'[id].state \in {"live", "deleted"} /\ remote'[id].kind = other
          /\ remote' = [remote EXCEPT ![id] = remote'[id]]
    BY <1>2 DEF Touches
  <2>2. PICK copy : copy = remote'[id]
    OBVIOUS
  <2>3. /\ copy.state \in {"live", "deleted"} /\ copy.kind = other
        /\ remote' = [remote EXCEPT ![id] = copy]
    BY <2>1, <2>2
  <2>4. CASE remote[id] = In!Unused
    <3>1. OfKind(kind)[id] = In!Unused
      BY <2>4 DEF OfKind, In!Unused
    <3>2. OfKind(kind)' = [OfKind(kind) EXCEPT ![id] = In!Foreign]
      BY <2>3, <2>4 DEF RemoteKinds, OfKind, In!Foreign
    <3> QED
      BY <3>1, <3>2
  <2>5. CASE remote[id] # In!Unused /\ remote[id].kind = other
    <3>1. remote[id].state # "unused"
      BY <2>5 DEF RemoteKinds
    <3> QED
      BY <2>3, <2>5, <3>1 DEF RemoteKinds, OfKind, In!Foreign
  <2> QED
    BY <2>1, <2>4, <2>5
<1> QED
  BY <1>1, <1>2

\* Neither controller gives an id a third kind, or takes one back.
LEMMA KindsKept ==
  ASSUME RemoteKinds, NEW kind \in {"inbound", "outbound"}, Touches(kind)
  PROVE  RemoteKinds'
  BY DEF RemoteKinds, Touches

\* The bounds of a side count its own events.
LEMMA InSpendSeen ==
  ASSUME inBudget \in [In!Events -> Nat], NEW kind \in {"edits", "deletes", "faults"},
         In!Spend(kind)
  PROVE  InP!Spend(kind)
  BY DEF In!Spend, InP!Spend, AnyOthers, In!Events

\* A side that spends nothing keeps its bounds.
LEMMA InNoneSpent ==
  ASSUME inBudget' = inBudget
  PROVE  AnyOthers(inBudget)' = AnyOthers(inBudget)
  BY DEF AnyOthers

\* The same of the outbound side.
LEMMA OutSpendSeen ==
  ASSUME outBudget \in [In!Events -> Nat], NEW kind \in {"edits", "deletes", "faults"},
         Out!Trunk!Spend(kind)
  PROVE  OutP!Spend(kind)
  BY DEF Out!Trunk!Spend, OutP!Spend, AnyOthers, In!Events

\* A side that spends nothing keeps its bounds.
LEMMA OutNoneSpent ==
  ASSUME outBudget' = outBudget
  PROVE  AnyOthers(outBudget)' = AnyOthers(outBudget)
  BY DEF AnyOthers

----------------------------------------------------------------------------
\* The inbound controller.

\* Users.
LEMMA InUsersSeen ==
  ASSUME inBudget \in [In!Events -> Nat], In!Users
  PROVE  InP!Users
<1> USE DEF In!kubeVars, InP!kubeVars, In!workerVars, InP!workerVars,
            In!NoStatus, InP!NoStatus, In!Store, InP!Store,
            In!NextGeneration, InP!NextGeneration
<1>1. ASSUME NEW t \in InTrunks, In!UserCreate(t) PROVE InP!UserCreate(t)
  BY <1>1, SeenAlike, InNoneSpent
     DEF In!UserCreate, InP!UserCreate, In!Creation, InP!Creation
<1>2. ASSUME NEW t \in InTrunks, In!UserEdit(t) PROVE InP!UserEdit(t)
  BY <1>2, SeenAlike, InSpendSeen
     DEF In!UserEdit, InP!UserEdit, In!SpecEdit, InP!SpecEdit
<1>3. ASSUME NEW t \in InTrunks, In!UserDelete(t) PROVE InP!UserDelete(t)
  BY <1>3, SeenAlike, InSpendSeen
     DEF In!UserDelete, InP!UserDelete, In!DeleteRequest, InP!DeleteRequest,
         In!Removal, InP!Removal
<1> QED
  BY <1>1, <1>2, <1>3 DEF In!Users, InP!Users

\* What an idle worker holds.
LEMMA InBlanksSeen == In!NoObject = InP!NoObject /\ In!NoStatus = InP!NoStatus
  BY DEF In!NoObject, InP!NoObject, In!NoStatus, InP!NoStatus,
         In!NeverCreated, InP!NeverCreated, In!TrunkSpec, InP!TrunkSpec

\* What happens to secrets and processes.
LEMMA InSharedSeen ==
  ASSUME inBudget \in [In!Events -> Nat]
  PROVE  /\ In!SecretLost => InP!SecretLost
         /\ In!SecretRestored => InP!SecretRestored
         /\ In!Restart => InP!Restart
         /\ In!SecretLost \/ In!SecretRestored \/ In!Restart =>
              UNCHANGED remote /\ inBudget' \in [In!Events -> Nat]
<1> USE DEF In!kubeVars, InP!kubeVars, In!workerVars, InP!workerVars
<1>1. In!SecretLost => InP!SecretLost
  BY SeenAlike, InSpendSeen DEF In!SecretLost, InP!SecretLost
<1>2. In!SecretRestored => InP!SecretRestored
  BY SeenAlike, InNoneSpent DEF In!SecretRestored, InP!SecretRestored
<1>3. In!Restart => InP!Restart
  BY SeenAlike, InSpendSeen, InBlanksSeen DEF In!Restart, InP!Restart
<1>4. In!SecretLost \/ In!SecretRestored \/ In!Restart =>
        UNCHANGED remote /\ inBudget' \in [In!Events -> Nat]
  BY DEF In!SecretLost, In!SecretRestored, In!Restart, In!Spend, In!Events
<1> QED
  BY <1>1, <1>2, <1>3, <1>4

\* The informer, and a reconcile up to its first call, do not look at LiveKit.
LEMMA InReconcileSeen ==
  ASSUME NEW t \in InTrunks, In!WatchEvent(t) \/ In!Resync(t) \/ In!Reconcile(t)
  PROVE  InP!WatchEvent(t) \/ InP!Resync(t) \/ InP!Reconcile(t)
<1> USE SeenAlike, InNoneSpent
    DEF In!kubeVars, InP!kubeVars, In!workerVars, InP!workerVars
<1>1. In!WatchEvent(t) => InP!WatchEvent(t)
  BY DEF In!WatchEvent, InP!WatchEvent
<1>2. In!Resync(t) => InP!Resync(t)
  BY DEF In!Resync, InP!Resync
<1> USE DEF In!Take, InP!Take, In!Proceed, InP!Proceed
<1>3. In!SkipReconcile(t) => InP!SkipReconcile(t)
  BY DEF In!SkipReconcile, InP!SkipReconcile, In!NothingToDo, InP!NothingToDo
<1>4. In!StartDelete(t) => InP!StartDelete(t)
  BY DEF In!StartDelete, InP!StartDelete, In!DeleteStep, InP!DeleteStep
<1>5. In!StartAddFinalizer(t) => InP!StartAddFinalizer(t)
  BY DEF In!StartAddFinalizer, InP!StartAddFinalizer
<1> USE DEF In!TakeWanted, InP!TakeWanted, In!Report, InP!Report
<1>6. In!LiveKitSecretError(t) => InP!LiveKitSecretError(t)
  BY DEF In!LiveKitSecretError, InP!LiveKitSecretError
<1>7. In!AuthSecretError(t) => InP!AuthSecretError(t)
  BY DEF In!AuthSecretError, InP!AuthSecretError
<1> USE DEF In!TakeResolved, InP!TakeResolved, In!AuthResolved, InP!AuthResolved,
            In!UpToDate, InP!UpToDate
<1>8. In!StartCreate(t) => InP!StartCreate(t)
  BY DEF In!StartCreate, InP!StartCreate
<1>9. In!StartUpdate(t) => InP!StartUpdate(t)
  BY DEF In!StartUpdate, InP!StartUpdate
<1>10. In!SkipUpdate(t) => InP!SkipUpdate(t)
  BY DEF In!SkipUpdate, InP!SkipUpdate
<1> QED
  BY <1>1, <1>2, <1>3, <1>4, <1>5, <1>6, <1>7, <1>8, <1>9, <1>10
     DEF In!Reconcile, InP!Reconcile

\* Nor do the writes of the object.
LEMMA InWritesSeen ==
  ASSUME inBudget \in [In!Events -> Nat],
         In!AddFinalizer \/ In!RemoveFinalizer \/ In!WriteStatus
  PROVE  InP!AddFinalizer \/ InP!RemoveFinalizer \/ InP!WriteStatus
<1> USE SeenAlike DEF In!Stored, InP!Stored, In!Removal, InP!Removal
<1>1. ASSUME NEW o, NEW requeue, In!Write(o, requeue) PROVE InP!Write(o, requeue)
  BY <1>1, InSpendSeen, InNoneSpent, InBlanksSeen
     DEF In!Write, InP!Write, In!Store, InP!Store, In!Finish, InP!Finish,
         In!Accepts, InP!Accepts, In!kubeVars, InP!kubeVars
<1>2. In!AddFinalizer => InP!AddFinalizer
  BY <1>1 DEF In!AddFinalizer, InP!AddFinalizer, In!FinalizerAdded, InP!FinalizerAdded
<1>3. In!RemoveFinalizer => InP!RemoveFinalizer
  BY <1>1 DEF In!RemoveFinalizer, InP!RemoveFinalizer,
              In!FinalizerDropped, InP!FinalizerDropped
<1>4. In!WriteStatus => InP!WriteStatus
  BY <1>1 DEF In!WriteStatus, InP!WriteStatus, In!StatusWrite, InP!StatusWrite
<1> QED
  BY <1>2, <1>3, <1>4

\* The calls to LiveKit find there, and leave there, what they would if the other kind's
\* ids were foreign.
LEMMA InCallsSeen ==
  ASSUME RemoteKinds, inBudget \in [In!Events -> Nat], InP!OwnIds,
         In!ListTrunks \/ In!CreateTrunk \/ In!UpdateTrunk \/ In!DeleteTrunk
  PROVE  /\ InP!ListTrunks \/ InP!CreateTrunk \/ InP!UpdateTrunk \/ InP!DeleteTrunk
         /\ Touches("inbound")
<1> DEFINE view == OfKind("inbound")
           sees(copy, id) == remote' = [remote EXCEPT ![id] = copy]
                               => view' = [view EXCEPT ![id] = copy]
<1> USE DEF In!kubeVars, InP!kubeVars
<1>1. /\ \A id \in Ids : In!Live(id) <=> InP!Live(id)
      /\ \A id \in Ids : In!Live(id) => view[id] = remote[id]
      /\ \A id \in Ids : view[id] = InP!Unused <=> remote[id] = In!Unused
  BY IdSeen DEF In!Live, InP!Live, In!Unused, InP!Unused, In!Unused
<1>2. ASSUME NEW step, NEW status, NEW requeue, In!Continue(step, status, requeue)
      PROVE  InP!Continue(step, status, requeue)
  BY <1>2 DEF In!Continue, InP!Continue
<1>3. \A server, name : In!FindByName(server, name) = InP!FindByName(server, name)
  BY <1>1 DEF In!FindByName, InP!FindByName
<1>4. \A server, id : In!Serves(server, id) <=> InP!Serves(server, id)
  BY <1>1 DEF In!Serves, InP!Serves
<1>5. /\ \A status, id, o : /\ In!Adopted(status, id, o) = InP!Adopted(status, id, o)
                           /\ In!Synced(status, id, o) = InP!Synced(status, id, o)
      /\ \A status, reason : In!Report(status, reason) = InP!Report(status, reason)
      /\ \A t, o : In!RemoteCopy(t, o) = InP!RemoteCopy(t, o)
  BY DEF In!Adopted, InP!Adopted, In!Synced, InP!Synced, In!Report, InP!Report,
         In!RemoteCopy, InP!RemoteCopy, In!BuildTrunkInfo, InP!BuildTrunkInfo
<1>6. PICK copy : copy = In!RemoteCopy(inKey, inObj)
  OBVIOUS
<1>7. copy.state = "live" /\ copy.kind = "inbound"
  BY <1>6 DEF In!RemoteCopy
<1>8. ASSUME NEW id \in Ids, remote' = [remote EXCEPT ![id] = copy],
             remote[id] = In!Unused \/ In!Live(id), UNCHANGED readable
      PROVE  Touches("inbound") /\ view' = [view EXCEPT ![id] = copy]
  <2>1. Touches("inbound")
    BY <1>7, <1>8 DEF Touches, RemoteKinds, In!Live, In!Unused, In!Unused
  <2>2. view' = [view EXCEPT ![id] = copy]
    BY <1>7, <1>8 DEF RemoteKinds, OfKind, In!Foreign
  <2> QED
    BY <2>1, <2>2
<1>9. UNCHANGED <<remote, readable>> => Touches("inbound") /\ view' = view
  BY SeenAlike DEF Touches
<1>10. In!ListTrunks => InP!ListTrunks /\ Touches("inbound")
  BY <1>2, <1>3, <1>5, <1>9, InSpendSeen, InNoneSpent DEF In!ListTrunks, InP!ListTrunks
<1>11. In!CreateTrunk => InP!CreateTrunk /\ Touches("inbound")
  BY <1>1, <1>2, <1>5, <1>6, <1>8, <1>9, InSpendSeen, InNoneSpent
     DEF In!CreateTrunk, InP!CreateTrunk
<1>12. In!UpdateTrunk => InP!UpdateTrunk /\ Touches("inbound")
  BY <1>2, <1>4, <1>5, <1>6, <1>8, <1>9, InSpendSeen, InNoneSpent
     DEF In!UpdateTrunk, InP!UpdateTrunk, In!Serves
<1>13. ASSUME In!DeleteTrunk PROVE InP!DeleteTrunk /\ Touches("inbound")
  <2> DEFINE id == inObj.status.trunkID
  <2>1. id \in Ids => /\ view[id] = remote[id]
                      /\ remote[id].state \in {"live", "deleted"}
                      /\ remote[id].kind = "inbound"
    <3>1. id \in Ids => id # NoId
      BY MarkersAssumption
    <3> QED
      BY <3>1, IdSeen DEF InP!OwnIds, InP!Own, InP!OwnId
  <2>2. In!HasTrunk(inObj.spec.livekitRef, id) <=> InP!HasTrunk(inObj.spec.livekitRef, id)
    BY <2>1 DEF In!HasTrunk, InP!HasTrunk
  <2>3. ASSUME In!HasTrunk(inObj.spec.livekitRef, id), UNCHANGED readable,
               remote' = [remote EXCEPT ![id] = In!Deleted]
        PROVE  Touches("inbound") /\ view' = [view EXCEPT ![id] = In!Deleted]
    <3>1. PICK i \in Ids : i = id
      BY <2>3 DEF In!HasTrunk
    <3>2. Touches("inbound")
      BY <2>1, <2>3, <3>1 DEF Touches, RemoteKinds, In!Deleted
    <3>3. view' = [view EXCEPT ![id] = In!Deleted]
      BY <2>3, <3>1 DEF RemoteKinds, OfKind, In!Foreign, In!Deleted
    <3> QED
      BY <3>2, <3>3
  <2>4. In!Deleted = InP!Deleted
    BY DEF In!Deleted, InP!Deleted
  <2> QED
    BY <1>2, <1>9, <1>13, <2>2, <2>3, <2>4, InSpendSeen, InNoneSpent
       DEF In!DeleteTrunk, InP!DeleteTrunk
<1> QED
  BY <1>10, <1>11, <1>12, <1>13

\* A step of one side is a step of the controller alone.
LEMMA InStepSeen ==
  ASSUME RemoteKinds, inBudget \in [In!Events -> Nat], InP!OwnIds,
         In!Users \/ In!Controller
  PROVE  /\ InP!Users \/ InP!Controller
         /\ Touches("inbound")
         /\ inBudget' \in [In!Events -> Nat]
<1>1. \A kind \in {"edits", "deletes", "faults"} :
        In!Spend(kind) => inBudget' \in [In!Events -> Nat]
  BY DEF In!Spend, In!Events
<1>2. CASE In!Users
  <2>1. UNCHANGED <<remote, readable>> /\ inBudget' \in [In!Events -> Nat]
    BY <1>1, <1>2 DEF In!Users, In!UserCreate, In!UserEdit, In!UserDelete
  <2> QED
    BY <1>2, <2>1, InUsersSeen DEF Touches
<1>3. ASSUME NEW t \in InTrunks, In!WatchEvent(t) \/ In!Resync(t) \/ In!Reconcile(t)
      PROVE  /\ InP!Controller /\ Touches("inbound")
             /\ inBudget' \in [In!Events -> Nat]
  <2>1. UNCHANGED <<remote, readable, inBudget>>
    BY <1>3 DEF In!WatchEvent, In!Resync, In!Reconcile, In!SkipReconcile,
                In!StartDelete, In!StartAddFinalizer, In!LiveKitSecretError,
                In!AuthSecretError, In!StartCreate, In!StartUpdate, In!SkipUpdate,
                In!TakeResolved, In!TakeWanted
  <2> QED
    BY <1>3, <2>1, InReconcileSeen DEF InP!Controller, Touches
<1>4. ASSUME In!AddFinalizer \/ In!RemoveFinalizer \/ In!WriteStatus
      PROVE  /\ InP!Controller /\ Touches("inbound")
             /\ inBudget' \in [In!Events -> Nat]
  <2>1. UNCHANGED <<remote, readable>> /\ inBudget' \in [In!Events -> Nat]
    BY <1>1, <1>4 DEF In!AddFinalizer, In!RemoveFinalizer, In!WriteStatus, In!Write
  <2> QED
    BY <1>4, <2>1, InWritesSeen DEF InP!Controller, InP!Call, Touches
<1>5. ASSUME In!ListTrunks \/ In!CreateTrunk \/ In!UpdateTrunk \/ In!DeleteTrunk
      PROVE  /\ InP!Controller /\ Touches("inbound")
             /\ inBudget' \in [In!Events -> Nat]
  <2>1. inBudget' \in [In!Events -> Nat]
    BY <1>1, <1>5 DEF In!ListTrunks, In!CreateTrunk, In!UpdateTrunk, In!DeleteTrunk
  <2> QED
    BY <1>5, <2>1, InCallsSeen DEF InP!Controller, InP!Call
<1> QED
  BY <1>2, <1>3, <1>4, <1>5 DEF In!Controller, In!Call, InP!Users

----------------------------------------------------------------------------
\* The outbound controller, in the same steps.

\* Users.
LEMMA OutUsersSeen ==
  ASSUME outBudget \in [In!Events -> Nat], Out!Trunk!Users
  PROVE  OutP!Users
<1> USE DEF Out!Trunk!kubeVars, OutP!kubeVars, Out!Trunk!workerVars, OutP!workerVars,
            Out!Trunk!NoStatus, OutP!NoStatus, Out!Trunk!Store, OutP!Store,
            Out!Trunk!NextGeneration, OutP!NextGeneration
<1>1. ASSUME NEW t \in OutTrunks, Out!Trunk!UserCreate(t) PROVE OutP!UserCreate(t)
  BY <1>1, SeenAlike, OutNoneSpent
     DEF Out!Trunk!UserCreate, OutP!UserCreate, Out!Trunk!Creation, OutP!Creation
<1>2. ASSUME NEW t \in OutTrunks, Out!Trunk!UserEdit(t) PROVE OutP!UserEdit(t)
  BY <1>2, SeenAlike, OutSpendSeen
     DEF Out!Trunk!UserEdit, OutP!UserEdit, Out!Trunk!SpecEdit, OutP!SpecEdit
<1>3. ASSUME NEW t \in OutTrunks, Out!Trunk!UserDelete(t) PROVE OutP!UserDelete(t)
  BY <1>3, SeenAlike, OutSpendSeen
     DEF Out!Trunk!UserDelete, OutP!UserDelete, Out!Trunk!DeleteRequest, OutP!DeleteRequest,
         Out!Trunk!Removal, OutP!Removal
<1> QED
  BY <1>1, <1>2, <1>3 DEF Out!Trunk!Users, OutP!Users

\* What an idle worker holds.
LEMMA OutBlanksSeen == Out!Trunk!NoObject = OutP!NoObject /\ Out!Trunk!NoStatus = OutP!NoStatus
  BY DEF Out!Trunk!NoObject, OutP!NoObject, Out!Trunk!NoStatus, OutP!NoStatus,
         Out!Trunk!NeverCreated, OutP!NeverCreated, Out!Trunk!TrunkSpec, OutP!TrunkSpec,
         Out!OutboundSettings, OutboundSettings, Out!SIPHeaderOptions, SIPHeaderOptions,
         Out!SIPMediaEncryption, SIPMediaEncryption, Out!SIPTransport, SIPTransport

\* What happens to secrets and processes.
LEMMA OutSharedSeen ==
  ASSUME outBudget \in [In!Events -> Nat]
  PROVE  /\ Out!Trunk!SecretLost => OutP!SecretLost
         /\ Out!Trunk!SecretRestored => OutP!SecretRestored
         /\ Out!Trunk!Restart => OutP!Restart
         /\ Out!Trunk!SecretLost \/ Out!Trunk!SecretRestored \/ Out!Trunk!Restart =>
              UNCHANGED remote /\ outBudget' \in [In!Events -> Nat]
<1> USE DEF Out!Trunk!kubeVars, OutP!kubeVars, Out!Trunk!workerVars, OutP!workerVars
<1>1. Out!Trunk!SecretLost => OutP!SecretLost
  BY SeenAlike, OutSpendSeen DEF Out!Trunk!SecretLost, OutP!SecretLost
<1>2. Out!Trunk!SecretRestored => OutP!SecretRestored
  BY SeenAlike, OutNoneSpent DEF Out!Trunk!SecretRestored, OutP!SecretRestored
<1>3. Out!Trunk!Restart => OutP!Restart
  BY SeenAlike, OutSpendSeen, OutBlanksSeen DEF Out!Trunk!Restart, OutP!Restart
<1>4. Out!Trunk!SecretLost \/ Out!Trunk!SecretRestored \/ Out!Trunk!Restart =>
        UNCHANGED remote /\ outBudget' \in [In!Events -> Nat]
  BY DEF Out!Trunk!SecretLost, Out!Trunk!SecretRestored, Out!Trunk!Restart, Out!Trunk!Spend,
         In!Events
<1> QED
  BY <1>1, <1>2, <1>3, <1>4

\* The informer, and a reconcile up to its first call, do not look at LiveKit.
LEMMA OutReconcileSeen ==
  ASSUME NEW t \in OutTrunks,
         Out!Trunk!WatchEvent(t) \/ Out!Trunk!Resync(t) \/ Out!Trunk!Reconcile(t)
  PROVE  OutP!WatchEvent(t) \/ OutP!Resync(t) \/ OutP!Reconcile(t)
<1> USE SeenAlike, OutNoneSpent
    DEF Out!Trunk!kubeVars, OutP!kubeVars, Out!Trunk!workerVars, OutP!workerVars
<1>1. Out!Trunk!WatchEvent(t) => OutP!WatchEvent(t)
  BY DEF Out!Trunk!WatchEvent, OutP!WatchEvent
<1>2. Out!Trunk!Resync(t) => OutP!Resync(t)
  BY DEF Out!Trunk!Resync, OutP!Resync
<1> USE DEF Out!Trunk!Take, OutP!Take, Out!Trunk!Proceed, OutP!Proceed
<1>3. Out!Trunk!SkipReconcile(t) => OutP!SkipReconcile(t)
  BY DEF Out!Trunk!SkipReconcile, OutP!SkipReconcile, Out!Trunk!NothingToDo, OutP!NothingToDo
<1>4. Out!Trunk!StartDelete(t) => OutP!StartDelete(t)
  BY DEF Out!Trunk!StartDelete, OutP!StartDelete, Out!Trunk!DeleteStep, OutP!DeleteStep
<1>5. Out!Trunk!StartAddFinalizer(t) => OutP!StartAddFinalizer(t)
  BY DEF Out!Trunk!StartAddFinalizer, OutP!StartAddFinalizer
<1> USE DEF Out!Trunk!TakeWanted, OutP!TakeWanted, Out!Trunk!Report, OutP!Report
<1>6. Out!Trunk!LiveKitSecretError(t) => OutP!LiveKitSecretError(t)
  BY DEF Out!Trunk!LiveKitSecretError, OutP!LiveKitSecretError
<1>7. Out!Trunk!AuthSecretError(t) => OutP!AuthSecretError(t)
  BY DEF Out!Trunk!AuthSecretError, OutP!AuthSecretError
<1> USE DEF Out!Trunk!TakeResolved, OutP!TakeResolved, Out!Trunk!AuthResolved, OutP!AuthResolved,
            Out!Trunk!UpToDate, OutP!UpToDate
<1>8. Out!Trunk!StartCreate(t) => OutP!StartCreate(t)
  BY DEF Out!Trunk!StartCreate, OutP!StartCreate
<1>9. Out!Trunk!StartUpdate(t) => OutP!StartUpdate(t)
  BY DEF Out!Trunk!StartUpdate, OutP!StartUpdate
<1>10. Out!Trunk!SkipUpdate(t) => OutP!SkipUpdate(t)
  BY DEF Out!Trunk!SkipUpdate, OutP!SkipUpdate
<1> QED
  BY <1>1, <1>2, <1>3, <1>4, <1>5, <1>6, <1>7, <1>8, <1>9, <1>10
     DEF Out!Trunk!Reconcile, OutP!Reconcile

\* Nor do the writes of the object.
LEMMA OutWritesSeen ==
  ASSUME outBudget \in [In!Events -> Nat],
         Out!Trunk!AddFinalizer \/ Out!Trunk!RemoveFinalizer \/ Out!Trunk!WriteStatus
  PROVE  OutP!AddFinalizer \/ OutP!RemoveFinalizer \/ OutP!WriteStatus
<1> USE SeenAlike DEF Out!Trunk!Stored, OutP!Stored, Out!Trunk!Removal, OutP!Removal
<1>1. ASSUME NEW o, NEW requeue, Out!Trunk!Write(o, requeue) PROVE OutP!Write(o, requeue)
  BY <1>1, OutSpendSeen, OutNoneSpent, OutBlanksSeen
     DEF Out!Trunk!Write, OutP!Write, Out!Trunk!Store, OutP!Store, Out!Trunk!Finish, OutP!Finish,
         Out!Trunk!Accepts, OutP!Accepts, Out!Trunk!kubeVars, OutP!kubeVars
<1>2. Out!Trunk!AddFinalizer => OutP!AddFinalizer
  BY <1>1 DEF Out!Trunk!AddFinalizer, OutP!AddFinalizer,
              Out!Trunk!FinalizerAdded, OutP!FinalizerAdded
<1>3. Out!Trunk!RemoveFinalizer => OutP!RemoveFinalizer
  BY <1>1 DEF Out!Trunk!RemoveFinalizer, OutP!RemoveFinalizer,
              Out!Trunk!FinalizerDropped, OutP!FinalizerDropped
<1>4. Out!Trunk!WriteStatus => OutP!WriteStatus
  BY <1>1 DEF Out!Trunk!WriteStatus, OutP!WriteStatus, Out!Trunk!StatusWrite, OutP!StatusWrite
<1> QED
  BY <1>2, <1>3, <1>4

\* The calls to LiveKit find there, and leave there, what they would if the other kind's
\* ids were foreign.
LEMMA OutCallsSeen ==
  ASSUME RemoteKinds, outBudget \in [In!Events -> Nat], OutP!OwnIds,
         \/ Out!Trunk!ListTrunks \/ Out!Trunk!CreateTrunk
         \/ Out!Trunk!UpdateTrunk \/ Out!Trunk!DeleteTrunk
  PROVE  /\ OutP!ListTrunks \/ OutP!CreateTrunk \/ OutP!UpdateTrunk \/ OutP!DeleteTrunk
         /\ Touches("outbound")
<1> DEFINE view == OfKind("outbound")
           sees(copy, id) == remote' = [remote EXCEPT ![id] = copy]
                               => view' = [view EXCEPT ![id] = copy]
<1> USE DEF Out!Trunk!kubeVars, OutP!kubeVars
<1>1. /\ \A id \in Ids : Out!Trunk!Live(id) <=> OutP!Live(id)
      /\ \A id \in Ids : Out!Trunk!Live(id) => view[id] = remote[id]
      /\ \A id \in Ids : view[id] = OutP!Unused <=> remote[id] = Out!Trunk!Unused
  BY IdSeen DEF Out!Trunk!Live, OutP!Live, Out!Trunk!Unused, OutP!Unused, In!Unused
<1>2. ASSUME NEW step, NEW status, NEW requeue, Out!Trunk!Continue(step, status, requeue)
      PROVE  OutP!Continue(step, status, requeue)
  BY <1>2 DEF Out!Trunk!Continue, OutP!Continue
<1>3. \A server, name : Out!Trunk!FindByName(server, name) = OutP!FindByName(server, name)
  BY <1>1 DEF Out!Trunk!FindByName, OutP!FindByName
<1>4. \A server, id : Out!Trunk!Serves(server, id) <=> OutP!Serves(server, id)
  BY <1>1 DEF Out!Trunk!Serves, OutP!Serves
<1>5. /\ \A status, id, o : /\ Out!Trunk!Adopted(status, id, o) = OutP!Adopted(status, id, o)
                           /\ Out!Trunk!Synced(status, id, o) = OutP!Synced(status, id, o)
      /\ \A status, reason : Out!Trunk!Report(status, reason) = OutP!Report(status, reason)
      /\ \A t, o : Out!Trunk!RemoteCopy(t, o) = OutP!RemoteCopy(t, o)
  BY DEF Out!Trunk!Adopted, OutP!Adopted, Out!Trunk!Synced, OutP!Synced, Out!Trunk!Report,
         OutP!Report, Out!Trunk!RemoteCopy, OutP!RemoteCopy, Out!Trunk!BuildTrunkInfo,
         OutP!BuildTrunkInfo, Out!OutboundPayload, OutboundPayload, Out!OutboundSettings,
         OutboundSettings,
         Out!SIPHeaderOptions, SIPHeaderOptions, Out!SIPMediaEncryption,
         SIPMediaEncryption, Out!SIPTransport, SIPTransport, Out!sipHeaderOptionToProto,
         sipHeaderOptionToProto, Out!mediaEncryptionToProto, mediaEncryptionToProto,
         Out!sipTransportToProto, sipTransportToProto
<1>6. PICK copy : copy = Out!Trunk!RemoteCopy(outKey, outObj)
  OBVIOUS
<1>7. copy.state = "live" /\ copy.kind = "outbound"
  BY <1>6 DEF Out!Trunk!RemoteCopy
<1>8. ASSUME NEW id \in Ids, remote' = [remote EXCEPT ![id] = copy],
             remote[id] = Out!Trunk!Unused \/ Out!Trunk!Live(id), UNCHANGED readable
      PROVE  Touches("outbound") /\ view' = [view EXCEPT ![id] = copy]
  <2>1. Touches("outbound")
    BY <1>7, <1>8 DEF Touches, RemoteKinds, Out!Trunk!Live, Out!Trunk!Unused, In!Unused
  <2>2. view' = [view EXCEPT ![id] = copy]
    BY <1>7, <1>8 DEF RemoteKinds, OfKind, In!Foreign
  <2> QED
    BY <2>1, <2>2
<1>9. UNCHANGED <<remote, readable>> => Touches("outbound") /\ view' = view
  BY SeenAlike DEF Touches
<1>10. Out!Trunk!ListTrunks => OutP!ListTrunks /\ Touches("outbound")
  BY <1>2, <1>3, <1>5, <1>9, OutSpendSeen, OutNoneSpent
     DEF Out!Trunk!ListTrunks, OutP!ListTrunks
<1>11. Out!Trunk!CreateTrunk => OutP!CreateTrunk /\ Touches("outbound")
  BY <1>1, <1>2, <1>5, <1>6, <1>8, <1>9, OutSpendSeen, OutNoneSpent
     DEF Out!Trunk!CreateTrunk, OutP!CreateTrunk
<1>12. Out!Trunk!UpdateTrunk => OutP!UpdateTrunk /\ Touches("outbound")
  BY <1>2, <1>4, <1>5, <1>6, <1>8, <1>9, OutSpendSeen, OutNoneSpent
     DEF Out!Trunk!UpdateTrunk, OutP!UpdateTrunk, Out!Trunk!Serves
<1>13. ASSUME Out!Trunk!DeleteTrunk PROVE OutP!DeleteTrunk /\ Touches("outbound")
  <2> DEFINE id == outObj.status.trunkID
  <2>1. id \in Ids => /\ view[id] = remote[id]
                      /\ remote[id].state \in {"live", "deleted"}
                      /\ remote[id].kind = "outbound"
    <3>1. id \in Ids => id # NoId
      BY MarkersAssumption
    <3> QED
      BY <3>1, IdSeen DEF OutP!OwnIds, OutP!Own, OutP!OwnId
  <2>2. Out!Trunk!HasTrunk(outObj.spec.livekitRef, id)
          <=> OutP!HasTrunk(outObj.spec.livekitRef, id)
    BY <2>1 DEF Out!Trunk!HasTrunk, OutP!HasTrunk
  <2>3. ASSUME Out!Trunk!HasTrunk(outObj.spec.livekitRef, id), UNCHANGED readable,
               remote' = [remote EXCEPT ![id] = Out!Trunk!Deleted]
        PROVE  Touches("outbound") /\ view' = [view EXCEPT ![id] = Out!Trunk!Deleted]
    <3>1. PICK i \in Ids : i = id
      BY <2>3 DEF Out!Trunk!HasTrunk
    <3>2. Touches("outbound")
      BY <2>1, <2>3, <3>1 DEF Touches, RemoteKinds, Out!Trunk!Deleted
    <3>3. view' = [view EXCEPT ![id] = Out!Trunk!Deleted]
      BY <2>3, <3>1 DEF RemoteKinds, OfKind, In!Foreign, Out!Trunk!Deleted
    <3> QED
      BY <3>2, <3>3
  <2>4. Out!Trunk!Deleted = OutP!Deleted
    BY DEF Out!Trunk!Deleted, OutP!Deleted
  <2> QED
    BY <1>2, <1>9, <1>13, <2>2, <2>3, <2>4, OutSpendSeen, OutNoneSpent
       DEF Out!Trunk!DeleteTrunk, OutP!DeleteTrunk
<1> QED
  BY <1>10, <1>11, <1>12, <1>13

\* A step of one side is a step of the controller alone.
LEMMA OutStepSeen ==
  ASSUME RemoteKinds, outBudget \in [In!Events -> Nat], OutP!OwnIds,
         Out!Trunk!Users \/ Out!Controller
  PROVE  /\ OutP!Users \/ OutP!Controller
         /\ Touches("outbound")
         /\ outBudget' \in [In!Events -> Nat]
<1>1. \A kind \in {"edits", "deletes", "faults"} :
        Out!Trunk!Spend(kind) => outBudget' \in [In!Events -> Nat]
  BY DEF Out!Trunk!Spend, In!Events
<1>2. CASE Out!Trunk!Users
  <2>1. UNCHANGED <<remote, readable>> /\ outBudget' \in [In!Events -> Nat]
    BY <1>1, <1>2 DEF Out!Trunk!Users, Out!Trunk!UserCreate, Out!Trunk!UserEdit,
                     Out!Trunk!UserDelete
  <2> QED
    BY <1>2, <2>1, OutUsersSeen DEF Touches
<1>3. ASSUME NEW t \in OutTrunks,
             Out!Trunk!WatchEvent(t) \/ Out!Trunk!Resync(t) \/ Out!Trunk!Reconcile(t)
      PROVE  /\ OutP!Controller /\ Touches("outbound")
             /\ outBudget' \in [In!Events -> Nat]
  <2>1. UNCHANGED <<remote, readable, outBudget>>
    BY <1>3 DEF Out!Trunk!WatchEvent, Out!Trunk!Resync, Out!Trunk!Reconcile,
                Out!Trunk!SkipReconcile, Out!Trunk!StartDelete,
                Out!Trunk!StartAddFinalizer, Out!Trunk!LiveKitSecretError,
                Out!Trunk!AuthSecretError, Out!Trunk!StartCreate, Out!Trunk!StartUpdate,
                Out!Trunk!SkipUpdate, Out!Trunk!TakeResolved, Out!Trunk!TakeWanted
  <2> QED
    BY <1>3, <2>1, OutReconcileSeen DEF OutP!Controller, Touches
<1>4. ASSUME Out!Trunk!AddFinalizer \/ Out!Trunk!RemoveFinalizer \/ Out!Trunk!WriteStatus
      PROVE  /\ OutP!Controller /\ Touches("outbound")
             /\ outBudget' \in [In!Events -> Nat]
  <2>1. UNCHANGED <<remote, readable>> /\ outBudget' \in [In!Events -> Nat]
    BY <1>1, <1>4 DEF Out!Trunk!AddFinalizer, Out!Trunk!RemoveFinalizer,
                     Out!Trunk!WriteStatus, Out!Trunk!Write
  <2> QED
    BY <1>4, <2>1, OutWritesSeen DEF OutP!Controller, OutP!Call, Touches
<1>5. ASSUME \/ Out!Trunk!ListTrunks \/ Out!Trunk!CreateTrunk
             \/ Out!Trunk!UpdateTrunk \/ Out!Trunk!DeleteTrunk
      PROVE  /\ OutP!Controller /\ Touches("outbound")
             /\ outBudget' \in [In!Events -> Nat]
  <2>1. outBudget' \in [In!Events -> Nat]
    BY <1>1, <1>5 DEF Out!Trunk!ListTrunks, Out!Trunk!CreateTrunk, Out!Trunk!UpdateTrunk,
                     Out!Trunk!DeleteTrunk
  <2> QED
    BY <1>5, <2>1, OutCallsSeen DEF OutP!Controller, OutP!Call
<1> QED
  BY <1>2, <1>3, <1>4, <1>5
     DEF Out!Controller, Out!SetupWithManager, Out!Reconcile, Out!AddFinalizer,
         Out!reconcileCreate, Out!findOutboundTrunkByName, Out!reconcileUpdate,
         Out!reconcileDelete, Out!WriteStatus

----------------------------------------------------------------------------
\* The two together.

Inv ==
  /\ RemoteKinds
  /\ inBudget \in [In!Events -> Nat] /\ outBudget \in [In!Events -> Nat]
  /\ InP!TypeOK /\ InP!OwnIds
  /\ OutP!TypeOK /\ OutP!OwnIds

\* What the theorems about one controller assume, seen from each side.
LEMMA InAssumptions == InP!SpecsAssumption /\ InP!MarkersAssumption /\ InP!BudgetsAssumption
<1>1. InP!SpecsAssumption
  BY SpecsAssumption
     DEF InP!SpecsAssumption, InP!TrunkSpec, In!TrunkSpec
<1>2. InP!MarkersAssumption
  BY MarkersAssumption, KindsAssumption DEF InP!MarkersAssumption
<1>3. Cardinality(Ids) \in Nat
  BY MarkersAssumption, FS_CardinalityType
<1>4. InP!BudgetsAssumption
  BY <1>3, BudgetsAssumption DEF InP!BudgetsAssumption, InP!Events, In!Events, AnyOthers
<1> QED
  BY <1>1, <1>2, <1>4

\* The same of the outbound side.
LEMMA OutAssumptions == OutP!SpecsAssumption /\ OutP!MarkersAssumption /\ OutP!BudgetsAssumption
<1>1. OutP!SpecsAssumption
  BY SpecsAssumption
     DEF OutP!SpecsAssumption, OutP!TrunkSpec, Out!SIPOutboundTrunkSpec, Out!Trunk!TrunkSpec,
         Out!OutboundSettings, OutboundSettings, Out!SIPHeaderOptions, SIPHeaderOptions,
         Out!SIPMediaEncryption, SIPMediaEncryption, Out!SIPTransport, SIPTransport
<1>2. OutP!MarkersAssumption
  BY MarkersAssumption, KindsAssumption DEF OutP!MarkersAssumption
<1>3. Cardinality(Ids) \in Nat
  BY MarkersAssumption, FS_CardinalityType
<1>4. OutP!BudgetsAssumption
  BY <1>3, BudgetsAssumption DEF OutP!BudgetsAssumption, OutP!Events, In!Events, AnyOthers
<1> QED
  BY <1>1, <1>2, <1>4

\* There is always room for one more id of the other kind.
LEMMA RoomForForeign ==
  ASSUME NEW view, NEW id \in Ids, view[id] = In!Unused, NEW bounds \in [In!Events -> Nat]
  PROVE  Cardinality({i \in Ids : view[i] = In!Foreign}) < AnyOthers(bounds)["others"]
<1> DEFINE foreign == {i \in Ids : view[i] = In!Foreign}
<1>1. foreign \in SUBSET Ids /\ foreign # Ids
  BY DEF In!Unused, In!Foreign
<1>2. /\ Cardinality(foreign) \in Nat /\ Cardinality(Ids) \in Nat
      /\ Cardinality(foreign) <= Cardinality(Ids) /\ Cardinality(foreign) # Cardinality(Ids)
  BY <1>1, MarkersAssumption, FS_Subset, FS_CardinalityType
<1>3. AnyOthers(bounds)["others"] = Cardinality(Ids)
  BY DEF AnyOthers, In!Events
<1> QED
  BY <1>2, <1>3

\* To the inbound controller, a step of the other is ForeignTrunk, or nothing.
LEMMA InOtherSeen ==
  ASSUME Inv, Touches("outbound"), UNCHANGED inVars
  PROVE  [InP!Next]_(InP!vars)
<1> DEFINE view == OfKind("inbound")
           bounds == AnyOthers(inBudget)
<1>1. UNCHANGED <<InP!kubeVars, inCache, inQueue, InP!workerVars, readable, inAbandoned,
                  bounds>>
  BY DEF Touches, inVars, AnyOthers, InP!kubeVars, InP!workerVars
<1>2. CASE view' = view
  BY <1>1, <1>2 DEF InP!vars, InP!kubeVars, InP!workerVars
<1>3. CASE view' # view
  <2>1. InP!Unused = In!Unused /\ InP!Foreign = In!Foreign
    BY DEF InP!Unused, In!Unused, InP!Foreign, In!Foreign
  <2>2. \E id \in Ids : view[id] = InP!Unused /\ view' = [view EXCEPT ![id] = InP!Foreign]
    BY <1>3, <2>1, SeenForeign DEF Inv
  <2>3. InP!Cardinality({id \in Ids : view[id] = InP!Foreign}) < bounds["others"]
    <3>1. PICK seen, left : seen = view /\ left = inBudget
      OBVIOUS
    <3>2. Cardinality({id \in Ids : seen[id] = In!Foreign}) < AnyOthers(left)["others"]
      BY <2>1, <2>2, <3>1, RoomForForeign DEF Inv
    <3>3. \A S : InP!Cardinality(S) = Cardinality(S)
      BY DEF InP!Cardinality, Cardinality
    <3> QED
      BY <3>1, <3>2, <3>3 DEF InP!Foreign, In!Foreign
  <2>4. InP!ForeignTrunk
    BY <1>1, <2>2, <2>3, Zenon DEF InP!ForeignTrunk
  <2> QED
    BY <2>4 DEF InP!Next, InP!Environment
<1> QED
  BY <1>2, <1>3

\* To the outbound controller, a step of the other is ForeignTrunk, or nothing.
LEMMA OutOtherSeen ==
  ASSUME Inv, Touches("inbound"), UNCHANGED outVars
  PROVE  [OutP!Next]_(OutP!vars)
<1> DEFINE view == OfKind("outbound")
           bounds == AnyOthers(outBudget)
<1>1. UNCHANGED <<OutP!kubeVars, outCache, outQueue, OutP!workerVars, readable, outAbandoned,
                  bounds>>
  BY DEF Touches, outVars, AnyOthers, OutP!kubeVars, OutP!workerVars
<1>2. CASE view' = view
  BY <1>1, <1>2 DEF OutP!vars, OutP!kubeVars, OutP!workerVars
<1>3. CASE view' # view
  <2>1. OutP!Unused = In!Unused /\ OutP!Foreign = In!Foreign
    BY DEF OutP!Unused, In!Unused, OutP!Foreign, In!Foreign
  <2>2. \E id \in Ids : view[id] = OutP!Unused /\ view' = [view EXCEPT ![id] = OutP!Foreign]
    BY <1>3, <2>1, SeenForeign DEF Inv
  <2>3. OutP!Cardinality({id \in Ids : view[id] = OutP!Foreign}) < bounds["others"]
    <3>1. PICK seen, left : seen = view /\ left = outBudget
      OBVIOUS
    <3>2. Cardinality({id \in Ids : seen[id] = In!Foreign}) < AnyOthers(left)["others"]
      BY <2>1, <2>2, <3>1, RoomForForeign DEF Inv
    <3>3. \A S : OutP!Cardinality(S) = Cardinality(S)
      BY DEF OutP!Cardinality, Cardinality
    <3> QED
      BY <3>1, <3>2, <3>3 DEF OutP!Foreign, In!Foreign
  <2>4. OutP!ForeignTrunk
    BY <1>1, <2>2, <2>3, Zenon DEF OutP!ForeignTrunk
  <2> QED
    BY <2>4 DEF OutP!Next, OutP!Environment
<1> QED
  BY <1>2, <1>3

\* Every step of the two is a step of each, as it sees LiveKit.
LEMMA StepSeen ==
  ASSUME Inv, [Next]_vars
  PROVE  /\ [InP!Next]_(InP!vars) /\ [OutP!Next]_(OutP!vars)
         /\ RemoteKinds'
         /\ inBudget' \in [In!Events -> Nat] /\ outBudget' \in [In!Events -> Nat]
<1>1. CASE Inbound
  <2>1. /\ InP!Users \/ InP!Controller
        /\ Touches("inbound") /\ UNCHANGED outVars
        /\ inBudget' \in [In!Events -> Nat] /\ outBudget' = outBudget
    BY <1>1, InStepSeen DEF Inbound, Inv, outVars
  <2>2. InP!Next
    BY <2>1 DEF InP!Next, InP!Environment
  <2>3. [OutP!Next]_(OutP!vars)
    BY <2>1, OutOtherSeen
  <2>4. RemoteKinds'
    BY <2>1, KindsKept DEF Inv
  <2> QED
    BY <2>1, <2>2, <2>3, <2>4 DEF Inv
<1>2. CASE Outbound
  <2>1. /\ OutP!Users \/ OutP!Controller
        /\ Touches("outbound") /\ UNCHANGED inVars
        /\ outBudget' \in [In!Events -> Nat] /\ inBudget' = inBudget
    BY <1>2, OutStepSeen DEF Outbound, Inv, inVars
  <2>2. OutP!Next
    BY <2>1 DEF OutP!Next, OutP!Environment
  <2>3. [InP!Next]_(InP!vars)
    BY <2>1, InOtherSeen
  <2>4. RemoteKinds'
    BY <2>1, KindsKept DEF Inv
  <2> QED
    BY <2>1, <2>2, <2>3, <2>4 DEF Inv
<1>3. CASE Shared
  <2>1. /\ InP!SecretLost \/ InP!SecretRestored \/ InP!Restart
        /\ OutP!SecretLost \/ OutP!SecretRestored \/ OutP!Restart
        /\ remote' = remote
        /\ inBudget' \in [In!Events -> Nat] /\ outBudget' \in [In!Events -> Nat]
    BY <1>3, InSharedSeen, OutSharedSeen DEF Shared, Inv
  <2>2. RemoteKinds'
    BY <2>1 DEF Inv, RemoteKinds
  <2> QED
    BY <2>1, <2>2 DEF InP!Next, InP!Environment, OutP!Next, OutP!Environment
<1>4. CASE UNCHANGED vars
  <2>1. /\ remote' = remote /\ readable' = readable
        /\ UNCHANGED inVars /\ UNCHANGED outVars
        /\ inBudget' = inBudget /\ outBudget' = outBudget
    BY <1>4 DEF vars, inVars, outVars
  <2>2. Touches("inbound") /\ Touches("outbound")
    BY <2>1 DEF Touches
  <2>3. [InP!Next]_(InP!vars) /\ [OutP!Next]_(OutP!vars)
    BY <2>1, <2>2, InOtherSeen, OutOtherSeen
  <2> QED
    BY <2>1, <2>2, <2>3, KindsKept DEF Inv
<1> QED
  BY <1>1, <1>2, <1>3, <1>4 DEF Next

\* No step of either brings an id of the wrong kind.
LEMMA NextInv == Inv /\ [Next]_vars => Inv'
<1> SUFFICES ASSUME Inv, [Next]_vars PROVE Inv'
  OBVIOUS
<1>1. InP!TypeOK' /\ InP!OwnIds'
  <2> USE InAssumptions
      DEF InP!SpecsAssumption, InP!MarkersAssumption, InP!BudgetsAssumption
  <2> QED
    BY StepSeen, InP!NextTyped, InP!NextOwn DEF Inv, InP!NextTyped, InP!NextOwn
<1>2. OutP!TypeOK' /\ OutP!OwnIds'
  <2> USE OutAssumptions
      DEF OutP!SpecsAssumption, OutP!MarkersAssumption, OutP!BudgetsAssumption
  <2> QED
    BY StepSeen, OutP!NextTyped, OutP!NextOwn DEF Inv, OutP!NextTyped, OutP!NextOwn
<1> QED
  BY <1>1, <1>2, StepSeen DEF Inv

\* Each side starts as it would alone.
LEMMA InitSeen == Init => InP!Init /\ OutP!Init /\ RemoteKinds
                         /\ inBudget \in [In!Events -> Nat] /\ outBudget \in [In!Events -> Nat]
<1> SUFFICES ASSUME Init PROVE InP!Init /\ OutP!Init /\ RemoteKinds
                         /\ inBudget \in [In!Events -> Nat] /\ outBudget \in [In!Events -> Nat]
  OBVIOUS
<1>1. remote = [id \in Ids |-> In!Unused]
  BY DEF Init, In!Init
<1>2. RemoteKinds
  BY <1>1 DEF RemoteKinds
<1>3. \A kind : OfKind(kind) = [id \in Ids |-> In!Unused]
  BY <1>1 DEF OfKind, In!Unused
<1>4. PICK b \in Budgets : b.inbound = inBudget /\ b.outbound = outBudget
  BY DEF Init
<1>5. InP!Init
  BY <1>3, <1>4, InBlanksSeen
     DEF Init, In!Init, InP!Init, In!Unused, InP!Unused, In!NeverCreated, InP!NeverCreated
<1>6. OutP!Init
  BY <1>3, <1>4, OutBlanksSeen
     DEF Init, Out!Init, Out!Trunk!Init, OutP!Init, In!Unused, OutP!Unused,
         Out!Trunk!NeverCreated, OutP!NeverCreated
<1> QED
  BY <1>2, <1>4, <1>5, <1>6, BudgetsAssumption

\* Nothing is recorded to begin with.
LEMMA InitInv == Init => Inv
<1> SUFFICES ASSUME Init PROVE Inv
  OBVIOUS
<1>1. InP!TypeOK /\ InP!OwnIds
  <2> USE InAssumptions
      DEF InP!SpecsAssumption, InP!MarkersAssumption, InP!BudgetsAssumption
  <2> QED
    BY InitSeen, InP!InitTyped, InP!InitOwn DEF InP!InitTyped, InP!InitOwn
<1>2. OutP!TypeOK /\ OutP!OwnIds
  <2> USE OutAssumptions
      DEF OutP!SpecsAssumption, OutP!MarkersAssumption, OutP!BudgetsAssumption
  <2> QED
    BY InitSeen, OutP!InitTyped, OutP!InitOwn DEF OutP!InitTyped, OutP!InitOwn
<1> QED
  BY <1>1, <1>2, InitSeen DEF Inv

----------------------------------------------------------------------------
\* Each controller alone.

\* InP and InView are two names of the same instance, which only shows when everything
\* they define is expanded.
LEMMA InSame ==
  /\ InP!Init <=> InView!Init
  /\ InP!Next <=> InView!Next
  /\ UNCHANGED InP!vars => UNCHANGED InView!vars
<1> USE DEF InP!kubeVars, InView!kubeVars, InP!workerVars, InView!workerVars, InP!Spend,
            InView!Spend, InP!Store, InView!Store, InP!UserCreate, InView!UserCreate,
            InP!UserEdit, InView!UserEdit, InP!UserDelete, InView!UserDelete,
            InP!SecretLost, InView!SecretLost, InP!SecretRestored, InView!SecretRestored,
            InP!ForeignTrunk, InView!ForeignTrunk, InP!WatchEvent, InView!WatchEvent,
            InP!Resync, InView!Resync, InP!Finish, InView!Finish, InP!Restart,
            InView!Restart, InP!Take, InView!Take, InP!Proceed, InView!Proceed, InP!Report,
            InView!Report, InP!Synced, InView!Synced, InP!UpToDate, InView!UpToDate,
            InP!NothingToDo, InView!NothingToDo, InP!AuthResolved, InView!AuthResolved,
            InP!SkipReconcile, InView!SkipReconcile, InP!DeleteStep, InView!DeleteStep,
            InP!StartDelete, InView!StartDelete, InP!StartAddFinalizer,
            InView!StartAddFinalizer, InP!TakeWanted, InView!TakeWanted,
            InP!LiveKitSecretError, InView!LiveKitSecretError, InP!AuthSecretError,
            InView!AuthSecretError, InP!TakeResolved, InView!TakeResolved, InP!StartCreate,
            InView!StartCreate, InP!StartUpdate, InView!StartUpdate, InP!SkipUpdate,
            InView!SkipUpdate, InP!Reconcile, InView!Reconcile, InP!Live, InView!Live,
            InP!BuildTrunkInfo, InView!BuildTrunkInfo, InP!RemoteCopy, InView!RemoteCopy,
            InP!Continue, InView!Continue, InP!Write, InView!Write, InP!AddFinalizer,
            InView!AddFinalizer, InP!RemoveFinalizer, InView!RemoveFinalizer,
            InP!WriteStatus, InView!WriteStatus, InP!FindByName, InView!FindByName,
            InP!Adopted, InView!Adopted, InP!ListTrunks, InView!ListTrunks, InP!CreateTrunk,
            InView!CreateTrunk, InP!Serves, InView!Serves, InP!HasTrunk, InView!HasTrunk,
            InP!UpdateTrunk, InView!UpdateTrunk, InP!DeleteTrunk, InView!DeleteTrunk,
            InP!Users, InView!Users, InP!Environment, InView!Environment, InP!Call,
            InView!Call, InP!Controller, InView!Controller, InP!Next, InView!Next,
            InP!Events, InView!Events, InP!NoStatus, InView!NoStatus, InP!NoObject,
            InView!NoObject, InP!Unused, InView!Unused, InP!Deleted, InView!Deleted,
            InP!Foreign, InView!Foreign, InP!TrunkSpec, InView!TrunkSpec, InP!NeverCreated,
            InView!NeverCreated, InP!Stored, InView!Stored, InP!Creation, InView!Creation,
            InP!NextGeneration, InView!NextGeneration, InP!SpecEdit, InView!SpecEdit,
            InP!Removal, InView!Removal, InP!DeleteRequest, InView!DeleteRequest,
            InP!Accepts, InView!Accepts, InP!StatusWrite, InView!StatusWrite,
            InP!FinalizerAdded, InView!FinalizerAdded, InP!FinalizerDropped,
            InView!FinalizerDropped, InP!Cardinality, InView!Cardinality, InP!Init,
            InView!Init, InP!vars, InView!vars
<1>1. InP!Init <=> InView!Init
  BY SMTT(30)
<1>2. InP!Next <=> InView!Next
  BY SMTT(30)
<1>3. UNCHANGED InP!vars => UNCHANGED InView!vars
  BY SMTT(30)
<1> QED
  BY <1>1, <1>2, <1>3

\* The same of OutP and OutView, which groups the actions as the other file does.
LEMMA OutSame ==
  /\ OutP!Init <=> OutView!Init
  /\ OutP!Next => OutView!Next
  /\ UNCHANGED OutP!vars => UNCHANGED OutView!vars
<1>1. /\ OutP!Init <=> OutView!Trunk!Init
      /\ OutP!Environment <=> OutView!Trunk!Environment
      /\ OutP!Controller <=> OutView!Trunk!Controller
      /\ UNCHANGED OutP!vars => UNCHANGED OutView!Trunk!vars
  <2> USE DEF OutP!kubeVars, OutView!Trunk!kubeVars, OutP!workerVars,
            OutView!Trunk!workerVars, OutP!Spend, OutView!Trunk!Spend, OutP!Store,
            OutView!Trunk!Store, OutP!UserCreate, OutView!Trunk!UserCreate, OutP!UserEdit,
            OutView!Trunk!UserEdit, OutP!UserDelete, OutView!Trunk!UserDelete,
            OutP!SecretLost, OutView!Trunk!SecretLost, OutP!SecretRestored,
            OutView!Trunk!SecretRestored, OutP!ForeignTrunk, OutView!Trunk!ForeignTrunk,
            OutP!WatchEvent, OutView!Trunk!WatchEvent, OutP!Resync, OutView!Trunk!Resync,
            OutP!Finish, OutView!Trunk!Finish, OutP!Restart, OutView!Trunk!Restart,
            OutP!Take, OutView!Trunk!Take, OutP!Proceed, OutView!Trunk!Proceed, OutP!Report,
            OutView!Trunk!Report, OutP!Synced, OutView!Trunk!Synced, OutP!UpToDate,
            OutView!Trunk!UpToDate, OutP!NothingToDo, OutView!Trunk!NothingToDo,
            OutP!AuthResolved, OutView!Trunk!AuthResolved, OutP!SkipReconcile,
            OutView!Trunk!SkipReconcile, OutP!DeleteStep, OutView!Trunk!DeleteStep,
            OutP!StartDelete, OutView!Trunk!StartDelete, OutP!StartAddFinalizer,
            OutView!Trunk!StartAddFinalizer, OutP!TakeWanted, OutView!Trunk!TakeWanted,
            OutP!LiveKitSecretError, OutView!Trunk!LiveKitSecretError, OutP!AuthSecretError,
            OutView!Trunk!AuthSecretError, OutP!TakeResolved, OutView!Trunk!TakeResolved,
            OutP!StartCreate, OutView!Trunk!StartCreate, OutP!StartUpdate,
            OutView!Trunk!StartUpdate, OutP!SkipUpdate, OutView!Trunk!SkipUpdate,
            OutP!Reconcile, OutView!Trunk!Reconcile, OutP!Live, OutView!Trunk!Live,
            OutP!BuildTrunkInfo, OutView!Trunk!BuildTrunkInfo, OutP!RemoteCopy,
            OutView!Trunk!RemoteCopy, OutP!Continue, OutView!Trunk!Continue, OutP!Write,
            OutView!Trunk!Write, OutP!AddFinalizer, OutView!Trunk!AddFinalizer,
            OutP!RemoveFinalizer, OutView!Trunk!RemoveFinalizer, OutP!WriteStatus,
            OutView!Trunk!WriteStatus, OutP!FindByName, OutView!Trunk!FindByName,
            OutP!Adopted, OutView!Trunk!Adopted, OutP!ListTrunks, OutView!Trunk!ListTrunks,
            OutP!CreateTrunk, OutView!Trunk!CreateTrunk, OutP!Serves, OutView!Trunk!Serves,
            OutP!HasTrunk, OutView!Trunk!HasTrunk, OutP!UpdateTrunk,
            OutView!Trunk!UpdateTrunk, OutP!DeleteTrunk, OutView!Trunk!DeleteTrunk,
            OutP!Users, OutView!Trunk!Users, OutP!Environment, OutView!Trunk!Environment,
            OutP!Call, OutView!Trunk!Call, OutP!Controller, OutView!Trunk!Controller,
            OutP!Next, OutView!Trunk!Next, OutP!Events, OutView!Trunk!Events, OutP!NoStatus,
            OutView!Trunk!NoStatus, OutP!NoObject, OutView!Trunk!NoObject, OutP!Unused,
            OutView!Trunk!Unused, OutP!Deleted, OutView!Trunk!Deleted, OutP!Foreign,
            OutView!Trunk!Foreign, OutP!TrunkSpec, OutView!Trunk!TrunkSpec,
            OutP!NeverCreated, OutView!Trunk!NeverCreated, OutP!Stored,
            OutView!Trunk!Stored, OutP!Creation, OutView!Trunk!Creation,
            OutP!NextGeneration, OutView!Trunk!NextGeneration, OutP!SpecEdit,
            OutView!Trunk!SpecEdit, OutP!Removal, OutView!Trunk!Removal, OutP!DeleteRequest,
            OutView!Trunk!DeleteRequest, OutP!Accepts, OutView!Trunk!Accepts,
            OutP!StatusWrite, OutView!Trunk!StatusWrite, OutP!FinalizerAdded,
            OutView!Trunk!FinalizerAdded, OutP!FinalizerDropped,
            OutView!Trunk!FinalizerDropped, OutP!Cardinality, OutView!Trunk!Cardinality,
            OutP!Init, OutView!Trunk!Init, OutP!vars, OutView!Trunk!vars,
            OutView!OutboundSettings, OutboundSettings, OutView!SIPHeaderOptions,
            SIPHeaderOptions, OutView!SIPMediaEncryption, SIPMediaEncryption,
            OutView!SIPTransport, SIPTransport, OutView!OutboundPayload, OutboundPayload,
            OutView!sipHeaderOptionToProto, sipHeaderOptionToProto,
            OutView!mediaEncryptionToProto, mediaEncryptionToProto,
            OutView!sipTransportToProto, sipTransportToProto
  <2>1. OutP!Init <=> OutView!Trunk!Init
    BY SMTT(30)
  <2>2. OutP!Environment <=> OutView!Trunk!Environment
    BY SMTT(30)
  <2>3. OutP!Controller <=> OutView!Trunk!Controller
    BY SMTT(30)
  <2>4. UNCHANGED OutP!vars => UNCHANGED OutView!Trunk!vars
    BY SMTT(30)
  <2> QED
    BY <2>1, <2>2, <2>3, <2>4
<1>2. OutView!Trunk!Controller => OutView!Controller
  BY DEF OutView!Trunk!Controller, OutView!Trunk!Call, OutView!Controller,
         OutView!SetupWithManager, OutView!Reconcile, OutView!AddFinalizer,
         OutView!reconcileCreate, OutView!findOutboundTrunkByName, OutView!reconcileUpdate,
         OutView!reconcileDelete, OutView!WriteStatus
<1> QED
  BY <1>1, <1>2 DEF OutP!Next, OutView!Next, OutView!Init, OutView!vars

\* InboundAlone for any number of resources of both kinds: whatever findInboundTrunkByName,
\* the calls by id and the outbound controller do to the LiveKit the two share, the inbound
\* controller goes through nothing that it would not go through alone.
THEOREM InboundUndisturbed == Spec => InboundAlone
<1>1. Init => InView!Init
  BY InitSeen, InSame
<1>2. Inv /\ [Next]_vars => [InView!Next]_(InView!vars)
  BY StepSeen, InSame
<1> QED
  BY <1>1, <1>2, InitInv, NextInv, PTL DEF Spec, InboundAlone

\* The same of the outbound controller: OutboundAlone.
THEOREM OutboundUndisturbed == Spec => OutboundAlone
<1>1. Init => OutView!Init
  BY InitSeen, OutSame
<1>2. Inv /\ [Next]_vars => [OutView!Next]_(OutView!vars)
  BY StepSeen, OutSame
<1> QED
  BY <1>1, <1>2, InitInv, NextInv, PTL DEF Spec, OutboundAlone

----------------------------------------------------------------------------
\* What was shown of one controller holds with both at work.

\* No two resources of a kind may ask for the same name on the same server; an inbound and
\* an outbound one may.
OwnNamesOnly == InP!OwnNamesOnly /\ OutP!OwnNamesOnly

\* The inductive invariant of one controller is one of each of the two.
LEMMA IndInvs ==
  ASSUME OwnNamesOnly
  PROVE  Spec => [](InP!IndInv /\ OutP!IndInv)
<1>1. Init => InP!IndInv /\ OutP!IndInv
  BY InitSeen, InAssumptions, OutAssumptions, InP!InitInv, OutP!InitInv
     DEF InP!InitInv, OutP!InitInv, InP!SpecsAssumption, InP!MarkersAssumption,
         InP!BudgetsAssumption, OutP!SpecsAssumption, OutP!MarkersAssumption,
         OutP!BudgetsAssumption
<1>2. Inv /\ InP!IndInv /\ [Next]_vars => InP!IndInv'
  BY StepSeen, InAssumptions, InP!NextInv
     DEF InP!NextInv, OwnNamesOnly, InP!SpecsAssumption, InP!MarkersAssumption,
         InP!BudgetsAssumption
<1>3. Inv /\ OutP!IndInv /\ [Next]_vars => OutP!IndInv'
  BY StepSeen, OutAssumptions, OutP!NextInv
     DEF OutP!NextInv, OwnNamesOnly, OutP!SpecsAssumption, OutP!MarkersAssumption,
         OutP!BudgetsAssumption
<1> QED
  BY <1>1, <1>2, <1>3, InitInv, NextInv, PTL DEF Spec

\* StatusesTrue: a status that has caught up with its generation is true of the LiveKit
\* that the two controllers share.
THEOREM StatusesAreTrue ==
  ASSUME OwnNamesOnly
  PROVE  Spec => []StatusesTrue
<1>1. Inv /\ InP!IndInv => In!ObservedTruth
  <2> SUFFICES ASSUME Inv, InP!IndInv, NEW t \in InTrunks, inApi[t].exists,
                      ~inApi[t].deleting, In!UpToDate(inApi[t])
               PROVE  In!InSync(inApi[t])
    BY DEF In!ObservedTruth
  <2> DEFINE id == inApi[t].status.trunkID
  <2>1. InP!InSync(inApi[t])
    BY DEF InP!IndInv, InP!ObservedTruth, In!UpToDate, InP!UpToDate
  <2>2. id \in Ids /\ OfKind("inbound")[id].state = "live"
        /\ OfKind("inbound")[id].kind = "inbound"
    BY <2>1 DEF InP!InSync, InP!Serves, InP!Live
  <2>3. OfKind("inbound")[id] = remote[id]
    BY <2>2, IdSeen DEF Inv
  <2> QED
    BY <2>1, <2>2, <2>3
       DEF InP!InSync, In!InSync, InP!Serves, In!Serves, InP!Live, In!Live,
           InP!BuildTrunkInfo, In!BuildTrunkInfo
<1>2. Inv /\ OutP!IndInv => Out!Trunk!ObservedTruth
  <2> SUFFICES ASSUME Inv, OutP!IndInv, NEW t \in OutTrunks, outApi[t].exists,
                      ~outApi[t].deleting, Out!Trunk!UpToDate(outApi[t])
               PROVE  Out!Trunk!InSync(outApi[t])
    BY DEF Out!Trunk!ObservedTruth
  <2> DEFINE id == outApi[t].status.trunkID
  <2>1. OutP!InSync(outApi[t])
    BY DEF OutP!IndInv, OutP!ObservedTruth, Out!Trunk!UpToDate, OutP!UpToDate
  <2>2. id \in Ids /\ OfKind("outbound")[id].state = "live"
        /\ OfKind("outbound")[id].kind = "outbound"
    BY <2>1 DEF OutP!InSync, OutP!Serves, OutP!Live
  <2>3. OfKind("outbound")[id] = remote[id]
    BY <2>2, IdSeen DEF Inv
  <2>4. Out!OutboundPayload = OutboundPayload
    BY DEF Out!OutboundPayload, OutboundPayload, Out!OutboundSettings, OutboundSettings,
           Out!SIPHeaderOptions, SIPHeaderOptions, Out!SIPMediaEncryption,
           SIPMediaEncryption, Out!SIPTransport, SIPTransport, Out!sipHeaderOptionToProto,
           sipHeaderOptionToProto, Out!mediaEncryptionToProto, mediaEncryptionToProto,
           Out!sipTransportToProto, sipTransportToProto
  <2> QED
    BY <2>1, <2>2, <2>3, <2>4
       DEF OutP!InSync, Out!Trunk!InSync, OutP!Serves, Out!Trunk!Serves, OutP!Live,
           Out!Trunk!Live, OutP!BuildTrunkInfo, Out!Trunk!BuildTrunkInfo
<1> QED
  BY <1>1, <1>2, IndInvs, InitInv, NextInv, PTL DEF Spec, StatusesTrue
----------------------------------------------------------------------------
\* The lifecycles of the two kinds, as one.

\* The id is that of a trunk of the kind.
IsOf(id, kind) ==
  id \in Ids /\ remote[id].state \in {"live", "deleted"} /\ remote[id].kind = kind

\* What the two together look like, from what each sees: the other's trunks are deleted
\* to it, and no resource has recorded, and no controller given up, one of those.
Looks ==
  /\ phases = Both(InP!phases, OutP!phases)
  /\ holds = Both(InP!holds, OutP!holds)
  /\ \A id \in Ids :
       \/ /\ states[id] = "unused" /\ InP!states[id] = "unused" /\ OutP!states[id] = "unused"
       \/ /\ IsOf(id, "inbound")
          /\ InP!states[id] = states[id] /\ OutP!states[id] = "deleted"
       \/ /\ IsOf(id, "outbound")
          /\ InP!states[id] = "deleted" /\ OutP!states[id] = states[id]
  /\ \A t \in InTrunks : InP!holds[t] # NoId => IsOf(InP!holds[t], "inbound")
  /\ \A t \in OutTrunks : OutP!holds[t] # NoId => IsOf(OutP!holds[t], "outbound")
  /\ \A id \in inAbandoned : IsOf(id, "inbound")
  /\ \A id \in outAbandoned : IsOf(id, "outbound")

\* Looks follows from what each side has of LiveKit.
LEMMA LooksAlike == Inv => Looks
<1> SUFFICES ASSUME Inv PROVE Looks
  OBVIOUS
<1>1. phases = Both(InP!phases, OutP!phases) /\ holds = Both(InP!holds, OutP!holds)
  BY DEF phases, holds, Both, In!phases, InP!phases, In!holds, InP!holds, Out!Trunk!phases,
         OutP!phases, Out!Trunk!holds, OutP!holds, In!Phase, InP!Phase, In!Held, InP!Held,
         Out!Trunk!Phase, OutP!Phase, Out!Trunk!Held, OutP!Held, In!UpToDate, InP!UpToDate,
         Out!Trunk!UpToDate, OutP!UpToDate
<1>2. ASSUME NEW id \in Ids
      PROVE  \/ /\ states[id] = "unused" /\ InP!states[id] = "unused"
                /\ OutP!states[id] = "unused"
             \/ /\ IsOf(id, "inbound")
                /\ InP!states[id] = states[id] /\ OutP!states[id] = "deleted"
             \/ /\ IsOf(id, "outbound")
                /\ InP!states[id] = "deleted" /\ OutP!states[id] = states[id]
  <2>1. /\ states[id] = remote[id].state
        /\ InP!states[id] = IF OfKind("inbound")[id] = In!Foreign
                              THEN "deleted" ELSE OfKind("inbound")[id].state
        /\ OutP!states[id] = IF OfKind("outbound")[id] = In!Foreign
                               THEN "deleted" ELSE OfKind("outbound")[id].state
    BY DEF states, InP!states, OutP!states, InP!Foreign, OutP!Foreign, In!Foreign
  <2>2. CASE remote[id] = In!Unused
    BY <2>1, <2>2 DEF OfKind, In!Unused, In!Foreign
  <2>3. ASSUME NEW kind \in {"inbound", "outbound"}, IsOf(id, kind)
        PROVE  \A k \in {"inbound", "outbound"} :
                 OfKind(k)[id] = IF k = kind THEN remote[id] ELSE In!Foreign
    BY <2>3 DEF IsOf, OfKind
  <2>4. IsOf(id, "inbound") \/ IsOf(id, "outbound") => remote[id] # In!Foreign
    BY DEF IsOf, In!Foreign
  <2>5. CASE IsOf(id, "inbound")
    BY <2>1, <2>3, <2>4, <2>5
  <2>6. CASE IsOf(id, "outbound")
    BY <2>1, <2>3, <2>4, <2>6
  <2> QED
    BY <2>2, <2>5, <2>6 DEF Inv, RemoteKinds, IsOf
<1>3. ASSUME NEW kind \in {"inbound", "outbound"}, NEW id \in Ids,
             OfKind(kind)[id].state \in {"live", "deleted"}
      PROVE  IsOf(id, kind)
  BY <1>3, IdSeen DEF Inv, IsOf
<1>4. /\ \A t \in InTrunks : InP!holds[t] # NoId => IsOf(InP!holds[t], "inbound")
      /\ \A id \in inAbandoned : IsOf(id, "inbound")
  BY <1>3 DEF Inv, InP!TypeOK, InP!OwnIds, InP!Own, InP!OwnId, InP!holds, InP!Held,
              InP!TrunkObject, InP!ObjectSet, InP!TrunkStatus
<1>5. /\ \A t \in OutTrunks : OutP!holds[t] # NoId => IsOf(OutP!holds[t], "outbound")
      /\ \A id \in outAbandoned : IsOf(id, "outbound")
  BY <1>3 DEF Inv, OutP!TypeOK, OutP!OwnIds, OutP!Own, OutP!OwnId, OutP!holds, OutP!Held,
              OutP!TrunkObject, OutP!ObjectSet, OutP!TrunkStatus
<1> QED
  BY <1>1, <1>2, <1>4, <1>5 DEF Looks

\* The trunks of one kind stay what they are while the other's controller works.
LEMMA OthersKept ==
  ASSUME RemoteKinds, NEW kind \in {"inbound", "outbound"},
         NEW other \in {"inbound", "outbound"} \ {kind}, Touches(kind), NEW id \in Ids
  PROVE  /\ IsOf(id, other) => remote'[id] = remote[id]
         /\ IsOf(id, other) <=> IsOf(id, other)'
<1>1. CASE UNCHANGED remote
  BY <1>1 DEF IsOf
<1>2. ASSUME NEW i \in Ids, remote[i] = In!Unused \/ remote[i].kind = kind,
             remote'[i].state \in {"live", "deleted"}, remote'[i].kind = kind,
             remote' = [remote EXCEPT ![i] = remote'[i]]
      PROVE  /\ IsOf(id, other) => remote'[id] = remote[id]
             /\ IsOf(id, other) <=> IsOf(id, other)'
  <2>1. i # id => remote'[id] = remote[id]
    BY <1>2 DEF RemoteKinds
  <2>2. ~IsOf(i, other) /\ ~IsOf(i, other)'
    BY <1>2 DEF IsOf, In!Unused
  <2> QED
    BY <2>1, <2>2 DEF IsOf
<1> QED
  BY <1>1, <1>2 DEF Touches

\* What the inbound controller does to its resources and trunks is, to the two together,
\* the same or nothing.
LEMMA InLifecycle ==
  ASSUME RemoteKinds, Looks, Looks', Touches("inbound"),
         UNCHANGED <<OutP!phases, OutP!holds, outAbandoned>>,
         [InP!Lifecycle!Next]_(InP!Lifecycle!vars)
  PROVE  [Lifecycle!Next]_(Lifecycle!vars)
<1>1. ASSUME NEW id \in Ids
      PROVE  IF IsOf(id, "outbound")
               THEN states'[id] = states[id] /\ InP!states'[id] = InP!states[id]
               ELSE states'[id] = InP!states'[id] /\ states[id] = InP!states[id]
  <2>1. CASE IsOf(id, "outbound")
    <3>1. IsOf(id, "outbound")' /\ states'[id] = states[id]
      BY <2>1, OthersKept DEF states
    <3>2. InP!states[id] = "deleted"
      BY <2>1 DEF Looks, IsOf, states
    <3>3. InP!states'[id] = "deleted"
      BY <3>1 DEF Looks, IsOf, states
    <3> QED
      BY <2>1, <3>1, <3>2, <3>3
  <2>2. CASE ~IsOf(id, "outbound")
    <3>1. ~IsOf(id, "outbound")'
      BY <2>2, OthersKept
    <3> QED
      BY <2>2, <3>1 DEF Looks
  <2> QED
    BY <2>1, <2>2
<1>2. states = [id \in Ids |-> states[id]] /\ states' = [id \in Ids |-> states'[id]]
      /\ InP!states = [id \in Ids |-> InP!states[id]]
  BY DEF states, InP!states
<1>3. UNCHANGED InP!states => UNCHANGED states
  BY <1>1, <1>2
<1>4. /\ UNCHANGED InP!phases => UNCHANGED phases
      /\ UNCHANGED InP!holds => UNCHANGED holds
      /\ UNCHANGED inAbandoned => UNCHANGED (inAbandoned \cup outAbandoned)
  BY DEF Looks, Both
<1>5. ASSUME NEW t \in InTrunks
      PROVE  /\ t \in InTrunks \cup OutTrunks
             /\ phases[t] = InP!phases[t] /\ holds[t] = InP!holds[t]
             /\ \A to : /\ InP!phases' = [InP!phases EXCEPT ![t] = to]
                             => phases' = [phases EXCEPT ![t] = to]
                        /\ InP!holds' = [InP!holds EXCEPT ![t] = to]
                             => holds' = [holds EXCEPT ![t] = to]
  <2>1. /\ phases[t] = InP!phases[t] /\ holds[t] = InP!holds[t]
        /\ phases = Both(InP!phases, OutP!phases) /\ phases' = Both(InP!phases, OutP!phases)'
        /\ holds = Both(InP!holds, OutP!holds) /\ holds' = Both(InP!holds, OutP!holds)'
        /\ t \in InTrunks <=> t \notin OutTrunks
    BY KindsAssumption DEF Looks, Both
  <2>2. /\ InP!phases = [u \in InTrunks |-> InP!phases[u]]
        /\ InP!holds = [u \in InTrunks |-> InP!holds[u]]
    BY DEF InP!phases, InP!holds
  <2>3. ASSUME NEW to, InP!phases' = [InP!phases EXCEPT ![t] = to]
        PROVE  phases' = [phases EXCEPT ![t] = to]
    BY <2>1, <2>2, <2>3, KindsAssumption DEF Both
  <2>4. ASSUME NEW to, InP!holds' = [InP!holds EXCEPT ![t] = to]
        PROVE  holds' = [holds EXCEPT ![t] = to]
    BY <2>1, <2>2, <2>4, KindsAssumption DEF Both
  <2> QED
    BY <2>1, <2>3, <2>4
<1>6. ASSUME NEW u \in OutTrunks, NEW id \in Ids, holds[u] = id
      PROVE  IsOf(id, "outbound")
  BY <1>6, MarkersAssumption, KindsAssumption DEF Looks, Both
<1>7. CASE UNCHANGED InP!Lifecycle!vars
  BY <1>3, <1>4, <1>7 DEF InP!Lifecycle!vars, Lifecycle!vars
<1>8. ASSUME NEW t \in InTrunks,
             \/ InP!Lifecycle!Request(t) \/ InP!Lifecycle!Edit(t)
             \/ InP!Lifecycle!Doom(t) \/ InP!Lifecycle!Drop(t)
      PROVE  Lifecycle!Next
  <2>1. \/ Lifecycle!Request(t) \/ Lifecycle!Edit(t) \/ Lifecycle!Doom(t) \/ Lifecycle!Drop(t)
    BY <1>3, <1>4, <1>5, <1>8
       DEF InP!Lifecycle!Request, InP!Lifecycle!Edit, InP!Lifecycle!Doom,
           InP!Lifecycle!Drop, Lifecycle!Request, Lifecycle!Edit, Lifecycle!Doom,
           Lifecycle!Drop, InP!Lifecycle!Moves, Lifecycle!Moves, InP!Lifecycle!Wanted,
           Lifecycle!Wanted
  <2> QED
    BY <1>5, <2>1 DEF Lifecycle!Next
<1>9. ASSUME NEW t \in InTrunks, InP!Lifecycle!Retire(t) PROVE Lifecycle!Next
  <2>1. holds[t] # NoId
          => states[holds[t]] # "live" \/ holds[t] \in inAbandoned \cup outAbandoned
    <3>1. holds[t] # NoId => IsOf(holds[t], "inbound")
      BY <1>5 DEF Looks
    <3>2. holds[t] # NoId => states[holds[t]] = InP!states[holds[t]]
      BY <1>1, <3>1 DEF IsOf
    <3> QED
      BY <1>5, <1>9, <3>2 DEF InP!Lifecycle!Retire
  <2>2. Lifecycle!Retire(t)
    BY <1>3, <1>4, <1>5, <1>9, <2>1
       DEF InP!Lifecycle!Retire, Lifecycle!Retire, InP!Lifecycle!Moves, Lifecycle!Moves
  <2> QED
    BY <1>5, <2>2 DEF Lifecycle!Next
<1>10. ASSUME NEW t \in InTrunks, NEW id \in Ids,
              InP!Lifecycle!Record(t, id) \/ InP!Lifecycle!Sync(t, id)
       PROVE  Lifecycle!Next
  <2>1. InP!Lifecycle!Takes(t, id) /\ InP!states[id] = "live"
    BY <1>10 DEF InP!Lifecycle!Record, InP!Lifecycle!Sync, InP!Lifecycle!Takes
  <2>2. states[id] = "live" /\ ~IsOf(id, "outbound")
    BY <1>1, <2>1 DEF Looks, IsOf
  <2>3. \A u \in (InTrunks \cup OutTrunks) \ {t} : holds[u] # id
    BY <1>5, <1>6, <2>1, <2>2 DEF InP!Lifecycle!Takes
  <2>4. Lifecycle!Takes(t, id)
    BY <1>3, <1>4, <1>5, <2>1, <2>2, <2>3 DEF InP!Lifecycle!Takes, Lifecycle!Takes
  <2>5. Lifecycle!Record(t, id) \/ Lifecycle!Sync(t, id)
    BY <1>4, <1>5, <1>10, <2>4
       DEF InP!Lifecycle!Record, InP!Lifecycle!Sync, Lifecycle!Record, Lifecycle!Sync,
           InP!Lifecycle!Moves, Lifecycle!Moves
  <2> QED
    BY <1>5, <2>5 DEF Lifecycle!Next
<1>11. ASSUME NEW id \in Ids, InP!Lifecycle!Make(id) PROVE Lifecycle!Next
  <2>1. InP!states[id] = "unused" /\ InP!states' = [InP!states EXCEPT ![id] = "live"]
    BY <1>11 DEF InP!Lifecycle!Make
  <2>2. states[id] = "unused"
    BY <1>1, <2>1 DEF Looks
  <2>3. states' = [states EXCEPT ![id] = "live"]
    BY <1>1, <1>2, <2>1, <2>2 DEF Looks
  <2>4. Lifecycle!Make(id)
    BY <1>4, <1>11, <2>2, <2>3 DEF InP!Lifecycle!Make, Lifecycle!Make
  <2> QED
    BY <2>4 DEF Lifecycle!Next
<1>12. ASSUME NEW id \in Ids, InP!Lifecycle!Release(id)
       PROVE  [Lifecycle!Next]_(Lifecycle!vars)
  <2>1. /\ InP!states' \in {InP!states, [InP!states EXCEPT ![id] = "deleted"]}
        /\ inAbandoned' \in {inAbandoned, inAbandoned \cup {id}}
        /\ UNCHANGED <<InP!phases, InP!holds>>
    BY <1>12 DEF InP!Lifecycle!Release
  <2>2. CASE IsOf(id, "outbound")
    <3>1. UNCHANGED states
      BY <1>1, <1>2, <2>1, <2>2
    <3>2. UNCHANGED inAbandoned
      <4>1. ~IsOf(id, "inbound")'
        BY <2>2, OthersKept DEF IsOf
      <4> QED
        BY <2>1, <4>1 DEF Looks
    <3> QED
      BY <1>4, <2>1, <3>1, <3>2 DEF Lifecycle!vars
  <2>3. CASE ~IsOf(id, "outbound")
    <3>1. \A u \in InTrunks \cup OutTrunks : Lifecycle!Wanted(u) => holds[u] # id
      BY <1>5, <1>6, <1>12, <2>3
         DEF InP!Lifecycle!Release, InP!Lifecycle!Wanted, Lifecycle!Wanted
    <3>2. states' \in {states, [states EXCEPT ![id] = "deleted"]}
      BY <1>1, <1>2, <1>3, <2>1, <2>3
    <3>3. (inAbandoned \cup outAbandoned)'
            \in {inAbandoned \cup outAbandoned, (inAbandoned \cup outAbandoned) \cup {id}}
      BY <2>1
    <3>4. Lifecycle!Release(id)
      BY <1>4, <2>1, <3>1, <3>2, <3>3 DEF Lifecycle!Release
    <3> QED
      BY <3>4 DEF Lifecycle!Next
  <2> QED
    BY <2>2, <2>3
<1> QED
  BY <1>7, <1>8, <1>9, <1>10, <1>11, <1>12 DEF InP!Lifecycle!Next

\* What the outbound controller does to its resources and trunks is, to the two together,
\* the same or nothing.
LEMMA OutLifecycle ==
  ASSUME RemoteKinds, Looks, Looks', Touches("outbound"),
         UNCHANGED <<InP!phases, InP!holds, inAbandoned>>,
         [OutP!Lifecycle!Next]_(OutP!Lifecycle!vars)
  PROVE  [Lifecycle!Next]_(Lifecycle!vars)
<1>1. ASSUME NEW id \in Ids
      PROVE  IF IsOf(id, "inbound")
               THEN states'[id] = states[id] /\ OutP!states'[id] = OutP!states[id]
               ELSE states'[id] = OutP!states'[id] /\ states[id] = OutP!states[id]
  <2>1. CASE IsOf(id, "inbound")
    <3>1. IsOf(id, "inbound")' /\ states'[id] = states[id]
      BY <2>1, OthersKept DEF states
    <3>2. OutP!states[id] = "deleted"
      BY <2>1 DEF Looks, IsOf, states
    <3>3. OutP!states'[id] = "deleted"
      BY <3>1 DEF Looks, IsOf, states
    <3> QED
      BY <2>1, <3>1, <3>2, <3>3
  <2>2. CASE ~IsOf(id, "inbound")
    <3>1. ~IsOf(id, "inbound")'
      BY <2>2, OthersKept
    <3> QED
      BY <2>2, <3>1 DEF Looks
  <2> QED
    BY <2>1, <2>2
<1>2. states = [id \in Ids |-> states[id]] /\ states' = [id \in Ids |-> states'[id]]
      /\ OutP!states = [id \in Ids |-> OutP!states[id]]
  BY DEF states, OutP!states
<1>3. UNCHANGED OutP!states => UNCHANGED states
  BY <1>1, <1>2
<1>4. /\ UNCHANGED OutP!phases => UNCHANGED phases
      /\ UNCHANGED OutP!holds => UNCHANGED holds
      /\ UNCHANGED outAbandoned => UNCHANGED (inAbandoned \cup outAbandoned)
  BY DEF Looks, Both
<1>5. ASSUME NEW t \in OutTrunks
      PROVE  /\ t \in InTrunks \cup OutTrunks
             /\ phases[t] = OutP!phases[t] /\ holds[t] = OutP!holds[t]
             /\ \A to : /\ OutP!phases' = [OutP!phases EXCEPT ![t] = to]
                             => phases' = [phases EXCEPT ![t] = to]
                        /\ OutP!holds' = [OutP!holds EXCEPT ![t] = to]
                             => holds' = [holds EXCEPT ![t] = to]
  <2>1. /\ phases[t] = OutP!phases[t] /\ holds[t] = OutP!holds[t]
        /\ phases = Both(InP!phases, OutP!phases) /\ phases' = Both(InP!phases, OutP!phases)'
        /\ holds = Both(InP!holds, OutP!holds) /\ holds' = Both(InP!holds, OutP!holds)'
        /\ t \in InTrunks <=> t \notin OutTrunks
    BY KindsAssumption DEF Looks, Both
  <2>2. /\ OutP!phases = [u \in OutTrunks |-> OutP!phases[u]]
        /\ OutP!holds = [u \in OutTrunks |-> OutP!holds[u]]
    BY DEF OutP!phases, OutP!holds
  <2>3. ASSUME NEW to, OutP!phases' = [OutP!phases EXCEPT ![t] = to]
        PROVE  phases' = [phases EXCEPT ![t] = to]
    BY <2>1, <2>2, <2>3, KindsAssumption DEF Both
  <2>4. ASSUME NEW to, OutP!holds' = [OutP!holds EXCEPT ![t] = to]
        PROVE  holds' = [holds EXCEPT ![t] = to]
    BY <2>1, <2>2, <2>4, KindsAssumption DEF Both
  <2> QED
    BY <2>1, <2>3, <2>4
<1>6. ASSUME NEW u \in InTrunks, NEW id \in Ids, holds[u] = id
      PROVE  IsOf(id, "inbound")
  BY <1>6, MarkersAssumption, KindsAssumption DEF Looks, Both
<1>7. CASE UNCHANGED OutP!Lifecycle!vars
  BY <1>3, <1>4, <1>7 DEF OutP!Lifecycle!vars, Lifecycle!vars
<1>8. ASSUME NEW t \in OutTrunks,
             \/ OutP!Lifecycle!Request(t) \/ OutP!Lifecycle!Edit(t)
             \/ OutP!Lifecycle!Doom(t) \/ OutP!Lifecycle!Drop(t)
      PROVE  Lifecycle!Next
  <2>1. \/ Lifecycle!Request(t) \/ Lifecycle!Edit(t) \/ Lifecycle!Doom(t) \/ Lifecycle!Drop(t)
    BY <1>3, <1>4, <1>5, <1>8
       DEF OutP!Lifecycle!Request, OutP!Lifecycle!Edit, OutP!Lifecycle!Doom,
           OutP!Lifecycle!Drop, Lifecycle!Request, Lifecycle!Edit, Lifecycle!Doom,
           Lifecycle!Drop, OutP!Lifecycle!Moves, Lifecycle!Moves, OutP!Lifecycle!Wanted,
           Lifecycle!Wanted
  <2> QED
    BY <1>5, <2>1 DEF Lifecycle!Next
<1>9. ASSUME NEW t \in OutTrunks, OutP!Lifecycle!Retire(t) PROVE Lifecycle!Next
  <2>1. holds[t] # NoId
          => states[holds[t]] # "live" \/ holds[t] \in inAbandoned \cup outAbandoned
    <3>1. holds[t] # NoId => IsOf(holds[t], "outbound")
      BY <1>5 DEF Looks
    <3>2. holds[t] # NoId => states[holds[t]] = OutP!states[holds[t]]
      BY <1>1, <3>1 DEF IsOf
    <3> QED
      BY <1>5, <1>9, <3>2 DEF OutP!Lifecycle!Retire
  <2>2. Lifecycle!Retire(t)
    BY <1>3, <1>4, <1>5, <1>9, <2>1
       DEF OutP!Lifecycle!Retire, Lifecycle!Retire, OutP!Lifecycle!Moves, Lifecycle!Moves
  <2> QED
    BY <1>5, <2>2 DEF Lifecycle!Next
<1>10. ASSUME NEW t \in OutTrunks, NEW id \in Ids,
              OutP!Lifecycle!Record(t, id) \/ OutP!Lifecycle!Sync(t, id)
       PROVE  Lifecycle!Next
  <2>1. OutP!Lifecycle!Takes(t, id) /\ OutP!states[id] = "live"
    BY <1>10 DEF OutP!Lifecycle!Record, OutP!Lifecycle!Sync, OutP!Lifecycle!Takes
  <2>2. states[id] = "live" /\ ~IsOf(id, "inbound")
    BY <1>1, <2>1 DEF Looks, IsOf
  <2>3. \A u \in (InTrunks \cup OutTrunks) \ {t} : holds[u] # id
    BY <1>5, <1>6, <2>1, <2>2 DEF OutP!Lifecycle!Takes
  <2>4. Lifecycle!Takes(t, id)
    BY <1>3, <1>4, <1>5, <2>1, <2>2, <2>3 DEF OutP!Lifecycle!Takes, Lifecycle!Takes
  <2>5. Lifecycle!Record(t, id) \/ Lifecycle!Sync(t, id)
    BY <1>4, <1>5, <1>10, <2>4
       DEF OutP!Lifecycle!Record, OutP!Lifecycle!Sync, Lifecycle!Record, Lifecycle!Sync,
           OutP!Lifecycle!Moves, Lifecycle!Moves
  <2> QED
    BY <1>5, <2>5 DEF Lifecycle!Next
<1>11. ASSUME NEW id \in Ids, OutP!Lifecycle!Make(id) PROVE Lifecycle!Next
  <2>1. OutP!states[id] = "unused" /\ OutP!states' = [OutP!states EXCEPT ![id] = "live"]
    BY <1>11 DEF OutP!Lifecycle!Make
  <2>2. states[id] = "unused"
    BY <1>1, <2>1 DEF Looks
  <2>3. states' = [states EXCEPT ![id] = "live"]
    BY <1>1, <1>2, <2>1, <2>2 DEF Looks
  <2>4. Lifecycle!Make(id)
    BY <1>4, <1>11, <2>2, <2>3 DEF OutP!Lifecycle!Make, Lifecycle!Make
  <2> QED
    BY <2>4 DEF Lifecycle!Next
<1>12. ASSUME NEW id \in Ids, OutP!Lifecycle!Release(id)
       PROVE  [Lifecycle!Next]_(Lifecycle!vars)
  <2>1. /\ OutP!states' \in {OutP!states, [OutP!states EXCEPT ![id] = "deleted"]}
        /\ outAbandoned' \in {outAbandoned, outAbandoned \cup {id}}
        /\ UNCHANGED <<OutP!phases, OutP!holds>>
    BY <1>12 DEF OutP!Lifecycle!Release
  <2>2. CASE IsOf(id, "inbound")
    <3>1. UNCHANGED states
      BY <1>1, <1>2, <2>1, <2>2
    <3>2. UNCHANGED outAbandoned
      <4>1. ~IsOf(id, "outbound")'
        BY <2>2, OthersKept DEF IsOf
      <4> QED
        BY <2>1, <4>1 DEF Looks
    <3> QED
      BY <1>4, <2>1, <3>1, <3>2 DEF Lifecycle!vars
  <2>3. CASE ~IsOf(id, "inbound")
    <3>1. \A u \in InTrunks \cup OutTrunks : Lifecycle!Wanted(u) => holds[u] # id
      BY <1>5, <1>6, <1>12, <2>3
         DEF OutP!Lifecycle!Release, OutP!Lifecycle!Wanted, Lifecycle!Wanted
    <3>2. states' \in {states, [states EXCEPT ![id] = "deleted"]}
      BY <1>1, <1>2, <1>3, <2>1, <2>3
    <3>3. (inAbandoned \cup outAbandoned)'
            \in {inAbandoned \cup outAbandoned, (inAbandoned \cup outAbandoned) \cup {id}}
      BY <2>1
    <3>4. Lifecycle!Release(id)
      BY <1>4, <2>1, <3>1, <3>2, <3>3 DEF Lifecycle!Release
    <3> QED
      BY <3>4 DEF Lifecycle!Next
  <2> QED
    BY <2>2, <2>3
<1> QED
  BY <1>7, <1>8, <1>9, <1>10, <1>11, <1>12 DEF OutP!Lifecycle!Next

\* To begin with no resource is there, and no trunk.
LEMMA InitLooks == Init => Lifecycle!Init
<1> SUFFICES ASSUME Init PROVE Lifecycle!Init
  OBVIOUS
<1>1. /\ \A t \in InTrunks : ~inApi[t].exists
      /\ \A t \in OutTrunks : ~outApi[t].exists
      /\ inAbandoned = {} /\ outAbandoned = {}
      /\ remote = [id \in Ids |-> In!Unused]
  BY DEF Init, In!Init, Out!Init, Out!Trunk!Init, In!NeverCreated, Out!Trunk!NeverCreated
<1>2. /\ phases = [t \in InTrunks \cup OutTrunks |-> "absent"]
      /\ holds = [t \in InTrunks \cup OutTrunks |-> NoId]
  BY <1>1 DEF phases, holds, Both, In!phases, In!holds, Out!Trunk!phases, Out!Trunk!holds,
              In!Phase, In!Held, Out!Trunk!Phase, Out!Trunk!Held
<1>3. states = [id \in Ids |-> "unused"]
  BY <1>1 DEF states, In!Unused
<1> QED
  BY <1>1, <1>2, <1>3 DEF Lifecycle!Init

\* Secrets come and go, and the process restarts, without the lifecycles.
LEMMA SharedLooks ==
  ASSUME Shared
  PROVE  UNCHANGED Lifecycle!vars
<1>1. UNCHANGED <<inApi, outApi, remote, inAbandoned, outAbandoned>>
  BY DEF Shared, In!SecretLost, In!SecretRestored, In!Restart, Out!Trunk!SecretLost,
         Out!Trunk!SecretRestored, Out!Trunk!Restart, In!kubeVars, Out!Trunk!kubeVars
<1> QED
  BY <1>1 DEF Lifecycle!vars, phases, holds, states, Both, In!phases, In!holds,
              Out!Trunk!phases, Out!Trunk!holds

\* Every step of the two is one of TrunkLifecycle for all the resources, or shows nowhere.
LEMMA StepLifecycle ==
  ASSUME Inv, Looks, Looks', InP!IndInv, OutP!IndInv, [Next]_vars
  PROVE  [Lifecycle!Next]_(Lifecycle!vars)
<1>1. CASE Inbound
  <2>1. Touches("inbound") /\ UNCHANGED outVars
    BY <1>1, InStepSeen DEF Inbound, Inv
  <2>2. [InP!Lifecycle!Next]_(InP!Lifecycle!vars)
    BY StepSeen, InAssumptions, InP!StepLifecycle
       DEF InP!StepLifecycle, InP!SpecsAssumption, InP!MarkersAssumption,
           InP!BudgetsAssumption
  <2>3. UNCHANGED <<OutP!phases, OutP!holds, outAbandoned>>
    BY <2>1 DEF outVars, OutP!phases, OutP!holds
  <2> QED
    BY <2>1, <2>2, <2>3, InLifecycle DEF Inv
<1>2. CASE Outbound
  <2>1. Touches("outbound") /\ UNCHANGED inVars
    BY <1>2, OutStepSeen DEF Outbound, Inv
  <2>2. [OutP!Lifecycle!Next]_(OutP!Lifecycle!vars)
    BY StepSeen, OutAssumptions, OutP!StepLifecycle
       DEF OutP!StepLifecycle, OutP!SpecsAssumption, OutP!MarkersAssumption,
           OutP!BudgetsAssumption
  <2>3. UNCHANGED <<InP!phases, InP!holds, inAbandoned>>
    BY <2>1 DEF inVars, InP!phases, InP!holds
  <2> QED
    BY <2>1, <2>2, <2>3, OutLifecycle DEF Inv
<1>3. CASE Shared
  BY <1>3, SharedLooks
<1>4. CASE UNCHANGED vars
  BY <1>4 DEF vars, inVars, outVars, Lifecycle!vars, phases, holds, states, Both, In!phases,
              In!holds, Out!Trunk!phases, Out!Trunk!holds
<1> QED
  BY <1>1, <1>2, <1>3, <1>4 DEF Next

\* KeepsLifecycle: the two controllers together go through nothing that TrunkLifecycle does
\* not allow for all their resources as one.
THEOREM LifecycleTogether ==
  ASSUME OwnNamesOnly
  PROVE  Spec => KeepsLifecycle
<1>1. Init => Lifecycle!Init
  BY InitLooks
<1>2. Inv /\ Looks /\ Looks' /\ InP!IndInv /\ OutP!IndInv /\ [Next]_vars
        => [Lifecycle!Next]_(Lifecycle!vars)
  BY StepLifecycle
<1> QED
  BY <1>1, <1>2, IndInvs, InitInv, NextInv, LooksAlike, PTL
     DEF Spec, KeepsLifecycle, Lifecycle!Spec

\* Hence no two resources of either kind ever record the same trunk, and neither deletes,
\* or overwrites in LiveKit, what is another's.
THEOREM NoTrunkOfTwo ==
  ASSUME OwnNamesOnly
  PROVE  Spec => []Lifecycle!Exclusive
<1>1. Spec => Lifecycle!Spec
  BY LifecycleTogether DEF KeepsLifecycle
<1>2. Lifecycle!Inv => Lifecycle!Exclusive
  BY DEF Lifecycle!Inv
<1> QED
  BY <1>1, <1>2, Lifecycle!OwnTrunks, PTL
=============================================================================
