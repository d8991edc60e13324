--------------------------- MODULE SIPOutboundTrunk ---------------------------
(***************************************************************************)
(* The SIPOutboundTrunk controller                                         *)
(* (internal/controller/sipoutboundtrunk_controller.go): the code of the   *)
(* SIPInboundTrunk controller over again, with requests for trunks of the  *)
(* other kind.  What is said of one is said of both here, by instantiating *)
(* the module of the one; the handlers below name what each is a copy of.  *)
(***************************************************************************)
EXTENDS TrunkRequests

CONSTANTS Trunks, Names, Servers, AuthSecrets, NoSecret, SpecsOf, Ids, NoId, NoKey, Budgets

VARIABLES api, watch, cache, queue, pc, key, obj, draft, again, remote, readable,
          abandoned, budget

Trunk == INSTANCE SIPInboundTrunk WITH
  Kind <- "outbound", Settings <- OutboundSettings, Payload <- OutboundPayload

vars == Trunk!vars

SIPOutboundTrunkSpec == Trunk!TrunkSpec

\* For(&SIPOutboundTrunk{}): the controller's only watch.
SetupWithManager(t) == Trunk!WatchEvent(t) \/ Trunk!Resync(t)

\* Up to the first remote call.
Reconcile(t) == Trunk!Reconcile(t)

AddFinalizer == Trunk!AddFinalizer

\* The lookup, and the adoption of what it finds.
findOutboundTrunkByName == Trunk!ListTrunks

reconcileCreate == findOutboundTrunkByName \/ Trunk!CreateTrunk

reconcileUpdate == Trunk!UpdateTrunk

reconcileDelete == Trunk!DeleteTrunk \/ Trunk!RemoveFinalizer

\* Every Status().Update, of a success or of an error.
WriteStatus == Trunk!WriteStatus

Controller ==
  \/ \E t \in Trunks : SetupWithManager(t) \/ Reconcile(t)
  \/ AddFinalizer \/ reconcileCreate \/ reconcileUpdate \/ reconcileDelete \/ WriteStatus

Init == Trunk!Init

Next == Trunk!Environment \/ Controller
=============================================================================
