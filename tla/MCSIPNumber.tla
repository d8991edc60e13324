---------------------------- MODULE MCSIPNumber ----------------------------
(***************************************************************************)
(* A small instance of SIPNumber for TLC.                                  *)
(***************************************************************************)
EXTENDS SIPNumber, TLC

CONSTANTS n1, did1, c1, v1, v2

Set(server, krisp) == [livekitRef |-> server, krispEnabled |-> krisp]

\* The number inherits its settings but one, which it sets itself, and at times names no
\* SIPTrunkConfig to inherit the rest from.
Overriding ==
  n1 :> {[number |-> did1, trunkConfigRef |-> c, inline |-> Set(Unset, v1)] : c \in {c1, NoRef}}

\* The SIPTrunkConfig changes, or goes and comes back.
Changing == c1 :> <<Set(v1, v2), Missing, Set(v2, v2)>>

\* A number that is deleted and created again, and one that stays while two other things happen.
Scenarios == {[deletes |-> 1, events |-> 0, ghosts |-> 1],
              [deletes |-> 0, events |-> 2, ghosts |-> 0]}
=============================================================================
