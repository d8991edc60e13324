------------------------- MODULE MCSIPDispatchRule -------------------------
(***************************************************************************)
(* Small instances of SIPDispatchRule for TLC: the specs of each rule, and *)
(* what EgressConfigs and secrets contain, one content after the other.    *)
(***************************************************************************)
EXTENDS SIPDispatchRule, TLC

CONSTANTS r1, nameA, s1, s2, b1, b2, e1, k1, old, new

SpecWith(server, body, roomConfig) ==
  [name |-> nameA, livekitRef |-> server, body |-> body, roomConfig |-> roomConfig]

\* The rule records its calls; an edit changes its body and drops the room configuration, and
\* may point the rule to another server.
OneRule == r1 :> {SpecWith(s1, b1, {e1}), SpecWith(s1, b2, NoRoom), SpecWith(s2, b2, NoRoom)}

\* An S3 bucket with all its credentials in one secret; the same with one of the two
\* references missing; storage left to the egress worker.
Full == [storage |-> "S3", bucket |-> "calls",
         refs |-> [k \in {"accessKey", "secretKey"} |-> k1]]
Partial == [storage |-> "S3", bucket |-> "calls", refs |-> "accessKey" :> k1]
Worker == [storage |-> "Azure", bucket |-> "calls", refs |-> <<>>]

\* The EgressConfig comes to exist, is misconfigured for a while, and changes.
Growing == e1 :> <<NoEgress, Full, Partial, Worker>>

\* It changes, and is changed back.
Reverted == e1 :> <<Full, Worker, Full>>

\* The LiveKit credentials are gone for a while; the storage credentials are rotated.
Changing == (s1 :> <<old, Missing, old>>) @@ (s2 :> <<old>>) @@ (k1 :> <<old, new>>)

Budget(edits, deletes, faults, changes, outages, rotations) ==
  [edits |-> edits, deletes |-> deletes, faults |-> faults, changes |-> changes,
   outages |-> outages, rotations |-> rotations]

\* An edit, beside all changes of the EgressConfig or an outage of the LiveKit credentials;
\* or a deletion and a rotation.
Scenarios == {Budget(1, 0, 1, 3, 0, 0), Budget(1, 0, 1, 1, 2, 0), Budget(0, 1, 1, 2, 0, 1)}

OneFault == {Budget(0, 0, 1, 2, 0, 0)}
=============================================================================
