------------------------- MODULE MCSIPInboundTrunk -------------------------
(***************************************************************************)
(* Small instances of SIPInboundTrunk for TLC: which specs users give each *)
(* resource.                                                               *)
(***************************************************************************)
EXTENDS SIPInboundTrunk, TrunkRequests, TLC

CONSTANTS t1, t2, nameA, nameB, s1, s2, secretA, n1

Plain == [fields |-> n1, includeHeaders |-> "", mediaEncryption |-> ""]
Encrypted == [Plain EXCEPT !.mediaEncryption = "require"]

SpecWith(name, server, auth, settings) ==
  [name |-> name, livekitRef |-> server, authSecretRef |-> auth, settings |-> settings]

\* One resource, edited, with an auth secret in some of its specs.
OneResource ==
  t1 :> {SpecWith(nameA, s1, secretA, Plain), SpecWith(nameA, s1, NoSecret, Encrypted)}

\* Two resources with the same spec.name on the same server.
SharedName ==
  [t \in {t1, t2} |-> {SpecWith(nameA, s1, NoSecret, IF t = t1 THEN Plain ELSE Encrypted)}]

\* One resource whose users point it from one server to the other.
Moving == t1 :> {SpecWith(nameA, s, NoSecret, Plain) : s \in {s1, s2}}

Budget(edits, deletes, faults, others) ==
  [edits |-> edits, deletes |-> deletes, faults |-> faults, others |-> others]

\* Many edits, many faults, or an id that goes to a trunk of the other kind.
Scenarios ==
  {Budget(2, 1, 1, 0), Budget(1, 0, 2, 0), Budget(0, 1, 2, 0), Budget(1, 0, 1, 1)}

\* The server is changed, and changed back, beside a fault or a deletion.
Moves == {Budget(2, 0, 1, 0), Budget(1, 1, 1, 0)}

OneEdit == {Budget(1, 0, 0, 0)}
OneDeletion == {Budget(0, 1, 0, 0)}
OneFault == {Budget(0, 0, 1, 0)}
NoEvent == {Budget(0, 0, 0, 0)}
=============================================================================
