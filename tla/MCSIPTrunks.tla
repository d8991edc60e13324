----------------------------- MODULE MCSIPTrunks -----------------------------
(***************************************************************************)
(* A small instance of SIPTrunks for TLC: an inbound and an outbound       *)
(* resource with the same spec.name, which may be pointed at another       *)
(* LiveKit server.                                                         *)
(***************************************************************************)
EXTENDS SIPTrunks, TLC

CONSTANTS t1, u1, nameA, s1, s2, n1, i1, i2, i3

InSettings == [fields |-> n1, includeHeaders |-> "", mediaEncryption |-> ""]
OutSettings ==
  [fields |-> n1, includeHeaders |-> "", mediaEncryption |-> "", transport |-> "tls"]

SpecWith(server, settings) ==
  [name |-> nameA, livekitRef |-> server, authSecretRef |-> NoSecret, settings |-> settings]

Moved == t1 :> {SpecWith(s, InSettings) : s \in {s1, s2}}
Fixed == u1 :> {SpecWith(s1, OutSettings)}

Budget(edits, deletes, faults) ==
  [edits |-> edits, deletes |-> deletes, faults |-> faults, others |-> 0]

Pair(a, b) == [inbound |-> a, outbound |-> b]

\* One side is edited while the other is deleted and made again; or secrets are lost or
\* the process dies, or a call of each side fails.
Scenarios ==
  {Pair(Budget(1, 0, 0), Budget(0, 1, 0)), Pair(Budget(0, 0, 1), Budget(0, 0, 1))}

IdSymmetry == Permutations(Ids)
=============================================================================
