---------------------------- MODULE TrunkRequests ----------------------------
(***************************************************************************)
(* The settings of a trunk, and what a request to LiveKit says of them     *)
(* (buildTrunkInfo of the two trunk controllers, with the conversions of   *)
(* enumerated options).  A setting that is not set is "", and is then left *)
(* at the zero value of the protocol's enumeration.                        *)
(***************************************************************************)

CONSTANT Fields  \* values of the fields that pass unchanged: numbers, addresses, headers, ...

SIPHeaderOptions == {"none", "all", "x-headers"}
SIPMediaEncryption == {"disable", "allow", "require"}
SIPTransport == {"auto", "udp", "tcp", "tls"}

InboundSettings ==
  [fields: Fields, includeHeaders: SIPHeaderOptions \cup {""},
   mediaEncryption: SIPMediaEncryption \cup {""}]

OutboundSettings ==
  [fields: Fields, includeHeaders: SIPHeaderOptions \cup {""},
   mediaEncryption: SIPMediaEncryption \cup {""}, transport: SIPTransport \cup {""}]

sipHeaderOptionToProto(opt) ==
  CASE opt = "all" -> "SIP_ALL_HEADERS"
    [] opt = "x-headers" -> "SIP_X_HEADERS"
    [] OTHER -> "SIP_NO_HEADERS"

mediaEncryptionToProto(enc) ==
  CASE enc = "allow" -> "SIP_MEDIA_ENCRYPT_ALLOW"
    [] enc = "require" -> "SIP_MEDIA_ENCRYPT_REQUIRE"
    [] OTHER -> "SIP_MEDIA_ENCRYPT_DISABLE"

sipTransportToProto(t) ==
  CASE t = "udp" -> "SIP_TRANSPORT_UDP"
    [] t = "tcp" -> "SIP_TRANSPORT_TCP"
    [] t = "tls" -> "SIP_TRANSPORT_TLS"
    [] OTHER -> "SIP_TRANSPORT_AUTO"

\* The conversions take the zero values for "", as the requests do that leave them out.
InboundPayload ==
  [s \in InboundSettings |->
     [fields |-> s.fields, includeHeaders |-> sipHeaderOptionToProto(s.includeHeaders),
      mediaEncryption |-> mediaEncryptionToProto(s.mediaEncryption)]]

OutboundPayload ==
  [s \in OutboundSettings |->
     [fields |-> s.fields, includeHeaders |-> sipHeaderOptionToProto(s.includeHeaders),
      mediaEncryption |-> mediaEncryptionToProto(s.mediaEncryption),
      transport |-> sipTransportToProto(s.transport)]]
=============================================================================
