---------------------------- MODULE WireProtocol ----------------------------
(***************************************************************************)
(* The studio wire protocol: what the server takes for a message and      *)
(* what it answers to the first one and to those that follow.              *)
(***************************************************************************)
CONSTANT Texts          \* what a client may put on the wire

Versions == {"ours", "theirs"}
RequestTypes == {"hello", "ping", "echo", "application_request", "bye"}
Errors == {"version_mismatch", "malformed", "unexpected"}
ReplyTypes == {"hello_ack", "pong", "echo_ack", "application_result", "bye"} \cup Errors

\* stale: the envelope is of another version; broken: no JSON, an unknown type or
\* fields that are missing or of another type.
Text == [type : RequestTypes, protocol : Versions, form : {"good", "stale", "broken"}]

ASSUME TextsAssumption == Texts \subseteq Text

\* decode() deserializes the whole envelope and then compares its version; the session
\* answers `malformed` to either.
Decodes(text) == text.form = "good"

\* The replies whose type, or error code, decode() of protocol.gd knows; others it drops.
KnownBeforeApplications == ReplyTypes \ {"application_result"}
KnownReplies == ReplyTypes

\* handshake_reply().
HandshakeAnyProtocol(text) == IF text.type # "hello" THEN "unexpected" ELSE "hello_ack"
HandshakeReply(text) ==
  IF text.type # "hello" THEN "unexpected"
  ELSE IF text.protocol = "ours" THEN "hello_ack" ELSE "version_mismatch"

\* The first answer to a text, decoded or not.
FirstReply(text) == IF Decodes(text) THEN HandshakeReply(text) ELSE "malformed"

\* What the arms of the session loop send back; an application's result is its own.
LoopReply(text, hasApplication) ==
  CASE ~Decodes(text) -> "malformed"
    [] Decodes(text) /\ text.type = "ping" -> "pong"
    [] Decodes(text) /\ text.type = "echo" -> "echo_ack"
    [] Decodes(text) /\ text.type = "bye" -> "bye"
    [] Decodes(text) /\ text.type = "application_request" ->
         IF hasApplication THEN "application_result" ELSE "unexpected"
    [] OTHER -> "unexpected"
=============================================================================
