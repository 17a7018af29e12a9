-------------------------- MODULE BackendToolClient --------------------------
(***************************************************************************)
(* BackendToolClient.execute: what the POST to the ALOS Backend can end    *)
(* in, and how the client turns that into a ToolResult document or into    *)
(* an exception.                                                           *)
(*                                                                         *)
(* An HTTP ending is a record with a kind.  A "document" is a ToolResult   *)
(* the contract accepts; error is what the runtime reads from the error    *)
(* member of one that is not a success, defaults filled in.                *)
(***************************************************************************)

CONSTANTS
  CorrelationIds,   \* correlation identifiers of requests and documents
  ToolErrorCodes    \* error codes a Backend document may carry

\* Nothing has come back yet.
NoReply == [kind |-> "none"]

\* Endings without a ToolResult: httpx.TimeoutException, httpx.RequestError,
\* a status below and from 500, a body that is not a JSON object, and an object
\* the ToolResult contract refuses.
Breakdowns ==
  [kind : {"timeout", "unavailable", "http_4xx", "http_5xx", "not_an_object", "off_contract"}]

Documents ==
  [kind : {"document"}, status : {"SUCCESS", "COMPLETED"}, correlation_id : CorrelationIds]
    \cup
  [kind : {"document"}, status : {"BLOCKED"}, correlation_id : CorrelationIds,
   error : [code : ToolErrorCodes \cup {"TOOL_EXECUTION_BLOCKED"}, retryable : BOOLEAN]]

Replies == Breakdowns \cup Documents

\* The statuses the runtime takes as success.
Successful(document) == document.status \in {"SUCCESS", "COMPLETED"}

\* As if the document's correlation identifier were not compared.
ReturnsAnyCorrelation(reply, correlation_id) == reply.kind = "document"

\* execute returns the document; every other ending of the call raises.
Returns(reply, correlation_id) ==
  /\ reply.kind = "document"
  /\ reply.correlation_id = correlation_id
=============================================================================
