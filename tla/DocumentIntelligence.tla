-------------------------- MODULE DocumentIntelligence --------------------------
(***************************************************************************)
(* One DocumentIntelligence.analyze: a question about one immutable        *)
(* document is answered by one call of the model, and the answer is        *)
(* returned only if it has the required headings and cites lines of that   *)
(* document.                                                               *)
(*                                                                         *)
(* A document is its id, its classification and the number of its lines.   *)
(* An answer is the headings that occur in it and the line ranges it cites *)
(* in the form [Sumber Lx-Ly]; the code sees no other form of citation.    *)
(***************************************************************************)
EXTENDS ModelGateway, Sequences

CONSTANTS
  CorrelationIds, PolicyRefs, SourceIds,
  Requests,        \* a subset of DocumentAnalysisRequests
  Answers          \* what a provider may answer, a subset of SemanticAnswers

RequiredHeadings ==
  {"jawaban ringkas", "temuan dan kekurangan", "checklist perbaikan",
   "batasan dan informasi yang belum tersedia", "sumber"}

DocumentSources ==
  [source_id : SourceIds, data_classification : DOMAIN Rank, lines : Nat \ {0}]

DocumentAnalysisRequests ==
  [correlation_id : CorrelationIds, policy_ref : PolicyRefs, source : DocumentSources]

SemanticAnswers ==
  [headings : SUBSET RequiredHeadings, citations : SUBSET [start : Nat, end : Nat]]

VARIABLES
  request,   \* the DocumentAnalysisRequest
  pc,        \* "received", suspended in "reasoning", or "ended"
  asked,     \* the source and the classification the provider was asked about, in order
  outcome    \* the DocumentAnalysisDraft, or what was raised

vars == <<request, pc, asked, outcome>>
-----------------------------------------------------------------------------
(* Validation of an answer *)

\* A heading is looked for anywhere in the text, and the word of the last one is in every citation.
MissingHeadings(answer) ==
  RequiredHeadings \ (answer.headings \cup (IF answer.citations # {} THEN {"sumber"} ELSE {}))

\* As if only the order of a citation's ends were checked at its start.
WithinSourceFromAbove(citation, lines) ==
  citation.start <= citation.end /\ citation.end <= lines

WithinSource(citation, lines) ==
  citation.start >= 1 /\ citation.end >= citation.start /\ citation.end <= lines

ValidAnswer(answer, lines) ==
  /\ MissingHeadings(answer) = {}
  /\ answer.citations # {}
  /\ \A c \in answer.citations : WithinSource(c, lines)
-----------------------------------------------------------------------------
(* The call *)

\* The budget is made for this request.
ModelRequest ==
  [policy_ref |-> request.policy_ref,
   data_classification |-> request.source.data_classification,
   requested_max_tokens |-> 2000,
   budget |-> [f \in Limits |-> IF f = "max_tokens" THEN 2000
                                ELSE IF f = "max_steps" THEN 1 ELSE NoLimit]]

DocumentAnalysisDraft(answer) ==
  [output_state |-> "AI_INFERRED", correlation_id |-> request.correlation_id,
   source_id |-> request.source.source_id, answer |-> answer]

Pending == [output_state |-> "PENDING"]
Raised(exception) == [output_state |-> exception]

Raise(exception) == pc' = "ended" /\ outcome' = Raised(exception) /\ UNCHANGED <<request, asked>>

Init == request \in Requests /\ pc = "received" /\ asked = <<>> /\ outcome = Pending

\* Up to the await of the provider.
Analyze ==
  /\ pc = "received"
  /\ \/ ~ AdmitsModelRequest(ModelRequest) /\ Raise("ModelGatewayError")
     \/ /\ AdmitsModelRequest(ModelRequest)
        /\ pc' = "reasoning" /\ asked' = Append(asked, ModelRequest)
        /\ UNCHANGED <<request, outcome>>

ModelReturns(answer) ==
  /\ pc = "reasoning"
  /\ \/ /\ ~ ValidAnswer(answer, request.source.lines)
        /\ Raise("SemanticAnswerInvalid")
     \/ /\ ValidAnswer(answer, request.source.lines)
        /\ pc' = "ended" /\ outcome' = DocumentAnalysisDraft(answer)
        /\ UNCHANGED <<request, asked>>

ModelRaises == pc = "reasoning" /\ Raise("ProviderError")

\* The caller cancels the task.
Cancel == pc = "reasoning" /\ Raise("CancelledError")

Next ==
  \/ Analyze
  \/ \E answer \in Answers : ModelReturns(answer)
  \/ ModelRaises
  \/ Cancel

Spec == Init /\ [][Next]_vars
-----------------------------------------------------------------------------
(* Properties *)

DocumentAnalysisDrafts ==
  [output_state : {"AI_INFERRED"}, correlation_id : CorrelationIds, source_id : SourceIds,
   answer : SemanticAnswers]

Exceptions == {"ModelGatewayError", "SemanticAnswerInvalid", "ProviderError", "CancelledError"}

\* The type invariant: the provider has been asked exactly when its answer is awaited or used, and
\* the call has an outcome exactly when it has ended.
TypeOK ==
  /\ request \in Requests
  /\ pc \in {"received", "reasoning", "ended"}
  /\ asked \in Seq({ModelRequest})
  /\ outcome \in DocumentAnalysisDrafts \cup {Raised(e) : e \in Exceptions} \cup {Pending}
  /\ (pc = "ended") <=> (outcome # Pending)

\* "sumber bernomor, sitasi baris": the provider is asked once about a source, and only if the
\* policy admits the source's classification; a draft is about the source and under the
\* correlation of the request, cites at least one line and no line the source does not have
\* (document_intelligence.py 86-139).
AnalysisBound ==
  /\ Len(asked) <= 1
  /\ asked # <<>> =>
       /\ request.policy_ref \in AllowedPolicyRefs
       /\ Rank[request.source.data_classification] <= Rank[MaximumDataClassification]
  /\ outcome \in DocumentAnalysisDrafts =>
       /\ Len(asked) = 1
       /\ outcome.correlation_id = request.correlation_id
       /\ outcome.source_id = request.source.source_id
       /\ UNION {c.start..c.end : c \in outcome.answer.citations} \subseteq 1..request.source.lines
       /\ \A c \in outcome.answer.citations : c.start..c.end # {}
       /\ outcome.answer.citations # {}
=============================================================================
