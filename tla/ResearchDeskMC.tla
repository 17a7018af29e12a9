----------------------------- MODULE ResearchDeskMC -----------------------------
(***************************************************************************)
(* The research of ResearchEngineMC beside an analysis of a document the   *)
(* policy admits, of one it does not, and under a policy it does not know; *)
(* answers that lack a heading or a citation and answers that cite lines   *)
(* before, after and across the ends of the document.  Comparisons of up   *)
(* to three documents that share hashes, source ids and fields.            *)
(***************************************************************************)
EXTENDS ResearchDesk, ResearchEngineMC

Citation(start, end) == [start |-> start, end |-> end]

Headings ==
  {"jawaban ringkas", "temuan dan kekurangan", "checklist perbaikan",
   "batasan dan informasi yang belum tersedia"}

AnalysisRequest(policy_ref, classification) ==
  [correlation_id |-> "corr", policy_ref |-> policy_ref,
   source |-> [source_id |-> "policy", data_classification |-> classification, lines |-> 2]]

MCAnalysisRequests ==
  {AnalysisRequest(PolicyRef, "INTERNAL"), AnalysisRequest(PolicyRef, "CONFIDENTIAL"),
   AnalysisRequest("policy.unknown", "PUBLIC")}

MCAnalysisAnswers ==
  [headings : {Headings, Headings \cup {"sumber"}, {"sumber"}},
   citations : {{}, {Citation(1, 1)}, {Citation(1, 2), Citation(2, 2)}, {Citation(0, 1)},
                {Citation(2, 1)}, {Citation(1, 1), Citation(2, 3)}}]

Line(key, value) == [key |-> key, value |-> value]

Document(id, hash, lines, years) ==
  [source_id |-> id, content_hash |-> hash, lines |-> lines, years |-> years]

MCDocuments ==
  {Document(1, "a", <<Line("owner", "finance")>>, {2024}),
   Document(2, "a", <<Line("owner", "finance")>>, {2024, 2026}),
   Document(2, "b", <<Line("owner", "legal"), Line("owner", "finance")>>, {}),
   Document(1, "b", <<Line("owner", "finance"), Line("owner", "legal")>>, {2026}),
   Document(3, "c", <<Line("approval", "board"), Line("owner", "hr")>>, {2027}),
   Document(3, "a", <<>>, {})}

MCComparedDocuments == UNION {[1..n -> MCDocuments] : n \in 0..3}
=============================================================================
