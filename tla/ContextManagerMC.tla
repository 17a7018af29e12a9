---------------------------- MODULE ContextManagerMC ----------------------------
(***************************************************************************)
(* One sound call and, for each guard, a call that it refuses; and the     *)
(* calls with up to four optional or required segments of different        *)
(* priority and size, two of which may share an id, in any order; and      *)
(* calls with up to four segments that carry evidence, two of which share  *)
(* an evidence id, each ranked for every query.                            *)
(***************************************************************************)
EXTENDS EvidenceRanking

MCTools == {"search", "write", "delete"}

Boundary ==
  [identity |-> "ours", role_refs |-> {"runner"}, authority_levels |-> {"SYSTEM"},
   scope_refs |-> {"division", "project"}, permission_refs |-> {"read"},
   tool_ids |-> {"search", "write"}, classifications |-> {0, 1}]

Context ==
  [contract_valid |-> TRUE, identity |-> "ours", role_refs |-> {"runner"},
   authority_level |-> "SYSTEM", scope_refs |-> {"division", "project"},
   permission_refs |-> {"read"}, tool_ids |-> {"search"}, data_classification |-> 1,
   correlation_id |-> "this"]

Evidence ==
  [evidence_id |-> "e1", identity |-> "ours", scope_refs |-> {"division"}, correlation_id |-> "this",
   data_classification |-> 1, source_type |-> "INTERNAL", content_trust |-> "GOVERNED",
   freshness |-> "CURRENT", validation_status |-> "VALID"]

Segment(id, priority, size) ==
  [segment_id |-> id, size |-> size, priority |-> priority, source |-> "INTERNAL",
   trust |-> "GOVERNED", freshness |-> "CURRENT", data_classification |-> 1,
   scope_refs |-> {"division"}, permission_refs |-> {}, tool_ids |-> {},
   evidence |-> IF priority = RequiredUpTo THEN {Evidence} ELSE {}, words |-> {},
   instructs |-> FALSE]

MCSystemSegments == [i \in 1..3 |-> Segment(4 + i, i, 1)]

Call(context, boundary, segments, maximum) ==
  [context |-> context, boundary |-> boundary, goal_given |-> TRUE,
   scope_refs |-> {"division"}, tool_ids |-> {"search"}, segments |-> segments,
   maximum_characters |-> maximum]

\* Calls that differ from a sound one in a single respect.
With(s) == Call(Context, Boundary, <<s, Segment(1, 8, 1)>>, 9)
Sound == Segment(2, 5, 2)
Grounded(e) == [Sound EXCEPT !.evidence = {e}]

ContextVariants ==
  {[Context EXCEPT !.contract_valid = FALSE], [Context EXCEPT !.identity = "theirs"],
   [Context EXCEPT !.role_refs = {"approver"}], [Context EXCEPT !.authority_level = "DIRECTOR"],
   [Context EXCEPT !.scope_refs = {}], [Context EXCEPT !.scope_refs = {"division", "other"}],
   [Context EXCEPT !.scope_refs = {"project"}], [Context EXCEPT !.permission_refs = {"approve"}],
   [Context EXCEPT !.tool_ids = {"search", "delete"}], [Context EXCEPT !.tool_ids = {}],
   [Context EXCEPT !.data_classification = 3]}

SegmentVariants ==
  {[Sound EXCEPT !.scope_refs = {"project"}], [Sound EXCEPT !.permission_refs = {"approve"}],
   [Sound EXCEPT !.tool_ids = {"delete"}], [Sound EXCEPT !.tool_ids = {"write"}],
   [Sound EXCEPT !.data_classification = 2], [Sound EXCEPT !.freshness = "STALE"],
   [Sound EXCEPT !.priority = 7, !.source = "EXTERNAL", !.trust = "UNTRUSTED",
                 !.evidence = {}, !.instructs = TRUE],
   [Sound EXCEPT !.freshness = "STALE", !.evidence = {[Evidence EXCEPT !.freshness = "STALE"]}],
   [Sound EXCEPT !.priority = 6, !.scope_refs = {"project"}, !.evidence = {}]}
  \cup {Grounded(e) : e \in
          {[Evidence EXCEPT !.identity = "theirs"],
           [Evidence EXCEPT !.scope_refs = {"division", "project"}],
           [Evidence EXCEPT !.correlation_id = "other"],
           [Evidence EXCEPT !.data_classification = 0],
           [Evidence EXCEPT !.source_type = "EXTERNAL"],
           [Evidence EXCEPT !.content_trust = "UNTRUSTED"],
           [Evidence EXCEPT !.freshness = "UNKNOWN"],
           [Evidence EXCEPT !.validation_status = "PENDING"]}}

SafetyCalls ==
  {Call(c, Boundary, <<Sound>>, 9) : c \in ContextVariants}
  \cup {With(s) : s \in SegmentVariants \cup {Sound}}
  \cup {[With(Sound) EXCEPT !.goal_given = FALSE]}

\* Ids run against priorities, so that neither order agrees with the other.
Fillers == {Segment(9, 4, 2), Segment(8, 6, 3), Segment(8, 6, 1), Segment(1, 7, 2), Segment(0, 8, 1)}

BudgetCalls ==
  {Call(Context, Boundary, segments, maximum) :
     segments \in UNION {[1..n -> Fillers] : n \in 0..4}, maximum \in {0, 3, 5, 7}}

SegmentWith(id, priority, size, evidence_id, words) ==
  [Segment(id, priority, size) EXCEPT
     !.evidence = {[Evidence EXCEPT !.evidence_id = evidence_id]}, !.words = words]

Witnesses ==
  {SegmentWith(2, 5, 1, "e1", {}), SegmentWith(1, 6, 2, "e2", {"finance"}),
   SegmentWith(3, 7, 1, "e1", {"finance", "legal"}), SegmentWith(3, 8, 1, "e3", {"legal"}),
   Segment(1, 8, 1)}

RankingCalls ==
  {Call(Context, Boundary, segments, 7) : segments \in UNION {[1..n -> Witnesses] : n \in 1..4}}

MCQueries == [terms : SUBSET {"finance", "legal"}, max_items : 1..3]

MCCalls == SafetyCalls \cup BudgetCalls \cup RankingCalls
=============================================================================
