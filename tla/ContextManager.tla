------------------------------ MODULE ContextManager ------------------------------
(***************************************************************************)
(* One ContextManager.build: the execution context is held against the     *)
(* boundary Backend issued, every segment against the execution context,   *)
(* and what passed is put into a context of bounded size.                  *)
(*                                                                         *)
(* Candidates are the manager's own three segments followed by those of    *)
(* the caller, in the caller's order; they are known by their position,    *)
(* because nothing makes segment ids distinct.  Segment ids are numbers    *)
(* whose order is that of the strings, a data classification is its rank,  *)
(* and tenant, organization, workspace and actor are one identity.         *)
(***************************************************************************)
EXTENDS Naturals, Sequences, FiniteSets

CONSTANTS
  Calls,           \* the arguments build may be called with
  SystemSegments,  \* <<rules, execution context, goal>>: the segments the manager adds
  Identities, Roles, Levels, Scopes, Permissions, Tools, Correlations, EvidenceIds,
  Words            \* that a query may look for in a segment's content

Classifications == 0..3
Priorities == 1..8
RequiredUpTo == 5     \* ContextPriority.AUTHORITATIVE_EVIDENCE

Sources == {"SYSTEM", "INTERNAL", "MEMORY", "EXTERNAL"}
Trusts == {"GOVERNED", "UNTRUSTED"}
Freshnesses == {"CURRENT", "STALE", "UNKNOWN"}

Boundaries ==
  [identity : Identities, role_refs : SUBSET Roles, authority_levels : SUBSET Levels,
   scope_refs : SUBSET Scopes, permission_refs : SUBSET Permissions, tool_ids : SUBSET Tools,
   classifications : SUBSET Classifications]

\* Whether the contract accepts the context is up to schemas that are kept elsewhere.
ExecutionContexts ==
  [contract_valid : BOOLEAN, identity : Identities, role_refs : SUBSET Roles,
   authority_level : Levels, scope_refs : SUBSET Scopes, permission_refs : SUBSET Permissions,
   tool_ids : SUBSET Tools, data_classification : Classifications, correlation_id : Correlations]

EvidenceReferences ==
  [evidence_id : EvidenceIds, identity : Identities, scope_refs : SUBSET Scopes, correlation_id : Correlations,
   data_classification : Classifications, source_type : {"INTERNAL", "EXTERNAL"},
   content_trust : Trusts, freshness : Freshnesses,
   validation_status : {"PENDING", "VALID", "INVALID", "WAIVED"}]

\* evidence is empty or holds the segment's reference; instructs says whether the content
\* matches one of the injection patterns.
Segments ==
  {s \in [segment_id : Nat, size : Nat \ {0}, priority : Priorities, source : Sources,
          trust : Trusts, freshness : Freshnesses, data_classification : Classifications,
          scope_refs : SUBSET Scopes, permission_refs : SUBSET Permissions,
          tool_ids : SUBSET Tools, evidence : SUBSET EvidenceReferences, words : SUBSET Words,
          instructs : BOOLEAN] :
     /\ s.source = "EXTERNAL" => s.trust = "UNTRUSTED"
     /\ s.priority = RequiredUpTo => s.evidence # {}
     /\ \A e, f \in s.evidence : e = f}

TypedCall(c) ==
  /\ DOMAIN c = {"context", "boundary", "goal_given", "scope_refs", "tool_ids", "segments",
                 "maximum_characters"}
  /\ c.context \in ExecutionContexts /\ c.boundary \in Boundaries
  /\ c.goal_given \in BOOLEAN /\ c.scope_refs \subseteq Scopes /\ c.tool_ids \subseteq Tools
  /\ c.segments \in Seq(Segments)
  /\ c.maximum_characters \in Nat

ASSUME CallsAssumption == \A c \in Calls : TypedCall(c)
ASSUME SystemSegmentsAssumption ==
  /\ DOMAIN SystemSegments = 1..3
  /\ \A i \in 1..3 : /\ SystemSegments[i] \in Segments
                     /\ SystemSegments[i].priority = i /\ SystemSegments[i].evidence = {}

VARIABLES
  call,      \* the arguments
  pc,        \* "context", "segments", "fill", "built" or "failed"
  position,  \* the caller's segment to look at next
  pending,   \* candidates, by position, that are neither selected nor dropped
  selected, dropped,
  used,      \* characters of what is selected
  code       \* why the call failed

vars == <<call, pc, position, pending, selected, dropped, used, code>>
-----------------------------------------------------------------------------
(* ContextSafetyGuard *)

\* As if the classification of the execution context were not looked at.
ContextObjectionUnclassified ==
  LET c == call.context b == call.boundary IN
  IF ~ c.contract_valid \/ c.scope_refs = {} THEN "EXECUTION_CONTEXT_INVALID"
  ELSE IF c.identity # b.identity THEN "CONTEXT_IDENTITY_MISMATCH"
  ELSE IF ~ c.scope_refs \subseteq b.scope_refs THEN "CONTEXT_SCOPE_ESCALATION"
  ELSE IF ~ c.permission_refs \subseteq b.permission_refs THEN "CONTEXT_PERMISSION_ESCALATION"
  ELSE IF ~ c.tool_ids \subseteq b.tool_ids THEN "CONTEXT_TOOL_ESCALATION"
  ELSE IF ~ c.role_refs \subseteq b.role_refs THEN "CONTEXT_ROLE_ESCALATION"
  ELSE IF c.authority_level \notin b.authority_levels THEN "CONTEXT_AUTHORITY_DENIED"
  ELSE IF ~ call.goal_given THEN "CONTEXT_GOAL_REQUIRED"
  ELSE IF ~ call.scope_refs \subseteq c.scope_refs THEN "CONTEXT_SCOPE_ESCALATION"
  ELSE IF ~ call.tool_ids \subseteq c.tool_ids THEN "CONTEXT_TOOL_ESCALATION"
  ELSE "none"

\* The first objection to the execution context and to what is asked of it.
ContextObjection ==
  LET c == call.context b == call.boundary IN
  IF ~ c.contract_valid \/ c.scope_refs = {} THEN "EXECUTION_CONTEXT_INVALID"
  ELSE IF c.identity # b.identity THEN "CONTEXT_IDENTITY_MISMATCH"
  ELSE IF ~ c.scope_refs \subseteq b.scope_refs THEN "CONTEXT_SCOPE_ESCALATION"
  ELSE IF ~ c.permission_refs \subseteq b.permission_refs THEN "CONTEXT_PERMISSION_ESCALATION"
  ELSE IF ~ c.tool_ids \subseteq b.tool_ids THEN "CONTEXT_TOOL_ESCALATION"
  ELSE IF ~ c.role_refs \subseteq b.role_refs THEN "CONTEXT_ROLE_ESCALATION"
  ELSE IF c.authority_level \notin b.authority_levels THEN "CONTEXT_AUTHORITY_DENIED"
  ELSE IF c.data_classification \notin b.classifications THEN "CONTEXT_CLASSIFICATION_DENIED"
  ELSE IF ~ call.goal_given THEN "CONTEXT_GOAL_REQUIRED"
  ELSE IF ~ call.scope_refs \subseteq c.scope_refs THEN "CONTEXT_SCOPE_ESCALATION"
  ELSE IF ~ call.tool_ids \subseteq c.tool_ids THEN "CONTEXT_TOOL_ESCALATION"
  ELSE "none"

Required(s) == s.priority <= RequiredUpTo

EvidenceObjection(e, s) ==
  LET c == call.context IN
  IF e.identity # c.identity THEN "CONTEXT_EVIDENCE_SCOPE_MISMATCH"
  ELSE IF ~ e.scope_refs \subseteq s.scope_refs THEN "CONTEXT_EVIDENCE_SCOPE_ESCALATION"
  ELSE IF e.correlation_id # c.correlation_id THEN "CONTEXT_EVIDENCE_CORRELATION_MISMATCH"
  ELSE IF e.data_classification # s.data_classification
       THEN "CONTEXT_EVIDENCE_CLASSIFICATION_MISMATCH"
  ELSE IF e.source_type # s.source THEN "CONTEXT_EVIDENCE_SOURCE_MISMATCH"
  ELSE IF e.content_trust # s.trust THEN "CONTEXT_EVIDENCE_TRUST_MISMATCH"
  ELSE IF e.freshness # s.freshness THEN "CONTEXT_EVIDENCE_FRESHNESS_MISMATCH"
  ELSE IF e.validation_status # "VALID" THEN "CONTEXT_EVIDENCE_INVALID"
  ELSE "none"

\* Tools are compared with the boundary, permissions with the execution context.
BoundObjection(s) ==
  LET c == call.context b == call.boundary IN
  IF ~ s.scope_refs \subseteq call.scope_refs THEN "CONTEXT_SCOPE_ESCALATION"
  ELSE IF ~ s.permission_refs \subseteq c.permission_refs THEN "CONTEXT_PERMISSION_ESCALATION"
  ELSE IF ~ s.tool_ids \subseteq b.tool_ids THEN "CONTEXT_TOOL_ESCALATION"
  ELSE IF s.data_classification \notin b.classifications
          \/ s.data_classification > c.data_classification THEN "CONTEXT_CLASSIFICATION_DENIED"
  ELSE "none"

SegmentObjection(s) ==
  IF BoundObjection(s) # "none" THEN BoundObjection(s)
  ELSE IF \E e \in s.evidence : EvidenceObjection(e, s) # "none"
       THEN CHOOSE o \in {EvidenceObjection(e, s) : e \in s.evidence} : TRUE
  ELSE IF Required(s) /\ s.freshness # "CURRENT" THEN "CONTEXT_EVIDENCE_STALE"
  ELSE IF s.source = "EXTERNAL" /\ s.instructs THEN "EXTERNAL_CONTEXT_INSTRUCTION_INJECTION"
  ELSE "none"
-----------------------------------------------------------------------------
(* ContextBudgetManager *)

CallerSegments == DOMAIN call.segments
Candidates == DOMAIN SystemSegments \cup {3 + i : i \in CallerSegments}
Candidate(i) == IF i <= 3 THEN SystemSegments[i] ELSE call.segments[i - 3]

\* The characters at some positions, each known by its position and its place in the content.
CharactersAt(positions) == UNION {{i} \X (1..Candidate(i).size) : i \in positions}

Characters(positions) == Cardinality(CharactersAt(positions))

\* As if segments were sorted by their ids alone.
PrecedesById(i, j) ==
  LET s == Candidate(i) t == Candidate(j) IN
  s.segment_id < t.segment_id \/ (s.segment_id = t.segment_id /\ i <= j)

\* The sort by (priority, segment_id) is stable: equal keys stay in the caller's order.
Precedes(i, j) ==
  LET s == Candidate(i) t == Candidate(j) IN
  \/ s.priority < t.priority
  \/ s.priority = t.priority /\ s.segment_id < t.segment_id
  \/ s.priority = t.priority /\ s.segment_id = t.segment_id /\ i <= j

\* As if only the manager's own segments had to fit.
SystemCharacters == Characters(DOMAIN SystemSegments)

RequiredCharacters == Characters({i \in Candidates : Required(Candidate(i))})
-----------------------------------------------------------------------------
(* The call *)

Fail(reason) == pc' = "failed" /\ code' = reason

Init ==
  /\ call \in Calls
  /\ pc = "context" /\ position = 1 /\ code = "none"
  /\ pending = {} /\ selected = {} /\ dropped = {} /\ used = 0

ValidateContext ==
  /\ pc = "context"
  /\ \/ ContextObjection # "none" /\ Fail(ContextObjection)
     \/ ContextObjection = "none" /\ pc' = "segments" /\ UNCHANGED code
  /\ UNCHANGED <<call, position, pending, selected, dropped, used>>

\* One turn of the loop over the caller's segments.
ValidateSegment ==
  /\ pc = "segments" /\ position \in CallerSegments
  /\ LET objection == SegmentObjection(call.segments[position]) IN
     \/ objection # "none" /\ Fail(objection) /\ UNCHANGED position
     \/ objection = "none" /\ position' = position + 1 /\ UNCHANGED <<pc, code>>
  /\ UNCHANGED <<call, pending, selected, dropped, used>>

\* What is required must fit before anything is selected.
StartSelection ==
  /\ pc = "segments" /\ position \notin CallerSegments
  /\ \/ /\ call.maximum_characters < 1
        /\ Fail("CONTEXT_BUDGET_INVALID") /\ UNCHANGED pending
     \/ /\ call.maximum_characters >= 1 /\ RequiredCharacters > call.maximum_characters
        /\ Fail("CONTEXT_BUDGET_REQUIRED_OVERFLOW") /\ UNCHANGED pending
     \/ /\ call.maximum_characters >= 1 /\ RequiredCharacters <= call.maximum_characters
        /\ pc' = "fill" /\ pending' = Candidates /\ UNCHANGED code
  /\ UNCHANGED <<call, position, selected, dropped, used>>

Room(i) == used + Candidate(i).size <= call.maximum_characters

IsNext(i) == \A j \in pending : Precedes(i, j)

\* As if what is dropped were still to do.
DropKept(i) ==
  /\ pc = "fill" /\ IsNext(i)
  /\ ~ Required(Candidate(i)) /\ ~ Room(i)
  /\ dropped' = dropped \cup {i}
  /\ UNCHANGED <<call, pc, position, pending, selected, used, code>>

Drop(i) ==
  /\ pc = "fill" /\ IsNext(i)
  /\ ~ Required(Candidate(i)) /\ ~ Room(i)
  /\ dropped' = dropped \cup {i} /\ pending' = pending \ {i}
  /\ UNCHANGED <<call, pc, position, selected, used, code>>

Keep(i) ==
  /\ pc = "fill" /\ IsNext(i)
  /\ Required(Candidate(i)) \/ Room(i)
  /\ selected' = selected \cup {i} /\ pending' = pending \ {i}
  /\ used' = used + Candidate(i).size
  /\ UNCHANGED <<call, pc, position, dropped, code>>

\* The bundle is held against a contract that is kept elsewhere.
Bundle ==
  /\ pc = "fill" /\ pending = {}
  /\ \/ pc' = "built" /\ UNCHANGED code
     \/ Fail("CONTEXT_BUNDLE_CONTRACT_INVALID")
  /\ UNCHANGED <<call, position, pending, selected, dropped, used>>

Next ==
  \/ ValidateContext \/ ValidateSegment \/ StartSelection
  \/ \E i \in pending : Keep(i) \/ Drop(i)
  \/ Bundle

Spec == Init /\ [][Next]_vars
-----------------------------------------------------------------------------
(* Properties *)

\* The type invariant: what is selected, dropped and still to do are disjoint candidates, and a
\* call has failed exactly when it has a code.
TypeOK ==
  /\ TypedCall(call)
  /\ pc \in {"context", "segments", "fill", "built", "failed"}
  /\ position \in Nat \ {0}
  /\ pending \cup selected \cup dropped \subseteq Candidates
  /\ pending \cap selected = {} /\ pending \cap dropped = {} /\ selected \cap dropped = {}
  /\ used \in Nat
  /\ (pc = "failed") <=> (code # "none")

\* The execution context of a context that was built has the boundary's identity and is within the
\* boundary in its roles, authority level, scopes, permissions, tools and classification; the
\* context has no tool or scope beyond it.  What the caller added is within the scope asked for,
\* the boundary's tools and classifications and the execution context's permissions and
\* classification, and any evidence comes from the same tenant and the same correlation
\* (safety.py, manager.py).
AuthorityKept ==
  pc = "built" =>
    /\ call.context.identity = call.boundary.identity
    /\ call.context.role_refs \subseteq call.boundary.role_refs
    /\ call.context.authority_level \in call.boundary.authority_levels
    /\ call.context.data_classification \in call.boundary.classifications
    /\ call.context.permission_refs \subseteq call.boundary.permission_refs
    /\ call.tool_ids \subseteq call.context.tool_ids
    /\ call.context.tool_ids \subseteq call.boundary.tool_ids
    /\ call.scope_refs \subseteq call.context.scope_refs
    /\ call.context.scope_refs \subseteq call.boundary.scope_refs
    /\ \A i \in selected \ DOMAIN SystemSegments :
         LET s == Candidate(i) IN
         /\ s.scope_refs \subseteq call.scope_refs
         /\ s.permission_refs \subseteq call.context.permission_refs
         /\ s.tool_ids \subseteq call.boundary.tool_ids
         /\ s.data_classification \in call.boundary.classifications
         /\ s.data_classification <= call.context.data_classification
         /\ s.source = "EXTERNAL" => ~ s.instructs
         /\ \A e \in s.evidence :
              /\ e.identity = call.context.identity
              /\ e.correlation_id = call.context.correlation_id
              /\ e.scope_refs \subseteq call.scope_refs
              /\ e.validation_status = "VALID"

\* A context that was built holds all that is required and no more than the characters allowed,
\* and the size it reports is the size it has (budgeting.py 16-64).
SelectionFits ==
  pc = "built" =>
    /\ used = Characters(selected) /\ used <= call.maximum_characters
    /\ {i \in Candidates : Required(Candidate(i))} \subseteq selected

\* A segment is left out only because the more important ones leave no room for it: together
\* with what was selected from before it, it would be too long, and so would a context that is
\* completed with it afterwards (budgeting.py 44-53).
DroppedForRoom ==
  pc = "built" =>
    /\ selected \cup dropped = Candidates
    /\ \A i \in dropped :
         /\ Characters({j \in selected : Candidate(j).priority <= Candidate(i).priority})
              + Candidate(i).size > call.maximum_characters
         /\ used + Candidate(i).size > call.maximum_characters

\* "it cannot add scope, tools, or permission": a segment names no tool that the execution
\* context does not allow (models.py 146, safety.py 118-120).
SegmentsAddNoTools ==
  pc = "built" => \A i \in selected : Candidate(i).tool_ids \subseteq call.context.tool_ids
=============================================================================
