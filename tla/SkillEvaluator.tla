----------------------------- MODULE SkillEvaluator -----------------------------
(***************************************************************************)
(* SkillEvaluator's two evaluations.  An evaluation is its checks, each of *)
(* which passes or not, and passes when all of them do.  The declared      *)
(* criteria of a skill are carried along by the code and never looked at;  *)
(* they and the reasons of the checks are left out.                        *)
(***************************************************************************)

Evaluation(checks) ==
  [checks |-> checks, passed |-> \A check \in DOMAIN checks : checks[check]]

\* evaluate_applicability of a SkillCandidateOutcome.
EvaluateApplicability(selected, missing_tool_ids, context_present, prerequisites_satisfied) ==
  Evaluation(
    [authorized_and_relevant |-> selected,
     required_tools_authorized |-> selected \/ missing_tool_ids = {},
     execution_context_present |-> context_present,
     context_prerequisites |-> prerequisites_satisfied])

\* As if a limitation that is stated excused what it states.
EvaluateResultExcused(contract, evidence_required, cited, supplied, used, authorized, limitations) ==
  LET evidence_present == limitations \/ ~ evidence_required \/ cited # {}
      unknown == IF limitations THEN {} ELSE cited \ supplied
      unsupported == IF limitations THEN {} ELSE used \ authorized
  IN Evaluation(
       [output_contract |-> contract,
        required_evidence_present |-> evidence_present,
        evidence_refs_authorized |-> unknown = {},
        tool_usage_authorized |-> unsupported = {},
        failure_or_limitations_explicit |-> TRUE])

\* evaluate_result: evidence cited and supplied, tools used and authorized are sets of ids.
EvaluateResult(contract, evidence_required, cited, supplied, used, authorized, limitations) ==
  LET evidence_present == ~ evidence_required \/ cited # {}
      unknown == cited \ supplied
      unsupported == used \ authorized
      requirements_met == evidence_present /\ unknown = {} /\ unsupported = {}
  IN Evaluation(
       [output_contract |-> contract,
        required_evidence_present |-> evidence_present,
        evidence_refs_authorized |-> unknown = {},
        tool_usage_authorized |-> unsupported = {},
        failure_or_limitations_explicit |-> requirements_met \/ limitations])
=============================================================================
