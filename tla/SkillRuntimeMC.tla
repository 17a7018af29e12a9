----------------------------- MODULE SkillRuntimeMC -----------------------------
(***************************************************************************)
(* Three directories; three skills, one of them in two versions; packages  *)
(* with each defect the loader looks for; one installation during the      *)
(* call.                                                                   *)
(***************************************************************************)
EXTENDS SkillRuntime

Skill(id, version) == [skill_id |-> id, skill_version |-> version]

Definition(id, version, terms, tools, permissions, scopes) ==
  [skill_id |-> id, skill_version |-> version, metadata |-> terms,
   required_tool_ids |-> tools, permission_refs |-> permissions, scope_refs |-> scopes]

Package(specification, valid, instructions, data_only) ==
  [specification |-> specification, manifest_valid |-> valid,
   instructions |-> instructions, data_only |-> data_only]

Summary1 == Definition(1, 1, {"evidence"}, {}, {}, {})
Summary2 == Definition(1, 2, {"evidence"}, {"search"}, {}, {})
Market == Definition(2, 1, {"evidence", "market"}, {"search"}, {"read"}, {"division"})
Legal == Definition(3, 1, {"contract"}, {}, {}, {})

MCPackages ==
  {Package(s, TRUE, "text", TRUE) : s \in {Summary1, Summary2, Market, Legal}}
  \cup {Package(Summary1, FALSE, "text", TRUE), Package(Summary1, TRUE, "absent", TRUE),
        Package(Summary1, TRUE, "empty", TRUE), Package(Summary2, TRUE, "text", FALSE)}

Grant(refs, permissions, scopes, tools) ==
  [skill_refs |-> refs, permission_refs |-> permissions,
   scope_refs |-> scopes, allowed_tool_ids |-> tools]

AllSkills == {Skill(1, 1), Skill(1, 2), Skill(2, 1), Skill(3, 1)}
Everything == Grant(AllSkills, {"read"}, {"division"}, {"search"})

Request(context, agent, maximum) ==
  [context |-> context, agent |-> agent, goal |-> {"evidence", "market"},
   maximum_selected |-> maximum]

MCRequests ==
  {Request(Everything, Everything, n) : n \in {0, 2, 3}}
  \cup {Request(Everything, Grant({Skill(1, 1)}, {"read"}, {"division"}, {"search"}), 1),
        Request(Everything, Grant(AllSkills, {"read"}, {}, {}), 2),
        Request(Everything, Grant(AllSkills, {}, {"division"}, {"search"}), 2),
        Request(Grant({Skill(1, 2), Skill(2, 1)}, {}, {}, {"search"}), Everything, 2)}
=============================================================================
