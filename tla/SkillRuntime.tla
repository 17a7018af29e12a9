------------------------------ MODULE SkillRuntime ------------------------------
(***************************************************************************)
(* One SkillRuntime.prepare: discover the manifests of all packages,       *)
(* select among the skills Backend and the agent both authorize, and load  *)
(* the instructions of the selected ones.                                  *)
(*                                                                         *)
(* prepare reads the packages one file at a time, and whoever installs     *)
(* packages does not wait for it: Deploy replaces the package in a         *)
(* directory between any two reads.  A replacement is taken to be atomic,  *)
(* which is the kindest an installation can be.                            *)
(*                                                                         *)
(* Skill ids, versions and directories are numbers whose order is the      *)
(* order of the strings; a skill's metadata and the goal are the sets of   *)
(* their terms; the text of a SKILL.md is the skill it was written for.    *)
(***************************************************************************)
EXTENDS Naturals, FiniteSets, SkillEvaluator

CONSTANTS
  Directories,      \* package directories below the root
  Packages,         \* what an installation may put into one
  NoPackage,        \* an empty directory
  Requests,         \* what a caller may ask of prepare
  MaximumLoaded,    \* ProgressiveSkillLoader's bound
  MaximumDeploys,   \* bound on installations during the call
  Tools, Permissions, Scopes, Terms

SkillReferences == [skill_id : Nat, skill_version : Nat]

SkillDefinitions ==
  [skill_id : Nat, skill_version : Nat, metadata : SUBSET Terms,
   required_tool_ids : SUBSET Tools, permission_refs : SUBSET Permissions,
   scope_refs : SUBSET Scopes]

\* The skill_refs, permission_refs, scope_refs and tools that Backend, an agent or both grant.
Grants ==
  [skill_refs : SUBSET SkillReferences, permission_refs : SUBSET Permissions,
   scope_refs : SUBSET Scopes, allowed_tool_ids : SUBSET Tools]

ASSUME DirectoriesAssumption == Directories \subseteq Nat /\ IsFiniteSet(Directories)
ASSUME PackagesAssumption ==
  /\ Packages \subseteq
       [specification : SkillDefinitions, manifest_valid : BOOLEAN,
        instructions : {"absent", "empty", "text"}, data_only : BOOLEAN]
  /\ NoPackage \notin Packages
ASSUME TermsAssumption == IsFiniteSet(Terms)
ASSUME RequestsAssumption ==
  Requests \subseteq [context : Grants, agent : Grants, goal : SUBSET Terms,
                      maximum_selected : Nat]
ASSUME BoundsAssumption == MaximumLoaded \in Nat \ {0} /\ MaximumDeploys \in Nat

VARIABLES
  packages,     \* [Directories -> Packages or NoPackage]: the file system
  deploys,      \* installations so far
  request,      \* the call's arguments
  pc,           \* where the call is, from "discover" to "ended"
  listing,      \* directories that had a manifest when the root was searched, not read yet
  descriptors,  \* SkillDescriptors read so far
  outcomes,     \* the SkillSelection: one SkillCandidateOutcome for each skill considered
  text,         \* for which skill the SKILL.md that was read last had been written
  loaded,       \* LoadedSkills
  result        \* "none", the SkillRuntimeStatus, or the failure that ended the call

callVars == <<pc, listing, descriptors, outcomes, text, loaded, result>>
vars == <<packages, deploys, request, callVars>>
-----------------------------------------------------------------------------
(* Authorization and selection *)

Reference(s) == [skill_id |-> s.skill_id, skill_version |-> s.skill_version]

\* As if the agent's own skill_refs were never looked at.
BackendRefsOnly(context, agent) ==
  [f \in DOMAIN context |->
     IF f = "skill_refs" THEN context[f] ELSE context[f] \cap agent[f]]

FromBackend(context, agent) ==
  [skill_refs |-> context.skill_refs \cap agent.skill_refs,
   permission_refs |-> context.permission_refs \cap agent.permission_refs,
   scope_refs |-> context.scope_refs \cap agent.scope_refs,
   allowed_tool_ids |-> context.allowed_tool_ids \cap agent.allowed_tool_ids]

Authorization == FromBackend(request.context, request.agent)

Relevance(d) == Cardinality(request.goal \cap d.specification.metadata)

\* As if permissions and scopes were looked at before tools.
ScreeningToolsLast(d) ==
  LET s == d.specification IN
  IF Reference(s) \notin Authorization.skill_refs THEN "UNAUTHORIZED"
  ELSE IF request.goal \cap s.metadata = {} THEN "NOT_RELEVANT"
  ELSE IF ~ s.permission_refs \subseteq Authorization.permission_refs
       THEN "REQUIRED_PERMISSION_UNAVAILABLE"
  ELSE IF ~ s.scope_refs \subseteq Authorization.scope_refs THEN "REQUIRED_SCOPE_UNAVAILABLE"
  ELSE IF ~ s.required_tool_ids \subseteq Authorization.allowed_tool_ids
       THEN "REQUIRED_TOOL_UNAVAILABLE"
  ELSE "SELECTED"

\* The first objection to a candidate, in the selector's order; "SELECTED" if there is none.
Screening(d) ==
  LET s == d.specification IN
  IF Reference(s) \notin Authorization.skill_refs THEN "UNAUTHORIZED"
  ELSE IF request.goal \cap s.metadata = {} THEN "NOT_RELEVANT"
  ELSE IF ~ s.required_tool_ids \subseteq Authorization.allowed_tool_ids
       THEN "REQUIRED_TOOL_UNAVAILABLE"
  ELSE IF ~ s.permission_refs \subseteq Authorization.permission_refs
       THEN "REQUIRED_PERMISSION_UNAVAILABLE"
  ELSE IF ~ s.scope_refs \subseteq Authorization.scope_refs THEN "REQUIRED_SCOPE_UNAVAILABLE"
  ELSE "SELECTED"

Eligible == {d \in descriptors : Screening(d) = "SELECTED"}

Precedes(s, t) ==
  \/ s.skill_id < t.skill_id
  \/ s.skill_id = t.skill_id /\ s.skill_version < t.skill_version

\* As if candidates were taken in the order of their references.
OutranksByReference(d, e) == Precedes(d.specification, e.specification)

Outranks(d, e) ==
  \/ Relevance(d) > Relevance(e)
  \/ Relevance(d) = Relevance(e) /\ Precedes(d.specification, e.specification)

Chosen ==
  {d \in Eligible :
     Cardinality({e \in Eligible : Outranks(e, d)}) < request.maximum_selected}

Outcome(r, status, found) == [reference |-> r, status |-> status, found |-> found]

CandidateOutcomes ==
  {Outcome(Reference(d.specification),
           IF d \in Eligible \ Chosen THEN "NOT_RELEVANT" ELSE Screening(d),
           IF Screening(d) = "UNAUTHORIZED" THEN {} ELSE {d})
     : d \in descriptors}

Undiscovered(r) ==
  IF \E d \in descriptors : d.specification.skill_id = r.skill_id
  THEN "VERSION_MISMATCH" ELSE "MISSING_PACKAGE"

MissingOutcomes ==
  {Outcome(r, Undiscovered(r), {})
     : r \in Authorization.skill_refs \ {Reference(d.specification) : d \in descriptors}}

\* The outcomes load_selected is given: all of them have a descriptor.
Selected == UNION {o.found : o \in {x \in outcomes : x.status = "SELECTED"}}

\* The tools an outcome reports as missing; only one objection reports any.
MissingToolIds(o) ==
  IF o.status = "REQUIRED_TOOL_UNAVAILABLE"
  THEN {t \in Tools \ Authorization.allowed_tool_ids :
          \E d \in o.found : t \in d.specification.required_tool_ids}
  ELSE {}

\* What SkillEvaluator says of an outcome.
Applicability(o, context_present, prerequisites_satisfied) ==
  EvaluateApplicability(o.status = "SELECTED", MissingToolIds(o), context_present,
                        prerequisites_satisfied)
-----------------------------------------------------------------------------
(* The call *)

End(status) == pc' = "ended" /\ result' = status

Init ==
  /\ packages \in [Directories -> Packages \cup {NoPackage}]
  /\ deploys = 0
  /\ request \in Requests
  /\ pc = "discover" /\ result = "none"
  /\ listing = {} /\ descriptors = {} /\ outcomes = {} /\ text = {} /\ loaded = {}

Installed == {d \in Directories : packages[d] # NoPackage}

\* root.is_dir, and the search for every skill.yaml below it; an empty root may be missing.
Discover ==
  /\ pc = "discover"
  /\ \/ Installed = {} /\ End("MISSING_PACKAGE") /\ UNCHANGED listing
     \/ pc' = "read" /\ listing' = Installed /\ UNCHANGED result
  /\ UNCHANGED <<packages, deploys, request, descriptors, outcomes, text, loaded>>

FirstListed(d) == \A e \in listing : d <= e

Describe(d) == [specification |-> packages[d].specification, package_path |-> d]

Readable(d) == packages[d] # NoPackage /\ packages[d].manifest_valid

Usable(d) ==
  /\ Readable(d)
  /\ \A e \in descriptors : Reference(e.specification) # Reference(packages[d].specification)

\* As if a manifest that is gone when it is read counted as an empty one.
ReadManifestEmpty(d) ==
  /\ pc = "read" /\ FirstListed(d)
  /\ descriptors' = descriptors \cup
       {IF Readable(d) THEN Describe(d) ELSE [specification |-> NoPackage, package_path |-> d]}
  /\ listing' = listing \ {d}
  /\ UNCHANGED <<packages, deploys, request, pc, outcomes, text, loaded, result>>

\* Any manifest that cannot be used, or whose skill was read before, ends the whole call.
ReadManifest(d) ==
  /\ pc = "read" /\ FirstListed(d)
  /\ \/ /\ Usable(d)
        /\ descriptors' = descriptors \cup {Describe(d)} /\ listing' = listing \ {d}
        /\ UNCHANGED <<pc, result>>
     \/ ~ Usable(d) /\ End("INVALID_MANIFEST") /\ UNCHANGED <<listing, descriptors>>
  /\ UNCHANGED <<packages, deploys, request, outcomes, text, loaded>>

Select ==
  /\ pc = "read" /\ listing = {}
  /\ \/ /\ request.maximum_selected < 1
        /\ End("ValueError") /\ UNCHANGED outcomes
     \/ /\ request.maximum_selected >= 1
        /\ outcomes' = CandidateOutcomes \cup MissingOutcomes
        /\ pc' = "selected" /\ UNCHANGED result
  /\ UNCHANGED <<packages, deploys, request, listing, descriptors, text, loaded>>

\* load_selected looks at the number of the selected skills before it loads any.
StartLoading ==
  /\ pc = "selected"
  /\ \/ Cardinality(Selected) > MaximumLoaded /\ End("LOAD_LIMIT_EXCEEDED")
     \/ Cardinality(Selected) <= MaximumLoaded /\ pc' = "load" /\ UNCHANGED result
  /\ UNCHANGED <<packages, deploys, request, listing, descriptors, outcomes, text, loaded>>

ToLoad == {d \in Selected : \A s \in loaded : s.package_path # d.package_path}

FirstToLoad(d) == \A e \in ToLoad \ {d} : Outranks(d, e)

HasInstructions(d) ==
  packages[d.package_path] # NoPackage /\ packages[d.package_path].instructions # "absent"

\* As if loading stopped, without a failure, at a package that has no SKILL.md.
FindInstructionsOrStop(d) ==
  /\ pc = "load" /\ FirstToLoad(d)
  /\ \/ HasInstructions(d) /\ pc' = "found" /\ UNCHANGED result
     \/ ~ HasInstructions(d) /\ End("READY")
  /\ UNCHANGED <<packages, deploys, request, listing, descriptors, outcomes, text, loaded>>

\* As if the loader waited for a SKILL.md that is not there.
FindInstructionsOrWait(d) ==
  /\ pc = "load" /\ FirstToLoad(d)
  /\ HasInstructions(d) /\ pc' = "found"
  /\ UNCHANGED <<packages, deploys, request, listing, descriptors, outcomes, text, loaded, result>>

FindInstructions(d) ==
  /\ pc = "load" /\ FirstToLoad(d)
  /\ \/ HasInstructions(d) /\ pc' = "found" /\ UNCHANGED result
     \/ ~ HasInstructions(d) /\ End("MISSING_INSTRUCTIONS")
  /\ UNCHANGED <<packages, deploys, request, listing, descriptors, outcomes, text, loaded>>

\* Between is_file and read_text the file may have gone: that error is not caught.
ReadInstructions(d) ==
  /\ pc = "found" /\ FirstToLoad(d)
  /\ LET p == packages[d.package_path] IN
     \/ /\ HasInstructions(d) /\ p.instructions # "empty"
        /\ pc' = "scan" /\ text' = {Reference(p.specification)} /\ UNCHANGED result
     \/ /\ HasInstructions(d) /\ p.instructions = "empty"
        /\ End("MISSING_INSTRUCTIONS") /\ UNCHANGED text
     \/ ~ HasInstructions(d) /\ End("OSError") /\ UNCHANGED text
  /\ UNCHANGED <<packages, deploys, request, listing, descriptors, outcomes, loaded>>

DataOnly(d) == packages[d.package_path] # NoPackage => packages[d.package_path].data_only

\* The other files of the package; a directory that is empty by now has none.
ReadDataFiles(d) ==
  /\ pc = "scan" /\ FirstToLoad(d)
  /\ \/ /\ DataOnly(d)
        /\ loaded' = loaded \cup {[specification |-> d.specification,
                                   package_path |-> d.package_path, instructions |-> text]}
        /\ pc' = "load" /\ text' = {} /\ UNCHANGED result
     \/ ~ DataOnly(d) /\ End("INVALID_MANIFEST") /\ UNCHANGED <<text, loaded>>
  /\ UNCHANGED <<packages, deploys, request, listing, descriptors, outcomes>>

Finish ==
  /\ pc = "load" /\ ToLoad = {}
  /\ End(IF loaded # {} THEN "READY" ELSE "BLOCKED")
  /\ UNCHANGED <<packages, deploys, request, listing, descriptors, outcomes, text, loaded>>

\* Someone installs a package, or removes one, while the call runs.
Deploy(d, p) ==
  /\ pc # "ended" /\ deploys < MaximumDeploys
  /\ p # packages[d]
  /\ packages' = [packages EXCEPT ![d] = p]
  /\ deploys' = deploys + 1
  /\ UNCHANGED <<request, callVars>>

Prepare ==
  \/ Discover
  \/ \E d \in listing : ReadManifest(d)
  \/ Select
  \/ StartLoading
  \/ \E d \in ToLoad : FindInstructions(d) \/ ReadInstructions(d) \/ ReadDataFiles(d)
  \/ Finish

Next ==
  \/ Prepare
  \/ \E d \in Directories, p \in Packages \cup {NoPackage} : Deploy(d, p)

Spec == Init /\ [][Next]_vars

\* The thread that runs prepare is scheduled; nobody needs to install anything.
FairSpec == Spec /\ WF_vars(Prepare)
-----------------------------------------------------------------------------
(* Properties *)

Descriptors == [specification : SkillDefinitions, package_path : Directories]

Statuses ==
  {"SELECTED", "UNAUTHORIZED", "VERSION_MISMATCH", "MISSING_PACKAGE", "NOT_RELEVANT",
   "REQUIRED_TOOL_UNAVAILABLE", "REQUIRED_PERMISSION_UNAVAILABLE", "REQUIRED_SCOPE_UNAVAILABLE"}

Failures ==
  {"MISSING_PACKAGE", "INVALID_MANIFEST", "ValueError", "LOAD_LIMIT_EXCEEDED",
   "MISSING_INSTRUCTIONS", "OSError"}

\* The type invariant: what is described, reported and loaded has the shape of the models, and
\* the call has a result exactly when it has ended.
TypeOK ==
  /\ packages \in [Directories -> Packages \cup {NoPackage}]
  /\ deploys \in 0..MaximumDeploys
  /\ request \in Requests
  /\ pc \in {"discover", "read", "selected", "load", "found", "scan", "ended"}
  /\ listing \subseteq Directories
  /\ descriptors \subseteq Descriptors
  /\ outcomes \subseteq
       [reference : SkillReferences, status : Statuses, found : SUBSET Descriptors]
  /\ text \subseteq SkillReferences
  /\ loaded \subseteq [specification : SkillDefinitions, package_path : Directories,
                       instructions : SUBSET SkillReferences]
  /\ result \in {"none", "READY", "BLOCKED"} \cup Failures
  /\ (pc = "ended") <=> (result # "none")

\* "Keberadaan package tidak mengizinkan penggunaannya": whatever is installed, before or during
\* the call, a skill is loaded only at a version that Backend and the agent both name, and it
\* needs no tool, permission or scope that one of them lacks (authorization.py 34-50, selection).
OnlyAuthorized ==
  \A s \in loaded : \A g \in {request.context, request.agent} :
    /\ Reference(s.specification) \in g.skill_refs
    /\ s.specification.required_tool_ids \subseteq g.allowed_tool_ids
    /\ s.specification.permission_refs \subseteq g.permission_refs
    /\ s.specification.scope_refs \subseteq g.scope_refs

\* Also when a package moves to another directory while the manifests are read, every skill that
\* was authorized or discovered has one outcome, and no other has any (filesystem.py 63-70,
\* selection/service.py 72-168).
AnsweredOnce ==
  pc \in {"selected", "load", "found", "scan"} \/ result \in {"READY", "BLOCKED"} =>
    /\ \A r \in Authorization.skill_refs \cup {Reference(d.specification) : d \in descriptors} :
         Cardinality({o \in outcomes : o.reference = r}) = 1
    /\ \A o \in outcomes :
         \/ o.reference \in Authorization.skill_refs
         \/ \E d \in descriptors : o.reference = Reference(d.specification)

\* A selected skill is as relevant as any eligible one that was passed over, and one is passed
\* over only for lack of room: at most maximum_selected are selected, and that many whenever
\* there are as many without an objection (selection/service.py 170-186).
BestSelected ==
  outcomes # {} =>
    /\ \A d \in Selected, e \in Eligible \ Selected : Relevance(d) >= Relevance(e)
    /\ Cardinality(Selected) <= request.maximum_selected
    /\ Eligible \ Selected # {} => Cardinality(Selected) = request.maximum_selected

\* A ready context holds all selected skills, each with the text of some SKILL.md, and never
\* more than the loader's bound: a package that fails to load is not left out, and no other
\* skill or version takes its place (progressive_loading/service.py 25-38).
LoadedAsSelected ==
  /\ Cardinality(loaded) <= MaximumLoaded
  /\ result = "READY" =>
       /\ {[specification |-> s.specification, package_path |-> s.package_path] : s \in loaded}
            = Selected
       /\ \A s \in loaded : s.instructions # {}

\* "tidak ada fallback ke Skill atau versi lain": the instructions of a loaded skill are those of
\* the skill and version that was selected (filesystem.py 79-115).
InstructionsAsSelected ==
  \A s \in loaded : s.instructions = {Reference(s.specification)}

\* An evaluation says what the selection means: an outcome is applicable only if both grants
\* cover all that its skill needs and the execution context is there; and of the skills that are
\* granted and relevant, the tool check fails exactly for those that need a tool one of the
\* grants lacks, whatever else they lack (evaluator/service.py 39-74, selection/service.py 68-140).
ApplicableAsGranted ==
  \A o \in outcomes, present, satisfied \in BOOLEAN :
    LET evaluation == Applicability(o, present, satisfied)
        tools == request.context.allowed_tool_ids \cap request.agent.allowed_tool_ids
    IN /\ evaluation.passed =>
            /\ present /\ satisfied /\ o.found # {}
            /\ \A d \in o.found, g \in {request.context, request.agent} :
                 /\ Reference(d.specification) \in g.skill_refs
                 /\ d.specification.required_tool_ids \subseteq g.allowed_tool_ids
                 /\ d.specification.permission_refs \subseteq g.permission_refs
                 /\ d.specification.scope_refs \subseteq g.scope_refs
       /\ \A d \in o.found : Relevance(d) > 0 =>
            (evaluation.checks.required_tools_authorized
               <=> d.specification.required_tool_ids \subseteq tools)

\* A call of prepare ends, whatever packages are installed or removed while it reads: no file
\* that is gone, no package that has changed and no bound that is met leaves it without a next
\* step (filesystem.py 30-115, selection/service.py 56-206, progressive_loading/service.py 20-38).
PrepareEnds == <>(pc = "ended")
=============================================================================
