--------------------------- MODULE SkillRuntimeProofs ---------------------------
(***************************************************************************)
(* What holds of every call of prepare, for every set of packages, every   *)
(* request, every bound and any number of installations during the call.   *)
(***************************************************************************)
EXTENDS SkillRuntime, OrderingProofs

-----------------------------------------------------------------------------
(* What the selector returns *)

\* A selection has been made and its outcomes are still what the call works on.
SelectionMade ==
  pc \in {"selected", "load", "found", "scan"} \/ result \in {"READY", "BLOCKED"}

Selection == CandidateOutcomes \cup MissingOutcomes

Projection(s) == [specification |-> s.specification, package_path |-> s.package_path]

\* A definition's reference is one.
LEMMA ReferenceType ==
  ASSUME NEW s \in SkillDefinitions PROVE Reference(s) \in SkillReferences
BY DEF SkillDefinitions, Reference, SkillReferences

\* The skills both sides name are references.
LEMMA AuthorizationType ==
  ASSUME request \in Requests
  PROVE  /\ Authorization.skill_refs \subseteq SkillReferences
         /\ \A g \in {request.context, request.agent} :
              /\ Authorization.skill_refs \subseteq g.skill_refs
              /\ Authorization.permission_refs \subseteq g.permission_refs
              /\ Authorization.scope_refs \subseteq g.scope_refs
              /\ Authorization.allowed_tool_ids \subseteq g.allowed_tool_ids
<1>1. request.context \in Grants /\ request.agent \in Grants
  BY RequestsAssumption DEF RequestsAssumption
<1>2. QED
  BY <1>1 DEF Authorization, FromBackend, Grants

\* What is selected is a discovered skill to which there is no objection.
LEMMA SelectedAreChosen ==
  ASSUME outcomes = Selection PROVE Selected = Chosen
<1>1. ASSUME NEW d \in Chosen PROVE d \in Selected
  <2> DEFINE o == Outcome(Reference(d.specification), "SELECTED", {d})
  <2>1. d \in descriptors /\ Screening(d) = "SELECTED" /\ d \notin Eligible \ Chosen
    BY DEF Chosen, Eligible
  <2>2. o \in outcomes
    BY <2>1 DEF Selection, CandidateOutcomes
  <2>3. QED
    BY <2>2 DEF Selected, Outcome
<1>2. ASSUME NEW d \in Selected PROVE d \in Chosen
  <2>1. PICK o \in outcomes : o.status = "SELECTED" /\ d \in o.found
    BY DEF Selected
  <2>2. CASE o \in MissingOutcomes
    BY <2>1, <2>2 DEF MissingOutcomes, Outcome
  <2>3. CASE o \in CandidateOutcomes
    <3>1. PICK e \in descriptors :
            o = Outcome(Reference(e.specification),
                        IF e \in Eligible \ Chosen THEN "NOT_RELEVANT" ELSE Screening(e),
                        IF Screening(e) = "UNAUTHORIZED" THEN {} ELSE {e})
      BY <2>3 DEF CandidateOutcomes
    <3>2. e \notin Eligible \ Chosen /\ Screening(e) = "SELECTED"
      BY <2>1, <3>1 DEF Outcome
    <3>3. d = e
      BY <2>1, <3>1, <3>2 DEF Outcome
    <3>4. QED
      BY <3>2, <3>3 DEF Eligible
  <2>4. QED
    BY <2>2, <2>3 DEF Selection
<1>3. QED
  BY <1>1, <1>2

\* The outcomes have the shape of SkillCandidateOutcome.
LEMMA SelectionType ==
  ASSUME request \in Requests, descriptors \subseteq Descriptors
  PROVE  Selection \subseteq
           [reference : SkillReferences, status : Statuses, found : SUBSET Descriptors]
<1>1. ASSUME NEW d \in descriptors
      PROVE  /\ Screening(d) \in Statuses
             /\ Reference(d.specification) \in SkillReferences
  BY ReferenceType DEF Screening, Statuses, Descriptors
<1>2. CandidateOutcomes \subseteq
        [reference : SkillReferences, status : Statuses, found : SUBSET Descriptors]
  BY <1>1 DEF CandidateOutcomes, Outcome, Statuses
<1>3. MissingOutcomes \subseteq
        [reference : SkillReferences, status : Statuses, found : SUBSET Descriptors]
  BY AuthorizationType DEF MissingOutcomes, Outcome, Undiscovered, Statuses
<1>4. QED
  BY <1>2, <1>3 DEF Selection
-----------------------------------------------------------------------------
(* The inductive invariant *)

\* Nothing is described twice, and nothing that is still to be read.
DescribedOnce ==
  /\ IsFiniteSet(descriptors)
  /\ \A d, e \in descriptors :
       Reference(d.specification) = Reference(e.specification) => d = e
  /\ \A d, e \in descriptors : d.package_path = e.package_path => d = e
  /\ \A d \in descriptors : d.package_path \notin listing

\* The selection is that of the skills described, none of which is added afterwards.
SelectedFromDescribed ==
  /\ pc \in {"discover", "read"} => outcomes = {} /\ loaded = {}
  /\ pc = "discover" => descriptors = {}
  /\ outcomes = {} \/ outcomes = Selection
  /\ SelectionMade => outcomes = Selection

\* Only what was selected is loaded, once, and never more of it than the loader's bound.
LoadedFromSelected ==
  /\ pc \in {"load", "found", "scan"} \/ loaded # {} => Cardinality(Selected) <= MaximumLoaded
  /\ \A s \in loaded : Projection(s) \in Selected /\ s.instructions # {}
  /\ \A s, t \in loaded : s.package_path = t.package_path => s = t
  /\ pc = "scan" => text # {}
  /\ result = "READY" => \A d \in Selected : \E s \in loaded : s.package_path = d.package_path

IInv == TypeOK /\ DescribedOnce /\ SelectedFromDescribed /\ LoadedFromSelected
-----------------------------------------------------------------------------
(* Every step keeps it *)

\* A call starts in order.
LEMMA InitHolds == Init => IInv
<1> SUFFICES ASSUME Init PROVE IInv
  OBVIOUS
<1>1. TypeOK
  BY BoundsAssumption DEF Init, TypeOK, BoundsAssumption
<1>2. DescribedOnce
  BY FS_EmptySet DEF Init, DescribedOnce
<1>3. SelectedFromDescribed
  BY DEF Init, SelectedFromDescribed, SelectionMade
<1>4. LoadedFromSelected
  BY DEF Init, LoadedFromSelected
<1>5. QED
  BY <1>1, <1>2, <1>3, <1>4 DEF IInv

\* What the selection is computed from: as long as it stays, so does the selection.
LEMMA SelectionStays ==
  ASSUME UNCHANGED <<request, descriptors>> PROVE Selection' = Selection
BY DEF Selection, CandidateOutcomes, MissingOutcomes, Undiscovered, Chosen, Eligible, Outranks,
       Relevance, Screening, Authorization

LEMMA SelectedStay == ASSUME UNCHANGED outcomes PROVE Selected' = Selected
BY DEF Selected

\* Discovery starts with nothing described.
LEMMA DiscoverKeeps == IInv /\ Discover => IInv'
<1> SUFFICES ASSUME IInv, Discover PROVE IInv'
  OBVIOUS
<1> USE DEF IInv, Discover, End
<1>1. TypeOK'
  BY DEF TypeOK, Installed, Failures
<1>2. DescribedOnce'
  BY FS_EmptySet DEF DescribedOnce, SelectedFromDescribed
<1>3. SelectedFromDescribed'
  BY SelectionStays DEF SelectedFromDescribed, SelectionMade
<1>4. LoadedFromSelected'
  BY SelectedStay DEF LoadedFromSelected, SelectedFromDescribed, TypeOK
<1>5. QED
  BY <1>1, <1>2, <1>3, <1>4

\* A manifest is described if it can be used and its skill is new.
LEMMA ReadManifestKeeps ==
  ASSUME NEW d \in listing PROVE IInv /\ ReadManifest(d) => IInv'
<1> SUFFICES ASSUME IInv, ReadManifest(d) PROVE IInv'
  OBVIOUS
<1> USE DEF IInv, ReadManifest, End
<1>1. CASE Usable(d) /\ descriptors' = descriptors \cup {Describe(d)} /\ listing' = listing \ {d}
           /\ UNCHANGED <<pc, result>>
  <2>1. Describe(d) \in Descriptors
    <3>1. packages[d] \in Packages /\ d \in Directories
      BY <1>1 DEF TypeOK, Usable, Readable
    <3>2. packages[d].specification \in SkillDefinitions
      BY <3>1, PackagesAssumption DEF PackagesAssumption
    <3>3. QED
      BY <3>1, <3>2 DEF Describe, Descriptors
  <2>2. TypeOK'
    BY <1>1, <2>1 DEF TypeOK
  <2>3. DescribedOnce'
    <3>1. IsFiniteSet(descriptors')
      BY <1>1, FS_AddElement DEF DescribedOnce
    <3>2. \A e \in descriptors : /\ e.package_path # d
                                 /\ Reference(e.specification) # Reference(Describe(d).specification)
      BY <1>1 DEF DescribedOnce, Usable, Describe
    <3>3. Describe(d).package_path = d
      BY DEF Describe
    <3>4. QED
      BY <1>1, <3>1, <3>2, <3>3 DEF DescribedOnce
  <2>4. SelectedFromDescribed'
    BY <1>1 DEF SelectedFromDescribed, SelectionMade, TypeOK
  <2>5. LoadedFromSelected'
    BY <1>1, SelectedStay DEF LoadedFromSelected, SelectedFromDescribed, TypeOK
  <2>6. QED
    BY <2>2, <2>3, <2>4, <2>5
<1>2. CASE ~ Usable(d) /\ pc' = "ended" /\ result' = "INVALID_MANIFEST"
           /\ UNCHANGED <<listing, descriptors>>
  <2>1. TypeOK'
    BY <1>2 DEF TypeOK, Failures
  <2>2. DescribedOnce'
    BY <1>2 DEF DescribedOnce
  <2>3. SelectedFromDescribed'
    BY <1>2 DEF SelectedFromDescribed, SelectionMade
  <2>4. LoadedFromSelected'
    BY <1>2, SelectedStay DEF LoadedFromSelected, SelectedFromDescribed
  <2>5. QED
    BY <2>1, <2>2, <2>3, <2>4
<1>3. QED
  BY <1>1, <1>2

\* The selection is made of what was described.
LEMMA SelectKeeps == IInv /\ Select => IInv'
<1> SUFFICES ASSUME IInv, Select PROVE IInv'
  OBVIOUS
<1> USE DEF IInv, Select, End
<1>1. outcomes' = outcomes \/ outcomes' = Selection
  BY DEF Selection
<1>2. TypeOK'
  BY <1>1, SelectionType DEF TypeOK, Failures
<1>3. DescribedOnce'
  BY DEF DescribedOnce
<1>4. SelectedFromDescribed'
  BY <1>1, SelectionStays DEF SelectedFromDescribed, SelectionMade, Selection, TypeOK
<1>5. LoadedFromSelected'
  BY DEF LoadedFromSelected, SelectedFromDescribed, TypeOK
<1>6. QED
  BY <1>2, <1>3, <1>4, <1>5

\* The number of selected skills is looked at before any is loaded.
LEMMA StartLoadingKeeps == IInv /\ StartLoading => IInv'
<1> SUFFICES ASSUME IInv, StartLoading PROVE IInv'
  OBVIOUS
<1> USE DEF IInv, StartLoading, End
<1>1. TypeOK'
  BY DEF TypeOK, Failures
<1>2. DescribedOnce'
  BY DEF DescribedOnce
<1>3. SelectedFromDescribed'
  BY SelectionStays DEF SelectedFromDescribed, SelectionMade
<1>4. LoadedFromSelected'
  BY SelectedStay DEF LoadedFromSelected, TypeOK
<1>5. QED
  BY <1>1, <1>2, <1>3, <1>4

\* Finding a SKILL.md changes nothing but where the call is.
LEMMA FindInstructionsKeeps ==
  ASSUME NEW d \in ToLoad PROVE IInv /\ FindInstructions(d) => IInv'
<1> SUFFICES ASSUME IInv, FindInstructions(d) PROVE IInv'
  OBVIOUS
<1> USE DEF IInv, FindInstructions, End
<1>1. TypeOK'
  BY DEF TypeOK, Failures
<1>2. DescribedOnce'
  BY DEF DescribedOnce
<1>3. SelectedFromDescribed'
  BY SelectionStays DEF SelectedFromDescribed, SelectionMade
<1>4. LoadedFromSelected'
  BY SelectedStay DEF LoadedFromSelected, TypeOK
<1>5. QED
  BY <1>1, <1>2, <1>3, <1>4

\* A text that is read is the text of some skill.
LEMMA ReadInstructionsKeeps ==
  ASSUME NEW d \in ToLoad PROVE IInv /\ ReadInstructions(d) => IInv'
<1> SUFFICES ASSUME IInv, ReadInstructions(d) PROVE IInv'
  OBVIOUS
<1> USE DEF IInv, ReadInstructions, End
<1>1. text' \subseteq SkillReferences
  <2>1. CASE text' = text
    BY <2>1 DEF TypeOK
  <2>2. CASE /\ HasInstructions(d)
             /\ text' = {Reference(packages[d.package_path].specification)}
    <3>0. outcomes = Selection /\ d \in Selected
      BY DEF ToLoad, SelectedFromDescribed, SelectionMade
    <3>1. d.package_path \in Directories
      <4>1. d \in descriptors
        BY <3>0, SelectedAreChosen DEF Chosen, Eligible
      <4>2. d \in Descriptors
        BY <4>1 DEF TypeOK
      <4>3. QED
        BY <4>2 DEF Descriptors
    <3>2. packages[d.package_path] \in Packages
      BY <2>2, <3>1 DEF TypeOK, HasInstructions
    <3>3. packages[d.package_path].specification \in SkillDefinitions
      BY <3>2, PackagesAssumption DEF PackagesAssumption
    <3>4. QED
      BY <2>2, <3>3, ReferenceType
  <2>3. QED
    BY <2>1, <2>2
<1>2. TypeOK'
  BY <1>1 DEF TypeOK, Failures
<1>3. DescribedOnce'
  BY DEF DescribedOnce
<1>4. SelectedFromDescribed'
  BY SelectionStays DEF SelectedFromDescribed, SelectionMade
<1>5. LoadedFromSelected'
  BY SelectedStay DEF LoadedFromSelected, TypeOK
<1>6. QED
  BY <1>2, <1>3, <1>4, <1>5

\* What is loaded had been selected and had not been loaded before.
LEMMA ReadDataFilesKeeps ==
  ASSUME NEW d \in ToLoad PROVE IInv /\ ReadDataFiles(d) => IInv'
<1> SUFFICES ASSUME IInv, ReadDataFiles(d) PROVE IInv'
  OBVIOUS
<1> USE DEF IInv, ReadDataFiles, End
<1> DEFINE s == [specification |-> d.specification, package_path |-> d.package_path,
                 instructions |-> text]
<1>1. d \in Descriptors /\ d \in Selected
  BY SelectedAreChosen DEF ToLoad, SelectedFromDescribed, SelectionMade, TypeOK, Chosen, Eligible
<1>2. /\ d.specification \in SkillDefinitions /\ d.package_path \in Directories
      /\ Projection(s) = d
  BY <1>1 DEF Descriptors, Projection
<1>3. loaded' = loaded \/ (loaded' = loaded \cup {s} /\ result' = result)
  OBVIOUS
<1>4. TypeOK'
  BY <1>2, <1>3 DEF TypeOK, Failures
<1>5. DescribedOnce'
  BY DEF DescribedOnce
<1>6. SelectedFromDescribed'
  BY SelectionStays DEF SelectedFromDescribed, SelectionMade
<1>7. LoadedFromSelected'
  <2>1. Selected' = Selected
    BY SelectedStay
  <2>2. \A t \in loaded' : Projection(t) \in Selected /\ t.instructions # {}
    BY <1>1, <1>2, <1>3 DEF LoadedFromSelected
  <2>3. \A t, u \in loaded' : t.package_path = u.package_path => t = u
    BY <1>3 DEF LoadedFromSelected, ToLoad
  <2>4. result' # "READY" /\ pc' # "scan"
    BY DEF TypeOK
  <2>5. QED
    BY <2>1, <2>2, <2>3, <2>4 DEF LoadedFromSelected
<1>8. QED
  BY <1>4, <1>5, <1>6, <1>7

\* A call is ready only when nothing is left to load.
LEMMA FinishKeeps == IInv /\ Finish => IInv'
<1> SUFFICES ASSUME IInv, Finish PROVE IInv'
  OBVIOUS
<1> USE DEF IInv, Finish, End
<1>1. TypeOK'
  BY DEF TypeOK
<1>2. DescribedOnce'
  BY DEF DescribedOnce
<1>3. SelectedFromDescribed'
  BY SelectionStays DEF SelectedFromDescribed, SelectionMade
<1>4. LoadedFromSelected'
  BY SelectedStay DEF LoadedFromSelected, ToLoad
<1>5. QED
  BY <1>1, <1>2, <1>3, <1>4

\* An installation touches nothing the call has already read.
LEMMA DeployKeeps ==
  ASSUME NEW d \in Directories, NEW p \in Packages \cup {NoPackage}
  PROVE  IInv /\ Deploy(d, p) => IInv'
<1> SUFFICES ASSUME IInv, Deploy(d, p) PROVE IInv'
  OBVIOUS
<1> USE DEF IInv, Deploy, callVars
<1>1. TypeOK'
  BY BoundsAssumption DEF TypeOK, BoundsAssumption
<1>2. DescribedOnce'
  BY DEF DescribedOnce
<1>3. SelectedFromDescribed'
  BY SelectionStays DEF SelectedFromDescribed, SelectionMade
<1>4. LoadedFromSelected'
  BY SelectedStay DEF LoadedFromSelected
<1>5. QED
  BY <1>1, <1>2, <1>3, <1>4

LEMMA StutterKeeps == IInv /\ UNCHANGED vars => IInv'
<1> SUFFICES ASSUME IInv, UNCHANGED vars PROVE IInv'
  OBVIOUS
<1>1. Selection' = Selection /\ Selected' = Selected
  BY SelectionStays, SelectedStay DEF vars, callVars
<1>2. QED
  BY <1>1 DEF IInv, vars, callVars, TypeOK, DescribedOnce, SelectedFromDescribed, SelectionMade,
       LoadedFromSelected

LEMMA NextKeeps == IInv /\ [Next]_vars => IInv'
<1> SUFFICES ASSUME IInv, [Next]_vars PROVE IInv'
  OBVIOUS
<1>1. CASE Discover
  BY <1>1, DiscoverKeeps
<1>2. CASE \E d \in listing : ReadManifest(d)
  BY <1>2, ReadManifestKeeps
<1>3. CASE Select
  BY <1>3, SelectKeeps
<1>4. CASE StartLoading
  BY <1>4, StartLoadingKeeps
<1>5. CASE \E d \in ToLoad : FindInstructions(d) \/ ReadInstructions(d) \/ ReadDataFiles(d)
  BY <1>5, FindInstructionsKeeps, ReadInstructionsKeeps, ReadDataFilesKeeps
<1>6. CASE Finish
  BY <1>6, FinishKeeps
<1>7. CASE \E d \in Directories, p \in Packages \cup {NoPackage} : Deploy(d, p)
  BY <1>7, DeployKeeps
<1>8. CASE UNCHANGED vars
  BY <1>8, StutterKeeps
<1>9. QED
  BY <1>1, <1>2, <1>3, <1>4, <1>5, <1>6, <1>7, <1>8 DEF Next, Prepare
-----------------------------------------------------------------------------
(* Theorems *)

\* The invariant holds of every call.
THEOREM Invariant == Spec => []IInv
<1>1. Init => IInv
  BY InitHolds
<1>2. IInv /\ [Next]_vars => IInv'
  BY NextKeeps
<1>3. QED
  BY <1>1, <1>2, PTL DEF Spec

\* What is described, reported and loaded has the shape of the models (the type invariant).
THEOREM TypeCorrect == Spec => []TypeOK
<1>1. IInv => TypeOK
  BY DEF IInv
<1>2. QED
  BY <1>1, Invariant, PTL

\* A loaded skill is one that Backend and the agent both name, and it needs nothing that one of
\* them lacks, whatever is installed while the call runs.
THEOREM AuthorizedOnly == Spec => []OnlyAuthorized
<1>1. ASSUME IInv PROVE OnlyAuthorized
  <2> SUFFICES ASSUME NEW s \in loaded, NEW g \in {request.context, request.agent}
               PROVE  /\ Reference(s.specification) \in g.skill_refs
                      /\ s.specification.required_tool_ids \subseteq g.allowed_tool_ids
                      /\ s.specification.permission_refs \subseteq g.permission_refs
                      /\ s.specification.scope_refs \subseteq g.scope_refs
    BY DEF OnlyAuthorized
  <2>1. Projection(s) \in Selected /\ outcomes # {}
    BY <1>1 DEF IInv, LoadedFromSelected, Selected
  <2>2. Screening(Projection(s)) = "SELECTED"
    BY <1>1, <2>1, SelectedAreChosen DEF IInv, SelectedFromDescribed, Chosen, Eligible
  <2>3. /\ Reference(s.specification) \in Authorization.skill_refs
        /\ s.specification.required_tool_ids \subseteq Authorization.allowed_tool_ids
        /\ s.specification.permission_refs \subseteq Authorization.permission_refs
        /\ s.specification.scope_refs \subseteq Authorization.scope_refs
    BY <2>2 DEF Screening, Projection
  <2>4. QED
    BY <1>1, <2>3, AuthorizationType DEF IInv, TypeOK
<1>2. QED
  BY <1>1, Invariant, PTL

\* Every skill that was authorized or discovered has one outcome, and no other skill has any.
THEOREM EverySkillAnsweredOnce == Spec => []AnsweredOnce
<1>1. ASSUME IInv, SelectionMade
      PROVE  /\ \A r \in Authorization.skill_refs
                       \cup {Reference(d.specification) : d \in descriptors} :
                  Cardinality({o \in outcomes : o.reference = r}) = 1
             /\ \A o \in outcomes :
                  \/ o.reference \in Authorization.skill_refs
                  \/ \E d \in descriptors : o.reference = Reference(d.specification)
  <2>1. outcomes = CandidateOutcomes \cup MissingOutcomes
    BY <1>1 DEF IInv, SelectedFromDescribed, Selection
  <2>2. ASSUME NEW d \in descriptors
        PROVE  \E x : {o \in outcomes : o.reference = Reference(d.specification)} = {x}
    <3> DEFINE x == Outcome(Reference(d.specification),
                            IF d \in Eligible \ Chosen THEN "NOT_RELEVANT" ELSE Screening(d),
                            IF Screening(d) = "UNAUTHORIZED" THEN {} ELSE {d})
    <3>1. x \in outcomes /\ x.reference = Reference(d.specification)
      BY <2>1 DEF CandidateOutcomes, Outcome
    <3>2. ASSUME NEW o \in CandidateOutcomes, o.reference = Reference(d.specification)
          PROVE  o = x
      BY <1>1, <3>2 DEF CandidateOutcomes, Outcome, IInv, DescribedOnce
    <3>3. ASSUME NEW o \in MissingOutcomes
          PROVE  o.reference # Reference(d.specification)
      BY DEF MissingOutcomes, Outcome
    <3>4. QED
      BY <2>1, <3>1, <3>2, <3>3
  <2>3. ASSUME NEW r \in Authorization.skill_refs,
               r \notin {Reference(d.specification) : d \in descriptors}
        PROVE  \E x : {o \in outcomes : o.reference = r} = {x}
    <3> DEFINE x == Outcome(r, Undiscovered(r), {})
    <3>1. x \in outcomes /\ x.reference = r
      BY <2>1, <2>3 DEF MissingOutcomes, Outcome
    <3>2. ASSUME NEW o \in MissingOutcomes, o.reference = r PROVE o = x
      BY <3>2 DEF MissingOutcomes, Outcome
    <3>3. ASSUME NEW o \in CandidateOutcomes PROVE o.reference # r
      BY <2>3 DEF CandidateOutcomes, Outcome
    <3>4. QED
      BY <2>1, <3>1, <3>2, <3>3
  <2>4. ASSUME NEW o \in outcomes
        PROVE  \/ o.reference \in Authorization.skill_refs
               \/ \E d \in descriptors : o.reference = Reference(d.specification)
    BY <2>1 DEF CandidateOutcomes, MissingOutcomes, Outcome
  <2>5. ASSUME NEW r \in Authorization.skill_refs
                          \cup {Reference(d.specification) : d \in descriptors}
        PROVE  Cardinality({o \in outcomes : o.reference = r}) = 1
    <3>1. CASE \E d \in descriptors : r = Reference(d.specification)
      <4>1. PICK d \in descriptors : r = Reference(d.specification)
        BY <3>1
      <4>2. PICK x : {o \in outcomes : o.reference = Reference(d.specification)} = {x}
        BY <2>2
      <4>3. QED
        BY <4>1, <4>2, FS_Singleton
    <3>2. CASE r \notin {Reference(d.specification) : d \in descriptors}
      <4>1. r \in Authorization.skill_refs
        BY <2>5, <3>2
      <4>2. PICK x : {o \in outcomes : o.reference = r} = {x}
        BY <2>3, <3>2, <4>1
      <4>3. QED
        BY <4>2, FS_Singleton
    <3>3. QED
      BY <3>1, <3>2
  <2>6. QED
    BY <2>4, <2>5
<1>2. IInv => AnsweredOnce
  BY <1>1 DEF AnsweredOnce, SelectionMade
<1>3. QED
  BY <1>2, Invariant, PTL

\* A ready context holds exactly the selected skills, each with a text, within the bound.
THEOREM AllOrNothingLoaded == Spec => []LoadedAsSelected
<1>1. ASSUME IInv PROVE Cardinality(loaded) <= MaximumLoaded
  <2>1. CASE loaded = {}
    BY <2>1, FS_EmptySet, BoundsAssumption DEF BoundsAssumption
  <2>2. CASE loaded # {}
    <3>1. Cardinality(Selected) <= MaximumLoaded
      BY <1>1, <2>2 DEF IInv, LoadedFromSelected
    <3>2. outcomes = Selection
      BY <1>1, <2>2 DEF IInv, SelectedFromDescribed, LoadedFromSelected, Selected
    <3>3. IsFiniteSet(Selected)
      <4>1. Selected \subseteq descriptors
        BY <3>2, SelectedAreChosen DEF Chosen, Eligible
      <4>2. QED
        BY <1>1, <4>1, FS_Subset DEF IInv, DescribedOnce
    <3> DEFINE f == [s \in loaded |-> Projection(s)]
    <3>4. f \in Injection(loaded, Selected)
      BY <1>1 DEF IInv, LoadedFromSelected, Projection, Injection, IsInjective
    <3>5. Cardinality(loaded) <= Cardinality(Selected)
      BY <3>3, <3>4, FS_Injection DEF ExistsInjection
    <3>6. Cardinality(Selected) \in Nat /\ Cardinality(loaded) \in Nat
      BY <3>3, <3>4, FS_Injection, FS_CardinalityType DEF ExistsInjection
    <3>7. QED
      BY <3>1, <3>5, <3>6, BoundsAssumption DEF BoundsAssumption
  <2>3. QED
    BY <2>1, <2>2
<1>2. ASSUME IInv, result = "READY"
      PROVE  /\ {Projection(s) : s \in loaded} = Selected
             /\ \A s \in loaded : s.instructions # {}
  <2>1. ASSUME NEW d \in Selected PROVE \E s \in loaded : Projection(s) = d
    <3>1. PICK s \in loaded : s.package_path = d.package_path
      BY <1>2 DEF IInv, LoadedFromSelected
    <3>2. outcomes = Selection
      BY <1>2 DEF IInv, SelectedFromDescribed, SelectionMade
    <3>3. Selected \subseteq descriptors
      BY <3>2, SelectedAreChosen DEF Chosen, Eligible
    <3>4. Projection(s) \in Selected /\ Projection(s).package_path = s.package_path
      BY <1>2 DEF IInv, LoadedFromSelected, Projection
    <3>5. QED
      BY <1>2, <3>1, <3>3, <3>4 DEF IInv, DescribedOnce
  <2>2. QED
    BY <1>2, <2>1 DEF IInv, LoadedFromSelected
<1>3. IInv => LoadedAsSelected
  BY <1>1, <1>2 DEF LoadedAsSelected, Projection
<1>4. QED
  BY <1>3, Invariant, PTL

\* An outcome that was reported with its descriptor is that of a described skill the selector
\* was allowed to look at.
LEMMA FoundIsScreened ==
  ASSUME outcomes = Selection, NEW o \in outcomes, NEW d \in o.found
  PROVE  /\ o.found = {d} /\ d \in descriptors /\ Screening(d) # "UNAUTHORIZED"
         /\ o.status = IF d \in Eligible \ Chosen THEN "NOT_RELEVANT" ELSE Screening(d)
<1>1. o \in CandidateOutcomes
  BY DEF Selection, MissingOutcomes, Outcome
<1>2. PICK e \in descriptors :
        o = Outcome(Reference(e.specification),
                    IF e \in Eligible \ Chosen THEN "NOT_RELEVANT" ELSE Screening(e),
                    IF Screening(e) = "UNAUTHORIZED" THEN {} ELSE {e})
  BY <1>1 DEF CandidateOutcomes
<1>3. Screening(e) # "UNAUTHORIZED" /\ d = e
  BY <1>2 DEF Outcome
<1>4. QED
  BY <1>2, <1>3 DEF Outcome

\* What an evaluation says of an outcome is what the two grants say of its skill.
THEOREM ApplicableByGrant == Spec => []ApplicableAsGranted
<1>1. ASSUME IInv, NEW o \in outcomes, NEW present \in BOOLEAN, NEW satisfied \in BOOLEAN,
             Applicability(o, present, satisfied).passed
      PROVE  /\ present /\ satisfied /\ o.found # {}
             /\ \A d \in o.found, g \in {request.context, request.agent} :
                  /\ Reference(d.specification) \in g.skill_refs
                  /\ d.specification.required_tool_ids \subseteq g.allowed_tool_ids
                  /\ d.specification.permission_refs \subseteq g.permission_refs
                  /\ d.specification.scope_refs \subseteq g.scope_refs
  <2>1. present /\ satisfied /\ o.status = "SELECTED"
    BY <1>1 DEF Applicability, EvaluateApplicability, Evaluation
  <2>2. outcomes = Selection
    BY <1>1 DEF IInv, SelectedFromDescribed
  <2>3. o.found # {}
    <3>1. o \notin MissingOutcomes
      BY <2>1 DEF MissingOutcomes, Undiscovered, Outcome
    <3>2. PICK e \in descriptors :
            o = Outcome(Reference(e.specification),
                        IF e \in Eligible \ Chosen THEN "NOT_RELEVANT" ELSE Screening(e),
                        IF Screening(e) = "UNAUTHORIZED" THEN {} ELSE {e})
      BY <2>2, <3>1 DEF Selection, CandidateOutcomes
    <3>3. Screening(e) = "SELECTED"
      BY <2>1, <3>2 DEF Outcome
    <3>4. QED
      BY <3>2, <3>3 DEF Outcome
  <2>4. ASSUME NEW d \in o.found, NEW g \in {request.context, request.agent}
        PROVE  /\ Reference(d.specification) \in g.skill_refs
               /\ d.specification.required_tool_ids \subseteq g.allowed_tool_ids
               /\ d.specification.permission_refs \subseteq g.permission_refs
               /\ d.specification.scope_refs \subseteq g.scope_refs
    <3>1. Screening(d) = "SELECTED"
      BY <2>1, <2>2, FoundIsScreened
    <3>2. /\ Reference(d.specification) \in Authorization.skill_refs
          /\ d.specification.required_tool_ids \subseteq Authorization.allowed_tool_ids
          /\ d.specification.permission_refs \subseteq Authorization.permission_refs
          /\ d.specification.scope_refs \subseteq Authorization.scope_refs
      BY <3>1 DEF Screening
    <3>3. QED
      BY <1>1, <3>2, AuthorizationType DEF IInv, TypeOK
  <2>5. QED
    BY <2>1, <2>3, <2>4
<1>2. ASSUME IInv, NEW o \in outcomes, NEW present \in BOOLEAN, NEW satisfied \in BOOLEAN,
             NEW d \in o.found, Relevance(d) > 0
      PROVE  Applicability(o, present, satisfied).checks.required_tools_authorized
               <=> d.specification.required_tool_ids
                     \subseteq request.context.allowed_tool_ids \cap request.agent.allowed_tool_ids
  <2> DEFINE required == d.specification.required_tool_ids
             effective == Authorization.allowed_tool_ids
  <2>1. /\ o.found = {d} /\ d \in descriptors /\ Screening(d) # "UNAUTHORIZED"
        /\ o.status = IF d \in Eligible \ Chosen THEN "NOT_RELEVANT" ELSE Screening(d)
    BY <1>2, FoundIsScreened DEF IInv, SelectedFromDescribed
  <2>2. request.goal \cap d.specification.metadata # {}
    BY <1>2, FS_EmptySet DEF Relevance
  <2>3. effective = request.context.allowed_tool_ids \cap request.agent.allowed_tool_ids
    BY DEF Authorization, FromBackend
  <2>4. Screening(d) = "REQUIRED_TOOL_UNAVAILABLE" <=> ~ required \subseteq effective
    BY <2>1, <2>2 DEF Screening
  <2>5. o.status = "REQUIRED_TOOL_UNAVAILABLE" <=> ~ required \subseteq effective
    BY <2>1, <2>4 DEF Eligible
  <2>6. MissingToolIds(o) = {} <=>
          (o.status # "REQUIRED_TOOL_UNAVAILABLE" \/ required \subseteq effective)
    <3>1. required \subseteq Tools
      BY <1>2, <2>1 DEF IInv, TypeOK, Descriptors, SkillDefinitions
    <3>2. QED
      BY <2>1, <3>1 DEF MissingToolIds
  <2>7. Applicability(o, present, satisfied).checks.required_tools_authorized
          <=> (o.status = "SELECTED" \/ MissingToolIds(o) = {})
    BY DEF Applicability, EvaluateApplicability, Evaluation
  <2>8. (o.status = "SELECTED" \/ MissingToolIds(o) = {}) <=> required \subseteq effective
    BY <2>5, <2>6
  <2>9. QED
    BY <2>3, <2>7, <2>8
<1>3. IInv => ApplicableAsGranted
  BY <1>1, <1>2 DEF ApplicableAsGranted
<1>4. QED
  BY <1>3, Invariant, PTL
-----------------------------------------------------------------------------
(* The bounded selection *)

\* A skill is relevant by a number of terms.
LEMMA RelevanceIsNumber ==
  ASSUME IInv, NEW d \in Eligible
  PROVE  d \in descriptors /\ d.specification \in SkillDefinitions /\ Relevance(d) \in Nat
<1>1. d \in descriptors /\ d.specification \in SkillDefinitions
  BY DEF Eligible, IInv, TypeOK, Descriptors
<1>2. request.goal \cap d.specification.metadata \in SUBSET Terms
  BY <1>1 DEF SkillDefinitions
<1>3. QED
  BY <1>1, <1>2, TermsAssumption, FS_Subset, FS_CardinalityType DEF TermsAssumption, Relevance

\* The selector ranks the eligible skills.
Ranking == {pair \in Eligible \X Eligible : Outranks(pair[1], pair[2])}

LEMMA SelectorRanks == ASSUME IInv PROVE IsOrder(Eligible, Ranking)
<1>1. ASSUME NEW d \in Eligible
      PROVE  /\ d \in descriptors /\ Relevance(d) \in Nat
             /\ d.specification.skill_id \in Nat /\ d.specification.skill_version \in Nat
  BY RelevanceIsNumber DEF SkillDefinitions
<1>2. \A d, e \in Eligible : <<d, e>> \in Ranking <=> Outranks(d, e)
  BY DEF Ranking
<1>3. \A d \in Eligible : ~ Outranks(d, d)
  BY <1>1 DEF Outranks, Precedes
<1>4. ASSUME NEW d \in Eligible, NEW e \in Eligible, NEW f \in Eligible,
             Outranks(d, e), Outranks(e, f)
      PROVE  Outranks(d, f)
  BY <1>1, <1>4 DEF Outranks, Precedes
<1>5. ASSUME NEW d \in Eligible, NEW e \in Eligible, d # e
      PROVE  Outranks(d, e) \/ Outranks(e, d)
  <2>1. Reference(d.specification) # Reference(e.specification)
    BY <1>1, <1>5 DEF IInv, DescribedOnce
  <2>2. \/ d.specification.skill_id # e.specification.skill_id
        \/ d.specification.skill_version # e.specification.skill_version
    BY <2>1 DEF Reference
  <2>3. QED
    BY <1>1, <2>2 DEF Outranks, Precedes
<1>6. QED
  BY <1>2, <1>3, <1>4, <1>5 DEF IsOrder

\* Whatever the order of the directories: the selected skills are the most relevant of those there
\* is no objection to, and as many of them as the request has places for.
THEOREM BestOnlySelected == Spec => []BestSelected
<1>1. ASSUME IInv, outcomes # {}
      PROVE  /\ \A d \in Selected, e \in Eligible \ Selected : Relevance(d) >= Relevance(e)
             /\ Cardinality(Selected) <= request.maximum_selected
             /\ Eligible \ Selected # {} => Cardinality(Selected) = request.maximum_selected
  <2>1. Selected = Chosen
    BY <1>1, SelectedAreChosen DEF IInv, SelectedFromDescribed
  <2>2. \A d \in Eligible : Ahead(Eligible, Ranking, d) = {e \in Eligible : Outranks(e, d)}
    BY DEF Ahead, Ranking
  <2>3. Chosen = Best(Eligible, Ranking, request.maximum_selected)
    BY <2>2 DEF Chosen, Best
  <2>4. IsFiniteSet(Eligible)
    <3>1. Eligible \in SUBSET descriptors
      BY DEF Eligible
    <3>2. QED
      BY <1>1, <3>1, FS_Subset DEF IInv, DescribedOnce
  <2>5. request.maximum_selected \in Nat
    BY <1>1, RequestsAssumption DEF IInv, TypeOK, RequestsAssumption
  <2>6. /\ \A d \in Chosen, e \in Eligible : <<e, d>> \in Ranking => e \in Chosen
        /\ Cardinality(Chosen) <= request.maximum_selected
        /\ Eligible \ Chosen # {} => Cardinality(Chosen) = request.maximum_selected
    BY <1>1, <2>3, <2>4, <2>5, SelectorRanks, BestOfRanking
  <2>7. ASSUME NEW d \in Chosen, NEW e \in Eligible \ Chosen
        PROVE  Relevance(d) >= Relevance(e)
    <3>1. d \in Eligible /\ ~ Outranks(e, d)
      BY <2>6, <2>7 DEF Chosen, Ranking
    <3>2. ~ (Relevance(e) > Relevance(d))
      BY <3>1 DEF Outranks
    <3>3. Relevance(d) \in Nat /\ Relevance(e) \in Nat
      BY <1>1, <2>7, <3>1, RelevanceIsNumber
    <3>4. QED
      BY <3>2, <3>3
  <2>8. QED
    BY <2>1, <2>6, <2>7
<1>2. IInv => BestSelected
  BY <1>1 DEF BestSelected
<1>3. QED
  BY <1>2, Invariant, PTL
=============================================================================
