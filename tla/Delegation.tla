------------------------------ MODULE Delegation ------------------------------
(***************************************************************************)
(* DelegationGuard.validate and the tree of runs that grows under it.      *)
(*                                                                         *)
(* The guard is a pure function of a snapshot of the parent run, the       *)
(* child's request and a policy.  The orchestrator that takes the          *)
(* snapshot, starts the child and counts it is not in this repository: it  *)
(* is modelled from what the guard is given.  Granting a child and         *)
(* starting it are two steps, so several children may be granted from      *)
(* snapshots of one parent before any of them is counted.                  *)
(*                                                                         *)
(* The ancestry against which the guard looks for cycles is a field of the *)
(* child's request.  TruthfulAncestry says whether requests report the     *)
(* agents of the parent and of all its ancestors, or anything they like.   *)
(***************************************************************************)
EXTENDS ExecutionBudget, FiniteSets

CONSTANTS
  RunIds, Roots,      \* run ids, and those of runs no one delegated
  Agents,
  RootRuns,           \* [Roots -> [agent_id, authority, budget]]
  Authorities,        \* AuthorityEnvelopes a request may carry
  ChildBudgets,       \* budgets a request may carry
  Timeouts,           \* timeout_seconds a request may carry
  Policy,             \* DelegationPolicy: [max_depth, max_children, timeout_seconds]
  TruthfulAncestry

ASSUME RootsAssumption ==
  /\ Roots \subseteq RunIds
  /\ RootRuns \in [Roots -> [agent_id : Agents, authority : Authorities, budget : Budgets]]
ASSUME ChildBudgetsAssumption == ChildBudgets \subseteq Budgets
ASSUME PolicyAssumption ==
  Policy \in [max_depth : Nat, max_children : Nat, timeout_seconds : Nat]
ASSUME TruthfulAncestryAssumption == TruthfulAncestry \in BOOLEAN

VARIABLES
  started,  \* the runs that exist
  run,      \* their states; ancestors holds the runs above, whatever a request claimed
  granted   \* requests the guard has passed and that are not started yet

vars == <<started, run, granted>>
-----------------------------------------------------------------------------
(* The guard *)

ParentRunState(p) ==
  [run_id |-> p, root_run_id |-> run[p].root_run_id, agent_id |-> run[p].agent_id,
   depth |-> run[p].depth, child_count |-> run[p].child_count,
   authority |-> run[p].authority, budget |-> run[p].budget]

\* As if the root alone identified the tree a child joins.
LineageRootOnly(parent, child) == child.root_run_id = parent.root_run_id

LineageMatches(parent, child) ==
  child.root_run_id = parent.root_run_id /\ child.parent_run_id = parent.run_id

\* As if any depth up to max_depth were accepted.
DepthOnlyBounded(parent, child) == child.depth <= Policy.max_depth

DepthAllowed(parent, child) ==
  child.depth = parent.depth + 1 /\ child.depth <= Policy.max_depth

ChildrenAllowed(parent) == parent.child_count < Policy.max_children

\* As if only the direct parent were looked at.
NoCycleWithParent(parent, child) == child.child_agent_id # parent.agent_id

NoCycleReported(parent, child) == child.child_agent_id \notin child.ancestry_agent_ids

AuthorityContains(parent, child) ==
  /\ child.tenant_id = parent.tenant_id
  /\ child.workspace_id = parent.workspace_id
  /\ child.permission_refs \subseteq parent.permission_refs
  /\ child.scope_refs \subseteq parent.scope_refs
  /\ child.allowed_tool_ids \subseteq parent.allowed_tool_ids

Validate(parent, child) ==
  /\ LineageMatches(parent, child)
  /\ DepthAllowed(parent, child)
  /\ ChildrenAllowed(parent)
  /\ NoCycleReported(parent, child)
  /\ child.timeout_seconds <= Policy.timeout_seconds
  /\ AuthorityContains(parent.authority, child.authority)
  /\ Contains(parent.budget, child.budget)
-----------------------------------------------------------------------------
(* The orchestrator *)

Lineage(p) == run[p].ancestors \cup {p}

AncestryReports(p) ==
  IF TruthfulAncestry THEN {{run[r].agent_id : r \in Lineage(p)}} ELSE SUBSET Agents

Requests(p) ==
  [run_id : RunIds \ (started \cup {g.run_id : g \in granted}),
   root_run_id : Roots, parent_run_id : started, child_agent_id : Agents,
   depth : 1..(Policy.max_depth + 1), ancestry_agent_ids : AncestryReports(p),
   authority : Authorities, budget : ChildBudgets, timeout_seconds : Timeouts]

Init ==
  /\ started = Roots
  /\ run = [r \in Roots |->
             [agent_id |-> RootRuns[r].agent_id, root_run_id |-> r, ancestors |-> {},
              depth |-> 0, child_count |-> 0, authority |-> RootRuns[r].authority,
              budget |-> RootRuns[r].budget]]
  /\ granted = {}

\* A request for a child of p passes the guard; a denied one leaves no trace.
Grant(p, child) ==
  /\ Validate(ParentRunState(p), child)
  /\ granted' = granted \cup {child}
  /\ UNCHANGED <<started, run>>

\* As if a child were counted but its own state never kept.
StartUnrecorded(child) ==
  /\ started' = started \cup {child.run_id}
  /\ run' = [run EXCEPT ![child.parent_run_id].child_count = @ + 1]
  /\ granted' = granted \ {child}

\* The child joins the tree under the parent its request names.
Start(child) ==
  LET p == child.parent_run_id IN
  /\ started' = started \cup {child.run_id}
  /\ run' = [r \in started \cup {child.run_id} |->
              IF r = child.run_id
              THEN [agent_id |-> child.child_agent_id, root_run_id |-> child.root_run_id,
                    ancestors |-> Lineage(p), depth |-> child.depth, child_count |-> 0,
                    authority |-> child.authority, budget |-> child.budget]
              ELSE IF r = p THEN [run[r] EXCEPT !.child_count = @ + 1]
              ELSE run[r]]
  /\ granted' = granted \ {child}

Next ==
  \/ \E p \in started : \E child \in Requests(p) : Grant(p, child)
  \/ \E child \in granted : Start(child)

Spec == Init /\ [][Next]_vars
-----------------------------------------------------------------------------
(* Properties *)

RunStates ==
  [agent_id : Agents, root_run_id : Roots, ancestors : SUBSET RunIds, depth : Nat,
   child_count : Nat, authority : Authorities, budget : Budgets]

DelegationRequests ==
  [run_id : RunIds, root_run_id : Roots, parent_run_id : RunIds, child_agent_id : Agents,
   depth : Nat, ancestry_agent_ids : SUBSET Agents, authority : Authorities,
   budget : Budgets, timeout_seconds : Timeouts]

\* The type invariant: every run that exists has a state of the right shape.
TypeOK ==
  /\ started \subseteq RunIds
  /\ run \in [started -> RunStates]
  /\ granted \subseteq DelegationRequests

\* "Child delegation tidak dapat memperluas authority atau budget": however deep the tree and
\* however stale the snapshots, a run has no tenant, workspace, permission, scope or tool that
\* some ancestor lacks, and no limit looser than an ancestor's (guard.py 21-42).
NothingExpands ==
  \A r \in started : \A s \in run[r].ancestors :
    /\ s \in started
    /\ AuthorityContains(run[s].authority, run[r].authority)
    /\ Contains(run[s].budget, run[r].budget)

\* The depth a run claims is its real distance from its root, every run above it belongs to
\* that root, and no chain is longer than the policy allows (guard.py 21-24).
DepthIsReal ==
  \A r \in started :
    /\ run[r].depth = Cardinality(run[r].ancestors)
    /\ run[r].depth <= Policy.max_depth
    /\ \A s \in run[r].ancestors : run[s].root_run_id = run[r].root_run_id

\* "cycle prevention melalui ancestry Agent": no agent works below itself (guard.py 27-28).
NoAgentBelowItself ==
  \A r \in started : \A s \in run[r].ancestors : run[s].agent_id # run[r].agent_id

\* "DelegationGuard menegakkan ... max_children": no run has more children than the policy
\* allows (guard.py 25-26).
ChildrenBounded == \A r \in started : run[r].child_count <= Policy.max_children
=============================================================================
