--------------------------- MODULE DelegationProofs ---------------------------
(***************************************************************************)
(* What holds of every delegation tree that grows under the guard, for     *)
(* every policy, every set of requests and every interleaving of grants    *)
(* and starts.                                                             *)
(***************************************************************************)
EXTENDS Delegation, FiniteSetTheorems, TLAPS

-----------------------------------------------------------------------------
(* Budgets and authorities are ordered *)

\* Every budget contains itself.
LEMMA ContainsReflexive == ASSUME NEW b \in Budgets PROVE Contains(b, b)
BY DEF Contains, Budgets, Limits

\* A grandchild's budget is contained in its grandparent's.
LEMMA ContainsTransitive ==
  ASSUME NEW a \in Budgets, NEW b \in Budgets, NEW c \in Budgets,
         Contains(a, b), Contains(b, c)
  PROVE  Contains(a, c)
<1> SUFFICES ASSUME NEW f \in Limits, a[f] # NoLimit
             PROVE  c[f] # NoLimit /\ c[f] <= a[f]
  BY DEF Contains
<1>1. b[f] # NoLimit /\ b[f] <= a[f]
  BY DEF Contains
<1>2. c[f] # NoLimit /\ c[f] <= b[f]
  BY <1>1 DEF Contains
<1>3. a[f] \in Nat /\ b[f] \in Nat /\ c[f] \in Nat
  BY <1>1, <1>2 DEF Budgets
<1>4. QED
  BY <1>1, <1>2, <1>3

\* So is its authority.
LEMMA AuthorityTransitive ==
  ASSUME NEW a, NEW b, NEW c, AuthorityContains(a, b), AuthorityContains(b, c)
  PROVE  AuthorityContains(a, c)
BY DEF AuthorityContains
-----------------------------------------------------------------------------
(* The inductive invariant *)

\* The run a request names as its parent contains what the request asks for, and
\* the run it names as its own is not there yet.
GrantHolds(g) ==
  LET p == g.parent_run_id IN
  /\ p \in started
  /\ g.run_id \notin started
  /\ g.root_run_id = run[p].root_run_id
  /\ g.depth = run[p].depth + 1
  /\ g.depth <= Policy.max_depth
  /\ AuthorityContains(run[p].authority, g.authority)
  /\ Contains(run[p].budget, g.budget)
  /\ TruthfulAncestry => g.child_agent_id \notin {run[r].agent_id : r \in Lineage(p)}

\* A run's recorded ancestry is a finite set of other runs that exist.
RunHolds(r) ==
  /\ run[r].ancestors \subseteq started
  /\ r \notin run[r].ancestors
  /\ IsFiniteSet(run[r].ancestors)
  /\ run[r].depth = Cardinality(run[r].ancestors)
  /\ run[r].depth <= Policy.max_depth
  /\ \A s \in run[r].ancestors :
       /\ run[s].root_run_id = run[r].root_run_id
       /\ AuthorityContains(run[s].authority, run[r].authority)
       /\ Contains(run[s].budget, run[r].budget)
       /\ TruthfulAncestry => run[s].agent_id # run[r].agent_id

IInv ==
  /\ TypeOK
  /\ \A g \in granted : GrantHolds(g)
  /\ \A g, h \in granted : g.run_id = h.run_id => g = h
  /\ \A r \in started : RunHolds(r)

\* The tree starts in order.
LEMMA InitHolds == Init => IInv
<1> SUFFICES ASSUME Init PROVE IInv
  OBVIOUS
<1>1. TypeOK
  BY RootsAssumption DEF RootsAssumption, Init, TypeOK, RunStates
<1>2. ASSUME NEW r \in started PROVE RunHolds(r)
  BY FS_EmptySet, PolicyAssumption DEF Init, RunHolds, PolicyAssumption
<1>3. QED
  BY <1>1, <1>2 DEF Init, IInv

\* A grant keeps the invariant, whichever snapshot it was decided on.
LEMMA GrantStep ==
  ASSUME IInv, NEW p \in started, NEW child \in Requests(p), Grant(p, child)
  PROVE  IInv'
<1>1. /\ child \in DelegationRequests /\ child.run_id \notin started
      /\ \A g \in granted : g.run_id # child.run_id
  BY ChildBudgetsAssumption, PolicyAssumption
     DEF Requests, DelegationRequests, AncestryReports, IInv, TypeOK, ChildBudgetsAssumption,
         PolicyAssumption, Lineage, RunHolds, RunStates
<1>2. GrantHolds(child)
  <2>1. child.parent_run_id = p
    BY DEF Grant, Validate, LineageMatches, ParentRunState
  <2>2. TruthfulAncestry => child.child_agent_id \notin {run[r].agent_id : r \in Lineage(p)}
    BY DEF Requests, AncestryReports, Grant, Validate, NoCycleReported
  <2>3. QED
    BY <1>1, <2>1, <2>2
       DEF Grant, Validate, ParentRunState, LineageMatches, DepthAllowed, GrantHolds
<1>3. TypeOK'
  BY <1>1 DEF IInv, TypeOK, Grant
<1>4. QED
  BY <1>1, <1>2, <1>3 DEF IInv, Grant, GrantHolds, RunHolds, Lineage

\* What Start does, field by field: a new run below p, and one more child counted at p.
LEMMA StartEffect ==
  ASSUME IInv, NEW child \in granted, Start(child)
  PROVE  LET p == child.parent_run_id
             c == child.run_id
         IN /\ started' = started \cup {c}
            /\ run' \in [started' -> RunStates]
            /\ \A r \in started :
                 /\ run'[r].agent_id = run[r].agent_id
                 /\ run'[r].root_run_id = run[r].root_run_id
                 /\ run'[r].ancestors = run[r].ancestors
                 /\ run'[r].depth = run[r].depth
                 /\ run'[r].authority = run[r].authority
                 /\ run'[r].budget = run[r].budget
            /\ run'[c].agent_id = child.child_agent_id
            /\ run'[c].root_run_id = child.root_run_id
            /\ run'[c].ancestors = run[p].ancestors \cup {p}
            /\ run'[c].depth = child.depth
            /\ run'[c].authority = child.authority
            /\ run'[c].budget = child.budget
<1> DEFINE p == child.parent_run_id
           c == child.run_id
           new == [agent_id |-> child.child_agent_id, root_run_id |-> child.root_run_id,
                   ancestors |-> Lineage(p), depth |-> child.depth, child_count |-> 0,
                   authority |-> child.authority, budget |-> child.budget]
           counted == [run[p] EXCEPT !.child_count = @ + 1]
<1>1. p \in started /\ c \notin started /\ child \in DelegationRequests
  BY DEF IInv, GrantHolds, TypeOK
<1>2. run \in [started -> RunStates] /\ started \subseteq RunIds
  BY DEF IInv, TypeOK
<1>3. new \in RunStates
  BY <1>1, <1>2 DEF DelegationRequests, RunStates, Lineage
<1>4. /\ counted \in RunStates
      /\ counted.agent_id = run[p].agent_id /\ counted.root_run_id = run[p].root_run_id
      /\ counted.ancestors = run[p].ancestors /\ counted.depth = run[p].depth
      /\ counted.authority = run[p].authority /\ counted.budget = run[p].budget
  BY <1>1, <1>2 DEF RunStates
<1>5. /\ started' = started \cup {c}
      /\ run' = [r \in started \cup {c} |-> IF r = c THEN new
                                          ELSE IF r = p THEN counted ELSE run[r]]
  BY DEF Start
<1> HIDE DEF new, counted
<1>6. run' \in [started' -> RunStates]
  BY <1>2, <1>3, <1>4, <1>5
<1>7. run'[c] = new
  BY <1>5
<1>8. /\ new.agent_id = child.child_agent_id /\ new.root_run_id = child.root_run_id
      /\ new.ancestors = run[p].ancestors \cup {p} /\ new.depth = child.depth
      /\ new.authority = child.authority /\ new.budget = child.budget
  BY DEF new, Lineage
<1>9. ASSUME NEW r \in started PROVE run'[r] = IF r = p THEN counted ELSE run[r]
  BY <1>1, <1>5
<1>10. QED
  BY <1>4, <1>5, <1>6, <1>7, <1>8, <1>9

\* Starting a granted child keeps the invariant, however many grants came between.
LEMMA StartStep ==
  ASSUME IInv, NEW child \in granted, Start(child)
  PROVE  IInv'
<1> DEFINE p == child.parent_run_id
           c == child.run_id
<1>1. /\ p \in started /\ c \notin started /\ GrantHolds(child)
      /\ child \in DelegationRequests /\ RunHolds(p)
  BY DEF IInv, GrantHolds, TypeOK
<1>2. /\ started' = started \cup {c}
      /\ run' \in [started' -> RunStates]
  BY StartEffect
<1>3. ASSUME NEW r \in started
      PROVE  /\ run'[r].agent_id = run[r].agent_id
             /\ run'[r].root_run_id = run[r].root_run_id
             /\ run'[r].ancestors = run[r].ancestors
             /\ run'[r].depth = run[r].depth
             /\ run'[r].authority = run[r].authority
             /\ run'[r].budget = run[r].budget
  BY StartEffect
<1>4. /\ run'[c].agent_id = child.child_agent_id
      /\ run'[c].root_run_id = child.root_run_id
      /\ run'[c].ancestors = run[p].ancestors \cup {p}
      /\ run'[c].depth = child.depth
      /\ run'[c].authority = child.authority
      /\ run'[c].budget = child.budget
  BY StartEffect
<1>5. granted' = granted \ {child}
  BY DEF Start
<1>6. TypeOK'
  BY <1>1, <1>2, <1>5 DEF IInv, TypeOK, DelegationRequests
<1>7. ASSUME NEW g \in granted' PROVE GrantHolds(g)'
  <2>1. GrantHolds(g) /\ g.run_id # c
    BY <1>5 DEF IInv
  <2>2. g.parent_run_id \in started /\ run[g.parent_run_id].ancestors \subseteq started
    BY <2>1 DEF GrantHolds, IInv, RunHolds
  <2>3. Lineage(g.parent_run_id)' = Lineage(g.parent_run_id)
    BY <1>3, <2>2 DEF Lineage
  <2>4. \A r \in Lineage(g.parent_run_id) : run'[r].agent_id = run[r].agent_id
    BY <1>3, <2>2 DEF Lineage
  <2>5. QED
    BY <1>2, <1>3, <2>1, <2>2, <2>3, <2>4 DEF GrantHolds
<1>8. ASSUME NEW r \in started PROVE RunHolds(r)'
  <2>1. RunHolds(r)
    BY DEF IInv
  <2>2. QED
    BY <1>2, <1>3, <2>1 DEF RunHolds
<1>9. RunHolds(c)'
  <2> DEFINE A == run[p].ancestors \cup {p}
  <2>1. A \subseteq started /\ c \notin A
    BY <1>1 DEF RunHolds
  <2>2. IsFiniteSet(A) /\ Cardinality(A) = run[p].depth + 1
    <3>1. /\ IsFiniteSet(run[p].ancestors) /\ p \notin run[p].ancestors
          /\ run[p].depth = Cardinality(run[p].ancestors)
      BY <1>1 DEF RunHolds
    <3>2. QED
      BY <3>1, FS_AddElement
  <2>3. child.depth = run[p].depth + 1 /\ child.depth <= Policy.max_depth
    BY <1>1 DEF GrantHolds
  <2>4. ASSUME NEW s \in A
        PROVE  /\ run[s].root_run_id = child.root_run_id
               /\ AuthorityContains(run[s].authority, child.authority)
               /\ Contains(run[s].budget, child.budget)
               /\ TruthfulAncestry => run[s].agent_id # child.child_agent_id
    <3>1. /\ run[s].root_run_id = run[p].root_run_id
          /\ s = p \/ AuthorityContains(run[s].authority, run[p].authority)
          /\ s = p \/ Contains(run[s].budget, run[p].budget)
      BY <1>1 DEF RunHolds
    <3>2. /\ run[s].budget \in Budgets /\ run[p].budget \in Budgets /\ child.budget \in Budgets
      BY <1>1, <2>1 DEF IInv, TypeOK, RunStates, DelegationRequests
    <3>3. /\ child.root_run_id = run[p].root_run_id
          /\ AuthorityContains(run[p].authority, child.authority)
          /\ Contains(run[p].budget, child.budget)
          /\ TruthfulAncestry => child.child_agent_id \notin {run[r].agent_id : r \in A}
      BY <1>1 DEF GrantHolds, Lineage
    <3>4. QED
      BY <3>1, <3>2, <3>3, AuthorityTransitive, ContainsTransitive
  <2>5. QED
    BY <1>2, <1>3, <1>4, <2>1, <2>2, <2>3, <2>4 DEF RunHolds
<1>10. QED
  BY <1>2, <1>5, <1>6, <1>7, <1>8, <1>9 DEF IInv

\* IInv is inductive.
LEMMA TreeInOrder == Spec => []IInv
<1>1. IInv /\ [Next]_vars => IInv'
  <2> SUFFICES ASSUME IInv, [Next]_vars PROVE IInv'
    OBVIOUS
  <2>1. CASE UNCHANGED vars
    BY <2>1 DEF vars, IInv, TypeOK, GrantHolds, RunHolds, Lineage
  <2>2. QED
    BY <2>1, GrantStep, StartStep DEF Next
<1>2. QED
  BY <1>1, InitHolds, PTL DEF Spec
-----------------------------------------------------------------------------
(* The properties of the runs *)

\* Every run and every granted request keeps its shape.
THEOREM DelegationTypeCorrect == Spec => []TypeOK
<1>1. IInv => TypeOK
  BY DEF IInv
<1>2. QED
  BY <1>1, TreeInOrder, PTL

\* Whatever requests ask for and in whatever order they are granted and started, no run has more
\* authority or a looser budget than any of its ancestors.
THEOREM NothingExpandsAlways == Spec => []NothingExpands
<1>1. IInv => NothingExpands
  BY DEF IInv, RunHolds, NothingExpands
<1>2. QED
  BY <1>1, TreeInOrder, PTL

\* Depths are true and bounded, so delegation chains are finite.
THEOREM DepthIsRealAlways == Spec => []DepthIsReal
<1>1. IInv => DepthIsReal
  BY DEF IInv, RunHolds, DepthIsReal
<1>2. QED
  BY <1>1, TreeInOrder, PTL

\* When requests report their ancestry truthfully, the guard keeps agents from working below
\* themselves.
THEOREM NoAgentBelowItselfAlways == TruthfulAncestry /\ Spec => []NoAgentBelowItself
<1> SUFFICES ASSUME TruthfulAncestry PROVE Spec => []NoAgentBelowItself
  OBVIOUS
<1>1. IInv => NoAgentBelowItself
  BY DEF IInv, RunHolds, NoAgentBelowItself
<1>2. QED
  BY <1>1, TreeInOrder, PTL
=============================================================================
