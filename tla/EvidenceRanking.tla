----------------------------- MODULE EvidenceRanking -----------------------------
(***************************************************************************)
(* The bundle ContextManager.build hands out, and what EvidenceAwareRanker *)
(* makes of it for a query.                                                *)
(*                                                                         *)
(* A bundle is its owner, its items and its evidence references.  An item  *)
(* is the id of its evidence and the words its value holds; a query is the *)
(* set of its terms.                                                       *)
(***************************************************************************)
EXTENDS ContextManager, Ordering, SequencesExt

CONSTANT Queries   \* [terms, max_items] the ranker may be asked with

ASSUME QueriesAssumption ==
  /\ Queries \subseteq [terms : SUBSET Words, max_items : 1..50]
  /\ \A query \in Queries : IsFiniteSet(query.terms)
-----------------------------------------------------------------------------
(* ContextManager._canonical_bundle *)

Evidenced == {i \in selected : Candidate(i).evidence # {}}

SelectionOrder == {p \in Evidenced \X Evidenced : p[1] # p[2] /\ Precedes(p[1], p[2])}

ReferenceOf(i) == CHOOSE e \in Candidate(i).evidence : TRUE

\* Items and references follow the order of the selection.
CanonicalBundle ==
  LET order == InOrder(Evidenced, SelectionOrder) IN
  [identity |-> call.context.identity, correlation_id |-> call.context.correlation_id,
   items |-> [n \in DOMAIN order |-> [evidence_id |-> ReferenceOf(order[n]).evidence_id,
                                      words |-> Candidate(order[n]).words]],
   evidence_refs |-> [n \in DOMAIN order |-> ReferenceOf(order[n])]]
-----------------------------------------------------------------------------
(* EvidenceAwareRanker *)

Score(item, query) == Cardinality(query.terms \cap item.words)

\* The key is (-score, index).
BetterFirst(items, query) ==
  {p \in (DOMAIN items) \X (DOMAIN items) :
     \/ Score(items[p[1]], query) > Score(items[p[2]], query)
     \/ Score(items[p[1]], query) = Score(items[p[2]], query) /\ p[1] < p[2]}

IdsOf(sequence) == {sequence[n].evidence_id : n \in DOMAIN sequence}

Ranked(items, query) ==
  LET order == InOrder(DOMAIN items, BetterFirst(items, query))
      kept == {n \in DOMAIN order : n <= query.max_items}
  IN [n \in kept |-> items[order[n]]]

ReferencesOf(ids, refs) ==
  LET kept == {n \in DOMAIN refs : refs[n].evidence_id \in ids}
      order == InOrder(kept, AscendingOrder(kept))
  IN [n \in DOMAIN order |-> refs[order[n]]]

\* As if references were cut off where items are.
RankFirstReferences(bundle, query) ==
  [bundle EXCEPT !.items = Ranked(@, query),
                 !.evidence_refs = [n \in {m \in DOMAIN @ : m <= query.max_items} |-> @[n]]]

\* rank, for a max_items it accepts.
Rank(bundle, query) ==
  LET items == Ranked(bundle.items, query) IN
  [bundle EXCEPT !.items = items,
                 !.evidence_refs = ReferencesOf(IdsOf(items), @)]
-----------------------------------------------------------------------------
(* Properties *)

\* Authoritative evidence reaches the bundle: the bundle of a context has each
\* required segment's reference and no reference but those of selected segments, the same ids in
\* its items as in its references, and what it refers to belongs to the bundle's owner and
\* correlation (manager.py 100-135, 215-266, safety.py 130-188, budgeting.py 44-53).
BundleTraceable(bundle) ==
  LET refs == ToSet(bundle.evidence_refs) IN
  /\ \A i \in CallerSegments :
       Required(call.segments[i]) => call.segments[i].evidence \subseteq refs
  /\ refs \subseteq UNION {Candidate(i).evidence : i \in selected}
  /\ IdsOf(bundle.items) = IdsOf(bundle.evidence_refs)
  /\ \A e \in refs : e.identity = bundle.identity /\ e.correlation_id = bundle.correlation_id

\* The reference that stands for an id where research resolves it: the last one that has it.
Resolved(bundle, id) ==
  LET refs == bundle.evidence_refs IN
  {refs[n] : n \in {m \in DOMAIN refs :
     refs[m].evidence_id = id /\ \A k \in DOMAIN refs : refs[k].evidence_id = id => k <= m}}

\* Ranking loses no lineage: the ranked bundle refers to exactly the evidence of its items, each
\* id resolves to the reference it had before, and an item left out is no better a match than any
\* kept; a bundle that has evidence still has some, and to rank a ranked bundle changes nothing
\* (ranking/service.py 15-47).
RankingKeepsLineage(bundle) ==
  \A query \in Queries :
  \A ranked \in {Rank(bundle, query)} :
    /\ IdsOf(ranked.items) = IdsOf(ranked.evidence_refs)
    /\ \A id \in IdsOf(ranked.items) : Resolved(ranked, id) = Resolved(bundle, id)
    /\ \A item \in ToSet(bundle.items) \ ToSet(ranked.items), kept \in ToSet(ranked.items) :
         Score(item, query) <= Score(kept, query)
    /\ bundle.evidence_refs # <<>> => ranked.evidence_refs # <<>>
    /\ Rank(ranked, query) = ranked

\* Evidence stays traceable from a segment to whoever reads a context that was built: it is
\* neither lost nor made up on the way into the bundle, nor when the bundle is ranked and cut
\* (manager.py 215-266, ranking/service.py 15-47).
EvidenceTraceable ==
  pc = "built" =>
    \A bundle \in {CanonicalBundle} : BundleTraceable(bundle) /\ RankingKeepsLineage(bundle)
=============================================================================
