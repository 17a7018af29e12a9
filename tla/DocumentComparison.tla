--------------------------- MODULE DocumentComparison ---------------------------
(***************************************************************************)
(* DocumentComparisonIntelligence.compare: one pass over the documents     *)
(* that collects hashes and key values, then a report of what they share   *)
(* and where they differ.  The findings are a set: their order in the      *)
(* report carries no meaning.                                              *)
(*                                                                         *)
(* A document is [source_id, content_hash, lines, years].  Its lines are   *)
(* the "key: value" pairs of its content, in order, with folded keys; its  *)
(* years are those it mentions; its hash is what the document claims.      *)
(* Source ids are numbers whose order is that of the strings.              *)
(***************************************************************************)
EXTENDS Ordering, Sequences

CONSTANTS
  ComparedDocuments,   \* the lists of documents that are compared
  RequiredFields, CurrentYear

IsDocument(d) ==
  /\ d.source_id \in Nat
  /\ d.lines \in Seq({[key |-> d.lines[i].key, value |-> d.lines[i].value] : i \in DOMAIN d.lines})
  /\ d.years \subseteq Nat

ASSUME ComparedDocumentsAssumption ==
  /\ CurrentYear \in Nat
  /\ \A documents \in ComparedDocuments :
       /\ documents \in Seq({documents[i] : i \in DOMAIN documents})
       /\ \A i \in DOMAIN documents : IsDocument(documents[i])

Empty == [k \in {} |-> k]

\* values[key] = value
Assigned(values, key, value) ==
  [k \in DOMAIN values \cup {key} |-> IF k = key THEN value ELSE values[k]]

\* As if the first of several values of a key were kept.
KeyValuesFirst(lines) ==
  LET values[n \in 0..Len(lines)] ==
        IF n = 0 THEN Empty
        ELSE IF lines[n].key \in DOMAIN values[n - 1] THEN values[n - 1]
        ELSE Assigned(values[n - 1], lines[n].key, lines[n].value)
  IN values[Len(lines)]

\* Of several values of a key the last one is kept.
KeyValues(lines) ==
  LET values[n \in 0..Len(lines)] ==
        IF n = 0 THEN Empty ELSE Assigned(values[n - 1], lines[n].key, lines[n].value)
  IN values[Len(lines)]

\* dictionary.setdefault(key, []).append(id), for each of the keys
Appended(dictionary, keys, id) ==
  [k \in DOMAIN dictionary \cup keys |->
     IF k \notin keys THEN dictionary[k]
     ELSE IF k \in DOMAIN dictionary THEN Append(dictionary[k], id) ELSE <<id>>]

\* The pass over the documents, each of which adds its id under its keys.
Gathered(documents, keys) ==
  LET dictionary[n \in 0..Len(documents)] ==
        IF n = 0 THEN Empty
        ELSE Appended(dictionary[n - 1], keys[n], documents[n].source_id)
  IN dictionary[Len(documents)]

Hashes(documents) == Gathered(documents, [n \in DOMAIN documents |-> {documents[n].content_hash}])

\* key_values, whose two levels of keys are one level of pairs here.
SourcesOfValues(documents) ==
  Gathered(documents,
           [n \in DOMAIN documents |->
              {<<k, KeyValues(documents[n].lines)[k]>> : k \in DOMAIN KeyValues(documents[n].lines)}])

Finding(kind, source_ids, field) == [kind |-> kind, source_ids |-> source_ids, field |-> field]

\* The order of positions by the ids there; the sort is stable.
IdOrder(ids, positions) ==
  {p \in positions \X positions :
     \/ ids[p[1]] < ids[p[2]]
     \/ ids[p[1]] = ids[p[2]] /\ p[1] < p[2]}

\* sorted(ids), of a set and of a list
SortedSet(ids) == InOrder(ids, AscendingOrder(ids))

Sorted(ids) ==
  [n \in DOMAIN ids |-> ids[InOrder(DOMAIN ids, IdOrder(ids, DOMAIN ids))[n]]]

Missing(d, required_fields) ==
  {Finding("MISSING_FIELD", <<d.source_id>>, f) : f \in required_fields \ DOMAIN KeyValues(d.lines)}

Outdated(d, current_year) ==
  IF \E year \in d.years : year < current_year
  THEN {Finding("OUTDATED_REFERENCE", <<d.source_id>>, "")} ELSE {}

Duplicates(documents) ==
  LET hashes == Hashes(documents) IN
  {Finding("DUPLICATE", Sorted(hashes[h]), "") : h \in {x \in DOMAIN hashes : Len(hashes[x]) > 1}}

Conflicts(documents) ==
  LET key_values == SourcesOfValues(documents)
      Values(k) == {v \in DOMAIN key_values : v[1] = k}
      Sources(k) ==
        UNION {{key_values[v][n] : n \in DOMAIN key_values[v]} : v \in Values(k)}
  IN {Finding("CONFLICT", SortedSet(Sources(v[1])), v[1]) :
        v \in {x \in DOMAIN key_values : \E w \in Values(x[1]) : w # x}}

Compare(documents, required_fields, current_year) ==
  Duplicates(documents) \cup Conflicts(documents)
  \cup UNION {Missing(documents[i], required_fields) \cup Outdated(documents[i], current_year)
                : i \in DOMAIN documents}
-----------------------------------------------------------------------------
(* What a comparison should find, said of two documents at a time *)

\* The line that says what d holds of a key: no later line is about it.
States(d, key, value) ==
  \E i \in DOMAIN d.lines :
    /\ d.lines[i] = [key |-> key, value |-> value]
    /\ \A j \in DOMAIN d.lines : j > i => d.lines[j].key # key

Mentions(d, key) == \E i \in DOMAIN d.lines : d.lines[i].key = key

Mentioning(documents, key) == {i \in DOMAIN documents : Mentions(documents[i], key)}

Sharing(documents, hash) == {i \in DOMAIN documents : documents[i].content_hash = hash}

Disagree(d, e, key) ==
  Mentions(d, key) /\ Mentions(e, key)
  /\ ~ \E i \in DOMAIN d.lines : States(d, key, d.lines[i].value) /\ States(e, key, d.lines[i].value)

\* The ids of these positions of documents, ascending, repeats included.
IdsOf(documents, positions) ==
  LET ids == [i \in positions |-> documents[i].source_id]
  IN [n \in 1..Cardinality(positions) |-> ids[InOrder(positions, IdOrder(ids, positions))[n]]]

Expected(documents, required_fields, current_year) ==
  LET D == DOMAIN documents IN
  {Finding("CONFLICT", SortedSet({documents[i].source_id : i \in Mentioning(documents, k)}), k)
     : k \in {f \in UNION {{documents[i].lines[n].key : n \in DOMAIN documents[i].lines} : i \in D} :
                \E i, j \in D : Disagree(documents[i], documents[j], f)}}
  \cup {Finding("DUPLICATE", IdsOf(documents, Sharing(documents, documents[i].content_hash)), "")
          : i \in {x \in D :
                     \E j \in D : x < j /\ documents[x].content_hash = documents[j].content_hash}}
  \cup {Finding("MISSING_FIELD", <<documents[p[1]].source_id>>, p[2])
          : p \in {q \in D \X required_fields : ~ Mentions(documents[q[1]], q[2])}}
  \cup {Finding("OUTDATED_REFERENCE", <<documents[i].source_id>>, "")
          : i \in {x \in D : ~ \A year \in documents[x].years : year >= current_year}}

\* One pass finds what a look at every pair of documents would: a conflict wherever two documents
\* hold different values of a field in their last words on it, naming all that mention the field,
\* a duplicate for every shared hash with all its documents, and nothing else, in whatever order
\* the documents come (comparison.py 47-99).
ComparisonIsPairwise ==
  \A documents \in ComparedDocuments :
    Compare(documents, RequiredFields, CurrentYear)
      = Expected(documents, RequiredFields, CurrentYear)
=============================================================================
