-------------------------- MODULE ContextManagerProofs --------------------------
(***************************************************************************)
(* What holds of every context that is built, for every execution context, *)
(* boundary, list of segments and size.                                    *)
(***************************************************************************)
EXTENDS EvidenceRanking, OrderingProofs

-----------------------------------------------------------------------------
(* The guards *)

\* What a segment to which there is no objection is known to be.
SegmentHolds(s) ==
  /\ s.scope_refs \subseteq call.scope_refs
  /\ s.permission_refs \subseteq call.context.permission_refs
  /\ s.tool_ids \subseteq call.boundary.tool_ids
  /\ s.data_classification \in call.boundary.classifications
  /\ s.data_classification <= call.context.data_classification
  /\ s.source = "EXTERNAL" => ~ s.instructs
  /\ \A e \in s.evidence :
       /\ e.identity = call.context.identity
       /\ e.correlation_id = call.context.correlation_id
       /\ e.scope_refs \subseteq call.scope_refs
       /\ e.validation_status = "VALID"

\* What an execution context to which there is no objection is known to be.
ContextHolds ==
  /\ call.context.identity = call.boundary.identity
  /\ call.context.role_refs \subseteq call.boundary.role_refs
  /\ call.context.authority_level \in call.boundary.authority_levels
  /\ call.context.data_classification \in call.boundary.classifications
  /\ call.context.permission_refs \subseteq call.boundary.permission_refs
  /\ call.tool_ids \subseteq call.context.tool_ids
  /\ call.context.tool_ids \subseteq call.boundary.tool_ids
  /\ call.scope_refs \subseteq call.context.scope_refs
  /\ call.context.scope_refs \subseteq call.boundary.scope_refs

\* No objection to the execution context means that it is within the boundary.
LEMMA ContextGuard == ASSUME ContextObjection = "none" PROVE ContextHolds
BY DEF ContextObjection, ContextHolds

\* A call's segments are segments, and so are the manager's own.
LEMMA CandidateType ==
  ASSUME TypedCall(call), NEW i \in Candidates PROVE Candidate(i) \in Segments
<1>1. CASE i \in DOMAIN SystemSegments
  BY <1>1, SystemSegmentsAssumption DEF SystemSegmentsAssumption, Candidate
<1>2. CASE i \notin DOMAIN SystemSegments
  <2>1. PICK k \in CallerSegments : i = 3 + k
    BY <1>2 DEF Candidates
  <2>2. call.segments \in Seq(Segments)
    BY DEF TypedCall
  <2>3. k \in Nat \ {0} /\ call.segments[k] \in Segments
    BY <2>1, <2>2 DEF CallerSegments
  <2>4. Candidate(i) = call.segments[k]
    BY <2>1, <2>3 DEF Candidate
  <2>5. QED
    BY <2>3, <2>4
<1>3. QED
  BY <1>1, <1>2

\* No objection to a segment means that it stays within the call.
LEMMA SegmentGuard ==
  ASSUME TypedCall(call), NEW s \in Segments, SegmentObjection(s) = "none"
  PROVE  SegmentHolds(s)
<1>1. BoundObjection(s) = "none"
  BY DEF SegmentObjection
<1>2. ~ \E e \in s.evidence : EvidenceObjection(e, s) # "none"
  <2> SUFFICES ASSUME NEW e \in s.evidence, EvidenceObjection(e, s) # "none" PROVE FALSE
    OBVIOUS
  <2>1. \A f \in s.evidence : f = e
    BY DEF Segments
  <2>2. {EvidenceObjection(f, s) : f \in s.evidence} = {EvidenceObjection(e, s)}
    BY <2>1
  <2>3. (CHOOSE o \in {EvidenceObjection(f, s) : f \in s.evidence} : TRUE)
          = EvidenceObjection(e, s)
    BY <2>2
  <2>4. QED
    BY <1>1, <2>3 DEF SegmentObjection
<1>3. /\ s.scope_refs \subseteq call.scope_refs
      /\ s.permission_refs \subseteq call.context.permission_refs
      /\ s.tool_ids \subseteq call.boundary.tool_ids
      /\ s.data_classification \in call.boundary.classifications
      /\ ~ s.data_classification > call.context.data_classification
  BY <1>1 DEF BoundObjection
<1>4. s.data_classification <= call.context.data_classification
  <2>1. s.data_classification \in 0..3 /\ call.context.data_classification \in 0..3
    BY DEF TypedCall, Segments, ExecutionContexts, Classifications
  <2>2. QED
    BY <1>3, <2>1
<1>5. s.source = "EXTERNAL" => ~ s.instructs
  BY <1>1, <1>2 DEF SegmentObjection
<1>6. ASSUME NEW e \in s.evidence
      PROVE  /\ e.identity = call.context.identity
             /\ e.correlation_id = call.context.correlation_id
             /\ e.scope_refs \subseteq s.scope_refs
             /\ e.validation_status = "VALID"
  <2>1. EvidenceObjection(e, s) = "none"
    BY <1>2
  <2>2. QED
    BY <2>1 DEF EvidenceObjection
<1>7. QED
  BY <1>3, <1>4, <1>5, <1>6 DEF SegmentHolds
-----------------------------------------------------------------------------
(* The size of a selection *)

\* Every candidate has a size and a priority.
LEMMA CandidateSize ==
  ASSUME TypedCall(call), NEW i \in Candidates
  PROVE  Candidate(i).size \in Nat \ {0} /\ Candidate(i).priority \in Nat
BY CandidateType DEF Segments, Priorities

\* There are finitely many of them, and they are numbered.
LEMMA CandidatesFinite ==
  ASSUME TypedCall(call) PROVE IsFiniteSet(Candidates) /\ Candidates \subseteq Nat
<1>1. call.segments \in Seq(Segments)
  BY DEF TypedCall
<1>2. CallerSegments = 1..Len(call.segments) /\ Len(call.segments) \in Nat
  BY <1>1 DEF CallerSegments
<1>3. Candidates \in SUBSET (1..3 + Len(call.segments))
  BY <1>2, SystemSegmentsAssumption DEF Candidates, SystemSegmentsAssumption
<1>4. IsFiniteSet(1..3 + Len(call.segments)) /\ 1..3 + Len(call.segments) \subseteq Nat
  BY <1>2, FS_Interval
<1>5. QED
  BY <1>3, <1>4, FS_Subset

\* The characters of some candidates are finitely many.
LEMMA CharactersFinite ==
  ASSUME TypedCall(call), NEW S \in SUBSET Candidates
  PROVE  IsFiniteSet(CharactersAt(S)) /\ Characters(S) \in Nat
<1> DEFINE at == [i \in S |-> {i} \X (1..Candidate(i).size)]
           parts == {{i} \X (1..Candidate(i).size) : i \in S}
<1>1. IsFiniteSet(S)
  BY CandidatesFinite, FS_Subset
<1>2. at \in Surjection(S, parts)
  BY DEF Surjection
<1>3. IsFiniteSet(parts)
  BY <1>1, <1>2, FS_Surjection
<1>4. ASSUME NEW p \in parts PROVE IsFiniteSet(p)
  <2>1. PICK i \in S : p = {i} \X (1..Candidate(i).size)
    BY DEF parts
  <2>2. Candidate(i).size \in Nat
    BY CandidateSize
  <2>3. IsFiniteSet(1..Candidate(i).size)
    BY <2>2, FS_Interval
  <2>4. IsFiniteSet({i})
    BY FS_Singleton
  <2>5. QED
    BY <2>1, <2>3, <2>4, FS_Product
<1>5. IsFiniteSet(UNION parts)
  BY <1>3, <1>4, FS_UNION
<1>6. QED
  BY <1>5, FS_CardinalityType DEF CharactersAt, Characters

\* Nothing has no characters.
LEMMA CharactersOfNothing == Characters({}) = 0
<1>1. CharactersAt({}) = {}
  BY DEF CharactersAt
<1>2. QED
  BY <1>1, FS_EmptySet DEF Characters

\* Of more there are no fewer.
LEMMA CharactersGrow ==
  ASSUME TypedCall(call), NEW S \in SUBSET Candidates, NEW T \in SUBSET S
  PROVE  Characters(T) <= Characters(S)
<1>1. CharactersAt(T) \in SUBSET CharactersAt(S)
  BY DEF CharactersAt
<1>2. QED
  BY <1>1, CharactersFinite, FS_Subset DEF Characters

\* One more candidate adds its size.
LEMMA CharactersAdd ==
  ASSUME TypedCall(call), NEW S \in SUBSET Candidates, NEW i \in Candidates \ S
  PROVE  Characters(S \cup {i}) = Characters(S) + Candidate(i).size
<1> DEFINE own == {i} \X (1..Candidate(i).size)
<1>1. CharactersAt(S \cup {i}) = CharactersAt(S) \cup own
  BY DEF CharactersAt
<1>2. CharactersAt(S) \cap own = {}
  BY DEF CharactersAt
<1>3. IsFiniteSet(own) /\ Cardinality(own) = Candidate(i).size
  <2>1. Candidate(i).size \in Nat \ {0}
    BY CandidateSize
  <2>2. IsFiniteSet(1..Candidate(i).size) /\ Cardinality(1..Candidate(i).size) = Candidate(i).size
    BY <2>1, FS_Interval
  <2>3. IsFiniteSet({i}) /\ Cardinality({i}) = 1
    BY FS_Singleton
  <2>4. IsFiniteSet(own) /\ Cardinality(own) = Cardinality({i}) * Cardinality(1..Candidate(i).size)
    BY <2>2, <2>3, FS_Product
  <2>5. QED
    BY <2>1, <2>2, <2>3, <2>4
<1>4. IsFiniteSet(CharactersAt(S)) /\ Characters(S) \in Nat
  BY CharactersFinite
<1>5. Cardinality(CharactersAt(S) \cup own)
        = Cardinality(CharactersAt(S)) + Cardinality(own) - Cardinality({})
  BY <1>2, <1>3, <1>4, FS_Union
<1>6. Cardinality({}) = 0 /\ Candidate(i).size \in Nat
  BY FS_EmptySet, CandidateSize
<1>7. Cardinality(CharactersAt(S) \cup own) = Characters(S) + Candidate(i).size
  BY <1>3, <1>4, <1>5, <1>6 DEF Characters
<1>8. QED
  BY <1>1, <1>7 DEF Characters
-----------------------------------------------------------------------------
(* The inductive invariant *)

\* The guards have been passed by everything the call has got past.
Guarded ==
  /\ pc = "context" => position = 1
  /\ pc \in {"segments", "fill", "built"} => ContextHolds
  /\ pc \in {"segments", "fill", "built"} =>
       \A k \in CallerSegments : k < position => SegmentHolds(call.segments[k])
  /\ pc \in {"fill", "built"} => \A k \in CallerSegments : k < position
  /\ pc \in {"context", "segments"} => pending = {} /\ selected = {} /\ dropped = {}

\* The room that is taken, and that whatever is required will take.
Reserved == selected \cup {i \in pending : Required(Candidate(i))}

\* The size is that of what is selected, and what is required finds room in whatever order the
\* rest is looked at.
Measured ==
  /\ used = Characters(selected)
  /\ pc \in {"fill", "built"} =>
       /\ Characters(Reserved) <= call.maximum_characters
       /\ pending \cup selected \cup dropped = Candidates
  /\ pc = "built" => pending = {}

\* What has been looked at comes before what has not, and what was dropped had no room beside
\* what is as important.
DroppedInOrder ==
  /\ \A i \in selected \cup dropped, j \in pending : Candidate(i).priority <= Candidate(j).priority
  /\ \A i \in dropped :
       /\ ~ Required(Candidate(i))
       /\ Characters({j \in selected : Candidate(j).priority <= Candidate(i).priority})
            + Candidate(i).size > call.maximum_characters

IInv == TypeOK /\ Guarded /\ Measured /\ DroppedInOrder

\* A call starts with nothing.
LEMMA InitHolds == Init => IInv
<1> SUFFICES ASSUME Init PROVE IInv
  OBVIOUS
<1>1. TypeOK /\ Guarded
  BY CallsAssumption DEF CallsAssumption, Init, TypeOK, Guarded
<1>2. Measured /\ DroppedInOrder
  BY CharactersOfNothing DEF Init, Measured, DroppedInOrder
<1>3. QED
  BY <1>1, <1>2 DEF IInv

\* The loop over the segments ends only behind the last of them.
LEMMA LoopEnd ==
  ASSUME TypedCall(call), position \in Nat \ {0}, position \notin CallerSegments
  PROVE  \A k \in CallerSegments : k < position
<1>1. call.segments \in Seq(Segments)
  BY DEF TypedCall
<1>2. CallerSegments = 1..Len(call.segments) /\ Len(call.segments) \in Nat
  BY <1>1 DEF CallerSegments
<1>3. QED
  BY <1>2

\* The operators that depend on the call alone stay with it.
LEMMA CallStays ==
  ASSUME UNCHANGED call
  PROVE  /\ ContextHolds' = ContextHolds
         /\ CallerSegments' = CallerSegments
         /\ Candidates' = Candidates
         /\ \A s : SegmentHolds(s)' = SegmentHolds(s)
BY DEF ContextHolds, CallerSegments, Candidates, SegmentHolds

\* So do the sizes of candidates.
LEMMA SizesStay ==
  ASSUME UNCHANGED call
  PROVE  /\ \A i : Candidate(i)' = Candidate(i)
         /\ \A S : Characters(S)' = Characters(S)
<1>1. \A i : Candidate(i)' = Candidate(i)
  BY DEF Candidate
<1>2. ASSUME NEW S PROVE CharactersAt(S)' = CharactersAt(S)
  BY <1>1 DEF CharactersAt
<1>3. QED
  BY <1>1, <1>2 DEF Characters

\* Whatever leaves the selection alone leaves its measure alone.
LEMMA SelectionStays ==
  ASSUME IInv, UNCHANGED <<call, pending, selected, dropped, used>>,
         pc' \in {"fill", "built"} => pc \in {"fill", "built"},
         pc' = "built" => pending = {}
  PROVE  Measured' /\ DroppedInOrder'
<1>1. Reserved' = Reserved
  BY SizesStay DEF Reserved, Required
<1>2. Measured'
  BY <1>1, CallStays, SizesStay DEF IInv, Measured
<1>3. QED
  BY <1>2, SizesStay DEF IInv, DroppedInOrder, Required

\* The context passes to the segments without an objection.
LEMMA ValidateContextKeeps == IInv /\ ValidateContext => IInv'
<1> SUFFICES ASSUME IInv, ValidateContext PROVE IInv'
  OBVIOUS
<1> USE DEF IInv, ValidateContext, Fail
<1>1. TypeOK'
  BY CallStays DEF TypeOK
<1>2. position' = 1 /\ (pc' = "segments" => ContextHolds) /\ pc' \in {"segments", "failed"}
  BY ContextGuard DEF Guarded
<1>3. \A k \in CallerSegments : ~ k < 1
  <2>1. call.segments \in Seq(Segments)
    BY DEF TypeOK, TypedCall
  <2>2. QED
    BY <2>1 DEF CallerSegments
<1>4. Guarded'
  BY <1>2, <1>3, CallStays DEF Guarded
<1>5. Measured' /\ DroppedInOrder'
  BY <1>2, SelectionStays
<1>6. QED
  BY <1>1, <1>4, <1>5

\* One more segment has passed, or the call has failed.
LEMMA ValidateSegmentKeeps == IInv /\ ValidateSegment => IInv'
<1> SUFFICES ASSUME IInv, ValidateSegment PROVE IInv'
  OBVIOUS
<1> USE DEF IInv, ValidateSegment, Fail
<1>1. TypeOK'
  BY CallStays DEF TypeOK
<1> Measured' /\ DroppedInOrder'
  <2>1. pc' \in {"segments", "failed"}
    OBVIOUS
  <2>2. QED
    BY <2>1, SelectionStays
<1>2. CASE SegmentObjection(call.segments[position]) = "none"
           /\ position' = position + 1 /\ UNCHANGED <<pc, code>>
  <2>1. call.segments \in Seq(Segments)
    BY DEF TypeOK, TypedCall
  <2>2. call.segments[position] \in Segments /\ CallerSegments \subseteq Nat
        /\ position \in Nat
    BY <2>1 DEF CallerSegments, TypeOK
  <2>3. SegmentHolds(call.segments[position])
    BY <1>2, <2>2, SegmentGuard DEF TypeOK
  <2>4. \A k \in CallerSegments : k < position + 1 => k < position \/ k = position
    <3>1. \A k, p \in Nat : k < p + 1 => k < p \/ k = p
      OBVIOUS
    <3>2. QED
      BY <2>2, <3>1
  <2>5. QED
    BY <1>1, <1>2, <2>3, <2>4, CallStays DEF Guarded
<1>3. CASE pc' = "failed"
  BY <1>1, <1>3 DEF Guarded
<1>4. QED
  BY <1>2, <1>3

\* The selection starts behind the last segment, with every candidate.
LEMMA StartSelectionKeeps == IInv /\ StartSelection => IInv'
<1> SUFFICES ASSUME IInv, StartSelection PROVE IInv'
  OBVIOUS
<1> USE DEF IInv, StartSelection, Fail
<1>1. \A k \in CallerSegments : k < position
  BY LoopEnd DEF TypeOK
<1>2. pending = {} /\ selected = {} /\ dropped = {}
  BY DEF Guarded
<1>3. pending' \in {{}, Candidates} /\ pc' \in {"fill", "failed"} /\ (pc' = "failed" <=> code' # "none")
  BY <1>2 DEF TypeOK
<1>4. TypeOK'
  BY <1>2, <1>3, CallStays DEF TypeOK
<1>5. Guarded'
  BY <1>1, <1>3, CallStays DEF Guarded
<1>6. Measured'
  <2>1. selected' = {} /\ used' = used /\ used = Characters(selected)
    BY <1>2 DEF Measured
  <2>2. used' = Characters(selected')
    BY <1>2, <2>1
  <2>3. CASE pc' = "failed"
    BY <2>2, <2>3, SizesStay DEF Measured
  <2>4. CASE pc' = "fill" /\ pending' = Candidates /\ RequiredCharacters <= call.maximum_characters
    <3>1. Reserved' = {i \in Candidates : Required(Candidate(i))}
      BY <1>2, <2>4, SizesStay DEF Reserved, Required
    <3>2. Characters(Reserved)' <= call.maximum_characters
      BY <2>4, <3>1, SizesStay DEF RequiredCharacters
    <3>3. (pending \cup selected \cup dropped = Candidates)'
      BY <1>2, <2>4, CallStays
    <3>4. QED
      BY <2>2, <2>4, <3>2, <3>3, SizesStay DEF Measured
  <2>5. QED
    BY <2>3, <2>4
<1>7. DroppedInOrder'
  BY <1>2, SizesStay DEF DroppedInOrder
<1>8. QED
  BY <1>4, <1>5, <1>6, <1>7

\* What is next is as important as anything that is left.
LEMMA NextIsMostImportant ==
  ASSUME IInv, NEW i \in pending, IsNext(i)
  PROVE  /\ i \in Candidates /\ i \notin selected \cup dropped
         /\ Candidate(i).size \in Nat /\ Candidate(i).priority \in Nat
         /\ \A j \in pending : Candidate(i).priority <= Candidate(j).priority
<1>1. TypedCall(call) /\ pending \subseteq Candidates /\ i \notin selected \cup dropped
  BY DEF IInv, TypeOK
<1>2. \A j \in pending : Candidate(j).size \in Nat /\ Candidate(j).priority \in Nat
  BY <1>1, CandidateSize
<1>3. ASSUME NEW j \in pending PROVE Candidate(i).priority <= Candidate(j).priority
  BY <1>2 DEF IsNext, Precedes
<1>4. QED
  BY <1>1, <1>2, <1>3

\* Keeping a candidate moves it and adds its size: a required one takes room that was reserved,
\* an optional one is looked at when nothing required is left, and finds room.
LEMMA KeepKeeps == ASSUME NEW i \in pending PROVE IInv /\ Keep(i) => IInv'
<1> SUFFICES ASSUME IInv, Keep(i) PROVE IInv'
  OBVIOUS
<1> USE DEF Keep
<1>1. /\ i \in Candidates /\ i \notin selected \cup dropped
      /\ Candidate(i).size \in Nat /\ Candidate(i).priority \in Nat
      /\ \A j \in pending : Candidate(i).priority <= Candidate(j).priority
  BY NextIsMostImportant
<1>2. /\ TypedCall(call) /\ used \in Nat /\ pc = "fill" /\ pc' = "fill"
      /\ selected \in SUBSET Candidates /\ i \in Candidates \ selected
  BY <1>1 DEF IInv, TypeOK
<1>3. TypeOK'
  <2>1. used' \in Nat
    BY <1>1, <1>2
  <2>2. QED
    BY <2>1, CallStays DEF IInv, TypeOK
<1>4. Guarded'
  BY CallStays DEF IInv, Guarded
<1>5. Measured'
  <2>1. Characters(selected \cup {i}) = Characters(selected) + Candidate(i).size
    BY <1>2, CharactersAdd
  <2>2. used' = Characters(selected \cup {i})
    BY <2>1 DEF IInv, Measured
  <2>3. Characters(selected \cup {i} \cup {j \in pending \ {i} : Required(Candidate(j))})
          <= call.maximum_characters
    <3>1. CASE Required(Candidate(i))
      <4>1. selected \cup {i} \cup {j \in pending \ {i} : Required(Candidate(j))} = Reserved
        BY <3>1 DEF Reserved
      <4>2. QED
        BY <1>2, <4>1 DEF IInv, Measured
    <3>2. CASE ~ Required(Candidate(i))
      <4>1. \A j \in pending : Candidate(j).priority \in Nat
        BY <1>2, CandidateSize DEF IInv, TypeOK
      <4>2. \A j \in pending : ~ Required(Candidate(j))
        BY <1>1, <3>2, <4>1 DEF Required, RequiredUpTo
      <4>3. selected \cup {i} \cup {j \in pending \ {i} : Required(Candidate(j))}
              = selected \cup {i}
        BY <4>2
      <4>4. used' <= call.maximum_characters
        BY <3>2 DEF Room
      <4>5. QED
        BY <2>2, <4>3, <4>4
    <3>3. QED
      BY <3>1, <3>2
  <2>4. Reserved' = selected \cup {i} \cup {j \in pending \ {i} : Required(Candidate(j))}
    BY SizesStay DEF Reserved, Required
  <2>5. Characters(Reserved)' <= call.maximum_characters
    BY <2>3, <2>4, SizesStay
  <2>6. used' = Characters(selected)'
    BY <2>2, SizesStay
  <2>7. (pending \cup selected \cup dropped = Candidates)'
    BY <1>1, <1>2, CallStays DEF IInv, Measured
  <2>8. QED
    BY <1>2, <2>5, <2>6, <2>7 DEF Measured
<1>6. DroppedInOrder'
  <2>1. \A k \in selected' \cup dropped', j \in pending' :
          Candidate(k).priority <= Candidate(j).priority
    BY <1>1 DEF IInv, DroppedInOrder
  <2>2. ASSUME NEW k \in dropped
        PROVE  /\ ~ Required(Candidate(k))
               /\ Characters({j \in selected' : Candidate(j).priority <= Candidate(k).priority})
                    + Candidate(k).size > call.maximum_characters
    <3> DEFINE before == {j \in selected : Candidate(j).priority <= Candidate(k).priority}
               after == {j \in selected' : Candidate(j).priority <= Candidate(k).priority}
    <3>1. before \in SUBSET after /\ after \in SUBSET Candidates /\ before \in SUBSET Candidates
      BY <1>2
    <3>2. Characters(before) <= Characters(after)
      BY <1>2, <3>1, CharactersGrow
    <3>3. Characters(before) \in Nat /\ Characters(after) \in Nat
      BY <1>2, <3>1, CharactersFinite
    <3>4. Candidate(k).size \in Nat /\ call.maximum_characters \in Nat
      BY <1>2, CandidateSize DEF IInv, TypeOK, TypedCall
    <3>5. ~ Required(Candidate(k))
          /\ Characters(before) + Candidate(k).size > call.maximum_characters
      BY DEF IInv, DroppedInOrder
    <3> HIDE DEF before, after
    <3>6. Characters(after) + Candidate(k).size > call.maximum_characters
      BY <3>2, <3>3, <3>4, <3>5
    <3>7. QED
      BY <3>5, <3>6 DEF after
  <2>3. QED
    BY <2>1, <2>2, SizesStay DEF DroppedInOrder, Required
<1>7. QED
  BY <1>3, <1>4, <1>5, <1>6 DEF IInv

\* Dropping one moves it, without the size: it is optional, everything selected is as important,
\* and there is no room beside it.
LEMMA DropKeeps == ASSUME NEW i \in pending PROVE IInv /\ Drop(i) => IInv'
<1> SUFFICES ASSUME IInv, Drop(i) PROVE IInv'
  OBVIOUS
<1> USE DEF Drop
<1>1. /\ i \in Candidates /\ i \notin selected \cup dropped
      /\ Candidate(i).size \in Nat /\ Candidate(i).priority \in Nat
      /\ \A j \in pending : Candidate(i).priority <= Candidate(j).priority
  BY NextIsMostImportant
<1>2. TypeOK'
  BY CallStays DEF IInv, TypeOK
<1>3. Guarded'
  BY CallStays DEF IInv, Guarded
<1>4. Measured'
  <2>1. Reserved' = Reserved
    BY SizesStay DEF Reserved, Required
  <2>2. Characters(Reserved)' <= call.maximum_characters
    BY <2>1, SizesStay DEF IInv, Measured
  <2>3. used' = Characters(selected)'
    BY SizesStay DEF IInv, Measured
  <2>4. (pending \cup selected \cup dropped = Candidates)'
    BY <1>1, CallStays DEF IInv, Measured
  <2>5. QED
    BY <2>2, <2>3, <2>4 DEF Measured
<1>5. DroppedInOrder'
  <2>1. \A k \in selected \cup dropped', j \in pending' :
          Candidate(k).priority <= Candidate(j).priority
    BY <1>1 DEF IInv, DroppedInOrder
  <2>2. {j \in selected : Candidate(j).priority <= Candidate(i).priority} = selected
    BY DEF IInv, DroppedInOrder
  <2>3. Characters({j \in selected : Candidate(j).priority <= Candidate(i).priority})
          + Candidate(i).size > call.maximum_characters
    <3>1. call.maximum_characters \in Nat /\ used \in Nat /\ used = Characters(selected)
      BY DEF IInv, TypeOK, TypedCall, Measured
    <3>2. used + Candidate(i).size > call.maximum_characters
      BY <1>1, <3>1 DEF Room
    <3>3. QED
      BY <2>2, <3>1, <3>2
  <2>4. \A k \in dropped' :
          /\ ~ Required(Candidate(k))
          /\ Characters({j \in selected : Candidate(j).priority <= Candidate(k).priority})
               + Candidate(k).size > call.maximum_characters
    BY <2>3 DEF IInv, DroppedInOrder
  <2>5. QED
    BY <2>1, <2>4, SizesStay DEF DroppedInOrder, Required
<1>6. QED
  BY <1>2, <1>3, <1>4, <1>5 DEF IInv

\* The bundle is built or refused.
LEMMA BundleKeeps == IInv /\ Bundle => IInv'
<1> SUFFICES ASSUME IInv, Bundle PROVE IInv'
  OBVIOUS
<1>1. TypeOK'
  BY CallStays DEF IInv, Bundle, Fail, TypeOK
<1>2. Guarded'
  BY CallStays DEF IInv, Bundle, Fail, Guarded
<1>3. Measured' /\ DroppedInOrder'
  BY SelectionStays DEF Bundle, Fail
<1>4. QED
  BY <1>1, <1>2, <1>3 DEF IInv

\* Nothing changes when nothing does.
LEMMA StutterKeeps == IInv /\ UNCHANGED vars => IInv'
<1> SUFFICES ASSUME IInv, UNCHANGED vars PROVE IInv'
  OBVIOUS
<1>1. TypeOK' /\ Guarded'
  BY CallStays DEF IInv, vars, TypeOK, Guarded
<1>2. Measured' /\ DroppedInOrder'
  BY SelectionStays DEF IInv, Measured, vars
<1>3. QED
  BY <1>1, <1>2 DEF IInv

\* Every step keeps the invariant.
LEMMA NextKeeps == IInv /\ [Next]_vars => IInv'
<1> SUFFICES ASSUME IInv, [Next]_vars PROVE IInv'
  OBVIOUS
<1>1. CASE ValidateContext
  BY <1>1, ValidateContextKeeps
<1>2. CASE ValidateSegment
  BY <1>2, ValidateSegmentKeeps
<1>3. CASE StartSelection
  BY <1>3, StartSelectionKeeps
<1>4. CASE \E i \in pending : Keep(i) \/ Drop(i)
  BY <1>4, KeepKeeps, DropKeeps
<1>5. CASE Bundle
  BY <1>5, BundleKeeps
<1>6. CASE UNCHANGED vars
  BY <1>6, StutterKeeps
<1>7. QED
  BY <1>1, <1>2, <1>3, <1>4, <1>5, <1>6 DEF Next
-----------------------------------------------------------------------------
(* Theorems *)

\* The invariant holds of every call.
THEOREM Invariant == Spec => []IInv
<1>1. Init => IInv
  BY InitHolds
<1>2. IInv /\ [Next]_vars => IInv'
  BY NextKeeps
<1>3. QED
  BY <1>1, <1>2, PTL DEF Spec

\* Candidates are pending, selected or dropped, never two of these, and a call has failed exactly
\* when it has a code (the type invariant).
THEOREM TypeCorrect == Spec => []TypeOK
<1>1. IInv => TypeOK
  BY DEF IInv
<1>2. QED
  BY <1>1, Invariant, PTL

\* Whatever the caller added to a context that was built has passed the guard.
LEMMA SelectedHold ==
  ASSUME IInv, pc = "built", NEW i \in selected \ DOMAIN SystemSegments
  PROVE  SegmentHolds(Candidate(i))
<1>1. i \in Candidates
  BY DEF IInv, TypeOK
<1>2. PICK k \in CallerSegments : i = 3 + k
  BY <1>1 DEF Candidates
<1>3. k \in Nat \ {0}
  <2>1. call.segments \in Seq(Segments)
    BY DEF IInv, TypeOK, TypedCall
  <2>2. QED
    BY <2>1 DEF CallerSegments
<1>4. Candidate(i) = call.segments[k]
  BY <1>2, <1>3 DEF Candidate
<1>5. QED
  BY <1>2, <1>4 DEF IInv, Guarded

\* The execution context of a context that was built is within the boundary in every respect, and
\* every segment the caller added is within what was asked for and what the execution context
\* allows, its tools within the boundary's.
THEOREM AuthorityIsKept == Spec => []AuthorityKept
<1>1. ASSUME IInv, pc = "built",
             NEW i \in selected \ DOMAIN SystemSegments
      PROVE  SegmentHolds(Candidate(i))
  BY <1>1, SelectedHold
<1>2. ASSUME IInv, pc = "built" PROVE ContextHolds
  BY <1>2 DEF IInv, Guarded
<1>3. IInv => AuthorityKept
  BY <1>1, <1>2 DEF AuthorityKept, SegmentHolds, ContextHolds
<1>4. QED
  BY <1>3, Invariant, PTL

\* A context that was built holds all that is required and no more characters than allowed.
THEOREM TheSelectionFits == Spec => []SelectionFits
<1>1. ASSUME IInv, pc = "built" PROVE SelectionFits
  <2>1. /\ TypedCall(call) /\ pending = {} /\ selected \in SUBSET Candidates
        /\ used = Characters(selected)
        /\ Characters(Reserved) <= call.maximum_characters
        /\ selected \cup dropped = Candidates
    BY <1>1 DEF IInv, TypeOK, Measured
  <2>2. Reserved = selected
    BY <2>1 DEF Reserved
  <2>3. {i \in Candidates : Required(Candidate(i))} \subseteq selected
    BY <1>1, <2>1 DEF IInv, DroppedInOrder
  <2>4. QED
    BY <2>1, <2>2, <2>3 DEF SelectionFits
<1>2. IInv => SelectionFits
  BY <1>1 DEF SelectionFits
<1>3. QED
  BY <1>2, Invariant, PTL

\* A segment is left out of a context only because what is as important leaves no room for it.
THEOREM DroppingIsForRoom == Spec => []DroppedForRoom
<1>1. ASSUME IInv, pc = "built", NEW i \in dropped
      PROVE  used + Candidate(i).size > call.maximum_characters
  <2> DEFINE before == {j \in selected : Candidate(j).priority <= Candidate(i).priority}
  <2>1. /\ TypedCall(call) /\ selected \in SUBSET Candidates /\ before \in SUBSET selected
        /\ i \in Candidates /\ used = Characters(selected)
    BY <1>1 DEF IInv, TypeOK, Measured
  <2>2. Characters(before) <= used /\ Characters(before) \in Nat /\ used \in Nat
    BY <2>1, CharactersGrow, CharactersFinite
  <2>3. Candidate(i).size \in Nat /\ call.maximum_characters \in Nat
    BY <2>1, CandidateSize DEF TypedCall
  <2>4. Characters(before) + Candidate(i).size > call.maximum_characters
    BY <1>1 DEF IInv, DroppedInOrder
  <2> HIDE DEF before
  <2>5. QED
    BY <2>2, <2>3, <2>4
<1>2. ASSUME IInv, pc = "built" PROVE DroppedForRoom
  <2>1. selected \cup dropped = Candidates
    BY <1>2 DEF IInv, Measured
  <2>2. QED
    BY <1>1, <1>2, <2>1 DEF IInv, DroppedInOrder, DroppedForRoom
<1>3. IInv => DroppedForRoom
  BY <1>2 DEF DroppedForRoom
<1>4. QED
  BY <1>3, Invariant, PTL
-----------------------------------------------------------------------------
(* Ranking a bundle *)

EvidenceItems == [evidence_id : EvidenceIds, words : SUBSET Words]

\* A bundle is its owner, its items and its references, the last two in some order.
IsBundle(bundle) ==
  /\ bundle = [identity |-> bundle.identity, correlation_id |-> bundle.correlation_id,
               items |-> bundle.items, evidence_refs |-> bundle.evidence_refs]
  /\ \E n \in Nat : bundle.items \in [1..n -> EvidenceItems]
  /\ \E n \in Nat : bundle.evidence_refs \in [1..n -> EvidenceReferences]

\* An item matches a query by a number of terms.
LEMMA ScoreIsNumber ==
  ASSUME NEW query \in Queries, NEW item PROVE Score(item, query) \in Nat
<1>1. query.terms \cap item.words \in SUBSET query.terms /\ IsFiniteSet(query.terms)
  BY QueriesAssumption DEF QueriesAssumption
<1>2. QED
  BY <1>1, FS_Subset, FS_CardinalityType DEF Score

\* The cut is a number.
LEMMA MaximumIsNumber ==
  ASSUME NEW query \in Queries PROVE query.max_items \in Nat /\ query.max_items >= 1
<1>1. query.max_items \in 1..50
  BY QueriesAssumption DEF QueriesAssumption
<1>2. \A maximum \in 1..50 : maximum \in Nat /\ maximum >= 1
  OBVIOUS
<1>3. QED
  BY <1>1, <1>2

\* The places of a list that is cut off.
LEMMA CutOff ==
  ASSUME NEW n \in Nat, NEW maximum \in Nat
  PROVE  /\ maximum < n => {k \in 1..n : k <= maximum} = 1..maximum /\ maximum \in 0..n
         /\ n <= maximum => {k \in 1..n : k <= maximum} = 1..n
OBVIOUS

\* Items come by falling score, and none is missing before the cut.
LEMMA RankedItems ==
  ASSUME NEW n \in Nat, NEW items \in [1..n -> EvidenceItems], NEW query \in Queries
  PROVE  \E m \in 0..n, place \in [1..n -> 1..n] :
           /\ Ranked(items, query) = [k \in 1..m |-> items[place[k]]]
           /\ m = n \/ m = query.max_items
           /\ m <= query.max_items
           /\ \A i \in 1..n : \E k \in 1..n : place[k] = i
           /\ \A k, l \in 1..n :
                k < l => Score(items[place[k]], query) >= Score(items[place[l]], query)
<1> DEFINE before == BetterFirst(items, query)
           place == InOrder(1..n, before)
           m == IF n <= query.max_items THEN n ELSE query.max_items
<1>1. query.max_items \in Nat
  BY MaximumIsNumber
<1>2. DOMAIN items = 1..n /\ IsFiniteSet(1..n) /\ Cardinality(1..n) = n
  BY FS_Interval
<1>3. \A i \in 1..n : Score(items[i], query) \in Nat
  BY ScoreIsNumber
<1>4. \A i, j \in 1..n : <<i, j>> \in before <=>
        \/ Score(items[i], query) > Score(items[j], query)
        \/ Score(items[i], query) = Score(items[j], query) /\ i < j
  BY <1>2 DEF BetterFirst
<1>5. IsOrder(1..n, before)
  <2> HIDE DEF before
  <2>1. \A i \in 1..n : <<i, i>> \notin before
    BY <1>3, <1>4
  <2>2. \A i, j \in 1..n : i # j => <<i, j>> \in before \/ <<j, i>> \in before
    BY <1>3, <1>4
  <2>3. \A i, j, k \in 1..n :
          <<i, j>> \in before /\ <<j, k>> \in before => <<i, k>> \in before
    BY <1>3, <1>4
  <2>4. QED
    BY <2>1, <2>2, <2>3 DEF IsOrder
<1>6. /\ place \in [1..n -> 1..n]
      /\ \A i \in 1..n : \E k \in 1..n : place[k] = i
      /\ \A k, l \in 1..n : k < l <=> <<place[k], place[l]>> \in before
  <2> HIDE DEF before
  <2>1. /\ place \in [1..Cardinality(1..n) -> 1..n]
        /\ \A i \in 1..n : \E k \in 1..Cardinality(1..n) : place[k] = i
        /\ \A k, l \in 1..Cardinality(1..n) : k < l <=> <<place[k], place[l]>> \in before
    BY <1>2, <1>5, InOrderSorts
  <2> HIDE DEF place
  <2>2. QED
    BY <1>2, <2>1
<1>7. /\ m \in 0..n /\ (m = n \/ m = query.max_items) /\ m <= query.max_items
      /\ {k \in 1..n : k <= query.max_items} = 1..m
  <2>1. CASE n <= query.max_items
    BY <1>1, <2>1, CutOff
  <2>2. CASE ~ n <= query.max_items
    <3>1. query.max_items < n
      BY <1>1, <2>2
    <3>2. QED
      BY <1>1, <2>2, <3>1, CutOff
  <2>3. QED
    BY <2>1, <2>2
<1>8. Ranked(items, query) = [k \in 1..m |-> items[place[k]]]
  <2>1. DOMAIN place = 1..n
    BY <1>6
  <2>2. {k \in DOMAIN place : k <= query.max_items} = 1..m
    BY <1>7, <2>1
  <2>3. QED
    BY <1>2, <2>2 DEF Ranked
<1>9. ASSUME NEW k \in 1..n, NEW l \in 1..n, k < l
      PROVE  Score(items[place[k]], query) >= Score(items[place[l]], query)
  <2>1. place[k] \in 1..n /\ place[l] \in 1..n /\ <<place[k], place[l]>> \in before
    BY <1>6, <1>9
  <2> HIDE DEF place, before
  <2>2. ASSUME NEW i \in 1..n, NEW j \in 1..n, <<i, j>> \in before
        PROVE  Score(items[i], query) >= Score(items[j], query)
    <3>1. Score(items[i], query) \in Nat /\ Score(items[j], query) \in Nat
      BY <1>3
    <3>2. Score(items[i], query) > Score(items[j], query)
          \/ Score(items[i], query) = Score(items[j], query)
      BY <1>4, <2>2
    <3>3. QED
      BY <3>1, <3>2
  <2>3. QED
    BY <2>1, <2>2
<1> HIDE DEF m, place
<1>10. QED
  BY <1>6, <1>8, <1>9, <1>7

\* Items that come by falling score and are not too many stay as they are.
LEMMA RankedStay ==
  ASSUME NEW n \in Nat, NEW items \in [1..n -> EvidenceItems], NEW query \in Queries,
         n <= query.max_items,
         \A k, l \in 1..n : k < l => Score(items[k], query) >= Score(items[l], query)
  PROVE  Ranked(items, query) = items
<1> DEFINE before == BetterFirst(items, query)
           place == InOrder(1..n, before)
<1>1. DOMAIN items = 1..n
  OBVIOUS
<1>2. \A i \in 1..n : Score(items[i], query) \in Nat
  BY ScoreIsNumber
<1>3. \A i, j \in 1..n : <<i, j>> \in before <=>
        \/ Score(items[i], query) > Score(items[j], query)
        \/ Score(items[i], query) = Score(items[j], query) /\ i < j
  BY <1>1 DEF BetterFirst
<1>4. ASSUME NEW i \in 1..n, NEW j \in 1..n PROVE <<i, j>> \in before <=> i < j
  <2> DEFINE si == Score(items[i], query)  sj == Score(items[j], query)
  <2>1. si \in Nat /\ sj \in Nat
    BY <1>2
  <2>2. <<i, j>> \in before <=> si > sj \/ (si = sj /\ i < j)
    BY <1>3
  <2>3. /\ i < j => si >= sj
        /\ j < i => sj >= si
    OBVIOUS
  <2>4. i = j => si = sj
    OBVIOUS
  <2> HIDE DEF si, sj, before
  <2>5. QED
    BY <2>1, <2>2, <2>3, <2>4
<1>5. place = [k \in 1..n |-> k]
  <2> HIDE DEF before
  <2>1. QED
    BY <1>4, NumbersInOrder
<1>6. {k \in DOMAIN place : k <= query.max_items} = 1..n
  <2>1. query.max_items \in Nat
    BY MaximumIsNumber
  <2>2. DOMAIN place = 1..n
    BY <1>5
  <2> HIDE DEF place
  <2>3. {k \in 1..n : k <= query.max_items} = 1..n
    BY <2>1, CutOff
  <2>4. QED
    BY <2>2, <2>3
<1>7. Ranked(items, query) = [k \in 1..n |-> items[place[k]]]
  BY <1>1, <1>6 DEF Ranked
<1>8. \A k \in 1..n : items[place[k]] = items[k]
  <2> HIDE DEF place
  <2>1. QED
    BY <1>5
<1>9. [k \in 1..n |-> items[place[k]]] = [k \in 1..n |-> items[k]]
  <2> HIDE DEF place
  <2>1. QED
    BY <1>8
<1>10. QED
  BY <1>7, <1>9

\* The references with these ids are those at the places, which ascend.
Kept(place, n, refs, ids) ==
  /\ ReferencesOf(ids, refs) = [k \in 1..Len(place) |-> refs[place[k]]]
  /\ \A k, l \in 1..Len(place) : k < l <=> place[k] < place[l]
  /\ \A i \in 1..n : refs[i].evidence_id \in ids <=> \E k \in 1..Len(place) : place[k] = i

\* The references with these ids are kept, in their order.
LEMMA ReferencesKept ==
  ASSUME NEW n \in Nat, NEW refs \in [1..n -> EvidenceReferences], NEW ids
  PROVE  \E place \in Seq(1..n) : Kept(place, n, refs, ids)
<1> DEFINE kept == {i \in 1..n : refs[i].evidence_id \in ids}
           place == InOrder(kept, AscendingOrder(kept))
           m == Cardinality(kept)
<1>1. IsFiniteSet(kept) /\ kept \in SUBSET Nat
  <2>1. IsFiniteSet(1..n) /\ kept \in SUBSET (1..n)
    BY FS_Interval
  <2>2. QED
    BY <2>1, FS_Subset
<1>2. /\ m \in Nat /\ place \in [1..m -> kept]
      /\ \A i \in kept : \E k \in 1..m : place[k] = i
      /\ \A k, l \in 1..m : k < l <=> <<place[k], place[l]>> \in AscendingOrder(kept)
  <2>1. IsOrder(kept, AscendingOrder(kept))
    BY <1>1, AscendingIsOrder
  <2> HIDE DEF kept
  <2>2. QED
    BY <1>1, <2>1, InOrderSorts
<1>3. ReferencesOf(ids, refs) = [k \in 1..m |-> refs[place[k]]]
  <2>1. DOMAIN refs = 1..n
    OBVIOUS
  <2>2. DOMAIN place = 1..m
    BY <1>2
  <2>3. QED
    BY <2>1, <2>2 DEF ReferencesOf
<1>4. \A k, l \in 1..m : k < l <=> place[k] < place[l]
  <2> HIDE DEF kept, place, m
  <2>1. QED
    BY <1>2 DEF AscendingOrder
<1>5. place \in [1..m -> 1..n]
  <2> HIDE DEF place, m
  <2>1. QED
    BY <1>2
<1>6. \A i \in 1..n : refs[i].evidence_id \in ids <=> \E k \in 1..m : place[k] = i
  <2> HIDE DEF place, m
  <2>1. \A i \in 1..n : refs[i].evidence_id \in ids <=> i \in kept
    OBVIOUS
  <2> HIDE DEF kept
  <2>2. QED
    BY <1>2, <2>1
<1>7. place \in Seq(1..n) /\ Len(place) = m
  <2> HIDE DEF place, m
  <2>1. QED
    BY <1>2, <1>5
<1> HIDE DEF place, m
<1>8. Kept(place, n, refs, ids)
  BY <1>3, <1>4, <1>6, <1>7 DEF Kept
<1>9. QED
  BY <1>7, <1>8

\* References all of which have these ids stay as they are.
LEMMA ReferencesStay ==
  ASSUME NEW n \in Nat, NEW refs \in [1..n -> EvidenceReferences], NEW ids,
         \A k \in 1..n : refs[k].evidence_id \in ids
  PROVE  ReferencesOf(ids, refs) = refs
<1> DEFINE place == InOrder(1..n, AscendingOrder(1..n))
<1>1. {i \in DOMAIN refs : refs[i].evidence_id \in ids} = 1..n
  OBVIOUS
<1>2. place = [k \in 1..n |-> k]
  <2>1. \A i, j \in 1..n : <<i, j>> \in AscendingOrder(1..n) <=> i < j
    BY DEF AscendingOrder
  <2>2. QED
    BY <2>1, NumbersInOrder
<1>3. ReferencesOf(ids, refs) = [k \in DOMAIN place |-> refs[place[k]]]
  BY <1>1 DEF ReferencesOf
<1>4. [k \in DOMAIN place |-> refs[place[k]]] = [k \in 1..n |-> refs[k]]
  <2> HIDE DEF place
  <2>1. QED
    BY <1>2
<1>5. QED
  BY <1>3, <1>4

\* What ranking does to a bundle whose items and references have the same ids.
LEMMA RankShape ==
  ASSUME NEW bundle, IsBundle(bundle), NEW query
  PROVE  /\ Rank(bundle, query).items = Ranked(bundle.items, query)
         /\ Rank(bundle, query).evidence_refs
              = ReferencesOf(IdsOf(Ranked(bundle.items, query)), bundle.evidence_refs)
         /\ Rank(bundle, query)
              = [identity |-> bundle.identity, correlation_id |-> bundle.correlation_id,
                 items |-> Rank(bundle, query).items,
                 evidence_refs |-> Rank(bundle, query).evidence_refs]
<1> DEFINE new == Ranked(bundle.items, query)
           kept == ReferencesOf(IdsOf(new), bundle.evidence_refs)
<1>1. ASSUME NEW o, NEW c, NEW i, NEW e, NEW i1, NEW e1
      PROVE  [[identity |-> o, correlation_id |-> c, items |-> i, evidence_refs |-> e]
                EXCEPT !.items = i1, !.evidence_refs = e1]
               = [identity |-> o, correlation_id |-> c, items |-> i1, evidence_refs |-> e1]
  <2>1. [[identity |-> o, correlation_id |-> c, items |-> i, evidence_refs |-> e]
           EXCEPT !.items = i1]
          = [identity |-> o, correlation_id |-> c, items |-> i1, evidence_refs |-> e]
    OBVIOUS
  <2>2. [[identity |-> o, correlation_id |-> c, items |-> i1, evidence_refs |-> e]
           EXCEPT !.evidence_refs = e1]
          = [identity |-> o, correlation_id |-> c, items |-> i1, evidence_refs |-> e1]
    OBVIOUS
  <2>3. QED
    BY <2>1, <2>2
<1>2. Rank(bundle, query) = [bundle EXCEPT !.items = new, !.evidence_refs = kept]
  BY DEF Rank
<1>3. bundle = [identity |-> bundle.identity, correlation_id |-> bundle.correlation_id,
                items |-> bundle.items, evidence_refs |-> bundle.evidence_refs]
  BY DEF IsBundle
<1> HIDE DEF new, kept
<1>4. Rank(bundle, query)
        = [identity |-> bundle.identity, correlation_id |-> bundle.correlation_id,
           items |-> new, evidence_refs |-> kept]
  BY <1>1, <1>2, <1>3
<1>5. Rank(bundle, query).items = new /\ Rank(bundle, query).evidence_refs = kept
  BY <1>4
<1>6. QED
  BY <1>4, <1>5 DEF new, kept

\* Ranking loses no lineage, whatever is asked for.
LEMMA RankingKeeps ==
  ASSUME NEW bundle, IsBundle(bundle), IdsOf(bundle.items) = IdsOf(bundle.evidence_refs)
  PROVE  RankingKeepsLineage(bundle)
<1> SUFFICES
      ASSUME NEW query \in Queries
      PROVE  LET ranked == Rank(bundle, query) IN
             /\ IdsOf(ranked.items) = IdsOf(ranked.evidence_refs)
             /\ \A id \in IdsOf(ranked.items) : Resolved(ranked, id) = Resolved(bundle, id)
             /\ \A item \in ToSet(bundle.items) \ ToSet(ranked.items),
                   kept \in ToSet(ranked.items) : Score(item, query) <= Score(kept, query)
             /\ bundle.evidence_refs # <<>> => ranked.evidence_refs # <<>>
             /\ Rank(ranked, query) = ranked
  BY DEF RankingKeepsLineage
<1> DEFINE items == bundle.items  refs == bundle.evidence_refs
           ranked == Rank(bundle, query)  ids == IdsOf(ranked.items)
<1>1. PICK n \in Nat : items \in [1..n -> EvidenceItems]
  BY DEF IsBundle
<1>2. PICK r \in Nat : refs \in [1..r -> EvidenceReferences]
  BY DEF IsBundle
<1>3. PICK m \in 0..n, place \in [1..n -> 1..n] :
        /\ Ranked(items, query) = [k \in 1..m |-> items[place[k]]]
        /\ m = n \/ m = query.max_items
        /\ m <= query.max_items
        /\ \A i \in 1..n : \E k \in 1..n : place[k] = i
        /\ \A k, l \in 1..n :
             k < l => Score(items[place[k]], query) >= Score(items[place[l]], query)
  <2> HIDE DEF items
  <2>1. QED
    BY <1>1, RankedItems
<1>4. ranked.items = [k \in 1..m |-> items[place[k]]]
  BY <1>3, RankShape
<1>5. ranked.evidence_refs = ReferencesOf(ids, refs)
  BY RankShape
<1>6. PICK at \in Seq(1..r) : Kept(at, r, refs, ids)
  BY <1>2, ReferencesKept
<1> DEFINE p == Len(at)
<1>7. /\ p \in Nat /\ at \in [1..p -> 1..r]
      /\ ReferencesOf(ids, refs) = [k \in 1..p |-> refs[at[k]]]
      /\ \A k, l \in 1..p : k < l <=> at[k] < at[l]
      /\ \A i \in 1..r : refs[i].evidence_id \in ids <=> \E k \in 1..p : at[k] = i
  BY <1>6 DEF Kept
<1> HIDE DEF p
<1>8. ranked.evidence_refs = [k \in 1..p |-> refs[at[k]]]
  BY <1>5, <1>7
<1>9. IdsOf(items) = {items[i].evidence_id : i \in 1..n}
      /\ IdsOf(refs) = {refs[i].evidence_id : i \in 1..r}
      /\ IdsOf(items) = IdsOf(refs)
  BY <1>1, <1>2 DEF IdsOf
<1>10. ids = {items[place[k]].evidence_id : k \in 1..m}
       /\ IdsOf(ranked.evidence_refs) = {refs[at[k]].evidence_id : k \in 1..p}
  <2>1. IdsOf([k \in 1..m |-> items[place[k]]]) = {items[place[k]].evidence_id : k \in 1..m}
    BY DEF IdsOf
  <2>2. IdsOf([k \in 1..p |-> refs[at[k]]]) = {refs[at[k]].evidence_id : k \in 1..p}
    BY DEF IdsOf
  <2> HIDE DEF ranked, items, refs
  <2>3. QED
    BY <1>4, <1>8, <2>1, <2>2
<1>11. 1..m \subseteq 1..n
  OBVIOUS
<1>12. \A k \in 1..p : at[k] \in 1..r
  BY <1>7
<1> HIDE DEF items, refs, ranked, ids
<1>13. ids = IdsOf(ranked.evidence_refs)
  <2>1. ASSUME NEW id \in ids PROVE id \in IdsOf(ranked.evidence_refs)
    <3>1. id \in IdsOf(refs)
      <4>1. PICK k \in 1..m : id = items[place[k]].evidence_id
        BY <1>10
      <4>2. place[k] \in 1..n
        BY <1>3, <1>11
      <4>3. QED
        BY <1>9, <4>1, <4>2
    <3>2. PICK i \in 1..r : refs[i].evidence_id = id
      BY <1>9, <3>1
    <3>3. PICK k \in 1..p : at[k] = i
      BY <1>7, <3>2
    <3>4. QED
      BY <1>10, <3>2, <3>3
  <2>2. ASSUME NEW k \in 1..p PROVE refs[at[k]].evidence_id \in ids
    BY <1>7, <1>12
  <2>3. QED
    BY <1>10, <2>1, <2>2
<1>14. ASSUME NEW id \in ids PROVE Resolved(ranked, id) = Resolved(bundle, id)
  <2> DEFINE LastKept(i) == /\ i \in 1..r /\ refs[i].evidence_id = id
                            /\ \A k \in 1..r : refs[k].evidence_id = id => k <= i
             LastRanked(i) == /\ i \in 1..p /\ refs[at[i]].evidence_id = id
                              /\ \A k \in 1..p : refs[at[k]].evidence_id = id => k <= i
  <2>1. Resolved(bundle, id) = {refs[i] : i \in {j \in 1..r : LastKept(j)}}
    <3>1. DOMAIN refs = 1..r
      BY <1>2
    <3>2. QED
      BY <3>1 DEF Resolved, refs
  <2>2. Resolved(ranked, id) = {refs[at[i]] : i \in {j \in 1..p : LastRanked(j)}}
    <3> DEFINE new == [k \in 1..p |-> refs[at[k]]]
    <3>1. Resolved(ranked, id)
            = {new[i] : i \in {j \in DOMAIN new : new[j].evidence_id = id
                 /\ \A k \in DOMAIN new : new[k].evidence_id = id => k <= j}}
      BY <1>8 DEF Resolved
    <3>2. QED
      BY <3>1
  <2>3. ASSUME NEW j \in 1..p, LastRanked(j) PROVE LastKept(at[j])
    <3>1. ASSUME NEW k \in 1..r, refs[k].evidence_id = id PROVE k <= at[j]
      <4>1. PICK l \in 1..p : at[l] = k
        BY <1>7, <3>1, <1>14
      <4>2. l <= j
        BY <2>3, <3>1, <4>1
      <4>3. ~ (at[j] < at[l])
        BY <1>7, <4>2
      <4>4. QED
        BY <1>12, <4>1, <4>3
    <3>2. QED
      BY <1>12, <2>3, <3>1
  <2>4. ASSUME NEW i \in 1..r, LastKept(i) PROVE \E j \in 1..p : at[j] = i /\ LastRanked(j)
    <3>1. PICK j \in 1..p : at[j] = i
      BY <1>7, <1>14, <2>4
    <3>2. ASSUME NEW k \in 1..p, refs[at[k]].evidence_id = id PROVE k <= j
      <4>1. at[k] <= at[j]
        BY <1>12, <2>4, <3>1, <3>2
      <4>2. ~ (at[j] < at[k])
        BY <1>12, <4>1
      <4>3. ~ (j < k)
        BY <1>7, <4>2
      <4>4. QED
        BY <4>3
    <3>3. QED
      BY <2>4, <3>1, <3>2
  <2> HIDE DEF LastKept, LastRanked
  <2>5. QED
    BY <1>12, <2>1, <2>2, <2>3, <2>4
<1>15. ASSUME NEW item \in ToSet(bundle.items) \ ToSet(ranked.items),
              NEW kept \in ToSet(ranked.items)
       PROVE  Score(item, query) <= Score(kept, query)
  <2>1. ToSet(bundle.items) = {items[i] : i \in 1..n}
        /\ ToSet(ranked.items) = {items[place[k]] : k \in 1..m}
    <3>1. ToSet([k \in 1..m |-> items[place[k]]]) = {items[place[k]] : k \in 1..m}
      BY DEF ToSet
    <3>2. ToSet(items) = {items[i] : i \in 1..n}
      BY <1>1 DEF ToSet
    <3>3. QED
      BY <1>4, <3>1, <3>2 DEF items
  <2>2. PICK k \in 1..m : kept = items[place[k]]
    BY <2>1
  <2>3. PICK i \in 1..n : item = items[i]
    BY <2>1
  <2>4. PICK l \in 1..n : place[l] = i
    BY <1>3
  <2>5. l \notin 1..m
    BY <2>1, <2>3, <2>4
  <2>6. k \in 1..n /\ k < l
    BY <2>5
  <2>7. Score(kept, query) >= Score(item, query)
    BY <1>3, <2>2, <2>3, <2>4, <2>6
  <2>8. Score(kept, query) \in Nat /\ Score(item, query) \in Nat
    BY ScoreIsNumber
  <2>9. QED
    BY <2>7, <2>8
<1>16. bundle.evidence_refs # <<>> => ranked.evidence_refs # <<>>
  <2> SUFFICES ASSUME refs # <<>>, ranked.evidence_refs = <<>> PROVE FALSE
    BY DEF refs
  <2>1. r # 0
    <3> SUFFICES ASSUME r = 0 PROVE FALSE
      OBVIOUS
    <3>1. refs \in Seq(EvidenceReferences) /\ DOMAIN refs = {}
      BY <1>2
    <3>2. QED
      BY <3>1
  <2>2. refs[1].evidence_id \in IdsOf(items)
    <3>1. 1 \in 1..r
      BY <2>1
    <3>2. refs[1].evidence_id \in {refs[i].evidence_id : i \in 1..r}
      BY <3>1
    <3>3. QED
      BY <1>9, <3>2
  <2>3. PICK i \in 1..n : items[i].evidence_id = refs[1].evidence_id
    BY <1>9, <2>2
  <2>4. m >= 1
    <3>1. query.max_items >= 1 /\ query.max_items \in Nat
      BY MaximumIsNumber
    <3>2. m \in Nat /\ (m = n \/ m = query.max_items)
      BY <1>3
    <3>3. CASE m = n
      BY <3>3
    <3>4. CASE m = query.max_items
      BY <3>1, <3>4
    <3>5. QED
      BY <3>2, <3>3, <3>4
  <2>5. items[place[1]].evidence_id \in ids
    BY <1>10, <2>4
  <2>6. PICK k \in 1..p : TRUE
    BY <1>10, <1>13, <2>5
  <2>7. k \in DOMAIN ranked.evidence_refs
    BY <1>8
  <2>8. QED
    BY <2>7
<1>17. Rank(ranked, query) = ranked
  <2>1. ranked.items \in [1..m -> EvidenceItems]
    BY <1>1, <1>3, <1>4, <1>11
  <2>2. ranked.evidence_refs \in [1..p -> EvidenceReferences]
    BY <1>2, <1>8, <1>12
  <2>3. ranked = [identity |-> bundle.identity, correlation_id |-> bundle.correlation_id,
                  items |-> ranked.items, evidence_refs |-> ranked.evidence_refs]
    BY RankShape DEF ranked
  <2>4. ranked.identity = bundle.identity /\ ranked.correlation_id = bundle.correlation_id
    BY <2>3
  <2>5. m \in Nat /\ IsBundle(ranked)
    BY <1>7, <2>1, <2>2, <2>3, <2>4 DEF IsBundle
  <2>6. Ranked(ranked.items, query) = ranked.items
    <3>1. m <= query.max_items
      BY <1>3
    <3>2. \A k, l \in 1..m : k < l =>
            Score(ranked.items[k], query) >= Score(ranked.items[l], query)
      BY <1>3, <1>4, <1>11
    <3>3. QED
      BY <2>1, <2>5, <3>1, <3>2, RankedStay
  <2>7. ReferencesOf(ids, ranked.evidence_refs) = ranked.evidence_refs
    <3>1. ASSUME NEW k \in 1..p PROVE ranked.evidence_refs[k].evidence_id \in ids
      <4>1. ranked.evidence_refs[k] = refs[at[k]]
        BY <1>8
      <4>2. refs[at[k]].evidence_id \in {refs[at[l]].evidence_id : l \in 1..p}
        OBVIOUS
      <4>3. QED
        BY <1>10, <1>13, <4>1, <4>2
    <3>2. p \in Nat /\ \A k \in 1..p : ranked.evidence_refs[k].evidence_id \in ids
      BY <1>7, <3>1
    <3>3. QED
      BY <2>2, <3>2, ReferencesStay
  <2>8. /\ Rank(ranked, query).items = ranked.items
        /\ Rank(ranked, query).evidence_refs = ranked.evidence_refs
    BY <2>5, <2>6, <2>7, RankShape DEF ids
  <2>9. QED
    BY <2>3, <2>4, <2>5, <2>8, RankShape
<1>18. QED
  BY <1>13, <1>14, <1>15, <1>16, <1>17 DEF ranked, ids
-----------------------------------------------------------------------------
(* The bundle of a context *)

\* What carries evidence was added by the caller, and is within the call.
LEMMA EvidencedHold ==
  ASSUME IInv, pc = "built", NEW i \in Evidenced
  PROVE  /\ i \in selected /\ i \in Candidates /\ Candidate(i).words \in SUBSET Words
         /\ Candidate(i).evidence = {ReferenceOf(i)}
         /\ ReferenceOf(i) \in EvidenceReferences
         /\ ReferenceOf(i).evidence_id \in EvidenceIds
         /\ ReferenceOf(i).identity = call.context.identity
         /\ ReferenceOf(i).correlation_id = call.context.correlation_id
<1>1. i \in selected /\ i \in Candidates /\ Candidate(i).evidence # {}
  BY DEF Evidenced, IInv, TypeOK
<1>2. Candidate(i) \in Segments
  BY <1>1, CandidateType DEF IInv, TypeOK
<1>3. ReferenceOf(i) \in Candidate(i).evidence
  BY <1>1 DEF ReferenceOf
<1>4. Candidate(i).evidence = {ReferenceOf(i)} /\ ReferenceOf(i) \in EvidenceReferences
      /\ Candidate(i).words \in SUBSET Words
  BY <1>2, <1>3 DEF Segments
<1>5. i \notin DOMAIN SystemSegments
  BY <1>1, SystemSegmentsAssumption DEF SystemSegmentsAssumption, Candidate
<1>6. SegmentHolds(Candidate(i))
  BY <1>1, <1>5, SelectedHold
<1>7. ReferenceOf(i).evidence_id \in EvidenceIds
  BY <1>4 DEF EvidenceReferences
<1>8. QED
  BY <1>1, <1>3, <1>4, <1>6, <1>7 DEF SegmentHolds

\* The selection is in order.
LEMMA SelectionIsOrder ==
  ASSUME IInv
  PROVE  IsFiniteSet(Evidenced) /\ IsOrder(Evidenced, SelectionOrder)
<1>1. TypedCall(call) /\ Evidenced \in SUBSET Candidates
  BY DEF IInv, TypeOK, Evidenced
<1>2. IsFiniteSet(Evidenced)
  BY <1>1, CandidatesFinite, FS_Subset
<1>3. ASSUME NEW i \in Evidenced
      PROVE  i \in Nat /\ Candidate(i).priority \in Nat /\ Candidate(i).segment_id \in Nat
  <2>1. i \in Nat
    BY <1>1, CandidatesFinite
  <2>2. Candidate(i) \in Segments
    BY <1>1, CandidateType
  <2>3. QED
    BY <1>1, <2>1, <2>2, CandidateSize DEF Segments
<1>4. \A i, j \in Evidenced : <<i, j>> \in SelectionOrder <=> i # j /\ Precedes(i, j)
  BY DEF SelectionOrder
<1>5. \A i \in Evidenced : <<i, i>> \notin SelectionOrder
  BY <1>4
<1>6. ASSUME NEW i \in Evidenced, NEW j \in Evidenced, i # j
      PROVE  <<i, j>> \in SelectionOrder \/ <<j, i>> \in SelectionOrder
  BY <1>3, <1>4, <1>6 DEF Precedes
<1>7. ASSUME NEW i \in Evidenced, NEW j \in Evidenced, NEW k \in Evidenced,
             <<i, j>> \in SelectionOrder, <<j, k>> \in SelectionOrder
      PROVE  <<i, k>> \in SelectionOrder
  <2>1. Precedes(i, j) /\ Precedes(j, k) /\ i # j /\ j # k
    BY <1>4, <1>7
  <2>2. Precedes(i, k) /\ i # k
    BY <1>3, <2>1 DEF Precedes
  <2>3. QED
    BY <1>4, <2>2
<1>8. QED
  BY <1>2, <1>5, <1>6, <1>7 DEF IsOrder

\* The bundle of a context has the references of all that carries evidence, and an item for each.
LEMMA BundleOfContext ==
  ASSUME IInv, pc = "built"
  PROVE  /\ IsBundle(CanonicalBundle)
         /\ CanonicalBundle.identity = call.context.identity
         /\ CanonicalBundle.correlation_id = call.context.correlation_id
         /\ ToSet(CanonicalBundle.evidence_refs) = {ReferenceOf(i) : i \in Evidenced}
         /\ IdsOf(CanonicalBundle.items) = IdsOf(CanonicalBundle.evidence_refs)
<1> DEFINE n == Cardinality(Evidenced)
           order == InOrder(Evidenced, SelectionOrder)
           items == [k \in DOMAIN order |-> [evidence_id |-> ReferenceOf(order[k]).evidence_id,
                                             words |-> Candidate(order[k]).words]]
           refs == [k \in DOMAIN order |-> ReferenceOf(order[k])]
<1>1. CanonicalBundle = [identity |-> call.context.identity,
                         correlation_id |-> call.context.correlation_id,
                         items |-> items, evidence_refs |-> refs]
  BY DEF CanonicalBundle
<1>2. /\ n \in Nat /\ order \in [1..n -> Evidenced]
      /\ \A i \in Evidenced : \E k \in 1..n : order[k] = i
  BY SelectionIsOrder, InOrderSorts
<1> HIDE DEF n, order
<1>3. /\ DOMAIN order = 1..n
      /\ \A k \in 1..n : order[k] \in Evidenced
  BY <1>2
<1>4. items \in [1..n -> EvidenceItems]
  <2>1. ASSUME NEW k \in 1..n
        PROVE  [evidence_id |-> ReferenceOf(order[k]).evidence_id,
                words |-> Candidate(order[k]).words] \in EvidenceItems
    BY <1>3, EvidencedHold DEF EvidenceItems
  <2>2. QED
    BY <1>3, <2>1
<1>5. refs \in [1..n -> EvidenceReferences]
  BY <1>3, EvidencedHold
<1>6. ToSet(refs) = {ReferenceOf(i) : i \in Evidenced}
  <2>1. ToSet(refs) = {ReferenceOf(order[k]) : k \in 1..n}
    BY <1>3 DEF ToSet
  <2>2. QED
    BY <1>2, <1>3, <2>1
<1>7. IdsOf(items) = IdsOf(refs)
  <2>1. IdsOf(items) = {ReferenceOf(order[k]).evidence_id : k \in 1..n}
    BY <1>3 DEF IdsOf
  <2>2. IdsOf(refs) = {ReferenceOf(order[k]).evidence_id : k \in 1..n}
    BY <1>3 DEF IdsOf
  <2>3. QED
    BY <2>1, <2>2
<1> HIDE DEF items, refs
<1>8. /\ CanonicalBundle.identity = call.context.identity
      /\ CanonicalBundle.correlation_id = call.context.correlation_id
      /\ CanonicalBundle.items = items
      /\ CanonicalBundle.evidence_refs = refs
  BY <1>1
<1>9. IsBundle(CanonicalBundle)
  BY <1>1, <1>2, <1>4, <1>5, <1>8 DEF IsBundle
<1>10. QED
  BY <1>6, <1>7, <1>8, <1>9

\* Evidence stays traceable: the bundle of a context that was built has each required segment's
\* reference, no reference but those of selected segments, and only references of its owner and
\* correlation; and ranking it for any query loses no lineage.
THEOREM EvidenceIsTraceable == Spec => []EvidenceTraceable
<1>1. ASSUME IInv, SelectionFits, pc = "built" PROVE BundleTraceable(CanonicalBundle)
  <2> DEFINE refs == ToSet(CanonicalBundle.evidence_refs)
  <2>1. refs = {ReferenceOf(i) : i \in Evidenced}
    BY <1>1, BundleOfContext
  <2>2. ASSUME NEW k \in CallerSegments, Required(call.segments[k])
        PROVE  call.segments[k].evidence \subseteq refs
    <3> SUFFICES ASSUME NEW e \in call.segments[k].evidence PROVE e \in refs
      OBVIOUS
    <3>1. call.segments \in Seq(Segments)
      BY <1>1 DEF IInv, TypeOK, TypedCall
    <3>2. k \in Nat \ {0}
      BY <3>1 DEF CallerSegments
    <3>3. 3 + k \in Candidates /\ Candidate(3 + k) = call.segments[k]
      BY <3>2 DEF Candidates, Candidate
    <3>4. 3 + k \in selected
      BY <1>1, <2>2, <3>3 DEF SelectionFits
    <3>5. 3 + k \in Evidenced
      BY <3>3, <3>4 DEF Evidenced
    <3>6. e = ReferenceOf(3 + k)
      BY <1>1, <3>3, <3>5, EvidencedHold
    <3>7. QED
      BY <2>1, <3>5, <3>6
  <2>3. refs \subseteq UNION {Candidate(i).evidence : i \in selected}
    <3> SUFFICES ASSUME NEW i \in Evidenced
                 PROVE  ReferenceOf(i) \in UNION {Candidate(j).evidence : j \in selected}
      BY <2>1
    <3>1. i \in selected /\ ReferenceOf(i) \in Candidate(i).evidence
      BY <1>1, EvidencedHold
    <3>2. QED
      BY <3>1
  <2>4. ASSUME NEW e \in refs
        PROVE  /\ e.identity = CanonicalBundle.identity
               /\ e.correlation_id = CanonicalBundle.correlation_id
    <3>1. PICK i \in Evidenced : e = ReferenceOf(i)
      BY <2>1
    <3>2. QED
      BY <1>1, <3>1, EvidencedHold, BundleOfContext
  <2>5. IdsOf(CanonicalBundle.items) = IdsOf(CanonicalBundle.evidence_refs)
    BY <1>1, BundleOfContext
  <2>6. QED
    BY <2>2, <2>3, <2>4, <2>5 DEF BundleTraceable
<1>2. ASSUME IInv, pc = "built" PROVE RankingKeepsLineage(CanonicalBundle)
  BY <1>2, BundleOfContext, RankingKeeps
<1>3. IInv /\ SelectionFits => EvidenceTraceable
  BY <1>1, <1>2 DEF EvidenceTraceable
<1>4. QED
  BY <1>3, Invariant, TheSelectionFits, PTL
=============================================================================
