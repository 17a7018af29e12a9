------------------------- MODULE InternalBoundaryProofs -------------------------
(***************************************************************************)
(* What holds of the internal boundary for any number of concurrent calls, *)
(* every header, token, body and payload, every catalog and configuration. *)
(***************************************************************************)
EXTENDS InternalBoundary, TLAPS

-----------------------------------------------------------------------------
(* The inductive invariant *)

\* The id that the middleware holds is what is left of the one the client sent, or one generated
\* for it.
Identified(h) ==
  IF call[h].header \in {Absent, EmptyId} THEN correlation_id[h] \in 1..minted
  ELSE correlation_id[h] = AsciiOf[call[h].header]

\* A client that lacks the token, of an endpoint that asks for it.
Stranger(h) ==
  /\ call[h].endpoint \notin {"decide", "ready"}
  /\ IF settings.token_configured THEN call[h].token # "matching"
     ELSE settings.APP_ENV \in {"staging", "production"}

\* What a stranger may be told.
Uninformative(h, code) ==
  \/ code = "BODY_UNREADABLE" /\ call[h].body = "unreadable"
  \/ code = "REQUEST_VALIDATION_FAILED" /\ call[h].body = "malformed"
  \/ /\ call[h].body \notin {"unreadable", "malformed"}
     /\ \/ code \in {"INTERNAL_AUTH_DENIED", "INTERNAL_AUTH_NOT_CONFIGURED"}
        \/ code = "INTERNAL_SERVER_ERROR" /\ call[h].token = "not ASCII"

\* The ids of a response are those of its call.
AnswerIdentified(h) ==
  /\ response[h].header \in {correlation_id[h], Absent}
  /\ response[h].header = Absent => response[h].body_id = None
  /\ \/ response[h].body_id = None
     \/ correlation_id[h] # EmptyId /\ response[h].body_id = correlation_id[h]
     \/ correlation_id[h] = EmptyId /\ response[h].body_id \in 1..minted

\* What is answered is what the functions make of the payload, and the payload has the id.
Earned(h, code, result) ==
  /\ result # None => code = "OK" /\ call[h].endpoint \in {"factory", "research", "decide"}
  /\ code = "OK" /\ call[h].endpoint \in {"factory", "research"} =>
       call[h].payload.correlation_id = correlation_id[h]
  /\ code = "OK" /\ call[h].endpoint = "factory" =>
       result = Analysis(call[h].payload.requirement, call[h].payload.capability_catalog)
  /\ code = "OK" /\ call[h].endpoint = "research" =>
       result = D!Decide(DecisionRequest(call[h].payload))
  /\ code = "OK" /\ call[h].endpoint = "decide" =>
       D!EvidenceDenials(call[h].payload) = {} /\ result = D!Decide(call[h].payload)

Answered(h) ==
  /\ AnswerIdentified(h)
  /\ Earned(h, response[h].code, response[h].result)
  /\ Stranger(h) => Uninformative(h, response[h].code)

\* A call by its phase.
PhaseSound(h) ==
  /\ pc[h] \in {"idle", "reading", "sending", "ended"}
  /\ pc[h] = "idle" => /\ call[h] = None /\ correlation_id[h] = None
                       /\ correlation_context[h] = None
  /\ pc[h] \in {"idle", "reading"} => response[h] = None
  /\ pc[h] \in {"reading", "sending"} =>
       /\ call[h] \in HttpCalls /\ Identified(h)
       /\ correlation_context[h] = correlation_id[h]
  /\ pc[h] \in {"sending", "ended"} => Answered(h)
  /\ pc[h] = "ended" =>
       /\ correlation_context[h] = None
       /\ \/ call[h] \in HttpCalls /\ Identified(h)
          \/ call[h] \in DecideCalls /\ correlation_id[h] = None /\ response[h].header = Absent

\* The generated ids that a call has used.
Numbers(h) ==
  ({correlation_id[h]} \cup
     IF pc[h] \in {"sending", "ended"} THEN {response[h].header, response[h].body_id} ELSE {})
  \cap Nat

Shape ==
  /\ settings \in SettingsSet /\ minted \in Nat
  /\ pc \in [Handlers -> {"idle", "reading", "sending", "ended"}]
  /\ call = [h \in Handlers |-> call[h]]
  /\ correlation_id = [h \in Handlers |-> correlation_id[h]]
  /\ correlation_context = [h \in Handlers |-> correlation_context[h]]
  /\ response = [h \in Handlers |-> response[h]]

IInv ==
  /\ Shape
  /\ \A h \in Handlers : PhaseSound(h) /\ Numbers(h) \subseteq 1..minted
  /\ \A h, g \in Handlers : h # g => Numbers(h) \cap Numbers(g) = {}
-----------------------------------------------------------------------------
(* Facts about calls *)

\* The endpoints and headers of calls.
LEMMA HttpCallType ==
  ASSUME NEW c \in HttpCalls
  PROVE  /\ c.endpoint \in {"ready", "info", "integration", "factory", "research"}
         /\ c.header \in CorrelationIds \cup {Absent, EmptyId}
         /\ c.body \in Bodies
         /\ c.endpoint = "factory" => c.payload \in FactoryPayloads
         /\ c.endpoint = "research" => c.payload \in ResearchPayloads
BY HttpCallsAssumption DEF HttpCallsAssumption, HttpCallsOf, Bodies

\* Calls in process have the endpoint that no client can call.
LEMMA DecideCallType ==
  ASSUME NEW c \in DecideCalls PROVE c.endpoint = "decide" /\ c.payload \in D!DecisionRequests
BY DecideCallsAssumption DEF DecideCallsAssumption

\* Ids that are sent, generated or absent are told apart.
LEMMA IdsApart ==
  /\ \A id \in CorrelationIds \cup {None, Absent, EmptyId} : id \notin Nat
  /\ None \notin CorrelationIds /\ Absent \notin CorrelationIds /\ EmptyId \notin CorrelationIds
  /\ None # Absent /\ None # EmptyId /\ Absent # EmptyId
  /\ \A id \in CorrelationIds : AsciiOf[id] \in CorrelationIds \cup {EmptyId}
BY IdsAssumption DEF IdsAssumption
-----------------------------------------------------------------------------
(* One handler's step leaves the others alone *)

\* What a step of another handler leaves unchanged.
Untouched(g) ==
  /\ pc'[g] = pc[g] /\ call'[g] = call[g] /\ response'[g] = response[g]
  /\ correlation_id'[g] = correlation_id[g]
  /\ correlation_context'[g] = correlation_context[g]

\* A handler's ids stay its own while others generate more.
LEMMA UntouchedStaysSound ==
  ASSUME NEW g, PhaseSound(g), Untouched(g), settings' = settings,
         minted \in Nat, minted' \in Nat, minted' >= minted
  PROVE  PhaseSound(g)' /\ Numbers(g)' = Numbers(g)
<1>1. 1..minted \subseteq 1..minted'
  OBVIOUS
<1>2. Numbers(g)' = Numbers(g)
  BY DEF Untouched, Numbers
<1>3. Identified(g) => Identified(g)'
  BY <1>1 DEF Untouched, Identified
<1>4. AnswerIdentified(g) => AnswerIdentified(g)'
  BY <1>1 DEF Untouched, AnswerIdentified
<1>5. Earned(g, response[g].code, response[g].result)'
        <=> Earned(g, response[g].code, response[g].result)
  BY DEF Untouched, Earned
<1>6. /\ Stranger(g)' <=> Stranger(g)
      /\ Uninformative(g, response[g].code)' <=> Uninformative(g, response[g].code)
  BY DEF Untouched, Stranger, Uninformative
<1>7. Answered(g) => Answered(g)'
  BY <1>4, <1>5, <1>6 DEF Answered
<1>8. QED
  BY <1>2, <1>3, <1>7 DEF Untouched, PhaseSound

\* A step of one handler that is sound for that handler keeps the invariant.
LEMMA OneAtATime ==
  ASSUME IInv, Shape', NEW h \in Handlers,
         \A g \in Handlers \ {h} : Untouched(g),
         settings' = settings, minted' \in {minted, minted + 1},
         PhaseSound(h)',
         Numbers(h)' \subseteq Numbers(h) \cup {n \in {minted + 1} : minted' = minted + 1}
  PROVE  IInv'
<1>1. minted \in Nat /\ minted' \in Nat /\ minted' >= minted
  BY DEF IInv, Shape
<1>2. \A g \in Handlers \ {h} : PhaseSound(g)' /\ Numbers(g)' = Numbers(g)
  BY <1>1, UntouchedStaysSound DEF IInv
<1>3. Numbers(h)' \subseteq 1..minted'
  <2>1. \A n \in Nat : n \in 1..minted => n \in 1..minted'
    BY <1>1
  <2>2. minted' = minted + 1 => minted + 1 \in 1..minted'
    BY <1>1
  <2>3. QED
    BY <2>1, <2>2, <1>1 DEF IInv
<1>4. \A g \in Handlers \ {h} : Numbers(g) \subseteq 1..minted'
  BY <1>1 DEF IInv
<1>5. minted + 1 \notin 1..minted
  BY <1>1
<1>6. \A g \in Handlers \ {h} : Numbers(h)' \cap Numbers(g)' = {}
  BY <1>2, <1>5 DEF IInv
<1>7. \A g, f \in Handlers : g # f => Numbers(g)' \cap Numbers(f)' = {}
  BY <1>2, <1>6 DEF IInv
<1>8. QED
  BY <1>2, <1>3, <1>4, <1>7 DEF IInv
-----------------------------------------------------------------------------
(* The steps *)

\* No call has begun.
LEMMA InitHolds == Init => IInv
<1> SUFFICES ASSUME Init PROVE IInv
  OBVIOUS
<1>1. Shape
  BY DEF Init, Shape
<1>2. ASSUME NEW h \in Handlers PROVE PhaseSound(h) /\ Numbers(h) = {}
  BY IdsApart DEF Init, PhaseSound, Numbers
<1>3. QED
  BY <1>1, <1>2 DEF IInv

\* The middleware's id is the client's or the next number.
LEMMA ReceiveCallKeeps ==
  ASSUME IInv, NEW h \in Handlers, NEW c \in HttpCalls, ReceiveCall(h, c) PROVE IInv'
<1> DEFINE unnamed == c.header \in {Absent, EmptyId}
           id == IF unnamed THEN minted + 1 ELSE AsciiOf[c.header]
<1>1. /\ pc[h] = "idle" /\ pc' = [pc EXCEPT ![h] = "reading"]
      /\ call' = [call EXCEPT ![h] = c]
      /\ minted' = IF unnamed THEN minted + 1 ELSE minted
      /\ correlation_id' = [correlation_id EXCEPT ![h] = id]
      /\ correlation_context' = [correlation_context EXCEPT ![h] = id]
      /\ UNCHANGED <<settings, response>>
  BY DEF ReceiveCall, Bind
<1>2. minted \in Nat /\ Shape
  BY DEF IInv, Shape
<1>3. Shape'
  <2>1. minted' \in Nat
    BY <1>1, <1>2
  <2>2. QED
    BY <1>1, <1>2, <2>1 DEF Shape
<1>4. \A g \in Handlers \ {h} : Untouched(g)
  BY <1>1, <1>2 DEF Untouched, Shape
<1>5. pc'[h] = "reading" /\ call'[h] = c /\ correlation_id'[h] = id /\ correlation_context'[h] = id
  BY <1>1, <1>2 DEF Shape
<1>6. response'[h] = None
  BY <1>1 DEF IInv, PhaseSound
<1>7. Identified(h)'
  BY <1>1, <1>2, <1>5 DEF Identified
<1>8. PhaseSound(h)'
  BY <1>5, <1>6, <1>7 DEF PhaseSound
<1>9. Numbers(h)' \subseteq {n \in {minted + 1} : minted' = minted + 1}
  <2>1. Numbers(h)' = {id} \cap Nat
    BY <1>5 DEF Numbers
  <2>2. ~ unnamed => id \notin Nat
    BY HttpCallType, IdsApart
  <2>3. QED
    BY <1>1, <2>1, <2>2
<1>10. QED
  BY <1>1, <1>3, <1>4, <1>8, <1>9, OneAtATime

\* An answer that is earned and tells a stranger nothing may go out, with the call's ids.
LEMMA RespondKeeps ==
  ASSUME IInv, NEW h \in Handlers, NEW code, NEW body_id, NEW result,
         Respond(h, code, body_id, result),
         body_id \in {None, CurrentCorrelationId(h)},
         Earned(h, code, result), Stranger(h) => Uninformative(h, code)
  PROVE  IInv'
<1> DEFINE answer == [code |-> code, header |-> correlation_id[h], body_id |-> body_id,
                      result |-> result]
<1>1. /\ pc[h] = "reading" /\ pc' = [pc EXCEPT ![h] = "sending"]
      /\ response' = [response EXCEPT ![h] = answer]
      /\ minted' = IF body_id = minted + 1 THEN minted + 1 ELSE minted
      /\ UNCHANGED <<settings, call, correlation_id, correlation_context>>
  BY DEF Respond
<1>2. minted \in Nat /\ Shape
  BY DEF IInv, Shape
<1>3. /\ call[h] \in HttpCalls /\ Identified(h)
      /\ correlation_context[h] = correlation_id[h]
  BY <1>1 DEF IInv, PhaseSound
<1>4. Shape'
  BY <1>1, <1>2 DEF Shape
<1>5. \A g \in Handlers \ {h} : Untouched(g)
  BY <1>1, <1>2 DEF Untouched, Shape
<1>6. /\ pc'[h] = "sending" /\ response'[h] = answer /\ call'[h] = call[h]
      /\ correlation_id'[h] = correlation_id[h]
      /\ correlation_context'[h] = correlation_context[h]
  BY <1>1, <1>2 DEF Shape
<1>7. correlation_id[h] \in CorrelationIds \cup {EmptyId} \cup 1..minted
  BY <1>3, HttpCallType, IdsApart DEF Identified
<1>8. \/ body_id = None /\ minted' = minted
      \/ /\ correlation_id[h] # EmptyId /\ body_id = correlation_id[h]
         /\ minted' = minted
      \/ correlation_id[h] = EmptyId /\ body_id = minted + 1 /\ minted' = minted + 1
  <2>1. \A id \in CorrelationIds \cup {EmptyId, None} \cup 1..minted : id # minted + 1
    BY <1>2, IdsApart
  <2>2. QED
    BY <1>1, <1>3, <1>7, <2>1 DEF CurrentCorrelationId
<1>9. minted' \in {minted, minted + 1} /\ 1..minted \subseteq 1..minted'
  BY <1>2, <1>8
<1>10. AnswerIdentified(h)'
  <2>1. correlation_id[h] # Absent
    BY <1>2, <1>7, IdsApart
  <2>2. minted + 1 \in 1..(minted + 1)
    BY <1>2
  <2>3. QED
    BY <1>6, <1>8, <2>1, <2>2 DEF AnswerIdentified
<1>11. Identified(h)'
  BY <1>3, <1>6, <1>9 DEF Identified
<1>12. Earned(h, response[h].code, response[h].result)'
  BY <1>6 DEF Earned
<1>13. (Stranger(h) => Uninformative(h, response[h].code))'
  <2>1. Stranger(h)' <=> Stranger(h)
    BY <1>1 DEF Stranger
  <2>2. Uninformative(h, response[h].code)' <=> Uninformative(h, code)
    <3>1. response'[h].code = code
      BY <1>6
    <3>2. QED
      BY <1>6, <3>1 DEF Uninformative
  <2>3. QED
    BY <2>1, <2>2
<1>14. PhaseSound(h)'
  BY <1>3, <1>6, <1>10, <1>11, <1>12, <1>13 DEF PhaseSound, Answered
<1>15. Numbers(h)' \subseteq Numbers(h) \cup {n \in {minted + 1} : minted' = minted + 1}
  BY <1>1, <1>6, <1>8, IdsApart DEF Numbers
<1>16. QED
  BY <1>1, <1>4, <1>5, <1>9, <1>14, <1>15, OneAtATime

\* Nobody but a call of a proper client gets past the token.
LEMMA AuthorizedIsNoStranger ==
  ASSUME NEW h, AuthError(call[h]) = {}, ~ AuthBreaks(call[h]) PROVE ~ Stranger(h)
BY DEF AuthError, AuthBreaks, Stranger

\* Errors tell no result.
LEMMA ErrorEarned ==
  ASSUME NEW h, NEW code, code # "OK" PROVE Earned(h, code, None)
BY DEF Earned

\* Errors before and behind the token.
LEMMA RejectKeeps ==
  ASSUME IInv, NEW h \in Handlers, Reject(h) PROVE IInv'
<1>1. CASE call[h].body = "unreadable" /\ Respond(h, "BODY_UNREADABLE", None, None)
  BY <1>1, ErrorEarned, RespondKeeps DEF Uninformative
<1>2. CASE call[h].body = "malformed" /\ RespondError(h, "REQUEST_VALIDATION_FAILED")
  BY <1>2, ErrorEarned, RespondKeeps DEF RespondError, Uninformative
<1>3. ASSUME NEW code \in AuthError(call[h]), RespondError(h, code),
             call[h].body \in {"valid", "invalid"}
      PROVE  IInv'
  <2>1. code \in {"INTERNAL_AUTH_DENIED", "INTERNAL_AUTH_NOT_CONFIGURED"}
    BY DEF AuthError
  <2>2. code # "OK" /\ Uninformative(h, code)
    BY <1>3, <2>1 DEF Uninformative
  <2>3. QED
    BY <1>3, <2>2, ErrorEarned, RespondKeeps DEF RespondError
<1>4. CASE /\ call[h].body = "invalid" /\ AuthError(call[h]) = {}
           /\ RespondError(h, "REQUEST_VALIDATION_FAILED")
  <2>1. ~ Stranger(h)
    BY <1>4 DEF AuthError, Stranger
  <2>2. QED
    BY <1>4, <2>1, ErrorEarned, RespondKeeps DEF RespondError
<1>5. QED
  BY <1>1, <1>2, <1>3, <1>4 DEF Reject

\* Constants and the caller's own id are no result.
LEMMA DiagnosticKeeps ==
  ASSUME IInv, NEW h \in Handlers, SystemStatus(h) \/ IntegrationDiagnostic(h) PROVE IInv'
<1>1. PICK endpoint \in {"ready", "info", "integration"}, body_id \in {None, CurrentCorrelationId(h)} :
        Accepted(h, endpoint) /\ Respond(h, "OK", body_id, None)
  BY DEF SystemStatus, IntegrationDiagnostic
<1>2. AuthError(call[h]) = {} /\ call[h].endpoint \in {"ready", "info", "integration"}
  BY <1>1 DEF Accepted
<1>3. ~ Stranger(h) /\ Earned(h, "OK", None)
  BY <1>2 DEF AuthError, Stranger, Earned
<1>4. QED
  BY <1>1, <1>3, RespondKeeps

\* A payload's id is one that a client may send.
LEMMA PayloadsHaveIds ==
  ASSUME NEW c \in HttpCalls, c.endpoint \in {"factory", "research"}
  PROVE  c.payload.correlation_id \in CorrelationIds /\ c.payload.correlation_id # EmptyId
BY HttpCallType, IdsApart DEF FactoryPayloads, ResearchPayloads

\* A proposal is the analysis of a payload that has the call's id.
LEMMA AnalyzeFactoryKeeps ==
  ASSUME IInv, NEW h \in Handlers, AnalyzeFactory(h) PROVE IInv'
<1>1. Accepted(h, "factory") /\ pc[h] = "reading"
  BY DEF AnalyzeFactory, Accepted
<1>2. ~ Stranger(h)
  BY <1>1 DEF Accepted, AuthError, Stranger
<1>3. ASSUME NEW code \in {"CORRELATION_ID_MISMATCH", "CONTRACT_CATALOG_NOT_CONFIGURED",
                          "FACTORY_CONTRACT_INVALID"}, RespondError(h, code)
      PROVE  IInv'
  BY <1>2, <1>3, ErrorEarned, RespondKeeps DEF RespondError
<1>4. ASSUME ~ Mismatch(h),
             Respond(h, "OK", call[h].payload.correlation_id,
                     Analysis(call[h].payload.requirement, call[h].payload.capability_catalog))
      PROVE  IInv'
  <2>1. /\ call[h].payload.correlation_id = correlation_id[h]
        /\ call[h].payload.correlation_id = CurrentCorrelationId(h)
    BY <1>1, <1>4, PayloadsHaveIds DEF Mismatch, IInv, PhaseSound, Accepted, CurrentCorrelationId
  <2>2. Earned(h, "OK", Analysis(call[h].payload.requirement, call[h].payload.capability_catalog))
    BY <1>1, <2>1 DEF Accepted, Earned
  <2>3. QED
    BY <1>2, <1>4, <2>1, <2>2, RespondKeeps
<1>5. QED
  BY <1>3, <1>4 DEF AnalyzeFactory

\* A decision is that of a payload that has the call's id.
LEMMA DecideResearchSourceKeeps ==
  ASSUME IInv, NEW h \in Handlers, DecideResearchSource(h) PROVE IInv'
<1>1. Accepted(h, "research") /\ pc[h] = "reading"
  BY DEF DecideResearchSource, Accepted
<1>2. ~ Stranger(h)
  BY <1>1 DEF Accepted, AuthError, Stranger
<1>3. ASSUME NEW code \in {"CORRELATION_ID_MISMATCH", "CONTRACT_CATALOG_NOT_CONFIGURED",
                          "RESEARCH_CONTRACT_INVALID", "RESEARCH_DECISION_CONTRACT_INVALID"},
             RespondError(h, code)
      PROVE  IInv'
  BY <1>2, <1>3, ErrorEarned, RespondKeeps DEF RespondError
<1>4. ASSUME ~ Mismatch(h),
             Respond(h, "OK", correlation_context[h], D!Decide(DecisionRequest(call[h].payload)))
      PROVE  IInv'
  <2>1. /\ call[h].payload.correlation_id = correlation_id[h]
        /\ correlation_context[h] = CurrentCorrelationId(h)
    BY <1>1, <1>4, PayloadsHaveIds DEF Mismatch, IInv, PhaseSound, Accepted, CurrentCorrelationId
  <2>2. Earned(h, "OK", D!Decide(DecisionRequest(call[h].payload)))
    BY <1>1, <2>1 DEF Accepted, Earned
  <2>3. QED
    BY <1>2, <1>4, <2>1, <2>2, RespondKeeps
<1>5. QED
  BY <1>3, <1>4 DEF DecideResearchSource

\* The 500 sent outside of the middleware has no id, and unbinds the call's.
LEMMA BreakKeeps ==
  ASSUME IInv, NEW h \in Handlers, Break(h) PROVE IInv'
<1> DEFINE answer == [code |-> "INTERNAL_SERVER_ERROR", header |-> Absent, body_id |-> None,
                      result |-> None]
<1>1. /\ pc[h] = "reading" /\ pc' = [pc EXCEPT ![h] = "ended"]
      /\ response' = [response EXCEPT ![h] = answer]
      /\ correlation_context' = [correlation_context EXCEPT ![h] = None]
      /\ UNCHANGED <<settings, call, correlation_id, minted>>
  BY DEF Break, Bind
<1>2. Shape /\ call[h] \in HttpCalls /\ Identified(h)
  BY <1>1 DEF IInv, PhaseSound
<1>3. Shape'
  BY <1>1, <1>2 DEF Shape
<1>4. \A g \in Handlers \ {h} : Untouched(g)
  BY <1>1, <1>2 DEF Untouched, Shape
<1>5. /\ pc'[h] = "ended" /\ response'[h] = answer /\ correlation_context'[h] = None
  BY <1>1, <1>2 DEF Shape
<1>6. Stranger(h) => call[h].token = "not ASCII"
  <2>1. CASE AuthBreaks(call[h])
    BY <2>1 DEF AuthBreaks
  <2>2. CASE \E endpoint \in {"factory", "research"} : Accepted(h, endpoint)
    BY <2>2 DEF Accepted, AuthError, Stranger
  <2>3. QED
    BY <2>1, <2>2 DEF Break
<1>7. AnswerIdentified(h)'
  BY <1>5 DEF AnswerIdentified
<1>8. Earned(h, response[h].code, response[h].result)'
  BY <1>5 DEF Earned
<1>9. (Stranger(h) => Uninformative(h, response[h].code))'
  <2>1. Stranger(h)' <=> Stranger(h)
    BY <1>1 DEF Stranger
  <2>2. call'[h].token = "not ASCII" => Uninformative(h, response[h].code)'
    <3>1. response'[h].code = "INTERNAL_SERVER_ERROR" /\ call'[h].body \in {"valid", "invalid"}
      BY <1>1, <1>5 DEF Break
    <3>2. QED
      BY <3>1 DEF Uninformative
  <2>3. QED
    BY <1>1, <1>6, <2>1, <2>2
<1>10. PhaseSound(h)'
  BY <1>1, <1>2, <1>5, <1>7, <1>8, <1>9 DEF PhaseSound, Answered, Identified
<1>11. Numbers(h)' \subseteq Numbers(h)
  BY <1>1, <1>5, IdsApart DEF Numbers
<1>12. QED
  BY <1>1, <1>3, <1>4, <1>10, <1>11, OneAtATime

\* The call's id is unbound once its response is sent.
LEMMA FinishKeeps ==
  ASSUME IInv, NEW h \in Handlers, Finish(h) PROVE IInv'
<1>1. /\ pc[h] = "sending" /\ pc' = [pc EXCEPT ![h] = "ended"]
      /\ correlation_context' = [correlation_context EXCEPT ![h] = None]
      /\ UNCHANGED <<settings, call, correlation_id, minted, response>>
  BY DEF Finish, Reset, Bind
<1>2. Shape /\ call[h] \in HttpCalls /\ Identified(h) /\ Answered(h)
  BY <1>1 DEF IInv, PhaseSound
<1>3. Shape'
  BY <1>1, <1>2 DEF Shape
<1>4. \A g \in Handlers \ {h} : Untouched(g)
  BY <1>1, <1>2 DEF Untouched, Shape
<1>5. pc'[h] = "ended" /\ correlation_context'[h] = None
  BY <1>1, <1>2 DEF Shape
<1>6. Answered(h)' <=> Answered(h)
  BY <1>1 DEF Answered, AnswerIdentified, Earned, Stranger, Uninformative
<1>7. PhaseSound(h)'
  BY <1>1, <1>2, <1>5, <1>6 DEF PhaseSound, Identified
<1>8. Numbers(h)' = Numbers(h)
  BY <1>1, <1>5 DEF Numbers
<1>9. QED
  BY <1>1, <1>3, <1>4, <1>7, <1>8, OneAtATime

\* A decision made in process is that of the request, and carries no id.
LEMMA DecideInProcessKeeps ==
  ASSUME IInv, NEW h \in Handlers, NEW c \in DecideCalls, DecideInProcess(h, c) PROVE IInv'
<1>1. PICK code, result :
        /\ response' = [response EXCEPT ![h] =
             [code |-> code, header |-> Absent, body_id |-> None, result |-> result]]
        /\ \/ code # "OK" /\ result = None
           \/ /\ code = "OK" /\ D!EvidenceDenials(c.payload) = {}
              /\ result = D!Decide(c.payload)
  <2>1. \A code \in D!EvidenceDenials(c.payload) : code # "OK"
    BY DEF D!EvidenceDenials
  <2>2. QED
    BY <2>1 DEF DecideInProcess
<1>2. /\ pc[h] = "idle" /\ pc' = [pc EXCEPT ![h] = "ended"]
      /\ call' = [call EXCEPT ![h] = c]
      /\ UNCHANGED <<settings, correlation_id, correlation_context, minted>>
  BY DEF DecideInProcess
<1>3. Shape /\ correlation_id[h] = None /\ correlation_context[h] = None
  BY <1>2 DEF IInv, PhaseSound
<1>4. Shape'
  BY <1>1, <1>2, <1>3 DEF Shape
<1>5. \A g \in Handlers \ {h} : Untouched(g)
  BY <1>1, <1>2, <1>3 DEF Untouched, Shape
<1>6. /\ pc'[h] = "ended" /\ call'[h] = c
      /\ response'[h] = [code |-> code, header |-> Absent, body_id |-> None, result |-> result]
  BY <1>1, <1>2, <1>3 DEF Shape
<1>7. c.endpoint = "decide"
  BY DecideCallType
<1>8. AnswerIdentified(h)'
  BY <1>6 DEF AnswerIdentified
<1>9. Earned(h, response[h].code, response[h].result)'
  BY <1>1, <1>6, <1>7 DEF Earned
<1>10. ~ Stranger(h)'
  BY <1>6, <1>7 DEF Stranger
<1>11. PhaseSound(h)'
  BY <1>2, <1>3, <1>6, <1>8, <1>9, <1>10 DEF PhaseSound, Answered
<1>12. Numbers(h)' \subseteq Numbers(h)
  BY <1>2, <1>6, IdsApart DEF Numbers
<1>13. QED
  BY <1>2, <1>4, <1>5, <1>11, <1>12, OneAtATime

\* No step disturbs the invariant.
LEMMA NextKeeps == IInv /\ [Next]_vars => IInv'
<1> SUFFICES ASSUME IInv, [Next]_vars PROVE IInv'
  OBVIOUS
<1>1. CASE UNCHANGED vars
  <2>1. \A h \in Handlers : Untouched(h)
    BY <1>1 DEF vars, Untouched
  <2>2. settings' = settings /\ minted' = minted /\ minted \in Nat
    BY <1>1 DEF vars, IInv, Shape
  <2>3. \A h \in Handlers : PhaseSound(h)' /\ Numbers(h)' = Numbers(h)
    BY <2>1, <2>2, UntouchedStaysSound DEF IInv
  <2>4. Shape'
    BY <1>1 DEF vars, IInv, Shape
  <2>5. QED
    BY <2>2, <2>3, <2>4 DEF IInv
<1>2. ASSUME NEW h \in Handlers, NEW c \in HttpCalls, ReceiveCall(h, c) PROVE IInv'
  BY <1>2, ReceiveCallKeeps
<1>3. ASSUME NEW h \in Handlers, NEW c \in DecideCalls, DecideInProcess(h, c) PROVE IInv'
  BY <1>3, DecideInProcessKeeps
<1>4. ASSUME NEW h \in Handlers, Reject(h) PROVE IInv'
  BY <1>4, RejectKeeps
<1>5. ASSUME NEW h \in Handlers, SystemStatus(h) \/ IntegrationDiagnostic(h) PROVE IInv'
  BY <1>5, DiagnosticKeeps
<1>6. ASSUME NEW h \in Handlers, AnalyzeFactory(h) PROVE IInv'
  BY <1>6, AnalyzeFactoryKeeps
<1>7. ASSUME NEW h \in Handlers, DecideResearchSource(h) PROVE IInv'
  BY <1>7, DecideResearchSourceKeeps
<1>8. ASSUME NEW h \in Handlers, Break(h) PROVE IInv'
  BY <1>8, BreakKeeps
<1>9. ASSUME NEW h \in Handlers, Finish(h) PROVE IInv'
  BY <1>9, FinishKeeps
<1>10. QED
  BY <1>1, <1>2, <1>3, <1>4, <1>5, <1>6, <1>7, <1>8, <1>9 DEF Next

\* What the theorems below rest on.
LEMMA Invariance == Spec => []IInv
BY InitHolds, NextKeeps, PTL DEF Spec
-----------------------------------------------------------------------------
(* Ids and the token *)

\* The middleware's id of a call is an id, and not the mark of an absent one.
LEMMA IdOfCall ==
  ASSUME NEW h, call[h] \in HttpCalls, Identified(h)
  PROVE  correlation_id[h] \in Ids /\ correlation_id[h] # Absent /\ correlation_id[h] # None
<1>1. correlation_id[h] \in Ids
  BY HttpCallType, IdsApart DEF Identified, Ids
<1>2. Absent \notin Ids /\ None \notin Ids
  BY IdsApart DEF Ids
<1>3. QED
  BY <1>1, <1>2

\* An id is bound in a handler's task exactly while the call is handled (observability/
\* correlation.py: set before, reset in finally).
THEOREM TypeCorrect == Spec => []TypeOK
<1>1. IInv => TypeOK
  <2> SUFFICES ASSUME IInv PROVE TypeOK
    OBVIOUS
  <2>1. settings \in SettingsSet /\ minted \in Nat
        /\ pc \in [Handlers -> {"idle", "reading", "sending", "ended"}]
    BY DEF IInv, Shape
  <2>2. None \notin Ids
    BY IdsApart DEF Ids
  <2>3. ASSUME NEW h \in Handlers
        PROVE  /\ IF pc[h] = "idle" THEN call[h] = None ELSE call[h] \in HttpCalls \cup DecideCalls
               /\ correlation_id[h] \in Ids \cup {None}
               /\ correlation_context[h] \in Ids <=> pc[h] \in {"reading", "sending"}
               /\ correlation_context[h] \in Ids \cup {None}
               /\ pc[h] \in {"idle", "reading"} => response[h] = None
    <3>1. PhaseSound(h)
      BY DEF IInv
    <3>2. call[h] \in HttpCalls /\ Identified(h) => correlation_id[h] \in Ids
      BY IdOfCall
    <3>3. QED
      BY <2>2, <3>1, <3>2 DEF PhaseSound
  <2>4. QED
    BY <2>1, <2>3 DEF TypeOK
<1>2. QED
  BY <1>1, Invariance, PTL

\* A response that went through the middleware has the id of its call.
LEMMA SeenIsIdentified ==
  ASSUME IInv, NEW h \in Handlers, SeenByMiddleware(h)
  PROVE  /\ call[h] \in HttpCalls /\ Identified(h) /\ Answered(h)
         /\ response[h].header = correlation_id[h]
<1>1. PhaseSound(h) /\ pc[h] \in {"sending", "ended"} /\ response[h].header # Absent
  BY DEF IInv, SeenByMiddleware, Responded
<1>2. call[h] \in HttpCalls /\ Identified(h) /\ Answered(h)
  BY <1>1 DEF PhaseSound
<1>3. QED
  BY <1>1, <1>2 DEF Answered, AnswerIdentified

\* However many calls interleave, each client finds what is left of its own id, or an id that no
\* other response has, in the header and in the body of its response (observability/
\* correlation.py 15-40).
THEOREM CorrelationsKept == Spec => []AnswersOwnCall
<1>1. IInv => AnswersOwnCall
  <2> SUFFICES ASSUME IInv, NEW h \in Handlers, SeenByMiddleware(h)
               PROVE  LET r == response[h]
                          sent == call[h].header
                          named == sent \in CorrelationIds
                      IN
                      /\ named /\ AsciiOf[sent] # EmptyId =>
                           r.header = AsciiOf[sent] /\ r.body_id \in {AsciiOf[sent], None}
                      /\ named /\ AsciiOf[sent] = EmptyId =>
                           r.header = EmptyId /\ r.body_id \in Nat \cup {None}
                      /\ ~ named => r.header \in Nat /\ r.body_id \in {r.header, None}
                      /\ r.result # None => named /\ AsciiOf[sent] = call[h].payload.correlation_id
                      /\ \A g \in Handlers \ {h} : SeenByMiddleware(g) =>
                           {r.header, r.body_id}
                             \cap {response[g].header, response[g].body_id} \cap Nat = {}
    BY DEF AnswersOwnCall
  <2> DEFINE r == response[h] sent == call[h].header named == sent \in CorrelationIds
  <2>1. /\ call[h] \in HttpCalls /\ Identified(h) /\ Answered(h) /\ r.header = correlation_id[h]
    BY SeenIsIdentified
  <2>2. /\ sent \in CorrelationIds \cup {Absent, EmptyId}
        /\ call[h].endpoint # "decide"
        /\ named => correlation_id[h] = AsciiOf[sent]
        /\ ~ named => correlation_id[h] \in 1..minted
    BY <2>1, HttpCallType, IdsApart DEF Identified
  <2>3. \/ r.body_id = None
        \/ correlation_id[h] # EmptyId /\ r.body_id = correlation_id[h]
        \/ correlation_id[h] = EmptyId /\ r.body_id \in 1..minted
    BY <2>1 DEF Answered, AnswerIdentified
  <2>4. 1..minted \subseteq Nat
    BY DEF IInv, Shape
  <2>5. named /\ AsciiOf[sent] # EmptyId =>
          r.header = AsciiOf[sent] /\ r.body_id \in {AsciiOf[sent], None}
    BY <2>1, <2>2, <2>3
  <2>6. ~ named => r.header \in Nat /\ r.body_id \in {r.header, None}
    <3>1. ~ named => correlation_id[h] \in Nat
      BY <2>2, <2>4
    <3>2. correlation_id[h] = EmptyId => correlation_id[h] \notin Nat
      BY IdsApart
    <3>3. QED
      BY <2>1, <2>3, <3>1, <3>2
  <2>7. named /\ AsciiOf[sent] = EmptyId => r.header = EmptyId /\ r.body_id \in Nat \cup {None}
    BY <2>1, <2>2, <2>3, <2>4
  <2>8. r.result # None => named /\ AsciiOf[sent] = call[h].payload.correlation_id
    <3> SUFFICES ASSUME r.result # None
                 PROVE  named /\ AsciiOf[sent] = call[h].payload.correlation_id
      OBVIOUS
    <3>1. /\ call[h].endpoint \in {"factory", "research"}
          /\ call[h].payload.correlation_id = correlation_id[h]
      BY <2>1, <2>2 DEF Answered, Earned
    <3>2. call[h].payload.correlation_id \in CorrelationIds
      BY <2>1, <3>1, HttpCallType DEF FactoryPayloads, ResearchPayloads
    <3>3. named
      BY <2>2, <2>4, <3>1, <3>2, IdsApart
    <3>4. QED
      BY <2>2, <3>1, <3>3
  <2>9. ASSUME NEW g \in Handlers \ {h}, SeenByMiddleware(g)
        PROVE  {r.header, r.body_id} \cap {response[g].header, response[g].body_id} \cap Nat = {}
    <3>1. Numbers(h) \cap Numbers(g) = {}
      BY DEF IInv
    <3>2. QED
      BY <2>9, <3>1 DEF Numbers, SeenByMiddleware, Responded
  <2>10. QED
    BY <2>5, <2>6, <2>7, <2>8, <2>9
<1>2. QED
  BY <1>1, Invariance, PTL

\* Without the token a client learns of its payload whether it can be read and parsed, and nothing
\* else; the contracts decide nothing (api/auth.py, main.py 67-90).
THEOREM StrangersLearnOfParsingOnly == Spec => []OnlyAuthenticated
<1>1. IInv => OnlyAuthenticated
  <2> SUFFICES ASSUME IInv, NEW h \in Handlers, Responded(h), Stranger(h)
               PROVE  /\ response[h].result = None
                      /\ response[h].code = "BODY_UNREADABLE" <=> call[h].body = "unreadable"
                      /\ response[h].code = "REQUEST_VALIDATION_FAILED"
                           <=> call[h].body = "malformed"
                      /\ call[h].body \in {"valid", "invalid"} =>
                           \/ response[h].code \in {"INTERNAL_AUTH_DENIED",
                                                    "INTERNAL_AUTH_NOT_CONFIGURED"}
                           \/ /\ response[h].code = "INTERNAL_SERVER_ERROR"
                              /\ call[h].token = "not ASCII"
    BY DEF OnlyAuthenticated, Stranger
  <2>1. PhaseSound(h) /\ pc[h] \in {"sending", "ended"}
    BY DEF IInv, Responded
  <2>2. Uninformative(h, response[h].code) /\ Earned(h, response[h].code, response[h].result)
    BY <2>1 DEF PhaseSound, Answered
  <2>3. response[h].result = None
    BY <2>2 DEF Earned, Uninformative
  <2>4. QED
    BY <2>2, <2>3 DEF Uninformative
<1>2. QED
  BY <1>1, Invariance, PTL
-----------------------------------------------------------------------------
(* Proposals *)

\* What a call was answered by the factory is the analysis of its payload.
LEMMA AnalyzedIsAnalysis ==
  ASSUME IInv, NEW h \in Handlers, Analyzed(h)
  PROVE  /\ call[h].payload.requirement \in Requirements
         /\ call[h].payload.capability_catalog \subseteq CatalogItems
         /\ AnalysisOf(h) = Analysis(call[h].payload.requirement, call[h].payload.capability_catalog)
<1>1. PhaseSound(h) /\ pc[h] \in {"sending", "ended"} /\ response[h].code = "OK"
      /\ call[h].endpoint = "factory"
  BY DEF IInv, Analyzed, RespondedTo, Responded
<1>2. call[h] \in HttpCalls /\ Answered(h)
  BY <1>1, DecideCallType DEF PhaseSound
<1>3. call[h].payload \in FactoryPayloads
  BY <1>1, <1>2, HttpCallType
<1>4. QED
  BY <1>1, <1>2, <1>3 DEF Answered, Earned, FactoryPayloads, AnalysisOf

\* The two decisions, and what an analysis with each consists of.
LEMMA DecisionOfAnalysis ==
  ASSUME NEW r, NEW catalog
  PROVE  /\ Analysis(r, catalog).decision = Decision(r, catalog)
         /\ Decision(r, catalog) = "REUSE" \/ Decision(r, catalog) = "CREATE"
BY DEF Analysis, Decision

LEMMA ReuseParts ==
  ASSUME NEW r, NEW catalog, Decision(r, catalog) = "REUSE"
  PROVE  /\ Analysis(r, catalog).existing = Resolved(r, catalog)
         /\ Analysis(r, catalog).operations = {} /\ Analysis(r, catalog).missing = {}
         /\ Analysis(r, catalog).capability_draft = {} /\ Analysis(r, catalog).agent_draft = {}
BY DEF Analysis

LEMMA CreateParts ==
  ASSUME NEW r, NEW catalog, Decision(r, catalog) = "CREATE"
  PROVE  /\ "REGISTER_CAPABILITY_DRAFT" \in Analysis(r, catalog).operations
         /\ "START_GOVERNANCE" \in Analysis(r, catalog).operations <=> RequiresAgent(r)
         /\ Analysis(r, catalog).missing = Missing(r, catalog)
         /\ Analysis(r, catalog).capability_draft = {Draft(r, catalog)}
         /\ RequiresAgent(r) => Analysis(r, catalog).agent_draft = {AgentDraft(r, catalog)}
         /\ ~ RequiresAgent(r) => Analysis(r, catalog).agent_draft = {}
BY DEF Analysis

\* There is an agent draft exactly where its governance is to start.
LEMMA AgentDraftByGovernance ==
  ASSUME NEW r, NEW catalog
  PROVE  \/ /\ "START_GOVERNANCE" \notin Analysis(r, catalog).operations
            /\ Analysis(r, catalog).agent_draft = {}
         \/ /\ "START_GOVERNANCE" \in Analysis(r, catalog).operations
            /\ Analysis(r, catalog).agent_draft = {AgentDraft(r, catalog)}
<1>1. CASE Decision(r, catalog) = "REUSE"
  BY <1>1, ReuseParts
<1>2. CASE Decision(r, catalog) = "CREATE" /\ RequiresAgent(r)
  BY <1>2, CreateParts
<1>3. CASE Decision(r, catalog) = "CREATE" /\ ~ RequiresAgent(r)
  BY <1>3, CreateParts
<1>4. QED
  BY <1>1, <1>2, <1>3, DecisionOfAnalysis

\* A capability that is asked for counts only with all its entries.
LEMMA DecisionByEntries ==
  ASSUME NEW r, NEW catalog, catalog \subseteq CatalogItems
  PROVE  Decision(r, catalog) = "REUSE" <=>
           \A id \in Candidates(r.statement) :
             /\ {item \in catalog : item.capability_id = id} # {}
             /\ \A item \in {i \in catalog : i.capability_id = id} :
                  /\ item.availability = "AVAILABLE"
                  /\ item.configuration_status \in {"CONFIGURED", "NOT_APPLICABLE"}
<1>1. \A item \in catalog :
        Usable(item) <=> /\ item.availability = "AVAILABLE"
                         /\ item.configuration_status \in {"CONFIGURED", "NOT_APPLICABLE"}
  BY DEF Usable, CatalogItems
<1>2. Missing(r, catalog) = {} <=>
        \A id \in Candidates(r.statement) : {item \in catalog : item.capability_id = id} # {}
  BY DEF Missing
<1>3. (\A item \in Resolved(r, catalog) : Usable(item)) <=>
        \A id \in Candidates(r.statement) :
          \A item \in {i \in catalog : i.capability_id = id} : Usable(item)
  BY DEF Resolved
<1>4. Decision(r, catalog) = "REUSE" <=>
        Missing(r, catalog) = {} /\ \A item \in Resolved(r, catalog) : Usable(item)
  BY DEF Decision
<1>5. QED
  BY <1>1, <1>2, <1>3, <1>4

\* Reuse is advised exactly if all entries of all capabilities asked for are usable, and
\* proposes nothing (resolver/service.py resolve, factory/service.py analyze).
THEOREM ReuseOnlyOfUsable == Spec => []ReuseIsUsable
<1>1. IInv => ReuseIsUsable
  <2> SUFFICES ASSUME IInv, NEW h \in Handlers, Analyzed(h)
               PROVE  LET asked == Candidates(call[h].payload.requirement.statement)
                          entries(id) == {item \in call[h].payload.capability_catalog :
                                            item.capability_id = id}
                          usable(id) == entries(id) # {} /\ \A item \in entries(id) :
                             /\ item.availability = "AVAILABLE"
                             /\ item.configuration_status \in {"CONFIGURED", "NOT_APPLICABLE"}
                      IN /\ AnalysisOf(h).decision = "REUSE" <=> \A id \in asked : usable(id)
                         /\ AnalysisOf(h).decision = "REUSE" <=> AnalysisOf(h).operations = {}
                         /\ AnalysisOf(h).decision = "REUSE" =>
                              asked = {i.capability_id : i \in AnalysisOf(h).existing}
                         /\ \A id \in AnalysisOf(h).missing : entries(id) = {}
    BY DEF ReuseIsUsable
  <2> DEFINE r == call[h].payload.requirement catalog == call[h].payload.capability_catalog
  <2>1. catalog \subseteq CatalogItems /\ AnalysisOf(h) = Analysis(r, catalog)
    BY AnalyzedIsAnalysis
  <2> HIDE DEF r, catalog
  <2>2. AnalysisOf(h).decision = "REUSE" <=> Decision(r, catalog) = "REUSE"
    BY <2>1, DecisionOfAnalysis, ReuseParts, CreateParts
  <2>3. AnalysisOf(h).decision = "REUSE" <=> AnalysisOf(h).operations = {}
    BY <2>1, DecisionOfAnalysis, ReuseParts, CreateParts
  <2>4. AnalysisOf(h).decision = "REUSE" =>
          Candidates(r.statement) = {i.capability_id : i \in AnalysisOf(h).existing}
    <3> SUFFICES ASSUME Decision(r, catalog) = "REUSE"
                 PROVE  Candidates(r.statement) = {i.capability_id : i \in Resolved(r, catalog)}
      BY <2>1, <2>2, DecisionOfAnalysis, ReuseParts
    <3>1. \A id \in Candidates(r.statement) : \E item \in catalog : item.capability_id = id
      BY <2>1, DecisionByEntries
    <3>2. QED
      BY <3>1 DEF Resolved
  <2>5. \A id \in AnalysisOf(h).missing : {item \in catalog : item.capability_id = id} = {}
    BY <2>1, DecisionOfAnalysis, ReuseParts, CreateParts DEF Missing
  <2>6. Decision(r, catalog) = "REUSE" <=>
          \A id \in Candidates(r.statement) :
            /\ {item \in catalog : item.capability_id = id} # {}
            /\ \A item \in {i \in catalog : i.capability_id = id} :
                 /\ item.availability = "AVAILABLE"
                 /\ item.configuration_status \in {"CONFIGURED", "NOT_APPLICABLE"}
    BY <2>1, DecisionByEntries
  <2>7. QED
    BY <2>2, <2>3, <2>4, <2>5, <2>6 DEF r, catalog
<1>2. QED
  BY <1>1, Invariance, PTL

\* A draft is bounded by the request and by the entries of what is asked for (factory/service.py
\* analyze and _agent_draft).
THEOREM ProposalsBounded == Spec => []ProposalBounded
<1>1. IInv => ProposalBounded
  <2> SUFFICES ASSUME IInv, NEW h \in Handlers, Analyzed(h)
               PROVE  LET requirement == call[h].payload.requirement
                          offered == {i \in call[h].payload.capability_catalog :
                                        i.capability_id \in Candidates(requirement.statement)}
                          agents == {a.draft : a \in AnalysisOf(h).agent_draft}
                      IN
                      /\ \A draft \in AnalysisOf(h).capability_draft \cup agents :
                           /\ draft.scope_refs = requirement.scope_refs
                           /\ \A tool \in draft.tool_ids :
                                \E i \in offered : tool \in i.backing_tool_ids
                           /\ \A p \in draft.permission_refs :
                                \E i \in offered : p \in i.permission_refs
                      /\ \A draft \in agents : \E c \in AnalysisOf(h).capability_draft :
                           /\ draft.tool_ids \subseteq c.tool_ids
                           /\ draft.permission_refs \subseteq c.permission_refs
                      /\ agents # {} <=> "START_GOVERNANCE" \in AnalysisOf(h).operations
    BY DEF ProposalBounded
  <2> DEFINE r == call[h].payload.requirement catalog == call[h].payload.capability_catalog
             agents == {a.draft : a \in AnalysisOf(h).agent_draft}
             proposal == Draft(r, catalog)
  <2>1. AnalysisOf(h) = Analysis(r, catalog)
    BY AnalyzedIsAnalysis
  <2> HIDE DEF r, catalog, proposal
  <2>2. \A draft \in AnalysisOf(h).capability_draft \cup agents :
          /\ draft.scope_refs = proposal.scope_refs /\ draft.tool_ids = proposal.tool_ids
          /\ draft.permission_refs = proposal.permission_refs
    <3>1. AnalysisOf(h).capability_draft \subseteq {proposal}
      BY <2>1, DecisionOfAnalysis, ReuseParts, CreateParts DEF proposal
    <3>2. AnalysisOf(h).agent_draft \subseteq {AgentDraft(r, catalog)}
      BY <2>1, AgentDraftByGovernance
    <3>3. /\ AgentDraft(r, catalog).draft.scope_refs = proposal.scope_refs
          /\ AgentDraft(r, catalog).draft.tool_ids = proposal.tool_ids
          /\ AgentDraft(r, catalog).draft.permission_refs = proposal.permission_refs
      BY DEF proposal, AgentDraft, Draft
    <3>4. QED
      BY <3>1, <3>2, <3>3
  <2>3. /\ proposal.scope_refs = r.scope_refs
        /\ proposal.tool_ids = UNION {i.backing_tool_ids : i \in Resolved(r, catalog)}
        /\ proposal.permission_refs = UNION {i.permission_refs : i \in Resolved(r, catalog)}
    BY DEF proposal, Draft, RequiredTools, RequiredPermissions
  <2>4. agents # {} => AnalysisOf(h).capability_draft = {proposal}
    BY <2>1, DecisionOfAnalysis, ReuseParts, CreateParts DEF proposal
  <2>5. agents # {} <=> "START_GOVERNANCE" \in AnalysisOf(h).operations
    BY <2>1, AgentDraftByGovernance
  <2>6. QED
    BY <2>2, <2>3, <2>4, <2>5 DEF r, catalog, Resolved
<1>2. QED
  BY <1>1, Invariance, PTL
-----------------------------------------------------------------------------
(* How careful a draft is *)

\* The order of the risk levels.
LEMMA SeverityValues == Severity("LOW") = 1 /\ Severity("MEDIUM") = 2 /\ Severity("HIGH") = 3
<1>1. /\ DOMAIN RiskLevels = 1..3 /\ RiskLevels[1] = "LOW" /\ RiskLevels[2] = "MEDIUM"
      /\ RiskLevels[3] = "HIGH"
  BY DEF RiskLevels
<1>2. \A n \in 1..3 : n = 1 \/ n = 2 \/ n = 3
  OBVIOUS
<1>3. Severity("LOW") = 1
  BY <1>1, <1>2 DEF Severity
<1>4. Severity("MEDIUM") = 2
  BY <1>1, <1>2 DEF Severity
<1>5. Severity("HIGH") = 3
  BY <1>1, <1>2 DEF Severity
<1>6. QED
  BY <1>3, <1>4, <1>5

\* Every word of the table names a capability.
LEMMA HintsNameCapabilities == \A w \in DOMAIN CapabilityHints : CapabilityHints[w] # {}
BY DEF CapabilityHints, DocumentIds

\* More words ask for more capabilities, unless nothing was asked for by name.
LEMMA CandidatesGrow ==
  ASSUME NEW statement, NEW part, part \subseteq statement, part \cap DOMAIN CapabilityHints # {}
  PROVE  Candidates(part) \subseteq Candidates(statement)
<1> DEFINE hinted(s) == UNION {CapabilityHints[w] : w \in s \cap DOMAIN CapabilityHints}
<1>1. hinted(part) # {} /\ hinted(part) \subseteq hinted(statement)
  BY HintsNameCapabilities
<1>2. Candidates(part) = hinted(part) /\ Candidates(statement) = hinted(statement)
  BY <1>1 DEF Candidates
<1>3. QED
  BY <1>1, <1>2

\* A part of a statement is rated no graver, and asks for no test and no evidence of its own.
LEMMA PartIsNoGraver ==
  ASSUME NEW statement, NEW part, NEW uses_tools \in BOOLEAN,
         part \subseteq statement, part \cap DOMAIN CapabilityHints # {}
  PROVE  /\ Severity(Risk(part)) <= Severity(Risk(statement))
         /\ TestRequirements(Risk(part), FALSE) \subseteq TestRequirements(Risk(statement), uses_tools)
         /\ EvidenceRequirements(part) \subseteq EvidenceRequirements(statement)
<1>1. \/ Risk(part) = "LOW" /\ Risk(statement) \in {"LOW", "MEDIUM", "HIGH"}
      \/ Risk(part) = "MEDIUM" /\ Risk(statement) \in {"MEDIUM", "HIGH"}
      \/ Risk(part) = "HIGH" /\ Risk(statement) = "HIGH"
  BY CandidatesGrow DEF Risk
<1>2. Severity(Risk(part)) <= Severity(Risk(statement))
  BY <1>1, SeverityValues
<1>3. TestRequirements(Risk(part), FALSE) \subseteq TestRequirements(Risk(statement), uses_tools)
  BY <1>1 DEF TestRequirements
<1>4. EvidenceRequirements(part) \subseteq EvidenceRequirements(statement)
  BY DEF EvidenceRequirements
<1>5. QED
  BY <1>2, <1>3, <1>4

\* The word for an agent comes before the words of all other types.
LEMMA AskedIsRequired ==
  ASSUME NEW r, AsksForAgent(r) PROVE RequiresAgent(r)
<1>1. CASE r.preferred_capability_type \in {"AGENT", "COMPOSITE"}
  BY <1>1 DEF RequiresAgent, RecommendedType
<1>2. CASE r.preferred_capability_type = "none" /\ "agent" \in r.statement
  <2> DEFINE matching == {n \in DOMAIN TypeHints : TypeHints[n].words \cap r.statement # {}}
             first == CHOOSE n \in matching : \A m \in matching : n <= m
  <2>1. DOMAIN TypeHints = 1..7 /\ TypeHints[1] = [words |-> {"agent"}, type |-> "AGENT"]
    BY DEF TypeHints
  <2>2. 1 \in matching /\ matching \subseteq 1..7
    BY <1>2, <2>1
  <2> HIDE DEF matching
  <2>3. first \in matching /\ \A m \in matching : first <= m
    <3>1. \A m \in matching : 1 <= m
      BY <2>2
    <3>2. QED
      BY <2>2, <3>1
  <2>4. ClassifyType(r.statement) = TypeHints[first].type
    BY <2>2 DEF ClassifyType, matching
  <2> HIDE DEF first
  <2>5. first = 1
    BY <2>2, <2>3
  <2>6. ClassifyType(r.statement) = "AGENT"
    BY <2>1, <2>4, <2>5
  <2>7. QED
    BY <1>2, <2>6 DEF RequiresAgent, RecommendedType
<1>3. QED
  BY <1>1, <1>2 DEF AsksForAgent

\* Whatever else a statement says, its drafts are rated, tested and evidenced at least as a part
\* of it would be, and an agent that is asked for comes with its governance (resolver/service.py
\* 109-220, factory/service.py 116-135).
THEOREM CareKept == Spec => []CareNeverTalkedDown
<1>1. IInv => CareNeverTalkedDown
  <2> SUFFICES ASSUME IInv, NEW h \in Handlers, Analyzed(h)
               PROVE  LET statement == call[h].payload.requirement.statement
                          parts == {part \in SUBSET statement :
                                      IsStatement(part) /\ part \cap DOMAIN CapabilityHints # {}}
                          agents == {a.draft : a \in AnalysisOf(h).agent_draft}
                      IN
                      /\ \A draft \in AnalysisOf(h).capability_draft \cup agents :
                           /\ \A part \in parts :
                                /\ Severity(Risk(part)) <= Severity(draft.risk_level)
                                /\ TestRequirements(Risk(part), FALSE)
                                     \subseteq draft.test_requirements
                                /\ EvidenceRequirements(part)
                                     \subseteq draft.evidence_requirements
                           /\ draft.tool_ids # {} \/ draft.risk_level # "LOW" =>
                                {"security", "recovery"} \subseteq draft.test_requirements
                      /\ \A a \in AnalysisOf(h).agent_draft :
                           a.model_policy_ref = "model-policy.critical-v1"
                             <=> "regression" \in a.draft.test_requirements
                      /\ AnalysisOf(h).decision = "CREATE"
                           /\ AsksForAgent(call[h].payload.requirement) =>
                           /\ agents # {}
                           /\ {"REGISTER_AGENT_DRAFT", "START_GOVERNANCE"}
                                \subseteq AnalysisOf(h).operations
    BY DEF CareNeverTalkedDown
  <2> DEFINE r == call[h].payload.requirement catalog == call[h].payload.capability_catalog
             risk == Risk(r.statement) tools == RequiredTools(r, catalog)
             Like(draft) == /\ draft.risk_level = risk /\ draft.tool_ids = tools
                            /\ draft.evidence_requirements = EvidenceRequirements(r.statement)
                            /\ draft.test_requirements = TestRequirements(risk, tools # {})
  <2>1. AnalysisOf(h) = Analysis(r, catalog)
    BY AnalyzedIsAnalysis
  <2> HIDE DEF r, catalog
  <2>2. Like(Draft(r, catalog)) /\ Like(AgentDraft(r, catalog).draft)
    BY DEF Draft, AgentDraft
  <2>3. /\ AnalysisOf(h).capability_draft \subseteq {Draft(r, catalog)}
        /\ AnalysisOf(h).agent_draft \subseteq {AgentDraft(r, catalog)}
    BY <2>1, DecisionOfAnalysis, ReuseParts, CreateParts, AgentDraftByGovernance
  <2>4. AgentDraft(r, catalog).model_policy_ref = "model-policy.critical-v1"
          <=> "regression" \in TestRequirements(risk, tools # {})
    BY DEF AgentDraft, TestRequirements
  <2>5. tools # {} \/ risk # "LOW" =>
          {"security", "recovery"} \subseteq TestRequirements(risk, tools # {})
    BY DEF TestRequirements
  <2> DEFINE Careful(draft) ==
        /\ \A part \in SUBSET r.statement : part \cap DOMAIN CapabilityHints # {} =>
             /\ Severity(Risk(part)) <= Severity(draft.risk_level)
             /\ TestRequirements(Risk(part), FALSE) \subseteq draft.test_requirements
             /\ EvidenceRequirements(part) \subseteq draft.evidence_requirements
        /\ draft.tool_ids # {} \/ draft.risk_level # "LOW" =>
             {"security", "recovery"} \subseteq draft.test_requirements
  <2>6. ASSUME NEW draft, Like(draft) PROVE Careful(draft)
    <3>1. ASSUME NEW part \in SUBSET r.statement, part \cap DOMAIN CapabilityHints # {}
          PROVE  /\ Severity(Risk(part)) <= Severity(risk)
                 /\ TestRequirements(Risk(part), FALSE) \subseteq TestRequirements(risk, tools # {})
                 /\ EvidenceRequirements(part) \subseteq EvidenceRequirements(r.statement)
      <4>1. (tools # {}) \in BOOLEAN
        OBVIOUS
      <4>2. QED
        BY <3>1, <4>1, PartIsNoGraver
    <3>2. QED
      BY <2>5, <2>6, <3>1
  <2>7. Careful(Draft(r, catalog)) /\ Careful(AgentDraft(r, catalog).draft)
    BY <2>2, <2>6
  <2> HIDE DEF Careful
  <2>8. /\ \A draft \in AnalysisOf(h).capability_draft : Careful(draft)
        /\ \A draft \in {a.draft : a \in AnalysisOf(h).agent_draft} : Careful(draft)
    BY <2>3, <2>7
  <2>9. \A a \in AnalysisOf(h).agent_draft :
          a.model_policy_ref = "model-policy.critical-v1"
            <=> "regression" \in a.draft.test_requirements
    BY <2>2, <2>3, <2>4
  <2>10. AnalysisOf(h).decision = "CREATE" /\ AsksForAgent(r) =>
           /\ {a.draft : a \in AnalysisOf(h).agent_draft} # {}
           /\ {"REGISTER_AGENT_DRAFT", "START_GOVERNANCE"} \subseteq AnalysisOf(h).operations
    <3> SUFFICES ASSUME AnalysisOf(h).decision = "CREATE", AsksForAgent(r)
                 PROVE  /\ AnalysisOf(h).agent_draft # {}
                        /\ {"REGISTER_AGENT_DRAFT", "START_GOVERNANCE"}
                             \subseteq AnalysisOf(h).operations
      OBVIOUS
    <3>1. Decision(r, catalog) # "REUSE" /\ RequiresAgent(r)
      BY <2>1, DecisionOfAnalysis, AskedIsRequired
    <3>2. QED
      BY <2>1, <3>1 DEF Analysis
  <2>11. QED
    BY <2>8, <2>9, <2>10 DEF Careful, r
<1>2. QED
  BY <1>1, Invariance, PTL

-----------------------------------------------------------------------------
(* Research decisions *)

\* What is known of a request, whoever made it.
WellFormed(request) ==
  /\ request.evidence \subseteq D!EvidenceCandidates
  /\ request.risk \in {"LOW", "MEDIUM", "HIGH", "CRITICAL"}
  /\ request.data_classification \in D!Classifications /\ request.maximum_cost \in Nat
  /\ request.external.estimated_cost \in Nat /\ request.tool_ids \subseteq Tools

\* What was decided is what decide() makes of the request, none of whose evidence is denied.
LEMMA DecidedIsDecide ==
  ASSUME IInv, NEW h \in Handlers, Decided(h)
  PROVE  /\ response[h].result = D!Decide(RequestOf(h))
         /\ WellFormed(RequestOf(h)) /\ D!EvidenceDenials(RequestOf(h)) = {}
         /\ call[h].endpoint # "decide" =>
              RequestOf(h).evidence = {} /\ RequestOf(h).information_complete
<1>1. PhaseSound(h) /\ pc[h] \in {"sending", "ended"} /\ response[h].code = "OK"
      /\ call[h].endpoint \in {"research", "decide"}
  BY DEF IInv, Decided, RespondedTo, Responded
<1>2. Answered(h) /\ call[h] \in HttpCalls \cup DecideCalls
  BY <1>1 DEF PhaseSound
<1>3. CASE call[h].endpoint = "decide"
  <2>1. call[h] \in DecideCalls
    BY <1>2, <1>3, HttpCallType
  <2>2. QED
    BY <1>1, <1>2, <1>3, <2>1, DecideCallType
       DEF Answered, Earned, RequestOf, WellFormed, D!DecisionRequests, D!ExternalBoundaries
<1>4. CASE call[h].endpoint = "research"
  <2>1. RequestOf(h) = DecisionRequest(call[h].payload)
    BY <1>4 DEF RequestOf
  <2>2. D!EvidenceDenials(DecisionRequest(call[h].payload)) = {}
    BY DEF D!EvidenceDenials, DecisionRequest
  <2>3. call[h].payload \in ResearchPayloads
    BY <1>2, <1>4, HttpCallType, DecideCallType
  <2>4. WellFormed(DecisionRequest(call[h].payload))
    BY <2>3 DEF WellFormed, DecisionRequest, ResearchPayloads, D!EvidenceCandidates
  <2>5. /\ DecisionRequest(call[h].payload).evidence = {}
        /\ DecisionRequest(call[h].payload).information_complete
    BY DEF DecisionRequest
  <2>6. QED
    BY <1>1, <1>2, <1>4, <2>1, <2>2, <2>4, <2>5 DEF Answered, Earned
<1>5. QED
  BY <1>1, <1>3, <1>4

\* decide() justifies itself for every well-formed request: its selection is good evidence of one
\* channel, and retrieval is proposed only where the boundary allows it and evidence is missing.
LEMMA DecideJustified ==
  ASSUME NEW request, WellFormed(request), D!EvidenceDenials(request) = {}
  PROVE  LET d == D!Decide(request)
             good == {e \in request.evidence :
                        e.available /\ e.freshness = "CURRENT" /\ e.reliability \in {"HIGH", "MEDIUM"}}
             internal == {e \in good : e.channel = "INTERNAL_SOURCE"}
         IN
         /\ \A e \in d.selected : /\ e \in good
                                  /\ e.scope_refs \subseteq request.scope_refs
                                  /\ e.data_classification <= request.data_classification
         /\ d.decision = "USE_INTERNAL_SOURCE" => d.selected = internal /\ internal # {}
         /\ d.decision = "USE_MEMORY" => /\ d.selected = good /\ good # {} /\ internal = {}
                                         /\ request.risk \notin {"HIGH", "CRITICAL"}
         /\ d.decision = "REQUEST_EXTERNAL_RESEARCH" <=> d.retrieval # NoTool
         /\ d.retrieval # NoTool =>
              /\ d.selected = {} /\ internal = {}
              /\ request.external.enabled /\ request.data_classification # D!Restricted
              /\ d.retrieval \in request.tool_ids
              /\ request.external.permission_ref \in request.permission_refs
              /\ request.external.estimated_cost <= request.maximum_cost
         /\ request.evidence = {} /\ request.information_complete =>
              d.decision \in {"REQUEST_EXTERNAL_RESEARCH", "INSUFFICIENT_EVIDENCE"}
<1> DEFINE d == D!Decide(request)
           good == {e \in request.evidence :
                      e.available /\ e.freshness = "CURRENT" /\ e.reliability \in {"HIGH", "MEDIUM"}}
           internal == {e \in good : e.channel = "INTERNAL_SOURCE"}
           memory == {e \in good : e.channel = "MEMORY"}
<1>1. D!Current(request) = good
  BY DEF D!Current, WellFormed, D!EvidenceCandidates
<1>2. D!Of("INTERNAL_SOURCE", request) = internal /\ D!Of("MEMORY", request) = memory
  BY <1>1 DEF D!Of
<1>3. internal = {} => good = memory
  BY DEF WellFormed, D!EvidenceCandidates
<1>4. \A e \in request.evidence : /\ e.scope_refs \subseteq request.scope_refs
                                  /\ e.data_classification <= request.data_classification
  <2> SUFFICES ASSUME NEW e \in request.evidence
               PROVE  /\ e.scope_refs \subseteq request.scope_refs
                      /\ e.data_classification <= request.data_classification
    OBVIOUS
  <2>1. e.scope_refs \subseteq request.scope_refs
    BY DEF D!EvidenceDenials
  <2>2. ~ e.data_classification > request.data_classification
    BY <2>1 DEF D!EvidenceDenials
  <2>3. e.data_classification \in 0..3 /\ request.data_classification \in 0..3
    BY DEF WellFormed, D!EvidenceCandidates, D!Classifications
  <2>4. QED
    BY <2>1, <2>2, <2>3
<1>5. ~ D!ExternalDenied(request) =>
        /\ request.external.enabled /\ request.data_classification # D!Restricted
        /\ request.external.tool_id \in request.tool_ids /\ request.external.tool_id # NoTool
        /\ request.external.permission_ref \in request.permission_refs
        /\ request.external.estimated_cost <= request.maximum_cost
  <2>1. \A m, n \in Nat : ~ m > n => m <= n
    OBVIOUS
  <2>2. QED
    BY <2>1, IdsAssumption DEF IdsAssumption, D!ExternalDenied, WellFormed
<1>6. \/ /\ ~ request.information_complete
         /\ d.decision = "NEEDS_INFORMATION" /\ d.selected = {} /\ d.retrieval = NoTool
      \/ /\ internal # {}
         /\ d.decision = "USE_INTERNAL_SOURCE" /\ d.selected = internal /\ d.retrieval = NoTool
      \/ /\ internal = {} /\ memory # {} /\ request.risk \in {"LOW", "MEDIUM"}
         /\ d.decision = "USE_MEMORY" /\ d.selected = memory /\ d.retrieval = NoTool
      \/ /\ internal = {} /\ ~ D!ExternalDenied(request)
         /\ d.decision = "REQUEST_EXTERNAL_RESEARCH" /\ d.selected = {}
         /\ d.retrieval = request.external.tool_id
      \/ /\ d.decision = "INSUFFICIENT_EVIDENCE" /\ d.selected = {} /\ d.retrieval = NoTool
  <2> HIDE DEF good, internal, memory
  <2>1. QED
    BY <1>2 DEF D!Decide, D!ResearchDecisionOf
<1>7. memory \subseteq good /\ internal \subseteq good /\ good \subseteq request.evidence
  OBVIOUS
<1>8. request.evidence = {} => internal = {} /\ memory = {}
  OBVIOUS
<1> HIDE DEF d, good, internal, memory
<1>9. \A e \in d.selected : e \in good /\ e \in request.evidence
  BY <1>6, <1>7
<1>10. d.decision = "USE_MEMORY" => /\ d.selected = good /\ good # {} /\ internal = {}
                                    /\ request.risk \notin {"HIGH", "CRITICAL"}
  BY <1>3, <1>6
<1>11. d.decision = "USE_INTERNAL_SOURCE" => d.selected = internal /\ internal # {}
  BY <1>6
<1>12. /\ d.decision = "REQUEST_EXTERNAL_RESEARCH" <=> d.retrieval # NoTool
       /\ d.retrieval # NoTool =>
            /\ d.selected = {} /\ internal = {} /\ ~ D!ExternalDenied(request)
            /\ d.retrieval = request.external.tool_id
  BY <1>5, <1>6
<1>13. request.evidence = {} /\ request.information_complete =>
         d.decision \in {"REQUEST_EXTERNAL_RESEARCH", "INSUFFICIENT_EVIDENCE"}
  BY <1>6, <1>8
<1>14. QED
  BY <1>4, <1>5, <1>9, <1>10, <1>11, <1>12, <1>13 DEF d, good, internal

\* Every decision is justified by the evidence and the boundary of its request (research/
\* decision.py decide).
THEOREM DecisionsJustified == Spec => []DecisionJustified
<1>1. IInv => DecisionJustified
  <2> SUFFICES ASSUME IInv PROVE DecisionJustified
    OBVIOUS
  <2>1. ASSUME NEW h \in Handlers, Decided(h)
        PROVE  /\ response[h].result = D!Decide(RequestOf(h))
               /\ WellFormed(RequestOf(h)) /\ D!EvidenceDenials(RequestOf(h)) = {}
               /\ call[h].endpoint = "research" =>
                    RequestOf(h).evidence = {} /\ RequestOf(h).information_complete
    BY <2>1, DecidedIsDecide
  <2>2. QED
    BY <2>1, DecideJustified DEF DecisionJustified
<1>2. QED
  BY <1>1, Invariance, PTL
=============================================================================
