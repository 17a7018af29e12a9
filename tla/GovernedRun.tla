----------------------------- MODULE GovernedRun -----------------------------
(***************************************************************************)
(* What the runtime promises of a governed run, whatever the planner, the  *)
(* Backend and the provider do: every attempt works under a mandate that   *)
(* never changes, sends tools of the mandate one at a time and within its  *)
(* limits, consults the model at most once and only when every tool call   *)
(* has been answered, and ends once, reporting every answer it got.        *)
(***************************************************************************)
EXTENDS Naturals, Sequences

CONSTANTS
  Attempts, Tools, NoLimit,
  Mandates   \* [tools : SUBSET Tools, calls, steps : Nat or NoLimit, consult : BOOLEAN]

VARIABLES
  mandate,    \* what the request, the definition and the Backend agree on
  issued,     \* the tools called, in order
  answered,   \* how many of them have a recorded answer
  consulted,  \* whether the model has been asked
  verdict     \* how the attempt ended: its status and how many answers it reports

vars == <<mandate, issued, answered, consulted, verdict>>

Running == [status |-> "RUNNING", reported |-> 0]

AtMost(n, limit) == limit # NoLimit => n <= limit

Init ==
  /\ mandate \in [Attempts -> Mandates]
  /\ issued = [a \in Attempts |-> <<>>]
  /\ answered = [a \in Attempts |-> 0]
  /\ consulted = [a \in Attempts |-> FALSE]
  /\ verdict = [a \in Attempts |-> Running]

\* The outstanding answer, if there is one, is recorded and the next tool called.
Issue(a, t) ==
  /\ verdict[a] = Running
  /\ ~ consulted[a]
  /\ t \in mandate[a].tools
  /\ AtMost(Len(issued[a]) + 1, mandate[a].calls)
  /\ AtMost(Len(issued[a]) + 2, mandate[a].steps)
  /\ issued' = [issued EXCEPT ![a] = Append(@, t)]
  /\ answered' = [answered EXCEPT ![a] = Len(issued[a])]
  /\ UNCHANGED <<mandate, consulted, verdict>>

\* The outstanding answer, if there is one, is recorded and the model asked.
Consult(a) ==
  /\ verdict[a] = Running
  /\ ~ consulted[a]
  /\ mandate[a].consult
  /\ consulted' = [consulted EXCEPT ![a] = TRUE]
  /\ answered' = [answered EXCEPT ![a] = Len(issued[a])]
  /\ UNCHANGED <<mandate, issued, verdict>>

\* The answer that arrives last may be recorded, or lost to a timeout.
Conclude(a, status) ==
  /\ verdict[a] = Running
  /\ \E n \in {answered[a], Len(issued[a])} :
       /\ status = "COMPLETED" => consulted[a] /\ n = Len(issued[a])
       /\ answered' = [answered EXCEPT ![a] = n]
       /\ \E reported \in {0, n} :
            /\ status \in {"COMPLETED", "FAILED"} => reported = n
            /\ verdict' = [verdict EXCEPT ![a] = [status |-> status, reported |-> reported]]
  /\ UNCHANGED <<mandate, issued, consulted>>

Next ==
  \E a \in Attempts :
    \/ \E t \in Tools : Issue(a, t)
    \/ Consult(a)
    \/ \E status \in {"COMPLETED", "FAILED", "RAISED"} : Conclude(a, status)

Spec == Init /\ [][Next]_vars
=============================================================================
