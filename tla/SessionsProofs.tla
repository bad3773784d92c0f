--------------------------- MODULE SessionsProofs ---------------------------
(***************************************************************************)
(* What is proved of a session, of the approvals of the user within one    *)
(* and of the proxy of the worker that hosts one: for every number of      *)
(* callers, calls, requests, failures and restarts.                        *)
(*                                                                         *)
(* The behaviours of SessionsMC are about one part at a time, and a step   *)
(* leaves the other parts as they are: so every part, read alone, takes    *)
(* its own steps. Each has an inductive invariant of its own.              *)
(***************************************************************************)
EXTENDS SessionsMC, FiniteSetTheorems, SequenceTheorems, TLAPS

Everything == <<part, sessionVars, humanVars, proxyVars>>

\* The session takes its own steps, or none.
LEMMA SessionPart ==
    /\ Init => Session!Init
    /\ [Next]_Everything => [Session!Next]_sessionVars
BY DEF Init, Next, Everything

\* The confirmations do.
LEMMA HumanPart ==
    /\ Init => Human!Init
    /\ [Next]_Everything => [Human!Next]_humanVars
BY DEF Init, Next, Everything

\* The proxy and its worker do.
LEMMA ProxyPart ==
    /\ Init => Proxy!Init
    /\ [Next]_Everything => [Proxy!Next]_proxyVars
BY DEF Init, Next, Everything

-----------------------------------------------------------------------------
(***************************************************************************)
(* The session: types. A call is behind at most one audit or one change    *)
(* of the policy, which it makes only while it is still undecided.         *)
(***************************************************************************)
Steps == {"idle", "entered", "saving"} \cup Session!OperationSteps
Early == {"entered", "saving", "begin", "compaction", "compacting", "markActive", "open", "start", "restarting"}

\* The calls that may still begin an audit or change the policy.
Undecided == {c \in Callers : pc[c] \in Early}
Counted == IsFiniteSet(Undecided) /\ audit + policy + Cardinality(Undecided) <= calls

\* The conjuncts of the type invariant, by the provers that handle them.
Whereabouts == pc \in [Callers -> Steps] /\ kind \in [Callers -> Session!Kinds]
Flags == aborted \in BOOLEAN /\ accepted \in BOOLEAN /\ completed \in BOOLEAN /\ runCompleted \in BOOLEAN
Ranges ==
    /\ initialized \in {"pending", "done", "failed"}
    /\ disposal \in {"none", "initialization", "operation", "cleanup", "over"}
    /\ awaited \in Callers \cup {NoCaller} /\ active \in Callers \cup {NoCaller}
    /\ thread \in {"none", "running", "paused", "reported"}
    /\ audit \in 0..MaxCalls /\ contents \subseteq 0..MaxCalls
    /\ mission \in {"active", "failed", "completed"}
    /\ exported \in Session!Reports
    /\ policy \in 0..MaxCalls /\ calls \in 0..MaxCalls /\ faults \in 0..MaxFaults
SessionTyped == Whereabouts /\ Flags /\ Ranges /\ Counted

\* A smaller set has no more elements.
LEMMA StillUndecided ==
  ASSUME NEW S, NEW T, IsFiniteSet(S), T \subseteq S
  PROVE  IsFiniteSet(T) /\ Cardinality(T) \in Nat /\ Cardinality(S) \in Nat /\ Cardinality(T) <= Cardinality(S)
BY FS_Subset, FS_CardinalityType

\* A call that moves on leaves the undecided ones, or it does not join them.
LEMMA Moves ==
  ASSUME Whereabouts, NEW c \in Callers, NEW step \in Steps, Session!Goto(c, step)
  PROVE  /\ Whereabouts'
         /\ pc[c] \in Early \/ step \notin Early => Undecided' \subseteq Undecided
         /\ pc[c] \in Early /\ step \notin Early => c \in Undecided /\ Undecided' = Undecided \ {c}
<1>1. pc' = [pc EXCEPT ![c] = step] /\ Whereabouts'
  BY DEF Session!Goto, Whereabouts, Session!Kinds, Session!Operations
<1> QED
  BY <1>1 DEF Whereabouts, Undecided

\* They make up the type invariant.
LEMMA TypeIs == Session!TypeOK <=> Whereabouts /\ Flags /\ Ranges
BY DEF Session!TypeOK, Whereabouts, Flags, Ranges, Steps

\* A step of a call keeps the types, and every audit and every policy has its call.
LEMMA CallKeepsTypes ==
  ASSUME SessionTyped, NEW c \in Callers, Session!OperationStep(c)
  PROVE  SessionTyped'
<1> SUFFICES (Whereabouts /\ Flags /\ Ranges /\ Counted)'
  BY DEF SessionTyped
<1> Whereabouts /\ Flags /\ Ranges /\ Counted
  BY DEF SessionTyped
<1> MaxCalls \in Nat /\ MaxFaults \in Nat /\ Swarm \in BOOLEAN
  BY SessionsAssumption DEF Session!SessionAssumption
<1> Cardinality(Undecided) \in Nat /\ IsFiniteSet(Undecided)
  BY FS_CardinalityType DEF Counted
<1>a. ASSUME UNCHANGED <<audit, policy, calls>>, Undecided' \subseteq Undecided
      PROVE  Counted'
  <2>1. /\ IsFiniteSet(Undecided')
        /\ Cardinality(Undecided') \in Nat /\ Cardinality(Undecided') <= Cardinality(Undecided)
    BY <1>a, StillUndecided
  <2>2. audit \in Nat /\ policy \in Nat /\ calls \in Nat
    BY DEF Ranges
  <2>3. audit + policy + Cardinality(Undecided) <= calls
    BY DEF Counted
  <2>4. audit + policy + Cardinality(Undecided') <= calls
    BY <2>1, <2>2, <2>3
  <2> QED
    BY <1>a, <2>1, <2>4 DEF Counted
<1>b. ASSUME audit' + policy' = audit + policy + 1, calls' = calls,
             c \in Undecided, Undecided' = Undecided \ {c}
      PROVE  Counted' /\ audit + policy < MaxCalls
  <2>1. /\ IsFiniteSet(Undecided')
        /\ Cardinality(Undecided') = Cardinality(Undecided) - 1 /\ Cardinality(Undecided') \in Nat
    BY <1>b, FS_RemoveElement, FS_CardinalityType
  <2>2. audit \in Nat /\ policy \in Nat /\ calls \in 0..MaxCalls
    BY DEF Ranges
  <2>3. audit + policy + Cardinality(Undecided) <= calls
    BY DEF Counted
  <2>4. audit + policy + 1 + Cardinality(Undecided') <= calls
    BY <2>1, <2>2, <2>3
  <2>5. audit + policy < MaxCalls
    BY <2>1, <2>2, <2>4
  <2> QED
    BY <1>b, <2>1, <2>4, <2>5 DEF Counted
<1> USE DEF Session!session, Session!slot, Session!work, Session!result, Session!outcome, Session!bounds
<1>1. CASE Session!runOperation(c)
  <2>1. PICK step \in Steps : Session!Goto(c, step) /\ (pc[c] \in Early \/ step \notin Early)
    BY <1>1 DEF Session!runOperation, Early, Steps, Session!OperationSteps, Session!Operations, Session!FirstStep
  <2>2. Undecided' \subseteq Undecided /\ Whereabouts'
    BY <2>1, Moves
  <2>3. UNCHANGED <<audit, policy, calls>>
    BY <1>1 DEF Session!runOperation
  <2>4. Flags'
    BY <1>1 DEF Session!runOperation, Session!FirstStep, Flags
  <2>5. Ranges'
    BY <1>1 DEF Session!runOperation, Session!FirstStep, Ranges
  <2> QED
    BY <1>a, <2>2, <2>3, <2>4, <2>5
<1>2. CASE Session!Refused(c)
  <2>1. PICK step \in Steps : Session!Goto(c, step) /\ (pc[c] \in Early \/ step \notin Early)
    BY <1>2 DEF Session!Refused, Early, Steps, Session!OperationSteps
  <2>2. Undecided' \subseteq Undecided /\ Whereabouts'
    BY <2>1, Moves
  <2>3. UNCHANGED <<audit, policy, calls>>
    BY <1>2 DEF Session!Refused
  <2>4. Flags'
    BY <1>2 DEF Session!Refused, Flags
  <2>5. Ranges'
    BY <1>2 DEF Session!Refused, Ranges
  <2> QED
    BY <1>a, <2>2, <2>3, <2>4, <2>5
<1>3. CASE Session!beginExecution(c)
  <2>1. PICK step \in Steps : Session!Goto(c, step) /\ (pc[c] \in Early \/ step \notin Early)
    BY <1>3 DEF Session!beginExecution, Early, Steps, Session!OperationSteps
  <2>2. Undecided' \subseteq Undecided /\ Whereabouts'
    BY <2>1, Moves
  <2>3. UNCHANGED <<audit, policy, calls>>
    BY <1>3 DEF Session!beginExecution
  <2>4. Flags'
    BY <1>3 DEF Session!beginExecution, Flags
  <2>5. Ranges'
    BY <1>3 DEF Session!beginExecution, Ranges
  <2> QED
    BY <1>a, <2>2, <2>3, <2>4, <2>5
<1>4. CASE Session!maybeCompactContext(c)
  <2>1. PICK step \in Steps : Session!Goto(c, step) /\ (pc[c] \in Early \/ step \notin Early)
    BY <1>4 DEF Session!maybeCompactContext, Early, Steps, Session!OperationSteps
  <2>2. Undecided' \subseteq Undecided /\ Whereabouts'
    BY <2>1, Moves
  <2>3. UNCHANGED <<audit, policy, calls>>
    BY <1>4 DEF Session!maybeCompactContext
  <2>4. Flags'
    BY <1>4 DEF Session!maybeCompactContext, Flags
  <2>5. Ranges'
    BY <1>4 DEF Session!maybeCompactContext, Ranges
  <2> QED
    BY <1>a, <2>2, <2>3, <2>4, <2>5
<1>5. CASE Session!compactContextInternal(c)
  <2>1. PICK step \in Steps : Session!Goto(c, step) /\ (pc[c] \in Early \/ step \notin Early)
    BY <1>5 DEF Session!compactContextInternal, Session!Leave, Early, Steps, Session!OperationSteps
  <2>2. Undecided' \subseteq Undecided /\ Whereabouts'
    BY <2>1, Moves
  <2>3. UNCHANGED <<audit, policy, calls>>
    BY <1>5 DEF Session!compactContextInternal
  <2>4. Flags'
    BY <1>5 DEF Session!compactContextInternal, Session!Leave, Flags
  <2>5. Ranges'
    BY <1>5 DEF Session!compactContextInternal, Session!Leave, Ranges
  <2> QED
    BY <1>a, <2>2, <2>3, <2>4, <2>5
<1>6. CASE Session!markActive(c)
  <2>1. PICK step \in Steps : Session!Goto(c, step) /\ (pc[c] \in Early \/ step \notin Early)
    BY <1>6 DEF Session!markActive, Early, Steps, Session!OperationSteps
  <2>2. Undecided' \subseteq Undecided /\ Whereabouts'
    BY <2>1, Moves
  <2>3. UNCHANGED <<audit, policy, calls>>
    BY <1>6 DEF Session!markActive
  <2>4. Flags'
    BY <1>6 DEF Session!markActive, Flags
  <2>5. Ranges'
    BY <1>6 DEF Session!markActive, Ranges
  <2> QED
    BY <1>a, <2>2, <2>3, <2>4, <2>5
<1>7. CASE Session!open(c)
  <2>1. PICK step \in Steps : Session!Goto(c, step) /\ (pc[c] \in Early \/ step \notin Early)
    BY <1>7 DEF Session!open, Early, Steps, Session!OperationSteps
  <2>2. Undecided' \subseteq Undecided /\ Whereabouts'
    BY <2>1, Moves
  <2>3. UNCHANGED <<audit, policy, calls>>
    BY <1>7 DEF Session!open
  <2>4. Flags'
    BY <1>7 DEF Session!open, Session!Forgotten, Flags
  <2>5. Ranges'
    BY <1>7 DEF Session!open, Session!Forgotten, Ranges
  <2> QED
    BY <1>a, <2>2, <2>3, <2>4, <2>5
<1>8. CASE Session!start(c)
  <2>1. Session!Goto(c, "stream") /\ pc[c] \in Early
    BY <1>8 DEF Session!start, Early
  <2>2. c \in Undecided /\ Undecided' = Undecided \ {c} /\ Whereabouts'
    BY <2>1, Moves DEF Early, Steps, Session!OperationSteps
  <2>3. Counted' /\ audit + policy < MaxCalls
    BY <1>8, <1>b, <2>2 DEF Session!start, Ranges
  <2>4. Flags'
    BY <1>8 DEF Session!start, Flags
  <2>5. Ranges'
    BY <1>8, <2>3 DEF Session!start, Ranges
  <2> QED
    BY <2>2, <2>3, <2>4, <2>5
<1>9. CASE Session!streamEnds(c)
  <2>1. PICK step \in Steps : Session!Goto(c, step) /\ (pc[c] \in Early \/ step \notin Early)
    BY <1>9 DEF Session!streamEnds, Early, Steps, Session!OperationSteps
  <2>2. Undecided' \subseteq Undecided /\ Whereabouts'
    BY <2>1, Moves
  <2>3. UNCHANGED <<audit, policy, calls>>
    BY <1>9 DEF Session!streamEnds
  <2>4. Flags'
    BY <1>9 DEF Session!streamEnds, Flags
  <2>5. Ranges'
    BY <1>9 DEF Session!streamEnds, Ranges
  <2> QED
    BY <1>a, <2>2, <2>3, <2>4, <2>5
<1>10. CASE Session!ingestFindings(c)
  <2>1. /\ Session!Goto(c, "idle") \/ Session!Goto(c, "recordMission")
        /\ "idle" \notin Early /\ "recordMission" \notin Early
    BY <1>10 DEF Session!ingestFindings, Session!Leave, Early, Steps, Session!OperationSteps
  <2>2. Undecided' \subseteq Undecided /\ Whereabouts'
    BY <2>1, Moves DEF Session!OperationSteps, Steps
  <2>3. UNCHANGED <<audit, policy, calls>>
    BY <1>10 DEF Session!ingestFindings
  <2>4. Flags'
    BY <1>10 DEF Session!ingestFindings, Session!Leave, Flags
  <2>5. Ranges'
    BY <1>10 DEF Session!ingestFindings, Session!Leave, Ranges
  <2> QED
    BY <1>a, <2>2, <2>3, <2>4, <2>5
<1>11. CASE Session!recordMissionCompletion(c)
  <2>1. PICK step \in Steps : Session!Goto(c, step) /\ (pc[c] \in Early \/ step \notin Early)
    BY <1>11 DEF Session!recordMissionCompletion, Early, Steps, Session!OperationSteps
  <2>2. Undecided' \subseteq Undecided /\ Whereabouts'
    BY <2>1, Moves
  <2>3. UNCHANGED <<audit, policy, calls>>
    BY <1>11 DEF Session!recordMissionCompletion
  <2>4. Flags'
    BY <1>11 DEF Session!recordMissionCompletion, Flags
  <2>5. Ranges'
    BY <1>11 DEF Session!recordMissionCompletion, Ranges
  <2> QED
    BY <1>a, <2>2, <2>3, <2>4, <2>5
<1>12. CASE Session!markCompleted(c)
  <2>1. PICK step \in Steps : Session!Goto(c, step) /\ (pc[c] \in Early \/ step \notin Early)
    BY <1>12 DEF Session!markCompleted, Session!Leave, Early, Steps, Session!OperationSteps
  <2>2. Undecided' \subseteq Undecided /\ Whereabouts'
    BY <2>1, Moves
  <2>3. UNCHANGED <<audit, policy, calls>>
    BY <1>12 DEF Session!markCompleted
  <2>4. Flags'
    BY <1>12 DEF Session!markCompleted, Session!Leave, Flags
  <2>5. Ranges'
    BY <1>12 DEF Session!markCompleted, Session!Leave, Ranges
  <2> QED
    BY <1>a, <2>2, <2>3, <2>4, <2>5
<1>13. CASE Session!restartMission(c)
  <2>1. PICK step \in Steps : Session!Goto(c, step) /\ (pc[c] \in Early \/ step \notin Early)
    BY <1>13 DEF Session!restartMission, Session!Leave, Early, Steps, Session!OperationSteps
  <2>2. Undecided' \subseteq Undecided /\ Whereabouts'
    BY <2>1, Moves
  <2>3. UNCHANGED <<audit, policy, calls>>
    BY <1>13 DEF Session!restartMission
  <2>4. Flags'
    BY <1>13 DEF Session!restartMission, Session!Leave, Flags
  <2>5. Ranges'
    BY <1>13 DEF Session!restartMission, Session!Leave, Ranges
  <2> QED
    BY <1>a, <2>2, <2>3, <2>4, <2>5
<1>14. CASE Session!OperationFails(c)
  <2>1. PICK step \in Steps : Session!Goto(c, step) /\ (pc[c] \in Early \/ step \notin Early)
    BY <1>14 DEF Session!OperationFails, Session!Leave, Early, Steps, Session!OperationSteps,
                  Session!Operations, Session!FirstStep
  <2>2. Undecided' \subseteq Undecided /\ Whereabouts'
    BY <2>1, Moves
  <2>3. UNCHANGED <<audit, policy, calls>>
    BY <1>14 DEF Session!OperationFails
  <2>4. Flags'
    BY <1>14 DEF Session!OperationFails, Session!Leave, Flags
  <2>5. Ranges'
    BY <1>14 DEF Session!OperationFails, Session!Leave, Ranges
  <2> QED
    BY <1>a, <2>2, <2>3, <2>4, <2>5
<1>15. CASE Session!generateReport(c)
  <2>1. PICK step \in Steps : Session!Goto(c, step) /\ (pc[c] \in Early \/ step \notin Early)
    BY <1>15 DEF Session!generateReport, Early, Steps, Session!OperationSteps
  <2>2. Undecided' \subseteq Undecided /\ Whereabouts'
    BY <2>1, Moves
  <2>3. UNCHANGED <<audit, policy, calls>>
    BY <1>15 DEF Session!generateReport
  <2>4. Flags'
    BY <1>15 DEF Session!generateReport, Session!Reports, Flags
  <2>5. Ranges'
    BY <1>15 DEF Session!generateReport, Session!Reports, Ranges
  <2> QED
    BY <1>a, <2>2, <2>3, <2>4, <2>5
<1>16. CASE Session!setToolPolicy(c)
  <2>1. PICK step \in Steps : Session!Goto(c, step) /\ (pc[c] \in Early \/ step \notin Early)
    BY <1>16 DEF Session!setToolPolicy, Early, Steps, Session!OperationSteps
  <2>2. Undecided' \subseteq Undecided /\ Whereabouts'
    BY <2>1, Moves
  <2>3. UNCHANGED <<audit, policy, calls>>
    BY <1>16 DEF Session!setToolPolicy
  <2>4. Flags'
    BY <1>16 DEF Session!setToolPolicy, Flags
  <2>5. Ranges'
    BY <1>16 DEF Session!setToolPolicy, Ranges
  <2> QED
    BY <1>a, <2>2, <2>3, <2>4, <2>5
<1>17. CASE Session!recompileWorkflow(c)
  <2>1. Session!Goto(c, "idle") /\ pc[c] \in Early
    BY <1>17 DEF Session!recompileWorkflow, Early
  <2>2. c \in Undecided /\ Undecided' = Undecided \ {c} /\ Whereabouts'
    BY <2>1, Moves DEF Early, Steps, Session!OperationSteps
  <2>3. Counted' /\ audit + policy < MaxCalls
    BY <1>17, <1>b, <2>2 DEF Session!recompileWorkflow, Ranges
  <2>4. Flags'
    BY <1>17 DEF Session!recompileWorkflow, Flags
  <2>5. Ranges'
    BY <1>17, <2>3 DEF Session!recompileWorkflow, Ranges
  <2> QED
    BY <2>2, <2>3, <2>4, <2>5
<1> QED
  BY <1>1, <1>2, <1>3, <1>4, <1>5, <1>6, <1>7, <1>8, <1>9,
     <1>10, <1>11, <1>12, <1>13, <1>14, <1>15, <1>16, <1>17
     DEF Session!OperationStep

\* The other steps of the session keep them too: a call that enters is one of its calls.
LEMMA SessionKeepsTypes ==
  ASSUME SessionTyped, [Session!Next]_sessionVars
  PROVE  SessionTyped'
<1> Whereabouts /\ Flags /\ Ranges /\ Counted
  BY DEF SessionTyped
<1> MaxCalls \in Nat /\ MaxFaults \in Nat /\ Swarm \in BOOLEAN
  BY SessionsAssumption DEF Session!SessionAssumption
<1> USE DEF Session!session, Session!slot, Session!work, Session!result, Session!outcome, Session!bounds
<1>a. ASSUME UNCHANGED <<audit, policy, calls, pc, kind>>
      PROVE  Whereabouts' /\ Counted'
  BY <1>a DEF Whereabouts, Counted, Undecided
<1>1. CASE \E s \in {"done", "failed"} : Session!InitializationSettles(s)
  <2>1. Flags'
    BY <1>1 DEF Session!InitializationSettles, Flags
  <2>2. Ranges'
    BY <1>1 DEF Session!InitializationSettles, Ranges
  <2> QED
    BY <1>1, <1>a, <2>1, <2>2 DEF Session!InitializationSettles, SessionTyped
<1>2. ASSUME NEW c \in Callers, NEW k \in Session!Kinds, Session!Enter(c, k)
      PROVE  SessionTyped'
  <2>1. Whereabouts' /\ c \notin Undecided /\ Undecided' = Undecided \cup {c}
    BY <1>2 DEF Session!Enter, Whereabouts, Undecided, Steps, Early
  <2>2. /\ IsFiniteSet(Undecided') /\ Cardinality(Undecided') = Cardinality(Undecided) + 1
        /\ Cardinality(Undecided) \in Nat
    BY <2>1, FS_AddElement, FS_CardinalityType DEF Counted
  <2>3. audit + policy + Cardinality(Undecided) <= calls /\ audit \in Nat /\ policy \in Nat /\ calls \in Nat
    BY DEF Counted, Ranges
  <2>4. audit + policy + Cardinality(Undecided') <= calls + 1
    BY <2>2, <2>3
  <2>5. Counted'
    BY <1>2, <2>2, <2>4 DEF Session!Enter, Counted
  <2>6. Ranges' /\ Flags'
    BY <1>2 DEF Session!Enter, Ranges, Flags
  <2> QED
    BY <2>1, <2>5, <2>6 DEF SessionTyped
<1>3. ASSUME NEW c \in Callers, Session!onReportBatch(c)
      PROVE  SessionTyped'
  <2>1. Flags'
    BY <1>3 DEF Session!onReportBatch, Flags
  <2>2. Ranges'
    BY <1>3 DEF Session!onReportBatch, Ranges
  <2> QED
    BY <1>3, <1>a, <2>1, <2>2 DEF Session!onReportBatch, SessionTyped
<1>4. CASE Session!Abort
  <2>1. Flags'
    BY <1>4 DEF Session!Abort, Flags
  <2>2. Ranges'
    BY <1>4 DEF Session!Abort, Ranges
  <2> QED
    BY <1>4, <1>a, <2>1, <2>2 DEF Session!Abort, SessionTyped
<1>5. CASE Session!dispose
  <2>1. Flags'
    BY <1>5 DEF Session!dispose, Flags
  <2>2. Ranges'
    BY <1>5 DEF Session!dispose, Ranges
  <2> QED
    BY <1>5, <1>a, <2>1, <2>2 DEF Session!dispose, SessionTyped
<1>6. CASE Session!disposeGoesOn
  <2>1. Flags'
    BY <1>6 DEF Session!disposeGoesOn, Flags
  <2>2. Ranges'
    BY <1>6 DEF Session!disposeGoesOn, Ranges
  <2> QED
    BY <1>6, <1>a, <2>1, <2>2 DEF Session!disposeGoesOn, SessionTyped
<1>7. CASE UNCHANGED sessionVars
  <2>1. Flags'
    BY <1>7 DEF sessionVars, Flags
  <2>2. Ranges'
    BY <1>7 DEF sessionVars, Ranges
  <2> QED
    BY <1>7, <1>a, <2>1, <2>2 DEF sessionVars, SessionTyped
<1> QED
  BY <1>1, <1>2, <1>3, <1>4, <1>5, <1>6, <1>7, CallKeepsTypes DEF Session!Next

\* The session begins with types.
LEMMA SessionBegins ==
  ASSUME Session!Init
  PROVE  SessionTyped
<1> MaxCalls \in Nat /\ MaxFaults \in Nat /\ Swarm \in BOOLEAN
  BY SessionsAssumption DEF Session!SessionAssumption
<1>1. Whereabouts
  BY DEF Session!Init, Whereabouts, Steps, Session!Kinds, Session!Operations
<1>2. Undecided = {}
  BY DEF Session!Init, Undecided, Early
<1>3. IsFiniteSet(Undecided) /\ Cardinality(Undecided) = 0
  BY <1>2, FS_EmptySet
<1>4. Counted
  BY <1>3 DEF Session!Init, Counted
<1>5. Ranges
  BY DEF Session!Init, Ranges, Session!NoReport, Session!Reports
<1>6. Flags
  BY DEF Session!Init, Flags
<1> QED
  BY <1>1, <1>4, <1>5, <1>6 DEF SessionTyped

-----------------------------------------------------------------------------
(***************************************************************************)
(* The session: exclusion.                                                 *)
(***************************************************************************)
\* Who is at work has the slot; a disposed session lets nobody else have it, and none once it cleans up.
Exclusive ==
    /\ \A c \in Callers : pc[c] \in Session!OperationSteps => active = c
    /\ disposal # "none" => active \in {awaited, NoCaller}
    /\ disposal \in {"cleanup", "over"} => active = NoCaller

\* A step of a call keeps the exclusion.
LEMMA CallKeepsExclusive ==
  ASSUME Whereabouts, Exclusive, NEW c \in Callers, Session!OperationStep(c)
  PROVE  Exclusive'
<1> USE DEF Exclusive, Whereabouts, Steps, Session!OperationSteps, Session!Goto, Session!Leave,
            Session!slot, Session!session
<1> NoCaller \notin Callers
  BY SessionsAssumption DEF Session!SessionAssumption
<1>1. CASE Session!runOperation(c)
  BY <1>1 DEF Session!runOperation, Session!MayStart, Session!FirstStep, Session!Operations
<1>2. CASE Session!Refused(c)
  BY <1>2 DEF Session!Refused
<1>3. CASE Session!beginExecution(c)
  BY <1>3 DEF Session!beginExecution
<1>4. CASE Session!maybeCompactContext(c)
  BY <1>4 DEF Session!maybeCompactContext
<1>5. CASE Session!compactContextInternal(c)
  BY <1>5 DEF Session!compactContextInternal
<1>6. CASE Session!markActive(c)
  BY <1>6 DEF Session!markActive
<1>7. CASE Session!open(c)
  BY <1>7 DEF Session!open
<1>8. CASE Session!start(c)
  BY <1>8 DEF Session!start
<1>9. CASE Session!streamEnds(c)
  BY <1>9 DEF Session!streamEnds
<1>10. CASE Session!ingestFindings(c)
  BY <1>10 DEF Session!ingestFindings
<1>11. CASE Session!recordMissionCompletion(c)
  BY <1>11 DEF Session!recordMissionCompletion
<1>12. CASE Session!markCompleted(c)
  BY <1>12 DEF Session!markCompleted
<1>13. CASE Session!restartMission(c)
  BY <1>13 DEF Session!restartMission
<1>14. CASE Session!OperationFails(c)
  BY <1>14 DEF Session!OperationFails
<1>15. CASE Session!generateReport(c)
  BY <1>15 DEF Session!generateReport
<1>16. CASE Session!setToolPolicy(c)
  BY <1>16 DEF Session!setToolPolicy
<1>17. CASE Session!recompileWorkflow(c)
  BY <1>17 DEF Session!recompileWorkflow
<1> QED
  BY <1>1, <1>2, <1>3, <1>4, <1>5, <1>6, <1>7, <1>8, <1>9, <1>10, <1>11, <1>12, <1>13, <1>14, <1>15, <1>16, <1>17
     DEF Session!OperationStep

\* The other steps of the session keep it.
LEMMA SessionKeepsExclusive ==
  ASSUME Whereabouts, Exclusive, [Session!Next]_sessionVars
  PROVE  Exclusive'
<1> NoCaller \notin Callers
  BY SessionsAssumption DEF Session!SessionAssumption
<1> USE DEF Exclusive, Session!session, Session!slot
<1>1. CASE \E s \in {"done", "failed"} : Session!InitializationSettles(s)
  BY <1>1 DEF Session!InitializationSettles
<1>2. ASSUME NEW c \in Callers, NEW k \in Session!Kinds, Session!Enter(c, k)
      PROVE  Exclusive'
  BY <1>2 DEF Session!Enter, Whereabouts, Session!OperationSteps
<1>3. ASSUME NEW c \in Callers, Session!onReportBatch(c)
      PROVE  Exclusive'
  BY <1>3 DEF Session!onReportBatch
<1>4. CASE Session!Abort
  BY <1>4 DEF Session!Abort
<1>5. CASE Session!dispose
  BY <1>5 DEF Session!dispose
<1>6. CASE Session!disposeGoesOn
  BY <1>6 DEF Session!disposeGoesOn
<1>7. CASE UNCHANGED sessionVars
  BY <1>7 DEF sessionVars
<1> QED
  BY <1>1, <1>2, <1>3, <1>4, <1>5, <1>6, <1>7, CallKeepsExclusive DEF Session!Next

-----------------------------------------------------------------------------
(***************************************************************************)
(* The session: what is exported, without a swarm.                         *)
(***************************************************************************)
\* The report holds nothing of an earlier audit, nothing at all when a new one is about to start, and all of
\* the last one when its status is completed.
Reported ==
    /\ contents \subseteq {audit}
    /\ \A c \in Callers : pc[c] = "start" => contents = {} /\ ~completed
    /\ completed => contents = {audit} /\ thread = "reported" /\ accepted
    /\ ReportsAreComplete

\* A step of a call keeps the report to the last audit.
LEMMA CallKeepsReported ==
  ASSUME ~Swarm, Whereabouts, Exclusive, Reported, NEW c \in Callers, Session!OperationStep(c)
  PROVE  Reported'
<1> USE DEF Reported, Whereabouts, ReportsAreComplete, Session!ReportsAreComplete, Session!Goto, Session!Leave,
            Session!work, Session!result
<1>1. CASE Session!runOperation(c)
  BY <1>1 DEF Session!runOperation, Session!FirstStep, Session!Operations
<1>2. CASE Session!Refused(c)
  BY <1>2 DEF Session!Refused
<1>3. CASE Session!beginExecution(c)
  BY <1>3 DEF Session!beginExecution
<1>4. CASE Session!maybeCompactContext(c)
  BY <1>4 DEF Session!maybeCompactContext
<1>5. CASE Session!compactContextInternal(c)
  BY <1>5 DEF Session!compactContextInternal
<1>6. CASE Session!markActive(c)
  BY <1>6 DEF Session!markActive
<1>7. CASE Session!open(c)
  BY <1>7 DEF Session!open, Session!Forgotten, Session!hasCheckpoint, Exclusive, Session!OperationSteps
<1>8. CASE Session!start(c)
  <2>1. \A d \in Callers : pc[d] = "start" => d = c
    BY <1>8 DEF Session!start, Exclusive, Session!OperationSteps
  <2> QED
    BY <1>8, <2>1 DEF Session!start
<1>9. CASE Session!streamEnds(c)
  BY <1>9 DEF Session!streamEnds
<1>10. CASE Session!ingestFindings(c)
  <2>1. \A d \in Callers : pc[d] # "start"
    BY <1>10 DEF Session!ingestFindings, Exclusive, Session!OperationSteps
  <2>2. contents' = {audit} /\ audit' = audit
    BY <1>10 DEF Session!ingestFindings
  <2> QED
    BY <1>10, <2>1, <2>2 DEF Session!ingestFindings
<1>11. CASE Session!recordMissionCompletion(c)
  BY <1>11 DEF Session!recordMissionCompletion
<1>12. CASE Session!markCompleted(c)
  BY <1>12 DEF Session!markCompleted
<1>13. CASE Session!restartMission(c)
  BY <1>13 DEF Session!restartMission
<1>14. CASE Session!OperationFails(c)
  BY <1>14 DEF Session!OperationFails
<1>15. CASE Session!generateReport(c)
  BY <1>15 DEF Session!generateReport
<1>16. CASE Session!setToolPolicy(c)
  BY <1>16 DEF Session!setToolPolicy
<1>17. CASE Session!recompileWorkflow(c)
  BY <1>17 DEF Session!recompileWorkflow
<1> QED
  BY <1>1, <1>2, <1>3, <1>4, <1>5, <1>6, <1>7, <1>8, <1>9, <1>10, <1>11, <1>12, <1>13, <1>14, <1>15, <1>16, <1>17
     DEF Session!OperationStep

\* The other steps of the session do.
LEMMA SessionKeepsReported ==
  ASSUME ~Swarm, Whereabouts, Exclusive, Reported, [Session!Next]_sessionVars
  PROVE  Reported'
<1> USE DEF Reported, ReportsAreComplete, Session!ReportsAreComplete, Session!work, Session!result
<1>1. CASE \E s \in {"done", "failed"} : Session!InitializationSettles(s)
  BY <1>1 DEF Session!InitializationSettles
<1>2. ASSUME NEW c \in Callers, NEW k \in Session!Kinds, Session!Enter(c, k)
      PROVE  Reported'
  BY <1>2 DEF Session!Enter, Whereabouts
<1>3. ASSUME NEW c \in Callers, Session!onReportBatch(c)
      PROVE  Reported'
  BY <1>3 DEF Session!onReportBatch
<1>4. CASE Session!Abort
  BY <1>4 DEF Session!Abort
<1>5. CASE Session!dispose
  BY <1>5 DEF Session!dispose
<1>6. CASE Session!disposeGoesOn
  BY <1>6 DEF Session!disposeGoesOn
<1>7. CASE UNCHANGED sessionVars
  BY <1>7 DEF sessionVars
<1> QED
  BY <1>1, <1>2, <1>3, <1>4, <1>5, <1>6, <1>7, CallKeepsReported DEF Session!Next

-----------------------------------------------------------------------------
\* The invariant of a session.
LEMMA SessionHolds == Spec => [](SessionTyped /\ Exclusive)
<1>1. Init => SessionTyped /\ Exclusive
  BY SessionPart, SessionBegins DEF Session!Init, Exclusive, Session!OperationSteps
<1>2. SessionTyped /\ Exclusive /\ [Next]_Everything => (SessionTyped /\ Exclusive)'
  BY SessionPart, SessionKeepsTypes, SessionKeepsExclusive DEF SessionTyped
<1> QED
  BY <1>1, <1>2, PTL DEF Spec, Everything

\* Two calls are never at work together, whoever waits for the initialization or is told to stop, and what the
\* tools use is cleaned up only when no call is at work.
THEOREM OneOperationAtATime == Spec => []OperationsAreExclusive
<1>1. Exclusive => OperationsAreExclusive
  BY SessionsAssumption DEF Session!SessionAssumption, Exclusive, OperationsAreExclusive,
     Session!OperationsAreExclusive
<1> QED
  BY <1>1, SessionHolds, PTL

\* Without a swarm, an exported report is of the last audit alone, and that audit has reported every finding: whatever
\* failed, was cancelled, continued or resumed before. With a swarm it may hold those of earlier missions.
THEOREM ReportsAreOfOneAudit ==
  ASSUME ~Swarm
  PROVE  Spec => []ReportsAreComplete
<1>1. Init => Reported
  BY SessionPart DEF Session!Init, Reported, ReportsAreComplete, Session!ReportsAreComplete, Session!NoReport
<1>2. SessionTyped /\ Exclusive /\ Reported /\ [Next]_Everything => Reported'
  BY SessionPart, SessionKeepsReported DEF SessionTyped
<1>3. Reported => ReportsAreComplete
  BY DEF Reported
<1> QED
  BY <1>1, <1>2, <1>3, SessionHolds, PTL DEF Spec, Everything

-----------------------------------------------------------------------------
(***************************************************************************)
(* The approvals of the user.                                              *)
(***************************************************************************)
\* The graph pauses exactly for the request of its checkpoint, that of the last tool call; while an operation is
\* under way there is no dialog; and a dialog shows the request of the checkpoint, if there is one.
Dialog ==
    /\ at \in {"tools", "resumeTools", "intervention"} => call \in Requests
    /\ at = "intervention" <=> paused # NoRequest
    /\ paused \in {NoRequest, call}
    /\ op # "none" => shown = NoRequest
    /\ op = "answered" => paused # NoRequest /\ answering = paused
    /\ shown # NoRequest /\ paused # NoRequest => shown = paused

\* A decision and a timer are about a request; and an approval that is not used up yet is one that the user gave
\* and for which no tool has run.
Approved ==
    /\ decision # "none" \/ timeout => signature \in Requests
    /\ decision = "approved" => runs[signature] < approvals[signature]
    /\ RunsAreApproved

\* Each step of the confirmations keeps the types.
LEMMA HumanKeepsTypes ==
  ASSUME Human!TypeOK, Dialog, [Human!Next]_humanVars
  PROVE  Human!TypeOK'
<1> NoRequest \notin Requests /\ MaxToolCalls \in Nat /\ MaxDisorders \in Nat
  BY SessionsAssumption DEF Human!ConfirmAssumption
<1> USE DEF Human!TypeOK, Human!service
<1>1. CASE Human!sendMessage
  BY <1>1 DEF Human!sendMessage
<1>2. ASSUME NEW r \in Requests, Human!AgentAsks(r)
      PROVE  Human!TypeOK'
  BY <1>2 DEF Human!AgentAsks
<1>3. CASE Human!AgentFinishes
  BY <1>3 DEF Human!AgentFinishes
<1>4. CASE Human!UseDecision
  <2>0. call \in Requests
    BY <1>4 DEF Human!UseDecision, Dialog
  <2>1. runs' \in [Requests -> Nat]
    BY <1>4, <2>0 DEF Human!UseDecision
  <2> QED
    BY <1>4, <2>1 DEF Human!UseDecision, Human!Forget
<1>5. CASE Human!RefuseSecond
  BY <1>5 DEF Human!RefuseSecond
<1>6. CASE Human!Ask
  BY <1>6 DEF Human!Ask
<1>7. CASE Human!Pause
  BY <1>7 DEF Human!Pause
<1>8. CASE Human!TimeoutDenies
  BY <1>8 DEF Human!TimeoutDenies
<1>9. ASSUME NEW a \in {"approved", "denied"}, Human!Answer(a)
      PROVE  Human!TypeOK'
  <2>1. timeout' \in BOOLEAN
    BY <1>9 DEF Human!Answer
  <2>2. approvals' \in [Requests -> Nat]
    BY <1>9 DEF Human!Answer
  <2> QED
    BY <1>9, <2>1, <2>2 DEF Human!Answer
<1>10. CASE Human!ResumeGraph
  BY <1>10 DEF Human!ResumeGraph
<1>11. CASE Human!OperationFails
  <2>1. shown' \in Requests \cup {NoRequest}
    BY <1>11 DEF Human!OperationFails
  <2> QED
    BY <1>11, <2>1 DEF Human!OperationFails
<1>12. CASE Human!Restart
  <2>1. timeout' \in BOOLEAN
    BY <1>12 DEF Human!Restart, Human!Forget
  <2> QED
    BY <1>12, <2>1 DEF Human!Restart, Human!Forget
<1>13. CASE UNCHANGED humanVars
  BY <1>13 DEF humanVars
<1> QED
  BY <1>1, <1>2, <1>3, <1>4, <1>5, <1>6, <1>7, <1>8, <1>9, <1>10, <1>11, <1>12, <1>13
     DEF Human!Next, Human!ServiceNext, Human!humanVars, humanVars

\* Each keeps the dialog and the graph together.
LEMMA HumanKeepsDialog ==
  ASSUME Human!TypeOK, Dialog, [Human!Next]_humanVars
  PROVE  Dialog'
<1> NoRequest \notin Requests
  BY SessionsAssumption DEF Human!ConfirmAssumption
<1> USE DEF Human!TypeOK, Human!service, Dialog
<1>1. CASE Human!sendMessage
  BY <1>1 DEF Human!sendMessage
<1>2. ASSUME NEW r \in Requests, Human!AgentAsks(r)
      PROVE  Dialog'
  BY <1>2 DEF Human!AgentAsks
<1>3. CASE Human!AgentFinishes
  BY <1>3 DEF Human!AgentFinishes
<1>4. CASE Human!UseDecision
  BY <1>4 DEF Human!UseDecision, Human!Forget
<1>5. CASE Human!RefuseSecond
  BY <1>5 DEF Human!RefuseSecond
<1>6. CASE Human!Ask
  BY <1>6 DEF Human!Ask
<1>7. CASE Human!Pause
  BY <1>7 DEF Human!Pause
<1>8. CASE Human!TimeoutDenies
  BY <1>8 DEF Human!TimeoutDenies
<1>9. ASSUME NEW a \in {"approved", "denied"}, Human!Answer(a)
      PROVE  Dialog'
  BY <1>9 DEF Human!Answer, Human!Resolvable
<1>10. CASE Human!ResumeGraph
  BY <1>10 DEF Human!ResumeGraph
<1>11. CASE Human!OperationFails
  BY <1>11 DEF Human!OperationFails
<1>12. CASE Human!Restart
  BY <1>12 DEF Human!Restart, Human!Forget
<1>13. CASE UNCHANGED humanVars
  BY <1>13 DEF humanVars
<1> QED
  BY <1>1, <1>2, <1>3, <1>4, <1>5, <1>6, <1>7, <1>8, <1>9, <1>10, <1>11, <1>12, <1>13
     DEF Human!Next, Human!ServiceNext, Human!humanVars, humanVars

\* Each keeps every run behind an approval.
LEMMA HumanKeepsApproved ==
  ASSUME Human!TypeOK, Dialog, Approved, [Human!Next]_humanVars
  PROVE  Approved'
<1> NoRequest \notin Requests
  BY SessionsAssumption DEF Human!ConfirmAssumption
<1> USE DEF Human!TypeOK, Human!service, Approved, RunsAreApproved, Human!RunsAreApproved
<1>1. CASE Human!sendMessage
  BY <1>1 DEF Human!sendMessage
<1>2. ASSUME NEW r \in Requests, Human!AgentAsks(r)
      PROVE  Approved'
  BY <1>2 DEF Human!AgentAsks
<1>3. CASE Human!AgentFinishes
  BY <1>3 DEF Human!AgentFinishes
<1>4. CASE Human!UseDecision
  <2>1. call \in Requests /\ signature = call
    BY <1>4 DEF Human!UseDecision, Dialog
  <2>2. approvals' = approvals /\ decision' = "none" /\ ~timeout'
    BY <1>4 DEF Human!UseDecision, Human!Forget
  <2>3. \A r \in Requests : runs'[r] <= approvals[r]
    BY <1>4, <2>1 DEF Human!UseDecision
  <2> QED
    BY <2>2, <2>3
<1>5. CASE Human!RefuseSecond
  BY <1>5 DEF Human!RefuseSecond
<1>6. CASE Human!Ask
  BY <1>6 DEF Human!Ask, Dialog
<1>7. CASE Human!Pause
  BY <1>7 DEF Human!Pause
<1>8. CASE Human!TimeoutDenies
  BY <1>8 DEF Human!TimeoutDenies
<1>9. ASSUME NEW a \in {"approved", "denied"}, Human!Answer(a)
      PROVE  Approved'
  <2>1. CASE Human!Resolvable(a)
    <3>1. paused \in Requests /\ shown = paused
      BY <1>9, <2>1 DEF Human!Answer, Human!Resolvable, Dialog
    <3>2. signature' = paused /\ decision' = a /\ runs' = runs
      BY <1>9, <2>1 DEF Human!Answer
    <3>3. approvals' = IF a = "approved" THEN [approvals EXCEPT ![paused] = @ + 1] ELSE approvals
      BY <1>9, <2>1, <3>1 DEF Human!Answer
    <3>4. \A r \in Requests : runs[r] <= approvals'[r]
      BY <3>3
    <3>5. a = "approved" => runs[paused] < approvals'[paused]
      BY <3>1, <3>3
    <3> QED
      BY <3>1, <3>2, <3>4, <3>5
  <2>2. CASE ~Human!Resolvable(a)
    BY <1>9, <2>2 DEF Human!Answer
  <2> QED
    BY <2>1, <2>2
<1>10. CASE Human!ResumeGraph
  BY <1>10 DEF Human!ResumeGraph
<1>11. CASE Human!OperationFails
  BY <1>11 DEF Human!OperationFails
<1>12. CASE Human!Restart
  BY <1>12 DEF Human!Restart, Human!Forget
<1>13. CASE UNCHANGED humanVars
  BY <1>13 DEF humanVars
<1> QED
  BY <1>1, <1>2, <1>3, <1>4, <1>5, <1>6, <1>7, <1>8, <1>9, <1>10, <1>11, <1>12, <1>13
     DEF Human!Next, Human!ServiceNext, Human!humanVars, humanVars

\* The invariant of the confirmations.
LEMMA HumanHolds == Spec => [](Human!TypeOK /\ Dialog /\ Approved)
<1>1. Init => Human!TypeOK /\ Dialog /\ Approved
  <2>1. NoRequest \notin Requests /\ MaxToolCalls \in Nat /\ MaxDisorders \in Nat
    BY SessionsAssumption DEF Human!ConfirmAssumption
  <2>2. Human!Init => Human!TypeOK
    <3> SUFFICES ASSUME Human!Init PROVE Human!TypeOK
      OBVIOUS
    <3>1. timeout \in BOOLEAN
      BY DEF Human!Init
    <3>2. approvals \in [Requests -> Nat] /\ runs \in [Requests -> Nat]
      BY DEF Human!Init
    <3>3. toolCalls \in 0..MaxToolCalls /\ disorders \in 0..MaxDisorders
      BY <2>1 DEF Human!Init
    <3> QED
      BY <3>1, <3>2, <3>3 DEF Human!Init, Human!TypeOK
  <2>3. Human!Init => Dialog
    BY DEF Human!Init, Dialog
  <2>4. Human!Init => Approved
    BY DEF Human!Init, Approved, RunsAreApproved, Human!RunsAreApproved
  <2> QED
    BY <2>2, <2>3, <2>4, HumanPart
<1>2. Human!TypeOK /\ Dialog /\ Approved /\ [Next]_Everything => (Human!TypeOK /\ Dialog /\ Approved)'
  BY HumanPart, HumanKeepsTypes, HumanKeepsDialog, HumanKeepsApproved
<1> QED
  BY <1>1, <1>2, PTL DEF Spec, Everything

\* A tool that needs approval runs at most as often as the user, with that very request on the screen, said yes: no
\* timeout, repeated request, failed resume or restart makes an approval, and none is used twice.
THEOREM ApprovalsAreSpentOnce == Spec => []RunsAreApproved
<1>1. Approved => RunsAreApproved
  BY DEF Approved
<1> QED
  BY <1>1, HumanHolds, PTL

\* The dialog shows the request that the graph waits for, and an answer under way is to that request.
THEOREM DialogIsOfTheGraph == Spec => []Dialog
BY HumanHolds, PTL

-----------------------------------------------------------------------------
(***************************************************************************)
(* The proxy of a worker.                                                  *)
(***************************************************************************)
\* The types of the proxy and of the worker, and the requests that are on their way to it.
ProxyTyped == Proxy!TypeOK /\ toWorker \in Seq(1..Len(what))

\* Every request that is open is one the proxy waits for, that of the shutdown apart; and once it shuts down it
\* waits for nothing else, but never for the end of a shutdown before.
OpenIsPending ==
    /\ \A r \in DOMAIN promise : promise[r] = "open" /\ what[r] # "shutdown" => r \in pending
    /\ \A r \in pending : what[r] = "shutdown" <=> shutdown # "none"

\* A request is appended to those before it.
LEMMA RequestIs ==
  ASSUME ProxyTyped, NEW type \in {"init", "send", "resume", "shutdown"}, Proxy!Request(type)
  PROVE  /\ what' \in Seq({"init", "send", "resume", "shutdown"}) /\ Len(what') = Len(what) + 1
         /\ Len(what) \in Nat /\ Len(what') \in 1..MaxRequests
         /\ what'[Len(what) + 1] = type /\ \A r \in 1..Len(what) : what'[r] = what[r]
         /\ toWorker' \in Seq(1..Len(what'))
<1> MaxRequests \in Nat
  BY SessionsAssumption DEF Proxy!ProxyAssumption
<1>1. what \in Seq({"init", "send", "resume", "shutdown"}) /\ Len(what) \in Nat /\ Len(what) < MaxRequests
  BY DEF ProxyTyped, Proxy!TypeOK, Proxy!Request
<1>2. what' = Append(what, type)
  BY DEF Proxy!Request
<1>3. toWorker' = Append(toWorker, Len(what) + 1) /\ toWorker \in Seq(1..Len(what))
  BY DEF Proxy!Request, ProxyTyped
<1>4. toWorker \in Seq(1..(Len(what) + 1))
  BY <1>1, <1>3
<1> QED
  BY <1>1, <1>2, <1>3, <1>4

\* The steps that append no request leave the requests as they are, and their channel as it is or shorter.
LEMMA ShorterChannel ==
  ASSUME ProxyTyped, toWorker # <<>>
  PROVE  Head(toWorker) \in 1..Len(what) /\ Tail(toWorker) \in Seq(1..Len(what))
BY DEF ProxyTyped

\* Each step of the proxy and of the worker keeps the types.
LEMMA ProxyKeepsTypes ==
  ASSUME ProxyTyped, [Proxy!Next]_proxyVars
  PROVE  ProxyTyped'
<1> USE DEF Proxy!closing, Proxy!thread
<1> MaxRequests \in Nat \ {0, 1}
  BY SessionsAssumption DEF Proxy!ProxyAssumption
<1>a. /\ what \in Seq({"init", "send", "resume", "shutdown"}) /\ Len(what) \in 1..MaxRequests /\ Len(what) \in Nat
      /\ promise \in [1..Len(what) -> {"open", "resolved", "rejected"}]
      /\ pending \subseteq 1..Len(what) /\ job \in 0..Len(what)
      /\ toWorker \in Seq(1..Len(what))
  BY DEF ProxyTyped, Proxy!TypeOK, Proxy!RequestIds
<1>b. ASSUME NEW S, NEW how \in {"resolved", "rejected"}
      PROVE  Proxy!Settle(S, how) \in [1..Len(what) -> {"open", "resolved", "rejected"}]
  BY <1>a DEF Proxy!Settle
<1>c. ASSUME NEW p \in [1..Len(what) -> {"open", "resolved", "rejected"}]
      PROVE  Append(p, "open") \in [1..(Len(what) + 1) -> {"open", "resolved", "rejected"}]
  <2>1. p \in Seq({"open", "resolved", "rejected"}) /\ Len(p) = Len(what)
    BY <1>a
  <2>2. Append(p, "open") \in Seq({"open", "resolved", "rejected"}) /\ Len(Append(p, "open")) = Len(what) + 1
    BY <2>1
  <2> QED
    BY <2>2, LenProperties
<1>1. ASSUME NEW type \in {"send", "resume"}, Proxy!startRequest(type)
      PROVE  ProxyTyped'
  <2>1. /\ what' \in Seq({"init", "send", "resume", "shutdown"}) /\ Len(what') = Len(what) + 1
        /\ Len(what') \in 1..MaxRequests /\ toWorker' \in Seq(1..Len(what'))
    BY <1>1, RequestIs DEF Proxy!startRequest
  <2>2. promise' \in [1..Len(what') -> {"open", "resolved", "rejected"}]
    BY <1>1, <1>a, <1>c, <2>1 DEF Proxy!startRequest
  <2>3. pending' \subseteq 1..Len(what') /\ job' \in 0..Len(what')
    BY <1>1, <1>a, <2>1 DEF Proxy!startRequest
  <2>4. pause' \in BOOLEAN /\ timer' \in BOOLEAN /\ alive' \in BOOLEAN /\ waiting' \in BOOLEAN
    BY <1>1 DEF Proxy!startRequest, ProxyTyped, Proxy!TypeOK
  <2> QED
    BY <1>1, <2>1, <2>2, <2>3, <2>4 DEF Proxy!startRequest, ProxyTyped, Proxy!TypeOK, Proxy!RequestIds
<1>2. CASE Proxy!BeginShutdown
  <2>1. /\ what' \in Seq({"init", "send", "resume", "shutdown"}) /\ Len(what') = Len(what) + 1
        /\ Len(what') \in 1..MaxRequests /\ toWorker' \in Seq(1..Len(what'))
    BY <1>2, RequestIs DEF Proxy!BeginShutdown
  <2>2. promise' \in [1..Len(what') -> {"open", "resolved", "rejected"}]
    BY <1>2, <1>b, <1>c, <2>1 DEF Proxy!BeginShutdown
  <2>3. pending' \subseteq 1..Len(what') /\ job' \in 0..Len(what')
    BY <1>2, <1>a, <2>1 DEF Proxy!BeginShutdown
  <2>4. pause' \in BOOLEAN /\ timer' \in BOOLEAN /\ alive' \in BOOLEAN /\ waiting' \in BOOLEAN
    BY <1>2 DEF Proxy!BeginShutdown, ProxyTyped, Proxy!TypeOK
  <2> QED
    BY <1>2, <2>1, <2>2, <2>3, <2>4 DEF Proxy!BeginShutdown, ProxyTyped, Proxy!TypeOK, Proxy!RequestIds
<1> USE DEF ProxyTyped, Proxy!TypeOK
<1>3. CASE Proxy!ShutdownTimesOut
  BY <1>3 DEF Proxy!ShutdownTimesOut
<1>4. CASE Proxy!Terminate
  <2>1. promise' \in [1..Len(what) -> {"open", "resolved", "rejected"}]
    BY <1>4, <1>b DEF Proxy!Terminate, Proxy!RejectAll
  <2>2. timer' \in BOOLEAN /\ alive' \in BOOLEAN
    BY <1>4 DEF Proxy!Terminate, Proxy!RejectAll
  <2>3. job' \in 0..Len(what) /\ pending' \subseteq 1..Len(what)
    BY <1>4, <1>a DEF Proxy!Terminate, Proxy!RejectAll
  <2> QED
    BY <1>4, <2>1, <2>2, <2>3 DEF Proxy!Terminate
<1>5. CASE Proxy!dispatch
  <2>1. promise' \in [1..Len(what) -> {"open", "resolved", "rejected"}]
    BY <1>5, <1>b DEF Proxy!dispatch
  <2>2. pause' \in BOOLEAN
    BY <1>5 DEF Proxy!dispatch
  <2>3. timer' \in BOOLEAN
    BY <1>5 DEF Proxy!dispatch
  <2>4. pending' \subseteq 1..Len(what) /\ shutdown' \in {"none", "waiting", "terminate", "over"}
    BY <1>5 DEF Proxy!dispatch
  <2> QED
    BY <1>5, <2>1, <2>2, <2>3, <2>4 DEF Proxy!dispatch
<1>6. ASSUME NEW r \in Proxy!RequestIds, Proxy!ReceiveInit(r)
      PROVE  ProxyTyped'
  BY <1>6, ShorterChannel DEF Proxy!ReceiveInit, Proxy!Receive
<1>7. ASSUME NEW r \in Proxy!RequestIds, Proxy!ReceiveOperation(r)
      PROVE  ProxyTyped'
  <2>1. r \in 1..Len(what) /\ toWorker' \in Seq(1..Len(what))
    BY <1>7, ShorterChannel DEF Proxy!ReceiveOperation, Proxy!Receive
  <2>2. job' \in 0..Len(what)
    BY <1>7, <1>a, <2>1 DEF Proxy!ReceiveOperation
  <2>3. waiting' \in BOOLEAN
    BY <1>7 DEF Proxy!ReceiveOperation
  <2> QED
    BY <1>7, <2>1, <2>2, <2>3 DEF Proxy!ReceiveOperation
<1>8. ASSUME NEW r \in Proxy!RequestIds, Proxy!ReceiveShutdown(r)
      PROVE  ProxyTyped'
  BY <1>8, ShorterChannel DEF Proxy!ReceiveShutdown, Proxy!Receive
<1>9. ASSUME NEW outcome \in {"ready", "failed"}, Proxy!AgentStarts(outcome)
      PROVE  ProxyTyped'
  BY <1>9 DEF Proxy!AgentStarts
<1>10. CASE Proxy!OperationPauses
  BY <1>10 DEF Proxy!OperationPauses
<1>11. ASSUME NEW type \in {"done", "error"}, Proxy!OperationEnds(type)
      PROVE  ProxyTyped'
  BY <1>11 DEF Proxy!OperationEnds
<1>12. CASE Proxy!Disposed
  BY <1>12 DEF Proxy!Disposed
<1>13. CASE Proxy!ThreadDies
  <2>1. promise' \in [1..Len(what) -> {"open", "resolved", "rejected"}]
    BY <1>13, <1>b DEF Proxy!ThreadDies, Proxy!RejectAll
  <2>2. timer' \in BOOLEAN /\ alive' \in BOOLEAN
    BY <1>13 DEF Proxy!ThreadDies, Proxy!RejectAll
  <2>3. job' \in 0..Len(what) /\ pending' \subseteq 1..Len(what)
    BY <1>13, <1>a DEF Proxy!ThreadDies, Proxy!RejectAll
  <2> QED
    BY <1>13, <2>1, <2>2, <2>3 DEF Proxy!ThreadDies
<1>14. CASE Proxy!RefuseResume
  BY <1>14 DEF Proxy!RefuseResume
<1>15. CASE UNCHANGED proxyVars
  BY <1>15 DEF proxyVars
<1> QED
  BY <1>1, <1>2, <1>3, <1>4, <1>5, <1>6, <1>7, <1>8, <1>9, <1>10, <1>11, <1>12, <1>13, <1>14, <1>15
     DEF Proxy!Next, Proxy!Step

\* Each keeps the open requests among those the proxy waits for.
LEMMA ProxyKeepsOpen ==
  ASSUME ProxyTyped, OpenIsPending, [Proxy!Next]_proxyVars
  PROVE  OpenIsPending'
<1> USE DEF OpenIsPending, Proxy!closing, Proxy!thread
<1>a. /\ DOMAIN promise = 1..Len(what) /\ Len(what) \in Nat /\ pending \subseteq 1..Len(what)
      /\ promise \in Seq({"open", "resolved", "rejected"}) /\ Len(promise) = Len(what)
  BY DEF ProxyTyped, Proxy!TypeOK, Proxy!RequestIds
<1>b. ASSUME NEW type \in {"init", "send", "resume", "shutdown"}, Proxy!Request(type), NEW p,
             p \in [1..Len(what) -> {"open", "resolved", "rejected"}],
             \A r \in 1..Len(what) : p[r] = "open" => what[r] = "shutdown",
             promise' = Append(p, "open"), pending' = {Len(what) + 1}
      PROVE  \A r \in DOMAIN promise' : promise'[r] = "open" /\ what'[r] # "shutdown" => r \in pending'
  <2>1. p \in Seq({"open", "resolved", "rejected"}) /\ Len(p) = Len(what)
    BY <1>a, <1>b
  <2>2. DOMAIN promise' = 1..(Len(what) + 1) /\ \A r \in 1..Len(what) : promise'[r] = p[r]
    BY <1>a, <1>b, <2>1
  <2>3. \A r \in 1..Len(what) : what'[r] = what[r]
    BY <1>b, RequestIs
  <2> QED
    BY <1>a, <1>b, <2>2, <2>3
<1>1. ASSUME NEW type \in {"send", "resume"}, Proxy!startRequest(type)
      PROVE  OpenIsPending'
  <2>1. \A r \in 1..Len(what) : promise[r] = "open" => what[r] = "shutdown"
    BY <1>1, <1>a DEF Proxy!startRequest
  <2>2. promise \in [1..Len(what) -> {"open", "resolved", "rejected"}]
    BY <1>a
  <2>3. \A r \in DOMAIN promise' : promise'[r] = "open" /\ what'[r] # "shutdown" => r \in pending'
    BY <1>1, <1>b, <2>1, <2>2 DEF Proxy!startRequest
  <2>4. what'[Len(what) + 1] = type
    BY <1>1, RequestIs DEF Proxy!startRequest
  <2> QED
    BY <1>1, <2>3, <2>4 DEF Proxy!startRequest
<1>2. CASE Proxy!BeginShutdown
  <2> DEFINE p == Proxy!Settle(pending, "rejected")
  <2>1. p \in [1..Len(what) -> {"open", "resolved", "rejected"}]
    BY <1>a DEF Proxy!Settle
  <2>2. \A r \in 1..Len(what) : p[r] = "open" => what[r] = "shutdown"
    BY <1>a DEF Proxy!Settle
  <2>3. \A r \in DOMAIN promise' : promise'[r] = "open" /\ what'[r] # "shutdown" => r \in pending'
    <3> HIDE DEF p
    <3> QED
      BY <1>2, <1>b, <2>1, <2>2 DEF Proxy!BeginShutdown, p
  <2>4. what'[Len(what) + 1] = "shutdown"
    BY <1>2, RequestIs DEF Proxy!BeginShutdown
  <2> QED
    BY <1>2, <2>3, <2>4 DEF Proxy!BeginShutdown
<1>3. CASE Proxy!ShutdownTimesOut
  BY <1>3 DEF Proxy!ShutdownTimesOut
<1>4. CASE Proxy!Terminate
  BY <1>4, <1>a DEF Proxy!Terminate, Proxy!RejectAll, Proxy!Settle
<1>5. CASE Proxy!dispatch
  <2> DEFINE r == Head(toProxy).request
  <2>1. CASE r \notin pending
    BY <1>5, <2>1 DEF Proxy!dispatch
  <2>2. CASE r \in pending
    <3>1. PICK how \in {"resolved", "rejected"} : promise' = Proxy!Settle({r}, how)
      BY <1>5, <2>2 DEF Proxy!dispatch
    <3>2. pending' = pending \ {r} /\ what' = what
      BY <1>5, <2>2 DEF Proxy!dispatch
    <3>3. \A q \in DOMAIN promise' : promise'[q] = "open" => q # r /\ q \in DOMAIN promise /\ promise[q] = "open"
      BY <3>1 DEF Proxy!Settle
    <3>4. shutdown' # "none" <=> shutdown # "none"
      BY <1>5, <2>2 DEF Proxy!dispatch
    <3> QED
      BY <3>2, <3>3, <3>4
  <2> QED
    BY <2>1, <2>2
<1>6. ASSUME NEW r \in Proxy!RequestIds, Proxy!ReceiveInit(r)
      PROVE  OpenIsPending'
  BY <1>6 DEF Proxy!ReceiveInit
<1>7. ASSUME NEW r \in Proxy!RequestIds, Proxy!ReceiveOperation(r)
      PROVE  OpenIsPending'
  BY <1>7 DEF Proxy!ReceiveOperation
<1>8. ASSUME NEW r \in Proxy!RequestIds, Proxy!ReceiveShutdown(r)
      PROVE  OpenIsPending'
  BY <1>8 DEF Proxy!ReceiveShutdown
<1>9. ASSUME NEW outcome \in {"ready", "failed"}, Proxy!AgentStarts(outcome)
      PROVE  OpenIsPending'
  BY <1>9 DEF Proxy!AgentStarts
<1>10. CASE Proxy!OperationPauses
  BY <1>10 DEF Proxy!OperationPauses
<1>11. ASSUME NEW type \in {"done", "error"}, Proxy!OperationEnds(type)
      PROVE  OpenIsPending'
  BY <1>11 DEF Proxy!OperationEnds
<1>12. CASE Proxy!Disposed
  BY <1>12 DEF Proxy!Disposed
<1>13. CASE Proxy!ThreadDies
  BY <1>13, <1>a DEF Proxy!ThreadDies, Proxy!RejectAll, Proxy!Settle
<1>14. CASE Proxy!RefuseResume
  BY <1>14 DEF Proxy!RefuseResume
<1>15. CASE UNCHANGED proxyVars
  BY <1>15 DEF proxyVars
<1> QED
  BY <1>1, <1>2, <1>3, <1>4, <1>5, <1>6, <1>7, <1>8, <1>9, <1>10, <1>11, <1>12, <1>13, <1>14, <1>15
     DEF Proxy!Next, Proxy!Step

\* The invariant of the proxy.
LEMMA ProxyHolds == Spec => [](ProxyTyped /\ OpenIsPending)
<1>1. Init => ProxyTyped /\ OpenIsPending
  <2>1. MaxRequests \in Nat \ {0, 1}
    BY SessionsAssumption DEF Proxy!ProxyAssumption
  <2>2. Proxy!Init => ProxyTyped
    <3> SUFFICES ASSUME Proxy!Init PROVE ProxyTyped
      OBVIOUS
    <3>1. what \in Seq({"init", "send", "resume", "shutdown"}) /\ Len(what) = 1 /\ 1 \in 1..MaxRequests
      BY <2>1 DEF Proxy!Init
    <3>2. promise \in [1..1 -> {"open", "resolved", "rejected"}]
      BY DEF Proxy!Init
    <3>3. pending \subseteq 1..1 /\ job \in 0..1 /\ toWorker \in Seq(1..1)
      BY DEF Proxy!Init
    <3>4. pause \in BOOLEAN /\ timer \in BOOLEAN /\ alive \in BOOLEAN /\ waiting \in BOOLEAN
      BY DEF Proxy!Init
    <3> QED
      BY <3>1, <3>2, <3>3, <3>4 DEF Proxy!Init, ProxyTyped, Proxy!TypeOK, Proxy!RequestIds
  <2>3. Proxy!Init => OpenIsPending
    BY DEF Proxy!Init, OpenIsPending
  <2> QED
    BY <2>2, <2>3, ProxyPart
<1>2. ProxyTyped /\ OpenIsPending /\ [Next]_Everything => (ProxyTyped /\ OpenIsPending)'
  BY ProxyPart, ProxyKeepsTypes, ProxyKeepsOpen
<1> QED
  BY <1>1, <1>2, PTL DEF Spec, Everything

\* The proxy never forgets a request it has not answered, whatever the order of messages, deaths and shutdowns: one
\* that is open is one it waits for, so that the death of the thread or the shutdown rejects it.
THEOREM RequestsAreRemembered == Spec => []OpenIsPending
BY ProxyHolds, PTL

-----------------------------------------------------------------------------
\* All the variables have their types: an audit and a change of the policy have a call each, the requests of the proxy
\* their promises, and the counters their bounds.
THEOREM SessionsTyped == Spec => []TypesOK
<1>1. SessionTyped => Session!TypeOK
  BY TypeIs DEF SessionTyped
<1>2. ProxyTyped => Proxy!TypeOK
  BY DEF ProxyTyped
<1>3. SessionTyped /\ Human!TypeOK /\ ProxyTyped => TypesOK
  BY <1>1, <1>2 DEF TypesOK
<1> QED
  BY <1>3, SessionHolds, HumanHolds, ProxyHolds, PTL
=============================================================================
