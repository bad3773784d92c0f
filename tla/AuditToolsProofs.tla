-------------------------- MODULE AuditToolsProofs --------------------------
(***************************************************************************)
(* What is proved of the tools of an audit and of what opens its session,  *)
(* for every number of servers, commands, patches, files, findings, tasks  *)
(* and components, whatever else a behaviour may be about: types, and the  *)
(* properties that the runs of AuditMC check of these parts.               *)
(*                                                                         *)
(* Each part takes its own steps or none, and has an inductive invariant   *)
(* of its own; the behaviour of AuditTools is about one of them, and what  *)
(* it promises follows from what each part does.                           *)
(***************************************************************************)
EXTENDS AuditTools, FiniteSetTheorems, SequenceTheorems, WellFoundedInduction, TLAPS

-----------------------------------------------------------------------------
\* The sandbox (sandbox-manager.ts).

\* The sandbox begins as it does by itself, and takes its own steps or none.
LEMMA BoxPart ==
    /\ ToolsInit => Box!Init
    /\ [ToolsNext]_toolsVars => [Box!Next]_boxVars
BY DEF ToolsInit, ToolsNext, toolsVars, OtherTools

\* What is in Docker and on the host at each step of create.
CreatedSoFar ==
    /\ boxPc \in Box!Creating => workspaceRoot \in workspaces
    /\ boxPc \in {"mirage", "create", "start", "inspect"} => network = "up"
    /\ boxPc \in {"create", "start", "inspect"} => mirageRunning
    /\ boxPc = "inspect" => boxTarget = "up"
    /\ mirageRunning => mirage = "up" /\ network = "up"

\* What is gone at each step of the destroy of the session, if no removal has failed.
RemovedSoFar ==
    /\ boxPc \in {"disposeMirage", "disposeNetwork", "disposeWorkspace", "disposed"} /\ ~left => boxTarget = "none"
    /\ boxPc \in {"disposeNetwork", "disposeWorkspace", "disposed"} /\ ~left => mirage = "none"
    /\ boxPc \in {"disposeWorkspace", "disposed"} /\ ~left => network = "none"
    /\ boxPc \in {"rmNetwork", "disposeNetwork"} => ~mirageRunning
    /\ boxPc = "disposed" /\ ~left => workspaceRoot = 0
    /\ workspaces \subseteq abandoned \cup {workspaceRoot}

\* Types, and where create may be while the target runs.
BoxTyped ==
    /\ Box!TypeOK /\ creates \in 0..MaxCreates
    /\ boxRunning => boxPc \in {"idle", "disposeTarget", "disposeMirage", "disposeNetwork"}

\* The inductive invariant of the sandbox.
BoxInv == BoxTyped /\ CreatedSoFar /\ RemovedSoFar /\ Box!RunningIsIsolated

\* Each step of the sandbox keeps its invariant.
LEMMA BoxStep == BoxInv /\ [Box!Next]_boxVars => BoxInv'
<1> SUFFICES ASSUME BoxInv, [Box!Next]_boxVars PROVE BoxInv'
  OBVIOUS
<1>0. MaxCreates \in Nat
  BY ToolsAssumption DEF ToolsAssumption, Box!SandboxAssumption
<1> USE DEF BoxInv, BoxTyped, Box!TypeOK, CreatedSoFar, RemovedSoFar, Box!RunningIsIsolated, Box!Creating, Box!Removing,
            Box!Disposing, Box!dockerVars, Box!sessionVars, Box!AfterFailure
<1>1. CASE Box!sandbox_deploy
  <2>1. /\ boxPc = "idle" /\ ~boxRunning /\ creates < MaxCreates /\ creates' = creates + 1
        /\ workspaceRoot' = creates + 1 /\ workspaces' = workspaces \cup {creates + 1}
        /\ abandoned' = IF workspaceRoot = 0 THEN abandoned ELSE abandoned \cup {workspaceRoot}
        /\ boxPc' = "copy" /\ UNCHANGED <<network, mirage, boxTarget, boxRunning, mirageRunning, left>>
    BY <1>1 DEF Box!sandbox_deploy
  <2>2. creates + 1 \in 1..MaxCreates /\ 0 \notin workspaces
    BY <2>1, <1>0
  <2>3. BoxTyped'
    BY <2>1, <2>2, <1>0
  <2>4. CreatedSoFar' /\ RemovedSoFar' /\ Box!RunningIsIsolated'
    BY <2>1, <2>2
  <2> QED
    BY <2>3, <2>4
<1>2. CASE Box!SourcesCopied
  BY <1>2 DEF Box!SourcesCopied
<1>3. CASE Box!NetworkCreated
  BY <1>3 DEF Box!NetworkCreated
<1>4. CASE Box!MirageStarted
  BY <1>4 DEF Box!MirageStarted
<1>5. CASE Box!TargetCreated
  BY <1>5 DEF Box!TargetCreated
<1>6. CASE Box!TargetStarted
  BY <1>6 DEF Box!TargetStarted
<1>7. CASE Box!TargetInspected
  <2>1. BoxTyped'
    <3>1. /\ boxPc = "inspect" /\ UNCHANGED <<network, mirage, boxTarget, workspaces, mirageRunning, workspaceRoot, abandoned, creates>>
          /\ \/ boxRunning' = TRUE /\ boxPc' = "idle"
             \/ boxRunning' = boxRunning /\ boxPc' = "rmTarget"
      BY <1>7 DEF Box!TargetInspected
    <3>2. boxRunning' \in BOOLEAN
      BY <3>1
    <3>3. ~boxRunning
      BY <3>1
    <3> QED
      BY <3>1, <3>2, <3>3
  <2>2. CreatedSoFar'
    BY <1>7 DEF Box!TargetInspected
  <2>3. RemovedSoFar'
    BY <1>7 DEF Box!TargetInspected
  <2>4. Box!RunningIsIsolated'
    BY <1>7 DEF Box!TargetInspected
  <2> QED
    BY <2>1, <2>2, <2>3, <2>4
<1>8. CASE Box!RemoveTarget
  BY <1>8 DEF Box!RemoveTarget, Box!From
<1>9. CASE Box!RemoveMirage
  <2>1. BoxTyped'
    BY <1>9 DEF Box!RemoveMirage, Box!From
  <2>2. CreatedSoFar'
    BY <1>9 DEF Box!RemoveMirage, Box!From
  <2>3. RemovedSoFar'
    BY <1>9 DEF Box!RemoveMirage, Box!From
  <2>4. Box!RunningIsIsolated'
    BY <1>9 DEF Box!RemoveMirage, Box!From
  <2> QED
    BY <2>1, <2>2, <2>3, <2>4
<1>10. CASE Box!RemoveNetwork
  <2>1. BoxTyped'
    BY <1>10 DEF Box!RemoveNetwork, Box!From
  <2>2. CreatedSoFar'
    BY <1>10 DEF Box!RemoveNetwork, Box!From
  <2>3. RemovedSoFar'
    BY <1>10 DEF Box!RemoveNetwork, Box!From
  <2>4. Box!RunningIsIsolated'
    BY <1>10 DEF Box!RemoveNetwork, Box!From
  <2> QED
    BY <2>1, <2>2, <2>3, <2>4
<1>11. CASE Box!RemoveWorkspace
  <2>0. /\ \/ boxPc = "rmWorkspace" /\ boxPc' = "idle"
           \/ boxPc = "disposeWorkspace" /\ boxPc' = "disposed"
        /\ \/ workspaces' = workspaces \ {workspaceRoot} /\ workspaceRoot' = 0 /\ UNCHANGED left
           \/ left' = TRUE /\ UNCHANGED <<workspaces, workspaceRoot>>
        /\ UNCHANGED <<network, mirage, boxTarget, boxRunning, mirageRunning, abandoned, creates>>
    BY <1>11 DEF Box!RemoveWorkspace, Box!From
  <2>1. BoxTyped'
    <3>1. 0 \in 0..MaxCreates
      BY <1>0
    <3>2. workspaceRoot' \in 0..MaxCreates /\ workspaces' \subseteq 1..MaxCreates
      BY <2>0, <3>1
    <3>3. boxPc' \in {"idle", "disposed"} /\ ~boxRunning'
      BY <2>0
    <3> QED
      BY <2>0, <3>2, <3>3
  <2>2. CreatedSoFar'
    BY <1>11 DEF Box!RemoveWorkspace, Box!From
  <2>3. RemovedSoFar'
    <3>1. workspaces' \subseteq abandoned' \cup {workspaceRoot'}
      BY <2>0
    <3>2. boxPc' = "disposed" /\ ~left' => workspaceRoot' = 0
      BY <2>0
    <3> QED
      BY <2>0, <3>1, <3>2
  <2>4. Box!RunningIsIsolated'
    BY <1>11 DEF Box!RemoveWorkspace, Box!From
  <2> QED
    BY <2>1, <2>2, <2>3, <2>4
<1>12. CASE Box!cleanup
  BY <1>12 DEF Box!cleanup, Box!DisposeFrom
<1>13. CASE Box!Crash \/ Box!Resume
  <2>1. BoxTyped'
    <3>1. workspaceRoot # 0 => workspaceRoot \in 1..MaxCreates
      BY <1>0
    <3>2. /\ abandoned' = IF workspaceRoot = 0 THEN abandoned ELSE abandoned \cup {workspaceRoot}
          /\ boxPc' = "idle" /\ boxRunning' = FALSE /\ mirageRunning' = FALSE /\ workspaceRoot' = 0
          /\ UNCHANGED <<network, mirage, boxTarget, workspaces, creates>>
      BY <1>13 DEF Box!Crash, Box!Resume, Box!NewSession
    <3>3. abandoned' \subseteq 1..MaxCreates
      BY <3>1, <3>2
    <3>4. 0 \in 0..MaxCreates
      BY <1>0
    <3> QED
      BY <3>2, <3>3, <3>4
  <2>2. CreatedSoFar'
    BY <1>13 DEF Box!Crash, Box!Resume, Box!NewSession
  <2>3. RemovedSoFar'
    BY <1>13 DEF Box!Crash, Box!Resume, Box!NewSession
  <2>4. Box!RunningIsIsolated'
    BY <1>13 DEF Box!Crash, Box!Resume, Box!NewSession
  <2> QED
    BY <2>1, <2>2, <2>3, <2>4
<1>14. CASE Box!Callback
  BY <1>14 DEF Box!Callback
<1>15. CASE Box!check_oast_logs
  BY <1>15 DEF Box!check_oast_logs
<1>16. CASE UNCHANGED boxVars
  BY <1>16 DEF boxVars
<1> QED
  BY <1>1, <1>2, <1>3, <1>4, <1>5, <1>6, <1>7, <1>8, <1>9, <1>10, <1>11, <1>12, <1>13, <1>14, <1>15, <1>16 DEF Box!Next

\* It begins with it.
LEMMA BoxBegins == Box!Init => BoxInv
<1> SUFFICES ASSUME Box!Init PROVE BoxInv
  OBVIOUS
<1>0. MaxCreates \in Nat
  BY ToolsAssumption DEF ToolsAssumption, Box!SandboxAssumption
<1>1. BoxTyped
  <2>1. boxRunning \in BOOLEAN /\ mirageRunning \in BOOLEAN
    BY DEF Box!Init
  <2>2. workspaceRoot \in 0..MaxCreates /\ creates \in 0..MaxCreates
    BY <1>0 DEF Box!Init
  <2> QED
    BY <2>1, <2>2 DEF Box!Init, BoxTyped, Box!TypeOK
<1>2. CreatedSoFar /\ RemovedSoFar /\ Box!RunningIsIsolated
  BY DEF Box!Init, CreatedSoFar, RemovedSoFar, Box!RunningIsIsolated, Box!Creating
<1> QED
  BY <1>1, <1>2 DEF BoxInv

\* Commands run only where all is that isolates them, and a session that was disposed of leaves nothing that it could
\* remove (sandbox-manager.ts).
THEOREM BoxHolds == ToolsSpec => [](Box!TypeOK /\ Box!SandboxIsSound)
<1>1. BoxInv => Box!TypeOK /\ Box!SandboxIsSound
  <2> SUFFICES ASSUME BoxInv PROVE Box!TypeOK /\ Box!SandboxIsSound
    OBVIOUS
  <2>1. Box!NothingIsLeft
    BY DEF BoxInv, BoxTyped, Box!TypeOK, RemovedSoFar, Box!NothingIsLeft
  <2> QED
    BY <2>1 DEF BoxInv, BoxTyped, Box!SandboxIsSound
<1> QED
  BY <1>1, BoxPart, BoxBegins, BoxStep, PTL DEF ToolsSpec

-----------------------------------------------------------------------------
\* The MCP servers (mcp-http-invoker.ts, mcp-policy.ts, manager.ts).

\* A connection to an MCP server begins as it does by itself, and takes its own steps or none.
LEMMA McpPart ==
    /\ ToolsInit => Mcp!Init
    /\ [ToolsNext]_toolsVars => [Mcp!Next]_mcpVars
BY DEF ToolsInit, ToolsNext, toolsVars, OtherTools

\* A server names a session once; the client knows one that was named, and calls in one that is initialized.
SessionsAreNamed ==
    /\ server = mcpRestarts + 1 /\ mcpRestarts \in 0..MaxRestarts
    /\ sessionId \in 0..server
    /\ initialization = "none" => sessionId = 0
    /\ initialization = "notification" => sessionId # 0
    /\ initialization = "done" => sessionId \in ready
    /\ \A c \in Callers : mcpPc[c] \in {"calling", "polling"} => initialization = "done"

\* What is invoked is allowed, and approved if the user has to be asked.
CallsAreAllowed == \A c \in Callers :
    /\ mcpPc[c] # "idle" /\ Mcp!tier(Mcp!policy, tool[c]) = "blocked" => mcpExpertUnsafe
    /\ mcpPc[c] \in {"invoking", "waiting", "calling", "polling"} /\ Mcp!tier(Mcp!policy, tool[c]) \in {"dangerous", "blocked"} =>
          mcpApproved[c]

\* Types.
McpTyped ==
    /\ Mcp!TypeOK /\ tool \in [Callers -> Offered]
    /\ mcpApproved \in [Callers -> BOOLEAN] /\ mcpExpertUnsafe \in BOOLEAN

\* The inductive invariant of a connection.
McpInv == McpTyped /\ SessionsAreNamed /\ CallsAreAllowed /\ Mcp!SessionsAreInitialized

\* A tool that is allowed is not blocked, or the mode is the unsafe one; and what may do damage is asked about.
LEMMA Evaluated ==
  ASSUME mcpExpertUnsafe \in BOOLEAN, NEW t \in Offered, NEW d, d = Mcp!evaluateMcpPolicy(Mcp!policy, t)
  PROVE  /\ d.allowed /\ Mcp!tier(Mcp!policy, t) = "blocked" => mcpExpertUnsafe
         /\ d.allowed /\ Mcp!tier(Mcp!policy, t) \in {"dangerous", "blocked"} => Mcp!Asks(t, d)
<1>1. /\ d.allowed = (Mcp!allowed(Mcp!policy, t) \/ mcpExpertUnsafe)
      /\ d.requiresConfirmation = (IF Mcp!allowed(Mcp!policy, t) THEN Mcp!requiresConfirmation(Mcp!policy, t) ELSE mcpExpertUnsafe)
      /\ d.warning = (IF Mcp!allowed(Mcp!policy, t) THEN Mcp!warning(Mcp!policy, t) ELSE mcpExpertUnsafe)
  BY DEF Mcp!evaluateMcpPolicy
<1> QED
  BY <1>1 DEF Mcp!allowed, Mcp!warning, Mcp!Asks

\* Each step of the callers, the server and the user keeps it.
LEMMA McpStep == McpInv /\ [Mcp!Next]_mcpVars => McpInv'
<1> SUFFICES ASSUME McpInv, [Mcp!Next]_mcpVars PROVE McpInv'
  OBVIOUS
<1>0. MaxPolls \in Nat /\ MaxCalls \in Nat /\ MaxRestarts \in Nat
  BY ToolsAssumption DEF ToolsAssumption, Mcp!McpAssumption
<1>p. Mcp!policy' = Mcp!policy /\ \A t : Mcp!tier(Mcp!policy, t)' = Mcp!tier(Mcp!policy, t)
  BY DEF Mcp!policy, Mcp!Stripped, Mcp!tier
<1> USE DEF McpInv, McpTyped, Mcp!TypeOK, Mcp!client, Mcp!network
<1>1. ASSUME NEW c \in Callers, NEW t \in Offered, Mcp!Execute(c, t) PROVE McpInv'
  <2> DEFINE d == Mcp!evaluateMcpPolicy(Mcp!policy, t)
  <2>1. /\ mcpPc[c] = "idle" /\ mcpCalls < MaxCalls /\ mcpCalls' = mcpCalls + 1
        /\ tool' = [tool EXCEPT ![c] = t]
        /\ mcpApproved' = [mcpApproved EXCEPT ![c] = FALSE] /\ polls' = [polls EXCEPT ![c] = 0]
        /\ mcpPc' = [mcpPc EXCEPT ![c] = IF ~d.allowed THEN "idle" ELSE IF Mcp!Asks(t, d) THEN "dialog" ELSE "invoking"]
        /\ answer' = [answer EXCEPT ![c] = IF d.allowed THEN "none" ELSE "denied"]
        /\ UNCHANGED <<mcpExpertUnsafe, initialization, initializer, sessionId, server, ready, mcpRestarts>>
    BY <1>1 DEF Mcp!Execute
  <2>2. /\ d.allowed /\ Mcp!tier(Mcp!policy, t) = "blocked" => mcpExpertUnsafe
        /\ d.allowed /\ Mcp!tier(Mcp!policy, t) \in {"dangerous", "blocked"} => Mcp!Asks(t, d)
    BY Evaluated
  <2> HIDE DEF d
  <2>3. mcpApproved' \in [Callers -> BOOLEAN]
    BY <2>1
  <2>4. McpTyped' /\ SessionsAreNamed'
    BY <2>1, <2>3, <1>0 DEF SessionsAreNamed
  <2>5. CallsAreAllowed'
    <3>1. ASSUME NEW e \in Callers, e # c PROVE mcpPc'[e] = mcpPc[e] /\ tool'[e] = tool[e] /\ mcpApproved'[e] = mcpApproved[e]
      BY <2>1, <3>1
    <3>2. tool'[c] = t /\ mcpPc'[c] = IF ~d.allowed THEN "idle" ELSE IF Mcp!Asks(t, d) THEN "dialog" ELSE "invoking"
      BY <2>1
    <3> QED
      BY <2>1, <2>2, <3>1, <3>2, <1>p DEF CallsAreAllowed
  <2>6. Mcp!SessionsAreInitialized'
    BY <2>1 DEF Mcp!SessionsAreInitialized, Mcp!Waiting
  <2> QED
    BY <2>4, <2>5, <2>6
<1>2. ASSUME NEW c \in Callers, Mcp!Confirm(c) PROVE McpInv'
  <2>1. /\ mcpPc[c] = "dialog"
        /\ UNCHANGED <<mcpExpertUnsafe, tool, polls, initialization, initializer, sessionId, server, ready, mcpRestarts, mcpCalls>>
    BY <1>2 DEF Mcp!Confirm
  <2>2. \/ mcpPc' = [mcpPc EXCEPT ![c] = "invoking"] /\ mcpApproved' = [mcpApproved EXCEPT ![c] = TRUE] /\ UNCHANGED answer
        \/ mcpPc' = [mcpPc EXCEPT ![c] = "idle"] /\ answer' = [answer EXCEPT ![c] = "denied"] /\ UNCHANGED mcpApproved
    BY <1>2 DEF Mcp!Confirm
  <2>3. mcpApproved' \in [Callers -> BOOLEAN]
    BY <2>2
  <2>4. McpTyped' /\ SessionsAreNamed' /\ Mcp!SessionsAreInitialized'
    BY <2>1, <2>2, <2>3 DEF SessionsAreNamed, Mcp!SessionsAreInitialized, Mcp!Waiting
  <2>5. CallsAreAllowed'
    BY <2>1, <2>2, <1>p DEF CallsAreAllowed
  <2> QED
    BY <2>4, <2>5
<1>3. ASSUME NEW c \in Callers, Mcp!Invoke(c) PROVE McpInv'
  <2>1. mcpPc[c] = "invoking" /\ UNCHANGED <<mcpExpertUnsafe, tool, polls, mcpApproved, server, ready, mcpRestarts, mcpCalls>>
    BY <1>3 DEF Mcp!Invoke
  <2>2. /\ UNCHANGED sessionId /\ initializer' \in {initializer, c}
        /\ \/ initialization' = initialization /\ initializer' = initializer
           \/ initialization = "none" /\ initialization' = "request" /\ mcpPc'[c] = "waiting"
        /\ \E following \in {"idle", "calling", "waiting"} :
              /\ mcpPc' = [e \in Callers |-> IF e = c THEN following ELSE mcpPc[e]]
              /\ following = "calling" => initialization = "done"
              /\ following = "waiting" => initialization # "done" /\ initialization' # "none"
        /\ answer' = answer \/ answer' = [e \in Callers |-> IF e \in {c} THEN "error" ELSE answer[e]]
    <3>1. CASE mcpAborted[c] /\ Mcp!Ends({c}, "error") /\ UNCHANGED Mcp!client
      BY <3>1 DEF Mcp!Ends
    <3>2. CASE /\ UNCHANGED <<answer, sessionId>>
               /\ IF initialization = "none" THEN initialization' = "request" /\ initializer' = c
                  ELSE UNCHANGED <<initialization, initializer>>
               /\ mcpPc' = [mcpPc EXCEPT ![c] = IF initialization = "done" THEN "calling" ELSE "waiting"]
      BY <3>2
    <3> QED
      BY <1>3, <3>1, <3>2 DEF Mcp!Invoke
  <2>3. PICK following \in {"idle", "calling", "waiting"} :
              /\ mcpPc' = [e \in Callers |-> IF e = c THEN following ELSE mcpPc[e]]
              /\ following = "calling" => initialization = "done"
              /\ following = "waiting" => initialization # "done" /\ initialization' # "none"
    BY <2>2
  <2>4. McpTyped'
    BY <2>1, <2>2, <2>3
  <2>5. SessionsAreNamed'
    BY <2>1, <2>2, <2>3 DEF SessionsAreNamed
  <2>6. CallsAreAllowed'
    BY <2>1, <2>3, <1>p DEF CallsAreAllowed
  <2>7. Mcp!SessionsAreInitialized'
    BY <2>1, <2>2, <2>3, <2>5 DEF Mcp!SessionsAreInitialized, Mcp!Waiting, SessionsAreNamed
  <2> QED
    BY <2>4, <2>5, <2>6, <2>7
<1>4. ASSUME NEW c \in Callers, Mcp!Abort(c) PROVE McpInv'
  <2>1. UNCHANGED <<mcpExpertUnsafe, mcpPc, tool, polls, mcpApproved, initialization, initializer, sessionId, server, ready,
                    mcpRestarts, answer, mcpCalls>>
    BY <1>4 DEF Mcp!Abort
  <2> QED
    BY <2>1, <1>p DEF SessionsAreNamed, CallsAreAllowed, Mcp!SessionsAreInitialized, Mcp!Waiting
<1>5. CASE Mcp!Initialize
  <2>1. /\ initialization \in {"request", "notification"}
        /\ UNCHANGED <<mcpExpertUnsafe, tool, polls, mcpApproved, initializer, server, mcpRestarts, answer, mcpCalls>>
    BY <1>5 DEF Mcp!Initialize
  <2>2. CASE initialization = "request"
    <3>1. initialization' = "notification" /\ sessionId' = server /\ UNCHANGED <<mcpPc, ready>>
      BY <1>5, <2>2 DEF Mcp!Initialize
    <3>2. McpTyped'
      BY <2>1, <3>1, <1>0 DEF SessionsAreNamed
    <3>3. SessionsAreNamed' /\ Mcp!SessionsAreInitialized'
      BY <2>1, <2>2, <3>1, <1>0 DEF SessionsAreNamed, Mcp!SessionsAreInitialized, Mcp!Waiting
    <3>4. CallsAreAllowed'
      BY <2>1, <3>1, <1>p DEF CallsAreAllowed
    <3> QED
      BY <3>2, <3>3, <3>4
  <2>3. CASE initialization = "notification"
    <3>1. /\ initialization' = "done" /\ UNCHANGED sessionId /\ ready' = ready \cup {sessionId}
          /\ mcpPc' = [c \in Callers |-> IF c \in Mcp!Waiting THEN "calling" ELSE mcpPc[c]]
      BY <1>5, <2>3 DEF Mcp!Initialize
    <3>2. McpTyped'
      BY <2>1, <2>3, <3>1, <1>0 DEF SessionsAreNamed
    <3>3. SessionsAreNamed' /\ Mcp!SessionsAreInitialized'
      BY <2>1, <2>3, <3>1, <1>0 DEF SessionsAreNamed, Mcp!SessionsAreInitialized, Mcp!Waiting
    <3>4. CallsAreAllowed'
      BY <2>1, <3>1, <1>p DEF CallsAreAllowed, Mcp!Waiting
    <3> QED
      BY <3>2, <3>3, <3>4
  <2> QED
    BY <2>1, <2>2, <2>3
<1>6. CASE Mcp!InitializeFails
  <2>1. /\ initialization \in {"request", "notification"} /\ initialization' = "none" /\ sessionId' = 0
        /\ mcpPc' = [c \in Callers |-> IF c \in Mcp!Waiting THEN "idle" ELSE mcpPc[c]]
        /\ answer' = [c \in Callers |-> IF c \in Mcp!Waiting THEN "error" ELSE answer[c]]
        /\ UNCHANGED <<mcpExpertUnsafe, tool, polls, mcpApproved, initializer, server, ready, mcpRestarts, mcpCalls>>
    BY <1>6 DEF Mcp!InitializeFails, Mcp!Ends, Mcp!SessionAfterFailure
  <2>2. McpTyped'
    BY <2>1, <1>0
  <2>3. SessionsAreNamed' /\ Mcp!SessionsAreInitialized'
    BY <2>1, <1>0 DEF SessionsAreNamed, Mcp!SessionsAreInitialized, Mcp!Waiting
  <2>4. CallsAreAllowed'
    BY <2>1, <1>p DEF CallsAreAllowed, Mcp!Waiting
  <2> QED
    BY <2>2, <2>3, <2>4
<1>7. ASSUME NEW c \in Callers, Mcp!Call(c) PROVE McpInv'
  <2>1. /\ mcpPc[c] \in {"calling", "polling"}
        /\ UNCHANGED <<mcpExpertUnsafe, tool, mcpApproved, initialization, initializer, sessionId, server, ready, mcpRestarts, mcpCalls>>
    BY <1>7 DEF Mcp!Call
  <2>2. /\ \E following \in {"idle", "polling"} : mcpPc' = [e \in Callers |-> IF e = c THEN following ELSE mcpPc[e]]
        /\ answer' \in [Callers -> {"none", "result", "denied", "error"}]
        /\ polls' \in [Callers -> 0..MaxPolls]
    <3>1. CASE Mcp!Ends({c}, "result") /\ UNCHANGED polls
      BY <3>1 DEF Mcp!Ends
    <3>2. CASE /\ polls[c] < MaxPolls /\ mcpPc' = [mcpPc EXCEPT ![c] = "polling"] /\ polls' = [polls EXCEPT ![c] = @ + 1]
               /\ UNCHANGED answer
      <4>1. polls' \in [Callers -> 0..MaxPolls]
        BY <3>2, <1>0
      <4>2. mcpPc' = [e \in Callers |-> IF e = c THEN "polling" ELSE mcpPc[e]]
        BY <3>2
      <4> QED
        BY <3>2, <4>1, <4>2
    <3>3. CASE Mcp!Ends({c}, "error") /\ UNCHANGED polls
      BY <3>3 DEF Mcp!Ends
    <3> QED
      BY <1>7, <3>1, <3>2, <3>3 DEF Mcp!Call
  <2>3. McpTyped' /\ SessionsAreNamed'
    BY <2>1, <2>2 DEF SessionsAreNamed
  <2>4. CallsAreAllowed'
    BY <2>1, <2>2, <1>p DEF CallsAreAllowed
  <2>5. Mcp!SessionsAreInitialized'
    BY <2>1, <2>2 DEF Mcp!SessionsAreInitialized, Mcp!Waiting
  <2> QED
    BY <2>3, <2>4, <2>5
<1>8. CASE Mcp!Restart
  <2>1. /\ mcpRestarts < MaxRestarts /\ mcpRestarts' = mcpRestarts + 1 /\ server' = server + 1
        /\ UNCHANGED <<mcpExpertUnsafe, mcpPc, tool, polls, mcpApproved, initialization, initializer, sessionId, ready, answer, mcpCalls>>
    BY <1>8 DEF Mcp!Restart
  <2> QED
    BY <2>1, <1>0, <1>p DEF SessionsAreNamed, CallsAreAllowed, Mcp!SessionsAreInitialized, Mcp!Waiting
<1>9. CASE UNCHANGED mcpVars
  BY <1>9, <1>p DEF mcpVars, SessionsAreNamed, CallsAreAllowed, Mcp!SessionsAreInitialized, Mcp!Waiting
<1> QED
  BY <1>1, <1>2, <1>3, <1>4, <1>5, <1>6, <1>7, <1>8, <1>9 DEF Mcp!Next

\* A connection begins with it.
LEMMA McpBegins == Mcp!Init => McpInv
<1> SUFFICES ASSUME Mcp!Init PROVE McpInv
  OBVIOUS
<1>0. MaxPolls \in Nat /\ MaxCalls \in Nat /\ MaxRestarts \in Nat /\ Callers # {} /\ Offered # {}
  BY ToolsAssumption DEF ToolsAssumption, Mcp!McpAssumption
<1>1. (CHOOSE c \in Callers : TRUE) \in Callers /\ (CHOOSE t \in Offered : TRUE) \in Offered
  BY <1>0
<1>2. mcpApproved \in [Callers -> BOOLEAN] /\ mcpExpertUnsafe \in BOOLEAN
  BY DEF Mcp!Init
<1>3. McpTyped
  BY <1>0, <1>1, <1>2 DEF Mcp!Init, McpTyped, Mcp!TypeOK
<1>4. SessionsAreNamed /\ CallsAreAllowed /\ Mcp!SessionsAreInitialized
  BY <1>0 DEF Mcp!Init, SessionsAreNamed, CallsAreAllowed, Mcp!SessionsAreInitialized, Mcp!Waiting
<1> QED
  BY <1>3, <1>4 DEF McpInv

\* A tool is called only in a session the server was told is initialized, and a dangerous one only with the approval
\* of the user (mcp-http-invoker.ts, mcp-policy.ts, manager.ts).
THEOREM McpHolds == ToolsSpec => [](Mcp!TypeOK /\ Mcp!McpIsSound)
<1>1. McpInv => Mcp!TypeOK /\ Mcp!McpIsSound
  <2> SUFFICES ASSUME McpInv PROVE Mcp!TypeOK /\ Mcp!McpIsSound
    OBVIOUS
  <2>1. Mcp!DangerousIsApproved
    BY DEF McpInv, CallsAreAllowed, Mcp!DangerousIsApproved
  <2> QED
    BY <2>1 DEF McpInv, McpTyped, Mcp!McpIsSound
<1> QED
  BY <1>1, McpPart, McpBegins, McpStep, PTL DEF ToolsSpec

-----------------------------------------------------------------------------
\* The commands of the tools (execute-command.ts).

\* The commands begin as they do by themselves, and take their own steps or none.
LEMMA CommandPart ==
    /\ ToolsInit => Command!Init
    /\ [ToolsNext]_toolsVars => [Command!Next]_commandVars
BY DEF ToolsInit, ToolsNext, toolsVars, OtherTools

\* What a process of a command may be.
Statuses == {"running", "blocked", "zero", "nonzero", "terminated", "absent"}

\* Types: each process is of one status, and its pipe is read or not.
CommandTyped ==
    /\ Command!TypeOK
    /\ stages \in Seq(Statuses) /\ unread \in [DOMAIN stages -> {"no", "broken", "unpiped"}]

\* Where a call stands: its timer runs with its processes, and it is done when they are.
CallStands ==
    /\ commandPc \in {"dialog", "resolving"} => stages = <<>> /\ outcome = "none"
    /\ commandPc = "running" => outcome = "none" /\ timer = "on" /\ stages # <<>>
    /\ outcome = "done" => stages # <<>> /\ \A i \in DOMAIN stages : ~Command!Runs(i)

\* What a process that has not run to its end was ended by, as long as the call does not fail.
EndsHaveCauses ==
    /\ \A i \in DOMAIN stages : stages[i] = "absent" => spawnError
    /\ outcome \in {"none", "done"} =>
          \A i \in DOMAIN stages : stages[i] = "terminated" => i \in stray \/ i \in expected \/ pipeError
    /\ \A i \in stray : stages[i] = "terminated"
    /\ \A i \in expected : ~Command!Runs(i)

\* The reader of a pipe that is broken has ended.
ReadersAreGone ==
    /\ \A i \in DOMAIN stages : unread[i] # "no" => i + 1 \in DOMAIN stages /\ ~Command!Runs(i + 1)
    /\ \A i \in expected : i + 1 \in DOMAIN stages /\ ~Command!Runs(i + 1)

\* The inductive invariant of a command.
CommandInv == CommandTyped /\ CallStands /\ EndsHaveCauses /\ ReadersAreGone /\ Command!CommandIsSound

\* The processes of a command are numbered from one, and each has a status.
LEMMA StagesAre ==
  ASSUME stages \in Seq(Statuses)
  PROVE  /\ Len(stages) \in Nat /\ DOMAIN stages = 1..Len(stages) /\ (stages = <<>> <=> Len(stages) = 0)
         /\ \A i \in DOMAIN stages : stages[i] \in Statuses
BY LenProperties, EmptySeq

\* A process leaves: only its status changes, and how its writer writes; its own pipe, once it is broken, is not.
OneIsGone(i, how) ==
    /\ stages' = [stages EXCEPT ![i] = how]
    /\ \E u \in {"broken", "unpiped"} :
          unread' = Command!Unread(i, u) \/ (unread[i] # "no" /\ unread' = [Command!Unread(i, u) EXCEPT ![i] = "unpiped"])

LEMMA OneLeaves ==
  ASSUME CommandTyped, NEW i \in DOMAIN stages, NEW how \in {"zero", "nonzero", "terminated"}, OneIsGone(i, how)
  PROVE  /\ stages' \in Seq(Statuses) /\ DOMAIN stages' = DOMAIN stages /\ Len(stages') = Len(stages)
         /\ stages'[i] = how /\ \A j \in DOMAIN stages : j # i => stages'[j] = stages[j]
         /\ unread' \in [DOMAIN stages -> {"no", "broken", "unpiped"}]
         /\ \A j \in DOMAIN stages : unread'[j] # unread[j] => j + 1 = i \/ unread[j] # "no"
<1>1. stages' = [stages EXCEPT ![i] = how] /\ how \in Statuses /\ stages \in Seq(Statuses)
  BY DEF OneIsGone, Statuses, CommandTyped
<1>2. Len(stages) \in Nat /\ DOMAIN stages = 1..Len(stages)
  BY <1>1, StagesAre
<1>3. stages' \in Seq(Statuses) /\ Len(stages') = Len(stages)
  BY <1>1, <1>2, ExceptSeq
<1>4. /\ DOMAIN stages' = DOMAIN stages
      /\ stages'[i] = how /\ \A j \in DOMAIN stages : j # i => stages'[j] = stages[j]
  BY <1>1
<1>6. unread \in [DOMAIN stages -> {"no", "broken", "unpiped"}]
  BY DEF CommandTyped
<1>5. PICK u \in {"broken", "unpiped"} :
         unread' = Command!Unread(i, u) \/ (unread[i] # "no" /\ unread' = [Command!Unread(i, u) EXCEPT ![i] = "unpiped"])
  BY DEF OneIsGone
<1>9. /\ Command!Unread(i, u) \in [DOMAIN stages -> {"no", "broken", "unpiped"}]
      /\ \A j \in DOMAIN stages : Command!Unread(i, u)[j] # unread[j] => j = i - 1
  BY <1>6 DEF Command!Unread
<1>7. unread' \in [DOMAIN stages -> {"no", "broken", "unpiped"}]
  BY <1>5, <1>9
<1>8. \A j \in DOMAIN stages : unread'[j] # unread[j] => j + 1 = i \/ unread[j] # "no"
  <2>1. ASSUME NEW j \in DOMAIN stages, unread'[j] # unread[j] PROVE j = i - 1 \/ unread[j] # "no"
    BY <1>5, <1>9, <2>1
  <2> QED
    BY <1>2, <2>1
<1> QED
  BY <1>3, <1>4, <1>7, <1>8

\* The processes go on for themselves: what the call and its signals are stays, but for a failed write.
CallStays == UNCHANGED <<commandExpertUnsafe, commandPc, command, outcome, runs, timer, commandAborted, overflow, spawnError>>

\* The invariant is kept when a process leaves, if what it was ended by is recorded with it.
LEMMA LeavingKeeps ==
  ASSUME CommandInv, CallStays, NEW i \in DOMAIN stages, Command!Runs(i),
         NEW how \in {"zero", "nonzero", "terminated"}, OneIsGone(i, how),
         stderr \subseteq stderr', stderr' \subseteq DOMAIN stages,
         stray' \in {stray, stray \cup {i}}, expected' \in {expected, expected \cup {i}},
         pipeError => pipeError',
         how # "terminated" => stray' = stray /\ expected' = expected,
         how = "terminated" => i \in stray' \/ i \in expected' \/ pipeError',
         i \in expected' => i + 1 \in DOMAIN stages /\ ~Command!Runs(i + 1)
  PROVE  CommandInv'
<1> USE DEF CommandInv
<1>1. /\ stages' \in Seq(Statuses) /\ DOMAIN stages' = DOMAIN stages /\ Len(stages') = Len(stages)
      /\ stages'[i] = how /\ \A j \in DOMAIN stages : j # i => stages'[j] = stages[j]
      /\ unread' \in [DOMAIN stages -> {"no", "broken", "unpiped"}]
      /\ \A j \in DOMAIN stages : unread'[j] # unread[j] => j + 1 = i \/ unread[j] # "no"
  BY OneLeaves
<1>2. Len(stages) \in Nat /\ DOMAIN stages = 1..Len(stages) /\ stages \in Seq(Statuses) /\ (stages = <<>> <=> Len(stages) = 0)
  BY StagesAre DEF CommandTyped
<1>3. stages # <<>> /\ stages' # <<>> /\ outcome # "done" /\ commandPc \notin {"dialog", "resolving"}
  <2>1. stages # <<>> /\ (stages' = <<>> <=> Len(stages') = 0)
    BY <1>1, <1>2, EmptySeq
  <2> QED
    BY <1>1, <1>2, <2>1 DEF CallStands
<1>4. CommandTyped'
  <2>1. \A j \in DOMAIN stages' : stages'[j] \in Statuses
    BY <1>1, <1>2, StagesAre DEF Statuses
  <2>2. UNCHANGED <<commandPc, command, outcome, runs, timer>>
    BY DEF CallStays
  <2> QED
    BY <1>1, <2>1, <2>2 DEF CommandTyped, Command!TypeOK, Statuses
<1>5. CallStands'
  BY <1>3 DEF CallStays, CallStands
<1>6. \A j \in DOMAIN stages : Command!Runs(j)' => Command!Runs(j)
  BY <1>1 DEF Command!Runs
<1>7. stray \cup expected \subseteq DOMAIN stages /\ i \notin stray \cup expected
  BY DEF EndsHaveCauses, CommandTyped, Command!TypeOK, Command!Runs
<1>8. EndsHaveCauses'
  <2>1. ~Command!Runs(i)'
    BY <1>1 DEF Command!Runs
  <2>2. \A j \in expected' : ~Command!Runs(j)'
    BY <1>6, <1>7, <2>1 DEF EndsHaveCauses
  <2>3. \A j \in stray' : stages'[j] = "terminated"
    BY <1>1, <1>7 DEF EndsHaveCauses
  <2> QED
    BY <1>1, <1>7, <2>2, <2>3 DEF EndsHaveCauses, CallStays
<1>9. ReadersAreGone'
  <2>0. ~Command!Runs(i)'
    BY <1>1 DEF Command!Runs
  <2>1. ASSUME NEW j \in DOMAIN stages, unread'[j] # "no" PROVE j + 1 \in DOMAIN stages /\ ~Command!Runs(j + 1)'
    <3>1. CASE unread[j] # "no"
      BY <1>6, <3>1 DEF ReadersAreGone
    <3>2. CASE j + 1 = i
      BY <2>0, <3>2
    <3> QED
      BY <1>1, <2>1, <3>1, <3>2
  <2>2. ASSUME NEW j \in expected' PROVE j + 1 \in DOMAIN stages /\ ~Command!Runs(j + 1)'
    BY <1>6, <2>2 DEF ReadersAreGone
  <2> QED
    BY <1>1, <2>1, <2>2 DEF ReadersAreGone
<1>10. Command!CommandIsSound'
  <2>1. outcome' # "done"
    BY <1>3 DEF CallStays
  <2>2. ASSUME outcome' = "error"
        PROVE  \/ timer' = "fired" \/ overflow' \/ spawnError' \/ pipeError' \/ stray' # {}
               \/ \E j \in DOMAIN stages' : stages'[j] = "nonzero" \/ (stages'[j] = "terminated" /\ j \in stderr')
    <3>1. \/ timer = "fired" \/ overflow \/ spawnError \/ pipeError \/ stray # {}
          \/ \E j \in DOMAIN stages : stages[j] = "nonzero" \/ (stages[j] = "terminated" /\ j \in stderr)
      BY <1>3, <2>2 DEF Command!CommandIsSound, CallStays
    <3>2. stray' # {} \/ stray = {}
      OBVIOUS
    <3>3. ASSUME NEW j \in DOMAIN stages, stages[j] = "nonzero" \/ (stages[j] = "terminated" /\ j \in stderr)
          PROVE  stages'[j] = "nonzero" \/ (stages'[j] = "terminated" /\ j \in stderr')
      BY <1>1, <3>3 DEF Command!Runs
    <3> QED
      BY <1>1, <3>1, <3>2, <3>3 DEF CallStays
  <2> QED
    BY <2>1, <2>2 DEF Command!CommandIsSound
<1> QED
  BY <1>4, <1>5, <1>8, <1>9, <1>10

\* Each step of a command, its processes, timer and signals keeps the invariant.
LEMMA CommandStep == CommandInv /\ [Command!Next]_commandVars => CommandInv'
<1> SUFFICES ASSUME CommandInv, [Command!Next]_commandVars PROVE CommandInv'
  OBVIOUS
<1>0. MaxRuns \in Nat /\ \A c \in Commands : c.listed \in Seq(BOOLEAN) \ {<<>>}
  BY ToolsAssumption DEF ToolsAssumption, Command!CommandAssumption
<1>s. Len(stages) \in Nat /\ DOMAIN stages = 1..Len(stages) /\ stages \in Seq(Statuses) /\ (stages = <<>> <=> Len(stages) = 0)
  BY StagesAre DEF CommandInv, CommandTyped
<1> USE DEF Command!call, Command!signals
<1>1. ASSUME NEW c \in Commands, Command!execute(c) PROVE CommandInv'
  <2>1. /\ runs < MaxRuns /\ runs' = runs + 1 /\ command' = c /\ stages' = <<>> /\ stderr' = {} /\ unread' = <<>>
        /\ expected' = {} /\ stray' = {} /\ timer' = "off"
        /\ commandPc' \in {"dialog", "idle"} /\ outcome' \in {"none", "denied"}
        /\ commandPc' = "dialog" => outcome' = "none"
    BY <1>1 DEF Command!execute
  <2>2. <<>> \in Seq(Statuses) /\ DOMAIN <<>> = {} /\ unread' \in [{} -> {"no", "broken", "unpiped"}]
    BY <2>1
  <2>3. CommandTyped'
    BY <2>1, <2>2, <1>0 DEF CommandInv, CommandTyped, Command!TypeOK
  <2> QED
    BY <2>1, <2>2, <2>3 DEF CommandInv, CallStands, EndsHaveCauses, ReadersAreGone, Command!CommandIsSound
<1>2. CASE Command!confirmCommandExecution
  <2>1. /\ commandPc = "dialog"
        /\ \/ commandPc' = "resolving" /\ UNCHANGED outcome
           \/ commandPc' = "idle" /\ outcome' = "denied"
        /\ UNCHANGED <<commandExpertUnsafe, command, stages, stderr, unread, expected, stray, timer, overflow, spawnError,
                       pipeError, runs>>
    BY <1>2 DEF Command!confirmCommandExecution
  <2> QED
    BY <2>1 DEF CommandInv, CommandTyped, Command!TypeOK, CallStands, EndsHaveCauses, ReadersAreGone,
                Command!CommandIsSound, Command!Runs, Command!Last
<1>3. CASE Command!Abort
  <2>1. UNCHANGED <<commandPc, outcome, command, stages, stderr, unread, expected, stray, timer, overflow, spawnError,
                    pipeError, runs>>
    BY <1>3 DEF Command!Abort
  <2> QED
    BY <2>1 DEF CommandInv, CommandTyped, Command!TypeOK, CallStands, EndsHaveCauses, ReadersAreGone,
                Command!CommandIsSound, Command!Runs, Command!Last
<1>4. CASE Command!Spawn
  <2>1. /\ commandPc = "resolving" /\ stages = <<>> /\ outcome = "none"
        /\ UNCHANGED <<command, stderr, expected, stray, overflow, pipeError, runs>>
    BY <1>4 DEF Command!Spawn, CommandInv, CallStands
  <2>2. stderr = {} /\ expected = {} /\ stray = {}
    BY <2>1, <1>s DEF CommandInv, CommandTyped, Command!TypeOK
  <2>3. CASE Command!Fails /\ UNCHANGED <<stages, unread, spawnError>>
    <3>1. /\ commandPc' = "idle" /\ outcome' \in {"aborted", "error"} /\ timer' \in {"off", timer}
      BY <2>3 DEF Command!Fails
    <3> QED
      BY <2>1, <2>2, <2>3, <3>1 DEF CommandInv, CommandTyped, Command!TypeOK, CallStands, EndsHaveCauses, ReadersAreGone,
                Command!CommandIsSound, Command!Runs, Command!Last
  <2> DEFINE n == IF commandExpertUnsafe THEN 1 ELSE Len(command.listed)
  <2>4. ASSUME commandPc' = "running", timer' = "on",
               UNCHANGED outcome, NEW absent \in {{}} \cup {{i} : i \in 1..n}, NEW u \in {"broken", "unpiped"},
               stages' = [i \in 1..n |-> IF i \in absent THEN "absent" ELSE "running"],
               unread' = [i \in 1..n |-> IF i + 1 \in absent THEN u ELSE "no"],
               spawnError' = (absent # {})
        PROVE  CommandInv'
    <3>1. n \in Nat /\ n > 0
      <4>1. command \in Commands
        BY DEF CommandInv, CommandTyped, Command!TypeOK
      <4>2. Len(command.listed) \in Nat /\ Len(command.listed) # 0
        BY <4>1, <1>0, EmptySeq, LenProperties
      <4> QED
        BY <4>2
    <3> HIDE DEF n
    <3>2. stages' \in [1..n -> Statuses] /\ DOMAIN stages' = 1..n /\ \A i \in 1..n : stages'[i] \in {"absent", "running"}
      BY <2>4 DEF Statuses
    <3>3. stages' \in Seq(Statuses) /\ stages' # <<>>
      <4>1. stages' \in Seq(Statuses)
        BY <3>1, <3>2, SeqDef
      <4>2. Len(stages') = n
        BY <3>1, <3>2, <4>1, LenProperties
      <4> QED
        BY <3>1, <4>1, <4>2, EmptySeq
    <3>4. unread' \in [1..n -> {"no", "broken", "unpiped"}]
      BY <2>4
    <3>5. CommandTyped'
      BY <2>1, <2>2, <2>4, <3>2, <3>3, <3>4 DEF CommandInv, CommandTyped, Command!TypeOK, Statuses
    <3>6. CallStands'
      BY <2>1, <2>4, <3>3 DEF CallStands
    <3>7. EndsHaveCauses'
      BY <2>1, <2>2, <2>4, <3>2 DEF EndsHaveCauses
    <3>8. ReadersAreGone'
      <4>1. ASSUME NEW i \in 1..n, unread'[i] # "no" PROVE i + 1 \in 1..n /\ stages'[i + 1] = "absent"
        <5>1. i + 1 \in absent
          BY <2>4, <4>1
        <5>2. i + 1 \in 1..n
          BY <5>1
        <5> QED
          BY <2>4, <5>1, <5>2
      <4> QED
        BY <2>1, <2>2, <3>2, <4>1 DEF ReadersAreGone, Command!Runs
    <3> QED
      BY <2>1, <2>4, <3>5, <3>6, <3>7, <3>8 DEF CommandInv, Command!CommandIsSound
  <2>5. \/ Command!Fails /\ UNCHANGED <<stages, unread, spawnError>>
        \/ /\ commandPc' = "running" /\ timer' = "on" /\ UNCHANGED outcome
           /\ \E absent \in {{}} \cup {{i} : i \in 1..n} : \E u \in {"broken", "unpiped"} :
                 /\ stages' = [i \in 1..n |-> IF i \in absent THEN "absent" ELSE "running"]
                 /\ unread' = [i \in 1..n |-> IF i + 1 \in absent THEN u ELSE "no"]
                 /\ spawnError' = (absent # {})
    BY <1>4 DEF Command!Spawn
  <2> HIDE DEF n
  <2> QED
    BY <2>3, <2>4, <2>5
<1>5. CASE Command!TimerFires \/ Command!AbortEnds \/ Command!OutputLimit
  <2>1. /\ commandPc = "running" /\ commandPc' = "idle" /\ outcome' \in {"aborted", "error"} /\ timer' \in {"off", "fired", timer}
        /\ outcome' = "error" => timer' = "fired" \/ overflow'
        /\ stages' = [i \in DOMAIN stages |-> IF Command!Runs(i) THEN "terminated" ELSE stages[i]]
        /\ UNCHANGED <<command, stderr, unread, expected, stray, spawnError, pipeError, runs>>
    BY <1>5 DEF Command!TimerFires, Command!AbortEnds, Command!OutputLimit, Command!TerminateAll, Command!Fails
  <2>2. stages' \in Seq(Statuses) /\ DOMAIN stages' = DOMAIN stages
    <3>1. stages' \in [1..Len(stages) -> Statuses]
      BY <2>1, <1>s, StagesAre DEF Statuses
    <3> QED
      BY <2>1, <3>1, <1>s, SeqDef
  <2>3. \A i \in DOMAIN stages' : stages'[i] \in Statuses
    BY <2>1, <2>2, <1>s, StagesAre DEF Statuses
  <2>4. CommandTyped'
    BY <2>1, <2>2, <2>3 DEF CommandInv, CommandTyped, Command!TypeOK, Statuses
  <2>5. CallStands'
    BY <2>1 DEF CallStands
  <2>6. EndsHaveCauses'
    BY <2>1 DEF CommandInv, EndsHaveCauses, CommandTyped, Command!TypeOK, Command!Runs
  <2>7. ReadersAreGone'
    BY <2>1, <2>2 DEF CommandInv, ReadersAreGone, Command!Runs
  <2> QED
    BY <2>1, <2>4, <2>5, <2>6, <2>7 DEF CommandInv, Command!CommandIsSound
<1>6. CASE Command!SpawnFails
  <2>1. /\ commandPc = "running" /\ commandPc' = "idle" /\ outcome' \in {"aborted", "error"} /\ timer' \in {"off", timer}
        /\ spawnError
        /\ UNCHANGED <<command, stages, stderr, unread, expected, stray, overflow, spawnError, pipeError, runs>>
    BY <1>6 DEF Command!SpawnFails, Command!Fails
  <2> QED
    BY <2>1 DEF CommandInv, CommandTyped, Command!TypeOK, CallStands, EndsHaveCauses, ReadersAreGone,
                Command!CommandIsSound, Command!Runs
<1>7. CASE Command!Close
  <2>1. /\ commandPc = "running" /\ outcome = "none" /\ ~spawnError /\ \A i \in DOMAIN stages : ~Command!Runs(i)
        /\ commandPc' = "idle" /\ timer' \in {"off", timer}
        /\ UNCHANGED <<command, stages, stderr, unread, expected, stray, overflow, spawnError, pipeError, runs>>
    BY <1>7 DEF Command!Close, Command!Fails, CommandInv, CallStands
  <2>2. \/ outcome' = "done" /\ ~pipeError /\ \A i \in DOMAIN stages : stages[i] = "zero" \/ Command!IsExpected(i)
        \/ /\ outcome' \in {"aborted", "error"}
           /\ ~(~pipeError /\ \A i \in DOMAIN stages : stages[i] = "zero" \/ Command!IsExpected(i))
    BY <1>7 DEF Command!Close, Command!Fails
  <2>3. CommandTyped' /\ ReadersAreGone'
    BY <2>1, <2>2 DEF CommandInv, CommandTyped, Command!TypeOK, ReadersAreGone, Command!Runs
  <2>4. EndsHaveCauses'
    BY <2>1, <2>2 DEF CommandInv, EndsHaveCauses, Command!Runs
  <2>5. CASE outcome' = "done"
    <3>1. \A i \in DOMAIN stages : stages[i] = "zero" \/ (i \in expected /\ stages[i] = "terminated")
      BY <2>2, <2>5 DEF Command!IsExpected
    <3>2. stray \subseteq expected
      BY <3>1 DEF CommandInv, EndsHaveCauses, CommandTyped, Command!TypeOK
    <3>3. \A i \in DOMAIN stages : i \in expected => i + 1 \in DOMAIN stages
      BY DEF CommandInv, ReadersAreGone
    <3>4. Len(stages) # 0 /\ stages # <<>>
      BY <2>1, <1>7, <1>s DEF CommandInv, CallStands, Command!Close
    <3>5. stages[Len(stages)] = "zero"
      BY <3>1, <3>3, <3>4, <1>s
    <3>6. \A i \in 1..(Len(stages) - 1) : i \in DOMAIN stages /\ i + 1 \in DOMAIN stages
      BY <1>s
    <3>7. \A i \in 1..(Len(stages) - 1) : stages[i] = "zero" \/ (stages[i] = "terminated" /\ ~Command!Runs(i + 1))
      BY <2>1, <3>1, <3>6
    <3>8. Command!CommandIsSound'
      BY <2>1, <2>5, <3>2, <3>5, <3>7 DEF Command!CommandIsSound, Command!Last, Command!Runs
    <3>9. CallStands'
      BY <2>1, <2>5, <3>4 DEF CallStands, Command!Runs
    <3> QED
      BY <2>3, <2>4, <3>8, <3>9 DEF CommandInv
  <2>6. CASE outcome' \in {"aborted", "error"}
    <3>1. CallStands'
      BY <2>1, <2>6 DEF CallStands
    <3>2. Command!CommandIsSound'
      <4>1. \A i \in DOMAIN stages : stages[i] \in {"zero", "nonzero", "terminated"}
        BY <2>1, <1>s, StagesAre DEF CommandInv, EndsHaveCauses, Command!Runs, Statuses
      <4>2. pipeError \/ \E i \in DOMAIN stages : stages[i] # "zero" /\ ~Command!IsExpected(i)
        BY <2>2, <2>6
      <4>3. ASSUME NEW i \in DOMAIN stages, stages[i] # "zero", ~Command!IsExpected(i), ~pipeError
            PROVE  stray # {} \/ stages[i] = "nonzero" \/ (stages[i] = "terminated" /\ i \in stderr)
        BY <2>1, <4>1, <4>3 DEF Command!IsExpected, CommandInv, EndsHaveCauses
      <4> QED
        BY <2>1, <2>6, <4>2, <4>3 DEF Command!CommandIsSound
    <3> QED
      BY <2>3, <2>4, <3>1, <3>2 DEF CommandInv
  <2> QED
    BY <2>2, <2>5, <2>6
<1>8. ASSUME NEW i \in DOMAIN stages, Command!Ends(i) PROVE CommandInv'
  <2>1. /\ CallStays /\ UNCHANGED <<expected, stray, pipeError>> /\ Command!Runs(i) /\ stages[i] = "running"
        /\ stderr' \in {stderr, stderr \cup {i}} /\ (OneIsGone(i, "zero") \/ OneIsGone(i, "nonzero"))
    BY <1>8 DEF Command!Ends, Command!Leaves, OneIsGone, CallStays, Command!Runs
  <2>2. stderr \subseteq DOMAIN stages /\ i \notin stray \cup expected
    BY <2>1 DEF CommandInv, CommandTyped, Command!TypeOK, EndsHaveCauses
  <2> QED
    BY <2>1, <2>2, LeavingKeeps
<1>9. ASSUME NEW i \in DOMAIN stages, Command!TerminatedByOthers(i) PROVE CommandInv'
  <2>1. /\ CallStays /\ UNCHANGED <<stderr, expected, pipeError>> /\ Command!Runs(i) /\ stages[i] = "running"
        /\ stray' = stray \cup {i} /\ OneIsGone(i, "terminated")
    BY <1>9 DEF Command!TerminatedByOthers, Command!Leaves, OneIsGone, CallStays, Command!Runs
  <2>2. stderr \subseteq DOMAIN stages /\ i \notin stray \cup expected
    BY <2>1 DEF CommandInv, CommandTyped, Command!TypeOK, EndsHaveCauses
  <2> QED
    BY <2>1, <2>2, LeavingKeeps
<1>10. ASSUME NEW i \in DOMAIN stages, Command!PipeBreaks(i) PROVE CommandInv'
  <2>1. /\ CallStays /\ UNCHANGED <<stderr, stray>> /\ unread[i] = "broken"
        /\ \/ expected' = expected \cup {i} /\ UNCHANGED pipeError
           \/ pipeError' = TRUE /\ UNCHANGED expected
    BY <1>10 DEF Command!PipeBreaks, Command!CutOff, CallStays
  <2>2. stderr \subseteq DOMAIN stages /\ expected \subseteq DOMAIN stages /\ expected \subseteq expected'
    BY <2>1 DEF CommandInv, CommandTyped, Command!TypeOK
  <2>3. i + 1 \in DOMAIN stages /\ ~Command!Runs(i + 1)
    BY <2>1 DEF CommandInv, ReadersAreGone
  <2>4. CASE Command!Runs(i)
    <3>1. OneIsGone(i, "terminated")
      BY <1>10, <2>1, <2>4 DEF Command!PipeBreaks, OneIsGone
    <3> QED
      BY <2>1, <2>2, <2>3, <2>4, <3>1, LeavingKeeps
  <2>5. CASE ~Command!Runs(i)
    <3>1. unread' = [unread EXCEPT ![i] = "unpiped"] /\ UNCHANGED stages
      BY <1>10, <2>5 DEF Command!PipeBreaks
    <3>2. unread' \in [DOMAIN stages -> {"no", "broken", "unpiped"}] /\ \A j \in DOMAIN stages : j # i => unread'[j] = unread[j]
      BY <3>1 DEF CommandInv, CommandTyped
    <3>3. CommandTyped' /\ CallStands'
      BY <2>1, <2>2, <3>1, <3>2
         DEF CommandInv, CommandTyped, Command!TypeOK, CallStands, CallStays, Command!Runs
    <3>4. EndsHaveCauses'
      BY <2>1, <2>5, <3>1 DEF CommandInv, EndsHaveCauses, CallStays, Command!Runs
    <3>5. ReadersAreGone'
      BY <2>1, <2>3, <3>1, <3>2 DEF CommandInv, ReadersAreGone, Command!Runs
    <3>6. Command!CommandIsSound'
      BY <2>1, <2>2, <3>1 DEF CommandInv, CallStays, Command!CommandIsSound, Command!Last, Command!Runs
    <3> QED
      BY <3>3, <3>4, <3>5, <3>6 DEF CommandInv
  <2> QED
    BY <2>4, <2>5
<1>11. ASSUME NEW i \in DOMAIN stages, Command!Complains(i) PROVE CommandInv'
  <2>1. /\ stages[i] = "running" /\ stderr' = stderr \cup {i}
        /\ UNCHANGED <<commandPc, outcome, command, stages, unread, expected, stray, timer, overflow, spawnError,
                       pipeError, runs>>
    BY <1>11 DEF Command!Complains
  <2> QED
    BY <2>1 DEF CommandInv, CommandTyped, Command!TypeOK, CallStands, EndsHaveCauses, ReadersAreGone,
                Command!CommandIsSound, Command!Runs, Command!Last
<1>12. ASSUME NEW i \in DOMAIN stages, Command!Blocks(i) PROVE CommandInv'
  <2>1. /\ stages[i] = "running" /\ stages' = [stages EXCEPT ![i] = "blocked"]
        /\ UNCHANGED <<commandPc, outcome, command, stderr, unread, expected, stray, timer, overflow, spawnError,
                       pipeError, runs>>
    BY <1>12 DEF Command!Blocks
  <2>2. stages' \in Seq(Statuses) /\ Len(stages') = Len(stages) /\ DOMAIN stages' = DOMAIN stages
    <3>1. "blocked" \in Statuses
      BY DEF Statuses
    <3> QED
      BY <2>1, <3>1, <1>s, ExceptSeq
  <2>3. stages'[i] = "blocked" /\ \A j \in DOMAIN stages : j # i => stages'[j] = stages[j]
    BY <2>1
  <2>4. \A j \in DOMAIN stages : Command!Runs(j)' <=> Command!Runs(j)
    BY <2>1, <2>3 DEF Command!Runs
  <2>5. CommandTyped'
    <3>1. \A j \in DOMAIN stages' : stages'[j] \in Statuses
      BY <2>2, <2>3, <1>s, StagesAre DEF Statuses
    <3> QED
      BY <2>1, <2>2, <3>1 DEF CommandInv, CommandTyped, Command!TypeOK, Statuses
  <2>6. outcome # "done" /\ stages # <<>> /\ stages' # <<>> /\ commandPc \notin {"dialog", "resolving"}
    <3>1. stages # <<>> /\ (stages' = <<>> <=> Len(stages') = 0)
      BY <2>2, <1>s, EmptySeq
    <3> QED
      BY <2>1, <2>2, <3>1, <1>s DEF CommandInv, CallStands, Command!Runs
  <2>7. CallStands' /\ EndsHaveCauses'
    BY <2>1, <2>2, <2>3, <2>6 DEF CommandInv, CallStands, EndsHaveCauses, CommandTyped, Command!TypeOK, Command!Runs
  <2>8. ReadersAreGone'
    BY <2>1, <2>2, <2>4 DEF CommandInv, ReadersAreGone
  <2>9. Command!CommandIsSound'
    <3>1. ASSUME outcome' = "error"
          PROVE  \/ timer' = "fired" \/ overflow' \/ spawnError' \/ pipeError' \/ stray' # {}
                 \/ \E j \in DOMAIN stages' : stages'[j] = "nonzero" \/ (stages'[j] = "terminated" /\ j \in stderr')
      <4>1. \/ timer = "fired" \/ overflow \/ spawnError \/ pipeError \/ stray # {}
            \/ \E j \in DOMAIN stages : stages[j] = "nonzero" \/ (stages[j] = "terminated" /\ j \in stderr)
        BY <2>1, <2>6, <3>1 DEF CommandInv, Command!CommandIsSound
      <4>2. ASSUME NEW j \in DOMAIN stages, stages[j] = "nonzero" \/ (stages[j] = "terminated" /\ j \in stderr)
            PROVE  stages'[j] = "nonzero" \/ (stages'[j] = "terminated" /\ j \in stderr')
        BY <2>1, <2>3, <4>2
      <4> QED
        BY <2>1, <2>2, <4>1, <4>2
    <3> QED
      BY <2>1, <2>6, <3>1 DEF Command!CommandIsSound
  <2> QED
    BY <2>5, <2>7, <2>8, <2>9 DEF CommandInv
<1>13. CASE UNCHANGED commandVars
  BY <1>13 DEF commandVars, CommandInv, CommandTyped, Command!TypeOK, CallStands, EndsHaveCauses, ReadersAreGone,
               Command!CommandIsSound, Command!Runs, Command!Last
<1> QED
  BY <1>1, <1>2, <1>3, <1>4, <1>5, <1>6, <1>7, <1>8, <1>9, <1>10, <1>11, <1>12, <1>13 DEF Command!Next

\* A command begins with it.
LEMMA CommandBegins == Command!Init => CommandInv
<1> SUFFICES ASSUME Command!Init PROVE CommandInv
  OBVIOUS
<1>1. Commands # {} /\ MaxRuns \in Nat
  BY ToolsAssumption DEF ToolsAssumption, Command!CommandAssumption
<1>2. command \in Commands
  BY <1>1 DEF Command!Init
<1>3. <<>> \in Seq(Statuses) /\ DOMAIN <<>> = {} /\ unread \in [{} -> {"no", "broken", "unpiped"}]
  BY DEF Command!Init
<1>4. CommandTyped
  BY <1>1, <1>2, <1>3 DEF Command!Init, CommandTyped, Command!TypeOK
<1> QED
  BY <1>3, <1>4 DEF Command!Init, CommandInv, CallStands, EndsHaveCauses, ReadersAreGone, Command!CommandIsSound

\* A command that is done has its whole output, and one that fails has a cause (execute-command.ts).
THEOREM CommandHolds == ToolsSpec => [](Command!TypeOK /\ Command!CommandIsSound)
<1>1. CommandInv => Command!TypeOK /\ Command!CommandIsSound
  BY DEF CommandInv, CommandTyped
<1> QED
  BY <1>1, CommandPart, CommandBegins, CommandStep, PTL DEF ToolsSpec

-----------------------------------------------------------------------------
\* The patches (remediation-loop.ts, remediation-tools.ts).

\* The patches begin as they do by themselves, and take their own steps or none.
LEMMA PatchesPart ==
    /\ ToolsInit => Remedy!Init
    /\ [ToolsNext]_toolsVars => [Remedy!Next]_patchesVars
BY DEF ToolsInit, ToolsNext, toolsVars, OtherTools

\* Contents of some files.
Trees == UNION {[S -> Versions] : S \in SUBSET Files}

\* Types: what is remembered of files are contents of some files.
PatchesTyped ==
    /\ Remedy!TypeOK
    /\ fingerprint \in [Patches -> Trees] /\ testedOn \in [Patches -> Trees] /\ checkedOn \in [Patches -> Trees]
    /\ fixBaseline \in [Tests -> {"pass", "fail"}] /\ fixResult \in [Patches -> [Tests -> Remedy!Outcomes]]

\* The tests have run with the patch, and none that passed before fails with it or is gone.
Passed(p) == \A t \in Tests : fixBaseline[t] = "pass" => fixResult[p][t] \in {"pass", "skip"}

\* Where each call stands: from its approval on the tests have passed, and once the tree has been looked
\* at again it was as it had been for the token.
Phases == \A p \in Patches :
    /\ fixPc[p] # "done" => fixStatus[p] = "none"
    /\ fixPc[p] \in {"review", "apply", "check", "git", "record"} => Passed(p)
    /\ fixPc[p] \in {"apply", "check", "git", "record"} => p \in fixApproved
    /\ fixPc[p] \in {"check", "git", "record"} => checkedOn[p] = fingerprint[p]
    /\ fixPc[p] = "review" <=> p \in fixTimers
    /\ fixDialog \in {<<p, "choice">>, <<p, "text">>} => fixPc[p] = "review"
    /\ fixPc[p] = "record" => p \in applied
    /\ p \in applied => fixPc[p] \in {"record", "done"}

\* The inductive invariant of the patches.
PatchesInv == PatchesTyped /\ Phases /\ Remedy!AppliedAsTested /\ Remedy!AnswersAreTrue

\* Each step of a patch, a dialog, a timer or an edit keeps it.
LEMMA PatchesStep == PatchesInv /\ [Remedy!Next]_patchesVars => PatchesInv'
<1> SUFFICES ASSUME PatchesInv, [Remedy!Next]_patchesVars PROVE PatchesInv'
  OBVIOUS
<1> USE DEF PatchesInv, PatchesTyped, Remedy!TypeOK, Remedy!Closed, Remedy!Outcomes
<1>0. /\ "command" \notin Patches /\ Touched \in [Patches -> SUBSET Files]
      /\ version \in [Files -> Versions] /\ \A p \in Patches : Touched[p] \subseteq Files
  BY ToolsAssumption DEF ToolsAssumption, Remedy!RemediationAssumption
<1>a. ASSUME NEW p \in Patches PROVE Remedy!TreeOf(p) \in Trees
  <2>1. Remedy!TreeOf(p) = [f \in Touched[p] |-> version[f]]
    BY DEF Remedy!TreeOf, Remedy!Restrict
  <2>2. Remedy!TreeOf(p) \in [Touched[p] -> Versions] /\ Touched[p] \in SUBSET Files
    BY <2>1, <1>0
  <2> QED
    BY <2>2 DEF Trees
<1>1. ASSUME NEW f \in Files, NEW v \in Versions, Remedy!Edit(f, v) PROVE PatchesInv'
  <2>1. /\ version' \in [Files -> Versions]
        /\ UNCHANGED <<fixPc, fixStatus, fingerprint, testedOn, checkedOn, fixBaseline, fixResult, validations, fixTimers, fixDialog,
                       fixApproved, applied>>
    BY <1>1, <1>0 DEF Remedy!Edit
  <2>2. Phases'
    BY <2>1 DEF Phases, Passed
  <2> QED
    BY <2>1, <2>2 DEF Remedy!AppliedAsTested, Remedy!AnswersAreTrue
<1>2. CASE Remedy!CommandAsks \/ Remedy!CommandAnswered
  <2>1. /\ fixDialog' \in {<<"command", "choice">>, <<"none", "closed">>}
        /\ \A p \in Patches : fixDialog' \notin {<<p, "choice">>, <<p, "text">>}
        /\ UNCHANGED <<version, fixPc, fixStatus, fingerprint, testedOn, checkedOn, fixBaseline, fixResult, validations, fixTimers,
                       fixApproved, applied>>
    BY <1>2, <1>0 DEF Remedy!CommandAsks, Remedy!CommandAnswered, Remedy!work
  <2>2. Phases'
    BY <2>1 DEF Phases, Passed
  <2> QED
    BY <2>1, <2>2 DEF Remedy!AppliedAsTested, Remedy!AnswersAreTrue
<1>3. ASSUME NEW p \in Patches, Remedy!validatePatch(p) PROVE PatchesInv'
  <2>1. /\ fixPc[p] = "new" /\ fixPc' = [fixPc EXCEPT ![p] = "copy"] /\ fingerprint' = [fingerprint EXCEPT ![p] = Remedy!TreeOf(p)]
        /\ UNCHANGED <<version, fixStatus, testedOn, checkedOn, fixBaseline, fixResult, validations, fixTimers, fixDialog,
                       fixApproved, applied>>
    BY <1>3 DEF Remedy!validatePatch, Remedy!Proceeds
  <2>2. Phases'
    BY <1>0, <1>a, <2>1 DEF Phases, Passed
  <2>3. p \notin applied /\ \A q \in applied : q # p /\ fingerprint'[q] = fingerprint[q]
    BY <2>1 DEF Phases
  <2>4. Remedy!AppliedAsTested' /\ Remedy!AnswersAreTrue'
    BY <2>1, <2>3 DEF Remedy!AppliedAsTested, Remedy!AnswersAreTrue
  <2> QED
    BY <1>a, <2>1, <2>2, <2>4
<1>4. ASSUME NEW p \in Patches, NEW ok \in BOOLEAN, Remedy!CopyProject(p, ok) PROVE PatchesInv'
  <2>1. /\ fixPc[p] = "copy" /\ testedOn' = [testedOn EXCEPT ![p] = Remedy!TreeOf(p)]
        /\ UNCHANGED <<version, fingerprint, checkedOn, fixBaseline, fixResult, validations, fixTimers, fixDialog,
                       fixApproved, applied>>
    BY <1>4 DEF Remedy!CopyProject
  <2>2. \/ fixPc' = [fixPc EXCEPT ![p] = "tests"] /\ UNCHANGED fixStatus
        \/ fixPc' = [fixPc EXCEPT ![p] = "done"] /\ fixStatus' = [fixStatus EXCEPT ![p] = "failed"]
    BY <1>4 DEF Remedy!CopyProject, Remedy!Proceeds, Remedy!Returns
  <2>3. Phases'
    BY <1>0, <1>a, <2>1, <2>2 DEF Phases, Passed
  <2>4. Remedy!AppliedAsTested' /\ Remedy!AnswersAreTrue'
    BY <2>1, <2>2 DEF Remedy!AppliedAsTested, Remedy!AnswersAreTrue, Phases
  <2> QED
    BY <1>a, <2>1, <2>2, <2>3, <2>4
<1>5. ASSUME NEW p \in Patches, NEW observed \in [Tests -> Remedy!Outcomes], NEW exitCode \in {0, 1},
             Remedy!TestsEnd(p, observed, exitCode)
      PROVE  PatchesInv'
  <2>1. /\ fixPc[p] = "tests" /\ fixResult' = [fixResult EXCEPT ![p] = observed]
        /\ UNCHANGED <<version, fingerprint, testedOn, checkedOn, fixBaseline, fixApproved, applied>>
    BY <1>5 DEF Remedy!TestsEnd
  <2>2. CASE Remedy!degraded(observed, exitCode)
    <3>1. /\ fixPc' = [fixPc EXCEPT ![p] = "done"] /\ UNCHANGED <<validations, fixTimers, fixDialog>>
          /\ \E s \in {"rejected_by_validation", "failed"} : fixStatus' = [fixStatus EXCEPT ![p] = s]
      BY <1>5, <2>2 DEF Remedy!TestsEnd, Remedy!Returns
    <3>2. Phases'
      BY <2>1, <3>1 DEF Phases, Passed
    <3>3. Remedy!AppliedAsTested' /\ Remedy!AnswersAreTrue'
      BY <2>1, <3>1 DEF Remedy!AppliedAsTested, Remedy!AnswersAreTrue, Phases
    <3> QED
      BY <2>1, <3>1, <3>2, <3>3
  <2>3. CASE ~Remedy!degraded(observed, exitCode)
    <3>1. /\ fixPc' = [fixPc EXCEPT ![p] = "review"] /\ UNCHANGED fixStatus /\ validations' = validations \cup {p}
          /\ fixDialog' = <<p, "choice">> /\ fixTimers' = fixTimers \cup {p}
      BY <1>5, <2>3 DEF Remedy!TestsEnd, Remedy!Proceeds
    <3>2. \A t \in Tests : fixBaseline[t] = "pass" => observed[t] \in {"pass", "skip"}
      BY <2>3 DEF Remedy!degraded
    <3>3. Phases'
      BY <2>1, <3>1, <3>2 DEF Phases, Passed
    <3>4. Remedy!AppliedAsTested' /\ Remedy!AnswersAreTrue'
      BY <2>1, <3>1 DEF Remedy!AppliedAsTested, Remedy!AnswersAreTrue, Phases
    <3> QED
      BY <2>1, <3>1, <3>3, <3>4
  <2> QED
    BY <2>2, <2>3
<1>6. ASSUME NEW p \in Patches, NEW action \in {"apply", "reject", "revise"}, Remedy!Select(p, action) PROVE PatchesInv'
  <2>1. /\ fixDialog = <<p, "choice">> /\ fixPc[p] = "review"
        /\ UNCHANGED <<version, fingerprint, testedOn, checkedOn, fixBaseline, fixResult, applied>>
    BY <1>6 DEF Remedy!Select, Remedy!work, Phases
  <2>2. CASE action = "apply"
    <3>1. /\ fixPc' = [fixPc EXCEPT ![p] = "apply"] /\ fixDialog' = <<"none", "closed">> /\ fixTimers' = fixTimers \ {p}
          /\ fixApproved' = fixApproved \cup {p} /\ UNCHANGED <<fixStatus, validations>>
      BY <1>6, <2>2 DEF Remedy!Select, Remedy!Proceeds
    <3>2. Phases'
      BY <2>1, <3>1 DEF Phases, Passed
    <3>3. Remedy!AppliedAsTested' /\ Remedy!AnswersAreTrue'
      BY <2>1, <3>1 DEF Remedy!AppliedAsTested, Remedy!AnswersAreTrue
    <3> QED
      BY <2>1, <3>1, <3>2, <3>3
  <2>3. CASE action = "reject"
    <3>1. /\ fixPc' = [fixPc EXCEPT ![p] = "done"] /\ fixDialog' = <<"none", "closed">> /\ fixTimers' = fixTimers \ {p}
          /\ validations' = validations \ {p} /\ UNCHANGED fixApproved
          /\ \E s \in {"rejected_by_user", "failed"} : fixStatus' = [fixStatus EXCEPT ![p] = s]
      BY <1>6, <2>3 DEF Remedy!Select, Remedy!Declined, Remedy!Returns
    <3>2. Phases'
      BY <2>1, <3>1 DEF Phases, Passed
    <3>3. Remedy!AppliedAsTested' /\ Remedy!AnswersAreTrue'
      BY <2>1, <3>1 DEF Remedy!AppliedAsTested, Remedy!AnswersAreTrue, Phases
    <3> QED
      BY <2>1, <3>1, <3>2, <3>3
  <2>4. CASE action = "revise"
    <3>1. fixDialog' = <<p, "text">> /\ UNCHANGED <<fixPc, fixStatus, fixTimers, validations, fixApproved>>
      BY <1>6, <2>4 DEF Remedy!Select
    <3>2. Phases'
      BY <2>1, <3>1 DEF Phases, Passed
    <3> QED
      BY <2>1, <3>1, <3>2 DEF Remedy!AppliedAsTested, Remedy!AnswersAreTrue
  <2> QED
    BY <2>2, <2>3, <2>4
<1>7. ASSUME NEW p \in Patches, Remedy!SubmitInstructions(p) \/ Remedy!ReviewTimesOut(p) PROVE PatchesInv'
  <2>1. /\ fixPc[p] = "review" /\ fixDialog' = <<"none", "closed">>
        /\ UNCHANGED <<version, fingerprint, testedOn, checkedOn, fixBaseline, fixResult, fixApproved, applied>>
    BY <1>7 DEF Remedy!SubmitInstructions, Remedy!ReviewTimesOut, Remedy!work, Phases
  <2>2. /\ fixPc' = [fixPc EXCEPT ![p] = "done"] /\ fixTimers' = fixTimers \ {p} /\ validations' = validations \ {p}
        /\ \E s \in {"revision_requested", "rejected_by_user", "failed"} : fixStatus' = [fixStatus EXCEPT ![p] = s]
    BY <1>7 DEF Remedy!SubmitInstructions, Remedy!ReviewTimesOut, Remedy!Declined, Remedy!Returns
  <2>3. Phases'
    BY <2>1, <2>2 DEF Phases, Passed
  <2>4. Remedy!AppliedAsTested' /\ Remedy!AnswersAreTrue'
    BY <2>1, <2>2 DEF Remedy!AppliedAsTested, Remedy!AnswersAreTrue, Phases
  <2> QED
    BY <2>1, <2>2, <2>3, <2>4
<1>8. ASSUME NEW p \in Patches, Remedy!applyValidatedPatch(p) PROVE PatchesInv'
  <2>1. /\ fixPc[p] = "apply" /\ validations' = validations \ {p}
        /\ checkedOn' = [checkedOn EXCEPT ![p] = Remedy!TreeOf(p)]
        /\ UNCHANGED <<version, fingerprint, testedOn, fixBaseline, fixResult, fixTimers, fixDialog, fixApproved, applied>>
    BY <1>8 DEF Remedy!applyValidatedPatch
  <2>2. \/ fixPc' = [fixPc EXCEPT ![p] = "check"] /\ UNCHANGED fixStatus /\ fingerprint[p] = Remedy!TreeOf(p)
        \/ fixPc' = [fixPc EXCEPT ![p] = "done"] /\ fixStatus' = [fixStatus EXCEPT ![p] = "failed"]
    BY <1>8 DEF Remedy!applyValidatedPatch, Remedy!Proceeds, Remedy!Returns, Remedy!SourceUnchanged
  <2>3. checkedOn'[p] = Remedy!TreeOf(p)
    BY <2>1
  <2>4. Phases'
    BY <2>1, <2>2, <2>3 DEF Phases, Passed
  <2>5. p \notin applied /\ \A q \in applied : q # p /\ checkedOn'[q] = checkedOn[q]
    BY <2>1 DEF Phases
  <2>6. Remedy!AppliedAsTested' /\ Remedy!AnswersAreTrue'
    BY <2>1, <2>2, <2>5 DEF Remedy!AppliedAsTested, Remedy!AnswersAreTrue
  <2> QED
    BY <1>a, <2>1, <2>2, <2>4, <2>6
<1>9. ASSUME NEW p \in Patches, NEW ok \in BOOLEAN, Remedy!DryRun(p, ok) \/ Remedy!GitFails(p) PROVE PatchesInv'
  <2>1. /\ fixPc[p] \in {"check", "git"}
        /\ UNCHANGED <<version, fingerprint, testedOn, checkedOn, fixBaseline, fixResult, validations, fixTimers, fixDialog,
                       fixApproved, applied>>
    BY <1>9 DEF Remedy!DryRun, Remedy!GitFails, Remedy!work
  <2>2. \/ fixPc' = [fixPc EXCEPT ![p] = "git"] /\ UNCHANGED fixStatus
        \/ fixPc' = [fixPc EXCEPT ![p] = "done"] /\ fixStatus' = [fixStatus EXCEPT ![p] = "failed"]
    BY <1>9 DEF Remedy!DryRun, Remedy!GitFails, Remedy!Proceeds, Remedy!Returns
  <2>3. Phases'
    BY <2>1, <2>2 DEF Phases, Passed
  <2>4. Remedy!AppliedAsTested' /\ Remedy!AnswersAreTrue'
    BY <2>1, <2>2 DEF Remedy!AppliedAsTested, Remedy!AnswersAreTrue, Phases
  <2>5. fixPc' \in [Patches -> {"new", "copy", "tests", "review", "apply", "check", "git", "record", "done"}]
    BY <2>2
  <2>6. fixStatus' \in [Patches -> {"none", "rejected_by_validation", "revision_requested", "rejected_by_user",
                                    "applied", "applied_unrecorded", "failed"}]
    BY <2>2
  <2> QED
    BY <2>1, <2>3, <2>4, <2>5, <2>6
<1>10. ASSUME NEW p \in Patches, NEW confirmed \in BOOLEAN, Remedy!GitApplies(p, confirmed) PROVE PatchesInv'
  <2>1. /\ fixPc[p] = "git" /\ applied' = applied \cup {p}
        /\ version' \in [Files -> Versions]
        /\ UNCHANGED <<fingerprint, testedOn, checkedOn, fixBaseline, fixResult, validations, fixTimers, fixDialog, fixApproved>>
    BY <1>10 DEF Remedy!GitApplies, Remedy!work
  <2>2. \/ fixPc' = [fixPc EXCEPT ![p] = "record"] /\ UNCHANGED fixStatus
        \/ fixPc' = [fixPc EXCEPT ![p] = "done"] /\ fixStatus' = [fixStatus EXCEPT ![p] = "failed"]
    BY <1>10 DEF Remedy!GitApplies, Remedy!Proceeds, Remedy!Returns
  <2>4. Phases'
    BY <2>1, <2>2 DEF Phases, Passed
  <2>5. Remedy!AppliedAsTested' /\ Remedy!AnswersAreTrue'
    BY <2>1, <2>2 DEF Remedy!AppliedAsTested, Remedy!AnswersAreTrue, Phases, Passed
  <2> QED
    BY <2>1, <2>2, <2>4, <2>5
<1>11. ASSUME NEW p \in Patches, NEW ok \in BOOLEAN, Remedy!recordDecision(p, ok) PROVE PatchesInv'
  <2>1. /\ fixPc[p] = "record" /\ fixPc' = [fixPc EXCEPT ![p] = "done"]
        /\ UNCHANGED <<version, fingerprint, testedOn, checkedOn, fixBaseline, fixResult, validations, fixTimers, fixDialog,
                       fixApproved, applied>>
        /\ \E s \in {"applied", "applied_unrecorded"} : fixStatus' = [fixStatus EXCEPT ![p] = s]
    BY <1>11 DEF Remedy!recordDecision, Remedy!Returns, Remedy!work
  <2>2. Phases'
    BY <2>1 DEF Phases, Passed
  <2>3. Remedy!AppliedAsTested' /\ Remedy!AnswersAreTrue'
    BY <2>1 DEF Remedy!AppliedAsTested, Remedy!AnswersAreTrue, Phases
  <2> QED
    BY <2>1, <2>2, <2>3
<1>12. CASE UNCHANGED patchesVars
  BY <1>12 DEF patchesVars, Phases, Passed, Remedy!AppliedAsTested, Remedy!AnswersAreTrue
<1> QED
  BY <1>1, <1>2, <1>3, <1>4, <1>5, <1>6, <1>7, <1>8, <1>9, <1>10, <1>11, <1>12 DEF Remedy!Next

\* The patches begin with it.
LEMMA PatchesBegin == Remedy!Init => PatchesInv
<1> SUFFICES ASSUME Remedy!Init PROVE PatchesInv
  OBVIOUS
<1>1. <<>> \in Trees /\ version \in [Files -> Versions]
  <2>1. <<>> \in [{} -> Versions] /\ (CHOOSE v \in Versions : TRUE) \in Versions
    BY ToolsAssumption DEF ToolsAssumption, Remedy!RemediationAssumption
  <2> QED
    BY <2>1 DEF Trees, Remedy!Init
<1>2. PatchesTyped
  BY <1>1 DEF Remedy!Init, PatchesTyped, Remedy!TypeOK, Remedy!Closed, Remedy!Outcomes
<1>3. Phases /\ Remedy!AppliedAsTested /\ Remedy!AnswersAreTrue
  BY DEF Remedy!Init, Phases, Remedy!AppliedAsTested, Remedy!AnswersAreTrue, Remedy!Closed
<1> QED
  BY <1>2, <1>3 DEF PatchesInv

\* A patch is in the tree only as the user approved it, after tests that passed, and on files that hold what
\* they had held when its validation began; each call is answered by what it did; and no review waits for a dialog that
\* another one closed (remediation-loop.ts, remediation-tools.ts).
THEOREM PatchesHold == ToolsSpec => [](Remedy!TypeOK /\ Remedy!PatchesAreValidated)
<1>1. PatchesInv => Remedy!TypeOK /\ Remedy!PatchesAreValidated
  BY DEF PatchesInv, PatchesTyped, Phases, Remedy!PatchesAreValidated, Remedy!ReviewsEnd
<1> QED
  BY <1>1, PatchesPart, PatchesBegin, PatchesStep, PTL DEF ToolsSpec

-----------------------------------------------------------------------------
\* The watch on the files (incremental-watch.ts, useIncrementalWatch.ts).

\* The numbers are well-founded by <: there is a relation that orders them and has no infinite descent.
LEMMA LessThan ==
  \E R : IsWellFoundedOn(R, Nat) /\ \A a, b \in Nat : a < b => <<a, b>> \in R
<1> DEFINE R == {p \in Nat \X Nat : p[1] < p[2]}
<1>1. IsWellFoundedOn(R, Nat)
  BY NatLessThanWellFounded DEF OpToRel
<1>2. \A a, b \in Nat : a < b => <<a, b>> \in R
  OBVIOUS
<1> QED
  BY <1>1, <1>2

\* A set of numbers that is not empty has a least element.
LEMMA LeastExists ==
  ASSUME NEW S \in SUBSET Nat, S # {}
  PROVE  \E x \in S : \A y \in S : x <= y
<1>1. PICK R : IsWellFoundedOn(R, Nat) /\ \A a, b \in Nat : a < b => <<a, b>> \in R
  BY LessThan
<1>2. IsWellFoundedOn(R, Nat) /\ S \subseteq Nat
  BY <1>1
<1>3. PICK x \in S : \A y \in S : ~(<<y, x>> \in R)
  BY <1>2, WFMin, Zenon
<1>4. x \in Nat /\ \A y \in S : y \in Nat /\ ~(y < x)
  BY <1>1, <1>3
<1> QED
  BY <1>4

\* A finite set of numbers that is not empty has a greatest element: the one that the fewest are greater than.
LEMMA GreatestExists ==
  ASSUME NEW S \in SUBSET Nat, IsFiniteSet(S), S # {}
  PROVE  \E x \in S : \A y \in S : y <= x
<1> DEFINE Above(x) == {y \in S : x < y}
           Counts == {Cardinality(Above(x)) : x \in S}
<1>1. \A x \in S : IsFiniteSet(Above(x)) /\ Cardinality(Above(x)) \in Nat
  BY FS_Subset, FS_CardinalityType
<1>2. Counts \in SUBSET Nat /\ Counts # {}
  BY <1>1
<1>3. PICK n \in Counts : \A m \in Counts : n <= m
  <2> HIDE DEF Counts
  <2> QED
    BY <1>2, LeastExists
<1>4. PICK x \in S : n = Cardinality(Above(x))
  BY <1>3
<1>5. ASSUME NEW y \in S, x < y PROVE FALSE
  <2>1. Above(y) \in SUBSET Above(x) /\ y \in Above(x) /\ y \notin Above(y)
    BY <1>4, <1>5
  <2> HIDE DEF Above
  <2>2. Cardinality(Above(y)) <= Cardinality(Above(x)) /\ Cardinality(Above(x)) # Cardinality(Above(y))
    BY <1>1, <1>4, <2>1, FS_Subset
  <2>3. Cardinality(Above(x)) <= Cardinality(Above(y))
    BY <1>3, <1>4
  <2> QED
    BY <1>1, <1>4, <2>2, <2>3
<1> QED
  BY <1>4, <1>5

\* The watch begins as it does by itself, and takes its own steps or none.
LEMMA WatchPart ==
    /\ ToolsInit => Watch!Init
    /\ [ToolsNext]_toolsVars => [Watch!Next]_watchVars
BY DEF ToolsInit, ToolsNext, toolsVars, OtherTools

\* Once the audit of a batch has ended, and as long as its flush has not, the delta says what became of the baseline.
DeltaIsApplied ==
    watchRunning /\ streaming # "watch" /\ failed \cap watchBatch = {} =>
        /\ watchPrevious \ watchBaseline = watchDelta.resolved /\ watchBaseline \ watchPrevious = watchDelta.introduced
        /\ \A f \in watchPrevious \ watchBaseline : LocationsOf[f] \subseteq watchBatch

\* No finding is in two parts of a delta, and one that is resolved was somewhere.
DeltaIsPartition ==
    /\ \A p, q \in DOMAIN watchDelta : p # q => watchDelta[p] \cap watchDelta[q] = {}
    /\ \A f \in watchDelta.resolved : LocationsOf[f] # {}

\* What has changed and is not lost waits to be audited, and is not taken off the list by the audit under way.
ChangesWait ==
    /\ ~stopped => unseen \ lost \subseteq changedPaths
    /\ watchRunning => watchBatch \cap unseen \subseteq lost

\* The inductive invariant of the watch.
WatchInv ==
    /\ Watch!TypeOK /\ ChangesWait /\ (changedPaths # {} => debounce \/ watchRunning) /\ Watch!ClosedIsQuiet
    /\ DeltaIsApplied /\ DeltaIsPartition
    /\ watchRunning => watchBatch # {}

\* The sizes that the module of the watch speaks of are those the lemmas on finite sets do.
LEMMA WatchCardinality == ASSUME NEW S PROVE Watch!Cardinality(S) = Cardinality(S) /\ Watch!IsFiniteSet(S) = IsFiniteSet(S)
BY Zenon DEF Watch!Cardinality, Cardinality, Watch!IsFiniteSet, IsFiniteSet

\* A batch is not empty, has files that were to be audited, and no more than a batch may have.
LEMMA BatchIsBounded ==
  ASSUME NEW S \in SUBSET Files, S # {}
  PROVE  /\ Watch!FirstOf(S) \subseteq S /\ Watch!FirstOf(S) # {}
         /\ Watch!Cardinality(Watch!FirstOf(S)) <= maxBatchSize
<1> DEFINE Below(f) == {g \in S : g < f}
           B == {f \in S : Cardinality(Below(f)) < maxBatchSize}
<1>0. /\ Files \subseteq Nat /\ IsFiniteSet(Files) /\ maxBatchSize \in Nat \ {0} /\ IsFiniteSet(S)
      /\ \A T : T \subseteq S => IsFiniteSet(T) /\ Cardinality(T) \in Nat
  BY ToolsAssumption, WatchCardinality, FS_Subset, FS_CardinalityType DEF ToolsAssumption, Watch!WatchAssumption
<1>1. Watch!FirstOf(S) = B
  BY WatchCardinality DEF Watch!FirstOf
<1>2. B # {}
  <2>1. PICK x \in S : \A y \in S : x <= y
    BY <1>0, LeastExists
  <2>2. Below(x) = {}
    <3> SUFFICES ASSUME NEW g \in S, g < x PROVE FALSE
      OBVIOUS
    <3>1. x \in Nat /\ g \in Nat /\ x <= g
      BY <1>0, <2>1
    <3> QED
      BY <3>1
  <2>3. Cardinality(Below(x)) = 0
    BY <2>2, FS_EmptySet
  <2>4. Cardinality(Below(x)) < maxBatchSize
    BY <2>3, <1>0
  <2> QED
    BY <2>4
<1>3. Cardinality(B) <= maxBatchSize
  <2>1. IsFiniteSet(B) /\ B \in SUBSET Nat
    BY <1>0
  <2>2. PICK x \in B : \A y \in B : y <= x
    <3> HIDE DEF B
    <3> QED
      BY <1>2, <2>1, GreatestExists
  <2>3. B \ {x} \in SUBSET Below(x)
    <3> SUFFICES ASSUME NEW y \in B, y # x PROVE y \in S /\ y < x
      OBVIOUS
    <3>1. x \in Nat /\ y \in Nat /\ y \in S /\ y <= x
      BY <2>1, <2>2
    <3> QED
      BY <3>1
  <2>3a. IsFiniteSet(Below(x)) /\ Cardinality(Below(x)) \in Nat
    BY <1>0
  <2>4. Cardinality(Below(x)) < maxBatchSize
    BY <2>2
  <2> HIDE DEF Below, B
  <2>5. Cardinality(B \ {x}) <= Cardinality(Below(x))
    BY <2>3, <2>3a, FS_Subset
  <2>6. Cardinality(B \ {x}) = Cardinality(B) - 1 /\ Cardinality(B) \in Nat
    BY <2>1, <2>2, FS_RemoveElement, FS_CardinalityType
  <2> QED
    BY <1>0, <2>3a, <2>4, <2>5, <2>6
<1> QED
  BY <1>1, <1>2, <1>3, WatchCardinality

\* What a delta is, whose baseline was the first and whose audit was of the files of the second.
IsDelta(before, audited, d) ==
    /\ d \in [{"introduced", "resolved", "unchanged"} -> SUBSET WatchFindings]
    /\ \A p, q \in {"introduced", "resolved", "unchanged"} : p # q => d[p] \cap d[q] = {}
    /\ \A f \in d.resolved : LocationsOf[f] # {} /\ LocationsOf[f] \subseteq audited
    /\ Watch!updateWatchBaseline(d) \in SUBSET WatchFindings
    /\ before \ Watch!updateWatchBaseline(d) = d.resolved /\ Watch!updateWatchBaseline(d) \ before = d.introduced

\* Such a delta is computed.
LEMMA DeltaIs ==
  ASSUME NEW before \in SUBSET WatchFindings, NEW current \in SUBSET WatchFindings, NEW audited \in SUBSET Files
  PROVE  IsDelta(before, audited, Watch!calculateSecurityDelta(before, current, audited))
<1> DEFINE d == Watch!calculateSecurityDelta(before, current, audited)
           outOfScope == {f \in before \ current : LocationsOf[f] = {} \/ ~(LocationsOf[f] \subseteq audited)}
<1>1. d = [introduced |-> current \ before, resolved |-> before \ (current \cup outOfScope),
           unchanged |-> (current \cap before) \cup outOfScope]
  BY DEF Watch!calculateSecurityDelta
<1>2. /\ d.introduced = current \ before /\ d.resolved = before \ (current \cup outOfScope)
      /\ d.unchanged = (current \cap before) \cup outOfScope
  BY <1>1
<1> HIDE DEF d
<1>3. d \in [{"introduced", "resolved", "unchanged"} -> SUBSET WatchFindings]
  BY <1>1
<1>4. \A p, q \in {"introduced", "resolved", "unchanged"} : p # q => d[p] \cap d[q] = {}
  BY <1>2
<1>5. \A f \in d.resolved : LocationsOf[f] # {} /\ LocationsOf[f] \subseteq audited
  BY <1>2
<1>6. Watch!updateWatchBaseline(d) = d.unchanged \cup d.introduced
  BY DEF Watch!updateWatchBaseline
<1>7. IsDelta(before, audited, d)
  BY <1>2, <1>3, <1>4, <1>5, <1>6 DEF IsDelta
<1> QED
  BY <1>7 DEF d

\* A flush that takes up the files of a set, to which all that wait belong but those of the flush before.
LEMMA StartsBatch ==
  ASSUME WatchInv, NEW S \in SUBSET Files, S # {}, Watch!StartBatch(S), unseen \ lost \subseteq S, S \subseteq changedPaths',
         changedPaths' \in SUBSET Files, ~stopped, UNCHANGED <<stopped, watchSession, watchDialog, latest, watchDelta>>,
         debounce' \in BOOLEAN
  PROVE  WatchInv'
<1>1. watchRunning' = TRUE /\ watchBatch' = Watch!FirstOf(S)
  BY DEF Watch!StartBatch
<1>2. watchBatch' \subseteq Files /\ watchBatch' # {} /\ Watch!Cardinality(watchBatch') <= maxBatchSize
  BY <1>1, BatchIsBounded
<1>3. CASE Watch!AuditsBatch(watchBatch')
  <2>1. /\ streaming' = "watch" /\ UNCHANGED failed /\ unseen' = unseen \ watchBatch' /\ lost' = lost \ watchBatch'
        /\ watchBaseline' \in {latest, watchBaseline} /\ watchPrevious' = watchBaseline'
    BY <1>3 DEF Watch!AuditsBatch
  <2> QED
    BY <1>1, <1>2, <2>1 DEF WatchInv, Watch!TypeOK, ChangesWait, Watch!ClosedIsQuiet, DeltaIsApplied, DeltaIsPartition
<1>4. CASE Watch!SkipsBatch(watchBatch')
  <2>1. /\ failed' = failed \cup watchBatch' /\ lost' = lost \cup watchBatch'
        /\ UNCHANGED <<unseen, streaming, watchBaseline, watchPrevious>>
    BY <1>4 DEF Watch!SkipsBatch
  <2> QED
    BY <1>1, <1>2, <2>1 DEF WatchInv, Watch!TypeOK, ChangesWait, Watch!ClosedIsQuiet, DeltaIsApplied, DeltaIsPartition
<1> QED
  BY <1>3, <1>4 DEF Watch!StartBatch

\* Each change, flush, audit and the close of the watch keeps the invariant.
LEMMA WatchStep == WatchInv /\ [Watch!Next]_watchVars => WatchInv'
<1> SUFFICES ASSUME WatchInv, [Watch!Next]_watchVars PROVE WatchInv'
  OBVIOUS
<1> USE DEF WatchInv, Watch!TypeOK, ChangesWait, Watch!ClosedIsQuiet, Watch!NoBatch
<1>1. ASSUME NEW f \in Files, Watch!enqueue(f) PROVE WatchInv'
  BY <1>1 DEF Watch!enqueue, DeltaIsApplied, DeltaIsPartition
<1>2. CASE Watch!TimerFires
  <2>1. debounce /\ ~stopped /\ UNCHANGED <<changedPaths, stopped, watchSession, watchDialog, latest, watchDelta>>
    BY <1>2 DEF Watch!TimerFires
  <2>2. CASE watchRunning \/ changedPaths = {}
    <3>1. debounce' = FALSE /\ UNCHANGED <<watchRunning, streaming, watchBatch, watchBaseline, watchPrevious, failed, unseen, lost>>
      BY <1>2, <2>2 DEF Watch!TimerFires
    <3> QED
      BY <2>1, <2>2, <3>1 DEF DeltaIsApplied, DeltaIsPartition
  <2>3. CASE ~watchRunning /\ changedPaths # {} /\ ~Watch!canProcess
    <3>1. debounce' = TRUE /\ UNCHANGED <<watchRunning, streaming, watchBatch, watchBaseline, watchPrevious, failed, unseen, lost>>
      BY <1>2, <2>1, <2>3 DEF Watch!TimerFires, Watch!scheduleFlush
    <3> QED
      BY <2>1, <3>1 DEF DeltaIsApplied, DeltaIsPartition
  <2>4. CASE ~watchRunning /\ changedPaths # {} /\ Watch!canProcess
    <3>1. debounce' = FALSE /\ Watch!StartBatch(changedPaths)
      BY <1>2, <2>4 DEF Watch!TimerFires
    <3>2. unseen \ lost \subseteq changedPaths /\ changedPaths \in SUBSET Files
      BY <2>1
    <3> QED
      BY <2>1, <2>4, <3>1, <3>2, StartsBatch
  <2> QED
    BY <2>2, <2>3, <2>4
<1>3. ASSUME NEW found \in SUBSET WatchFindings, NEW asks \in BOOLEAN, Watch!AuditEnds(found, asks) PROVE WatchInv'
  <2>1. /\ watchRunning /\ latest' = found /\ streaming' = "no" /\ watchDialog' = asks
        /\ watchDelta' = Watch!calculateSecurityDelta(watchPrevious, found, watchBatch)
        /\ watchBaseline' = Watch!updateWatchBaseline(watchDelta') /\ failed' = failed \ watchBatch
        /\ UNCHANGED <<changedPaths, debounce, watchRunning, watchBatch, stopped, watchSession, watchPrevious, unseen, lost>>
    BY <1>3 DEF Watch!AuditEnds
  <2>2. /\ watchDelta' \in [{"introduced", "resolved", "unchanged"} -> SUBSET WatchFindings]
        /\ \A p, q \in {"introduced", "resolved", "unchanged"} : p # q => watchDelta'[p] \cap watchDelta'[q] = {}
        /\ \A f \in watchDelta'.resolved : LocationsOf[f] # {} /\ LocationsOf[f] \subseteq watchBatch
        /\ watchBaseline' \in SUBSET WatchFindings
        /\ watchPrevious \ watchBaseline' = watchDelta'.resolved /\ watchBaseline' \ watchPrevious = watchDelta'.introduced
    <3>1. watchPrevious \in SUBSET WatchFindings /\ watchBatch \in SUBSET Files
      OBVIOUS
    <3> HIDE DEF WatchInv, Watch!TypeOK, ChangesWait, Watch!ClosedIsQuiet
    <3>2. IsDelta(watchPrevious, watchBatch, Watch!calculateSecurityDelta(watchPrevious, found, watchBatch))
      BY <3>1, DeltaIs
    <3>3. IsDelta(watchPrevious, watchBatch, watchDelta')
      BY <2>1, <3>2
    <3> QED
      BY <2>1, <3>3 DEF IsDelta
  <2>3. DOMAIN watchDelta' = {"introduced", "resolved", "unchanged"}
    BY <2>2
  <2>4. DeltaIsPartition'
    BY <2>2, <2>3 DEF DeltaIsPartition
  <2>5. DeltaIsApplied'
    BY <2>1, <2>2 DEF DeltaIsApplied
  <2> QED
    BY <2>1, <2>2, <2>4, <2>5
<1>4. CASE Watch!AuditFails
  <2>1. /\ watchRunning /\ latest' \in {{}, latest} /\ streaming' = "no" /\ failed' = failed \cup watchBatch
        /\ UNCHANGED <<changedPaths, debounce, watchRunning, watchBatch, stopped, watchSession, watchDialog, watchBaseline,
                       watchPrevious, watchDelta, unseen, lost>>
    BY <1>4 DEF Watch!AuditFails
  <2>2. DeltaIsApplied' /\ DeltaIsPartition'
    BY <2>1 DEF DeltaIsApplied, DeltaIsPartition
  <2> QED
    BY <2>1, <2>2
<1>5. CASE Watch!FlushEnds
  <2>1. /\ watchRunning /\ streaming # "watch" /\ changedPaths' = changedPaths \ watchBatch /\ Watch!AuditRest
        /\ UNCHANGED <<stopped, watchSession, watchDialog, latest, watchDelta>>
    BY <1>5 DEF Watch!FlushEnds
  <2>2. CASE stopped \/ changedPaths' = {}
    <3>1. /\ UNCHANGED <<debounce, streaming, watchBatch, watchBaseline, watchPrevious, failed, unseen, lost>>
          /\ watchRunning' = FALSE
      BY <2>1, <2>2 DEF Watch!AuditRest
    <3> QED
      BY <2>1, <2>2, <3>1 DEF DeltaIsApplied, DeltaIsPartition
  <2>3. CASE ~stopped /\ changedPaths' # {} /\ Watch!canProcess
    <3>1. Watch!StartBatch(changedPaths') /\ UNCHANGED debounce
      BY <2>1, <2>3 DEF Watch!AuditRest
    <3>2. /\ changedPaths' \in SUBSET Files /\ debounce' \in BOOLEAN
          /\ unseen \ lost \subseteq changedPaths'
      BY <2>1, <2>3, <3>1
    <3> QED
      BY <2>1, <2>3, <3>1, <3>2, StartsBatch
  <2>4. CASE ~stopped /\ changedPaths' # {} /\ ~Watch!canProcess
    <3>1. /\ debounce' = TRUE /\ watchRunning' = FALSE
          /\ UNCHANGED <<streaming, watchBatch, watchBaseline, watchPrevious, failed, unseen, lost>>
      BY <2>1, <2>4 DEF Watch!AuditRest, Watch!scheduleFlush
    <3> QED
      BY <2>1, <2>4, <3>1 DEF DeltaIsApplied, DeltaIsPartition
  <2> QED
    BY <2>2, <2>3, <2>4
<1>6. CASE Watch!close
  BY <1>6 DEF Watch!close, DeltaIsApplied, DeltaIsPartition
<1>7. CASE Watch!UserSends
  BY <1>7 DEF Watch!UserSends, DeltaIsApplied, DeltaIsPartition
<1>8. ASSUME NEW found \in SUBSET WatchFindings, NEW asks \in BOOLEAN, Watch!UserIsAnswered(found, asks) PROVE WatchInv'
  BY <1>8 DEF Watch!UserIsAnswered, DeltaIsApplied, DeltaIsPartition
<1>9. CASE Watch!SessionComes
  BY <1>9 DEF Watch!SessionComes, DeltaIsApplied, DeltaIsPartition
<1>10. CASE UNCHANGED watchVars
  BY <1>10 DEF watchVars, DeltaIsApplied, DeltaIsPartition
<1> QED
  BY <1>1, <1>2, <1>3, <1>4, <1>5, <1>6, <1>7, <1>8, <1>9, <1>10 DEF Watch!Next

\* The watch begins with it.
LEMMA WatchBegins == Watch!Init => WatchInv
<1> SUFFICES ASSUME Watch!Init PROVE WatchInv
  OBVIOUS
<1>1. Watch!Cardinality({}) <= maxBatchSize
  BY ToolsAssumption, WatchCardinality, FS_EmptySet DEF ToolsAssumption, Watch!WatchAssumption
<1>2. Watch!NoDelta \in [{"introduced", "resolved", "unchanged"} -> SUBSET WatchFindings]
  BY DEF Watch!NoDelta
<1>3. Watch!TypeOK
  BY <1>1, <1>2 DEF Watch!Init, Watch!TypeOK
<1> QED
  BY <1>3
     DEF Watch!Init, WatchInv, ChangesWait, Watch!ClosedIsQuiet, DeltaIsApplied, DeltaIsPartition, Watch!NoDelta

\* A changed file waits to be audited, unless it changed while it was audited or there was no session; a closed watch does
\* nothing; and the delta accounts for every finding and resolves only those whose files have all been audited
\* (incremental-watch.ts, useIncrementalWatch.ts).
THEOREM WatchHolds == ToolsSpec => [](Watch!TypeOK /\ Watch!WatchKeepsUp)
<1>1. WatchInv => Watch!TypeOK /\ Watch!WatchKeepsUp
  BY DEF WatchInv, ChangesWait, Watch!WatchKeepsUp, Watch!ChangesArePending, Watch!DeltaAddsUp, DeltaIsApplied, DeltaIsPartition
<1> QED
  BY <1>1, WatchPart, WatchBegins, WatchStep, PTL DEF ToolsSpec

-----------------------------------------------------------------------------
\* The component of a session (useAgentSession.ts).

\* The component begins as it does by itself, and takes its own steps or none.
LEMMA HookPart ==
    /\ ToolsInit => Hook!Init
    /\ [ToolsNext]_toolsVars => [Hook!Next]_hookVars
BY DEF ToolsInit, ToolsNext, toolsVars, OtherTools

\* Where an initialization stands, what became of its session, and who it was begun for.
InitsStand == \A i \in Inits :
    /\ hookPc[i] \in {"idle", "root", "cachedRoot", "map"} => life[i] = "none"
    /\ life[i] = "starting" <=> hookPc[i] = "starting"
    /\ hookPc[i] \notin {"idle", "done"} => myOwner[i] # 0
    /\ myGeneration[i] <= generation
    /\ \A j \in Inits : hookPc[i] # "idle" /\ j < i => hookPc[j] # "idle" /\ myGeneration[j] < myGeneration[i]

\* The session that is referred to is the one that may be active.
OneIsActive ==
    /\ hookActive \subseteq {ref}
    /\ \A i \in Inits : ref = i => hookPc[i] = "published"

\* Types.
HookTyped ==
    /\ Hook!TypeOK /\ generation \in Nat
    /\ myOwner \in [Inits -> Nat] /\ myGeneration \in [Inits -> Nat]

\* The inductive invariant of the component.
HookInv == HookTyped /\ InitsStand /\ OneIsActive /\ Hook!NoOrphans /\ Hook!NewestIsShown

\* The sizes that the module of the component speaks of are those the lemmas on finite sets do.
LEMMA HookCardinality == ASSUME NEW S PROVE Hook!Cardinality(S) = Cardinality(S)
BY Zenon DEF Hook!Cardinality, Cardinality, Hook!IsFiniteSet, IsFiniteSet

\* A map is added under a number that none has had.
LEMMA NewMapIsOne ==
  ASSUME Hook!TypeOK, NEW t, NEW r, Hook!NewMap(t, r)
  PROVE  /\ cache' \in DOMAIN maps' /\ DOMAIN maps' \subseteq 1..MaxMaps
<1> DEFINE n == Cardinality(DOMAIN maps) + 1
<1>1. n \in 1..MaxMaps
  <2>1. IsFiniteSet(1..MaxMaps) /\ MaxMaps \in Nat
    BY FS_Interval, ToolsAssumption DEF ToolsAssumption, Hook!HookAssumption
  <2>2. DOMAIN maps \subseteq 1..MaxMaps
    BY DEF Hook!TypeOK, Hook!MapIds
  <2>3. Cardinality(DOMAIN maps) \in Nat
    BY <2>1, <2>2, FS_Subset, FS_CardinalityType
  <2>4. Cardinality(DOMAIN maps) < MaxMaps
    BY HookCardinality DEF Hook!NewMap, Hook!MapIds
  <2> QED
    BY <2>1, <2>3, <2>4
<1>2. DOMAIN maps' = DOMAIN maps \cup {n} /\ cache' = n
  BY HookCardinality DEF Hook!NewMap, Hook!MapIds
<1>3. DOMAIN maps \subseteq 1..MaxMaps
  BY DEF Hook!TypeOK, Hook!MapIds
<1> HIDE DEF n
<1> QED
  BY <1>1, <1>2, <1>3

\* What the steps of the cache of the map, and those of an initialization before its session is built, leave alone.
Rest == <<mounts, owner, generation, ref, hookActive, shutting, myOwner, myGeneration, life>>

\* The invariant is kept by what only concerns the cache of the map.
LEMMA RestKeeps ==
  ASSUME HookInv, UNCHANGED Rest, UNCHANGED hookPc, Hook!TypeOK'
  PROVE  HookInv'
BY DEF HookInv, HookTyped, InitsStand, OneIsActive, Hook!NoOrphans, Hook!NewestIsShown, Rest

\* It is kept by the steps of an initialization that has no session yet.
LEMMA EarlyKeeps ==
  ASSUME HookInv, UNCHANGED Rest, Hook!TypeOK', NEW i \in Inits, hookPc[i] \in {"root", "cachedRoot", "map"},
         NEW following \in {"root", "cachedRoot", "map", "done"}, hookPc' = [hookPc EXCEPT ![i] = following]
  PROVE  HookInv'
<1> USE DEF HookInv, HookTyped, Hook!TypeOK, Rest
<1>1. InitsStand'
  BY DEF InitsStand
<1>2. OneIsActive'
  BY DEF OneIsActive
<1>3. Hook!NoOrphans' /\ Hook!NewestIsShown'
  BY DEF Hook!NoOrphans, Hook!NewestIsShown, InitsStand
<1> QED
  BY <1>1, <1>2, <1>3

\* Each step of the component, its initializations and the cache keeps the invariant.
LEMMA HookStep == HookInv /\ [Hook!Next]_hookVars => HookInv'
<1> SUFFICES ASSUME HookInv, [Hook!Next]_hookVars PROVE HookInv'
  OBVIOUS
<1>0. Inits \subseteq Nat \ {0} /\ MaxMounts \in Nat /\ MaxMaps \in Nat /\ MaxEdits \in Nat
  BY ToolsAssumption DEF ToolsAssumption, Hook!HookAssumption
<1> USE DEF Hook!hook, Hook!inits, Hook!caches
<1>1. CASE Hook!Mount
  <2> USE DEF HookInv, HookTyped, Hook!TypeOK
  <2>1. /\ owner = 0 /\ mounts' = mounts + 1 /\ owner' = mounts + 1 /\ mounts < MaxMounts /\ ~shutting
        /\ UNCHANGED <<generation, ref, hookActive, shutting, hookPc, hookTarget, myOwner, myGeneration, root, mine, life, map,
                       cache, maps, content>>
    BY <1>1 DEF Hook!Mount
  <2>2. HookTyped'
    BY <2>1, <1>0 DEF Hook!MapIds
  <2>3. InitsStand' /\ OneIsActive' /\ Hook!NewestIsShown'
    BY <2>1 DEF InitsStand, OneIsActive, Hook!NewestIsShown
  <2>4. \A i \in Inits : life[i] # "ready"
    BY <2>1 DEF InitsStand, OneIsActive, Hook!NoOrphans
  <2>5. Hook!NoOrphans'
    BY <2>1, <2>4 DEF Hook!NoOrphans
  <2> QED
    BY <2>2, <2>3, <2>5
<1>2. CASE Hook!Unmount
  <2> USE DEF HookInv, HookTyped, Hook!TypeOK
  <2>1. /\ owner # 0 /\ owner' = 0 /\ generation' = generation + 1
        /\ UNCHANGED <<mounts, shutting, hookPc, hookTarget, myOwner, myGeneration, root, mine, map, cache, maps, content>>
    BY <1>2 DEF Hook!Unmount
  <2>2. CASE shutting \/ ref = 0
    <3>1. UNCHANGED <<ref, hookActive, life>>
      BY <1>2, <2>2 DEF Hook!Unmount
    <3>2. HookTyped' /\ InitsStand' /\ OneIsActive' /\ Hook!NewestIsShown'
      BY <2>1, <3>1, <1>0 DEF Hook!MapIds, InitsStand, OneIsActive, Hook!NewestIsShown
    <3>3. Hook!NoOrphans'
      BY <2>1, <2>2, <3>1, <1>0 DEF Hook!NoOrphans
    <3> QED
      BY <3>2, <3>3
  <2>3. CASE ~shutting /\ ref # 0
    <3>1. ref' = 0 /\ hookActive' = hookActive \ {ref} /\ life' = [life EXCEPT ![ref] = "disposing"] /\ ref \in Inits
      BY <1>2, <2>3 DEF Hook!Unmount
    <3>2. HookTyped'
      BY <2>1, <3>1, <1>0 DEF Hook!MapIds
    <3>3. InitsStand'
      BY <2>1, <3>1, <1>0 DEF InitsStand, OneIsActive
    <3>4. OneIsActive' /\ Hook!NewestIsShown'
      BY <2>1, <3>1, <1>0 DEF OneIsActive, Hook!NewestIsShown
    <3>5. Hook!NoOrphans'
      BY <2>1, <3>1, <1>0 DEF Hook!NoOrphans, InitsStand
    <3> QED
      BY <3>2, <3>3, <3>4, <3>5
  <2> QED
    BY <2>2, <2>3
<1>3. CASE Hook!Shutdown
  <2> USE DEF HookInv, HookTyped, Hook!TypeOK
  <2>1. /\ shutting' = TRUE /\ hookActive' = {} /\ life' = [i \in Inits |-> IF i \in hookActive THEN "disposing" ELSE life[i]]
        /\ UNCHANGED <<mounts, owner, generation, ref, hookPc, hookTarget, myOwner, myGeneration, root, mine, map, cache,
                       maps, content>>
    BY <1>3 DEF Hook!Shutdown
  <2>2. HookTyped' /\ OneIsActive' /\ Hook!NewestIsShown'
    BY <2>1 DEF OneIsActive, Hook!NewestIsShown, Hook!MapIds
  <2>3. InitsStand'
    BY <2>1 DEF InitsStand, OneIsActive
  <2>4. Hook!NoOrphans'
    BY <2>1 DEF Hook!NoOrphans, InitsStand
  <2> QED
    BY <2>2, <2>3, <2>4
<1>4. CASE Hook!ShutdownSettles
  <2>1. UNCHANGED Rest /\ UNCHANGED hookPc /\ Hook!TypeOK'
    BY <1>4 DEF HookInv, HookTyped, Hook!TypeOK, Hook!ShutdownSettles, Rest, Hook!MapIds
  <2> QED
    BY <2>1, RestKeeps
<1>5. ASSUME NEW t \in Targets, Hook!Edit(t) PROVE HookInv'
  <2>1. UNCHANGED Rest /\ UNCHANGED hookPc /\ Hook!TypeOK'
    BY <1>5, <1>0 DEF HookInv, HookTyped, Hook!TypeOK, Hook!Edit, Rest, Hook!MapIds
  <2> QED
    BY <2>1, RestKeeps
<1>6. ASSUME NEW t \in Targets, Hook!startRepoMapGeneration(t) PROVE HookInv'
  <2>1. /\ Hook!NewMap(t, Hook!Pending) /\ UNCHANGED content
        /\ UNCHANGED Rest /\ UNCHANGED hookPc
    BY <1>6 DEF Hook!startRepoMapGeneration, Rest
  <2>2. Hook!TypeOK
    BY DEF HookInv, HookTyped
  <2>3. Hook!TypeOK'
    BY <2>1, <2>2, NewMapIsOne DEF Hook!TypeOK, Rest, Hook!MapIds
  <2> QED
    BY <2>1, <2>3, RestKeeps
<1>7. ASSUME NEW m \in Hook!MapIds, Hook!RootSettles(m) \/ Hook!MapSettles(m) PROVE HookInv'
  <2>1. UNCHANGED Rest /\ UNCHANGED <<hookPc, cache, content>> /\ DOMAIN maps' = DOMAIN maps
    BY <1>7 DEF Hook!RootSettles, Hook!MapSettles, Rest, Hook!MapIds
  <2>2. Hook!TypeOK'
    BY <2>1 DEF HookInv, HookTyped, Hook!TypeOK, Rest, Hook!MapIds
  <2> QED
    BY <2>1, <2>2, RestKeeps
<1>8. ASSUME NEW i \in Inits, Hook!SessionDisposed(i) PROVE HookInv'
  <2> USE DEF HookInv, HookTyped, Hook!TypeOK
  <2>1. /\ life[i] = "disposing" /\ life' = [life EXCEPT ![i] = "gone"]
        /\ UNCHANGED <<mounts, owner, generation, ref, hookActive, shutting, hookPc, myOwner, myGeneration, cache, maps, content>>
    BY <1>8 DEF Hook!SessionDisposed
  <2>2. HookTyped' /\ OneIsActive' /\ Hook!NewestIsShown'
    BY <2>1 DEF OneIsActive, Hook!NewestIsShown, Hook!MapIds
  <2>3. InitsStand'
    BY <2>1 DEF InitsStand
  <2>4. Hook!NoOrphans'
    BY <2>1 DEF Hook!NoOrphans
  <2> QED
    BY <2>2, <2>3, <2>4
<1>9. ASSUME NEW i \in Inits, Hook!initSession(i) PROVE HookInv'
  <2> USE DEF HookInv, HookTyped, Hook!TypeOK
  <2>1. /\ hookPc[i] = "idle" /\ \A j \in Inits : j < i => hookPc[j] # "idle"
        /\ generation' = generation + 1
        /\ myOwner' = [myOwner EXCEPT ![i] = owner] /\ myGeneration' = [myGeneration EXCEPT ![i] = generation + 1]
        /\ hookPc' = [hookPc EXCEPT ![i] = IF owner = 0 \/ shutting THEN "done" ELSE "root"]
        /\ UNCHANGED <<mounts, owner, ref, hookActive, shutting, life, cache, maps, content>>
    BY <1>9 DEF Hook!initSession, Hook!Settles
  <2>2. HookTyped'
    BY <2>1, <1>0 DEF Hook!MapIds
  <2>3. OneIsActive' /\ Hook!NewestIsShown'
    BY <2>1 DEF OneIsActive, Hook!NewestIsShown
  <2>4. \A k \in Inits : k # i => hookPc'[k] = hookPc[k] /\ myOwner'[k] = myOwner[k] /\ myGeneration'[k] = myGeneration[k]
    BY <2>1
  <2>5. \A k \in Inits : i < k => hookPc[k] = "idle"
    BY <2>1 DEF InitsStand
  <2>6. /\ hookPc'[i] \in {"done", "root"} /\ myOwner'[i] = owner /\ myGeneration'[i] = generation + 1 /\ life[i] = "none"
        /\ hookPc'[i] = "root" => owner # 0
    BY <2>1 DEF InitsStand
  <2>7. InitsStand'
    <3> SUFFICES ASSUME NEW k \in Inits
        PROVE  /\ hookPc'[k] \in {"idle", "root", "cachedRoot", "map"} => life'[k] = "none"
               /\ life'[k] = "starting" <=> hookPc'[k] = "starting"
               /\ hookPc'[k] \notin {"idle", "done"} => myOwner'[k] # 0
               /\ myGeneration'[k] <= generation'
               /\ \A j \in Inits : hookPc'[k] # "idle" /\ j < k => hookPc'[j] # "idle" /\ myGeneration'[j] < myGeneration'[k]
      BY DEF InitsStand
    <3>1. k \in Nat /\ i \in Nat /\ \A j \in Inits : j \in Nat
      BY <1>0
    <3>2. CASE k = i
      <4>1. \A j \in Inits : j < i => hookPc'[j] # "idle" /\ myGeneration'[j] < generation + 1
        BY <2>1, <2>4, <3>1 DEF InitsStand
      <4> QED
        BY <2>1, <2>6, <3>2, <4>1
    <3>3. CASE k # i
      <4>1. /\ hookPc[k] \in {"idle", "root", "cachedRoot", "map"} => life[k] = "none"
            /\ life[k] = "starting" <=> hookPc[k] = "starting"
            /\ hookPc[k] \notin {"idle", "done"} => myOwner[k] # 0
            /\ myGeneration[k] <= generation
            /\ \A j \in Inits : hookPc[k] # "idle" /\ j < k => hookPc[j] # "idle" /\ myGeneration[j] < myGeneration[k]
        BY DEF InitsStand
      <4>2. hookPc'[k] = hookPc[k] /\ myOwner'[k] = myOwner[k] /\ myGeneration'[k] = myGeneration[k] /\ life'[k] = life[k]
        BY <2>1, <2>4, <3>3
      <4>3. ASSUME NEW j \in Inits, hookPc'[k] # "idle", j < k PROVE hookPc'[j] # "idle" /\ myGeneration'[j] < myGeneration'[k]
        <5>1. j # i
          BY <2>5, <4>2, <4>3
        <5> QED
          BY <2>4, <4>1, <4>2, <4>3, <5>1
      <4> QED
        BY <2>1, <4>1, <4>2, <4>3
    <3> QED
      BY <3>2, <3>3
  <2>8. Hook!NoOrphans'
    <3>1. \A k \in Inits : life[k] # "none" => k # i
      BY <2>6
    <3> QED
      BY <2>1, <2>4, <3>1 DEF Hook!NoOrphans
  <2> QED
    BY <2>2, <2>3, <2>7, <2>8
<1>10. ASSUME NEW i \in Inits, Hook!RootComputed(i) \/ Hook!CachedRootKnown(i) PROVE HookInv'
  <2>1. /\ UNCHANGED Rest /\ UNCHANGED content /\ hookPc[i] \in {"root", "cachedRoot", "map"}
        /\ \E following \in {"root", "cachedRoot", "map", "done"} : hookPc' = [hookPc EXCEPT ![i] = following]
        /\ UNCHANGED <<cache, maps>> \/ \E t, r : Hook!NewMap(t, r)
    BY <1>10 DEF Hook!RootComputed, Hook!CachedRootKnown, Rest, Hook!Settles
  <2>2. Hook!TypeOK
    BY DEF HookInv, HookTyped
  <2>3. cache' \in DOMAIN maps' \cup {0} /\ DOMAIN maps' \subseteq 1..MaxMaps
    BY <2>1, <2>2, NewMapIsOne DEF Hook!TypeOK, Hook!MapIds
  <2>4. Hook!TypeOK'
    BY <2>1, <2>2, <2>3 DEF Hook!TypeOK, Rest, Hook!MapIds
  <2> QED
    BY <2>1, <2>4, EarlyKeeps
<1>11. ASSUME NEW i \in Inits, Hook!MapKnown(i) PROVE HookInv'
  <2>1. /\ hookPc[i] = "map"
        /\ UNCHANGED <<mounts, owner, generation, ref, hookActive, shutting, myOwner, myGeneration, cache, maps, content>>
    BY <1>11 DEF Hook!MapKnown
  <2>2. CASE Hook!StillWanted(i)
    <3> USE DEF HookInv, HookTyped, Hook!TypeOK
    <3>1. hookPc' = [hookPc EXCEPT ![i] = "starting"] /\ life' = [life EXCEPT ![i] = "starting"]
      BY <1>11, <2>2 DEF Hook!MapKnown, Hook!Settles
    <3>2. HookTyped' /\ OneIsActive' /\ Hook!NewestIsShown'
      BY <2>1, <3>1 DEF OneIsActive, Hook!NewestIsShown, Hook!MapIds
    <3>3. InitsStand'
      BY <2>1, <3>1 DEF InitsStand
    <3>4. Hook!NoOrphans'
      BY <2>1, <3>1 DEF Hook!NoOrphans
    <3> QED
      BY <3>2, <3>3, <3>4
  <2>3. CASE ~Hook!StillWanted(i)
    <3>1. UNCHANGED Rest /\ hookPc' = [hookPc EXCEPT ![i] = "done"]
      BY <1>11, <2>1, <2>3 DEF Hook!MapKnown, Hook!Settles, Rest
    <3>2. Hook!TypeOK'
      BY <2>1, <3>1 DEF HookInv, HookTyped, Hook!TypeOK, Rest, Hook!MapIds
    <3> QED
      BY <2>1, <3>1, <3>2, EarlyKeeps
  <2> QED
    BY <2>2, <2>3
<1>12. ASSUME NEW i \in Inits, Hook!SessionFails(i) PROVE HookInv'
  <2> USE DEF HookInv, HookTyped, Hook!TypeOK
  <2>1. /\ hookPc[i] = "starting" /\ hookPc' = [hookPc EXCEPT ![i] = "done"] /\ life' = [life EXCEPT ![i] = "disposing"]
        /\ UNCHANGED <<mounts, owner, generation, ref, hookActive, shutting, myOwner, myGeneration, cache, maps, content>>
    BY <1>12 DEF Hook!SessionFails, Hook!Settles
  <2>2. HookTyped' /\ OneIsActive' /\ Hook!NewestIsShown'
    BY <2>1 DEF OneIsActive, Hook!NewestIsShown, Hook!MapIds
  <2>3. InitsStand'
    BY <2>1 DEF InitsStand
  <2>4. Hook!NoOrphans'
    BY <2>1 DEF Hook!NoOrphans
  <2> QED
    BY <2>2, <2>3, <2>4
<1>13. ASSUME NEW i \in Inits, Hook!SessionReady(i) PROVE HookInv'
  <2> USE DEF HookInv, HookTyped, Hook!TypeOK
  <2>1. /\ hookPc[i] = "starting" /\ UNCHANGED <<mounts, owner, generation, shutting, myOwner, myGeneration, cache, maps, content>>
        /\ life[i] = "starting" /\ ref # i
    BY <1>13 DEF Hook!SessionReady, InitsStand, OneIsActive
  <2>2. CASE Hook!StillWanted(i)
    <3>1. /\ hookPc' = [hookPc EXCEPT ![i] = "published"] /\ ref' = i /\ hookActive' = (hookActive \cup {i}) \ {ref}
          /\ life' = [j \in Inits |-> IF j = i THEN "ready" ELSE IF j = ref THEN "disposing" ELSE life[j]]
          /\ ~shutting /\ owner = myOwner[i] /\ generation = myGeneration[i]
      BY <1>13, <2>2 DEF Hook!SessionReady, Hook!Settles, Hook!StillWanted
    <3>2. HookTyped'
      BY <2>1, <3>1 DEF Hook!MapIds
    <3>3. OneIsActive'
      BY <2>1, <3>1 DEF OneIsActive
    <3>4. \A j \in Inits : j > i => hookPc[j] = "idle"
      BY <3>1, <1>0 DEF InitsStand
    <3>5. Hook!NewestIsShown'
      BY <3>1, <3>4, <1>0 DEF Hook!NewestIsShown
    <3>6. InitsStand'
      BY <2>1, <3>1 DEF InitsStand, OneIsActive
    <3>7. Hook!NoOrphans'
      BY <2>1, <3>1 DEF Hook!NoOrphans, OneIsActive
    <3> QED
      BY <3>2, <3>3, <3>5, <3>6, <3>7
  <2>3. CASE ~Hook!StillWanted(i)
    <3>1. hookPc' = [hookPc EXCEPT ![i] = "done"] /\ life' = [life EXCEPT ![i] = "disposing"] /\ UNCHANGED <<ref, hookActive>>
      BY <1>13, <2>3 DEF Hook!SessionReady, Hook!Settles
    <3>2. HookTyped' /\ OneIsActive' /\ Hook!NewestIsShown'
      BY <2>1, <3>1 DEF OneIsActive, Hook!NewestIsShown, Hook!MapIds
    <3>3. InitsStand'
      BY <2>1, <3>1 DEF InitsStand
    <3>4. Hook!NoOrphans'
      BY <2>1, <3>1 DEF Hook!NoOrphans
    <3> QED
      BY <3>2, <3>3, <3>4
  <2> QED
    BY <2>2, <2>3
<1>14. CASE UNCHANGED hookVars
  <2>1. UNCHANGED Rest /\ UNCHANGED <<hookPc, cache, maps, content>>
    BY <1>14 DEF hookVars, Rest
  <2>2. Hook!TypeOK'
    BY <2>1 DEF HookInv, HookTyped, Hook!TypeOK, Rest, Hook!MapIds
  <2> QED
    BY <2>1, <2>2, RestKeeps
<1> QED
  BY <1>1, <1>2, <1>3, <1>4, <1>5, <1>6, <1>7, <1>8, <1>9, <1>10, <1>11, <1>12, <1>13, <1>14 DEF Hook!Next

\* The component begins with it.
LEMMA HookBegins == Hook!Init => HookInv
<1> SUFFICES ASSUME Hook!Init PROVE HookInv
  OBVIOUS
<1>0. Inits \subseteq Nat \ {0} /\ MaxMounts \in Nat /\ MaxMaps \in Nat /\ MaxEdits \in Nat
  BY ToolsAssumption DEF ToolsAssumption, Hook!HookAssumption
<1>1. DOMAIN maps = {}
  BY DEF Hook!Init
<1>2. HookTyped
  <2>0. shutting \in BOOLEAN
    BY DEF Hook!Init
  <2>1. mounts \in 0..MaxMounts /\ owner \in 0..mounts /\ generation \in Nat
    <3>1. mounts = 0 /\ owner = 0 /\ generation = 0
      BY DEF Hook!Init
    <3> QED
      BY <3>1, <1>0
  <2>2. ref \in Inits \cup {0} /\ hookActive \subseteq Inits
    BY DEF Hook!Init
  <2>3. hookPc \in [Inits -> {"idle", "root", "cachedRoot", "map", "starting", "published", "done"}]
    BY DEF Hook!Init
  <2>4. life \in [Inits -> {"none", "starting", "ready", "disposing", "gone"}]
    BY DEF Hook!Init
  <2>5. myOwner \in [Inits -> Nat] /\ myGeneration \in [Inits -> Nat]
    BY DEF Hook!Init
  <2>6. content \in [Targets -> 0..MaxEdits]
    BY <1>0 DEF Hook!Init
  <2>7. cache \in DOMAIN maps \cup {0} /\ DOMAIN maps \subseteq 1..MaxMaps
    BY <1>1 DEF Hook!Init
  <2> QED
    BY <2>0, <2>1, <2>2, <2>3, <2>4, <2>5, <2>6, <2>7 DEF HookTyped, Hook!TypeOK, Hook!MapIds
<1>3. InitsStand /\ OneIsActive /\ Hook!NoOrphans /\ Hook!NewestIsShown
  BY <1>0 DEF Hook!Init, InitsStand, OneIsActive, Hook!NoOrphans, Hook!NewestIsShown
<1> QED
  BY <1>2, <1>3 DEF HookInv

\* No session is left running when its component has gone, the program is shut down or another initialization has
\* replaced it, and the newest one is shown (useAgentSession.ts).
THEOREM HookHolds == ToolsSpec => [](Hook!TypeOK /\ Hook!SessionsDoNotLeak)
<1>1. HookInv => Hook!TypeOK /\ Hook!SessionsDoNotLeak
  BY DEF HookInv, HookTyped, Hook!SessionsDoNotLeak
<1> QED
  BY <1>1, HookPart, HookBegins, HookStep, PTL DEF ToolsSpec

-----------------------------------------------------------------------------
\* The wizard and the app (SetupScreen.tsx, config.ts, App.tsx).

\* The app and its wizard begin as they do by themselves, and take their own steps or none.
LEMMA WizardPart ==
    /\ ToolsInit => Wizard!Init
    /\ [ToolsNext]_toolsVars => [Wizard!Next]_wizardVars
BY DEF ToolsInit, ToolsNext, toolsVars, OtherTools

\* What the user is asked for that only counts as given.
Questions == {"baseUrl", "endpoint", "apiVersion", "deployment", "embeddingDeployment"}

\* The answers that there may be, and the configurations made of them.
Configs == [provider : Providers \cup {""}, key : {"", "old", "new", "env"}, endpoint : Wizard!EndpointTypes,
            auth : {"entra-id", "api-key"}, model : {"", "gpt-5.6-sol", "other"}, effort : {"default", "minimal"},
            embedding : {"cloud", "ollama", "skip"}, given : SUBSET Questions]

\* The steps at which the provider is known to be Azure; those at which the key is known; after the deployment is;
\* and after the model is.
AzureSteps == {"azureEndpointType", "azureEndpoint", "azureApiVersion", "azureAuth", "azureCredential", "azureClientId",
               "azureDeployment", "azureApiMode", "azureReasoning", "azureVerbosity", "azureEmbeddingDeployment",
               "azureEmbeddingDimension"}
ModelIsKnown == {"azureApiMode", "azureReasoning", "azureVerbosity", "embedding", "azureEmbeddingDeployment",
                 "azureEmbeddingDimension", "license", "done"}
DeploymentIsKnown == ModelIsKnown \cup {"model", "customModel"}
KeyIsKnown == DeploymentIsKnown \cup {"azureDeployment", "fetching"}

\* What the user has answered by a step of the wizard.
Answered(s, a) ==
    /\ s # "provider" => a.provider \in Providers
    /\ s \in AzureSteps => a.provider = "azure"
    /\ s \in {"baseUrl", "fetching"} => a.provider # "azure"
    /\ a.provider \in WithUrl /\ s \notin {"provider", "baseUrl"} => "baseUrl" \in a.given
    /\ a.provider = "azure" /\ s \notin {"provider", "azureEndpointType", "azureEndpoint"} => "endpoint" \in a.given
    /\ s \in {"azureCredential", "azureClientId"} => a.auth = "entra-id"
    /\ s \in KeyIsKnown /\ Wizard!RequiresApiKey(a) => a.key # ""
    /\ a.provider = "azure" /\ s \in DeploymentIsKnown => "deployment" \in a.given
    /\ s \in ModelIsKnown => a.model # ""
    /\ s = "azureEmbeddingDimension" => "embeddingDeployment" \in a.given
    /\ s \in {"license", "done"} /\ a.embedding = "cloud" =>
          IF a.provider = "azure" THEN "embeddingDeployment" \in a.given ELSE a.provider \in Embedding

\* What a configuration has, but for its key.
Complete(c) ==
    /\ c.provider \in Providers /\ Wizard!validateConfig(c) /\ c.model # ""
    /\ c.provider \in WithUrl => "baseUrl" \in c.given
    /\ c.provider = "azure" => {"endpoint", "deployment"} \subseteq c.given
    /\ c.embedding = "cloud" => IF c.provider = "azure" THEN "embeddingDeployment" \in c.given
                                ELSE c.provider \in Embedding

\* A configuration that the app may work with.
Loaded(c) == c \in Configs /\ Complete(c) /\ (Wizard!RequiresApiKey(c) => c.key # "")

\* A save is of the answers that are complete: the key is where its stage says, and the file is as it was written.
SavesAreOfTheAnswers ==
    /\ DOMAIN saves # {} => wizardStep \in {"license", "done"} /\ Complete(answers)
    /\ \A i \in DOMAIN saves :
          /\ saves[i] = "write" => keychain[answers.provider] = answers.key
          /\ saves[i] = "load" =>
                /\ file \in {answers, [answers EXCEPT !.key = ""]}
                /\ file = answers \/ keychain[answers.provider] = answers.key

\* Types; a configuration that is on disk is complete, and one that the app has can be worked with.
WizardTyped ==
    /\ Wizard!TypeOK /\ answers \in Configs
    /\ file # Wizard!None => file \in Configs /\ Complete(file)
    /\ config # Wizard!None => Loaded(config)
    /\ submits \in 0..MaxSubmits

\* The inductive invariant of the app and its wizard.
WizardInv ==
    /\ WizardTyped /\ Answered(wizardStep, answers) /\ SavesAreOfTheAnswers /\ Wizard!KeyIsTheGiven
    /\ opened \in trusted \cup {0} /\ wizardTarget \in trusted \cup {0}

\* The steps that an answer may lead to, or begin at.
WizardSteps == Wizard!OptionSteps \cup Wizard!TextSteps \cup {"fetching"}

\* An answer keeps the invariant if what is known at the step that it leads to has been answered.
LEMMA AskKeeps ==
  ASSUME WizardInv, NEW from, NEW to \in WizardSteps, NEW a \in Configs, from \notin {"license", "done"},
         Wizard!Ask(from, to, a), Answered(to, a)
  PROVE  WizardInv'
<1>1. /\ wizardStep = from /\ wizardStep' = to /\ answers' = a
      /\ UNCHANGED <<screen, saves, wizardTimers, cleanup, submits, file, keychain, config, directory, shown,
                     wizardTarget, checked, trusted, opened>>
  BY DEF Wizard!Ask, Wizard!storeVars, Wizard!targetVars
<1>2. DOMAIN saves = {}
  BY <1>1 DEF WizardInv, SavesAreOfTheAnswers
<1>3. to # "done"
  BY DEF WizardSteps, Wizard!OptionSteps, Wizard!TextSteps
<1>4. Answered(wizardStep', answers')
  BY <1>1
<1>5. a.provider \in Providers \cup {""}
  BY DEF Configs
<1>6. Wizard!TypeOK'
  BY <1>1, <1>5 DEF WizardInv, WizardTyped, Wizard!TypeOK, WizardSteps
<1>7. WizardTyped'
  BY <1>1, <1>6 DEF WizardInv, WizardTyped, Wizard!None, Loaded, Complete, Wizard!validateConfig, Wizard!RequiresApiKey
<1>8. SavesAreOfTheAnswers'
  BY <1>1, <1>2 DEF SavesAreOfTheAnswers
<1>9. Wizard!KeyIsTheGiven'
  BY <1>1, <1>3 DEF Wizard!KeyIsTheGiven
<1> QED
  BY <1>1, <1>4, <1>7, <1>8, <1>9 DEF WizardInv, Answered, Wizard!RequiresApiKey

\* Each answer to the wizard keeps the invariant.
LEMMA AnswersStep == WizardInv /\ Wizard!Wizard => WizardInv'
<1> SUFFICES ASSUME WizardInv, Wizard!Wizard PROVE WizardInv'
  OBVIOUS
<1>0. /\ {"azure"} \cup Keyless \cup Embedding \cup Compatible \cup WithUrl \subseteq Providers /\ "azure" \notin WithUrl
      /\ MaxSubmits \in Nat
  BY ToolsAssumption DEF ToolsAssumption, Wizard!OnboardingAssumption
<1>1. ASSUME NEW p \in Providers, Wizard!handleProviderSelect(p) PROVE WizardInv'
  <2> DEFINE to == IF p = "azure" THEN "azureEndpointType" ELSE IF p \in WithUrl THEN "baseUrl" ELSE "apiKey"
             a == [answers EXCEPT !.provider = p]
  <2>1. Wizard!Ask("provider", to, a) /\ wizardStep = "provider"
    BY <1>1 DEF Wizard!handleProviderSelect, Wizard!Ask
  <2>2. /\ a \in Configs
        /\ a.provider = p /\ a.key = answers.key /\ a.endpoint = answers.endpoint /\ a.auth = answers.auth
        /\ a.model = answers.model /\ a.effort = answers.effort /\ a.embedding = answers.embedding /\ a.given = answers.given
    BY <1>1 DEF WizardInv, WizardTyped, Configs, Questions, Wizard!Given
  <2>3. to \in WizardSteps
    BY <2>1 DEF WizardSteps, Wizard!OptionSteps, Wizard!TextSteps
  <2>4. Answered(to, a)
    <3> HIDE DEF a
    <3> QED
      BY <1>1, <1>0, <2>1, <2>2 DEF WizardInv, Answered, AzureSteps, ModelIsKnown, DeploymentIsKnown, KeyIsKnown,
         Wizard!RequiresApiKey
  <2> HIDE DEF to, a
  <2> QED
    BY <2>1, <2>2, <2>3, <2>4, AskKeeps
<1>2. ASSUME Wizard!handleBaseUrlSubmit PROVE WizardInv'
  <2> DEFINE to == "apiKey"
             a == Wizard!Given("baseUrl")
  <2>1. Wizard!Ask("baseUrl", to, a) /\ wizardStep = "baseUrl"
    BY <1>2 DEF Wizard!handleBaseUrlSubmit, Wizard!Ask
  <2>2. /\ a \in Configs
        /\ a.provider = answers.provider /\ a.key = answers.key /\ a.endpoint = answers.endpoint /\ a.auth = answers.auth
        /\ a.model = answers.model /\ a.effort = answers.effort /\ a.embedding = answers.embedding
        /\ a.given = (answers.given \cup {"baseUrl"})
    BY <1>2 DEF WizardInv, WizardTyped, Configs, Questions, Wizard!Given
  <2>3. to \in WizardSteps
    BY <2>1 DEF WizardSteps, Wizard!OptionSteps, Wizard!TextSteps
  <2>4. Answered(to, a)
    <3> HIDE DEF a
    <3> QED
      BY <1>2, <1>0, <2>1, <2>2 DEF WizardInv, Answered, AzureSteps, ModelIsKnown, DeploymentIsKnown, KeyIsKnown,
         Wizard!RequiresApiKey
  <2> HIDE DEF to, a
  <2> QED
    BY <2>1, <2>2, <2>3, <2>4, AskKeeps
<1>3. ASSUME NEW t \in Wizard!EndpointTypes, Wizard!handleAzureEndpointTypeSelect(t) PROVE WizardInv'
  <2> DEFINE to == "azureEndpoint"
             a == [answers EXCEPT !.endpoint = t]
  <2>1. Wizard!Ask("azureEndpointType", to, a) /\ wizardStep = "azureEndpointType"
    BY <1>3 DEF Wizard!handleAzureEndpointTypeSelect, Wizard!Ask
  <2>2. /\ a \in Configs
        /\ a.provider = answers.provider /\ a.key = answers.key /\ a.endpoint = t /\ a.auth = answers.auth
        /\ a.model = answers.model /\ a.effort = answers.effort /\ a.embedding = answers.embedding /\ a.given = answers.given
    BY <1>3 DEF WizardInv, WizardTyped, Configs, Questions, Wizard!Given
  <2>3. to \in WizardSteps
    BY <2>1 DEF WizardSteps, Wizard!OptionSteps, Wizard!TextSteps
  <2>4. Answered(to, a)
    <3> HIDE DEF a
    <3> QED
      BY <1>3, <1>0, <2>1, <2>2 DEF WizardInv, Answered, AzureSteps, ModelIsKnown, DeploymentIsKnown, KeyIsKnown,
         Wizard!RequiresApiKey
  <2> HIDE DEF to, a
  <2> QED
    BY <2>1, <2>2, <2>3, <2>4, AskKeeps
<1>4. ASSUME NEW t \in Wizard!EndpointTypes, Wizard!handleAzureEndpointSubmit(t) PROVE WizardInv'
  <2> DEFINE to == IF t \in Wizard!Versioned THEN "azureApiVersion" ELSE "azureAuth"
             a == [Wizard!Given("endpoint") EXCEPT !.endpoint = t]
  <2>1. Wizard!Ask("azureEndpoint", to, a) /\ wizardStep = "azureEndpoint"
    BY <1>4 DEF Wizard!handleAzureEndpointSubmit, Wizard!Ask
  <2>2. /\ a \in Configs
        /\ a.provider = answers.provider /\ a.key = answers.key /\ a.endpoint = t /\ a.auth = answers.auth
        /\ a.model = answers.model /\ a.effort = answers.effort /\ a.embedding = answers.embedding
        /\ a.given = (answers.given \cup {"endpoint"})
    BY <1>4 DEF WizardInv, WizardTyped, Configs, Questions, Wizard!Given
  <2>3. to \in WizardSteps
    BY <2>1 DEF WizardSteps, Wizard!OptionSteps, Wizard!TextSteps
  <2>4. Answered(to, a)
    <3> HIDE DEF a
    <3> QED
      BY <1>4, <1>0, <2>1, <2>2 DEF WizardInv, Answered, AzureSteps, ModelIsKnown, DeploymentIsKnown, KeyIsKnown,
         Wizard!RequiresApiKey
  <2> HIDE DEF to, a
  <2> QED
    BY <2>1, <2>2, <2>3, <2>4, AskKeeps
<1>5. ASSUME Wizard!handleAzureApiVersionSubmit PROVE WizardInv'
  <2> DEFINE to == "azureAuth"
             a == Wizard!Given("apiVersion")
  <2>1. Wizard!Ask("azureApiVersion", to, a) /\ wizardStep = "azureApiVersion"
    BY <1>5 DEF Wizard!handleAzureApiVersionSubmit, Wizard!Ask
  <2>2. /\ a \in Configs
        /\ a.provider = answers.provider /\ a.key = answers.key /\ a.endpoint = answers.endpoint /\ a.auth = answers.auth
        /\ a.model = answers.model /\ a.effort = answers.effort /\ a.embedding = answers.embedding
        /\ a.given = (answers.given \cup {"apiVersion"})
    BY <1>5 DEF WizardInv, WizardTyped, Configs, Questions, Wizard!Given
  <2>3. to \in WizardSteps
    BY <2>1 DEF WizardSteps, Wizard!OptionSteps, Wizard!TextSteps
  <2>4. Answered(to, a)
    <3> HIDE DEF a
    <3> QED
      BY <1>5, <1>0, <2>1, <2>2 DEF WizardInv, Answered, AzureSteps, ModelIsKnown, DeploymentIsKnown, KeyIsKnown,
         Wizard!RequiresApiKey
  <2> HIDE DEF to, a
  <2> QED
    BY <2>1, <2>2, <2>3, <2>4, AskKeeps
<1>6. ASSUME Wizard!handleAzureClientIdSubmit PROVE WizardInv'
  <2> DEFINE to == "azureDeployment"
             a == answers
  <2>1. Wizard!Ask("azureClientId", to, a) /\ wizardStep = "azureClientId"
    BY <1>6 DEF Wizard!handleAzureClientIdSubmit, Wizard!Ask
  <2>2. a \in Configs
    BY DEF WizardInv, WizardTyped
  <2>3. to \in WizardSteps
    BY <2>1 DEF WizardSteps, Wizard!OptionSteps, Wizard!TextSteps
  <2>4. Answered(to, a)
    <3> QED
      BY <1>6, <1>0, <2>1, <2>2 DEF WizardInv, Answered, AzureSteps, ModelIsKnown, DeploymentIsKnown, KeyIsKnown,
         Wizard!RequiresApiKey
  <2> HIDE DEF to, a
  <2> QED
    BY <2>1, <2>2, <2>3, <2>4, AskKeeps
<1>7. ASSUME Wizard!handleAzureDeploymentSubmit PROVE WizardInv'
  <2> DEFINE to == "model"
             a == Wizard!Given("deployment")
  <2>1. Wizard!Ask("azureDeployment", to, a) /\ wizardStep = "azureDeployment"
    BY <1>7 DEF Wizard!handleAzureDeploymentSubmit, Wizard!Ask
  <2>2. /\ a \in Configs
        /\ a.provider = answers.provider /\ a.key = answers.key /\ a.endpoint = answers.endpoint /\ a.auth = answers.auth
        /\ a.model = answers.model /\ a.effort = answers.effort /\ a.embedding = answers.embedding
        /\ a.given = (answers.given \cup {"deployment"})
    BY <1>7 DEF WizardInv, WizardTyped, Configs, Questions, Wizard!Given
  <2>3. to \in WizardSteps
    BY <2>1 DEF WizardSteps, Wizard!OptionSteps, Wizard!TextSteps
  <2>4. Answered(to, a)
    <3> HIDE DEF a
    <3> QED
      BY <1>7, <1>0, <2>1, <2>2 DEF WizardInv, Answered, AzureSteps, ModelIsKnown, DeploymentIsKnown, KeyIsKnown,
         Wizard!RequiresApiKey
  <2> HIDE DEF to, a
  <2> QED
    BY <2>1, <2>2, <2>3, <2>4, AskKeeps
<1>8. ASSUME NEW m \in {"entra-id", "api-key"}, Wizard!handleAzureAuthSelect(m) PROVE WizardInv'
  <2> DEFINE to == IF m = "api-key" THEN "apiKey" ELSE "azureCredential"
             a == [answers EXCEPT !.auth = m]
  <2>1. Wizard!Ask("azureAuth", to, a) /\ wizardStep = "azureAuth"
    BY <1>8 DEF Wizard!handleAzureAuthSelect, Wizard!Ask
  <2>2. /\ a \in Configs
        /\ a.provider = answers.provider /\ a.key = answers.key /\ a.endpoint = answers.endpoint /\ a.auth = m
        /\ a.model = answers.model /\ a.effort = answers.effort /\ a.embedding = answers.embedding /\ a.given = answers.given
    BY <1>8 DEF WizardInv, WizardTyped, Configs, Questions, Wizard!Given
  <2>3. to \in WizardSteps
    BY <2>1 DEF WizardSteps, Wizard!OptionSteps, Wizard!TextSteps
  <2>4. Answered(to, a)
    <3> HIDE DEF a
    <3> QED
      BY <1>8, <1>0, <2>1, <2>2 DEF WizardInv, Answered, AzureSteps, ModelIsKnown, DeploymentIsKnown, KeyIsKnown,
         Wizard!RequiresApiKey
  <2> HIDE DEF to, a
  <2> QED
    BY <2>1, <2>2, <2>3, <2>4, AskKeeps
<1>9. ASSUME NEW m \in {"default", "managed-identity"}, Wizard!handleAzureCredentialSelect(m) PROVE WizardInv'
  <2> DEFINE to == IF m = "managed-identity" THEN "azureClientId" ELSE "azureDeployment"
             a == answers
  <2>1. Wizard!Ask("azureCredential", to, a) /\ wizardStep = "azureCredential"
    BY <1>9 DEF Wizard!handleAzureCredentialSelect, Wizard!Ask
  <2>2. a \in Configs
    BY DEF WizardInv, WizardTyped
  <2>3. to \in WizardSteps
    BY <2>1 DEF WizardSteps, Wizard!OptionSteps, Wizard!TextSteps
  <2>4. Answered(to, a)
    <3> QED
      BY <1>9, <1>0, <2>1, <2>2 DEF WizardInv, Answered, AzureSteps, ModelIsKnown, DeploymentIsKnown, KeyIsKnown,
         Wizard!RequiresApiKey
  <2> HIDE DEF to, a
  <2> QED
    BY <2>1, <2>2, <2>3, <2>4, AskKeeps
<1>10. ASSUME NEW k \in {"", "new"}, Wizard!handleApiKeySubmit(k) PROVE WizardInv'
  <2> DEFINE to == IF answers.provider = "azure" THEN "azureDeployment"
                  ELSE IF answers.provider \in Compatible THEN "fetching" ELSE "model"
             a == [answers EXCEPT !.key = k]
  <2>1. Wizard!Ask("apiKey", to, a) /\ wizardStep = "apiKey" /\ (k = "" => answers.provider \in Keyless)
    BY <1>10 DEF Wizard!handleApiKeySubmit, Wizard!Ask
  <2>2. /\ a \in Configs
        /\ a.provider = answers.provider /\ a.key = k /\ a.endpoint = answers.endpoint /\ a.auth = answers.auth
        /\ a.model = answers.model /\ a.effort = answers.effort /\ a.embedding = answers.embedding /\ a.given = answers.given
    BY <1>10 DEF WizardInv, WizardTyped, Configs, Questions, Wizard!Given
  <2>3. to \in WizardSteps
    BY <2>1 DEF WizardSteps, Wizard!OptionSteps, Wizard!TextSteps
  <2>4. Answered(to, a)
    <3> HIDE DEF a
    <3> QED
      BY <1>10, <1>0, <2>1, <2>2 DEF WizardInv, Answered, AzureSteps, ModelIsKnown, DeploymentIsKnown, KeyIsKnown,
         Wizard!RequiresApiKey
  <2> HIDE DEF to, a
  <2> QED
    BY <2>1, <2>2, <2>3, <2>4, AskKeeps
<1>11. ASSUME NEW m \in {"gpt-5.6-sol", "other", "custom"}, Wizard!handleModelSelect(m) PROVE WizardInv'
  <2> DEFINE to == IF m = "custom" THEN "customModel" ELSE Wizard!AfterModel
             a == IF m = "custom" THEN answers ELSE [answers EXCEPT !.model = m]
  <2>1. Wizard!Ask("model", to, a) /\ wizardStep = "model"
    BY <1>11 DEF Wizard!handleModelSelect, Wizard!Ask
  <2>2. /\ a \in Configs
        /\ a.provider = answers.provider /\ a.key = answers.key /\ a.endpoint = answers.endpoint /\ a.auth = answers.auth
        /\ a.model = (IF m = "custom" THEN answers.model ELSE m) /\ a.effort = answers.effort /\ a.embedding = answers.embedding
        /\ a.given = answers.given
    <3>1. answers \in Configs
      BY DEF WizardInv, WizardTyped
    <3>2. CASE m = "custom"
      BY <3>1, <3>2
    <3>3. CASE m # "custom"
      <4>1. a = [answers EXCEPT !.model = m] /\ m \in {"", "gpt-5.6-sol", "other"}
        BY <3>3
      <4> HIDE DEF a
      <4> QED
        BY <3>1, <3>3, <4>1 DEF Configs
    <3> QED
      BY <3>2, <3>3
  <2>3. to \in WizardSteps
    BY <2>1 DEF Wizard!AfterModel, WizardSteps, Wizard!OptionSteps, Wizard!TextSteps
  <2>4. Answered(to, a)
    <3> HIDE DEF a
    <3> QED
      BY <1>11, <1>0, <2>1, <2>2
         DEF Wizard!AfterModel, WizardInv, Answered, AzureSteps, ModelIsKnown, DeploymentIsKnown, KeyIsKnown,
         Wizard!RequiresApiKey
  <2> HIDE DEF to, a
  <2> QED
    BY <2>1, <2>2, <2>3, <2>4, AskKeeps
<1>12. ASSUME NEW m \in {"gpt-5.6-sol", "other"}, Wizard!handleCustomModelSubmit(m) PROVE WizardInv'
  <2> DEFINE to == Wizard!AfterModel
             a == [answers EXCEPT !.model = m]
  <2>1. Wizard!Ask("customModel", to, a) /\ wizardStep = "customModel"
    BY <1>12 DEF Wizard!handleCustomModelSubmit, Wizard!Ask
  <2>2. /\ a \in Configs
        /\ a.provider = answers.provider /\ a.key = answers.key /\ a.endpoint = answers.endpoint /\ a.auth = answers.auth
        /\ a.model = m /\ a.effort = answers.effort /\ a.embedding = answers.embedding /\ a.given = answers.given
    BY <1>12 DEF WizardInv, WizardTyped, Configs, Questions, Wizard!Given
  <2>3. to \in WizardSteps
    BY <2>1 DEF Wizard!AfterModel, WizardSteps, Wizard!OptionSteps, Wizard!TextSteps
  <2>4. Answered(to, a)
    <3> HIDE DEF a
    <3> QED
      BY <1>12, <1>0, <2>1, <2>2
         DEF Wizard!AfterModel, WizardInv, Answered, AzureSteps, ModelIsKnown, DeploymentIsKnown, KeyIsKnown,
         Wizard!RequiresApiKey
  <2> HIDE DEF to, a
  <2> QED
    BY <2>1, <2>2, <2>3, <2>4, AskKeeps
<1>13. ASSUME Wizard!handleAzureApiModeSelect PROVE WizardInv'
  <2> DEFINE to == "azureReasoning"
             a == answers
  <2>1. Wizard!Ask("azureApiMode", to, a) /\ wizardStep = "azureApiMode"
    BY <1>13 DEF Wizard!handleAzureApiModeSelect, Wizard!Ask
  <2>2. a \in Configs
    BY DEF WizardInv, WizardTyped
  <2>3. to \in WizardSteps
    BY <2>1 DEF WizardSteps, Wizard!OptionSteps, Wizard!TextSteps
  <2>4. Answered(to, a)
    <3> QED
      BY <1>13, <1>0, <2>1, <2>2 DEF WizardInv, Answered, AzureSteps, ModelIsKnown, DeploymentIsKnown, KeyIsKnown,
         Wizard!RequiresApiKey
  <2> HIDE DEF to, a
  <2> QED
    BY <2>1, <2>2, <2>3, <2>4, AskKeeps
<1>14. ASSUME NEW e \in {"default", "minimal"}, Wizard!handleAzureReasoningSelect(e) PROVE WizardInv'
  <2> DEFINE to == "azureVerbosity"
             a == [answers EXCEPT !.effort = e]
  <2>1. Wizard!Ask("azureReasoning", to, a) /\ wizardStep = "azureReasoning"
    BY <1>14 DEF Wizard!handleAzureReasoningSelect, Wizard!Ask
  <2>2. /\ a \in Configs
        /\ a.provider = answers.provider /\ a.key = answers.key /\ a.endpoint = answers.endpoint /\ a.auth = answers.auth
        /\ a.model = answers.model /\ a.effort = e /\ a.embedding = answers.embedding /\ a.given = answers.given
    BY <1>14 DEF WizardInv, WizardTyped, Configs, Questions, Wizard!Given
  <2>3. to \in WizardSteps
    BY <2>1 DEF WizardSteps, Wizard!OptionSteps, Wizard!TextSteps
  <2>4. Answered(to, a)
    <3> HIDE DEF a
    <3> QED
      BY <1>14, <1>0, <2>1, <2>2 DEF WizardInv, Answered, AzureSteps, ModelIsKnown, DeploymentIsKnown, KeyIsKnown,
         Wizard!RequiresApiKey
  <2> HIDE DEF to, a
  <2> QED
    BY <2>1, <2>2, <2>3, <2>4, AskKeeps
<1>15. ASSUME Wizard!handleAzureVerbositySelect PROVE WizardInv'
  <2> DEFINE to == "embedding"
             a == answers
  <2>1. Wizard!Ask("azureVerbosity", to, a) /\ wizardStep = "azureVerbosity"
    BY <1>15 DEF Wizard!handleAzureVerbositySelect, Wizard!Ask
  <2>2. a \in Configs
    BY DEF WizardInv, WizardTyped
  <2>3. to \in WizardSteps
    BY <2>1 DEF WizardSteps, Wizard!OptionSteps, Wizard!TextSteps
  <2>4. Answered(to, a)
    <3> QED
      BY <1>15, <1>0, <2>1, <2>2 DEF WizardInv, Answered, AzureSteps, ModelIsKnown, DeploymentIsKnown, KeyIsKnown,
         Wizard!RequiresApiKey
  <2> HIDE DEF to, a
  <2> QED
    BY <2>1, <2>2, <2>3, <2>4, AskKeeps
<1>16. ASSUME NEW e \in {"cloud", "ollama", "skip"}, Wizard!handleEmbeddingSelect(e) PROVE WizardInv'
  <2> DEFINE to == Wizard!AfterEmbedding(e)
             a == [answers EXCEPT !.embedding = e]
  <2>1. Wizard!Ask("embedding", to, a) /\ wizardStep = "embedding" /\ (e = "cloud" => answers.provider \in Embedding \cup {"azure"})
    BY <1>16 DEF Wizard!handleEmbeddingSelect, Wizard!Ask
  <2>2. /\ a \in Configs
        /\ a.provider = answers.provider /\ a.key = answers.key /\ a.endpoint = answers.endpoint /\ a.auth = answers.auth
        /\ a.model = answers.model /\ a.effort = answers.effort /\ a.embedding = e /\ a.given = answers.given
    BY <1>16 DEF WizardInv, WizardTyped, Configs, Questions, Wizard!Given
  <2>3. to \in WizardSteps
    BY <2>1 DEF Wizard!AfterEmbedding, WizardSteps, Wizard!OptionSteps, Wizard!TextSteps
  <2>4. Answered(to, a)
    <3> HIDE DEF a
    <3> QED
      BY <1>16, <1>0, <2>1, <2>2
         DEF Wizard!AfterEmbedding, WizardInv, Answered, AzureSteps, ModelIsKnown, DeploymentIsKnown, KeyIsKnown,
         Wizard!RequiresApiKey
  <2> HIDE DEF to, a
  <2> QED
    BY <2>1, <2>2, <2>3, <2>4, AskKeeps
<1>17. ASSUME Wizard!handleAzureEmbeddingDeploymentSubmit PROVE WizardInv'
  <2> DEFINE to == "azureEmbeddingDimension"
             a == Wizard!Given("embeddingDeployment")
  <2>1. Wizard!Ask("azureEmbeddingDeployment", to, a) /\ wizardStep = "azureEmbeddingDeployment"
    BY <1>17 DEF Wizard!handleAzureEmbeddingDeploymentSubmit, Wizard!Ask
  <2>2. /\ a \in Configs
        /\ a.provider = answers.provider /\ a.key = answers.key /\ a.endpoint = answers.endpoint /\ a.auth = answers.auth
        /\ a.model = answers.model /\ a.effort = answers.effort /\ a.embedding = answers.embedding
        /\ a.given = (answers.given \cup {"embeddingDeployment"})
    BY <1>17 DEF WizardInv, WizardTyped, Configs, Questions, Wizard!Given
  <2>3. to \in WizardSteps
    BY <2>1 DEF WizardSteps, Wizard!OptionSteps, Wizard!TextSteps
  <2>4. Answered(to, a)
    <3> HIDE DEF a
    <3> QED
      BY <1>17, <1>0, <2>1, <2>2 DEF WizardInv, Answered, AzureSteps, ModelIsKnown, DeploymentIsKnown, KeyIsKnown,
         Wizard!RequiresApiKey
  <2> HIDE DEF to, a
  <2> QED
    BY <2>1, <2>2, <2>3, <2>4, AskKeeps
<1>18. ASSUME Wizard!handleAzureEmbeddingDimensionSubmit PROVE WizardInv'
  <2> DEFINE to == "license"
             a == answers
  <2>1. Wizard!Ask("azureEmbeddingDimension", to, a) /\ wizardStep = "azureEmbeddingDimension"
    BY <1>18 DEF Wizard!handleAzureEmbeddingDimensionSubmit, Wizard!Ask
  <2>2. a \in Configs
    BY DEF WizardInv, WizardTyped
  <2>3. to \in WizardSteps
    BY <2>1 DEF WizardSteps, Wizard!OptionSteps, Wizard!TextSteps
  <2>4. Answered(to, a)
    <3> QED
      BY <1>18, <1>0, <2>1, <2>2 DEF WizardInv, Answered, AzureSteps, ModelIsKnown, DeploymentIsKnown, KeyIsKnown,
         Wizard!RequiresApiKey
  <2> HIDE DEF to, a
  <2> QED
    BY <2>1, <2>2, <2>3, <2>4, AskKeeps
<1>19. CASE Wizard!fetchApiModels
  <2>1. PICK to \in {"model", "apiKey"} : Wizard!Ask("fetching", to, answers) /\ wizardStep = "fetching"
    BY <1>19 DEF Wizard!fetchApiModels, Wizard!Ask
  <2>2. answers \in Configs
    BY DEF WizardInv, WizardTyped
  <2>3. to \in WizardSteps
    BY <2>1 DEF WizardSteps, Wizard!OptionSteps, Wizard!TextSteps
  <2>4. Answered(to, answers)
    <3> QED
      BY <2>1 DEF WizardInv, Answered, AzureSteps, ModelIsKnown, DeploymentIsKnown, KeyIsKnown,
         Wizard!RequiresApiKey
  <2> QED
    BY <2>1, <2>2, <2>3, <2>4, AskKeeps
<1>20. CASE Wizard!handleLicenseSubmit
  <2>1. /\ wizardStep = "license" /\ Wizard!validateConfig(answers) /\ submits < MaxSubmits /\ submits' = submits + 1
        /\ \E s \in {"key", "writeKey"} : saves' = Wizard!With(saves, submits + 1, s)
        /\ UNCHANGED <<screen, wizardStep, answers, wizardTimers, cleanup, file, keychain, config, directory, shown,
                       wizardTarget, checked, trusted, opened>>
    BY <1>20 DEF Wizard!handleLicenseSubmit, Wizard!storeVars, Wizard!targetVars
  <2>2. PICK s \in {"key", "writeKey"} : saves' = Wizard!With(saves, submits + 1, s)
    BY <2>1
  <2>3. submits + 1 \in 1..MaxSubmits /\ submits' \in 0..MaxSubmits
    <3>1. submits \in 0..MaxSubmits
      BY DEF WizardInv, WizardTyped
    <3> QED
      BY <2>1, <1>0, <3>1
  <2>4. /\ DOMAIN saves' = DOMAIN saves \cup {submits + 1} /\ saves'[submits + 1] = s
        /\ \A j \in DOMAIN saves : j # submits + 1 => saves'[j] = saves[j]
    BY <2>2 DEF Wizard!With
  <2>5. Complete(answers)
    BY <2>1 DEF WizardInv, Answered, Complete, ModelIsKnown, DeploymentIsKnown
  <2>6. WizardTyped'
    <3>1. \A j \in DOMAIN saves' : j \in 1..MaxSubmits /\ saves'[j] \in {"key", "write", "writeKey", "load"}
      BY <2>2, <2>3, <2>4 DEF WizardInv, WizardTyped, Wizard!TypeOK
    <3>2. Wizard!TypeOK'
      BY <2>1, <3>1 DEF WizardInv, WizardTyped, Wizard!TypeOK
    <3> QED
      BY <2>1, <2>3, <3>2
         DEF WizardInv, WizardTyped, Wizard!None, Loaded, Complete, Wizard!validateConfig, Wizard!RequiresApiKey
  <2>7. SavesAreOfTheAnswers'
    BY <2>1, <2>2, <2>4, <2>5 DEF WizardInv, SavesAreOfTheAnswers, Complete, Wizard!validateConfig
  <2> QED
    BY <2>1, <2>6, <2>7 DEF WizardInv, Answered, Wizard!KeyIsTheGiven, Wizard!RequiresApiKey
<1> QED
  BY <1>1, <1>2, <1>3, <1>4, <1>5, <1>6, <1>7, <1>8, <1>9, <1>10, <1>11, <1>12, <1>13, <1>14, <1>15, <1>16, <1>17, <1>18,
     <1>19, <1>20
     DEF Wizard!Wizard

\* The key that a configuration is loaded with.
KeyOf(answered) == IF file.key # "" THEN file.key ELSE Wizard!getApiKey(file.provider, answered)

\* What is known of the answers is known of the file that they are written to, and of what is loaded from it.
LEMMA LoadedIsComplete ==
  ASSUME WizardInv, NEW answered \in BOOLEAN, Wizard!loadConfig(answered) # Wizard!None
  PROVE  /\ Loaded(Wizard!loadConfig(answered))
         /\ Wizard!loadConfig(answered) = [file EXCEPT !.key = KeyOf(answered)] /\ KeyOf(answered) \in {"", "old", "new", "env"}
<1> DEFINE k == KeyOf(answered)
           c == Wizard!loadConfig(answered)
<1>1. file # Wizard!None /\ c = [file EXCEPT !.key = k] /\ ~(Wizard!RequiresApiKey(file) /\ k = "")
  BY DEF Wizard!loadConfig, KeyOf
<1>2. file \in Configs /\ Complete(file)
  BY <1>1 DEF WizardInv, WizardTyped
<1>3. k \in {"", "old", "new", "env"}
  <2>1. file.key \in {"", "old", "new", "env"} /\ file.provider \in Providers
    BY <1>2 DEF Configs, Complete
  <2>2. keychain[file.provider] \in {"", "old", "new", "env"}
    BY <2>1 DEF WizardInv, WizardTyped, Wizard!TypeOK
  <2> QED
    BY <2>1, <2>2 DEF KeyOf, Wizard!getApiKey
<1> HIDE DEF k, c
<1>4. /\ c \in Configs /\ c.key = k
      /\ c.provider = file.provider /\ c.endpoint = file.endpoint /\ c.auth = file.auth
      /\ c.model = file.model /\ c.effort = file.effort /\ c.embedding = file.embedding /\ c.given = file.given
  BY <1>1, <1>2, <1>3 DEF Configs
<1>5. Complete(c) /\ (Wizard!RequiresApiKey(c) => c.key # "")
  BY <1>1, <1>2, <1>4 DEF Complete, Wizard!validateConfig, Wizard!RequiresApiKey
<1>6. Loaded(c)
  BY <1>4, <1>5 DEF Loaded
<1> QED
  BY <1>1, <1>3, <1>6 DEF k, c

\* What a step leaves alone of the answers, the configuration and the target.
LEMMA RestOfWizard ==
  ASSUME WizardInv, UNCHANGED <<wizardStep, answers, config, trusted, opened, wizardTarget>>, WizardTyped', SavesAreOfTheAnswers',
         \A p \in Providers : keychain'[p] \in {keychain[p], answers.key}
  PROVE  WizardInv'
<1>1. Answered(wizardStep, answers)'
  BY DEF WizardInv, Answered, Wizard!RequiresApiKey
<1>2. Wizard!KeyIsTheGiven'
  <2>1. config # Wizard!None => config.provider \in Providers
    BY DEF WizardInv, WizardTyped, Loaded, Complete
  <2> QED
    BY <2>1 DEF WizardInv, Wizard!KeyIsTheGiven, Wizard!RequiresApiKey, Wizard!None
<1> QED
  BY <1>1, <1>2 DEF WizardInv

\* A save that puts its key into the keychain, or cannot, keeps the invariant.
LEMMA SetApiKeyKeeps == ASSUME WizardInv, NEW i \in 1..MaxSubmits, Wizard!setApiKey(i) PROVE WizardInv'
<1>1. /\ i \in DOMAIN saves
      /\ \/ keychain' = [keychain EXCEPT ![answers.provider] = answers.key] /\ saves' = Wizard!With(saves, i, "write")
         \/ /\ keychain' \in {keychain, [keychain EXCEPT ![answers.provider] = answers.key]}
            /\ saves' = Wizard!With(saves, i, "writeKey")
      /\ UNCHANGED <<screen, wizardStep, answers, wizardTimers, cleanup, submits, file, config, directory, shown,
                     wizardTarget, checked, trusted, opened>>
  BY DEF Wizard!setApiKey, Wizard!KeyIsStored, Wizard!targetVars
<1>2. PICK v \in {"write", "writeKey"} :
          /\ saves' = Wizard!With(saves, i, v)
          /\ \/ keychain' = [keychain EXCEPT ![answers.provider] = answers.key]
             \/ v = "writeKey" /\ UNCHANGED keychain
  BY <1>1
<1>3. /\ DOMAIN saves' = DOMAIN saves /\ saves'[i] = v
      /\ \A j \in DOMAIN saves : j # i => saves'[j] = saves[j]
  <2>1. saves' = [j \in DOMAIN saves \cup {i} |-> IF j = i THEN v ELSE saves[j]]
    BY <1>2 DEF Wizard!With
  <2> QED
    BY <1>1, <2>1
<1>4. answers.provider \in Providers /\ answers.key \in {"", "old", "new", "env"} /\ keychain \in [Providers -> {"", "old", "new", "env"}]
  BY <1>1 DEF WizardInv, WizardTyped, SavesAreOfTheAnswers, Complete, Configs, Wizard!TypeOK
<1>5. /\ keychain' \in [Providers -> {"", "old", "new", "env"}]
      /\ keychain'[answers.provider] = answers.key \/ keychain' = keychain
      /\ v = "write" => keychain'[answers.provider] = answers.key
  BY <1>2, <1>4
<1>p. \A p \in Providers : keychain'[p] \in {keychain[p], answers.key}
  BY <1>2, <1>4
<1>6. WizardTyped'
  <2>1. \A j \in DOMAIN saves' : j \in 1..MaxSubmits /\ saves'[j] \in {"key", "write", "writeKey", "load"}
    BY <1>2, <1>3 DEF WizardInv, WizardTyped, Wizard!TypeOK
  <2>2. Wizard!TypeOK'
    BY <1>1, <1>5, <2>1 DEF WizardInv, WizardTyped, Wizard!TypeOK
  <2> QED
    BY <1>1, <2>2 DEF WizardInv, WizardTyped, Wizard!None, Loaded, Complete, Wizard!validateConfig, Wizard!RequiresApiKey
<1>7. SavesAreOfTheAnswers'
  <2>1. Complete(answers)' /\ wizardStep' \in {"license", "done"}
    BY <1>1 DEF WizardInv, SavesAreOfTheAnswers, Complete, Wizard!validateConfig
  <2>2. ASSUME NEW j \in DOMAIN saves'
        PROVE  /\ saves'[j] = "write" => keychain'[answers.provider] = answers.key
               /\ saves'[j] = "load" =>
                     /\ file \in {answers, [answers EXCEPT !.key = ""]}
                     /\ file = answers \/ keychain'[answers.provider] = answers.key
    <3>1. CASE j = i
      BY <1>2, <1>3, <1>5, <3>1
    <3>2. CASE j # i
      BY <1>3, <1>5, <3>2 DEF WizardInv, SavesAreOfTheAnswers
    <3> QED
      BY <3>1, <3>2
  <2> QED
    BY <1>1, <2>1, <2>2 DEF SavesAreOfTheAnswers
<1> QED
  BY <1>1, <1>p, <1>6, <1>7, RestOfWizard

\* So does one that writes the file, or cannot.
LEMMA WriteFileKeeps == ASSUME WizardInv, NEW i \in 1..MaxSubmits, Wizard!WriteFile(i) PROVE WizardInv'
<1>1. /\ i \in DOMAIN saves /\ saves[i] \in {"write", "writeKey"}
      /\ \/ /\ file' = (IF saves[i] = "write" THEN [answers EXCEPT !.key = ""] ELSE answers)
            /\ saves' = Wizard!With(saves, i, "load")
         \/ UNCHANGED file /\ saves' = Wizard!Without(saves, i)
      /\ UNCHANGED <<screen, wizardStep, answers, wizardTimers, cleanup, submits, keychain, config, directory, shown,
                     wizardTarget, checked, trusted, opened>>
  BY DEF Wizard!WriteFile, Wizard!targetVars
<1>2. answers \in Configs /\ Complete(answers) /\ wizardStep \in {"license", "done"}
  BY <1>1 DEF WizardInv, WizardTyped, SavesAreOfTheAnswers
<1>c. Complete(answers)'
  BY <1>1, <1>2 DEF Complete, Wizard!validateConfig
<1>3. CASE file' = (IF saves[i] = "write" THEN [answers EXCEPT !.key = ""] ELSE answers) /\ saves' = Wizard!With(saves, i, "load")
  <2>1. /\ DOMAIN saves' = DOMAIN saves /\ saves'[i] = "load"
        /\ \A j \in DOMAIN saves : j # i => saves'[j] = saves[j]
    <3>1. saves' = [j \in DOMAIN saves \cup {i} |-> IF j = i THEN "load" ELSE saves[j]]
      BY <1>3 DEF Wizard!With
    <3>2. i \in DOMAIN saves
      BY <1>1
    <3> QED
      BY <3>1, <3>2
  <2> DEFINE e == [answers EXCEPT !.key = ""]
  <2>2. /\ e \in Configs /\ e.provider = answers.provider /\ e.endpoint = answers.endpoint /\ e.auth = answers.auth
        /\ e.model = answers.model /\ e.effort = answers.effort /\ e.embedding = answers.embedding /\ e.given = answers.given
    BY <1>2 DEF Configs
  <2>3. Complete(e)
    <3> HIDE DEF e
    <3> QED
      BY <1>2, <2>2 DEF Complete, Wizard!validateConfig
  <2>4. file' \in {answers, e} /\ (file' = answers \/ keychain[answers.provider] = answers.key)
    BY <1>1, <1>3 DEF WizardInv, SavesAreOfTheAnswers
  <2> HIDE DEF e
  <2>5. file' \in Configs /\ Complete(file')
    BY <1>2, <2>2, <2>3, <2>4
  <2>6. WizardTyped'
    <3>1. \A j \in DOMAIN saves' : j \in 1..MaxSubmits /\ saves'[j] \in {"key", "write", "writeKey", "load"}
      BY <2>1 DEF WizardInv, WizardTyped, Wizard!TypeOK
    <3>2. file'.provider \in Providers
      BY <2>5 DEF Complete
    <3>3. Wizard!TypeOK'
      BY <1>1, <3>1, <3>2 DEF WizardInv, WizardTyped, Wizard!TypeOK
    <3>4. Complete(file)'
      BY <2>5 DEF Complete, Wizard!validateConfig
    <3> QED
      BY <1>1, <2>5, <3>3, <3>4 DEF WizardInv, WizardTyped, Wizard!None, Loaded, Complete, Wizard!validateConfig,
         Wizard!RequiresApiKey
  <2>7. SavesAreOfTheAnswers'
    <3>1. ASSUME NEW j \in DOMAIN saves', saves'[j] = "write" PROVE keychain[answers.provider] = answers.key
      BY <2>1, <3>1 DEF WizardInv, SavesAreOfTheAnswers
    <3> QED
      BY <1>1, <1>2, <1>c, <2>4, <3>1 DEF SavesAreOfTheAnswers, e
  <2> QED
    BY <1>1, <2>6, <2>7, RestOfWizard
<1>4. CASE UNCHANGED file /\ saves' = Wizard!Without(saves, i)
  <2>1. DOMAIN saves' = DOMAIN saves \ {i} /\ \A j \in DOMAIN saves \ {i} : saves'[j] = saves[j]
    BY <1>4 DEF Wizard!Without
  <2>2. Wizard!TypeOK'
    BY <1>1, <1>4, <2>1 DEF WizardInv, WizardTyped, Wizard!TypeOK
  <2>3. WizardTyped'
    BY <1>1, <1>4, <2>2
       DEF WizardInv, WizardTyped, Wizard!None, Loaded, Complete, Wizard!validateConfig, Wizard!RequiresApiKey
  <2>4. SavesAreOfTheAnswers'
    BY <1>1, <1>2, <1>c, <1>4, <2>1 DEF WizardInv, SavesAreOfTheAnswers
  <2> QED
    BY <1>1, <2>3, <2>4, RestOfWizard
<1> QED
  BY <1>1, <1>3, <1>4

\* So does one that loads what it has written.
LEMMA ReloadKeeps == ASSUME WizardInv, NEW i \in 1..MaxSubmits, Wizard!Reload(i) PROVE WizardInv'
<1>1. /\ i \in DOMAIN saves /\ saves[i] = "load" /\ saves' = Wizard!Without(saves, i)
      /\ \E answered \in BOOLEAN :
          \/ Wizard!loadConfig(answered) = Wizard!None /\ UNCHANGED <<config, wizardStep, wizardTimers, cleanup>>
          \/ /\ Wizard!loadConfig(answered) # Wizard!None
             /\ config' = Wizard!loadConfig(answered) /\ wizardTimers' = wizardTimers \cup {i} /\ cleanup' = i
             /\ wizardStep' = IF screen = "setup" THEN "done" ELSE wizardStep
      /\ UNCHANGED <<screen, answers, submits, file, keychain, directory, shown, wizardTarget, checked, trusted, opened>>
  BY DEF Wizard!Reload, Wizard!storeVars, Wizard!targetVars
<1>2. answers \in Configs /\ Complete(answers) /\ wizardStep \in {"license", "done"}
  BY <1>1 DEF WizardInv, WizardTyped, SavesAreOfTheAnswers
<1>3. DOMAIN saves' = DOMAIN saves \ {i} /\ \A j \in DOMAIN saves \ {i} : saves'[j] = saves[j]
  BY <1>1 DEF Wizard!Without
<1>c. Complete(answers)'
  BY <1>1, <1>2 DEF Complete, Wizard!validateConfig
<1>4. ASSUME wizardStep' \in {"license", "done"}, UNCHANGED <<answers, file, keychain>> PROVE SavesAreOfTheAnswers'
  BY <1>1, <1>2, <1>c, <1>3, <1>4 DEF WizardInv, SavesAreOfTheAnswers
<1>5. CASE UNCHANGED <<config, wizardStep, wizardTimers, cleanup>>
  <2>1. Wizard!TypeOK'
    BY <1>1, <1>3, <1>5 DEF WizardInv, WizardTyped, Wizard!TypeOK
  <2>2. WizardTyped'
    BY <1>1, <1>5, <2>1
       DEF WizardInv, WizardTyped, Wizard!None, Loaded, Complete, Wizard!validateConfig, Wizard!RequiresApiKey
  <2>3. SavesAreOfTheAnswers'
    BY <1>1, <1>2, <1>4, <1>5
  <2> QED
    BY <1>1, <1>5, <2>2, <2>3, RestOfWizard
<1>6. ASSUME NEW answered \in BOOLEAN, Wizard!loadConfig(answered) # Wizard!None,
             config' = Wizard!loadConfig(answered), wizardTimers' = wizardTimers \cup {i}, cleanup' = i,
             wizardStep' = IF screen = "setup" THEN "done" ELSE wizardStep
      PROVE  WizardInv'
  <2> DEFINE k == KeyOf(answered)
             c == config'
  <2>0. config' = c
    OBVIOUS
  <2>1. Loaded(c)
    BY <1>6, LoadedIsComplete
  <2>2. c = [file EXCEPT !.key = k] /\ k \in {"", "old", "new", "env"}
    BY <1>6, LoadedIsComplete
  <2>k. k = IF file.key # "" THEN file.key
           ELSE IF answered /\ keychain[file.provider] # "" THEN keychain[file.provider]
           ELSE IF file.provider \in InEnvironment THEN "env" ELSE ""
    BY DEF KeyOf, Wizard!getApiKey
  <2>5. file \in Configs
    BY <1>1 DEF WizardInv, SavesAreOfTheAnswers, WizardTyped, Configs
  <2> HIDE DEF k, c
  <2>3. wizardStep' \in {"license", "done"}
    BY <1>2, <1>6
  <2>4. Wizard!TypeOK'
    <3>1. c.provider \in Providers
      BY <2>1 DEF Loaded, Complete
    <3>2. cleanup' \in 0..MaxSubmits /\ wizardTimers' \subseteq 1..MaxSubmits
      <4>1. i \in 0..MaxSubmits
        OBVIOUS
      <4> QED
        BY <1>6, <4>1 DEF WizardInv, WizardTyped, Wizard!TypeOK
    <3> QED
      BY <1>1, <1>3, <2>0, <2>3, <3>1, <3>2 DEF WizardInv, WizardTyped, Wizard!TypeOK, Wizard!TextSteps
  <2>6. WizardTyped'
    BY <1>1, <2>0, <2>1, <2>4
       DEF WizardInv, WizardTyped, Wizard!None, Loaded, Complete, Wizard!validateConfig, Wizard!RequiresApiKey
  <2>7. Wizard!KeyIsTheGiven'
    <3>0. c # Wizard!None
      BY <1>6, <2>0
    <3> SUFFICES ASSUME Wizard!RequiresApiKey(c)
                 PROVE  c.key = answers.key \/ (c.key = "env" /\ keychain[c.provider] = answers.key)
      BY <1>1, <2>0, <3>0 DEF Wizard!KeyIsTheGiven, Wizard!RequiresApiKey
    <3>1. file \in {answers, [answers EXCEPT !.key = ""]} /\ (file = answers \/ keychain[answers.provider] = answers.key)
      BY <1>1 DEF WizardInv, SavesAreOfTheAnswers
    <3>2. file.provider = answers.provider /\ file.auth = answers.auth /\ file.key \in {"", answers.key} /\ file \in Configs
      BY <1>2, <3>1 DEF Configs
    <3>3. c.key = k /\ c.provider = answers.provider /\ c.auth = answers.auth
      BY <2>2, <3>2 DEF Configs
    <3>4. k # ""
      BY <2>1, <3>3 DEF Loaded
    <3>5. CASE file = answers
      <4>1. answers.key # ""
        BY <1>2, <3>3 DEF WizardInv, Answered, KeyIsKnown, DeploymentIsKnown, ModelIsKnown, Wizard!RequiresApiKey
      <4> QED
        BY <2>k, <3>3, <3>5, <4>1
    <3>6. CASE file # answers
      BY <2>k, <3>1, <3>2, <3>3, <3>4, <3>6
    <3> QED
      BY <3>5, <3>6
  <2>8. Answered(wizardStep', answers)
    BY <1>2, <2>3 DEF WizardInv, Answered, AzureSteps, ModelIsKnown, DeploymentIsKnown, KeyIsKnown
  <2> QED
    BY <1>1, <1>4, <2>3, <2>6, <2>7, <2>8 DEF WizardInv, Answered, Wizard!RequiresApiKey
<1> QED
  BY <1>1, <1>5, <1>6

\* The screens of the app.
Screens == {"boot", "setup", "target", "initializing", "license-blocked", "shell"}

\* What the wizard and its saves keep to themselves.
WizardKeeps == <<wizardStep, answers, saves, file, keychain, config, submits>>

\* The invariant is kept by what only moves between screens, or approves and opens what was shown.
LEMMA ScreensKeep ==
  ASSUME WizardInv, UNCHANGED WizardKeeps, screen' \in Screens, wizardTimers' \subseteq wizardTimers, cleanup' \in {0, cleanup},
         opened' \in trusted' \cup {0}, wizardTarget' \in trusted' \cup {0}
  PROVE  WizardInv'
<1>1. UNCHANGED <<wizardStep, answers, saves, file, keychain, config, submits>>
  BY DEF WizardKeeps
<1>t. cleanup' \in 0..MaxSubmits
  <2>1. 0 \in 0..MaxSubmits
    BY ToolsAssumption DEF ToolsAssumption, Wizard!OnboardingAssumption
  <2> QED
    BY <2>1 DEF WizardInv, WizardTyped, Wizard!TypeOK
<1>u. Wizard!TypeOK'
  BY <1>1, <1>t DEF WizardInv, WizardTyped, Wizard!TypeOK, Screens
<1>2. WizardTyped'
  BY <1>1, <1>u DEF WizardInv, WizardTyped, Wizard!None, Loaded, Complete, Wizard!validateConfig, Wizard!RequiresApiKey
<1>3. SavesAreOfTheAnswers'
  BY <1>1 DEF WizardInv, SavesAreOfTheAnswers, Complete, Wizard!validateConfig
<1>4. Answered(wizardStep, answers)'
  BY <1>1 DEF WizardInv, Answered, Wizard!RequiresApiKey
<1>5. Wizard!KeyIsTheGiven'
  BY <1>1 DEF WizardInv, Wizard!KeyIsTheGiven, Wizard!RequiresApiKey
<1> QED
  BY <1>2, <1>3, <1>4, <1>5 DEF WizardInv

\* Each step of the app, the wizard, the saves, the user and the process keeps the invariant.
LEMMA WizardStep == WizardInv /\ [Wizard!Next]_wizardVars => WizardInv'
<1> SUFFICES ASSUME WizardInv, [Wizard!Next]_wizardVars PROVE WizardInv'
  OBVIOUS
<1>0. MaxSubmits \in Nat
  BY ToolsAssumption DEF ToolsAssumption, Wizard!OnboardingAssumption
<1> USE DEF Wizard!storeVars, Wizard!targetVars, Wizard!wizardVars, Wizard!GoTo
<1>1. CASE Wizard!Wizard
  BY <1>1, AnswersStep
<1>2. ASSUME NEW i \in 1..MaxSubmits, Wizard!setApiKey(i) \/ Wizard!WriteFile(i) \/ Wizard!Reload(i) PROVE WizardInv'
  BY <1>2, SetApiKeyKeeps, WriteFileKeeps, ReloadKeeps
<1>3. ASSUME NEW i \in 1..MaxSubmits, Wizard!TimerFires(i) PROVE WizardInv'
  <2>1. /\ UNCHANGED WizardKeeps /\ UNCHANGED <<trusted, opened, wizardTarget>> /\ screen' = "target"
        /\ wizardTimers' \subseteq wizardTimers /\ cleanup' \in {0, cleanup}
    BY <1>3 DEF Wizard!TimerFires, WizardKeeps
  <2>2. screen' \in Screens
    BY <2>1 DEF WizardInv, WizardTyped, Wizard!TypeOK, Screens
  <2> QED
    BY <2>1, <2>2, ScreensKeep DEF WizardInv
<1>4. CASE Wizard!BootComplete
  <2>1. /\ UNCHANGED WizardKeeps /\ UNCHANGED <<trusted, opened, wizardTarget, wizardTimers>> /\ screen' \in {"setup", "target"}
        /\ cleanup' \in {0, cleanup}
    BY <1>4 DEF Wizard!BootComplete, WizardKeeps
  <2>2. screen' \in Screens
    BY <2>1 DEF WizardInv, WizardTyped, Wizard!TypeOK, Screens
  <2> QED
    BY <2>1, <2>2, ScreensKeep DEF WizardInv
<1>5. CASE Wizard!selectTarget \/ Wizard!Replace
  <2>1. UNCHANGED WizardKeeps /\ UNCHANGED <<trusted, opened, wizardTarget, wizardTimers, screen, cleanup>>
    BY <1>5 DEF Wizard!selectTarget, Wizard!Replace, WizardKeeps
  <2>2. screen' \in Screens
    BY <2>1 DEF WizardInv, WizardTyped, Wizard!TypeOK, Screens
  <2> QED
    BY <2>1, <2>2, ScreensKeep DEF WizardInv
<1>6. CASE Wizard!handleTrustSelect
  <2>1. /\ UNCHANGED WizardKeeps /\ UNCHANGED <<opened, wizardTimers>> /\ trusted' = trusted \cup {shown}
        /\ screen' \in {screen, "initializing"} /\ cleanup' \in {0, cleanup}
        /\ wizardTarget' = wizardTarget \/ (shown = directory /\ wizardTarget' = directory)
    BY <1>6 DEF Wizard!handleTrustSelect, Wizard!SameAsShown, WizardKeeps
  <2>2. screen' \in Screens
    BY <2>1 DEF WizardInv, WizardTyped, Wizard!TypeOK, Screens
  <2> QED
    BY <2>1, <2>2, ScreensKeep DEF WizardInv
<1>7. CASE Wizard!AppInit \/ Wizard!LicenseBlocks \/ Wizard!initSession
  <2>1. /\ UNCHANGED WizardKeeps /\ UNCHANGED <<trusted, wizardTarget, wizardTimers>>
        /\ screen' \in {screen, "target", "license-blocked", "shell"} /\ cleanup' \in {0, cleanup}
        /\ opened' = opened \/ opened' = wizardTarget
    BY <1>7 DEF Wizard!AppInit, Wizard!LicenseBlocks, Wizard!initSession, WizardKeeps
  <2>2. screen' \in Screens
    BY <2>1 DEF WizardInv, WizardTyped, Wizard!TypeOK, Screens
  <2> QED
    BY <2>1, <2>2, ScreensKeep DEF WizardInv
<1>8. CASE Wizard!Restart
  <2>1. /\ screen' = "boot" /\ wizardStep' = "provider" /\ answers' = Wizard!Blank /\ saves' = <<>> /\ wizardTimers' = {}
        /\ cleanup' = 0 /\ wizardTarget' = 0 /\ trusted' = {} /\ opened' = 0 /\ UNCHANGED <<submits, file, keychain>>
        /\ \E answered \in BOOLEAN : config' = Wizard!loadConfig(answered)
    BY <1>8 DEF Wizard!Restart
  <2>2. config' # Wizard!None => Loaded(config')
    BY <2>1, LoadedIsComplete
  <2>3. Wizard!Blank \in Configs /\ Wizard!Blank.provider = ""
    BY DEF Wizard!Blank, Configs, Wizard!EndpointTypes, Wizard!Versioned
  <2>4. Wizard!TypeOK'
    <3>1. config'.provider \in Providers \cup {"", "none"}
      <4>1. CASE config' = Wizard!None
        <5>1. Wizard!None.provider = "none"
          BY DEF Wizard!None
        <5> QED
          BY <4>1, <5>1
      <4>2. CASE config' # Wizard!None
        BY <2>2, <4>2 DEF Loaded, Complete
      <4> QED
        BY <4>1, <4>2
    <3>2. DOMAIN saves' = {} /\ 0 \in 0..MaxSubmits
      BY <2>1, <1>0
    <3> QED
      BY <2>1, <2>3, <3>1, <3>2 DEF WizardInv, WizardTyped, Wizard!TypeOK, Wizard!OptionSteps
  <2>5. WizardTyped'
    BY <2>1, <2>2, <2>3, <2>4
       DEF WizardInv, WizardTyped, Wizard!None, Loaded, Complete, Wizard!validateConfig, Wizard!RequiresApiKey
  <2>6. Answered(wizardStep', answers')
    BY <2>1, <2>3 DEF Answered, AzureSteps, ModelIsKnown, DeploymentIsKnown, KeyIsKnown
  <2>7. SavesAreOfTheAnswers' /\ Wizard!KeyIsTheGiven'
    BY <2>1 DEF SavesAreOfTheAnswers, Wizard!KeyIsTheGiven
  <2>8. Answered(wizardStep, answers)'
    BY <2>6 DEF Answered, Wizard!RequiresApiKey
  <2> QED
    BY <2>1, <2>5, <2>7, <2>8 DEF WizardInv
<1>9. CASE UNCHANGED wizardVars
  <2>1. UNCHANGED WizardKeeps /\ UNCHANGED <<trusted, opened, wizardTarget, wizardTimers, screen, cleanup>>
    BY <1>9 DEF wizardVars, WizardKeeps
  <2>2. screen' \in Screens
    BY <2>1 DEF WizardInv, WizardTyped, Wizard!TypeOK, Screens
  <2> QED
    BY <2>1, <2>2, ScreensKeep DEF WizardInv
<1> QED
  BY <1>1, <1>2, <1>3, <1>4, <1>5, <1>6, <1>7, <1>8, <1>9 DEF Wizard!Next

\* The app begins with it.
LEMMA WizardBegins == Wizard!Init => WizardInv
<1> SUFFICES ASSUME Wizard!Init PROVE WizardInv
  OBVIOUS
<1>0. MaxSubmits \in Nat
  BY ToolsAssumption DEF ToolsAssumption, Wizard!OnboardingAssumption
<1>1. Wizard!Blank \in Configs /\ Wizard!Blank.provider = ""
  BY DEF Wizard!Blank, Configs, Wizard!EndpointTypes, Wizard!Versioned
<1>2. /\ screen = "boot" /\ wizardStep = "provider" /\ answers = Wizard!Blank /\ wizardTimers = {} /\ trusted = {}
      /\ file = Wizard!None /\ config = Wizard!None
  BY DEF Wizard!Init
<1>3. submits = 0 /\ cleanup = 0 /\ wizardTarget = 0 /\ opened = 0
  BY DEF Wizard!Init
<1>4. saves = <<>>
  BY DEF Wizard!Init
<1>5. keychain \in [Providers -> {"", "old", "new", "env"}]
  BY DEF Wizard!Init
<1>6. DOMAIN saves = {}
  BY <1>4
<1>7. 0 \in 0..MaxSubmits
  BY <1>0
<1>8. answers.provider = "" /\ config.provider = "none" /\ file.provider = "none"
  BY <1>1, <1>2 DEF Wizard!None
<1>9. Wizard!TypeOK
  BY <1>2, <1>3, <1>5, <1>6, <1>7, <1>8 DEF Wizard!TypeOK, Wizard!OptionSteps
<1>10. WizardTyped
  BY <1>1, <1>2, <1>3, <1>4, <1>7, <1>9 DEF WizardTyped
<1>11. Answered(wizardStep, answers)
  BY <1>1, <1>2 DEF Answered, AzureSteps, ModelIsKnown, DeploymentIsKnown, KeyIsKnown
<1>12. SavesAreOfTheAnswers /\ Wizard!KeyIsTheGiven
  BY <1>2, <1>6 DEF SavesAreOfTheAnswers, Wizard!KeyIsTheGiven
<1> QED
  BY <1>2, <1>3, <1>10, <1>11, <1>12 DEF WizardInv

\* Every configuration the app works with is complete; the wizard ends with the key the user gave, or with that of the
\* environment while the keychain holds the one the user gave; and a session is opened only on the directory that was
\* on the screen when the user approved it (SetupScreen.tsx, config.ts, keychain.ts, App.tsx).
THEOREM WizardHolds == ToolsSpec => [](Wizard!TypeOK /\ Wizard!OnboardingIsSound)
<1>1. WizardInv => Wizard!TypeOK /\ Wizard!OnboardingIsSound
  <2> SUFFICES ASSUME WizardInv PROVE Wizard!TypeOK /\ Wizard!OnboardingIsSound
    OBVIOUS
  <2>1. Wizard!ConfigIsUsable
    BY DEF WizardInv, WizardTyped, Loaded, Complete, Wizard!ConfigIsUsable
  <2>2. Wizard!SessionIsTrusted
    BY DEF WizardInv, Wizard!SessionIsTrusted
  <2> QED
    BY <2>1, <2>2 DEF WizardInv, WizardTyped, Wizard!OnboardingIsSound
<1> QED
  BY <1>1, WizardPart, WizardBegins, WizardStep, PTL DEF ToolsSpec

-----------------------------------------------------------------------------
\* The stages of an audit.

\* This part takes its own steps or none.
LEMMA StagesPart ==
    /\ ToolsInit => Stages!Init
    /\ [ToolsNext]_toolsVars => [Stages!Next]_stagesVars
BY DEF ToolsInit, ToolsNext, toolsVars, OtherTools


\* The messages are well-formed, and every result follows its request.
HistoryIsWhole == stageMessages \in Seq(Stages!Messages) /\ Stages!IsCoherent(stageMessages)

\* A node of tools has a request to answer, and the last message of a stage that has taken steps is its own; so the
\* history that a stage counts its invocations by is not empty as long as there is something to count.
RequestIsLast ==
    /\ node = "tools" => stageMessages # <<>> /\ stageMessages[Len(stageMessages)].type = "ask"
    /\ steps > 0 => stageMessages # <<>> /\ Stages!IsOfStage(stageMessages[Len(stageMessages)])
    /\ steps <= iterations[stage]

\* Nothing is confirmed before the verdicts, nothing suppressed is, and nothing is published before the end.
VerdictsComeLast ==
    /\ stage # "reporting" => stageConfirmed = {}
    /\ stageConfirmed \cap matches.claims = {}
    /\ node # "end" => published = Stages!Unpublished

StagesInv ==
    /\ Stages!TypeOK /\ HistoryIsWhole /\ RequestIsLast /\ VerdictsComeLast /\ Stages!PublishedIsConfirmed

\* Induction up to a number, for a set.
LEMMA CountsUp ==
  ASSUME NEW n \in Nat, NEW T, 0 \in T, \A k \in 1..n : k - 1 \in T => k \in T
  PROVE  n \in T
<1> DEFINE Bad == {k \in 0..n : k \notin T}
<1>1. ASSUME n \notin T PROVE FALSE
  <2>1. Bad \in SUBSET Nat /\ Bad # {}
    BY <1>1
  <2>2. PICK k \in Bad : \A y \in Bad : k <= y
    <3> HIDE DEF Bad
    <3> QED
      BY <2>1, LeastExists
  <2>3. k \in 1..n /\ k - 1 \notin Bad /\ k - 1 \in 0..n
    BY <2>2
  <2> QED
    BY <2>2, <2>3
<1> QED
  BY <1>1

\* The greatest of a set of numbers is the one that no other is greater than.
LEMMA GreatestOf ==
  ASSUME NEW m, NEW S, m \in S, S \subseteq Nat, \A k \in S : k <= m
  PROVE  Stages!Max(S) = m
<1>1. m \in Nat /\ \A k \in S : k \in Nat
  OBVIOUS
<1>2. \A k \in S : m >= k
  BY <1>1
<1>3. \A k \in S : (\A y \in S : k >= y) => k = m
  BY <1>1
<1> QED
  BY <1>2, <1>3 DEF Stages!Max

\* The front of a sequence, and its last index.
LEMMA UpTo ==
  ASSUME NEW k \in Nat \ {0}
  PROVE  Stages!Max(1..k) = k /\ (1..k) \ {k} = 1..(k - 1) /\ 1..k # {}
<1>1. k \in 1..k /\ 1..k \subseteq Nat /\ \A j \in 1..k : j <= k
  OBVIOUS
<1>2. Stages!Max(1..k) = k
  BY <1>1, GreatestOf
<1>3. (1..k) \ {k} = 1..(k - 1)
  OBVIOUS
<1> QED
  BY <1>1, <1>2, <1>3

\* A set of indices that is not empty has a greatest.
LEMMA GreatestIsIn ==
  ASSUME NEW n \in Nat, NEW S \in SUBSET (1..n), S # {}
  PROVE  Stages!Max(S) \in S /\ \A y \in S : y <= Stages!Max(S)
<1>0. IsFiniteSet(1..n) /\ 1..n \subseteq Nat
  BY FS_Interval
<1>1. IsFiniteSet(S) /\ S \in SUBSET Nat
  BY <1>0, FS_Subset
<1>2. PICK x \in S : \A y \in S : y <= x
  BY <1>1, GreatestExists
<1>3. Stages!Max(S) = x
  BY <1>1, <1>2, GreatestOf
<1> QED
  BY <1>2, <1>3

\* A fold is defined on every set of indices.
FoldsUp(f, n, b, G) ==
    \A s \in SUBSET (1..n) : f[s] = IF s = {} THEN b ELSE G[<<f[s \ {Stages!Max(s)}], Stages!Max(s)>>]

\* There is a fold, whatever is folded: one of a front more is given by the one of the front.
LEMMA FoldExists ==
  ASSUME NEW n \in Nat, NEW X, NEW b \in X, NEW G \in [X \X (1..n) -> X]
  PROVE  \E f \in [SUBSET (1..n) -> X] : FoldsUp(f, n, b, G)
<1> DEFINE T == {m \in 0..n : \E f \in [SUBSET (1..m) -> X] : FoldsUp(f, m, b, G)}
<1>1. 0 \in T
  <2>1. 1..0 = {} /\ SUBSET {} = {{}}
    OBVIOUS
  <2>2. [s \in {{}} |-> b] \in [SUBSET (1..0) -> X]
    BY <2>1
  <2>3. FoldsUp([s \in {{}} |-> b], 0, b, G)
    BY <2>1 DEF FoldsUp
  <2>4. 0 \in 0..n
    OBVIOUS
  <2> QED
    BY <2>2, <2>3, <2>4
<1>2. ASSUME NEW k \in 1..n, k - 1 \in T PROVE k \in T
  <2>1. PICK f \in [SUBSET (1..(k - 1)) -> X] : FoldsUp(f, k - 1, b, G)
    BY <1>2
  <2> DEFINE g == [s \in SUBSET (1..k) |-> IF k \in s THEN G[<<f[s \ {k}], k>>] ELSE f[s]]
  <2>2. ASSUME NEW s \in SUBSET (1..k)
        PROVE  /\ k \notin s => s \in SUBSET (1..(k - 1))
               /\ s \ {k} \in SUBSET (1..(k - 1))
    BY <1>2
  <2>3. ASSUME NEW s \in SUBSET (1..k), k \in s
        PROVE  Stages!Max(s) = k
    <3>1. s \subseteq Nat /\ \A j \in s : j <= k
      BY <1>2, <2>3
    <3> QED
      BY <2>3, <3>1, GreatestOf
  <2>4. ASSUME NEW s \in SUBSET (1..(k - 1)), s # {}
        PROVE  s \ {Stages!Max(s)} \in SUBSET (1..(k - 1)) /\ Stages!Max(s) \in 1..n
    <3>1. k - 1 \in Nat
      BY <1>2
    <3>2. Stages!Max(s) \in s
      BY <2>4, <3>1, GreatestIsIn
    <3>3. s \subseteq 1..(k - 1) /\ 1..(k - 1) \subseteq 1..n
      BY <1>2
    <3> QED
      BY <3>2, <3>3
  <2>5. g \in [SUBSET (1..k) -> X]
    <3>1. ASSUME NEW s \in SUBSET (1..k), k \in s PROVE G[<<f[s \ {k}], k>>] \in X
      <4>1. f[s \ {k}] \in X
        BY <2>1, <2>2
      <4> QED
        BY <1>2, <4>1
    <3>2. ASSUME NEW s \in SUBSET (1..k), k \notin s PROVE f[s] \in X
      BY <2>1, <2>2, <3>2
    <3> QED
      BY <3>1, <3>2
  <2>6. ASSUME NEW s \in SUBSET (1..k)
        PROVE  g[s] = IF s = {} THEN b ELSE G[<<g[s \ {Stages!Max(s)}], Stages!Max(s)>>]
    <3>1. CASE k \in s
      <4>1. k \notin s \ {k} /\ s \ {k} \in SUBSET (1..k) /\ g[s \ {k}] = f[s \ {k}]
        OBVIOUS
      <4>2. g[s] = G[<<f[s \ {k}], k>>]
        BY <3>1
      <4> HIDE DEF g
      <4> QED
        BY <2>3, <3>1, <4>1, <4>2
    <3>2. CASE k \notin s
      <4>1. s \in SUBSET (1..(k - 1)) /\ g[s] = f[s]
        BY <2>2, <3>2
      <4>2. f[s] = IF s = {} THEN b ELSE G[<<f[s \ {Stages!Max(s)}], Stages!Max(s)>>]
        BY <2>1, <4>1 DEF FoldsUp
      <4>3. s # {} => /\ s \ {Stages!Max(s)} \in SUBSET (1..k)
                      /\ k \notin s \ {Stages!Max(s)}
        BY <3>2
      <4>4. s # {} => g[s \ {Stages!Max(s)}] = f[s \ {Stages!Max(s)}]
        BY <4>3
      <4> HIDE DEF g
      <4> QED
        BY <4>1, <4>2, <4>4
    <3> QED
      BY <3>1, <3>2
  <2> HIDE DEF g
  <2>7. FoldsUp(g, k, b, G)
    BY <2>6 DEF FoldsUp
  <2>8. k \in 0..n
    BY <1>2
  <2> QED
    BY <2>5, <2>7, <2>8
<1> HIDE DEF T
<1>3. n \in T
  BY <1>1, <1>2, CountsUp
<1> QED
  BY <1>3 DEF T

Drops(ms, start, m) == m.type = "result" /\ ~(\E i \in {1} \cup start..Len(ms) : Stages!OwnsCall(ms[i], m))
Kept(ms, start, q, f, s) ==
    IF s = {} THEN <<>>
    ELSE IF Drops(ms, start, q[Stages!Max(s)]) THEN f[s \ {Stages!Max(s)}]
    ELSE Append(f[s \ {Stages!Max(s)}], q[Stages!Max(s)])
IsKeptFold(ms, start, q, f) == f = [s \in SUBSET DOMAIN q |-> Kept(ms, start, q, f, s)]
Recent(ms, start) ==
    LET q == SubSeq(ms, start, Len(ms)) IN (CHOOSE f : IsKeptFold(ms, start, q, f))[DOMAIN q]

\* trimContextMessages, with the fold of what is recent by its equation.
LEMMA TrimIs ==
  ASSUME NEW ms
  PROVE  Stages!trimContextMessages(ms) =
            IF Len(ms) <= MaxContext THEN ms
            ELSE LET limit == Len(ms) - MaxContext + 2
                     start == Stages!Max({k \in 1..limit : k = 1 \/ Stages!SuffixIsClosed(ms, k)})
                 IN  IF start = 1 THEN Recent(ms, start) ELSE <<ms[1]>> \o Recent(ms, start)
BY DEF Stages!trimContextMessages, Stages!FoldLeft, Stages!MapThenFoldSet, Recent, IsKeptFold, Kept, Drops

\* As long as nothing is dropped, everything is kept.
LEMMA NothingIsDropped ==
  ASSUME NEW X, NEW ms \in Seq(X), NEW start \in 1..Len(ms) + 1,
         \A i \in start..Len(ms) : ~Drops(ms, start, ms[i])
  PROVE  Recent(ms, start) = SubSeq(ms, start, Len(ms))
<1> DEFINE q == SubSeq(ms, start, Len(ms))
           n == Len(ms) - start + 1
<1>1. n \in Nat /\ q \in Seq(X) /\ Len(q) = n /\ DOMAIN q = 1..n
  OBVIOUS
<1>2. ASSUME NEW i \in 1..n PROVE q[i] \in X /\ ~Drops(ms, start, q[i])
  <2>1. q[i] = ms[start + i - 1] /\ start + i - 1 \in start..Len(ms) /\ start + i - 1 \in 1..Len(ms)
    BY <1>2
  <2> HIDE DEF q
  <2> QED
    BY <2>1
<1> HIDE DEF q, n
<1> DEFINE G == [p \in Seq(X) \X (1..n) |-> Append(p[1], q[p[2]])]
<1>3. G \in [Seq(X) \X (1..n) -> Seq(X)]
  BY <1>2
<1>4. PICK f \in [SUBSET (1..n) -> Seq(X)] : FoldsUp(f, n, <<>>, G)
  <2>1. <<>> \in Seq(X)
    OBVIOUS
  <2> HIDE DEF G
  <2> QED
    BY <1>1, <1>3, <2>1, FoldExists
<1>5. ASSUME NEW s \in SUBSET (1..n), s # {}
      PROVE  Stages!Max(s) \in 1..n /\ s \ {Stages!Max(s)} \in SUBSET (1..n)
  BY <1>1, <1>5, GreatestIsIn
<1>6. ASSUME NEW s \in SUBSET (1..n) PROVE f[s] = Kept(ms, start, q, f, s)
  <2>1. CASE s = {}
    BY <1>4, <2>1 DEF FoldsUp, Kept
  <2>2. CASE s # {}
    <3>1. f[s] = G[<<f[s \ {Stages!Max(s)}], Stages!Max(s)>>]
      <4> HIDE DEF G
      <4> QED
        BY <1>4, <2>2 DEF FoldsUp
    <3>2. f[s \ {Stages!Max(s)}] \in Seq(X)
      BY <1>5, <2>2
    <3>3. f[s] = Append(f[s \ {Stages!Max(s)}], q[Stages!Max(s)])
      BY <1>5, <2>2, <3>1, <3>2
    <3> QED
      BY <1>2, <1>5, <2>2, <3>3 DEF Kept
  <2> QED
    BY <2>1, <2>2
<1>7. IsKeptFold(ms, start, q, f)
  <2> HIDE DEF G
  <2> QED
    BY <1>1, <1>6 DEF IsKeptFold
<1>8. PICK h : IsKeptFold(ms, start, q, h) /\ Recent(ms, start) = h[DOMAIN q]
  BY <1>7 DEF Recent, q
<1> DEFINE T == {k \in 0..n : h[1..k] = SubSeq(q, 1, k)}
<1>9. 0 \in T
  <2>1. h[{}] = <<>>
    BY <1>1, <1>8 DEF IsKeptFold, Kept
  <2>2. 1..0 = {} /\ SubSeq(q, 1, 0) = <<>> /\ 0 \in 0..n
    BY <1>1
  <2> QED
    BY <2>1, <2>2
<1>10. ASSUME NEW k \in 1..n, k - 1 \in T PROVE k \in T
  <2>1. h[1..k] = Kept(ms, start, q, h, 1..k)
    <3>1. 1..k \in SUBSET DOMAIN q
      BY <1>1
    <3> QED
      BY <1>8, <3>1 DEF IsKeptFold
  <2>2. h[1..k] = Append(h[1..(k - 1)], q[k])
    <3>1. k \in Nat \ {0}
      BY <1>1
    <3>2. Stages!Max(1..k) = k /\ (1..k) \ {k} = 1..(k - 1) /\ 1..k # {}
      BY <3>1, UpTo
    <3> QED
      BY <1>2, <2>1, <3>2 DEF Kept
  <2>3. Append(SubSeq(q, 1, k - 1), q[k]) = SubSeq(q, 1, k)
    BY <1>1
  <2>4. h[1..(k - 1)] = SubSeq(q, 1, k - 1)
    BY <1>10
  <2>5. h[1..k] = SubSeq(q, 1, k)
    BY <2>2, <2>3, <2>4
  <2>6. k \in 0..n
    BY <1>1
  <2> QED
    BY <2>5, <2>6
<1>11. n \in T
  <2> HIDE DEF T
  <2> QED
    BY <1>1, <1>9, <1>10, CountsUp
<1>12. SubSeq(q, 1, n) = q
  BY <1>1
<1> QED
  BY <1>1, <1>8, <1>11, <1>12 DEF q

\* Trimming keeps the last message, and a result only with the request it belongs to.
LEMMA TrimKeeps ==
  ASSUME NEW ms \in Seq(Stages!Messages), Stages!IsCoherent(ms)
  PROVE  LET t == Stages!trimContextMessages(ms)
         IN  /\ t \in Seq(Stages!Messages) /\ Stages!IsCoherent(t)
             /\ ms # <<>> => t # <<>> /\ t[Len(t)] = ms[Len(ms)]
<1>0. MaxContext \in Nat \ {0, 1}
  BY ToolsAssumption DEF ToolsAssumption, Stages!PipelineAssumption
<1>1. CASE Len(ms) <= MaxContext
  BY <1>1, TrimIs
<1>2. CASE ~(Len(ms) <= MaxContext)
  <2> DEFINE n == Len(ms)
             limit == n - MaxContext + 2
             S == {k \in 1..limit : k = 1 \/ Stages!SuffixIsClosed(ms, k)}
             start == Stages!Max(S)
  <2>1. n \in Nat /\ n > MaxContext /\ limit \in Nat /\ limit <= n /\ 1 <= limit
    BY <1>0, <1>2
  <2>2. start \in S
    <3>1. S \in SUBSET (1..limit)
      OBVIOUS
    <3>2. 1 \in S
      BY <2>1
    <3> HIDE DEF S, limit
    <3> QED
      BY <2>1, <3>1, <3>2, GreatestIsIn
  <2>3. Stages!trimContextMessages(ms) = IF start = 1 THEN Recent(ms, start) ELSE <<ms[1]>> \o Recent(ms, start)
    BY <1>2, TrimIs
  <2>4. start \in 1..n /\ (start = 1 \/ Stages!SuffixIsClosed(ms, start))
    <3>1. start \in 1..limit /\ (start = 1 \/ Stages!SuffixIsClosed(ms, start))
      <4> HIDE DEF start
      <4> QED
        BY <2>2
    <3> HIDE DEF start, limit
    <3> QED
      BY <2>1, <3>1
  <2> HIDE DEF start
  <2>5. ASSUME NEW i \in start..n, ms[i].type = "result"
        PROVE  \E p \in 1..i - 1 : Stages!OwnsCall(ms[p], ms[i]) /\ (p = 1 \/ p >= start)
    <3>1. i \in DOMAIN ms
      BY <2>1, <2>4
    <3>2. PICK p \in 1..i - 1 : Stages!OwnsCall(ms[p], ms[i])
      BY <2>5, <3>1 DEF Stages!IsCoherent
    <3>3. p \notin 2..start - 1
      <4>1. CASE start = 1
        BY <4>1
      <4>2. CASE Stages!SuffixIsClosed(ms, start)
        BY <3>2, <4>2 DEF Stages!SuffixIsClosed
      <4> QED
        BY <2>4, <4>1, <4>2
    <3>4. p = 1 \/ p >= start
      BY <2>4, <3>3
    <3> QED
      BY <3>2, <3>4
  <2>6. ASSUME NEW i \in start..n PROVE ~Drops(ms, start, ms[i])
    <3>1. ASSUME NEW p \in 1..i - 1, p = 1 \/ p >= start PROVE p \in {1} \cup start..Len(ms)
      BY <2>1, <2>4, <3>1
    <3> QED
      BY <2>5, <3>1 DEF Drops
  <2>7. Recent(ms, start) = SubSeq(ms, start, n)
    <3>1. start \in 1..Len(ms) + 1
      BY <2>4
    <3> QED
      BY <2>6, <3>1, NothingIsDropped
  <2>8. CASE start = 1
    <3>1. SubSeq(ms, 1, n) = ms
      BY <2>1
    <3> QED
      BY <2>3, <2>7, <2>8, <3>1
  <2>9. CASE start # 1
    <3> DEFINE t == <<ms[1]>> \o SubSeq(ms, start, n)
    <3>0. Stages!trimContextMessages(ms) = t
      BY <2>3, <2>7, <2>9
    <3>1. /\ t \in Seq(Stages!Messages) /\ Len(t) = n - start + 2 /\ t[1] = ms[1] /\ 1 \in DOMAIN ms
          /\ \A j \in 2..Len(t) : t[j] = ms[start + j - 2]
      BY <2>1, <2>4, <2>9
    <3> HIDE DEF t
    <3>2. t # <<>> /\ t[Len(t)] = ms[n]
      BY <2>1, <2>4, <2>9, <3>1
    <3>3. ASSUME NEW j \in DOMAIN t, t[j].type = "result"
          PROVE  \E p \in 1..j - 1 : Stages!OwnsCall(t[p], t[j])
      <4>1. j # 1
        <5>1. ms[1].type # "result"
          BY <3>1 DEF Stages!IsCoherent
        <5> QED
          BY <3>1, <3>3, <5>1
      <4>2. j \in 2..Len(t)
        <5>1. DOMAIN t = 1..Len(t) /\ Len(t) \in Nat
          BY <3>1
        <5> QED
          BY <4>1, <5>1
      <4>3. PICK i \in start..n : i = start + j - 2 /\ t[j] = ms[i]
        <5>1. start + j - 2 \in start..n
          BY <2>1, <2>4, <3>1, <4>2
        <5> QED
          BY <3>1, <4>2, <5>1
      <4>6. PICK p \in 1..i - 1 : Stages!OwnsCall(ms[p], ms[i]) /\ (p = 1 \/ p >= start)
        BY <2>5, <3>3, <4>3
      <4>4. CASE p = 1
        <5>1. 1 \in 1..j - 1
          BY <4>2
        <5> QED
          BY <3>1, <4>3, <4>4, <4>6, <5>1
      <4>5. CASE p >= start
        <5>0. /\ start \in Nat /\ p \in Nat /\ n \in Nat /\ j \in Nat /\ i <= n /\ i = start + j - 2
              /\ p <= i - 1 /\ p >= start /\ Len(t) = n - start + 2
          <6>1. i <= n /\ i = start + j - 2
            BY <2>1, <4>3
          <6>2. start \in Nat /\ j \in Nat
            BY <2>4, <4>2
          <6>3. p \in Nat /\ p <= i - 1
            BY <4>3, <4>6, <6>1
          <6> QED
            BY <2>1, <3>1, <4>5, <6>1, <6>2, <6>3
        <5>1. p - start + 2 \in 1..j - 1 /\ p - start + 2 \in 2..Len(t) /\ start + (p - start + 2) - 2 = p
          BY <5>0
        <5>2. t[p - start + 2] = ms[p]
          BY <3>1, <5>1
        <5> QED
          BY <4>3, <4>6, <5>1, <5>2
      <4> QED
        BY <4>4, <4>5, <4>6
    <3>4. Stages!IsCoherent(t)
      BY <3>3 DEF Stages!IsCoherent
    <3> QED
      BY <3>0, <3>1, <3>2, <3>4
  <2> QED
    BY <2>8, <2>9
<1> QED
  BY <1>1, <1>2

\* The four stages.
LEMMA StageNames == Stages!Stages = {"codebase_intelligence", "sast_audit", "devils_advocate", "reporting"}
<1>1. DOMAIN Stages!AuditStages = 1..4 /\ 1..4 = {1, 2, 3, 4}
  BY DEF Stages!AuditStages
<1>2. /\ Stages!AuditStages[1] = "codebase_intelligence" /\ Stages!AuditStages[2] = "sast_audit"
      /\ Stages!AuditStages[3] = "devils_advocate" /\ Stages!AuditStages[4] = "reporting"
  BY DEF Stages!AuditStages
<1>3. Stages!Stages = {Stages!AuditStages[i] : i \in {1, 2, 3, 4}}
  BY <1>1 DEF Stages!Stages, Stages!Range
<1> QED
  BY <1>2, <1>3

\* What follows a stage is a stage; the reporter follows the verdicts.
LEMMA NextStageIs ==
  ASSUME stage \in Stages!Stages, stage # "reporting"
  PROVE  Stages!NextStage \in Stages!Stages /\ (stage = "devils_advocate" => Stages!NextStage = "reporting")
<1>1. /\ Stages!AuditStages[1] = "codebase_intelligence" /\ Stages!AuditStages[2] = "sast_audit"
      /\ Stages!AuditStages[3] = "devils_advocate" /\ Stages!AuditStages[4] = "reporting"
  BY DEF Stages!AuditStages
<1>2. \A i \in 2..4 : Stages!AuditStages[i] \in Stages!Stages
  <2>1. \A i \in 2..4 : i = 2 \/ i = 3 \/ i = 4
    OBVIOUS
  <2> QED
    BY <1>1, <2>1, StageNames
<1>3. \E i \in 2..4 : Stages!AuditStages[i - 1] = stage
  BY <1>1, StageNames
<1>4. PICK i \in 2..4 : Stages!AuditStages[i - 1] = stage /\ Stages!NextStage = Stages!AuditStages[i]
  BY <1>3 DEF Stages!NextStage
<1>5. stage = "devils_advocate" => i = 4
  <2>1. i = 2 \/ i = 3 \/ i = 4
    OBVIOUS
  <2> QED
    BY <1>1, <1>4, <2>1
<1> QED
  BY <1>1, <1>2, <1>4, <1>5

\* A history stays whole when what is added to it are no results, or results of its last message.
LEMMA AppendKeeps ==
  ASSUME NEW ms \in Seq(Stages!Messages), Stages!IsCoherent(ms), NEW more \in Seq(Stages!Messages),
         \A j \in DOMAIN more : more[j].type = "result" => ms # <<>> /\ Stages!OwnsCall(ms[Len(ms)], more[j])
  PROVE  LET t == Stages!trimContextMessages(ms \o more)
         IN  /\ t \in Seq(Stages!Messages) /\ Stages!IsCoherent(t)
             /\ more # <<>> => t # <<>> /\ t[Len(t)] = more[Len(more)]
             /\ more = <<>> /\ ms # <<>> => t # <<>> /\ t[Len(t)] = ms[Len(ms)]
<1> DEFINE all == ms \o more
<1>1. /\ all \in Seq(Stages!Messages) /\ Len(all) = Len(ms) + Len(more)
      /\ \A i \in DOMAIN all : /\ i <= Len(ms) => i \in DOMAIN ms /\ all[i] = ms[i]
                               /\ i > Len(ms) => i - Len(ms) \in DOMAIN more /\ all[i] = more[i - Len(ms)]
  OBVIOUS
<1>2. more # <<>> => Len(more) > 0 /\ all # <<>> /\ all[Len(all)] = more[Len(more)]
  OBVIOUS
<1>3. more = <<>> => all = ms
  OBVIOUS
<1> HIDE DEF all
<1>4. ASSUME NEW i \in DOMAIN all, all[i].type = "result" PROVE \E p \in 1..i - 1 : Stages!OwnsCall(all[p], all[i])
  <2>0. DOMAIN all = 1..Len(all) /\ DOMAIN ms = 1..Len(ms) /\ Len(all) \in Nat /\ Len(ms) \in Nat /\ i \in Nat
    BY <1>1
  <2>1. CASE i <= Len(ms)
    <3>1. i \in DOMAIN ms /\ all[i] = ms[i]
      BY <1>1, <2>1
    <3>2. PICK p \in 1..i - 1 : Stages!OwnsCall(ms[p], ms[i])
      BY <1>4, <3>1 DEF Stages!IsCoherent
    <3>3. p \in DOMAIN all /\ p <= Len(ms)
      BY <2>0, <2>1
    <3> QED
      BY <1>1, <3>1, <3>2, <3>3
  <2>2. CASE i > Len(ms)
    <3>1. i - Len(ms) \in DOMAIN more /\ all[i] = more[i - Len(ms)]
      BY <1>1, <2>2
    <3>2. ms # <<>> /\ Stages!OwnsCall(ms[Len(ms)], all[i])
      BY <1>4, <3>1
    <3>3. Len(ms) \in 1..i - 1 /\ Len(ms) \in DOMAIN all
      BY <2>0, <2>2, <3>2
    <3>4. all[Len(ms)] = ms[Len(ms)]
      BY <1>1, <3>3
    <3> QED
      BY <3>2, <3>3, <3>4
  <2> QED
    BY <2>0, <2>1, <2>2
<1>5. Stages!IsCoherent(all)
  BY <1>4 DEF Stages!IsCoherent
<1>6. LET t == Stages!trimContextMessages(all)
      IN  /\ t \in Seq(Stages!Messages) /\ Stages!IsCoherent(t)
          /\ all # <<>> => t # <<>> /\ t[Len(t)] = all[Len(all)]
  BY <1>1, <1>5, TrimKeeps
<1> QED
  BY <1>2, <1>3, <1>6 DEF all

\* More ids than messages: one of them is free.
LEMMA NextIdIs ==
  ASSUME stageMessages \in Seq(Stages!Messages)
  PROVE  Stages!NextId \in Nat
<1> DEFINE n == Len(stageMessages)
           Free == {k \in 1..n + 1 : \A i \in DOMAIN stageMessages :
                        stageMessages[i].type = "ask" => stageMessages[i].id # k}
           id == [i \in 1..n |-> stageMessages[i].id]
           Used == {id[i] : i \in 1..n}
<1>1. n \in Nat /\ DOMAIN stageMessages = 1..n
  OBVIOUS
<1>2. Free # {}
  <2> HIDE DEF n
  <2>1. IsFiniteSet(1..n) /\ Cardinality(1..n) = n /\ IsFiniteSet(1..n + 1) /\ Cardinality(1..n + 1) = n + 1
    BY <1>1, FS_Interval
  <2>2. IsFiniteSet(Used) /\ Cardinality(Used) <= n
    <3>1. id \in Surjection(1..n, Used)
      BY DEF Surjection
    <3> HIDE DEF id, Used
    <3> QED
      BY <2>1, <3>1, FS_Surjection
  <2>3. Cardinality(Used) \in Nat
    BY <2>2, FS_CardinalityType
  <2>4. ~(1..n + 1 \subseteq Used)
    <3> HIDE DEF Used
    <3>1. ASSUME 1..n + 1 \subseteq Used PROVE n + 1 <= Cardinality(Used)
      <4>1. Cardinality(1..n + 1) <= Cardinality(Used)
        BY <2>2, <3>1, FS_Subset
      <4> QED
        BY <2>1, <4>1
    <3> QED
      BY <1>1, <2>2, <2>3, <3>1
  <2> QED
    BY <1>1, <2>4
<1>3. Free \in SUBSET Nat
  BY <1>1
<1>4. Stages!NextId = Stages!Min(Free)
  BY DEF Stages!NextId
<1> HIDE DEF Free
<1>5. PICK x \in Free : \A y \in Free : x <= y
  BY <1>2, <1>3, LeastExists
<1> QED
  BY <1>3, <1>4, <1>5 DEF Stages!Min

\* The evidence of the reporter has each of its claims once, and none but confirmed ones.
EvidenceBase == [claims |-> recorded, findings |-> [c \in Claims |-> IF c \in DOMAIN recorded THEN 1 ELSE 0]]
Heard(f, s) ==
    IF s = {} THEN EvidenceBase
    ELSE Stages!acceptReportCall(f[s \ {Stages!Max(s)}], stageMessages[Stages!Max(s)])
IsEvidenceFold(f) == f = [s \in SUBSET DOMAIN stageMessages |-> Heard(f, s)]

\* The evidence of the reporter, by the equation of its fold.
LEMMA EvidenceIsFold == Stages!reporterEvidence = (CHOOSE f : IsEvidenceFold(f))[DOMAIN stageMessages]
BY DEF Stages!reporterEvidence, Stages!FoldLeft, Stages!MapThenFoldSet, IsEvidenceFold, EvidenceBase, Heard

Records == UNION {[set -> Nat] : set \in SUBSET stageConfirmed}
Listed(g) == [claims |-> g, findings |-> [c \in Claims |-> IF c \in DOMAIN g THEN 1 ELSE 0]]

\* One call more leaves each claim recorded once, and none but confirmed ones.
LEMMA EvidenceKeeps ==
  ASSUME stageConfirmed \subseteq Claims, NEW g \in Records, NEW m \in Stages!Messages
  PROVE  \E h \in Records : Stages!acceptReportCall(Listed(g), m) = Listed(h)
<1> DEFINE e == Listed(g)
           claim == m.of.claim
           taken == \/ ~Stages!Succeeded(m, "report_finding")
                    \/ claim \notin stageConfirmed \/ claim \in DOMAIN g
           h == [c \in DOMAIN g \cup {claim} |-> IF c = claim THEN m.id ELSE g[c]]
           found == [c \in Claims |-> IF c \in DOMAIN g THEN 1 ELSE 0]
<1>0. e.claims = g /\ e.findings = found
  BY DEF Listed
<1>1. Stages!acceptReportCall(e, m) =
        IF taken THEN e ELSE [claims |-> h, findings |-> [found EXCEPT ![claim] = @ + 1]]
  <2> HIDE DEF e, found
  <2> QED
    BY <1>0 DEF Stages!acceptReportCall
<1>2. CASE taken
  <2> HIDE DEF taken, h, found
  <2> QED
    BY <1>1, <1>2
<1>3. CASE ~taken
  <2>1. claim \in stageConfirmed /\ claim \in Claims /\ claim \notin DOMAIN g /\ m.type = "result"
    BY <1>3 DEF Stages!Succeeded
  <2>2. m.id \in Nat
    BY <2>1 DEF Stages!Messages
  <2>3. PICK set \in SUBSET stageConfirmed : g \in [set -> Nat]
    BY DEF Records
  <2> HIDE DEF claim
  <2>4. h \in [set \cup {claim} -> Nat] /\ set \cup {claim} \in SUBSET stageConfirmed
    BY <2>1, <2>2, <2>3
  <2>5. h \in Records
    <3> HIDE DEF h
    <3> QED
      BY <2>4 DEF Records
  <2>6. [found EXCEPT ![claim] = @ + 1] = [c \in Claims |-> IF c \in DOMAIN h THEN 1 ELSE 0]
    <3>1. DOMAIN h = DOMAIN g \cup {claim}
      OBVIOUS
    <3>2. found[claim] + 1 = 1
      BY <2>1
    <3> HIDE DEF h
    <3> QED
      BY <2>1, <3>1, <3>2
  <2> HIDE DEF h, found, taken
  <2> QED
    BY <1>1, <1>3, <2>5, <2>6 DEF Listed
<1> QED
  BY <1>2, <1>3

\* So what the whole history shows is a record, whose findings are one for each of its claims.
LEMMA EvidenceHolds ==
  ASSUME stageConfirmed \subseteq Claims, recorded \in Records, stageMessages \in Seq(Stages!Messages)
  PROVE  \E g \in Records : Stages!reporterEvidence = Listed(g)
<1> DEFINE X == {Listed(g) : g \in Records}
           n == Len(stageMessages)
           G == [p \in X \X (1..n) |-> Stages!acceptReportCall(p[1], stageMessages[p[2]])]
<1>1. n \in Nat /\ DOMAIN stageMessages = 1..n /\ \A i \in 1..n : stageMessages[i] \in Stages!Messages
  OBVIOUS
<1> HIDE DEF n
<1>2. ASSUME NEW e \in X, NEW i \in 1..n PROVE Stages!acceptReportCall(e, stageMessages[i]) \in X
  <2>1. PICK g \in Records : e = Listed(g)
    OBVIOUS
  <2> QED
    BY <1>1, <2>1, EvidenceKeeps
<1>3. EvidenceBase \in X
  BY DEF EvidenceBase, Listed
<1> HIDE DEF X
<1>4. G \in [X \X (1..n) -> X]
  BY <1>2
<1>5. PICK f \in [SUBSET (1..n) -> X] : FoldsUp(f, n, EvidenceBase, G)
  <2> HIDE DEF G
  <2> QED
    BY <1>1, <1>3, <1>4, FoldExists
<1>6. ASSUME NEW s \in SUBSET (1..n) PROVE f[s] = Heard(f, s)
  <2>1. CASE s = {}
    BY <1>5, <2>1 DEF FoldsUp, Heard
  <2>2. CASE s # {}
    <3>1. f[s] = G[<<f[s \ {Stages!Max(s)}], Stages!Max(s)>>]
      <4> HIDE DEF G
      <4> QED
        BY <1>5, <2>2 DEF FoldsUp
    <3>2. Stages!Max(s) \in 1..n /\ f[s \ {Stages!Max(s)}] \in X
      <4>1. Stages!Max(s) \in s
        BY <1>1, <2>2, GreatestIsIn
      <4> QED
        BY <4>1
    <3> QED
      BY <2>2, <3>1, <3>2 DEF Heard
  <2> QED
    BY <2>1, <2>2
<1>7. IsEvidenceFold(f)
  <2> HIDE DEF G
  <2> QED
    BY <1>1, <1>6 DEF IsEvidenceFold
<1>8. PICK h : IsEvidenceFold(h) /\ Stages!reporterEvidence = h[DOMAIN stageMessages]
  BY <1>7, EvidenceIsFold
<1> DEFINE T == {k \in 0..n : h[1..k] \in X}
<1>9. 0 \in T
  <2>1. h[{}] = EvidenceBase
    BY <1>8 DEF IsEvidenceFold, Heard
  <2>2. 1..0 = {} /\ 0 \in 0..n
    BY <1>1
  <2> QED
    BY <1>3, <2>1, <2>2
<1>10. ASSUME NEW k \in 1..n, k - 1 \in T PROVE k \in T
  <2>1. h[1..k] = Heard(h, 1..k)
    <3>1. 1..k \in SUBSET DOMAIN stageMessages
      BY <1>1
    <3> QED
      BY <1>8, <3>1 DEF IsEvidenceFold
  <2>2. h[1..k] = Stages!acceptReportCall(h[1..(k - 1)], stageMessages[k])
    <3>1. k \in Nat \ {0}
      BY <1>1
    <3>2. Stages!Max(1..k) = k /\ (1..k) \ {k} = 1..(k - 1) /\ 1..k # {}
      BY <3>1, UpTo
    <3> QED
      BY <2>1, <3>2 DEF Heard
  <2>3. h[1..(k - 1)] \in X
    BY <1>10
  <2>4. h[1..k] \in X
    BY <1>2, <2>2, <2>3
  <2>5. k \in 0..n
    BY <1>1
  <2> QED
    BY <2>4, <2>5
<1>11. n \in T
  <2> HIDE DEF T
  <2> QED
    BY <1>1, <1>9, <1>10, CountsUp
<1> QED
  BY <1>1, <1>8, <1>11 DEF X

\* The bounds are numbers.
LEMMA StagesBounds ==
    /\ MaxToolSteps \in Nat \ {0} /\ MaxCalls \in Nat \ {0} /\ MaxAudits \in Nat \ {0} /\ ExtraInvocations \in Nat
    /\ MaxReviews \in Nat /\ Stages!MaxInvocations \in Nat
BY ToolsAssumption DEF ToolsAssumption, Stages!PipelineAssumption, Stages!MaxInvocations

\* The lesser of two numbers.
LEMMA LeastOfTwo ==
  ASSUME NEW a \in Nat, NEW b \in Nat
  PROVE  Stages!Min({a, b}) \in Nat /\ Stages!Min({a, b}) <= a /\ Stages!Min({a, b}) <= b
<1>1. \E x \in {a, b} : \A y \in {a, b} : x <= y
  OBVIOUS
<1> QED
  BY <1>1 DEF Stages!Min

\* What the nodes add to the history.
LEMMA MessagesAre ==
  ASSUME auditRun \in 0..MaxAudits, stage \in Stages!Stages
  PROVE  /\ Stages!Text \in Stages!Messages /\ Stages!Text.type = "text"
         /\ \A r \in 0..MaxAudits : Stages!Human(r) \in Stages!Messages /\ Stages!Human(r).type = "human"
         /\ \A id \in Nat, calls \in Seq(Stages!Calls) :
                /\ Stages!Ask(id, calls) \in Stages!Messages /\ Stages!Ask(id, calls).type = "ask"
                /\ Stages!IsOfStage(Stages!Ask(id, calls))
<1>1. "reporting" \in Stages!Stages
  BY StageNames
<1>2. Stages!Text \in Stages!Messages /\ Stages!Text.type = "text"
  BY DEF Stages!Text, Stages!Messages
<1>3. \A r \in 0..MaxAudits : Stages!Human(r) \in Stages!Messages /\ Stages!Human(r).type = "human"
  BY <1>1 DEF Stages!Human, Stages!Messages
<1>4. ASSUME NEW id \in Nat, NEW calls \in Seq(Stages!Calls)
      PROVE  Stages!Ask(id, calls) \in Stages!Messages
  BY DEF Stages!Ask, Stages!Messages
<1>5. ASSUME NEW id, NEW calls
      PROVE  Stages!Ask(id, calls).type = "ask" /\ Stages!IsOfStage(Stages!Ask(id, calls))
  BY DEF Stages!Ask, Stages!IsOfStage
<1> QED
  BY <1>2, <1>3, <1>4, <1>5

\* The calls of a response are a sequence of calls.
LEMMA CallsAre ==
  ASSUME NEW tools, NEW calls \in Stages!CallSeqs(tools), tools \subseteq Stages!Calls
  PROVE  calls \in Seq(Stages!Calls)
<1>1. PICK n \in 1..MaxCalls : calls \in [1..n -> tools]
  BY DEF Stages!CallSeqs
<1>2. n \in Nat /\ calls \in [1..n -> Stages!Calls]
  BY <1>1, StagesBounds
<1> QED
  BY <1>2

\* A message that is no result may always be added.
LEMMA OneMore ==
  ASSUME HistoryIsWhole, NEW m \in Stages!Messages, m.type # "result", Stages!Appended(<<m>>)
  PROVE  HistoryIsWhole' /\ stageMessages' # <<>> /\ stageMessages'[Len(stageMessages')] = m
<1> DEFINE more == <<m>>
<1>1. /\ more \in Seq(Stages!Messages) /\ more # <<>> /\ Len(more) = 1 /\ more[1] = m
      /\ \A j \in DOMAIN more : more[j] = m
  OBVIOUS
<1>2. stageMessages' = Stages!trimContextMessages(stageMessages \o more)
  BY DEF Stages!Appended
<1> HIDE DEF more
<1>3. LET t == Stages!trimContextMessages(stageMessages \o more)
      IN  t \in Seq(Stages!Messages) /\ Stages!IsCoherent(t) /\ t # <<>> /\ t[Len(t)] = more[Len(more)]
  <2>1. stageMessages \in Seq(Stages!Messages) /\ Stages!IsCoherent(stageMessages)
    BY DEF HistoryIsWhole
  <2> QED
    BY <1>1, <2>1, AppendKeeps
<1> QED
  BY <1>1, <1>2, <1>3 DEF HistoryIsWhole

\* The count of an invocation is more than the steps of the stage so far.
LEMMA CountIsAhead ==
  ASSUME StagesInv
  PROVE  Stages!NextCount \in Nat /\ steps + 1 <= Stages!NextCount
<1>1. steps \in Nat /\ stage \in Stages!Stages /\ iterations[stage] \in Nat
  BY StagesBounds DEF StagesInv, Stages!TypeOK
<1>2. CASE Stages!getStageHistory = {}
  <2>1. ASSUME stageMessages # <<>> PROVE Len(stageMessages) \in DOMAIN stageMessages
    BY <2>1 DEF StagesInv, HistoryIsWhole
  <2>2. ~(steps > 0)
    BY <1>2, <2>1 DEF StagesInv, RequestIsLast, Stages!getStageHistory
  <2> QED
    BY <1>1, <1>2, <2>2 DEF Stages!NextCount
<1>3. CASE Stages!getStageHistory # {}
  BY <1>1, <1>3 DEF Stages!NextCount, StagesInv, RequestIsLast
<1> QED
  BY <1>2, <1>3

\* The invocation that is counted is within the bound.
LEMMA Counting ==
  ASSUME StagesInv, Stages!Counted, Stages!NextCount <= Stages!MaxInvocations
  PROVE  iterations' \in [Stages!Stages -> 0..Stages!MaxInvocations] /\ iterations'[stage] = Stages!NextCount
<1>1. Stages!NextCount \in 0..Stages!MaxInvocations
  BY CountIsAhead, StagesBounds
<1>2. stage \in Stages!Stages /\ iterations \in [Stages!Stages -> 0..Stages!MaxInvocations]
  BY DEF StagesInv, Stages!TypeOK
<1> QED
  BY <1>1, <1>2 DEF Stages!Counted

\* The session begins with it.
LEMMA StagesStart == Stages!Init => StagesInv
<1> SUFFICES ASSUME Stages!Init PROVE StagesInv
  OBVIOUS
<1>1. "reporting" \in Stages!Stages
  BY StageNames
<1>2. Stages!Unpublished \in [kind : {"none", "final", "salvaged"}, findings : [Claims -> 0..2]]
  BY DEF Stages!Unpublished
<1>3. Stages!NoMatches \in [known : BOOLEAN, claims : SUBSET Claims]
  BY DEF Stages!NoMatches
<1>4. \E D \in SUBSET stageConfirmed : recorded \in [D -> Nat]
  <2>1. recorded \in [{} -> Nat] /\ {} \in SUBSET stageConfirmed
    BY DEF Stages!NoRecord, Stages!Init
  <2> QED
    BY <2>1
<1>5. iterations \in [Stages!Stages -> 0..Stages!MaxInvocations]
  BY StagesBounds DEF Stages!Init
<1>6. steps \in 0..Stages!MaxInvocations + 1 /\ reviews \in 0..MaxReviews /\ auditRun \in 0..MaxAudits
  BY StagesBounds DEF Stages!Init
<1>7. stageMessages = <<>> /\ <<>> \in Seq(Stages!Messages) /\ DOMAIN <<>> = {}
  BY DEF Stages!Init
<1>8. Stages!TypeOK
  <2>1. /\ stageRunning = FALSE /\ node = "end" /\ stage = "reporting" /\ candidates = {} /\ stageConfirmed = {}
        /\ published = Stages!Unpublished /\ suppressed \in SUBSET Claims /\ matches = Stages!NoMatches
    BY DEF Stages!Init
  <2> QED
    BY <1>1, <1>2, <1>3, <1>4, <1>5, <1>6, <1>7, <2>1 DEF Stages!TypeOK
<1>9. HistoryIsWhole
  BY <1>7 DEF HistoryIsWhole, Stages!IsCoherent
<1>10. RequestIsLast
  BY <1>1, <1>5 DEF RequestIsLast, Stages!Init
<1>11. VerdictsComeLast
  BY DEF VerdictsComeLast, Stages!Init
<1>12. Stages!PublishedIsConfirmed
  BY DEF Stages!PublishedIsConfirmed, Stages!Init, Stages!Unpublished
<1> QED
  BY <1>8, <1>9, <1>10, <1>11, <1>12 DEF StagesInv

\* A node asks for tools.
LEMMA RequestKeeps ==
  ASSUME StagesInv, NEW calls \in Seq(Stages!Calls), Stages!Appended(<<Stages!Ask(Stages!NextId, calls)>>),
         Stages!Counted, Stages!NextCount <= Stages!MaxInvocations, UNCHANGED <<stage, auditRun>>,
         steps' = Stages!Min({steps + 1, Stages!MaxInvocations + 1})
  PROVE  /\ HistoryIsWhole' /\ RequestIsLast'
         /\ iterations' \in [Stages!Stages -> 0..Stages!MaxInvocations]
         /\ steps' \in 0..Stages!MaxInvocations + 1
<1> DEFINE m == Stages!Ask(Stages!NextId, calls)
<1>1. stageMessages \in Seq(Stages!Messages) /\ HistoryIsWhole /\ auditRun \in 0..MaxAudits /\ stage \in Stages!Stages
  BY DEF StagesInv, HistoryIsWhole, Stages!TypeOK
<1>2. m \in Stages!Messages /\ m.type = "ask" /\ Stages!IsOfStage(m)
  BY <1>1, NextIdIs, MessagesAre
<1>3. Stages!Appended(<<m>>)
  OBVIOUS
<1> HIDE DEF m
<1>4. HistoryIsWhole' /\ stageMessages' # <<>> /\ stageMessages'[Len(stageMessages')] = m
  BY <1>1, <1>2, <1>3, OneMore
<1>5. Stages!IsOfStage(stageMessages[Len(stageMessages)])'
  BY <1>2, <1>4 DEF Stages!IsOfStage
<1>6. /\ iterations' \in [Stages!Stages -> 0..Stages!MaxInvocations] /\ iterations'[stage] = Stages!NextCount
      /\ Stages!NextCount \in Nat /\ steps + 1 <= Stages!NextCount /\ steps \in Nat
  <2>1. steps \in Nat
    BY StagesBounds DEF StagesInv, Stages!TypeOK
  <2> QED
    BY <2>1, Counting, CountIsAhead
<1>7. steps' \in Nat /\ steps' <= steps + 1 /\ steps' <= Stages!MaxInvocations + 1
  BY <1>6, StagesBounds, LeastOfTwo
<1>8. steps' <= iterations'[stage'] /\ steps' \in 0..Stages!MaxInvocations + 1
  BY <1>6, <1>7, StagesBounds
<1>9. RequestIsLast'
  <2>1. stageMessages'[Len(stageMessages')].type = "ask"
    BY <1>2, <1>4
  <2> QED
    BY <1>4, <1>5, <1>8, <2>1 DEF RequestIsLast
<1> QED
  BY <1>4, <1>6, <1>8, <1>9

\* What a stage may ask for are calls.
LEMMA CallKinds == [tool : {"look"}] \subseteq Stages!Calls /\ Stages!ReporterCalls \subseteq Stages!Calls
BY DEF Stages!Calls, Stages!ReporterCalls

\* What may become of the matches.
LEMMA Matched ==
  ASSUME StagesInv
  PROVE  /\ matches \in [known : BOOLEAN, claims : SUBSET Claims]
         /\ [known |-> TRUE, claims |-> suppressed] \in [known : BOOLEAN, claims : SUBSET Claims]
         /\ Stages!NoMatches \in [known : BOOLEAN, claims : SUBSET Claims]
<1>1. suppressed \in SUBSET Claims /\ matches \in [known : BOOLEAN, claims : SUBSET Claims]
  BY DEF StagesInv, Stages!TypeOK
<1>2. TRUE \in BOOLEAN /\ FALSE \in BOOLEAN /\ {} \in SUBSET Claims
  OBVIOUS
<1> QED
  BY <1>1, <1>2, Zenon DEF Stages!NoMatches

\* A stage that asks for its tools keeps it.
LEMMA InvestigationStep ==
  ASSUME StagesInv, NEW calls \in Stages!CallSeqs([tool : {"look"}]), Stages!InvestigationAsks(calls)
  PROVE  StagesInv'
<1>1. /\ Stages!Appended(<<Stages!Ask(Stages!NextId, calls)>>) /\ Stages!Counted /\ node' = "tools"
      /\ Stages!NextCount <= Stages!MaxInvocations /\ stage # "reporting" /\ node = "agent"
      /\ UNCHANGED <<stage, auditRun>> /\ UNCHANGED <<stageRunning, candidates, stageConfirmed, recorded, published,
                     suppressed, reviews>>
      /\ steps' = Stages!Min({steps + 1, Stages!MaxInvocations + 1})
  BY DEF Stages!InvestigationAsks, Stages!Investigating, Stages!Agent, Stages!work
<1>2. matches' = matches \/ matches' = [known |-> TRUE, claims |-> suppressed]
  BY DEF Stages!InvestigationAsks
<1>3. calls \in Seq(Stages!Calls)
  BY CallsAre, CallKinds
<1>4. /\ HistoryIsWhole' /\ RequestIsLast'
      /\ iterations' \in [Stages!Stages -> 0..Stages!MaxInvocations]
      /\ steps' \in 0..Stages!MaxInvocations + 1
  BY <1>1, <1>3, RequestKeeps
<1>5. stageConfirmed = {} /\ published = Stages!Unpublished
  BY <1>1 DEF StagesInv, VerdictsComeLast
<1>6. matches' \in [known : BOOLEAN, claims : SUBSET Claims]
  BY <1>2, Matched
<1>7. Stages!TypeOK'
  BY <1>1, <1>4, <1>6 DEF StagesInv, Stages!TypeOK, HistoryIsWhole
<1>8. VerdictsComeLast'
  BY <1>1, <1>5 DEF VerdictsComeLast, Stages!Unpublished
<1>9. Stages!PublishedIsConfirmed'
  BY <1>1, <1>5 DEF Stages!PublishedIsConfirmed, Stages!Unpublished
<1> QED
  BY <1>4, <1>7, <1>8, <1>9 DEF StagesInv

\* A handoff, without what it says.
LEMMA HandoffKeeps ==
  ASSUME StagesInv, Stages!HandsOver
  PROVE  /\ HistoryIsWhole' /\ RequestIsLast' /\ stage' \in Stages!Stages
         /\ iterations' \in [Stages!Stages -> 0..Stages!MaxInvocations]
         /\ steps' \in 0..Stages!MaxInvocations + 1
         /\ stageConfirmed = {} /\ published = Stages!Unpublished /\ stageRunning /\ node = "agent"
         /\ (stage = "devils_advocate" => stage' = "reporting")
         /\ UNCHANGED <<stageRunning, node, auditRun, recorded, published, suppressed, reviews>>
<1>1. /\ Stages!Counted /\ Stages!NextCount <= Stages!MaxInvocations /\ stage # "reporting" /\ node = "agent"
      /\ stage' = Stages!NextStage /\ steps' = 0 /\ stageRunning
      /\ UNCHANGED <<stageRunning, node, auditRun, recorded, published, suppressed, reviews>>
  BY DEF Stages!HandsOver, Stages!HandoffCounts, Stages!Investigating, Stages!Agent
<1>2. PICK repaired \in {<<>>, <<Stages!Text>>} : Stages!Appended(<<Stages!Text>> \o repaired)
  BY DEF Stages!HandsOver
<1>3. /\ stage \in Stages!Stages /\ auditRun \in 0..MaxAudits /\ stageMessages \in Seq(Stages!Messages)
      /\ Stages!IsCoherent(stageMessages)
  BY DEF StagesInv, Stages!TypeOK, HistoryIsWhole
<1>4. Stages!Text \in Stages!Messages /\ Stages!Text.type = "text"
  BY <1>3, MessagesAre
<1> DEFINE more == <<Stages!Text>> \o repaired
<1>5. more \in Seq(Stages!Messages) /\ \A j \in DOMAIN more : more[j] = Stages!Text
  <2> DEFINE m == Stages!Text
  <2>1. m \in Stages!Messages
    BY <1>4
  <2> HIDE DEF m
  <2>2. CASE repaired = <<>>
    <3>1. <<m>> \o <<>> \in Seq(Stages!Messages) /\ \A j \in DOMAIN (<<m>> \o <<>>) : (<<m>> \o <<>>)[j] = m
      BY <2>1
    <3> QED
      BY <2>2, <3>1 DEF m
  <2>3. CASE repaired = <<Stages!Text>>
    <3>1. <<m>> \o <<m>> \in Seq(Stages!Messages) /\ \A j \in DOMAIN (<<m>> \o <<m>>) : (<<m>> \o <<m>>)[j] = m
      BY <2>1
    <3> QED
      BY <2>3, <3>1 DEF m
  <2> QED
    BY <2>2, <2>3
<1>6. stageMessages' = Stages!trimContextMessages(stageMessages \o more)
  BY <1>2 DEF Stages!Appended
<1> HIDE DEF more
<1>7. \A j \in DOMAIN more : more[j].type # "result"
  BY <1>4, <1>5
<1>8. HistoryIsWhole'
  <2>1. LET t == Stages!trimContextMessages(stageMessages \o more)
        IN  t \in Seq(Stages!Messages) /\ Stages!IsCoherent(t)
    BY <1>3, <1>5, <1>7, AppendKeeps
  <2> QED
    BY <1>6, <2>1 DEF HistoryIsWhole
<1>9. iterations' \in [Stages!Stages -> 0..Stages!MaxInvocations]
  BY <1>1, Counting
<1>10. stage' \in Stages!Stages /\ (stage = "devils_advocate" => stage' = "reporting")
  BY <1>1, <1>3, NextStageIs
<1>11. RequestIsLast'
  BY <1>1, <1>9, <1>10, StagesBounds DEF RequestIsLast
<1>12. steps' \in 0..Stages!MaxInvocations + 1
  BY <1>1, StagesBounds
<1>13. stageConfirmed = {} /\ published = Stages!Unpublished
  BY <1>1 DEF StagesInv, VerdictsComeLast
<1> QED
  BY <1>1, <1>8, <1>9, <1>10, <1>11, <1>12, <1>13

\* A handoff keeps it: what is confirmed are candidates that no decision matches.
LEMMA HandoffStep ==
  ASSUME StagesInv, NEW set \in SUBSET Claims,
         Stages!CodebaseHandoff \/ Stages!SastHandoff(set) \/ Stages!DevilsAdvocateHandoff(set)
  PROVE  StagesInv'
<1>1. Stages!HandsOver
  BY DEF Stages!CodebaseHandoff, Stages!SastHandoff, Stages!DevilsAdvocateHandoff
<1>2. /\ HistoryIsWhole' /\ RequestIsLast' /\ stage' \in Stages!Stages
      /\ iterations' \in [Stages!Stages -> 0..Stages!MaxInvocations]
      /\ steps' \in 0..Stages!MaxInvocations + 1
      /\ stageConfirmed = {} /\ published = Stages!Unpublished /\ node = "agent"
      /\ (stage = "devils_advocate" => stage' = "reporting")
      /\ UNCHANGED <<stageRunning, node, auditRun, recorded, published, suppressed, reviews>>
  BY <1>1, HandoffKeeps
<1>3. recorded \in Records /\ recorded' = recorded
  BY <1>2 DEF StagesInv, Stages!TypeOK, Records
<1>4. recorded \in [{} -> Nat]
  <2>1. PICK D \in SUBSET {} : recorded \in [D -> Nat]
    BY <1>2, <1>3 DEF Records
  <2> QED
    BY <2>1
<1>5. \E D \in SUBSET stageConfirmed' : recorded' \in [D -> Nat]
  BY <1>3, <1>4
<1>6. candidates \subseteq Claims
  BY DEF StagesInv, Stages!TypeOK
<1>7. /\ candidates' \subseteq Claims /\ stageConfirmed' \subseteq candidates'
      /\ stageConfirmed' \cap matches'.claims = {}
      /\ stage' # "reporting" => stageConfirmed' = {}
  <2>1. CASE Stages!CodebaseHandoff
    BY <1>2, <1>6, <2>1 DEF Stages!CodebaseHandoff
  <2>2. CASE Stages!SastHandoff(set)
    BY <1>2, <2>2 DEF Stages!SastHandoff
  <2>3. CASE Stages!DevilsAdvocateHandoff(set)
    <3>1. /\ stageConfirmed' = (set \cap candidates) \ matches'.claims /\ candidates' = candidates
          /\ stage = "devils_advocate"
      BY <2>3 DEF Stages!DevilsAdvocateHandoff
    <3> QED
      BY <1>2, <1>6, <3>1
  <2> QED
    BY <2>1, <2>2, <2>3
<1>8. matches' \in [known : BOOLEAN, claims : SUBSET Claims]
  <2>1. matches' = matches \/ matches' = [known |-> TRUE, claims |-> suppressed]
    BY DEF Stages!CodebaseHandoff, Stages!SastHandoff, Stages!DevilsAdvocateHandoff
  <2> QED
    BY <2>1, Matched
<1>9. Stages!TypeOK'
  BY <1>2, <1>5, <1>7, <1>8 DEF StagesInv, Stages!TypeOK, HistoryIsWhole
<1>10. VerdictsComeLast'
  BY <1>2, <1>7 DEF VerdictsComeLast, Stages!Unpublished
<1>11. Stages!PublishedIsConfirmed'
  BY <1>2 DEF Stages!PublishedIsConfirmed, Stages!Unpublished
<1> QED
  BY <1>2, <1>9, <1>10, <1>11 DEF StagesInv

\* The results of the tools belong to the request that is the last message.
LEMMA ToolsStep ==
  ASSUME StagesInv, NEW n \in 1..MaxCalls, NEW ok \in [1..n -> BOOLEAN], Stages!Tools(ok)
  PROVE  StagesInv'
<1> DEFINE last == stageMessages[Len(stageMessages)]
           result(i) == [type |-> "result", run |-> auditRun, stage |-> stage,
                         id |-> last.id, of |-> last.calls[i], ok |-> ok[i]]
           more == [i \in DOMAIN last.calls |-> result(i)]
<1>1. /\ node = "tools" /\ node' = "agent" /\ DOMAIN ok = DOMAIN last.calls
      /\ stageMessages' = Stages!trimContextMessages(stageMessages \o more)
      /\ UNCHANGED <<stageRunning, stage, iterations, auditRun, candidates, stageConfirmed, recorded, published,
                     suppressed, matches, steps, reviews>>
  BY DEF Stages!Tools, Stages!Last, Stages!Appended, Stages!work
<1>2. /\ stageMessages \in Seq(Stages!Messages) /\ Stages!IsCoherent(stageMessages) /\ stageMessages # <<>>
      /\ last.type = "ask" /\ auditRun \in 0..MaxAudits /\ stage \in Stages!Stages
  BY <1>1 DEF StagesInv, HistoryIsWhole, RequestIsLast, Stages!TypeOK
<1>3. last \in Stages!Messages
  BY <1>2
<1> HIDE DEF last
<1>4. last.id \in Nat /\ last.calls \in Seq(Stages!Calls)
  BY <1>2, <1>3 DEF Stages!Messages
<1>5. DOMAIN last.calls = 1..n /\ n \in Nat
  BY <1>1, StagesBounds
<1>6. ASSUME NEW i \in 1..n PROVE result(i) \in Stages!Messages
  <2>1. ok[i] \in BOOLEAN /\ last.calls[i] \in Stages!Calls
    BY <1>4, <1>5
  <2> QED
    BY <1>2, <1>4, <2>1 DEF Stages!Messages
<1>7. \A i \in 1..n : /\ result(i).id = last.id /\ result(i).type = "result"
                      /\ result(i).run = auditRun /\ result(i).stage = stage
  OBVIOUS
<1> HIDE DEF result
<1>8. more \in Seq(Stages!Messages) /\ Len(more) = n /\ DOMAIN more = 1..n /\ \A i \in 1..n : more[i] = result(i)
  BY <1>5, <1>6
<1> HIDE DEF more
<1>9. \A j \in DOMAIN more : Stages!OwnsCall(last, more[j])
  BY <1>2, <1>7, <1>8 DEF Stages!OwnsCall
<1>10. n \in DOMAIN more /\ more # <<>>
  BY <1>5, <1>8
<1>11. LET t == Stages!trimContextMessages(stageMessages \o more)
       IN  t \in Seq(Stages!Messages) /\ Stages!IsCoherent(t) /\ t # <<>> /\ t[Len(t)] = more[Len(more)]
  BY <1>2, <1>8, <1>9, <1>10, AppendKeeps DEF last
<1>12. HistoryIsWhole' /\ stageMessages' # <<>> /\ stageMessages'[Len(stageMessages')] = more[n]
  BY <1>1, <1>8, <1>11 DEF HistoryIsWhole
<1>13. Stages!IsOfStage(stageMessages[Len(stageMessages)])'
  BY <1>1, <1>7, <1>8, <1>10, <1>12 DEF Stages!IsOfStage
<1>14. RequestIsLast'
  BY <1>1, <1>12, <1>13 DEF StagesInv, RequestIsLast
<1>15. Stages!TypeOK'
  BY <1>1, <1>12 DEF StagesInv, Stages!TypeOK, HistoryIsWhole
<1>16. VerdictsComeLast'
  BY <1>1 DEF StagesInv, VerdictsComeLast, Stages!Unpublished
<1>17. Stages!PublishedIsConfirmed'
  BY <1>1 DEF StagesInv, Stages!PublishedIsConfirmed
<1> QED
  BY <1>12, <1>14, <1>15, <1>16, <1>17 DEF StagesInv

\* What the evidence of the reporter is as long as the invariant holds.
LEMMA EvidenceIs ==
  ASSUME StagesInv
  PROVE  /\ Stages!reporterEvidence.claims \in Records
         /\ Stages!reporterEvidence.findings =
                [c \in Claims |-> IF c \in DOMAIN Stages!reporterEvidence.claims THEN 1 ELSE 0]
<1>1. stageConfirmed \subseteq Claims /\ recorded \in Records /\ stageMessages \in Seq(Stages!Messages)
  BY DEF StagesInv, Stages!TypeOK, HistoryIsWhole, Records
<1>2. PICK g \in Records : Stages!reporterEvidence = Listed(g)
  BY <1>1, EvidenceHolds
<1> QED
  BY <1>2 DEF Listed

\* The reporter, whose record is what its history shows.
LEMMA ReporterStep ==
  ASSUME StagesInv, NEW calls \in Stages!CallSeqs(Stages!ReporterCalls), Stages!ReporterAsks(calls)
  PROVE  StagesInv'
<1>1. /\ Stages!Appended(<<Stages!Ask(Stages!NextId, calls)>>) /\ Stages!Counted /\ node' = "tools"
      /\ Stages!NextCount <= Stages!MaxInvocations /\ node = "agent"
      /\ UNCHANGED <<stage, auditRun>> /\ UNCHANGED <<stageRunning, candidates, stageConfirmed, published, suppressed,
                     matches, reviews>>
      /\ steps' = Stages!Min({steps + 1, Stages!MaxInvocations + 1})
      /\ recorded' = Stages!reporterEvidence.claims
  BY DEF Stages!ReporterAsks, Stages!Reporting, Stages!Agent
<1>2. calls \in Seq(Stages!Calls)
  BY CallsAre, CallKinds
<1>3. /\ HistoryIsWhole' /\ RequestIsLast'
      /\ iterations' \in [Stages!Stages -> 0..Stages!MaxInvocations]
      /\ steps' \in 0..Stages!MaxInvocations + 1
  BY <1>1, <1>2, RequestKeeps
<1>4. \E D \in SUBSET stageConfirmed' : recorded' \in [D -> Nat]
  BY <1>1, EvidenceIs DEF Records
<1>5. Stages!TypeOK'
  <2>1. \A i \in DOMAIN stageMessages' : stageMessages'[i] \in Stages!Messages
    BY <1>3 DEF HistoryIsWhole
  <2>2. /\ stageRunning \in BOOLEAN /\ stage \in Stages!Stages /\ auditRun \in 0..MaxAudits /\ reviews \in 0..MaxReviews
        /\ candidates \subseteq Claims /\ stageConfirmed \subseteq candidates /\ suppressed \subseteq Claims
        /\ published \in [kind : {"none", "final", "salvaged"}, findings : [Claims -> 0..2]]
        /\ matches \in [known : BOOLEAN, claims : SUBSET Claims]
    BY DEF StagesInv, Stages!TypeOK
  <2> QED
    BY <1>1, <1>3, <1>4, <2>1, <2>2 DEF Stages!TypeOK
<1>6. VerdictsComeLast'
  BY <1>1 DEF StagesInv, VerdictsComeLast, Stages!Unpublished
<1>7. Stages!PublishedIsConfirmed'
  BY <1>1 DEF StagesInv, Stages!PublishedIsConfirmed
<1> QED
  BY <1>3, <1>5, <1>6, <1>7 DEF StagesInv

\* The end of an audit, whatever is published.
LEMMA PublishStep ==
  ASSUME StagesInv, NEW kind \in {"final", "salvaged"}, NEW listed, Stages!Publish(kind, listed), Stages!Reporting,
         listed = [c \in Claims |-> IF c \in DOMAIN recorded' THEN 1 ELSE 0],
         recorded' \in Records, kind = "final" => stageConfirmed \subseteq DOMAIN recorded',
         iterations' \in [Stages!Stages -> 0..Stages!MaxInvocations], iterations'[stage] >= steps,
         UNCHANGED <<stage, auditRun, candidates, stageConfirmed, suppressed, matches, steps, reviews>>
  PROVE  StagesInv'
<1>1. /\ published' = [kind |-> kind, findings |-> listed] /\ node' = "end" /\ stageRunning' = FALSE
      /\ Stages!Appended(<<Stages!Text>>)
  BY DEF Stages!Publish
<1>2. HistoryIsWhole /\ auditRun \in 0..MaxAudits /\ stage \in Stages!Stages
  BY DEF StagesInv, Stages!TypeOK
<1>3. Stages!Text \in Stages!Messages /\ Stages!Text.type = "text" /\ Stages!IsOfStage(Stages!Text)
  BY <1>2, MessagesAre DEF Stages!IsOfStage, Stages!Text
<1>4. HistoryIsWhole' /\ stageMessages' # <<>> /\ stageMessages'[Len(stageMessages')] = Stages!Text
  BY <1>1, <1>2, <1>3, OneMore
<1>5. Stages!IsOfStage(stageMessages[Len(stageMessages)])'
  BY <1>3, <1>4 DEF Stages!IsOfStage
<1>6. steps <= iterations'[stage]
  <2>1. steps \in Nat /\ iterations'[stage] \in Nat
    BY <1>2, StagesBounds DEF StagesInv, Stages!TypeOK
  <2> QED
    BY <2>1
<1>7. RequestIsLast'
  BY <1>1, <1>4, <1>5, <1>6 DEF RequestIsLast
<1>8. \E D \in SUBSET stageConfirmed' : recorded' \in [D -> Nat] /\ DOMAIN recorded' \subseteq stageConfirmed
  BY DEF Records
<1>9. published' \in [kind : {"none", "final", "salvaged"}, findings : [Claims -> 0..2]]
  <2>1. listed \in [Claims -> 0..2]
    OBVIOUS
  <2> QED
    BY <1>1, <2>1
<1>10. Stages!TypeOK'
  <2>1. stageRunning' \in BOOLEAN /\ node' \in {"agent", "tools", "end"}
    BY <1>1
  <2>2. \A i \in DOMAIN stageMessages' : stageMessages'[i] \in Stages!Messages
    BY <1>4 DEF HistoryIsWhole
  <2>3. /\ candidates \subseteq Claims /\ stageConfirmed \subseteq candidates /\ suppressed \subseteq Claims
        /\ steps \in 0..Stages!MaxInvocations + 1 /\ reviews \in 0..MaxReviews
        /\ matches \in [known : BOOLEAN, claims : SUBSET Claims]
    BY DEF StagesInv, Stages!TypeOK
  <2> QED
    BY <1>2, <1>8, <1>9, <2>1, <2>2, <2>3 DEF Stages!TypeOK
<1>11. VerdictsComeLast'
  BY <1>1 DEF StagesInv, VerdictsComeLast
<1>12. stageConfirmed \cap matches.claims = {}
  BY DEF StagesInv, VerdictsComeLast
<1>13. ASSUME NEW c \in Claims
       PROVE  /\ published'.findings[c] = IF c \in DOMAIN recorded' THEN 1 ELSE 0
              /\ published'.kind = kind
  BY <1>1
<1>14. Stages!PublishedIsConfirmed'
  <2>1. ASSUME NEW c \in Claims, published'.kind = "final"
        PROVE  published'.findings[c] = IF c \in stageConfirmed' THEN 1 ELSE 0
    BY <1>8, <1>13, <2>1
  <2>2. ASSUME NEW c \in Claims, published'.findings[c] > 0
        PROVE  c \in stageConfirmed' /\ c \notin matches'.claims
    BY <1>8, <1>12, <1>13, <2>2
  <2> QED
    BY <2>1, <2>2 DEF Stages!PublishedIsConfirmed
<1> QED
  BY <1>4, <1>7, <1>10, <1>11, <1>14 DEF StagesInv

\* The final report.
LEMMA FinalStep ==
  ASSUME StagesInv, Stages!FinalReport
  PROVE  StagesInv'
<1>1. /\ Stages!Publish("final", Stages!reporterEvidence.findings) /\ Stages!Reporting /\ Stages!Counted
      /\ Stages!NextCount <= Stages!MaxInvocations /\ recorded' = Stages!reporterEvidence.claims
      /\ stageConfirmed \subseteq DOMAIN recorded'
      /\ UNCHANGED <<stage, auditRun, candidates, stageConfirmed, suppressed, matches, steps, reviews>>
  BY DEF Stages!FinalReport, Stages!completionSucceeded
<1>2. recorded' \in Records
      /\ Stages!reporterEvidence.findings = [c \in Claims |-> IF c \in DOMAIN recorded' THEN 1 ELSE 0]
  BY <1>1, EvidenceIs
<1>3. iterations' \in [Stages!Stages -> 0..Stages!MaxInvocations] /\ iterations'[stage] >= steps
  <2>1. steps \in Nat
    BY StagesBounds DEF StagesInv, Stages!TypeOK
  <2> QED
    BY <1>1, <2>1, Counting, CountIsAhead
<1> QED
  BY <1>1, <1>2, <1>3, PublishStep

\* A report that is salvaged.
LEMMA SalvageStep ==
  ASSUME StagesInv, NEW valid \in SUBSET Claims, Stages!salvageReporting(valid)
  PROVE  StagesInv'
<1> DEFINE D == stageConfirmed \cap valid
           listed == [c \in Claims |-> IF c \in D THEN 1 ELSE 0]
<1>1. /\ Stages!Publish("salvaged", listed) /\ Stages!Reporting /\ recorded' = [c \in D |-> 0]
      /\ UNCHANGED <<stage, auditRun, candidates, stageConfirmed, suppressed, matches, steps, reviews>>
  BY DEF Stages!salvageReporting
<1>2. D \in SUBSET stageConfirmed
  OBVIOUS
<1> HIDE DEF D
<1>3. recorded' \in Records /\ DOMAIN recorded' = D
  <2>1. recorded' \in [D -> Nat]
    BY <1>1
  <2> QED
    BY <1>2, <2>1 DEF Records
<1>4. iterations' \in [Stages!Stages -> 0..Stages!MaxInvocations] /\ iterations'[stage] >= steps
  <2>1. /\ steps \in Nat /\ stage \in Stages!Stages /\ iterations \in [Stages!Stages -> 0..Stages!MaxInvocations]
        /\ steps <= iterations[stage]
    BY StagesBounds DEF StagesInv, Stages!TypeOK, RequestIsLast
  <2>2. CASE Stages!NextCount > Stages!MaxInvocations
    <3>1. iterations' = iterations
      BY <2>2 DEF Stages!salvageReporting
    <3>2. iterations[stage] \in Nat
      BY <2>1, StagesBounds
    <3> QED
      BY <2>1, <3>1, <3>2
  <2>3. CASE ~(Stages!NextCount > Stages!MaxInvocations)
    <3>1. Stages!Counted /\ Stages!NextCount <= Stages!MaxInvocations
      BY <2>3, CountIsAhead, StagesBounds DEF Stages!salvageReporting, Stages!Counted
    <3> QED
      BY <2>1, <3>1, Counting, CountIsAhead
  <2> QED
    BY <2>2, <2>3
<1>5. listed = [c \in Claims |-> IF c \in DOMAIN recorded' THEN 1 ELSE 0]
  BY <1>3
<1> HIDE DEF listed
<1> QED
  BY <1>1, <1>3, <1>4, <1>5, PublishStep

\* A fresh audit forgets all but the history.
LEMMA StartStep ==
  ASSUME StagesInv, Stages!StartAudit
  PROVE  StagesInv'
<1>1. /\ auditRun < MaxAudits /\ stageRunning' = TRUE /\ node' = "agent" /\ stage' = Stages!AuditStages[1]
      /\ auditRun' = auditRun + 1
      /\ stageMessages' = Stages!trimContextMessages(Append(stageMessages, Stages!Human(auditRun + 1)))
      /\ iterations' = [s \in Stages!Stages |-> 0]
      /\ candidates' = {} /\ stageConfirmed' = {} /\ recorded' = Stages!NoRecord
      /\ published' = Stages!Unpublished /\ matches' = Stages!NoMatches /\ steps' = 0
      /\ UNCHANGED <<suppressed, reviews>>
  BY DEF Stages!StartAudit
<1>2. /\ auditRun \in Nat /\ auditRun + 1 \in 0..MaxAudits /\ auditRun \in 0..MaxAudits
      /\ HistoryIsWhole /\ stage \in Stages!Stages /\ stageMessages \in Seq(Stages!Messages)
  BY <1>1, StagesBounds DEF StagesInv, Stages!TypeOK, HistoryIsWhole
<1> DEFINE m == Stages!Human(auditRun + 1)
<1>3. m \in Stages!Messages /\ m.type = "human"
  BY <1>2, MessagesAre
<1> HIDE DEF m
<1>4. Append(stageMessages, m) = stageMessages \o <<m>>
  BY <1>2, <1>3
<1>5. HistoryIsWhole'
  <2>1. Stages!Appended(<<m>>)
    BY <1>1, <1>4 DEF Stages!Appended, m
  <2> QED
    BY <1>2, <1>3, <2>1, OneMore
<1>6. stage' \in Stages!Stages
  BY <1>1, StageNames DEF Stages!AuditStages
<1>7. iterations' \in [Stages!Stages -> 0..Stages!MaxInvocations] /\ steps' <= iterations'[stage']
      /\ steps' \in 0..Stages!MaxInvocations + 1 /\ ~(steps' > 0)
  BY <1>1, <1>6, StagesBounds
<1>8. recorded' \in [{} -> Nat]
  BY <1>1 DEF Stages!NoRecord
<1>9. published' \in [kind : {"none", "final", "salvaged"}, findings : [Claims -> 0..2]]
  BY <1>1 DEF Stages!Unpublished
<1>10. matches' \in [known : BOOLEAN, claims : SUBSET Claims] /\ matches'.claims = {}
  BY <1>1, Matched DEF Stages!NoMatches
<1>11. Stages!TypeOK'
  <2>1. stageRunning' \in BOOLEAN /\ node' \in {"agent", "tools", "end"} /\ auditRun' \in 0..MaxAudits
    BY <1>1, <1>2
  <2>2. \A i \in DOMAIN stageMessages' : stageMessages'[i] \in Stages!Messages
    BY <1>5 DEF HistoryIsWhole
  <2>3. /\ candidates' \subseteq Claims /\ stageConfirmed' \subseteq candidates' /\ suppressed' \subseteq Claims
        /\ reviews' \in 0..MaxReviews
    BY <1>1 DEF StagesInv, Stages!TypeOK
  <2>4. \E D \in SUBSET stageConfirmed' : recorded' \in [D -> Nat]
    BY <1>8
  <2> QED
    BY <1>6, <1>7, <1>9, <1>10, <2>1, <2>2, <2>3, <2>4 DEF Stages!TypeOK
<1>12. RequestIsLast'
  BY <1>1, <1>7 DEF RequestIsLast
<1>13. VerdictsComeLast'
  BY <1>1 DEF VerdictsComeLast, Stages!Unpublished
<1>14. Stages!PublishedIsConfirmed'
  BY <1>1 DEF Stages!PublishedIsConfirmed, Stages!Unpublished
<1> QED
  BY <1>5, <1>11, <1>12, <1>13, <1>14 DEF StagesInv

\* A thread that goes on where it stopped, with a history that may be compacted.
LEMMA ContinueStep ==
  ASSUME StagesInv, Stages!Continue
  PROVE  StagesInv'
<1>1. /\ node # "end" /\ stageRunning' = TRUE /\ steps' = 0
      /\ UNCHANGED <<node, stage, iterations, auditRun, candidates, stageConfirmed, recorded, published, suppressed,
                     reviews>>
  BY DEF Stages!Continue, Stages!work
<1>2. matches' = matches \/ matches' = Stages!NoMatches
  BY DEF Stages!Continue
<1>3. stageMessages' = stageMessages \/ (node # "tools" /\ stageMessages' = <<Stages!Human(0)>>)
  BY DEF Stages!Continue
<1>4. /\ HistoryIsWhole /\ stage \in Stages!Stages /\ auditRun \in 0..MaxAudits /\ iterations[stage] \in Nat
      /\ published = Stages!Unpublished
  BY <1>1, StagesBounds DEF StagesInv, Stages!TypeOK, VerdictsComeLast
<1>5. HistoryIsWhole'
  <2>1. CASE stageMessages' = stageMessages
    BY <1>4, <2>1 DEF HistoryIsWhole
  <2>2. CASE stageMessages' = <<Stages!Human(0)>>
    <3> DEFINE m == Stages!Human(0)
    <3>1. m \in Stages!Messages /\ m.type = "human"
      BY <1>4, MessagesAre, StagesBounds
    <3> HIDE DEF m
    <3>2. <<m>> \in Seq(Stages!Messages) /\ \A i \in DOMAIN <<m>> : <<m>>[i] = m
      BY <3>1
    <3>3. Stages!IsCoherent(<<m>>)
      BY <3>1, <3>2 DEF Stages!IsCoherent
    <3> QED
      BY <2>2, <3>2, <3>3 DEF HistoryIsWhole, m
  <2> QED
    BY <1>3, <2>1, <2>2
<1>6. matches' \in [known : BOOLEAN, claims : SUBSET Claims] /\ matches'.claims \subseteq matches.claims
  <2>1. CASE matches' = matches
    BY <2>1, Matched
  <2>2. CASE matches' = Stages!NoMatches
    BY <2>2, Matched DEF Stages!NoMatches
  <2> QED
    BY <1>2, <2>1, <2>2
<1>7. RequestIsLast'
  BY <1>1, <1>3, <1>4 DEF StagesInv, RequestIsLast
<1>8. Stages!TypeOK'
  <2>1. stageRunning' \in BOOLEAN /\ steps' \in 0..Stages!MaxInvocations + 1
    BY <1>1, StagesBounds
  <2>2. \A i \in DOMAIN stageMessages' : stageMessages'[i] \in Stages!Messages
    BY <1>5 DEF HistoryIsWhole
  <2> QED
    BY <1>1, <1>6, <2>1, <2>2 DEF StagesInv, Stages!TypeOK
<1>9. VerdictsComeLast'
  BY <1>1, <1>6 DEF StagesInv, VerdictsComeLast, Stages!Unpublished
<1>10. Stages!PublishedIsConfirmed'
  BY <1>1, <1>4 DEF Stages!PublishedIsConfirmed, Stages!Unpublished
<1> QED
  BY <1>5, <1>7, <1>8, <1>9, <1>10 DEF StagesInv

\* A node that fails, and a decision of the user, leave the audit where it is.
LEMMA QuietStep ==
  ASSUME StagesInv, Stages!NodeFails \/ (\E c \in Claims : Stages!Review(c)) \/ UNCHANGED stagesVars
  PROVE  StagesInv'
<1>1. UNCHANGED <<node, stage, auditRun, stageMessages, iterations, candidates, stageConfirmed, recorded, published,
                  matches, steps>>
  BY DEF Stages!NodeFails, Stages!Review, Stages!work, stagesVars
<1>2. stageRunning' \in BOOLEAN
  BY DEF Stages!NodeFails, Stages!Review, stagesVars, StagesInv, Stages!TypeOK
<1>3. suppressed' \subseteq Claims /\ reviews' \in 0..MaxReviews
  <2>1. suppressed \subseteq Claims /\ reviews \in 0..MaxReviews
    BY DEF StagesInv, Stages!TypeOK
  <2>2. CASE Stages!NodeFails \/ UNCHANGED stagesVars
    BY <2>1, <2>2 DEF Stages!NodeFails, stagesVars
  <2>3. CASE \E c \in Claims : Stages!Review(c)
    BY <2>1, <2>3, StagesBounds DEF Stages!Review
  <2> QED
    BY <2>2, <2>3
<1>4. Stages!TypeOK'
  BY <1>1, <1>2, <1>3 DEF StagesInv, Stages!TypeOK
<1>5. HistoryIsWhole'
  BY <1>1 DEF StagesInv, HistoryIsWhole
<1>6. RequestIsLast'
  <2>1. Stages!IsOfStage(stageMessages[Len(stageMessages)])' <=> Stages!IsOfStage(stageMessages[Len(stageMessages)])
    BY <1>1 DEF Stages!IsOfStage
  <2> QED
    BY <1>1, <2>1 DEF StagesInv, RequestIsLast
<1>7. VerdictsComeLast'
  BY <1>1 DEF StagesInv, VerdictsComeLast, Stages!Unpublished
<1>8. Stages!PublishedIsConfirmed'
  BY <1>1 DEF StagesInv, Stages!PublishedIsConfirmed
<1> QED
  BY <1>4, <1>5, <1>6, <1>7, <1>8 DEF StagesInv

\* It is inductive.
LEMMA StagesSteps == StagesInv /\ [Stages!Next]_stagesVars => StagesInv'
<1> SUFFICES ASSUME StagesInv, [Stages!Next]_stagesVars PROVE StagesInv'
  OBVIOUS
<1>1. ASSUME NEW calls \in Stages!CallSeqs([tool : {"look"}]), Stages!InvestigationAsks(calls) PROVE StagesInv'
  BY <1>1, InvestigationStep
<1>2. ASSUME NEW calls \in Stages!CallSeqs(Stages!ReporterCalls), Stages!ReporterAsks(calls) PROVE StagesInv'
  BY <1>2, ReporterStep
<1>3. CASE Stages!CodebaseHandoff
  <2>1. {} \in SUBSET Claims
    OBVIOUS
  <2> QED
    BY <1>3, <2>1, HandoffStep
<1>4. ASSUME NEW set \in SUBSET Claims, Stages!SastHandoff(set) \/ Stages!DevilsAdvocateHandoff(set) PROVE StagesInv'
  BY <1>4, HandoffStep
<1>5. ASSUME NEW set \in SUBSET Claims, Stages!salvageReporting(set) PROVE StagesInv'
  BY <1>5, SalvageStep
<1>6. ASSUME NEW n \in 1..MaxCalls, NEW ok \in [1..n -> BOOLEAN], Stages!Tools(ok) PROVE StagesInv'
  BY <1>6, ToolsStep
<1>7. CASE Stages!FinalReport
  BY <1>7, FinalStep
<1>8. CASE Stages!StartAudit
  BY <1>8, StartStep
<1>9. CASE Stages!Continue
  BY <1>9, ContinueStep
<1>10. CASE Stages!NodeFails \/ (\E c \in Claims : Stages!Review(c)) \/ UNCHANGED stagesVars
  BY <1>10, QuietStep
<1>11. CASE Stages!Step
  <2>1. ASSUME NEW ok \in UNION {[1..n -> BOOLEAN] : n \in 1..MaxCalls}, Stages!Tools(ok) PROVE StagesInv'
    BY <1>6, <2>1
  <2> QED
    BY <1>1, <1>2, <1>3, <1>4, <1>5, <1>7, <1>10, <1>11, <2>1 DEF Stages!Step
<1> QED
  BY <1>8, <1>9, <1>10, <1>11 DEF Stages!Next

\* What is published was confirmed, once and in whole when it is final, no result is without its request, and no stage goes
\* on for ever, whatever is trimmed, compacted, refused or repeated (graph/workflow.ts, graph/state.ts).
THEOREM StagesHold ==
  ToolsSpec =>
    [](Stages!TypeOK /\ Stages!PublishedIsConfirmed /\ Stages!ResultsHaveRequests /\ Stages!StagesEnd)
<1>1. StagesInv => Stages!TypeOK /\ Stages!PublishedIsConfirmed /\ Stages!ResultsHaveRequests /\ Stages!StagesEnd
  <2> SUFFICES ASSUME StagesInv
               PROVE  Stages!TypeOK /\ Stages!PublishedIsConfirmed /\ Stages!ResultsHaveRequests /\ Stages!StagesEnd
    OBVIOUS
  <2>1. /\ stage \in Stages!Stages /\ iterations \in [Stages!Stages -> 0..Stages!MaxInvocations]
        /\ steps \in 0..Stages!MaxInvocations + 1 /\ steps <= iterations[stage]
    BY DEF StagesInv, Stages!TypeOK, RequestIsLast
  <2>2. Stages!StagesEnd
    BY <2>1, StagesBounds DEF Stages!StagesEnd
  <2> QED
    BY <2>2 DEF StagesInv, HistoryIsWhole, Stages!ResultsHaveRequests
<1> QED
  BY <1>1, StagesPart, StagesStart, StagesSteps, PTL DEF ToolsSpec

-----------------------------------------------------------------------------
\* The tool loop of a worker (langchain-tool-executor.ts, agent-worker.ts).

\* The loop begins as it does by itself, and takes its own steps or none.
LEMMA LoopPart ==
    /\ ToolsInit => Loop!Init
    /\ [ToolsNext]_toolsVars => [Loop!Next]_loopVars
BY DEF ToolsInit, ToolsNext, toolsVars, OtherTools

\* A message, its calls or the call it answers among the first n.
LoopMessages(n) == [kind : {"system", "memory", "human", "ai", "tool"}, ids : SUBSET (1..n)]

\* The calls of a message are answered right after it, each once.
IsAnswered(s, i) ==
    LET n == Cardinality(s[i].ids)
    IN  /\ i + n <= Len(s) /\ {s[i + k].ids : k \in 1..n} = {{c} : c \in s[i].ids}
        /\ \A k \in 1..n : s[i + k].kind = "tool"

\* What answers follows what it answers, with nothing but answers in between.
IsAnswer(s, j) == \E i \in 1..j - 1 :
    /\ Loop!Calls(s[i]) /\ s[j].ids \subseteq s[i].ids
    /\ \A k \in i + 1..j : s[k].kind = "tool"

\* Closed, and every answer in the group of its call.
IsGrouped(s) ==
    /\ \A i \in DOMAIN s : Loop!Calls(s[i]) => IsAnswered(s, i)
    /\ \A j \in DOMAIN s : s[j].kind = "tool" => IsAnswer(s, j)

\* The messages end with a request whose calls have no answers yet.
IsAsking(s) == \E base \in Seq(LoopMessages(ids)) :
    IsGrouped(base) /\ s = Append(base, Loop!Msg("ai", (ids - Len(loopBatch) + 1)..ids))

\* Types.
LoopTyped ==
    /\ loopPc \in {"idle", "model", "reserve", "tools", "final", "failed"} /\ loopStep \in 0..MaxWorkerSteps
    /\ ids \in Nat /\ loopBatch \in Seq(STRING) /\ Len(loopBatch) <= ids
    /\ loopRunning \subseteq DOMAIN loopBatch /\ next \in 1..(Len(loopBatch) + 1)
    /\ results \in [DOMAIN loopBatch -> {"none", "ok", "error"}]
    /\ history \in Seq(LoopMessages(ids)) /\ loopMessages \in Seq(LoopMessages(ids)) /\ loopDelta \in Seq(LoopMessages(ids))

\* What the worker has and what it sends is grouped, but for a request that is being worked on.
MessagesAreGrouped ==
    /\ IsGrouped(history)
    /\ loopPc = "model" => IsGrouped(loopMessages) /\ IsGrouped(loopDelta)
    /\ loopPc \in {"reserve", "tools"} => IsAsking(loopMessages) /\ IsAsking(loopDelta) /\ loopStep < MaxWorkerSteps
    /\ loopPc \in {"model", "reserve", "tools"} => loopMessages # <<>> /\ loopMessages[1] = Loop!System

\* The mission holds the slots of what runs, and of what was cut short.
SlotsAreHeld ==
    /\ interrupted \subseteq reserved
    /\ loopPc = "tools" => Loop!Slots \subseteq reserved /\ Loop!Slots \cap interrupted = {}
    /\ loopPc \notin {"tools", "failed"} => loopRunning = {}

\* The inductive invariant of the loop.
LoopInv == LoopTyped /\ MessagesAreGrouped /\ SlotsAreHeld /\ Loop!MutationsRunAlone

\* The cardinality of the module of the loop is the library's.
LEMMA LoopCardinality == ASSUME NEW S PROVE Loop!Cardinality(S) = Cardinality(S) /\ Loop!IsFiniteSet(S) = IsFiniteSet(S)
BY DEF Loop!Cardinality, Cardinality, Loop!IsFiniteSet, IsFiniteSet

\* A message has a finite number of calls.
LEMMA CallsAreCounted ==
  ASSUME NEW n \in Nat
  PROVE  \A m \in LoopMessages(n) : Cardinality(m.ids) \in Nat
<1>1. IsFiniteSet(1..n)
  BY FS_Interval
<1>2. \A S \in SUBSET (1..n) : Cardinality(S) \in Nat
  BY <1>1, FS_Subset, FS_CardinalityType
<1> QED
  BY <1>2 DEF LoopMessages

\* What is among the first calls is among more of them.
LEMMA MoreCalls ==
  ASSUME NEW n \in Nat, NEW k \in Nat, n <= k, NEW s \in Seq(LoopMessages(n))
  PROVE  s \in Seq(LoopMessages(k))
<1>1. 1..n \subseteq 1..k
  OBVIOUS
<1>2. LoopMessages(n) \subseteq LoopMessages(k)
  BY <1>1 DEF LoopMessages
<1> HIDE DEF LoopMessages
<1> QED
  BY <1>2

\* What is grouped is closed.
LEMMA GroupedIsClosed ==
  ASSUME NEW s, IsGrouped(s)
  PROVE  Loop!IsClosed(s)
BY LoopCardinality DEF IsGrouped, IsAnswered, IsAnswer, Loop!IsClosed

\* A group that is elsewhere in another sequence is answered there too.
LEMMA AnsweredAlso ==
  ASSUME NEW s, NEW t, NEW i \in Int, NEW d \in Int, NEW n \in Nat, n = Cardinality(s[i].ids), IsAnswered(s, i),
         Len(t) \in Nat, i + d + n <= Len(t), \A k \in 0..n : t[i + d + k] = s[i + k]
  PROVE  IsAnswered(t, i + d)
<1>1. t[i + d] = s[i]
  <2>1. 0 \in 0..n /\ i + d + 0 = i + d /\ i + 0 = i
    OBVIOUS
  <2> QED
    BY <2>1
<1>2. \A k \in 1..n : t[(i + d) + k] = s[i + k]
  OBVIOUS
<1>3. {t[(i + d) + k].ids : k \in 1..n} = {s[i + k].ids : k \in 1..n}
  BY <1>2
<1>4. {s[i + k].ids : k \in 1..n} = {{c} : c \in s[i].ids} /\ \A k \in 1..n : s[i + k].kind = "tool"
  BY DEF IsAnswered
<1>5. {t[(i + d) + k].ids : k \in 1..n} = {{c} : c \in t[i + d].ids}
  BY <1>1, <1>3, <1>4
<1>6. \A k \in 1..n : t[(i + d) + k].kind = "tool"
  BY <1>2, <1>4
<1>7. n = Cardinality(t[i + d].ids)
  BY <1>1
<1> QED
  BY <1>5, <1>6, <1>7 DEF IsAnswered

\* And so is an answer an answer there.
LEMMA AnswerAlso ==
  ASSUME NEW s, NEW t, NEW i \in Int, NEW j \in Int, NEW d \in Int, i < j, 1 <= i + d,
         Loop!Calls(s[i]), s[j].ids \subseteq s[i].ids, \A k \in i + 1..j : s[k].kind = "tool",
         \A k \in i..j : t[k + d] = s[k]
  PROVE  IsAnswer(t, j + d)
<1>1. t[i + d] = s[i] /\ t[j + d] = s[j] /\ i + d \in 1..(j + d) - 1
  OBVIOUS
<1>2. ASSUME NEW k \in (i + d) + 1..j + d PROVE t[k].kind = "tool"
  <2>1. k - d \in i + 1..j /\ k - d \in i..j /\ (k - d) + d = k
    OBVIOUS
  <2> QED
    BY <2>1
<1>3. Loop!Calls(t[i + d]) /\ t[j + d].ids \subseteq t[i + d].ids
  BY <1>1
<1> QED
  BY <1>1, <1>2, <1>3 DEF IsAnswer

\* A suffix that begins with a group is grouped.
LEMMA SuffixIsGrouped ==
  ASSUME NEW M, \A m \in M : Cardinality(m.ids) \in Nat, NEW s \in Seq(M), IsGrouped(s), NEW p \in Loop!Starts(s)
  PROVE  /\ SubSeq(s, p, Len(s)) \in Seq(M) /\ IsGrouped(SubSeq(s, p, Len(s)))
<1> DEFINE q == SubSeq(s, p, Len(s))
           l == Len(s) - p + 1
           d == 1 - p
<1>1. /\ p \in 1..Len(s) /\ Len(s) \in Nat /\ l \in Nat /\ DOMAIN s = 1..Len(s)
      /\ ~\E j \in 1..p - 1 : s[j].kind = "ai" /\ \A k \in j + 1..p : s[k].kind = "tool"
  BY DEF Loop!Starts
<1>2. q \in Seq(M) /\ Len(q) = l /\ DOMAIN q = 1..l
  BY <1>1
<1>3. \A k \in p..Len(s) : q[k + d] = s[k]
  BY <1>1
<1> HIDE DEF q
<1>4. ASSUME NEW i \in 1..l, Loop!Calls(q[i]) PROVE IsAnswered(q, i)
  <2> DEFINE o == i - d
  <2>1. o \in p..Len(s) /\ o \in DOMAIN s /\ o + d = i /\ o \in Int /\ d \in Int
    BY <1>1
  <2>2. q[i] = s[o] /\ s[o] \in M
    BY <1>3, <2>1
  <2>3. IsAnswered(s, o)
    BY <1>4, <2>1, <2>2 DEF IsGrouped
  <2> DEFINE n == Cardinality(s[o].ids)
  <2>4. n \in Nat /\ o + n <= Len(s)
    BY <2>2, <2>3 DEF IsAnswered
  <2> HIDE DEF n
  <2>5. \A k \in 0..n : q[o + d + k] = s[o + k]
    <3>1. ASSUME NEW k \in 0..n PROVE q[o + d + k] = s[o + k]
      <4>1. o + k \in p..Len(s) /\ (o + k) + d = o + d + k
        BY <1>1, <2>1, <2>4
      <4> HIDE DEF o, d
      <4> QED
        BY <1>3, <4>1
    <3> QED
      BY <3>1
  <2>6. o + d + n <= l
    <3>1. l = Len(s) + d /\ Len(s) \in Int /\ d \in Int
      BY <1>1
    <3> HIDE DEF o, d, l
    <3> QED
      BY <2>1, <2>4, <3>1
  <2>7. n = Cardinality(s[o].ids)
    BY DEF n
  <2> HIDE DEF o, d, l
  <2>8. IsAnswered(q, o + d)
    BY <1>1, <1>2, <2>1, <2>3, <2>4, <2>5, <2>6, <2>7, AnsweredAlso
  <2> QED
    BY <2>1, <2>8
<1>5. ASSUME NEW j \in 1..l, q[j].kind = "tool" PROVE IsAnswer(q, j)
  <2> DEFINE o == j - d
  <2>1. o \in p..Len(s) /\ o \in DOMAIN s /\ o + d = j /\ o \in Int /\ d \in Int
    BY <1>1
  <2>2. q[j] = s[o]
    BY <1>3, <2>1
  <2>3. PICK i \in 1..o - 1 :
          Loop!Calls(s[i]) /\ s[o].ids \subseteq s[i].ids /\ \A k \in i + 1..o : s[k].kind = "tool"
    BY <1>5, <2>1, <2>2 DEF IsGrouped, IsAnswer
  <2>4. i >= p
    <3>1. ASSUME i < p PROVE FALSE
      <4>1. i \in 1..p - 1
        BY <1>1, <3>1
      <4>2. \A k \in i + 1..p : s[k].kind = "tool"
        <5>1. \A k \in i + 1..p : k \in i + 1..o
          BY <1>1, <2>1
        <5> QED
          BY <2>3, <5>1
      <4> QED
        BY <1>1, <2>3, <4>1, <4>2 DEF Loop!Calls
    <3> QED
      BY <1>1, <2>1, <3>1
  <2>5. i \in Int /\ i < o /\ 1 <= i + d
    BY <1>1, <2>1, <2>4
  <2>6. \A k \in i..o : q[k + d] = s[k]
    <3>1. \A k \in i..o : k \in p..Len(s)
      BY <1>1, <2>1, <2>4
    <3> HIDE DEF d, o
    <3> QED
      BY <1>3, <3>1
  <2> HIDE DEF o, d, l
  <2>7. IsAnswer(q, o + d)
    BY <2>1, <2>3, <2>5, <2>6, AnswerAlso
  <2> QED
    BY <2>1, <2>7
<1> QED
  BY <1>2, <1>4, <1>5 DEF IsGrouped, q

\* Groups after groups are groups.
LEMMA JoinedAreGrouped ==
  ASSUME NEW M, \A m \in M : Cardinality(m.ids) \in Nat, NEW a \in Seq(M), NEW b \in Seq(M), IsGrouped(a), IsGrouped(b)
  PROVE  a \o b \in Seq(M) /\ IsGrouped(a \o b)
<1> DEFINE t == a \o b
           la == Len(a)
           lb == Len(b)
<1>1. la \in Nat /\ lb \in Nat /\ t \in Seq(M) /\ Len(t) = la + lb /\ DOMAIN a = 1..la /\ DOMAIN b = 1..lb /\ DOMAIN t = 1..(la + lb)
  OBVIOUS
<1>2. (\A k \in 1..la : t[k] = a[k]) /\ (\A k \in 1..lb : t[k + la] = b[k])
  OBVIOUS
<1>3. (\A k \in 1..la : a[k] \in M) /\ (\A k \in 1..lb : b[k] \in M)
  OBVIOUS
<1> HIDE DEF t, la, lb
<1>4. ASSUME NEW i \in 1..(la + lb), Loop!Calls(t[i]) PROVE IsAnswered(t, i)
  <2>1. CASE i \in 1..la
    <3> DEFINE n == Cardinality(a[i].ids)
    <3>1. IsAnswered(a, i) /\ a[i] \in M
      BY <1>1, <1>2, <1>3, <1>4, <2>1 DEF IsGrouped
    <3>2. n \in Nat /\ i + n <= la
      BY <3>1 DEF IsAnswered, la
    <3>3. n = Cardinality(a[i].ids)
      OBVIOUS
    <3> HIDE DEF n
    <3>4. \A k \in 0..n : t[i + 0 + k] = a[i + k]
      BY <1>1, <1>2, <2>1, <3>2
    <3>5. i + 0 + n <= Len(t) /\ Len(t) \in Nat /\ 0 \in Int /\ i \in Int /\ i + 0 = i
      BY <1>1, <3>2
    <3>6. IsAnswered(t, i + 0)
      BY <3>1, <3>2, <3>3, <3>4, <3>5, AnsweredAlso
    <3> QED
      BY <3>5, <3>6
  <2>2. CASE i \in la + 1..la + lb
    <3> DEFINE o == i - la
    <3>0. o \in 1..lb /\ o + la = i /\ o \in Int /\ la \in Int
      BY <1>1, <2>2
    <3> HIDE DEF o
    <3> DEFINE n == Cardinality(b[o].ids)
    <3>1. IsAnswered(b, o) /\ b[o] \in M
      BY <1>1, <1>2, <1>3, <1>4, <3>0 DEF IsGrouped
    <3>2. n \in Nat /\ o + n <= lb
      BY <3>1 DEF IsAnswered, lb
    <3>3. n = Cardinality(b[o].ids)
      OBVIOUS
    <3> HIDE DEF n
    <3>4. \A k \in 0..n : t[o + la + k] = b[o + k]
      <4>1. \A k \in 0..n : o + k \in 1..lb /\ (o + k) + la = o + la + k
        BY <1>1, <3>0, <3>2
      <4> QED
        BY <1>2, <4>1
    <3>5. o + la + n <= Len(t) /\ Len(t) \in Nat
      BY <1>1, <3>0, <3>2
    <3>6. IsAnswered(t, o + la)
      BY <3>0, <3>1, <3>2, <3>3, <3>4, <3>5, AnsweredAlso
    <3> QED
      BY <3>0, <3>6
  <2>3. i \in 1..la \/ i \in la + 1..la + lb
    BY <1>1
  <2> QED
    BY <2>1, <2>2, <2>3
<1>5. ASSUME NEW j \in 1..(la + lb), t[j].kind = "tool" PROVE IsAnswer(t, j)
  <2>1. CASE j \in 1..la
    <3>1. PICK i \in 1..j - 1 :
            Loop!Calls(a[i]) /\ a[j].ids \subseteq a[i].ids /\ \A k \in i + 1..j : a[k].kind = "tool"
      BY <1>1, <1>2, <1>5, <2>1 DEF IsGrouped, IsAnswer
    <3>2. i \in Int /\ j \in Int /\ i < j /\ 1 <= i + 0 /\ 0 \in Int /\ j + 0 = j
      BY <1>1, <2>1
    <3>3. \A k \in i..j : t[k + 0] = a[k]
      BY <1>1, <1>2, <2>1
    <3>4. IsAnswer(t, j + 0)
      BY <3>1, <3>2, <3>3, AnswerAlso
    <3> QED
      BY <3>2, <3>4
  <2>2. CASE j \in la + 1..la + lb
    <3> DEFINE o == j - la
    <3>0. o \in 1..lb /\ o + la = j /\ o \in Int /\ la \in Int
      BY <1>1, <2>2
    <3> HIDE DEF o
    <3>1. PICK i \in 1..o - 1 :
            Loop!Calls(b[i]) /\ b[o].ids \subseteq b[i].ids /\ \A k \in i + 1..o : b[k].kind = "tool"
      BY <1>1, <1>2, <1>5, <3>0 DEF IsGrouped, IsAnswer
    <3>2. i \in Int /\ i < o /\ 1 <= i + la
      BY <1>1, <3>0
    <3>3. \A k \in i..o : t[k + la] = b[k]
      <4>1. \A k \in i..o : k \in 1..lb
        BY <1>1, <3>0
      <4> QED
        BY <1>2, <4>1
    <3>4. IsAnswer(t, o + la)
      BY <3>0, <3>1, <3>2, <3>3, AnswerAlso
    <3> QED
      BY <3>0, <3>4
  <2>3. j \in 1..la \/ j \in la + 1..la + lb
    BY <1>1
  <2> QED
    BY <2>1, <2>2, <2>3
<1> QED
  BY <1>1, <1>4, <1>5 DEF IsGrouped, t

\* A message that neither calls nor answers is a group.
LEMMA OneIsGrouped ==
  ASSUME NEW m, ~Loop!Calls(m), m.kind # "tool"
  PROVE  IsGrouped(<<m>>)
<1>1. DOMAIN <<m>> = {1} /\ <<m>>[1] = m
  OBVIOUS
<1> QED
  BY <1>1 DEF IsGrouped

\* There is nothing to answer in no messages.
LEMMA NothingIsGrouped == IsGrouped(<<>>)
BY DEF IsGrouped

\* Two messages that neither call nor answer are groups.
LEMMA TwoAreGrouped ==
  ASSUME NEW a, NEW b, ~Loop!Calls(a), ~Loop!Calls(b), a.kind # "tool", b.kind # "tool"
  PROVE  IsGrouped(<<a, b>>)
<1>1. DOMAIN <<a, b>> = {1, 2} /\ <<a, b>>[1] = a /\ <<a, b>>[2] = b
  OBVIOUS
<1> QED
  BY <1>1 DEF IsGrouped

\* A request and the answers to its calls are a group.
LEMMA BatchIsGrouped ==
  ASSUME ids \in Nat, Len(loopBatch) <= ids, loopBatch \in Seq(STRING)
  PROVE  LET ai == Loop!Msg("ai", (ids - Len(loopBatch) + 1)..ids)
         IN  /\ <<ai>> \o Loop!Answers \in Seq(LoopMessages(ids)) /\ IsGrouped(<<ai>> \o Loop!Answers)
             /\ ai \in LoopMessages(ids) /\ Loop!Answers \in Seq(LoopMessages(ids))
<1> DEFINE n == Len(loopBatch)
           first == ids - n
           ai == Loop!Msg("ai", (first + 1)..ids)
           a == Loop!Answers
           t == <<ai>> \o a
<1>1. n \in Nat /\ first \in Nat /\ first + n = ids /\ DOMAIN loopBatch = 1..n
  OBVIOUS
<1>2. ai.kind = "ai" /\ ai.ids = (first + 1)..ids /\ ai \in LoopMessages(ids)
  <2>1. (first + 1)..ids \in SUBSET (1..ids)
    BY <1>1
  <2> QED
    BY <2>1 DEF Loop!Msg, LoopMessages
<1>3. a = [i \in 1..n |-> [kind |-> "tool", ids |-> {first + i}]]
  BY <1>1 DEF Loop!Answers, Loop!Msg, Loop!Id
<1>4. a \in Seq(LoopMessages(ids)) /\ Len(a) = n
  <2>1. \A i \in 1..n : [kind |-> "tool", ids |-> {first + i}] \in LoopMessages(ids)
    <3>1. \A i \in 1..n : {first + i} \in SUBSET (1..ids)
      BY <1>1
    <3> QED
      BY <3>1 DEF LoopMessages
  <2> HIDE DEF a, n, first
  <2>2. a \in [1..n -> LoopMessages(ids)]
    BY <1>3, <2>1
  <2> QED
    BY <1>1, <2>2
<1>5. /\ t \in Seq(LoopMessages(ids)) /\ Len(t) = n + 1 /\ DOMAIN t = 1..n + 1
      /\ t[1] = ai /\ \A i \in 1..n : t[1 + i].kind = "tool" /\ t[1 + i].ids = {first + i}
  <2> HIDE DEF ai, a, n, first
  <2>1. <<ai>> \in Seq(LoopMessages(ids)) /\ Len(<<ai>>) = 1 /\ <<ai>>[1] = ai
    BY <1>2
  <2>2. t \in Seq(LoopMessages(ids)) /\ Len(t) = n + 1 /\ DOMAIN t = 1..n + 1 /\ t[1] = ai
    BY <1>1, <1>4, <2>1
  <2>3. \A i \in 1..n : t[1 + i] = a[i]
    BY <1>1, <1>4, <2>1
  <2>4. \A i \in 1..n : a[i].kind = "tool" /\ a[i].ids = {first + i}
    BY <1>3
  <2> QED
    BY <2>2, <2>3, <2>4
<1>6. Cardinality(ai.ids) = n
  <2>1. first + 1 \in Int /\ ids \in Int
    BY <1>1
  <2>2. Cardinality((first + 1)..ids) = IF first + 1 > ids THEN 0 ELSE ids - (first + 1) + 1
    BY <2>1, FS_Interval
  <2>3. Cardinality((first + 1)..ids) = n
    BY <1>1, <2>2
  <2> QED
    BY <1>2, <2>3
<1> HIDE DEF ai, a, t, n, first
<1>7. IsAnswered(t, 1)
  <2>1. {t[1 + k].ids : k \in 1..n} = {{first + k} : k \in 1..n}
    <3>1. \A k \in 1..n : t[1 + k].ids = {first + k}
      BY <1>5
    <3> QED
      BY <3>1
  <2>2. {{first + k} : k \in 1..n} = {{c} : c \in (first + 1)..ids}
    <3>1. \A k \in 1..n : first + k \in (first + 1)..ids
      BY <1>1
    <3>2. \A c \in (first + 1)..ids : c - first \in 1..n /\ first + (c - first) = c
      BY <1>1
    <3>3. \A c \in (first + 1)..ids : {c} = {first + (c - first)}
      BY <3>2
    <3>4. \A c \in (first + 1)..ids : {c} \in {{first + k} : k \in 1..n}
      BY <3>2, <3>3
    <3> QED
      BY <3>1, <3>4
  <2>3. \A k \in 1..n : t[1 + k].kind = "tool"
    BY <1>5
  <2>4. t[1].ids = (first + 1)..ids /\ Cardinality(t[1].ids) = n /\ 1 + n <= Len(t)
    BY <1>1, <1>2, <1>5, <1>6
  <2> QED
    BY <2>1, <2>2, <2>3, <2>4 DEF IsAnswered
<1>8. ASSUME NEW i \in 1..n PROVE t[1 + i].kind = "tool" /\ IsAnswer(t, 1 + i)
  <2>1. 1 \in 1..(1 + i) - 1 /\ n # 0
    BY <1>1
  <2>2. t[1 + i].ids \subseteq t[1].ids /\ t[1].ids # {}
    <3>1. first + i \in (first + 1)..ids
      BY <1>1
    <3> QED
      BY <1>2, <1>5, <3>1
  <2>3. Loop!Calls(t[1])
    BY <1>2, <1>5, <2>2 DEF Loop!Calls
  <2>4. \A k \in 1 + 1..1 + i : t[k].kind = "tool"
    <3>1. ASSUME NEW k \in 1 + 1..1 + i PROVE t[k].kind = "tool"
      <4>1. k - 1 \in 1..n /\ 1 + (k - 1) = k
        BY <1>1
      <4> HIDE DEF t
      <4> QED
        BY <1>5, <4>1
    <3> QED
      BY <3>1
  <2>5. t[1 + i].kind = "tool"
    BY <1>5
  <2> QED
    BY <2>1, <2>2, <2>3, <2>4, <2>5 DEF IsAnswer
<1>9. IsGrouped(t)
  <2>1. ASSUME NEW j \in 1..n + 1, j # 1 PROVE t[j].kind = "tool" /\ IsAnswer(t, j)
    <3>1. j - 1 \in 1..n /\ 1 + (j - 1) = j
      BY <1>1, <2>1
    <3>2. t[1 + (j - 1)].kind = "tool" /\ IsAnswer(t, 1 + (j - 1))
      BY <1>8, <3>1
    <3> QED
      BY <3>1, <3>2
  <2>2. t[1].kind = "ai"
    BY <1>2, <1>5
  <2> QED
    BY <1>5, <1>7, <2>1, <2>2 DEF IsGrouped, Loop!Calls
<1> QED
  BY <1>2, <1>4, <1>5, <1>9 DEF ai, a, t, n, first

\* What is retained begins with a group.
LEMMA RetainedIsGrouped ==
  ASSUME NEW M, \A m \in M : Cardinality(m.ids) \in Nat, NEW s \in Seq(M), IsGrouped(s), NEW max \in Int
  PROVE  Loop!Retained(s, max) \in Seq(M) /\ IsGrouped(Loop!Retained(s, max))
<1>1. CASE s = <<>>
  BY <1>1 DEF Loop!Retained
<1>2. CASE s # <<>>
  <2> DEFINE S == Loop!Starts(s)
             short == {i \in S : Len(s) - i < max}
             p == IF short # {} THEN Loop!Min(short) ELSE Loop!Max(S)
  <2>1. S \subseteq 1..Len(s) /\ 1 \in S /\ Len(s) \in Nat
    BY <1>2 DEF Loop!Starts
  <2>2. short # {} => Loop!Min(short) \in short
    <3>1. short \in SUBSET Nat
      <4>1. S \subseteq Nat
        BY <2>1
      <4> HIDE DEF S
      <4> QED
        BY <4>1
    <3> HIDE DEF short, S
    <3>2. ASSUME short # {} PROVE Loop!Min(short) \in short
      <4>1. \E x \in short : \A y \in short : x <= y
        BY <3>1, <3>2, LeastExists
      <4> QED
        BY <4>1 DEF Loop!Min
    <3> QED
      BY <3>2
  <2>3. Loop!Max(S) \in S
    <3>1. Loop!Max(S) = Stages!Max(S)
      BY DEF Loop!Max, Stages!Max
    <3>2. S \in SUBSET (1..Len(s)) /\ S # {}
      BY <2>1
    <3> HIDE DEF S
    <3> QED
      BY <2>1, <3>1, <3>2, GreatestIsIn
  <2>4. p \in Loop!Starts(s)
    BY <2>2, <2>3
  <2>5. Loop!Retained(s, max) = SubSeq(s, p, Len(s))
    BY <1>2 DEF Loop!Retained
  <2> HIDE DEF p
  <2> QED
    BY <2>4, <2>5, SuffixIsGrouped
<1> QED
  BY <1>1, <1>2

\* Compaction keeps the system message and groups.
LEMMA CompactedIsGrouped ==
  ASSUME NEW n \in Nat, NEW s \in Seq(LoopMessages(n)), IsGrouped(s), s # <<>>, s[1] = Loop!System
  PROVE  LET t == Loop!compactWorkerMessages(s)
         IN  t \in Seq(LoopMessages(n)) /\ IsGrouped(t) /\ t # <<>> /\ t[1] = Loop!System
<1>0. MaxActive \in Nat
  BY ToolsAssumption DEF ToolsAssumption, Loop!ToolLoopAssumption
<1>1. CASE Len(s) <= MaxActive
  BY <1>1 DEF Loop!compactWorkerMessages
<1>2. CASE ~(Len(s) <= MaxActive)
  <2> DEFINE memory == Loop!Msg("memory", {})
             r == Loop!Retained(Tail(s), MaxActive - 2)
             M == LoopMessages(n)
  <2>1. memory \in M /\ s[1] \in M /\ s[1].kind = "system" /\ memory.kind = "memory"
    BY DEF Loop!Msg, Loop!System, LoopMessages
  <2>2. \A m \in M : Cardinality(m.ids) \in Nat
    BY CallsAreCounted
  <2>3. ~Loop!Calls(s[1]) /\ ~Loop!Calls(memory)
    <3> HIDE DEF memory
    <3> QED
      BY <2>1 DEF Loop!Calls
  <2> HIDE DEF memory, M
  <2>4. <<s[1], memory>> \in Seq(M) /\ IsGrouped(<<s[1], memory>>)
    <3>1. IsGrouped(<<s[1], memory>>)
      BY <2>1, <2>3, TwoAreGrouped
    <3> QED
      BY <2>1, <3>1
  <2>5. Tail(s) \in Seq(M) /\ IsGrouped(Tail(s))
    <3>1. s \in Seq(M)
      BY DEF M
    <3>2. CASE Len(s) = 1
      <4>1. Tail(s) \in Seq(M) /\ Len(Tail(s)) = Len(s) - 1
        BY <3>1, HeadTailProperties
      <4>2. Len(Tail(s)) = 0
        BY <3>2, <4>1
      <4>3. Tail(s) = <<>>
        BY <4>1, <4>2, EmptySeq
      <4> QED
        BY <4>1, <4>3, NothingIsGrouped
    <3>3. CASE Len(s) # 1
      <4>1. 2 \in DOMAIN s
        <5>1. Len(s) \in Nat /\ DOMAIN s = 1..Len(s)
          BY <3>1
        <5>2. Len(s) # 0
          BY <3>1, EmptySeq
        <5> QED
          BY <5>1, <5>2, <3>3
      <4>2. ~\E j \in 1..2 - 1 : s[j].kind = "ai" /\ \A k \in j + 1..2 : s[k].kind = "tool"
        BY <2>1
      <4>3. 2 \in Loop!Starts(s)
        BY <4>1, <4>2 DEF Loop!Starts
      <4>4. SubSeq(s, 2, Len(s)) = Tail(s)
        BY <3>1
      <4> QED
        BY <2>2, <3>1, <4>3, <4>4, SuffixIsGrouped
    <3> QED
      BY <3>2, <3>3
  <2>6. r \in Seq(M) /\ IsGrouped(r)
    <3>1. MaxActive - 2 \in Int
      BY <1>0
    <3> QED
      BY <2>2, <2>5, <3>1, RetainedIsGrouped
  <2> HIDE DEF r
  <2>7. <<s[1], memory>> \o r \in Seq(M) /\ IsGrouped(<<s[1], memory>> \o r)
    BY <2>2, <2>4, <2>6, JoinedAreGrouped
  <2>8. <<s[1], memory>> \o r # <<>> /\ (<<s[1], memory>> \o r)[1] = s[1]
    BY <2>4, <2>6
  <2>9. Loop!compactWorkerMessages(s) = <<s[1], memory>> \o r
    BY <1>2 DEF Loop!compactWorkerMessages, memory, r
  <2> QED
    BY <2>7, <2>8, <2>9 DEF M
<1> QED
  BY <1>1, <1>2

\* And so does trimming.
LEMMA TrimmedIsGrouped ==
  ASSUME NEW n \in Nat, NEW s \in Seq(LoopMessages(n)), IsGrouped(s)
  PROVE  Loop!trimMessages(s) \in Seq(LoopMessages(n)) /\ IsGrouped(Loop!trimMessages(s))
<1>0. MaxWorkerContext \in Int
  BY ToolsAssumption DEF ToolsAssumption, Loop!ToolLoopAssumption
<1>1. \A m \in LoopMessages(n) : Cardinality(m.ids) \in Nat
  BY CallsAreCounted
<1>2. Loop!Retained(s, MaxWorkerContext) \in Seq(LoopMessages(n)) /\ IsGrouped(Loop!Retained(s, MaxWorkerContext))
  <2> DEFINE M == LoopMessages(n)
  <2> HIDE DEF M
  <2>1. s \in Seq(M) /\ \A m \in M : Cardinality(m.ids) \in Nat
    BY <1>1 DEF M
  <2>2. Loop!Retained(s, MaxWorkerContext) \in Seq(M) /\ IsGrouped(Loop!Retained(s, MaxWorkerContext))
    BY <1>0, <2>1, RetainedIsGrouped
  <2> QED
    BY <2>2 DEF M
<1> QED
  BY <1>2 DEF Loop!trimMessages

\* The bound of the steps, and what the model asks for.
LEMMA LoopBounds ==
    /\ MaxWorkerSteps \in Nat /\ \A b \in Batches : b \in Seq(STRING)
BY ToolsAssumption DEF ToolsAssumption, Loop!ToolLoopAssumption

\* The first messages.
LEMMA FirstMessages ==
  ASSUME NEW n \in Nat
  PROVE  /\ <<Loop!System>> \in Seq(LoopMessages(n)) /\ <<Loop!Human>> \in Seq(LoopMessages(n))
         /\ IsGrouped(<<Loop!System>>) /\ IsGrouped(<<Loop!Human>>)
         /\ <<Loop!System, Loop!Human>> \in Seq(LoopMessages(n)) /\ IsGrouped(<<Loop!System, Loop!Human>>)
         /\ <<Loop!System, Loop!Human>> # <<>> /\ <<Loop!System, Loop!Human>>[1] = Loop!System
<1> DEFINE M == LoopMessages(n)
           a == Loop!System
           b == Loop!Human
<1>1. a \in M /\ b \in M /\ a.kind = "system" /\ b.kind = "human"
  BY DEF Loop!System, Loop!Human, Loop!Msg, LoopMessages
<1>2. \A m \in M : Cardinality(m.ids) \in Nat
  BY CallsAreCounted
<1> HIDE DEF M, a, b
<1>3. ~Loop!Calls(a) /\ ~Loop!Calls(b)
  BY <1>1 DEF Loop!Calls
<1>4. IsGrouped(<<a>>) /\ IsGrouped(<<b>>)
  BY <1>1, <1>3, OneIsGrouped
<1>5. <<a>> \in Seq(M) /\ <<b>> \in Seq(M)
  BY <1>1
<1>6. IsGrouped(<<a, b>>)
  BY <1>1, <1>3, TwoAreGrouped
<1>7. <<a, b>> \in Seq(M) /\ IsGrouped(<<a, b>>)
  BY <1>1, <1>6
<1>8. <<a, b>> # <<>> /\ <<a, b>>[1] = a
  OBVIOUS
<1> QED
  BY <1>4, <1>5, <1>7, <1>8 DEF M, a, b

\* A task begins.
LEMMA BeginStep == ASSUME LoopInv, Loop!executeTask PROVE LoopInv'
<1> DEFINE M == LoopMessages(ids)
           s == <<Loop!System>> \o history \o <<Loop!Human>>
<1>1. /\ UNCHANGED <<history, reserved, interrupted, ids>>
      /\ loopPc \in {"idle", "failed"} /\ loopStep' = 0 /\ loopPc' = "model"
      /\ loopMessages' = Loop!compactWorkerMessages(s) /\ loopDelta' = <<Loop!Human>>
      /\ loopBatch' = <<>> /\ next' = 1 /\ loopRunning' = {} /\ results' = <<>>
  BY DEF Loop!executeTask, Loop!Begin
<1>2. ids \in Nat /\ history \in Seq(M) /\ IsGrouped(history) /\ interrupted \subseteq reserved
  BY DEF LoopInv, LoopTyped, MessagesAreGrouped, SlotsAreHeld
<1>3. \A m \in M : Cardinality(m.ids) \in Nat
  BY <1>2, CallsAreCounted
<1>4. /\ <<Loop!System>> \in Seq(M) /\ <<Loop!Human>> \in Seq(M)
      /\ IsGrouped(<<Loop!System>>) /\ IsGrouped(<<Loop!Human>>)
  BY <1>2, FirstMessages
<1>5. s \in Seq(M) /\ IsGrouped(s)
  <2> HIDE DEF M
  <2>1. <<Loop!System>> \o history \in Seq(M) /\ IsGrouped(<<Loop!System>> \o history)
    BY <1>2, <1>3, <1>4, JoinedAreGrouped
  <2> QED
    BY <1>3, <1>4, <2>1, JoinedAreGrouped
<1>6. s # <<>> /\ s[1] = Loop!System
  <2> HIDE DEF M
  <2> QED
    BY <1>2, <1>4
<1> HIDE DEF s
<1>7. loopMessages' \in Seq(M) /\ IsGrouped(loopMessages') /\ loopMessages' # <<>> /\ loopMessages'[1] = Loop!System
  BY <1>1, <1>2, <1>5, <1>6, CompactedIsGrouped
<1>8. loopDelta' \in Seq(M) /\ IsGrouped(loopDelta')
  BY <1>1, <1>4
<1>9. LoopTyped'
  <2>1. 0 \in 0..MaxWorkerSteps
    BY LoopBounds
  <2>2. loopBatch' \in Seq(STRING) /\ Len(loopBatch') = 0 /\ DOMAIN loopBatch' = {}
    BY <1>1
  <2>3. results' \in [{} -> {"none", "ok", "error"}]
    BY <1>1
  <2>4. next' \in 1..(Len(loopBatch') + 1) /\ Len(loopBatch') <= ids' /\ loopRunning' \subseteq DOMAIN loopBatch'
    BY <1>1, <1>2, <2>2
  <2> HIDE DEF M
  <2> QED
    BY <1>1, <1>2, <1>7, <1>8, <2>1, <2>2, <2>3, <2>4 DEF LoopTyped, M
<1>10. MessagesAreGrouped'
  BY <1>1, <1>2, <1>7, <1>8 DEF MessagesAreGrouped, Loop!System, Loop!Msg
<1>11. SlotsAreHeld' /\ Loop!MutationsRunAlone'
  BY <1>1, <1>2 DEF SlotsAreHeld, Loop!MutationsRunAlone
<1> QED
  BY <1>9, <1>10, <1>11 DEF LoopInv

\* The process dies, and another worker begins.
LEMMA RestartStep == ASSUME LoopInv, Loop!Restart PROVE LoopInv'
<1> DEFINE M == LoopMessages(ids)
<1>1. /\ UNCHANGED <<reserved, ids>> /\ history' = <<>>
      /\ loopPc \notin {"idle", "failed"} /\ loopStep' = 0 /\ loopPc' = "model"
      /\ loopMessages' = <<Loop!System, Loop!Human>> /\ loopDelta' = <<Loop!Human>>
      /\ loopBatch' = <<>> /\ next' = 1 /\ loopRunning' = {} /\ results' = <<>>
      /\ interrupted' = interrupted \cup {<<task, retry, loopStep, i>> : i \in loopRunning}
  BY DEF Loop!Restart
<1>2. ids \in Nat /\ interrupted \subseteq reserved
  BY DEF LoopInv, LoopTyped, SlotsAreHeld
<1>3. /\ loopMessages' \in Seq(M) /\ IsGrouped(loopMessages') /\ loopMessages' # <<>> /\ loopMessages'[1] = Loop!System
      /\ loopDelta' \in Seq(M) /\ IsGrouped(loopDelta')
  BY <1>1, <1>2, FirstMessages
<1>4. history' \in Seq(M) /\ IsGrouped(history')
  BY <1>1, NothingIsGrouped
<1>5. LoopTyped'
  <2>1. 0 \in 0..MaxWorkerSteps
    BY LoopBounds
  <2>2. loopBatch' \in Seq(STRING) /\ Len(loopBatch') = 0 /\ DOMAIN loopBatch' = {}
    BY <1>1
  <2>3. results' \in [{} -> {"none", "ok", "error"}]
    BY <1>1
  <2>4. next' \in 1..(Len(loopBatch') + 1) /\ Len(loopBatch') <= ids' /\ loopRunning' \subseteq DOMAIN loopBatch'
    BY <1>1, <1>2, <2>2
  <2> HIDE DEF M
  <2> QED
    BY <1>1, <1>2, <1>3, <1>4, <2>1, <2>2, <2>3, <2>4 DEF LoopTyped, M
<1>6. MessagesAreGrouped'
  BY <1>1, <1>3, <1>4 DEF MessagesAreGrouped, Loop!System, Loop!Msg
<1>7. interrupted' \subseteq reserved'
  <2>1. loopPc # "tools" => loopRunning = {}
    BY <1>1 DEF LoopInv, SlotsAreHeld
  <2>2. loopPc = "tools" => {<<task, retry, loopStep, i>> : i \in loopRunning} \subseteq reserved
    BY DEF LoopInv, LoopTyped, SlotsAreHeld, Loop!Slots, Loop!Slot
  <2> QED
    BY <1>1, <1>2, <2>1, <2>2
<1>8. SlotsAreHeld' /\ Loop!MutationsRunAlone'
  BY <1>1, <1>7 DEF SlotsAreHeld, Loop!MutationsRunAlone
<1> QED
  BY <1>5, <1>6, <1>8 DEF LoopInv

\* The model answers.
LEMMA RespondStep == ASSUME LoopInv, NEW b \in Batches, Loop!Respond(b) PROVE LoopInv'
<1> DEFINE m == Loop!Msg("ai", (ids + 1)..(ids + Len(b)))
           M == LoopMessages(ids)
           N == LoopMessages(ids + Len(b))
<1>1. /\ loopPc = "model" /\ ids' = ids + Len(b)
      /\ loopBatch' = b /\ next' = 1 /\ loopRunning' = {} /\ results' = [i \in DOMAIN b |-> "none"]
      /\ loopMessages' = Append(loopMessages, m) /\ loopDelta' = Append(loopDelta, m)
      /\ loopPc' = IF b = <<>> THEN "failed" ELSE IF loopStep = MaxWorkerSteps THEN "final" ELSE "reserve"
      /\ UNCHANGED <<loopStep, history, reserved, interrupted>>
  BY DEF Loop!Respond
<1>2. ids \in Nat /\ b \in Seq(STRING) /\ Len(b) \in Nat /\ loopStep \in 0..MaxWorkerSteps
  BY LoopBounds DEF LoopInv, LoopTyped
<1>3. /\ history \in Seq(M) /\ loopMessages \in Seq(M) /\ loopDelta \in Seq(M)
      /\ IsGrouped(history) /\ IsGrouped(loopMessages) /\ IsGrouped(loopDelta)
      /\ loopMessages # <<>> /\ loopMessages[1] = Loop!System /\ interrupted \subseteq reserved
  BY <1>1 DEF LoopInv, LoopTyped, MessagesAreGrouped, SlotsAreHeld
<1>4. history \in Seq(N) /\ loopMessages \in Seq(N) /\ loopDelta \in Seq(N)
  <2>1. ids + Len(b) \in Nat /\ ids <= ids + Len(b)
    BY <1>2
  <2> QED
    BY <1>2, <1>3, <2>1, MoreCalls
<1>5. m \in N
  <2>1. (ids + 1)..(ids + Len(b)) \in SUBSET (1..(ids + Len(b)))
    BY <1>2
  <2> QED
    BY <2>1 DEF Loop!Msg, LoopMessages
<1>6. m = Loop!Msg("ai", (ids' - Len(loopBatch') + 1)..ids')
  <2>1. ids' - Len(loopBatch') = ids
    BY <1>1, <1>2
  <2> QED
    BY <1>1, <2>1
<1>7. N = LoopMessages(ids')
  BY <1>1
<1> HIDE DEF m, N, M
<1>8. loopMessages' \in Seq(N) /\ loopDelta' \in Seq(N) /\ loopMessages' # <<>> /\ loopMessages'[1] = Loop!System
  <2>1. Append(loopMessages, m) \in Seq(N) /\ Append(loopDelta, m) \in Seq(N)
    BY <1>4, <1>5
  <2>2. Append(loopMessages, m) # <<>> /\ Append(loopMessages, m)[1] = loopMessages[1]
    BY <1>3, <1>4, <1>5
  <2> QED
    BY <1>1, <1>3, <2>1, <2>2
<1>9. LoopTyped'
  <2>1. results' \in [DOMAIN loopBatch' -> {"none", "ok", "error"}]
    BY <1>1
  <2>2. next' \in 1..(Len(loopBatch') + 1) /\ Len(loopBatch') <= ids' /\ ids' \in Nat
    BY <1>1, <1>2
  <2>3. loopPc' \in {"failed", "final", "reserve"}
    BY <1>1
  <2> QED
    BY <1>1, <1>2, <1>4, <1>7, <1>8, <2>1, <2>2, <2>3 DEF LoopTyped
<1>10. MessagesAreGrouped'
  <2>1. IsAsking(loopMessages)' /\ IsAsking(loopDelta)'
    BY <1>1, <1>3, <1>4, <1>6, <1>7 DEF IsAsking
  <2>2. loopPc' = "reserve" => loopStep' < MaxWorkerSteps
    BY <1>1, <1>2, LoopBounds
  <2>3. Loop!System' = Loop!System
    BY DEF Loop!System, Loop!Msg
  <2> QED
    BY <1>1, <1>3, <1>8, <2>1, <2>2, <2>3 DEF MessagesAreGrouped
<1>11. SlotsAreHeld' /\ Loop!MutationsRunAlone'
  BY <1>1, <1>3 DEF SlotsAreHeld, Loop!MutationsRunAlone
<1> QED
  BY <1>9, <1>10, <1>11 DEF LoopInv

\* The answers join the messages.
LEMMA AnswersJoin ==
  ASSUME LoopTyped, NEW s, IsAsking(s)
  PROVE  s \o Loop!Answers \in Seq(LoopMessages(ids)) /\ IsGrouped(s \o Loop!Answers)
<1> DEFINE M == LoopMessages(ids)
           ai == Loop!Msg("ai", (ids - Len(loopBatch) + 1)..ids)
           a == Loop!Answers
<1>1. <<ai>> \o a \in Seq(M) /\ IsGrouped(<<ai>> \o a) /\ ai \in M /\ a \in Seq(M)
  BY BatchIsGrouped DEF LoopTyped
<1>2. \A m \in M : Cardinality(m.ids) \in Nat
  BY CallsAreCounted DEF LoopTyped
<1>3. PICK base \in Seq(M) : IsGrouped(base) /\ s = Append(base, ai)
  BY DEF IsAsking
<1> HIDE DEF M, ai, a
<1>4. s \o a = base \o (<<ai>> \o a)
  BY <1>1, <1>3
<1>5. base \o (<<ai>> \o a) \in Seq(M) /\ IsGrouped(base \o (<<ai>> \o a))
  BY <1>1, <1>2, <1>3, JoinedAreGrouped
<1> QED
  BY <1>4, <1>5 DEF M, a

\* The calls are answered, and the task goes on or is done.
LEMMA RecordStep == ASSUME LoopInv, Loop!recordExecutions PROVE LoopInv'
<1> DEFINE done == \E i \in DOMAIN loopBatch : loopBatch[i] = "finish_task" /\ results[i] = "ok"
           d == loopDelta \o Loop!Answers
           s == loopMessages \o Loop!Answers
           M == LoopMessages(ids)
<1>1. /\ loopPc = "tools" /\ loopRunning = {} /\ reserved' = reserved \ Loop!Slots
      /\ loopDelta' = d
      /\ loopMessages' = IF done THEN s ELSE Loop!compactWorkerMessages(s)
      /\ history' = IF done THEN Loop!trimMessages(history \o loopDelta') ELSE history
      /\ loopPc' = IF done THEN "idle" ELSE "model"
      /\ loopStep' = IF done THEN loopStep ELSE loopStep + 1
      /\ UNCHANGED <<loopBatch, next, loopRunning, results, interrupted, ids>>
  BY DEF Loop!recordExecutions, Loop!callVars
<1>2. /\ LoopTyped /\ ids \in Nat /\ IsAsking(loopMessages) /\ IsAsking(loopDelta) /\ loopStep < MaxWorkerSteps
      /\ loopMessages \in Seq(M) /\ loopMessages # <<>> /\ loopMessages[1] = Loop!System
      /\ history \in Seq(M) /\ IsGrouped(history)
      /\ interrupted \subseteq reserved /\ Loop!Slots \cap interrupted = {}
  BY <1>1 DEF LoopInv, LoopTyped, MessagesAreGrouped, SlotsAreHeld
<1>3. s \in Seq(M) /\ IsGrouped(s) /\ d \in Seq(M) /\ IsGrouped(d)
  BY <1>2, AnswersJoin
<1>4. s # <<>> /\ s[1] = Loop!System
  <2>1. Loop!Answers \in Seq(M)
    BY <1>2, BatchIsGrouped DEF LoopTyped
  <2> HIDE DEF M
  <2> QED
    BY <1>2, <2>1
<1>5. history \o d \in Seq(M) /\ IsGrouped(history \o d)
  <2>1. \A m \in M : Cardinality(m.ids) \in Nat
    BY <1>2, CallsAreCounted
  <2> HIDE DEF M, d
  <2> QED
    BY <1>2, <1>3, <2>1, JoinedAreGrouped
<1> HIDE DEF s, d, done
<1>6. history' \in Seq(M) /\ IsGrouped(history')
  BY <1>1, <1>2, <1>5, TrimmedIsGrouped
<1>7. /\ loopMessages' \in Seq(M) /\ IsGrouped(loopMessages') /\ loopMessages' # <<>> /\ loopMessages'[1] = Loop!System
      /\ loopDelta' \in Seq(M) /\ IsGrouped(loopDelta')
  BY <1>1, <1>2, <1>3, <1>4, CompactedIsGrouped
<1>8. LoopTyped'
  <2>1. loopStep' \in 0..MaxWorkerSteps
    BY <1>1, <1>2, LoopBounds DEF LoopTyped
  <2>2. loopPc' \in {"idle", "model"}
    BY <1>1
  <2> HIDE DEF M
  <2> QED
    BY <1>1, <1>2, <1>6, <1>7, <2>1, <2>2 DEF LoopTyped, M
<1>9. MessagesAreGrouped'
  <2>1. loopPc' \in {"idle", "model"} /\ Loop!System' = Loop!System
    BY <1>1 DEF Loop!System, Loop!Msg
  <2> QED
    BY <1>6, <1>7, <2>1 DEF MessagesAreGrouped
<1>10. SlotsAreHeld' /\ Loop!MutationsRunAlone'
  <2>1. loopPc' \in {"idle", "model"} /\ interrupted' \subseteq reserved' /\ loopRunning' = {}
    BY <1>1, <1>2
  <2> QED
    BY <2>1 DEF SlotsAreHeld, Loop!MutationsRunAlone
<1> QED
  BY <1>8, <1>9, <1>10 DEF LoopInv

\* Nothing is said of the messages of a task that has failed.
LEMMA FailStep ==
  ASSUME LoopInv, loopPc' = "failed",
         UNCHANGED <<loopStep, history, loopBatch, ids, reserved, loopRunning, results>>,
         next' \in 1..(Len(loopBatch) + 1),
         loopMessages' \in Seq(LoopMessages(ids)), loopDelta' \in Seq(LoopMessages(ids)),
         interrupted' \subseteq reserved
  PROVE  LoopInv'
<1>1. LoopTyped'
  <2> USE DEF LoopInv, LoopTyped
  <2>1. history' \in Seq(LoopMessages(ids))' /\ loopMessages' \in Seq(LoopMessages(ids))' /\ loopDelta' \in Seq(LoopMessages(ids))'
    OBVIOUS
  <2>2. results' \in [DOMAIN loopBatch' -> {"none", "ok", "error"}]
    OBVIOUS
  <2> QED
    BY <2>1, <2>2
<1>2. MessagesAreGrouped'
  BY DEF LoopInv, MessagesAreGrouped
<1>3. SlotsAreHeld' /\ Loop!MutationsRunAlone'
  BY DEF LoopInv, SlotsAreHeld, Loop!MutationsRunAlone
<1> QED
  BY <1>1, <1>2, <1>3 DEF LoopInv

\* The calls are made one by one, or several at a time if none changes anything.
LEMMA CallStep ==
  ASSUME LoopInv, Loop!StartCall \/ \E i \in loopRunning, r \in {"ok", "error"} : Loop!EndCall(i, r)
  PROVE  LoopInv'
<1>1. /\ UNCHANGED <<loopPc, task, retry, loopStep, history, loopMessages, loopDelta, loopBatch, reserved, interrupted, ids>>
      /\ \/ /\ loopPc = "tools" /\ next <= Len(loopBatch) /\ loopRunning' = loopRunning \cup {next} /\ next' = next + 1
            /\ UNCHANGED results
         \/ \E i \in loopRunning, r \in {"ok", "error"} :
               loopRunning' = loopRunning \ {i} /\ results' = [results EXCEPT ![i] = r] /\ UNCHANGED next
  BY DEF Loop!StartCall, Loop!EndCall
<1>2. LoopTyped'
  <2> USE DEF LoopInv, LoopTyped
  <2>1. history' \in Seq(LoopMessages(ids))' /\ loopMessages' \in Seq(LoopMessages(ids))' /\ loopDelta' \in Seq(LoopMessages(ids))'
    BY <1>1
  <2>2. results' \in [DOMAIN loopBatch' -> {"none", "ok", "error"}]
    BY <1>1
  <2>3. next' \in 1..(Len(loopBatch') + 1) /\ loopRunning' \subseteq DOMAIN loopBatch'
    <3>1. next \in 1..(Len(loopBatch) + 1) /\ DOMAIN loopBatch = 1..Len(loopBatch) /\ Len(loopBatch) \in Nat
      OBVIOUS
    <3>2. loopRunning \subseteq 1..Len(loopBatch) /\ loopBatch' = loopBatch
      BY <1>1, <3>1
    <3> QED
      BY <1>1, <3>1, <3>2
  <2> QED
    BY <1>1, <2>1, <2>2, <2>3
<1>3. MessagesAreGrouped'
  BY <1>1 DEF LoopInv, MessagesAreGrouped, IsAsking
<1>4. SlotsAreHeld'
  <2>1. Loop!Slots' = Loop!Slots
    BY <1>1 DEF Loop!Slots, Loop!Slot
  <2>2. loopPc \notin {"tools", "failed"} => loopRunning' = {}
    BY <1>1 DEF LoopInv, SlotsAreHeld
  <2> QED
    BY <1>1, <2>1, <2>2 DEF LoopInv, SlotsAreHeld
<1>5. Loop!MutationsRunAlone'
  <2>1. CASE Loop!StartCall
    <3>1. /\ Cardinality(loopRunning) < IF Loop!canRunToolBatchConcurrently THEN MaxParallel ELSE 1
          /\ loopRunning' = loopRunning \cup {next} /\ next <= Len(loopBatch) /\ loopBatch' = loopBatch
      BY <2>1, LoopCardinality DEF Loop!StartCall
    <3>2. loopBatch \in Seq(STRING) /\ loopRunning \subseteq 1..Len(loopBatch) /\ next \in 1..Len(loopBatch)
      BY <3>1 DEF LoopInv, LoopTyped
    <3>3. CASE Loop!canRunToolBatchConcurrently
      <4>1. \A i \in 1..Len(loopBatch) : loopBatch[i] \in ReadOnly
        BY <3>2, <3>3 DEF Loop!canRunToolBatchConcurrently
      <4> QED
        BY <3>1, <3>2, <4>1 DEF Loop!MutationsRunAlone
    <3>4. CASE ~Loop!canRunToolBatchConcurrently
      <4>1. IsFiniteSet(loopRunning)
        <5>1. Len(loopBatch) \in Int /\ 1 \in Int
          BY <3>2
        <5>2. IsFiniteSet(1..Len(loopBatch))
          BY <5>1, FS_Interval
        <5> QED
          BY <3>2, <5>2, FS_Subset
      <4>2. Cardinality(loopRunning) = 0
        BY <3>1, <3>4, <4>1, FS_CardinalityType
      <4>3. loopRunning = {}
        BY <4>1, <4>2, FS_EmptySet
      <4> QED
        BY <3>1, <4>3 DEF Loop!MutationsRunAlone
    <3> QED
      BY <3>3, <3>4
  <2>2. CASE \E i \in loopRunning, r \in {"ok", "error"} : Loop!EndCall(i, r)
    <3>1. PICK i \in loopRunning : loopRunning' = loopRunning \ {i} /\ loopBatch' = loopBatch
      BY <2>2 DEF Loop!EndCall
    <3>2. \A k \in loopRunning : loopBatch[k] \notin ReadOnly => loopRunning = {k}
      BY DEF LoopInv, Loop!MutationsRunAlone
    <3> QED
      BY <3>1, <3>2 DEF Loop!MutationsRunAlone
  <2> QED
    BY <2>1, <2>2
<1> QED
  BY <1>2, <1>3, <1>4, <1>5 DEF LoopInv

\* The mission holds the slots of the calls before they are made.
LEMMA ReserveStep == ASSUME LoopInv, Loop!beforeToolExecution PROVE LoopInv'
<1>1. /\ loopPc = "reserve"
      /\ IF Loop!MayReserve THEN loopPc' = "tools" /\ reserved' = reserved \cup Loop!Slots ELSE loopPc' = "failed" /\ UNCHANGED reserved
      /\ UNCHANGED <<task, retry, loopStep, history, loopMessages, loopDelta, loopBatch, next, loopRunning, results, interrupted, ids>>
  BY DEF Loop!beforeToolExecution, Loop!callVars
<1>2. LoopTyped'
  <2> USE DEF LoopInv, LoopTyped
  <2>1. history' \in Seq(LoopMessages(ids))' /\ loopMessages' \in Seq(LoopMessages(ids))' /\ loopDelta' \in Seq(LoopMessages(ids))'
    BY <1>1
  <2>2. results' \in [DOMAIN loopBatch' -> {"none", "ok", "error"}]
    BY <1>1
  <2>3. loopPc' \in {"tools", "failed"}
    BY <1>1
  <2> QED
    BY <1>1, <2>1, <2>2, <2>3
<1>3. MessagesAreGrouped'
  BY <1>1 DEF LoopInv, MessagesAreGrouped, IsAsking
<1>4. SlotsAreHeld'
  <2>1. Loop!Slots' = Loop!Slots
    BY <1>1 DEF Loop!Slots, Loop!Slot
  <2>2. interrupted \subseteq reserved
    BY DEF LoopInv, SlotsAreHeld
  <2>3. Loop!MayReserve => Loop!Slots \cap interrupted = {}
    BY <2>2 DEF Loop!MayReserve
  <2>4. loopRunning' = {}
    BY <1>1 DEF LoopInv, SlotsAreHeld
  <2> QED
    BY <1>1, <2>1, <2>2, <2>3, <2>4 DEF SlotsAreHeld
<1>5. Loop!MutationsRunAlone'
  BY <1>1 DEF LoopInv, Loop!MutationsRunAlone
<1> QED
  BY <1>2, <1>3, <1>4, <1>5 DEF LoopInv

\* Each step of the loop keeps its invariant.
LEMMA LoopStep == LoopInv /\ [Loop!Next]_loopVars => LoopInv'
<1> SUFFICES ASSUME LoopInv, [Loop!Next]_loopVars PROVE LoopInv'
  OBVIOUS
<1>0. /\ loopMessages \in Seq(LoopMessages(ids)) /\ loopDelta \in Seq(LoopMessages(ids)) /\ interrupted \subseteq reserved
      /\ next \in 1..(Len(loopBatch) + 1) /\ ids \in Nat /\ loopBatch \in Seq(STRING) /\ Len(loopBatch) <= ids
  BY DEF LoopInv, LoopTyped, SlotsAreHeld
<1>1. CASE Loop!executeTask
  BY <1>1, BeginStep
<1>2. CASE Loop!Restart
  BY <1>2, RestartStep
<1>3. ASSUME NEW b \in Batches, Loop!Respond(b) PROVE LoopInv'
  BY <1>3, RespondStep
<1>4. CASE Loop!RespondFails \/ Loop!afterToolExecutionFails
  <2>1. /\ loopPc' = "failed"
        /\ UNCHANGED <<loopStep, history, loopMessages, loopDelta, loopBatch, next, loopRunning, results, reserved, interrupted, ids>>
    BY <1>4 DEF Loop!RespondFails, Loop!afterToolExecutionFails, Loop!callVars
  <2>2. /\ next' \in 1..(Len(loopBatch) + 1) /\ interrupted' \subseteq reserved
        /\ loopMessages' \in Seq(LoopMessages(ids)) /\ loopDelta' \in Seq(LoopMessages(ids))
    BY <1>0, <2>1
  <2>3. UNCHANGED <<loopStep, history, loopBatch, ids, reserved, loopRunning, results>>
    BY <2>1
  <2> QED
    BY <2>1, <2>2, <2>3, FailStep
<1>5. CASE Loop!finalizeAtToolBudget
  <2> DEFINE a == Append(Loop!Answers, Loop!Human)
             M == LoopMessages(ids)
  <2>1. /\ loopPc' = "failed" /\ loopMessages' = loopMessages \o a /\ loopDelta' = loopDelta \o a
        /\ UNCHANGED <<loopStep, history, loopBatch, next, loopRunning, results, reserved, interrupted, ids>>
    BY <1>5 DEF Loop!finalizeAtToolBudget, Loop!callVars
  <2>2. a \in Seq(M)
    <3>1. Loop!Answers \in Seq(M) /\ Loop!Human \in M
      BY <1>0, BatchIsGrouped DEF Loop!Human, Loop!Msg, LoopMessages
    <3> HIDE DEF M
    <3> QED
      BY <3>1
  <2>3. loopMessages' \in Seq(M) /\ loopDelta' \in Seq(M)
    <3>1. loopMessages \in Seq(M) /\ loopDelta \in Seq(M)
      BY <1>0
    <3> HIDE DEF M, a
    <3> QED
      BY <2>1, <2>2, <3>1
  <2>4. next' \in 1..(Len(loopBatch) + 1) /\ interrupted' \subseteq reserved
    BY <1>0, <2>1
  <2>5. UNCHANGED <<loopStep, history, loopBatch, ids, reserved, loopRunning, results>>
    BY <2>1
  <2> HIDE DEF a
  <2> QED
    BY <2>1, <2>3, <2>4, <2>5, FailStep
<1>6. CASE Loop!beforeToolExecution
  BY <1>6, ReserveStep
<1>7. CASE Loop!StartCall \/ \E i \in loopRunning, r \in {"ok", "error"} : Loop!EndCall(i, r)
  BY <1>7, CallStep
<1>8. CASE Loop!Abort
  <2>1. /\ loopPc = "tools" /\ loopPc' = "failed" /\ next' = Len(loopBatch) + 1
        /\ interrupted' = interrupted \cup {Loop!Slot(i) : i \in loopRunning}
        /\ UNCHANGED <<loopStep, history, loopMessages, loopDelta, loopBatch, loopRunning, results, reserved, ids>>
    BY <1>8 DEF Loop!Abort
  <2>2. interrupted' \subseteq reserved
    <3>1. Loop!Slots \subseteq reserved /\ loopRunning \subseteq DOMAIN loopBatch
      BY <2>1 DEF LoopInv, LoopTyped, SlotsAreHeld
    <3> QED
      BY <1>0, <2>1, <3>1 DEF Loop!Slots
  <2>3. next' \in 1..(Len(loopBatch) + 1)
    BY <1>0, <2>1
  <2>4. loopMessages' \in Seq(LoopMessages(ids)) /\ loopDelta' \in Seq(LoopMessages(ids))
    BY <1>0, <2>1
  <2>5. UNCHANGED <<loopStep, history, loopBatch, ids, reserved, loopRunning, results>>
    BY <2>1
  <2> QED
    BY <2>1, <2>2, <2>3, <2>4, <2>5, FailStep
<1>9. CASE Loop!recordExecutions
  BY <1>9, RecordStep
<1>10. CASE UNCHANGED loopVars
  <2>1. UNCHANGED <<loopPc, task, retry, loopStep, history, loopMessages, loopDelta, loopBatch, next, loopRunning, results,
                    reserved, interrupted, ids>>
    BY <1>10 DEF loopVars
  <2>2. LoopTyped'
    <3> USE DEF LoopInv, LoopTyped
    <3>1. results' \in [DOMAIN loopBatch' -> {"none", "ok", "error"}]
      BY <2>1
    <3> QED
      BY <2>1, <3>1
  <2>3. MessagesAreGrouped'
    BY <2>1 DEF LoopInv, MessagesAreGrouped, IsAsking
  <2>4. SlotsAreHeld' /\ Loop!MutationsRunAlone'
    <3>1. Loop!Slots' = Loop!Slots
      BY <2>1 DEF Loop!Slots, Loop!Slot
    <3> QED
      BY <2>1, <3>1 DEF LoopInv, SlotsAreHeld, Loop!MutationsRunAlone
  <2> QED
    BY <2>2, <2>3, <2>4 DEF LoopInv
<1> QED
  BY <1>1, <1>2, <1>3, <1>4, <1>5, <1>6, <1>7, <1>8, <1>9, <1>10 DEF Loop!Next

\* It begins with it.
LEMMA LoopBegins == Loop!Init => LoopInv
<1> SUFFICES ASSUME Loop!Init PROVE LoopInv
  OBVIOUS
<1>1. LoopTyped
  <2>1. 0 \in 0..MaxWorkerSteps
    BY LoopBounds
  <2>2. loopBatch \in Seq(STRING) /\ Len(loopBatch) = 0 /\ DOMAIN loopBatch = {}
    BY DEF Loop!Init
  <2>3. results \in [DOMAIN loopBatch -> {"none", "ok", "error"}]
    BY <2>2 DEF Loop!Init
  <2>4. next \in 1..(Len(loopBatch) + 1) /\ ids \in Nat /\ Len(loopBatch) <= ids /\ loopRunning \subseteq DOMAIN loopBatch
    BY <2>2 DEF Loop!Init
  <2>5. history \in Seq(LoopMessages(ids)) /\ loopMessages \in Seq(LoopMessages(ids)) /\ loopDelta \in Seq(LoopMessages(ids))
    BY DEF Loop!Init
  <2>6. loopStep = 0 /\ loopPc = "idle"
    BY DEF Loop!Init
  <2> QED
    BY <2>1, <2>2, <2>3, <2>4, <2>5, <2>6 DEF LoopTyped
<1>2. MessagesAreGrouped
  BY NothingIsGrouped DEF Loop!Init, MessagesAreGrouped
<1>3. SlotsAreHeld /\ Loop!MutationsRunAlone
  BY DEF Loop!Init, SlotsAreHeld, Loop!MutationsRunAlone
<1> QED
  BY <1>1, <1>2, <1>3 DEF LoopInv

\* A model is sent closed messages only, what changes something runs alone, and what was cut short is not made again in
\* its slot (langchain-tool-executor.ts, agent-worker.ts).
THEOREM LoopHolds == ToolsSpec => [](Loop!TypeOK /\ Loop!ToolLoopIsSound)
<1>1. LoopInv => Loop!TypeOK /\ Loop!ToolLoopIsSound
  <2> SUFFICES ASSUME LoopInv PROVE Loop!TypeOK /\ Loop!ToolLoopIsSound
    OBVIOUS
  <2>1. Loop!TypeOK
    <3> DEFINE s == history \o loopMessages \o loopDelta
               M == LoopMessages(ids)
    <3>1. s \in Seq(M)
      <4>1. history \in Seq(M) /\ loopMessages \in Seq(M) /\ loopDelta \in Seq(M)
        BY DEF LoopInv, LoopTyped
      <4> HIDE DEF M
      <4> QED
        BY <4>1
    <3>2. \A m \in Loop!Range(s) : m \in M
      <4> HIDE DEF M, s
      <4> QED
        BY <3>1 DEF Loop!Range
    <3>3. \A m \in Loop!Range(s) : m.kind \in {"system", "memory", "human", "ai", "tool"} /\ m.ids \subseteq 1..ids
      <4> HIDE DEF s
      <4> QED
        BY <3>2 DEF LoopMessages
    <3>4. results \in [DOMAIN loopBatch -> {"none", "ok", "error"}]
      BY DEF LoopInv, LoopTyped
    <3>5. /\ loopPc \in {"idle", "model", "reserve", "tools", "final", "failed"} /\ loopStep \in 0..MaxWorkerSteps
          /\ loopRunning \subseteq DOMAIN loopBatch /\ next \in 1..(Len(loopBatch) + 1)
      BY DEF LoopInv, LoopTyped
    <3> QED
      BY <3>3, <3>4, <3>5 DEF Loop!TypeOK
  <2>2. Loop!ContextIsClosed
    BY GroupedIsClosed DEF LoopInv, MessagesAreGrouped, Loop!ContextIsClosed
  <2>3. Loop!InterruptedIsNotReplayed
    BY DEF LoopInv, LoopTyped, SlotsAreHeld, Loop!InterruptedIsNotReplayed, Loop!Slots
  <2> QED
    BY <2>1, <2>2, <2>3 DEF LoopInv, Loop!ToolLoopIsSound
<1> QED
  BY <1>1, LoopPart, LoopBegins, LoopStep, PTL DEF ToolsSpec

-----------------------------------------------------------------------------
\* The callbacks that the session has taken from the Mirage (mirage-oast.ts).

\* A callback of the log of the Mirage: the sandbox it is of, and its place in the log.
Callbacks == Nat \X Nat

\* The inductive invariant of the logs.
LogsInv ==
    /\ mirageLog \in Seq(Callbacks) /\ \A i \in DOMAIN mirageLog : mirageLog[i][2] = i
    /\ callbackLog \in Seq(Callbacks) /\ Box!NoCallbackTwice

\* What the fold of syncLog is: a callback that is new joins the log.
Taken(log, c) == IF Box!IsNew(c) THEN Box!recordCallback(log, c) ELSE log
Synced(f, s) == IF s = {} THEN callbackLog ELSE Taken(f[s \ {Box!Max(s)}], mirageLog[Box!Max(s)])
IsSyncFold(f) == f = [s \in SUBSET DOMAIN mirageLog |-> Synced(f, s)]

\* The synchronized log, by the equation of its fold.
LEMMA SyncIsFold ==
  Box!check_oast_logs => callbackLog' = (CHOOSE f : IsSyncFold(f))[DOMAIN mirageLog]
BY DEF Box!check_oast_logs, Box!FoldLeft, Box!MapThenFoldSet, IsSyncFold, Synced, Taken

\* A log that has every callback once, from the session's log or the first k of the Mirage's.
IsLogOf(log, k) ==
    /\ log \in Seq(Callbacks) /\ Len(log) <= MaxCallbackEntries
    /\ \A i, j \in DOMAIN log : log[i] = log[j] => i = j
    /\ \A i \in DOMAIN log : log[i] \in Box!Range(callbackLog) \/ \E j \in 1..k : log[i] = mirageLog[j]

\* Recording keeps it.
LEMMA TakenIsLog ==
  ASSUME LogsInv, NEW k \in 1..Len(mirageLog), NEW log, IsLogOf(log, k - 1)
  PROVE  IsLogOf(Taken(log, mirageLog[k]), k)
<1> DEFINE c == mirageLog[k]
           rest == IF Len(log) >= MaxCallbackEntries THEN Tail(log) ELSE log
           new == Append(rest, c)
<1>0. MaxCallbackEntries \in Nat \ {0}
  BY ToolsAssumption DEF ToolsAssumption, Box!SandboxAssumption
<1>1. /\ log \in Seq(Callbacks) /\ Len(log) <= MaxCallbackEntries /\ c \in Callbacks /\ Len(mirageLog) \in Nat
      /\ \A i, j \in 1..Len(log) : log[i] = log[j] => i = j
      /\ \A i \in 1..Len(log) : log[i] \in Box!Range(callbackLog) \/ \E j \in 1..k - 1 : log[i] = mirageLog[j]
  <2>1. mirageLog \in Seq(Callbacks) /\ log \in Seq(Callbacks)
    BY DEF LogsInv, IsLogOf
  <2>2. c \in Callbacks /\ DOMAIN log = 1..Len(log) /\ Len(mirageLog) \in Nat
    <3> HIDE DEF Callbacks
    <3> QED
      BY <2>1
  <2> QED
    BY <2>1, <2>2 DEF IsLogOf
<1>2. \A j \in 1..k - 1 : mirageLog[j] # c
  <2>1. \A j \in 1..k - 1 : mirageLog[j][2] = j /\ j # k
    BY <1>1 DEF LogsInv
  <2>2. c[2] = k
    BY <1>1 DEF LogsInv
  <2> QED
    BY <2>1, <2>2
<1>3. 1..k - 1 \subseteq 1..k /\ k \in 1..k
  BY <1>1
<1>4. CASE ~Box!IsNew(c)
  <2>1. Taken(log, c) = log
    BY <1>4 DEF Taken
  <2>2. \A i \in DOMAIN log : log[i] \in Box!Range(callbackLog) \/ \E j \in 1..k : log[i] = mirageLog[j]
    BY <1>3 DEF IsLogOf
  <2> QED
    BY <2>1, <2>2 DEF IsLogOf
<1>5. CASE Box!IsNew(c)
  <2>1. Taken(log, c) = new
    BY <1>5 DEF Taken, Box!recordCallback
  <2>2. \A i \in 1..Len(log) : log[i] # c
    BY <1>1, <1>2, <1>5 DEF Box!IsNew
  <2> HIDE DEF Callbacks, c
  <2>3. PICK d \in {0, 1} :
          /\ rest \in Seq(Callbacks) /\ Len(rest) = Len(log) - d /\ Len(rest) < MaxCallbackEntries
          /\ Len(rest) \in Nat /\ \A i \in 1..Len(rest) : i + d \in 1..Len(log) /\ rest[i] = log[i + d]
    <3>1. CASE Len(log) >= MaxCallbackEntries
      <4>1. log # <<>> /\ rest = Tail(log)
        BY <1>0, <1>1, <3>1
      <4>2. /\ rest \in Seq(Callbacks) /\ Len(rest) = Len(log) - 1 /\ Len(rest) < MaxCallbackEntries
            /\ Len(rest) \in Nat /\ \A i \in 1..Len(rest) : i + 1 \in 1..Len(log) /\ rest[i] = log[i + 1]
        <5> HIDE DEF rest
        <5> QED
          BY <1>0, <1>1, <4>1
      <4> QED
        BY <4>2
    <3>2. CASE ~(Len(log) >= MaxCallbackEntries)
      <4>1. rest = log
        BY <3>2
      <4>2. /\ rest \in Seq(Callbacks) /\ Len(rest) = Len(log) - 0 /\ Len(rest) < MaxCallbackEntries
            /\ Len(rest) \in Nat /\ \A i \in 1..Len(rest) : i + 0 \in 1..Len(log) /\ rest[i] = log[i + 0]
        <5> HIDE DEF rest
        <5> QED
          BY <1>0, <1>1, <3>2, <4>1
      <4> QED
        BY <4>2
    <3> QED
      BY <3>1, <3>2
  <2> HIDE DEF rest
  <2>4. /\ new \in Seq(Callbacks) /\ Len(new) = Len(rest) + 1 /\ DOMAIN new = 1..Len(rest) + 1 /\ new[Len(rest) + 1] = c
        /\ \A i \in 1..Len(rest) : new[i] = rest[i]
    BY <1>1, <2>3
  <2> HIDE DEF new
  <2>5. Len(new) <= MaxCallbackEntries
    BY <1>0, <2>3, <2>4
  <2>6. ASSUME NEW i \in 1..Len(rest) + 1, NEW j \in 1..Len(rest) + 1, new[i] = new[j] PROVE i = j
    <3>1. \A l \in 1..Len(rest) : new[l] # c
      BY <2>2, <2>3, <2>4
    <3>2. CASE i \in 1..Len(rest) /\ j \in 1..Len(rest)
      <4>1. log[i + d] = log[j + d] /\ i + d \in 1..Len(log) /\ j + d \in 1..Len(log)
        BY <2>3, <2>4, <2>6, <3>2
      <4>2. i + d = j + d
        BY <1>1, <4>1
      <4> QED
        BY <4>2
    <3>3. CASE ~(i \in 1..Len(rest) /\ j \in 1..Len(rest))
      <4>1. Len(rest) \in Nat
        BY <2>3
      <4>2. i \in 1..Len(rest) \/ i = Len(rest) + 1
        BY <4>1
      <4>3. j \in 1..Len(rest) \/ j = Len(rest) + 1
        BY <4>1
      <4>4. new[Len(rest) + 1] = c
        BY <2>4
      <4> QED
        BY <2>6, <3>1, <3>3, <4>2, <4>3, <4>4
    <3> QED
      BY <3>2, <3>3
  <2>7. ASSUME NEW i \in 1..Len(rest) + 1 PROVE new[i] \in Box!Range(callbackLog) \/ \E j \in 1..k : new[i] = mirageLog[j]
    <3>1. CASE i \in 1..Len(rest)
      <4>1. new[i] = log[i + d] /\ i + d \in 1..Len(log)
        BY <2>3, <2>4, <3>1
      <4> QED
        BY <1>1, <1>3, <4>1
    <3>2. CASE i = Len(rest) + 1
      BY <1>3, <2>4, <3>2 DEF c
    <3>3. i \in 1..Len(rest) \/ i = Len(rest) + 1
      BY <2>3
    <3> QED
      BY <3>1, <3>2, <3>3
  <2> QED
    BY <2>1, <2>4, <2>5, <2>6, <2>7 DEF IsLogOf, c
<1> QED
  BY <1>4, <1>5

\* So does synchronizing.
LEMMA SyncKeeps == ASSUME LogsInv, Box!check_oast_logs PROVE callbackLog' \in Seq(Callbacks) /\ Box!NoCallbackTwice'
<1> DEFINE n == Len(mirageLog)
           X == Seq(Callbacks)
           G == [p \in X \X (1..n) |-> Taken(p[1], mirageLog[p[2]])]
<1>0. MaxCallbackEntries \in Nat \ {0}
  BY ToolsAssumption DEF ToolsAssumption, Box!SandboxAssumption
<1>1. /\ n \in Nat /\ DOMAIN mirageLog = 1..n /\ callbackLog \in X /\ Len(callbackLog) \in Nat
      /\ \A i \in 1..n : mirageLog[i] \in Callbacks
  <2> HIDE DEF Callbacks
  <2> QED
    BY DEF LogsInv
<1>2. \A S : Box!Max(S) = Stages!Max(S)
  BY DEF Box!Max, Stages!Max
<1>3. ASSUME NEW log \in X, NEW c \in Callbacks PROVE Taken(log, c) \in X
  <2> HIDE DEF Callbacks
  <2>1. Len(log) >= MaxCallbackEntries => log # <<>>
    BY <1>0, <1>3
  <2>2. Box!recordCallback(log, c) \in X
    BY <1>3, <2>1 DEF Box!recordCallback
  <2> QED
    BY <1>3, <2>2 DEF Taken
<1> HIDE DEF X
<1>4. G \in [X \X (1..n) -> X]
  BY <1>1, <1>3
<1> HIDE DEF n
<1>5. PICK f \in [SUBSET (1..n) -> X] : FoldsUp(f, n, callbackLog, G)
  <2> HIDE DEF G
  <2> QED
    BY <1>1, <1>4, FoldExists
<1>6. ASSUME NEW s \in SUBSET (1..n), s # {}
      PROVE  Box!Max(s) \in 1..n /\ s \ {Box!Max(s)} \in SUBSET (1..n)
  BY <1>1, <1>2, <1>6, GreatestIsIn
<1>7. ASSUME NEW s \in SUBSET (1..n) PROVE f[s] = Synced(f, s)
  <2>1. CASE s = {}
    BY <1>5, <2>1 DEF FoldsUp, Synced
  <2>2. CASE s # {}
    <3>1. f[s] = G[<<f[s \ {Box!Max(s)}], Box!Max(s)>>]
      <4> HIDE DEF G
      <4> QED
        BY <1>2, <1>5, <2>2 DEF FoldsUp
    <3>2. f[s \ {Box!Max(s)}] \in X
      BY <1>5, <1>6, <2>2
    <3>3. f[s] = Taken(f[s \ {Box!Max(s)}], mirageLog[Box!Max(s)])
      BY <1>6, <2>2, <3>1, <3>2
    <3> QED
      BY <2>2, <3>3 DEF Synced
  <2> QED
    BY <2>1, <2>2
<1>8. IsSyncFold(f)
  <2> HIDE DEF G
  <2> QED
    BY <1>1, <1>5, <1>7 DEF IsSyncFold
<1>9. PICK h : IsSyncFold(h) /\ callbackLog' = h[DOMAIN mirageLog]
  BY <1>8, SyncIsFold
<1> DEFINE T == {k \in 0..n : IsLogOf(h[1..k], k)}
<1>10. 0 \in T
  <2>1. h[{}] = callbackLog /\ 1..0 = {} /\ 0 \in 0..n
    BY <1>1, <1>9 DEF IsSyncFold, Synced
  <2>2. \A i \in DOMAIN callbackLog : callbackLog[i] \in Box!Range(callbackLog)
    BY DEF Box!Range
  <2>3. IsLogOf(callbackLog, 0)
    BY <2>2 DEF IsLogOf, LogsInv, Box!NoCallbackTwice
  <2> QED
    BY <2>1, <2>3
<1>11. ASSUME NEW k \in 1..n, k - 1 \in T PROVE k \in T
  <2>1. k \in Nat \ {0} /\ k \in 0..n /\ 1..k \in SUBSET DOMAIN mirageLog
    BY <1>1
  <2>2. Box!Max(1..k) = k /\ (1..k) \ {k} = 1..(k - 1) /\ 1..k # {}
    BY <1>2, <2>1, UpTo
  <2>3. h[1..k] = Synced(h, 1..k)
    BY <1>9, <2>1 DEF IsSyncFold
  <2>4. h[1..k] = Taken(h[1..(k - 1)], mirageLog[k])
    BY <2>2, <2>3 DEF Synced
  <2>5. IsLogOf(h[1..(k - 1)], k - 1)
    BY <1>11
  <2>6. k \in 1..Len(mirageLog)
    BY DEF n
  <2>7. IsLogOf(h[1..k], k)
    BY <2>4, <2>5, <2>6, TakenIsLog
  <2> QED
    BY <2>1, <2>7
<1>12. n \in T
  <2> HIDE DEF T
  <2> QED
    BY <1>1, <1>10, <1>11, CountsUp
<1>13. IsLogOf(callbackLog', n)
  BY <1>1, <1>9, <1>12
<1> QED
  BY <1>13 DEF IsLogOf, Box!NoCallbackTwice

\* Each step of the sandbox keeps it.
LEMMA LogsStep == BoxInv /\ LogsInv /\ [Box!Next]_boxVars => LogsInv'
<1> SUFFICES ASSUME BoxInv, LogsInv, [Box!Next]_boxVars PROVE LogsInv'
  OBVIOUS
<1>1. CASE Box!check_oast_logs
  <2>1. callbackLog' \in Seq(Callbacks) /\ Box!NoCallbackTwice' /\ UNCHANGED mirageLog
    BY <1>1, SyncKeeps DEF Box!check_oast_logs
  <2> QED
    BY <2>1 DEF LogsInv
<1>2. CASE Box!Callback
  <2>1. mirageLog' = Append(mirageLog, <<creates, Len(mirageLog) + 1>>) /\ UNCHANGED callbackLog
    BY <1>2 DEF Box!Callback, Box!sessionVars
  <2>2. creates \in Nat
    <3>1. MaxCreates \in Nat
      BY ToolsAssumption DEF ToolsAssumption, Box!SandboxAssumption
    <3> QED
      BY <3>1 DEF BoxInv, BoxTyped
  <2>3. mirageLog \in Seq(Callbacks) /\ <<creates, Len(mirageLog) + 1>> \in Callbacks
    BY <2>2 DEF LogsInv, Callbacks
  <2>4. /\ mirageLog' \in Seq(Callbacks) /\ DOMAIN mirageLog' = 1..Len(mirageLog) + 1 /\ Len(mirageLog) \in Nat
        /\ mirageLog'[Len(mirageLog) + 1] = <<creates, Len(mirageLog) + 1>>
        /\ \A i \in 1..Len(mirageLog) : mirageLog'[i] = mirageLog[i]
    <3> HIDE DEF Callbacks
    <3> QED
      BY <2>1, <2>3
  <2>5. \A i \in 1..Len(mirageLog) : mirageLog[i][2] = i
    BY <2>3 DEF LogsInv
  <2>6. \A i \in 1..Len(mirageLog) + 1 : i \in 1..Len(mirageLog) \/ i = Len(mirageLog) + 1
    BY <2>4
  <2>7. \A i \in DOMAIN mirageLog' : mirageLog'[i][2] = i
    BY <2>4, <2>5, <2>6
  <2> QED
    BY <2>1, <2>4, <2>7 DEF LogsInv, Box!NoCallbackTwice
<1>3. ASSUME mirageLog' \in {mirageLog, <<>>}, callbackLog' \in {callbackLog, <<>>} PROVE LogsInv'
  <2>1. 0 <= MaxCallbackEntries
    BY ToolsAssumption DEF ToolsAssumption, Box!SandboxAssumption
  <2>0. /\ <<>> \in Seq(Callbacks) /\ Len(<<>>) = 0 /\ DOMAIN <<>> = {}
        /\ mirageLog \in Seq(Callbacks) /\ callbackLog \in Seq(Callbacks)
    BY DEF LogsInv
  <2>2. mirageLog' \in Seq(Callbacks) /\ \A i \in DOMAIN mirageLog' : mirageLog'[i][2] = i
    <3>1. mirageLog' = mirageLog \/ mirageLog' = <<>>
      BY <1>3
    <3>2. CASE mirageLog' = mirageLog
      BY <3>2 DEF LogsInv
    <3>3. CASE mirageLog' = <<>>
      BY <2>0, <3>3
    <3> QED
      BY <3>1, <3>2, <3>3
  <2>3. callbackLog' \in Seq(Callbacks) /\ Box!NoCallbackTwice'
    <3>1. callbackLog' = callbackLog \/ callbackLog' = <<>>
      BY <1>3
    <3>2. CASE callbackLog' = callbackLog
      BY <3>2 DEF LogsInv, Box!NoCallbackTwice
    <3>3. CASE callbackLog' = <<>>
      BY <2>0, <2>1, <3>3 DEF Box!NoCallbackTwice
    <3> QED
      BY <3>1, <3>2, <3>3
  <2> QED
    BY <2>2, <2>3 DEF LogsInv
<1> USE <1>3
<1>4. CASE Box!sandbox_deploy \/ Box!SourcesCopied \/ Box!NetworkCreated
  BY <1>4 DEF Box!sandbox_deploy, Box!SourcesCopied, Box!NetworkCreated
<1>5. CASE Box!MirageStarted
  BY <1>5 DEF Box!MirageStarted
<1>6. CASE Box!TargetCreated \/ Box!TargetStarted \/ Box!TargetInspected
  BY <1>6 DEF Box!TargetCreated, Box!TargetStarted, Box!TargetInspected
<1>7. CASE Box!RemoveTarget \/ Box!RemoveNetwork \/ Box!RemoveWorkspace
  BY <1>7 DEF Box!RemoveTarget, Box!RemoveNetwork, Box!RemoveWorkspace
<1>8. CASE Box!RemoveMirage
  BY <1>8 DEF Box!RemoveMirage
<1>9. CASE Box!cleanup \/ Box!Crash \/ Box!Resume
  BY <1>9 DEF Box!cleanup, Box!Crash, Box!Resume, Box!NewSession
<1>10. CASE UNCHANGED boxVars
  BY <1>10 DEF boxVars
<1> QED
  BY <1>1, <1>2, <1>4, <1>5, <1>6, <1>7, <1>8, <1>9, <1>10 DEF Box!Next

\* It begins with it.
LEMMA LogsBegin == Box!Init => LogsInv
<1> SUFFICES ASSUME Box!Init PROVE LogsInv
  OBVIOUS
<1>1. mirageLog = <<>> /\ callbackLog = <<>>
  BY DEF Box!Init
<1>2. 0 <= MaxCallbackEntries
  BY ToolsAssumption DEF ToolsAssumption, Box!SandboxAssumption
<1> QED
  BY <1>1, <1>2 DEF LogsInv, Box!NoCallbackTwice

\* The session has every callback once, and not more of them than it may hold (mirage-oast.ts).
THEOREM CallbacksHold == ToolsSpec => []Box!NoCallbackTwice
<1>1. LogsInv => Box!NoCallbackTwice
  BY DEF LogsInv
<1> QED
  BY <1>1, BoxPart, BoxBegins, BoxStep, LogsBegin, LogsStep, PTL DEF ToolsSpec

-----------------------------------------------------------------------------
\* What the behaviours of AuditTools promise.

\* Every variable of each tool has its type, of whatever part a behaviour is.
THEOREM ToolsAreTyped == ToolsSpec => []ToolsTypeOK
<1>1. /\ Box!TypeOK /\ Mcp!TypeOK /\ Command!TypeOK /\ Remedy!TypeOK /\ Watch!TypeOK /\ Hook!TypeOK /\ Wizard!TypeOK
      /\ Stages!TypeOK /\ Loop!TypeOK
      => ToolsTypeOK
  BY DEF ToolsTypeOK
<1> QED
  BY <1>1, BoxHolds, McpHolds, CommandHolds, PatchesHold, WatchHolds, HookHolds, WizardHolds, StagesHold, LoopHolds, PTL

\* The sandbox isolates what runs in it and removes it, a tool of a server is called in a session that is initialized
\* and with the approval it needs, and a command that is done has its whole output (sandbox-manager.ts,
\* mcp-http-invoker.ts, mcp-policy.ts, execute-command.ts).
THEOREM ToolsHold == ToolsSpec => []ToolsAreSound
<1>1. Box!SandboxIsSound /\ Mcp!McpIsSound /\ Command!CommandIsSound => ToolsAreSound
  BY DEF ToolsAreSound
<1> QED
  BY <1>1, BoxHolds, McpHolds, CommandHolds, PTL

\* A patch is applied as it was approved, after tests that passed and to files that hold what they had held when its
\* validation began; and in the watch a change waits for its audit, unless it came during one of the same file or
\* without a session, and every finding is accounted for (remediation-loop.ts, incremental-watch.ts).
THEOREM EditsHold == ToolsSpec => []EditsAreSound
<1>1. Remedy!PatchesAreValidated /\ Watch!WatchKeepsUp => EditsAreSound
  BY DEF EditsAreSound
<1> QED
  BY <1>1, PatchesHold, WatchHolds, PTL

\* No session outlives its component; none is opened on a directory that the user has not approved, or with a
\* configuration that cannot be worked with; and the wizard ends with the key the user gave, or with that of the
\* environment while the keychain holds it (useAgentSession.ts, SetupScreen.tsx, config.ts, App.tsx).
THEOREM InterfaceHolds == ToolsSpec => []InterfaceIsSound
<1>1. Hook!SessionsDoNotLeak /\ Wizard!OnboardingIsSound => InterfaceIsSound
  BY DEF InterfaceIsSound
<1> QED
  BY <1>1, HookHolds, WizardHolds, PTL

\* An audit publishes what its stages confirmed, from a history in which every result has its request, and it ends
\* (graph/workflow.ts).
THEOREM FindingsHold == ToolsSpec => []FindingsAreEarned
<1>1. Stages!PublishedIsConfirmed /\ Stages!ResultsHaveRequests /\ Stages!StagesEnd => FindingsAreEarned
  BY DEF FindingsAreEarned
<1> QED
  BY <1>1, StagesHold, PTL

\* A worker sends its model requests with all of their results and results with their request, runs what changes
\* something alone and does not make again in its slot a call that was cut short; and a session has every callback of
\* its sandbox once (langchain-tool-executor.ts, agent-worker.ts, mirage-oast.ts).
THEOREM TrafficHolds == ToolsSpec => []TrafficIsWhole
<1>1. Loop!ToolLoopIsSound /\ Box!NoCallbackTwice => TrafficIsWhole
  BY DEF TrafficIsWhole
<1> QED
  BY <1>1, LoopHolds, CallbacksHold, PTL
=============================================================================
