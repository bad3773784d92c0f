------------------------------- MODULE McpTools -------------------------------
(***************************************************************************)
(* The tools of an MCP server: the tier a tool has by the policy           *)
(* (mcp-policy.ts, from what is left of the configuration file), whether   *)
(* it is asked for (manager.ts), and the client that calls it over HTTP    *)
(* behind one initialization shared by the callers (mcp-http-invoker.ts).  *)
(* The server may restart, and then forgets its sessions; a request may    *)
(* fail, be deferred, or be aborted by its caller or its timer.            *)
(***************************************************************************)
EXTENDS Naturals, FiniteSets

CONSTANTS
    Callers, Tools,
    Configurations,         \* of the user: records of tool and server tiers and the three flags
    DefaultTier,            \* of each tool, by its own or its server's entry in the tables
    Asking,                 \* tools whose definition requires confirmation
    MaxPolls,               \* the hops of a deferred answer (10)
    MaxCalls, MaxRestarts   \* bounds

Unset == "unset"
Tiers == {"safe", "sensitive", "dangerous", "blocked"}

McpAssumption ==
    /\ Callers # {} /\ Tools # {}
    /\ DefaultTier \in [Tools -> Tiers] /\ Asking \subseteq Tools
    /\ \A c \in Configurations : c.toolTiers \in [Tools -> Tiers \cup {Unset}] /\ c.serverTier \in Tiers \cup {Unset}
    /\ MaxPolls \in Nat /\ MaxCalls \in Nat /\ MaxRestarts \in Nat

VARIABLES
    configured, expertUnsafe,     \* the configuration of the session
    pc, tool, polls, approved,    \* of each caller
    aborted,                      \* the signals of the callers' controllers
    initialization,               \* of the promise: "none", "request", "notification" or "done"
    initializer,                  \* whose signal it has
    sessionId,                    \* 0 for none
    server, ready,                \* the session the server would give, those it was told are initialized
    answer,                       \* what each caller last got: "none", "result", "denied" or "error"
    calls, restarts

mcpVars == <<configured, expertUnsafe, pc, tool, polls, approved, aborted, initialization, initializer, sessionId,
             server, ready, answer, calls, restarts>>

Init ==
    /\ configured \in Configurations /\ expertUnsafe \in BOOLEAN
    /\ pc = [c \in Callers |-> "idle"] /\ tool = [c \in Callers |-> CHOOSE t \in Tools : TRUE] /\ polls = [c \in Callers |-> 0]
    /\ approved = [c \in Callers |-> FALSE] /\ aborted = [c \in Callers |-> FALSE]
    /\ initialization = "none" /\ initializer = (CHOOSE c \in Callers : TRUE) /\ sessionId = 0 /\ server = 1 /\ ready = {}
    /\ answer = [c \in Callers |-> "none"] /\ calls = 0 /\ restarts = 0

TypeOK ==
    /\ pc \in [Callers -> {"idle", "dialog", "invoking", "waiting", "calling", "polling"}]
    /\ polls \in [Callers -> 0..MaxPolls] /\ sessionId \in 0..(MaxRestarts + 1) /\ ready \subseteq 1..(MaxRestarts + 1)
    /\ initialization \in {"none", "request", "notification", "done"} /\ initializer \in Callers
    /\ answer \in [Callers -> {"none", "result", "denied", "error"}] /\ calls \in 0..MaxCalls

-----------------------------------------------------------------------------
\* The schema of the configuration file knows none of these keys, so that none is left.
Stripped == [toolTiers |-> [t \in Tools |-> Unset], serverTier |-> Unset,
             allowDangerousActions |-> FALSE, requireDangerousConfirmation |-> TRUE, requireSensitiveConfirmation |-> TRUE]
policy == Stripped

\* evaluateMCPPolicy: the tier of a tool, for that of the tool itself comes before that of its server.
tier(p, t) == IF p.toolTiers[t] # Unset THEN p.toolTiers[t]
              ELSE IF p.serverTier # Unset THEN p.serverTier ELSE DefaultTier[t]

allowed(p, t) ==
    /\ tier(p, t) # "blocked"
    /\ tier(p, t) = "dangerous" => p.allowDangerousActions \/ expertUnsafe

requiresConfirmation(p, t) ==
    /\ ~expertUnsafe
    /\ \/ tier(p, t) = "sensitive" /\ p.requireSensitiveConfirmation
       \/ tier(p, t) = "dangerous" /\ p.requireDangerousConfirmation

\* Also a sensitive tool whose confirmation is skipped gets a warning.
warning(p, t) == tier(p, t) = "dangerous" \/ (tier(p, t) = "sensitive" /\ ~requiresConfirmation(p, t))

\* evaluateMcpPolicy: in expert unsafe mode what is denied is allowed, with confirmation and a warning.
evaluateMcpPolicy(p, t) ==
    [allowed |-> allowed(p, t) \/ expertUnsafe,
     requiresConfirmation |-> IF allowed(p, t) THEN requiresConfirmation(p, t) ELSE expertUnsafe,
     warning |-> IF allowed(p, t) THEN warning(p, t) ELSE expertUnsafe]

\* wrapTool: what is asked of the user.
Asks(t, d) == t \in Asking \/ d.requiresConfirmation \/ d.warning

client == <<initialization, initializer, sessionId>>
network == <<server, ready, restarts>>

Execute(c, t) ==
    /\ pc[c] = "idle" /\ calls < MaxCalls /\ calls' = calls + 1
    /\ tool' = [tool EXCEPT ![c] = t]
    /\ approved' = [approved EXCEPT ![c] = FALSE] /\ aborted' = [aborted EXCEPT ![c] = FALSE] /\ polls' = [polls EXCEPT ![c] = 0]
    /\ LET d == evaluateMcpPolicy(policy, t)
       IN  /\ pc' = [pc EXCEPT ![c] = IF ~d.allowed THEN "idle" ELSE IF Asks(t, d) THEN "dialog" ELSE "invoking"]
           /\ answer' = [answer EXCEPT ![c] = IF d.allowed THEN "none" ELSE "denied"]
    /\ UNCHANGED <<configured, expertUnsafe, client, network>>

\* confirmMcpToolExecution.
Confirm(c) ==
    /\ pc[c] = "dialog"
    /\ \/ /\ pc' = [pc EXCEPT ![c] = "invoking"] /\ approved' = [approved EXCEPT ![c] = TRUE] /\ UNCHANGED answer
       \/ /\ pc' = [pc EXCEPT ![c] = "idle"] /\ answer' = [answer EXCEPT ![c] = "denied"] /\ UNCHANGED approved
    /\ UNCHANGED <<configured, expertUnsafe, tool, polls, aborted, client, network, calls>>

Ends(cs, a) ==
    /\ pc' = [c \in Callers |-> IF c \in cs THEN "idle" ELSE pc[c]]
    /\ answer' = [c \in Callers |-> IF c \in cs THEN a ELSE answer[c]]

\* The invoker: the caller is aborted already, or it starts the initialization or awaits the one there is.
Invoke(c) ==
    /\ pc[c] = "invoking"
    /\ \/ aborted[c] /\ Ends({c}, "error") /\ UNCHANGED client
       \/ /\ ~aborted[c] /\ UNCHANGED <<answer, sessionId>>
          /\ IF initialization = "none" THEN initialization' = "request" /\ initializer' = c
             ELSE UNCHANGED <<initialization, initializer>>
          /\ pc' = [pc EXCEPT ![c] = IF initialization = "done" THEN "calling" ELSE "waiting"]
    /\ UNCHANGED <<configured, expertUnsafe, tool, polls, approved, aborted, network, calls>>

\* The caller's own signal, or its timer of 30 seconds.
Abort(c) ==
    /\ pc[c] # "idle" /\ ~aborted[c] /\ aborted' = [aborted EXCEPT ![c] = TRUE]
    /\ UNCHANGED <<configured, expertUnsafe, pc, tool, polls, approved, client, network, answer, calls>>

Waiting == {c \in Callers : pc[c] = "waiting"}

\* A request of the session that is sent (0 for none) reaches a server that knows it.
Reaches(session) == session \in {0, server}

\* initialize: two requests; the server names its session in answer to the first.
Initialize ==
    /\ initialization \in {"request", "notification"} /\ ~aborted[initializer] /\ Reaches(sessionId)
    /\ IF initialization = "request"
       THEN /\ initialization' = "notification" /\ sessionId' = server /\ UNCHANGED <<pc, ready>>
       ELSE /\ initialization' = "done" /\ UNCHANGED sessionId
            /\ ready' = ready \cup {sessionId} /\ pc' = [c \in Callers |-> IF c \in Waiting THEN "calling" ELSE pc[c]]
    /\ UNCHANGED <<configured, expertUnsafe, tool, polls, approved, aborted, initializer, server, restarts, answer, calls>>

\* Faulty variant: the session of a failed initialization stays.
KeptSession == sessionId

\* The session a failed initialization leaves.
SessionAfterFailure == 0
InitializeFails ==
    /\ initialization \in {"request", "notification"} /\ initialization' = "none" /\ sessionId' = SessionAfterFailure
    /\ Ends(Waiting, "error")
    /\ UNCHANGED <<configured, expertUnsafe, tool, polls, approved, aborted, initializer, network, calls>>

\* rpc and followLocation: the answer comes, or is deferred to another request, so many times.
Call(c) ==
    /\ pc[c] \in {"calling", "polling"}
    /\ \/ /\ ~aborted[c] /\ Reaches(sessionId) /\ Ends({c}, "result") /\ UNCHANGED polls
       \/ /\ ~aborted[c] /\ Reaches(sessionId) /\ polls[c] < MaxPolls
          /\ pc' = [pc EXCEPT ![c] = "polling"] /\ polls' = [polls EXCEPT ![c] = @ + 1] /\ UNCHANGED answer
       \/ /\ Ends({c}, "error") /\ UNCHANGED polls
    /\ UNCHANGED <<configured, expertUnsafe, tool, approved, aborted, client, network, calls>>

Restart ==
    /\ restarts < MaxRestarts /\ restarts' = restarts + 1 /\ server' = server + 1
    /\ UNCHANGED <<configured, expertUnsafe, pc, tool, polls, approved, aborted, client, ready, answer, calls>>

Next ==
    \/ Initialize \/ InitializeFails \/ Restart
    \/ \E c \in Callers : Confirm(c) \/ Invoke(c) \/ Abort(c) \/ Call(c) \/ \E t \in Tools : Execute(c, t)

Spec == Init /\ [][Next]_mcpVars

-----------------------------------------------------------------------------
\* A call is under way only in a session that the server was told is initialized, and an initialization
\* begins without the session of an earlier one; a caller waits only for one that is under way.
SessionsAreInitialized ==
    /\ \A c \in Callers : pc[c] \in {"calling", "polling"} => initialization = "done" /\ sessionId \in ready
    /\ initialization = "request" => sessionId = 0
    /\ Waiting # {} => initialization \in {"request", "notification"}

\* A dangerous tool is called only after the user approved this call of it, and a blocked one only so in
\* expert unsafe mode.
DangerousIsApproved == \A c \in Callers : pc[c] \in {"waiting", "calling", "polling"} =>
    /\ tier(policy, tool[c]) \in {"dangerous", "blocked"} => approved[c]
    /\ tier(policy, tool[c]) = "blocked" => expertUnsafe

McpIsSound == SessionsAreInitialized /\ DangerousIsApproved

\* Said of the policy, and not so: the tiers that the user configured reach the evaluation.
ConfiguredTiersApply == \A c \in Callers :
    answer[c] = "result" /\ ~expertUnsafe => tier(configured, tool[c]) # "blocked"

\* Not so: an abort of one caller fails those that wait for the initialization it started.
OthersAreUnaffected == \A c \in Callers : answer[c] = "error" => aborted[c]

\* Not so: a server that restarted is never initialized again.
SessionIsRenewed == initialization = "done" => sessionId = server
=============================================================================
