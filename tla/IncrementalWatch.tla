-------------------------- MODULE IncrementalWatch --------------------------
(***************************************************************************)
(* The watch mode (incremental-watch.ts, useIncrementalWatch.ts): changed  *)
(* files are collected, and once none has changed for a while they are     *)
(* audited by the session the user also talks to; what the audit found is  *)
(* compared with the findings that were known.                             *)
(***************************************************************************)
EXTENDS Naturals, FiniteSets

CONSTANTS
    Files,          \* of the target, in their order
    Findings,       \* that an audit may find
    LocationsOf,    \* the files a finding is located in
    maxBatchSize,
    MaxChanges, MaxAudits   \* bounds: changes of files, audits

WatchAssumption ==
    /\ Files \subseteq Nat /\ IsFiniteSet(Files)
    /\ LocationsOf \in [Findings -> SUBSET Files]
    /\ maxBatchSize \in Nat \ {0} /\ MaxChanges \in Nat /\ MaxAudits \in Nat

VARIABLES
    changedPaths,
    debounce,       \* debounceTimer is set
    running, batch, \* the flush under way and its files
    stopped,
    session,        \* there is one: the shell also opens when it could not be initialized
    streaming,      \* the session works, for the user or the watch
    dialog,         \* a question to the user is open
    baseline, previous,   \* findingsBaseline, previousFindings
    latest,         \* lastRunFindings of the session
    delta,          \* the security delta the user was shown last
    failed,         \* files whose last audit has failed, or for which there was no session
    unseen, lost,   \* files that changed since their last audit began, and those of them no flush will take up
    changes, audits \* counters of the bounds

watchVars == <<changedPaths, debounce, running, batch, stopped, session, streaming, dialog, baseline,
    previous, latest, delta, failed, unseen, lost, changes, audits>>

NoDelta == [introduced |-> {}, resolved |-> {}, unchanged |-> {}]

TypeOK ==
    /\ changedPaths \subseteq Files /\ batch \subseteq Files /\ failed \cup unseen \cup lost \subseteq Files
    /\ debounce \in BOOLEAN /\ running \in BOOLEAN /\ stopped \in BOOLEAN /\ session \in BOOLEAN
    /\ streaming \in {"no", "user", "watch"} /\ dialog \in BOOLEAN
    /\ baseline \cup previous \cup latest \subseteq Findings
    /\ delta \in [{"introduced", "resolved", "unchanged"} -> SUBSET Findings]
    /\ Cardinality(batch) <= maxBatchSize
    /\ streaming = "watch" => running

Init ==
    /\ changedPaths = {} /\ debounce = FALSE /\ running = FALSE /\ batch = {} /\ stopped = FALSE
    /\ session \in BOOLEAN /\ streaming = "no" /\ dialog = FALSE
    /\ latest \in SUBSET Findings /\ (~session => latest = {}) /\ baseline = latest /\ previous = {} /\ delta = NoDelta
    /\ failed = {} /\ unseen = {} /\ lost = {} /\ changes = 0 /\ audits = 0

canProcess == streaming = "no" /\ ~dialog

-----------------------------------------------------------------------------
\* enqueue: chokidar reports a file that was added, changed or removed.  If the file is being
\* audited, the end of that audit forgets this change with the ones it was started for.
enqueue(f) ==
    /\ ~stopped /\ changes < MaxChanges
    /\ changedPaths' = changedPaths \cup {f} /\ debounce' = TRUE /\ changes' = changes + 1
    /\ unseen' = unseen \cup {f} /\ lost' = IF running /\ f \in batch THEN lost \cup {f} ELSE lost \ {f}
    /\ UNCHANGED <<running, batch, stopped, session, streaming, dialog, baseline, previous, latest, delta, failed, audits>>

\* Faulty variant: a batch has one file too many.
FirstOfOneMore(files) == {f \in files : Cardinality({g \in files : g < f}) <= maxBatchSize}

\* The first files in their order, as many as a batch may have.
FirstOf(files) == {f \in files : Cardinality({g \in files : g < f}) < maxBatchSize}

\* onBatch of the hook: a baseline none of which is left is taken for that of an earlier session.
AuditsBatch(files) ==
    /\ session /\ streaming' = "watch" /\ UNCHANGED failed
    /\ unseen' = unseen \ files /\ lost' = lost \ files
    /\ LET known == IF baseline # {} /\ baseline \cap latest = {} THEN latest ELSE baseline
       IN  baseline' = known /\ previous' = known

\* Without a session it returns at once, which the flush takes for an audit that is done.
SkipsBatch(files) ==
    /\ ~session /\ failed' = failed \cup files /\ lost' = lost \cup files
    /\ UNCHANGED <<unseen, streaming, baseline, previous>>

StartBatch(files) ==
    /\ audits < MaxAudits /\ audits' = audits + 1
    /\ running' = TRUE /\ batch' = FirstOf(files)
    /\ AuditsBatch(batch') \/ SkipsBatch(batch')

NoBatch == UNCHANGED <<streaming, batch, baseline, previous, failed, unseen, lost, audits>>

\* scheduleFlush, unless the service has been stopped.
scheduleFlush == debounce' = ~stopped /\ NoBatch

\* The timer starts a flush, or is set again while the session is busy.
TimerFires ==
    /\ debounce
    /\ CASE running \/ changedPaths = {} -> debounce' = FALSE /\ NoBatch /\ UNCHANGED running
         [] ~running /\ changedPaths # {} /\ ~canProcess -> scheduleFlush /\ UNCHANGED running
         [] ~running /\ changedPaths # {} /\ canProcess -> debounce' = FALSE /\ StartBatch(changedPaths)
    /\ UNCHANGED <<changedPaths, stopped, session, dialog, latest, delta, changes>>

calculateSecurityDelta(before, current, audited) ==
    LET outOfScope == {f \in before \ current : LocationsOf[f] = {} \/ ~(LocationsOf[f] \subseteq audited)}
    IN  [introduced |-> current \ before,
         resolved   |-> before \ (current \cup outOfScope),
         unchanged  |-> (current \cap before) \cup outOfScope]

updateWatchBaseline(d) == d.unchanged \cup d.introduced

\* The audit of the batch is done, or stops at a question to the user.
AuditEnds(found, asks) ==
    /\ running /\ streaming = "watch"
    /\ latest' = found /\ streaming' = "no" /\ dialog' = asks
    /\ delta' = calculateSecurityDelta(previous, found, batch) /\ baseline' = updateWatchBaseline(delta')
    /\ failed' = failed \ batch
    /\ UNCHANGED <<changedPaths, debounce, running, batch, stopped, session, previous, unseen, lost, changes, audits>>

\* The audit fails: the hook tells the user, and the service nothing.  The session forgets its
\* findings when it starts an audit, but not when it continues one.
AuditFails ==
    /\ running /\ streaming = "watch"
    /\ latest' \in {{}, latest} /\ streaming' = "no" /\ failed' = failed \cup batch
    /\ UNCHANGED <<changedPaths, debounce, running, batch, stopped, session, dialog, baseline, previous, delta, unseen, lost,
                   changes, audits>>

\* The files that are left are audited next, or the timer is set for them.
AuditRest ==
    IF stopped \/ changedPaths' = {}
    THEN NoBatch /\ UNCHANGED debounce /\ running' = FALSE
    ELSE IF canProcess THEN StartBatch(changedPaths') /\ UNCHANGED debounce
    ELSE scheduleFlush /\ running' = FALSE

\* The end of the flush: the files of the batch are done with.
FlushEnds ==
    /\ running /\ streaming # "watch"
    /\ changedPaths' = changedPaths \ batch
    /\ AuditRest
    /\ UNCHANGED <<stopped, session, dialog, latest, delta, changes>>

close ==
    /\ ~stopped /\ stopped' = TRUE /\ changedPaths' = {} /\ debounce' = FALSE
    /\ UNCHANGED <<running, batch, session, streaming, dialog, baseline, previous, latest, delta, failed, unseen, lost,
                   changes, audits>>

\* An initialization that was begun earlier ends after another has failed.
SessionComes ==
    /\ ~session /\ session' = TRUE
    /\ UNCHANGED <<changedPaths, debounce, running, batch, stopped, streaming, dialog, baseline, previous, latest, delta,
                   failed, unseen, lost, changes, audits>>

\* The user sends a message, or answers; the session may ask again, and finds what it finds.
UserSends ==
    /\ session /\ streaming = "no" /\ audits < MaxAudits /\ audits' = audits + 1
    /\ streaming' = "user" /\ dialog' = FALSE
    /\ UNCHANGED <<changedPaths, debounce, running, batch, stopped, session, baseline, previous, latest, delta, failed,
                   unseen, lost, changes>>

UserIsAnswered(found, asks) ==
    /\ streaming = "user" /\ streaming' = "no" /\ dialog' = asks /\ latest' = found
    /\ UNCHANGED <<changedPaths, debounce, running, batch, stopped, session, baseline, previous, delta, failed, unseen, lost,
                   changes, audits>>

Next ==
    \/ \E f \in Files : enqueue(f)
    \/ TimerFires \/ AuditFails \/ FlushEnds \/ close \/ SessionComes \/ UserSends
    \/ \E found \in SUBSET Findings, asks \in BOOLEAN : AuditEnds(found, asks) \/ UserIsAnswered(found, asks)

Spec == Init /\ [][Next]_watchVars

-----------------------------------------------------------------------------
\* A change that came after the last audit of its file began waits to be audited, with a timer
\* that will fire or a flush that will take it up when it ends; but for one that came while that
\* audit was under way, and for one whose flush had no session.
ChangesArePending ==
    /\ ~stopped => unseen \ lost \subseteq changedPaths
    /\ changedPaths # {} => debounce \/ running

\* Nothing is done any more once the watch has been closed, but for the audit under way.
ClosedIsQuiet == stopped => ~debounce /\ changedPaths = {}

\* Every finding that was known or is found now is in exactly one part of the delta, and only
\* an audit of every file it is in resolves a finding: the baseline forgets nothing else.
DeltaAddsUp ==
    /\ \A p, q \in DOMAIN delta : p # q => delta[p] \cap delta[q] = {}
    /\ \A f \in delta.resolved : LocationsOf[f] # {}
    /\ running /\ streaming = "no" /\ failed \cap batch = {} =>
        /\ previous \ baseline = delta.resolved /\ baseline \ previous = delta.introduced
        /\ \A f \in previous \ baseline : LocationsOf[f] \subseteq batch

WatchKeepsUp == ChangesArePending /\ ClosedIsQuiet /\ DeltaAddsUp

\* Not so, the hook reports a failed audit to the user and not to the service:
\* incremental-watch.ts, in flush: "On failure the paths stay pending so a later flush retries
\* them instead of silently dropping changed files and leaving a stale baseline."
FailuresAreRetried == ~running /\ ~stopped => failed \subseteq changedPaths

\* Not so, a file that changes while it is audited is taken off the list when that audit ends.
NoChangeIsForgotten == ~stopped => unseen \subseteq changedPaths
=============================================================================
