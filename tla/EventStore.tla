----------------------------- MODULE EventStore -----------------------------
(***************************************************************************)
(* The event log (src/src/core/memory/event-store.ts): appends that wait   *)
(* for their turn in writeQueue, a file of lines whose last line may be    *)
(* torn, and its repair when the store is opened.                          *)
(*                                                                         *)
(* An event is the number of its append call. A line that is glued to a    *)
(* torn one does not parse, and a read skips it.                           *)
(***************************************************************************)
EXTENDS Naturals, Sequences

CONSTANTS
    MaxEvents,      \* bounds the appends
    MaxFailures,    \* bounds the appends that fail and the deaths of the process
    TornFailures    \* whether an append that fails may leave part of its line

EventAssumption ==
    MaxEvents \in Nat /\ MaxFailures \in Nat /\ TornFailures \in BOOLEAN

VARIABLES
    lines,      \* the complete lines of events.jsonl: an event, or 0 for one that does not parse
    torn,       \* whether an unterminated line follows them
    writeQueue, \* the appends that have not been written
    called, failures,
    logAcked,   \* the events whose append returned ok
    logOpen     \* whether a process has the store open

vars == <<lines, torn, writeQueue, called, failures, logAcked, logOpen>>

TypeOK ==
    /\ lines \in Seq(0..MaxEvents)
    /\ writeQueue \in Seq(1..MaxEvents)
    /\ torn \in BOOLEAN /\ logOpen \in BOOLEAN
    /\ called \in 0..MaxEvents /\ failures \in 0..MaxFailures
    /\ logAcked \subseteq 1..called

Init ==
    /\ lines = <<>> /\ torn = FALSE
    /\ writeQueue = <<>>
    /\ called = 0 /\ failures = 0
    /\ logAcked = {}
    /\ logOpen = TRUE

\* What read returns without a filter, by its place in the file: the lines that parse.
read == {i \in DOMAIN lines : lines[i] # 0}

\* The call of append, up to its place in the queue.
append ==
    /\ logOpen /\ called < MaxEvents
    /\ called' = called + 1
    /\ writeQueue' = Append(writeQueue, called')
    /\ UNCHANGED <<lines, torn, failures, logAcked, logOpen>>

Written(e) == lines' = Append(lines, IF torn THEN 0 ELSE e) /\ torn' = FALSE

\* fs.appendFile of the next line of the queue.
AppendFile ==
    /\ writeQueue # <<>>
    /\ Written(Head(writeQueue))
    /\ logAcked' = logAcked \cup {Head(writeQueue)}
    /\ writeQueue' = Tail(writeQueue)
    /\ UNCHANGED <<called, failures, logOpen>>

\* The append fails, and the queue goes on with the next one.
AppendFileFails ==
    /\ writeQueue # <<>> /\ failures < MaxFailures
    /\ failures' = failures + 1
    /\ torn' \in {torn} \cup (IF TornFailures THEN {TRUE} ELSE {})
    /\ writeQueue' = Tail(writeQueue)
    /\ UNCHANGED <<lines, called, logAcked, logOpen>>

\* The process dies: the append under way is written, torn, or not begun.
Crash ==
    /\ logOpen /\ failures < MaxFailures
    /\ failures' = failures + 1
    /\ \/ UNCHANGED <<lines, torn>>
       \/ writeQueue # <<>> /\ torn' = TRUE /\ UNCHANGED lines
       \/ writeQueue # <<>> /\ Written(Head(writeQueue))
    /\ writeQueue' = <<>>
    /\ logOpen' = FALSE
    /\ UNCHANGED <<called, logAcked>>

\* Faulty variant: the file is opened without repairInterruptedTail.
createUnrepaired ==
    /\ ~logOpen
    /\ logOpen' = TRUE
    /\ UNCHANGED <<lines, torn, writeQueue, called, failures, logAcked>>

\* create in the next process, with repairInterruptedTail.
create ==
    /\ ~logOpen
    /\ logOpen' = TRUE
    /\ torn' = FALSE
    /\ UNCHANGED <<lines, writeQueue, called, failures, logAcked>>

Next == append \/ AppendFile \/ AppendFileFails \/ Crash \/ create

Spec == Init /\ [][Next]_vars

-----------------------------------------------------------------------------
\* Every event whose append was acknowledged is read back, and events are read once, in
\* the order of their calls, through failed appends and restarts.
AcknowledgedEventsAreRead ==
    /\ logAcked \subseteq {lines[i] : i \in read}
    /\ \A i, j \in read : i < j => lines[i] < lines[j]
=============================================================================
