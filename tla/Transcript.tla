------------------------------ MODULE Transcript ------------------------------
(***************************************************************************)
(* The transcripts of a run (run-artifacts.ts): files of lines that grow   *)
(* by one record at a time.  An append first cuts an unfinished line off   *)
(* the end, then rotates a file that is full through three others, and     *)
(* then writes; nothing orders the appends of an operation, an export and  *)
(* the workers of a swarm.  The process may die between any two calls of   *)
(* the file system, or amid the writing of a line, and a rename be refused. *)
(***************************************************************************)
EXTENDS Naturals, Sequences, SequencesExt

CONSTANTS
    Appenders,
    MaxLines,                           \* of a file, for its size limit
    MaxRecords, MaxOverlapped,          \* bounds: records, those of them whose appends may overlap another,
    MaxCrashes, MaxRefusals             \* crashes and refused renames

TranscriptAssumption ==
    MaxLines \in Nat \ {0} /\ MaxRecords \in Nat /\ MaxOverlapped \in Nat /\ MaxCrashes \in Nat /\ MaxRefusals \in Nat

VARIABLES
    file,             \* the lines of each file, 0 the current one; absent ones are not in its domain
    pc, record,       \* of each append
    handle, seen,     \* the file it has open (which a rename moves), and where its unfinished line begins
    acknowledged,     \* the records appended, in order
    dropped,          \* those that a rotation removed with the oldest file
    disturbed,        \* which of "overlap" (of appends), "refusal" (of a rename) and "crash" there has been
    records, crashes, refusals

transcriptVars == <<file, pc, record, handle, seen, acknowledged, dropped, disturbed, records, crashes, refusals>>

\* A line is the number of its record; a part of a line, and a record merged into such a part.
Part == 0
Merged == MaxRecords + 1
\* The file of a handle whose name is gone.
Gone == 4

Init ==
    /\ file = [i \in {} |-> <<>>]
    /\ pc = [a \in Appenders |-> "idle"] /\ record = [a \in Appenders |-> 0] /\ handle = [a \in Appenders |-> Gone] /\ seen = [a \in Appenders |-> 0]
    /\ acknowledged = <<>> /\ dropped = {} /\ disturbed = {}
    /\ records = 0 /\ crashes = 0 /\ refusals = 0

TypeOK ==
    /\ DOMAIN file \subseteq 0..3 /\ \A i \in DOMAIN file : file[i] \in Seq(Part..Merged)
    /\ pc \in [Appenders -> {"idle", "repair", "truncate", "size", "remove", "shift2", "shift1", "rotate", "copy", "empty", "append"}]
    /\ record \in [Appenders -> 0..MaxRecords] /\ handle \in [Appenders -> 0..Gone]
    /\ seen \in [Appenders -> Nat] /\ records \in 0..MaxRecords
    /\ disturbed \subseteq {"overlap", "refusal", "crash"}
    /\ acknowledged \in Seq(Part..Merged) /\ dropped \subseteq Part..Merged

Exists(i) == i \in DOMAIN file
Without(f, i) == [j \in DOMAIN f \ {i} |-> f[j]]
With(f, i, lines) == [j \in DOMAIN f \cup {i} |-> IF j = i THEN lines ELSE f[j]]
Moved(i, j) == With(Without(file, i), j, file[i])
HandlesMoved(i, j) == [a \in Appenders |-> IF handle[a] = i THEN j ELSE IF handle[a] = j THEN Gone ELSE handle[a]]
Goes(a, step) == pc' = [pc EXCEPT ![a] = step]
others == <<record, seen, acknowledged, records, crashes>>

\* appendJsonLine.
Begin(a) ==
    /\ pc[a] = "idle" /\ records < MaxRecords /\ records' = records + 1
    /\ (\E b \in Appenders : pc[b] # "idle") => records < MaxOverlapped
    /\ record' = [record EXCEPT ![a] = records + 1] /\ Goes(a, "repair")
    /\ disturbed' = disturbed \cup {d \in {"overlap"} : \E b \in Appenders : pc[b] # "idle"}
    /\ UNCHANGED <<file, handle, seen, acknowledged, dropped, crashes, refusals>>

\* repairInterruptedTail: where the unfinished line begins, if there is one, and then the truncation.
repairInterruptedTail(a) ==
    /\ pc[a] = "repair"
    /\ IF Exists(0) /\ file[0] # <<>> /\ Last(file[0]) = Part
       THEN handle' = [handle EXCEPT ![a] = 0] /\ seen' = [seen EXCEPT ![a] = Len(file[0]) - 1] /\ Goes(a, "truncate")
       ELSE UNCHANGED <<handle, seen>> /\ Goes(a, "size")
    /\ UNCHANGED <<file, record, acknowledged, records, crashes, dropped, disturbed, refusals>>

\* Faulty variant: the unfinished line stays.
Uncut(lines, n) == lines

\* A truncation to more than there is fills the file up, with what is no whole line.
Cut(lines, n) == IF n <= Len(lines) THEN SubSeq(lines, 1, n) ELSE Append(lines, Part)
Truncate(a) ==
    /\ pc[a] = "truncate" /\ Goes(a, "size") /\ handle' = [handle EXCEPT ![a] = Gone]
    /\ file' = IF Exists(handle[a]) THEN With(file, handle[a], Cut(file[handle[a]], seen[a])) ELSE file
    /\ UNCHANGED <<others, dropped, disturbed, refusals>>

CheckSize(a) ==
    /\ pc[a] = "size" /\ Goes(a, IF Exists(0) /\ Len(file[0]) >= MaxLines THEN "remove" ELSE "append")
    /\ UNCHANGED <<file, handle, others, dropped, disturbed, refusals>>

-----------------------------------------------------------------------------
\* rotateJsonlFile: remove the third, then rename the second, the first and the current one in that order.

RemoveOldest(a) ==
    /\ pc[a] = "remove" /\ Goes(a, "shift2") /\ file' = Without(file, 3)
    /\ handle' = [b \in Appenders |-> IF handle[b] = 3 THEN Gone ELSE handle[b]]
    /\ dropped' = dropped \cup (IF Exists(3) THEN ToSet(file[3]) ELSE {})
    /\ UNCHANGED <<others, disturbed, refusals>>

Refuse == refusals < MaxRefusals /\ refusals' = refusals + 1 /\ disturbed' = disturbed \cup {"refusal"}

\* A rename replaces the file of the new name, and one that is refused or finds no file is passed over.
Shift(a, from, i, next) ==
    /\ pc[a] = from /\ Goes(a, next)
    /\ \/ /\ Exists(i) /\ file' = Moved(i, i + 1) /\ handle' = HandlesMoved(i, i + 1) /\ UNCHANGED <<disturbed, refusals>>
       \/ /\ ~Exists(i) /\ UNCHANGED <<file, handle, disturbed, refusals>>
       \/ /\ Exists(i) /\ Refuse /\ UNCHANGED <<file, handle>>
    /\ UNCHANGED <<others, dropped>>

Rotate(a) ==
    /\ pc[a] = "rotate"
    /\ \/ /\ Exists(0) /\ file' = Moved(0, 1) /\ handle' = HandlesMoved(0, 1) /\ Goes(a, "append")
          /\ UNCHANGED <<disturbed, refusals>>
       \/ /\ ~Exists(0) /\ Goes(a, "append") /\ UNCHANGED <<file, handle, disturbed, refusals>>
       \/ /\ Exists(0) /\ Refuse /\ Goes(a, "copy") /\ UNCHANGED <<file, handle>>
    /\ UNCHANGED <<others, dropped>>

\* A rename that was refused: the file is copied and emptied, or the line goes to the full file.
Copy(a) ==
    /\ pc[a] = "copy"
    /\ \/ /\ Exists(0) /\ file' = With(file, 1, file[0]) /\ Goes(a, "empty") /\ UNCHANGED <<disturbed, refusals>>
       \/ /\ Exists(0) => Refuse
          /\ Exists(0) \/ UNCHANGED <<disturbed, refusals>>
          /\ Goes(a, "append") /\ UNCHANGED file
    /\ UNCHANGED <<handle, others, dropped>>
Empty(a) ==
    /\ pc[a] = "empty" /\ Goes(a, "append") /\ file' = IF Exists(0) THEN With(file, 0, <<>>) ELSE file
    /\ UNCHANGED <<handle, others, dropped, disturbed, refusals>>

\* The lines of a file to which a line is appended.
Appended(lines, line) ==
    IF lines # <<>> /\ Last(lines) = Part THEN Append(Front(lines), IF line = Part THEN Part ELSE Merged) ELSE Append(lines, line)
Lines == IF Exists(0) THEN file[0] ELSE <<>>

AppendLine(a) ==
    /\ pc[a] = "append" /\ Goes(a, "idle") /\ file' = With(file, 0, Appended(Lines, record[a]))
    /\ acknowledged' = Append(acknowledged, record[a])
    /\ UNCHANGED <<record, handle, seen, dropped, disturbed, records, crashes, refusals>>

Crash ==
    /\ crashes < MaxCrashes /\ crashes' = crashes + 1 /\ disturbed' = disturbed \cup {"crash"}
    /\ \/ UNCHANGED file
       \/ \E a \in Appenders : pc[a] = "append" /\ file' = With(file, 0, Appended(Lines, Part))
    /\ pc' = [a \in Appenders |-> "idle"] /\ handle' = [a \in Appenders |-> Gone]
    /\ UNCHANGED <<record, seen, acknowledged, dropped, records, refusals>>

Next ==
    \/ Crash
    \/ \E a \in Appenders :
          \/ Begin(a) \/ repairInterruptedTail(a) \/ Truncate(a) \/ CheckSize(a) \/ RemoveOldest(a)
          \/ Shift(a, "shift2", 2, "shift1") \/ Shift(a, "shift1", 1, "rotate") \/ Rotate(a)
          \/ Copy(a) \/ Empty(a) \/ AppendLine(a)

Spec == Init /\ [][Next]_transcriptVars

-----------------------------------------------------------------------------
\* Faulty variant: the newest file first.
readNewestFirst == SelectSeq(FlattenSeq([i \in 1..4 |-> IF Exists(i - 1) THEN file[i - 1] ELSE <<>>]), LAMBDA n : n \in 1..MaxRecords)

\* readMessages: the rotated files, the oldest first, and the current one; parts of lines are skipped.
readMessages == SelectSeq(FlattenSeq([i \in 1..4 |-> IF Exists(4 - i) THEN file[4 - i] ELSE <<>>]), LAMBDA n : n \in 1..MaxRecords)

\* While appends do not overlap, no record is merged into the line that a crash left unfinished; and unless a rename
\* was refused, a rotation loses nothing but what it drops with the oldest file: the files have every other record
\* that was appended, once, and in the order of the appends, which is that of their numbers.
TranscriptIsSound ==
    /\ "overlap" \notin disturbed => \A i \in DOMAIN file : Merged \notin ToSet(file[i])
    /\ disturbed \subseteq {"crash"} =>
          /\ (UNION {ToSet(file[i]) : i \in DOMAIN file}) \ {Part} = ToSet(acknowledged) \ dropped
          /\ \A i, j \in DOMAIN file : \A k \in DOMAIN file[i], l \in DOMAIN file[j] :
                (i > j \/ (i = j /\ k < l)) /\ file[j][l] # Part => file[i][k] < file[j][l]
          /\ \A k, l \in DOMAIN acknowledged : k < l => acknowledged[k] < acknowledged[l]

\* And this is what is read, whatever parts of lines are among them.
TranscriptIsRead == disturbed \subseteq {"crash"} /\ (\A a \in Appenders : pc[a] = "idle") =>
    readMessages = SelectSeq(acknowledged, LAMBDA n : n \notin dropped)

\* Not so: two appends after a crash, of which one cuts off what the other just wrote; and a refused
\* rename, after which the next file is written over.
RecordsAreKept == (\A a \in Appenders : pc[a] = "idle") => ToSet(acknowledged) \ dropped \subseteq ToSet(readMessages)
=============================================================================
