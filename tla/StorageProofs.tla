---------------------------- MODULE StorageProofs ----------------------------
(***************************************************************************)
(* What is proved of the files that a session must not lose, for every     *)
(* number of writes, saves, events, failures and crashes: the log, the     *)
(* checkpoints of a mission, those of a thread of a graph and the file     *)
(* that is replaced.                                                       *)
(*                                                                         *)
(* The behaviours of StorageMC are about one part at a time, and a step    *)
(* leaves each of the other parts as it is: so every part, read alone,     *)
(* takes its own steps. Each has an inductive invariant of its own.        *)
(***************************************************************************)
EXTENDS StorageMC, FiniteSetTheorems, SequenceTheorems, WellFoundedInduction, TLAPS

StorageVars == <<part, replacingVars, logVars, missionVars, graphVars, indexVars, evidenceVars, memoryVars,
                 transcriptVars, licenseVars>>

\* Each of the parts takes its own steps, or none.
LEMMA LogPart ==
    /\ Init => Log!Init
    /\ [Next]_StorageVars => [Log!Next]_logVars
BY DEF Init, Next, StorageVars, Others

\* The mission checkpoints do.
LEMMA MissionPart ==
    /\ Init => Mission!Init
    /\ [Next]_StorageVars => [Mission!Next]_missionVars
BY DEF Init, Next, StorageVars, Others

\* The graph checkpoints do.
LEMMA GraphPart ==
    /\ Init => Graph!Init
    /\ [Next]_StorageVars => [Graph!Next]_graphVars
BY DEF Init, Next, StorageVars, Others

\* The replaced file does.
LEMMA ReplacingPart ==
    /\ Init => Replacing!Init
    /\ [Next]_StorageVars => [Replacing!Next]_replacingVars
BY DEF Init, Next, StorageVars, Others

-----------------------------------------------------------------------------
(***************************************************************************)
(* Sets of numbers, and queues.                                            *)
(***************************************************************************)
\* The numbers are well-founded by <: there is a relation that orders them and has no infinite descent.
LEMMA LessThan ==
  \E R : IsWellFoundedOn(R, Nat) /\ \A a, b \in Nat : a < b => <<a, b>> \in R
<1> DEFINE R == {p \in Nat \X Nat : p[1] < p[2]}
<1>1. IsWellFoundedOn(R, Nat)
  BY NatLessThanWellFounded DEF OpToRel
<1>2. \A a, b \in Nat : a < b => <<a, b>> \in R
  OBVIOUS
<1> QED
  BY <1>1, <1>2

\* A set of numbers that is not empty has a least element.
LEMMA LeastExists ==
  ASSUME NEW S \in SUBSET Nat, S # {}
  PROVE  \E x \in S : \A y \in S : x <= y
<1>1. PICK R : IsWellFoundedOn(R, Nat) /\ \A a, b \in Nat : a < b => <<a, b>> \in R
  BY LessThan
<1>2. IsWellFoundedOn(R, Nat) /\ S \subseteq Nat
  BY <1>1
<1>3. PICK x \in S : \A y \in S : ~(<<y, x>> \in R)
  BY <1>2, WFMin, Zenon
<1>4. x \in Nat /\ \A y \in S : y \in Nat /\ ~(y < x)
  BY <1>1, <1>3
<1> QED
  BY <1>4

\* What is left of a queue when its head is done, and what it is when a call is added.
LEMMA TailIs ==
    ASSUME NEW S, NEW s \in Seq(S), s # <<>>
    PROVE  /\ Head(s) \in S /\ Head(s) = s[1] /\ 1 \in DOMAIN s /\ Tail(s) \in Seq(S)
           /\ \A k \in DOMAIN Tail(s) : k + 1 \in DOMAIN s /\ Tail(s)[k] = s[k + 1] /\ k \in Nat /\ k # 0
<1>1. Len(s) \in Nat /\ DOMAIN s = 1..Len(s) /\ Len(s) # 0
  BY EmptySeq, LenProperties
<1>2. Head(s) = s[1] /\ 1 \in DOMAIN s
  BY <1>1
<1>3. /\ Head(s) \in S
      /\ Tail(s) \in Seq(S) /\ Len(Tail(s)) = Len(s) - 1
      /\ \A k \in 1..Len(Tail(s)) : Tail(s)[k] = s[k + 1]
  BY HeadTailProperties
<1>4. DOMAIN Tail(s) = 1..(Len(s) - 1)
  BY <1>3, LenProperties
<1> QED
  BY <1>1, <1>2, <1>3, <1>4

\* What a queue is when a call is added to it at its end.
LEMMA AppendIs ==
    ASSUME NEW S, NEW s \in Seq(S), NEW e \in S
    PROVE  /\ Append(s, e) \in Seq(S) /\ Len(s) \in Nat
           /\ DOMAIN s = 1..Len(s) /\ DOMAIN Append(s, e) = 1..(Len(s) + 1)
           /\ \A k \in DOMAIN s : Append(s, e)[k] = s[k]
           /\ Append(s, e)[Len(s) + 1] = e
BY AppendProperties, LenProperties

-----------------------------------------------------------------------------
(***************************************************************************)
(* The log of events.                                                      *)
(***************************************************************************)

InOrder(s) == \A i, j \in DOMAIN s : i < j => s[i] < s[j]

\* The lines that parse are in the order of their calls, and all that waits comes after them.
LogOrder ==
    /\ \A i, j \in Log!read : i < j => lines[i] < lines[j]
    /\ InOrder(writeQueue)
    /\ \A k \in DOMAIN writeQueue :
        writeQueue[k] <= called /\ \A i \in DOMAIN lines : lines[i] < writeQueue[k]
    /\ \A i \in DOMAIN lines : lines[i] <= called
    /\ ~logOpen => writeQueue = <<>>

LogInv == Log!TypeOK /\ LogOrder

\* What an append finds in its file is whole, unless the process that left it torn is dead.
LogKept ==
    /\ torn => ~logOpen
    /\ logAcked \subseteq {lines[i] : i \in Log!read}

\* The head of the writeQueue is the oldest of the events that wait, and the others keep their order.
LEMMA QueueHead ==
    ASSUME NEW s \in Seq(1..MaxEvents), s # <<>>, InOrder(s)
    PROVE  /\ Head(s) \in 1..MaxEvents /\ Head(s) = s[1] /\ 1 \in DOMAIN s
           /\ Tail(s) \in Seq(1..MaxEvents) /\ InOrder(Tail(s))
           /\ \A k \in DOMAIN Tail(s) : k + 1 \in DOMAIN s /\ Tail(s)[k] = s[k + 1] /\ Head(s) < Tail(s)[k]
<1>1. /\ Head(s) \in 1..MaxEvents /\ Head(s) = s[1] /\ 1 \in DOMAIN s
      /\ Tail(s) \in Seq(1..MaxEvents) /\ Len(Tail(s)) = Len(s) - 1
      /\ \A k \in DOMAIN Tail(s) : k + 1 \in DOMAIN s /\ Tail(s)[k] = s[k + 1]
  <2>1. Len(s) \in Nat /\ DOMAIN s = 1..Len(s) /\ Len(s) # 0
    BY EmptySeq, LenProperties
  <2>2. Head(s) = s[1] /\ 1 \in DOMAIN s
    BY <2>1
  <2>3. /\ Head(s) \in 1..MaxEvents
        /\ Tail(s) \in Seq(1..MaxEvents) /\ Len(Tail(s)) = Len(s) - 1
        /\ \A k \in 1..Len(Tail(s)) : Tail(s)[k] = s[k + 1]
    BY HeadTailProperties
  <2>4. DOMAIN Tail(s) = 1..(Len(s) - 1)
    BY <2>3, LenProperties
  <2> QED
    BY <2>1, <2>2, <2>3, <2>4
<1>2. DOMAIN Tail(s) \subseteq Nat \ {0}
  BY <1>1
<1> QED
  BY <1>1, <1>2 DEF InOrder

\* Whatever appendFile leaves of the line it writes, the lines that parse stay in the order of their calls
\* and none of them is lost.
LEMMA LogWritten ==
    ASSUME LogInv, writeQueue # <<>>, Log!Written(Head(writeQueue)), writeQueue' \in {<<>>, Tail(writeQueue)},
           UNCHANGED called, MaxEvents \in Nat, logOpen' \in BOOLEAN, logFailures' \in 0..MaxFailures,
           logAcked' \subseteq 1..called, ~logOpen' => writeQueue' = <<>>
    PROVE  LogInv' /\ \A i \in Log!read : i \in Log!read' /\ lines'[i] = lines[i]
<1> DEFINE new == IF torn THEN 0 ELSE Head(writeQueue)
<1>0. LogOrder /\ Log!TypeOK
  BY DEF LogInv
<1>1. /\ Head(writeQueue) \in 1..MaxEvents /\ Head(writeQueue) = writeQueue[1] /\ 1 \in DOMAIN writeQueue
      /\ Tail(writeQueue) \in Seq(1..MaxEvents) /\ InOrder(Tail(writeQueue))
      /\ \A k \in DOMAIN Tail(writeQueue) : /\ k + 1 \in DOMAIN writeQueue
                                            /\ Tail(writeQueue)[k] = writeQueue[k + 1]
                                            /\ Head(writeQueue) < Tail(writeQueue)[k]
  BY <1>0, QueueHead DEF Log!TypeOK, LogOrder
<1>2. new \in 0..MaxEvents /\ lines' = Append(lines, new) /\ lines \in Seq(0..MaxEvents) /\ torn' = FALSE
  BY <1>0, <1>1 DEF Log!Written, Log!TypeOK
<1> HIDE DEF new
<1>3. /\ lines' \in Seq(0..MaxEvents) /\ DOMAIN lines = 1..Len(lines) /\ DOMAIN lines' = 1..(Len(lines) + 1)
      /\ \A i \in DOMAIN lines : lines'[i] = lines[i] /\ lines[i] \in 0..MaxEvents
      /\ lines'[Len(lines) + 1] = new /\ Len(lines) \in Nat
  BY <1>2
<1>4. new = 0 \/ new = Head(writeQueue)
  BY DEF new
<1>5. Log!TypeOK'
  <2>1. writeQueue' \in Seq(1..MaxEvents)
    BY <1>1, EmptySeq
  <2> QED
    BY <2>1, <1>0, <1>2, <1>3 DEF Log!TypeOK
<1>6. (\A k \in DOMAIN writeQueue' :
          writeQueue'[k] <= called' /\ \A i \in DOMAIN lines' : lines'[i] < writeQueue'[k])
  <2>1. CASE writeQueue' = <<>>
    BY <2>1
  <2>2. CASE writeQueue' = Tail(writeQueue)
    <3> SUFFICES ASSUME NEW k \in DOMAIN Tail(writeQueue), NEW i \in DOMAIN lines'
                 PROVE  Tail(writeQueue)[k] <= called /\ lines'[i] < Tail(writeQueue)[k]
      BY <2>2, <1>3
    <3>1. Tail(writeQueue)[k] <= called /\ Head(writeQueue) < Tail(writeQueue)[k]
      BY <1>0, <1>1 DEF LogOrder
    <3>2. CASE i = Len(lines) + 1
      BY <3>1, <3>2, <1>1, <1>3, <1>4
    <3>3. CASE i \in DOMAIN lines
      BY <3>1, <3>3, <1>0, <1>1, <1>3 DEF LogOrder
    <3> QED
      BY <3>2, <3>3, <1>3
  <2> QED
    BY <2>1, <2>2
<1>7. \A i \in DOMAIN lines' : lines'[i] <= called'
  <2>1. called \in Nat /\ Head(writeQueue) <= called /\ \A i \in DOMAIN lines : lines[i] <= called
    BY <1>0, <1>1 DEF LogOrder, Log!TypeOK
  <2>2. new <= called
    BY <2>1, <1>4
  <2> QED
    BY <2>1, <2>2, <1>3
<1>8. \A i, j \in Log!read' : i < j => lines'[i] < lines'[j]
  <2> SUFFICES ASSUME NEW i \in DOMAIN lines', NEW j \in DOMAIN lines', lines'[i] # 0, lines'[j] # 0, i < j
               PROVE  lines'[i] < lines'[j]
    BY DEF Log!read
  <2>1. i \in DOMAIN lines
    BY <1>3
  <2>2. CASE j = Len(lines) + 1
    BY <2>1, <2>2, <1>0, <1>1, <1>3, <1>4 DEF LogOrder
  <2>3. CASE j \in DOMAIN lines
    BY <2>1, <2>3, <1>0, <1>3 DEF LogOrder, Log!read
  <2> QED
    BY <2>2, <2>3, <1>3
<1>9. InOrder(writeQueue')
  <2>1. InOrder(<<>>)
    BY DEF InOrder
  <2> QED
    BY <2>1, <1>1
<1>10. \A i \in Log!read : i \in Log!read' /\ lines'[i] = lines[i]
  BY <1>3 DEF Log!read
<1> QED
  BY <1>5, <1>6, <1>7, <1>8, <1>9, <1>10 DEF LogInv, LogOrder

\* The order of the log holds through every step of EventStore: append, the file's write, its failures and a restart.
LEMMA LogStep ==
    LogInv /\ [Log!Next]_logVars => LogInv'
<1> SUFFICES ASSUME LogInv, [Log!Next]_logVars PROVE LogInv'
  OBVIOUS
<1>0. LogOrder /\ Log!TypeOK /\ Log!EventAssumption
  BY StorageAssumption DEF LogInv
<1>h. ASSUME writeQueue # <<>>
      PROVE  /\ Head(writeQueue) \in 1..called /\ Tail(writeQueue) \in Seq(1..MaxEvents)
             /\ InOrder(Tail(writeQueue))
             /\ \A k \in DOMAIN Tail(writeQueue) : /\ k + 1 \in DOMAIN writeQueue
                                                   /\ Tail(writeQueue)[k] = writeQueue[k + 1]
  <2>1. writeQueue \in Seq(1..MaxEvents) /\ InOrder(writeQueue)
    BY <1>0 DEF Log!TypeOK, LogOrder
  <2>2. 1 \in DOMAIN writeQueue /\ Head(writeQueue) = writeQueue[1] /\ Head(writeQueue) \in 1..MaxEvents
    BY <2>1, <1>h, QueueHead
  <2>3. Head(writeQueue) <= called /\ called \in Nat
    BY <2>2, <1>0 DEF LogOrder, Log!TypeOK
  <2> QED
    BY <2>1, <2>2, <2>3, <1>h, QueueHead
<1>1. CASE Log!append
  <2>1. /\ called' = called + 1 /\ called' \in 1..MaxEvents /\ writeQueue' = Append(writeQueue, called')
        /\ writeQueue \in Seq(1..MaxEvents) /\ called \in Nat /\ logOpen
        /\ UNCHANGED <<lines, torn, logFailures, logAcked, logOpen>>
    BY <1>0, <1>1 DEF Log!append, Log!TypeOK, Log!EventAssumption
  <2>2. /\ writeQueue' \in Seq(1..MaxEvents) /\ DOMAIN writeQueue = 1..Len(writeQueue)
        /\ DOMAIN writeQueue' = 1..(Len(writeQueue) + 1) /\ Len(writeQueue) \in Nat
        /\ \A k \in DOMAIN writeQueue : writeQueue'[k] = writeQueue[k]
        /\ writeQueue'[Len(writeQueue) + 1] = called'
    BY <2>1
  <2>3. Log!TypeOK'
    BY <1>0, <2>1, <2>2 DEF Log!TypeOK
  <2>a. lines \in Seq(0..MaxEvents) /\ MaxEvents \in Nat
    BY <1>0 DEF Log!TypeOK, Log!EventAssumption
  <2>4. \A i \in DOMAIN lines : lines[i] \in Nat
    BY <2>a
  <2>b. \A k \in DOMAIN writeQueue : writeQueue[k] \in Nat
    BY <2>1, <2>a
  <2>5. \A k \in DOMAIN writeQueue : writeQueue[k] \in Nat /\ writeQueue[k] <= called
    BY <1>0, <2>b DEF LogOrder
  <2>6. InOrder(writeQueue')
    BY <1>0, <2>1, <2>2, <2>5 DEF InOrder, LogOrder
  <2>7. \A k \in DOMAIN writeQueue' :
          writeQueue'[k] <= called' /\ \A i \in DOMAIN lines' : lines'[i] < writeQueue'[k]
    BY <1>0, <2>1, <2>2, <2>4, <2>5 DEF LogOrder
  <2>8. Log!read' = Log!read
    BY <2>1 DEF Log!read
  <2>9. \A i \in DOMAIN lines' : lines'[i] <= called'
    BY <1>0, <2>1, <2>4 DEF LogOrder
  <2> QED
    BY <1>0, <2>1, <2>3, <2>6, <2>7, <2>8, <2>9 DEF LogInv, LogOrder
<1>2. CASE Log!AppendFile
  <2>1. /\ writeQueue # <<>> /\ Log!Written(Head(writeQueue)) /\ writeQueue' = Tail(writeQueue)
        /\ logAcked' = logAcked \cup {Head(writeQueue)}
        /\ UNCHANGED <<called, logFailures, logOpen>>
    BY <1>2 DEF Log!AppendFile
  <2>2. logAcked' \subseteq 1..called /\ logOpen' \in BOOLEAN /\ logFailures' \in 0..MaxFailures /\ logOpen'
    BY <1>0, <1>h, <2>1 DEF Log!TypeOK, LogOrder
  <2> QED
    BY <1>0, <2>1, <2>2, LogWritten DEF Log!EventAssumption
<1>3. CASE Log!AppendFileFails
  <2>a. torn' \in BOOLEAN
    BY <1>0, <1>3 DEF Log!AppendFileFails, Log!TypeOK
  <2>1. /\ writeQueue # <<>> /\ writeQueue' = Tail(writeQueue) /\ torn' \in BOOLEAN
        /\ logFailures' \in 0..MaxFailures /\ UNCHANGED <<lines, called, logAcked, logOpen>>
    BY <1>0, <1>3, <2>a DEF Log!AppendFileFails, Log!TypeOK, Log!EventAssumption
  <2>2. Log!TypeOK'
    BY <1>0, <1>h, <2>1 DEF Log!TypeOK
  <2>3. Log!read' = Log!read
    BY <2>1 DEF Log!read
  <2> QED
    BY <1>0, <1>h, <2>1, <2>2, <2>3 DEF LogInv, LogOrder
<1>4. CASE Log!Crash
  <2>1. /\ writeQueue' = <<>> /\ logOpen' = FALSE /\ logFailures' \in 0..MaxFailures
        /\ UNCHANGED <<called, logAcked>>
    BY <1>0, <1>4 DEF Log!Crash, Log!TypeOK, Log!EventAssumption
  <2>2. CASE lines' = lines /\ torn' \in BOOLEAN
    <3>1. Log!TypeOK'
      BY <1>0, <2>1, <2>2, EmptySeq DEF Log!TypeOK
    <3>2. Log!read' = Log!read
      BY <2>2 DEF Log!read
    <3>3. InOrder(<<>>) /\ DOMAIN writeQueue' = {}
      BY <2>1 DEF InOrder
    <3> QED
      BY <1>0, <2>1, <2>2, <3>1, <3>2, <3>3 DEF LogInv, LogOrder
  <2>3. CASE writeQueue # <<>> /\ Log!Written(Head(writeQueue))
    <3>1. logAcked' \subseteq 1..called
      BY <1>0, <2>1 DEF Log!TypeOK
    <3> QED
      BY <1>0, <2>1, <2>3, <3>1, LogWritten DEF Log!EventAssumption
  <2> QED
    BY <1>0, <1>4, <2>2, <2>3 DEF Log!Crash, Log!TypeOK
<1>5. CASE Log!create
  <2>1. /\ logOpen' = TRUE /\ torn' = FALSE /\ ~logOpen
        /\ UNCHANGED <<lines, writeQueue, called, logFailures, logAcked>>
    BY <1>5 DEF Log!create
  <2>2. Log!TypeOK' /\ Log!read' = Log!read
    BY <1>0, <2>1 DEF Log!TypeOK, Log!read
  <2> QED
    BY <1>0, <2>1, <2>2 DEF LogInv, LogOrder
<1>6. CASE UNCHANGED logVars
  BY <1>0, <1>6 DEF logVars, LogInv, LogOrder, Log!TypeOK, Log!read
<1> QED
  BY <1>1, <1>2, <1>3, <1>4, <1>5, <1>6 DEF Log!Next

\* Where a failing appendFile leaves nothing in the file, what was acknowledged stays readable through every step.
LEMMA LogKeptStep ==
    ASSUME TornFailures = FALSE, LogInv, LogKept, [Log!Next]_logVars
    PROVE  LogKept'
<1>0. LogOrder /\ Log!TypeOK /\ Log!EventAssumption
  BY StorageAssumption DEF LogInv
<1>1. CASE Log!append
  BY <1>1 DEF Log!append, LogKept, Log!read
<1>2. CASE Log!AppendFile
  <2>1. /\ writeQueue # <<>> /\ Log!Written(Head(writeQueue)) /\ writeQueue' = Tail(writeQueue)
        /\ logAcked' = logAcked \cup {Head(writeQueue)} /\ logOpen /\ ~torn
        /\ UNCHANGED <<called, logFailures, logOpen>>
    BY <1>0, <1>2 DEF Log!AppendFile, LogOrder, LogKept
  <2>2. Head(writeQueue) \in 1..MaxEvents
    BY <1>0, <2>1, QueueHead DEF Log!TypeOK, LogOrder
  <2>3. lines' = Append(lines, Head(writeQueue)) /\ lines \in Seq(0..MaxEvents) /\ torn' = FALSE
    BY <1>0, <2>1 DEF Log!Written, Log!TypeOK
  <2>4. /\ DOMAIN lines' = 1..(Len(lines) + 1) /\ DOMAIN lines = 1..Len(lines) /\ Len(lines) \in Nat
        /\ lines'[Len(lines) + 1] = Head(writeQueue)
        /\ \A i \in DOMAIN lines : lines'[i] = lines[i]
    BY <2>2, <2>3, <1>0 DEF Log!EventAssumption
  <2>5. Len(lines) + 1 \in Log!read' /\ \A i \in Log!read : i \in Log!read' /\ lines'[i] = lines[i]
    BY <2>2, <2>4 DEF Log!read
  <2> QED
    BY <2>1, <2>3, <2>4, <2>5 DEF LogKept
<1>3. CASE Log!AppendFileFails
  BY <1>3 DEF Log!AppendFileFails, LogKept, Log!read
<1>4. CASE Log!Crash
  <2>1. logOpen' = FALSE /\ logAcked' = logAcked /\ called' = called
    BY <1>4 DEF Log!Crash
  <2>2. CASE lines' = lines
    BY <2>1, <2>2 DEF LogKept, Log!read
  <2>3. CASE writeQueue # <<>> /\ Log!Written(Head(writeQueue))
    <3>1. /\ writeQueue' = <<>> /\ logFailures' \in 0..MaxFailures /\ logAcked' \subseteq 1..called
      BY <1>0, <1>4, <2>1 DEF Log!Crash, Log!TypeOK, Log!EventAssumption
    <3>2. \A i \in Log!read : i \in Log!read' /\ lines'[i] = lines[i]
      BY <1>0, <2>1, <2>3, <3>1, LogWritten DEF Log!EventAssumption
    <3> QED
      BY <2>1, <3>2 DEF LogKept
  <2> QED
    BY <1>4, <2>2, <2>3 DEF Log!Crash
<1>5. CASE Log!create
  BY <1>5 DEF Log!create, LogKept, Log!read
<1>6. CASE UNCHANGED logVars
  BY <1>6 DEF logVars, LogKept, Log!read
<1> QED
  BY <1>1, <1>2, <1>3, <1>4, <1>5, <1>6 DEF Log!Next

\* A log that was never written is in order.
LEMMA LogStart == Log!Init => LogInv /\ LogKept
<1> SUFFICES ASSUME Log!Init PROVE LogInv /\ LogKept
  OBVIOUS
<1>1. DOMAIN lines = {} /\ DOMAIN writeQueue = {} /\ InOrder(writeQueue)
  BY DEF Log!Init, InOrder
<1>2. Log!TypeOK
  <2>1. Log!EventAssumption
    BY StorageAssumption
  <2>2. lines \in Seq(0..MaxEvents) /\ writeQueue \in Seq(1..MaxEvents)
    BY EmptySeq DEF Log!Init
  <2>3. torn \in BOOLEAN /\ logOpen \in BOOLEAN /\ logAcked \subseteq 1..called
    BY DEF Log!Init
  <2>4. called \in 0..MaxEvents /\ logFailures \in 0..MaxFailures
    BY <2>1 DEF Log!Init, Log!EventAssumption
  <2> QED
    BY <2>2, <2>3, <2>4 DEF Log!TypeOK
<1> QED
  BY <1>1, <1>2 DEF Log!Init, LogInv, LogOrder, LogKept, Log!read

\* EventStore.read returns the events in the order in which append was called, whatever fails and however
\* often the process restarts: a line that does not parse is left out and no line overtakes another.
THEOREM LogOrdered == Spec => [](\A i, j \in Log!read : i < j => lines[i] < lines[j])
<1>1. Init => LogInv
  BY LogPart, LogStart
<1>2. LogInv /\ [Next]_StorageVars => LogInv'
  BY LogPart, LogStep
<1>3. LogInv => \A i, j \in Log!read : i < j => lines[i] < lines[j]
  BY DEF LogInv, LogOrder
<1> QED
  BY <1>1, <1>2, <1>3, PTL DEF Spec, StorageVars

\* Every event whose append was acknowledged is read again, once and in order, by every process that opens
\* the log later. A write that fails half way must not leave half a line in an open log: the next line would
\* be glued to it and lost when it is read.
THEOREM EventsAreKept ==
    ASSUME TornFailures = FALSE
    PROVE  Spec => []AcknowledgedEventsAreRead
<1>1. Init => LogInv /\ LogKept
  BY LogPart, LogStart
<1>2. LogInv /\ LogKept /\ [Next]_StorageVars => (LogInv /\ LogKept)'
  BY LogPart, LogStep, LogKeptStep
<1>3. LogInv /\ LogKept => AcknowledgedEventsAreRead
  BY DEF LogInv, LogOrder, LogKept, AcknowledgedEventsAreRead, Log!AcknowledgedEventsAreRead
<1> QED
  BY <1>1, <1>2, <1>3, PTL DEF Spec, StorageVars

-----------------------------------------------------------------------------
(***************************************************************************)
(* The checkpoints of a mission.                                           *)
(***************************************************************************)
\* Module Checkpoints speaks of the same cardinality.
LEMMA SameCardinality ==
    ASSUME NEW S
    PROVE  Mission!Cardinality(S) = Cardinality(S)
BY Zenon DEF Mission!Cardinality, Cardinality

\* The checkpoint that loadLatestCheckpoint takes is the one that no other is newer than.
LEMMA NewestIs ==
    ASSUME NEW S \in SUBSET Nat, NEW m \in S, \A k \in S : k <= m
    PROVE  Mission!Max(S) = m
<1> DEFINE x == Mission!Max(S)
<1>1. \A k \in S : m >= k
  OBVIOUS
<1>2. x \in S /\ \A k \in S : x >= k
  BY <1>1 DEF Mission!Max
<1> HIDE DEF x
<1>3. x = m
  BY <1>2
<1> QED
  BY <1>3 DEF x

\* The newest of those that are listed is not deleted.
LEMMA NewestIsKept ==
    ASSUME NEW S \in SUBSET Nat, NEW m \in Nat, \A k \in S : k <= m
    PROVE  m \notin Mission!Oldest(S)
<1>1. \A d \in S : ~(d > m)
  OBVIOUS
<1>2. {d \in S : d > m} = {}
  BY <1>1
<1>3. Mission!Cardinality({d \in S : d > m}) = 0
  BY <1>2, FS_EmptySet, SameCardinality, Zenon
<1>4. ~(0 >= MaxCheckpoints)
  BY StorageAssumption DEF Mission!CheckpointAssumption
<1>5. ~(Mission!Cardinality({d \in S : d > m}) >= MaxCheckpoints)
  BY <1>3, <1>4, Zenon
<1> QED
  BY <1>5, Zenon DEF Mission!Oldest

\* cleanupOldCheckpoints deletes one of the checkpoints that it has listed.
LEMMA NextDoomedIs ==
    ASSUME NEW S \in SUBSET Nat, S # {}
    PROVE  Mission!Min(S) \in S
BY LeastExists DEF Mission!Min

\* A checkpoint that is being saved is newer than all that can be loaded, and what names the newest
\* is written after it and is not deleted.
SaveOrder ==
    /\ metas \subseteq 1..saves
    /\ saving \in {saves, NoCheckpoint} /\ (cpPc = "idle" <=> saving = NoCheckpoint)
    /\ cpPc \in {"state", "meta"} => saving \notin metas
    /\ cpPc \in {"meta", "cleanup", "deleteState", "deleteMeta"} => saving \in states
    /\ cpPc \in {"cleanup", "deleteState", "deleteMeta"} => saving \in metas
    /\ metas # {} => \E m \in metas : m \in states /\ \A k \in metas : k <= m
    /\ cpPc \in {"deleteState", "deleteMeta"} <=> doomed # {}
    /\ saving \notin doomed

MissionInv == Mission!TypeOK /\ SaveOrder

\* A mission without checkpoints loads none, and nothing was acknowledged.
LEMMA MissionStart == Mission!Init => MissionInv /\ Mission!Latest!Init
<1> SUFFICES ASSUME Mission!Init PROVE MissionInv /\ Mission!Latest!Init
  OBVIOUS
<1>0. Mission!CheckpointAssumption
  BY StorageAssumption
<1>1. Mission!TypeOK
  BY <1>0 DEF Mission!Init, Mission!TypeOK, Mission!CheckpointAssumption
<1>2. SaveOrder
  BY <1>0 DEF Mission!Init, SaveOrder, Mission!CheckpointAssumption
<1>3. Mission!Latest!Init
  BY DEF Mission!Init, Mission!Latest!Init, Mission!Loaded
<1> QED
  BY <1>1, <1>2, <1>3 DEF MissionInv

\* While a save goes on its checkpoint is the last one.
LEMMA SavingIs ==
    ASSUME MissionInv, cpPc # "idle"
    PROVE  /\ saving = saves /\ saving \in 1..MaxSaves /\ saving # NoCheckpoint
           /\ \A k \in metas : k \in 1..MaxSaves /\ k <= saving
<1>1. Mission!CheckpointAssumption
  BY StorageAssumption
<1> QED
  BY <1>1 DEF MissionInv, SaveOrder, Mission!TypeOK, Mission!CheckpointAssumption

\* Once its metadata is written it is what is loaded.
LEMMA SavedIsLoaded ==
    ASSUME MissionInv, cpPc \in {"cleanup", "deleteState", "deleteMeta"}
    PROVE  Mission!Loaded = saving
<1>1. saving \in metas /\ saving \in states /\ metas \in SUBSET Nat /\ \A k \in metas : k <= saving
  BY SavingIs DEF MissionInv, SaveOrder
<1>2. Mission!Max(metas) = saving
  BY <1>1, NewestIs
<1> QED
  BY <1>1, <1>2 DEF Mission!Loaded

\* How the ways in which a save goes on and ends look to those who load.
LEMMA SaveStays ==
    ASSUME Mission!Loaded' = Mission!Loaded, UNCHANGED <<saving, cpAcked>>
    PROVE  UNCHANGED Mission!Latest!vars
BY DEF Mission!Latest!vars

\* A save that fails before its metadata is written leaves what is loaded.
LEMMA SaveIsAbandoned ==
    ASSUME MissionInv, cpPc # "idle", Mission!Loaded' = Mission!Loaded, Mission!Return(cpAcked)
    PROVE  Mission!Latest!Next
<1>1. saving \in 1..MaxSaves /\ saving # NoCheckpoint
  BY SavingIs
<1>2. Mission!Latest!Abandon(saving)
  BY <1>1 DEF Mission!Return, Mission!Latest!Abandon
<1> QED
  BY <1>1, <1>2 DEF Mission!Latest!Next

\* A save that returns after its metadata is written is the one that is loaded.
LEMMA SaveIsAcknowledged ==
    ASSUME MissionInv, cpPc \in {"cleanup", "deleteState", "deleteMeta"}, Mission!Loaded' = Mission!Loaded,
           Mission!Return(saving)
    PROVE  Mission!Latest!Next
<1>1. saving \in 1..MaxSaves /\ saving # NoCheckpoint /\ Mission!Loaded = saving
  BY SavingIs, SavedIsLoaded
<1>2. Mission!Latest!Acknowledge(saving)
  BY <1>1 DEF Mission!Return, Mission!Latest!Acknowledge
<1> QED
  BY <1>1, <1>2 DEF Mission!Latest!Next

\* Every step of a save, a clean-up, a failure or a crash keeps SaveOrder, and is for those who load a
\* checkpoint a step of DurableFile, or none.
LEMMA MissionStep ==
    ASSUME MissionInv, [Mission!Next]_missionVars
    PROVE  MissionInv' /\ [Mission!Latest!Next]_(Mission!Latest!vars)
<1>0. Mission!TypeOK /\ SaveOrder /\ Mission!CheckpointAssumption
  BY StorageAssumption DEF MissionInv
<1>1. CASE Mission!saveCheckpoint
  <2>1. /\ saves' = saves + 1 /\ saves' \in 1..MaxSaves /\ saving = NoCheckpoint /\ saving' = saves'
        /\ saving' # NoCheckpoint /\ cpPc = "idle" /\ cpPc' = "state"
        /\ UNCHANGED <<states, metas, doomed, troubles, cpAcked>>
    BY <1>0, <1>1 DEF Mission!saveCheckpoint, Mission!TypeOK, SaveOrder, Mission!CheckpointAssumption
  <2>2. Mission!TypeOK'
    BY <1>0, <2>1 DEF Mission!TypeOK
  <2>3. SaveOrder'
    BY <1>0, <2>1 DEF SaveOrder, Mission!TypeOK
  <2>4. Mission!Latest!Begin(saves')
    BY <2>1 DEF Mission!Latest!Begin, Mission!Loaded
  <2> QED
    BY <2>1, <2>2, <2>3, <2>4 DEF MissionInv, Mission!Latest!Next
<1>2. CASE Mission!WriteState
  <2>0. cpPc = "state" /\ UNCHANGED <<metas, saves>>
    BY <1>2 DEF Mission!WriteState
  <2>s. saving = saves /\ saving \in 1..MaxSaves /\ saving # NoCheckpoint
    BY <2>0, SavingIs
  <2>1. CASE states' = states \cup {saving} /\ cpPc' = "meta" /\ Mission!NoTrouble /\ UNCHANGED <<saving, doomed, cpAcked>>
    <3>1. Mission!TypeOK'
      BY <1>0, <2>0, <2>1, <2>s DEF Mission!TypeOK, Mission!NoTrouble
    <3>2. SaveOrder'
      BY <1>0, <2>0, <2>1, <2>s DEF SaveOrder
    <3>3. Mission!Loaded' = Mission!Loaded
      <4>1. CASE metas = {}
        BY <2>0, <4>1 DEF Mission!Loaded
      <4>2. CASE metas # {}
        <5>1. PICK m \in metas : m \in states /\ \A k \in metas : k <= m
          BY <1>0, <4>2 DEF SaveOrder
        <5>2. Mission!Max(metas) = m
          BY <5>1, <1>0, NewestIs DEF Mission!TypeOK
        <5> QED
          BY <5>1, <5>2, <2>0, <2>1 DEF Mission!Loaded
      <4> QED
        BY <4>1, <4>2
    <3> QED
      BY <2>1, <3>1, <3>2, <3>3, SaveStays DEF MissionInv
  <2>2. CASE Mission!Trouble /\ Mission!Return(cpAcked) /\ UNCHANGED states
    <3>1. Mission!TypeOK' /\ SaveOrder'
      BY <1>0, <2>0, <2>2 DEF Mission!TypeOK, SaveOrder, Mission!Return, Mission!Trouble, Mission!CheckpointAssumption
    <3>2. Mission!Loaded' = Mission!Loaded
      BY <2>0, <2>2 DEF Mission!Loaded
    <3> QED
      BY <2>0, <2>2, <3>1, <3>2, SaveIsAbandoned DEF MissionInv
  <2> QED
    BY <1>2, <2>1, <2>2 DEF Mission!WriteState
<1>3. CASE Mission!WriteMeta
  <2>0. cpPc = "meta" /\ UNCHANGED <<states, saves>>
    BY <1>3 DEF Mission!WriteMeta
  <2>s. /\ saving = saves /\ saving \in 1..MaxSaves /\ saving # NoCheckpoint /\ saving \in states
        /\ \A k \in metas : k \in 1..MaxSaves /\ k <= saving
    BY <1>0, <2>0, SavingIs DEF SaveOrder
  <2>1. CASE metas' = metas \cup {saving} /\ cpPc' = "cleanup" /\ Mission!NoTrouble /\ UNCHANGED <<saving, doomed, cpAcked>>
    <3>1. Mission!TypeOK'
      BY <1>0, <2>0, <2>1, <2>s DEF Mission!TypeOK, Mission!NoTrouble
    <3>2. SaveOrder'
      BY <1>0, <2>0, <2>1, <2>s DEF SaveOrder
    <3>3. Mission!Max(metas') = saving
      BY <2>1, <2>s, NewestIs
    <3>4. Mission!Loaded' = saving
      BY <3>3, <2>0, <2>1, <2>s DEF Mission!Loaded
    <3>5. Mission!Latest!Move
      BY <3>4, <2>1, <2>s DEF Mission!Latest!Move
    <3> QED
      BY <3>1, <3>2, <3>5 DEF MissionInv, Mission!Latest!Next
  <2>2. CASE Mission!Trouble /\ Mission!Return(cpAcked) /\ UNCHANGED metas
    <3>1. Mission!TypeOK' /\ SaveOrder'
      BY <1>0, <2>0, <2>2 DEF Mission!TypeOK, SaveOrder, Mission!Return, Mission!Trouble, Mission!CheckpointAssumption
    <3>2. Mission!Loaded' = Mission!Loaded
      BY <2>0, <2>2 DEF Mission!Loaded
    <3> QED
      BY <2>0, <2>2, <3>1, <3>2, SaveIsAbandoned DEF MissionInv
  <2> QED
    BY <1>3, <2>1, <2>2 DEF Mission!WriteMeta
<1>4. CASE Mission!Cleanup
  <2>0. cpPc = "cleanup" /\ UNCHANGED <<states, metas, saves>>
    BY <1>4 DEF Mission!Cleanup
  <2>l. Mission!Loaded' = Mission!Loaded
    BY <2>0 DEF Mission!Loaded
  <2>1. PICK listed \in {metas} \cup {metas \ {m} : m \in metas} :
          /\ IF listed = metas THEN Mission!NoTrouble ELSE Mission!Trouble
          /\ IF Mission!Oldest(listed) = {} THEN Mission!Return(saving)
             ELSE doomed' = Mission!Oldest(listed) /\ cpPc' = "deleteState" /\ UNCHANGED <<saving, cpAcked>>
    BY <1>4 DEF Mission!Cleanup
  <2>2. listed \subseteq metas /\ troubles' \in 0..MaxTroubles
    BY <1>0, <2>1 DEF Mission!NoTrouble, Mission!Trouble, Mission!TypeOK, Mission!CheckpointAssumption
  <2>s. /\ saving = saves /\ saving \in 1..MaxSaves /\ saving # NoCheckpoint
        /\ \A k \in metas : k \in 1..MaxSaves /\ k <= saving
    BY <2>0, SavingIs
  <2>3. CASE Mission!Oldest(listed) = {}
    <3>1. Mission!Return(saving)
      BY <2>1, <2>3
    <3>2. Mission!TypeOK' /\ SaveOrder'
      BY <1>0, <2>0, <2>2, <2>s, <3>1 DEF Mission!TypeOK, SaveOrder, Mission!Return
    <3> QED
      BY <2>0, <2>l, <3>1, <3>2, SaveIsAcknowledged DEF MissionInv
  <2>4. CASE Mission!Oldest(listed) # {}
    <3>1. doomed' = Mission!Oldest(listed) /\ cpPc' = "deleteState" /\ UNCHANGED <<saving, cpAcked>>
      BY <2>1, <2>4
    <3>2. saving \notin Mission!Oldest(listed)
      BY <2>2, <2>s, NewestIsKept
    <3>3. Mission!Oldest(listed) \subseteq 1..MaxSaves
      BY <2>2, <2>s DEF Mission!Oldest
    <3>4. Mission!TypeOK'
      BY <1>0, <2>0, <2>2, <2>s, <3>1, <3>3 DEF Mission!TypeOK
    <3>5. SaveOrder'
      BY <1>0, <2>0, <2>4, <3>1, <3>2 DEF SaveOrder
    <3> QED
      BY <2>l, <3>1, <3>4, <3>5, SaveStays DEF MissionInv
  <2> QED
    BY <2>3, <2>4
<1>5. ASSUME cpPc \in {"deleteState", "deleteMeta"}, states' \in SUBSET states, metas' \in SUBSET metas,
             saving \in states', saving \in metas', UNCHANGED saves, troubles' \in 0..MaxTroubles,
             \/ cpPc' \in {"deleteState", "deleteMeta"} /\ doomed' \in SUBSET doomed /\ doomed' # {}
                  /\ UNCHANGED <<saving, cpAcked>>
             \/ Mission!Return(saving)
      PROVE  MissionInv' /\ [Mission!Latest!Next]_(Mission!Latest!vars)
  <2>s. /\ saving = saves /\ saving \in 1..MaxSaves /\ saving # NoCheckpoint
        /\ \A k \in metas : k \in 1..MaxSaves /\ k <= saving
    BY <1>5, SavingIs
  <2>1. Mission!Max(metas') = saving
    BY <1>5, <2>s, NewestIs
  <2>2. Mission!Loaded' = saving /\ Mission!Loaded = saving
    BY <1>5, <2>1, SavedIsLoaded DEF Mission!Loaded
  <2>3. \E m \in metas' : m \in states' /\ \A k \in metas' : k <= m
    BY <1>5, <2>s
  <2>4. CASE cpPc' \in {"deleteState", "deleteMeta"} /\ doomed' \in SUBSET doomed /\ doomed' # {}
               /\ UNCHANGED <<saving, cpAcked>>
    <3>1. Mission!TypeOK'
      BY <1>0, <1>5, <2>4, <2>s DEF Mission!TypeOK
    <3>2. SaveOrder'
      BY <1>0, <1>5, <2>4, <2>3, <2>s DEF SaveOrder
    <3> QED
      BY <2>2, <2>4, <3>1, <3>2, SaveStays DEF MissionInv
  <2>5. CASE Mission!Return(saving)
    <3>1. Mission!TypeOK'
      BY <1>0, <1>5, <2>5, <2>s DEF Mission!TypeOK, Mission!Return
    <3>2. SaveOrder'
      BY <1>0, <1>5, <2>5, <2>3, <2>s DEF SaveOrder, Mission!Return
    <3> QED
      BY <1>5, <2>2, <2>5, <3>1, <3>2, SaveIsAcknowledged DEF MissionInv
  <2> QED
    BY <1>5, <2>4, <2>5
<1>d. ASSUME cpPc \in {"deleteState", "deleteMeta"}
      PROVE  /\ Mission!Min(doomed) \in doomed /\ Mission!Min(doomed) # saving
             /\ saving \in states /\ saving \in metas
  BY <1>0, <1>d, NextDoomedIs DEF SaveOrder, Mission!TypeOK
<1>n. ASSUME Mission!NextDoomed
      PROVE  \/ cpPc' \in {"deleteState", "deleteMeta"} /\ doomed' \in SUBSET doomed /\ doomed' # {}
                  /\ UNCHANGED <<saving, cpAcked>>
             \/ Mission!Return(saving)
  BY <1>n DEF Mission!NextDoomed
<1>6. CASE Mission!DeleteState
  <2>1. cpPc = "deleteState" /\ UNCHANGED <<metas, saves>>
    BY <1>6 DEF Mission!DeleteState
  <2>2. CASE /\ states' = states \ {Mission!Min(doomed)}
             /\ cpPc' = "deleteMeta" /\ Mission!NoTrouble /\ UNCHANGED <<saving, doomed, cpAcked>>
    <3>1. /\ states' \in SUBSET states /\ saving \in states' /\ saving \in metas' /\ doomed' \in SUBSET doomed
          /\ doomed' # {} /\ troubles' \in 0..MaxTroubles
      BY <1>0, <1>d, <2>1, <2>2 DEF Mission!NoTrouble, Mission!TypeOK
    <3> QED
      BY <1>5, <2>1, <2>2, <3>1
  <2>3. CASE Mission!Trouble /\ Mission!NextDoomed /\ UNCHANGED states
    <3>1. /\ states' \in SUBSET states /\ saving \in states' /\ saving \in metas'
          /\ troubles' \in 0..MaxTroubles
      BY <1>0, <1>d, <2>1, <2>3 DEF Mission!Trouble, Mission!TypeOK, Mission!CheckpointAssumption
    <3> QED
      BY <1>5, <1>n, <2>1, <2>3, <3>1
  <2> QED
    BY <1>6, <2>2, <2>3 DEF Mission!DeleteState
<1>7. CASE Mission!DeleteMeta
  <2>1. cpPc = "deleteMeta" /\ UNCHANGED <<states, saves>> /\ Mission!NextDoomed
    BY <1>7 DEF Mission!DeleteMeta
  <2>2. /\ metas' \in SUBSET metas /\ saving \in states' /\ saving \in metas' /\ troubles' \in 0..MaxTroubles
    BY <1>0, <1>d, <1>7, <2>1
      DEF Mission!DeleteMeta, Mission!NoTrouble, Mission!Trouble, Mission!TypeOK, Mission!CheckpointAssumption
  <2> QED
    BY <1>5, <1>n, <2>1, <2>2
<1>8. CASE Mission!Crash
  <2>1. cpPc # "idle" /\ Mission!Return(cpAcked) /\ UNCHANGED <<states, metas, saves>>
    BY <1>8 DEF Mission!Crash
  <2>2. Mission!TypeOK' /\ SaveOrder'
    BY <1>0, <1>8, <2>1
      DEF Mission!Crash, Mission!TypeOK, SaveOrder, Mission!Return, Mission!Trouble, Mission!CheckpointAssumption
  <2>3. Mission!Loaded' = Mission!Loaded
    BY <2>1 DEF Mission!Loaded
  <2> QED
    BY <2>1, <2>2, <2>3, SaveIsAbandoned DEF MissionInv
<1>9. CASE UNCHANGED missionVars
  <2>1. UNCHANGED <<states, metas, cpPc, saving, doomed, saves, troubles, cpAcked>>
    BY <1>9 DEF missionVars
  <2>2. Mission!Loaded' = Mission!Loaded
    BY <2>1 DEF Mission!Loaded
  <2>3. MissionInv'
    BY <1>0, <2>1 DEF MissionInv, Mission!TypeOK, SaveOrder
  <2> QED
    BY <2>1, <2>2, <2>3, SaveStays
<1> QED
  BY <1>1, <1>2, <1>3, <1>4, <1>6, <1>7, <1>8, <1>9 DEF Mission!Next

\* The checkpoint that a restarted mission loads is a durable file: it is the last one whose save was
\* acknowledged or one that was begun after it, it is whole, and deleting the old ones never takes it away.
THEOREM LatestCheckpointIsDurable == Spec => LatestIsDurable
<1>1. Init => MissionInv /\ Mission!Latest!Init
  BY MissionPart, MissionStart
<1>2. MissionInv /\ [Next]_StorageVars => MissionInv' /\ [Mission!Latest!Next]_(Mission!Latest!vars)
  BY MissionPart, MissionStep
<1> QED
  BY <1>1, <1>2, PTL DEF Spec, StorageVars, LatestIsDurable, Mission!LatestIsDurable, Mission!Latest!Spec

-----------------------------------------------------------------------------
(***************************************************************************)
(* The checkpoints of a thread of a graph.                                 *)
(***************************************************************************)
\* Module GraphCheckpoints speaks of the same cardinality.
LEMMA SameGraphCardinality ==
    ASSUME NEW S
    PROVE  Graph!Cardinality(S) = Cardinality(S)
BY Zenon DEF Graph!Cardinality, Cardinality

\* The newest of the tuples that are stored is one of them, and none is newer.
LEMMA GreatestIs ==
    ASSUME NEW S \in SUBSET (1..MaxPuts), S # {}
    PROVE  Graph!Max(S) \in S /\ \A k \in S : Graph!Max(S) >= k
<1>0. MaxPuts \in Nat
  BY StorageAssumption DEF Graph!GraphAssumption
<1> DEFINE T == {k \in Nat : \A s \in S : s <= k}
<1>1. T # {} /\ T \in SUBSET Nat
  BY <1>0
<1>2. PICK m \in T : \A k \in T : m <= k
  BY <1>1, LeastExists
<1>3. m \in S
  <2> SUFFICES ASSUME m \notin S PROVE FALSE
    OBVIOUS
  <2>1. \A s \in S : s <= m - 1
    BY <1>0, <1>2
  <2>2. PICK s \in S : TRUE
    OBVIOUS
  <2>3. m \in Nat /\ s \in Nat /\ s <= m - 1
    BY <1>0, <2>1, <1>2
  <2>4. m - 1 \in Nat
    BY <2>3
  <2> QED
    BY <2>1, <2>4, <1>2
<1>4. m \in S /\ \A y \in S : m >= y
  BY <1>0, <1>2, <1>3
<1> QED
  BY <1>4 DEF Graph!Max

\* Puts take their turns once, each before its checkpoint is stored, and the one with the lock has all
\* that was staged for it.
PutsInTurn ==
    /\ \A k \in DOMAIN calls : calls[k].kind = "put" => calls[k].id \in 1..puts
    /\ \A k, l \in DOMAIN calls : calls[k].kind = "put" /\ calls[l].kind = "put" /\ k # l => calls[k].id # calls[l].id
    /\ \A k \in DOMAIN calls :
        calls[k].kind = "put" => stored[calls[k].id] = NotStored \/ (k = 1 /\ gcPc \in {"unstage", "index"})
    /\ gcPc # "start" => calls # <<>> /\ Head(calls).kind = "put"
    /\ gcPc = "write" => taken = staged[Head(calls).id]
    /\ gcPc \in {"unstage", "index"} => stored[Head(calls).id] # NotStored
    /\ \A i \in Graph!Ids : stored[i] # NotStored => i <= puts

WritesAreKept ==
    \A w \in writesAcked :
        w[1] \notin pruned =>
            \/ stored[w[1]] # NotStored /\ w[2] \in stored[w[1]]
            \/ stored[w[1]] = NotStored /\ w[2] \in staged[w[1]]

PutsAreKept == \A i \in putAcked : \E j \in Graph!Ids : stored[j] # NotStored /\ i <= j

GraphInv == Graph!TypeOK /\ PutsInTurn /\ WritesAreKept /\ PutsAreKept

\* A thread that nothing was put in is in order.
LEMMA GraphStart == Graph!Init => GraphInv
<1> SUFFICES ASSUME Graph!Init PROVE GraphInv
  OBVIOUS
<1>0. Graph!GraphAssumption /\ calls \in Seq(Graph!Call) /\ DOMAIN calls = {}
  BY EmptySeq, StorageAssumption DEF Graph!Init
<1>1. Graph!TypeOK
  <2>1. stored \in [Graph!Ids -> (SUBSET Tasks) \cup {NotStored}] /\ staged \in [Graph!Ids -> SUBSET Tasks]
    BY DEF Graph!Init
  <2>2. index \in 0..MaxPuts /\ puts \in 0..MaxPuts /\ errors \in 0..MaxErrors
    BY <1>0 DEF Graph!Init, Graph!GraphAssumption
  <2> QED
    BY <1>0, <2>1, <2>2 DEF Graph!Init, Graph!TypeOK
<1>2. PutsInTurn
  BY <1>0 DEF Graph!Init, PutsInTurn
<1>3. WritesAreKept /\ PutsAreKept
  BY DEF Graph!Init, WritesAreKept, PutsAreKept
<1> QED
  BY <1>1, <1>2, <1>3 DEF GraphInv

\* A new call waits behind the others.
LEMMA CallWaits ==
    ASSUME GraphInv, NEW c \in Graph!Call, Graph!Enqueue(c), puts' \in {puts, puts + 1}, puts' <= MaxPuts,
           c.kind = "put" => puts' = puts + 1 /\ c.id = puts',
           UNCHANGED <<stored, staged, index, gcPc, taken, errors, pruned, putAcked, writesAcked>>
    PROVE  GraphInv'
<1>0. Graph!TypeOK /\ PutsInTurn /\ WritesAreKept /\ PutsAreKept /\ Graph!GraphAssumption /\ puts \in Nat
  BY StorageAssumption DEF GraphInv, Graph!TypeOK
<1>1. calls \in Seq(Graph!Call) /\ calls' = Append(calls, c)
  BY <1>0 DEF Graph!Enqueue, Graph!TypeOK
<1>2. /\ calls' \in Seq(Graph!Call) /\ Len(calls) \in Nat
      /\ DOMAIN calls = 1..Len(calls) /\ DOMAIN calls' = 1..(Len(calls) + 1)
      /\ \A k \in DOMAIN calls : calls'[k] = calls[k]
      /\ calls'[Len(calls) + 1] = c
  BY <1>1, AppendIs
<1>3. Graph!TypeOK'
  BY <1>0, <1>2 DEF Graph!TypeOK, Graph!GraphAssumption
<1>4. calls # <<>> => Head(calls') = Head(calls) /\ calls' # <<>>
  <2> HAVE calls # <<>>
  <2>1. Head(calls) = calls[1] /\ 1 \in DOMAIN calls
    BY <1>1, TailIs
  <2>2. calls' # <<>>
    BY <1>2, <2>1
  <2>3. Head(calls') = calls'[1]
    BY <1>2, <2>2, TailIs
  <2> QED
    BY <1>2, <2>1, <2>2, <2>3
<1>5. PutsInTurn'
  <2>1. \A k \in DOMAIN calls' : calls'[k].kind = "put" => calls'[k].id \in 1..puts'
    BY <1>0, <1>2 DEF PutsInTurn
  <2>2. \A k \in DOMAIN calls : calls[k].kind = "put" => calls[k].id \in 1..puts
    BY <1>0 DEF PutsInTurn
  <2>3. \A k, l \in DOMAIN calls' :
          calls'[k].kind = "put" /\ calls'[l].kind = "put" /\ k # l => calls'[k].id # calls'[l].id
    BY <1>0, <1>2, <2>2 DEF PutsInTurn
  <2>4. \A k \in DOMAIN calls' :
          calls'[k].kind = "put" => stored'[calls'[k].id] = NotStored \/ (k = 1 /\ gcPc' \in {"unstage", "index"})
    <3> SUFFICES ASSUME NEW k \in DOMAIN calls', calls'[k].kind = "put"
                 PROVE  stored'[calls'[k].id] = NotStored \/ (k = 1 /\ gcPc' \in {"unstage", "index"})
      OBVIOUS
    <3>1. CASE k \in DOMAIN calls
      BY <1>0, <1>2, <3>1 DEF PutsInTurn
    <3>2. CASE k = Len(calls) + 1
      <4>1. calls'[k].id = puts + 1 /\ puts + 1 \in Graph!Ids
        BY <1>0, <1>2, <3>2 DEF Graph!Ids, Graph!GraphAssumption
      <4>2. ~(puts + 1 <= puts)
        BY <1>0
      <4> QED
        BY <1>0, <4>1, <4>2 DEF PutsInTurn
    <3> QED
      BY <1>2, <3>1, <3>2
  <2>5. \A i \in Graph!Ids : stored'[i] # NotStored => i <= puts'
    BY <1>0 DEF PutsInTurn, Graph!Ids, Graph!GraphAssumption
  <2> QED
    BY <1>0, <1>4, <2>1, <2>3, <2>4, <2>5 DEF PutsInTurn
<1>6. WritesAreKept' /\ PutsAreKept'
  BY <1>0 DEF WritesAreKept, PutsAreKept
<1> QED
  BY <1>3, <1>5, <1>6 DEF GraphInv

\* A call that returns gives its turn to the next, whatever it did.
LEMMA NextTurn ==
    ASSUME GraphInv, calls' \in {<<>>, Tail(calls)}, calls' = Tail(calls) => calls # <<>>,
           gcPc' = "start", taken' = {},
           UNCHANGED puts, Graph!TypeOK',
           \A i \in Graph!Ids : stored'[i] = NotStored <=> stored[i] = NotStored
    PROVE  PutsInTurn'
<1>0. Graph!TypeOK /\ PutsInTurn /\ calls \in Seq(Graph!Call) /\ Graph!GraphAssumption
  BY StorageAssumption DEF GraphInv, Graph!TypeOK
<1>1. \A k \in DOMAIN calls' : k + 1 \in DOMAIN calls /\ calls'[k] = calls[k + 1] /\ k \in Nat /\ k # 0
  <2>1. CASE calls' = <<>>
    BY <2>1
  <2>2. CASE calls' = Tail(calls)
    BY <1>0, <2>2, TailIs
  <2> QED
    BY <2>1, <2>2
<1>2. 1..puts \subseteq Graph!Ids
  BY <1>0 DEF Graph!TypeOK, Graph!Ids, Graph!GraphAssumption
<1>3. \A k \in DOMAIN calls' : calls'[k].kind = "put" => calls'[k].id \in 1..puts' /\ stored'[calls'[k].id] = NotStored
  <2> SUFFICES ASSUME NEW k \in DOMAIN calls', calls'[k].kind = "put"
               PROVE  calls'[k].id \in 1..puts' /\ stored'[calls'[k].id] = NotStored
    OBVIOUS
  <2>1. k + 1 \in DOMAIN calls /\ calls'[k] = calls[k + 1] /\ k + 1 # 1
    BY <1>1
  <2> QED
    BY <1>0, <1>2, <2>1 DEF PutsInTurn
<1>4. \A k, l \in DOMAIN calls' :
        calls'[k].kind = "put" /\ calls'[l].kind = "put" /\ k # l => calls'[k].id # calls'[l].id
  <2> SUFFICES ASSUME NEW k \in DOMAIN calls', NEW l \in DOMAIN calls',
                      calls'[k].kind = "put", calls'[l].kind = "put", k # l
               PROVE  calls'[k].id # calls'[l].id
    OBVIOUS
  <2>1. /\ k + 1 \in DOMAIN calls /\ calls'[k] = calls[k + 1]
        /\ l + 1 \in DOMAIN calls /\ calls'[l] = calls[l + 1] /\ k + 1 # l + 1
    BY <1>1
  <2> QED
    BY <1>0, <2>1 DEF PutsInTurn
<1>5. \A i \in Graph!Ids : stored'[i] # NotStored => i <= puts'
  BY <1>0 DEF PutsInTurn
<1> QED
  BY <1>3, <1>4, <1>5 DEF PutsInTurn

\* Every step of put, putWrites, an error and a restart keeps the order of the calls and what they acknowledged.
LEMMA GraphStep ==
    ASSUME GraphInv, [Graph!Next]_graphVars
    PROVE  GraphInv'
<1>0. /\ Graph!TypeOK /\ PutsInTurn /\ WritesAreKept /\ PutsAreKept /\ Graph!GraphAssumption
      /\ calls \in Seq(Graph!Call) /\ puts \in Nat /\ MaxPuts \in Nat /\ puts <= MaxPuts
  BY StorageAssumption DEF GraphInv, Graph!TypeOK, Graph!GraphAssumption
<1>n. \A done \in SUBSET Tasks : done # NotStored
  BY <1>0 DEF Graph!GraphAssumption
<1>h. ASSUME NEW k, NEW here, Graph!Turn(k, here)
      PROVE  /\ calls # <<>> /\ Head(calls) \in Graph!Call /\ Head(calls) = calls[1] /\ 1 \in DOMAIN calls
             /\ Tail(calls) \in Seq(Graph!Call) /\ Head(calls).kind = k /\ gcPc = here
  BY <1>0, <1>h, TailIs DEF Graph!Turn
<1>p. ASSUME NEW here, Graph!Turn("put", here)
      PROVE  Head(calls).id \in Graph!Ids /\ Head(calls).id <= puts
  BY <1>0, <1>h, <1>p DEF PutsInTurn, Graph!Ids
<1>1. CASE Graph!put
  <2> DEFINE c == [kind |-> "put", id |-> puts']
  <2>1. puts' = puts + 1 /\ puts' <= MaxPuts /\ c \in Graph!Call
    BY <1>0, <1>1 DEF Graph!put, Graph!Call
  <2> QED
    BY <1>1, <2>1, CallWaits DEF Graph!put
<1>2. CASE Graph!prune
  <2> DEFINE c == [kind |-> "prune", id |-> 0]
  <2>1. puts' = puts /\ puts' <= MaxPuts /\ c \in Graph!Call
    BY <1>0, <1>2 DEF Graph!prune, Graph!Call
  <2> QED
    BY <1>2, <2>1, CallWaits DEF Graph!prune
<1>3. ASSUME NEW i \in Graph!Ids, NEW t \in Tasks, Graph!putWrites(i, t)
      PROVE  GraphInv'
  <2> DEFINE c == [kind |-> "putWrites", id |-> i, task |-> t]
  <2>1. puts' = puts /\ puts' <= MaxPuts /\ c \in Graph!Call
    BY <1>0, <1>3 DEF Graph!putWrites, Graph!Call
  <2> QED
    BY <1>3, <2>1, CallWaits DEF Graph!putWrites
<1>4. CASE Graph!PutReads
  <2>1. /\ Graph!Turn("put", "start") /\ taken' = staged[Head(calls).id] /\ gcPc' = "write" /\ calls' = calls
        /\ UNCHANGED <<stored, staged, index, puts, errors, pruned, putAcked, writesAcked>>
    BY <1>4 DEF Graph!PutReads, Graph!Go
  <2>2. Head(calls).id \in Graph!Ids /\ gcPc = "start" /\ calls # <<>> /\ Head(calls).kind = "put"
    BY <2>1, <1>p, <1>h
  <2>3. Graph!TypeOK'
    BY <1>0, <2>1, <2>2 DEF Graph!TypeOK
  <2>4. PutsInTurn'
    BY <1>0, <2>1, <2>2 DEF PutsInTurn
  <2> QED
    BY <1>0, <2>1, <2>3, <2>4 DEF GraphInv, WritesAreKept, PutsAreKept
<1>5. CASE Graph!PutWrites
  <2> DEFINE i == Head(calls).id
  <2>1. /\ Graph!Turn("put", "write") /\ stored' = [stored EXCEPT ![i] = taken] /\ gcPc' = "unstage"
        /\ calls' = calls /\ UNCHANGED <<staged, index, taken, puts, errors, pruned, putAcked, writesAcked>>
    BY <1>5 DEF Graph!PutWrites, Graph!Go
  <2>2. i \in Graph!Ids /\ i <= puts /\ gcPc = "write" /\ calls # <<>> /\ calls[1].kind = "put" /\ i = calls[1].id
        /\ 1 \in DOMAIN calls /\ Head(calls).kind = "put"
    BY <2>1, <1>p, <1>h
  <2>3. stored[i] = NotStored /\ taken = staged[i]
    BY <1>0, <2>2 DEF PutsInTurn
  <2>4. /\ taken \in SUBSET Tasks /\ taken # NotStored
        /\ stored' \in [Graph!Ids -> (SUBSET Tasks) \cup {NotStored}] /\ stored'[i] = taken
        /\ \A j \in Graph!Ids : j # i => stored'[j] = stored[j]
    BY <1>0, <1>n, <2>1, <2>2 DEF Graph!TypeOK
  <2>5. Graph!TypeOK'
    BY <1>0, <2>1, <2>4 DEF Graph!TypeOK
  <2> HIDE DEF i
  <2>6. PutsInTurn'
    <3>1. \A k \in DOMAIN calls :
            calls[k].kind = "put" => stored'[calls[k].id] = NotStored \/ (k = 1 /\ gcPc' \in {"unstage", "index"})
      <4> SUFFICES ASSUME NEW k \in DOMAIN calls, calls[k].kind = "put", k # 1
                   PROVE  stored'[calls[k].id] = NotStored
        BY <2>1
      <4>1. calls[k].id # i /\ calls[k].id \in 1..puts /\ stored[calls[k].id] = NotStored
        BY <1>0, <2>2 DEF PutsInTurn
      <4> QED
        BY <1>0, <2>4, <4>1 DEF Graph!Ids
    <3>2. \A j \in Graph!Ids : stored'[j] # NotStored => j <= puts
      BY <1>0, <2>2, <2>4 DEF PutsInTurn
    <3>3. stored'[Head(calls).id] # NotStored
      BY <2>4 DEF i
    <3> QED
      BY <1>0, <2>1, <2>2, <3>1, <3>2, <3>3 DEF PutsInTurn
  <2>7. WritesAreKept'
    BY <1>0, <2>1, <2>2, <2>3, <2>4 DEF WritesAreKept, Graph!TypeOK
  <2>8. PutsAreKept'
    BY <1>0, <2>1, <2>2, <2>3, <2>4 DEF PutsAreKept
  <2> QED
    BY <2>5, <2>6, <2>7, <2>8 DEF GraphInv
<1>6. CASE Graph!PutUnstages
  <2> DEFINE i == Head(calls).id
  <2>1. /\ Graph!Turn("put", "unstage") /\ staged' = [staged EXCEPT ![i] = {}] /\ gcPc' = "index"
        /\ calls' = calls /\ UNCHANGED <<stored, index, taken, puts, errors, pruned, putAcked, writesAcked>>
    BY <1>6 DEF Graph!PutUnstages, Graph!Go
  <2>2. i \in Graph!Ids /\ gcPc = "unstage" /\ calls # <<>> /\ Head(calls).kind = "put"
    BY <2>1, <1>p, <1>h
  <2>3. stored[i] # NotStored
    BY <1>0, <2>2 DEF PutsInTurn
  <2>4. Graph!TypeOK'
    BY <1>0, <2>1, <2>2 DEF Graph!TypeOK
  <2>5. PutsInTurn'
    BY <1>0, <2>1, <2>2, <2>3 DEF PutsInTurn
  <2>6. WritesAreKept'
    BY <1>0, <2>1, <2>2, <2>3 DEF WritesAreKept, Graph!TypeOK
  <2> QED
    BY <1>0, <2>1, <2>4, <2>5, <2>6 DEF GraphInv, PutsAreKept
<1>7. CASE Graph!PutIndexes
  <2> DEFINE i == Head(calls).id
  <2>1. /\ Graph!Turn("put", "index") /\ index' = i /\ putAcked' = putAcked \cup {i}
        /\ calls' = Tail(calls) /\ gcPc' = "start" /\ taken' = {}
        /\ UNCHANGED <<stored, staged, puts, errors, pruned, writesAcked>>
    BY <1>7 DEF Graph!PutIndexes, Graph!Done
  <2>2. i \in Graph!Ids /\ gcPc = "index" /\ calls # <<>> /\ Tail(calls) \in Seq(Graph!Call)
    BY <2>1, <1>p, <1>h
  <2>3. stored[i] # NotStored
    BY <1>0, <2>2 DEF PutsInTurn
  <2>i. i \in 0..MaxPuts
    BY <1>0, <2>2 DEF Graph!Ids
  <2> HIDE DEF i
  <2>4. Graph!TypeOK'
    BY <1>0, <2>1, <2>2, <2>i DEF Graph!TypeOK
  <2>5. PutsInTurn'
    BY <2>1, <2>2, <2>4, NextTurn
  <2>6. PutsAreKept'
    BY <1>0, <2>1, <2>2, <2>3 DEF PutsAreKept, Graph!Ids
  <2> QED
    BY <1>0, <2>1, <2>4, <2>5, <2>6 DEF GraphInv, WritesAreKept
<1>8. CASE Graph!AddWrites
  <2> DEFINE i == Head(calls).id
             t == Head(calls).task
  <2>1. /\ Graph!Turn("putWrites", "start") /\ calls' = Tail(calls) /\ gcPc' = "start" /\ taken' = {}
        /\ writesAcked' = writesAcked \cup {<<i, t>>}
        /\ UNCHANGED <<index, puts, errors, pruned, putAcked>>
        /\ IF stored[i] # NotStored
           THEN stored' = [stored EXCEPT ![i] = @ \cup {t}] /\ UNCHANGED staged
           ELSE staged' = [staged EXCEPT ![i] = @ \cup {t}] /\ UNCHANGED stored
    BY <1>8 DEF Graph!AddWrites, Graph!Done
  <2>2. i \in Graph!Ids /\ t \in Tasks /\ calls # <<>> /\ Tail(calls) \in Seq(Graph!Call)
    BY <2>1, <1>h DEF Graph!Call
  <2> HIDE DEF i, t
  <2>3. /\ stored' \in [Graph!Ids -> (SUBSET Tasks) \cup {NotStored}] /\ staged' \in [Graph!Ids -> SUBSET Tasks]
        /\ \A j \in Graph!Ids : stored'[j] = NotStored <=> stored[j] = NotStored
        /\ \A j \in Graph!Ids : stored[j] # NotStored => stored[j] \subseteq stored'[j]
        /\ \A j \in Graph!Ids : staged[j] \subseteq staged'[j]
        /\ stored[i] # NotStored => t \in stored'[i]
        /\ stored[i] = NotStored => t \in staged'[i]
    <3>0. stored \in [Graph!Ids -> (SUBSET Tasks) \cup {NotStored}] /\ staged \in [Graph!Ids -> SUBSET Tasks]
      BY <1>0 DEF Graph!TypeOK
    <3>1. CASE stored[i] # NotStored
      <4>1. stored[i] \in SUBSET Tasks /\ stored[i] \cup {t} \in SUBSET Tasks
        BY <3>0, <3>1, <2>2
      <4>2. stored' = [stored EXCEPT ![i] = stored[i] \cup {t}] /\ staged' = staged
        BY <2>1, <3>1
      <4>3. stored[i] \cup {t} # NotStored
        BY <1>n, <4>1
      <4> QED
        BY <3>0, <3>1, <4>1, <4>2, <4>3, <2>2
    <3>2. CASE stored[i] = NotStored
      BY <3>0, <3>2, <2>1, <2>2
    <3> QED
      BY <3>1, <3>2
  <2>4. Graph!TypeOK'
    BY <1>0, <2>1, <2>2, <2>3 DEF Graph!TypeOK
  <2>5. PutsInTurn'
    BY <2>1, <2>2, <2>3, <2>4, NextTurn
  <2>6. WritesAreKept'
    <3> SUFFICES ASSUME NEW w \in writesAcked', w[1] \notin pruned
                 PROVE  \/ stored'[w[1]] # NotStored /\ w[2] \in stored'[w[1]]
                        \/ stored'[w[1]] = NotStored /\ w[2] \in staged'[w[1]]
      BY <2>1 DEF WritesAreKept
    <3>1. CASE w = <<i, t>>
      BY <2>2, <2>3, <3>1
    <3>2. CASE w \in writesAcked
      <4>1. w[1] \in Graph!Ids
        BY <1>0, <3>2 DEF Graph!TypeOK
      <4> QED
        BY <1>0, <2>3, <3>2, <4>1 DEF WritesAreKept
    <3> QED
      BY <2>1, <3>1, <3>2
  <2>7. PutsAreKept'
    BY <1>0, <2>1, <2>3 DEF PutsAreKept
  <2> QED
    BY <2>4, <2>5, <2>6, <2>7 DEF GraphInv
<1>9. CASE Graph!PruneOne
  <2>0. Graph!Turn("prune", "start") /\ UNCHANGED <<staged, index, puts, errors, putAcked, writesAcked>>
    BY <1>9 DEF Graph!PruneOne
  <2>h. calls # <<>> /\ Tail(calls) \in Seq(Graph!Call) /\ gcPc = "start"
    BY <2>0, <1>h
  <2>1. CASE Graph!Excess = {}
    <3>1. /\ calls' = Tail(calls) /\ gcPc' = "start" /\ taken' = {} /\ UNCHANGED <<stored, pruned>>
      BY <1>9, <2>1 DEF Graph!PruneOne, Graph!Done
    <3>2. Graph!TypeOK'
      BY <1>0, <2>0, <2>h, <3>1 DEF Graph!TypeOK
    <3>3. PutsInTurn'
      BY <2>0, <2>h, <3>1, <3>2, NextTurn
    <3> QED
      BY <1>0, <2>0, <3>1, <3>2, <3>3 DEF GraphInv, WritesAreKept, PutsAreKept
  <2>2. CASE Graph!Excess # {}
    <3> DEFINE m == Graph!Max(Graph!Excess)
    <3>1. /\ stored' = [stored EXCEPT ![m] = NotStored] /\ pruned' = pruned \cup {m}
          /\ UNCHANGED <<calls, gcPc, taken>>
      BY <1>9, <2>2 DEF Graph!PruneOne
    <3>2. m \in Graph!Excess
      BY <2>2, GreatestIs DEF Graph!Excess, Graph!Kept, Graph!Ids
    <3> HIDE DEF m
    <3>3. m \in Graph!Ids /\ stored[m] # NotStored
      BY <3>2 DEF Graph!Excess, Graph!Kept
    <3>4. PICK j \in Graph!Ids : stored[j] # NotStored /\ j > m
      <4>1. Graph!Cardinality({j \in Graph!Kept : j > m}) >= MaxPerThread
        BY <3>2, Zenon DEF Graph!Excess
      <4>2. ~(0 >= MaxPerThread)
        BY <1>0 DEF Graph!GraphAssumption
      <4>3. {j \in Graph!Kept : j > m} # {}
        BY <4>1, <4>2, FS_EmptySet, SameGraphCardinality, Zenon
      <4> QED
        BY <4>3 DEF Graph!Kept
    <3>5. /\ stored' \in [Graph!Ids -> (SUBSET Tasks) \cup {NotStored}] /\ stored'[m] = NotStored
          /\ \A i \in Graph!Ids : i # m => stored'[i] = stored[i]
      BY <1>0, <3>1, <3>3 DEF Graph!TypeOK
    <3>6. Graph!TypeOK'
      BY <1>0, <2>0, <3>1, <3>3, <3>5 DEF Graph!TypeOK
    <3>7. PutsInTurn'
      <4>1. \A k \in DOMAIN calls : calls[k].kind = "put" => calls[k].id \in Graph!Ids
        BY <1>0 DEF PutsInTurn, Graph!Ids
      <4>2. \A i \in Graph!Ids : stored'[i] # NotStored => stored[i] # NotStored
        BY <3>5
      <4>3. \A i \in Graph!Ids : stored[i] = NotStored => stored'[i] = NotStored
        BY <3>5
      <4> QED
        BY <1>0, <2>0, <2>h, <3>1, <4>1, <4>2, <4>3 DEF PutsInTurn
    <3>8. WritesAreKept'
      <4> SUFFICES ASSUME NEW w \in writesAcked, w[1] \notin pruned, w[1] # m
                   PROVE  \/ stored'[w[1]] # NotStored /\ w[2] \in stored'[w[1]]
                          \/ stored'[w[1]] = NotStored /\ w[2] \in staged'[w[1]]
        BY <2>0, <3>1 DEF WritesAreKept
      <4>1. w[1] \in Graph!Ids
        BY <1>0 DEF Graph!TypeOK
      <4> QED
        BY <1>0, <2>0, <3>5, <4>1 DEF WritesAreKept
    <3>9. PutsAreKept'
      <4> SUFFICES ASSUME NEW i \in putAcked
                   PROVE  \E k \in Graph!Ids : stored'[k] # NotStored /\ i <= k
        BY <2>0 DEF PutsAreKept
      <4>1. PICK k \in Graph!Ids : stored[k] # NotStored /\ i <= k
        BY <1>0 DEF PutsAreKept
      <4>2. CASE k # m
        BY <3>5, <4>1, <4>2
      <4>3. CASE k = m
        <5>1. i \in Nat /\ j \in Nat /\ m \in Nat
          BY <1>0, <3>3 DEF Graph!TypeOK, Graph!Ids
        <5> QED
          BY <3>4, <3>5, <4>1, <4>3, <5>1
      <4> QED
        BY <4>2, <4>3
    <3> QED
      BY <3>6, <3>7, <3>8, <3>9 DEF GraphInv
  <2> QED
    BY <2>1, <2>2
<1>10. CASE Graph!CallFails
  <2>1. /\ calls # <<>> /\ calls' = Tail(calls) /\ gcPc' = "start" /\ taken' = {} /\ errors' \in 0..MaxErrors
        /\ UNCHANGED <<stored, staged, index, puts, pruned, putAcked, writesAcked>>
    BY <1>0, <1>10 DEF Graph!CallFails, Graph!Done, Graph!TypeOK, Graph!GraphAssumption
  <2>2. Tail(calls) \in Seq(Graph!Call)
    BY <1>0, <2>1, TailIs
  <2>3. Graph!TypeOK'
    BY <1>0, <2>1, <2>2 DEF Graph!TypeOK
  <2>4. PutsInTurn'
    BY <2>1, <2>3, NextTurn
  <2> QED
    BY <1>0, <2>1, <2>3, <2>4 DEF GraphInv, WritesAreKept, PutsAreKept
<1>11. CASE Graph!Crash
  <2>1. /\ calls' = <<>> /\ gcPc' = "start" /\ taken' = {} /\ errors' \in 0..MaxErrors
        /\ UNCHANGED <<stored, staged, index, puts, pruned, putAcked, writesAcked>>
    BY <1>0, <1>11 DEF Graph!Crash, Graph!TypeOK, Graph!GraphAssumption
  <2>2. Graph!TypeOK'
    BY <1>0, <2>1, EmptySeq DEF Graph!TypeOK
  <2>3. \/ calls' = Tail(calls) /\ calls # <<>>
        \/ calls' = <<>> /\ (calls' = Tail(calls) => calls # <<>>)
        \/ calls = <<>> /\ calls' = calls
    BY <2>1
  <2>4. PutsInTurn'
    BY <1>0, <2>1 DEF PutsInTurn
  <2> QED
    BY <1>0, <2>1, <2>2, <2>4 DEF GraphInv, WritesAreKept, PutsAreKept
<1>12. CASE UNCHANGED graphVars
  <2>1. UNCHANGED <<stored, staged, index, calls, gcPc, taken, puts, errors, pruned, putAcked, writesAcked>>
    BY <1>12 DEF graphVars
  <2> QED
    BY <1>0, <2>1 DEF GraphInv, Graph!TypeOK, PutsInTurn, WritesAreKept, PutsAreKept
<1> QED
  BY <1>1, <1>2, <1>3, <1>4, <1>5, <1>6, <1>7, <1>8, <1>9, <1>10, <1>11, <1>12 DEF Graph!Next

\* What the invariant says of the stored tuples: the one that getTuple returns is not older than any that
\* was acknowledged, and has the writes acknowledged for it.
LEMMA ThreadIsComplete == GraphInv => ResumedThreadIsComplete
<1> SUFFICES ASSUME GraphInv PROVE ResumedThreadIsComplete
  OBVIOUS
<1>1. \A i \in putAcked : Graph!getTuple >= i
  <2> SUFFICES ASSUME NEW i \in putAcked PROVE Graph!getTuple >= i
    OBVIOUS
  <2>1. PICK j \in Graph!Ids : stored[j] # NotStored /\ i <= j
    BY DEF GraphInv, PutsAreKept
  <2>2. j \in Graph!Kept /\ Graph!Kept \in SUBSET (1..MaxPuts)
    BY <2>1 DEF Graph!Kept, Graph!Ids
  <2>3. Graph!Max(Graph!Kept) \in Graph!Kept /\ Graph!Max(Graph!Kept) >= j
    BY <2>2, GreatestIs
  <2>a. MaxPuts \in Nat /\ putAcked \subseteq 1..MaxPuts
    BY StorageAssumption DEF Graph!GraphAssumption, GraphInv, Graph!TypeOK, Graph!Ids
  <2>b. Graph!getTuple = Graph!Max(Graph!Kept)
    BY <2>2 DEF Graph!getTuple
  <2>c. PICK x \in 1..MaxPuts : Graph!getTuple = x /\ x >= j
    BY <2>2, <2>3, <2>b
  <2>4. Graph!getTuple \in Nat /\ Graph!getTuple >= j /\ i \in Nat /\ j \in Nat
    BY <2>a, <2>c DEF Graph!Ids
  <2> QED
    BY <2>1, <2>4
<1> QED
  BY <1>1 DEF GraphInv, WritesAreKept, ResumedThreadIsComplete, Graph!ResumedThreadIsComplete

\* A thread is resumed from a checkpoint at least as new as every acknowledged put, with every write that
\* putWrites acknowledged for it, wherever the calls of the saver failed or the process was restarted.
THEOREM ThreadsAreResumed == Spec => []ResumedThreadIsComplete
<1>1. Init => GraphInv
  BY GraphPart, GraphStart
<1>2. GraphInv /\ [Next]_StorageVars => GraphInv'
  BY GraphPart, GraphStep
<1> QED
  BY <1>1, <1>2, ThreadIsComplete, PTL DEF Spec, StorageVars

-----------------------------------------------------------------------------
(***************************************************************************)
(* The file that is replaced.                                              *)
(***************************************************************************)
Works(p) == fsPc[p] \in Replacing!Inside

\* What the holder of the lock knows of the file, where it is in its operation.
FilePhase(p) ==
    /\ fsPc[p] \notin {"recover", "recoverJournal", "done", "failed"} => fsOp[p] # NoFile
    /\ fsPc[p] \in {"recover", "recoverJournal"} => Replacing!Recovered = settled
    /\ fsPc[p] \in {"recoverJournal", "rename", "journal", "aside", "dropJournal", "undoJournal"} => backup = NoFile
    /\ fsPc[p] \in {"rename", "journal"} => ~journal
    /\ fsPc[p] \in {"rename", "journal", "aside", "undoJournal"} => dest = settled
    /\ fsPc[p] \in {"journal", "aside", "undoJournal"} => dest # NoFile
    /\ fsPc[p] \in {"aside", "replace", "dropBackup", "dropJournal", "restore"} => journal
    /\ fsPc[p] \in {"replace", "dropBackup"} => backup = settled /\ backup # NoFile
    /\ fsPc[p] = "replace" => dest = NoFile
    /\ fsPc[p] \in {"dropBackup", "dropJournal"} => dest = fsOp[p]
    /\ fsPc[p] = "restore" => \/ backup = settled /\ backup # NoFile /\ dest \in {NoFile, fsOp[p]}
                              \/ backup = NoFile /\ dest = fsOp[p]
    /\ fsPc[p] = "failed" => \/ Replacing!Recovered = settled
                             \/ fsOp[p] # NoFile /\ Replacing!Recovered = fsOp[p]
    /\ fsPc[p] = "done" => Replacing!Recovered = IF fsOp[p] = NoFile THEN settled ELSE fsOp[p]

\* Each write is of one process, which works on it from its call to its end.
WritesAreOwned ==
    /\ \A p \in Procs : fsOp[p] # NoFile => fsOp[p] \in 1..writes
    /\ \A p, q \in Procs : fsOp[p] = fsOp[q] /\ fsOp[p] # NoFile => p = q
    /\ \A p \in Procs : fsPc[p] \in {"idle", "dead"} => fsOp[p] = NoFile

FileInv ==
    /\ Replacing!TypeOK
    /\ WritesAreOwned
    /\ ~journal => backup = NoFile
    /\ (\A p \in Procs : ~Works(p)) => Replacing!Recovered = settled
    /\ \A p \in Procs : Works(p) => FilePhase(p)

\* Before the first write the file holds what was acknowledged, and no operation is under way.
LEMMA FileStart == Replacing!Init => FileInv /\ Replacing!File!Init
<1> SUFFICES ASSUME Replacing!Init PROVE FileInv /\ Replacing!File!Init
  OBVIOUS
<1>0. Replacing!FsAssumption
  BY StorageAssumption
<1>1. /\ \A p \in Procs : fsPc[p] = "idle" /\ fsOp[p] = NoFile /\ ~Works(p)
      /\ Replacing!Recovered = dest /\ settled = dest /\ fileAcked = dest /\ backup = NoFile
  BY DEF Replacing!Init, Replacing!Recovered, Works, Replacing!Inside
<1>2. Replacing!TypeOK
  <2>1. 0 \in 0..MaxWrites /\ 0 \in 0..MaxFaults
    BY <1>0 DEF Replacing!FsAssumption
  <2> QED
    BY <2>1 DEF Replacing!Init, Replacing!TypeOK, Replacing!Revisions
<1>3. {fsOp[p] : p \in Procs} \ {NoFile} = {}
  BY <1>1
<1>4. Replacing!File!Init
  BY <1>1, <1>3 DEF Replacing!File!Init
<1> QED
  BY <1>1, <1>2, <1>4 DEF FileInv, WritesAreOwned

\* The writes that are open, when a process begins or ends one.
LEMMA OpenWrites ==
    ASSUME FileInv, NEW p \in Procs, NEW new, fsOp' = [fsOp EXCEPT ![p] = new]
    PROVE  /\ new = fsOp[p] => {fsOp'[q] : q \in Procs} \ {NoFile} = {fsOp[q] : q \in Procs} \ {NoFile}
           /\ new # NoFile /\ fsOp[p] = NoFile =>
                {fsOp'[q] : q \in Procs} \ {NoFile} = ({fsOp[q] : q \in Procs} \ {NoFile}) \cup {new}
           /\ new = NoFile =>
                {fsOp'[q] : q \in Procs} \ {NoFile} = ({fsOp[q] : q \in Procs} \ {NoFile}) \ {fsOp[p]}
<1>1. fsOp'[p] = new /\ \A q \in Procs : q # p => fsOp'[q] = fsOp[q]
  BY DEF FileInv, Replacing!TypeOK
<1>2. \A q \in Procs : fsOp[q] = fsOp[p] /\ fsOp[q] # NoFile => q = p
  BY DEF FileInv, WritesAreOwned
<1>3. ASSUME new = fsOp[p]
      PROVE  {fsOp'[q] : q \in Procs} \ {NoFile} = {fsOp[q] : q \in Procs} \ {NoFile}
  <2>1. \A q \in Procs : fsOp'[q] = fsOp[q]
    BY <1>1, <1>3
  <2> QED
    BY <2>1
<1>4. ASSUME new # NoFile, fsOp[p] = NoFile
      PROVE  {fsOp'[q] : q \in Procs} \ {NoFile} = ({fsOp[q] : q \in Procs} \ {NoFile}) \cup {new}
  BY <1>1, <1>4
<1>5. ASSUME new = NoFile
      PROVE  {fsOp'[q] : q \in Procs} \ {NoFile} = ({fsOp[q] : q \in Procs} \ {NoFile}) \ {fsOp[p]}
  BY <1>1, <1>2, <1>5
<1> QED
  BY <1>3, <1>4, <1>5

\* A write begins, and it ends: its process gives it up where it has not worked on the file, or leaves
\* the file as it is.
LEMMA WriteBegins ==
    ASSUME FileInv, NEW p \in Procs, fsOp[p] = NoFile, writes' = writes + 1, writes' <= MaxWrites,
           fsOp' = [fsOp EXCEPT ![p] = writes'], UNCHANGED <<dest, backup, journal, settled, fileAcked>>
    PROVE  Replacing!File!Next
<1>1. writes' \in 1..MaxWrites /\ writes' # NoFile
  BY StorageAssumption DEF FileInv, Replacing!TypeOK, Replacing!FsAssumption
<1>2. {fsOp'[q] : q \in Procs} \ {NoFile} = ({fsOp[q] : q \in Procs} \ {NoFile}) \cup {writes'}
  BY <1>1, OpenWrites
<1>3. PICK c \in 1..MaxWrites : c = writes'
  BY <1>1
<1>4. Replacing!File!Begin(c)
  BY <1>2, <1>3 DEF Replacing!File!Begin, Replacing!Recovered
<1> QED
  BY <1>4, Zenon DEF Replacing!File!Next

\* A write that ends as a failure or a crash leaves the file as it was or with what it wrote, and one that is
\* acknowledged leaves what it wrote: each is a step of DurableFile.
LEMMA WriteEnds ==
    ASSUME FileInv, NEW p \in Procs, fsOp' = [fsOp EXCEPT ![p] = NoFile],
           Replacing!Recovered' = Replacing!Recovered,
           \/ settled' = settled /\ fileAcked' = fileAcked
           \/ /\ settled' = Replacing!Recovered /\ fileAcked' = fileAcked
              /\ fsOp[p] = NoFile => Replacing!Recovered = settled
           \/ /\ fsOp[p] # NoFile /\ Replacing!Recovered = fsOp[p]
              /\ settled' = Replacing!Recovered /\ fileAcked' = fsOp[p]
    PROVE  [Replacing!File!Next]_(Replacing!File!vars)
<1>1. {fsOp'[q] : q \in Procs} \ {NoFile} = ({fsOp[q] : q \in Procs} \ {NoFile}) \ {fsOp[p]}
  BY OpenWrites
<1>2. CASE fsOp[p] = NoFile
  <2>1. UNCHANGED Replacing!File!vars
    BY <1>1, <1>2 DEF Replacing!File!vars
  <2> QED
    BY <2>1
<1>3. CASE fsOp[p] # NoFile
  <2>1. fsOp[p] \in 1..MaxWrites /\ fsOp[p] \in {fsOp[q] : q \in Procs} \ {NoFile}
    BY <1>3, StorageAssumption DEF FileInv, WritesAreOwned, Replacing!TypeOK, Replacing!FsAssumption
  <2>2. PICK c \in 1..MaxWrites : c = fsOp[p]
    BY <2>1
  <2>3. Replacing!File!Abandon(c) \/ Replacing!File!Acknowledge(c)
    BY <1>1, <1>3, <2>1, <2>2 DEF Replacing!File!Abandon, Replacing!File!Acknowledge
  <2> QED
    BY <2>3, Zenon DEF Replacing!File!Next
<1> QED
  BY <1>2, <1>3

\* What a step of the holder inside the lock has to leave.
LEMMA HolderWorks ==
    ASSUME FileInv, Replacing!OneHolder, NEW p \in Procs, Works(p), NEW there \in Replacing!Inside,
           fsPc' = [fsPc EXCEPT ![p] = there], UNCHANGED <<fsOp, writes, fsLock, stale, settled, fileAcked>>,
           dest' \in Replacing!Revisions, backup' \in Replacing!Revisions, journal' \in BOOLEAN, fsFaults' \in 0..MaxFaults,
           ~journal' => backup' = NoFile, FilePhase(p)',
           \/ Replacing!Recovered' \in {Replacing!Recovered, settled}
           \/ fsOp[p] # NoFile /\ Replacing!Recovered' = fsOp[p]
    PROVE  FileInv' /\ [Replacing!File!Next]_(Replacing!File!vars)
<1>0. Replacing!TypeOK /\ WritesAreOwned
  BY DEF FileInv
<1>1. fsPc'[p] = there /\ \A q \in Procs : q # p => fsPc'[q] = fsPc[q] /\ ~Works(q)
  BY <1>0 DEF Replacing!TypeOK, Replacing!OneHolder, Works
<1>2. Works(p)' /\ \A q \in Procs : q # p => ~Works(q)'
  BY <1>1 DEF Works
<1>3. Replacing!TypeOK'
  BY <1>0 DEF Replacing!TypeOK
<1>4. WritesAreOwned'
  BY <1>0, <1>1 DEF WritesAreOwned, Replacing!Inside
<1>5. FileInv'
  BY <1>2, <1>3, <1>4 DEF FileInv
<1>6. CASE Replacing!Recovered' = Replacing!Recovered
  BY <1>5, <1>6 DEF Replacing!File!vars
<1>7. CASE Replacing!Recovered' = settled
  <2>1. Replacing!File!Move
    BY <1>7 DEF Replacing!File!Move
  <2> QED
    BY <1>5, <2>1, Zenon DEF Replacing!File!Next
<1>8. CASE fsOp[p] # NoFile /\ Replacing!Recovered' = fsOp[p]
  <2>1. Replacing!File!Move
    BY <1>8 DEF Replacing!File!Move
  <2> QED
    BY <1>5, <2>1, Zenon DEF Replacing!File!Next
<1> QED
  BY <1>5, <1>6, <1>7, <1>8

\* A step outside the lock leaves the file, and what its holder knows of it.
LEMMA OutsideWaits ==
    ASSUME FileInv, NEW p \in Procs, ~Works(p), NEW there \in {"idle", "open", "held", "steal"},
           fsPc' = [fsPc EXCEPT ![p] = there], fsOp' \in [Procs -> Replacing!Revisions],
           fsLock' \in Procs \cup {NoFile}, stale' \in BOOLEAN, writes' \in 0..MaxWrites, fsFaults' \in 0..MaxFaults,
           \A q \in Procs : q # p => fsOp'[q] = fsOp[q],
           WritesAreOwned', UNCHANGED <<dest, backup, journal, settled, fileAcked>>
    PROVE  FileInv'
<1>0. Replacing!TypeOK
  BY DEF FileInv
<1>1. fsPc'[p] = there /\ \A q \in Procs : q # p => fsPc'[q] = fsPc[q]
  BY <1>0 DEF Replacing!TypeOK
<1>2. \A q \in Procs : Works(q)' <=> Works(q)
  BY <1>1 DEF Works, Replacing!Inside
<1>3. Replacing!TypeOK'
  BY <1>0 DEF Replacing!TypeOK
<1>4. \A q \in Procs : Works(q) => FilePhase(q)'
  <2> SUFFICES ASSUME NEW q \in Procs, Works(q) PROVE FilePhase(q)'
    OBVIOUS
  <2>1. fsPc'[q] = fsPc[q] /\ fsOp'[q] = fsOp[q] /\ FilePhase(q)
    BY <1>1 DEF FileInv
  <2> QED
    BY <2>1 DEF FilePhase, Replacing!Recovered
<1>5. Replacing!Recovered' = Replacing!Recovered
  BY DEF Replacing!Recovered
<1> QED
  BY <1>2, <1>3, <1>4, <1>5 DEF FileInv

\* Who leaves the lock leaves the file as the next one finds it.
LEMMA HolderLeaves ==
    ASSUME FileInv, Replacing!OneHolder, NEW p \in Procs, Works(p), NEW there \in {"idle", "dead"},
           fsPc' = [fsPc EXCEPT ![p] = there], fsOp' = [fsOp EXCEPT ![p] = NoFile],
           settled' = Replacing!Recovered, UNCHANGED <<dest, backup, journal, writes>>,
           fsLock' \in Procs \cup {NoFile}, stale' \in BOOLEAN, fsFaults' \in 0..MaxFaults,
           fileAcked' \in Replacing!Revisions
    PROVE  FileInv'
<1>0. Replacing!TypeOK /\ WritesAreOwned
  BY DEF FileInv
<1>1. /\ fsPc'[p] = there /\ \A q \in Procs : q # p => fsPc'[q] = fsPc[q] /\ ~Works(q)
      /\ fsOp'[p] = NoFile /\ \A q \in Procs : q # p => fsOp'[q] = fsOp[q]
  BY <1>0 DEF Replacing!TypeOK, Replacing!OneHolder, Works
<1>2. \A q \in Procs : ~Works(q)'
  BY <1>1 DEF Works, Replacing!Inside
<1>3. Replacing!Recovered \in Replacing!Revisions /\ Replacing!Recovered' = Replacing!Recovered
  BY <1>0 DEF Replacing!TypeOK, Replacing!Recovered
<1>4. Replacing!TypeOK'
  <2>1. /\ fsPc' \in [Procs -> Replacing!Inside \cup {"idle", "open", "held", "steal", "dead"}]
        /\ fsOp' \in [Procs -> Replacing!Revisions]
    BY <1>0 DEF Replacing!TypeOK, Replacing!Revisions
  <2> QED
    BY <1>0, <1>3, <2>1 DEF Replacing!TypeOK
<1>5. WritesAreOwned'
  BY <1>0, <1>1 DEF WritesAreOwned
<1> QED
  BY <1>2, <1>3, <1>4, <1>5 DEF FileInv

\* What a write that ends outside, or that is not of this process, leaves.
LEMMA OwnedStill ==
    ASSUME FileInv, NEW p \in Procs, NEW there, fsPc' = [fsPc EXCEPT ![p] = there],
           \/ UNCHANGED <<fsOp, writes>> /\ there \notin {"idle", "dead"}
           \/ fsOp' = [fsOp EXCEPT ![p] = NoFile] /\ UNCHANGED writes
           \/ fsOp' = [fsOp EXCEPT ![p] = writes'] /\ writes' = writes + 1 /\ there \notin {"idle", "dead"}
    PROVE  WritesAreOwned' /\ \A q \in Procs : q # p => fsOp'[q] = fsOp[q]
<1>0. /\ WritesAreOwned /\ writes \in Nat /\ fsPc'[p] = there /\ \A q \in Procs : q # p => fsPc'[q] = fsPc[q]
      /\ DOMAIN fsOp = Procs /\ fsOp \in [Procs -> Replacing!Revisions]
  BY DEF FileInv, Replacing!TypeOK
<1>1. CASE UNCHANGED <<fsOp, writes>> /\ there \notin {"idle", "dead"}
  BY <1>0, <1>1 DEF WritesAreOwned
<1>2. CASE fsOp' = [fsOp EXCEPT ![p] = NoFile] /\ UNCHANGED writes
  <2>1. fsOp'[p] = NoFile /\ \A q \in Procs : q # p => fsOp'[q] = fsOp[q]
    BY <1>0, <1>2
  <2> QED
    BY <1>0, <1>2, <2>1 DEF WritesAreOwned
<1>3. CASE fsOp' = [fsOp EXCEPT ![p] = writes'] /\ writes' = writes + 1 /\ there \notin {"idle", "dead"}
  <2>1. fsOp'[p] = writes' /\ \A q \in Procs : q # p => fsOp'[q] = fsOp[q]
    BY <1>0, <1>3
  <2>2. \A q \in Procs : q # p /\ fsOp'[q] # NoFile => fsOp'[q] \in 1..writes
    BY <1>0, <2>1 DEF WritesAreOwned
  <2>3. \A q \in Procs : fsOp'[q] # NoFile => fsOp'[q] \in 1..writes'
    BY <1>0, <1>3, <2>1, <2>2
  <2>4. \A q \in Procs : q # p => fsOp'[q] # fsOp'[p]
    BY <1>0, <1>3, <2>1, <2>2, StorageAssumption DEF Replacing!FsAssumption
  <2> QED
    BY <1>0, <1>3, <2>1, <2>3, <2>4 DEF WritesAreOwned
<1> QED
  BY <1>1, <1>2, <1>3

FileStays == FileInv' /\ [Replacing!File!Next]_(Replacing!File!vars)

\* While one process at most is inside the lock, every step of atomicWriteFile, of its recovery and of a crash
\* keeps what the holder knows of the file, and is a step of DurableFile or none.
LEMMA FileStep ==
    ASSUME FileInv, Replacing!OneHolder, Replacing!OneHolder', [Replacing!Next]_replacingVars
    PROVE  FileStays
<1> USE DEF FileStays
<1>0. Replacing!TypeOK /\ WritesAreOwned /\ Replacing!FsAssumption
  BY StorageAssumption DEF FileInv
<1>f. ASSUME Replacing!NoFault \/ Replacing!Fault
      PROVE  fsFaults' \in 0..MaxFaults
  BY <1>0, <1>f DEF Replacing!NoFault, Replacing!Fault, Replacing!TypeOK, Replacing!FsAssumption
<1>s. ASSUME UNCHANGED <<dest, backup, journal, settled, fileAcked, fsOp>>
      PROVE  UNCHANGED Replacing!File!vars
  BY <1>s DEF Replacing!File!vars, Replacing!Recovered
<1>r. ASSUME UNCHANGED <<dest, backup, journal>>
      PROVE  Replacing!Recovered' = Replacing!Recovered
  BY <1>r DEF Replacing!Recovered
<1>1. CASE Replacing!LockAges
  <2>1. stale' = TRUE /\ UNCHANGED <<dest, backup, journal, settled, fileAcked, fsLock, fsPc, fsOp, writes, fsFaults>>
    BY <1>1 DEF Replacing!LockAges, Replacing!fileVars
  <2>2. Replacing!TypeOK'
    BY <1>0, <2>1 DEF Replacing!TypeOK
  <2>3. FileInv'
    BY <2>1, <2>2 DEF FileInv, WritesAreOwned, FilePhase, Works, Replacing!Recovered
  <2> QED
    BY <1>s, <2>1, <2>3
<1>2. ASSUME NEW p \in Procs, Replacing!Call(p)
      PROVE  FileStays
  <2>1. /\ fsPc[p] = "idle" /\ fsPc' = [fsPc EXCEPT ![p] = "open"] /\ ~Works(p) /\ fsOp[p] = NoFile
        /\ UNCHANGED <<dest, backup, journal, settled, fileAcked, fsLock, stale, fsFaults>>
    BY <1>0, <1>2 DEF Replacing!Call, Replacing!At, Replacing!To, Works, Replacing!Inside, WritesAreOwned,
                      Replacing!fileVars, Replacing!lockVars
  <2>2. CASE writes < MaxWrites /\ writes' = writes + 1 /\ fsOp' = [fsOp EXCEPT ![p] = writes + 1]
    <3>1. fsOp' = [fsOp EXCEPT ![p] = writes'] /\ writes' \in 0..MaxWrites /\ writes' <= MaxWrites
      BY <1>0, <2>2 DEF Replacing!TypeOK, Replacing!FsAssumption
    <3>2. WritesAreOwned' /\ \A q \in Procs : q # p => fsOp'[q] = fsOp[q]
      BY <2>1, <2>2, <3>1, OwnedStill
    <3>3. fsOp' \in [Procs -> Replacing!Revisions]
      BY <1>0, <3>1 DEF Replacing!TypeOK, Replacing!Revisions
    <3>4. FileInv'
      BY <1>0, <2>1, <3>1, <3>2, <3>3, OutsideWaits DEF Replacing!TypeOK
    <3> QED
      BY <2>1, <2>2, <3>1, <3>4, WriteBegins
  <2>3. CASE writes' = writes /\ fsOp' = [fsOp EXCEPT ![p] = NoFile]
    <3>1. fsOp' = fsOp
      BY <1>0, <2>1, <2>3 DEF Replacing!TypeOK
    <3>2. WritesAreOwned' /\ \A q \in Procs : q # p => fsOp'[q] = fsOp[q]
      BY <2>1, <2>3, OwnedStill
    <3>3. FileInv'
      BY <1>0, <2>1, <2>3, <3>1, <3>2, OutsideWaits DEF Replacing!TypeOK
    <3> QED
      BY <1>s, <2>1, <3>1, <3>3
  <2> QED
    BY <1>2, <2>2, <2>3 DEF Replacing!Call
\* Steps that wait for the lock, and those that give up.
<1>w. ASSUME NEW p \in Procs, ~Works(p), NEW there \in {"idle", "open", "held", "steal"},
             fsPc' = [fsPc EXCEPT ![p] = there], UNCHANGED <<dest, backup, journal, settled, fileAcked, writes>>,
             fsLock' \in Procs \cup {NoFile}, stale' \in BOOLEAN, fsFaults' \in 0..MaxFaults,
             \/ fsOp' = fsOp /\ there # "idle"
             \/ fsOp' = [fsOp EXCEPT ![p] = NoFile]
      PROVE  FileStays
  <2>1. WritesAreOwned' /\ \A q \in Procs : q # p => fsOp'[q] = fsOp[q]
    BY <1>w, OwnedStill
  <2>2. fsOp' \in [Procs -> Replacing!Revisions]
    BY <1>0, <1>w DEF Replacing!TypeOK, Replacing!Revisions
  <2>3. FileInv'
    BY <1>0, <1>w, <2>1, <2>2, OutsideWaits DEF Replacing!TypeOK
  <2>4. CASE fsOp' = fsOp
    BY <1>s, <1>w, <2>3, <2>4
  <2>5. CASE fsOp' = [fsOp EXCEPT ![p] = NoFile]
    BY <1>r, <1>w, <2>3, <2>5, WriteEnds
  <2> QED
    BY <1>w, <2>4, <2>5
<1>3. ASSUME NEW p \in Procs, Replacing!OpenLock(p)
      PROVE  FileStays
  <2>1. fsPc[p] = "open" /\ ~Works(p) /\ UNCHANGED <<dest, backup, journal, settled, fileAcked, writes>>
    BY <1>3 DEF Replacing!OpenLock, Replacing!At, Works, Replacing!Inside, Replacing!fileVars
  <2>2. CASE fsLock # NoFile /\ Replacing!To(p, "held") /\ Replacing!NoFault /\ UNCHANGED <<fsLock, stale, fsOp>>
    <3>1. fsLock' \in Procs \cup {NoFile} /\ stale' \in BOOLEAN /\ fsFaults' \in 0..MaxFaults
      BY <1>0, <1>f, <2>2 DEF Replacing!TypeOK
    <3> QED
      BY <1>w, <2>1, <2>2, <3>1 DEF Replacing!To
  <2>3. CASE fsLock = NoFile /\ fsLock' = p /\ stale' = FALSE /\ Replacing!To(p, "recover") /\ Replacing!NoFault
               /\ UNCHANGED fsOp
    <3>1. fsPc'[p] = "recover" /\ \A q \in Procs : q # p => fsPc'[q] = fsPc[q]
      BY <1>0, <2>3 DEF Replacing!To, Replacing!TypeOK
    <3>2. Works(p)' /\ \A q \in Procs : q # p => ~Works(q)' /\ ~Works(q)
      BY <3>1 DEF Works, Replacing!Inside, Replacing!OneHolder
    <3>3. Replacing!Recovered = settled /\ Replacing!Recovered' = Replacing!Recovered
      BY <1>r, <2>1, <3>2 DEF FileInv
    <3>4. Replacing!TypeOK'
      <4>1. fsPc' \in [Procs -> Replacing!Inside \cup {"idle", "open", "held", "steal", "dead"}]
        BY <1>0, <2>3 DEF Replacing!TypeOK, Replacing!To, Replacing!Inside
      <4> QED
        BY <1>0, <1>f, <2>1, <2>3, <4>1 DEF Replacing!TypeOK
    <3>5. WritesAreOwned'
      BY <1>0, <2>1, <2>3, <3>1 DEF WritesAreOwned
    <3>6. FilePhase(p)'
      BY <2>1, <3>1, <3>3 DEF FilePhase
    <3>7. FileInv'
      BY <2>1, <3>2, <3>3, <3>4, <3>5, <3>6 DEF FileInv
    <3> QED
      BY <1>s, <2>1, <2>3, <3>7
  <2>4. CASE fsLock' = p /\ stale' = FALSE /\ Replacing!To(p, "idle") /\ Replacing!Fault
               /\ fsOp' = [fsOp EXCEPT ![p] = NoFile]
    <3>1. fsFaults' \in 0..MaxFaults
      BY <1>f, <2>4
    <3> QED
      BY <1>w, <2>1, <2>4, <3>1 DEF Replacing!To
  <2> QED
    BY <1>3, <2>2, <2>3, <2>4 DEF Replacing!OpenLock, Replacing!lockVars
<1>4. ASSUME NEW p \in Procs, Replacing!LookAtLock(p)
      PROVE  FileStays
  <2> DEFINE there == IF fsLock # NoFile /\ stale THEN "steal" ELSE "open"
  <2>1. /\ ~Works(p) /\ there \in {"open", "steal"} /\ fsPc' = [fsPc EXCEPT ![p] = there]
        /\ UNCHANGED <<dest, backup, journal, settled, fileAcked, writes, fsLock, stale, fsOp, fsFaults>>
    BY <1>4 DEF Replacing!LookAtLock, Replacing!At, Replacing!To, Works, Replacing!Inside, Replacing!fileVars,
                Replacing!lockVars
  <2> HIDE DEF there
  <2> QED
    BY <1>0, <1>w, <2>1 DEF Replacing!TypeOK
<1>5. ASSUME NEW p \in Procs, Replacing!StealLock(p)
      PROVE  FileStays
  <2>1. /\ ~Works(p) /\ fsPc' = [fsPc EXCEPT ![p] = "open"] /\ fsLock' = NoFile /\ stale' = FALSE
        /\ UNCHANGED <<dest, backup, journal, settled, fileAcked, writes, fsOp, fsFaults>>
    BY <1>5 DEF Replacing!StealLock, Replacing!At, Replacing!To, Works, Replacing!Inside, Replacing!fileVars
  <2> QED
    BY <1>0, <1>w, <2>1 DEF Replacing!TypeOK
<1>6. ASSUME NEW p \in Procs, Replacing!LockTimesOut(p)
      PROVE  FileStays
  <2>1. /\ ~Works(p) /\ fsPc' = [fsPc EXCEPT ![p] = "idle"] /\ fsOp' = [fsOp EXCEPT ![p] = NoFile]
        /\ UNCHANGED <<dest, backup, journal, settled, fileAcked, writes, fsLock, stale, fsFaults>>
    BY <1>6 DEF Replacing!LockTimesOut, Replacing!At, Replacing!To, Works, Replacing!Inside, Replacing!fileVars,
                Replacing!lockVars
  <2> QED
    BY <1>0, <1>w, <2>1 DEF Replacing!TypeOK
\* Steps inside the lock.
<1>i. ASSUME NEW p \in Procs, Works(p), NEW there \in Replacing!Inside,
             Replacing!To(p, there), UNCHANGED <<fsOp, writes, fsLock, stale, settled, fileAcked>>,
             dest' \in Replacing!Revisions, backup' \in Replacing!Revisions, journal' \in BOOLEAN,
             Replacing!NoFault \/ Replacing!Fault,
             ~journal' => backup' = NoFile,
             \/ Replacing!Recovered' \in {Replacing!Recovered, settled}
             \/ fsOp[p] # NoFile /\ Replacing!Recovered' = fsOp[p],
             fsPc'[p] = there => FilePhase(p)'
      PROVE  FileStays
  <2>1. fsPc' = [fsPc EXCEPT ![p] = there] /\ fsPc'[p] = there
    BY <1>0, <1>i DEF Replacing!To, Replacing!TypeOK
  <2> QED
    BY <1>f, <1>i, <2>1, HolderWorks
<1>k. ASSUME NEW p \in Procs, Works(p)
      PROVE  /\ FilePhase(p) /\ dest \in Replacing!Revisions /\ backup \in Replacing!Revisions /\ journal \in BOOLEAN
             /\ fsOp[p] \in Replacing!Revisions /\ (~journal => backup = NoFile) /\ NoFile \in Replacing!Revisions
             /\ settled \in Replacing!Revisions
  BY <1>0, <1>k DEF FileInv, Replacing!TypeOK, Replacing!Revisions
<1>7. ASSUME NEW p \in Procs, Replacing!Recover(p)
      PROVE  FileStays
  <2>1. fsPc[p] = "recover" /\ Works(p) /\ UNCHANGED <<fsOp, writes, fsLock, stale, settled, fileAcked>>
    BY <1>7 DEF Replacing!Recover, Replacing!At, Works, Replacing!Inside, Replacing!lockVars
  <2>2. /\ FilePhase(p) /\ dest \in Replacing!Revisions /\ backup \in Replacing!Revisions /\ journal \in BOOLEAN
        /\ fsOp[p] \in Replacing!Revisions /\ (~journal => backup = NoFile) /\ NoFile \in Replacing!Revisions
        /\ settled \in Replacing!Revisions
    BY <1>k, <2>1
  <2>3. PICK there \in Replacing!Inside :
          /\ Replacing!To(p, there) /\ (Replacing!NoFault \/ Replacing!Fault)
          /\ fsPc'[p] = there => FilePhase(p)'
          /\ dest' \in Replacing!Revisions /\ backup' \in Replacing!Revisions /\ journal' \in BOOLEAN
          /\ ~journal' => backup' = NoFile
          /\ \/ Replacing!Recovered' \in {Replacing!Recovered, settled}
             \/ fsOp[p] # NoFile /\ Replacing!Recovered' = fsOp[p]
    <3> DEFINE next == IF fsOp[p] = NoFile THEN "done" ELSE "rename"
    <3>1. next \in Replacing!Inside /\ (Replacing!AfterRecovery(p) => Replacing!To(p, next))
      BY DEF Replacing!Inside, Replacing!AfterRecovery
    <3>2. next = "rename" => fsOp[p] # NoFile
      OBVIOUS
    <3>n. next \in {"done", "rename"} /\ (next = "done" => fsOp[p] = NoFile)
      OBVIOUS
    <3> HIDE DEF next
    <3>3. CASE ~journal /\ Replacing!AfterRecovery(p) /\ Replacing!NoFault /\ UNCHANGED <<dest, backup, journal>>
      BY <2>1, <2>2, <3>1, <3>2, <3>n, <3>3 DEF FilePhase, Replacing!Recovered
    <3>4. CASE /\ journal /\ backup = NoFile /\ journal' = FALSE /\ Replacing!AfterRecovery(p)
               /\ Replacing!NoFault /\ UNCHANGED <<dest, backup>>
      BY <2>1, <2>2, <3>1, <3>2, <3>n, <3>4 DEF FilePhase, Replacing!Recovered
    <3>5. CASE /\ journal /\ backup # NoFile /\ dest' = (IF dest = NoFile THEN backup ELSE dest)
               /\ backup' = NoFile /\ Replacing!To(p, "recoverJournal") /\ Replacing!NoFault /\ UNCHANGED journal
      BY <2>1, <2>2, <3>5 DEF FilePhase, Replacing!Recovered, Replacing!Inside
    <3>6. CASE journal /\ Replacing!Fault /\ Replacing!Failed(p) /\ UNCHANGED <<dest, backup, journal>>
      BY <2>1, <2>2, <3>6 DEF FilePhase, Replacing!Recovered, Replacing!Failed, Replacing!Inside
    <3> QED
      BY <1>7, <3>3, <3>4, <3>5, <3>6, Zenon DEF Replacing!Recover
  <2> QED
    BY <1>i, <2>1, <2>3
<1>8. ASSUME NEW p \in Procs, Replacing!RecoverJournal(p)
      PROVE  FileStays
  <2>1. fsPc[p] = "recoverJournal" /\ Works(p) /\ UNCHANGED <<fsOp, writes, fsLock, stale, settled, fileAcked>>
    BY <1>8 DEF Replacing!RecoverJournal, Replacing!At, Works, Replacing!Inside, Replacing!lockVars
  <2>2. /\ FilePhase(p) /\ dest \in Replacing!Revisions /\ backup \in Replacing!Revisions /\ journal \in BOOLEAN
        /\ fsOp[p] \in Replacing!Revisions /\ (~journal => backup = NoFile) /\ NoFile \in Replacing!Revisions
        /\ settled \in Replacing!Revisions
    BY <1>k, <2>1
  <2>3. PICK there \in Replacing!Inside :
          /\ Replacing!To(p, there) /\ (Replacing!NoFault \/ Replacing!Fault)
          /\ fsPc'[p] = there => FilePhase(p)'
          /\ dest' \in Replacing!Revisions /\ backup' \in Replacing!Revisions /\ journal' \in BOOLEAN
          /\ ~journal' => backup' = NoFile
          /\ \/ Replacing!Recovered' \in {Replacing!Recovered, settled}
             \/ fsOp[p] # NoFile /\ Replacing!Recovered' = fsOp[p]
    BY <1>8, <2>1, <2>2
      DEF Replacing!RecoverJournal, FilePhase, Replacing!Recovered, Replacing!AfterRecovery, Replacing!Failed, Replacing!Inside
  <2> QED
    BY <1>i, <2>1, <2>3
<1>9. ASSUME NEW p \in Procs, Replacing!Rename(p)
      PROVE  FileStays
  <2>1. fsPc[p] = "rename" /\ Works(p) /\ UNCHANGED <<fsOp, writes, fsLock, stale, settled, fileAcked>>
    BY <1>9 DEF Replacing!Rename, Replacing!At, Works, Replacing!Inside, Replacing!lockVars
  <2>2. /\ FilePhase(p) /\ dest \in Replacing!Revisions /\ backup \in Replacing!Revisions /\ journal \in BOOLEAN
        /\ fsOp[p] \in Replacing!Revisions /\ (~journal => backup = NoFile) /\ NoFile \in Replacing!Revisions
        /\ settled \in Replacing!Revisions
    BY <1>k, <2>1
  <2>3. PICK there \in Replacing!Inside :
          /\ Replacing!To(p, there) /\ (Replacing!NoFault \/ Replacing!Fault)
          /\ fsPc'[p] = there => FilePhase(p)'
          /\ dest' \in Replacing!Revisions /\ backup' \in Replacing!Revisions /\ journal' \in BOOLEAN
          /\ ~journal' => backup' = NoFile
          /\ \/ Replacing!Recovered' \in {Replacing!Recovered, settled}
             \/ fsOp[p] # NoFile /\ Replacing!Recovered' = fsOp[p]
    BY <1>9, <2>1, <2>2
      DEF Replacing!Rename, FilePhase, Replacing!Recovered, Replacing!AfterRecovery, Replacing!Failed, Replacing!Inside
  <2> QED
    BY <1>i, <2>1, <2>3
<1>10. ASSUME NEW p \in Procs, Replacing!WriteJournal(p)
      PROVE  FileStays
  <2>1. fsPc[p] = "journal" /\ Works(p) /\ UNCHANGED <<fsOp, writes, fsLock, stale, settled, fileAcked>>
    BY <1>10 DEF Replacing!WriteJournal, Replacing!At, Works, Replacing!Inside, Replacing!lockVars
  <2>2. /\ FilePhase(p) /\ dest \in Replacing!Revisions /\ backup \in Replacing!Revisions /\ journal \in BOOLEAN
        /\ fsOp[p] \in Replacing!Revisions /\ (~journal => backup = NoFile) /\ NoFile \in Replacing!Revisions
        /\ settled \in Replacing!Revisions
    BY <1>k, <2>1
  <2>3. PICK there \in Replacing!Inside :
          /\ Replacing!To(p, there) /\ (Replacing!NoFault \/ Replacing!Fault)
          /\ fsPc'[p] = there => FilePhase(p)'
          /\ dest' \in Replacing!Revisions /\ backup' \in Replacing!Revisions /\ journal' \in BOOLEAN
          /\ ~journal' => backup' = NoFile
          /\ \/ Replacing!Recovered' \in {Replacing!Recovered, settled}
             \/ fsOp[p] # NoFile /\ Replacing!Recovered' = fsOp[p]
    BY <1>10, <2>1, <2>2
      DEF Replacing!WriteJournal, FilePhase, Replacing!Recovered, Replacing!AfterRecovery, Replacing!Failed, Replacing!Inside
  <2> QED
    BY <1>i, <2>1, <2>3
<1>11. ASSUME NEW p \in Procs, Replacing!MoveAside(p)
      PROVE  FileStays
  <2>1. fsPc[p] = "aside" /\ Works(p) /\ UNCHANGED <<fsOp, writes, fsLock, stale, settled, fileAcked>>
    BY <1>11 DEF Replacing!MoveAside, Replacing!At, Works, Replacing!Inside, Replacing!lockVars
  <2>2. /\ FilePhase(p) /\ dest \in Replacing!Revisions /\ backup \in Replacing!Revisions /\ journal \in BOOLEAN
        /\ fsOp[p] \in Replacing!Revisions /\ (~journal => backup = NoFile) /\ NoFile \in Replacing!Revisions
        /\ settled \in Replacing!Revisions
    BY <1>k, <2>1
  <2>3. PICK there \in Replacing!Inside :
          /\ Replacing!To(p, there) /\ (Replacing!NoFault \/ Replacing!Fault)
          /\ fsPc'[p] = there => FilePhase(p)'
          /\ dest' \in Replacing!Revisions /\ backup' \in Replacing!Revisions /\ journal' \in BOOLEAN
          /\ ~journal' => backup' = NoFile
          /\ \/ Replacing!Recovered' \in {Replacing!Recovered, settled}
             \/ fsOp[p] # NoFile /\ Replacing!Recovered' = fsOp[p]
    BY <1>11, <2>1, <2>2
      DEF Replacing!MoveAside, FilePhase, Replacing!Recovered, Replacing!AfterRecovery, Replacing!Failed, Replacing!Inside
  <2> QED
    BY <1>i, <2>1, <2>3
<1>12. ASSUME NEW p \in Procs, Replacing!Replace(p)
      PROVE  FileStays
  <2>1. fsPc[p] = "replace" /\ Works(p) /\ UNCHANGED <<fsOp, writes, fsLock, stale, settled, fileAcked>>
    BY <1>12 DEF Replacing!Replace, Replacing!At, Works, Replacing!Inside, Replacing!lockVars
  <2>2. /\ FilePhase(p) /\ dest \in Replacing!Revisions /\ backup \in Replacing!Revisions /\ journal \in BOOLEAN
        /\ fsOp[p] \in Replacing!Revisions /\ (~journal => backup = NoFile) /\ NoFile \in Replacing!Revisions
        /\ settled \in Replacing!Revisions
    BY <1>k, <2>1
  <2>3. PICK there \in Replacing!Inside :
          /\ Replacing!To(p, there) /\ (Replacing!NoFault \/ Replacing!Fault)
          /\ fsPc'[p] = there => FilePhase(p)'
          /\ dest' \in Replacing!Revisions /\ backup' \in Replacing!Revisions /\ journal' \in BOOLEAN
          /\ ~journal' => backup' = NoFile
          /\ \/ Replacing!Recovered' \in {Replacing!Recovered, settled}
             \/ fsOp[p] # NoFile /\ Replacing!Recovered' = fsOp[p]
    BY <1>12, <2>1, <2>2
      DEF Replacing!Replace, FilePhase, Replacing!Recovered, Replacing!AfterRecovery, Replacing!Failed, Replacing!Inside
  <2> QED
    BY <1>i, <2>1, <2>3
<1>13. ASSUME NEW p \in Procs, Replacing!DropBackup(p)
      PROVE  FileStays
  <2>1. fsPc[p] = "dropBackup" /\ Works(p) /\ UNCHANGED <<fsOp, writes, fsLock, stale, settled, fileAcked>>
    BY <1>13 DEF Replacing!DropBackup, Replacing!At, Works, Replacing!Inside, Replacing!lockVars
  <2>2. /\ FilePhase(p) /\ dest \in Replacing!Revisions /\ backup \in Replacing!Revisions /\ journal \in BOOLEAN
        /\ fsOp[p] \in Replacing!Revisions /\ (~journal => backup = NoFile) /\ NoFile \in Replacing!Revisions
        /\ settled \in Replacing!Revisions
    BY <1>k, <2>1
  <2>3. PICK there \in Replacing!Inside :
          /\ Replacing!To(p, there) /\ (Replacing!NoFault \/ Replacing!Fault)
          /\ fsPc'[p] = there => FilePhase(p)'
          /\ dest' \in Replacing!Revisions /\ backup' \in Replacing!Revisions /\ journal' \in BOOLEAN
          /\ ~journal' => backup' = NoFile
          /\ \/ Replacing!Recovered' \in {Replacing!Recovered, settled}
             \/ fsOp[p] # NoFile /\ Replacing!Recovered' = fsOp[p]
    BY <1>13, <2>1, <2>2
      DEF Replacing!DropBackup, FilePhase, Replacing!Recovered, Replacing!AfterRecovery, Replacing!Failed, Replacing!Inside
  <2> QED
    BY <1>i, <2>1, <2>3
<1>14. ASSUME NEW p \in Procs, Replacing!DropJournal(p)
      PROVE  FileStays
  <2>1. fsPc[p] = "dropJournal" /\ Works(p) /\ UNCHANGED <<fsOp, writes, fsLock, stale, settled, fileAcked>>
    BY <1>14 DEF Replacing!DropJournal, Replacing!At, Works, Replacing!Inside, Replacing!lockVars
  <2>2. /\ FilePhase(p) /\ dest \in Replacing!Revisions /\ backup \in Replacing!Revisions /\ journal \in BOOLEAN
        /\ fsOp[p] \in Replacing!Revisions /\ (~journal => backup = NoFile) /\ NoFile \in Replacing!Revisions
        /\ settled \in Replacing!Revisions
    BY <1>k, <2>1
  <2>3. PICK there \in Replacing!Inside :
          /\ Replacing!To(p, there) /\ (Replacing!NoFault \/ Replacing!Fault)
          /\ fsPc'[p] = there => FilePhase(p)'
          /\ dest' \in Replacing!Revisions /\ backup' \in Replacing!Revisions /\ journal' \in BOOLEAN
          /\ ~journal' => backup' = NoFile
          /\ \/ Replacing!Recovered' \in {Replacing!Recovered, settled}
             \/ fsOp[p] # NoFile /\ Replacing!Recovered' = fsOp[p]
    BY <1>14, <2>1, <2>2
      DEF Replacing!DropJournal, FilePhase, Replacing!Recovered, Replacing!AfterRecovery, Replacing!Failed, Replacing!Inside
  <2> QED
    BY <1>i, <2>1, <2>3
<1>15. ASSUME NEW p \in Procs, Replacing!Restore(p)
      PROVE  FileStays
  <2>1. fsPc[p] = "restore" /\ Works(p) /\ UNCHANGED <<fsOp, writes, fsLock, stale, settled, fileAcked>>
    BY <1>15 DEF Replacing!Restore, Replacing!At, Works, Replacing!Inside, Replacing!lockVars
  <2>2. /\ FilePhase(p) /\ dest \in Replacing!Revisions /\ backup \in Replacing!Revisions /\ journal \in BOOLEAN
        /\ fsOp[p] \in Replacing!Revisions /\ (~journal => backup = NoFile) /\ NoFile \in Replacing!Revisions
        /\ settled \in Replacing!Revisions
    BY <1>k, <2>1
  <2>3. PICK there \in Replacing!Inside :
          /\ Replacing!To(p, there) /\ (Replacing!NoFault \/ Replacing!Fault)
          /\ fsPc'[p] = there => FilePhase(p)'
          /\ dest' \in Replacing!Revisions /\ backup' \in Replacing!Revisions /\ journal' \in BOOLEAN
          /\ ~journal' => backup' = NoFile
          /\ \/ Replacing!Recovered' \in {Replacing!Recovered, settled}
             \/ fsOp[p] # NoFile /\ Replacing!Recovered' = fsOp[p]
    BY <1>15, <2>1, <2>2
      DEF Replacing!Restore, FilePhase, Replacing!Recovered, Replacing!AfterRecovery, Replacing!Failed, Replacing!Inside
  <2> QED
    BY <1>i, <2>1, <2>3
<1>16. ASSUME NEW p \in Procs, Replacing!UndoJournal(p)
      PROVE  FileStays
  <2>1. fsPc[p] = "undoJournal" /\ Works(p) /\ UNCHANGED <<fsOp, writes, fsLock, stale, settled, fileAcked>>
    BY <1>16 DEF Replacing!UndoJournal, Replacing!At, Works, Replacing!Inside, Replacing!lockVars
  <2>2. /\ FilePhase(p) /\ dest \in Replacing!Revisions /\ backup \in Replacing!Revisions /\ journal \in BOOLEAN
        /\ fsOp[p] \in Replacing!Revisions /\ (~journal => backup = NoFile) /\ NoFile \in Replacing!Revisions
        /\ settled \in Replacing!Revisions
    BY <1>k, <2>1
  <2>3. PICK there \in Replacing!Inside :
          /\ Replacing!To(p, there) /\ (Replacing!NoFault \/ Replacing!Fault)
          /\ fsPc'[p] = there => FilePhase(p)'
          /\ dest' \in Replacing!Revisions /\ backup' \in Replacing!Revisions /\ journal' \in BOOLEAN
          /\ ~journal' => backup' = NoFile
          /\ \/ Replacing!Recovered' \in {Replacing!Recovered, settled}
             \/ fsOp[p] # NoFile /\ Replacing!Recovered' = fsOp[p]
    BY <1>16, <2>1, <2>2
      DEF Replacing!UndoJournal, FilePhase, Replacing!Recovered, Replacing!AfterRecovery, Replacing!Failed, Replacing!Inside
  <2> QED
    BY <1>i, <2>1, <2>3
<1>17. ASSUME NEW p \in Procs, Replacing!Release(p)
      PROVE  FileStays
  <2>1. /\ Works(p) /\ fsPc[p] \in {"done", "failed"} /\ fsPc' = [fsPc EXCEPT ![p] = "idle"]
        /\ fsOp' = [fsOp EXCEPT ![p] = NoFile]
        /\ settled' = Replacing!Recovered /\ UNCHANGED <<dest, backup, journal, writes>>
        /\ fsFaults' \in 0..MaxFaults
    BY <1>17, <1>f DEF Replacing!Release, Replacing!To, Works, Replacing!Inside
  <2>2. fsLock' \in Procs \cup {NoFile} /\ stale' \in BOOLEAN
    BY <1>0, <1>17 DEF Replacing!Release, Replacing!TypeOK, Replacing!lockVars
  <2>3. fileAcked' = fileAcked \/ (fileAcked' = fsOp[p] /\ fsPc[p] = "done" /\ fsOp[p] # NoFile)
    BY <1>17 DEF Replacing!Release, Replacing!At
  <2>4. FilePhase(p) /\ fsOp[p] \in Replacing!Revisions /\ fileAcked' \in Replacing!Revisions
    BY <1>0, <1>k, <2>1, <2>3 DEF Replacing!TypeOK
  <2>5. FileInv'
    BY <2>1, <2>2, <2>4, HolderLeaves
  <2>6. /\ fsOp[p] = NoFile => Replacing!Recovered = settled
        /\ fsPc[p] = "done" /\ fsOp[p] # NoFile => Replacing!Recovered = fsOp[p]
    BY <2>1, <2>4 DEF FilePhase
  <2> QED
    BY <1>r, <2>1, <2>3, <2>5, <2>6, WriteEnds
<1>18. ASSUME NEW p \in Procs, Replacing!Crash(p)
      PROVE  FileStays
  <2>1. /\ fsPc[p] \notin {"idle", "dead"} /\ fsPc' = [fsPc EXCEPT ![p] = "dead"]
        /\ settled' = (IF Works(p) THEN Replacing!Recovered ELSE settled)
        /\ fsOp' = [fsOp EXCEPT ![p] = NoFile]
        /\ UNCHANGED <<dest, backup, journal, fsLock, stale, writes, fsFaults, fileAcked>>
    BY <1>18 DEF Replacing!Crash, Replacing!To, Replacing!lockVars, Works
  <2>2. CASE Works(p)
    <3>1. fsLock' \in Procs \cup {NoFile} /\ stale' \in BOOLEAN /\ fsFaults' \in 0..MaxFaults
          /\ fileAcked' \in Replacing!Revisions
      BY <1>0, <2>1 DEF Replacing!TypeOK
    <3>2. FileInv'
      BY <2>1, <2>2, <3>1, HolderLeaves
    <3>3. fsOp[p] = NoFile => Replacing!Recovered = settled
      BY <1>k, <2>2 DEF FilePhase
    <3> QED
      BY <1>r, <2>1, <2>2, <3>2, <3>3, WriteEnds
  <2>3. CASE ~Works(p)
    <3>1. WritesAreOwned' /\ \A q \in Procs : q # p => fsOp'[q] = fsOp[q]
      BY <2>1, OwnedStill
    <3>2. /\ fsPc'[p] = "dead" /\ \A q \in Procs : q # p => fsPc'[q] = fsPc[q]
          /\ fsOp' \in [Procs -> Replacing!Revisions]
          /\ fsPc' \in [Procs -> Replacing!Inside \cup {"idle", "open", "held", "steal", "dead"}]
      BY <1>0, <2>1 DEF Replacing!TypeOK, Replacing!Revisions
    <3>3. \A q \in Procs : Works(q)' <=> Works(q)
      BY <2>3, <3>2 DEF Works, Replacing!Inside
    <3>4. Replacing!TypeOK'
      BY <1>0, <2>1, <2>3, <3>2 DEF Replacing!TypeOK
    <3>5. Replacing!Recovered' = Replacing!Recovered /\ settled' = settled
      BY <1>r, <2>1, <2>3
    <3>6. \A q \in Procs : Works(q) => FilePhase(q)'
      <4> SUFFICES ASSUME NEW q \in Procs, Works(q) PROVE FilePhase(q)'
        OBVIOUS
      <4>1. fsPc'[q] = fsPc[q] /\ fsOp'[q] = fsOp[q] /\ FilePhase(q)
        BY <2>3, <3>1, <3>2 DEF FileInv
      <4> QED
        BY <2>1, <3>5, <4>1 DEF FilePhase
    <3>7. FileInv'
      BY <2>1, <3>1, <3>3, <3>4, <3>5, <3>6 DEF FileInv
    <3> QED
      BY <2>1, <3>5, <3>7, WriteEnds
  <2> QED
    BY <2>2, <2>3
<1>19. CASE UNCHANGED replacingVars
  <2>1. UNCHANGED <<dest, backup, journal, fsLock, stale, fsPc, fsOp, writes, fsFaults, settled, fileAcked>>
    BY <1>19 DEF replacingVars
  <2>2. FileInv'
    BY <2>1 DEF FileInv, Replacing!TypeOK, WritesAreOwned, FilePhase, Works, Replacing!Recovered
  <2> QED
    BY <1>s, <2>1, <2>2
<1> QED
  BY <1>1, <1>2, <1>3, <1>4, <1>5, <1>6, <1>7, <1>8, <1>9, <1>10, <1>11, <1>12, <1>13, <1>14, <1>15, <1>16,
     <1>17, <1>18, <1>19, Zenon DEF Replacing!Next

\* As long as withFileLock excludes, for any number of processes and of crashes and with faults of the lock's
\* own files, a file that atomicWriteFile replaces is durable: a reader that recovers it finds the last write
\* that was acknowledged or one that was not yet, and never a mixture or nothing.
THEOREM FileIsDurableUnderExclusion == Spec /\ []OneHolder => FileIsDurable
<1>1. Init => FileInv /\ Replacing!File!Init
  BY ReplacingPart, FileStart
<1>2. FileInv /\ OneHolder /\ OneHolder' /\ [Next]_StorageVars
        => FileInv' /\ [Replacing!File!Next]_(Replacing!File!vars)
  BY ReplacingPart, FileStep DEF OneHolder, FileStays
<1> QED
  BY <1>1, <1>2, PTL DEF Spec, StorageVars, FileIsDurable, Replacing!FileIsDurable, Replacing!File!Spec

\* Where the stale lock of a dead process cannot be taken for the lock of a living one: the lock's own files do
\* not fail, and either no process dies or there are no two processes left to compete for what it left behind.
FewProcesses ==
    /\ ~LockFaults
    /\ MaxCrashes = 0 \/ \A p, q, r \in Procs : p = q \/ q = r \/ p = r

\* A process works on the file with its own lock, a lock is left behind only by a process that died, and
\* who is about to remove a lock has seen a dead process.
HolderInv ==
    /\ \A p \in Procs : Works(p) => fsLock = p
    /\ fsLock # NoFile => Works(fsLock) \/ fsPc[fsLock] = "dead"
    /\ stale => fsLock # NoFile /\ fsPc[fsLock] = "dead"
    /\ \A p \in Procs : fsPc[p] = "steal" => \E q \in Procs : fsPc[q] = "dead"
    /\ MaxCrashes = 0 => \A p \in Procs : fsPc[p] # "dead"

\* A process that is not dead moves to a place that is neither dead nor the removal of a lock, and keeps
\* the lock that it works with.
LEMMA HolderMoves ==
    ASSUME Replacing!TypeOK, HolderInv, NEW p \in Procs,
           NEW there \in Replacing!Inside \cup {"idle", "open", "held", "steal"},
           fsPc' = [fsPc EXCEPT ![p] = there], fsPc[p] # "dead", there = "steal" => stale,
           \/ UNCHANGED <<fsLock, stale>> /\ (Works(p) <=> there \in Replacing!Inside)
           \/ fsLock = NoFile /\ fsLock' = p /\ stale' = FALSE /\ there \in Replacing!Inside
           \/ Works(p) /\ fsLock' = NoFile /\ stale' = FALSE /\ there \notin Replacing!Inside
    PROVE  HolderInv'
<1>d. there # "dead"
  BY DEF Replacing!Inside
<1>0. /\ fsPc'[p] = there /\ \A q \in Procs : q # p => fsPc'[q] = fsPc[q]
      /\ fsLock \in Procs \cup {NoFile} /\ NoFile \notin Procs
      /\ \A q \in Procs : fsPc'[q] = "dead" <=> fsPc[q] = "dead"
  BY <1>d, StorageAssumption DEF Replacing!TypeOK, Replacing!FsAssumption
<1>1. /\ Works(p)' <=> there \in Replacing!Inside
      /\ \A q \in Procs : q # p => (Works(q)' <=> Works(q))
  BY <1>0 DEF Works, Replacing!Inside
<1>2. \A q \in Procs : Works(q)' => fsLock' = q
  BY <1>0, <1>1 DEF HolderInv
<1>3. fsLock' # NoFile => Works(fsLock)' \/ fsPc'[fsLock'] = "dead"
  BY <1>0, <1>1 DEF HolderInv, Works
<1>4. stale' => fsLock' # NoFile /\ fsPc'[fsLock'] = "dead"
  BY <1>0 DEF HolderInv
<1>5. \A q \in Procs : fsPc'[q] = "steal" => \E r \in Procs : fsPc'[r] = "dead"
  BY <1>0 DEF HolderInv
<1> QED
  BY <1>0, <1>2, <1>3, <1>4, <1>5 DEF HolderInv

\* With few processes no step of withFileLock, of the write inside it or of a crash gives the lock to two.
LEMMA HolderStep ==
    ASSUME FewProcesses, Replacing!TypeOK, HolderInv, [Replacing!Next]_replacingVars
    PROVE  HolderInv'
<1>0. Replacing!FsAssumption /\ ~LockFaults
  BY StorageAssumption DEF FewProcesses
<1>w. ASSUME NEW p \in Procs, NEW there \in {"idle", "open", "held", "steal"},
             fsPc' = [fsPc EXCEPT ![p] = there],
             UNCHANGED <<fsLock, stale>>, ~Works(p), fsPc[p] # "dead", there = "steal" => stale
      PROVE  HolderInv'
  <2>1. there \notin Replacing!Inside
    BY <1>w DEF Replacing!Inside
  <2> QED
    BY <1>w, <2>1, HolderMoves
<1>1. CASE Replacing!LockAges
  <2>1. /\ fsLock # NoFile /\ fsPc[fsLock] \notin Replacing!Inside /\ fsLock \in Procs
        /\ UNCHANGED <<fsLock, fsPc>>
    BY <1>1 DEF Replacing!LockAges, Replacing!TypeOK
  <2> QED
    BY <2>1 DEF HolderInv, Works
<1>2. ASSUME NEW p \in Procs, Replacing!Call(p)
      PROVE  HolderInv'
  <2>1. /\ fsPc[p] = "idle" /\ fsPc' = [fsPc EXCEPT ![p] = "open"] /\ UNCHANGED <<fsLock, stale>> /\ ~Works(p)
    BY <1>2 DEF Replacing!Call, Replacing!At, Replacing!To, Replacing!lockVars, Works, Replacing!Inside
  <2> QED
    BY <1>w, <2>1
<1>3. ASSUME NEW p \in Procs, Replacing!OpenLock(p)
      PROVE  HolderInv'
  <2>1. fsPc[p] = "open" /\ ~Works(p)
    BY <1>3 DEF Replacing!OpenLock, Replacing!At, Works, Replacing!Inside
  <2>2. CASE fsLock # NoFile /\ Replacing!To(p, "held") /\ UNCHANGED <<fsLock, stale>>
    BY <1>w, <2>1, <2>2 DEF Replacing!To
  <2>3. CASE fsLock = NoFile /\ fsLock' = p /\ stale' = FALSE /\ Replacing!To(p, "recover")
    <3>1. "recover" \in Replacing!Inside /\ fsPc[p] # "dead" /\ fsPc' = [fsPc EXCEPT ![p] = "recover"]
      BY <2>1, <2>3 DEF Replacing!Inside, Replacing!To
    <3>2. \A there \in Replacing!Inside : fsPc' = [fsPc EXCEPT ![p] = there] /\ there # "steal" => HolderInv'
      BY <2>3, <3>1, HolderMoves
    <3> QED
      BY <3>1, <3>2
  <2> QED
    BY <1>0, <1>3, <2>2, <2>3 DEF Replacing!OpenLock, Replacing!lockVars
<1>4. ASSUME NEW p \in Procs, Replacing!LookAtLock(p)
      PROVE  HolderInv'
  <2> DEFINE there == IF fsLock # NoFile /\ stale THEN "steal" ELSE "open"
  <2>1. /\ fsPc[p] = "held" /\ fsPc' = [fsPc EXCEPT ![p] = there] /\ UNCHANGED <<fsLock, stale>>
        /\ ~Works(p)
    BY <1>4 DEF Replacing!LookAtLock, Replacing!At, Replacing!To, Replacing!lockVars, Works, Replacing!Inside
  <2>2. there \in {"open", "steal"} /\ (there = "steal" => stale)
    OBVIOUS
  <2> HIDE DEF there
  <2> QED
    BY <1>w, <2>1, <2>2
<1>5. ASSUME NEW p \in Procs, Replacing!StealLock(p)
      PROVE  HolderInv'
  <2>1. /\ fsPc[p] = "steal" /\ fsPc' = [fsPc EXCEPT ![p] = "open"] /\ fsLock' = NoFile /\ stale' = FALSE
    BY <1>5 DEF Replacing!StealLock, Replacing!At, Replacing!To
  <2>2. fsPc'[p] = "open" /\ \A q \in Procs : q # p => fsPc'[q] = fsPc[q]
    BY <2>1 DEF Replacing!TypeOK
  <2>3. PICK d \in Procs : fsPc[d] = "dead"
    BY <2>1 DEF HolderInv
  <2>4. \A r \in Procs : r = p \/ r = d
    BY <2>1, <2>3 DEF FewProcesses, HolderInv
  <2>5. \A r \in Procs : ~Works(r)'
    BY <2>1, <2>2, <2>3, <2>4 DEF Works, Replacing!Inside
  <2>6. MaxCrashes = 0 => \A r \in Procs : fsPc'[r] # "dead"
    BY <2>3 DEF HolderInv
  <2>7. \A r \in Procs : fsPc'[r] # "steal"
    BY <2>1, <2>2, <2>3, <2>4
  <2> QED
    BY <2>1, <2>5, <2>6, <2>7 DEF HolderInv
<1>6. ASSUME NEW p \in Procs, Replacing!LockTimesOut(p)
      PROVE  HolderInv'
  <2>1. /\ fsPc[p] = "open" /\ fsPc' = [fsPc EXCEPT ![p] = "idle"] /\ UNCHANGED <<fsLock, stale>> /\ ~Works(p)
    BY <1>6 DEF Replacing!LockTimesOut, Replacing!At, Replacing!To, Replacing!lockVars, Works, Replacing!Inside
  <2> QED
    BY <1>w, <2>1
<1>i. ASSUME NEW p \in Procs, Works(p), NEW there \in Replacing!Inside, Replacing!To(p, there),
             UNCHANGED Replacing!lockVars
      PROVE  HolderInv'
  <2>1. fsPc[p] # "dead" /\ there # "dead" /\ there # "steal" /\ UNCHANGED <<fsLock, stale>>
    BY <1>i DEF Works, Replacing!Inside, Replacing!lockVars
  <2> QED
    BY <1>i, <2>1, HolderMoves DEF Replacing!To
<1>7. ASSUME NEW p \in Procs,
             \/ Replacing!Recover(p) \/ Replacing!RecoverJournal(p) \/ Replacing!Rename(p)
             \/ Replacing!WriteJournal(p) \/ Replacing!MoveAside(p) \/ Replacing!Replace(p)
             \/ Replacing!DropBackup(p) \/ Replacing!DropJournal(p) \/ Replacing!Restore(p)
             \/ Replacing!UndoJournal(p)
      PROVE  HolderInv'
  <2>1. Works(p) /\ UNCHANGED Replacing!lockVars
    BY <1>7 DEF Replacing!Recover, Replacing!RecoverJournal, Replacing!Rename, Replacing!WriteJournal,
                Replacing!MoveAside, Replacing!Replace, Replacing!DropBackup, Replacing!DropJournal,
                Replacing!Restore, Replacing!UndoJournal, Replacing!At, Works, Replacing!Inside
  <2>2. Replacing!AfterRecovery(p) => \E there \in Replacing!Inside : Replacing!To(p, there)
    BY DEF Replacing!AfterRecovery, Replacing!Inside
  <2>3. \E there \in Replacing!Inside : Replacing!To(p, there)
    BY <1>7, <2>2 DEF Replacing!Recover, Replacing!RecoverJournal, Replacing!Rename, Replacing!WriteJournal,
                Replacing!MoveAside, Replacing!Replace, Replacing!DropBackup, Replacing!DropJournal,
                Replacing!Restore, Replacing!UndoJournal, Replacing!Failed, Replacing!Inside
  <2> QED
    BY <1>i, <2>1, <2>3
<1>8. ASSUME NEW p \in Procs, Replacing!Release(p)
      PROVE  HolderInv'
  <2>1. /\ Works(p) /\ fsPc[p] # "dead" /\ fsPc' = [fsPc EXCEPT ![p] = "idle"]
        /\ fsLock' = NoFile /\ stale' = FALSE
    BY <1>0, <1>8 DEF Replacing!Release, Replacing!To, Works, Replacing!Inside
  <2>2. \A there \in {"idle"} : fsPc' = [fsPc EXCEPT ![p] = there] => HolderInv'
    <3>1. "idle" \notin Replacing!Inside
      BY DEF Replacing!Inside
    <3> QED
      BY <2>1, <3>1, HolderMoves
  <2> QED
    BY <2>1, <2>2
<1>9. ASSUME NEW p \in Procs, Replacing!Crash(p)
      PROVE  HolderInv'
  <2>1. /\ fsPc[p] # "dead" /\ fsPc' = [fsPc EXCEPT ![p] = "dead"] /\ UNCHANGED <<fsLock, stale>>
    BY <1>9 DEF Replacing!Crash, Replacing!To, Replacing!lockVars
  <2>2. fsPc'[p] = "dead" /\ \A q \in Procs : q # p => fsPc'[q] = fsPc[q]
    BY <2>1 DEF Replacing!TypeOK
  <2>3. MaxCrashes # 0
    <3> SUFFICES ASSUME MaxCrashes = 0 PROVE FALSE
      OBVIOUS
    <3>1. {q \in Procs : Replacing!At(q, "dead")} = {}
      BY DEF HolderInv, Replacing!At
    <3>2. Replacing!Cardinality({q \in Procs : Replacing!At(q, "dead")}) = 0
      BY <3>1, FS_EmptySet, Zenon DEF Replacing!Cardinality, Cardinality
    <3>3. Replacing!Cardinality({q \in Procs : Replacing!At(q, "dead")}) < MaxCrashes
      BY <1>9, Zenon DEF Replacing!Crash
    <3> QED
      BY <3>2, <3>3
  <2>4. ~Works(p)' /\ \A q \in Procs : q # p => (Works(q)' <=> Works(q))
    BY <2>2 DEF Works, Replacing!Inside
  <2>5. fsLock \in Procs \cup {NoFile}
    BY DEF Replacing!TypeOK
  <2>6. \A q \in Procs : Works(q)' => fsLock' = q
    BY <2>1, <2>4 DEF HolderInv
  <2>7. fsLock' # NoFile => Works(fsLock)' \/ fsPc'[fsLock'] = "dead"
    BY <2>1, <2>2, <2>4, <2>5 DEF HolderInv, Works
  <2> QED
    BY <2>1, <2>2, <2>3, <2>5, <2>6, <2>7 DEF HolderInv
<1>10. CASE UNCHANGED replacingVars
  BY <1>10 DEF replacingVars, HolderInv, Works
<1> QED
  BY <1>1, <1>2, <1>3, <1>4, <1>5, <1>6, <1>7, <1>8, <1>9, <1>10, Zenon DEF Replacing!Next

\* Before the first call nobody holds the lock.
LEMMA HolderIsOne == Replacing!Init => HolderInv
BY StorageAssumption DEF Replacing!Init, HolderInv, Works, Replacing!Inside

\* withFileLock excludes where FewProcesses holds. With three processes and a crash it does not: two of them
\* may find the same stale lock, and the slower one removes the lock that the faster one has just taken.
THEOREM LockIsExclusive ==
    ASSUME FewProcesses
    PROVE  Spec => []OneHolder
<1>1. Init => FileInv /\ HolderInv
  BY ReplacingPart, FileStart, HolderIsOne
<1>2. HolderInv => Replacing!OneHolder
  BY DEF HolderInv, Replacing!OneHolder, Works
<1>3. FileInv /\ HolderInv /\ [Next]_StorageVars => HolderInv'
  BY ReplacingPart, HolderStep DEF FileInv
<1>4. HolderInv' => Replacing!OneHolder'
  BY DEF HolderInv, Replacing!OneHolder, Works
<1>5. FileInv /\ HolderInv /\ [Next]_StorageVars => FileInv'
  BY <1>2, <1>3, <1>4, ReplacingPart, FileStep DEF FileStays
<1> QED
  BY <1>1, <1>2, <1>3, <1>5, PTL DEF Spec, StorageVars, OneHolder

\* So the file is durable with few processes, without any hypothesis on the behaviour.
THEOREM FileIsDurableForFew ==
    ASSUME FewProcesses
    PROVE  Spec => FileIsDurable
BY LockIsExclusive, FileIsDurableUnderExclusion, PTL
=============================================================================
