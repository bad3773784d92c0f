--------------------------- MODULE StreamProcessor ---------------------------
(***************************************************************************)
(* processAgentStream (stream-processor.ts): the events of one stream of   *)
(* the graph become the text and the activity the user sees.  Text comes   *)
(* in chunks that are cut anywhere; DeepSeek mixes its tool protocol into  *)
(* it, and may leave it open; a retried reporter repeats itself; updates   *)
(* are delivered again; the checkpoint has the last word.                  *)
(***************************************************************************)
EXTENDS Naturals, Sequences, FiniteSets, SequencesExt

CONSTANTS
    Blocks,      \* what a message block may say, as sequences of characters
    Reports,     \* the report of the checkpoint
    CallIds,     \* tool call ids
    MaxBlocks,   \* bound: message blocks of a stream
    MaxUpdates   \* bound: updates of a stream

\* The characters: prose, the markup of the two markers, and text of the protocol.
Open == <<"<", "D">>
Close == <<"<", "/", "D">>
Separator == <<"-">>

StreamAssumption ==
    /\ \A text \in Blocks \cup Reports : text \in Seq({"a", "b", "<", "/", "D", "p"})
    /\ MaxBlocks \in Nat /\ MaxUpdates \in Nat

VARIABLES
    whole,      \* the text of the block under way
    toCome,     \* what of it is still to come
    inBlock,
    said,       \* currentMessageBlock is not empty
    pending, protocol,   \* deepSeekPublicPending, deepSeekPublicProtocol
    safeBlock, emitted, previous,  \* of the public block
    full,       \* fullResponse: what the user has been shown
    finishTask, \* finishTaskCompleted
    accepted,   \* reportFindingsAccepted
    waiting,    \* pendingToolCalls
    seenCalls, seenResults,
    shownCalls, shownResults,   \* how often the user has seen each
    result,     \* how the stream ended
    blocks, updates,  \* counters of the bounds
    heard,      \* history: the text of the model so far, each block once
    startedOpen, \* history: the block under way began within markup, or half a marker
    again       \* history: a block that ends what began before it, or ends in half a marker, was filtered twice

text == <<whole, toCome, inBlock, said, pending, protocol, safeBlock, emitted, previous, full, heard, startedOpen, again>>
tools == <<finishTask, accepted, waiting, seenCalls, seenResults, shownCalls, shownResults>>
streamVars == <<text, tools, result, blocks, updates>>

TypeOK ==
    /\ inBlock \in BOOLEAN /\ said \in BOOLEAN /\ startedOpen \in BOOLEAN /\ again \in BOOLEAN
    /\ protocol \in BOOLEAN /\ emitted \in BOOLEAN
    /\ Len(pending) < Len(Close)
    /\ finishTask \in BOOLEAN /\ accepted \in BOOLEAN
    /\ waiting \subseteq seenCalls /\ seenCalls \cup seenResults \subseteq CallIds
    /\ result \in {"streaming", "report", "unreported", "interrupted", "failed"}
    /\ blocks \in 0..MaxBlocks /\ updates \in 0..MaxUpdates

Init ==
    /\ whole = <<>> /\ toCome = <<>> /\ inBlock = FALSE /\ said = FALSE
    /\ heard = <<>> /\ startedOpen = FALSE /\ again = FALSE /\ pending = <<>> /\ protocol = FALSE
    /\ safeBlock = <<>> /\ emitted = FALSE /\ previous = <<>> /\ full = <<>>
    /\ finishTask = FALSE /\ accepted = TRUE /\ waiting = {} /\ seenCalls = {} /\ seenResults = {}
    /\ shownCalls = [i \in CallIds |-> 0] /\ shownResults = [i \in CallIds |-> 0]
    /\ result = "streaming" /\ blocks = 0 /\ updates = 0

-----------------------------------------------------------------------------
\* Protocol of the provider

At(s, i, token) == i + Len(token) - 1 <= Len(s) /\ SubSeq(s, i, i + Len(token) - 1) = token
Places(s, token) == {i \in DOMAIN s : At(s, i, token)}

\* retainedProtocolPrefixLength: the longest end of s that may be the beginning of a token.
Retained(s, tokens) ==
    Max({0} \cup {n \in 1..Len(s) : \E t \in tokens : n < Len(t) /\ SubSeq(t, 1, n) = SubSeq(s, Len(s) - n + 1, Len(s))})

\* consumeDeepSeekProtocol, from the state [in, safe] and what remains of the text.
Consumption == [in : BOOLEAN, safe : Seq(STRING), rest : Seq(STRING)]
Consume[m \in Consumption] ==
    LET tokens == IF m.in THEN {Close} ELSE {Open, Close}
        found == {<<i, t>> \in (DOMAIN m.rest) \X tokens : At(m.rest, i, t)}
        kept == Retained(m.rest, tokens)
    IN  IF found = {}
        THEN [in |-> m.in, keep |-> SubSeq(m.rest, Len(m.rest) - kept + 1, Len(m.rest)),
              safe |-> IF m.in THEN m.safe ELSE m.safe \o SubSeq(m.rest, 1, Len(m.rest) - kept)]
        ELSE LET first == CHOOSE f \in found : \A g \in found : f[1] <= g[1]
             IN  Consume[[in |-> ~m.in /\ first[2] = Open,
                          safe |-> IF m.in THEN m.safe ELSE m.safe \o SubSeq(m.rest, 1, first[1] - 1),
                          rest |-> SubSeq(m.rest, first[1] + Len(first[2]), Len(m.rest))]]

Filtered(chunk) == Consume[[in |-> protocol, safe |-> <<>>, rest |-> pending \o chunk]]

\* The same on a whole text.
Whole(s) == Consume[[in |-> FALSE, safe |-> <<>>, rest |-> s]]
Prose(s) == Whole(s).safe

-----------------------------------------------------------------------------
\* What the user has been shown with one text more.
emitPublicText(told, chunk, prependSeparator) ==
    (IF prependSeparator /\ told # <<>> THEN told \o Separator ELSE told) \o chunk

CommonPrefix(s, t) == Max({n \in 0..Len(s) : n <= Len(t) /\ SubSeq(s, 1, n) = SubSeq(t, 1, n)})

\* What becomes of the block and of what is shown: nothing is shown while the block repeats the
\* previous one, then what is new in it.
emitPublicDelta(safe) ==
    LET block == safeBlock \o safe
        new   == SubSeq(block, CommonPrefix(block, previous) + 1, Len(block))
    IN  CASE safe = <<>> -> [block |-> safeBlock, emitted |-> emitted, full |-> full]
          [] safe # <<>> /\ emitted -> [block |-> block, emitted |-> TRUE, full |-> emitPublicText(full, safe, FALSE)]
          [] safe # <<>> /\ ~emitted /\ IsPrefix(block, previous) -> [block |-> block, emitted |-> FALSE, full |-> full]
          [] OTHER -> [block |-> block, emitted |-> TRUE,
                       full |-> emitPublicText(full, IF new = <<>> THEN block ELSE new, TRUE)]

\* Only the reporter that has finished its task speaks to the user.
Told(safe) == emitPublicDelta(IF finishTask THEN safe ELSE <<>>)

\* content-block-start
BlockStarts(block) ==
    /\ result = "streaming" /\ ~inBlock /\ blocks < MaxBlocks
    /\ inBlock' = TRUE /\ whole' = block /\ toCome' = block /\ blocks' = blocks + 1
    /\ said' = FALSE /\ safeBlock' = <<>> /\ emitted' = FALSE
    /\ startedOpen' = (protocol \/ pending # <<>>)
    /\ UNCHANGED <<pending, protocol, previous, full, heard, again, tools, result, updates>>

\* content-block-delta
Delta(n) ==
    /\ result = "streaming" /\ inBlock /\ n \in 1..Len(toCome)
    /\ toCome' = SubSeq(toCome, n + 1, Len(toCome))
    /\ heard' = heard \o SubSeq(toCome, 1, n)
    /\ LET filtered == Filtered(SubSeq(toCome, 1, n))
           told == Told(filtered.safe)
       IN  /\ pending' = filtered.keep /\ protocol' = filtered.in
           /\ said' = (said \/ filtered.safe # <<>>)
           /\ safeBlock' = told.block /\ emitted' = told.emitted /\ full' = told.full
    /\ UNCHANGED <<whole, inBlock, previous, startedOpen, again, tools, result, blocks, updates>>

\* recoverFinishedText: the text that comes with the end of a block, if the block has said nothing.
Recovered(content) == IF content /\ ~said THEN Filtered(whole)
                      ELSE [in |-> protocol, keep |-> pending, safe |-> <<>>]

\* content-block-finish, with or without the text of the block; one without chunks has it.
BlockFinishes(content) ==
    /\ result = "streaming" /\ inBlock /\ (toCome = <<>> \/ (content /\ toCome = whole))
    /\ inBlock' = FALSE /\ said' = FALSE /\ emitted' = FALSE
    /\ LET filtered == Recovered(content)
           told == Told(filtered.safe)
       IN  /\ pending' = filtered.keep /\ protocol' = filtered.in
           /\ safeBlock' = told.block
           /\ IF finishTask /\ told.block \notin {<<>>, previous}
              THEN /\ previous' = told.block
                   /\ full' = IF told.emitted THEN told.full ELSE emitPublicText(told.full, told.block, TRUE)
              ELSE previous' = previous /\ full' = told.full
    /\ heard' = heard \o toCome /\ toCome' = <<>> /\ whole' = <<>> /\ startedOpen' = FALSE
    /\ again' = (again \/ (/\ content /\ ~said /\ toCome = <<>> /\ ~protocol
                           /\ startedOpen \/ pending # <<>>))
    /\ UNCHANGED <<tools, result, blocks, updates>>

-----------------------------------------------------------------------------
\* An update, perhaps one that was delivered before, of a node with tool calls.
emitToolCalls(ids) ==
    /\ result = "streaming" /\ updates < MaxUpdates /\ updates' = updates + 1
    /\ shownCalls' = [i \in CallIds |-> shownCalls[i] + IF i \in ids \ seenCalls THEN 1 ELSE 0]
    /\ seenCalls' = seenCalls \cup ids /\ waiting' = waiting \cup (ids \ seenCalls)
    /\ UNCHANGED <<text, finishTask, accepted, seenResults, shownResults, result, blocks>>

IsNewResult(i) == i \notin seenResults

\* The result of a tool; a report_finding that was not accepted is remembered.
emitToolResult(i, tool, ok) ==
    /\ result = "streaming" /\ updates < MaxUpdates /\ updates' = updates + 1
    /\ IF IsNewResult(i)
       THEN /\ shownResults' = [shownResults EXCEPT ![i] = @ + 1]
            /\ seenResults' = seenResults \cup {i} /\ waiting' = waiting \ {i}
            /\ finishTask' = (finishTask \/ (tool = "finish_task" /\ ok))
            /\ accepted' = (accepted /\ (tool = "report_finding" => ok))
       ELSE UNCHANGED <<shownResults, seenResults, waiting, finishTask, accepted>>
    /\ UNCHANGED <<text, seenCalls, shownCalls, result, blocks>>

\* finishStream: the state of the checkpoint has a report, which is filtered with what the
\* stream has left of the filter, and replaces what was shown if it differs.
finishStream(report) ==
    /\ result = "streaming"
    /\ result' = "report" /\ finishTask' = TRUE
    /\ full' = Filtered(report).safe
    /\ pending' = <<>> /\ protocol' = FALSE
    /\ UNCHANGED <<whole, toCome, inBlock, said, safeBlock, emitted, previous, heard, startedOpen, again, accepted,
                   waiting, seenCalls, seenResults, shownCalls, shownResults, blocks, updates>>

\* The checkpoint has no report, or it has a request to the user, or the stream fails.
StreamEnds(how) ==
    /\ result = "streaming" /\ how \in {"unreported", "interrupted", "failed"}
    /\ result' = how
    /\ UNCHANGED <<text, tools, blocks, updates>>

Next ==
    \/ \E block \in Blocks : BlockStarts(block)
    \/ \E n \in 1..Max({Len(b) : b \in Blocks}) : Delta(n)
    \/ \E content \in BOOLEAN : BlockFinishes(content)
    \/ \E ids \in SUBSET CallIds \ {{}} : emitToolCalls(ids)
    \/ \E i \in CallIds, tool \in {"read_file_content", "finish_task", "report_finding"}, ok \in BOOLEAN :
        emitToolResult(i, tool, ok)
    \/ \E report \in Reports : finishStream(report)
    \/ \E how \in {"unreported", "interrupted", "failed"} : StreamEnds(how)

Spec == Init /\ [][Next]_streamVars

-----------------------------------------------------------------------------
Closed == ~Whole(heard).in /\ Whole(heard).keep = <<>>

\* Is one text left of the other when some characters are dropped?
Within(part, s) ==
    <<>> = FoldLeft(LAMBDA rest, c : IF rest # <<>> /\ Head(rest) = c THEN Tail(rest) ELSE rest, part, s)

\* What is shown is the prose of what the model said: in its order, and each character once at most.
ProseIsShown == result # "report" => Within(SelectSeq(full, LAMBDA c : <<c>> # Separator), Prose(heard))

\* However the stream is cut into chunks, which blocks come twice and which markup they leave open:
\* nothing is shown but the prose; the filter stands where the whole text of the model leaves it; the
\* response is what the checkpointed report adds to the prose of that text, which is the prose of the
\* report if no markup was left open.  Until a block is filtered twice that ends what began before it
\* (again).
ProtocolIsHidden ==
    ~again =>
        /\ ProseIsShown
        /\ result = "streaming" => Whole(heard).in = protocol /\ Whole(heard).keep = pending
        /\ result = "report" => \E report \in Reports : /\ Prose(heard) \o full = Prose(heard \o report)
                                                        /\ Closed => full = Prose(report)

\* Not so after markup that stays open, which hides the report as well: "The durable checkpoint is the
\* source of truth", the comment in finishStream.
ReportIsReturned == result = "report" => full \in {Prose(report) : report \in Reports}

\* Not so for the block that ends markup which an earlier one began: recoverFinishedText finds that it has
\* said nothing, filters its text once more, now outside the markup, and shows it.
ProtocolIsNeverShown == ProseIsShown

\* The user sees each call and each result once, whatever is delivered again.
ActivityIsShownOnce == \A i \in CallIds : shownCalls[i] <= 1 /\ shownResults[i] <= 1

StreamIsFaithful == ProtocolIsHidden /\ ActivityIsShownOnce
=============================================================================
