---------------------------- MODULE DurableFile ----------------------------
(***************************************************************************)
(* What a durable file promises those who write it and those who read it   *)
(* after a crash: it holds what the last write that was acknowledged       *)
(* wrote, unless a later write was begun. FsAtomic and Checkpoints         *)
(* implement it.                                                           *)
(***************************************************************************)
EXTENDS Naturals

CONSTANT Writes     \* the contents that are ever written

VARIABLES
    content,    \* what a reader would get
    open,       \* the writes that were begun and have not ended
    base,       \* what the file held when the last write ended
    acked       \* the last write that was acknowledged

vars == <<content, open, base, acked>>

Init == open = {} /\ base = content /\ acked = content

Begin(c) == open' = open \cup {c} /\ UNCHANGED <<content, base, acked>>

\* A write takes effect, or is rolled back.
Move == content' \in open \cup {base} /\ UNCHANGED <<open, base, acked>>

Acknowledge(c) ==
    /\ c \in open
    /\ content = c
    /\ open' = open \ {c}
    /\ base' = c
    /\ acked' = c
    /\ UNCHANGED content

\* A write that fails, or whose process dies, may have taken effect.
Abandon(c) ==
    /\ c \in open
    /\ open' = open \ {c}
    /\ base' \in {base, content}
    /\ UNCHANGED <<content, acked>>

Next ==
    \/ \E c \in Writes : Begin(c) \/ Acknowledge(c) \/ Abandon(c)
    \/ Move

Spec == Init /\ [][Next]_vars
=============================================================================
