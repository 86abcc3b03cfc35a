---------------------------- MODULE MessageRelay ----------------------------
(***************************************************************************)
(* What spec.md promises of the cross-thread message relay, with no       *)
(* threads, batches or wakeups: one FIFO channel.  Any thread may post a   *)
(* message at any time; while the relay is open its owner takes messages  *)
(* one at a time from the head, each exactly once and in the order they    *)
(* were posted; the relay is released only when nothing is left in it.   *)
(* A message posted after the release stays in the channel for ever: the  *)
(* abstract relay does not forbid it, it only never delivers it.           *)
(***************************************************************************)
EXTENDS Sequences

CONSTANT Messages    \* what a message may be

VARIABLES
    chan,   \* messages posted and not yet taken, oldest first
    open    \* the owner still takes messages (the relay is not released)

vars == <<chan, open>>

Init ==
    /\ chan = <<>>
    /\ open = TRUE

\* send(type, payload): append m to the channel.
Post(m) ==
    /\ chan' = Append(chan, m)
    /\ UNCHANGED open

\* The owner takes the oldest message and calls its handler.
Take ==
    /\ open
    /\ chan # <<>>
    /\ chan' = Tail(chan)
    /\ UNCHANGED open

\* Release of the relay, once it has been drained.
Close ==
    /\ open
    /\ chan = <<>>
    /\ open' = FALSE
    /\ UNCHANGED chan

Next == (\E m \in Messages : Post(m)) \/ Take \/ Close

Spec == Init /\ [][Next]_vars
=============================================================================
