-------------------------- MODULE ResponseLifecycle --------------------------
(***************************************************************************)
(* What spec.md promises of one request's response (sections 3 and 4.5),  *)
(* with no threads, messages or transport: a request is answered at once,  *)
(* or its RequestContext/ResponseContext pair is owned by a handler which  *)
(* takes exactly one of two paths, the immediate reply or the streaming    *)
(* generator.  A stream sends in-progress chunks until it sends the last   *)
(* chunk (Final) or the client goes away (Stopped).  The pair, once it     *)
(* exists, is released exactly when the response is finalized.             *)
(***************************************************************************)
EXTENDS Naturals, Sequences

CONSTANT Requests

VARIABLES
    phase,     \* per request: where its response is
    out,       \* per request: the chunks written to the client, in order
    released   \* per request: how many times its pair has been released

vars == <<phase, out, released>>

Phases == {"idle", "handler", "streaming", "final", "stopped"}
Chunks == {"in_progress", "final"}

Init ==
    /\ phase = [r \in Requests |-> "idle"]
    /\ out = [r \in Requests |-> <<>>]
    /\ released = [r \in Requests |-> 0]

\* The response of r moves from a phase in `from` to phase `to`.
Transition(r, from, to) ==
    /\ phase[r] \in from
    /\ phase' = [phase EXCEPT ![r] = to]

Write(r, c) == out' = [out EXCEPT ![r] = Append(@, c)]

Release(r) == released' = [released EXCEPT ![r] = @ + 1]

\* A preflight, a 404 or a 401: answered before any pair exists.
ReplyAtOnce(r) ==
    /\ Transition(r, {"idle"}, "final")
    /\ Write(r, "final")
    /\ UNCHANGED released

\* An async handler keeps the pair to answer it later.
HandOff(r) ==
    /\ Transition(r, {"idle"}, "handler")
    /\ UNCHANGED <<out, released>>

\* The immediate-reply path: the whole body as the last chunk, then the
\* pair is released.
Respond(r) ==
    /\ Transition(r, {"idle", "handler"}, "final")
    /\ Write(r, "final")
    /\ Release(r)

\* The handler opts into streaming (Started).
StartStream(r) ==
    /\ Transition(r, {"idle", "handler"}, "streaming")
    /\ Write(r, "in_progress")
    /\ UNCHANGED released

\* A turn that does not set final (Proceeding).
Proceed(r) ==
    /\ phase[r] = "streaming"
    /\ Write(r, "in_progress")
    /\ UNCHANGED <<phase, released>>

\* The turn that sets final: the last chunk, then the release (Final).
Finish(r) ==
    /\ Transition(r, {"streaming"}, "final")
    /\ Write(r, "final")
    /\ Release(r)

\* The transport reports the client gone (Stopped): release, write nothing.
Stop(r) ==
    /\ Transition(r, {"streaming"}, "stopped")
    /\ Release(r)
    /\ UNCHANGED out

Next ==
    \E r \in Requests :
       \/ ReplyAtOnce(r) \/ HandOff(r) \/ Respond(r)
       \/ StartStream(r) \/ Proceed(r) \/ Finish(r) \/ Stop(r)

Spec == Init /\ [][Next]_vars
=============================================================================
