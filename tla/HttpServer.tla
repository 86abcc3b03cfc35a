----------------------------- MODULE HttpServer -----------------------------
(***************************************************************************)
(* The request life cycle of HttpServer (src/src/http_server.cpp): the     *)
(* event-loop thread that runs run(), the dispatch of a request by         *)
(* catch_all_handler, the hand-off of an async request to a worker thread, *)
(* the cross-thread message relay (send_message / on_message), the         *)
(* streaming generator (stream_response / response_proceed /               *)
(* response_stop), stop() called from another thread, and the drain done  *)
(* by the destructor.                                                      *)
(*                                                                         *)
(* The transport (h2o) is the environment: it delivers a request, calls    *)
(* the generator's proceed callback when the client is ready for more,    *)
(* and calls its stop callback when the client goes away.  Route matching  *)
(* and authentication are abstracted to the outcome they select; they are  *)
(* modelled in module Dispatch.                                            *)
(***************************************************************************)
EXTENDS Naturals, Sequences

CONSTANTS
    Requests,            \* requests, each on its own client connection
    Workers,             \* threads an async handler hands a request to
    MaxTurns,            \* bound: proceed calls of one streamed response
    NoData,              \* the nullptr payload of STOP_SERVER_MESSAGE
    AbortBeforeResponse  \* may the client reset a request whose response
                         \* has not been started (HTTP/2 RST_STREAM)?

ASSUME ConstantsAssumption ==
    /\ MaxTurns \in Nat \ {0}
    /\ NoData \notin Requests
    /\ AbortBeforeResponse \in BOOLEAN

VARIABLES
    loopPc,     \* where the event-loop thread is in run() / ~HttpServer()
    exitLoop,   \* HttpServer::exit_loop
    listening,  \* the listener socket is open (create_listener / stop)
    stopPc,     \* next statement of stop() on the stopping thread
    handlers,   \* message types in HttpServer::message_handlers
    inbox,      \* message_receiver->_messages (mutex-guarded in h2o)
    wakeup,     \* the receiver's wakeup pipe is readable
    batch,      \* the list on_message is draining on the loop thread
    req,        \* per request: state of the transport's h2o_req_t
    obj,        \* per request: who owns the http_req/http_res pair
    generator,  \* per request: h2o holds our custom generator
    sends,      \* per request: send states passed to h2o_send, in order
    turns,      \* per request: response_proceed calls so far
    frees,      \* per request: deletions of the http_req/http_res pair
    work        \* per worker: requests handed to it

vars == <<loopPc, exitLoop, listening, stopPc, handlers, inbox, wakeup,
          batch, req, obj, generator, sends, turns, frees, work>>
respVars == <<req, obj, generator, sends, turns, frees>>

LoopStates == {"init", "check", "wait", "drain", "exited", "destroyed"}
ReqStates  == {"none", "open", "done", "disposed"}
ObjStates  == {"none", "worker", "queued", "gen", "freed"}
SendStates == {"in_progress", "final"}
MsgTypes   == {"respond", "stream", "stop"}
Message    == [type : {"respond", "stream"}, data : Requests]
                \cup [type : {"stop"}, data : {NoData}]

\* Mutant: stop() setting exit_loop before it closes the listener.
StopOrderExitFirst == <<"set_exit_loop", "close_listener", "send_stop">>

\* Mutant: stop() posting STOP before setting exit_loop.
StopOrderSwapped == <<"close_listener", "send_stop", "set_exit_loop">>

\* The statements of stop(), in the order the code runs them.
StopOrder == <<"close_listener", "set_exit_loop", "send_stop">>

-----------------------------------------------------------------------------
(* Helpers for the calls an action makes.                                  *)

\* h2o_send(req, body, 1, state) appends one send for r; a final send
\* completes the transport's request and clears h2o's generator pointer.
Send(r, st) ==
    /\ sends' = [sends EXCEPT ![r] = Append(@, st)]
    /\ generator' = [generator EXCEPT ![r] = (st = "in_progress" /\ @)]

\* Deletion of the http_req/http_res pair (and the custom generator).
Free(r) ==
    /\ obj' = [obj EXCEPT ![r] = "freed"]
    /\ frees' = [frees EXCEPT ![r] = @ + 1]

\* send_response: start a response with a plain generator, send the whole
\* body as the final chunk, delete request and response.
send_response(r) ==
    /\ Send(r, "final")
    /\ req' = [req EXCEPT ![r] = IF @ = "disposed" THEN @ ELSE "done"]
    /\ Free(r)
    /\ UNCHANGED turns

\* Mutant: stream_response without the empty in-progress h2o_send.
stream_response_no_first_chunk(r) ==
    /\ generator' = [generator EXCEPT ![r] = TRUE]
    /\ obj' = [obj EXCEPT ![r] = "gen"]
    /\ UNCHANGED <<sends, turns, frees>>

\* stream_response: install the custom generator, which now owns request
\* and response, and send an empty in-progress chunk.
stream_response(r) ==
    /\ sends' = [sends EXCEPT ![r] = Append(@, "in_progress")]
    /\ generator' = [generator EXCEPT ![r] = TRUE]
    /\ obj' = [obj EXCEPT ![r] = "gen"]
    /\ UNCHANGED <<turns, frees>>

\* send_message(type, data): allocate a message and append it to the
\* receiver's list under h2o's mutex, which wakes the loop thread.
send_message(type, data) ==
    /\ inbox' = Append(inbox, [type |-> type, data |-> data])
    /\ wakeup' = TRUE

\* The body of on_message's loop for one message m: call the handler
\* registered for m.type, if any; the message is dropped otherwise.  The
\* application's handlers answer the request carried by the message
\* (send_response or stream_response); on_stop_server does nothing.
Deliver(m) ==
    \/ /\ m.type \in handlers /\ m.type = "respond"
       /\ send_response(m.data)
    \/ /\ m.type \in handlers /\ m.type = "stream"
       /\ stream_response(m.data)
       /\ UNCHANGED req
    \/ /\ m.type \notin handlers \/ m.type = "stop"
       /\ UNCHANGED respVars

-----------------------------------------------------------------------------
(* The event-loop thread.                                                  *)

Init ==
    /\ loopPc = "init"
    /\ exitLoop = FALSE
    /\ listening = FALSE
    /\ stopPc = 1
    /\ handlers = {"respond", "stream"}   \* registered by the application
    /\ inbox = <<>>
    /\ wakeup = FALSE
    /\ batch = <<>>
    /\ req = [r \in Requests |-> "none"]
    /\ obj = [r \in Requests |-> "none"]
    /\ generator = [r \in Requests |-> FALSE]
    /\ sends = [r \in Requests |-> <<>>]
    /\ turns = [r \in Requests |-> 0]
    /\ frees = [r \in Requests |-> 0]
    /\ work = [w \in Workers |-> {}]

\* run(): create the message queue and receiver, open the listener and
\* register on_stop_server; if create_listener fails, return 1.
run ==
    /\ loopPc = "init"
    /\ \/ /\ listening' = TRUE
          /\ handlers' = handlers \cup {"stop"}
          /\ loopPc' = "check"
       \/ /\ loopPc' = "exited"
          /\ UNCHANGED <<listening, handlers>>
    /\ UNCHANGED <<exitLoop, stopPc, inbox, wakeup, batch, respVars, work>>

\* while(!exit_loop): test the flag before each h2o_evloop_run.
CheckExit ==
    /\ loopPc = "check"
    /\ loopPc' = IF exitLoop THEN "exited" ELSE "wait"
    /\ UNCHANGED <<exitLoop, listening, stopPc, handlers, inbox, wakeup,
                   batch, respVars, work>>

\* The receiver's pipe is readable: h2o moves the receiver's messages to a
\* local list under the mutex and calls on_message with it.
Wake ==
    /\ loopPc = "wait"
    /\ wakeup
    /\ batch' = inbox
    /\ inbox' = <<>>
    /\ wakeup' = FALSE
    /\ loopPc' = IF inbox = <<>> THEN "check" ELSE "drain"
    /\ UNCHANGED <<exitLoop, listening, stopPc, handlers, respVars, work>>

\* Mutant: on_message without h2o_linklist_unlink.
on_message_no_unlink ==
    /\ loopPc = "drain"
    /\ Deliver(Head(batch))
    /\ UNCHANGED <<loopPc, batch, exitLoop, listening, stopPc, handlers,
                   inbox, wakeup, work>>

\* Mutant: on_message walking the list from its tail (messages->prev).
on_message_from_tail ==
    /\ loopPc = "drain"
    /\ Deliver(batch[Len(batch)])
    /\ batch' = SubSeq(batch, 1, Len(batch) - 1)
    /\ loopPc' = IF Len(batch) = 1 THEN "check" ELSE "drain"
    /\ UNCHANGED <<exitLoop, listening, stopPc, handlers, inbox, wakeup, work>>

\* on_message: handle the head of the list, unlink it and delete it.
on_message ==
    /\ loopPc = "drain"
    /\ Deliver(Head(batch))
    /\ batch' = Tail(batch)
    /\ loopPc' = IF Len(batch) = 1 THEN "check" ELSE "drain"
    /\ UNCHANGED <<exitLoop, listening, stopPc, handlers, inbox, wakeup, work>>

\* Mutant: catch_all_handler without the `if(!rpath.async)` test, so an
\* async route is answered by send_response after its handler returns.
catch_all_handler_ignores_async(r) ==
    /\ loopPc = "wait"
    /\ req[r] = "none"
    /\ \/ /\ Send(r, "final")
          /\ req' = [req EXCEPT ![r] = "done"]
          /\ UNCHANGED <<obj, turns, frees, work>>
       \/ /\ send_response(r)
          /\ UNCHANGED work
       \/ /\ Send(r, "final")
          /\ req' = [req EXCEPT ![r] = "done"]
          /\ frees' = [frees EXCEPT ![r] = @ + 1]
          /\ \E w \in Workers :
                /\ work' = [work EXCEPT ![w] = @ \cup {r}]
                /\ obj' = [obj EXCEPT ![r] = "worker"]
          /\ UNCHANGED turns
    /\ loopPc' = "check"
    /\ UNCHANGED <<exitLoop, listening, stopPc, handlers, inbox, wakeup, batch>>

\* catch_all_handler for a new request r.  Its outcome is decided by the
\* route table: a CORS preflight, a 401 or a 404 is answered at once; a
\* matched non-async route runs its handler and send_response; a matched
\* async route's handler either streams (stream_response) or hands the
\* request and response to a worker thread and returns.
catch_all_handler(r) ==
    /\ loopPc = "wait"
    /\ req[r] = "none"
    /\ \/ /\ Send(r, "final")
          /\ req' = [req EXCEPT ![r] = "done"]
          /\ UNCHANGED <<obj, turns, frees, work>>
       \/ /\ send_response(r)
          /\ UNCHANGED work
       \/ /\ stream_response(r)
          /\ UNCHANGED work
          /\ req' = [req EXCEPT ![r] = "open"]
       \/ \E w \in Workers :
          /\ work' = [work EXCEPT ![w] = @ \cup {r}]
          /\ obj' = [obj EXCEPT ![r] = "worker"]
          /\ req' = [req EXCEPT ![r] = "open"]
          /\ UNCHANGED <<generator, sends, turns, frees>>
    /\ loopPc' = "check"
    /\ UNCHANGED <<exitLoop, listening, stopPc, handlers, inbox, wakeup, batch>>

\* Mutant: response_proceed deleting request and response on every turn.
response_proceed_frees_each_turn(r) ==
    /\ loopPc = "wait"
    /\ generator[r]
    /\ req[r] = "open"
    /\ \E final \in BOOLEAN :
          /\ final \/ turns[r] + 1 < MaxTurns
          /\ Send(r, IF final THEN "final" ELSE "in_progress")
          /\ req' = [req EXCEPT ![r] = IF final THEN "disposed" ELSE @]
          /\ Free(r)
    /\ turns' = [turns EXCEPT ![r] = @ + 1]
    /\ loopPc' = "check"
    /\ UNCHANGED <<exitLoop, listening, stopPc, handlers, inbox, wakeup,
                   batch, work>>

\* response_proceed: the transport is ready for more of r's response.  The
\* streaming handler adds to the body and may set final; the body is sent
\* with the matching state and, if final, the request is disposed and the
\* request, response and generator are deleted.
response_proceed(r) ==
    /\ loopPc = "wait"
    /\ generator[r]
    /\ req[r] = "open"
    /\ \E final \in BOOLEAN :
          /\ final \/ turns[r] + 1 < MaxTurns
          /\ Send(r, IF final THEN "final" ELSE "in_progress")
          /\ IF final
               THEN /\ req' = [req EXCEPT ![r] = "disposed"]
                    /\ Free(r)
               ELSE UNCHANGED <<req, obj, frees>>
    /\ turns' = [turns EXCEPT ![r] = @ + 1]
    /\ loopPc' = "check"
    /\ UNCHANGED <<exitLoop, listening, stopPc, handlers, inbox, wakeup,
                   batch, work>>

\* Mutant: response_stop disposing the request but deleting nothing.
response_stop_leaks(r) ==
    /\ loopPc = "wait"
    /\ generator[r]
    /\ req[r] = "open"
    /\ req' = [req EXCEPT ![r] = "disposed"]
    /\ generator' = [generator EXCEPT ![r] = FALSE]
    /\ loopPc' = "check"
    /\ UNCHANGED <<exitLoop, listening, stopPc, handlers, inbox, wakeup,
                   batch, obj, sends, turns, frees, work>>

\* response_stop: the client went away while r was streaming; dispose the
\* request and delete request, response and generator.
response_stop(r) ==
    /\ loopPc = "wait"
    /\ generator[r]
    /\ req[r] = "open"
    /\ req' = [req EXCEPT ![r] = "disposed"]
    /\ generator' = [generator EXCEPT ![r] = FALSE]
    /\ Free(r)
    /\ loopPc' = "check"
    /\ UNCHANGED <<exitLoop, listening, stopPc, handlers, inbox, wakeup,
                   batch, sends, turns, work>>

\* The client resets a request no response was started for.  h2o frees its
\* h2o_req_t; no callback of the server runs, so the http_req held by a
\* worker or a queued message still points at it.
AbortPending(r) ==
    /\ AbortBeforeResponse
    /\ loopPc = "wait"
    /\ req[r] = "open"
    /\ ~generator[r]
    /\ req' = [req EXCEPT ![r] = "disposed"]
    /\ loopPc' = "check"
    /\ UNCHANGED <<exitLoop, listening, stopPc, handlers, inbox, wakeup,
                   batch, obj, generator, sends, turns, frees, work>>

\* ~HttpServer: drain the receiver's own list with on_message (without
\* h2o's mutex), one message at a time.
DestroyDrain ==
    /\ loopPc = "exited"
    /\ inbox # <<>>
    /\ Deliver(Head(inbox))
    /\ inbox' = Tail(inbox)
    /\ UNCHANGED <<loopPc, exitLoop, listening, stopPc, handlers, wakeup,
                   batch, work>>

\* ~HttpServer, once the list is empty: unregister the receiver, destroy
\* the queue, clear the timeouts and dispose the context.
DestroyFinish ==
    /\ loopPc = "exited"
    /\ inbox = <<>>
    /\ loopPc' = "destroyed"
    /\ UNCHANGED <<exitLoop, listening, stopPc, handlers, inbox, wakeup,
                   batch, respVars, work>>

-----------------------------------------------------------------------------
(* Other threads.                                                          *)

\* A worker thread finishes the work on r and hands it back with
\* send_message; the loop's handler for the type answers it.
WorkerSend(w) ==
    \E r \in work[w], type \in {"respond", "stream"} :
       /\ send_message(type, r)
       /\ work' = [work EXCEPT ![w] = @ \ {r}]
       /\ obj' = [obj EXCEPT ![r] = "queued"]
       /\ UNCHANGED <<loopPc, exitLoop, listening, stopPc, handlers, batch,
                      req, generator, sends, turns, frees>>

\* One statement of stop(), called from a thread other than the loop's.
StopStep(step) ==
    \/ /\ step = "close_listener"
       /\ listening' = FALSE
       /\ UNCHANGED <<exitLoop, inbox, wakeup>>
    \/ /\ step = "set_exit_loop"
       /\ exitLoop' = TRUE
       /\ UNCHANGED <<listening, inbox, wakeup>>
    \/ /\ step = "send_stop"
       /\ send_message("stop", NoData)
       /\ UNCHANGED <<listening, exitLoop>>

\* stop() is called on a server whose run() has opened the listener (line
\* 173 uses listener_socket, which a failed create_listener never sets) and
\* which has not been deleted; once called, it runs to its end whatever the
\* loop does.
stop ==
    /\ stopPc = 1 => loopPc \notin {"init", "destroyed"} /\ listening
    /\ stopPc \in 1..Len(StopOrder)
    /\ StopStep(StopOrder[stopPc])
    /\ stopPc' = stopPc + 1
    /\ UNCHANGED <<loopPc, handlers, batch, respVars, work>>

-----------------------------------------------------------------------------

LoopThread ==
    \/ run \/ CheckExit \/ Wake \/ on_message \/ DestroyDrain \/ DestroyFinish

Transport ==
    \E r \in Requests :
       \/ catch_all_handler(r) \/ response_proceed(r) \/ response_stop(r)
       \/ AbortPending(r)

Next ==
    \/ LoopThread
    \/ Transport
    \/ \E w \in Workers : WorkerSend(w)
    \/ stop

\* The loop thread and the worker threads run whenever they can; stop(),
\* once begun, runs to its end; the client of a streamed response keeps
\* reading.  New requests, resets and the call of stop() are not forced.
Fairness ==
    /\ WF_vars(LoopThread)
    /\ \A w \in Workers : WF_vars(WorkerSend(w))
    /\ WF_vars(stopPc > 1 /\ stop)
    /\ \A r \in Requests : WF_vars(response_proceed(r))

Spec == Init /\ [][Next]_vars /\ Fairness

-----------------------------------------------------------------------------
(* Properties.                                                             *)

TypeOK ==
    /\ loopPc \in LoopStates
    /\ exitLoop \in BOOLEAN
    /\ listening \in BOOLEAN
    /\ stopPc \in 1..Len(StopOrder) + 1
    /\ handlers \subseteq MsgTypes
    /\ inbox \in Seq(Message)
    /\ wakeup \in BOOLEAN
    /\ batch \in Seq(Message)
    /\ req \in [Requests -> ReqStates]
    /\ obj \in [Requests -> ObjStates]
    /\ generator \in [Requests -> BOOLEAN]
    /\ sends \in [Requests -> Seq(SendStates)]
    /\ turns \in [Requests -> 0..MaxTurns]
    /\ frees \in [Requests -> Nat]
    /\ work \in [Workers -> SUBSET Requests]

\* Every response the server writes is a run of in-progress chunks ended by
\* at most one final chunk: no path (sync reply, streaming, a worker's late
\* answer) sends to a request after its final chunk.
ResponseWellFormed ==
    \A r \in Requests : \A i \in 1..Len(sends[r]) :
       sends[r][i] = "final" => i = Len(sends[r])

\* The http_req/http_res pair of a request is deleted at most once, whichever
\* of send_response, response_proceed and response_stop gets to it.
FreedAtMostOnce ==
    \A r \in Requests : frees[r] <= 1

\* Once the transport's request is complete or disposed, no step of the
\* server writes to it again (a write would touch a freed h2o_req_t).
NoWriteAfterRelease ==
    [][\A r \in Requests :
         req[r] \in {"done", "disposed"} => sends'[r] = sends[r]]_vars

\* Who holds the http_req/http_res pair of r: each worker it was handed to,
\* each message carrying it in the batch on_message drains or in the
\* receiver's list, and h2o's custom generator.
Holders(r) ==
    {<<"worker", w>> : w \in {w \in Workers : r \in work[w]}}
      \cup {<<"batch", i>> : i \in {i \in 1..Len(batch) : batch[i].data = r}}
      \cup {<<"inbox", i>> : i \in {i \in 1..Len(inbox) : inbox[i].data = r}}
      \cup {<<"generator", r>> : x \in {g \in {generator[r]} : g}}

\* The pair of a request is handed off, never shared (spec sections 5 and
\* 9): catch_all_handler, the worker threads, send_message / on_message and
\* the streaming generator pass it on so that at most one of them holds it
\* at a time, and none holds it once it has been deleted.
PairOwnedOnce ==
    \A r \in Requests :
       /\ \A h1, h2 \in Holders(r) : h1 = h2
       /\ frees[r] > 0 => Holders(r) = {}

\* Spec section 5's teardown order begins with "stop accepting new
\* connections": once the loop thread has left run(), and so while the
\* destructor drains the relay and releases it, the listener is closed.
TeardownOrder ==
    loopPc \in {"exited", "destroyed"} => ~listening

Released(r) == req[r] \in {"done", "disposed"} /\ obj[r] \in {"none", "freed"}

\* Every request that arrives is answered or dropped and its objects are
\* deleted, unless the server is stopped first.
RequestCompletes ==
    \A r \in Requests : (req[r] # "none") ~> (Released(r) \/ exitLoop)

\* Once stop() has begun, the event loop leaves run() and the destructor
\* releases the relay: the STOP message cannot be consumed before the flag
\* it is meant to make the loop see.
StopEndsLoop ==
    (stopPc > 1) ~> (loopPc = "destroyed")

\* When the destructor releases the relay, no message is left in it
\* (spec: teardown drains so that no message is silently dropped).
NoMessageDropped ==
    loopPc = "destroyed" => inbox = <<>>

\* The relay as spec.md describes it, seen through the server's state: the
\* channel is the list on_message is draining followed by the receiver's
\* list, and the relay is open until the destructor releases it.
Relay == INSTANCE MessageRelay
            WITH Messages <- Message,
                 chan <- batch \o inbox,
                 open <- loopPc # "destroyed"

\* send_message, h2o's hand-over of the receiver's list to on_message, the
\* loop over that list and the destructor's drain together implement one
\* FIFO channel: every message is handled once, in the order it was posted,
\* and the relay is released only when it is empty.
RelayImplemented == Relay!Spec


\* Where the response of r is, read off the server's state: not arrived;
\* its pair held by a worker or a queued message; streaming while h2o holds
\* the custom generator; otherwise over, Final if the last chunk was sent.
ResponsePhase(r) ==
    IF req[r] = "none" THEN "idle"
    ELSE IF obj[r] \in {"worker", "queued"} THEN "handler"
    ELSE IF generator[r] THEN "streaming"
    ELSE IF sends[r] # <<>> /\ sends[r][Len(sends[r])] = "final" THEN "final"
    ELSE "stopped"

Lifecycle == INSTANCE ResponseLifecycle
                WITH phase <- [r \in Requests |-> ResponsePhase(r)],
                     out <- sends,
                     released <- frees

\* catch_all_handler, the worker hand-off, send_response, stream_response,
\* response_proceed and response_stop together give every request the life
\* cycle of spec sections 3 and 4.5: one path, reply or stream, chunks in
\* order, the pair released exactly once and only when the response ends.
LifecycleImplemented == Lifecycle!Spec

=============================================================================
