# Verification of the HTTP server (`src/src/http_server.cpp`)

This directory holds TLA+ models of `HttpServer`, the TLC configurations that
model-check them on small instances, and TLAPS proofs of the main safety
invariants for every value of the constants.

## The system

`HttpServer` wraps the h2o event loop. It has four parts:

1. **The route table and dispatch.**
   - `get`, `post`, `put` and `del` append a `route_path` (method, split path, handler, `async` flag).
   - h2o calls `catch_all_handler` for every request. It parses the query (`parse_query`) and takes the credential from the `AUTH_HEADER` header, or else from the query.
   - It answers a CORS preflight directly.
   - It scans the routes in registration order. The first route whose method, size and parts match wins. That route is gated by the auth handler (401 on failure).
   - Path captures are added to the query map with `emplace`. Then the handler runs.
   - A non-async route is answered at once with `send_response`. No match gives a 404.
2. **The event loop and its life cycle.**
   - `run()` creates the message queue and receiver and opens the listener. It registers `on_stop_server` and then spins `while(!exit_loop) h2o_evloop_run(...)`.
   - `stop()` runs on another thread. It closes the listener, sets `exit_loop` and posts a STOP message to wake the loop.
   - `~HttpServer` drains the receiver's list with `on_message`, unregisters and destroys the queue, clears h2o's timeouts and disposes the context.
3. **The cross-thread relay.**
   - `send_message` (any thread) posts a typed message to the receiver and wakes the loop.
   - h2o moves the posted list to the loop thread under its mutex and calls `on_message`. That calls the handler registered with `on` for each message's type, then unlinks and deletes the message.
4. **Asynchronous and streamed responses.**
   - An async handler either streams or hands the `http_req`/`http_res` pair to a worker thread.
   - To stream, it calls `stream_response`, which installs a custom generator.
   - A worker posts the pair back through the relay. The application's message handler then answers it with `send_response` or `stream_response`.
   - For a streamed response, h2o calls `response_proceed` when the client can take more data. On the final chunk, `response_proceed` disposes the request and deletes the pair and the generator.
   - h2o calls `response_stop` when the client goes away, and `response_stop` releases the same objects.

## Modules

| Module | Models | Used by |
|---|---|---|
| `Dispatch` | part 1: the route table and `catch_all_handler`'s decision for one request | `MCDispatch` (TLC) |
| `HttpServer` | parts 2–4: loop, `stop()`, destructor, relay, hand-off, generator, client resets | `MCHttpServer` (TLC), `HttpServer_proofs` (TLAPS) |
| `HttpServer_proofs` | inductive invariant, lemmas and theorems about `HttpServer` | tlapm |
| `MessageRelay` | what the relay promises: one FIFO channel, each message taken once, released only when empty | `HttpServer!Relay` |
| `ResponseLifecycle` | what a response promises: one path (reply or stream), chunks in order, the pair released once at the end | `HttpServer!Lifecycle` |
| `HttpServer_refinement` | proofs that `HttpServer` implements `MessageRelay` and `ResponseLifecycle` | tlapm |
| `MCDispatch`, `MCHttpServer` | model values and small sets for TLC | the runs |

### `HttpServer`

State: `loopPc` says where the loop thread is:

| `loopPc` | Meaning |
|---|---|
| `init` | before `run` |
| `check` | the `while` test |
| `wait` | inside `h2o_evloop_run` |
| `drain` | inside `on_message` |
| `exited` | in the destructor's drain |
| `destroyed` | after the destructor |

The other variables:
- `exitLoop` is `exit_loop`.
- `listening` is the listener socket.
- `stopPc` is the next statement of `stop()`.
- `handlers` is `message_handlers`.
- `inbox` is the receiver's list, and `wakeup` is its pipe.
- `batch` is the list being drained.
- Per request:
  - `req` is the h2o request's state: `none`, `open`, `done` or `disposed`.
  - `obj` says who holds the `http_req`/`http_res` pair: `none`, `worker`, `queued`, `gen` or `freed`.
  - `generator` says whether h2o holds our custom generator.
  - `sends` is the sequence of send states passed to `h2o_send`.
  - `turns` counts `response_proceed` calls, bounded by `MaxTurns`.
  - `frees` counts deletions of the pair.
- Per worker: `work` is the set of requests it holds.

A message is `[type, data]`:
- `respond` and `stream` carry a request.
- `stop` carries `NoData` (the `nullptr`).

Actions and the code they translate (the full line map is in `PROJECT.json`):
- `run` is `run()`, lines 132–147. `create_listener` succeeds or fails. On failure `run()` returns 1 and the loop never runs.
- `CheckExit` is the `while(!exit_loop)` test. `Wake` is `h2o_evloop_run` returning because the receiver's pipe is readable: the inbox moves to `batch`.
- `on_message` handles one message of `batch` per step. `Deliver` is its body: the registered handler is called, or the message is dropped when no handler is registered.
- `catch_all_handler` gives each route-table outcome its own disjunct:
  - an immediate final reply (preflight, 401, 404);
  - a sync route (`send_response`);
  - an async route that streams (`stream_response`);
  - an async route that hands the pair to a worker.
- `send_response`, `stream_response`, `response_proceed` and `response_stop` are the functions of the same names, including the `h2o_dispose_request` and the deletes.
- `stop` runs `stop()` one statement per step, in the order `StopOrder`. Another thread may interleave between any two of them. `stop()` may begin only once `run()` has opened the listener. After a failed `create_listener`, line 173 would use a `listener_socket` that was never set, which is undefined; that call order is left to the application's contract (see the hazards).
- `catch_all_handler` has no guard on the listener. Connections accepted before `stop()` closed it still deliver requests.
- `DestroyDrain` and `DestroyFinish` are the destructor. The drain is unlocked, so workers may still post while it runs.
- `WorkerSend` and `AbortPending` come from outside this file:
  - `WorkerSend` is the application's worker thread posting the pair back. It is modelled from spec.md, because the worker code is not in this repository.
  - `AbortPending` is h2o freeing a request whose client reset it before any response began. No callback of the server runs, so anything holding the `h2o_req_t` is not told. This step is enabled only when the constant `AbortBeforeResponse` is TRUE.

The transport's callbacks and the loop's own steps run only when `loopPc = "wait"`, because h2o runs them inside `h2o_evloop_run` on the loop thread. Each callback returns the loop to `check`, which is what the `while` loop does after each `h2o_evloop_run`.

### `Dispatch`

Strings are abstracted:
- A path is a sequence of segments. A route segment is a literal or a `:name` capture.
- A query string is a sequence of fields, each `key=raw` or junk that the regex skips.
- `url_decode` is a constant table.

The other pieces:
- `parse_query` is a fold over the fields with the `&&` join for repeated keys.
- `AuthKey` takes the header first, then the query.
- `FirstMatch` is the route loop, written as a recursive function.
- `WithPathParams` is the `emplace` loop.
- `catch_all_handler` combines these into an outcome.
- The actions are `get`/`post`/`put`/`del`, `Handle` (one request) and `Return`.

Three reference definitions restate the intended behaviour the way spec.md phrases it, independently of the loop structure:
- `MatchingRoutes`: the set of matching indices;
- `Credential`: the credential by cases;
- `ExpectedParams`: what the handler should see.

The properties compare the code's outcome against them.

## Runs

| Run | Expect | Instance | Shows |
|---|---|---|---|
| `httpserver_safety` | pass | 3 requests, 2 workers, `MaxTurns = 2`, resets allowed (216,461 states) | `ResponseWellFormed`: no write after a final chunk. `FreedAtMostOnce`: no pair deleted twice. `PairOwnedOnce`: at most one of a worker, a relay message and the generator holds a pair, and none once it is deleted. `TeardownOrder`: the listener is closed once the loop has left `run()`. |
| `httpserver_release` | pass | 3 requests, 2 workers, no resets (57,967 states) | `NoWriteAfterRelease`: no step writes to a complete or disposed h2o request |
| `httpserver_liveness` | pass | 2 requests, 2 workers, no resets (3,769 states) | `RequestCompletes`: every request is answered and released unless the server stops. `StopEndsLoop`: `stop()` always ends in the destructor. |
| `httpserver_relay` | pass | as the safety run (216,461 states) | `RelayImplemented`: the server's relay implements `MessageRelay` |
| `httpserver_lifecycle` | pass | as the safety run (216,461 states) | `LifecycleImplemented`: every response follows `ResponseLifecycle` |
| `httpserver_abort` | violation | 2 requests, 2 workers, resets | `NoWriteAfterRelease` fails: a reset during the worker hand-off |
| `httpserver_teardown` | violation | 2 requests, 1 worker | `NoMessageDropped` fails: the STOP race |
| `dispatch` | pass | every table of ≤ 2 routes over 4 patterns, every request over 3 methods, 4 paths and ≤ 2 query fields (826,098 states) | `RouteResolution`, `AuthGate`, `HandlerParams` |

**Bounds.**
- Three requests with two workers make the interesting mixes happen together:
  - two requests held by different workers while a third streams;
  - two messages in one batch;
  - a worker's post racing the destructor's drain;
  - a reset racing a worker.
- `MaxTurns = 2` gives a streamed response both an in-progress turn and a final one.
- Two routes over patterns with a literal and a capture cover these cases: shadowing by registration order, a method mismatch in front of a match, and a capture whose name is also a query key.
- Two query fields are enough for a repeated key (the `&&` join) and for a junk field.

The server really stops (after `DestroyFinish` nothing is enabled), so the HttpServer runs set `CHECK_DEADLOCK FALSE`.

**Fairness.** The liveness run assumes:
- Weak fairness of the loop thread's steps. h2o's loop runs whenever it has an event to handle.
- Weak fairness of each worker's `WorkerSend`. A worker that holds a request finishes it.
- Weak fairness of `stop()` once it has begun. It is a straight-line function.
- Weak fairness of `response_proceed` for each request. The client of a streamed response keeps reading.

Nothing forces a new request, a reset or a call of `stop()`.

**Mutants.** Each property of a passing run is broken by one plausible bug in the definition it rests on (listed in `PROJECT.json`):

| Mutant | Breaks |
|---|---|
| `catch_all_handler` without the `!rpath.async` test | `ResponseWellFormed` |
| `response_proceed` freeing on every turn | `FreedAtMostOnce` |
| `on_message` without the unlink | `NoWriteAfterRelease`; `PairOwnedOnce` (the delivered message still holds the pair) |
| `stop()` setting `exit_loop` before closing the listener | `TeardownOrder` |
| `response_stop` freeing nothing | `RequestCompletes` |
| `stop()` posting STOP before setting the flag | `StopEndsLoop` |
| `on_message` walking the list from its tail | `RelayImplemented` |
| `stream_response` without its empty in-progress chunk | `LifecycleImplemented` (and no other property) |
| the route loop ignoring the method | `RouteResolution` |
| the credential taken from the query first | `AuthGate` |
| path captures overwriting with `operator[]` | `HandlerParams` |

## Findings

1. **STOP posted to a destroyed receiver** (`httpserver_teardown`).
   - `stop()` sets `exit_loop` (line 177) before `send_message` (line 180).
   - The loop thread tests the flag (line 149) before its first `h2o_evloop_run` and after every wakeup. If it tests it between lines 177 and 180, it leaves `run()`. The destructor then drains and destroys the receiver.
   - TLC's shortest trace: `run()` succeeds, `stop()` closes the listener and sets the flag, the loop's first test sees it, and `DestroyFinish` releases the relay. Only then does `stop()` post STOP. A wakeup by a request or a proceed in between gives the same end.
   - After that, `stop()` posts into freed memory.
   - The spec's teardown promise (drain so that nothing is dropped) does not hold. Swapping the two statements would lose the wakeup instead (the `StopEndsLoop` mutant): the loop would sleep in `h2o_evloop_run(ctx.loop, INT32_MAX)`.
2. **Worker answers to a reset request** (`httpserver_abort`).
   - `catch_all_handler` stores the raw `h2o_req_t` in the `http_req` (line 350).
   - If the client resets the stream while a worker holds the pair, h2o frees the request.
   - The worker's answer then runs `send_response` or `stream_response` on it (lines 382–390, 425–437).
   - `stream_response` on a disposed request also installs a generator that is never proceeded or stopped, so the pair leaks. This is why the liveness run excludes resets.

## The relay refinement

`MessageRelay` is the relay with no threads, batches or wakeups. It has a channel `chan` and a flag `open`:
- `Post(m)` appends `m` to `chan`.
- `Take` removes the head while the relay is open.
- `Close` releases an open, empty relay.

`HttpServer!Relay` instantiates it with this mapping:
- `chan <- batch \o inbox`. This is the batch `on_message` is draining, followed by the receiver's `_messages`.
- `open <- loopPc # "destroyed"`.
- `Messages <- Message`.

`RelayImplemented == Relay!Spec` is checked by the relay run. Each server step corresponds to an abstract step:

| Server step | Relay step |
|---|---|
| `WorkerSend(w)`, `stop()`'s `send_message` | `Post(m)` |
| `on_message` | `Take`: the head of `batch` is the head of the channel |
| `DestroyDrain` | `Take`: `batch` is empty once the loop has exited |
| `DestroyFinish` | `Close`: both lists are empty |
| `Wake` | stutter: `batch` is empty, and `Wake` moves `inbox` into it, so the concatenation is unchanged |
| every other step | stutter |

The refinement says that messages are handled in one global FIFO order, across batch boundaries and the destructor's drain, and that the relay is not released while a message is in it. spec.md promises FIFO only per sending thread. The code gives the stronger order because there is one list, and the abstract spec states what the code gives.

A message posted after `Close` (the `httpserver_teardown` finding) is a legal `Post` of the abstract relay: it is never taken. So the refinement holds, and the drop is caught by `NoMessageDropped` instead.

## The response life cycle refinement

`ResponseLifecycle` is spec.md's life cycle of one response (sections 3 and 4.5), with no threads or transport. Per request it has:
- `phase`: `idle`, `handler` (a handler or worker holds the pair), `streaming`, `final` or `stopped`;
- `out`: the chunks written, in order;
- `released`: how many times the pair was deleted.

Its actions are `ReplyAtOnce` (preflight, 401, 404: no pair exists), `HandOff`, `Respond`, `StartStream`, `Proceed`, `Finish` and `Stop`. `Respond`, `Finish` and `Stop` release the pair; nothing leaves `final` or `stopped`.

`HttpServer!Lifecycle` maps `phase` to `ResponsePhase(r)`, `out` to `sends` and `released` to `frees`. `ResponsePhase(r)` is an ordered test:
- `idle` if the request has not arrived;
- `handler` if a worker or a queued message holds the pair;
- `streaming` while h2o holds the custom generator;
- otherwise `final` if the last chunk was final, and `stopped` if not.

| Server step | Life cycle step |
|---|---|
| `catch_all_handler`: reply at once / `send_response` / `stream_response` / hand-off | `ReplyAtOnce` / `Respond` / `StartStream` / `HandOff` |
| a delivered `respond` / `stream` message | `Respond` / `StartStream` (from `handler`) |
| `response_proceed` not final / final | `Proceed` / `Finish` |
| `response_stop` | `Stop` |
| `WorkerSend`, `AbortPending`, every other step | stutter |

`LifecycleImplemented == Lifecycle!Spec` is checked by the lifecycle run with client resets allowed. It still holds there: a reset before the response begins does not change the phase, because the worker still holds the pair. What goes wrong after such a reset is a write to a freed `h2o_req_t`, which `NoWriteAfterRelease` catches (the abort finding), not a break in the life cycle.

The refinement says more than `ResponseWellFormed` and `FreedAtMostOnce`. The mutant that drops `stream_response`'s first in-progress chunk keeps both of those, and breaks only this property.

## Proofs (`HttpServer_proofs`, `HttpServer_refinement`)

All proofs check with `tlapm HttpServer_proofs.tla` and `tlapm HttpServer_refinement.tla`. The assumption used is `ConstantsAssumption`: `MaxTurns` is a positive natural, and `NoData` is not a request.

Theorems:
- `TypeCorrect`: `Spec => []TypeOK`.
- `FreedOnce`: `Spec => []FreedAtMostOnce`.
- `WellFormed`: `Spec => []ResponseWellFormed`.
- `NoWriteAfterReleaseWithoutReset`: `~AbortBeforeResponse => (Spec => NoWriteAfterRelease)`. This is the action property, under the same assumption as the release run.
- `SingleOwner`: `Spec => []PairOwnedOnce`. This is spec sections 5 and 9's hand-off: the pair is handed on, never shared.
- `ListenerClosedAtTeardown`: `Spec => []TeardownOrder`. This is the first step of spec section 5's teardown order.

The first five follow from the inductive invariant `IInv`: `InitIInv` and `NextIInv`, then PTL.
- `SingleOwner` reads the holders off `IInv`. `HolderKinds` shows that each kind of holder pins `obj[r]` to its own value: a worker to `worker`, a message to `queued` and the generator to `gen`. So two holders of different kinds cannot coexist. `WorkInv`, `MsgDistinct` and `MsgApart` exclude two of the same kind. `frees[r] = 1` forces `obj[r] = "freed"`, which no holder allows.
- `ListenerClosedAtTeardown` needs its own strengthening, `TeardownInv`:
  - before `run()`, `stop()` has not begun and the listener is closed;
  - once `stop()` is past its first statement, the listener is closed;
  - `exit_loop` is set only when `stop()` is past its second statement;
  - once the loop has left `run()`, the listener is closed.

  `TeardownOrder` alone is not inductive: `CheckExit` leaves `run()` whenever `exitLoop` is set, and only the order of `stop()`'s statements says the listener is closed by then. TLC checked `TeardownInv` on the safety instance before it was proved. `InitTeardown` and `NextTeardown` show it is inductive given `TypeOK`.

`HttpServer_refinement` proves `RelayRefinement`: `Spec => Relay!Spec`.
- `Init` maps to `Relay!Init`.
- Under `IInv`, each `Next` step maps to a `Relay!Next` step or a stutter, as in the table above. `IInv` supplies the typing of both lists. It also supplies `loopPc # "drain" => batch = <<>>`, which makes `Wake` and `DestroyDrain` correspond as stated.
- The sequence lemmas are `AppendConcat` (a post appends to the whole concatenation) and `TailConcat` (taking from a non-empty batch takes the head of the whole).
- `RelayPost` and `RelayStutter` factor out the common cases.

`HttpServer_refinement` also proves `LifecycleRefinement`: `Spec => LifecycleImplemented`. It holds for every value of `AbortBeforeResponse`.
- **The strengthening.** `IInv` alone does not fix `ResponsePhase` before and after each step. `PhaseInv` adds three facts per request:
  - a pair owned by the generator has a live generator;
  - an open request's pair is held by a worker, a message or the generator;
  - a request that has arrived and whose pair no worker or message holds has been written to.

  TLC checked `PhaseInv` on the safety and release instances before it was proved. `InitPhaseInv` and `NextPhaseInv` show it is inductive relative to `IInv`.
- **The step.** `LifecycleStep` shows `IInv /\ PhaseInv /\ [Next]_vars => [Lifecycle!Next]_Lifecycle!vars`, with one case per action as in the table above.
  - `PhaseTransition` turns a change at one request into `Lifecycle!Transition`.
  - `PhaseKept` handles stutters that touch one request.
  - `DeliverLifecycle` handles deliveries.
  - `SendResponseFacts`, `StreamResponseFacts` and `AppendLast` describe the helpers.
- **A lesson from the proof.** `ResponsePhase` was first written as a `CASE`. A TLA+ `CASE` chooses among all true arms, so it is not the ordered test TLC evaluates. The proof could not fix its value, and it is now an `IF ... ELSE` chain.

**Why the strengthening is needed.** `FreedAtMostOnce` alone is not inductive. A step of `on_message` may free a pair, and nothing in `frees` says whether another path still holds the same pair. `IInv` tracks ownership:
- **`ReqOK(r)`:**
  - `frees[r]` is 1 exactly when `obj[r] = "freed"`.
  - A live generator belongs to a `gen` pair with turns left.
  - A pair held by a worker or a message has no generator and no turns.
  - While any party still holds the pair, no final chunk has been sent. This is what keeps a late answer from producing a second final chunk.
  - Without resets, a complete or disposed request has no live pair. This is what `NoWriteAfterRelease` needs.
- **`WorkInv`:** a request in a worker's set is owned by that worker alone.
- **`MsgOwned`, `MsgDistinct`, `MsgApart`:** every message carrying a request carries a `queued` pair, and no request is carried twice, within or across the inbox and the batch. So one delivery cannot free a pair that another message still points at.
- **`batch` vs. `loopPc`:** `batch` is non-empty exactly in `drain`, so `Head(batch)` is defined when `on_message` runs.

TLC checked `IInv` as an invariant of the safety and release instances before it was proved.

**Lemmas.**
- About the helpers: `SendFacts` for `Send`; `TailDistinct`, `AppendDistinct` and `PopFacts` for the message lists.
- `DeliverStep` covers one delivery.
- `OneRequestStep` and `FrameIInv` cover the frame of steps that touch one request.
- `DeliverWrites` and `WritersOwn` link writes to ownership for the action property.

**What stays with TLC.**
- **Liveness** (`RequestCompletes`, `StopEndsLoop`): TLAPS does not handle fairness and ENABLED here.
- **All of `Dispatch`:** its properties are about what recursive functions over sequences compute for every input (`FirstMatch`'s scan, `parse_query`'s and `WithPathParams`'s folds). Even the defining equation of such a function needs `RecursiveFcnOfNat` from `NaturalsInduction`, and its result needs induction over the index. Both theorems take an operator parameter, which the installed provers cannot instantiate. `Dispatch` also extends `SequencesExt`, whose folds are `RECURSIVE` operators. They are checked exhaustively over the bounded alphabets.
- **The two violations.**

## Not modelled

- **`setup_ssl`, `create_listener`, `on_accept` (lines 40–130).** They are OpenSSL and socket setup. Their effect on the rest of the server is only whether `run()` has a listener, which is a nondeterministic outcome of `run`.
- **`register_handler`, `get_status_reason`, `send_401_unauthorized`'s body, `set_auth_handler`.** These are configuration and formatting. The auth handler is a constant operator of `Dispatch`.
- **`clear_timeouts`.** It fires h2o's timer callbacks, which are not this file's code. The destructor's release is the single step `DestroyFinish`.
- **The memory model.** `exit_loop` is a plain `bool` read and written by two threads, which is a data race. The model treats it as sequentially consistent (see the hazards in `PROJECT.json`).

## Plan for later sittings

- A composition of `Dispatch`'s outcome with `HttpServer`'s `catch_all_handler` disjuncts.
- Liveness of the relay (every posted message is eventually taken unless the relay is closed), which stays with TLC.
