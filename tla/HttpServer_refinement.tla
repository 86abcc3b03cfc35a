------------------------ MODULE HttpServer_refinement ------------------------
(***************************************************************************)
(* Proof that the server's relay implements the abstract relay of module  *)
(* MessageRelay under the mapping of HttpServer!Relay: the channel is the  *)
(* list on_message drains followed by the receiver's list, and the relay   *)
(* is open until the destructor releases it.                               *)
(***************************************************************************)
EXTENDS HttpServer_proofs

-----------------------------------------------------------------------------
(* Two facts about concatenation.                                          *)

\* Appending to the second part of a concatenation appends to the whole.
LEMMA AppendConcat ==
    ASSUME NEW S, NEW b \in Seq(S), NEW i \in Seq(S), NEW m \in S
    PROVE  Append(b \o i, m) = b \o Append(i, m)
<1>1. /\ Append(b \o i, m) = (b \o i) \o <<m>>
      /\ Append(i, m) = i \o <<m>>
  BY ConcatProperties, AppendIsConcat
<1>2. <<m>> \in Seq(S)
  OBVIOUS
<1>. QED
  BY <1>1, <1>2, ConcatAssociative

\* Removing the head of a concatenation whose first part is not empty
\* removes the head of the first part.
LEMMA TailConcat ==
    ASSUME NEW S, NEW b \in Seq(S), b # <<>>, NEW i \in Seq(S)
    PROVE  Tail(b \o i) = Tail(b) \o i
<1>1. /\ b \o i \in Seq(S) /\ Len(b \o i) = Len(b) + Len(i)
      /\ \A k \in 1..Len(b) + Len(i) :
            (b \o i)[k] = IF k <= Len(b) THEN b[k] ELSE i[k - Len(b)]
  BY ConcatProperties
<1>2. /\ Tail(b) \in Seq(S) /\ Len(Tail(b)) = Len(b) - 1
      /\ \A k \in 1..Len(Tail(b)) : Tail(b)[k] = b[k + 1]
      /\ Len(b) \in Nat \ {0} /\ Len(i) \in Nat
  BY HeadTailProperties, EmptySeq, LenProperties
<1>3. b \o i # <<>>
  BY <1>1, <1>2, EmptySeq
<1>4. /\ Tail(b \o i) \in Seq(S) /\ Len(Tail(b \o i)) = Len(b) + Len(i) - 1
      /\ \A k \in 1..Len(Tail(b \o i)) : Tail(b \o i)[k] = (b \o i)[k + 1]
  BY <1>1, <1>3, HeadTailProperties
<1>5. /\ Tail(b) \o i \in Seq(S) /\ Len(Tail(b) \o i) = Len(b) - 1 + Len(i)
      /\ \A k \in 1..Len(b) - 1 + Len(i) :
            (Tail(b) \o i)[k] = IF k <= Len(b) - 1 THEN b[k + 1]
                                                   ELSE i[k - (Len(b) - 1)]
  BY <1>2, ConcatProperties
<1>. QED
  BY <1>1, <1>2, <1>4, <1>5, SeqEqual
-----------------------------------------------------------------------------
(* The refinement.                                                         *)

\* A step that moves no message and neither enters nor leaves the
\* destroyed state is a stutter of the abstract relay.
LEMMA RelayStutter ==
    ASSUME UNCHANGED <<batch, inbox>>,
           loopPc # "destroyed", loopPc' # "destroyed"
    PROVE  UNCHANGED Relay!vars
BY DEF Relay!vars

\* A step that appends m to the receiver's list, with the loop where it was,
\* is a Post(m) of the abstract relay.
LEMMA RelayPost ==
    ASSUME IInv, NEW m \in Message, inbox' = Append(inbox, m),
           UNCHANGED <<batch, loopPc>>
    PROVE  Relay!Post(m)
<1>1. batch \in Seq(Message) /\ inbox \in Seq(Message)
  BY DEF IInv, TypeOK
<1>2. (batch \o inbox)' = Append(batch \o inbox, m)
  BY <1>1, AppendConcat
<1>. QED
  BY <1>2 DEF Relay!Post

\* The server's relay implements the abstract one: every step of the
\* server either posts at the tail of batch \o inbox, takes its head, releases
\* it once empty, or leaves both untouched.
THEOREM RelayRefinement == Spec => RelayImplemented
<1>1. Init => Relay!Init
  <2>. SUFFICES ASSUME Init PROVE Relay!Init
    OBVIOUS
  <2>1. batch \o inbox = <<>>
    BY EmptySeq, ConcatEmptySeq DEF Init
  <2>. QED
    BY <2>1 DEF Init, Relay!Init
<1>2. IInv /\ [Next]_vars => [Relay!Next]_Relay!vars
  <2>. SUFFICES ASSUME IInv, [Next]_vars PROVE [Relay!Next]_Relay!vars
    OBVIOUS
  <2>. USE ConstantsAssumption
  <2>1. /\ batch \in Seq(Message) /\ inbox \in Seq(Message)
        /\ loopPc \in LoopStates
    BY DEF IInv, TypeOK
  <2>2. CASE run
    BY <2>2, RelayStutter DEF run
  <2>3. CASE CheckExit
    BY <2>3, RelayStutter DEF CheckExit
  <2>4. CASE Wake
    <3>1. batch = <<>> /\ batch' = inbox /\ inbox' = <<>>
      BY <2>4 DEF Wake, IInv
    <3>2. batch' \o inbox' = batch \o inbox
      BY <2>1, <3>1, ConcatEmptySeq
    <3>. QED
      BY <2>4, <3>2 DEF Wake, Relay!vars
  <2>5. CASE on_message
    <3>1. batch # <<>> /\ batch' = Tail(batch) /\ inbox' = inbox
      BY <2>5 DEF on_message, IInv
    <3>2. (batch \o inbox)' = Tail(batch \o inbox)
      BY <2>1, <3>1, TailConcat
    <3>3. batch \o inbox # <<>>
      BY <2>1, <3>1, ConcatEqualIffEmpty
    <3>4. loopPc # "destroyed" /\ loopPc' # "destroyed"
      BY <2>5 DEF on_message
    <3>. QED
      BY <3>2, <3>3, <3>4 DEF Relay!Next, Relay!Take
  <2>6. CASE DestroyDrain
    <3>1. batch = <<>> /\ inbox # <<>> /\ inbox' = Tail(inbox)
          /\ batch' = batch /\ loopPc' = loopPc /\ loopPc = "exited"
      BY <2>6 DEF DestroyDrain, IInv
    <3>2. Tail(inbox) \in Seq(Message)
      BY <2>1, <3>1, HeadTailProperties
    <3>3. /\ batch \o inbox = inbox
          /\ (batch \o inbox)' = Tail(inbox)
      BY <2>1, <3>1, <3>2, ConcatEmptySeq
    <3>. QED
      BY <3>1, <3>3 DEF Relay!Next, Relay!Take
  <2>7. CASE DestroyFinish
    <3>1. batch = <<>> /\ inbox = <<>> /\ UNCHANGED <<batch, inbox>>
          /\ loopPc = "exited" /\ loopPc' = "destroyed"
      BY <2>7 DEF DestroyFinish, IInv
    <3>2. batch \o inbox = <<>>
      BY <3>1, EmptySeq, ConcatEmptySeq
    <3>. QED
      BY <3>1, <3>2 DEF Relay!Next, Relay!Close
  <2>8. ASSUME NEW r \in Requests,
               \/ catch_all_handler(r) \/ response_proceed(r)
               \/ response_stop(r) \/ AbortPending(r)
        PROVE  UNCHANGED Relay!vars
    <3>1. UNCHANGED <<batch, inbox>> /\ loopPc = "wait" /\ loopPc' = "check"
      BY <2>8 DEF catch_all_handler, response_proceed, response_stop,
                  AbortPending
    <3>. QED
      BY <3>1, RelayStutter
  <2>9. ASSUME NEW w \in Workers, WorkerSend(w)
        PROVE  Relay!Next
    <3>1. PICK r \in work[w], type \in {"respond", "stream"} :
                 /\ inbox' = Append(inbox, [type |-> type, data |-> r])
                 /\ UNCHANGED <<batch, loopPc>>
      BY <2>9 DEF WorkerSend, send_message
    <3>2. r \in Requests
      BY DEF IInv, TypeOK
    <3>3. [type |-> type, data |-> r] \in Message
      BY <3>2 DEF Message
    <3>. QED
      BY <3>1, <3>3, RelayPost DEF Relay!Next
  <2>10. CASE stop
    <3>1. /\ stopPc \in 1..Len(StopOrder)
          /\ StopStep(StopOrder[stopPc])
          /\ UNCHANGED <<batch, loopPc>>
      BY <2>10 DEF stop
    <3>2. CASE StopOrder[stopPc] = "send_stop"
      <4>1. inbox' = Append(inbox, [type |-> "stop", data |-> NoData])
        BY <3>1, <3>2, StopOrderFacts DEF StopStep, send_message
      <4>2. [type |-> "stop", data |-> NoData] \in Message
        BY DEF Message
      <4>. QED
        BY <3>1, <4>1, <4>2, RelayPost DEF Relay!Next
    <3>3. CASE StopOrder[stopPc] # "send_stop"
      <4>1. UNCHANGED inbox
        BY <3>1, <3>3, StopOrderFacts DEF StopStep
      <4>. QED
        BY <3>1, <4>1 DEF Relay!vars
    <3>. QED
      BY <3>2, <3>3
  <2>11. CASE UNCHANGED vars
    BY <2>11 DEF vars, Relay!vars
  <2>. QED
    BY <2>2, <2>3, <2>4, <2>5, <2>6, <2>7, <2>8, <2>9, <2>10, <2>11
       DEF Next, LoopThread, Transport
<1>. QED
  BY <1>1, <1>2, InitIInv, NextIInv, PTL DEF Spec, RelayImplemented, Relay!Spec
-----------------------------------------------------------------------------
(* The response life cycle: what ResponsePhase needs of the server's      *)
(* state besides IInv.                                                     *)

\* Per request: the custom generator is live as long as it owns the pair; an
\* open request's pair is held by a worker, a message or the generator; a
\* request that arrived and whose pair no worker or message holds has been
\* written to.
PhaseOK(r) ==
    /\ obj[r] = "gen" => generator[r]
    /\ req[r] = "open" => obj[r] \in {"worker", "queued", "gen"}
    /\ req[r] # "none" /\ obj[r] \notin {"worker", "queued"} => sends[r] # <<>>

PhaseInv == \A r \in Requests : PhaseOK(r)

\* Appending a send gives a non-empty list that ends with that send.
LEMMA AppendLast ==
    ASSUME NEW s \in Seq(SendStates), NEW c \in SendStates
    PROVE  /\ Append(s, c) # <<>>
           /\ Append(s, c)[Len(Append(s, c))] = c
           /\ Append(s, c) \in Seq(SendStates)
<1>1. /\ Len(Append(s, c)) = Len(s) + 1 /\ Append(s, c)[Len(s) + 1] = c
      /\ Len(s) \in Nat /\ Append(s, c) \in Seq(SendStates)
  BY AppendProperties, LenProperties
<1>2. Append(s, c) # <<>>
  BY <1>1, EmptySeq
<1>. QED
  BY <1>1, <1>2

\* Unchanged per-request state of everything but r.
OthersUnchanged(r) ==
    \A x \in Requests \ {r} :
       /\ req'[x] = req[x] /\ obj'[x] = obj[x]
       /\ generator'[x] = generator[x] /\ sends'[x] = sends[x]

\* A step that changes the per-request state of r alone keeps PhaseInv if
\* it keeps PhaseOK(r).
LEMMA PhaseFrame ==
    ASSUME PhaseInv, NEW r \in Requests, PhaseOK(r)',
           \A x \in Requests \ {r} :
              /\ req'[x] = req[x] /\ obj'[x] = obj[x]
              /\ generator'[x] = generator[x] /\ sends'[x] = sends[x]
    PROVE  PhaseInv'
BY DEF PhaseInv, PhaseOK

\* What send_response does to the state of r.
LEMMA SendResponseFacts ==
    ASSUME TypeOK, NEW r \in Requests, send_response(r)
    PROVE  /\ req'[r] \in {"done", "disposed"} /\ obj'[r] = "freed"
           /\ generator'[r] = FALSE
           /\ sends'[r] = Append(sends[r], "final")
           /\ frees'[r] = frees[r] + 1
           /\ \A x \in Requests \ {r} :
                 /\ req'[x] = req[x] /\ obj'[x] = obj[x]
                 /\ generator'[x] = generator[x] /\ sends'[x] = sends[x]
                 /\ frees'[x] = frees[x]
<1>1. /\ sends' = [sends EXCEPT ![r] = Append(sends[r], "final")]
      /\ generator' = [generator EXCEPT ![r] = FALSE]
  BY Zenon DEF send_response, Send
<1>2. /\ obj' = [obj EXCEPT ![r] = "freed"]
      /\ frees' = [frees EXCEPT ![r] = frees[r] + 1]
  BY Zenon DEF send_response, Free
<1>3. req' = [req EXCEPT ![r] = IF req[r] = "disposed" THEN "disposed" ELSE "done"]
  BY Zenon DEF send_response
<1>. QED
  BY <1>1, <1>2, <1>3 DEF TypeOK

\* What stream_response does to the state of r.
LEMMA StreamResponseFacts ==
    ASSUME TypeOK, NEW r \in Requests, stream_response(r)
    PROVE  /\ obj'[r] = "gen" /\ generator'[r] = TRUE
           /\ sends'[r] = Append(sends[r], "in_progress")
           /\ frees' = frees
           /\ \A x \in Requests \ {r} :
                 /\ obj'[x] = obj[x]
                 /\ generator'[x] = generator[x] /\ sends'[x] = sends[x]
BY DEF stream_response, TypeOK

\* Delivering a message whose pair is queued keeps PhaseOK.
LEMMA DeliverPhase ==
    ASSUME IInv, PhaseInv, NEW m \in Message,
           m.data \in Requests => obj[m.data] = "queued", Deliver(m)
    PROVE  PhaseInv'
<1>1. CASE m.type \in handlers /\ m.type = "respond" /\ send_response(m.data)
  <2>. DEFINE r == m.data
  <2>1. r \in Requests /\ obj[r] = "queued" /\ TypeOK
    BY <1>1 DEF Message, IInv
  <2>2. Append(sends[r], "final") # <<>>
    BY Zenon, <2>1, AppendLast DEF SendStates, TypeOK
  <2>3. PhaseOK(r)'
    BY Zenon, <1>1, <2>1, <2>2, SendResponseFacts DEF PhaseOK
  <2>. QED
    BY Zenon, <1>1, <2>1, <2>3, SendResponseFacts, PhaseFrame
<1>2. CASE m.type \in handlers /\ m.type = "stream" /\ stream_response(m.data)
             /\ UNCHANGED req
  <2>. DEFINE r == m.data
  <2>1. r \in Requests /\ obj[r] = "queued" /\ TypeOK
    BY <1>2 DEF Message, IInv
  <2>2. Append(sends[r], "in_progress") # <<>>
    BY Zenon, <2>1, AppendLast DEF SendStates, TypeOK
  <2>3. PhaseOK(r)'
    BY Zenon, <1>2, <2>1, <2>2, StreamResponseFacts DEF PhaseOK
  <2>4. OthersUnchanged(r)
    BY <1>2, <2>1, StreamResponseFacts DEF OthersUnchanged
  <2>. QED
    BY <2>1, <2>3, <2>4, PhaseFrame DEF OthersUnchanged
<1>3. CASE UNCHANGED respVars
  BY <1>3 DEF PhaseInv, PhaseOK, respVars
<1>. QED
  BY <1>1, <1>2, <1>3 DEF Deliver

LEMMA InitPhaseInv == Init => PhaseInv
BY DEF Init, PhaseInv, PhaseOK

LEMMA NextPhaseInv == IInv /\ PhaseInv /\ [Next]_vars => PhaseInv'
<1> SUFFICES ASSUME IInv, PhaseInv, [Next]_vars PROVE PhaseInv'
  OBVIOUS
<1>0. TypeOK /\ ReqInv
  BY DEF IInv
<1>1. CASE UNCHANGED <<req, obj, generator, sends>>
  BY <1>1 DEF PhaseInv, PhaseOK
<1>2. CASE run \/ CheckExit \/ Wake \/ DestroyFinish \/ stop \/ UNCHANGED vars
  BY <1>2, <1>1 DEF run, CheckExit, Wake, DestroyFinish, stop, vars, respVars
<1>3. CASE on_message
  <2>1. batch \in Seq(Message) /\ batch # <<>>
    BY <1>3 DEF on_message, IInv, TypeOK
  <2>. QED
    BY <1>3, <2>1, PopFacts, DeliverPhase DEF on_message, IInv
<1>4. CASE DestroyDrain
  <2>1. inbox \in Seq(Message) /\ inbox # <<>>
    BY <1>4 DEF DestroyDrain, IInv, TypeOK
  <2>. QED
    BY <1>4, <2>1, PopFacts, DeliverPhase DEF DestroyDrain, IInv
<1>5. ASSUME NEW w \in Workers, WorkerSend(w) PROVE PhaseInv'
  <2>1. PICK r \in work[w] : obj' = [obj EXCEPT ![r] = "queued"]
                            /\ UNCHANGED <<req, generator, sends>>
    BY Zenon, <1>5 DEF WorkerSend
  <2>2. r \in Requests /\ obj[r] = "worker"
    BY DEF IInv, TypeOK, WorkInv
  <2>. QED
    BY <1>0, <2>1, <2>2, PhaseFrame DEF PhaseOK, TypeOK
<1>6. ASSUME NEW r \in Requests, catch_all_handler(r) PROVE PhaseInv'
  <2>0. req[r] = "none" /\ obj[r] = "none"
    BY <1>6, <1>0 DEF catch_all_handler, ReqInv, ReqOK
  <2>1. /\ Append(sends[r], "final") # <<>>
        /\ Append(sends[r], "in_progress") # <<>>
    BY Zenon, <1>0, AppendLast DEF TypeOK, SendStates
  <2>2. CASE /\ Send(r, "final") /\ req' = [req EXCEPT ![r] = "done"]
             /\ UNCHANGED <<obj, turns, frees, work>>
    <3>1. /\ sends' = [sends EXCEPT ![r] = Append(sends[r], "final")]
          /\ generator' = [generator EXCEPT ![r] = FALSE]
      BY <2>2, Zenon DEF Send
    <3>2. PhaseOK(r)'
      BY <1>0, <2>0, <2>1, <2>2, <3>1 DEF PhaseOK, TypeOK
    <3>. QED
      BY Zenon, <1>0, <2>2, <3>1, <3>2, PhaseFrame DEF TypeOK
  <2>3. CASE send_response(r) /\ UNCHANGED work
    <3>1. PhaseOK(r)'
      BY Zenon, <1>0, <2>1, <2>3, SendResponseFacts DEF PhaseOK
    <3>. QED
      BY Zenon, <1>0, <2>3, <3>1, SendResponseFacts, PhaseFrame
  <2>4. CASE stream_response(r) /\ UNCHANGED work
             /\ req' = [req EXCEPT ![r] = "open"]
    <3>1. PhaseOK(r)'
      BY Zenon, <1>0, <2>1, <2>4, StreamResponseFacts DEF PhaseOK, TypeOK
    <3>. QED
      BY Zenon, <1>0, <2>4, <3>1, StreamResponseFacts, PhaseFrame DEF TypeOK
  <2>5. CASE \E w \in Workers :
               /\ work' = [work EXCEPT ![w] = @ \cup {r}]
               /\ obj' = [obj EXCEPT ![r] = "worker"]
               /\ req' = [req EXCEPT ![r] = "open"]
               /\ UNCHANGED <<generator, sends, turns, frees>>
    <3>1. /\ obj' = [obj EXCEPT ![r] = "worker"]
          /\ req' = [req EXCEPT ![r] = "open"]
          /\ UNCHANGED <<generator, sends>>
      BY <2>5
    <3>. QED
      BY <1>0, <3>1, PhaseFrame DEF PhaseOK, TypeOK
  <2>. QED
    BY <1>6, <2>2, <2>3, <2>4, <2>5 DEF catch_all_handler
<1>7. ASSUME NEW r \in Requests, response_proceed(r) PROVE PhaseInv'
  <2>1. PICK final \in BOOLEAN :
          /\ Send(r, IF final THEN "final" ELSE "in_progress")
          /\ IF final
               THEN /\ req' = [req EXCEPT ![r] = "disposed"]
                    /\ Free(r)
               ELSE UNCHANGED <<req, obj, frees>>
    BY <1>7 DEF response_proceed
  <2>2. /\ generator[r] /\ req[r] = "open"
    BY <1>7 DEF response_proceed
  <2>3. CASE final
    <3>1. /\ sends' = [sends EXCEPT ![r] = Append(sends[r], "final")]
          /\ generator' = [generator EXCEPT ![r] = FALSE]
          /\ req' = [req EXCEPT ![r] = "disposed"]
          /\ obj' = [obj EXCEPT ![r] = "freed"]
      BY <2>1, <2>3, Zenon DEF Send, Free
    <3>2. Append(sends[r], "final") # <<>>
      BY Zenon, <1>0, AppendLast DEF TypeOK, SendStates
    <3>3. PhaseOK(r)'
      BY <1>0, <3>1, <3>2 DEF PhaseOK, TypeOK
    <3>. QED
      BY Zenon, <1>0, <3>1, <3>3, PhaseFrame DEF TypeOK
  <2>4. CASE ~final
    <3>1. /\ sends' = [sends EXCEPT ![r] = Append(sends[r], "in_progress")]
          /\ generator' = [generator EXCEPT ![r] = TRUE]
          /\ UNCHANGED <<req, obj>>
      BY <2>1, <2>2, <2>4, Zenon DEF Send
    <3>2. Append(sends[r], "in_progress") # <<>>
      BY Zenon, <1>0, AppendLast DEF TypeOK, SendStates
    <3>3. PhaseOK(r)'
      BY <1>0, <2>2, <3>1, <3>2 DEF PhaseOK, PhaseInv, TypeOK
    <3>. QED
      BY Zenon, <1>0, <3>1, <3>3, PhaseFrame DEF TypeOK
  <2>. QED
    BY <2>3, <2>4
<1>8. ASSUME NEW r \in Requests, response_stop(r) PROVE PhaseInv'
  <2>1. /\ req' = [req EXCEPT ![r] = "disposed"]
        /\ generator' = [generator EXCEPT ![r] = FALSE]
        /\ obj' = [obj EXCEPT ![r] = "freed"]
        /\ UNCHANGED sends
    BY <1>8 DEF response_stop, Free
  <2>2. PhaseOK(r)' 
    <3>1. sends[r] # <<>>
      BY <1>8, <1>0 DEF response_stop, PhaseInv, PhaseOK, ReqInv, ReqOK
    <3>. QED
      BY <1>0, <2>1, <3>1 DEF PhaseOK, TypeOK
  <2>. QED
    BY Zenon, <1>0, <2>1, <2>2, PhaseFrame DEF TypeOK
<1>9. ASSUME NEW r \in Requests, AbortPending(r) PROVE PhaseInv'
  <2>1. /\ req' = [req EXCEPT ![r] = "disposed"]
        /\ UNCHANGED <<obj, generator, sends>>
    BY <1>9 DEF AbortPending
  <2>2. obj[r] \in {"worker", "queued"}
    BY <1>9 DEF AbortPending, PhaseInv, PhaseOK
  <2>. QED
    BY <1>0, <2>1, <2>2, PhaseFrame DEF PhaseOK, TypeOK
<1>. QED
  BY <1>2, <1>3, <1>4, <1>5, <1>6, <1>7, <1>8, <1>9
     DEF Next, LoopThread, Transport
-----------------------------------------------------------------------------
(* The response life cycle refinement.                                     *)

\* The phase function the mapping substitutes for Lifecycle's phase.
Ph == [q \in Requests |-> ResponsePhase(q)]

\* A step that changes the state of r alone, from a phase in `from` to
\* phase `to`, is a transition of the abstract life cycle.
LEMMA PhaseTransition ==
    ASSUME NEW r \in Requests, NEW from, NEW to, OthersUnchanged(r),
           ResponsePhase(r) \in from, ResponsePhase(r)' = to
    PROVE  Lifecycle!Transition(r, from, to)
<1>1. \A x \in Requests \ {r} : ResponsePhase(x)' = ResponsePhase(x)
  BY DEF OthersUnchanged, ResponsePhase
<1>2. Ph' = [Ph EXCEPT ![r] = to]
  BY Zenon, <1>1 DEF Ph
<1>. QED
  BY <1>2 DEF Ph, Lifecycle!Transition

\* A step that leaves r's phase where it was, and changes no other request,
\* leaves the phase function unchanged.
LEMMA PhaseKept ==
    ASSUME NEW r \in Requests, OthersUnchanged(r),
           ResponsePhase(r)' = ResponsePhase(r)
    PROVE  Ph' = Ph
<1>1. \A x \in Requests : ResponsePhase(x)' = ResponsePhase(x)
  BY DEF OthersUnchanged, ResponsePhase
<1>. QED
  BY <1>1 DEF Ph

\* Delivering a message whose pair is queued is a Respond, a StartStream
\* or a stutter of the life cycle.
LEMMA DeliverLifecycle ==
    ASSUME IInv, PhaseInv, NEW m \in Message,
           m.data \in Requests => obj[m.data] = "queued", Deliver(m)
    PROVE  [Lifecycle!Next]_Lifecycle!vars
<1>1. CASE m.type \in handlers /\ m.type = "respond" /\ send_response(m.data)
  <2>. DEFINE r == m.data
  <2>1. r \in Requests /\ obj[r] = "queued" /\ TypeOK /\ req[r] # "none"
    BY <1>1 DEF Message, IInv, ReqInv, ReqOK
  <2>2. Append(sends[r], "final")[Len(Append(sends[r], "final"))] = "final"
        /\ Append(sends[r], "final") # <<>>
    BY Zenon, <2>1, AppendLast DEF SendStates, TypeOK
  <2>3. /\ req'[r] \in {"done", "disposed"} /\ obj'[r] = "freed"
        /\ generator'[r] = FALSE
        /\ sends'[r] = Append(sends[r], "final")
    BY Zenon, <1>1, <2>1, SendResponseFacts
  <2>6. ResponsePhase(r) = "handler"
    BY <2>1 DEF ResponsePhase
  <2>7. ResponsePhase(r)' = "final"
    BY <2>2, <2>3 DEF ResponsePhase
  <2>4. Lifecycle!Transition(r, {"idle", "handler"}, "final")
    BY Zenon, <1>1, <2>1, <2>6, <2>7, SendResponseFacts, PhaseTransition
       DEF OthersUnchanged
  <2>5. /\ sends' = [sends EXCEPT ![r] = Append(@, "final")]
        /\ frees' = [frees EXCEPT ![r] = @ + 1]
    BY <1>1, Zenon DEF send_response, Send, Free
  <2>. QED
    BY Zenon, <2>1, <2>4, <2>5
       DEF Lifecycle!Next, Lifecycle!Respond, Lifecycle!Write, Lifecycle!Release
<1>2. CASE m.type \in handlers /\ m.type = "stream" /\ stream_response(m.data)
             /\ UNCHANGED req
  <2>. DEFINE r == m.data
  <2>1. r \in Requests /\ obj[r] = "queued" /\ TypeOK /\ req[r] # "none"
    BY <1>2 DEF Message, IInv, ReqInv, ReqOK
  <2>5. /\ obj'[r] = "gen" /\ generator'[r] = TRUE /\ req'[r] = req[r]
    BY Zenon, <1>2, <2>1, StreamResponseFacts
  <2>6. ResponsePhase(r) = "handler"
    BY <2>1 DEF ResponsePhase
  <2>7. ResponsePhase(r)' = "streaming"
    BY <2>1, <2>5 DEF ResponsePhase
  <2>2. /\ ResponsePhase(r) = "handler"
        /\ ResponsePhase(r)' = "streaming"
    BY <2>6, <2>7
  <2>8. OthersUnchanged(r)
    BY <1>2, <2>1, StreamResponseFacts DEF OthersUnchanged
  <2>3. Lifecycle!Transition(r, {"idle", "handler"}, "streaming")
    BY <2>1, <2>2, <2>8, PhaseTransition
  <2>4. /\ sends' = [sends EXCEPT ![r] = Append(@, "in_progress")]
        /\ frees' = frees
    BY <1>2, Zenon DEF stream_response
  <2>. QED
    BY Zenon, <2>1, <2>3, <2>4
       DEF Lifecycle!Next, Lifecycle!StartStream, Lifecycle!Write
<1>3. CASE UNCHANGED respVars
  BY <1>3 DEF respVars, Lifecycle!vars, ResponsePhase
<1>. QED
  BY <1>1, <1>2, <1>3 DEF Deliver

\* Every step of the server is a step of the abstract life cycle or leaves
\* its variables unchanged.
LEMMA LifecycleStep ==
    IInv /\ PhaseInv /\ [Next]_vars => [Lifecycle!Next]_Lifecycle!vars
<1> SUFFICES ASSUME IInv, PhaseInv, [Next]_vars
             PROVE  [Lifecycle!Next]_Lifecycle!vars
  OBVIOUS
<1>0. TypeOK /\ ReqInv
  BY DEF IInv
<1>1. CASE UNCHANGED <<req, obj, generator, sends, frees>>
  BY <1>1 DEF Lifecycle!vars, ResponsePhase
<1>2. CASE run \/ CheckExit \/ Wake \/ DestroyFinish \/ stop \/ UNCHANGED vars
  BY <1>2, <1>1 DEF run, CheckExit, Wake, DestroyFinish, stop, vars, respVars
<1>3. CASE on_message
  <2>1. batch \in Seq(Message) /\ batch # <<>>
    BY <1>3 DEF on_message, IInv, TypeOK
  <2>. QED
    BY <1>3, <2>1, PopFacts, DeliverLifecycle DEF on_message, IInv
<1>4. CASE DestroyDrain
  <2>1. inbox \in Seq(Message) /\ inbox # <<>>
    BY <1>4 DEF DestroyDrain, IInv, TypeOK
  <2>. QED
    BY <1>4, <2>1, PopFacts, DeliverLifecycle DEF DestroyDrain, IInv
<1>5. ASSUME NEW w \in Workers, WorkerSend(w)
      PROVE  UNCHANGED Lifecycle!vars
  <2>1. PICK r \in work[w] : obj' = [obj EXCEPT ![r] = "queued"]
                            /\ UNCHANGED <<req, generator, sends, frees>>
    BY Zenon, <1>5 DEF WorkerSend
  <2>2. r \in Requests /\ obj[r] = "worker" /\ req[r] # "none"
    BY <1>0 DEF IInv, TypeOK, WorkInv, ReqInv, ReqOK
  <2>3. OthersUnchanged(r) /\ ResponsePhase(r)' = ResponsePhase(r)
    BY <1>0, <2>1, <2>2 DEF OthersUnchanged, ResponsePhase, TypeOK
  <2>. QED
    BY <2>1, <2>2, <2>3, PhaseKept DEF Lifecycle!vars, Ph
<1>6. ASSUME NEW r \in Requests, AbortPending(r)
      PROVE  UNCHANGED Lifecycle!vars
  <2>1. /\ req' = [req EXCEPT ![r] = "disposed"]
        /\ UNCHANGED <<obj, generator, sends, frees>>
    BY <1>6 DEF AbortPending
  <2>2. obj[r] \in {"worker", "queued"} /\ req[r] = "open"
    BY <1>6 DEF AbortPending, PhaseInv, PhaseOK
  <2>3. OthersUnchanged(r) /\ ResponsePhase(r)' = ResponsePhase(r)
    BY <1>0, <2>1, <2>2 DEF OthersUnchanged, ResponsePhase, TypeOK
  <2>. QED
    BY <2>1, <2>3, PhaseKept DEF Lifecycle!vars, Ph
<1>7. ASSUME NEW r \in Requests, catch_all_handler(r)
      PROVE  Lifecycle!Next
  <2>0. /\ req[r] = "none" /\ obj[r] = "none"
        /\ ResponsePhase(r) = "idle"
        /\ sends[r] \in Seq(SendStates)
    BY <1>0, <1>7 DEF catch_all_handler, ReqInv, ReqOK, ResponsePhase,
                          TypeOK
  <2>1. /\ Append(sends[r], "final") # <<>>
        /\ Append(sends[r], "final")[Len(Append(sends[r], "final"))] = "final"
    BY <2>0, AppendLast DEF SendStates
  <2>2. CASE /\ Send(r, "final") /\ req' = [req EXCEPT ![r] = "done"]
             /\ UNCHANGED <<obj, turns, frees, work>>
    <3>1. /\ sends' = [sends EXCEPT ![r] = Append(sends[r], "final")]
          /\ generator' = [generator EXCEPT ![r] = FALSE]
      BY <2>2, Zenon DEF Send
    <3>2. OthersUnchanged(r)
      BY <1>0, <2>2, <3>1 DEF OthersUnchanged, TypeOK
    <3>3. ResponsePhase(r)' = "final"
      BY <1>0, <2>0, <2>1, <2>2, <3>1 DEF ResponsePhase, TypeOK
    <3>4. Lifecycle!Transition(r, {"idle"}, "final")
      BY <2>0, <3>2, <3>3, PhaseTransition
    <3>. QED
      BY Zenon, <2>2, <3>4
         DEF Send, Lifecycle!Next, Lifecycle!ReplyAtOnce, Lifecycle!Write
  <2>3. CASE send_response(r) /\ UNCHANGED work
    <3>1. ResponsePhase(r)' = "final"
      BY Zenon, <1>0, <2>1, <2>3, SendResponseFacts DEF ResponsePhase
    <3>2. Lifecycle!Transition(r, {"idle", "handler"}, "final")
      BY Zenon, <1>0, <2>0, <2>3, <3>1, SendResponseFacts, PhaseTransition
         DEF OthersUnchanged
    <3>3. /\ sends' = [sends EXCEPT ![r] = Append(@, "final")]
          /\ frees' = [frees EXCEPT ![r] = @ + 1]
      BY <2>3, Zenon DEF send_response, Send, Free
    <3>. QED
      BY Zenon, <3>2, <3>3
         DEF Lifecycle!Next, Lifecycle!Respond, Lifecycle!Write,
             Lifecycle!Release
  <2>4. CASE stream_response(r) /\ UNCHANGED work
             /\ req' = [req EXCEPT ![r] = "open"]
    <3>1. /\ obj'[r] = "gen" /\ generator'[r] = TRUE /\ req'[r] = "open"
      BY Zenon, <1>0, <2>4, StreamResponseFacts DEF TypeOK
    <3>2. ResponsePhase(r)' = "streaming"
      BY <3>1 DEF ResponsePhase
    <3>3. OthersUnchanged(r)
      BY Zenon, <1>0, <2>4, StreamResponseFacts DEF OthersUnchanged, TypeOK
    <3>4. Lifecycle!Transition(r, {"idle", "handler"}, "streaming")
      BY <2>0, <3>2, <3>3, PhaseTransition
    <3>5. /\ sends' = [sends EXCEPT ![r] = Append(@, "in_progress")]
          /\ frees' = frees
      BY <2>4, Zenon DEF stream_response
    <3>. QED
      BY Zenon, <3>4, <3>5
         DEF Lifecycle!Next, Lifecycle!StartStream, Lifecycle!Write
  <2>5. CASE \E w \in Workers :
               /\ work' = [work EXCEPT ![w] = @ \cup {r}]
               /\ obj' = [obj EXCEPT ![r] = "worker"]
               /\ req' = [req EXCEPT ![r] = "open"]
               /\ UNCHANGED <<generator, sends, turns, frees>>
    <3>1. /\ obj' = [obj EXCEPT ![r] = "worker"]
          /\ req' = [req EXCEPT ![r] = "open"]
          /\ UNCHANGED <<generator, sends, frees>>
      BY <2>5
    <3>2. OthersUnchanged(r) /\ ResponsePhase(r)' = "handler"
      BY <1>0, <3>1 DEF OthersUnchanged, ResponsePhase, TypeOK
    <3>3. Lifecycle!Transition(r, {"idle"}, "handler")
      BY <2>0, <3>2, PhaseTransition
    <3>. QED
      BY <3>1, <3>3 DEF Lifecycle!Next, Lifecycle!HandOff
  <2>. QED
    BY <1>7, <2>2, <2>3, <2>4, <2>5 DEF catch_all_handler
<1>8. ASSUME NEW r \in Requests, response_proceed(r)
      PROVE  Lifecycle!Next
  <2>1. PICK final \in BOOLEAN :
          /\ Send(r, IF final THEN "final" ELSE "in_progress")
          /\ IF final
               THEN /\ req' = [req EXCEPT ![r] = "disposed"]
                    /\ Free(r)
               ELSE UNCHANGED <<req, obj, frees>>
    BY <1>8 DEF response_proceed
  <2>2. /\ generator[r] /\ req[r] = "open" /\ obj[r] = "gen"
        /\ ResponsePhase(r) = "streaming"
        /\ sends[r] \in Seq(SendStates)
    BY <1>0, <1>8 DEF response_proceed, ReqInv, ReqOK, ResponsePhase, TypeOK
  <2>3. CASE final
    <3>1. /\ sends' = [sends EXCEPT ![r] = Append(sends[r], "final")]
          /\ generator' = [generator EXCEPT ![r] = FALSE]
          /\ req' = [req EXCEPT ![r] = "disposed"]
          /\ obj' = [obj EXCEPT ![r] = "freed"]
      BY <2>1, <2>3, Zenon DEF Send, Free
    <3>2. /\ Append(sends[r], "final") # <<>>
          /\ Append(sends[r], "final")[Len(Append(sends[r], "final"))] = "final"
      BY <2>2, AppendLast DEF SendStates
    <3>3. OthersUnchanged(r) /\ ResponsePhase(r)' = "final"
      BY <1>0, <3>1, <3>2 DEF OthersUnchanged, ResponsePhase, TypeOK
    <3>4. Lifecycle!Transition(r, {"streaming"}, "final")
      BY <2>2, <3>3, PhaseTransition
    <3>5. /\ sends' = [sends EXCEPT ![r] = Append(@, "final")]
          /\ frees' = [frees EXCEPT ![r] = @ + 1]
      BY <2>1, <2>3, Zenon DEF Send, Free
    <3>. QED
      BY Zenon, <3>4, <3>5
         DEF Lifecycle!Next, Lifecycle!Finish, Lifecycle!Write,
             Lifecycle!Release
  <2>4. CASE ~final
    <3>1. /\ sends' = [sends EXCEPT ![r] = Append(sends[r], "in_progress")]
          /\ generator' = [generator EXCEPT ![r] = TRUE]
          /\ UNCHANGED <<req, obj, frees>>
      BY <2>1, <2>2, <2>4, Zenon DEF Send
    <3>2. OthersUnchanged(r) /\ ResponsePhase(r)' = ResponsePhase(r)
      BY <1>0, <2>2, <3>1 DEF OthersUnchanged, ResponsePhase, TypeOK
    <3>3. Ph' = Ph
      BY <3>2, PhaseKept
    <3>4. sends' = [sends EXCEPT ![r] = Append(@, "in_progress")]
      BY <2>1, <2>4, Zenon DEF Send
    <3>5. Ph[r] = "streaming"
      BY <2>2 DEF Ph
    <3>. QED
      BY Zenon, <3>1, <3>3, <3>4, <3>5
         DEF Lifecycle!Next, Lifecycle!Proceed, Lifecycle!Write, Ph
  <2>. QED
    BY <2>3, <2>4
<1>9. ASSUME NEW r \in Requests, response_stop(r)
      PROVE  Lifecycle!Next
  <2>1. /\ req' = [req EXCEPT ![r] = "disposed"]
        /\ generator' = [generator EXCEPT ![r] = FALSE]
        /\ obj' = [obj EXCEPT ![r] = "freed"]
        /\ frees' = [frees EXCEPT ![r] = @ + 1]
        /\ UNCHANGED sends
    BY <1>9 DEF response_stop, Free
  <2>2. /\ generator[r] /\ req[r] = "open" /\ obj[r] = "gen"
        /\ ResponsePhase(r) = "streaming"
        /\ sends[r] # <<>> /\ NoFinal(sends[r])
    BY <1>0, <1>9 DEF response_stop, ReqInv, ReqOK, ResponsePhase, PhaseInv,
                    PhaseOK
  <2>3. sends[r][Len(sends[r])] # "final"
    <3>1. sends[r] \in Seq(SendStates)
      BY <1>0 DEF TypeOK
    <3>2. Len(sends[r]) \in 1..Len(sends[r])
      BY <2>2, <3>1, EmptySeq, LenProperties
    <3>. QED
      BY <2>2, <3>2 DEF NoFinal
  <2>4. OthersUnchanged(r) /\ ResponsePhase(r)' = "stopped"
    BY <1>0, <2>1, <2>3 DEF OthersUnchanged, ResponsePhase, TypeOK
  <2>5. Lifecycle!Transition(r, {"streaming"}, "stopped")
    BY <2>2, <2>4, PhaseTransition
  <2>. QED
    BY Zenon, <2>1, <2>5 DEF Lifecycle!Next, Lifecycle!Stop, Lifecycle!Release
<1>. QED
  BY <1>2, <1>3, <1>4, <1>5, <1>6, <1>7, <1>8, <1>9
     DEF Next, LoopThread, Transport, Lifecycle!vars

\* Every request's response follows the life cycle spec.md gives it:
\* answered at once, or held by a handler that takes exactly one path,
\* reply or stream; chunks are written in order and the pair is released
\* exactly when the response is finalized or stopped, whatever the
\* interleaving of the loop, the workers, client resets and stop().
THEOREM LifecycleRefinement == Spec => LifecycleImplemented
<1>1. Init => Lifecycle!Init
  <2>. SUFFICES ASSUME Init PROVE Lifecycle!Init
    OBVIOUS
  <2>1. Ph = [r \in Requests |-> "idle"]
    BY DEF Init, Ph, ResponsePhase
  <2>. QED
    BY <2>1 DEF Init, Lifecycle!Init, Ph
<1>2. QED
  BY <1>1, LifecycleStep, InitIInv, NextIInv, InitPhaseInv, NextPhaseInv,
     PTL DEF Spec, LifecycleImplemented, Lifecycle!Spec
=============================================================================
