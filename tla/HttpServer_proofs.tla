------------------------- MODULE HttpServer_proofs -------------------------
(***************************************************************************)
(* Proofs about the request life cycle of module HttpServer, for every     *)
(* set of requests and workers and every bound on the streaming turns.    *)
(***************************************************************************)
EXTENDS HttpServer, SequenceTheorems, TLAPS

-----------------------------------------------------------------------------
(* The inductive invariant: who owns the http_req/http_res pair of each   *)
(* request, and where the messages that carry it are.                      *)

\* No send of q is final.
NoFinal(q) == \A i \in 1..Len(q) : q[i] # "final"

\* A final send of q is its last send.
FinalLast(q) == \A i \in 1..Len(q) : q[i] = "final" => i = Len(q)

\* Per request: a pair nobody has taken over yet has had no proceed turn;
\* only a live custom generator is proceeded; the pair is deleted once
\* exactly when it is in the "freed" state; a request the transport has
\* not delivered has no pair.
ReqOK(r) ==
    /\ obj[r] \in {"none", "worker", "queued"} => turns[r] = 0 /\ ~generator[r]
    /\ generator[r] => obj[r] = "gen" /\ turns[r] < MaxTurns
    /\ frees[r] = IF obj[r] = "freed" THEN 1 ELSE 0
    /\ req[r] = "none" => obj[r] = "none" /\ sends[r] = <<>>
    /\ obj[r] \in {"worker", "queued", "gen"} => NoFinal(sends[r])
    /\ FinalLast(sends[r])
    /\ ~AbortBeforeResponse =>
          (req[r] \in {"done", "disposed"} => obj[r] \in {"none", "freed"})

ReqInv == \A r \in Requests : ReqOK(r)

\* The types of the per-request state.
RespTypeOK ==
    /\ req \in [Requests -> ReqStates]
    /\ obj \in [Requests -> ObjStates]
    /\ generator \in [Requests -> BOOLEAN]
    /\ sends \in [Requests -> Seq(SendStates)]
    /\ turns \in [Requests -> 0..MaxTurns]
    /\ frees \in [Requests -> Nat]

\* A request handed to a worker is owned by that worker alone.
WorkInv ==
    /\ \A w \in Workers : \A r \in work[w] : obj[r] = "worker"
    /\ \A w1, w2 \in Workers : w1 # w2 => work[w1] \cap work[w2] = {}

\* Every message of list s that carries a request carries a pair whose
\* state in o is "queued".
MsgOwned(s, o) ==
    \A i \in 1..Len(s) : s[i].data \in Requests => o[s[i].data] = "queued"

\* No request is carried by two messages of list s.
MsgDistinct(s) ==
    \A i, j \in 1..Len(s) :
       i # j /\ s[i].data \in Requests => s[i].data # s[j].data

\* No request is carried both by the list on_message drains and by the
\* receiver's list.
MsgApart ==
    \A i \in 1..Len(batch), j \in 1..Len(inbox) :
       batch[i].data \in Requests => batch[i].data # inbox[j].data

IInv ==
    /\ TypeOK
    /\ ReqInv
    /\ WorkInv
    /\ MsgOwned(inbox, obj) /\ MsgOwned(batch, obj)
    /\ MsgDistinct(inbox) /\ MsgDistinct(batch)
    /\ MsgApart
    /\ loopPc = "drain" => batch # <<>>
    /\ loopPc # "drain" => batch = <<>>


-----------------------------------------------------------------------------
(* Lemmas.                                                                 *)

LEMMA StopOrderFacts ==
    /\ Len(StopOrder) = 3
    /\ StopOrder[1] = "close_listener"
    /\ StopOrder[2] = "set_exit_loop"
    /\ StopOrder[3] = "send_stop"
BY DEF StopOrder

\* What a send does to the shape of a response.
LEMMA SendFacts ==
    /\ NoFinal(<<>>) /\ FinalLast(<<>>)
    /\ \A q \in Seq(SendStates) :
          NoFinal(q) => /\ FinalLast(Append(q, "final"))
                        /\ NoFinal(Append(q, "in_progress"))
                        /\ FinalLast(Append(q, "in_progress"))
<1>1. NoFinal(<<>>) /\ FinalLast(<<>>)
  BY DEF NoFinal, FinalLast
<1>2. ASSUME NEW q \in Seq(SendStates), NoFinal(q), NEW st \in SendStates
      PROVE  /\ FinalLast(Append(q, st))
             /\ st = "in_progress" => NoFinal(Append(q, st))
  <2>1. /\ Len(Append(q, st)) = Len(q) + 1
        /\ \A i \in 1..Len(q) : Append(q, st)[i] = q[i]
        /\ Append(q, st)[Len(q) + 1] = st
        /\ Len(q) \in Nat
    BY AppendProperties, LenProperties
  <2>. QED
    BY <1>2, <2>1 DEF NoFinal, FinalLast
<1>. QED
  BY <1>1, <1>2 DEF SendStates

\* Removing the head of a list keeps its messages distinct.
LEMMA TailDistinct ==
    ASSUME NEW s \in Seq(Message), s # <<>>, MsgDistinct(s)
    PROVE  /\ MsgDistinct(Tail(s))
           /\ \A i \in 1..Len(Tail(s)) :
                 Tail(s)[i].data \in Requests => Tail(s)[i].data # Head(s).data
<1>1. /\ Len(Tail(s)) = Len(s) - 1
      /\ \A i \in 1..Len(Tail(s)) : Tail(s)[i] = s[i + 1]
  BY HeadTailProperties
<1>. QED
  BY <1>1 DEF MsgDistinct

\* Appending a message whose request no message carries keeps a list
\* distinct.
LEMMA AppendDistinct ==
    ASSUME NEW s \in Seq(Message), NEW m \in Message, MsgDistinct(s),
           \A i \in 1..Len(s) : s[i].data \in Requests => s[i].data # m.data
    PROVE  MsgDistinct(Append(s, m))
<1>1. /\ Len(Append(s, m)) = Len(s) + 1
      /\ \A i \in 1..Len(s) : Append(s, m)[i] = s[i]
      /\ Append(s, m)[Len(s) + 1] = m
  BY AppendProperties
<1>. QED
  BY <1>1 DEF MsgDistinct

\* What on_message and the destructor's drain know of the message they take
\* off the head of a list.
LEMMA PopFacts ==
    ASSUME NEW s \in Seq(Message), s # <<>>, NEW o,
           MsgOwned(s, o), MsgDistinct(s)
    PROVE  /\ Head(s) \in Message
           /\ Head(s) = s[1] /\ 1 \in 1..Len(s)
           /\ Head(s).data \in Requests => o[Head(s).data] = "queued"
           /\ Tail(s) \in Seq(Message)
           /\ Len(Tail(s)) = Len(s) - 1
           /\ Tail(s) = <<>> <=> Len(s) = 1
           /\ \A i \in 1..Len(Tail(s)) : Tail(s)[i] = s[i + 1]
           /\ MsgOwned(Tail(s), o)
           /\ MsgDistinct(Tail(s))
           /\ \A i \in 1..Len(Tail(s)) :
                 Tail(s)[i].data \in Requests => Tail(s)[i].data # Head(s).data
<1>1. /\ Head(s) \in Message /\ Tail(s) \in Seq(Message)
      /\ Len(Tail(s)) = Len(s) - 1
      /\ \A i \in 1..Len(Tail(s)) : Tail(s)[i] = s[i + 1]
  BY HeadTailProperties
<1>2. Len(s) \in Nat \ {0} /\ Len(Tail(s)) \in Nat
  BY <1>1, EmptySeq, LenProperties
<1>3. Tail(s) = <<>> <=> Len(Tail(s)) = 0
  BY <1>1, EmptySeq, LenProperties
<1>4. Head(s) = s[1]
  OBVIOUS
<1>. QED
  BY <1>1, <1>2, <1>3, <1>4, TailDistinct DEF MsgOwned

\* Delivering a message whose pair is queued hands the pair to its last
\* owner (deleted, or the custom generator) and touches no other request.
LEMMA DeliverStep ==
    ASSUME TypeOK, ReqInv, WorkInv, NEW m \in Message,
           m.data \in Requests => obj[m.data] = "queued",
           Deliver(m), UNCHANGED work
    PROVE  /\ req' \in [Requests -> ReqStates]
           /\ obj' \in [Requests -> ObjStates]
           /\ generator' \in [Requests -> BOOLEAN]
           /\ sends' \in [Requests -> Seq(SendStates)]
           /\ turns' \in [Requests -> 0..MaxTurns]
           /\ frees' \in [Requests -> Nat]
           /\ ReqInv' /\ WorkInv'
           /\ \A x \in Requests : x # m.data => obj'[x] = obj[x]
<1>. USE ConstantsAssumption
<1>1. CASE m.type \in handlers /\ m.type = "respond" /\ send_response(m.data)
  <2>. DEFINE r == m.data
  <2>1. r \in Requests /\ obj[r] = "queued"
    BY <1>1 DEF Message
  <2>2. /\ sends[r] \in Seq(SendStates) /\ NoFinal(sends[r])
        /\ req[r] # "none"
    BY <2>1 DEF TypeOK, ReqInv, ReqOK
  <2>3. FinalLast(Append(sends[r], "final"))
        /\ Append(sends[r], "final") \in Seq(SendStates)
    BY <2>2, SendFacts, AppendProperties DEF SendStates
  <2>4a. sends' = [sends EXCEPT ![r] = Append(sends[r], "final")]
    BY <1>1 DEF send_response, Send
  <2>4b. obj' = [obj EXCEPT ![r] = "freed"] /\ turns' = turns
    BY <1>1 DEF send_response, Free
  <2>4c. frees' = [frees EXCEPT ![r] = frees[r] + 1]
    BY <1>1 DEF send_response, Free
  <2>4d. req' = [req EXCEPT ![r] = IF req[r] = "disposed" THEN "disposed"
                                                         ELSE "done"]
    BY <1>1, Zenon DEF send_response
  <2>4. /\ sends' = [sends EXCEPT ![r] = Append(sends[r], "final")]
        /\ obj' = [obj EXCEPT ![r] = "freed"]
        /\ frees' = [frees EXCEPT ![r] = frees[r] + 1]
        /\ req' = [req EXCEPT ![r] = IF req[r] = "disposed" THEN "disposed"
                                                          ELSE "done"]
        /\ turns' = turns
    BY <2>4a, <2>4b, <2>4c, <2>4d
  <2>5. generator' = [generator EXCEPT ![r] = FALSE]
    BY <1>1, Zenon DEF send_response, Send
  <2>6. frees[r] = 0 /\ turns[r] = 0 /\ ~generator[r]
    BY <2>1 DEF ReqInv, ReqOK
  <2>7. /\ req' \in [Requests -> ReqStates]
        /\ obj' \in [Requests -> ObjStates]
        /\ generator' \in [Requests -> BOOLEAN]
        /\ sends' \in [Requests -> Seq(SendStates)]
        /\ turns' \in [Requests -> 0..MaxTurns]
        /\ frees' \in [Requests -> Nat]
    BY <2>1, <2>3, <2>4, <2>5 DEF TypeOK, ReqStates, ObjStates
  <2>8. ReqOK(r)'
    BY <2>1, <2>2, <2>3, <2>4, <2>5, <2>6 DEF ReqOK, TypeOK
  <2>9. \A x \in Requests \ {r} : ReqOK(x)'
    BY <2>4, <2>5 DEF ReqInv, ReqOK, TypeOK
  <2>10. WorkInv'
    BY <1>1, <2>1, <2>4 DEF WorkInv, TypeOK
  <2>. QED
    BY Zenon, <2>4, <2>7, <2>8, <2>9, <2>10 DEF ReqInv, TypeOK
<1>2. CASE m.type \in handlers /\ m.type = "stream" /\ stream_response(m.data)
             /\ UNCHANGED req
  <2>1. m.data \in Requests
    BY <1>2 DEF Message
  <2>. QED
    BY <1>2, <2>1, SendFacts
       DEF TypeOK, ReqInv, ReqOK, WorkInv, stream_response, ObjStates,
           SendStates
<1>3. CASE UNCHANGED respVars
  BY <1>3 DEF TypeOK, ReqInv, ReqOK, WorkInv, respVars
<1>. QED
  BY <1>1, <1>2, <1>3 DEF Deliver

-----------------------------------------------------------------------------
(* The invariant is inductive.                                             *)

LEMMA InitIInv == Init => IInv
<1> SUFFICES ASSUME Init PROVE IInv
  OBVIOUS
<1>1. /\ inbox \in Seq(Message) /\ batch \in Seq(Message)
      /\ Len(inbox) = 0 /\ Len(batch) = 0
      /\ <<>> \in Seq(SendStates)
  BY EmptySeq DEF Init
<1>2. TypeOK
  <2>1. stopPc \in 1..Len(StopOrder) + 1
    BY StopOrderFacts DEF Init
  <2>2. turns \in [Requests -> 0..MaxTurns] /\ frees \in [Requests -> Nat]
    BY ConstantsAssumption DEF Init
  <2>3. sends \in [Requests -> Seq(SendStates)]
    BY <1>1 DEF Init
  <2>. QED
    BY Zenon, <1>1, <2>1, <2>2, <2>3
       DEF Init, TypeOK, LoopStates, ReqStates, ObjStates, MsgTypes
<1>3. ReqInv /\ WorkInv
  BY SendFacts DEF Init, ReqInv, ReqOK, WorkInv
<1>. QED
  BY <1>1, <1>2, <1>3 DEF Init, IInv, MsgOwned, MsgDistinct, MsgApart

\* A step of the transport on request r that changes no other request, no
\* list and no worker, and does not move r's pair to or from a worker or
\* the relay.
LEMMA OneRequestStep ==
    ASSUME IInv, NEW r \in Requests,
           \/ obj'[r] = obj[r]
           \/ obj[r] \notin {"queued", "worker"} /\ obj'[r] \notin {"queued", "worker"},
           \A x \in Requests \ {r} :
              /\ req'[x] = req[x] /\ obj'[x] = obj[x]
              /\ generator'[x] = generator[x] /\ sends'[x] = sends[x]
              /\ turns'[x] = turns[x] /\ frees'[x] = frees[x],
           RespTypeOK', ReqOK(r)',
           UNCHANGED <<inbox, batch, handlers, exitLoop, listening, stopPc,
                       wakeup, work>>,
           loopPc = "wait", loopPc' = "check"
    PROVE  IInv'
<1>1. ReqInv'
  <2> SUFFICES ASSUME NEW x \in Requests \ {r} PROVE ReqOK(x)'
    BY DEF ReqInv
  <2>1. ReqOK(x)
    BY DEF IInv, ReqInv
  <2>. QED
    BY <2>1 DEF ReqOK
<1>2. \A x \in Requests : obj[x] \in {"queued", "worker"} => obj'[x] = obj[x]
  BY DEF IInv, TypeOK
<1>3. WorkInv'
  BY <1>2 DEF IInv, TypeOK, WorkInv
<1>4. MsgOwned(inbox', obj') /\ MsgOwned(batch', obj')
  BY <1>2 DEF IInv, TypeOK, MsgOwned
<1>5. TypeOK'
  BY DEF IInv, TypeOK, RespTypeOK, LoopStates
<1>. QED
  BY <1>1, <1>3, <1>4, <1>5 DEF IInv, MsgDistinct, MsgApart

\* The steps that touch neither a request's pair, nor a worker, nor a list.
LEMMA FrameIInv ==
    ASSUME IInv, UNCHANGED <<respVars, work, inbox, batch>>,
           handlers' \subseteq MsgTypes, loopPc' \in LoopStates,
           exitLoop' \in BOOLEAN, listening' \in BOOLEAN, wakeup' \in BOOLEAN,
           stopPc' \in 1..Len(StopOrder) + 1,
           loopPc' = "drain" <=> loopPc = "drain"
    PROVE  IInv'
BY DEF IInv, TypeOK, ReqInv, ReqOK, WorkInv, MsgOwned, MsgDistinct, MsgApart,
       respVars

LEMMA NextIInv == IInv /\ [Next]_vars => IInv'
<1> SUFFICES ASSUME IInv, [Next]_vars PROVE IInv'
  OBVIOUS
<1>. USE ConstantsAssumption, StopOrderFacts
<1>1. CASE run
  BY Zenon, <1>1, FrameIInv DEF run, IInv, TypeOK, LoopStates, MsgTypes
<1>2. CASE CheckExit
  BY <1>2, FrameIInv DEF CheckExit, IInv, TypeOK, LoopStates
<1>3. CASE DestroyFinish
  BY <1>3, FrameIInv DEF DestroyFinish, IInv, TypeOK, LoopStates
<1>4. CASE stop /\ StopOrder[stopPc] # "send_stop"
  <2>1. stopPc \in 1..2 /\ stopPc' = stopPc + 1
    BY <1>4 DEF stop
  <2>2. /\ listening' \in BOOLEAN /\ exitLoop' \in BOOLEAN
        /\ UNCHANGED <<inbox, wakeup>>
    BY Zenon, <1>4, <2>1 DEF stop, StopStep, IInv, TypeOK
  <2>. QED
    BY <1>4, <2>1, <2>2, FrameIInv DEF stop, IInv, TypeOK
<1>5. CASE UNCHANGED vars
  BY <1>5 DEF vars, IInv, TypeOK, ReqInv, ReqOK, WorkInv, MsgOwned, MsgDistinct,
              MsgApart
<1>6. CASE stop /\ StopOrder[stopPc] = "send_stop"
  <2>. DEFINE m == [type |-> "stop", data |-> NoData]
  <2>1. m \in Message /\ m.data \notin Requests
    BY DEF Message
  <2>2. inbox' = Append(inbox, m) /\ stopPc \in 1..3
    BY <1>6 DEF stop, StopStep, send_message
  <2>3. /\ inbox' \in Seq(Message)
        /\ Len(inbox') = Len(inbox) + 1
        /\ \A i \in 1..Len(inbox) : inbox'[i] = inbox[i]
        /\ inbox'[Len(inbox) + 1] = m
    BY <2>1, <2>2, AppendProperties DEF IInv, TypeOK
  <2>4. MsgDistinct(inbox')
    BY Zenon, <2>1, <2>2, AppendDistinct DEF IInv, TypeOK
  <2>. QED
    BY <1>6, <2>1, <2>2, <2>3, <2>4
       DEF stop, StopStep, send_message, IInv, TypeOK, ReqInv, ReqOK, WorkInv,
           MsgOwned, MsgApart, respVars
<1>7. CASE Wake
  <2>1. batch = <<>> /\ inbox' = <<>> /\ batch' = inbox
    BY <1>7 DEF Wake, IInv
  <2>2. Len(inbox') = 0 /\ inbox' \in Seq(Message)
    BY <2>1, EmptySeq
  <2>3. UNCHANGED <<req, obj, generator, sends, turns, frees, work>>
    BY <1>7 DEF Wake, respVars
  <2>4a. TypeOK'
    BY Zenon, <1>7, <2>1, <2>2, <2>3 DEF Wake, IInv, TypeOK, LoopStates
  <2>4b. ReqInv' /\ WorkInv'
    BY Zenon, <2>3 DEF IInv, ReqInv, ReqOK, WorkInv
  <2>4. TypeOK' /\ ReqInv' /\ WorkInv'
    BY <2>4a, <2>4b
  <2>5. /\ MsgOwned(inbox', obj') /\ MsgOwned(batch', obj')
        /\ MsgDistinct(inbox') /\ MsgDistinct(batch') /\ MsgApart'
    BY <2>1, <2>2, <2>3 DEF IInv, MsgOwned, MsgDistinct, MsgApart
  <2>6. loopPc' = "drain" <=> batch' # <<>>
    BY <1>7, <2>1 DEF Wake
  <2>. QED
    BY <2>4, <2>5, <2>6 DEF IInv
<1>8. CASE on_message
  <2>. DEFINE m == Head(batch)
  <2>1. batch # <<>> /\ batch \in Seq(Message)
    BY <1>8 DEF on_message, IInv, TypeOK
  <2>2. /\ m \in Message /\ m = batch[1] /\ 1 \in 1..Len(batch)
        /\ m.data \in Requests => obj[m.data] = "queued"
        /\ Tail(batch) \in Seq(Message)
        /\ Len(Tail(batch)) = Len(batch) - 1
        /\ Tail(batch) = <<>> <=> Len(batch) = 1
        /\ \A i \in 1..Len(Tail(batch)) : Tail(batch)[i] = batch[i + 1]
        /\ MsgOwned(Tail(batch), obj)
        /\ MsgDistinct(Tail(batch))
        /\ \A i \in 1..Len(Tail(batch)) :
              Tail(batch)[i].data \in Requests => Tail(batch)[i].data # m.data
    BY <2>1, PopFacts DEF IInv
  <2>3. /\ req' \in [Requests -> ReqStates]
        /\ obj' \in [Requests -> ObjStates]
        /\ generator' \in [Requests -> BOOLEAN]
        /\ sends' \in [Requests -> Seq(SendStates)]
        /\ turns' \in [Requests -> 0..MaxTurns]
        /\ frees' \in [Requests -> Nat]
        /\ ReqInv' /\ WorkInv'
        /\ \A x \in Requests : x # m.data => obj'[x] = obj[x]
    BY <1>8, <2>2, DeliverStep DEF on_message, IInv
  <2>4. \A j \in 1..Len(inbox) : inbox[j].data \in Requests => inbox[j].data # m.data
    BY <2>2 DEF IInv, MsgApart
  <2>5. MsgOwned(batch', obj')
    <3>1. SUFFICES ASSUME NEW i \in 1..Len(batch'), batch'[i].data \in Requests
                   PROVE  obj'[batch'[i].data] = "queued"
      BY DEF MsgOwned
    <3>2. batch' = Tail(batch)
      BY <1>8 DEF on_message
    <3>3. /\ i \in 1..Len(Tail(batch))
          /\ Tail(batch)[i].data \in Requests
          /\ Tail(batch)[i].data # m.data
      BY <3>1, <3>2, <2>2
    <3>4. obj[Tail(batch)[i].data] = "queued"
      BY <3>3, <2>2 DEF MsgOwned
    <3>. QED
      BY <3>2, <3>3, <3>4, <2>3
  <2>6. MsgOwned(inbox', obj')
    BY Zenon, <1>8, <2>3, <2>4 DEF on_message, IInv, MsgOwned
  <2>7. MsgApart'
    BY <1>8, <2>2 DEF on_message, IInv, MsgApart
  <2>8. loopPc' = "drain" <=> batch' # <<>>
    BY <1>8, <2>2 DEF on_message
  <2>9. TypeOK'
    BY <1>8, <2>2, <2>3 DEF on_message, IInv, TypeOK, LoopStates
  <2>10. MsgDistinct(batch') /\ MsgDistinct(inbox')
    BY <1>8, <2>2 DEF on_message, IInv
  <2>. QED
    BY <2>3, <2>5, <2>6, <2>7, <2>8, <2>9, <2>10 DEF IInv
<1>9. CASE DestroyDrain
  <2>. DEFINE m == Head(inbox)
  <2>1. inbox # <<>> /\ inbox \in Seq(Message) /\ batch = <<>>
    BY <1>9 DEF DestroyDrain, IInv, TypeOK
  <2>2. /\ m \in Message /\ m = inbox[1] /\ 1 \in 1..Len(inbox)
        /\ m.data \in Requests => obj[m.data] = "queued"
        /\ Tail(inbox) \in Seq(Message)
        /\ \A i \in 1..Len(Tail(inbox)) : Tail(inbox)[i] = inbox[i + 1]
        /\ MsgOwned(Tail(inbox), obj)
        /\ MsgDistinct(Tail(inbox))
        /\ \A i \in 1..Len(Tail(inbox)) :
              Tail(inbox)[i].data \in Requests => Tail(inbox)[i].data # m.data
    BY <2>1, PopFacts DEF IInv
  <2>3. /\ req' \in [Requests -> ReqStates]
        /\ obj' \in [Requests -> ObjStates]
        /\ generator' \in [Requests -> BOOLEAN]
        /\ sends' \in [Requests -> Seq(SendStates)]
        /\ turns' \in [Requests -> 0..MaxTurns]
        /\ frees' \in [Requests -> Nat]
        /\ ReqInv' /\ WorkInv'
        /\ \A x \in Requests : x # m.data => obj'[x] = obj[x]
    BY <1>9, <2>2, DeliverStep DEF DestroyDrain, IInv
  <2>4. MsgOwned(inbox', obj')
    BY Zenon, <1>9, <2>2, <2>3 DEF DestroyDrain, MsgOwned
  <2>5. /\ Len(batch') = 0 /\ batch' \in Seq(Message)
    BY <1>9, <2>1, EmptySeq DEF DestroyDrain
  <2>6. MsgOwned(batch', obj') /\ MsgDistinct(batch') /\ MsgApart'
    BY <2>5 DEF MsgOwned, MsgDistinct, MsgApart
  <2>. QED
    BY <1>9, <2>1, <2>2, <2>3, <2>4, <2>6 DEF DestroyDrain, IInv, TypeOK
<1>10. ASSUME NEW w \in Workers, WorkerSend(w)
       PROVE  IInv'
  <2>. PICK r \in work[w], type \in {"respond", "stream"} :
          /\ send_message(type, r)
          /\ work' = [work EXCEPT ![w] = @ \ {r}]
          /\ obj' = [obj EXCEPT ![r] = "queued"]
          /\ UNCHANGED <<loopPc, exitLoop, listening, stopPc, handlers, batch,
                         req, generator, sends, turns, frees>>
    BY Zenon, <1>10 DEF WorkerSend
  <2>. DEFINE m == [type |-> type, data |-> r]
  <2>1. r \in Requests /\ obj[r] = "worker" /\ m \in Message /\ m.data = r
    BY DEF IInv, TypeOK, WorkInv, Message
  <2>2. \A w2 \in Workers : w2 # w => r \notin work[w2]
    BY DEF IInv, WorkInv
  <2>3. /\ \A i \in 1..Len(inbox) : inbox[i].data \in Requests => inbox[i].data # r
        /\ \A i \in 1..Len(batch) : batch[i].data \in Requests => batch[i].data # r
    BY <2>1 DEF IInv, MsgOwned
  <2>4. /\ inbox' = Append(inbox, m)
        /\ inbox' \in Seq(Message)
        /\ Len(inbox') = Len(inbox) + 1
        /\ \A i \in 1..Len(inbox) : inbox'[i] = inbox[i]
        /\ inbox'[Len(inbox) + 1] = m
    BY <2>1, AppendProperties DEF send_message, IInv, TypeOK
  <2>5. MsgDistinct(inbox')
    BY ZenonT(30), <2>1, <2>3, <2>4, AppendDistinct DEF IInv, TypeOK
  <2>6. Len(inbox) \in Nat /\ obj'[r] = "queued"
         /\ \A x \in Requests : x # r => obj'[x] = obj[x]
    BY <2>1, LenProperties DEF IInv, TypeOK
  <2>7. MsgOwned(inbox', obj')
    <3> SUFFICES ASSUME NEW i \in 1..Len(inbox'), inbox'[i].data \in Requests
                 PROVE  obj'[inbox'[i].data] = "queued"
      BY DEF MsgOwned
    <3>1. CASE i \in 1..Len(inbox)
      BY <2>3, <2>4, <2>6, <3>1 DEF IInv, MsgOwned
    <3>2. CASE i = Len(inbox) + 1
      BY <2>1, <2>4, <2>6, <3>2
    <3>. QED
      BY <2>4, <2>6, <3>1, <3>2
  <2>8. MsgOwned(batch', obj')
    BY <2>3, <2>6 DEF IInv, MsgOwned
  <2>9. MsgApart'
    <3> SUFFICES ASSUME NEW i \in 1..Len(batch), NEW j \in 1..Len(inbox'),
                        batch[i].data \in Requests
                 PROVE  batch[i].data # inbox'[j].data
      BY DEF MsgApart
    <3>1. CASE j \in 1..Len(inbox)
      BY <2>4, <3>1 DEF IInv, MsgApart
    <3>2. CASE j = Len(inbox) + 1
      BY <2>1, <2>3, <2>4, <3>2
    <3>. QED
      BY <2>4, <2>6, <3>1, <3>2
  <2>10. TypeOK'
    BY <2>1, <2>4 DEF IInv, TypeOK, send_message, ObjStates
  <2>11. ReqInv'
    BY <2>1 DEF IInv, TypeOK, ReqInv, ReqOK
  <2>12. WorkInv'
    BY <2>1, <2>2 DEF IInv, TypeOK, WorkInv
  <2>. QED
    BY <2>5, <2>7, <2>8, <2>9, <2>10, <2>11, <2>12 DEF IInv
<1>11. ASSUME NEW r \in Requests, response_stop(r)
       PROVE  IInv'
  <2>1. obj[r] = "gen" /\ frees[r] = 0 /\ req[r] = "open"
    BY <1>11 DEF response_stop, IInv, ReqInv, ReqOK
  <2>2. RespTypeOK'
    BY <1>11 DEF response_stop, Free, IInv, TypeOK, RespTypeOK, ReqStates,
                 ObjStates
  <2>3. ReqOK(r)'
    BY <1>11, <2>1 DEF response_stop, Free, IInv, TypeOK, ReqInv, ReqOK
  <2>4. \A x \in Requests \ {r} :
           /\ req'[x] = req[x] /\ obj'[x] = obj[x]
           /\ generator'[x] = generator[x] /\ sends'[x] = sends[x]
           /\ turns'[x] = turns[x] /\ frees'[x] = frees[x]
    BY <1>11 DEF response_stop, Free, IInv, TypeOK
  <2>5. /\ obj[r] \notin {"queued", "worker"}
        /\ obj'[r] \notin {"queued", "worker"}
        /\ UNCHANGED <<inbox, batch, handlers, exitLoop, listening, stopPc,
                       wakeup, work>>
        /\ loopPc = "wait" /\ loopPc' = "check"
    BY <1>11, <2>1 DEF response_stop, Free, IInv, TypeOK
  <2>. QED
    BY <2>2, <2>3, <2>4, <2>5, OneRequestStep
<1>12. ASSUME NEW r \in Requests, AbortPending(r)
       PROVE  IInv'
  <2>1. ReqOK(r)' /\ RespTypeOK'
    BY <1>12 DEF AbortPending, IInv, TypeOK, RespTypeOK, ReqInv, ReqOK,
                 ReqStates
  <2>2. /\ \A x \in Requests \ {r} :
              /\ req'[x] = req[x] /\ obj'[x] = obj[x]
              /\ generator'[x] = generator[x] /\ sends'[x] = sends[x]
              /\ turns'[x] = turns[x] /\ frees'[x] = frees[x]
        /\ obj'[r] = obj[r]
        /\ UNCHANGED <<inbox, batch, handlers, exitLoop, listening, stopPc,
                       wakeup, work>>
        /\ loopPc = "wait" /\ loopPc' = "check"
    BY <1>12 DEF AbortPending, IInv, TypeOK
  <2>. QED
    BY <2>1, <2>2, OneRequestStep
<1>13. ASSUME NEW r \in Requests, response_proceed(r)
       PROVE  IInv'
  <2>. PICK final \in BOOLEAN :
          /\ final \/ turns[r] + 1 < MaxTurns
          /\ Send(r, IF final THEN "final" ELSE "in_progress")
          /\ IF final
               THEN /\ req' = [req EXCEPT ![r] = "disposed"]
                    /\ Free(r)
               ELSE UNCHANGED <<req, obj, frees>>
    BY <1>13 DEF response_proceed
  <2>1. /\ obj[r] = "gen" /\ frees[r] = 0 /\ req[r] = "open"
        /\ turns[r] \in 0..MaxTurns - 1
    BY <1>13 DEF response_proceed, IInv, TypeOK, ReqInv, ReqOK
  <2>2a. generator[r] = TRUE
    BY <1>13 DEF response_proceed
  <2>2b. generator' = [generator EXCEPT ![r] = ~final]
    <3>1. generator' = [generator EXCEPT ![r] =
             ((IF final THEN "final" ELSE "in_progress") = "in_progress"
              /\ generator[r])]
      BY DEF Send
    <3>2. ((IF final THEN "final" ELSE "in_progress") = "in_progress")
            <=> ~final
      OBVIOUS
    <3>. QED
      BY <2>2a, <3>1, <3>2, Zenon
  <2>2. /\ turns' = [turns EXCEPT ![r] = @ + 1]
        /\ sends' = [sends EXCEPT ![r] =
                       Append(@, IF final THEN "final" ELSE "in_progress")]
        /\ generator' = [generator EXCEPT ![r] = ~final]
        /\ IF final
             THEN /\ req' = [req EXCEPT ![r] = "disposed"]
                  /\ obj' = [obj EXCEPT ![r] = "freed"]
                  /\ frees' = [frees EXCEPT ![r] = 1]
             ELSE UNCHANGED <<req, obj, frees>>
    <3>1. turns' = [turns EXCEPT ![r] = @ + 1]
      BY <1>13 DEF response_proceed
    <3>2. sends' = [sends EXCEPT ![r] =
                     Append(@, IF final THEN "final" ELSE "in_progress")]
      BY DEF Send
    <3>3. CASE final
      <4>1. req' = [req EXCEPT ![r] = "disposed"] /\ Free(r)
        BY <3>3
      <4>. QED
        BY <2>1, <2>2b, <3>1, <3>2, <3>3, <4>1 DEF Free
    <3>4. CASE ~final
      BY <2>2b, <3>1, <3>2, <3>4
    <3>. QED
      BY <2>2b, <3>1, <3>2, <3>3, <3>4
  <2>3. sends'[r] \in Seq(SendStates) /\ turns'[r] \in 0..MaxTurns
    BY <2>1, <2>2, AppendProperties DEF IInv, TypeOK, SendStates
  <2>5. RespTypeOK' /\ ReqOK(r)'
        /\ \A x \in Requests \ {r} :
              /\ req'[x] = req[x] /\ obj'[x] = obj[x]
              /\ generator'[x] = generator[x] /\ sends'[x] = sends[x]
              /\ turns'[x] = turns[x] /\ frees'[x] = frees[x]
    <3>1. CASE final
      <4>1. generator' \in [Requests -> BOOLEAN] /\ ~generator'[r]
            /\ \A x \in Requests \ {r} : generator'[x] = generator[x]
        BY Zenon, <2>2, <3>1 DEF IInv, TypeOK
      <4>2. /\ req' = [req EXCEPT ![r] = "disposed"]
            /\ obj' = [obj EXCEPT ![r] = "freed"]
            /\ frees' = [frees EXCEPT ![r] = 1]
        BY <2>2, <3>1
      <4>. QED
        BY <2>1, <2>2, <2>3, <4>1, <4>2, SendFacts
           DEF IInv, TypeOK, RespTypeOK, ReqInv, ReqOK, ReqStates, ObjStates
    <3>2. CASE ~final
      BY <2>1, <2>2, <2>3, <3>2, SendFacts
         DEF IInv, TypeOK, RespTypeOK, ReqInv, ReqOK
    <3>. QED
      BY <3>1, <3>2
  <2>4. /\ obj[r] \notin {"queued", "worker"}
        /\ obj'[r] \notin {"queued", "worker"}
        /\ UNCHANGED <<inbox, batch, handlers, exitLoop, listening, stopPc,
                       wakeup, work>>
        /\ loopPc = "wait" /\ loopPc' = "check"
    BY <1>13, <2>1 DEF response_proceed, Free, IInv, TypeOK
  <2>. QED
    BY <2>4, <2>5, OneRequestStep
<1>14. ASSUME NEW r \in Requests, catch_all_handler(r)
       PROVE  IInv'
  <2>1. /\ req[r] = "none" /\ obj[r] = "none" /\ turns[r] = 0
        /\ sends[r] = <<>>
        /\ generator[r] = FALSE /\ frees[r] = 0
        /\ UNCHANGED <<inbox, batch, handlers, exitLoop, listening, stopPc,
                       wakeup>>
        /\ loopPc = "wait" /\ loopPc' = "check"
    BY <1>14 DEF catch_all_handler, IInv, TypeOK, ReqInv, ReqOK
  <2>1b. /\ FinalLast(Append(sends[r], "final"))
         /\ NoFinal(Append(sends[r], "in_progress"))
         /\ FinalLast(Append(sends[r], "in_progress"))
    <3>1. <<>> \in Seq(SendStates)
      BY EmptySeq
    <3>. QED
      BY Zenon, <2>1, <3>1, SendFacts
  <2>2. ASSUME Send(r, "final")
        PROVE  /\ generator' \in [Requests -> BOOLEAN] /\ ~generator'[r]
               /\ \A x \in Requests \ {r} : generator'[x] = generator[x]
               /\ sends' \in [Requests -> Seq(SendStates)]
               /\ \A x \in Requests \ {r} : sends'[x] = sends[x]
               /\ sends'[r] = Append(sends[r], "final")
    <3>1. Append(sends[r], "final") \in Seq(SendStates)
      BY Zenon, AppendProperties DEF IInv, TypeOK, SendStates
    <3>. QED
      BY Zenon, <2>2, <3>1 DEF Send, IInv, TypeOK
  <2>3. CASE /\ Send(r, "final")
             /\ req' = [req EXCEPT ![r] = "done"]
             /\ UNCHANGED <<obj, turns, frees, work>>
    <3>1. RespTypeOK' /\ ReqOK(r)'
          /\ \A x \in Requests \ {r} :
                /\ req'[x] = req[x] /\ obj'[x] = obj[x]
                /\ generator'[x] = generator[x] /\ sends'[x] = sends[x]
                /\ turns'[x] = turns[x] /\ frees'[x] = frees[x]
      BY Zenon, <2>1, <2>1b, <2>2, <2>3, SendFacts
         DEF IInv, TypeOK, RespTypeOK, ReqOK, ReqStates
    <3>. QED
      BY Zenon, <2>1, <2>3, <3>1, OneRequestStep
  <2>4. CASE send_response(r) /\ UNCHANGED work
    <3>1. RespTypeOK' /\ ReqOK(r)'
          /\ \A x \in Requests \ {r} :
                /\ req'[x] = req[x] /\ obj'[x] = obj[x]
                /\ generator'[x] = generator[x] /\ sends'[x] = sends[x]
                /\ turns'[x] = turns[x] /\ frees'[x] = frees[x]
      <4>1. /\ req' = [req EXCEPT ![r] = "done"]
            /\ obj' = [obj EXCEPT ![r] = "freed"]
            /\ frees' = [frees EXCEPT ![r] = 1]
            /\ turns' = turns
        BY <2>1, <2>4 DEF send_response, Free
      <4>2. RespTypeOK'
        BY <2>2, <2>4, <4>1 DEF send_response, IInv, TypeOK, RespTypeOK,
                                ReqStates, ObjStates
      <4>3. ReqOK(r)'
        BY ZenonT(30), <2>1, <2>1b, <2>2, <2>4, <4>1 DEF send_response, IInv, TypeOK, ReqOK
      <4>4. Send(r, "final")
        BY <2>4 DEF send_response
      <4>. QED
        BY <2>2, <4>1, <4>2, <4>3, <4>4 DEF IInv, TypeOK
    <3>2. obj'[r] = "freed"
      BY <2>4 DEF send_response, Free, IInv, TypeOK
    <3>. QED
      BY Zenon, <2>1, <2>4, <3>1, <3>2, OneRequestStep
  <2>5. CASE stream_response(r) /\ UNCHANGED work
             /\ req' = [req EXCEPT ![r] = "open"]
    <3>1. Append(sends[r], "in_progress") \in Seq(SendStates)
      BY AppendProperties DEF IInv, TypeOK, SendStates
    <3>2. RespTypeOK' /\ ReqOK(r)'
          /\ \A x \in Requests \ {r} :
                /\ req'[x] = req[x] /\ obj'[x] = obj[x]
                /\ generator'[x] = generator[x] /\ sends'[x] = sends[x]
                /\ turns'[x] = turns[x] /\ frees'[x] = frees[x]
      BY <2>1, <2>1b, <2>5, <3>1, ConstantsAssumption, SendFacts
         DEF stream_response, IInv, TypeOK, RespTypeOK, ReqOK, ReqStates,
             ObjStates
    <3>3. obj'[r] = "gen"
      BY <2>5 DEF stream_response, IInv, TypeOK
    <3>. QED
      BY <2>1, <2>5, <3>2, <3>3, OneRequestStep
  <2>6. CASE \E w \in Workers :
               /\ work' = [work EXCEPT ![w] = @ \cup {r}]
               /\ obj' = [obj EXCEPT ![r] = "worker"]
               /\ req' = [req EXCEPT ![r] = "open"]
               /\ UNCHANGED <<generator, sends, turns, frees>>
    <3>. PICK w \in Workers :
            /\ work' = [work EXCEPT ![w] = @ \cup {r}]
            /\ obj' = [obj EXCEPT ![r] = "worker"]
            /\ req' = [req EXCEPT ![r] = "open"]
            /\ UNCHANGED <<generator, sends, turns, frees>>
      BY Zenon, <2>6
    <3>1. \A w2 \in Workers : r \notin work[w2]
      BY <2>1 DEF IInv, WorkInv
    <3>2. /\ \A i \in 1..Len(inbox) : inbox[i].data \in Requests => inbox[i].data # r
          /\ \A i \in 1..Len(batch) : batch[i].data \in Requests => batch[i].data # r
      BY <2>1 DEF IInv, MsgOwned
    <3>3. TypeOK' /\ ReqInv'
      BY <2>1, SendFacts
         DEF IInv, TypeOK, ReqInv, ReqOK, ReqStates, ObjStates, LoopStates
    <3>4. WorkInv'
      BY <3>1 DEF IInv, TypeOK, WorkInv
    <3>5. MsgOwned(inbox', obj') /\ MsgOwned(batch', obj')
      BY <2>1, <3>2 DEF IInv, TypeOK, MsgOwned
    <3>. QED
      BY <2>1, <3>3, <3>4, <3>5 DEF IInv, MsgDistinct, MsgApart
  <2>. QED
    BY <1>14, <2>3, <2>4, <2>5, <2>6 DEF catch_all_handler
<1>. QED
  BY <1>1, <1>2, <1>3, <1>4, <1>5, <1>6, <1>7, <1>8, <1>9, <1>10, <1>11,
     <1>12, <1>13, <1>14 DEF Next, LoopThread, Transport

-----------------------------------------------------------------------------
(* Theorems.                                                               *)

\* Every reachable state is well typed: in particular no streamed response
\* is proceeded past MaxTurns and on_message never runs on an empty list.
THEOREM TypeCorrect == Spec => []TypeOK
<1>1. IInv => TypeOK
  BY DEF IInv
<1>. QED
  BY <1>1, InitIInv, NextIInv, PTL DEF Spec

\* The http_req/http_res pair of a request is deleted at most once, for
\* any number of requests and workers: send_response, the final
\* response_proceed and response_stop each take the pair from its only
\* owner, and the relay never carries one pair twice.
THEOREM FreedOnce == Spec => []FreedAtMostOnce
<1>1. IInv => FreedAtMostOnce
  <2> SUFFICES ASSUME IInv, NEW r \in Requests PROVE frees[r] <= 1
    BY Zenon DEF FreedAtMostOnce
  <2>1. frees[r] = IF obj[r] = "freed" THEN 1 ELSE 0
    BY DEF IInv, ReqInv, ReqOK
  <2>. QED
    BY <2>1
<1>. QED
  BY <1>1, InitIInv, NextIInv, PTL DEF Spec


\* Every response is a run of in-progress chunks ended by at most one final
\* chunk, also when clients reset requests: no path (the immediate reply,
\* send_response, streaming, a worker's answer relayed by on_message or by
\* the destructor's drain) sends to a request after its final chunk.
THEOREM WellFormed == Spec => []ResponseWellFormed
<1>1. IInv => ResponseWellFormed
  BY DEF IInv, ReqInv, ReqOK, FinalLast, ResponseWellFormed
<1>. QED
  BY <1>1, InitIInv, NextIInv, PTL DEF Spec

\* Delivering a message writes to no request but the one it carries.
LEMMA DeliverWrites ==
    ASSUME NEW m, Deliver(m), sends \in [Requests -> Seq(SendStates)],
           NEW r \in Requests, sends'[r] # sends[r]
    PROVE  r = m.data
BY DEF Deliver, send_response, stream_response, Send, respVars

\* Only three steps write to a request: catch_all_handler to a new one, a
\* proceed to a live generator, and the delivery of a queued pair.
LEMMA WritersOwn ==
    ASSUME IInv, [Next]_vars, NEW r \in Requests, sends'[r] # sends[r]
    PROVE  req[r] = "none" \/ obj[r] \in {"queued", "gen"}
<1>1. CASE on_message
  <2>1. batch # <<>> /\ batch \in Seq(Message)
    BY <1>1 DEF on_message, IInv, TypeOK
  <2>2. Head(batch).data \in Requests => obj[Head(batch).data] = "queued"
    BY <2>1, PopFacts DEF IInv
  <2>. QED
    BY Zenon, <1>1, <2>2, DeliverWrites DEF on_message, IInv, TypeOK
<1>2. CASE DestroyDrain
  <2>1. inbox # <<>> /\ inbox \in Seq(Message)
    BY <1>2 DEF DestroyDrain, IInv, TypeOK
  <2>2. Head(inbox).data \in Requests => obj[Head(inbox).data] = "queued"
    BY <2>1, PopFacts DEF IInv
  <2>. QED
    BY Zenon, <1>2, <2>2, DeliverWrites DEF DestroyDrain, IInv, TypeOK
<1>3. ASSUME NEW x \in Requests, catch_all_handler(x)
      PROVE  req[r] = "none" \/ obj[r] \in {"queued", "gen"}
  <2>1. r = x
    BY <1>3 DEF catch_all_handler, send_response, stream_response, Send,
                IInv, TypeOK
  <2>. QED
    BY <1>3, <2>1 DEF catch_all_handler
<1>4. ASSUME NEW x \in Requests, response_proceed(x)
      PROVE  req[r] = "none" \/ obj[r] \in {"queued", "gen"}
  <2>1. r = x
    BY <1>4 DEF response_proceed, Send, IInv, TypeOK
  <2>. QED
    BY Zenon, <1>4, <2>1 DEF response_proceed, IInv, ReqInv, ReqOK
<1>5. CASE ~on_message /\ ~DestroyDrain
          /\ ~\E x \in Requests : catch_all_handler(x) \/ response_proceed(x)
  BY <1>5 DEF Next, LoopThread, Transport, vars, run, CheckExit, Wake,
              DestroyFinish, response_stop, AbortPending, WorkerSend, stop,
              respVars
<1>. QED
  BY <1>1, <1>2, <1>3, <1>4, <1>5

\* Unless clients reset requests that are still waiting for a response, no
\* step writes to a request the transport has completed or disposed.
THEOREM NoWriteAfterReleaseWithoutReset ==
    ~AbortBeforeResponse => (Spec => NoWriteAfterRelease)
<1> SUFFICES ASSUME ~AbortBeforeResponse PROVE Spec => NoWriteAfterRelease
  OBVIOUS
<1>1. IInv /\ [Next]_vars =>
        [\A r \in Requests :
            req[r] \in {"done", "disposed"} => sends'[r] = sends[r]]_vars
  <2> SUFFICES ASSUME IInv, [Next]_vars, NEW r \in Requests,
                      req[r] \in {"done", "disposed"}
               PROVE  sends'[r] = sends[r]
    OBVIOUS
  <2>1. obj[r] \in {"none", "freed"}
    BY DEF IInv, ReqInv, ReqOK
  <2>. QED
    BY <2>1, WritersOwn
<1>. QED
  BY <1>1, InitIInv, NextIInv, PTL DEF Spec, NoWriteAfterRelease


-----------------------------------------------------------------------------
(* Ownership of the pair.                                                  *)

\* Each holder of r's pair is seen in obj: a worker holds it only in the
\* "worker" state, a message only in the "queued" state, the generator only
\* in the "gen" state.
LEMMA HolderKinds ==
    ASSUME IInv, NEW r \in Requests, NEW h \in Holders(r)
    PROVE  \/ \E w \in Workers : h = <<"worker", w>> /\ r \in work[w]
                                  /\ obj[r] = "worker"
           \/ \E i \in 1..Len(batch) : h = <<"batch", i>> /\ batch[i].data = r
                                        /\ obj[r] = "queued"
           \/ \E i \in 1..Len(inbox) : h = <<"inbox", i>> /\ inbox[i].data = r
                                        /\ obj[r] = "queued"
           \/ h = <<"generator", r>> /\ obj[r] = "gen"
<1>1. CASE \E w \in Workers : h = <<"worker", w>> /\ r \in work[w]
  BY <1>1 DEF IInv, WorkInv
<1>2. CASE \E i \in 1..Len(batch) : h = <<"batch", i>> /\ batch[i].data = r
  BY <1>2 DEF IInv, MsgOwned
<1>3. CASE \E i \in 1..Len(inbox) : h = <<"inbox", i>> /\ inbox[i].data = r
  BY <1>3 DEF IInv, MsgOwned
<1>4. CASE h = <<"generator", r>> /\ generator[r]
  BY <1>4 DEF IInv, ReqInv, ReqOK
<1>. QED
  BY <1>1, <1>2, <1>3, <1>4 DEF Holders

\* The pair of a request is held by at most one of a worker, a message of
\* the relay and the custom generator, and by none once it is deleted, for
\* any number of requests and workers: catch_all_handler hands it to one
\* worker, WorkerSend moves it from the worker to one message, on_message
\* or the destructor's drain takes the message before the handler deletes
\* it or gives it to the generator, whose last turn or stop deletes it.
THEOREM SingleOwner == Spec => []PairOwnedOnce
<1>1. IInv => PairOwnedOnce
  <2> SUFFICES ASSUME IInv, NEW r \in Requests
               PROVE  /\ \A h1, h2 \in Holders(r) : h1 = h2
                      /\ frees[r] > 0 => Holders(r) = {}
    BY DEF PairOwnedOnce
  <2>1. ASSUME NEW h1 \in Holders(r), NEW h2 \in Holders(r) PROVE h1 = h2
    <3>1. /\ \A w1, w2 \in Workers : w1 # w2 => work[w1] \cap work[w2] = {}
          /\ MsgDistinct(inbox) /\ MsgDistinct(batch) /\ MsgApart
      BY DEF IInv, WorkInv
    <3>. QED
      BY <3>1, HolderKinds DEF MsgDistinct, MsgApart
  <2>2. frees[r] > 0 => Holders(r) = {}
    <3>1. frees[r] > 0 => obj[r] = "freed"
      BY DEF IInv, ReqInv, ReqOK
    <3>. QED
      BY <3>1, HolderKinds
  <2>. QED
    BY <2>1, <2>2
<1>. QED
  BY <1>1, InitIInv, NextIInv, PTL DEF Spec


-----------------------------------------------------------------------------
(* Teardown order.                                                         *)

\* The strengthening TeardownOrder needs: stop() begins only after run()
\* has begun, so the listener run() opens is never opened after stop()
\* closed it; exit_loop is set only after the close; the loop leaves run()
\* only through a failed create_listener or a set exit_loop.
TeardownInv ==
    /\ loopPc = "init" => stopPc = 1 /\ ~listening
    /\ stopPc > 1 => ~listening
    /\ exitLoop => stopPc > 2
    /\ loopPc \in {"exited", "destroyed"} => ~listening

LEMMA InitTeardown == Init => TeardownInv
BY DEF Init, TeardownInv

\* Only run(), CheckExit and stop() touch what TeardownInv is about; every
\* other step keeps the flag, the listener and stop()'s progress, and moves
\* the loop thread only between the states it was already allowed.
LEMMA NextTeardown == TypeOK /\ TeardownInv /\ [Next]_vars => TeardownInv'
<1> SUFFICES ASSUME TypeOK, TeardownInv, [Next]_vars PROVE TeardownInv'
  OBVIOUS
<1>0. stopPc \in 1..4
  BY StopOrderFacts DEF TypeOK
<1>1. CASE run
  BY <1>1 DEF run, TeardownInv
<1>2. CASE CheckExit
  <2>1. /\ loopPc = "check"
        /\ UNCHANGED <<exitLoop, listening, stopPc>>
        /\ loopPc' = IF exitLoop THEN "exited" ELSE "wait"
    BY <1>2 DEF CheckExit
  <2>2. CASE exitLoop
    <3>1. ~listening
      BY <1>0, <2>2 DEF TeardownInv
    <3>. QED
      BY <2>1, <2>2, <3>1 DEF TeardownInv
  <2>3. CASE ~exitLoop
    BY <2>1, <2>3 DEF TeardownInv
  <2>. QED
    BY <2>2, <2>3
<1>3. CASE stop
  <2>1. stopPc \in 1..3 /\ loopPc' = loopPc /\ stopPc' = stopPc + 1
        /\ StopStep(StopOrder[stopPc])
    BY <1>3, StopOrderFacts DEF stop
  <2>2. stopPc = 1 => loopPc # "init"
    BY <1>3 DEF stop
  <2>3. CASE stopPc = 1
    BY <2>1, <2>2, <2>3, StopOrderFacts DEF StopStep, TeardownInv
  <2>4. CASE stopPc = 2
    BY <2>1, <2>4, StopOrderFacts DEF StopStep, TeardownInv
  <2>5. CASE stopPc = 3
    BY <2>1, <2>5, StopOrderFacts DEF StopStep, send_message, TeardownInv
  <2>. QED
    BY <2>1, <2>3, <2>4, <2>5
<1>4. CASE Wake \/ on_message \/ DestroyDrain \/ DestroyFinish
  BY <1>4 DEF Wake, on_message, DestroyDrain, DestroyFinish, TeardownInv
<1>5. CASE Transport
  BY <1>5 DEF Transport, catch_all_handler, response_proceed, response_stop,
              AbortPending, TeardownInv
<1>6. CASE \E w \in Workers : WorkerSend(w)
  BY <1>6 DEF WorkerSend, TeardownInv
<1>7. CASE UNCHANGED vars
  BY <1>7 DEF vars, TeardownInv
<1>. QED
  BY <1>1, <1>2, <1>3, <1>4, <1>5, <1>6, <1>7 DEF Next, LoopThread

\* Whatever the interleaving of the loop thread, the workers, the
\* transport and the thread that calls stop(), the listener is closed once
\* the loop has left run(): stop() closes it before it sets exit_loop, and
\* run() opens it only before stop() may begin.
THEOREM ListenerClosedAtTeardown == Spec => []TeardownOrder
<1>1. TeardownInv => TeardownOrder
  BY DEF TeardownInv, TeardownOrder
<1>2. IInv => TypeOK
  BY DEF IInv
<1>. QED
  BY <1>1, <1>2, InitIInv, NextIInv, InitTeardown, NextTeardown, PTL DEF Spec

=============================================================================
