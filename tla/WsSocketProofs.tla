--------------------------- MODULE WsSocketProofs ---------------------------
(***************************************************************************)
(* Theorems about WsSocket for every set of ids and subscriptions and      *)
(* every bound.                                                            *)
(***************************************************************************)
EXTENDS WsSocketInv, SequenceTheorems, TLAPS

-----------------------------------------------------------------------------
(* Type correctness.                                                       *)

LEMMA TypeInit == Init => TypeOK
<1> SUFFICES ASSUME Init PROVE TypeOK
  OBVIOUS
<1>1. inbox \in Seq(ClientMessages) /\ queue \in Seq(Frames)
  BY EmptySeq DEF Init
<1>2. QED
  BY <1>1 DEF Init, TypeOK, Views, Live

\* Taking a message leaves a well-typed inbox.
LEMMA ReadsType ==
    ASSUME TypeOK, NEW type, Reads(type)
    PROVE  /\ Head(inbox) \in ClientMessages
           /\ Head(inbox).type = type
           /\ inbox' \in Seq(ClientMessages)
BY HeadTailProperties DEF TypeOK, Reads

LEMMA SubscribeMessageType ==
    ASSUME NEW m \in ClientMessages, m.type = "subscribe"
    PROVE  m.id \in Ids /\ m.sub \in Subs
BY DEF ClientMessages

LEMMA UnsubscribeMessageType ==
    ASSUME NEW m \in ClientMessages, m.type = "unsubscribe"
    PROVE  m.id \in Ids
BY DEF ClientMessages

\* A frame put on the mpsc is well typed if its subscription has an id.
LEMMA SendFrameType ==
    ASSUME TypeOK, NEW s \in Subs, NEW kind \in {"data", "error", "end"},
           SendFrame(s, kind)
    PROVE  /\ sent' \in [Subs -> Nat]
           /\ queue' \in Seq(Frames)
<1>0. sent \in [Subs -> Nat] /\ queue \in Seq(Frames)
  BY DEF TypeOK
<1>1. CASE writer = "stopped"
  BY <1>0, <1>1 DEF SendFrame
<1>2. CASE writer # "stopped"
  <2> DEFINE f == [id |-> subId[s], sub |-> s, kind |-> kind, n |-> sent[s] + 1]
  <2>1. f \in Frames
    BY <1>0 DEF Frames, TypeOK
  <2>2. queue' = Append(queue, f) /\ sent' = [sent EXCEPT ![s] = @ + 1]
    BY <1>2 DEF SendFrame
  <2> HIDE DEF f
  <2>3. queue' \in Seq(Frames)
    BY <1>0, <2>1, <2>2, AppendProperties
  <2>4. QED
    BY <1>0, <2>2, <2>3
<1>3. QED
  BY <1>1, <1>2

LEMMA TypeClient == TypeOK /\ ClientStep => TypeOK'
<1> SUFFICES ASSUME TypeOK, ClientStep PROVE TypeOK'
  OBVIOUS
<1> USE DEF TypeOK
<1>1. ASSUME NEW s \in Subs, NEW id \in Ids, NEW t \in Targets, ClientSubscribe(s, id, t)
      PROVE  TypeOK'
  <2> DEFINE m == [type |-> "subscribe", id |-> id, sub |-> s, target |-> t]
  <2>1. m \in ClientMessages
    BY DEF ClientMessages
  <2>2. inbox' = Append(inbox, m)
    BY <1>1 DEF ClientSubscribe
  <2>3. inbox' \in Seq(ClientMessages)
    BY <2>1, <2>2, AppendProperties
  <2>4. QED
    BY <1>1, <2>3 DEF ClientSubscribe, Views, clientVars, readerVars, taskVars, writerVars
<1>2. ASSUME NEW id \in Ids, ClientUnsubscribe(id)
      PROVE  TypeOK'
  <2> DEFINE m == [type |-> "unsubscribe", id |-> id]
  <2>1. m \in ClientMessages
    BY DEF ClientMessages
  <2>2. inbox' = Append(inbox, m)
    BY <1>2 DEF ClientUnsubscribe
  <2>3. inbox' \in Seq(ClientMessages)
    BY <2>1, <2>2, AppendProperties
  <2>4. QED
    BY <1>2, <2>3 DEF ClientUnsubscribe, Views, clientVars, readerVars, taskVars, writerVars
<1>3. ASSUME NEW type \in {"garbage", "ignored"}, ClientNoise(type)
      PROVE  TypeOK'
  <2>1. [type |-> type] \in ClientMessages
    BY DEF ClientMessages
  <2>2. inbox' = Append(inbox, [type |-> type])
    BY <1>3 DEF ClientNoise
  <2>3. inbox' \in Seq(ClientMessages)
    BY <2>1, <2>2, AppendProperties
  <2>4. QED
    BY <1>3, <2>3 DEF ClientNoise, clientVars, readerVars, taskVars, writerVars
<1>4. ASSUME ClientClose
      PROVE  TypeOK'
  <2>1. [type |-> "close"] \in ClientMessages
    BY DEF ClientMessages
  <2>2. inbox' = Append(inbox, [type |-> "close"])
    BY <1>4 DEF ClientClose
  <2>3. inbox' \in Seq(ClientMessages)
    BY <2>1, <2>2, AppendProperties
  <2>4. QED
    BY <1>4, <2>3 DEF ClientClose, clientVars, readerVars, taskVars, writerVars
<1>5. ASSUME PeerDrop
      PROVE  TypeOK'
  BY <1>5 DEF PeerDrop, clientVars, readerVars, taskVars, writerVars
<1>6. QED
  BY <1>1, <1>2, <1>3, <1>4, <1>5 DEF ClientStep

LEMMA TypeReader == TypeOK /\ ReaderStep => TypeOK'
<1> SUFFICES ASSUME TypeOK, ReaderStep PROVE TypeOK'
  OBVIOUS
<1> USE DEF TypeOK
<1>1. CASE ReaderSubscribe
  <2>1. Head(inbox).id \in Ids /\ Head(inbox).sub \in Subs /\ inbox' \in Seq(ClientMessages)
    BY <1>1, ReadsType, SubscribeMessageType DEF ReaderSubscribe
  <2>2. QED
    BY <1>1, <2>1 DEF ReaderSubscribe, Live, clientVars, writerVars
<1>2. CASE ReaderReject
  <2>1. Head(inbox).sub \in Subs /\ inbox' \in Seq(ClientMessages)
    BY <1>2, ReadsType, SubscribeMessageType DEF ReaderReject
  <2>2. SendFrame(Head(inbox).sub, "error")
    BY <1>2 DEF ReaderReject
  <2>3. sent' \in [Subs -> Nat] /\ queue' \in Seq(Frames)
    BY <2>1, <2>2, SendFrameType
  <2>4. QED
    BY <1>2, <2>1, <2>3 DEF ReaderReject, clientVars
<1>3. CASE ReaderRejectEnd
  <2>1. rejecting \in Subs /\ SendFrame(rejecting, "end")
    BY <1>3 DEF ReaderRejectEnd
  <2>2. sent' \in [Subs -> Nat] /\ queue' \in Seq(Frames)
    BY <2>1, SendFrameType
  <2>3. QED
    BY <1>3, <2>2 DEF ReaderRejectEnd, clientVars
<1>4. CASE ReaderUnsubscribe
  <2>1. Head(inbox).id \in Ids /\ inbox' \in Seq(ClientMessages)
    BY <1>4, ReadsType, UnsubscribeMessageType DEF ReaderUnsubscribe
  <2>2. QED
    BY <1>4, <2>1 DEF ReaderUnsubscribe, clientVars, taskVars, writerVars
<1>5. CASE ReaderDecodeError
  <2>1. inbox' \in Seq(ClientMessages)
    BY <1>5, ReadsType DEF ReaderDecodeError
  <2>2. GlobalError \in Frames
    BY DEF GlobalError, Frames
  <2>3. queue' \in Seq(Frames) /\ sent' = sent
    BY <1>5, <2>2, AppendProperties DEF ReaderDecodeError, SendGlobalError
  <2>4. QED
    BY <1>5, <2>1, <2>3 DEF ReaderDecodeError, clientVars, readerVars
<1>6. CASE ReaderIgnore
  <2>1. inbox' \in Seq(ClientMessages)
    BY <1>6, ReadsType DEF ReaderIgnore
  <2>2. QED
    BY <1>6, <2>1 DEF ReaderIgnore, clientVars, readerVars, taskVars, writerVars
<1>7. CASE ReaderClose
  <2>1. inbox' \in Seq(ClientMessages)
    BY <1>7, ReadsType DEF ReaderClose
  <2>2. QED
    BY <1>7, <2>1 DEF ReaderClose, clientVars, taskVars, writerVars
<1>8. CASE ReaderEof
  BY <1>8 DEF ReaderEof, clientVars, taskVars, writerVars
<1>9. ASSUME NEW id \in Ids, Drain(id)
      PROVE  TypeOK'
  BY <1>9 DEF Drain, clientVars, taskVars, writerVars
<1>10. CASE ReaderDone
  BY <1>10 DEF ReaderDone, clientVars, taskVars
<1>11. QED
  BY <1>1, <1>2, <1>3, <1>4, <1>5, <1>6, <1>7, <1>8, <1>9, <1>10 DEF ReaderStep

LEMMA TypeTask ==
    ASSUME TypeOK, NEW s \in Subs, TaskStep(s) \/ StreamStep(s)
    PROVE  TypeOK'
<1> USE DEF TypeOK, Live
<1>1. ASSUME NEW kind \in {"data", "error"}, TaskYields(s, kind)
      PROVE  TypeOK'
  BY <1>1 DEF TaskYields, clientVars, readerVars, writerVars
<1>2. CASE TaskStreamEnds(s)
  BY <1>2 DEF TaskStreamEnds, clientVars, readerVars, writerVars
<1>3. CASE TaskSeesAbort(s)
  BY <1>3 DEF TaskSeesAbort, clientVars, readerVars, writerVars
<1>4. CASE TaskSends(s)
  <2>1. task[s] \in {"data", "error", "end"} /\ SendFrame(s, task[s])
    BY <1>4 DEF TaskSends
  <2>2. sent' \in [Subs -> Nat] /\ queue' \in Seq(Frames)
    BY <2>1, SendFrameType
  <2>3. QED
    BY <1>4, <2>2 DEF TaskSends, clientVars, readerVars
<1>5. CASE TaskSendsEnd(s)
  <2>1. sent' \in [Subs -> Nat] /\ queue' \in Seq(Frames)
    BY <1>5, SendFrameType DEF TaskSendsEnd
  <2>2. QED
    BY <1>5, <2>1 DEF TaskSendsEnd, clientVars, readerVars
<1>6. CASE TaskPanics(s)
  BY <1>6 DEF TaskPanics, clientVars, readerVars, writerVars
<1>7. QED
  BY <1>1, <1>2, <1>3, <1>4, <1>5, <1>6 DEF TaskStep, StreamStep

LEMMA TypeWriter == TypeOK /\ WriterStep => TypeOK'
<1> SUFFICES ASSUME TypeOK, WriterStep PROVE TypeOK'
  OBVIOUS
<1> USE DEF TypeOK
<1>1. CASE WriterDelivers
  <2>1. queue' \in Seq(Frames)
    BY <1>1, HeadTailProperties DEF WriterDelivers
  <2>u. /\ UNCHANGED <<holder, online, noise, conn, inbox, readerVars, taskVars,
                       writer, writerAborted>>
        /\ ClientReceives(Head(queue))
    BY <1>1 DEF WriterDelivers
  <2> DEFINE f == Head(queue)
  <2>2. CASE f.id = GlobalId
    BY <2>u, <2>1, <2>2 DEF ClientReceives, readerVars, taskVars
  <2>3. CASE f.id # GlobalId
    <3> HIDE DEF f
    <3>1. ClientReceives(f)
      BY <2>u DEF f
    <3>2. view' \in [Ids -> Views]
      BY <3>1, <2>3 DEF ClientReceives, Views
    <3>3. received' = [received EXCEPT ![holder[f.id]] = @ + 1]
      BY <3>1, <2>3 DEF ClientReceives
    <3>4. received' \in [Subs -> Nat]
      <4>1. \A s \in Subs : received[s] + 1 \in Nat
        OBVIOUS
      <4>2. QED
        BY <3>3, <4>1
    <3>5. QED
      BY <2>u, <2>1, <3>2, <3>4 DEF readerVars, taskVars
  <2>4. QED
    BY <2>2, <2>3
<1>2. CASE WriterLoses
  <2>1. queue' \in Seq(Frames)
    BY <1>2, HeadTailProperties DEF WriterLoses
  <2>2. QED
    BY <1>2, <2>1 DEF WriterLoses, clientVars, readerVars, taskVars
<1>3. CASE WriterFails
  <2>1. queue' \in Seq(Frames)
    BY <1>3, EmptySeq DEF WriterFails
  <2>2. QED
    BY <1>3, <2>1 DEF WriterFails, clientVars, readerVars, taskVars
<1>4. CASE WriterCancelled
  <2>1. queue' \in Seq(Frames)
    BY <1>4, EmptySeq DEF WriterCancelled
  <2>2. QED
    BY <1>4, <2>1 DEF WriterCancelled, clientVars, readerVars, taskVars
<1>5. QED
  BY <1>1, <1>2, <1>3, <1>4 DEF WriterStep

LEMMA TypeNext == TypeOK /\ [Next]_vars => TypeOK'
<1> SUFFICES ASSUME TypeOK, [Next]_vars PROVE TypeOK'
  OBVIOUS
<1>1. CASE Finished \/ UNCHANGED vars
  BY <1>1 DEF Finished, TypeOK, vars, clientVars, readerVars, taskVars, writerVars
<1>2. QED
  BY <1>1, TypeClient, TypeReader, TypeTask, TypeWriter DEF Next

\* Every variable keeps its type, whichever ids the client uses again: the
\* bookkeeping of handle_socket never refers to a subscription or an id that
\* is not one.
THEOREM TypeCorrect == Spec => []TypeOK
BY TypeInit, TypeNext, PTL DEF Spec

-----------------------------------------------------------------------------
(* The inductive invariant.                                                *)

LEMMA InboxElements ==
    ASSUME TypeOK, NEW i \in 1..Len(inbox)
    PROVE  /\ IsSubscribe(i) => inbox[i].sub \in Subs /\ inbox[i].id \in Ids
           /\ inbox[i].type = "unsubscribe" => inbox[i].id \in Ids
<1>1. inbox[i] \in ClientMessages
  BY ElementOfSeq DEF TypeOK
<1>2. QED
  BY <1>1, SubscribeMessageType, UnsubscribeMessageType DEF IsSubscribe

LEMMA QueueElements ==
    ASSUME TypeOK, NEW i \in 1..Len(queue)
    PROVE  queue[i] \in Frames
BY ElementOfSeq DEF TypeOK

LEMMA InvInit == Init => IInv
BY ConstantsAssumption DEF Init, IInv, HolderInv, ConnInv, InboxInv, UnsubInv, TaskInv, QueueInv,
       OrderInv, ActiveInv, AbortInv, Driven, Live

\* A task that moves without sending disturbs only what is said of tasks.
LEMMA InvTaskMoves ==
    ASSUME TypeOK, IInv, NEW s \in Subs, Driven(s), task[s] # "ending", rejecting # s,
           NEW pc \in Live \cup {"ending", "done"},
           pc \in Live => s \notin aborted,
           task' = [task EXCEPT ![s] = pc],
           UNCHANGED <<clientVars, conn, inbox, readerVars, subId, sent, writerVars>>
    PROVE  IInv'
<1> USE DEF clientVars, readerVars, writerVars
<1>0. task[s] \in Live /\ task' \in [Subs -> Live \cup {"none", "ending", "done"}]
  BY DEF TypeOK, Driven
<1>1. \A t \in Subs : Driven(t)' => Driven(t)
  BY <1>0 DEF Driven, TypeOK, Live
<1>2. \A t \in Subs : Current(t)' <=> Current(t)
  BY DEF Current
<1>a. \A t \in Subs : task'[t] = IF t = s THEN pc ELSE task[t]
  BY DEF TypeOK
<1>b. pc # "none" /\ task[s] # "none" /\ (pc \in Live => s \notin aborted)
  BY <1>0 DEF Live
<1>c. subId[s] # GlobalId
  BY DEF IInv, TaskInv, Current
<1>3. HolderInv'
  BY <1>a, <1>b, <1>c DEF IInv, HolderInv
<1>4. ConnInv'
  BY DEF IInv, ConnInv
<1>5. InboxInv'
  BY <1>0, <1>2, <1>a, <1>b, InboxElements DEF IInv, InboxInv, IsSubscribe
<1>6. UnsubInv'
  BY DEF IInv, UnsubInv, IsSubscribe
<1>7. TaskInv'
  BY <1>0, <1>1, <1>2 DEF IInv, TaskInv, TypeOK
<1>8. QueueInv'
  BY <1>1, <1>2 DEF IInv, QueueInv, IsFrameOf
<1>9. OrderInv'
  BY DEF IInv, OrderInv, IsFrameOf
<1>10. ActiveInv'
  <2>1. \A id \in Ids : active[id] # None => active[id] \in Subs
    BY DEF TypeOK
  <2>2. QED
    BY <1>0, <1>a, <1>b, <2>1 DEF IInv, ActiveInv
<1>11. AbortInv'
  BY <1>2 DEF IInv, AbortInv, TypeOK
<1>12. QED
  BY <1>3, <1>4, <1>5, <1>6, <1>7, <1>8, <1>9, <1>10, <1>11 DEF IInv

\* What SendFrame does to the queue, position by position.
LEMMA SendFrameEffect ==
    ASSUME TypeOK, NEW s \in Subs, NEW kind \in {"data", "error", "end"}, SendFrame(s, kind)
    PROVE  /\ writer = "stopped" => queue' = queue /\ sent' = sent
           /\ writer # "stopped" =>
                /\ Len(queue') = Len(queue) + 1
                /\ \A i \in 1..Len(queue) : queue'[i] = queue[i]
                /\ queue'[Len(queue) + 1] = [id |-> subId[s], sub |-> s,
                                             kind |-> kind, n |-> sent[s] + 1]
                /\ \A t \in Subs : sent'[t] = IF t = s THEN sent[s] + 1 ELSE sent[t]
<1>1. CASE writer = "stopped"
  BY <1>1 DEF SendFrame
<1>2. CASE writer # "stopped"
  <2> DEFINE f == [id |-> subId[s], sub |-> s, kind |-> kind, n |-> sent[s] + 1]
  <2>1. f \in Frames
    BY DEF Frames, TypeOK
  <2>2. queue' = Append(queue, f) /\ sent' = [sent EXCEPT ![s] = @ + 1]
    BY <1>2 DEF SendFrame
  <2>3. queue \in Seq(Frames) /\ sent \in [Subs -> Nat]
    BY DEF TypeOK
  <2> HIDE DEF f
  <2>4. /\ Len(queue') = Len(queue) + 1
        /\ \A i \in 1..Len(queue) : queue'[i] = queue[i]
        /\ queue'[Len(queue) + 1] = f
    BY <2>1, <2>2, <2>3, AppendProperties
  <2>5. QED
    BY <1>2, <2>2, <2>3, <2>4 DEF f
<1>3. QED
  BY <1>1, <1>2

\* A frame sent for a current subscription that has no End under way joins
\* the queue in order.
LEMMA SendKeepsQueue ==
    ASSUME TypeOK, ConnInv, QueueInv, OrderInv, NEW s \in Subs,
           NEW kind \in {"data", "error", "end"}, SendFrame(s, kind),
           Current(s),
           \A i \in 1..Len(queue) : IsFrameOf(i, s) => queue[i].kind # "end",
           \A t \in Subs \ {s} : Driven(t)' => Driven(t),
           kind = "end" => ~Driven(s)',
           UNCHANGED <<view, holder, subId, received, conn>>
    PROVE  QueueInv' /\ OrderInv'
<1>1. \A t \in Subs : Current(t)' <=> Current(t)
  BY DEF Current
<1>2. Len(queue) \in Nat /\ sent \in [Subs -> Nat] /\ received \in [Subs -> Nat]
  BY LenProperties DEF TypeOK
<1>3. CASE writer = "stopped"
  <2>1. queue' = queue /\ sent' = sent /\ conn' # "up"
    BY <1>3, SendFrameEffect DEF ConnInv
  <2>2. QueueInv'
    BY <2>1, <1>1 DEF QueueInv, IsFrameOf
  <2>3. QED
    BY <2>1, <2>2 DEF OrderInv
<1>4. CASE writer # "stopped"
  <2>0. PICK last \in Nat : last = Len(queue) + 1
    BY <1>2
  <2>1. /\ Len(queue') = last
        /\ \A i \in 1..Len(queue) : queue'[i] = queue[i]
        /\ queue'[last].id = subId[s]
        /\ queue'[last].sub = s
        /\ queue'[last].kind = kind
        /\ queue'[last].n = sent[s] + 1
        /\ \A t \in Subs : sent'[t] = IF t = s THEN sent[s] + 1 ELSE sent[t]
    <3>1. /\ Len(queue') = Len(queue) + 1
          /\ \A i \in 1..Len(queue) : queue'[i] = queue[i]
          /\ queue'[Len(queue) + 1] = [id |-> subId[s], sub |-> s,
                                       kind |-> kind, n |-> sent[s] + 1]
          /\ \A t \in Subs : sent'[t] = IF t = s THEN sent[s] + 1 ELSE sent[t]
      BY <1>4, SendFrameEffect
    <3>2. QED
      BY <3>1, <2>0
  <2>2. \A i \in 1..Len(queue) : \A t \in Subs : IsFrameOf(i, t)' <=> IsFrameOf(i, t)
    BY <2>1 DEF IsFrameOf
  <2>3. \A t \in Subs : IsFrameOf(last, t)' <=> t = s
    BY <2>1 DEF IsFrameOf, Current
  <2>4. \A i \in 1..Len(queue') : i \in 1..Len(queue) \/ i = last
    BY <2>0, <2>1, <1>2
  <2>5. QueueInv'
    <3> SUFFICES ASSUME NEW i \in 1..Len(queue'), NEW t \in Subs, IsFrameOf(i, t)'
                 PROVE  /\ subId'[t] = queue'[i].id
                        /\ Current(t)'
                        /\ queue'[i].n \in 1..sent'[t]
                        /\ queue'[i].kind = "end" =>
                            /\ ~Driven(t)'
                            /\ \A j \in (i + 1)..Len(queue') : ~IsFrameOf(j, t)'
      BY DEF QueueInv
    <3>1. CASE i \in 1..Len(queue)
      <4>1. IsFrameOf(i, t) /\ queue'[i] = queue[i]
        BY <3>1, <2>1, <2>2
      <4>2. /\ subId[t] = queue[i].id
            /\ Current(t)
            /\ queue[i].n \in 1..sent[t]
            /\ queue[i].kind = "end" =>
                /\ ~Driven(t)
                /\ \A j \in (i + 1)..Len(queue) : ~IsFrameOf(j, t)
        BY <3>1, <4>1 DEF QueueInv
      <4>3. queue'[i].n \in 1..sent'[t]
        BY <4>1, <4>2, <2>1, <1>2
      <4>4. ASSUME queue'[i].kind = "end"
            PROVE  ~Driven(t)' /\ \A j \in (i + 1)..Len(queue') : ~IsFrameOf(j, t)'
        <5>1. t # s /\ ~Driven(t)
          BY <4>1, <4>2, <4>4, <3>1
        <5>2. ASSUME NEW j \in (i + 1)..Len(queue') PROVE ~IsFrameOf(j, t)'
          <6>1. CASE j = last
            BY <6>1, <5>1, <2>3
          <6>2. CASE j \in 1..Len(queue)
            <7>1. j \in (i + 1)..Len(queue)
              BY <6>2, <3>1, <1>2
            <7>2. QED
              BY <7>1, <6>2, <4>1, <4>2, <4>4, <2>2
          <6>3. QED
            BY <6>1, <6>2, <2>1, <2>4, <3>1, <1>2
        <5>3. QED
          BY <5>1, <5>2
      <4>5. QED
        BY <4>1, <4>2, <4>3, <4>4, <1>1
    <3>2. CASE i = last
      <4>1. t = s
        BY <3>2, <2>3
      <4>2. queue'[i].n \in 1..sent'[t]
        BY <3>2, <4>1, <2>1, <1>2
      <4>3. \A j \in (i + 1)..Len(queue') : FALSE
        BY <3>2, <2>0, <2>1, <1>2
      <4>4. QED
        BY <3>2, <4>1, <4>2, <4>3, <2>1, <1>1
    <3>3. QED
      BY <3>1, <3>2, <2>4
  <2>6. OrderInv'
    <3> SUFFICES ASSUME conn = "up", NEW t \in Subs
                 PROVE  /\ received'[t] <= sent'[t]
                        /\ \A i \in 1..Len(queue') : IsFrameOf(i, t)' =>
                            /\ received'[t] < queue'[i].n
                            /\ \A j \in (i + 1)..Len(queue') :
                                IsFrameOf(j, t)' => queue'[i].n < queue'[j].n
                        /\ \A n \in (received'[t] + 1)..sent'[t] :
                            \E i \in 1..Len(queue') : IsFrameOf(i, t)' /\ queue'[i].n = n
      BY DEF OrderInv
    <3>0. /\ received[t] <= sent[t]
          /\ \A i \in 1..Len(queue) : IsFrameOf(i, t) =>
              /\ received[t] < queue[i].n
              /\ queue[i].n \in 1..sent[t]
              /\ \A j \in (i + 1)..Len(queue) :
                  IsFrameOf(j, t) => queue[i].n < queue[j].n
          /\ \A n \in (received[t] + 1)..sent[t] :
              \E i \in 1..Len(queue) : IsFrameOf(i, t) /\ queue[i].n = n
      BY DEF OrderInv, QueueInv
    <3>1. received'[t] <= sent'[t]
      <4>1. received'[t] = received[t] /\ received[t] \in Nat /\ sent[t] \in Nat
        BY <1>2
      <4>2. sent'[t] = sent[t] \/ sent'[t] = sent[t] + 1
        BY <2>1
      <4>3. received[t] <= sent[t]
        BY <3>0
      <4>4. QED
        BY <4>1, <4>2, <4>3
    <3>2. ASSUME NEW i \in 1..Len(queue'), IsFrameOf(i, t)'
          PROVE  /\ received'[t] < queue'[i].n
                 /\ \A j \in (i + 1)..Len(queue') :
                     IsFrameOf(j, t)' => queue'[i].n < queue'[j].n
      <4>1. CASE i = last
        <5>1. t = s /\ queue'[i].n = sent[t] + 1
          BY <4>1, <3>2, <2>1, <2>3
        <5>2. received'[t] < queue'[i].n
          BY <5>1, <3>0, <1>2
        <5>3. \A j \in (i + 1)..Len(queue') : FALSE
          BY <4>1, <2>0, <2>1, <1>2
        <5>4. QED
          BY <5>2, <5>3
      <4>2. CASE i \in 1..Len(queue)
        <5>1. IsFrameOf(i, t) /\ queue'[i] = queue[i]
          BY <4>2, <3>2, <2>1, <2>2
        <5>2. ASSUME NEW j \in (i + 1)..Len(queue'), IsFrameOf(j, t)'
              PROVE  queue'[i].n < queue'[j].n
          <6>1. CASE j = last
            <7>1. queue'[j].n = sent[t] + 1
              BY <6>1, <5>2, <2>1, <2>3
            <7>2. QED
              BY <7>1, <5>1, <4>2, <3>0, <1>2
          <6>2. CASE j \in 1..Len(queue)
            <7>1. j \in (i + 1)..Len(queue) /\ IsFrameOf(j, t) /\ queue'[j] = queue[j]
              BY <6>2, <5>2, <4>2, <2>1, <2>2, <1>2
            <7>2. QED
              BY <7>1, <5>1, <4>2, <3>0
          <6>3. QED
            BY <6>1, <6>2, <4>2, <2>1, <2>4, <1>2
        <5>3. QED
          BY <5>1, <5>2, <4>2, <3>0
      <4>3. QED
        BY <4>1, <4>2, <2>4
    <3>3. ASSUME NEW n \in (received'[t] + 1)..sent'[t]
          PROVE  \E i \in 1..Len(queue') : IsFrameOf(i, t)' /\ queue'[i].n = n
      <4>1. CASE n \in (received[t] + 1)..sent[t]
        <5>1. PICK i \in 1..Len(queue) : IsFrameOf(i, t) /\ queue[i].n = n
          BY <4>1, <3>0
        <5>2. i \in 1..Len(queue') /\ IsFrameOf(i, t)' /\ queue'[i].n = n
          BY <5>1, <2>0, <2>1, <2>2, <1>2
        <5>3. QED
          BY <5>2
      <4>2. CASE t = s /\ n = sent[s] + 1
        <5>1. last \in 1..Len(queue')
          BY <2>0, <2>1, <1>2
        <5>2. QED
          BY <5>1, <4>2, <2>1, <2>3
      <4>3. QED
        BY <4>1, <4>2, <2>1, <1>2
    <3>4. QED
      BY <3>1, <3>2, <3>3
  <2>7. QED
    BY <2>5, <2>6
<1>5. QED
  BY <1>3, <1>4

\* A step that leaves the queue and the client's view of it alone.
LEMMA SameQueue ==
    ASSUME QueueInv, OrderInv,
           UNCHANGED <<queue, sent, view, holder, subId, received>>,
           conn' = "up" => conn = "up",
           \A t \in Subs : Driven(t)' => Driven(t) \/ sent[t] = 0
    PROVE  QueueInv' /\ OrderInv'
<1>1. \A t \in Subs : Current(t)' <=> Current(t)
  BY DEF Current
<1>2. QueueInv'
  <2> SUFFICES ASSUME NEW i \in 1..Len(queue), NEW t \in Subs, IsFrameOf(i, t)
               PROVE  /\ subId[t] = queue[i].id
                      /\ Current(t)
                      /\ queue[i].n \in 1..sent[t]
                      /\ queue[i].kind = "end" =>
                          /\ ~Driven(t)'
                          /\ \A j \in (i + 1)..Len(queue) : ~IsFrameOf(j, t)
    BY <1>1 DEF QueueInv, IsFrameOf
  <2>1. sent[t] # 0
    BY DEF QueueInv
  <2>2. QED
    BY <2>1 DEF QueueInv
<1>3. OrderInv'
  BY DEF OrderInv, IsFrameOf
<1>4. QED
  BY <1>2, <1>3

\* The reader took the first message.
LEMMA ReadsEffect ==
    ASSUME TypeOK, NEW type, Reads(type)
    PROVE  /\ Len(inbox) \in Nat /\ 1 \in 1..Len(inbox)
           /\ Head(inbox) = inbox[1]
           /\ inbox[1].type = type
           /\ Len(inbox') = Len(inbox) - 1
           /\ \A i \in 1..Len(inbox') : i + 1 \in 1..Len(inbox) /\ inbox'[i] = inbox[i + 1]
<1>1. inbox \in Seq(ClientMessages) /\ inbox # <<>> /\ inbox' = Tail(inbox)
  BY DEF Reads, TypeOK
<1>2. Len(inbox) \in Nat \ {0}
  BY <1>1, EmptySeq
<1>3. Head(inbox) = inbox[1]
  BY <1>1
<1>4. Len(inbox') = Len(inbox) - 1 /\ \A i \in 1..Len(inbox') : inbox'[i] = inbox[i + 1]
  BY <1>1, HeadTailProperties
<1>5. QED
  BY <1>2, <1>3, <1>4 DEF Reads

\* What is left in the inbox has still had no effect.
LEMMA ReadsKeepsInbox ==
    ASSUME TypeOK, InboxInv, NEW type, Reads(type),
           UNCHANGED <<view, holder, subId>>,
           \A t \in Subs :
               \/ task'[t] = task[t] /\ sent'[t] = sent[t] /\ (rejecting' = t => rejecting = t)
               \/ type = "subscribe" /\ t = Head(inbox).sub
    PROVE  InboxInv'
<1>1. \A t \in Subs : Current(t)' <=> Current(t)
  BY DEF Current
<1>2. ASSUME NEW i \in 1..Len(inbox'), IsSubscribe(i)'
      PROVE  /\ i + 1 \in 1..Len(inbox) /\ IsSubscribe(i + 1)
             /\ inbox'[i] = inbox[i + 1]
             /\ inbox[i + 1].sub \in Subs
  BY <1>2, ReadsEffect, InboxElements DEF IsSubscribe
<1>3. ASSUME NEW i \in 1..Len(inbox'), IsSubscribe(i)', type = "subscribe"
      PROVE  inbox'[i].sub # Head(inbox).sub
  <2>1. i + 1 # 1 /\ IsSubscribe(1) /\ 1 \in 1..Len(inbox) /\ Head(inbox) = inbox[1]
    BY <1>3, ReadsEffect DEF IsSubscribe
  <2>2. QED
    BY <2>1, <1>2, <1>3 DEF InboxInv
<1>4. SUFFICES ASSUME NEW i \in 1..Len(inbox'), IsSubscribe(i)'
               PROVE  /\ subId'[inbox'[i].sub] = inbox'[i].id
                      /\ Current(inbox[i].sub)'
                      /\ task'[inbox'[i].sub] = "none"
                      /\ sent'[inbox'[i].sub] = 0
                      /\ rejecting' # inbox'[i].sub
                      /\ \A j \in 1..Len(inbox') :
                          j # i /\ IsSubscribe(j)' => inbox'[j].sub # inbox'[i].sub
  BY DEF InboxInv
<1>5. PICK s \in Subs : s = inbox'[i].sub
  BY <1>2, <1>4
<1>6. /\ subId[s] = inbox'[i].id /\ Current(s) /\ task[s] = "none" /\ sent[s] = 0
      /\ rejecting # s
  <2>1. i + 1 \in 1..Len(inbox) /\ IsSubscribe(i + 1) /\ inbox[i + 1].sub = s
        /\ inbox[i + 1].id = inbox'[i].id
    BY <1>2, <1>4, <1>5
  <2>2. QED
    BY <2>1 DEF InboxInv
<1>7. task'[s] = task[s] /\ sent'[s] = sent[s] /\ rejecting' # s
  BY <1>3, <1>4, <1>5, <1>6
<1>8. ASSUME NEW j \in 1..Len(inbox'), j # i, IsSubscribe(j)'
      PROVE  inbox'[j].sub # s
  <2>1. j + 1 # i + 1
    BY <1>8
  <2>2. QED
    BY <2>1, <1>2, <1>4, <1>5, <1>8 DEF InboxInv
<1>9. QED
  BY <1>1, <1>5, <1>6, <1>7, <1>8 DEF Current

LEMMA ReadsKeepsUnsub ==
    ASSUME TypeOK, UnsubInv, NEW type, Reads(type), view' = view
    PROVE  UnsubInv'
<1> SUFFICES ASSUME NEW i \in 1..Len(inbox'), inbox'[i].type = "unsubscribe",
                    view[inbox'[i].id] \notin {"cancelled", "ended"}
             PROVE  \E j \in (i + 1)..Len(inbox') :
                        IsSubscribe(j)' /\ inbox'[j].id = inbox'[i].id
  BY DEF UnsubInv
<1>1. i + 1 \in 1..Len(inbox) /\ inbox'[i] = inbox[i + 1]
  BY ReadsEffect
<1>u. inbox[i + 1].type = "unsubscribe" /\ view[inbox[i + 1].id] \notin {"cancelled", "ended"}
  BY <1>1
<1>2. PICK k \in ((i + 1) + 1)..Len(inbox) : IsSubscribe(k) /\ inbox[k].id = inbox'[i].id
  BY <1>1, <1>u DEF UnsubInv
<1>3. k - 1 \in (i + 1)..Len(inbox') /\ k - 1 \in 1..Len(inbox') /\ (k - 1) + 1 = k
  BY <1>2, ReadsEffect
<1>4. inbox'[k - 1] = inbox[k]
  BY <1>3, ReadsEffect
<1>5. QED
  BY <1>2, <1>3, <1>4 DEF IsSubscribe

\* A driver task sends a frame: the one it holds, or its End.
LEMMA InvTaskSends ==
    ASSUME TypeOK, IInv, NEW s \in Subs, Driven(s), task[s] # "none",
           NEW kind \in {"data", "error", "end"}, SendFrame(s, kind),
           NEW pc \in {"polling", "done"}, pc = "polling" => task[s] \in Live,
           kind = "end" => pc = "done",
           task' = [task EXCEPT ![s] = pc],
           UNCHANGED <<clientVars, conn, inbox, readerVars, subId, writer, writerAborted>>
    PROVE  IInv'
<1> USE DEF clientVars, readerVars
<1>1. \A t \in Subs : task'[t] = IF t = s THEN pc ELSE task[t]
  BY DEF TypeOK
<1>2. \A t \in Subs : Current(t)' <=> Current(t)
  BY DEF Current
<1>3. /\ Current(s) /\ rejecting # s /\ subId[s] # GlobalId
      /\ task[s] \in Live \cup {"ending"}
  BY DEF IInv, TaskInv, Current, Driven
<1>4. \A t \in Subs : t # s => (Driven(t)' <=> Driven(t))
  BY <1>1 DEF Driven
<1>5. pc = "done" => ~Driven(s)'
  BY <1>1, <1>3 DEF Driven, Live
<1>6. \A t \in Subs : t # s => sent'[t] = sent[t]
  BY SendFrameEffect
<1>7. HolderInv'
  BY <1>1, <1>3, <1>6 DEF IInv, HolderInv
<1>8. ConnInv'
  BY DEF IInv, ConnInv
<1>9. InboxInv'
  <2>1. \A i \in 1..Len(inbox) : IsSubscribe(i) => inbox[i].sub \in Subs /\ inbox[i].sub # s
    BY InboxElements DEF IInv, InboxInv
  <2>2. QED
    BY <2>1, <1>1, <1>2, <1>6 DEF IInv, InboxInv, IsSubscribe
<1>10. UnsubInv'
  BY DEF IInv, UnsubInv, IsSubscribe
<1>11. TaskInv'
  BY <1>1, <1>2, <1>3, <1>4 DEF IInv, TaskInv
<1>12. QueueInv' /\ OrderInv'
  <2>1. \A i \in 1..Len(queue) : IsFrameOf(i, s) => queue[i].kind # "end"
    BY DEF IInv, QueueInv
  <2>2. QED
    BY <1>3, <1>4, <1>5, <2>1, SendKeepsQueue DEF IInv
<1>13. ActiveInv'
  <2>1. \A id \in Ids : active[id] # None => active[id] \in Subs
    BY DEF TypeOK
  <2>2. QED
    BY <1>1, <2>1 DEF IInv, ActiveInv, Live
<1>14. AbortInv'
  BY <1>2 DEF IInv, AbortInv, TypeOK
<1>15. QED
  BY <1>7, <1>8, <1>9, <1>10, <1>11, <1>12, <1>13, <1>14 DEF IInv

LEMMA InvTask ==
    ASSUME TypeOK, IInv, NEW s \in Subs, TaskStep(s) \/ StreamStep(s)
    PROVE  IInv'
<1>1. ASSUME NEW kind \in {"data", "error"}, TaskYields(s, kind)
      PROVE  IInv'
  <2>1. Driven(s) /\ rejecting # s /\ kind \in Live \cup {"ending"}
    BY <1>1 DEF TaskYields, Driven, Live, IInv, TaskInv
  <2>2. QED
    BY <1>1, <2>1, InvTaskMoves DEF TaskYields
<1>2. CASE TaskStreamEnds(s)
  <2>1. Driven(s) /\ rejecting # s
    BY <1>2 DEF TaskStreamEnds, Driven, Live, IInv, TaskInv
  <2>2. QED
    BY <1>2, <2>1, InvTaskMoves DEF TaskStreamEnds, Live
<1>3. CASE TaskSeesAbort(s)
  <2>1. Driven(s) /\ rejecting # s
    BY <1>3 DEF TaskSeesAbort, Driven, Live, IInv, TaskInv
  <2>2. QED
    BY <1>3, <2>1, InvTaskMoves DEF TaskSeesAbort, Live
<1>4. CASE TaskSends(s)
  <2>1. /\ Driven(s)
        /\ task[s] \in Live
        /\ task[s] \in {"data", "error", "end"} /\ task[s] \notin {"none", "end"}
    BY <1>4 DEF TaskSends, Driven, Live
  <2>2. PICK pc \in {"polling", "done"} : task' = [task EXCEPT ![s] = pc]
    BY <1>4 DEF TaskSends
  <2>3. QED
    BY <1>4, <2>1, <2>2, InvTaskSends DEF TaskSends
<1>5. CASE TaskSendsEnd(s)
  <2>1. Driven(s)
    BY <1>5 DEF TaskSendsEnd, Driven
  <2>2. QED
    BY <1>5, <2>1, InvTaskSends DEF TaskSendsEnd
<1>6. CASE TaskPanics(s)
  <2>1. Driven(s) /\ rejecting # s /\ task[s] # "ending"
    BY <1>6 DEF TaskPanics, Driven, Live, IInv, TaskInv
  <2>2. QED
    BY <1>6, <2>1, InvTaskMoves DEF TaskPanics, Live
<1>7. QED
  BY <1>1, <1>2, <1>3, <1>4, <1>5, <1>6 DEF TaskStep, StreamStep

LEMMA InvReaderSubscribe == TypeOK /\ IInv /\ ReaderSubscribe => IInv'
<1> SUFFICES ASSUME TypeOK, IInv, ReaderSubscribe PROVE IInv'
  OBVIOUS
<1> USE DEF clientVars, writerVars
<1>0. Reads("subscribe")
  BY DEF ReaderSubscribe
<1>1. PICK s \in Subs, id \in Ids :
          /\ s = Head(inbox).sub /\ id = Head(inbox).id
          /\ active' = [active EXCEPT ![id] = s]
          /\ task' = [task EXCEPT ![s] = "polling"]
          /\ UNCHANGED <<clientVars, conn, reader, rejecting, aborted, subId, sent, writerVars>>
  BY <1>0, ReadsType, SubscribeMessageType DEF ReaderSubscribe
<1>2. /\ subId[s] = id /\ id # GlobalId /\ Current(s) /\ task[s] = "none" /\ sent[s] = 0
      /\ rejecting = None
  <2>1. 1 \in 1..Len(inbox) /\ IsSubscribe(1) /\ inbox[1].sub = s /\ inbox[1].id = id
    BY <1>0, <1>1, ReadsEffect DEF IsSubscribe
  <2>2. QED
    BY <2>1, <1>0, ConstantsAssumption DEF IInv, InboxInv, Reads
<1>3. \A t \in Subs : task'[t] = IF t = s THEN "polling" ELSE task[t]
  BY <1>1 DEF TypeOK
<1>4. \A t \in Subs : Current(t)' <=> Current(t)
  BY <1>1 DEF Current
<1>5. \A t \in Subs : t # s => (Driven(t)' <=> Driven(t))
  BY <1>1, <1>3 DEF Driven
<1>6. HolderInv'
  BY <1>1, <1>2, <1>3 DEF IInv, HolderInv
<1>7. ConnInv'
  BY <1>0, <1>1 DEF IInv, ConnInv, Reads
<1>8. InboxInv'
  BY <1>0, <1>1, <1>3, ReadsKeepsInbox DEF IInv
<1>9. UnsubInv'
  BY <1>0, <1>1, ReadsKeepsUnsub DEF IInv
<1>10. TaskInv'
  BY <1>1, <1>2, <1>3, <1>4, <1>5, ConstantsAssumption DEF IInv, TaskInv
<1>11. QueueInv' /\ OrderInv'
  BY <1>1, <1>2, <1>5, SameQueue DEF IInv
<1>12. ActiveInv'
  <2>1. \A i \in Ids : active'[i] = IF i = id THEN s ELSE active[i]
    BY <1>1 DEF TypeOK
  <2>2. \A i \in Ids : active[i] # None => active[i] \in Subs
    BY DEF TypeOK
  <2>3. ASSUME NEW i \in Ids, active'[i] # None
        PROVE  subId'[active'[i]] = i /\ task'[active'[i]] # "none"
    BY <2>1, <2>2, <2>3, <1>1, <1>2, <1>3 DEF IInv, ActiveInv
  <2>4. ASSUME NEW t \in Subs, task'[t] \in Live, t \notin aborted'
        PROVE  active'[subId'[t]] = t
    <3>1. CASE t = s
      BY <3>1, <2>1, <1>1, <1>2
    <3>2. CASE t # s
      <4>1. task[t] \in Live /\ active[subId[t]] = t /\ Current(t)
        BY <3>2, <2>4, <1>1, <1>3 DEF IInv, ActiveInv, TaskInv, Driven
      <4>2. subId[t] # id /\ subId[t] \in Ids
        BY <4>1, <3>2, <1>2 DEF Current, TypeOK
      <4>3. QED
        BY <4>1, <4>2, <2>1, <1>1
    <3>3. QED
      BY <3>1, <3>2
  <2>5. QED
    BY <2>3, <2>4 DEF ActiveInv
<1>13. AbortInv'
  BY <1>1, <1>4 DEF IInv, AbortInv, TypeOK
<1>14. QED
  BY <1>6, <1>7, <1>8, <1>9, <1>10, <1>11, <1>12, <1>13 DEF IInv

\* The reader sends a frame of the rejection of s.
LEMMA InvReaderRejects ==
    ASSUME TypeOK, IInv, NEW s \in Subs, Current(s), task[s] = "none",
           NEW kind \in {"error", "end"}, SendFrame(s, kind),
           rejecting' = IF kind = "end" THEN None ELSE s,
           kind = "end" => rejecting = s,
           kind = "error" => rejecting = None /\ sent[s] = 0,
           reader = "reading", InboxInv', UnsubInv',
           UNCHANGED <<clientVars, conn, reader, active, aborted, subId, task,
                       writer, writerAborted>>
    PROVE  IInv'
<1> USE DEF clientVars
<1>1. \A t \in Subs : Current(t)' <=> Current(t)
  BY DEF Current
<1>2. \A t \in Subs : t # s => sent'[t] = sent[t] /\ (rejecting' # t \/ rejecting = t)
  BY SendFrameEffect, ConstantsAssumption
<1>3. HolderInv'
  BY <1>2 DEF IInv, HolderInv, Current
<1>4. ConnInv'
  BY DEF IInv, ConnInv
<1>5. TaskInv'
  BY <1>1, <1>2 DEF IInv, TaskInv, Driven, Live
<1>6. QueueInv' /\ OrderInv'
  <2>1. \A i \in 1..Len(queue) : IsFrameOf(i, s) => queue[i].kind # "end"
    BY DEF IInv, QueueInv, Driven
  <2>2. \A t \in Subs \ {s} : Driven(t)' => Driven(t)
    BY <1>2 DEF Driven
  <2>3. kind = "end" => ~Driven(s)'
    BY ConstantsAssumption DEF Driven, Live
  <2>4. QED
    BY <2>1, <2>2, <2>3, SendKeepsQueue DEF IInv
<1>7. ActiveInv'
  BY DEF IInv, ActiveInv
<1>8. AbortInv'
  BY <1>1 DEF IInv, AbortInv, TypeOK
<1>9. QED
  BY <1>3, <1>4, <1>5, <1>6, <1>7, <1>8 DEF IInv

LEMMA InvReaderReject == TypeOK /\ IInv /\ ReaderReject => IInv'
<1> SUFFICES ASSUME TypeOK, IInv, ReaderReject PROVE IInv'
  OBVIOUS
<1>0. Reads("subscribe")
  BY DEF ReaderReject
<1>1. PICK s \in Subs : s = Head(inbox).sub
  BY <1>0, ReadsType, SubscribeMessageType
<1>2. /\ Current(s) /\ task[s] = "none" /\ sent[s] = 0
      /\ rejecting = None /\ reader = "reading"
  <2>1. 1 \in 1..Len(inbox) /\ IsSubscribe(1) /\ inbox[1].sub = s
    BY <1>0, <1>1, ReadsEffect DEF IsSubscribe
  <2>2. QED
    BY <2>1, <1>0 DEF IInv, InboxInv, Reads
<1>3. /\ SendFrame(s, "error") /\ rejecting' = s
      /\ UNCHANGED <<clientVars, conn, reader, active, aborted, subId, task, writer, writerAborted>>
  BY <1>1 DEF ReaderReject
<1>4. \A t \in Subs : t # s => sent'[t] = sent[t]
  BY <1>3, SendFrameEffect
<1>5. InboxInv'
  BY <1>0, <1>1, <1>3, <1>4, ReadsKeepsInbox DEF IInv, clientVars
<1>6. UnsubInv'
  BY <1>0, <1>3, ReadsKeepsUnsub DEF IInv, clientVars
<1>7. QED
  BY <1>2, <1>3, <1>5, <1>6, InvReaderRejects

LEMMA InvReaderRejectEnd == TypeOK /\ IInv /\ ReaderRejectEnd => IInv'
<1> SUFFICES ASSUME TypeOK, IInv, ReaderRejectEnd PROVE IInv'
  OBVIOUS
<1>1. PICK s \in Subs : s = rejecting
  BY DEF ReaderRejectEnd, TypeOK
<1>2. /\ SendFrame(s, "end") /\ rejecting' = None
      /\ UNCHANGED <<clientVars, conn, inbox, reader, active, aborted, subId, task,
                     writer, writerAborted>>
  BY <1>1 DEF ReaderRejectEnd
<1>3. Current(s) /\ task[s] = "none" /\ reader = "reading"
  BY <1>1, ConstantsAssumption DEF IInv, TaskInv, ConnInv, Driven
<1>4. \A t \in Subs : t # s => sent'[t] = sent[t]
  BY <1>2, SendFrameEffect
<1>5. InboxInv'
  <2>1. \A i \in 1..Len(inbox) : IsSubscribe(i) => inbox[i].sub \in Subs /\ inbox[i].sub # s
    BY <1>1, InboxElements DEF IInv, InboxInv
  <2>2. \A t \in Subs : Current(t)' <=> Current(t)
    BY <1>2 DEF Current, clientVars
  <2>3. QED
    BY <1>2, <1>4, <2>1, <2>2, ConstantsAssumption DEF IInv, InboxInv, IsSubscribe
<1>6. UnsubInv'
  BY <1>2 DEF IInv, UnsubInv, IsSubscribe, clientVars
<1>7. QED
  BY <1>1, <1>2, <1>3, <1>5, <1>6, InvReaderRejects

LEMMA InvReaderUnsubscribe == TypeOK /\ IInv /\ ReaderUnsubscribe => IInv'
<1> SUFFICES ASSUME TypeOK, IInv, ReaderUnsubscribe PROVE IInv'
  OBVIOUS
<1> USE DEF clientVars, taskVars, writerVars
<1>0. Reads("unsubscribe") /\ reader = "reading"
  BY DEF ReaderUnsubscribe, Reads
<1>1. PICK id \in Ids :
          /\ id = Head(inbox).id
          /\ aborted' = aborted \cup ({active[id]} \ {None})
          /\ active' = [active EXCEPT ![id] = None]
          /\ UNCHANGED <<clientVars, conn, reader, rejecting, taskVars, writerVars>>
  BY <1>0, ReadsType, UnsubscribeMessageType DEF ReaderUnsubscribe
<1>2. \A t \in Subs : (Current(t)' <=> Current(t)) /\ (Driven(t)' <=> Driven(t))
  BY <1>1 DEF Current, Driven
<1>3. \A i \in Ids : active'[i] = IF i = id THEN None ELSE active[i]
  BY <1>1 DEF TypeOK
<1>4. \A i \in Ids : active[i] # None => active[i] \in Subs
  BY DEF TypeOK
<1>5. HolderInv' /\ TaskInv'
  BY <1>1, <1>2 DEF IInv, HolderInv, TaskInv
<1>6. ConnInv'
  BY <1>0, <1>1 DEF IInv, ConnInv
<1>7. InboxInv'
  BY <1>0, <1>1, ReadsKeepsInbox DEF IInv
<1>8. UnsubInv'
  BY <1>0, <1>1, ReadsKeepsUnsub DEF IInv
<1>9. QueueInv' /\ OrderInv'
  BY <1>1, <1>2, SameQueue DEF IInv
<1>10. ActiveInv'
  <2>1. \A i \in Ids : active'[i] # None =>
            subId'[active'[i]] = i /\ task'[active'[i]] # "none"
    BY <1>1, <1>3, <1>4 DEF IInv, ActiveInv
  <2>2. ASSUME NEW t \in Subs, task'[t] \in Live, t \notin aborted'
        PROVE  active'[subId'[t]] = t
    <3>1. active[subId[t]] = t /\ subId[t] \in Ids
      BY <2>2, <1>1 DEF IInv, ActiveInv, TaskInv, Driven, Current, TypeOK
    <3>2. subId[t] # id
      BY <3>1, <2>2, <1>1, ConstantsAssumption
    <3>3. QED
      BY <3>1, <3>2, <1>1, <1>3
  <2>3. QED
    BY <2>1, <2>2 DEF ActiveInv
<1>11. AbortInv'
  <2> SUFFICES ASSUME NEW t \in aborted'
               PROVE  /\ t \in Subs
                      /\ subId[t] # GlobalId
                      /\ Current(t) => view[subId[t]] = "cancelled" \/ reader # "reading"
    BY <1>1, <1>2 DEF AbortInv
  <2>1. CASE t \in aborted
    BY <2>1 DEF IInv, AbortInv, TypeOK
  <2>2. CASE t \notin aborted
    <3>1. t = active[id] /\ t \in Subs /\ subId[t] = id /\ task[t] # "none"
      BY <2>2, <1>1, <1>4 DEF IInv, ActiveInv
    <3>2. ASSUME Current(t) PROVE view[id] = "cancelled"
      <4>1. holder[id] = t /\ view[id] # "ended"
        BY <3>1, <3>2 DEF Current
      <4>2. 1 \in 1..Len(inbox) /\ inbox[1].type = "unsubscribe" /\ inbox[1].id = id
        BY <1>0, <1>1, ReadsEffect
      <4>3. ASSUME NEW j \in 1..Len(inbox), IsSubscribe(j), inbox[j].id = id
            PROVE  FALSE
        <5>1. Current(inbox[j].sub) /\ subId[inbox[j].sub] = id /\ task[inbox[j].sub] = "none"
          BY <4>3 DEF IInv, InboxInv
        <5>2. QED
          BY <5>1, <4>1, <3>1 DEF Current
      <4>4. view[id] \in {"cancelled", "ended"}
        BY <4>2, <4>3 DEF IInv, UnsubInv
      <4>5. QED
        BY <4>1, <4>4
    <3>3. QED
      BY <3>1, <3>2, ConstantsAssumption
  <2>3. QED
    BY <2>1, <2>2
<1>12. QED
  BY <1>5, <1>6, <1>7, <1>8, <1>9, <1>10, <1>11 DEF IInv

\* A decode error joins the queue as a frame of no subscription.
LEMMA InvReaderDecodeError == TypeOK /\ IInv /\ ReaderDecodeError => IInv'
<1> SUFFICES ASSUME TypeOK, IInv, ReaderDecodeError PROVE IInv'
  OBVIOUS
<1> USE DEF clientVars, readerVars
<1>0. /\ Reads("garbage") /\ sent' = sent
      /\ queue' = IF writer = "stopped" THEN queue ELSE Append(queue, GlobalError)
      /\ UNCHANGED <<clientVars, conn, readerVars, subId, task, writer, writerAborted>>
  BY DEF ReaderDecodeError, SendGlobalError
<1>1. \A t \in Subs : (Current(t)' <=> Current(t)) /\ (Driven(t)' <=> Driven(t))
  BY <1>0 DEF Current, Driven
<1>2. HolderInv' /\ ConnInv' /\ TaskInv' /\ ActiveInv'
  BY <1>0, <1>1 DEF IInv, HolderInv, ConnInv, TaskInv, ActiveInv
<1>3. InboxInv' /\ UnsubInv'
  BY <1>0, ReadsKeepsInbox, ReadsKeepsUnsub DEF IInv
<1>4. AbortInv'
  BY <1>0, <1>1 DEF IInv, AbortInv, TypeOK
<1>5. QueueInv' /\ OrderInv'
  <2>1. CASE writer = "stopped"
    BY <2>1, <1>0, <1>1, SameQueue DEF IInv
  <2>2. CASE writer # "stopped"
    <3>1. GlobalError \in Frames /\ queue \in Seq(Frames)
      BY DEF GlobalError, Frames, TypeOK
    <3>2. queue' = Append(queue, GlobalError)
      BY <2>2, <1>0
    <3>3. PICK last \in Nat : last = Len(queue) + 1
      BY <3>1, LenProperties
    <3>4. /\ Len(queue) \in Nat /\ Len(queue') = last
          /\ \A i \in 1..Len(queue) : queue'[i] = queue[i]
          /\ queue'[last] = GlobalError
      BY <3>1, <3>2, <3>3, AppendProperties, LenProperties
    <3>5. \A i \in 1..Len(queue') : \A t \in Subs :
              IsFrameOf(i, t)' => i \in 1..Len(queue) /\ IsFrameOf(i, t) /\ queue'[i] = queue[i]
      BY <3>3, <3>4, ConstantsAssumption DEF IsFrameOf, GlobalError
    <3>6. \A i \in 1..Len(queue) : \A t \in Subs :
              IsFrameOf(i, t) => i \in 1..Len(queue') /\ IsFrameOf(i, t)' /\ queue'[i] = queue[i]
      BY <3>3, <3>4 DEF IsFrameOf
    <3>7. QueueInv'
      <4> SUFFICES ASSUME NEW i \in 1..Len(queue'), NEW t \in Subs, IsFrameOf(i, t)'
                   PROVE  /\ subId[t] = queue'[i].id
                          /\ Current(t)
                          /\ queue'[i].n \in 1..sent[t]
                          /\ queue'[i].kind = "end" =>
                              /\ ~Driven(t)
                              /\ \A j \in (i + 1)..Len(queue') : ~IsFrameOf(j, t)'
        BY <1>0, <1>1 DEF QueueInv
      <4>1. i \in 1..Len(queue) /\ IsFrameOf(i, t) /\ queue'[i] = queue[i]
        BY <3>5
      <4>2. \A j \in (i + 1)..Len(queue') :
                IsFrameOf(j, t)' => j \in (i + 1)..Len(queue) /\ IsFrameOf(j, t)
        BY <3>4, <3>5, <4>1
      <4>3. QED
        BY <4>1, <4>2 DEF IInv, QueueInv
    <3>8. OrderInv'
      <4> SUFFICES ASSUME conn = "up", NEW t \in Subs
                   PROVE  /\ received[t] <= sent[t]
                          /\ \A i \in 1..Len(queue') : IsFrameOf(i, t)' =>
                              /\ received[t] < queue'[i].n
                              /\ \A j \in (i + 1)..Len(queue') :
                                  IsFrameOf(j, t)' => queue'[i].n < queue'[j].n
                          /\ \A n \in (received[t] + 1)..sent[t] :
                              \E i \in 1..Len(queue') : IsFrameOf(i, t)' /\ queue'[i].n = n
        BY <1>0 DEF OrderInv
      <4>1. /\ received[t] <= sent[t]
            /\ \A i \in 1..Len(queue) : IsFrameOf(i, t) =>
                /\ received[t] < queue[i].n
                /\ \A j \in (i + 1)..Len(queue) :
                    IsFrameOf(j, t) => queue[i].n < queue[j].n
            /\ \A n \in (received[t] + 1)..sent[t] :
                \E i \in 1..Len(queue) : IsFrameOf(i, t) /\ queue[i].n = n
        BY DEF IInv, OrderInv
      <4>2. ASSUME NEW i \in 1..Len(queue'), IsFrameOf(i, t)'
            PROVE  /\ received[t] < queue'[i].n
                   /\ \A j \in (i + 1)..Len(queue') :
                       IsFrameOf(j, t)' => queue'[i].n < queue'[j].n
        <5>1. i \in 1..Len(queue) /\ IsFrameOf(i, t) /\ queue'[i] = queue[i]
          BY <3>5, <4>2
        <5>2. ASSUME NEW j \in (i + 1)..Len(queue'), IsFrameOf(j, t)'
              PROVE  j \in (i + 1)..Len(queue) /\ IsFrameOf(j, t) /\ queue'[j] = queue[j]
          BY <3>4, <3>5, <5>1, <5>2
        <5>3. QED
          BY <5>1, <5>2, <4>1
      <4>3. ASSUME NEW n \in (received[t] + 1)..sent[t]
            PROVE  \E i \in 1..Len(queue') : IsFrameOf(i, t)' /\ queue'[i].n = n
        BY <4>1, <3>6
      <4>4. QED
        BY <4>1, <4>2, <4>3
    <3>9. QED
      BY <3>7, <3>8
  <2>3. QED
    BY <2>1, <2>2
<1>6. QED
  BY <1>2, <1>3, <1>4, <1>5 DEF IInv

\* Steps of the reader that concern the socket rather than a subscription.
LEMMA InvReaderOther ==
    ASSUME TypeOK, IInv,
           \/ ReaderIgnore \/ ReaderClose \/ ReaderEof \/ ReaderDone
           \/ \E id \in Ids : Drain(id)
    PROVE  IInv'
<1> USE DEF clientVars, readerVars, taskVars, writerVars
<1>1. UNCHANGED <<view, holder, received, subId, task, sent, queue, rejecting>>
  BY DEF ReaderIgnore, ReaderClose, ReaderEof, ReaderDone, Drain
<1>2. \A t \in Subs : (Current(t)' <=> Current(t)) /\ (Driven(t)' <=> Driven(t))
  BY <1>1 DEF Current, Driven
<1>3. HolderInv' /\ TaskInv'
  BY <1>1, <1>2 DEF IInv, HolderInv, TaskInv
<1>4. conn' = "up" => conn = "up"
  BY DEF ReaderIgnore, ReaderClose, ReaderEof, ReaderDone, Drain
<1>5. QueueInv' /\ OrderInv'
  BY <1>1, <1>2, <1>4, SameQueue DEF IInv
<1>6. \A i \in Ids : active[i] # None => active[i] \in Subs
  BY DEF TypeOK
<1>7. CASE ReaderIgnore
  <2>1. Reads("ignored") /\ UNCHANGED <<clientVars, conn, readerVars, taskVars, writerVars>>
    BY <1>7 DEF ReaderIgnore
  <2>2. InboxInv' /\ UnsubInv'
    BY <2>1, ReadsKeepsInbox, ReadsKeepsUnsub DEF IInv
  <2>3. ConnInv' /\ ActiveInv'
    BY <2>1 DEF IInv, ConnInv, ActiveInv
  <2>4. AbortInv'
    BY <2>1, <1>2 DEF IInv, AbortInv, TypeOK
  <2>5. QED
    BY <1>3, <1>5, <2>2, <2>3, <2>4 DEF IInv
<1>8. CASE ReaderClose
  <2>1. /\ Reads("close") /\ reader = "reading" /\ rejecting = None
        /\ reader' = "draining" /\ conn' = "down"
        /\ UNCHANGED <<clientVars, rejecting, active, aborted, taskVars, writerVars>>
    BY <1>8 DEF ReaderClose, Reads
  <2>2. InboxInv' /\ UnsubInv'
    BY <2>1, ReadsKeepsInbox, ReadsKeepsUnsub DEF IInv
  <2>3. ConnInv'
    BY <2>1 DEF IInv, ConnInv
  <2>4. ActiveInv' /\ AbortInv'
    BY <2>1, <1>2 DEF IInv, ActiveInv, AbortInv, TypeOK
  <2>5. QED
    BY <1>3, <1>5, <2>2, <2>3, <2>4 DEF IInv
<1>9. CASE ReaderEof
  <2>1. /\ reader = "reading" /\ rejecting = None /\ conn = "down" /\ reader' = "draining"
        /\ UNCHANGED <<clientVars, conn, inbox, rejecting, active, aborted, taskVars, writerVars>>
    BY <1>9 DEF ReaderEof
  <2>2. InboxInv' /\ UnsubInv'
    BY <2>1, <1>2, InboxElements DEF IInv, InboxInv, UnsubInv, IsSubscribe
  <2>3. ConnInv'
    BY <2>1 DEF IInv, ConnInv
  <2>4. ActiveInv' /\ AbortInv'
    BY <2>1, <1>2 DEF IInv, ActiveInv, AbortInv, TypeOK
  <2>5. QED
    BY <1>3, <1>5, <2>2, <2>3, <2>4 DEF IInv
<1>10. CASE ReaderDone
  <2>1. /\ reader = "draining" /\ reader' = "done"
        /\ \A id \in Ids : active[id] = None
        /\ UNCHANGED <<clientVars, conn, inbox, rejecting, active, aborted, taskVars, queue, writer>>
    BY <1>10 DEF ReaderDone
  <2>2. InboxInv' /\ UnsubInv'
    BY <2>1, <1>2, InboxElements DEF IInv, InboxInv, UnsubInv, IsSubscribe
  <2>3. ConnInv'
    BY <2>1 DEF IInv, ConnInv
  <2>4. ActiveInv' /\ AbortInv'
    BY <2>1, <1>2 DEF IInv, ActiveInv, AbortInv, TypeOK
  <2>5. QED
    BY <1>3, <1>5, <2>2, <2>3, <2>4 DEF IInv
<1>11. ASSUME NEW id \in Ids, Drain(id)
       PROVE  IInv'
  <2>1. /\ reader = "draining" /\ active[id] # None
        /\ aborted' = aborted \cup {active[id]}
        /\ active' = [active EXCEPT ![id] = None]
        /\ UNCHANGED <<clientVars, conn, inbox, reader, rejecting, taskVars, writerVars>>
    BY <1>11 DEF Drain
  <2>2. \A i \in Ids : active'[i] = IF i = id THEN None ELSE active[i]
    BY <2>1 DEF TypeOK
  <2>3. InboxInv' /\ UnsubInv'
    BY <2>1, <1>2, InboxElements DEF IInv, InboxInv, UnsubInv, IsSubscribe
  <2>4. ConnInv'
    BY <2>1 DEF IInv, ConnInv
  <2>5. ActiveInv'
    <3>1. \A i \in Ids : active'[i] # None =>
              subId'[active'[i]] = i /\ task'[active'[i]] # "none"
      BY <2>1, <2>2, <1>6 DEF IInv, ActiveInv
    <3>2. ASSUME NEW t \in Subs, task'[t] \in Live, t \notin aborted'
          PROVE  active'[subId'[t]] = t
      <4>1. active[subId[t]] = t /\ subId[t] \in Ids
        BY <3>2, <2>1 DEF IInv, ActiveInv, TaskInv, Driven, Current, TypeOK
      <4>2. subId[t] # id
        BY <4>1, <3>2, <2>1
      <4>3. QED
        BY <4>1, <4>2, <2>1, <2>2
    <3>3. QED
      BY <3>1, <3>2 DEF ActiveInv
  <2>6. AbortInv'
    <3>1. active[id] \in Subs /\ subId[active[id]] = id /\ id # GlobalId
      BY <2>1, <1>6, ConstantsAssumption DEF IInv, ActiveInv
    <3>2. QED
      BY <3>1, <2>1, <1>2 DEF IInv, AbortInv, TypeOK
  <2>7. QED
    BY <1>3, <1>5, <2>3, <2>4, <2>5, <2>6 DEF IInv
<1>12. QED
  BY <1>7, <1>8, <1>9, <1>10, <1>11

LEMMA InvReader == TypeOK /\ IInv /\ ReaderStep => IInv'
BY InvReaderSubscribe, InvReaderReject, InvReaderRejectEnd, InvReaderUnsubscribe,
   InvReaderDecodeError, InvReaderOther DEF ReaderStep

\* The client puts a message behind the others.
LEMMA ClientSends ==
    ASSUME TypeOK, NEW m \in ClientMessages, inbox' = Append(inbox, m)
    PROVE  /\ Len(inbox) \in Nat /\ Len(inbox') = Len(inbox) + 1
           /\ \A i \in 1..Len(inbox) : inbox'[i] = inbox[i]
           /\ inbox'[Len(inbox) + 1] = m
<1>1. inbox \in Seq(ClientMessages)
  BY DEF TypeOK
<1>2. QED
  BY <1>1, AppendProperties, LenProperties

\* A message that is not a Subscribe.
LEMMA QuietMessage ==
    ASSUME TypeOK, InboxInv, UnsubInv, NEW m \in ClientMessages, m.type # "subscribe",
           inbox' = Append(inbox, m),
           UNCHANGED <<subId, task, sent, rejecting>>,
           \A t \in Subs : Current(t)' <=> Current(t),
           \A id \in Ids : view[id] \in {"cancelled", "ended"} => view'[id] = view[id],
           m.type = "unsubscribe" => view'[m.id] = "cancelled"
    PROVE  InboxInv' /\ UnsubInv'
<1>1. PICK last \in Nat : last = Len(inbox) + 1
  BY ClientSends
<1>2. /\ Len(inbox) \in Nat /\ Len(inbox') = last
      /\ \A i \in 1..Len(inbox) : inbox'[i] = inbox[i]
      /\ inbox'[last] = m
  BY <1>1, ClientSends
<1>3. \A i \in 1..Len(inbox') : IsSubscribe(i)' =>
          i \in 1..Len(inbox) /\ IsSubscribe(i) /\ inbox'[i] = inbox[i] /\ inbox[i].sub \in Subs
  BY <1>1, <1>2, InboxElements DEF IsSubscribe
<1>4. InboxInv'
  <2> SUFFICES ASSUME NEW i \in 1..Len(inbox'), IsSubscribe(i)'
               PROVE  /\ subId[inbox'[i].sub] = inbox'[i].id
                      /\ Current(inbox[i].sub)'
                      /\ task[inbox'[i].sub] = "none"
                      /\ sent[inbox'[i].sub] = 0
                      /\ rejecting # inbox'[i].sub
                      /\ \A j \in 1..Len(inbox') :
                          j # i /\ IsSubscribe(j)' => inbox'[j].sub # inbox'[i].sub
    BY DEF InboxInv
  <2>1. PICK s \in Subs : s = inbox'[i].sub /\ s = inbox[i].sub
    BY <1>3
  <2>2. i \in 1..Len(inbox) /\ IsSubscribe(i) /\ inbox'[i] = inbox[i]
    BY <1>3
  <2>3. Current(s)'
    BY <2>1, <2>2 DEF InboxInv
  <2>4. Current(inbox[i].sub)'
    BY <2>1, <2>3 DEF Current
  <2>5. QED
    BY <2>1, <2>2, <2>4, <1>3 DEF InboxInv
<1>5. UnsubInv'
  <2> SUFFICES ASSUME NEW i \in 1..Len(inbox'), inbox'[i].type = "unsubscribe",
                      view'[inbox'[i].id] \notin {"cancelled", "ended"}
               PROVE  \E j \in (i + 1)..Len(inbox') :
                          IsSubscribe(j)' /\ inbox'[j].id = inbox'[i].id
    BY DEF UnsubInv
  <2>1. i \in 1..Len(inbox) /\ inbox'[i] = inbox[i]
    BY <1>1, <1>2
  <2>2. inbox[i].id \in Ids /\ inbox[i].type = "unsubscribe"
    BY <2>1, InboxElements
  <2>3. PICK j \in (i + 1)..Len(inbox) : IsSubscribe(j) /\ inbox[j].id = inbox[i].id
    BY <2>1, <2>2 DEF UnsubInv
  <2>4. j \in (i + 1)..Len(inbox') /\ inbox'[j] = inbox[j]
    BY <1>1, <1>2, <2>1, <2>3
  <2>5. QED
    BY <2>1, <2>3, <2>4 DEF IsSubscribe
<1>6. QED
  BY <1>4, <1>5

LEMMA InvClientSubscribe ==
    ASSUME TypeOK, IInv, ReuseAfter = {"ended"},
           NEW s \in Subs, NEW id \in Ids, NEW t \in Targets, ClientSubscribe(s, id, t)
    PROVE  IInv'
<1> USE DEF readerVars, writerVars
<1> DEFINE m == [type |-> "subscribe", id |-> id, sub |-> s, target |-> t]
<1>1. /\ subId[s] = GlobalId /\ view[id] \in {"idle", "ended"}
      /\ view' = [view EXCEPT ![id] = "live"]
      /\ holder' = [holder EXCEPT ![id] = s]
      /\ subId' = [subId EXCEPT ![s] = id]
      /\ inbox' = Append(inbox, m)
      /\ UNCHANGED <<received, online, noise, conn, readerVars, task, sent, writerVars>>
  BY DEF ClientSubscribe
<1>2. id # GlobalId /\ s # None
  BY ConstantsAssumption
<1>3. /\ \A i \in Ids : view'[i] = IF i = id THEN "live" ELSE view[i]
      /\ \A i \in Ids : holder'[i] = IF i = id THEN s ELSE holder[i]
      /\ \A u \in Subs : subId'[u] = IF u = s THEN id ELSE subId[u]
      /\ \A u \in Subs : subId[u] # GlobalId => subId[u] \in Ids
      /\ \A i \in Ids : holder[i] # None => holder[i] \in Subs
      /\ \A i \in Ids : active[i] # None => active[i] \in Subs
  BY <1>1 DEF TypeOK
<1>4. ~Current(s) /\ Current(s)'
  BY <1>1, <1>2, <1>3 DEF Current
<1>5. \A u \in Subs : u # s /\ Current(u) => subId[u] # id
  BY <1>1, <1>2, <1>3 DEF Current, IInv, HolderInv
<1>6. \A u \in Subs : u # s => (Current(u)' <=> Current(u))
  BY <1>1, <1>2, <1>3, <1>5 DEF Current
<1>7. ~Driven(s) /\ task[s] = "none" /\ sent[s] = 0 /\ rejecting # s
  BY <1>1, <1>4 DEF IInv, HolderInv, TaskInv, Driven
<1>8. \A u \in Subs : Driven(u)' <=> Driven(u)
  BY <1>1 DEF Driven
<1>9. m \in ClientMessages
  BY DEF ClientMessages
<1>10. PICK last \in Nat : last = Len(inbox) + 1
  BY <1>1, <1>9, ClientSends
<1>11. /\ Len(inbox) \in Nat /\ Len(inbox') = last
       /\ \A i \in 1..Len(inbox) : inbox'[i] = inbox[i]
       /\ inbox'[last] = m
  BY <1>1, <1>9, <1>10, ClientSends
<1>12. HolderInv'
  <2>1. \A i \in Ids : /\ holder'[i] # None => subId'[holder'[i]] = i
                       /\ holder'[i] = None => view'[i] = "idle"
    <3> TAKE i \in Ids
    <3>1. CASE i = id
      BY <3>1, <1>2, <1>3
    <3>2. CASE i # id
      <4>1. holder[i] # s
        BY <1>1, <1>2, ConstantsAssumption DEF IInv, HolderInv
      <4>2. QED
        BY <3>2, <4>1, <1>3 DEF IInv, HolderInv
    <3>3. QED
      BY <3>1, <3>2
  <2>2. \A u \in Subs : /\ subId'[u] = GlobalId => task'[u] = "none" /\ sent'[u] = 0
                        /\ subId'[u] # GlobalId => view'[subId'[u]] # "idle"
    BY <1>1, <1>2, <1>3 DEF IInv, HolderInv
  <2>3. QED
    BY <2>1, <2>2 DEF HolderInv
<1>13. ConnInv'
  BY <1>1 DEF IInv, ConnInv
<1>14. ASSUME NEW i \in 1..Len(inbox), IsSubscribe(i)
       PROVE  inbox[i].sub \in Subs /\ inbox[i].sub # s
  BY <1>14, <1>4, InboxElements DEF IInv, InboxInv
<1>15. InboxInv'
  <2> SUFFICES ASSUME NEW i \in 1..Len(inbox'), IsSubscribe(i)'
               PROVE  /\ subId'[inbox'[i].sub] = inbox'[i].id
                      /\ Current(inbox[i].sub)'
                      /\ task[inbox'[i].sub] = "none"
                      /\ sent[inbox'[i].sub] = 0
                      /\ rejecting # inbox'[i].sub
                      /\ \A j \in 1..Len(inbox') :
                          j # i /\ IsSubscribe(j)' => inbox'[j].sub # inbox'[i].sub
    BY <1>1 DEF InboxInv
  <2>1. CASE i = last
    <3>1. inbox'[i].sub = s /\ inbox'[i].id = id
      BY <2>1, <1>11
    <3>2. Current(inbox[i].sub)'
      BY <3>1, <1>4 DEF Current
    <3>3. \A j \in 1..Len(inbox') : j # i /\ IsSubscribe(j)' => inbox'[j].sub # s
      BY <2>1, <1>10, <1>11, <1>14 DEF IsSubscribe
    <3>4. QED
      BY <3>1, <3>2, <3>3, <1>3, <1>7
  <2>2. CASE i # last
    <3>1. i \in 1..Len(inbox) /\ IsSubscribe(i) /\ inbox'[i] = inbox[i]
      BY <2>2, <1>10, <1>11 DEF IsSubscribe
    <3>2. PICK u \in Subs : u = inbox[i].sub /\ u # s
      BY <3>1, <1>14
    <3>3. /\ subId[u] = inbox[i].id /\ Current(u) /\ task[u] = "none" /\ sent[u] = 0
          /\ rejecting # u
          /\ \A j \in 1..Len(inbox) : j # i /\ IsSubscribe(j) => inbox[j].sub # u
      BY <3>1, <3>2 DEF IInv, InboxInv
    <3>4. Current(inbox[i].sub)'
      <4>1. Current(u)' /\ inbox'[i].sub = u
        BY <3>1, <3>2, <3>3, <1>6
      <4>2. QED
        BY <4>1 DEF Current
    <3>5. \A j \in 1..Len(inbox') : j # i /\ IsSubscribe(j)' => inbox'[j].sub # u
      BY <3>2, <3>3, <1>10, <1>11 DEF IsSubscribe
    <3>6. QED
      BY <3>1, <3>2, <3>3, <3>4, <3>5, <1>3
  <2>3. QED
    BY <2>1, <2>2
<1>16. UnsubInv'
  <2> SUFFICES ASSUME NEW i \in 1..Len(inbox'), inbox'[i].type = "unsubscribe",
                      view'[inbox'[i].id] \notin {"cancelled", "ended"}
               PROVE  \E j \in (i + 1)..Len(inbox') :
                          IsSubscribe(j)' /\ inbox'[j].id = inbox'[i].id
    BY DEF UnsubInv
  <2>1. i \in 1..Len(inbox) /\ inbox'[i] = inbox[i]
    BY <1>10, <1>11
  <2>2. inbox[i].id \in Ids /\ inbox[i].type = "unsubscribe"
    BY <2>1, InboxElements
  <2>3. CASE inbox[i].id = id
    <3>1. last \in (i + 1)..Len(inbox') /\ IsSubscribe(last)' /\ inbox'[last].id = inbox'[i].id
      BY <2>1, <2>3, <1>10, <1>11 DEF IsSubscribe
    <3>2. QED
      BY <3>1
  <2>4. CASE inbox[i].id # id
    <3>1. view[inbox[i].id] \notin {"cancelled", "ended"}
      BY <2>1, <2>2, <2>4, <1>3
    <3>2. PICK j \in (i + 1)..Len(inbox) : IsSubscribe(j) /\ inbox[j].id = inbox[i].id
      BY <2>1, <2>2, <3>1 DEF IInv, UnsubInv
    <3>3. j \in (i + 1)..Len(inbox') /\ inbox'[j] = inbox[j]
      BY <1>10, <1>11, <2>1, <3>2
    <3>4. QED
      BY <2>1, <3>2, <3>3 DEF IsSubscribe
  <2>5. QED
    BY <2>3, <2>4
<1>17. TaskInv'
  BY <1>1, <1>6, <1>7, <1>8 DEF IInv, TaskInv
<1>18. QueueInv'
  <2> SUFFICES ASSUME NEW i \in 1..Len(queue), NEW u \in Subs, IsFrameOf(i, u)
               PROVE  /\ subId'[u] = queue[i].id
                      /\ Current(u)'
                      /\ queue[i].n \in 1..sent[u]
                      /\ queue[i].kind = "end" =>
                          /\ ~Driven(u)'
                          /\ \A j \in (i + 1)..Len(queue) : ~IsFrameOf(j, u)
    BY <1>1 DEF QueueInv, IsFrameOf
  <2>1. u # s
    BY <1>4 DEF IInv, QueueInv
  <2>2. QED
    BY <2>1, <1>3, <1>6, <1>8 DEF IInv, QueueInv
<1>19. OrderInv'
  <2>1. UNCHANGED <<received, sent, queue, conn>>
    BY <1>1
  <2>2. QED
    BY <2>1 DEF IInv, OrderInv, IsFrameOf
<1>20. ActiveInv'
  <2>1. \A i \in Ids : active[i] # None => active[i] # s
    BY <1>1, ConstantsAssumption DEF IInv, ActiveInv
  <2>2. task[s] \notin Live
    BY <1>7 DEF Live
  <2>3. QED
    BY <1>1, <1>3, <2>1, <2>2 DEF IInv, ActiveInv
<1>21. AbortInv'
  <2> SUFFICES ASSUME NEW u \in aborted
               PROVE  /\ u \in Subs
                      /\ subId'[u] # GlobalId
                      /\ Current(u)' => view'[subId'[u]] = "cancelled" \/ reader # "reading"
    BY <1>1 DEF AbortInv
  <2>1. u \in Subs /\ u # s /\ subId[u] # GlobalId
    BY <1>1 DEF IInv, AbortInv, TypeOK
  <2>2. QED
    BY <2>1, <1>3, <1>5, <1>6 DEF IInv, AbortInv
<1>22. QED
  BY <1>12, <1>13, <1>15, <1>16, <1>17, <1>18, <1>19, <1>20, <1>21 DEF IInv

LEMMA InvClient ==
    ASSUME TypeOK, IInv, ReuseAfter = {"ended"}, ClientStep
    PROVE  IInv'
<1> USE DEF readerVars, taskVars, writerVars
<1>0. \A i \in Ids : active[i] # None => active[i] \in Subs
  BY DEF TypeOK
<1>1. ASSUME NEW s \in Subs, NEW id \in Ids, NEW t \in Targets, ClientSubscribe(s, id, t)
      PROVE  IInv'
  BY <1>1, InvClientSubscribe
<1>2. ASSUME NEW id \in Ids, ClientUnsubscribe(id)
      PROVE  IInv'
  <2> DEFINE m == [type |-> "unsubscribe", id |-> id]
  <2>1. /\ view[id] \in {"live", "errored"}
        /\ view' = [view EXCEPT ![id] = "cancelled"]
        /\ inbox' = Append(inbox, m)
        /\ UNCHANGED <<holder, received, online, noise, conn, readerVars, taskVars, writerVars>>
    BY <1>2 DEF ClientUnsubscribe
  <2>2. \A i \in Ids : view'[i] = IF i = id THEN "cancelled" ELSE view[i]
    BY <2>1 DEF TypeOK
  <2>3. \A u \in Subs : subId[u] # GlobalId => subId[u] \in Ids
    BY DEF TypeOK
  <2>4. \A u \in Subs : (Current(u)' <=> Current(u)) /\ (Driven(u)' <=> Driven(u))
    BY <2>1, <2>2, <2>3 DEF Current, Driven
  <2>5. m \in ClientMessages
    BY DEF ClientMessages
  <2>6. InboxInv' /\ UnsubInv'
    BY <2>1, <2>2, <2>4, <2>5, QuietMessage DEF IInv
  <2>7. HolderInv'
    BY <2>1, <2>2, <2>3 DEF IInv, HolderInv
  <2>8. ConnInv' /\ TaskInv' /\ ActiveInv'
    BY <2>1, <2>4 DEF IInv, ConnInv, TaskInv, ActiveInv
  <2>9. QueueInv'
    BY <2>1, <2>4 DEF IInv, QueueInv, IsFrameOf
  <2>10. OrderInv'
    BY <2>1 DEF IInv, OrderInv, IsFrameOf
  <2>11. AbortInv'
    BY <2>1, <2>2, <2>3, <2>4 DEF IInv, AbortInv, TypeOK
  <2>12. QED
    BY <2>6, <2>7, <2>8, <2>9, <2>10, <2>11 DEF IInv
<1>3. ASSUME NEW m \in ClientMessages, m.type \in {"garbage", "ignored", "close"},
             inbox' = Append(inbox, m),
             UNCHANGED <<view, holder, received, conn, readerVars, taskVars, writerVars>>
      PROVE  IInv'
  <2>1. \A u \in Subs : (Current(u)' <=> Current(u)) /\ (Driven(u)' <=> Driven(u))
    BY <1>3 DEF Current, Driven
  <2>2. InboxInv' /\ UnsubInv'
    BY <1>3, <2>1, QuietMessage DEF IInv
  <2>3. HolderInv' /\ ConnInv' /\ TaskInv' /\ ActiveInv'
    BY <1>3, <2>1 DEF IInv, HolderInv, ConnInv, TaskInv, ActiveInv
  <2>4. QueueInv' /\ OrderInv'
    BY <1>3, <2>1, SameQueue DEF IInv
  <2>5. AbortInv'
    BY <1>3, <2>1 DEF IInv, AbortInv, TypeOK
  <2>6. QED
    BY <2>2, <2>3, <2>4, <2>5 DEF IInv
<1>4. ASSUME NEW type \in {"garbage", "ignored"}, ClientNoise(type)
      PROVE  IInv'
  <2>1. [type |-> type] \in ClientMessages
    BY DEF ClientMessages
  <2>2. QED
    BY <1>3, <1>4, <2>1 DEF ClientNoise
<1>5. CASE ClientClose
  <2>1. [type |-> "close"] \in ClientMessages
    BY DEF ClientMessages
  <2>2. QED
    BY <1>3, <1>5, <2>1 DEF ClientClose
<1>6. CASE PeerDrop
  <2>1. /\ conn' = "down"
        /\ UNCHANGED <<view, holder, received, noise, inbox, readerVars, taskVars, writerVars>>
    BY <1>6 DEF PeerDrop
  <2>2. \A u \in Subs : (Current(u)' <=> Current(u)) /\ (Driven(u)' <=> Driven(u))
    BY <2>1 DEF Current, Driven
  <2>3. InboxInv' /\ UnsubInv'
    BY <2>1, <2>2, InboxElements DEF IInv, InboxInv, UnsubInv, IsSubscribe
  <2>4. HolderInv' /\ ConnInv' /\ TaskInv' /\ ActiveInv'
    BY <2>1, <2>2 DEF IInv, HolderInv, ConnInv, TaskInv, ActiveInv
  <2>5. QueueInv' /\ OrderInv'
    BY <2>1, <2>2, SameQueue DEF IInv
  <2>6. AbortInv'
    BY <2>1, <2>2 DEF IInv, AbortInv, TypeOK
  <2>7. QED
    BY <2>3, <2>4, <2>5, <2>6 DEF IInv
<1>7. QED
  BY <1>1, <1>2, <1>4, <1>5, <1>6 DEF ClientStep

\* The writer took the first frame.
LEMMA WriterTakes ==
    ASSUME TypeOK, queue # <<>>, queue' = Tail(queue)
    PROVE  /\ Len(queue) \in Nat /\ 1 \in 1..Len(queue)
           /\ Head(queue) = queue[1]
           /\ Len(queue') = Len(queue) - 1
           /\ \A i \in 1..Len(queue') : i + 1 \in 1..Len(queue) /\ queue'[i] = queue[i + 1]
           /\ \A i \in 1..Len(queue) :
                i # 1 => i - 1 \in 1..Len(queue') /\ queue'[i - 1] = queue[i]
<1>1. queue \in Seq(Frames)
  BY DEF TypeOK
<1>2. Len(queue) \in Nat \ {0} /\ Head(queue) = queue[1]
  BY <1>1, EmptySeq
<1>3. Len(queue') = Len(queue) - 1 /\ \A i \in 1..Len(queue') : queue'[i] = queue[i + 1]
  BY <1>1, HeadTailProperties
<1>4. \A i \in 1..Len(queue) : i # 1 => i - 1 \in 1..Len(queue') /\ (i - 1) + 1 = i
  BY <1>2, <1>3
<1>5. QED
  BY <1>2, <1>3, <1>4

\* Taking the first frame keeps what is said of the others, as long as their
\* subscriptions stay current and are driven no more than before.
LEMMA TakeKeepsQueue ==
    ASSUME TypeOK, QueueInv, queue # <<>>, queue' = Tail(queue),
           UNCHANGED <<subId, sent>>,
           \A t \in Subs : Driven(t)' => Driven(t),
           \A t \in Subs :
               (\E i \in 2..Len(queue) : IsFrameOf(i, t)) /\ Current(t) => Current(t)'
    PROVE  QueueInv'
<1> SUFFICES ASSUME NEW i \in 1..Len(queue'), NEW t \in Subs, IsFrameOf(i, t)'
             PROVE  /\ subId[t] = queue'[i].id
                    /\ Current(t)'
                    /\ queue'[i].n \in 1..sent[t]
                    /\ queue'[i].kind = "end" =>
                        /\ ~Driven(t)'
                        /\ \A j \in (i + 1)..Len(queue') : ~IsFrameOf(j, t)'
  BY DEF QueueInv
<1>1. \A j \in 1..Len(queue') : j + 1 \in 1..Len(queue) /\ queue'[j] = queue[j + 1]
  BY WriterTakes
<1>2. IsFrameOf(i + 1, t) /\ i + 1 \in 2..Len(queue)
  BY <1>1, WriterTakes DEF IsFrameOf
<1>3. /\ subId[t] = queue[i + 1].id
      /\ Current(t)
      /\ queue[i + 1].n \in 1..sent[t]
      /\ queue[i + 1].kind = "end" =>
          /\ ~Driven(t)
          /\ \A j \in ((i + 1) + 1)..Len(queue) : ~IsFrameOf(j, t)
  BY <1>1, <1>2 DEF QueueInv
<1>4. ASSUME queue'[i].kind = "end", NEW j \in (i + 1)..Len(queue') PROVE ~IsFrameOf(j, t)'
  <2>1. j \in 1..Len(queue') /\ j + 1 \in ((i + 1) + 1)..Len(queue)
    BY WriterTakes
  <2>2. ~IsFrameOf(j + 1, t)
    BY <2>1, <1>1, <1>3, <1>4
  <2>3. QED
    BY <2>1, <2>2, <1>1 DEF IsFrameOf
<1>5. QED
  BY <1>1, <1>2, <1>3, <1>4

\* While the connection lasts, the first frame in the queue is the next one
\* its subscription's client expects, and the client knows whose it is.
LEMMA HeadIsNext ==
    ASSUME TypeOK, QueueInv, OrderInv, conn = "up", queue # <<>>,
           Head(queue).id # GlobalId, Head(queue).sub \in Subs
    PROVE  /\ holder[Head(queue).id] = Head(queue).sub
           /\ Head(queue).n = received[Head(queue).sub] + 1
<1>1. PICK s \in Subs : s = Head(queue).sub
  OBVIOUS
<1>2. 1 \in 1..Len(queue) /\ Head(queue) = queue[1] /\ Len(queue) \in Nat
  BY EmptySeq DEF TypeOK
<1>3. IsFrameOf(1, s)
  BY <1>1, <1>2 DEF IsFrameOf
<1>4. /\ subId[s] = queue[1].id /\ Current(s)
      /\ queue[1].n \in 1..sent[s] /\ received[s] < queue[1].n
      /\ received[s] \in Nat /\ sent[s] \in Nat
  BY <1>2, <1>3 DEF QueueInv, OrderInv, TypeOK
<1>5. received[s] + 1 \in (received[s] + 1)..sent[s]
  BY <1>4
<1>6. PICK i \in 1..Len(queue) : IsFrameOf(i, s) /\ queue[i].n = received[s] + 1
  BY <1>5 DEF OrderInv
<1>7. i = 1
  <2>1. SUFFICES ASSUME i # 1 PROVE FALSE
    OBVIOUS
  <2>2. i \in (1 + 1)..Len(queue)
    BY <2>1, <1>2
  <2>3. queue[1].n < queue[i].n
    BY <2>2, <1>2, <1>3, <1>6 DEF OrderInv
  <2>4. QED
    BY <2>3, <1>4, <1>6
<1>8. QED
  BY <1>1, <1>2, <1>4, <1>6, <1>7 DEF Current

\* Delivering a frame that belongs to a subscription.
LEMMA InvDeliverFrame ==
    ASSUME TypeOK, IInv, WriterDelivers, Head(queue).id # GlobalId,
           NEW s \in Subs, s = Head(queue).sub
    PROVE  IInv'
<1> USE DEF readerVars, taskVars
<1>1. PICK id \in Ids : id = Head(queue).id
  <2>1. Head(queue) \in Frames
    BY HeadTailProperties DEF WriterDelivers, TypeOK
  <2>2. QED
    BY <2>1 DEF Frames, GlobalError
<1>2. /\ conn = "up" /\ queue # <<>> /\ queue' = Tail(queue)
      /\ ClientReceives(Head(queue))
      /\ UNCHANGED <<holder, online, noise, conn, inbox, readerVars, taskVars,
                     writer, writerAborted>>
  BY DEF WriterDelivers
<1>3. /\ Len(queue) \in Nat /\ 1 \in 1..Len(queue) /\ Head(queue) = queue[1]
      /\ Len(queue') = Len(queue) - 1
      /\ \A i \in 1..Len(queue') : i + 1 \in 1..Len(queue) /\ queue'[i] = queue[i + 1]
      /\ \A i \in 1..Len(queue) :
           i # 1 => i - 1 \in 1..Len(queue') /\ queue'[i - 1] = queue[i]
  BY <1>2, WriterTakes
<1>4. IsFrameOf(1, s)
  BY <1>3 DEF IsFrameOf
<1>5. /\ subId[s] = id /\ Current(s) /\ holder[id] = s /\ view[id] # "ended"
      /\ queue[1].n \in 1..sent[s]
      /\ queue[1].kind = "end" =>
          /\ ~Driven(s)
          /\ \A j \in (1 + 1)..Len(queue) : ~IsFrameOf(j, s)
  BY <1>1, <1>3, <1>4 DEF IInv, QueueInv, Current
<1>6. queue[1].n = received[s] + 1
  BY <1>2, <1>3, HeadIsNext DEF IInv
<1>7. /\ view' = [view EXCEPT ![id] =
                      IF queue[1].kind = "end" THEN "ended"
                      ELSE IF queue[1].kind = "error" /\ @ = "live" THEN "errored"
                      ELSE @]
      /\ received' = [received EXCEPT ![s] = @ + 1]
  BY <1>1, <1>2, <1>3, <1>5 DEF ClientReceives
<1>8. /\ \A i \in Ids : i # id => view'[i] = view[i]
      /\ view'[id] = IF queue[1].kind = "end" THEN "ended"
                     ELSE IF queue[1].kind = "error" /\ view[id] = "live" THEN "errored"
                     ELSE view[id]
      /\ received' \in [Subs -> Nat]
      /\ \A t \in Subs : received'[t] = IF t = s THEN received[s] + 1 ELSE received[t]
      /\ \A u \in Subs : subId[u] # GlobalId => subId[u] \in Ids
  BY <1>7 DEF TypeOK
<1>9. \A t \in Subs : t # s => (Current(t)' <=> Current(t))
  <2> SUFFICES ASSUME NEW t \in Subs, t # s PROVE Current(t)' <=> Current(t)
    OBVIOUS
  <2>1. CASE subId[t] = id
    BY <2>1, <1>2, <1>5 DEF Current
  <2>2. CASE subId[t] # id
    BY <2>2, <1>2, <1>8 DEF Current
  <2>3. QED
    BY <2>1, <2>2
<1>10. Current(s)' <=> queue[1].kind # "end"
  BY <1>1, <1>2, <1>5, <1>8, ConstantsAssumption DEF Current
<1>11. \A t \in Subs : Driven(t)' <=> Driven(t)
  BY <1>2 DEF Driven
<1>12. HolderInv'
  BY <1>2, <1>5, <1>8 DEF IInv, HolderInv
<1>13. ConnInv'
  BY <1>2 DEF IInv, ConnInv
<1>14. InboxInv'
  <2>0. sent[s] # 0
    BY <1>5
  <2>1. \A i \in 1..Len(inbox) : IsSubscribe(i) => inbox[i].sub \in Subs /\ inbox[i].sub # s
    BY <2>0, InboxElements DEF IInv, InboxInv
  <2>2. QED
    BY <2>1, <1>2, <1>9 DEF IInv, InboxInv, IsSubscribe
<1>15. UnsubInv'
  <2>1. \A i \in Ids : view[i] \in {"cancelled", "ended"} => view'[i] \in {"cancelled", "ended"}
    BY <1>8
  <2>2. \A i \in 1..Len(inbox) : inbox[i].type = "unsubscribe" => inbox[i].id \in Ids
    BY InboxElements
  <2>3. QED
    BY <2>1, <2>2, <1>2 DEF IInv, UnsubInv, IsSubscribe
<1>16. TaskInv'
  BY <1>2, <1>5, <1>9, <1>10, <1>11 DEF IInv, TaskInv
<1>17. QueueInv'
  <2>1. ASSUME NEW t \in Subs, NEW i \in 2..Len(queue), IsFrameOf(i, t), Current(t)
        PROVE  Current(t)'
    BY <2>1, <1>5, <1>9, <1>10
  <2>2. QED
    BY <2>1, <1>2, <1>11, TakeKeepsQueue DEF IInv
<1>18. OrderInv'
  <2> SUFFICES ASSUME NEW t \in Subs
               PROVE  /\ received'[t] <= sent[t]
                      /\ \A i \in 1..Len(queue') : IsFrameOf(i, t)' =>
                          /\ received'[t] < queue'[i].n
                          /\ \A j \in (i + 1)..Len(queue') :
                              IsFrameOf(j, t)' => queue'[i].n < queue'[j].n
                      /\ \A n \in (received'[t] + 1)..sent[t] :
                          \E i \in 1..Len(queue') : IsFrameOf(i, t)' /\ queue'[i].n = n
    BY <1>2 DEF OrderInv
  <2>0. received[t] \in Nat /\ sent[t] \in Nat /\ \A i \in 1..Len(queue) : queue[i].n \in Nat
    BY QueueElements DEF TypeOK, Frames, GlobalError
  <2>1. /\ received[t] <= sent[t]
        /\ \A i \in 1..Len(queue) : IsFrameOf(i, t) =>
            /\ received[t] < queue[i].n
            /\ \A j \in (i + 1)..Len(queue) : IsFrameOf(j, t) => queue[i].n < queue[j].n
        /\ \A n \in (received[t] + 1)..sent[t] :
            \E i \in 1..Len(queue) : IsFrameOf(i, t) /\ queue[i].n = n
    BY <1>2 DEF IInv, OrderInv
  <2>2. received'[t] <= sent[t]
    BY <2>0, <2>1, <1>5, <1>6, <1>8
  <2>3. ASSUME NEW i \in 1..Len(queue'), IsFrameOf(i, t)'
        PROVE  IsFrameOf(i + 1, t) /\ i + 1 \in 1..Len(queue) /\ queue'[i] = queue[i + 1]
    BY <2>3, <1>3 DEF IsFrameOf
  <2>4. ASSUME NEW i \in 1..Len(queue'), IsFrameOf(i, t)'
        PROVE  received'[t] < queue'[i].n
    <3>1. IsFrameOf(i + 1, t) /\ i + 1 \in 1..Len(queue) /\ queue'[i] = queue[i + 1]
      BY <2>3, <2>4
    <3>2. CASE t = s
      <4>1. i + 1 \in (1 + 1)..Len(queue)
        BY <3>1, <1>3
      <4>2. queue[1].n < queue[i + 1].n
        BY <4>1, <3>1, <3>2, <2>1, <1>3, <1>4
      <4>3. QED
        BY <4>2, <3>1, <3>2, <2>0, <1>3, <1>6, <1>8
    <3>3. CASE t # s
      BY <3>1, <3>3, <2>1, <1>8
    <3>4. QED
      BY <3>2, <3>3
  <2>5. ASSUME NEW i \in 1..Len(queue'), IsFrameOf(i, t)',
               NEW j \in (i + 1)..Len(queue'), IsFrameOf(j, t)'
        PROVE  queue'[i].n < queue'[j].n
    <3>1. j \in 1..Len(queue') /\ j + 1 \in ((i + 1) + 1)..Len(queue)
      BY <1>3
    <3>2. QED
      BY <3>1, <2>1, <2>3, <2>5
  <2>6. ASSUME NEW n \in (received'[t] + 1)..sent[t]
        PROVE  \E i \in 1..Len(queue') : IsFrameOf(i, t)' /\ queue'[i].n = n
    <3>1. n \in (received[t] + 1)..sent[t] /\ (t = s => n # queue[1].n)
      BY <2>0, <1>3, <1>6, <1>8
    <3>2. PICK k \in 1..Len(queue) : IsFrameOf(k, t) /\ queue[k].n = n
      BY <3>1, <2>1
    <3>3. k # 1
      BY <3>1, <3>2, <1>4 DEF IsFrameOf
    <3>4. k - 1 \in 1..Len(queue') /\ queue'[k - 1] = queue[k]
      BY <3>3, <1>3
    <3>5. QED
      BY <3>2, <3>4 DEF IsFrameOf
  <2>7. QED
    BY <2>2, <2>4, <2>5, <2>6
<1>19. ActiveInv'
  BY <1>2 DEF IInv, ActiveInv
<1>20. AbortInv'
  <2> SUFFICES ASSUME NEW t \in aborted
               PROVE  /\ t \in Subs
                      /\ subId[t] # GlobalId
                      /\ Current(t)' => view'[subId[t]] = "cancelled" \/ reader # "reading"
    BY <1>2 DEF AbortInv
  <2>1. t \in Subs /\ subId[t] # GlobalId
        /\ (Current(t) => view[subId[t]] = "cancelled" \/ reader # "reading")
    BY DEF IInv, AbortInv, TypeOK
  <2>2. CASE t = s
    BY <2>1, <2>2, <1>5, <1>8, <1>10
  <2>3. CASE t # s
    <3>1. ASSUME Current(t) PROVE subId[t] # id
      BY <3>1, <2>3, <1>5 DEF Current
    <3>2. QED
      BY <3>1, <2>1, <2>3, <1>8, <1>9
  <2>4. QED
    BY <2>2, <2>3
<1>21. QED
  BY <1>12, <1>13, <1>14, <1>15, <1>16, <1>17, <1>18, <1>19, <1>20 DEF IInv

\* Taking a frame of no subscription keeps the order of the others.
LEMMA TakeKeepsOrder ==
    ASSUME TypeOK, QueueInv, OrderInv, queue # <<>>, queue' = Tail(queue),
           Head(queue).id = GlobalId,
           UNCHANGED <<sent, received, conn>>
    PROVE  OrderInv'
<1>1. /\ Len(queue) \in Nat /\ 1 \in 1..Len(queue) /\ Head(queue) = queue[1]
      /\ \A i \in 1..Len(queue') : i + 1 \in 1..Len(queue) /\ queue'[i] = queue[i + 1]
      /\ \A i \in 1..Len(queue) :
           i # 1 => i - 1 \in 1..Len(queue') /\ queue'[i - 1] = queue[i]
      /\ Len(queue') = Len(queue) - 1
  BY WriterTakes
<1> SUFFICES ASSUME conn = "up", NEW t \in Subs
             PROVE  /\ received[t] <= sent[t]
                    /\ \A i \in 1..Len(queue') : IsFrameOf(i, t)' =>
                        /\ received[t] < queue'[i].n
                        /\ \A j \in (i + 1)..Len(queue') :
                            IsFrameOf(j, t)' => queue'[i].n < queue'[j].n
                    /\ \A n \in (received[t] + 1)..sent[t] :
                        \E i \in 1..Len(queue') : IsFrameOf(i, t)' /\ queue'[i].n = n
  BY DEF OrderInv
<1>2. /\ received[t] <= sent[t]
      /\ \A i \in 1..Len(queue) : IsFrameOf(i, t) =>
          /\ received[t] < queue[i].n
          /\ \A j \in (i + 1)..Len(queue) : IsFrameOf(j, t) => queue[i].n < queue[j].n
      /\ \A n \in (received[t] + 1)..sent[t] :
          \E i \in 1..Len(queue) : IsFrameOf(i, t) /\ queue[i].n = n
  BY DEF OrderInv
<1>3. ASSUME NEW i \in 1..Len(queue'), IsFrameOf(i, t)'
      PROVE  IsFrameOf(i + 1, t) /\ i + 1 \in 1..Len(queue) /\ queue'[i] = queue[i + 1]
  BY <1>1, <1>3 DEF IsFrameOf
<1>4. ASSUME NEW i \in 1..Len(queue'), IsFrameOf(i, t)',
             NEW j \in (i + 1)..Len(queue'), IsFrameOf(j, t)'
      PROVE  queue'[i].n < queue'[j].n
  <2>1. j \in 1..Len(queue') /\ j + 1 \in ((i + 1) + 1)..Len(queue)
    BY <1>1
  <2>2. QED
    BY <2>1, <1>2, <1>3, <1>4
<1>5. ASSUME NEW n \in (received[t] + 1)..sent[t]
      PROVE  \E i \in 1..Len(queue') : IsFrameOf(i, t)' /\ queue'[i].n = n
  <2>1. PICK k \in 1..Len(queue) : IsFrameOf(k, t) /\ queue[k].n = n
    BY <1>2
  <2>2. k # 1
    BY <2>1, <1>1 DEF QueueInv, Current
  <2>3. k - 1 \in 1..Len(queue') /\ queue'[k - 1] = queue[k]
    BY <2>2, <1>1
  <2>4. QED
    BY <2>1, <2>3 DEF IsFrameOf
<1>6. QED
  BY <1>2, <1>3, <1>4, <1>5

\* The writer takes a frame, or drops them all, without the client's view of
\* a subscription changing.
LEMMA InvWriterTakes ==
    ASSUME TypeOK, IInv, QueueInv', OrderInv',
           UNCHANGED <<clientVars, conn, inbox, readerVars, taskVars, writerAborted>>,
           writer' = "stopped" => writer = "stopped" \/ conn = "down"
    PROVE  IInv'
<1> USE DEF clientVars, readerVars, taskVars
<1>1. \A t \in Subs : (Current(t)' <=> Current(t)) /\ (Driven(t)' <=> Driven(t))
  BY DEF Current, Driven
<1>2. HolderInv' /\ ConnInv' /\ TaskInv' /\ ActiveInv'
  BY <1>1 DEF IInv, HolderInv, ConnInv, TaskInv, ActiveInv
<1>3. InboxInv' /\ UnsubInv'
  BY <1>1, InboxElements DEF IInv, InboxInv, UnsubInv, IsSubscribe
<1>4. AbortInv'
  BY <1>1 DEF IInv, AbortInv, TypeOK
<1>5. QED
  BY <1>2, <1>3, <1>4 DEF IInv

LEMMA InvWriter == TypeOK /\ IInv /\ WriterStep => IInv'
<1> SUFFICES ASSUME TypeOK, IInv, WriterStep PROVE IInv'
  OBVIOUS
<1>1. ASSUME UNCHANGED <<clientVars, conn, inbox, readerVars, taskVars>>,
             queue # <<>>, queue' = Tail(queue)
      PROVE  QueueInv'
  <2>1. \A t \in Subs : (Current(t)' <=> Current(t)) /\ (Driven(t)' <=> Driven(t))
    BY <1>1 DEF Current, Driven, clientVars, readerVars, taskVars
  <2>2. QED
    BY <1>1, <2>1, TakeKeepsQueue DEF IInv, taskVars
<1>2. CASE WriterDelivers
  <2>1. CASE Head(queue).id = GlobalId
    <3>1. /\ queue # <<>> /\ queue' = Tail(queue)
          /\ UNCHANGED <<clientVars, conn, inbox, readerVars, taskVars, writer, writerAborted>>
      BY <1>2, <2>1 DEF WriterDelivers, ClientReceives, clientVars
    <3>2. QueueInv' /\ OrderInv'
      BY <2>1, <3>1, <1>1, TakeKeepsOrder DEF IInv, clientVars, taskVars
    <3>3. QED
      BY <3>1, <3>2, InvWriterTakes
  <2>2. CASE Head(queue).id # GlobalId
    <3>1. Head(queue) \in Frames
      BY <1>2, HeadTailProperties DEF WriterDelivers, TypeOK
    <3>2. Head(queue).sub \in Subs
      BY <2>2, <3>1 DEF Frames, GlobalError
    <3>3. QED
      BY <1>2, <2>2, <3>2, InvDeliverFrame
  <2>3. QED
    BY <2>1, <2>2
<1>3. CASE WriterLoses
  <2>1. /\ conn = "down" /\ queue # <<>> /\ queue' = Tail(queue)
        /\ UNCHANGED <<clientVars, conn, inbox, readerVars, taskVars, writer, writerAborted>>
    BY <1>3 DEF WriterLoses
  <2>2. QueueInv' /\ OrderInv'
    BY <1>1, <2>1 DEF OrderInv
  <2>3. QED
    BY <2>1, <2>2, InvWriterTakes
<1>4. CASE WriterFails \/ WriterCancelled
  <2>1. /\ conn = "down" /\ queue' = <<>>
        /\ UNCHANGED <<clientVars, conn, inbox, readerVars, taskVars, writerAborted>>
    BY <1>4 DEF WriterFails, WriterCancelled, IInv, ConnInv
  <2>2. QueueInv' /\ OrderInv'
    BY <2>1, EmptySeq DEF QueueInv, OrderInv
  <2>3. QED
    BY <2>1, <2>2, InvWriterTakes
<1>5. QED
  BY <1>2, <1>3, <1>4 DEF WriterStep

LEMMA InvUnchanged == TypeOK /\ IInv /\ UNCHANGED vars => IInv'
<1> SUFFICES ASSUME TypeOK, IInv, UNCHANGED vars PROVE IInv'
  OBVIOUS
<1> USE DEF vars, clientVars, readerVars, taskVars, writerVars
<1>1. \A t \in Subs : (Current(t)' <=> Current(t)) /\ (Driven(t)' <=> Driven(t))
  BY DEF Current, Driven
<1>2. QueueInv' /\ OrderInv'
  BY <1>1, SameQueue DEF IInv
<1>3. QED
  BY <1>2, InvWriterTakes DEF IInv

LEMMA InvNext == ReuseAfter = {"ended"} /\ TypeOK /\ IInv /\ [Next]_vars => IInv'
BY InvClient, InvReader, InvTask, InvWriter, InvUnchanged DEF Next, Finished

-----------------------------------------------------------------------------
(* What the invariant gives, for a client that waits for the End before it *)
(* uses an id again.                                                       *)

LEMMA Invariant == ReuseAfter = {"ended"} => (Spec => []IInv)
<1>1. SUFFICES ASSUME ReuseAfter = {"ended"} PROVE Spec => []IInv
  OBVIOUS
<1>2. TypeOK /\ IInv /\ [Next]_vars => IInv'
  BY <1>1, InvNext
<1>3. QED
  BY InvInit, TypeCorrect, <1>2, PTL DEF Spec

LEMMA EndedIsOver == TypeOK /\ IInv => \A s \in Subs : Ended(s) <=> subId[s] # GlobalId /\ ~Current(s)
BY DEF Ended, Current

\* No frame under way is taken for another subscription's: the id alone is
\* enough, however the reader, the tasks and the writer interleave.
THEOREM NoCrossTalkHolds == ReuseAfter = {"ended"} => (Spec => []NoCrossTalk)
<1>1. SUFFICES ASSUME ReuseAfter = {"ended"} PROVE Spec => []NoCrossTalk
  OBVIOUS
<1>2. TypeOK /\ IInv => NoCrossTalk
  <2> SUFFICES ASSUME TypeOK, IInv, NEW i \in DOMAIN queue, queue[i].id # GlobalId
               PROVE  holder[queue[i].id] = queue[i].sub
    BY DEF NoCrossTalk
  <2>1. i \in 1..Len(queue)
    BY LenProperties DEF TypeOK
  <2>2. PICK s \in Subs : s = queue[i].sub
    BY <2>1, QueueElements DEF Frames, GlobalError
  <2>3. QED
    BY <2>1, <2>2 DEF IInv, QueueInv, IsFrameOf, Current
<1>3. QED
  BY <1>1, <1>2, TypeCorrect, Invariant, PTL

\* Frames reach the client in stream order, none missing and none twice.
THEOREM LosslessInOrderHolds == ReuseAfter = {"ended"} => (Spec => []LosslessInOrder)
<1>1. SUFFICES ASSUME ReuseAfter = {"ended"} PROVE Spec => []LosslessInOrder
  OBVIOUS
<1>2. TypeOK /\ IInv => LosslessInOrder
  <2> SUFFICES ASSUME TypeOK, IInv, conn = "up", queue # <<>>, Head(queue).id # GlobalId
               PROVE  Head(queue).n = received[Head(queue).sub] + 1
    BY DEF LosslessInOrder
  <2>1. Head(queue) \in Frames
    BY HeadTailProperties DEF TypeOK
  <2>2. Head(queue).sub \in Subs
    BY <2>1 DEF Frames, GlobalError
  <2>3. QED
    BY <2>2, HeadIsNext DEF IInv
<1>3. QED
  BY <1>1, <1>2, TypeCorrect, Invariant, PTL

\* Nothing follows an End, in the queue or at the client.
THEOREM NothingAfterEndHolds == ReuseAfter = {"ended"} => (Spec => []NothingAfterEnd)
<1>1. SUFFICES ASSUME ReuseAfter = {"ended"} PROVE Spec => []NothingAfterEnd
  OBVIOUS
<1>2. TypeOK /\ IInv => NothingAfterEnd
  <2> SUFFICES ASSUME TypeOK, IInv, NEW i \in DOMAIN queue, queue[i].kind = "end"
               PROVE  /\ task[queue[i].sub] \in {"none", "done"}
                      /\ ~Ended(queue[i].sub)
                      /\ \A j \in DOMAIN queue : j > i => queue[j].sub # queue[i].sub
    BY DEF NothingAfterEnd
  <2>1. i \in 1..Len(queue) /\ DOMAIN queue = 1..Len(queue) /\ Len(queue) \in Nat
    BY LenProperties DEF TypeOK
  <2>2. queue[i] \in Frames /\ queue[i] # GlobalError
    BY <2>1, QueueElements DEF GlobalError
  <2>3. PICK s \in Subs : s = queue[i].sub
    BY <2>2 DEF Frames
  <2>4. /\ Current(s) /\ ~Driven(s)
        /\ \A j \in (i + 1)..Len(queue) : ~IsFrameOf(j, s)
    BY <2>1, <2>3 DEF IInv, QueueInv, IsFrameOf
  <2>5. task[s] \in {"none", "done"}
    BY <2>4 DEF Driven, TypeOK
  <2>6. ~Ended(s)
    BY <2>4, EndedIsOver
  <2>7. \A j \in DOMAIN queue : j > i => queue[j].sub # s
    BY <2>1, <2>4 DEF IsFrameOf
  <2>8. QED
    BY <2>3, <2>5, <2>6, <2>7
<1>3. QED
  BY <1>1, <1>2, TypeCorrect, Invariant, PTL

\* Every task the reader leaves behind has been aborted.
THEOREM DisconnectAbortsHolds == ReuseAfter = {"ended"} => (Spec => []DisconnectAborts)
<1>1. SUFFICES ASSUME ReuseAfter = {"ended"} PROVE Spec => []DisconnectAborts
  OBVIOUS
<1>2. TypeOK /\ IInv => DisconnectAborts
  <2> SUFFICES ASSUME TypeOK, IInv, reader = "done",
                      NEW s \in Subs, task[s] \in Live, s \notin aborted
               PROVE  FALSE
    BY DEF DisconnectAborts
  <2>1. active[subId[s]] = s /\ subId[s] \in Ids
    BY DEF IInv, ActiveInv, TaskInv, Driven, Current, TypeOK
  <2>2. QED
    BY <2>1, ConstantsAssumption DEF IInv, ConnInv
<1>3. QED
  BY <1>1, <1>2, TypeCorrect, Invariant, PTL

\* A running subscription is aborted only on its own client's request or
\* when the socket goes away.
THEOREM AbortIsRequestedHolds == ReuseAfter = {"ended"} => (Spec => []AbortIsRequested)
<1>1. SUFFICES ASSUME ReuseAfter = {"ended"} PROVE Spec => []AbortIsRequested
  OBVIOUS
<1>2. TypeOK /\ IInv => AbortIsRequested
  BY DEF AbortIsRequested, IInv, AbortInv, Ended, Current, TypeOK
<1>3. QED
  BY <1>1, <1>2, TypeCorrect, Invariant, PTL

-----------------------------------------------------------------------------
(* WsSocket implements Subscription: the initial state is one of its, and  *)
(* every step of the socket is one of its steps or changes nothing there.  *)

\* What the client does not see is a stutter.
LEMMA Unobserved ==
    ASSUME UNCHANGED <<view, holder, subId, conn, received>>
    PROVE  UNCHANGED Abs!absVars
BY DEF Phase, Ended, Abs!absVars

LEMMA RefinesInit == Init => Abs!AbsInit
BY DEF Init, Abs!AbsInit, Phase, Ended

\* A step that moves one subscription to another phase.
LEMMA PhaseExcept ==
    ASSUME NEW s \in Subs, NEW ph,
           \A u \in Subs : u # s => Phase'[u] = Phase[u],
           Phase'[s] = ph
    PROVE  Phase' = [Phase EXCEPT ![s] = ph]
BY DEF Phase

\* The connection goes away while it was up, or was away before.
LEMMA RefinesDown ==
    ASSUME conn' = "down", UNCHANGED <<view, holder, subId, received>>
    PROVE  Abs!Sever
<1>1. \A u \in Subs : Ended(u)' <=> Ended(u)
  BY DEF Ended
<1>2. \A u \in Subs : Phase'[u] = IF Phase[u] = "ended" THEN "ended" ELSE "lost"
  BY <1>1 DEF Phase
<1>3. Phase' = [u \in Subs |-> IF Phase[u] = "ended" THEN "ended" ELSE "lost"]
  BY <1>2 DEF Phase
<1>4. QED
  BY <1>3 DEF Abs!Sever

LEMMA RefinesClientSubscribe ==
    ASSUME TypeOK, IInv, ReuseAfter = {"ended"},
           NEW s \in Subs, NEW id \in Ids, NEW t \in Targets, ClientSubscribe(s, id, t)
    PROVE  [Abs!AbsNext]_(Abs!absVars)
<1>1. /\ subId[s] = GlobalId /\ view[id] \in {"idle", "ended"}
      /\ view' = [view EXCEPT ![id] = "live"]
      /\ holder' = [holder EXCEPT ![id] = s]
      /\ subId' = [subId EXCEPT ![s] = id]
      /\ received' = received /\ conn' = conn
  BY DEF ClientSubscribe
<1>2. /\ \A i \in Ids : view'[i] = IF i = id THEN "live" ELSE view[i]
      /\ \A i \in Ids : holder'[i] = IF i = id THEN s ELSE holder[i]
      /\ \A u \in Subs : subId'[u] = IF u = s THEN id ELSE subId[u]
      /\ \A u \in Subs : subId[u] # GlobalId => subId[u] \in Ids
      /\ id # GlobalId
  BY <1>1, ConstantsAssumption DEF TypeOK
<1>3. \A u \in Subs : u # s /\ subId[u] = id => Ended(u)
  BY <1>1, <1>2 DEF Ended, IInv, HolderInv
<1>4. \A u \in Subs : u # s => (Ended(u)' <=> Ended(u))
  <2> SUFFICES ASSUME NEW u \in Subs, u # s PROVE Ended(u)' <=> Ended(u)
    OBVIOUS
  <2>1. CASE subId[u] = id
    BY <2>1, <1>2, <1>3 DEF Ended
  <2>2. CASE subId[u] # id
    BY <2>2, <1>2 DEF Ended
  <2>3. QED
    BY <2>1, <2>2
<1>5. \A u \in Subs : u # s => Phase'[u] = Phase[u]
  <2> SUFFICES ASSUME NEW u \in Subs, u # s PROVE Phase'[u] = Phase[u]
    OBVIOUS
  <2>1. CASE Ended(u)
    BY <2>1, <1>4 DEF Phase
  <2>2. CASE ~Ended(u)
    <3>1. subId[u] # id /\ subId'[u] = subId[u] /\ ~Ended(u)'
      BY <2>2, <1>2, <1>3, <1>4
    <3>2. subId[u] # GlobalId => view'[subId'[u]] = view[subId[u]]
      BY <3>1, <1>2
    <3>3. QED
      BY <2>2, <3>1, <3>2, <1>1 DEF Phase
  <2>3. QED
    BY <2>1, <2>2
<1>6. ~Ended(s) /\ ~Ended(s)'
  BY <1>1, <1>2 DEF Ended
<1>7. CASE conn = "down"
  <2>1. Phase'[s] = Phase[s]
    BY <1>1, <1>6, <1>7 DEF Phase
  <2>2. Phase' = Phase
    BY <2>1, <1>5 DEF Phase
  <2>3. QED
    BY <2>2, <1>1 DEF Abs!absVars
<1>8. CASE conn # "down"
  <2>1. Phase[s] = "unsent"
    BY <1>1, <1>6, <1>8 DEF Phase
  <2>2. Phase'[s] = "open"
    <3>1. subId'[s] # GlobalId /\ view'[subId'[s]] # "cancelled"
      BY <1>2
    <3>2. QED
      BY <3>1, <1>1, <1>6, <1>8 DEF Phase
  <2>3. Abs!Open(s)
    BY <2>1, <2>2, <1>1, <1>5, PhaseExcept DEF Abs!Open
  <2>4. QED
    BY <2>3 DEF Abs!AbsNext
<1>9. QED
  BY <1>7, <1>8

LEMMA RefinesClientUnsubscribe ==
    ASSUME TypeOK, IInv, NEW id \in Ids, ClientUnsubscribe(id)
    PROVE  [Abs!AbsNext]_(Abs!absVars)
<1>1. /\ view[id] \in {"live", "errored"}
      /\ view' = [view EXCEPT ![id] = "cancelled"]
      /\ UNCHANGED <<holder, subId, received, conn>>
  BY DEF ClientUnsubscribe, taskVars
<1>2. /\ \A i \in Ids : view'[i] = IF i = id THEN "cancelled" ELSE view[i]
      /\ \A u \in Subs : subId[u] # GlobalId => subId[u] \in Ids
      /\ id # GlobalId
  BY <1>1, ConstantsAssumption DEF TypeOK
<1>3. PICK s \in Subs : s = holder[id] /\ subId[s] = id
  BY <1>1 DEF IInv, HolderInv, TypeOK
<1>4. \A u \in Subs : Ended(u)' <=> Ended(u)
  BY <1>1, <1>2 DEF Ended
<1>5. \A u \in Subs : u # s /\ subId[u] = id => Ended(u)
  BY <1>2, <1>3 DEF Ended
<1>6. \A u \in Subs : u # s => Phase'[u] = Phase[u]
  <2> SUFFICES ASSUME NEW u \in Subs, u # s PROVE Phase'[u] = Phase[u]
    OBVIOUS
  <2>1. CASE Ended(u)
    BY <2>1, <1>4 DEF Phase
  <2>2. CASE ~Ended(u)
    <3>1. subId[u] # id
      BY <2>2, <1>5
    <3>2. subId[u] # GlobalId => view'[subId[u]] = view[subId[u]]
      BY <3>1, <1>2
    <3>3. QED
      BY <2>2, <3>2, <1>1, <1>4 DEF Phase
  <2>3. QED
    BY <2>1, <2>2
<1>7. ~Ended(s)
  BY <1>1, <1>3 DEF Ended
<1>8. CASE conn = "down"
  <2>1. Phase' = Phase
    BY <1>1, <1>4, <1>6, <1>7, <1>8 DEF Phase
  <2>2. QED
    BY <2>1, <1>1 DEF Abs!absVars
<1>9. CASE conn # "down"
  <2>1. Phase[s] = "open" /\ Phase'[s] = "closing"
    BY <1>1, <1>2, <1>3, <1>4, <1>7, <1>9 DEF Phase
  <2>2. Abs!Cancel(s)
    BY <2>1, <1>1, <1>6, PhaseExcept DEF Abs!Cancel
  <2>3. QED
    BY <2>2 DEF Abs!AbsNext
<1>10. QED
  BY <1>8, <1>9

LEMMA RefinesDeliver ==
    ASSUME TypeOK, IInv, WriterDelivers
    PROVE  [Abs!AbsNext]_(Abs!absVars)
<1>1. /\ conn = "up" /\ queue # <<>> /\ ClientReceives(Head(queue))
      /\ UNCHANGED <<holder, subId, conn>>
      /\ Head(queue) = queue[1] /\ 1 \in 1..Len(queue)
      /\ queue[1] \in Frames
  BY WriterTakes, QueueElements DEF WriterDelivers, taskVars
<1>2. CASE queue[1].id = GlobalId
  BY <1>1, <1>2, Unobserved DEF ClientReceives
<1>3. CASE queue[1].id # GlobalId
  <2>1. PICK s \in Subs, id \in Ids : s = queue[1].sub /\ id = queue[1].id
    BY <1>1, <1>3 DEF Frames, GlobalError
  <2>2. subId[s] = id /\ holder[id] = s /\ view[id] # "ended" /\ id # GlobalId
    BY <1>1, <2>1, ConstantsAssumption DEF IInv, QueueInv, IsFrameOf, Current
  <2>3. /\ received' = [received EXCEPT ![s] = @ + 1]
        /\ view' = [view EXCEPT ![id] =
                        IF queue[1].kind = "end" THEN "ended"
                        ELSE IF queue[1].kind = "error" /\ @ = "live" THEN "errored"
                        ELSE @]
    BY <1>1, <1>3, <2>1, <2>2 DEF ClientReceives
  <2>4. /\ \A i \in Ids : i # id => view'[i] = view[i]
        /\ view'[id] = IF queue[1].kind = "end" THEN "ended"
                       ELSE IF queue[1].kind = "error" /\ view[id] = "live" THEN "errored"
                       ELSE view[id]
        /\ \A u \in Subs : subId[u] # GlobalId => subId[u] \in Ids
    BY <2>3 DEF TypeOK
  <2>5. \A u \in Subs : u # s => Phase'[u] = Phase[u]
    <3> SUFFICES ASSUME NEW u \in Subs, u # s PROVE Phase'[u] = Phase[u]
      OBVIOUS
    <3>1. CASE subId[u] = id
      <4>1. Ended(u) /\ Ended(u)'
        BY <3>1, <1>1, <2>2 DEF Ended
      <4>2. QED
        BY <4>1 DEF Phase
    <3>2. CASE subId[u] # id
      <4>1. subId[u] # GlobalId => view'[subId[u]] = view[subId[u]]
        BY <3>2, <2>4
      <4>2. Ended(u)' <=> Ended(u)
        BY <4>1, <1>1 DEF Ended
      <4>3. QED
        BY <4>1, <4>2, <1>1 DEF Phase
    <3>3. QED
      BY <3>1, <3>2
  <2>6. ~Ended(s) /\ Phase[s] \in {"open", "closing"}
    BY <1>1, <2>2 DEF Ended, Phase
  <2>7. CASE queue[1].kind = "end"
    <3>1. Phase'[s] = "ended"
      BY <2>7, <2>2, <2>4, <1>1 DEF Phase, Ended
    <3>2. Abs!End(s)
      BY <3>1, <2>3, <2>5, <2>6, PhaseExcept DEF Abs!End
    <3>3. QED
      BY <3>2 DEF Abs!AbsNext
  <2>8. CASE queue[1].kind # "end"
    <3>1. view'[id] # "ended" /\ (view'[id] = "cancelled" <=> view[id] = "cancelled")
      BY <2>8, <2>2, <2>4
    <3>2. ~Ended(s)'
      BY <3>1, <2>2, <1>1 DEF Ended
    <3>3. Phase'[s] = Phase[s]
      BY <3>1, <3>2, <2>2, <2>6, <1>1 DEF Phase
    <3>4. Phase' = Phase
      BY <3>3, <2>5 DEF Phase
    <3>5. Abs!Frame(s)
      BY <3>4, <2>3, <2>6 DEF Abs!Frame
    <3>6. QED
      BY <3>5 DEF Abs!AbsNext
  <2>9. QED
    BY <2>7, <2>8
<1>4. QED
  BY <1>2, <1>3

LEMMA RefinesNext ==
    ReuseAfter = {"ended"} /\ TypeOK /\ IInv /\ [Next]_vars => [Abs!AbsNext]_(Abs!absVars)
<1> SUFFICES ASSUME ReuseAfter = {"ended"}, TypeOK, IInv, [Next]_vars
             PROVE  [Abs!AbsNext]_(Abs!absVars)
  OBVIOUS
<1> USE DEF clientVars, readerVars, taskVars, writerVars
<1>1. CASE ClientStep
  <2>1. ASSUME NEW type \in {"garbage", "ignored"}, ClientNoise(type)
        PROVE  UNCHANGED Abs!absVars
    BY <2>1, Unobserved DEF ClientNoise
  <2>2. CASE ClientClose
    BY <2>2, Unobserved DEF ClientClose
  <2>3. CASE PeerDrop
    BY <2>3, RefinesDown DEF PeerDrop, Abs!AbsNext
  <2>4. QED
    BY <1>1, <2>1, <2>2, <2>3, RefinesClientSubscribe, RefinesClientUnsubscribe DEF ClientStep
<1>2. CASE ReaderStep
  <2>1. CASE ReaderClose
    BY <2>1, RefinesDown DEF ReaderClose, Abs!AbsNext
  <2>2. CASE ~ReaderClose
    <3>1. UNCHANGED <<view, holder, subId, conn, received>>
      BY <1>2, <2>2 DEF ReaderStep, ReaderSubscribe, ReaderReject, ReaderRejectEnd,
         ReaderUnsubscribe, ReaderDecodeError, ReaderIgnore, ReaderEof, Drain, ReaderDone
    <3>2. QED
      BY <3>1, Unobserved
  <2>3. QED
    BY <2>1, <2>2
<1>3. ASSUME NEW s \in Subs, TaskStep(s) \/ StreamStep(s)
      PROVE  UNCHANGED Abs!absVars
  <2>1. UNCHANGED <<view, holder, subId, conn, received>>
    BY <1>3 DEF TaskStep, StreamStep, TaskYields, TaskStreamEnds, TaskPanics, TaskSeesAbort,
       TaskSends, TaskSendsEnd
  <2>2. QED
    BY <2>1, Unobserved
<1>4. CASE WriterLoses \/ WriterFails \/ WriterCancelled
  BY <1>4, Unobserved DEF WriterLoses, WriterFails, WriterCancelled
<1>5. CASE Finished \/ UNCHANGED vars
  BY <1>5, Unobserved DEF Finished, vars
<1>6. QED
  BY <1>1, <1>2, <1>3, <1>4, <1>5, RefinesDeliver DEF Next, WriterStep

\* Seen through the client's bookkeeping, a socket is a set of the abstract
\* subscriptions: each opens once, hands over frames only while it is open
\* or closing, and is over once, for any number of ids and subscriptions.
THEOREM RefinesSubscription == ReuseAfter = {"ended"} => (Spec => ImplementsSubscription)
<1>1. SUFFICES ASSUME ReuseAfter = {"ended"} PROVE Spec => ImplementsSubscription
  OBVIOUS
<1>2. TypeOK /\ IInv /\ [Next]_vars => [Abs!AbsNext]_(Abs!absVars)
  BY <1>1, RefinesNext
<1>3. QED
  BY <1>1, <1>2, RefinesInit, TypeCorrect, Invariant, PTL
     DEF Spec, ImplementsSubscription, Abs!AbsSafety
=============================================================================
