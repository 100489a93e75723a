------------------------------ MODULE WsSocket ------------------------------
(***************************************************************************)
(* One upgraded WebSocket of crates/taut-rpc/src/ws.rs: the reader loop of *)
(* handle_socket, the writer task behind the unbounded mpsc, one driver    *)
(* task per subscription, and the peer at the other end of the socket.     *)
(*                                                                         *)
(* Every Subscribe message is a member of Subs, so the protocol id it      *)
(* carries can be used again by a later one.  The client is not part of    *)
(* the repository; it is modelled from the wire protocol, and ReuseAfter   *)
(* says in which states of an id it takes the id for a new subscription.   *)
(*                                                                         *)
(* The writer's recv and tx.send are one step, and the socket's buffer is  *)
(* the front of the queue: a frame leaves the queue when the client has    *)
(* it.  A writer that is cancelled between the two loses the frame, as it  *)
(* does here with the rest of the queue.                                   *)
(***************************************************************************)
EXTENDS Naturals, Sequences

CONSTANTS Ids,          \* the ids the client uses
          GlobalId,     \* id 0, "global / no subscription"
          Subs,         \* the Subscribe messages of one connection
          None,         \* no subscription
          ReuseAfter,   \* id states after which the client reuses the id
          Panicky,      \* the subscriptions whose stream may panic
          MaxFrames,    \* bound: frames one stream yields
          MaxNoise      \* bound: messages that are not for a subscription

ASSUME ConstantsAssumption ==
    /\ GlobalId \notin Ids
    /\ None \notin Subs
    /\ ReuseAfter \subseteq {"errored", "cancelled", "ended"}
    /\ Panicky \subseteq Subs
    /\ MaxFrames \in Nat
    /\ MaxNoise \in Nat

VARIABLES
    \* the client
    view,            \* view[id]: what the last frame or request made of id
    holder,          \* holder[id]: the subscription the client uses id for
    received,        \* received[s]: frames the client took for s's
    online,          \* the client may still send
    noise,           \* messages it sent that are not for a subscription
    \* the connection
    conn,            \* "up" or "down"
    inbox,           \* client messages the reader has not taken yet
    \* the reader loop
    reader,          \* "reading", "draining" the active map, or "done"
    rejecting,       \* the subscription it still owes an End, or None
    active,          \* active[id]: whose AbortHandle the map holds
    aborted,         \* subscriptions whose AbortHandle was triggered
    \* the driver tasks
    subId,           \* subId[s]: the id s was sent with
    task,            \* where the driver task of s is
    sent,            \* frames of s put on the mpsc
    \* the writer task
    queue,           \* the unbounded mpsc
    writer,          \* "running" or "stopped"
    writerAborted    \* writer_handle.abort() was called

clientVars == <<view, holder, received, online, noise>>
readerVars == <<reader, rejecting, active, aborted>>
taskVars   == <<subId, task, sent>>
writerVars == <<queue, writer, writerAborted>>
vars == <<clientVars, conn, inbox, readerVars, taskVars, writerVars>>

Views == {"idle", "live", "errored", "cancelled", "ended"}
Live  == {"polling", "data", "error"}    \* the task still drives its stream

\* Does the procedure named by a Subscribe have a Stream body?
Targets == {"stream", "other"}

ClientMessages ==
    [type : {"subscribe"}, id : Ids, sub : Subs, target : Targets]
        \cup [type : {"unsubscribe"}, id : Ids]
        \cup [type : {"garbage", "ignored", "close"}]

\* A frame knows its id; sub and n say, for the properties only, that it is
\* the n-th frame of subscription sub.
GlobalError == [id |-> GlobalId, sub |-> None, kind |-> "error", n |-> 0]
Frames ==
    [id : Ids \cup {GlobalId}, sub : Subs, kind : {"data", "error", "end"}, n : Nat]
        \cup {GlobalError}

TypeOK ==
    /\ view \in [Ids -> Views]
    /\ holder \in [Ids -> Subs \cup {None}]
    /\ received \in [Subs -> Nat]
    /\ online \in BOOLEAN
    /\ noise \in Nat
    /\ conn \in {"up", "down"}
    /\ inbox \in Seq(ClientMessages)
    /\ reader \in {"reading", "draining", "done"}
    /\ rejecting \in Subs \cup {None}
    /\ active \in [Ids -> Subs \cup {None}]
    /\ aborted \in SUBSET Subs
    /\ subId \in [Subs -> Ids \cup {GlobalId}]
    /\ task \in [Subs -> Live \cup {"none", "ending", "done"}]
    /\ sent \in [Subs -> Nat]
    /\ queue \in Seq(Frames)
    /\ writer \in {"running", "stopped"}
    /\ writerAborted \in BOOLEAN

Init ==
    /\ view = [id \in Ids |-> "idle"]
    /\ holder = [id \in Ids |-> None]
    /\ received = [s \in Subs |-> 0]
    /\ online = TRUE
    /\ noise = 0
    /\ conn = "up"
    /\ inbox = <<>>
    /\ reader = "reading"
    /\ rejecting = None
    /\ active = [id \in Ids |-> None]
    /\ aborted = {}
    /\ subId = [s \in Subs |-> GlobalId]
    /\ task = [s \in Subs |-> "none"]
    /\ sent = [s \in Subs |-> 0]
    /\ queue = <<>>
    /\ writer = "running"
    /\ writerAborted = FALSE

-----------------------------------------------------------------------------
(* The mpsc.  A send on a channel whose receiver is gone fails.            *)

\* Mutant: a task's frame overtakes those of others that are queued.
OvertakesOthers(s, kind) ==
    /\ sent' = [sent EXCEPT ![s] = @ + 1]
    /\ LET frame == [id |-> subId[s], sub |-> s, kind |-> kind, n |-> sent[s] + 1]
       IN  queue' = IF queue # <<>> /\ Head(queue).sub # s THEN <<frame>> \o queue
                    ELSE Append(queue, frame)

SendFrame(s, kind) ==
    IF writer = "stopped"
    THEN UNCHANGED <<queue, sent>>
    ELSE /\ sent' = [sent EXCEPT ![s] = @ + 1]
         /\ queue' = Append(queue, [id |-> subId[s], sub |-> s,
                                    kind |-> kind, n |-> sent[s] + 1])

SendGlobalError ==
    /\ queue' = IF writer = "stopped" THEN queue ELSE Append(queue, GlobalError)
    /\ UNCHANGED sent

-----------------------------------------------------------------------------
(* The client.                                                             *)

ClientSubscribe(s, id, target) ==
    /\ online
    /\ subId[s] = GlobalId
    /\ view[id] \in {"idle"} \cup ReuseAfter
    /\ view' = [view EXCEPT ![id] = "live"]
    /\ holder' = [holder EXCEPT ![id] = s]
    /\ subId' = [subId EXCEPT ![s] = id]
    /\ inbox' = Append(inbox, [type |-> "subscribe", id |-> id,
                               sub |-> s, target |-> target])
    /\ UNCHANGED <<received, online, noise, conn, readerVars, task, sent, writerVars>>

ClientUnsubscribe(id) ==
    /\ online
    /\ view[id] \in {"live", "errored"}
    /\ view' = [view EXCEPT ![id] = "cancelled"]
    /\ inbox' = Append(inbox, [type |-> "unsubscribe", id |-> id])
    /\ UNCHANGED <<holder, received, online, noise, conn, readerVars, taskVars, writerVars>>

\* Text that does not parse ("garbage"), or a message the server skips: a
\* binary frame, a ping, a server-to-client variant ("ignored").
ClientNoise(type) ==
    /\ online
    /\ noise < MaxNoise
    /\ noise' = noise + 1
    /\ inbox' = Append(inbox, [type |-> type])
    /\ UNCHANGED <<view, holder, received, online, conn, readerVars, taskVars, writerVars>>

ClientClose ==
    /\ online
    /\ online' = FALSE
    /\ inbox' = Append(inbox, [type |-> "close"])
    /\ UNCHANGED <<view, holder, received, noise, conn, readerVars, taskVars, writerVars>>

\* The peer, or the network under it, goes away without a Close frame.
PeerDrop ==
    /\ conn = "up"
    /\ conn' = "down"
    /\ online' = FALSE
    /\ UNCHANGED <<view, holder, received, noise, inbox, readerVars, taskVars, writerVars>>

\* The client attributes a frame to the subscription it uses the id for.
ClientReceives(f) ==
    IF f.id = GlobalId
    THEN UNCHANGED <<view, received>>
    ELSE /\ received' = [received EXCEPT ![holder[f.id]] = @ + 1]
         /\ view' = [view EXCEPT ![f.id] =
                        IF f.kind = "end" THEN "ended"
                        ELSE IF f.kind = "error" /\ @ = "live" THEN "errored"
                        ELSE @]

-----------------------------------------------------------------------------
(* The reader loop.                                                        *)

Reads(type) ==
    /\ reader = "reading"
    /\ rejecting = None
    /\ inbox # <<>>
    /\ Head(inbox).type = type
    /\ inbox' = Tail(inbox)

\* Mutant: the map keeps the handle an id already has, as entry().or_insert does.
KeepsFirstHandle ==
    /\ Reads("subscribe")
    /\ Head(inbox).target = "stream"
    /\ LET m == Head(inbox)
       IN  /\ active' = [active EXCEPT ![m.id] = IF @ = None THEN m.sub ELSE @]
           /\ task' = [task EXCEPT ![m.sub] = "polling"]
    /\ UNCHANGED <<clientVars, conn, reader, rejecting, aborted, subId, sent, writerVars>>

\* Insert the AbortHandle, dropping without a word the one the id had, and
\* spawn the driver task.
ReaderSubscribe ==
    /\ Reads("subscribe")
    /\ Head(inbox).target = "stream"
    /\ LET m == Head(inbox)
       IN  /\ active' = [active EXCEPT ![m.id] = m.sub]
           /\ task' = [task EXCEPT ![m.sub] = "polling"]
    /\ UNCHANGED <<clientVars, conn, reader, rejecting, aborted, subId, sent, writerVars>>

\* not_found or not_subscription: the error frame now, the End next.  The
\* two sends do not await, but other tasks run on other threads.
ReaderReject ==
    /\ Reads("subscribe")
    /\ Head(inbox).target = "other"
    /\ rejecting' = Head(inbox).sub
    /\ SendFrame(Head(inbox).sub, "error")
    /\ UNCHANGED <<clientVars, conn, reader, active, aborted, subId, task, writer, writerAborted>>

ReaderRejectEnd ==
    /\ rejecting # None
    /\ rejecting' = None
    /\ SendFrame(rejecting, "end")
    /\ UNCHANGED <<clientVars, conn, inbox, reader, active, aborted, subId, task,
                   writer, writerAborted>>

\* Mutant: the reader acknowledges an unsubscribe with an End of its own.
AcksUnsubscribe ==
    /\ Reads("unsubscribe")
    /\ LET id == Head(inbox).id
       IN  /\ active[id] # None
           /\ aborted' = aborted \cup {active[id]}
           /\ active' = [active EXCEPT ![id] = None]
           /\ SendFrame(active[id], "end")
    /\ UNCHANGED <<clientVars, conn, reader, rejecting, subId, task, writer, writerAborted>>

\* Mutant: one cancelled flag for an id in place of one handle for a task.
AbortsById ==
    /\ Reads("unsubscribe")
    /\ LET id == Head(inbox).id
       IN  /\ aborted' = aborted \cup {s \in Subs : subId[s] = id}
           /\ active' = [active EXCEPT ![id] = None]
    /\ UNCHANGED <<clientVars, conn, reader, rejecting, taskVars, writerVars>>

\* Mutant: an unsubscribe takes the id to be in the map.
UnwrapsHandle ==
    /\ Reads("unsubscribe")
    /\ LET id == Head(inbox).id
       IN  /\ aborted' = aborted \cup {active[id]}
           /\ active' = [active EXCEPT ![id] = None]
    /\ UNCHANGED <<clientVars, conn, reader, rejecting, taskVars, writerVars>>

ReaderUnsubscribe ==
    /\ Reads("unsubscribe")
    /\ LET id == Head(inbox).id
       IN  /\ aborted' = aborted \cup ({active[id]} \ {None})
           /\ active' = [active EXCEPT ![id] = None]
    /\ UNCHANGED <<clientVars, conn, reader, rejecting, taskVars, writerVars>>

ReaderDecodeError ==
    /\ Reads("garbage")
    /\ SendGlobalError
    /\ UNCHANGED <<clientVars, conn, readerVars, subId, task, writer, writerAborted>>

ReaderIgnore ==
    /\ Reads("ignored")
    /\ UNCHANGED <<clientVars, conn, readerVars, taskVars, writerVars>>

\* A Close frame ends the loop; from then on the socket refuses to send.
ReaderClose ==
    /\ Reads("close")
    /\ reader' = "draining"
    /\ conn' = "down"
    /\ UNCHANGED <<clientVars, rejecting, active, aborted, taskVars, writerVars>>

\* rx.next() yields None or an error: the loop ends even with messages unread.
ReaderEof ==
    /\ reader = "reading"
    /\ rejecting = None
    /\ conn = "down"
    /\ reader' = "draining"
    /\ UNCHANGED <<clientVars, conn, inbox, rejecting, active, aborted, taskVars, writerVars>>

\* Mutant: the handles are dropped, which aborts nothing.
ClearsActive(id) ==
    /\ reader = "draining"
    /\ active[id] # None
    /\ active' = [active EXCEPT ![id] = None]
    /\ UNCHANGED <<clientVars, conn, inbox, reader, rejecting, aborted, taskVars, writerVars>>

Drain(id) ==
    /\ reader = "draining"
    /\ active[id] # None
    /\ aborted' = aborted \cup {active[id]}
    /\ active' = [active EXCEPT ![id] = None]
    /\ UNCHANGED <<clientVars, conn, inbox, reader, rejecting, taskVars, writerVars>>

ReaderDone ==
    /\ reader = "draining"
    /\ \A id \in Ids : active[id] = None
    /\ reader' = "done"
    /\ writerAborted' = TRUE
    /\ UNCHANGED <<clientVars, conn, inbox, rejecting, active, aborted, taskVars, queue, writer>>

-----------------------------------------------------------------------------
(* The driver task of a subscription.                                      *)

\* The stream yields.  Abortable looked at the flag before it polled the
\* stream, so an abort that comes now does not recall the frame.
TaskYields(s, kind) ==
    /\ task[s] = "polling"
    /\ s \notin aborted
    /\ sent[s] < MaxFrames
    /\ task' = [task EXCEPT ![s] = kind]
    /\ UNCHANGED <<clientVars, conn, inbox, readerVars, subId, sent, writerVars>>

TaskStreamEnds(s) ==
    /\ task[s] = "polling"
    /\ s \notin aborted
    /\ task' = [task EXCEPT ![s] = "ending"]
    /\ UNCHANGED <<clientVars, conn, inbox, readerVars, subId, sent, writerVars>>

\* The stream's own code panics: tokio ends the task, and nothing else happens.
TaskPanics(s) ==
    /\ task[s] = "polling"
    /\ s \in Panicky \ aborted
    /\ task' = [task EXCEPT ![s] = "done"]
    /\ UNCHANGED <<clientVars, conn, inbox, readerVars, subId, sent, writerVars>>

\* Mutant: a cancelled task returns without an End.
AbortsSilently(s) ==
    /\ task[s] = "polling"
    /\ s \in aborted
    /\ task' = [task EXCEPT ![s] = "done"]
    /\ UNCHANGED <<clientVars, conn, inbox, readerVars, subId, sent, writerVars>>

TaskSeesAbort(s) ==
    /\ task[s] = "polling"
    /\ s \in aborted
    /\ task' = [task EXCEPT ![s] = "ending"]
    /\ UNCHANGED <<clientVars, conn, inbox, readerVars, subId, sent, writerVars>>

\* Forward the yielded frame; if the writer is gone, give up without an End.
TaskSends(s) ==
    /\ task[s] \in {"data", "error"}
    /\ SendFrame(s, task[s])
    /\ task' = [task EXCEPT ![s] = IF writer = "stopped" THEN "done" ELSE "polling"]
    /\ UNCHANGED <<clientVars, conn, inbox, readerVars, subId, writer, writerAborted>>

TaskSendsEnd(s) ==
    /\ task[s] = "ending"
    /\ SendFrame(s, "end")
    /\ task' = [task EXCEPT ![s] = "done"]
    /\ UNCHANGED <<clientVars, conn, inbox, readerVars, subId, writer, writerAborted>>

-----------------------------------------------------------------------------
(* The writer task.                                                        *)

WriterDelivers ==
    /\ writer = "running"
    /\ conn = "up"
    /\ queue # <<>>
    /\ queue' = Tail(queue)
    /\ ClientReceives(Head(queue))
    /\ UNCHANGED <<holder, online, noise, conn, inbox, readerVars, taskVars,
                   writer, writerAborted>>

\* On a dead socket a send is buffered and lost, or fails and ends the loop.
WriterLoses ==
    /\ writer = "running"
    /\ conn = "down"
    /\ queue # <<>>
    /\ queue' = Tail(queue)
    /\ UNCHANGED <<clientVars, conn, inbox, readerVars, taskVars, writer, writerAborted>>

WriterFails ==
    /\ writer = "running"
    /\ conn = "down"
    /\ queue # <<>>
    /\ writer' = "stopped"
    /\ queue' = <<>>
    /\ UNCHANGED <<clientVars, conn, inbox, readerVars, taskVars, writerAborted>>

WriterCancelled ==
    /\ writer = "running"
    /\ writerAborted
    /\ writer' = "stopped"
    /\ queue' = <<>>
    /\ UNCHANGED <<clientVars, conn, inbox, readerVars, taskVars, writerAborted>>

-----------------------------------------------------------------------------
\* The whole socket is torn down; anything short of this must be able to move.
TornDown ==
    /\ reader = "done"
    /\ writer = "stopped"
    /\ \A s \in Subs : task[s] \in {"none", "done"}

Finished == TornDown /\ UNCHANGED vars

ClientStep ==
    \/ \E s \in Subs, id \in Ids, t \in Targets : ClientSubscribe(s, id, t)
    \/ \E id \in Ids : ClientUnsubscribe(id)
    \/ \E type \in {"garbage", "ignored"} : ClientNoise(type)
    \/ ClientClose
    \/ PeerDrop

ReaderStep ==
    \/ ReaderSubscribe
    \/ ReaderReject
    \/ ReaderRejectEnd
    \/ ReaderUnsubscribe
    \/ ReaderDecodeError
    \/ ReaderIgnore
    \/ ReaderClose
    \/ ReaderEof
    \/ \E id \in Ids : Drain(id)
    \/ ReaderDone

\* What a driver task does on its own, as opposed to what its stream does.
TaskStep(s) == TaskSeesAbort(s) \/ TaskSends(s) \/ TaskSendsEnd(s)

StreamStep(s) ==
    \/ \E kind \in {"data", "error"} : TaskYields(s, kind)
    \/ TaskStreamEnds(s)
    \/ TaskPanics(s)

WriterStep == WriterDelivers \/ WriterLoses \/ WriterFails \/ WriterCancelled

Next ==
    \/ ClientStep
    \/ ReaderStep
    \/ \E s \in Subs : TaskStep(s) \/ StreamStep(s)
    \/ WriterStep
    \/ Finished

Spec == Init /\ [][Next]_vars

\* The runtime runs every task that can move, and a connected peer keeps
\* reading.  Nothing is assumed of the client's requests nor of the streams.
Fairness ==
    /\ WF_vars(ReaderStep)
    /\ \A s \in Subs : WF_vars(TaskStep(s))
    /\ WF_vars(WriterStep)

FairSpec == Spec /\ Fairness

-----------------------------------------------------------------------------
(* Properties.                                                             *)

\* The client has seen the End of s, or has given its id to another.
Ended(s) ==
    /\ subId[s] # GlobalId
    /\ holder[subId[s]] = s => view[subId[s]] = "ended"

\* No frame on its way to the client carries an id that the client by then
\* uses for another subscription: the server tells subscriptions apart by
\* nothing but the client's id.
NoCrossTalk ==
    conn = "up" =>
        \A i \in DOMAIN queue :
            queue[i].id # GlobalId => holder[queue[i].id] = queue[i].sub

\* Each subscription's frames reach the client in the order its stream gave
\* them, none missing and none twice, whatever the other tasks send between.
LosslessInOrder ==
    conn = "up" /\ queue # <<>> /\ Head(queue).id # GlobalId =>
        Head(queue).n = received[Head(queue).sub] + 1

\* Nothing follows an End: not in the queue, not from the task, and not once
\* the client has seen it.  An unsubscribe that meets the stream's own end,
\* or a Subscribe that is turned away, yields one End and not two.
NothingAfterEnd ==
    \A i \in DOMAIN queue : queue[i].kind = "end" =>
        /\ task[queue[i].sub] \in {"none", "done"}
        /\ ~Ended(queue[i].sub)
        /\ \A j \in DOMAIN queue : j > i => queue[j].sub # queue[i].sub

\* "On socket disconnect every active task is aborted" (ws.rs, Lifecycle 4):
\* a task the reader leaves behind still driving its stream has been aborted.
DisconnectAborts ==
    reader = "done" =>
        \A s \in Subs : task[s] \in Live => s \in aborted

\* A running subscription is aborted only when the client unsubscribed it or
\* the socket is going away, never by a request meant for an earlier holder
\* of its id.
AbortIsRequested ==
    \A s \in aborted :
        \/ Ended(s)
        \/ view[subId[s]] = "cancelled"
        \/ reader # "reading"

\* Once the socket is gone the reader, the writer and every task stop, also
\* the tasks whose stream never yields again.
DisconnectReleases == conn = "down" ~> TornDown

\* A subscription that was turned away, has run out of items, was aborted or
\* has no driver task any more is closed at the client, if the connection
\* lasts: each task terminates "with End { id }" (ws.rs, Lifecycle 2).
EndArrives ==
    \A s \in Subs :
        (rejecting = s \/ task[s] \in {"ending", "done"} \/ s \in aborted)
            ~> (Ended(s) \/ conn = "down")

\* The subscriptions of one socket are the abstract ones of Subscription.
Phase ==
    [s \in Subs |->
        IF Ended(s) THEN "ended"
        ELSE IF conn = "down" THEN "lost"
        ELSE IF subId[s] = GlobalId THEN "unsent"
        ELSE IF view[subId[s]] = "cancelled" THEN "closing"
        ELSE "open"]

Abs == INSTANCE Subscription WITH phase <- Phase, count <- received

\* The socket implements the promise of Subscription: a client sees every
\* subscription open once, hand over frames, and be over once, whether its
\* stream ends, it is unsubscribed, refused, or cut off.
ImplementsSubscription == Abs!AbsSafety

\* A subscription the client has unsubscribed is closed, also one whose
\* stream is always ready with another frame.
UnsubscribeEnds == \A s \in Subs : Abs!ClosingEnds(s)
=============================================================================
