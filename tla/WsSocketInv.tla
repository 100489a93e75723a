---------------------------- MODULE WsSocketInv ----------------------------
(***************************************************************************)
(* The inductive invariant of WsSocket for a client that uses an id again  *)
(* only after it has seen its End.  TLC checks it on the instances of      *)
(* MCWsSocket; WsSocketProofs proves it inductive for all of them.         *)
(***************************************************************************)
EXTENDS WsSocket

\* s is the subscription the client uses its id for, and is not over.
Current(s) ==
    /\ subId[s] # GlobalId
    /\ holder[subId[s]] = s
    /\ view[subId[s]] # "ended"

\* Some code still acts for s: its driver task, or the reader's rejection.
Driven(s) == task[s] \in Live \cup {"ending"} \/ rejecting = s

\* The client's bookkeeping of ids is consistent.
HolderInv ==
    /\ \A id \in Ids :
        /\ holder[id] # None => subId[holder[id]] = id
        /\ holder[id] = None => view[id] = "idle"
    /\ \A s \in Subs :
        /\ subId[s] = GlobalId => task[s] = "none" /\ sent[s] = 0
        /\ subId[s] # GlobalId => view[subId[s]] # "idle"

\* The teardown goes in one direction.
ConnInv ==
    /\ reader # "reading" => conn = "down" /\ rejecting = None
    /\ writerAborted => reader = "done"
    /\ writer = "stopped" => conn = "down"
    /\ reader = "done" => \A id \in Ids : active[id] = None

\* A Subscribe the reader has not taken has had no effect yet and is the
\* only one of its subscription.
IsSubscribe(i) == inbox[i].type = "subscribe"

InboxInv ==
    \A i \in 1..Len(inbox) : IsSubscribe(i) =>
        /\ subId[inbox[i].sub] = inbox[i].id
        /\ Current(inbox[i].sub)
        /\ task[inbox[i].sub] = "none"
        /\ sent[inbox[i].sub] = 0
        /\ rejecting # inbox[i].sub
        /\ \A j \in 1..Len(inbox) :
            j # i /\ IsSubscribe(j) => inbox[j].sub # inbox[i].sub

\* An unsubscribe the reader has not taken is for the holder of its id, or
\* a Subscribe that gives the id to another holder is behind it.
UnsubInv ==
    \A i \in 1..Len(inbox) : inbox[i].type = "unsubscribe" =>
        \/ view[inbox[i].id] \in {"cancelled", "ended"}
        \/ \E j \in (i + 1)..Len(inbox) :
            IsSubscribe(j) /\ inbox[j].id = inbox[i].id

\* Only current subscriptions are driven.
TaskInv ==
    \A s \in Subs :
        /\ Driven(s) => Current(s)
        /\ rejecting = s => task[s] = "none"

\* Only current subscriptions have frames under way, numbered up to sent,
\* and an End is the last of them.
IsFrameOf(i, s) == queue[i].sub = s

QueueInv ==
    \A i \in 1..Len(queue) : \A s \in Subs : IsFrameOf(i, s) =>
        /\ subId[s] = queue[i].id
        /\ Current(s)
        /\ queue[i].n \in 1..sent[s]
        /\ queue[i].kind = "end" =>
            /\ ~Driven(s)
            /\ \A j \in (i + 1)..Len(queue) : ~IsFrameOf(j, s)

\* While the connection lasts, the frames of s in the queue are, in order,
\* those the client has not received.
OrderInv ==
    conn = "up" => \A s \in Subs :
        /\ received[s] <= sent[s]
        /\ \A i \in 1..Len(queue) : IsFrameOf(i, s) =>
            /\ received[s] < queue[i].n
            /\ \A j \in (i + 1)..Len(queue) :
                IsFrameOf(j, s) => queue[i].n < queue[j].n
        /\ \A n \in (received[s] + 1)..sent[s] :
            \E i \in 1..Len(queue) : IsFrameOf(i, s) /\ queue[i].n = n

\* The active map holds the handle of every task that can still be aborted.
ActiveInv ==
    /\ \A id \in Ids : active[id] # None =>
        /\ subId[active[id]] = id
        /\ task[active[id]] # "none"
    /\ \A s \in Subs :
        task[s] \in Live /\ s \notin aborted => active[subId[s]] = s

AbortInv ==
    \A s \in aborted :
        /\ subId[s] # GlobalId
        /\ Current(s) => view[subId[s]] = "cancelled" \/ reader # "reading"

IInv ==
    /\ HolderInv
    /\ ConnInv
    /\ InboxInv
    /\ UnsubInv
    /\ TaskInv
    /\ QueueInv
    /\ OrderInv
    /\ ActiveInv
    /\ AbortInv
=============================================================================
