--------------------------- MODULE Subscriptions ---------------------------
(***************************************************************************)
(* One websocket connection (frontend/rpc_proxy_ws.rs, app/ws.rs) and the  *)
(* funnel of pending transactions that feeds its subscriptions             *)
(* (rpcs/transactions.rs).                                                 *)
(*                                                                         *)
(* A reader task spawns one task per message of the client; a writer task  *)
(* sends what arrives on the response channel; each eth_subscribe spawns a *)
(* task that copies heads (a watch channel: only the last value) or        *)
(* transactions (a broadcast channel: a bounded ring, and an error for a   *)
(* receiver that lags) to the response channel.  All of them run           *)
(* concurrently, and none is joined.                                       *)
(***************************************************************************)
EXTENDS Integers, Sequences, FiniteSets, FiniteSetsExt

CONSTANTS
    Scripts,        \* bound: the messages the client sends, in order, how many
                    \* heads there are, and the pending transactions that
                    \* servers announce, as pairs of a server and its transaction
    Capacity        \* 256: what the broadcast channel keeps

MaxLen == Max({Len(s.messages) : s \in Scripts})
MaxHeads == Max({s.heads : s \in Scripts})
Announcements == UNION {s.announced : s \in Scripts}
Payloads == 1..MaxLen
Subs == 1..MaxLen

ASSUME SubscriptionsAssumption ==
    /\ Capacity \in Nat \ {0}
    /\ \A s \in Scripts : s.messages # <<>> /\ s.heads \in Nat

VARIABLES
    script,         \* what happens to this connection
    socket,         \* is the client still there?
    reader, writer, \* the tasks read_web3_socket and write_web3_socket
    closing,        \* was close_sender used?
    handler,        \* per message: the spawned task that handles it
    subscription_count,
    subscriptions,  \* the keys of the map of abort handles
    sub,            \* per subscription id: its task
    queue,          \* the response channel
    delivered,      \* what the client received, in order
    head,           \* watch_consensus_head
    query,          \* per announcement: process_incoming_tx_id
    txlog           \* all that was sent to pending_tx_sender

tasks == <<reader, writer, closing>>
session == <<handler, subscription_count, subscriptions>>
feeds == <<head, query, txlog>>
vars == <<script, socket, tasks, session, sub, queue, delivered, feeds>>

\* What the client may send.
Heads == [kind |-> "newHeads", id |-> 0]
PendingTxs == [kind |-> "newPendingTransactions", id |-> 0]
Logs == [kind |-> "logs", id |-> 0]
Rpc == [kind |-> "rpc", id |-> 0]
Garbage == [kind |-> "garbage", id |-> 0]
Ping == [kind |-> "ping", id |-> 0]
Pong == [kind |-> "pong", id |-> 0]
Close == [kind |-> "close", id |-> 0]
\* eth_unsubscribe with the id as the params, with the id in an array, without.
Unsubscribe(id) == [kind |-> "unsubscribe", id |-> id]
UnsubscribeArray(id) == [kind |-> "unsubscribe_array", id |-> id]
UnsubscribeNothing == [kind |-> "unsubscribe_nothing", id |-> 0]

\* A message to the client: the response to payload i, or a notification.
Response(i, result, id) == [to |-> i, result |-> result, sub |-> id, value |-> 0]
Notification(id, x) == [to |-> 0, result |-> "notification", sub |-> id, value |-> x]

NoTask == [pc |-> "none", msg |-> Pong, reply |-> Response(0, "none", 0)]
NoSub == [pc |-> "none", kind |-> "none", aborted |-> FALSE, start |-> 0, seen |-> 0, value |-> 0, sent |-> <<>>]

Init ==
    /\ script \in Scripts
    /\ socket = "open" /\ reader = "running" /\ writer = "running" /\ closing = FALSE
    /\ handler = [i \in Payloads |-> NoTask]
    /\ subscription_count = 1 /\ subscriptions = {}
    /\ sub = [s \in Subs |-> NoSub]
    /\ queue = <<>> /\ delivered = <<>>
    /\ head = 0 /\ txlog = <<>>
    /\ query = [a \in Announcements |-> "new"]

-----------------------------------------------------------------------------
(* The socket: read_web3_socket and write_web3_socket.                     *)

Received == Cardinality({i \in Payloads : handler[i].pc # "none"})

\* ws_rx.next(): the message gets a task of its own.
Read ==
    /\ reader = "running" /\ socket = "open" /\ Received < Len(script.messages)
    /\ LET i == Received + 1
           m == script.messages[i] IN
       handler' = [handler EXCEPT ![i] = [NoTask EXCEPT !.msg = m,
            !.reply = Response(i, "pong", 0), !.pc =
            CASE m = Ping -> "respond" [] m = Pong -> "done" [] m = Close -> "close"
              [] OTHER -> "authorize"]]
    /\ UNCHANGED <<script, socket, tasks, subscription_count, subscriptions, sub, queue, delivered, feeds>>

Disconnect ==
    /\ socket = "open" /\ socket' = "closed"
    /\ UNCHANGED <<script, tasks, session, sub, queue, delivered, feeds>>

\* The stream ended, or a handler asked for it.  Nothing is aborted.
ReaderEnds ==
    /\ reader = "running" /\ (socket = "closed" \/ closing)
    /\ reader' = "ended"
    /\ UNCHANGED <<script, socket, writer, closing, session, sub, queue, delivered, feeds>>

\* The writer ends, and the channel with it, when a send fails.
Write ==
    /\ writer = "running" /\ queue # <<>>
    /\ \/ /\ socket = "open"
          /\ delivered' = Append(delivered, Head(queue)) /\ queue' = Tail(queue)
          /\ UNCHANGED writer
       \/ /\ socket = "closed"
          /\ writer' = "ended" /\ queue' = <<>>
          /\ UNCHANGED delivered
    /\ UNCHANGED <<script, socket, reader, closing, session, sub, feeds>>

\* ... or when the last sender is gone.
WriterEnds ==
    /\ writer = "running" /\ queue = <<>> /\ reader = "ended"
    /\ \A i \in Payloads : handler[i].pc \in {"none", "done"}
    /\ \A s \in Subs : sub[s].pc \in {"none", "ended"}
    /\ writer' = "ended"
    /\ UNCHANGED <<script, socket, reader, closing, session, sub, queue, delivered, feeds>>

-----------------------------------------------------------------------------
(* The task of one message: handle_socket_payload, then the response.      *)

Set(i, h) == handler' = [handler EXCEPT ![i] = h]
Answer(i, result, id) ==
    [handler[i] EXCEPT !.pc = "respond", !.reply = Response(i, result, id)]

\* check_again: the rate limit and a permit (Authorization), or an error.
Authorize(i) ==
    /\ handler[i].pc = "authorize"
    /\ \/ Set(i, [handler[i] EXCEPT !.pc = "handle"])
       \/ Set(i, Answer(i, "error", 0))
    /\ UNCHANGED <<script, socket, tasks, subscription_count, subscriptions, sub, queue, delivered, feeds>>

\* eth_subscribe: the id is used up even when the kind is not implemented; the
\* task runs before the abort handle is stored and before the response is sent.
Subscribe(i) ==
    LET id == subscription_count
        kind == handler[i].msg.kind IN
    /\ handler[i].pc = "handle" /\ kind \in {"newHeads", "newPendingTransactions", "logs"}
    /\ subscription_count' = id + 1
    /\ \/ kind = "logs" /\ Set(i, Answer(i, "error", 0)) /\ UNCHANGED sub
       \/ /\ kind # "logs"
          /\ LET start == IF kind = "newHeads" THEN 0 ELSE Len(txlog) IN
             sub' = [sub EXCEPT ![id] = [NoSub EXCEPT !.pc = "next", !.kind = kind,
                                                      !.start = start, !.seen = start]]
          /\ Set(i, [Answer(i, "id", id) EXCEPT !.pc = "insert"])
    /\ UNCHANGED <<script, socket, tasks, subscriptions, queue, delivered, feeds>>

\* subscriptions.insert, under its lock.
Insert(i) ==
    /\ handler[i].pc = "insert"
    /\ subscriptions' = subscriptions \cup {handler[i].reply.sub}
    /\ Set(i, [handler[i] EXCEPT !.pc = "respond"])
    /\ UNCHANGED <<script, socket, tasks, subscription_count, sub, queue, delivered, feeds>>

\* Mutant of Remove: the abort handle is removed, and not used.
RemoveWithoutAbort(i) ==
    LET m == handler[i].msg
        found == m.kind = "unsubscribe" /\ m.id \in subscriptions IN
    /\ handler[i].pc = "handle"
    /\ \/ /\ m.kind = "unsubscribe_nothing"
          /\ Set(i, [handler[i] EXCEPT !.pc = "done"])
          /\ UNCHANGED <<subscriptions, sub>>
       \/ /\ m.kind \in {"unsubscribe", "unsubscribe_array"} /\ ~found
          /\ Set(i, Answer(i, "false", m.id))
          /\ UNCHANGED <<subscriptions, sub>>
       \/ /\ found
          /\ subscriptions' = subscriptions \ {m.id}
          /\ UNCHANGED sub
          /\ Set(i, Answer(i, "true", m.id))
    /\ UNCHANGED <<script, socket, tasks, subscription_count, queue, delivered, feeds>>

\* The keys of the map are results as JSON text: the quoted id.  The params are
\* looked up as JSON text too, so only params that are the bare id match; those in
\* an array do not.  Without params the task panics, and there is no response.
Remove(i) ==
    LET m == handler[i].msg
        found == m.kind = "unsubscribe" /\ m.id \in subscriptions IN
    /\ handler[i].pc = "handle"
    /\ \/ /\ m.kind = "unsubscribe_nothing"
          /\ Set(i, [handler[i] EXCEPT !.pc = "done"])
          /\ UNCHANGED <<subscriptions, sub>>
       \/ /\ m.kind \in {"unsubscribe", "unsubscribe_array"} /\ ~found
          /\ Set(i, Answer(i, "false", m.id))
          /\ UNCHANGED <<subscriptions, sub>>
       \/ /\ found
          /\ subscriptions' = subscriptions \ {m.id}
          /\ sub' = [sub EXCEPT ![m.id].aborted = TRUE]
          /\ Set(i, Answer(i, "true", m.id))
    /\ UNCHANGED <<script, socket, tasks, subscription_count, queue, delivered, feeds>>

\* Any other method goes to proxy_web3_rpc (Requests); what is not a request, or
\* fails, becomes an error response.
Proxy(i) ==
    /\ handler[i].pc = "handle" /\ handler[i].msg \in {Rpc, Garbage}
    /\ \E result \in {"result", "error"} :
        /\ handler[i].msg = Garbage => result = "error"
        /\ Set(i, Answer(i, result, 0))
    /\ UNCHANGED <<script, socket, tasks, subscription_count, subscriptions, sub, queue, delivered, feeds>>

\* The response is queued; when the writer is gone the reader is told to stop.
Respond(i) ==
    /\ handler[i].pc = "respond"
    /\ Set(i, [handler[i] EXCEPT !.pc = "done"])
    /\ \/ writer = "running" /\ queue' = Append(queue, handler[i].reply) /\ UNCHANGED closing
       \/ writer = "ended" /\ closing' = TRUE /\ UNCHANGED queue
    /\ UNCHANGED <<script, socket, reader, writer, subscription_count, subscriptions, sub, delivered, feeds>>

CloseReceived(i) ==
    /\ handler[i].pc = "close"
    /\ closing' = TRUE
    /\ Set(i, [handler[i] EXCEPT !.pc = "done"])
    /\ UNCHANGED <<script, socket, reader, writer, subscription_count, subscriptions, sub, queue, delivered, feeds>>

HandlerStep(i) ==
    \/ Authorize(i) \/ Subscribe(i) \/ Insert(i) \/ Remove(i) \/ Proxy(i) \/ Respond(i)
    \/ CloseReceived(i)

-----------------------------------------------------------------------------
(* The task of one subscription.                                           *)

Idle(s) == sub[s].pc = "next" /\ UNCHANGED <<script, socket, tasks, session, queue, delivered, feeds>>

\* Abortable: an aborted stream has ended.
StreamAborted(s) ==
    /\ Idle(s) /\ sub[s].aborted
    /\ sub' = [sub EXCEPT ![s].pc = "ended"]

\* Mutant of NextHead: only the first head is sent.
NextHeadOnce(s) ==
    /\ Idle(s) /\ ~sub[s].aborted /\ sub[s].kind = "newHeads" /\ sub[s].seen = 0 /\ head > 0
    /\ sub' = [sub EXCEPT ![s].pc = "send", ![s].seen = head, ![s].value = head]

\* WatchStream: the last head, if it has not been seen.
NextHead(s) ==
    /\ Idle(s) /\ ~sub[s].aborted /\ sub[s].kind = "newHeads" /\ sub[s].seen < head
    /\ sub' = [sub EXCEPT ![s].pc = "send", ![s].seen = head, ![s].value = head]

\* BroadcastStream: the next transaction, unless it has been overwritten: then
\* the stream yields an error, which ends the loop.  A confirmed one is skipped.
TxOf(s, n) == [sub[s] EXCEPT !.seen = n, !.value = n,
                 !.pc = IF txlog[n].status = "confirmed" THEN "next" ELSE "send"]
\* Mutant of NextTx: a receiver that lags goes on with the oldest it can get.
NextTxSkipsLag(s) ==
    /\ Idle(s) /\ ~sub[s].aborted /\ sub[s].kind = "newPendingTransactions"
    /\ sub[s].seen < Len(txlog)
    /\ sub' = [sub EXCEPT ![s] =
         TxOf(s, IF Len(txlog) - @.seen > Capacity THEN Len(txlog) - Capacity + 1 ELSE @.seen + 1)]
NextTx(s) ==
    /\ Idle(s) /\ ~sub[s].aborted /\ sub[s].kind = "newPendingTransactions"
    /\ sub[s].seen < Len(txlog)
    /\ sub' = [sub EXCEPT ![s] =
         IF Len(txlog) - @.seen > Capacity THEN [@ EXCEPT !.pc = "ended"] ELSE TxOf(s, @.seen + 1)]

\* Mutant of Notify: a closed channel is ignored.
NotifyAnyway(s) ==
    /\ sub[s].pc = "send"
    /\ queue' = IF writer = "running" THEN Append(queue, Notification(s, sub[s].value)) ELSE queue
    /\ sub' = [sub EXCEPT ![s].pc = "next", ![s].sent = Append(@, sub[s].value)]
    /\ UNCHANGED <<script, socket, tasks, session, delivered, feeds>>

\* The notification is queued, or the task ends when the writer is gone.
Notify(s) ==
    /\ sub[s].pc = "send"
    /\ \/ /\ writer = "running"
          /\ queue' = Append(queue, Notification(s, sub[s].value))
          /\ sub' = [sub EXCEPT ![s].pc = "next", ![s].sent = Append(@, sub[s].value)]
       \/ /\ writer = "ended"
          /\ sub' = [sub EXCEPT ![s].pc = "ended"]
          /\ UNCHANGED queue
    /\ UNCHANGED <<script, socket, tasks, session, delivered, feeds>>

\* The subscriptions to full and to raw transactions are copies of this one that
\* send another form of the transaction.
SubStep(s) == StreamAborted(s) \/ NextHead(s) \/ NextTx(s) \/ Notify(s)

-----------------------------------------------------------------------------
(* The feeds.                                                              *)

NewHead ==
    /\ head < script.heads /\ head' = head + 1
    /\ UNCHANGED <<script, socket, tasks, session, sub, queue, delivered, query, txlog>>

\* receiver_count: the subscriptions to transactions that have not ended.
Receivers == {s \in Subs : sub[s].kind = "newPendingTransactions" /\ sub[s].pc # "ended"}

\* The funnel spawns process_incoming_tx_id for each id it is told.
\* pending_transaction_cache is consulted, but nothing is ever inserted into it.
Announce(a) ==
    /\ query[a] = "new" /\ a \in script.announced
    /\ query' = [query EXCEPT ![a] = IF Receivers = {} THEN "done" ELSE "asked"]
    /\ UNCHANGED <<script, socket, tasks, session, sub, queue, delivered, head, txlog>>

\* query_transaction_status: the server may not have it, or have it in a block.
QueryAnswered(a) ==
    /\ query[a] = "asked"
    /\ query' = [query EXCEPT ![a] = "done"]
    /\ \/ UNCHANGED txlog
       \/ \E status \in {"pending", "confirmed"} :
            /\ Receivers # {}
            /\ txlog' = Append(txlog, [tx |-> a[2], status |-> status])
    /\ UNCHANGED <<script, socket, tasks, session, sub, queue, delivered, head>>

Next ==
    \/ Read \/ Disconnect \/ ReaderEnds \/ Write \/ WriterEnds
    \/ \E i \in Payloads : HandlerStep(i)
    \/ \E s \in Subs : SubStep(s)
    \/ NewHead
    \/ \E a \in Announcements : Announce(a) \/ QueryAnswered(a)

Spec == Init /\ [][Next]_vars

\* The runtime polls every task that can proceed.  Nothing is asked of the
\* client, of the chain or of the servers.
FairSpec ==
    /\ Spec
    /\ WF_vars(Write) /\ WF_vars(\E i \in Payloads : HandlerStep(i))
    /\ \A s \in Subs : WF_vars(SubStep(s))

-----------------------------------------------------------------------------
(* Properties.                                                             *)

\* What the client has received or is about to.
Stream == delivered \o queue
About(s, m) == m.sub = s /\ m.result = "notification"

\* Types; a subscription has an id that was used up, and an abort handle only if
\* it exists.
TypeOK ==
    /\ socket \in {"open", "closed"} /\ closing \in BOOLEAN
    /\ {reader, writer} \subseteq {"running", "ended"}
    /\ \A i \in Payloads : handler[i].pc \in
        {"none", "authorize", "handle", "insert", "respond", "close", "done"}
    /\ \A s \in Subs : sub[s].pc \in {"none", "next", "send", "ended"}
    /\ \A s \in Subs : s \in subscriptions \/ sub[s].pc # "none" => s < subscription_count
    /\ \A s \in subscriptions : sub[s].pc # "none" /\ ~sub[s].aborted
    /\ head \in 0..MaxHeads

\* A newHeads subscription never repeats a head and never goes back, whatever
\* heads the watch channel skipped in between.
HeadsInOrder ==
    \A s \in Subs : sub[s].kind = "newHeads" =>
        LET heads == SelectSeq(Stream, LAMBDA m : About(s, m)) IN
        \A i \in 1..(Len(heads) - 1) : heads[i].value < heads[i + 1].value

\* Once eth_unsubscribe has answered true, at most one more notification of that
\* subscription follows: the one its task was already sending.
OneAfterUnsubscribe ==
    \A i \in DOMAIN Stream : Stream[i].result = "true" =>
        Cardinality({j \in DOMAIN Stream : j > i /\ About(Stream[i].sub, Stream[j])}) <= 1

\* A subscription to transactions has no gap: up to the transaction it is at, it
\* has sent each one of the channel that is not confirmed, in order.  One that
\* lagged has ended instead.
NoTxGap ==
    \A s \in Subs : sub[s].kind = "newPendingTransactions" =>
        \A n \in DOMAIN sub[s].sent :
            \A k \in 1..sub[s].sent[n] :
                (k > sub[s].start /\ txlog[k].status # "confirmed") =>
                    \E j \in 1..n : sub[s].sent[j] = k

\* Every message that wants a response has exactly one queued once its task is
\* done, as long as there is a writer; none has two.
OneResponse ==
    \A i \in Payloads :
        LET n == Cardinality({j \in DOMAIN Stream : Stream[j].to = i}) IN
        /\ n <= 1
        /\ (/\ handler[i].pc = "done" /\ writer = "running"
            /\ handler[i].msg \notin {Pong, Close, UnsubscribeNothing}) => n = 1

\* A client that stays gets the newest head, on each newHeads subscription it did
\* not end: a head that is skipped is followed by a later one.
NewestHeadArrives ==
    \A s \in Subs : \A h \in 1..MaxHeads :
        (sub[s].kind = "newHeads" /\ head >= h) ~>
            \/ socket = "closed" \/ sub[s].aborted
            \/ \E j \in DOMAIN delivered : About(s, delivered[j]) /\ delivered[j].value >= h

\* No subscription outlives its client for long, although nothing aborts it: the
\* first head after the client is gone ends the writer, the next one the task.
SubscriptionsEnd ==
    \A s \in Subs :
        LET unread == sub[s].kind = "newHeads" /\ sub[s].pc # "ended" /\ sub[s].seen < head IN
        /\ (socket = "closed" /\ unread) ~> (writer = "ended" \/ sub[s].pc = "ended")
        /\ (writer = "ended" /\ unread) ~> (sub[s].pc = "ended")

\* "dedupe transaction and send them to any listening clients": a subscription
\* does not send a transaction twice.
TransactionsDeduplicated ==
    \A s \in Subs : sub[s].kind = "newPendingTransactions" =>
        \A i, j \in DOMAIN sub[s].sent :
            txlog[sub[s].sent[i]].tx = txlog[sub[s].sent[j]].tx => i = j
=============================================================================
