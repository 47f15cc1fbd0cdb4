------------------------------ MODULE EventBus ------------------------------
(***************************************************************************)
(* The in-process event bus (orchestrator/core/bus.py) and the websocket    *)
(* handler that drains it (orchestrator/api/ws.py).  The audit log publishes *)
(* every entry while it holds its own lock, from any thread; the entry is   *)
(* put into the subscribers' queues by callbacks of the event loop, which   *)
(* runs them in the order they were scheduled.                              *)
(***************************************************************************)
EXTENDS Naturals, Sequences, FiniteSets

CONSTANTS
    Connections,  \* websocket connections, each with the queue it subscribes
    QueueSize,    \* EventBus._queue_size
    MaxPublished  \* bound on the audit events

ASSUME BusBounds == QueueSize \in Nat \ {0} /\ MaxPublished \in Nat

VARIABLES
    attached,     \* EventBus._loop is set
    subscribers,  \* EventBus._subscribers
    published,    \* the number of events append has published
    callbacks,    \* call_soon_threadsafe(_safe_put, q, event), oldest first
    queue,        \* the asyncio.Queue of each connection
    conn,         \* where the websocket handler of each connection is
    seen,         \* events sent to each connection
    start,        \* history: the events published before it subscribed
    dropped       \* history: connections whose queue was full once

busVars == <<attached, subscribers, published, callbacks, queue, conn, seen, start, dropped>>

ConnState == {"new", "hello", "open", "closed"}

-----------------------------------------------------------------------------
(* The bus. *)

\* attach_loop, when the application's lifespan begins.
AttachLoop ==
    /\ ~attached
    /\ attached' = TRUE
    /\ UNCHANGED <<subscribers, published, callbacks, queue, conn, seen, start, dropped>>

\* The calls that hand event e to the queues of subs, in some order.
Schedules(subs, e) ==
    {s \in [1 .. Cardinality(subs) -> [to : subs, event : {e}]] :
        \A i, j \in DOMAIN s : s[i].to = s[j].to => i = j}

\* A mutation of Publish: the newest event jumps the queue of callbacks.
PublishFirst ==
    /\ published < MaxPublished
    /\ published' = published + 1
    /\ IF attached
       THEN \E s \in Schedules(subscribers, published + 1) : callbacks' = s \o callbacks
       ELSE UNCHANGED callbacks
    /\ UNCHANGED <<attached, subscribers, queue, conn, seen, start, dropped>>

\* publish, called by append: nothing is scheduled without a loop.
Publish ==
    /\ published < MaxPublished
    /\ published' = published + 1
    /\ IF attached
       THEN \E s \in Schedules(subscribers, published + 1) : callbacks' = callbacks \o s
       ELSE UNCHANGED callbacks
    /\ UNCHANGED <<attached, subscribers, queue, conn, seen, start, dropped>>

\* A mutation of SafePut: the queue has no bound.
SafePutUnbounded ==
    /\ callbacks # << >>
    /\ LET c == Head(callbacks)
       IN  queue' = [queue EXCEPT ![c.to] = Append(@, c.event)]
    /\ callbacks' = Tail(callbacks)
    /\ UNCHANGED <<attached, subscribers, published, conn, seen, start, dropped>>

\* Another: a full queue makes room by forgetting its oldest.
SafePutEvicting ==
    /\ callbacks # << >>
    /\ LET c == Head(callbacks)
       IN  queue' = [queue EXCEPT ![c.to] =
                       Append(IF Len(@) < QueueSize THEN @ ELSE Tail(@), c.event)]
    /\ callbacks' = Tail(callbacks)
    /\ UNCHANGED <<attached, subscribers, published, conn, seen, start, dropped>>

\* _safe_put: the oldest callback runs; a full queue drops the event.
SafePut ==
    /\ callbacks # << >>
    /\ LET c == Head(callbacks)
       IN  IF Len(queue[c.to]) < QueueSize
           THEN queue' = [queue EXCEPT ![c.to] = Append(@, c.event)] /\ UNCHANGED dropped
           ELSE dropped' = dropped \cup {c.to} /\ UNCHANGED queue
    /\ callbacks' = Tail(callbacks)
    /\ UNCHANGED <<attached, subscribers, published, conn, seen, start>>

-----------------------------------------------------------------------------
(* The websocket handler. *)

\* A mutation of Connect: the queue is created but not put on the list.
ConnectUnlisted(w) ==
    /\ attached /\ conn[w] = "new"
    /\ conn' = [conn EXCEPT ![w] = "hello"]
    /\ start' = [start EXCEPT ![w] = published]
    /\ UNCHANGED <<attached, subscribers, published, callbacks, queue, seen, dropped>>

\* The connection is accepted and subscribed.
Connect(w) ==
    /\ attached /\ conn[w] = "new"
    /\ conn' = [conn EXCEPT ![w] = "hello"]
    /\ subscribers' = subscribers \cup {w}
    /\ start' = [start EXCEPT ![w] = published]
    /\ UNCHANGED <<attached, published, callbacks, queue, seen, dropped>>

\* ws.hello is sent before the try block: when that fails the handler ends
\* and its queue stays subscribed.
Hello(w) ==
    /\ conn[w] = "hello"
    /\ conn' = [conn EXCEPT ![w] = "open"] \/ conn' = [conn EXCEPT ![w] = "closed"]
    /\ UNCHANGED <<attached, subscribers, published, callbacks, queue, seen, start, dropped>>

\* queue.get and send_json of the loop; the heartbeat of an idle connection
\* changes nothing here.
Send(w) ==
    /\ conn[w] = "open" /\ queue[w] # << >>
    /\ seen' = [seen EXCEPT ![w] = Append(@, Head(queue[w]))]
    /\ queue' = [queue EXCEPT ![w] = Tail(@)]
    /\ UNCHANGED <<attached, subscribers, published, callbacks, conn, start, dropped>>

\* The peer is gone: the loop ends, and with it the subscription.  The event
\* that was taken from the queue when send_json failed is lost with it.
Disconnect(w) ==
    /\ conn[w] = "open"
    /\ conn' = [conn EXCEPT ![w] = "closed"]
    /\ subscribers' = subscribers \ {w}
    /\ UNCHANGED <<attached, published, callbacks, queue, seen, start, dropped>>

\* The orchestrator stops: queues, callbacks and connections are gone.
BusStops ==
    /\ attached' = FALSE
    /\ subscribers' = {}
    /\ callbacks' = << >>
    /\ queue' = [w \in Connections |-> << >>]
    /\ conn' = [w \in Connections |-> IF conn[w] = "new" THEN "new" ELSE "closed"]
    /\ UNCHANGED <<published, seen, start, dropped>>

-----------------------------------------------------------------------------
BusInit ==
    /\ attached = FALSE
    /\ subscribers = {}
    /\ published = 0
    /\ callbacks = << >>
    /\ queue = [w \in Connections |-> << >>]
    /\ conn = [w \in Connections |-> "new"]
    /\ seen = [w \in Connections |-> << >>]
    /\ start = [w \in Connections |-> 0]
    /\ dropped = {}

\* Every step of the bus but Publish and BusStops, which others cause.
BusStep ==
    \/ AttachLoop \/ SafePut
    \/ \E w \in Connections : Connect(w) \/ Hello(w) \/ Send(w) \/ Disconnect(w)

\* The event loop keeps running callbacks, and an open connection is drained.
BusFairness ==
    /\ WF_busVars(SafePut)
    /\ \A w \in Connections : WF_busVars(Hello(w)) /\ WF_busVars(Send(w))

-----------------------------------------------------------------------------
(* Properties. *)

\* The shape of the bus; no queue grows past its bound.
BusTypeOK ==
    /\ attached \in BOOLEAN
    /\ subscribers \subseteq Connections
    /\ published \in 0 .. MaxPublished
    /\ callbacks \in Seq([to : Connections, event : Nat])
    /\ queue \in [Connections -> Seq(Nat)]
    /\ \A w \in Connections : Len(queue[w]) <= QueueSize
    /\ conn \in [Connections -> ConnState]
    /\ seen \in [Connections -> Seq(Nat)]
    /\ start \in [Connections -> Nat]
    /\ dropped \subseteq Connections

\* The bus and the websocket handler implement the abstract feed: in log
\* order, at most once, with gaps.
Feed == INSTANCE EventFeed WITH Connections <- Connections, published <- published, seen <- seen
FeedRefined == Feed!FeedSpec

\* What connection w has been sent or has waiting in its queue, oldest first.
Got(w) == seen[w] \o queue[w]

\* The callbacks that have yet to put an event into the queue of w.
PendingFor(w) == {j \in DOMAIN callbacks : callbacks[j].to = w}

\* A gap means a full queue: a connection whose queue never filled up has got
\* every event since it subscribed, in order and without a gap, and the rest,
\* up to the last one published, is scheduled for it in that order.
NoGapWithoutDrop ==
    \A w \in subscribers \ dropped :
        /\ \A i \in DOMAIN Got(w) : Got(w)[i] = start[w] + i
        /\ {callbacks[j].event : j \in PendingFor(w)} = start[w] + Len(Got(w)) + 1 .. published
        /\ \A j, k \in PendingFor(w) : j < k => callbacks[j].event < callbacks[k].event

\* An event that is published while a connection is subscribed is sent to it,
\* or the connection's queue was full, or the connection closes.
EventsReachOpenConnections ==
    \A w \in Connections, e \in 1 .. MaxPublished :
        (conn[w] = "open" /\ start[w] < e /\ e <= published) ~>
            (conn[w] = "closed" \/ w \in dropped \/ \E i \in DOMAIN seen[w] : seen[w][i] = e)
=============================================================================
