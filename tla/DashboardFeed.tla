---------------------------- MODULE DashboardFeed ----------------------------
(***************************************************************************)
(* The dashboard's live feed on top of the event bus.  The bridge is a     *)
(* subscriber of the bus; its handler runs in the publishing thread and    *)
(* hands the event to the event loop, which puts it into the queue of the  *)
(* connected client.  A client that connects with ?since= is sent the      *)
(* stored events first, read by a worker thread.  One client, which may    *)
(* lose its connection and connect again.                                  *)
(***************************************************************************)
EXTENDS EventBus

CONSTANTS
  Bridge,      \* the bridge as a subscriber
  QueueCap     \* capacity of the client's queue

ASSUME FeedAssumption ==
  Bridge \notin Range(Standing) /\ QueueCap \in Nat \ {0}

VARIABLES
  conn,       \* the connection: off, subscribing, load, replay, live
  since,      \* the time stamp it was made with
  loaded,     \* stored events that the replay has still to hand to the loop
  callbacks,  \* the loop's callbacks: live and replayed events
  queue,      \* the client's queue
  received,   \* events that the client was sent over this connection
  overflow,   \* auxiliary: the queue or the replay was cut off at its limit
  owed        \* auxiliary: events that the connection has to bring

feedVars == <<conn, since, loaded, callbacks, queue, received, overflow, owed>>
vars == <<busVars, feedVars>>

Live(e) == [kind |-> "live", event |-> e]
Replayed(e) == [kind |-> "replay", event |-> e]
Pending == {c.event : c \in Range(callbacks)}

------------------------------------------------------------------------------
(***************************************************************************)
(* The bus, seen with the feed.                                            *)
(***************************************************************************)
\* An event that is routed to the bridge while the client is registered is owed.
FeedRoute(t) ==
  /\ Route(t)
  /\ owed' = IF conn # "off" /\ Bridge \in Range(targets'[t]) THEN owed \cup {Current(t)} ELSE owed
  /\ UNCHANGED <<conn, since, loaded, callbacks, queue, received, overflow>>

OtherHandle(t) ==
  /\ pc[t] = "deliver" /\ Head(targets[t]) # Bridge
  /\ \E ok \in BOOLEAN : Handle(t, ok)
  /\ UNCHANGED feedVars

\* _on_event only schedules a callback of the loop, and never fails.
BridgeHandle(t) ==
  /\ pc[t] = "deliver" /\ Head(targets[t]) = Bridge
  /\ Handle(t, TRUE)
  /\ callbacks' = Append(callbacks, Live(Current(t)))
  /\ UNCHANGED <<conn, since, loaded, queue, received, overflow, owed>>

------------------------------------------------------------------------------
(***************************************************************************)
(* The event loop and the worker thread of the replay.                     *)
(***************************************************************************)
AfterSubscribing(s) == IF s = 0 THEN "live" ELSE "load"

\* subscribe_client registers the queue; the first client of the process also
\* subscribes the bridge.  s = 0 stands for a client without ?since=.
Connect(s) ==
  /\ conn = "off" /\ OneMore
  /\ since' = s
  /\ owed' = {e \in Range(store) : s # 0 /\ e >= s}
  /\ IF Bridge \in Range(routes)
     THEN conn' = AfterSubscribing(s) /\ UNCHANGED <<routes, sorting>>
     ELSE conn' = "subscribing" /\ routes' = Append(routes, Bridge) /\ sorting' = TRUE
  /\ UNCHANGED <<store, handled, letters, disturbed, created, thread,
                 loaded, callbacks, queue, received, overflow>>

EndSort ==
  /\ conn = "subscribing"
  /\ sorting' = FALSE /\ conn' = AfterSubscribing(since)
  /\ UNCHANGED <<store, handled, letters, routes, disturbed, bounds, thread,
                 since, loaded, callbacks, queue, received, overflow, owed>>

ReplayLoad ==
  /\ conn = "load"
  /\ loaded' = load_events(since)
  /\ overflow' = (overflow \/ \E e \in Range(store) : e >= since /\ e \notin Range(loaded'))
  /\ conn' = "replay"
  /\ UNCHANGED <<busVars, since, callbacks, queue, received, owed>>

ReplayPush ==
  /\ conn = "replay" /\ loaded # <<>>
  /\ callbacks' = Append(callbacks, Replayed(Head(loaded)))
  /\ loaded' = Tail(loaded)
  /\ UNCHANGED <<busVars, conn, since, queue, received, overflow, owed>>

\* The loop learns of the end of the worker after the callbacks of its events.
ReplayDone ==
  /\ conn = "replay" /\ loaded = <<>>
  /\ \A c \in Range(callbacks) : c.kind # "replay"
  /\ conn' = "live"
  /\ UNCHANGED <<busVars, since, loaded, callbacks, queue, received, overflow, owed>>

\* _safe_put: a full queue loses its oldest event.
Put(e) ==
  IF Len(queue) < QueueCap
  THEN queue' = Append(queue, e) /\ overflow' = overflow
  ELSE queue' = Append(Tail(queue), e) /\ overflow' = TRUE

FanoutToLive ==  \* faulty: the client gets live events only after its replay
  /\ callbacks # <<>> /\ conn # "subscribing"
  /\ callbacks' = Tail(callbacks)
  /\ IF conn = "live" \/ Head(callbacks).kind = "replay" THEN Put(Head(callbacks).event)
     ELSE UNCHANGED <<queue, overflow>>
  /\ UNCHANGED <<busVars, conn, since, loaded, received, owed>>

\* The loop runs its next callback, while it is not busy in subscribe().
Fanout ==
  /\ callbacks # <<>> /\ conn # "subscribing"
  /\ callbacks' = Tail(callbacks)
  /\ IF conn # "off" THEN Put(Head(callbacks).event) ELSE UNCHANGED <<queue, overflow>>
  /\ UNCHANGED <<busVars, conn, since, loaded, received, owed>>

Send ==
  /\ conn = "live" /\ queue # <<>>
  /\ received' = received \cup {Head(queue)} /\ queue' = Tail(queue)
  /\ UNCHANGED <<busVars, conn, since, loaded, callbacks, overflow, owed>>

NoClient ==
  /\ conn' = "off" /\ since' = 0 /\ loaded' = <<>> /\ queue' = <<>>
  /\ received' = {} /\ overflow' = FALSE /\ owed' = {}

\* A send or a heartbeat fails; the queue goes with the client.  A client that
\* leaves during its replay is noticed at the first send after it.
Disconnect ==
  /\ conn = "live" /\ NoClient
  /\ UNCHANGED <<busVars, callbacks>>

FeedRestart == Restart /\ NoClient /\ callbacks' = <<>>

------------------------------------------------------------------------------
FeedInit ==
  /\ BusInit
  /\ conn = "off" /\ since = 0 /\ loaded = <<>> /\ callbacks = <<>> /\ queue = <<>>
  /\ received = {} /\ overflow = FALSE /\ owed = {}

Loop == EndSort \/ ReplayLoad \/ ReplayPush \/ ReplayDone \/ Fanout \/ Send \/ Disconnect

Deliver(t) == FeedRoute(t) \/ OtherHandle(t) \/ BridgeHandle(t)

FeedNext ==
  \/ \E t \in Callers : Deliver(t)
  \/ \E t \in Callers : (Call(t) \/ Proceed(t)) /\ UNCHANGED feedVars
  \/ \E s \in 0 .. MaxEvents : Connect(s)
  \/ Loop
  \/ FeedRestart

FeedSpec == FeedInit /\ [][FeedNext]_vars

------------------------------------------------------------------------------
\* The state has its types; in particular the client's queue keeps its capacity
\* (_safe_put never makes the loop wait).
FeedTypeOK ==
  /\ created \in 0 .. MaxEvents /\ Range(store) \subseteq 1 .. created
  /\ conn \in {"off", "subscribing", "load", "replay", "live"}
  /\ sorting = (conn = "subscribing")
  /\ Len(queue) <= QueueCap
  /\ Range(queue) \cup received \cup owed \cup Pending \subseteq 1 .. created
  /\ \A t \in Callers : pc[t] \in {"idle", "route", "deliver", "bury", "buryfile", "store", "save", "saving"}

\* Once a client is live it misses nothing: an event that was stored when it
\* connected and is not older than ?since=, or that was routed to the bridge since
\* it was registered, was sent to it, is in its queue, is with the loop or is with a
\* thread that delivers it yet, unless the queue or the replay met its limit.
FeedComplete ==
  (conn = "live" /\ ~overflow) =>
    \A e \in owed : \/ e \in received \cup Range(queue) \cup Pending
                    \/ \E t \in Callers : pc[t] = "deliver" /\ Current(t) = e /\ Bridge \in Range(targets[t])
=============================================================================
