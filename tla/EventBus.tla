------------------------------ MODULE EventBus ------------------------------
(***************************************************************************)
(* The event bus: publish() routes an event, delivers it to one subscriber *)
(* after the other, writes dead letters for the deliveries that failed and *)
(* only then stores the event.  Any thread may publish, put dead letters   *)
(* back on the bus, or replay stored events; nothing here takes a lock.    *)
(* An event is named by its time stamp, the number of events before it.    *)
(***************************************************************************)
EXTENDS Integers, Sequences, FiniteSets, SequencesExt

CONSTANTS
  Callers,      \* threads that call the bus
  Standing,     \* subscribers from the start of the program, a sequence
  MaxRecords,   \* cap of the dead letter queue in memory
  ReplayLimit,  \* most events that a replay loads
  MaxEvents,    \* bound: events created
  MaxExtras     \* bound: other calls, connections and restarts altogether

ASSUME BusAssumption ==
  /\ Standing \in Seq(Range(Standing))
  /\ MaxRecords \in Nat /\ ReplayLimit \in Nat \ {0}
  /\ {MaxEvents, MaxExtras} \subseteq Nat

VARIABLES
  created,    \* events created so far
  store,      \* the event store, a file
  routes,     \* subscribers in the order of their routes
  sorting,    \* add_route is sorting: the list looks empty to other threads
  records,    \* dead letters in memory: pairs of an event and a subscriber
  file,       \* dead letters in the file
  pc,         \* where a thread is in publish or requeue
  work,       \* events that it has to publish, the current one first
  targets,    \* subscribers that its current event goes to yet
  failed,     \* subscribers that failed on it
  written,    \* dead letters that it is writing to the file
  handled,    \* auxiliary: pairs of an event and a subscriber that took it
  buried,     \* auxiliary: dead letters ever written
  overtaken,  \* auxiliary: dead letters that a rewrite of the file wiped out
  disturbed,  \* auxiliary: events routed while the routes were being sorted
  extras      \* other calls, connections and restarts so far

letters == <<records, file, buried, overtaken>>
routing == <<routes, sorting, disturbed>>
bounds == <<created, extras>>
thread == <<pc, work, targets, failed, written>>
busVars == <<store, handled, letters, routing, bounds, thread>>

Goto(t, where) == pc' = [pc EXCEPT ![t] = where]
Current(t) == Head(work[t])
OneMore == extras < MaxExtras /\ extras' = extras + 1
NextEvent(events) == IF events = <<>> THEN "idle" ELSE "route"

------------------------------------------------------------------------------
(***************************************************************************)
(* publish                                                                 *)
(***************************************************************************)
\* publish_event makes the event, with its time stamp, before it is published.
Publish(t) ==
  /\ pc[t] = "idle" /\ created < MaxEvents
  /\ created' = created + 1
  /\ work' = [work EXCEPT ![t] = <<created + 1>>]
  /\ Goto(t, "route")
  /\ UNCHANGED <<store, handled, letters, routing, extras, targets, failed, written>>

\* Every route matches.  A sort that begins during the iteration ends it.
Route(t) ==
  /\ pc[t] = "route"
  /\ \E n \in IF sorting THEN 0 .. Len(routes) ELSE {Len(routes)} :
       LET found == SubSeq(routes, 1, n)
       IN  /\ targets' = [targets EXCEPT ![t] = found]
           /\ Goto(t, IF found = <<>> THEN "store" ELSE "deliver")
           /\ disturbed' = IF sorting THEN disturbed \cup {Current(t)} ELSE disturbed
  /\ UNCHANGED <<store, handled, letters, routes, sorting, bounds, work, failed, written>>

HandleLastCounts(t, ok) ==  \* faulty: the last delivery stands for all of them
  /\ pc[t] = "deliver"
  /\ LET s == Head(targets[t])
         misses == IF ok THEN <<>> ELSE <<s>>
     IN  /\ handled' = IF ok THEN handled \cup {<<Current(t), s>>} ELSE handled
         /\ failed' = [failed EXCEPT ![t] = misses]
         /\ targets' = [targets EXCEPT ![t] = Tail(@)]
         /\ Goto(t, IF Len(targets[t]) > 1 THEN "deliver"
                    ELSE IF misses = <<>> THEN "store" ELSE "bury")
  /\ UNCHANGED <<store, letters, routing, bounds, work, written>>

\* The next subscriber takes the event or raises.
Handle(t, ok) ==
  /\ pc[t] = "deliver"
  /\ LET s == Head(targets[t])
         misses == IF ok THEN failed[t] ELSE Append(failed[t], s)
     IN  /\ handled' = IF ok THEN handled \cup {<<Current(t), s>>} ELSE handled
         /\ failed' = [failed EXCEPT ![t] = misses]
         /\ targets' = [targets EXCEPT ![t] = Tail(@)]
         /\ Goto(t, IF Len(targets[t]) > 1 THEN "deliver"
                    ELSE IF misses = <<>> THEN "store" ELSE "bury")
  /\ UNCHANGED <<store, letters, routing, bounds, work, written>>

\* DeadLetterQueue.add: in memory first,
Bury(t) ==
  /\ pc[t] = "bury"
  /\ LET letter == <<Current(t), Head(failed[t])>>
     IN  records' = Append(records, letter) /\ buried' = buried \cup {letter}
  /\ Goto(t, "buryfile")
  /\ UNCHANGED <<store, handled, file, overtaken, routing, bounds, work, targets, failed, written>>

Capped(seq) == IF Len(seq) > MaxRecords THEN SubSeq(seq, Len(seq) - MaxRecords + 1, Len(seq)) ELSE seq

AfterBurial(t) ==
  /\ failed' = [failed EXCEPT ![t] = Tail(@)]
  /\ Goto(t, IF Len(failed[t]) > 1 THEN "bury" ELSE "store")
  /\ UNCHANGED <<store, handled, buried, overtaken, routing, bounds, work, targets, written>>

BuryFileBelowCap(t) ==  \* faulty: what exceeds the cap is not written
  /\ pc[t] = "buryfile"
  /\ file' = IF Len(records) > MaxRecords THEN file ELSE Append(file, <<Current(t), Head(failed[t])>>)
  /\ records' = Capped(records)
  /\ AfterBurial(t)

\* then to the file, which the cap does not shorten.
BuryFile(t) ==
  /\ pc[t] = "buryfile"
  /\ file' = Append(file, <<Current(t), Head(failed[t])>>)
  /\ records' = Capped(records)
  /\ AfterBurial(t)

Persist(t) ==
  /\ pc[t] = "store"
  /\ store' = Append(store, Current(t))
  /\ work' = [work EXCEPT ![t] = Tail(@)]
  /\ Goto(t, NextEvent(Tail(work[t])))
  /\ UNCHANGED <<handled, letters, routing, bounds, targets, failed, written>>

------------------------------------------------------------------------------
(***************************************************************************)
(* requeue_dead_letter and replay, which publish what they collected.      *)
(***************************************************************************)
Requeue(t) ==
  /\ pc[t] = "idle" /\ OneMore
  /\ \E n \in 1 .. MaxEvents :
       LET popped == SubSeq(records, 1, IF n < Len(records) THEN n ELSE Len(records))
       IN  /\ work' = [work EXCEPT ![t] = [i \in DOMAIN popped |-> popped[i][1]]]
           /\ records' = SubSeq(records, Len(popped) + 1, Len(records))
  /\ Goto(t, "save")
  /\ UNCHANGED <<store, handled, file, buried, overtaken, routing, created,
                 targets, failed, written>>

\* _save_all: the file is opened, which empties it, and the records are read;
Save(t) ==
  /\ pc[t] = "save"
  /\ written' = [written EXCEPT ![t] = records]
  /\ file' = <<>>
  /\ Goto(t, "saving")
  /\ UNCHANGED <<store, handled, records, buried, overtaken, routing, bounds, work, targets, failed>>

\* their text is written from the start of the file when it is closed, over
\* what was appended to it meanwhile.
EndSave(t) ==
  /\ pc[t] = "saving"
  /\ IF written[t] = <<>> THEN UNCHANGED <<file, overtaken>>
     ELSE /\ file' = written[t]
          /\ overtaken' = overtaken \cup (Range(file) \ Range(written[t]))
  /\ written' = [written EXCEPT ![t] = <<>>]
  /\ Goto(t, NextEvent(work[t]))
  /\ UNCHANGED <<store, handled, records, buried, routing, bounds, work, targets, failed>>

\* The stored events that are not older than since, the first ones first.
load_events(since) ==
  LET found == {i \in DOMAIN store : store[i] >= since}
      place(i) == Cardinality({j \in found : j <= i})
      n == IF Cardinality(found) < ReplayLimit THEN Cardinality(found) ELSE ReplayLimit
  IN  [k \in 1 .. n |-> store[CHOOSE i \in found : place(i) = k]]

\* ReplayEngine.replay with the default handler publishes every loaded event.
Replay(t) ==
  /\ pc[t] = "idle" /\ OneMore
  /\ \E since \in 1 .. MaxEvents :
       /\ work' = [work EXCEPT ![t] = load_events(since)]
       /\ Goto(t, NextEvent(load_events(since)))
  /\ UNCHANGED <<store, handled, letters, routing, created, targets, failed, written>>

\* The program ends and starts again: the dead letters are loaded from the file.
Restart ==
  /\ OneMore
  /\ records' = file
  /\ routes' = Standing /\ sorting' = FALSE
  /\ pc' = [t \in Callers |-> "idle"]
  /\ work' = [t \in Callers |-> <<>>] /\ targets' = work' /\ failed' = work' /\ written' = work'
  /\ UNCHANGED <<store, handled, file, buried, overtaken, disturbed, created>>

------------------------------------------------------------------------------
BusInit ==
  /\ created = 0 /\ extras = 0
  /\ store = <<>> /\ records = <<>> /\ file = <<>>
  /\ routes = Standing /\ sorting = FALSE
  /\ pc = [t \in Callers |-> "idle"]
  /\ work = [t \in Callers |-> <<>>] /\ targets = work /\ failed = work /\ written = work
  /\ handled = {} /\ buried = {} /\ overtaken = {} /\ disturbed = {}

\* A step of a call that was begun, other than a delivery or the routing.
Proceed(t) == Bury(t) \/ BuryFile(t) \/ Persist(t) \/ Save(t) \/ EndSave(t)

Call(t) == Publish(t) \/ Requeue(t) \/ Replay(t)

------------------------------------------------------------------------------
\* Nothing is dropped in silence: when an event is stored, each subscriber that
\* was there all the time has taken it or has a dead letter for it, unless the
\* routes were being sorted when it was routed.
NoSilentDrop ==
  \A e \in Range(store) \ disturbed : \A s \in Range(Standing) : <<e, s>> \in handled \cup buried

\* A dead letter outlives the program: one that is in memory is in the file or on
\* its way there, unless it was appended while another thread rewrote the file.
LettersSurvive ==
  \A letter \in Range(records) \ overtaken :
    \/ letter \in Range(file)
    \/ \E t \in Callers :
         \/ pc[t] = "buryfile" /\ letter = <<Current(t), Head(failed[t])>>
         \/ letter \in Range(written[t])
=============================================================================
