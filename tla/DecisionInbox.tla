---------------------------- MODULE DecisionInbox ----------------------------
(***************************************************************************)
(* The approval inbox: API threads that create, approve, reject, escalate  *)
(* and cancel decisions through one facade.  A decision is an object that  *)
(* the calls change in place, found by its id in the index of the decision *)
(* engine; every change is then appended to a file, from which an engine   *)
(* that is built after a restart fills its index.  Nothing takes a lock.   *)
(***************************************************************************)
EXTENDS Integers, Sequences, FiniteSets, SequencesExt

CONSTANTS
  Callers,    \* API threads
  Roles,
  Superior,   \* approval_hierarchy, a function on some of the roles
  Requester,  \* the role "requester", where a path without an owner starts
  Owners,     \* owners that decisions are created with; Nobody if left empty
  Nobody,     \* the empty string: no owner, no approver, no status
  Rules,      \* approval matrix: <<[owners |-> ..., approval |-> ...]>>
  Policies,   \* by descending priority: <<[owners |-> ..., action |-> ...]>>
  MaxTime,    \* bound: seconds of the clock
  MaxCalls,   \* bound: calls
  MaxFaults   \* bound: failed appends and ends of the process

Statuses == {"pending", "approved", "rejected", "escalated", "cancelled"}
Kinds == {"create", "approve", "reject", "escalate", "cancel", "read"}

ASSUME DecisionAssumption ==
  /\ IsFiniteSet(Callers)
  /\ Nobody \notin Roles \cup Kinds /\ Requester \in Roles /\ Owners \subseteq Roles \cup {Nobody}
  /\ DOMAIN Superior \subseteq Roles /\ Range(Superior) \subseteq Roles
  /\ MaxTime \in Nat /\ MaxCalls \in Nat /\ MaxFaults \in Nat

Torn == [id |-> <<>>]        \* a line of the file that is not JSON

VARIABLES
  now,       \* the second that the clock shows
  heap,      \* the decision objects of this process
  engines,   \* the engines of this process: index by id, counter
  current,   \* RuntimeFacade._decision_engine, 0 for None
  file,      \* runtime/decisions.jsonl
  pc, call,  \* per thread: where it is, what it was called with
  eng, obj, entry,  \* per thread: the engine, the object, the entry to append
  audits,    \* calls that WriteGuard.audited was told the result ok of
  contested, \* auxiliary: ids that two calls have worked on at once
  split,     \* auxiliary: an engine was replaced by another one
  unsaved,   \* auxiliary: ids with a change that was not appended
  cut,       \* auxiliary: calls that a restart cut off after they had appended
  calls, faults  \* bounds

engineVars == <<heap, engines, current>>
threadVars == <<pc, call, eng, obj, entry>>
auxVars == <<contested, split, unsaved, cut>>
inboxVars == <<now, engineVars, file, threadVars, audits, auxVars, calls, faults>>

NoCall == [kind |-> Nobody, id |-> <<>>, who |-> Nobody]

------------------------------------------------------------------------------
(* Approval rules, policies and the hierarchy.                             *)
------------------------------------------------------------------------------
\* ApprovalMatrix.is_approval_required: the first rule that matches decides.
ApprovalRequired(owner) ==
  LET hits == {i \in DOMAIN Rules : owner \in Rules[i].owners} IN
  hits = {} \/ Rules[CHOOSE i \in hits : \A j \in hits : i <= j].approval

\* ApprovalRouter.determine_path: up from the owner to the top.
Chain[role \in Roles] ==
  <<role>> \o IF role \in DOMAIN Superior THEN Chain[Superior[role]] ELSE <<>>
PathOf(owner) == Chain[IF owner = Nobody THEN Requester ELSE owner]

\* ApprovalRouter.escalate: the level after the owner's, or the last one.
NextLevel(d) ==
  LET at == IF d.owner \in ToSet(d.path)
            THEN SelectInSeq(d.path, LAMBDA r : r = d.owner) ELSE 0
  IN d.path[IF at < Len(d.path) THEN at + 1 ELSE Len(d.path)]

\* Policy.enforce, by what the action of the policy is.
Enforce(d, policy) ==
  IF d.owner \notin policy.owners THEN d
  ELSE IF policy.action = "require_approval" THEN [d EXCEPT !.required = TRUE]
  ELSE IF policy.action = "auto_approve" THEN [d EXCEPT !.required = FALSE]
  ELSE [d EXCEPT !.owner = policy.action]            \* set_owner

\* PolicyEngine.enforce: every policy that applies, by priority.
Enforced(d) ==
  LET after == FoldLeft(Enforce, d, Policies)
  IN [d EXCEPT !.required = after.required, !.owner = after.owner]

------------------------------------------------------------------------------
(* The file and the index.                                                 *)
------------------------------------------------------------------------------
\* What _append_to_disk leaves: a line that follows a torn one becomes part of it.
WithLine(lines, line) ==
  IF lines # <<>> /\ Last(lines) = Torn THEN lines ELSE Append(lines, line)

\* DecisionHistory._load_from_disk stops at the first line that it cannot parse.
Readable(lines) ==
  LET bad == {i \in DOMAIN lines : lines[i] = Torn} IN
  IF bad = {} THEN lines
  ELSE SubSeq(lines, 1, (CHOOSE i \in bad : \A j \in bad : i <= j) - 1)

Ids(lines) == {lines[i].id : i \in DOMAIN lines}
\* import_decisions: the last entry of an id decides.
LastEntry(lines, id) == SelectLastInSeq(lines, LAMBDA e : e.id = id)

\* faulty: the first entry of an id decides
BuiltFromFirst(lines) ==
  LET ids == SetToSeq(Ids(lines)) IN
  [objects |-> [i \in DOMAIN ids |-> lines[SelectInSeq(lines, LAMBDA e : e.id = ids[i])]],
   index |-> [id \in ToSet(ids) |-> Len(heap) + SelectInSeq(ids, LAMBDA x : x = id)]]

\* An engine built from the file, with its objects: one for each entry, of which
\* those that later entries replace in the index can be left out.
Built(lines) ==
  LET ids == SetToSeq(Ids(lines)) IN
  [objects |-> [i \in DOMAIN ids |-> lines[LastEntry(lines, ids[i])]],
   index |-> [id \in ToSet(ids) |-> Len(heap) + SelectInSeq(ids, LAMBDA x : x = id)]]

Indexed(e, id) == id \in DOMAIN engines[e].index
Shown(id) == heap[engines[current].index[id]]    \* the decision of the inbox

Entered(index, id, o) ==
  [i \in DOMAIN index \cup {id} |-> IF i = id THEN o ELSE index[i]]

At(c, point) == pc[c] = point
Goto(c, point) == pc' = [pc EXCEPT ![c] = point]
Change(c, d) == heap' = [heap EXCEPT ![obj[c]] = d]

\* The id that a call works on, from its lookup until its entry is appended.
Working(c) ==
  IF pc[c] \in {"sign", "act", "record", "append"} THEN {heap[obj[c]].id} ELSE {}

Contest(c, id) ==
  contested' = contested \cup {i \in {id} : \E o \in Callers \ {c} : i \in Working(o)}

\* The call is over. A call that failed is answered with an error and, except for
\* create, not audited.
End(c) ==
  /\ Goto(c, "idle")
  /\ call' = [call EXCEPT ![c] = NoCall]
  /\ eng' = [eng EXCEPT ![c] = 0] /\ obj' = [obj EXCEPT ![c] = 0]
  /\ entry' = [entry EXCEPT ![c] = <<>>]

------------------------------------------------------------------------------
(* The calls.                                                              *)
------------------------------------------------------------------------------
\* A request arrives that the write guard lets through.
Begin(c) ==
  /\ At(c, "idle") /\ calls < MaxCalls
  /\ \E kind \in Kinds, who \in Owners \cup {Nobody} :
       \E id \in IF kind \in {"create", "read"} THEN {<<>>} ELSE Ids(Readable(file)) :
         /\ kind \notin {"create", "approve"} => who = Nobody
         /\ call' = [call EXCEPT ![c] = [kind |-> kind, id |-> id, who |-> who]]
  /\ Goto(c, "engine")
  /\ calls' = calls + 1
  /\ UNCHANGED <<now, engineVars, file, eng, obj, entry, audits, auxVars, faults>>

\* faulty: what is imported is recorded again
BuildEngineRecording(c) ==
  /\ At(c, "engine") /\ current = 0
  /\ LET new == Built(Readable(file)) IN
     /\ heap' = heap \o new.objects
     /\ engines' = Append(engines, [index |-> new.index, counter |-> 0])
     /\ file' = file \o new.objects
  /\ eng' = [eng EXCEPT ![c] = Len(engines) + 1]
  /\ Goto(c, "built")
  /\ UNCHANGED <<now, current, call, obj, entry, audits, auxVars, calls, faults>>

\* _decision_engine_instance finds no engine: it builds one from the file ...
BuildEngine(c) ==
  /\ At(c, "engine") /\ current = 0
  /\ LET new == Built(Readable(file)) IN
     /\ heap' = heap \o new.objects
     /\ engines' = Append(engines, [index |-> new.index, counter |-> 0])
  /\ eng' = [eng EXCEPT ![c] = Len(engines) + 1]
  /\ Goto(c, "built")
  /\ UNCHANGED <<now, current, file, call, obj, entry, audits, auxVars, calls, faults>>

\* ... and assigns it, also when another thread has done so meanwhile.
AssignEngine(c) ==
  /\ At(c, "built")
  /\ current' = eng[c]
  /\ split' = (split \/ current # 0)
  /\ Goto(c, "engine")
  /\ UNCHANGED <<now, heap, engines, file, call, eng, obj, entry, audits, contested, unsaved,
                 cut, calls, faults>>

UseEngine(c) ==
  /\ At(c, "engine") /\ current # 0 /\ call[c].kind # "read"
  /\ eng' = [eng EXCEPT ![c] = current]
  /\ Goto(c, IF call[c].kind = "create" THEN "number" ELSE "look")
  /\ UNCHANGED <<now, engineVars, file, call, obj, entry, audits, auxVars, calls, faults>>

\* The inbox is listed, or one decision shown and explained.
ReadInbox(c) ==
  /\ At(c, "engine") /\ current # 0 /\ call[c].kind = "read"
  /\ End(c)
  /\ UNCHANGED <<now, engineVars, file, audits, auxVars, calls, faults>>

\* create_decision: the counter is incremented ...
Number(c) ==
  /\ At(c, "number")
  /\ engines' = [engines EXCEPT ![eng[c]].counter = @ + 1]
  /\ Goto(c, "draft")
  /\ UNCHANGED <<now, heap, current, file, call, eng, obj, entry, audits, auxVars, calls, faults>>

\* ... and read again for the id, which otherwise only holds the second.
Draft(c) ==
  /\ At(c, "draft")
  /\ heap' = Append(heap,
       [id |-> <<now, engines[eng[c]].counter>>, status |-> "pending", approver |-> Nobody,
        required |-> ApprovalRequired(call[c].who), owner |-> call[c].who,
        path |-> PathOf(call[c].who)])
  /\ obj' = [obj EXCEPT ![c] = Len(heap) + 1]
  /\ Contest(c, <<now, engines[eng[c]].counter>>)
  /\ Goto(c, "record")
  /\ UNCHANGED <<now, engines, current, file, call, eng, entry, audits, split, unsaved, cut,
                 calls, faults>>

\* get_decision, and the test that a verdict is still possible.
Open(c, d) == call[c].kind \in {"approve", "reject"} => d.status = "pending"

Look(c) ==
  /\ At(c, "look")
  /\ Indexed(eng[c], call[c].id)
  /\ LET o == engines[eng[c]].index[call[c].id] IN
     /\ Open(c, heap[o])
     /\ obj' = [obj EXCEPT ![c] = o]
     /\ Contest(c, heap[o].id)
  /\ Goto(c, IF call[c].kind = "approve" THEN "sign" ELSE "act")
  /\ UNCHANGED <<now, engineVars, file, call, eng, entry, audits, split, unsaved, cut, calls,
                 faults>>

\* There is no such decision, or it is resolved already.
LookFails(c) ==
  /\ At(c, "look")
  /\ ~ (/\ Indexed(eng[c], call[c].id)
        /\ Open(c, heap[engines[eng[c]].index[call[c].id]]))
  /\ End(c)
  /\ UNCHANGED <<now, engineVars, file, audits, auxVars, calls, faults>>

\* make_decision sets the approver ...
Sign(c) ==
  /\ At(c, "sign")
  /\ Change(c, [heap[obj[c]] EXCEPT !.approver = call[c].who])
  /\ Goto(c, "act")
  /\ UNCHANGED <<now, engines, current, file, call, eng, obj, entry, audits, auxVars, calls,
                 faults>>

\* ... then the status, by what it was called with, and then enforces the policies.
Act(c) ==
  /\ At(c, "act")
  /\ LET d == heap[obj[c]] IN
     Change(c, CASE call[c].kind = "approve" ->
                      Enforced([d EXCEPT !.status = IF d.required /\ call[c].who = Nobody
                                                    THEN "escalated" ELSE "approved"])
                 [] call[c].kind = "reject"   -> [d EXCEPT !.status = "rejected"]
                 [] call[c].kind = "cancel"   -> [d EXCEPT !.status = "cancelled"]
                 [] call[c].kind = "escalate" -> [d EXCEPT !.status = "escalated",
                                                           !.path = Append(@, NextLevel(d))])
  /\ Goto(c, "record")
  /\ UNCHANGED <<now, engines, current, file, call, eng, obj, entry, audits, auxVars, calls,
                 faults>>

\* faulty: an escalation stays in memory
RecordVerdicts(c) ==
  /\ At(c, "record")
  /\ LET d == heap[obj[c]] IN
     /\ engines' = [engines EXCEPT ![eng[c]].index = Entered(@, d.id, obj[c])]
     /\ entry' = [entry EXCEPT ![c] = d]
  /\ Goto(c, IF call[c].kind = "escalate" THEN "answer" ELSE "append")
  /\ UNCHANGED <<now, heap, current, file, call, eng, obj, audits, auxVars, calls, faults>>

\* DecisionHistory.record puts the object into the index and copies it.
Record(c) ==
  /\ At(c, "record")
  /\ LET d == heap[obj[c]] IN
     /\ engines' = [engines EXCEPT ![eng[c]].index = Entered(@, d.id, obj[c])]
     /\ entry' = [entry EXCEPT ![c] = d]
  /\ Goto(c, "append")
  /\ UNCHANGED <<now, heap, current, file, call, eng, obj, audits, auxVars, calls, faults>>

\* The copy shares the list of the path, which is written as it is now.
Line(c) == [entry[c] EXCEPT !.path = heap[obj[c]].path]

AppendLine(c) ==
  /\ At(c, "append")
  /\ file' = WithLine(file, Line(c))
  /\ Goto(c, "answer")
  /\ UNCHANGED <<now, engineVars, call, eng, obj, entry, audits, auxVars, calls, faults>>

\* The append fails before or within the line.
AppendFails(c) ==
  /\ At(c, "append") /\ faults < MaxFaults
  /\ file' \in {file, WithLine(file, Torn)}
  /\ unsaved' = unsaved \cup {entry[c].id}
  /\ faults' = faults + 1
  /\ End(c)
  /\ UNCHANGED <<now, engineVars, audits, contested, split, cut, calls>>

\* WriteGuard.audited is told the result, and the call is answered.
Answer(c) ==
  /\ At(c, "answer")
  /\ audits' = audits + 1
  /\ End(c)
  /\ UNCHANGED <<now, engineVars, file, auxVars, calls, faults>>

Tick ==
  /\ now < MaxTime
  /\ now' = now + 1
  /\ UNCHANGED <<engineVars, file, threadVars, audits, auxVars, calls, faults>>

\* The process ends, perhaps within an append; the next one starts without an engine.
Restart ==
  /\ faults < MaxFaults
  /\ file' \in {file} \cup {WithLine(file, Torn) : c \in {o \in Callers : At(o, "append")}}
  /\ heap' = <<>> /\ engines' = <<>> /\ current' = 0
  /\ pc' = [c \in Callers |-> "idle"] /\ call' = [c \in Callers |-> NoCall]
  /\ eng' = [c \in Callers |-> 0] /\ obj' = [c \in Callers |-> 0]
  /\ entry' = [c \in Callers |-> <<>>]
  /\ cut' = cut + Cardinality({c \in Callers : At(c, "answer")})
  /\ contested' = {} /\ split' = FALSE /\ unsaved' = {}
  /\ faults' = faults + 1
  /\ UNCHANGED <<now, audits, calls>>

InboxInit ==
  /\ now = 0 /\ heap = <<>> /\ engines = <<>> /\ current = 0 /\ file = <<>>
  /\ pc = [c \in Callers |-> "idle"] /\ call = [c \in Callers |-> NoCall]
  /\ eng = [c \in Callers |-> 0] /\ obj = [c \in Callers |-> 0]
  /\ entry = [c \in Callers |-> <<>>]
  /\ audits = 0 /\ contested = {} /\ split = FALSE /\ unsaved = {} /\ cut = 0
  /\ calls = 0 /\ faults = 0

CallStep(c) ==
  \/ Begin(c) \/ BuildEngine(c) \/ AssignEngine(c) \/ UseEngine(c) \/ ReadInbox(c)
  \/ Number(c) \/ Draft(c) \/ Look(c) \/ LookFails(c) \/ Sign(c) \/ Act(c)
  \/ Record(c) \/ AppendLine(c) \/ AppendFails(c) \/ Answer(c)

InboxNext == Tick \/ Restart \/ \E c \in Callers : CallStep(c)

InboxSpec == InboxInit /\ [][InboxNext]_inboxVars

------------------------------------------------------------------------------
(* Properties.                                                             *)
------------------------------------------------------------------------------
\* Every thread has an engine and an object exactly where it works on them, and an
\* index leads to an object with the id it was asked for.
InboxTypeOK ==
  /\ now \in 0..MaxTime /\ current \in 0..Len(engines)
  /\ \A o \in DOMAIN heap : heap[o].status \in Statuses
  /\ \A e \in DOMAIN engines : \A id \in DOMAIN engines[e].index :
       heap[engines[e].index[id]].id = id
  /\ \A c \in Callers :
       /\ obj[c] # 0 <=> pc[c] \in {"sign", "act", "record", "append", "answer"}
       /\ pc[c] = "idle" <=> call[c] = NoCall
       /\ obj[c] # 0 => obj[c] \in DOMAIN heap /\ eng[c] \in DOMAIN engines
  /\ contested \cup unsaved \subseteq {heap[o].id : o \in DOMAIN heap}

InProgress == UNION {Working(c) : c \in Callers}

\* "inbox survives restarts via import_decisions()": what an engine built from the
\* file would show of a decision is what the inbox shows, unless two calls worked on
\* the decision at once, one of its changes could not be appended, two threads built
\* the engine at once, or the file has a torn line.
InboxIsFile ==
  current # 0 /\ ~ split /\ Torn \notin ToSet(file) =>
    \A id \in (Ids(file) \cup DOMAIN engines[current].index)
                \ (InProgress \cup contested \cup unsaved) :
      /\ id \in Ids(file) /\ Indexed(current, id)
      /\ Shown(id) = file[LastEntry(file, id)]

\* However calls overlap, the status that the inbox shows is in the file, so that no
\* verdict is taken without a trace, unless its append failed.  Also when two threads
\* have built the engine at once.
NothingUnrecorded ==
  current # 0 /\ Torn \notin ToSet(file) =>
    \A id \in DOMAIN engines[current].index \ (InProgress \cup unsaved) :
      \E i \in DOMAIN file : file[i].id = id /\ file[i].status = Shown(id).status

\* "record-once": the file has one line for each audited call, for each call that has
\* still to be audited and for each that a restart cut off there, over any restarts.
RecordedOnce ==
  Torn \notin ToSet(file) =>
    Len(file) = audits + cut + Cardinality({c \in Callers : At(c, "answer")})
=============================================================================
