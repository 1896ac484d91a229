------------------------------- MODULE WriteApi -------------------------------
(***************************************************************************)
(* The guarded write endpoints of the dashboard over the generate runs:    *)
(* a request passes the write guard on the event loop, calls the facade in *)
(* a thread of the pool, and is put on the audit trail on the event loop   *)
(* before it is answered.                                                  *)
(*                                                                         *)
(* The endpoints of the generate loop are composed with GenerateRuns: the  *)
(* facade call is the runner's start() or cancel(), step by step, and a    *)
(* restart of the server ends the requests as well as the workers.  The    *)
(* other endpoints act on state that other modules model; here they are    *)
(* what their facade call can answer.                                      *)
(*                                                                         *)
(* The guards take the event bus of the facade when the app is built.  One *)
(* that the facade was given is there (Wired); the bus that the runtime    *)
(* creates when it is started, in the lifespan of the app, comes too late  *)
(* for them, and their writes leave no audit event at all.                 *)
(***************************************************************************)
EXTENDS GenerateRuns

CONSTANTS
  RequireToken,  \* require_loopback_token
  Wired,         \* WriteGuard._bus is an event bus, not None
  MaxRequests,   \* bound: requests that the guard lets through
  MaxFaults      \* bound: audit events that cannot be published

ASSUME WriteApiAssumption ==
  RequireToken \in BOOLEAN /\ Wired \in BOOLEAN /\ MaxRequests \in Nat /\ MaxFaults \in Nat

VARIABLES
  request,   \* the write each API thread serves
  trail,     \* audit.write events about runs: the event store and .audit.failed.jsonl
  refusals,  \* audit.write_rejected events were published
  unkept,    \* auxiliary: writes to runs, off the trail by a fault or a restart
  requests, faults  \* bounds

apiVars == <<request, trail, refusals, unkept, requests, faults>>
allVars == <<vars, apiVars>>

------------------------------------------------------------------------------
(***************************************************************************)
(* The writes, by what their handlers do.                                  *)
(***************************************************************************)
RuntimeWrites == {"start runtime", "control runtime"}
Orchestration == {"orchestrate", "roll back"}
GenerateWrites == {"generate", "cancel"}
Writes == RuntimeWrites \cup Orchestration \cup GenerateWrites
            \cup {"memory", "build", "submit", "decide", "company", "agents", "telemetry"}

\* Actions that a reason must be given for.
HighImpact == {"control runtime", "roll back"}

\* Handlers that answer 404 or 409, without an audit event, when the facade
\* says that it did nothing.
Refusing == {"cancel", "decide", "company"}

NoWrite == [write |-> None, at |-> "none", run |-> None]

Serving(a, at) == request[a].at = at

\* The write is over, with an answer or an error.
Answered(a) == request' = [request EXCEPT ![a] = NoWrite]

\* The facade call has returned: on with the audit.
Returned(a) == request' = [request EXCEPT ![a].at = "audit"]

------------------------------------------------------------------------------
(***************************************************************************)
(* The guard.  It and the first step of the facade call are one step.      *)
(***************************************************************************)
\* A token that is given must be right, and one must be given if required; the
\* CSRF token must be right.
Authorized(token, csrf) ==
  /\ token = "right" \/ (token = "missing" /\ ~ RequireToken)
  /\ csrf

\* The requests for w that are let through: what they bring along.
Admissible(w) ==
  {q \in [token : {"right", "wrong", "missing"}, csrf : BOOLEAN, reason : BOOLEAN] :
     Authorized(q.token, q.csrf) /\ (w \in HighImpact => q.reason)}

Admit(a, w) ==
  /\ request[a] = NoWrite /\ requests < MaxRequests /\ Admissible(w) # {}
  /\ requests' = requests + 1

\* 401, 403 or 422; published only if the guard has a bus.
Refuse ==
  /\ refusals' = (refusals \/ Wired)
  /\ UNCHANGED <<vars, request, trail, unkept, requests, faults>>

------------------------------------------------------------------------------
(***************************************************************************)
(* The facade calls of the generate loop.                                  *)
(***************************************************************************)
GenerateStart(a, r) ==
  /\ Admit(a, "generate")
  /\ Start(a, r)
  /\ request' = [request EXCEPT ![a] = [NoWrite EXCEPT !.write = "generate", !.at = "runner",
                                                       !.run = r]]
  /\ UNCHANGED <<trail, refusals, unkept, faults>>

GenerateCancel(a, r) ==
  /\ Admit(a, "cancel")
  /\ CancelLook(a, r)
  /\ request' = [request EXCEPT ![a] = [NoWrite EXCEPT !.write = "cancel", !.at = "runner",
                                                       !.run = r]]
  /\ UNCHANGED <<trail, refusals, unkept, faults>>

\* A step of start() or cancel(); after the last one the facade returns.
RunnerStep(a) ==
  /\ Serving(a, "runner")
  /\ CallStep(a)
  /\ IF call'[a] = Idle THEN Returned(a) ELSE UNCHANGED request
  /\ UNCHANGED <<trail, refusals, unkept, requests, faults>>

------------------------------------------------------------------------------
(***************************************************************************)
(* The facade calls that touch no run.                                     *)
(***************************************************************************)
\* Exceptions are answered with success False.
Caught == {"ok", "failed"}

Operate(a, writes, answers) ==
  /\ \E w \in writes, answer \in answers :
       /\ Admit(a, w)
       /\ IF answer = "failed" /\ w \in Refusing THEN Answered(a) ELSE Returned(a)
  /\ UNCHANGED <<vars, trail, refusals, unkept, faults>>

\* The target is unknown, its prompt is missing, or nothing can dispatch it.
GenerateInvalid(a)  == Operate(a, {"generate"}, {"failed"})
\* There is no such run.
CancelUnknown(a)    == Operate(a, {"cancel"}, {"failed"})
RuntimeWrite(a)     == Operate(a, RuntimeWrites, Caught)
OrchestrateWrite(a) == Operate(a, Orchestration, Caught)
MemoryWrite(a)      == Operate(a, {"memory"}, Caught)
BuildWrite(a)       == Operate(a, {"build"}, Caught)
SubmitWrite(a)      == Operate(a, {"submit"}, Caught)
DecideWrite(a)      == Operate(a, {"decide"}, Caught)
CompanyWrite(a)     == Operate(a, {"company"}, Caught)
AgentsWrite(a)      == Operate(a, {"agents"}, Caught)
TelemetryWrite(a)   == Operate(a, {"telemetry"}, Caught)

\* An OSError of the company files is not caught: 500, and no audit event.
CompanyRaises(a) ==
  /\ Admit(a, "company")
  /\ UNCHANGED <<vars, request, trail, refusals, unkept, faults>>

------------------------------------------------------------------------------
(***************************************************************************)
(* WriteGuard.audited, and the answer.                                     *)
(***************************************************************************)
Event(a) == [write |-> request[a].write, run |-> request[a].run]

AuditedOnce(a) ==  \* faulty: a second write to the same run is taken for a repetition
  /\ Serving(a, "audit")
  /\ trail' = IF /\ Wired /\ request[a].run # None
                 /\ \A e \in trail : e.run # request[a].run
              THEN trail \cup {Event(a)} ELSE trail
  /\ Answered(a)
  /\ UNCHANGED <<vars, refusals, unkept, requests, faults>>

\* The event is published, or kept in the file of events that could not be.
Audited(a) ==
  /\ Serving(a, "audit")
  /\ trail' = IF Wired /\ request[a].run # None THEN trail \cup {Event(a)} ELSE trail
  /\ Answered(a)
  /\ UNCHANGED <<vars, refusals, unkept, requests, faults>>

\* Neither can be done, which is only logged.
AuditFails(a) ==
  /\ Serving(a, "audit") /\ Wired /\ faults < MaxFaults
  /\ unkept' = IF request[a].run # None THEN unkept \cup {Event(a)} ELSE unkept
  /\ faults' = faults + 1
  /\ Answered(a)
  /\ UNCHANGED <<vars, trail, refusals, requests>>

\* The server ends within the requests and is started again.
ServerRestart ==
  /\ Restart
  /\ unkept' = unkept \cup {Event(a) : a \in {b \in Callers : request[b].run # None}}
  /\ request' = [a \in Callers |-> NoWrite]
  /\ UNCHANGED <<trail, refusals, requests, faults>>

------------------------------------------------------------------------------
ApiInit ==
  /\ Init
  /\ request = [a \in Callers |-> NoWrite]
  /\ trail = {} /\ refusals = FALSE /\ unkept = {}
  /\ requests = 0 /\ faults = 0

Handler(a) ==
  \/ \E r \in Runs : GenerateStart(a, r) \/ GenerateCancel(a, r)
  \/ GenerateInvalid(a) \/ CancelUnknown(a) \/ RunnerStep(a)
  \/ RuntimeWrite(a) \/ OrchestrateWrite(a) \/ MemoryWrite(a) \/ BuildWrite(a)
  \/ SubmitWrite(a) \/ DecideWrite(a) \/ CompanyWrite(a) \/ CompanyRaises(a)
  \/ AgentsWrite(a) \/ TelemetryWrite(a)
  \/ Audited(a) \/ AuditFails(a)

RunStep(r) ==
  /\ Worker(r) \/ \E p \in Providers : ChildExits(r, p)
  /\ UNCHANGED apiVars

ApiNext ==
  \/ Refuse
  \/ \E a \in Callers : Handler(a)
  \/ \E r \in Runs : RunStep(r)
  \/ ServerRestart

ApiSpec == ApiInit /\ [][ApiNext]_allVars
\* Handlers go on, as the threads and children of GenerateRuns do.
ApiFairSpec ==
  /\ ApiSpec
  /\ \A r \in Runs : /\ WF_allVars(Worker(r) /\ UNCHANGED apiVars)
                     /\ \A p \in Providers : WF_allVars(ChildExits(r, p) /\ UNCHANGED apiVars)
  /\ \A a \in Callers : WF_allVars(RunnerStep(a) \/ Audited(a))

------------------------------------------------------------------------------
(***************************************************************************)
(* Properties.                                                             *)
(***************************************************************************)
\* Types; a request is with the runner exactly while the runner serves its thread.
RequestRecord == [write : Writes \cup {None}, at : {"none", "runner", "audit"},
                  run   : Runs \cup {None}]

ApiTypeOK ==
  /\ TypeOK
  /\ refusals \in BOOLEAN
  /\ request \in [Callers -> RequestRecord]
  /\ \A a \in Callers : /\ (request[a].at = "runner") <=> (call[a] # Idle)
                        /\ call[a].run \in {None, request[a].run}
  /\ trail \cup unkept \subseteq [write : GenerateWrites, run : Runs]

\* The write w of run r is on the trail, or on its way to it, or known to be off it.
OnRecord(w, r) ==
  \/ [write |-> w, run |-> r] \in trail \cup unkept
  \/ \E a \in Callers : request[a].write = w /\ request[a].run = r

\* In an app whose guards were built with a bus, every run was started by a write on the
\* trail and every cancelled run was cancelled by one, although the run, the history and
\* the trail are written by different threads and a restart loads what the history says;
\* excepted are the writes whose audit a fault or a restart cut off (unkept), and the
\* cancellations of runs that share an id, which a restart may load for each other.  An
\* app without a bus is no subject of this: it audits nothing.
RunsAreOnRecord ==
  Wired => \A r \in listed : /\ OnRecord("generate", r)
                             /\ IdsApart /\ status[r] = "cancelled" => OnRecord("cancel", r)
==============================================================================
