----------------------------- MODULE GenerateRuns -----------------------------
(***************************************************************************)
(* GenerateRunner: generate runs dispatched to child processes, one worker *)
(* thread per run, with cancellation, a fallback provider, a persisted     *)
(* history and restarts of the server.                                     *)
(*                                                                         *)
(* API calls run in a thread pool, so start() and cancel() of several      *)
(* callers interleave with the workers.  A step is what happens between    *)
(* two acquisitions of the runner's lock, or an access outside it.  A run  *)
(* stands for its own target, so that a prompt is named by its run.        *)
(***************************************************************************)
EXTENDS Integers, FiniteSets

CONSTANTS
  Runs,         \* GenerateRun objects that start() may create
  Callers,      \* API threads
  Fallback,     \* FallbackConfig.enabled
  MaxRestarts,  \* bound: restarts of the server
  MaxLapses,    \* bound: appends to the history that fail
  None          \* no run, no prompt

Providers == {"opencode", "local"}

ASSUME GenerateRunsAssumption ==
  /\ Fallback \in BOOLEAN /\ MaxRestarts \in Nat /\ MaxLapses \in Nat
  /\ None \notin Runs \cup Providers /\ IsFiniteSet(Runs)

Final     == {"succeeded", "failed", "cancelled"}
Statuses  == {"queued", "running"} \cup Final
\* Where the worker of a run is.
Points    == {"new", "queued", "dispatch", "spawned", "waiting", "outcome", "done",
              "crashed", "lost"}
Children  == {"none", "running", "signalled", "ok", "bad"}
Ids       == 1 .. Cardinality(Runs)

VARIABLES
  status,    \* GenerateRun.status
  result,    \* GenerateRun.provider, once an outcome was recorded
  id,        \* GenerateRun.run_id (the part that len(self._runs) gives)
  listed,    \* the runs in _runs; at most one per id
  procs,     \* the runs whose child is in _procs; at most one per id
  history,   \* the status of the last line that can be read for each id, "absent" if none
  torn,      \* the file ends in a part of a line
  unsaved,   \* auxiliary: ids whose last record is no line of its own since the last restart
  point,     \* the worker threads
  provider,  \* the provider the worker is trying
  ran,       \* DispatchOutcome: the last provider whose child gave an exit code
  child,     \* the child process of each run and provider
  prompt,    \* the content the run's children were started with
  tmp,       \* the content of TMP_PROMPT
  call,      \* the call each API thread is in
  restarts,  \* restarts so far (bound)
  lapses     \* appends that failed so far (bound)

file     == <<history, torn, unsaved, lapses>>
runVars  == <<status, result, file>>
workers  == <<point, provider, ran>>
children == <<child, prompt>>
vars == <<runVars, id, listed, procs, workers, children, tmp, call, restarts>>

Idle == [op |-> "idle", run |-> None, proc |-> None]

\* _append_history.  The last line of an id is the one that _load_history will use,
\* unless it continues a part of a line and cannot be read.
Append(r, s) ==
  /\ history' = IF torn THEN history ELSE [history EXCEPT ![id[r]] = s]
  /\ unsaved' = IF torn THEN unsaved \cup {id[r]} ELSE unsaved \ {id[r]}
  /\ torn' = FALSE
  /\ UNCHANGED lapses

\* An OSError is only logged; a part of the line may have been written.
AppendFails(r) ==
  /\ lapses < MaxLapses
  /\ lapses' = lapses + 1
  /\ torn' \in {torn, TRUE}
  /\ unsaved' = unsaved \cup {id[r]}
  /\ UNCHANGED history

\* The record is changed, then appended to the history, under the lock.
Record(r, s) ==
  /\ status' = [status EXCEPT ![r] = s]
  /\ Append(r, s) \/ AppendFails(r)

\* A dictionary keyed by id, without the entry that has the id of r.
Others(S, r) == {q \in S : id[q] # id[r]}

------------------------------------------------------------------------------
(***************************************************************************)
(* start(): the id is computed outside the lock.                           *)
(***************************************************************************)
Start(a, r) ==
  /\ call[a] = Idle /\ point[r] = "new"
  /\ \A b \in Callers : call[b].run # r
  /\ call' = [call EXCEPT ![a] = [op |-> "start", run |-> r, proc |-> None]]
  /\ id' = [id EXCEPT ![r] = Cardinality(listed) + 1]
  /\ UNCHANGED <<runVars, listed, procs, workers, children, tmp, restarts>>

\* The record is stored and the worker thread started.
Enqueue(a) ==
  LET r == call[a].run IN
  /\ call[a].op = "start"
  /\ listed' = Others(listed, r) \cup {r}
  /\ Record(r, "queued")
  /\ point' = [point EXCEPT ![r] = "queued"]
  /\ call' = [call EXCEPT ![a] = Idle]
  /\ UNCHANGED <<result, id, procs, provider, ran, children, tmp, restarts>>

------------------------------------------------------------------------------
(***************************************************************************)
(* cancel(): the run and its process are read under the lock, the status   *)
(* is tested after it was released, then changed under the lock.           *)
(***************************************************************************)
CancelLook(a, r) ==
  /\ call[a] = Idle /\ r \in listed
  /\ call' = [call EXCEPT ![a] =
       [op |-> "look", run |-> r,
        proc |-> IF \E q \in procs : id[q] = id[r]
                 THEN LET q == CHOOSE q \in procs : id[q] = id[r]
                      IN <<q, provider[q]>>
                 ELSE None]]
  /\ UNCHANGED <<runVars, id, listed, procs, workers, children, tmp, restarts>>

CancelTest(a) ==
  /\ call[a].op = "look"
  /\ call' = [call EXCEPT ![a] =
                IF status[call[a].run] \in Final THEN Idle ELSE [@ EXCEPT !.op = "mark"]]
  /\ UNCHANGED <<runVars, id, listed, procs, workers, children, tmp, restarts>>

CancelUnrecorded(a) ==  \* faulty: not appended to the history
  /\ call[a].op = "mark"
  /\ status' = [status EXCEPT ![call[a].run] = "cancelled"]
  /\ call' = [call EXCEPT ![a].op = "terminate"]
  /\ UNCHANGED <<result, file, id, listed, procs, workers, children, tmp, restarts>>

CancelMark(a) ==
  /\ call[a].op = "mark"
  /\ Record(call[a].run, "cancelled")
  /\ call' = [call EXCEPT ![a].op = "terminate"]
  /\ UNCHANGED <<result, id, listed, procs, workers, children, tmp, restarts>>

CancelTerminate(a) ==
  LET p == call[a].proc IN
  /\ call[a].op = "terminate"
  /\ child' = IF p # None /\ child[p[1]][p[2]] = "running"
              THEN [child EXCEPT ![p[1]][p[2]] = "signalled"] ELSE child
  /\ call' = [call EXCEPT ![a] = Idle]
  /\ UNCHANGED <<runVars, id, listed, procs, workers, prompt, tmp, restarts>>

------------------------------------------------------------------------------
(***************************************************************************)
(* _execute, the worker of a run.                                          *)
(***************************************************************************)
\* _render_prompt writes the one file that all runs share, then the run is
\* marked as running under the lock, unless it was cancelled.
Begin(r) ==
  /\ point[r] = "queued"
  /\ tmp' = r
  /\ IF status[r] = "cancelled"
     THEN /\ point' = [point EXCEPT ![r] = "done"]
          /\ UNCHANGED <<status, file>>
     ELSE /\ Record(r, "running")
          /\ point' = [point EXCEPT ![r] = "dispatch"]
  /\ UNCHANGED <<result, id, listed, procs, provider, ran, children, call, restarts>>

\* The prompt file is gone: the thread dies before the protected part.
RenderFails(r) ==
  /\ point[r] = "queued"
  /\ point' = [point EXCEPT ![r] = "crashed"]
  /\ UNCHANGED <<runVars, id, listed, procs, provider, ran, children, tmp, call, restarts>>

------------------------------------------------------------------------------
(***************************************************************************)
(* dispatch_generate and _run_process.                                     *)
(***************************************************************************)
Spawn(r) ==
  /\ point[r] = "dispatch"
  /\ child' = [child EXCEPT ![r][provider[r]] = "running"]
  /\ prompt' = [prompt EXCEPT ![r] = @ \cup {tmp}]
  /\ point' = [point EXCEPT ![r] = "spawned"]
  /\ UNCHANGED <<runVars, id, listed, procs, provider, ran, tmp, call, restarts>>

RegisterProc(r) ==
  /\ point[r] = "spawned"
  /\ procs' = Others(procs, r) \cup {r}
  /\ point' = [point EXCEPT ![r] = "waiting"]
  /\ UNCHANGED <<runVars, id, listed, provider, ran, children, tmp, call, restarts>>

\* An attempt is over, with an exit code of the current provider or without:
\* a failed primary falls back, everything else goes on to the outcome.
Attempted(r, exited) ==
  LET failed == ~ exited \/ child[r][provider[r]] = "bad" IN
  /\ ran' = [ran EXCEPT ![r] = IF exited THEN provider[r] ELSE @]
  /\ IF failed /\ provider[r] = "opencode" /\ Fallback
     THEN /\ provider' = [provider EXCEPT ![r] = "local"]
          /\ point' = [point EXCEPT ![r] = "dispatch"]
     ELSE /\ point' = [point EXCEPT ![r] = "outcome"]
          /\ UNCHANGED provider

\* The binary is not on PATH, or Popen raises OSError.
SpawnFails(r) ==
  /\ point[r] = "dispatch"
  /\ Attempted(r, FALSE)
  /\ UNCHANGED <<runVars, id, listed, procs, children, tmp, call, restarts>>

Collect(r) ==
  /\ point[r] = "waiting" /\ child[r][provider[r]] \in {"ok", "bad"}
  /\ procs' = Others(procs, r)
  /\ Attempted(r, TRUE)
  /\ UNCHANGED <<runVars, id, listed, children, tmp, call, restarts>>

\* The log cannot be opened once the child runs: the OSError is taken for a
\* failed start, and the child is left to itself.
LogFails(r) ==
  /\ point[r] = "waiting"
  /\ procs' = Others(procs, r)
  /\ Attempted(r, FALSE)
  /\ UNCHANGED <<runVars, id, listed, children, tmp, call, restarts>>

Succeeded(r) == ran[r] # None /\ child[r][ran[r]] = "ok"

OutcomeDespiteCancel(r) ==  \* faulty: recorded over a cancellation
  /\ point[r] = "outcome"
  /\ point' = [point EXCEPT ![r] = "done"]
  /\ Record(r, IF Succeeded(r) THEN "succeeded" ELSE "failed")
  /\ result' = [result EXCEPT ![r] = IF ran[r] # None THEN ran[r] ELSE provider[r]]
  /\ UNCHANGED <<id, listed, procs, provider, ran, children, tmp, call, restarts>>

OutcomeOfLastAttempt(r) ==  \* faulty: names the last provider tried, not the last that ran
  /\ point[r] = "outcome"
  /\ point' = [point EXCEPT ![r] = "done"]
  /\ IF status[r] = "cancelled"
     THEN UNCHANGED runVars
     ELSE /\ Record(r, IF Succeeded(r) THEN "succeeded" ELSE "failed")
          /\ result' = [result EXCEPT ![r] = provider[r]]
  /\ UNCHANGED <<id, listed, procs, provider, ran, children, tmp, call, restarts>>

\* The end of _execute, with the provider that _outcome picks.
Outcome(r) ==
  /\ point[r] = "outcome"
  /\ point' = [point EXCEPT ![r] = "done"]
  /\ IF status[r] = "cancelled"
     THEN UNCHANGED runVars
     ELSE /\ Record(r, IF Succeeded(r) THEN "succeeded" ELSE "failed")
          /\ result' = [result EXCEPT ![r] = IF ran[r] # None THEN ran[r] ELSE provider[r]]
  /\ UNCHANGED <<id, listed, procs, provider, ran, children, tmp, call, restarts>>

------------------------------------------------------------------------------
(***************************************************************************)
(* The environment: children exit; the server is restarted, which ends its *)
(* threads and rebuilds the records from the history.                      *)
(***************************************************************************)
ChildExits(r, p) ==
  /\ child[r][p] \in {"running", "signalled"}
  /\ \E end \in (IF child[r][p] = "running" THEN {"ok", "bad"} ELSE {"bad"}) :
       child' = [child EXCEPT ![r][p] = end]
  /\ UNCHANGED <<runVars, id, listed, procs, workers, prompt, tmp, call, restarts>>

LoadedAsWritten(r) == history[id[r]]  \* faulty: nobody works on the loaded runs

\* _load_history: the runs that have a line that can be read are known again, and one
\* that was queued or running was interrupted.
Loaded(r) == IF history[id[r]] \in Final THEN history[id[r]] ELSE "failed"

Restart ==
  /\ restarts < MaxRestarts
  /\ restarts' = restarts + 1
  /\ listed' = {r \in listed : history[id[r]] # "absent"}
  /\ status' = [r \in Runs |-> IF r \in listed' THEN Loaded(r) ELSE status[r]]
  /\ unsaved' = {} /\ procs' = {}
  /\ point' = [r \in Runs |-> IF point[r] = "new" THEN "new" ELSE "lost"]
  /\ call' = [a \in Callers |-> Idle]
  /\ UNCHANGED <<result, history, torn, lapses, id, provider, ran, children, tmp>>

------------------------------------------------------------------------------
Init ==
  /\ status = [r \in Runs |-> "queued"]
  /\ result = [r \in Runs |-> None]
  /\ id = [r \in Runs |-> 1]
  /\ listed = {} /\ procs = {}
  /\ history = [i \in Ids |-> "absent"]
  /\ torn = FALSE /\ unsaved = {} /\ lapses = 0
  /\ point = [r \in Runs |-> "new"]
  /\ provider = [r \in Runs |-> "opencode"]
  /\ ran = [r \in Runs |-> None]
  /\ child = [r \in Runs |-> [p \in Providers |-> "none"]]
  /\ prompt = [r \in Runs |-> {}]
  /\ tmp = None
  /\ call = [a \in Callers |-> Idle]
  /\ restarts = 0

Call(a) == \E r \in Runs : Start(a, r) \/ CancelLook(a, r)
CallStep(a) == Enqueue(a) \/ CancelTest(a) \/ CancelMark(a) \/ CancelTerminate(a)

Worker(r) ==
  \/ Begin(r) \/ RenderFails(r) \/ Spawn(r) \/ SpawnFails(r)
  \/ RegisterProc(r) \/ Collect(r) \/ LogFails(r) \/ Outcome(r)

Next ==
  \/ \E a \in Callers : Call(a) \/ CallStep(a)
  \/ \E r \in Runs : Worker(r) \/ \E p \in Providers : ChildExits(r, p)
  \/ Restart

Spec == Init /\ [][Next]_vars

(***************************************************************************)
(* Threads go on and children end: each is a thread or a process of its    *)
(* own that waits only for what the others release at once.                *)
(***************************************************************************)
Fairness ==
  /\ \A r \in Runs : /\ WF_vars(Worker(r))
                     /\ \A p \in Providers : WF_vars(ChildExits(r, p))
  /\ \A a \in Callers : WF_vars(CallStep(a))

FairSpec == Spec /\ Fairness

------------------------------------------------------------------------------
\* Types; _procs holds only children that their worker waits for.
CallRecord == [op   : {"idle", "start", "look", "mark", "terminate"},
               run  : Runs \cup {None},
               proc : (Runs \X Providers) \cup {None}]

TypeOK ==
  /\ status \in [Runs -> Statuses]
  /\ result \in [Runs -> Providers \cup {None}] /\ ran \in [Runs -> Providers \cup {None}]
  /\ id \in [Runs -> Ids]
  /\ listed \subseteq Runs /\ procs \subseteq {r \in Runs : point[r] = "waiting"}
  /\ history \in [Ids -> Statuses \cup {"absent"}]
  /\ torn \in BOOLEAN /\ unsaved \subseteq Ids /\ lapses \in Nat
  /\ point \in [Runs -> Points] /\ provider \in [Runs -> Providers]
  /\ child \in [Runs -> [Providers -> Children]]
  /\ prompt \in [Runs -> SUBSET (Runs \cup {None})] /\ tmp \in Runs \cup {None}
  /\ call \in [Callers -> CallRecord]
  /\ \A a \in Callers : (call[a].op = "idle") <=> (call[a].run = None)
  /\ restarts \in Nat

\* No two runs that were started have the same id.  It need not hold: an id is
\* the second and a count that start() reads outside the lock.
IdsApart ==
  \A r, q \in Runs : point[r] # "new" /\ point[q] # "new" /\ id[r] = id[q] => r = q

\* The record names the provider whose process gave the exit code, although a
\* fallback may have been tried after it in vain (_outcome).
ProviderIsHonest ==
  \A r \in Runs : result[r] # None =>
    /\ ran[r] # None => child[r][result[r]] \in {"ok", "bad"}
    /\ point[r] = "done" /\ status[r] = "succeeded" => child[r][result[r]] = "ok"

\* A cancelled run stays cancelled: no worker, call or start makes anything else of it,
\* whenever the cancellation arrives, and neither does a restart.  Two exceptions: runs
\* that share an id (~ IdsApart), and, over a restart, a run whose last record could not
\* be appended to the history or read from it (unsaved), for that failure is only logged.
CancelledStaysCancelled ==
  [][IdsApart => \A r \in listed :
       status[r] = "cancelled" =>
         status'[r] = "cancelled" \/ (Restart /\ id[r] \in unsaved)]_vars

\* After a restart every run that had ended is known and has the outcome it had, although
\* appends to the history fail and leave parts of lines behind.  The same two exceptions:
\* runs that share an id, and a run whose own last record is unsaved.
RestartKeepsOutcomes ==
  [][IdsApart /\ Restart => \A r \in listed :
       status[r] \in Final /\ id[r] \notin unsaved =>
         r \in listed' /\ status'[r] = status[r]]_vars

\* Every run ends, except one whose prompt file disappeared before its worker could
\* render it, and one that a restart forgot because none of its records was saved.
RunsEnd ==
  \A r \in Runs : r \in listed ~>
    \/ status[r] \in Final \/ point[r] = "crashed"
    \/ point[r] = "lost" /\ r \notin listed
==============================================================================
