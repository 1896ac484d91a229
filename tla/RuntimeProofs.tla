---------------------------- MODULE RuntimeProofs ----------------------------
(***************************************************************************)
(* Proofs about RuntimeLifecycle and ReadModel: for any number of workers, *)
(* threads and calls, and for any logs, lines, rebuilds and failures.      *)
(***************************************************************************)
EXTENDS RuntimeLifecycle, ReadModel, FiniteSetTheorems, WellFoundedInduction, TLAPS

------------------------------------------------------------------------------
(***************************************************************************)
(* RuntimeLifecycle: a worker has one thread.                              *)
(***************************************************************************)
OperatorTypes ==
  /\ ref \in [Names -> 0 .. MaxThreads]
  /\ threads \in [Names -> [Slots -> Points]]
  /\ pc \in {"start_workers", "stop_workers", "join"} => todo \in Seq(Names)
  /\ pc = "join" => todo # <<>> /\ ref[Head(todo)] # 0

\* A thread that is alive is the one the worker refers to, unless a join timed out.
OnlyRef == \A w \in Names \ overran, k \in Slots : Alive(w, k) => k = ref[w]

LifecycleInv == OperatorTypes /\ OnlyRef

LEMMA ListTail ==
  ASSUME NEW S, NEW s \in Seq(S), s # <<>>
  PROVE  Head(s) \in S /\ Tail(s) \in Seq(S)
  OBVIOUS

LEMMA WorkersAreNames == Workers \in Seq(Names)
  BY LifecycleAssumption DEF Names, ToSet

\* A thread goes on: it was alive, and the others stay what they are.
LEMMA MoveDoes ==
  ASSUME OperatorTypes, NEW w \in Names, NEW k \in Slots, NEW p \in Points, Alive(w, k),
         Move(w, k, p)
  PROVE  /\ threads' \in [Names -> [Slots -> Points]]
         /\ \A v \in Names, j \in Slots : Alive(v, j)' => Alive(v, j)
  BY DEF Move, Alive, OperatorTypes

LEMMA ThreadKeeps ==
  ASSUME LifecycleInv, NEW w \in Names, NEW k \in Slots, Thread(w, k)
  PROVE  LifecycleInv'
<1>1. \E p \in Points : Alive(w, k) /\ Move(w, k, p)
  <2>1. CASE Wake(w, k)
    BY <2>1 DEF Wake, Points, Alive
  <2>2. CASE EndPass(w, k)
    BY <2>2 DEF EndPass, Points, Alive
  <2>3. CASE NeedLock(w, k)
    BY <2>3 DEF NeedLock, Points, Alive
  <2>4. CASE PassLock(w, k)
    BY <2>4 DEF PassLock, Points, Alive
  <2>5. CASE Report(w, k)
    BY <2>5 DEF Report, Points, Alive
  <2>6. CASE Degrade(w, k)
    BY <2>6 DEF Degrade, Points, Alive
  <2>7. CASE EndRest(w, k)
    BY <2>7 DEF EndRest, Points, Alive
  <2> QED
    BY <2>1, <2>2, <2>3, <2>4, <2>5, <2>6, <2>7 DEF Thread
<1>2. UNCHANGED <<ref, overran, operator>>
  BY DEF Thread, Wake, EndPass, NeedLock, PassLock, Report, Degrade, EndRest
<1>3. threads' \in [Names -> [Slots -> Points]]
      /\ \A v \in Names, j \in Slots : Alive(v, j)' => Alive(v, j)
  BY <1>1, MoveDoes DEF LifecycleInv
<1>4. OperatorTypes'
  BY <1>2, <1>3 DEF LifecycleInv, OperatorTypes, operator
<1> QED
  BY <1>2, <1>3, <1>4 DEF LifecycleInv, OnlyRef

\* A step that leaves the workers alone and goes to no step of theirs, or begins with them all.
LEMMA WorkersRest ==
  ASSUME LifecycleInv, UNCHANGED workers,
         pc' \in {"start_workers", "stop_workers", "join"} => todo' = Workers,
         pc' # "join"
  PROVE  LifecycleInv'
<1>1. UNCHANGED <<ref, threads, overran>>
  BY DEF workers
<1>2. OperatorTypes'
  BY <1>1, WorkersAreNames DEF LifecycleInv, OperatorTypes
<1> QED
  BY <1>1, <1>2 DEF LifecycleInv, OnlyRef, Alive

LEMMA OneThreadKept ==
  ASSUME LifecycleInv, [Next]_vars
  PROVE  LifecycleInv'
<1>1. CASE Start
  <2>1. UNCHANGED workers /\ pc' # "join"
        /\ (pc' \in {"start_workers", "stop_workers"} => todo' = Workers)
    BY <1>1 DEF Start, Call, GoTo, Return, BeginStart, BeginStop, FailStart
  <2> QED
    BY <2>1, WorkersRest
<1>2. CASE Restart
  <2>1. UNCHANGED workers /\ pc' # "join"
        /\ (pc' \in {"start_workers", "stop_workers"} => todo' = Workers)
    BY <1>2 DEF Restart, Call, GoTo, Return, BeginStart, BeginStop, FailStart
  <2> QED
    BY <2>1, WorkersRest
<1>3. ASSUME NEW forced \in BOOLEAN, Stop(forced) PROVE LifecycleInv'
  <2>1. UNCHANGED workers /\ pc' # "join"
        /\ (pc' \in {"start_workers", "stop_workers"} => todo' = Workers)
    BY <1>3 DEF Stop, Call, GoTo, Return, BeginStart, BeginStop, FailStart
  <2> QED
    BY <2>1, WorkersRest
<1>4. CASE LoadSteps
  <2>1. UNCHANGED workers /\ pc' # "join"
        /\ (pc' \in {"start_workers", "stop_workers"} => todo' = Workers)
    BY <1>4 DEF LoadSteps, Call, GoTo, Return, BeginStart, BeginStop, FailStart
  <2> QED
    BY <2>1, WorkersRest
<1>5. CASE StartEngine
  <2>1. UNCHANGED workers /\ pc' # "join"
        /\ (pc' \in {"start_workers", "stop_workers"} => todo' = Workers)
    BY <1>5 DEF StartEngine, Call, GoTo, Return, BeginStart, BeginStop, FailStart
  <2> QED
    BY <2>1, WorkersRest
<1>6. CASE EnginesStarted
  <2>1. UNCHANGED workers /\ pc' # "join"
        /\ (pc' \in {"start_workers", "stop_workers"} => todo' = Workers)
    BY <1>6 DEF EnginesStarted, Call, GoTo, Return, BeginStart, BeginStop, FailStart
  <2> QED
    BY <2>1, WorkersRest
<1>7. CASE StartWorker
  <2> DEFINE w == Head(todo)
  <2>1. pc = "start_workers" /\ todo # <<>> /\ pc' = pc /\ todo' = Tail(todo)
        /\ UNCHANGED overran
    BY <1>7 DEF StartWorker, GoTo
  <2>2. w \in Names /\ Tail(todo) \in Seq(Names)
    BY <2>1, ListTail DEF LifecycleInv, OperatorTypes
  <2>3. CASE ref[w] # 0 /\ Alive(w, ref[w])
    <3>1. UNCHANGED <<ref, threads>>
      BY <1>7, <2>3 DEF StartWorker
    <3> QED
      BY <2>1, <2>2, <3>1 DEF LifecycleInv, OperatorTypes, OnlyRef, Alive
  <2>4. CASE ~ (ref[w] # 0 /\ Alive(w, ref[w]))
    <3>1. PICK k \in Slots : /\ threads[w][k] = "none" /\ ref' = [ref EXCEPT ![w] = k]
                             /\ Move(w, k, "pass")
      BY <1>7, <2>4 DEF StartWorker
    <3>2. threads' = [threads EXCEPT ![w][k] = "pass"] /\ k \in 0 .. MaxThreads /\ k # 0
      BY <3>1 DEF Move, Slots
    <3>3. /\ threads' \in [Names -> [Slots -> Points]]
          /\ \A v \in Names, j \in Slots :
               threads'[v][j] = IF v = w /\ j = k THEN "pass" ELSE threads[v][j]
      BY <2>2, <3>2 DEF LifecycleInv, OperatorTypes, Points
    <3>4. ref' \in [Names -> 0 .. MaxThreads] /\ ref'[w] = k
          /\ \A v \in Names : v # w => ref'[v] = ref[v]
      BY <2>2, <3>1, <3>2 DEF LifecycleInv, OperatorTypes
    <3>5. OperatorTypes'
      BY <2>1, <2>2, <3>3, <3>4 DEF OperatorTypes
    <3>6. ASSUME NEW v \in Names \ overran', NEW j \in Slots, Alive(v, j)' PROVE j = ref'[v]
      <4>1. CASE v = w
        <5>1. Alive(w, j) => j = ref[w]
          BY <2>1, <3>6, <4>1 DEF LifecycleInv, OnlyRef
        <5>2. j # 0
          BY DEF Slots
        <5>3. ~ Alive(w, j)
          BY <2>4, <5>1, <5>2
        <5> QED
          BY <3>3, <3>4, <3>6, <4>1, <5>3 DEF Alive
      <4>2. CASE v # w
        BY <2>1, <3>3, <3>4, <3>6, <4>2 DEF LifecycleInv, OnlyRef, Alive
      <4> QED
        BY <4>1, <4>2
    <3> QED
      BY <3>5, <3>6 DEF LifecycleInv, OnlyRef
  <2> QED
    BY <2>3, <2>4
<1>8. CASE WorkersStarted
  <2>1. UNCHANGED workers /\ pc' # "join"
        /\ (pc' \in {"start_workers", "stop_workers"} => todo' = Workers)
    BY <1>8 DEF WorkersStarted, Call, GoTo, Return, BeginStart, BeginStop, FailStart
  <2> QED
    BY <2>1, WorkersRest
<1>9. CASE RegisterJobs
  <2>1. UNCHANGED workers /\ pc' # "join"
        /\ (pc' \in {"start_workers", "stop_workers"} => todo' = Workers)
    BY <1>9 DEF RegisterJobs, Call, GoTo, Return, BeginStart, BeginStop, FailStart
  <2> QED
    BY <2>1, WorkersRest
<1>10. CASE MarkReady
  <2>1. UNCHANGED workers /\ pc' # "join"
        /\ (pc' \in {"start_workers", "stop_workers"} => todo' = Workers)
    BY <1>10 DEF MarkReady, Call, GoTo, Return, BeginStart, BeginStop, FailStart
  <2> QED
    BY <2>1, WorkersRest
<1>11. CASE StopWorker
  <2>1. UNCHANGED <<ref, threads, overran>> /\ pc = "stop_workers" /\ todo # <<>>
        /\ todo \in Seq(Names)
    BY <1>11 DEF StopWorker, LifecycleInv, OperatorTypes
  <2>2. Tail(todo) \in Seq(Names)
    BY <2>1, ListTail
  <2>3. \/ pc' = "stop_workers" /\ todo' = Tail(todo)
        \/ pc' = "join" /\ todo' = todo /\ ref[Head(todo)] # 0
    BY <1>11, <2>1 DEF StopWorker, GoTo
  <2>4. OperatorTypes'
    BY <2>1, <2>2, <2>3 DEF LifecycleInv, OperatorTypes
  <2> QED
    BY <2>1, <2>4 DEF LifecycleInv, OnlyRef, Alive
<1>12. CASE Join
  <2> DEFINE w == Head(todo)
  <2>1. /\ pc = "join" /\ pc' = "stop_workers" /\ todo' = Tail(todo) /\ threads' = threads
        /\ ref' = [ref EXCEPT ![w] = 0]
        /\ overran' = IF Alive(w, ref[w]) THEN overran \cup {w} ELSE overran
    BY <1>12 DEF Join, GoTo
  <2>2. w \in Names /\ Tail(todo) \in Seq(Names)
    BY <2>1, ListTail DEF LifecycleInv, OperatorTypes
  <2> HIDE DEF w
  <2>3. ref' \in [Names -> 0 .. MaxThreads] /\ \A v \in Names : v # w => ref'[v] = ref[v]
    BY <2>1, <2>2, LifecycleAssumption DEF LifecycleInv, OperatorTypes
  <2>4. OperatorTypes'
    BY <2>1, <2>2, <2>3 DEF LifecycleInv, OperatorTypes
  <2>5. ASSUME NEW v \in Names \ overran', NEW k \in Slots, Alive(v, k)' PROVE k = ref'[v]
    <3>1. Alive(v, k) /\ v \notin overran
      BY <2>1, <2>5 DEF Alive
    <3>2. k = ref[v]
      BY <3>1 DEF LifecycleInv, OnlyRef
    <3>3. v # w
      BY <2>1, <2>5, <3>1, <3>2
    <3> QED
      BY <2>3, <3>2, <3>3
  <2> QED
    BY <2>4, <2>5 DEF LifecycleInv, OnlyRef
<1>13. CASE WorkersStopped
  <2>1. UNCHANGED workers /\ pc' # "join"
        /\ (pc' \in {"start_workers", "stop_workers"} => todo' = Workers)
    BY <1>13 DEF WorkersStopped, Call, GoTo, Return, BeginStart, BeginStop, FailStart
  <2> QED
    BY <2>1, WorkersRest
<1>14. CASE StopEngine
  <2>1. UNCHANGED workers /\ pc' # "join"
        /\ (pc' \in {"start_workers", "stop_workers"} => todo' = Workers)
    BY <1>14 DEF StopEngine, Call, GoTo, Return, BeginStart, BeginStop, FailStart
  <2> QED
    BY <2>1, WorkersRest
<1>15. CASE StopEngineFails
  <2>1. UNCHANGED workers /\ pc' # "join"
        /\ (pc' \in {"start_workers", "stop_workers"} => todo' = Workers)
    BY <1>15 DEF StopEngineFails, Call, GoTo, Return, BeginStart, BeginStop, FailStart
  <2> QED
    BY <2>1, WorkersRest
<1>16. CASE EnginesStopped
  <2>1. UNCHANGED workers /\ pc' # "join"
        /\ (pc' \in {"start_workers", "stop_workers"} => todo' = Workers)
    BY <1>16 DEF EnginesStopped, Call, GoTo, Return, BeginStart, BeginStop, FailStart
  <2> QED
    BY <2>1, WorkersRest
<1>17. CASE StopProcesses
  <2>1. UNCHANGED workers /\ pc' # "join"
        /\ (pc' \in {"start_workers", "stop_workers"} => todo' = Workers)
    BY <1>17 DEF StopProcesses, Call, GoTo, Return, BeginStart, BeginStop, FailStart
  <2> QED
    BY <2>1, WorkersRest
<1>18. CASE Finalize
  <2>1. UNCHANGED workers /\ pc' # "join"
        /\ (pc' \in {"start_workers", "stop_workers"} => todo' = Workers)
    BY <1>18 DEF Finalize, Call, GoTo, Return, BeginStart, BeginStop, FailStart
  <2> QED
    BY <2>1, WorkersRest
<1>19. CASE StartAgain
  <2>1. UNCHANGED workers /\ pc' # "join"
        /\ (pc' \in {"start_workers", "stop_workers"} => todo' = Workers)
    BY <1>19 DEF StartAgain, Call, GoTo, Return, BeginStart, BeginStop, FailStart
  <2> QED
    BY <2>1, WorkersRest
<1>20. ASSUME NEW w \in Names, NEW k \in Slots, Thread(w, k) PROVE LifecycleInv'
  BY <1>20, ThreadKeeps
<1>21. CASE UNCHANGED vars
  BY <1>21 DEF vars, workers, operator, LifecycleInv, OperatorTypes, OnlyRef, Alive
<1> QED
  BY <1>1, <1>2, <1>3, <1>4, <1>5, <1>6, <1>7, <1>8, <1>9, <1>10, <1>11, <1>12, <1>13,
     <1>14, <1>15, <1>16, <1>17, <1>18, <1>19, <1>20, <1>21 DEF Next, Calls, CallSteps

\* A worker has one thread, over any sequence of failed starts, starts, stops and restarts,
\* unless one of its threads outlived the join of its stop().
THEOREM WorkersHaveOneThread == Spec => []OneThread
<1>1. Init => LifecycleInv
  <2> SUFFICES ASSUME Init PROVE LifecycleInv
    OBVIOUS
  <2>1. OperatorTypes
    BY LifecycleAssumption DEF Init, OperatorTypes, Points
  <2> QED
    BY <2>1 DEF Init, LifecycleInv, OnlyRef, Alive
<1>2. LifecycleInv /\ [Next]_vars => LifecycleInv'
  BY OneThreadKept
<1>3. LifecycleInv => OneThread
  <2> SUFFICES ASSUME LifecycleInv, NEW w \in Names \ overran
               PROVE  Cardinality({k \in Slots : Alive(w, k)}) <= 1
    BY DEF OneThread
  <2>1. {k \in Slots : Alive(w, k)} \in SUBSET {ref[w]}
    BY DEF LifecycleInv, OnlyRef
  <2>2. IsFiniteSet({ref[w]}) /\ Cardinality({ref[w]}) = 1
    BY FS_Singleton
  <2> QED
    BY <2>1, <2>2, FS_Subset
<1> QED
  BY <1>1, <1>2, <1>3, PTL DEF Spec

------------------------------------------------------------------------------
(***************************************************************************)
(* Sequences of lines.                                                     *)
(***************************************************************************)
LEMMA EmptyLines == <<>> \in Seq(Nat) /\ Len(<<>>) = 0 /\ Range(<<>>) = {}
  BY DEF Range

LEMMA LineTypes ==
  ASSUME NEW s \in Seq(Nat)
  PROVE  /\ Len(s) \in Nat /\ DOMAIN s = 1 .. Len(s) /\ Range(s) \subseteq Nat
         /\ \A i \in 1 .. Len(s) : s[i] \in Nat /\ s[i] \in Range(s)
         /\ \A x \in Range(s) : \E i \in 1 .. Len(s) : s[i] = x
  BY DEF Range

\* Two sequences are equal when they have the same length and the same elements.
LEMMA SameLines ==
  ASSUME NEW s \in Seq(Nat), NEW r \in Seq(Nat), Len(s) = Len(r),
         \A i \in 1 .. Len(s) : s[i] = r[i]
  PROVE  s = r
  OBVIOUS

LEMMA OneMoreLine ==
  ASSUME NEW s \in Seq(Nat), NEW x \in Nat
  PROVE  /\ Append(s, x) \in Seq(Nat) /\ Len(Append(s, x)) = Len(s) + 1
         /\ Append(s, x)[Len(s) + 1] = x /\ \A i \in 1 .. Len(s) : Append(s, x)[i] = s[i]
         /\ Range(Append(s, x)) = Range(s) \cup {x}
<1> DEFINE a == Append(s, x)
<1>1. /\ a \in Seq(Nat) /\ Len(a) = Len(s) + 1 /\ Len(s) \in Nat
      /\ a[Len(s) + 1] = x /\ \A i \in 1 .. Len(s) : a[i] = s[i]
  OBVIOUS
<1>2. DOMAIN a = 1 .. (Len(s) + 1) /\ DOMAIN s = 1 .. Len(s)
  BY <1>1
<1> HIDE DEF a
<1>3. Range(a) \subseteq Range(s) \cup {x}
  <2> SUFFICES ASSUME NEW i \in 1 .. (Len(s) + 1) PROVE a[i] \in Range(s) \cup {x}
    BY <1>2 DEF Range
  <2>1. CASE i = Len(s) + 1
    BY <1>1, <2>1
  <2>2. CASE i # Len(s) + 1
    <3>1. i \in 1 .. Len(s)
      BY <1>1, <2>2
    <3> QED
      BY <1>1, <1>2, <3>1 DEF Range
  <2> QED
    BY <2>1, <2>2
<1>4. Range(s) \subseteq Range(a)
  BY <1>1, <1>2 DEF Range
<1>5. x \in Range(a)
  BY <1>1, <1>2 DEF Range
<1> QED
  BY <1>1, <1>3, <1>4, <1>5 DEF a

LEMMA Piece ==
  ASSUME NEW s \in Seq(Nat), NEW a \in Nat \ {0}, NEW b \in Nat, a <= b + 1, b <= Len(s)
  PROVE  /\ Len(SubSeq(s, a, b)) = b - a + 1
         /\ \A k \in 1 .. (b - a + 1) : SubSeq(s, a, b)[k] = s[a + k - 1]
<1>1. Len(s) \in Nat
  OBVIOUS
<1> QED
  BY <1>1

\* The lines behind the position m.
LEMMA LinesBehind ==
  ASSUME NEW s \in Seq(Nat), NEW m \in Nat
  PROVE  LET r == SubSeq(s, m + 1, Len(s)) IN
         /\ r \in Seq(Nat) /\ Range(r) \subseteq Range(s)
         /\ m <= Len(s) => /\ Len(r) = Len(s) - m
                           /\ \A k \in 1 .. Len(r) : r[k] = s[m + k]
<1> DEFINE r == SubSeq(s, m + 1, Len(s))
<1>1. Len(s) \in Nat /\ DOMAIN s = 1 .. Len(s)
  OBVIOUS
<1>2. r \in Seq(Nat)
  BY <1>1
<1>3. DOMAIN r = 1 .. Len(r) /\ Len(r) \in Nat
  BY <1>2
<1>4. CASE m <= Len(s)
  <2>1. Len(r) = Len(s) - m /\ \A k \in 1 .. (Len(s) - m) : r[k] = s[m + k]
    <3> DEFINE a == m + 1
    <3>1. a \in Nat \ {0} /\ a <= Len(s) + 1 /\ Len(s) - a + 1 = Len(s) - m
      BY <1>1, <1>4
    <3>3. r = SubSeq(s, a, Len(s)) /\ \A k \in 1 .. (Len(s) - m) : a + k - 1 = m + k
      BY <1>1
    <3> HIDE DEF r, a
    <3>2. Len(r) = Len(s) - a + 1 /\ \A k \in 1 .. (Len(s) - a + 1) : r[k] = s[a + k - 1]
      <4>1. Len(s) <= Len(s)
        BY <1>1
      <4> QED
        BY <1>1, <3>1, <3>3, <4>1, Piece, Zenon
    <3> QED
      BY <3>1, <3>2, <3>3
  <2> HIDE DEF r
  <2>2. \A k \in 1 .. Len(r) : m + k \in 1 .. Len(s) /\ r[k] = s[m + k]
    BY <1>1, <1>3, <1>4, <2>1
  <2>3. Range(r) \subseteq Range(s)
    BY <1>1, <1>3, <2>2 DEF Range
  <2> QED
    BY <1>2, <2>1, <2>2, <2>3 DEF r
<1>5. CASE ~ (m <= Len(s))
  <2>1. r = <<>>
    BY <1>1, <1>5
  <2> HIDE DEF r
  <2>2. Range(r) \subseteq Range(s)
    BY <2>1, EmptyLines
  <2> QED
    BY <1>2, <1>5, <2>2 DEF r
<1> QED
  BY <1>4, <1>5

LEMMA JoinedLines ==
  ASSUME NEW s \in Seq(Nat), NEW r \in Seq(Nat)
  PROVE  /\ s \o r \in Seq(Nat) /\ Len(s \o r) = Len(s) + Len(r)
         /\ \A i \in 1 .. Len(s) : (s \o r)[i] = s[i]
         /\ \A i \in 1 .. Len(r) : (s \o r)[Len(s) + i] = r[i]
         /\ Range(s \o r) = Range(s) \cup Range(r)
<1> DEFINE a == s \o r
<1>1. Len(s) \in Nat /\ Len(r) \in Nat /\ DOMAIN s = 1 .. Len(s) /\ DOMAIN r = 1 .. Len(r)
  OBVIOUS
<1>2. a \in Seq(Nat) /\ Len(a) = Len(s) + Len(r)
      /\ \A i \in 1 .. (Len(s) + Len(r)) : a[i] = IF i <= Len(s) THEN s[i] ELSE r[i - Len(s)]
  BY <1>1
<1>3. DOMAIN a = 1 .. (Len(s) + Len(r))
  BY <1>1, <1>2
<1> HIDE DEF a
<1>4. \A i \in 1 .. Len(s) : i \in DOMAIN a /\ a[i] = s[i]
  BY <1>1, <1>2, <1>3
<1>5. ASSUME NEW i \in 1 .. Len(r) PROVE Len(s) + i \in DOMAIN a /\ a[Len(s) + i] = r[i]
  <2> DEFINE j == Len(s) + i
  <2>1. j \in 1 .. (Len(s) + Len(r)) /\ ~ (j <= Len(s)) /\ j - Len(s) = i
    BY <1>1
  <2> HIDE DEF j
  <2>2. a[j] = r[i]
    BY <1>2, <2>1
  <2> QED
    BY <1>3, <2>1, <2>2 DEF j
<1>6. ASSUME NEW i \in DOMAIN a PROVE a[i] \in Range(s) \cup Range(r)
  <2>1. CASE i <= Len(s)
    BY <1>1, <1>2, <1>3, <2>1 DEF Range
  <2>2. CASE ~ (i <= Len(s))
    <3>1. i - Len(s) \in 1 .. Len(r) /\ a[i] = r[i - Len(s)]
      BY <1>1, <1>2, <1>3, <2>2
    <3> QED
      BY <1>1, <3>1 DEF Range
  <2> QED
    BY <2>1, <2>2
<1>7. Range(a) \subseteq Range(s) \cup Range(r)
  BY <1>6 DEF Range
<1>8. Range(s) \subseteq Range(a) /\ Range(r) \subseteq Range(a)
  BY <1>1, <1>4, <1>5 DEF Range
<1> QED
  BY <1>2, <1>4, <1>5, <1>7, <1>8 DEF a

------------------------------------------------------------------------------
(***************************************************************************)
(* What INSERT OR IGNORE leaves: the rows and what was new.                *)
(***************************************************************************)
LEMMA Least ==
  ASSUME NEW S \in SUBSET Nat, S # {}
  PROVE  \E m \in S : \A k \in S : m <= k
<1>1. IsWellFoundedOn(OpToRel(<, Nat), Nat)
  BY NatLessThanWellFounded
<1>2. \E x \in S : \A y \in S : ~ (<<y, x>> \in OpToRel(<, Nat))
  BY <1>1, WFMin
<1>3. \A x, y \in Nat : <<y, x>> \in OpToRel(<, Nat) <=> y < x
  BY DEF OpToRel
<1>4. PICK x \in S : \A y \in S : ~ (<<y, x>> \in OpToRel(<, Nat))
  BY <1>2, Zenon
<1>5. ASSUME NEW k \in S PROVE x <= k
  <2>1. ~ (k < x)
    BY <1>3, <1>4, Zenon
  <2> QED
    BY <2>1
<1> QED
  BY <1>5, Zenon

\* The first position in a sequence at which a line stands.
LEMMA FirstPlace ==
  ASSUME NEW s \in Seq(Nat), NEW x \in Range(s)
  PROVE  \E i \in 1 .. Len(s) : s[i] = x /\ \A j \in 1 .. i - 1 : s[j] # x
<1> DEFINE S == {i \in 1 .. Len(s) : s[i] = x}
<1>1. S \in SUBSET Nat /\ S # {}
  BY LineTypes
<1>2. PICK i \in S : \A k \in S : i <= k
  BY <1>1, Least, Zenon
<1>3. ASSUME NEW j \in 1 .. i - 1 PROVE s[j] # x
  BY <1>2, <1>3, LineTypes
<1> QED
  BY <1>2, <1>3

\* The place of a position among those found numbers them from one on.
LEMMA Places ==
  ASSUME NEW n \in Nat, NEW found \in SUBSET (1 .. n)
  PROVE  LET place(i) == Cardinality({j \in found : j <= i}) IN
         /\ Cardinality(found) \in Nat
         /\ \A k \in 1 .. Cardinality(found) : \E i \in found : place(i) = k
         /\ \A i \in found : place(i) \in 1 .. Cardinality(found)
         /\ \A i, j \in found : place(i) = place(j) => i = j
<1> DEFINE upto(i) == {j \in found : j <= i}
           f == [i \in found |-> Cardinality(upto(i))]
           T == 1 .. Cardinality(found)
<1>1. IsFiniteSet(found) /\ Cardinality(found) \in Nat
  <2>1. IsFiniteSet(1 .. n)
    BY FS_Interval
  <2>2. IsFiniteSet(found)
    BY <2>1, FS_Subset
  <2> QED
    BY <2>2, FS_CardinalityType
<1>2. \A i \in found : upto(i) \in SUBSET found
  OBVIOUS
<1>3. \A i \in found : i \in upto(i)
  OBVIOUS
<1>4. ASSUME NEW i \in found, NEW j \in found, i < j
      PROVE  upto(i) \subseteq upto(j) /\ j \notin upto(i)
  <2>1. \A k \in found : k <= i => k <= j
    BY <1>4
  <2>2. ~ (j <= i)
    BY <1>4
  <2> QED
    BY <2>1, <2>2
<1> HIDE DEF upto
<1>5. ASSUME NEW i \in found
      PROVE  IsFiniteSet(upto(i)) /\ Cardinality(upto(i)) \in T
  <2>1. IsFiniteSet(upto(i)) /\ Cardinality(upto(i)) <= Cardinality(found)
    BY <1>1, <1>2, FS_Subset
  <2>2. Cardinality(upto(i)) \in Nat
    BY <2>1, FS_CardinalityType
  <2>3. Cardinality(upto(i)) # 0
    BY <1>3, <2>1, FS_EmptySet
  <2> QED
    BY <1>1, <2>1, <2>2, <2>3
<1>6. ASSUME NEW i \in found, NEW j \in found, i < j
      PROVE  Cardinality(upto(i)) # Cardinality(upto(j))
  <2>1. IsFiniteSet(upto(j)) /\ upto(i) \in SUBSET upto(j)
    BY <1>4, <1>5, <1>6
  <2>2. Cardinality(upto(j)) = Cardinality(upto(i)) => upto(j) = upto(i)
    BY <2>1, FS_Subset
  <2>3. j \in upto(j) /\ j \notin upto(i)
    BY <1>3, <1>4, <1>6
  <2> QED
    BY <2>2, <2>3
<1>7. \A i, j \in found : Cardinality(upto(i)) = Cardinality(upto(j)) => i = j
  <2> SUFFICES ASSUME NEW i \in found, NEW j \in found, i # j
               PROVE  Cardinality(upto(i)) # Cardinality(upto(j))
    OBVIOUS
  <2>1. i < j \/ j < i
    OBVIOUS
  <2> QED
    BY <1>6, <2>1
<1>8. f \in Injection(found, T)
  BY <1>5, <1>7 DEF Injection, IsInjective
<1>9. IsFiniteSet(T) /\ Cardinality(T) = Cardinality(found)
  <2>1. IsFiniteSet(T) /\ Cardinality(T) = IF 1 > Cardinality(found) THEN 0
                                           ELSE Cardinality(found) - 1 + 1
    BY <1>1, FS_Interval
  <2> HIDE DEF T
  <2> QED
    BY <1>1, <2>1
<1> HIDE DEF f
<1>10. f \in Surjection(found, T)
  BY <1>8, <1>9, FS_Injection
<1>11. \A k \in T : \E i \in found : f[i] = k
  BY <1>10 DEF Surjection
<1>12. \A k \in T : \E i \in found : Cardinality(upto(i)) = k
  BY <1>11 DEF f
<1> QED
  BY <1>1, <1>5, <1>7, <1>12 DEF upto

LEMMA PickedLines ==
  ASSUME NEW s \in Seq(Nat), NEW found \in SUBSET DOMAIN s
  PROVE  Picked(s, found) \in Seq(Nat) /\ Range(Picked(s, found)) = {s[i] : i \in found}
<1> DEFINE place(i) == Cardinality({j \in found : j <= i})
           at(k) == CHOOSE i \in found : place(i) = k
           n == Cardinality(found)
<1>1. Len(s) \in Nat /\ found \in SUBSET (1 .. Len(s))
  OBVIOUS
<1>2. /\ n \in Nat
      /\ \A k \in 1 .. n : \E i \in found : place(i) = k
      /\ \A i \in found : place(i) \in 1 .. n
      /\ \A i, j \in found : place(i) = place(j) => i = j
  BY <1>1, Places
<1>3. Picked(s, found) = [k \in 1 .. n |-> s[at(k)]]
  BY DEF Picked
<1> HIDE DEF place, n
<1>4. \A k \in 1 .. n : at(k) \in found /\ place(at(k)) = k
  BY <1>2
<1>5. \A i \in found : at(place(i)) = i
  BY <1>2, <1>4
<1> HIDE DEF at
<1>6. \A k \in 1 .. n : s[at(k)] \in Nat
  BY <1>1, <1>4
<1>7. [k \in 1 .. n |-> s[at(k)]] \in Seq(Nat)
  BY <1>2, <1>6
<1>8. Range([k \in 1 .. n |-> s[at(k)]]) = {s[i] : i \in found}
  BY <1>2, <1>4, <1>5 DEF Range
<1> QED
  BY <1>3, <1>7, <1>8

LEMMA IgnoringLines ==
  ASSUME NEW rows \in Seq(Nat), NEW new \in Seq(Nat)
  PROVE  /\ Ignoring(rows, new) \in Seq(Nat)
         /\ Range(Ignoring(rows, new)) = Range(rows) \cup Range(new)
<1> DEFINE first == {i \in DOMAIN new :
                       new[i] \notin Range(rows) /\ \A j \in 1 .. i - 1 : new[j] # new[i]}
<1>1. Ignoring(rows, new) = rows \o Picked(new, first)
  BY DEF Ignoring
<1>2. Picked(new, first) \in Seq(Nat) /\ Range(Picked(new, first)) = {new[i] : i \in first}
  <2>1. first \in SUBSET DOMAIN new
    OBVIOUS
  <2> HIDE DEF first
  <2> QED
    BY <2>1, PickedLines
<1>3. {new[i] : i \in first} \subseteq Range(new)
  BY DEF Range
<1>4. Range(new) \subseteq Range(rows) \cup {new[i] : i \in first}
  <2> SUFFICES ASSUME NEW x \in Range(new), x \notin Range(rows)
               PROVE  x \in {new[i] : i \in first}
    OBVIOUS
  <2>1. PICK i \in 1 .. Len(new) : new[i] = x /\ \A j \in 1 .. i - 1 : new[j] # x
    BY FirstPlace
  <2>2. i \in first
    BY <2>1, LineTypes
  <2> HIDE DEF first
  <2> QED
    BY <2>1, <2>2
<1> HIDE DEF first
<1>5. rows \o Picked(new, first) \in Seq(Nat)
      /\ Range(rows \o Picked(new, first)) = Range(rows) \cup Range(Picked(new, first))
  BY <1>2, JoinedLines
<1> QED
  BY <1>1, <1>2, <1>3, <1>4, <1>5

------------------------------------------------------------------------------
(***************************************************************************)
(* The invariant of ReadModel.                                             *)
(***************************************************************************)
\* The lines that the program knows of a log, and the log they belong to.
Lines(s) == Range(log[s]) \cup Range(table[s]) \cup Range(sync.batch[s]) \cup Range(build.rows[s])

\* new is what stands in old from the position after `from` on.
Follows(new, old, from) ==
  /\ from + Len(new) <= Len(old)
  /\ \A k \in 1 .. Len(new) : new[k] = old[from + k]

LogTypes ==
  /\ written \in Nat
  /\ log \in [Logs -> Seq(Nat)] /\ table \in [Logs -> Seq(Nat)]
  /\ mark \in [Logs -> Nat \cup {NoMark}]
  /\ \A s \in Logs : mark[s] = NoMark => table[s] = <<>>

SyncRecord ==
  [at : Nat, marks : [Logs -> Nat \cup {NoMark, <<>>}], size : Nat, stated : BOOLEAN,
   batch : [Logs -> Seq(Nat)], upto : [Logs -> Nat \cup {<<>>}], reset : SUBSET Logs,
   torn : BOOLEAN, cut : SUBSET Logs]

BuildRecord == [at : Nat, rows : [Logs -> Seq(Nat)], dropped : BOOLEAN, cut : SUBSET Logs]

SyncTypes ==
  /\ sync \in SyncRecord
  /\ sync.at <= Len(Streams) + 1 /\ (sync.stated => Looking)
  /\ Syncing => sync.marks \in [Logs -> Nat \cup {NoMark}]
  /\ \A i \in DOMAIN Streams : i >= sync.at => Streams[i] \notin sync.reset

BuildTypes ==
  /\ build \in BuildRecord
  /\ build.at <= Len(Streams) + 1 /\ (build.dropped => build.at > Len(Streams))

SlipTypes == lapsed \subseteq 1 .. written /\ twice \subseteq Logs /\ shifted \subseteq Logs

\* Every line has a number that was given out, and belongs to one log.
Owned ==
  /\ \A s \in Logs : Lines(s) \subseteq 1 .. written
  /\ \A s \in Logs, r \in Logs : s # r => Lines(s) \cap Lines(r) = {}
  /\ \A s \in Logs \ Keyed : IsInjective(log[s])

From(s) == IF s \in sync.reset THEN 0 ELSE sync.marks[s]

\* What was read for a log follows what was copied of it, up to the size it had before.
BatchOK(s) ==
  /\ sync.upto[s] \in Nat /\ From(s) \in Nat
  /\ s \notin sync.cut =>
       /\ Follows(sync.batch[s], log[s], From(s))
       /\ From(s) <= sync.upto[s] /\ sync.upto[s] <= From(s) + Len(sync.batch[s])
  /\ s \in sync.reset /\ ~ sync.torn =>
       Range(log[s]) \cap Range(table[s]) \subseteq Range(sync.batch[s])

SyncOK ==
  /\ Syncing /\ ~ sync.torn => sync.marks = mark
  /\ \A i \in DOMAIN Streams : i < sync.at => BatchOK(Streams[i])
  /\ sync.stated /\ Streams[sync.at] \notin sync.cut => sync.size <= Len(log[Streams[sync.at]])

BuildOK ==
  \A i \in DOMAIN Streams :
    i < build.at /\ Streams[i] \notin build.cut =>
      Follows(build.rows[Streams[i]], log[Streams[i]], 0)

\* What lies below the watermark is in the table or has slipped through.
Copied ==
  \A s \in Logs \ shifted : mark[s] # NoMark =>
    /\ mark[s] <= Len(log[s])
    /\ \A i \in 1 .. mark[s] : log[s][i] \in Range(table[s]) \cup lapsed

\* A table without a key is the log, as far as it was copied.
Exact ==
  \A s \in Logs \ (Keyed \cup shifted \cup twice) :
    mark[s] # NoMark /\ lapsed \cap Range(log[s]) = {} =>
      Len(table[s]) = mark[s] /\ \A k \in 1 .. mark[s] : table[s][k] = log[s][k]

ReadTypes == LogTypes /\ SyncTypes /\ BuildTypes /\ SlipTypes

ReadInv == ReadTypes /\ Owned /\ SyncOK /\ BuildOK /\ Copied /\ Exact

LEMMA LogPlaces ==
  /\ Len(Streams) \in Nat /\ DOMAIN Streams = 1 .. Len(Streams)
  /\ \A s \in Logs : \E i \in DOMAIN Streams : Streams[i] = s
  /\ \A i \in DOMAIN Streams : Streams[i] \in Logs
  /\ \A i, j \in DOMAIN Streams : Streams[i] = Streams[j] => i = j
<1>1. Streams \in Seq(Range(Streams)) /\ IsInjective(Streams)
  BY ReadModelAssumption
<1>2. Len(Streams) \in Nat /\ DOMAIN Streams = 1 .. Len(Streams)
  BY <1>1
<1> QED
  BY <1>1, <1>2 DEF Logs, Range, IsInjective

LEMMA SyncFields ==
  ASSUME NEW r \in SyncRecord
  PROVE  /\ r.at \in Nat /\ r.marks \in [Logs -> Nat \cup {NoMark, <<>>}] /\ r.size \in Nat
         /\ r.stated \in BOOLEAN /\ r.batch \in [Logs -> Seq(Nat)]
         /\ r.upto \in [Logs -> Nat \cup {<<>>}] /\ r.reset \in SUBSET Logs
         /\ r.torn \in BOOLEAN /\ r.cut \in SUBSET Logs
  BY DEF SyncRecord

LEMMA BuildFields ==
  ASSUME NEW r \in BuildRecord
  PROVE  /\ r.at \in Nat /\ r.rows \in [Logs -> Seq(Nat)]
         /\ r.dropped \in BOOLEAN /\ r.cut \in SUBSET Logs
  BY DEF BuildRecord

LEMMA Nothing ==
  /\ NoSync \in SyncRecord /\ NoBuild \in BuildRecord
  /\ NoSync.at = 0 /\ ~ NoSync.stated /\ NoSync.reset = {} /\ NoSync.batch = NoRows
  /\ NoBuild.at = 0 /\ ~ NoBuild.dropped /\ NoBuild.rows = NoRows
  /\ NoRows \in [Logs -> Seq(Nat)] /\ \A s \in Logs : NoRows[s] = <<>>
<1>1. NoRows \in [Logs -> Seq(Nat)] /\ \A s \in Logs : NoRows[s] = <<>>
  BY EmptyLines DEF NoRows
<1>2. NoRows \in [Logs -> Nat \cup {NoMark, <<>>}] /\ NoRows \in [Logs -> Nat \cup {<<>>}]
  BY DEF NoRows
<1> HIDE DEF NoRows
<1> QED
  BY <1>1, <1>2 DEF NoSync, NoBuild, SyncRecord, BuildRecord

\* Without a sync, and without a rebuild, nothing is known of them.
LEMMA Idle ==
  ASSUME sync' = NoSync
  PROVE  SyncTypes' /\ SyncOK' /\ \A s \in Logs : sync'.batch[s] = <<>>
<1>1. /\ sync' \in SyncRecord /\ sync'.at = 0 /\ ~ sync'.stated /\ sync'.reset = {}
      /\ \A s \in Logs : sync'.batch[s] = <<>>
  BY Nothing
<1>2. \A i \in DOMAIN Streams : ~ (i < sync'.at)
  BY <1>1, LogPlaces
<1>3. 0 <= Len(Streams) + 1 /\ ~ (0 > 0)
  BY LogPlaces
<1> QED
  BY <1>1, <1>2, <1>3 DEF SyncTypes, SyncOK, Syncing

LEMMA NotBuilding ==
  ASSUME build' = NoBuild
  PROVE  BuildTypes' /\ BuildOK' /\ \A s \in Logs : build'.rows[s] = <<>>
<1>1. /\ build' \in BuildRecord /\ build'.at = 0 /\ ~ build'.dropped
      /\ \A s \in Logs : build'.rows[s] = <<>>
  BY Nothing
<1>2. \A i \in DOMAIN Streams : ~ (i < build'.at)
  BY <1>1, LogPlaces
<1>3. 0 <= Len(Streams) + 1
  BY LogPlaces
<1> QED
  BY <1>1, <1>2, <1>3 DEF BuildTypes, BuildOK

LEMMA FollowsLonger ==
  ASSUME NEW new \in Seq(Nat), NEW old \in Seq(Nat), NEW more \in Seq(Nat), NEW from \in Nat,
         Follows(new, old, from), Len(old) <= Len(more), \A i \in 1 .. Len(old) : more[i] = old[i]
  PROVE  Follows(new, more, from)
<1>1. Len(new) \in Nat /\ Len(old) \in Nat /\ Len(more) \in Nat
  OBVIOUS
<1>2. \A k \in 1 .. Len(new) : from + k \in 1 .. Len(old)
  BY <1>1 DEF Follows
<1> QED
  BY <1>1, <1>2 DEF Follows

\* Every line still belongs to one log.
LEMMA StillOwned ==
  ASSUME Owned, written \in Nat, written' \in Nat, written <= written',
         \A s \in Logs : Lines(s)' \subseteq Lines(s),
         \A s \in Logs \ Keyed : IsInjective(log'[s])
  PROVE  Owned'
<1>1. \A s \in Logs : Lines(s)' \subseteq 1 .. written'
  BY DEF Owned
<1>2. \A s \in Logs, r \in Logs : s # r => Lines(s)' \cap Lines(r)' = {}
  BY DEF Owned
<1> QED
  BY <1>1, <1>2 DEF Owned

\* A step of a sync or of a rebuild that changes nothing else.
LEMMA OnlyCopies ==
  ASSUME ReadInv, UNCHANGED <<files, db, slips>>, SyncTypes', BuildTypes', SyncOK', BuildOK',
         \A s \in Logs : Lines(s)' \subseteq Lines(s)
  PROVE  ReadInv'
<1>1. UNCHANGED <<written, log>>
  BY DEF files
<1>2. UNCHANGED <<table, mark>>
  BY DEF db
<1>3. UNCHANGED <<lapsed, twice, shifted>>
  BY DEF slips
<1>4. Owned'
  BY <1>1, StillOwned DEF ReadInv, ReadTypes, LogTypes, Owned
<1>5. LogTypes' /\ SlipTypes'
  BY <1>1, <1>2, <1>3 DEF ReadInv, ReadTypes, LogTypes, SlipTypes
<1>6. Copied' /\ Exact'
  BY <1>1, <1>2, <1>3 DEF ReadInv, Copied, Exact
<1> QED
  BY <1>4, <1>5, <1>6 DEF ReadInv, ReadTypes

\* What the types say of one log.
LEMMA LogFields ==
  ASSUME ReadTypes, NEW s \in Logs
  PROVE  /\ written \in Nat /\ log[s] \in Seq(Nat) /\ table[s] \in Seq(Nat)
         /\ mark[s] \in Nat \cup {NoMark} /\ (mark[s] = NoMark => table[s] = <<>>)
         /\ sync \in SyncRecord /\ build \in BuildRecord
         /\ sync.batch[s] \in Seq(Nat) /\ build.rows[s] \in Seq(Nat)
<1>1. sync.batch \in [Logs -> Seq(Nat)] /\ build.rows \in [Logs -> Seq(Nat)]
  BY SyncFields, BuildFields DEF ReadTypes, SyncTypes, BuildTypes
<1> QED
  BY <1>1 DEF ReadTypes, LogTypes, SyncTypes, BuildTypes

------------------------------------------------------------------------------
(***************************************************************************)
(* The writers keep the invariant.                                         *)
(***************************************************************************)
LEMMA WriteKeeps ==
  ASSUME ReadInv, NEW s \in Logs, NEW line, Write(s, line),
         line = written + 1 \/ (s \in Keyed /\ line \in Range(log[s]))
  PROVE  ReadInv'
<1>1. /\ written' = written + 1 /\ log' = [log EXCEPT ![s] = Append(log[s], line)]
      /\ UNCHANGED <<table, mark, sync, build, lapsed, twice, shifted>>
  BY DEF Write, db, slips
<1>2. written \in Nat /\ log \in [Logs -> Seq(Nat)] /\ \A r \in Logs : log[r] \in Seq(Nat)
  BY DEF ReadInv, ReadTypes, LogTypes
<1>3. line \in Nat /\ line \in 1 .. written'
  <2>1. Range(log[s]) \subseteq 1 .. written
    BY DEF ReadInv, Owned, Lines
  <2> QED
    BY <1>1, <1>2, <2>1
<1>4. log' \in [Logs -> Seq(Nat)] /\ log'[s] = Append(log[s], line)
      /\ \A r \in Logs : r # s => log'[r] = log[r]
  BY <1>1, <1>2, <1>3
<1>5. /\ Len(log[s]) \in Nat /\ Len(log'[s]) = Len(log[s]) + 1
      /\ log'[s][Len(log[s]) + 1] = line
      /\ \A i \in 1 .. Len(log[s]) : log'[s][i] = log[s][i]
      /\ Range(log'[s]) = Range(log[s]) \cup {line}
  BY <1>2, <1>3, <1>4, OneMoreLine, LineTypes
<1>6. \A r \in Logs : /\ Len(log[r]) \in Nat /\ Len(log'[r]) \in Nat /\ Len(log[r]) <= Len(log'[r])
                      /\ \A i \in 1 .. Len(log[r]) : log'[r][i] = log[r][i]
                      /\ Range(log[r]) \subseteq Range(log'[r])
  <2> SUFFICES ASSUME NEW r \in Logs
               PROVE  /\ Len(log[r]) \in Nat /\ Len(log'[r]) \in Nat /\ Len(log[r]) <= Len(log'[r])
                      /\ \A i \in 1 .. Len(log[r]) : log'[r][i] = log[r][i]
                      /\ Range(log[r]) \subseteq Range(log'[r])
    OBVIOUS
  <2>1. CASE r = s
    BY <1>5, <2>1
  <2>2. CASE r # s
    <3>1. Len(log[r]) \in Nat /\ log'[r] = log[r]
      BY <1>2, <1>4, <2>2, LineTypes
    <3> QED
      BY <3>1
  <2> QED
    BY <2>1, <2>2
<1>7. ReadTypes'
  <2>1. LogTypes' /\ SlipTypes'
    BY <1>1, <1>2, <1>4 DEF ReadInv, ReadTypes, LogTypes, SlipTypes
  <2>2. SyncTypes' /\ BuildTypes'
    BY <1>1 DEF ReadInv, ReadTypes, SyncTypes, BuildTypes, Syncing, Looking
  <2> QED
    BY <2>1, <2>2 DEF ReadTypes
<1>8. Owned'
  <2>1. \A r \in Logs : Lines(r)' \subseteq IF r = s THEN Lines(s) \cup {line} ELSE Lines(r)
    BY <1>1, <1>4, <1>5 DEF Lines
  <2>2. \A r \in Logs : r # s => line \notin Lines(r)
    <3>1. CASE line = written + 1
      <4>1. ~ (written + 1 \in 1 .. written)
        BY <1>2
      <4> QED
        BY <3>1, <4>1 DEF ReadInv, Owned
    <3>2. CASE s \in Keyed /\ line \in Range(log[s])
      <4>1. line \in Lines(s)
        BY <3>2 DEF Lines
      <4> QED
        BY <4>1 DEF ReadInv, Owned
    <3> QED
      BY <3>1, <3>2
  <2>3. \A r \in Logs : Lines(r)' \subseteq 1 .. written'
    <3>1. 1 .. written \subseteq 1 .. written'
      BY <1>1, <1>2
    <3> QED
      BY <1>3, <2>1, <3>1 DEF ReadInv, Owned
  <2>4. \A r \in Logs, q \in Logs : r # q => Lines(r)' \cap Lines(q)' = {}
    BY <2>1, <2>2 DEF ReadInv, Owned
  <2>5. ASSUME NEW r \in Logs \ Keyed PROVE IsInjective(log'[r])
    <3>1. IsInjective(log[r])
      BY DEF ReadInv, Owned
    <3>2. CASE r = s
      <4>1. line = written + 1
        BY <3>2
      <4>2. \A i \in 1 .. Len(log[s]) : log[s][i] # line
        <5>1. ~ (written + 1 \in 1 .. written)
          BY <1>2
        <5>2. Range(log[s]) \subseteq 1 .. written
          BY DEF ReadInv, Owned, Lines
        <5> QED
          BY <1>2, <4>1, <5>1, <5>2, LineTypes
      <4>3. DOMAIN log[s] = 1 .. Len(log[s]) /\ DOMAIN log'[s] = 1 .. Len(log[s]) + 1
        BY <1>2, <1>4, <1>5, LineTypes
      <4>4. \A i \in 1 .. Len(log[s]) + 1 : i \in 1 .. Len(log[s]) \/ i = Len(log[s]) + 1
        BY <1>5
      <4> QED
        BY <1>5, <3>1, <3>2, <4>2, <4>3, <4>4 DEF IsInjective
    <3>3. CASE r # s
      BY <1>4, <3>1, <3>3
    <3> QED
      BY <3>2, <3>3
  <2> QED
    BY <2>3, <2>4, <2>5 DEF Owned
<1>9. SyncOK'
  <2>1. ASSUME NEW r \in Logs, BatchOK(r) PROVE BatchOK(r)'
    <3>1. From(r)' = From(r)
      BY <1>1 DEF From
    <3>2. r \notin sync.cut => Follows(sync.batch[r], log'[r], From(r))
      <4>1. sync.batch[r] \in Seq(Nat) /\ From(r) \in Nat
        BY <2>1, LogFields DEF ReadInv, BatchOK
      <4> QED
        BY <1>2, <1>4, <1>6, <2>1, <4>1, FollowsLonger DEF BatchOK
    <3>3. r \in sync.reset /\ ~ sync.torn =>
            Range(log'[r]) \cap Range(table[r]) \subseteq Range(sync.batch[r])
      <4> SUFFICES ASSUME r \in sync.reset, ~ sync.torn,
                          NEW x \in Range(log'[r]) \cap Range(table[r])
                   PROVE  x \in Range(sync.batch[r])
        OBVIOUS
      <4>1. x \in Range(log[r]) \/ (r = s /\ x = line)
        BY <1>4, <1>5
      <4>2. CASE x \in Range(log[r])
        BY <2>1, <4>2 DEF BatchOK
      <4>3. CASE r = s /\ x = line
        <5>1. x \in 1 .. written
          BY DEF ReadInv, Owned, Lines
        <5>2. line # written + 1
          BY <1>2, <4>3, <5>1
        <5> QED
          BY <2>1, <4>3, <5>2 DEF BatchOK
      <4> QED
        BY <4>1, <4>2, <4>3
    <3> QED
      BY <1>1, <2>1, <3>1, <3>2, <3>3 DEF BatchOK
  <2>2. \A i \in DOMAIN Streams : i < sync'.at => BatchOK(Streams[i])'
    BY <1>1, <2>1, LogPlaces DEF ReadInv, SyncOK
  <2>3. sync'.stated /\ Streams[sync'.at] \notin sync'.cut =>
          sync'.size <= Len(log'[Streams[sync'.at]])
    <3> SUFFICES ASSUME sync.stated, Streams[sync.at] \notin sync.cut
                 PROVE  sync.size <= Len(log'[Streams[sync.at]])
      BY <1>1
    <3>1. Streams[sync.at] \in Logs /\ sync.size \in Nat
      <4>1. sync.at \in Nat /\ sync.at > 0 /\ sync.at <= Len(Streams) /\ sync.size \in Nat
        BY SyncFields DEF ReadInv, ReadTypes, SyncTypes, Looking, Syncing
      <4> QED
        BY <4>1, LogPlaces
    <3>2. sync.size <= Len(log[Streams[sync.at]])
      BY DEF ReadInv, SyncOK
    <3> QED
      BY <1>6, <3>1, <3>2
  <2> QED
    BY <1>1, <2>2, <2>3 DEF ReadInv, SyncOK, Syncing
<1>10. BuildOK'
  <2> SUFFICES ASSUME NEW i \in DOMAIN Streams, i < build.at, Streams[i] \notin build.cut
               PROVE  Follows(build.rows[Streams[i]], log'[Streams[i]], 0)
    BY <1>1 DEF BuildOK
  <2>1. Streams[i] \in Logs /\ Follows(build.rows[Streams[i]], log[Streams[i]], 0)
    BY LogPlaces DEF ReadInv, BuildOK
  <2>2. build.rows[Streams[i]] \in Seq(Nat)
    BY <2>1, LogFields DEF ReadInv
  <2> QED
    BY <1>2, <1>4, <1>6, <2>1, <2>2, FollowsLonger
<1>11. Copied'
  <2> SUFFICES ASSUME NEW r \in Logs \ shifted, mark[r] # NoMark
               PROVE  /\ mark[r] <= Len(log'[r])
                      /\ \A i \in 1 .. mark[r] : log'[r][i] \in Range(table[r]) \cup lapsed
    BY <1>1 DEF Copied
  <2>0. mark[r] \in Nat
    BY LogFields DEF ReadInv
  <2>1. /\ mark[r] <= Len(log[r]) /\ mark[r] \in Nat
        /\ \A i \in 1 .. mark[r] : log[r][i] \in Range(table[r]) \cup lapsed
    BY <2>0 DEF ReadInv, Copied
  <2>2. \A i \in 1 .. mark[r] : i \in 1 .. Len(log[r])
    BY <1>6, <2>1
  <2>3. mark[r] <= Len(log'[r])
    BY <1>6, <2>1
  <2> QED
    BY <1>6, <2>1, <2>2, <2>3
<1>12. Exact'
  <2> SUFFICES ASSUME NEW r \in Logs \ (Keyed \cup shifted \cup twice), mark[r] # NoMark,
                      lapsed \cap Range(log'[r]) = {}
               PROVE  Len(table[r]) = mark[r] /\ \A k \in 1 .. mark[r] : table[r][k] = log'[r][k]
    BY <1>1 DEF Exact
  <2>1. lapsed \cap Range(log[r]) = {}
    BY <1>6
  <2>2. Len(table[r]) = mark[r] /\ \A k \in 1 .. mark[r] : table[r][k] = log[r][k]
    BY <2>1 DEF ReadInv, Exact
  <2>0. mark[r] \in Nat
    BY LogFields DEF ReadInv
  <2>3. mark[r] <= Len(log[r]) /\ mark[r] \in Nat
    BY <2>0 DEF ReadInv, Copied
  <2>4. \A k \in 1 .. mark[r] : k \in 1 .. Len(log[r])
    BY <1>6, <2>3
  <2> QED
    BY <1>6, <2>2, <2>4
<1> QED
  BY <1>7, <1>8, <1>9, <1>10, <1>11, <1>12 DEF ReadInv

LEMMA CutKeeps ==
  ASSUME ReadInv, NEW s \in Logs, Cut(s)
  PROVE  ReadInv'
<1>1. PICK n \in 1 .. Len(log[s]) : log' = [log EXCEPT ![s] = SubSeq(log[s], n + 1, Len(log[s]))]
  BY DEF Cut
<1>2. /\ s \notin Keyed /\ shifted' = shifted \cup {s}
      /\ sync' = IF Measured(s) THEN [sync EXCEPT !.cut = sync.cut \cup {s}] ELSE sync
      /\ build' = IF Building THEN [build EXCEPT !.cut = build.cut \cup {s}] ELSE build
      /\ UNCHANGED <<written, table, mark, lapsed, twice>>
  BY DEF Cut, db
<1>3. written \in Nat /\ log \in [Logs -> Seq(Nat)] /\ \A r \in Logs : log[r] \in Seq(Nat)
  BY DEF ReadInv, ReadTypes, LogTypes
<1>4. /\ SubSeq(log[s], n + 1, Len(log[s])) \in Seq(Nat) /\ n \in Nat /\ n <= Len(log[s])
      /\ Len(log[s]) \in Nat
  BY <1>3, LinesBehind
<1>5. /\ log' \in [Logs -> Seq(Nat)] /\ log'[s] = SubSeq(log[s], n + 1, Len(log[s]))
      /\ \A r \in Logs : r # s => log'[r] = log[r]
  BY <1>1, <1>3, <1>4
<1>6. /\ Range(log'[s]) \subseteq Range(log[s]) /\ Len(log'[s]) = Len(log[s]) - n
      /\ \A k \in 1 .. Len(log'[s]) : log'[s][k] = log[s][n + k]
  BY <1>3, <1>4, <1>5, LinesBehind
<1>7. sync \in SyncRecord /\ build \in BuildRecord
  BY DEF ReadInv, ReadTypes, SyncTypes, BuildTypes
<1>8. /\ sync' \in SyncRecord /\ sync'.at = sync.at /\ sync'.marks = sync.marks
      /\ sync'.size = sync.size /\ sync'.stated = sync.stated /\ sync'.batch = sync.batch
      /\ sync'.upto = sync.upto /\ sync'.reset = sync.reset /\ sync'.torn = sync.torn
      /\ sync.cut \subseteq sync'.cut /\ (Measured(s) => s \in sync'.cut)
  BY <1>2, <1>7 DEF SyncRecord
<1>9. /\ build' \in BuildRecord /\ build'.at = build.at /\ build'.rows = build.rows
      /\ build'.dropped = build.dropped
      /\ build.cut \subseteq build'.cut /\ (Building => s \in build'.cut)
  BY <1>2, <1>7 DEF BuildRecord
<1>10. ReadTypes'
  <2>1. LogTypes'
    BY <1>2, <1>3, <1>5 DEF ReadInv, ReadTypes, LogTypes
  <2>2. SlipTypes'
    BY <1>2 DEF ReadInv, ReadTypes, SlipTypes
  <2>3. SyncTypes' /\ BuildTypes'
    BY <1>8, <1>9 DEF ReadInv, ReadTypes, SyncTypes, BuildTypes, Syncing, Looking
  <2> QED
    BY <2>1, <2>2, <2>3 DEF ReadTypes
<1>11. Owned'
  <2>1. \A r \in Logs : Lines(r)' \subseteq Lines(r)
    BY <1>2, <1>5, <1>6, <1>8, <1>9 DEF Lines
  <2>2. ASSUME NEW r \in Logs \ Keyed PROVE IsInjective(log'[r])
    <3>1. IsInjective(log[r])
      BY DEF ReadInv, Owned
    <3>2. CASE r = s
      <4>1. DOMAIN log'[s] = 1 .. (Len(log[s]) - n) /\ DOMAIN log[s] = 1 .. Len(log[s])
        BY <1>3, <1>5, <1>6, LineTypes
      <4>2. ASSUME NEW i \in DOMAIN log'[s], NEW j \in DOMAIN log'[s], log'[s][i] = log'[s][j]
            PROVE  i = j
        <5>1. n + i \in DOMAIN log[s] /\ n + j \in DOMAIN log[s]
          BY <1>4, <4>1
        <5>2. log[s][n + i] = log[s][n + j]
          BY <1>6, <4>1, <4>2
        <5>3. n + i = n + j
          BY <3>1, <3>2, <5>1, <5>2 DEF IsInjective
        <5> QED
          BY <1>4, <4>1, <5>3
      <4> QED
        BY <3>2, <4>2 DEF IsInjective
    <3> QED
      BY <1>5, <3>1, <3>2
  <2>3. written' = written
    BY <1>2
  <2> QED
    BY <1>3, <2>1, <2>2, <2>3, StillOwned DEF ReadInv
<1>12. SyncOK'
  <2>1. ASSUME NEW i \in DOMAIN Streams, i < sync.at PROVE BatchOK(Streams[i])'
    <3> DEFINE r == Streams[i]
    <3>1. BatchOK(r) /\ r \in Logs
      BY <2>1, LogPlaces DEF ReadInv, SyncOK
    <3>2. r = s => s \in sync'.cut
      BY <1>8, <2>1 DEF Measured
    <3> HIDE DEF r
    <3>3. From(r)' = From(r)
      BY <1>8 DEF From
    <3>4. r \notin sync'.cut => r \notin sync.cut /\ log'[r] = log[r]
      BY <1>5, <1>8, <3>1, <3>2
    <3>5. Range(log'[r]) \subseteq Range(log[r])
      BY <1>5, <1>6, <3>1
    <3>6. BatchOK(r)'
      BY <1>2, <1>8, <3>1, <3>3, <3>4, <3>5 DEF BatchOK
    <3> QED
      BY <3>6 DEF r
  <2>2. ASSUME sync.stated, Streams[sync.at] \notin sync'.cut
        PROVE  sync.size <= Len(log'[Streams[sync.at]])
    <3>1. sync.at \in DOMAIN Streams
      <4>1. sync.at \in Nat /\ sync.at > 0 /\ sync.at <= Len(Streams)
        BY <1>7, <2>2, SyncFields DEF ReadInv, ReadTypes, SyncTypes, Looking, Syncing
      <4> QED
        BY <4>1, LogPlaces
    <3>2. Streams[sync.at] \in Logs /\ Streams[sync.at] # s
      BY <1>8, <2>2, <3>1, LogPlaces DEF Measured
    <3>3. sync.size <= Len(log[Streams[sync.at]])
      BY <1>8, <2>2 DEF ReadInv, SyncOK
    <3> QED
      BY <1>5, <3>2, <3>3
  <2>3. Syncing' /\ ~ sync'.torn => sync'.marks = mark'
    BY <1>2, <1>8 DEF ReadInv, SyncOK, Syncing
  <2> QED
    BY <1>8, <2>1, <2>2, <2>3 DEF SyncOK
<1>13. BuildOK'
  <2> SUFFICES ASSUME NEW i \in DOMAIN Streams, i < build.at, Streams[i] \notin build'.cut
               PROVE  Follows(build.rows[Streams[i]], log'[Streams[i]], 0)
    BY <1>9 DEF BuildOK
  <2>1. Building
    BY <1>7, LogPlaces, BuildFields DEF Building
  <2>2. Streams[i] # s /\ Streams[i] \in Logs /\ Streams[i] \notin build.cut
    BY <1>9, <2>1, LogPlaces
  <2> QED
    BY <1>5, <2>2 DEF ReadInv, BuildOK
<1>14. Copied' /\ Exact'
  <2>1. \A r \in Logs : r \notin shifted' => r \notin shifted /\ log'[r] = log[r]
    BY <1>2, <1>5
  <2>2. Copied'
    BY <1>2, <2>1 DEF ReadInv, Copied
  <2>3. Exact'
    BY <1>2, <2>1 DEF ReadInv, Exact
  <2> QED
    BY <2>2, <2>3
<1> QED
  BY <1>10, <1>11, <1>12, <1>13, <1>14 DEF ReadInv

------------------------------------------------------------------------------
(***************************************************************************)
(* What only reads, and what gives up, keeps the invariant.                *)
(***************************************************************************)
LEMMA SyncReads ==
  ASSUME ReadInv, BeginSync \/ StatBatch
  PROVE  ReadInv'
<1>1. UNCHANGED <<files, db, slips>> /\ build' = build
  BY DEF BeginSync, StatBatch
<1>2. sync \in SyncRecord /\ sync.at \in Nat /\ Len(Streams) \in Nat
  BY SyncFields, LogPlaces DEF ReadInv, ReadTypes, SyncTypes
<1>3. UNCHANGED <<log, table, mark>>
  BY <1>1 DEF files, db
<1>4. BuildTypes' /\ BuildOK'
  BY <1>1, <1>3 DEF ReadInv, ReadTypes, BuildTypes, BuildOK
<1>5. CASE BeginSync
  <2>1. /\ sync' = [NoSync EXCEPT !.at = 1, !.marks = mark]
        /\ mark \in [Logs -> Nat \cup {NoMark}]
    BY <1>5 DEF BeginSync, ReadInv, ReadTypes, LogTypes
  <2>2. /\ sync' \in SyncRecord /\ sync'.at = 1 /\ sync'.marks = mark /\ ~ sync'.stated
        /\ sync'.reset = {} /\ \A s \in Logs : sync'.batch[s] = <<>>
    <3>1. /\ NoSync \in SyncRecord /\ ~ NoSync.stated /\ NoSync.reset = {}
          /\ \A s \in Logs : NoSync.batch[s] = <<>>
      BY Nothing
    <3>2. mark \in [Logs -> Nat \cup {NoMark, <<>>}]
      BY <2>1
    <3> HIDE DEF NoSync
    <3> QED
      BY <2>1, <3>1, <3>2 DEF SyncRecord
  <2>3. SyncTypes'
    BY <1>2, <2>1, <2>2 DEF SyncTypes
  <2>4. SyncOK'
    <3>1. \A i \in DOMAIN Streams : ~ (i < 1)
      BY LogPlaces
    <3> QED
      BY <1>3, <2>2, <3>1 DEF SyncOK
  <2>5. \A s \in Logs : Lines(s)' \subseteq Lines(s)
    BY <1>1, <1>3, <2>2, EmptyLines DEF Lines
  <2> QED
    BY <1>1, <1>4, <2>3, <2>4, <2>5, OnlyCopies
<1>6. CASE StatBatch
  <2> DEFINE s == Streams[sync.at]
  <2>1. /\ sync' = [sync EXCEPT !.stated = TRUE, !.size = Len(log[s])]
        /\ Looking /\ s \in Logs
    <3>1. Looking /\ sync.at \in DOMAIN Streams
      BY <1>2, <1>6, LogPlaces DEF StatBatch, Looking, Syncing
    <3> QED
      BY <1>6, <3>1, LogPlaces DEF StatBatch
  <2>2. Len(log[s]) \in Nat
    BY <2>1, LogFields, LineTypes DEF ReadInv
  <2> HIDE DEF s
  <2>3. /\ sync' \in SyncRecord /\ sync'.at = sync.at /\ sync'.marks = sync.marks
        /\ sync'.size = Len(log[s]) /\ sync'.batch = sync.batch /\ sync'.upto = sync.upto
        /\ sync'.reset = sync.reset /\ sync'.torn = sync.torn /\ sync'.cut = sync.cut
    BY <1>2, <2>1, <2>2 DEF SyncRecord
  <2>4. SyncTypes'
    BY <2>1, <2>3 DEF ReadInv, ReadTypes, SyncTypes, Syncing, Looking
  <2>5. \A r \in Logs : BatchOK(r) => BatchOK(r)'
    BY <1>3, <2>3 DEF BatchOK, From
  <2>6. SyncOK'
    <3>1. Len(log[s]) <= Len(log[s])
      BY <2>2
    <3>2. \A i \in DOMAIN Streams : i < sync'.at => BatchOK(Streams[i])'
      BY <2>3, <2>5, LogPlaces DEF ReadInv, SyncOK
    <3>3. Syncing' /\ ~ sync'.torn => sync'.marks = mark'
      BY <1>3, <2>3 DEF ReadInv, SyncOK, Syncing
    <3> QED
      BY <1>3, <2>3, <3>1, <3>2, <3>3 DEF SyncOK, s
  <2>7. \A r \in Logs : Lines(r)' \subseteq Lines(r)
    BY <1>1, <1>3, <2>3 DEF Lines
  <2> QED
    BY <1>1, <1>4, <2>4, <2>6, <2>7, OnlyCopies
<1> QED
  BY <1>5, <1>6

LEMMA ReadBatchKeeps ==
  ASSUME ReadInv, ReadBatch
  PROVE  ReadInv'
<1>0. PICK s \in Logs : s = Streams[sync.at]
  <2>1. sync.at \in Nat /\ Looking
    BY SyncFields DEF ReadInv, ReadTypes, SyncTypes, ReadBatch
  <2>2. sync.at \in DOMAIN Streams
    BY <2>1, LogPlaces DEF Looking, Syncing
  <2> QED
    BY <2>2, LogPlaces
<1> DEFINE m == sync.marks[s]
           reset == m = NoMark \/ m > sync.size
           rows == IF reset THEN log[s]
                   ELSE IF m = sync.size THEN <<>> ELSE SubSeq(log[s], m + 1, Len(log[s]))
<1>1. /\ UNCHANGED <<files, db, slips>> /\ build' = build /\ Looking /\ sync.stated
      /\ sync' = [sync EXCEPT !.at = sync.at + 1, !.stated = FALSE, !.size = 0,
                              !.batch = [sync.batch EXCEPT ![s] = rows],
                              !.upto = [sync.upto EXCEPT ![s] = sync.size],
                              !.reset = IF reset THEN sync.reset \cup {s} ELSE sync.reset]
  BY <1>0 DEF ReadBatch
<1>2. UNCHANGED <<log, table, mark>>
  BY <1>1 DEF files, db
<1>3. BuildTypes' /\ BuildOK'
  BY <1>1, <1>2 DEF ReadInv, ReadTypes, BuildTypes, BuildOK
<1>4. /\ sync \in SyncRecord /\ sync.at \in Nat /\ Len(Streams) \in Nat /\ sync.size \in Nat
      /\ sync.batch \in [Logs -> Seq(Nat)] /\ sync.upto \in [Logs -> Nat \cup {<<>>}]
      /\ sync.reset \in SUBSET Logs /\ sync.at > 0 /\ sync.at <= Len(Streams)
  BY <1>1, SyncFields, LogPlaces DEF ReadInv, ReadTypes, SyncTypes, Looking, Syncing
<1>5. sync.at \in DOMAIN Streams /\ s = Streams[sync.at]
  BY <1>0, <1>4, LogPlaces
<1>6. m \in Nat \cup {NoMark} /\ log[s] \in Seq(Nat) /\ s \notin sync.reset
      /\ (Syncing' /\ ~ sync.torn => sync.marks = mark)
  <2>1. Syncing
    BY <1>1 DEF Looking
  <2>2. sync.marks \in [Logs -> Nat \cup {NoMark}] /\ (~ sync.torn => sync.marks = mark)
    BY <2>1 DEF ReadInv, ReadTypes, SyncTypes, SyncOK
  <2>3. s \notin sync.reset
    <3>1. sync.at >= sync.at
      BY <1>4
    <3> QED
      BY <1>5, <3>1 DEF ReadInv, ReadTypes, SyncTypes
  <2>4. log[s] \in Seq(Nat)
    BY <1>5, LogFields DEF ReadInv
  <2> QED
    BY <1>5, <2>2, <2>3, <2>4
<1>7. ~ reset => m \in Nat /\ m <= sync.size
  BY <1>4, <1>6
<1>8. rows \in Seq(Nat) /\ Range(rows) \subseteq Range(log[s])
  <2>1. CASE reset
    BY <1>6, <2>1
  <2>2. CASE ~ reset /\ m = sync.size
    <3>1. rows = <<>>
      BY <2>2
    <3> QED
      BY <3>1, EmptyLines
  <2>3. CASE ~ reset /\ m # sync.size
    <3>1. rows = SubSeq(log[s], m + 1, Len(log[s]))
      BY <2>3
    <3>2. m \in Nat
      BY <1>7, <2>3
    <3> HIDE DEF rows, m
    <3> QED
      BY <1>6, <3>1, <3>2, LinesBehind
  <2> QED
    BY <2>1, <2>2, <2>3
<1>9. s \notin sync.cut => LET from == IF reset THEN 0 ELSE m IN
                           /\ Follows(rows, log[s], from)
                           /\ from <= sync.size /\ sync.size <= from + Len(rows)
  <2> SUFFICES ASSUME s \notin sync.cut
               PROVE  LET from == IF reset THEN 0 ELSE m IN
                      /\ Follows(rows, log[s], from)
                      /\ from <= sync.size /\ sync.size <= from + Len(rows)
    OBVIOUS
  <2>0. sync.size <= Len(log[s]) /\ Len(log[s]) \in Nat
    BY <1>1, <1>5, <1>6, LineTypes DEF ReadInv, SyncOK
  <2>1. CASE reset
    <3>1. rows = log[s]
      BY <2>1
    <3>2. Follows(log[s], log[s], 0)
      BY <2>0 DEF Follows
    <3> HIDE DEF rows
    <3> QED
      BY <1>4, <2>0, <2>1, <3>1, <3>2
  <2>2. CASE ~ reset /\ m = sync.size
    <3>1. rows = <<>> /\ m \in Nat
      BY <1>7, <2>2
    <3>2. Follows(<<>>, log[s], m)
      BY <2>0, <2>2, <3>1, EmptyLines DEF Follows
    <3> HIDE DEF rows
    <3> QED
      BY <2>2, <3>1, <3>2, EmptyLines
  <2>3. CASE ~ reset /\ m # sync.size
    <3>1. rows = SubSeq(log[s], m + 1, Len(log[s])) /\ m \in Nat /\ m <= sync.size
      BY <1>7, <2>3
    <3>2. m <= Len(log[s])
      BY <1>4, <2>0, <3>1
    <3> HIDE DEF rows, m
    <3>3. Len(rows) = Len(log[s]) - m /\ \A k \in 1 .. Len(rows) : rows[k] = log[s][m + k]
      BY <1>6, <3>1, <3>2, LinesBehind
    <3>4. Follows(rows, log[s], m) /\ sync.size <= m + Len(rows)
      BY <1>4, <2>0, <3>1, <3>3 DEF Follows
    <3> QED
      BY <2>3, <3>1, <3>4 DEF m
  <2> QED
    BY <2>1, <2>2, <2>3
<1>10. reset => rows = log[s]
  OBVIOUS
<1> HIDE DEF rows, reset
<1>11. /\ sync' \in SyncRecord /\ sync'.at = sync.at + 1 /\ sync'.marks = sync.marks
       /\ ~ sync'.stated
       /\ sync'.batch = [sync.batch EXCEPT ![s] = rows]
       /\ sync'.upto = [sync.upto EXCEPT ![s] = sync.size]
       /\ sync'.reset = (IF reset THEN sync.reset \cup {s} ELSE sync.reset)
       /\ sync'.torn = sync.torn /\ sync'.cut = sync.cut
  <2>1. [sync.batch EXCEPT ![s] = rows] \in [Logs -> Seq(Nat)]
    BY <1>4, <1>5, <1>8
  <2>2. [sync.upto EXCEPT ![s] = sync.size] \in [Logs -> Nat \cup {<<>>}]
    BY <1>4, <1>5
  <2>3. (IF reset THEN sync.reset \cup {s} ELSE sync.reset) \in SUBSET Logs
    BY <1>4, <1>5
  <2>4. sync.at + 1 \in Nat /\ 0 \in Nat
    BY <1>4
  <2> QED
    BY <1>1, <1>4, <2>1, <2>2, <2>3, <2>4 DEF SyncRecord
<1>12. /\ sync'.batch[s] = rows /\ sync'.upto[s] = sync.size
       /\ \A r \in Logs : r # s => /\ sync'.batch[r] = sync.batch[r]
                                   /\ sync'.upto[r] = sync.upto[r]
                                   /\ (r \in sync'.reset <=> r \in sync.reset)
       /\ (s \in sync'.reset <=> reset)
  BY <1>4, <1>5, <1>6, <1>11
<1>13. SyncTypes'
  <2>1. sync'.at <= Len(Streams) + 1 /\ sync'.at \in Nat
    BY <1>4, <1>11
  <2>2. sync'.marks \in [Logs -> Nat \cup {NoMark}]
    BY <1>1, <1>11 DEF ReadInv, ReadTypes, SyncTypes, Looking
  <2>3. ASSUME NEW i \in DOMAIN Streams, i >= sync'.at PROVE Streams[i] \notin sync'.reset
    <3>1. i >= sync.at /\ i # sync.at
      BY <1>4, <1>11, <2>3, LogPlaces
    <3>2. Streams[i] \notin sync.reset /\ Streams[i] # s /\ Streams[i] \in Logs
      BY <1>5, <3>1, LogPlaces DEF ReadInv, ReadTypes, SyncTypes
    <3> QED
      BY <1>12, <3>2
  <2> QED
    BY <1>11, <2>1, <2>2, <2>3 DEF SyncTypes
<1>14. ASSUME NEW r \in Logs, r # s, BatchOK(r) PROVE BatchOK(r)'
  <2>1. From(r)' = From(r)
    BY <1>11, <1>12, <1>14 DEF From
  <2> QED
    BY <1>2, <1>11, <1>12, <1>14, <2>1 DEF BatchOK
<1>15. BatchOK(s)'
  <2>1. From(s)' = IF reset THEN 0 ELSE m
    BY <1>11, <1>12 DEF From
  <2>2. From(s)' \in Nat
    BY <1>7, <2>1 DEF reset
  <2> HIDE DEF m
  <2> QED
    BY <1>2, <1>4, <1>9, <1>10, <1>11, <1>12, <2>1, <2>2 DEF BatchOK
<1>16. SyncOK'
  <2>1. ASSUME NEW i \in DOMAIN Streams, i < sync'.at PROVE BatchOK(Streams[i])'
    <3>1. CASE i = sync.at
      BY <1>5, <1>15, <3>1
    <3>2. CASE i # sync.at
      <4>1. i < sync.at
        BY <1>4, <1>11, <2>1, <3>2, LogPlaces
      <4>2. BatchOK(Streams[i])
        BY <4>1 DEF ReadInv, SyncOK
      <4>3. Streams[i] # s /\ Streams[i] \in Logs
        BY <1>5, <3>2, LogPlaces
      <4> QED
        BY <1>14, <4>2, <4>3
    <3> QED
      BY <3>1, <3>2
  <2>2. Syncing' /\ ~ sync'.torn => sync'.marks = mark'
    BY <1>2, <1>6, <1>11
  <2> QED
    BY <1>11, <2>1, <2>2 DEF SyncOK
<1>17. \A r \in Logs : Lines(r)' \subseteq Lines(r)
  BY <1>1, <1>2, <1>8, <1>12 DEF Lines
<1> QED
  BY <1>1, <1>3, <1>13, <1>16, <1>17, OnlyCopies

LEMMA GivingUpKeeps ==
  ASSUME ReadInv, SyncFails \/ Down \/ BuildFails
  PROVE  ReadInv'
<1>1. UNCHANGED <<files, db, slips>>
  BY DEF SyncFails, Down, BuildFails
<1>2. UNCHANGED <<log, table, mark>>
  BY <1>1 DEF files, db
<1>3. sync' = NoSync \/ sync' = sync
  BY DEF SyncFails, Down, BuildFails
<1>4. build' = NoBuild \/ build' = build
  BY DEF SyncFails, Down, BuildFails
<1>5. SyncTypes' /\ SyncOK'
  <2>1. CASE sync' = NoSync
    BY <2>1, Idle
  <2>2. CASE sync' = sync
    <3>1. SyncTypes'
      BY <2>2 DEF ReadInv, ReadTypes, SyncTypes, Syncing, Looking
    <3>2. \A s \in Logs : BatchOK(s) => BatchOK(s)'
      BY <1>2, <2>2 DEF BatchOK, From
    <3>3. \A i \in DOMAIN Streams : i < sync'.at => BatchOK(Streams[i])'
      BY <2>2, <3>2, LogPlaces DEF ReadInv, SyncOK
    <3> QED
      BY <1>2, <2>2, <3>1, <3>3 DEF ReadInv, SyncOK, Syncing
  <2> QED
    BY <1>3, <2>1, <2>2
<1>6. BuildTypes' /\ BuildOK'
  <2>1. CASE build' = NoBuild
    BY <2>1, NotBuilding
  <2>2. CASE build' = build
    BY <1>2, <2>2 DEF ReadInv, ReadTypes, BuildTypes, BuildOK
  <2> QED
    BY <1>4, <2>1, <2>2
<1>7. \A s \in Logs : Lines(s)' \subseteq Lines(s)
  <2>1. \A s \in Logs : sync'.batch[s] = <<>> \/ sync'.batch[s] = sync.batch[s]
    BY <1>3, Idle
  <2>2. \A s \in Logs : build'.rows[s] = <<>> \/ build'.rows[s] = build.rows[s]
    BY <1>4, NotBuilding
  <2> QED
    BY <1>2, <2>1, <2>2, EmptyLines DEF Lines
<1> QED
  BY <1>1, <1>5, <1>6, <1>7, OnlyCopies

LEMMA BuildReads ==
  ASSUME ReadInv, BeginBuild \/ ReadAll
  PROVE  ReadInv'
<1>1. UNCHANGED <<files, db, slips>> /\ sync' = sync
  BY DEF BeginBuild, ReadAll
<1>2. UNCHANGED <<log, table, mark>>
  BY <1>1 DEF files, db
<1>3. SyncTypes' /\ SyncOK'
  <2>1. SyncTypes'
    BY <1>1 DEF ReadInv, ReadTypes, SyncTypes, Syncing, Looking
  <2>2. \A s \in Logs : BatchOK(s) => BatchOK(s)'
    BY <1>1, <1>2 DEF BatchOK, From
  <2>3. \A i \in DOMAIN Streams : i < sync'.at => BatchOK(Streams[i])'
    BY <1>1, <2>2, LogPlaces DEF ReadInv, SyncOK
  <2> QED
    BY <1>1, <1>2, <2>1, <2>3 DEF ReadInv, SyncOK, Syncing
<1>4. /\ build \in BuildRecord /\ build.at \in Nat /\ Len(Streams) \in Nat
      /\ build.rows \in [Logs -> Seq(Nat)]
  BY BuildFields, LogPlaces DEF ReadInv, ReadTypes, BuildTypes
<1>5. CASE BeginBuild
  <2>1. build' = [NoBuild EXCEPT !.at = 1]
    BY <1>5 DEF BeginBuild
  <2>2. /\ build' \in BuildRecord /\ build'.at = 1 /\ ~ build'.dropped
        /\ \A s \in Logs : build'.rows[s] = <<>>
    <3>1. /\ NoBuild \in BuildRecord /\ ~ NoBuild.dropped
          /\ \A s \in Logs : NoBuild.rows[s] = <<>>
      BY Nothing
    <3> HIDE DEF NoBuild
    <3> QED
      BY <2>1, <3>1 DEF BuildRecord
  <2>3. BuildTypes'
    BY <1>4, <2>2 DEF BuildTypes
  <2>4. BuildOK'
    <3>1. \A i \in DOMAIN Streams : ~ (i < 1)
      BY LogPlaces
    <3> QED
      BY <2>2, <3>1 DEF BuildOK
  <2>5. \A s \in Logs : Lines(s)' \subseteq Lines(s)
    BY <1>1, <1>2, <2>2, EmptyLines DEF Lines
  <2> QED
    BY <1>1, <1>3, <2>3, <2>4, <2>5, OnlyCopies
<1>6. CASE ReadAll
  <2>1. PICK s \in Logs : s = Streams[build.at]
    <3>1. build.at \in DOMAIN Streams
      BY <1>4, <1>6, LogPlaces DEF ReadAll, Building
    <3> QED
      BY <3>1, LogPlaces
  <2>2. build' = [build EXCEPT !.at = build.at + 1, !.rows = [build.rows EXCEPT ![s] = log[s]]]
        /\ build.at > 0 /\ build.at <= Len(Streams)
    BY <1>6, <2>1 DEF ReadAll, Building
  <2>3. log[s] \in Seq(Nat) /\ Len(log[s]) \in Nat
    BY LogFields, LineTypes DEF ReadInv
  <2>4. /\ build' \in BuildRecord /\ build'.at = build.at + 1 /\ build'.dropped = build.dropped
        /\ build'.rows = [build.rows EXCEPT ![s] = log[s]] /\ build'.cut = build.cut
    <3>1. [build.rows EXCEPT ![s] = log[s]] \in [Logs -> Seq(Nat)] /\ build.at + 1 \in Nat
      BY <1>4, <2>3
    <3> QED
      BY <1>4, <2>2, <3>1 DEF BuildRecord
  <2>5. build'.rows[s] = log[s] /\ \A r \in Logs : r # s => build'.rows[r] = build.rows[r]
    BY <1>4, <2>4
  <2>6. BuildTypes'
    BY <1>4, <2>2, <2>4 DEF ReadInv, ReadTypes, BuildTypes
  <2>7. BuildOK'
    <3> SUFFICES ASSUME NEW i \in DOMAIN Streams, i < build'.at, Streams[i] \notin build.cut
                 PROVE  Follows(build'.rows[Streams[i]], log[Streams[i]], 0)
      BY <1>2, <2>4 DEF BuildOK
    <3>1. CASE i = build.at
      <4>1. Follows(log[s], log[s], 0)
        BY <2>3 DEF Follows
      <4> QED
        BY <2>1, <2>5, <3>1, <4>1
    <3>2. CASE i # build.at
      <4>1. i < build.at /\ Streams[i] # s /\ Streams[i] \in Logs
        <5>1. build.at \in DOMAIN Streams
          BY <1>4, <2>2, LogPlaces
        <5>2. i < build.at
          BY <1>4, <2>4, <3>2, LogPlaces
        <5> QED
          BY <2>1, <3>2, <5>1, <5>2, LogPlaces
      <4> QED
        BY <2>5, <4>1 DEF ReadInv, BuildOK
    <3> QED
      BY <3>1, <3>2
  <2>8. \A r \in Logs : Lines(r)' \subseteq Lines(r)
    BY <1>1, <1>2, <2>5 DEF Lines
  <2> QED
    BY <1>1, <1>3, <2>6, <2>7, <2>8, OnlyCopies
<1> QED
  BY <1>5, <1>6

------------------------------------------------------------------------------
(***************************************************************************)
(* What changes the tables keeps the invariant.                            *)
(***************************************************************************)
\* A sync that goes on beside a rebuild.
LEMMA TornKeeps ==
  ASSUME ReadInv, log' = log, sync' = IF Syncing THEN [sync EXCEPT !.torn = TRUE] ELSE sync
  PROVE  SyncTypes' /\ SyncOK' /\ sync'.batch = sync.batch
<1>1. sync \in SyncRecord /\ sync.at \in Nat
  BY SyncFields DEF ReadInv, ReadTypes, SyncTypes
<1>2. /\ sync' \in SyncRecord /\ sync'.at = sync.at /\ sync'.marks = sync.marks
      /\ sync'.size = sync.size /\ sync'.stated = sync.stated /\ sync'.batch = sync.batch
      /\ sync'.upto = sync.upto /\ sync'.reset = sync.reset /\ sync'.cut = sync.cut
      /\ (Syncing => sync'.torn)
  BY <1>1 DEF SyncRecord
<1>3. SyncTypes'
  BY <1>2 DEF ReadInv, ReadTypes, SyncTypes, Syncing, Looking
<1>4. ASSUME NEW i \in DOMAIN Streams, i < sync'.at PROVE BatchOK(Streams[i])'
  <2>1. PICK s \in Logs : s = Streams[i]
    BY LogPlaces
  <2>2. BatchOK(s) /\ Syncing
    BY <1>1, <1>2, <1>4, <2>1, LogPlaces DEF ReadInv, SyncOK, Syncing
  <2>3. From(s)' = From(s)
    BY <1>2 DEF From
  <2>4. BatchOK(s)'
    BY <1>2, <2>2, <2>3 DEF BatchOK
  <2> QED
    BY <2>1, <2>4
<1>5. Syncing' /\ ~ sync'.torn => sync'.marks = mark'
  BY <1>2 DEF Syncing
<1>6. SyncOK'
  BY <1>2, <1>4, <1>5 DEF ReadInv, SyncOK
<1> QED
  BY <1>2, <1>3, <1>6

LEMMA DropKeeps ==
  ASSUME ReadInv, Drop
  PROVE  ReadInv'
<1>1. /\ build' = [build EXCEPT !.dropped = TRUE] /\ build.at > Len(Streams)
      /\ table' = NoRows /\ mark' = [s \in Logs |-> NoMark] /\ twice' = {}
      /\ sync' = IF Syncing THEN [sync EXCEPT !.torn = TRUE] ELSE sync
      /\ UNCHANGED <<written, log, lapsed, shifted>>
  BY DEF Drop, files
<1>2. /\ build' \in BuildRecord /\ build'.at = build.at /\ build'.rows = build.rows
      /\ build'.cut = build.cut
  BY <1>1 DEF ReadInv, ReadTypes, BuildTypes, BuildRecord
<1>3. SyncTypes' /\ SyncOK' /\ sync'.batch = sync.batch
  BY <1>1, TornKeeps
<1>4. table' \in [Logs -> Seq(Nat)] /\ \A s \in Logs : table'[s] = <<>> /\ mark'[s] = NoMark
  BY <1>1, Nothing
<1>5. ReadTypes'
  <2>1. LogTypes'
    BY <1>1, <1>4 DEF ReadInv, ReadTypes, LogTypes
  <2>2. SlipTypes'
    BY <1>1 DEF ReadInv, ReadTypes, SlipTypes
  <2>3. BuildTypes'
    BY <1>1, <1>2 DEF ReadInv, ReadTypes, BuildTypes
  <2> QED
    BY <1>3, <2>1, <2>2, <2>3 DEF ReadTypes
<1>6. Owned'
  <2>1. \A s \in Logs : Lines(s)' \subseteq Lines(s)
    BY <1>1, <1>2, <1>3, <1>4, EmptyLines DEF Lines
  <2> QED
    BY <1>1, <2>1, StillOwned DEF ReadInv, ReadTypes, LogTypes, Owned
<1>7. BuildOK'
  BY <1>1, <1>2 DEF ReadInv, BuildOK
<1>8. Copied' /\ Exact'
  BY <1>4 DEF Copied, Exact
<1> QED
  BY <1>3, <1>5, <1>6, <1>7, <1>8 DEF ReadInv

LEMMA ImportKeeps ==
  ASSUME ReadInv, ImportAll
  PROVE  ReadInv'
<1>1. /\ build.dropped /\ ~ Refused /\ table' = build.rows
      /\ mark' = [s \in Logs |-> Len(log[s])]
      /\ lapsed' = UNION {Range(log[s]) \ Range(build.rows[s]) : s \in Logs}
      /\ build' = NoBuild /\ shifted' = build.cut
      /\ sync' = IF Syncing THEN [sync EXCEPT !.torn = TRUE] ELSE sync
      /\ UNCHANGED <<written, log, twice>>
  BY DEF ImportAll, files
<1>2. /\ build \in BuildRecord /\ build.at > Len(Streams)
      /\ build.rows \in [Logs -> Seq(Nat)] /\ build.cut \in SUBSET Logs
  BY <1>1, BuildFields DEF ReadInv, ReadTypes, BuildTypes
<1>3. SyncTypes' /\ SyncOK' /\ sync'.batch = sync.batch
  BY <1>1, TornKeeps
<1>4. BuildTypes' /\ BuildOK' /\ \A s \in Logs : build'.rows[s] = <<>>
  BY <1>1, NotBuilding
<1>5. \A s \in Logs : log[s] \in Seq(Nat) /\ Len(log[s]) \in Nat /\ mark'[s] = Len(log[s])
  BY <1>1, LogFields, LineTypes DEF ReadInv
<1>6. \A s \in Logs : s \notin build.cut => Follows(build.rows[s], log[s], 0)
  <2> SUFFICES ASSUME NEW s \in Logs, s \notin build.cut PROVE Follows(build.rows[s], log[s], 0)
    OBVIOUS
  <2>1. PICK i \in DOMAIN Streams : Streams[i] = s
    BY LogPlaces
  <2>2. i < build.at
    BY <1>2, LogPlaces, BuildFields
  <2> QED
    BY <2>1, <2>2 DEF ReadInv, BuildOK
<1>7. ReadTypes'
  <2>1. mark' \in [Logs -> Nat \cup {NoMark}]
    BY <1>1, <1>5
  <2>2. \A s \in Logs : mark'[s] # NoMark
    BY <1>5, ReadModelAssumption
  <2>3. LogTypes'
    BY <1>1, <1>2, <2>1, <2>2 DEF ReadInv, ReadTypes, LogTypes
  <2>4. lapsed' \subseteq 1 .. written
    BY <1>1 DEF ReadInv, Owned, Lines
  <2>5. SlipTypes'
    BY <1>1, <1>2, <2>4 DEF ReadInv, ReadTypes, SlipTypes
  <2> QED
    BY <1>3, <1>4, <2>3, <2>5 DEF ReadTypes
<1>8. Owned'
  <2>1. \A s \in Logs : Lines(s)' \subseteq Lines(s)
    BY <1>1, <1>3, <1>4, EmptyLines DEF Lines
  <2> QED
    BY <1>1, <2>1, StillOwned DEF ReadInv, ReadTypes, LogTypes, Owned
<1>9. Copied'
  <2> SUFFICES ASSUME NEW s \in Logs
               PROVE  /\ mark'[s] <= Len(log[s])
                      /\ \A i \in 1 .. mark'[s] : log[s][i] \in Range(table'[s]) \cup lapsed'
    BY <1>1 DEF Copied
  <2>1. \A i \in 1 .. Len(log[s]) : log[s][i] \in Range(log[s])
    BY <1>5, LineTypes
  <2>2. Range(log[s]) \subseteq Range(table'[s]) \cup lapsed'
    BY <1>1
  <2>3. Len(log[s]) <= Len(log[s])
    BY <1>5
  <2> QED
    BY <1>5, <2>1, <2>2, <2>3
<1>10. Exact'
  <2> SUFFICES ASSUME NEW s \in Logs \ Keyed, s \notin build.cut, lapsed' \cap Range(log[s]) = {}
               PROVE  /\ Len(build.rows[s]) = Len(log[s])
                      /\ \A k \in 1 .. Len(log[s]) : build.rows[s][k] = log[s][k]
    BY <1>1, <1>5 DEF Exact
  <2>1. /\ Len(build.rows[s]) <= Len(log[s]) /\ Len(build.rows[s]) \in Nat
        /\ \A k \in 1 .. Len(build.rows[s]) : build.rows[s][k] = log[s][k]
    <3>1. build.rows[s] \in Seq(Nat) /\ Len(build.rows[s]) \in Nat
      BY <1>2, LineTypes
    <3>2. 0 + Len(build.rows[s]) <= Len(log[s])
          /\ \A k \in 1 .. Len(build.rows[s]) : build.rows[s][k] = log[s][0 + k]
      BY <1>6 DEF Follows
    <3>3. \A k \in 1 .. Len(build.rows[s]) : 0 + k = k
      BY <3>1
    <3> QED
      BY <3>1, <3>2, <3>3
  <2>2. Range(log[s]) \subseteq Range(build.rows[s])
    BY <1>1
  <2>3. Len(build.rows[s]) = Len(log[s])
    <3> SUFFICES ASSUME Len(build.rows[s]) < Len(log[s]) PROVE FALSE
      BY <1>5, <2>1
    <3> DEFINE j == Len(build.rows[s]) + 1
    <3>1. j \in 1 .. Len(log[s])
      BY <1>5, <2>1
    <3>2. log[s][j] \in Range(build.rows[s])
      BY <1>5, <2>2, <3>1, LineTypes
    <3>3. PICK k \in 1 .. Len(build.rows[s]) : build.rows[s][k] = log[s][j]
      BY <1>2, <3>2, LineTypes
    <3>4. log[s][k] = log[s][j] /\ k \in 1 .. Len(log[s]) /\ k # j
      BY <1>5, <2>1, <3>3
    <3>5. IsInjective(log[s]) /\ DOMAIN log[s] = 1 .. Len(log[s])
      BY <1>5, LineTypes DEF ReadInv, Owned
    <3> HIDE DEF j
    <3> QED
      BY <3>1, <3>4, <3>5 DEF IsInjective
  <2> QED
    BY <2>1, <2>3
<1> QED
  BY <1>3, <1>4, <1>7, <1>8, <1>9, <1>10 DEF ReadInv

\* What a sync has read of a log, and what its import makes of the table.
LEMMA ImportedLines ==
  ASSUME ReadInv, Syncing, ~ Looking, NEW s \in Logs
  PROVE  /\ BatchOK(s) /\ sync.upto[s] \in Nat /\ From(s) \in Nat
         /\ Imported(s) \in Seq(Nat)
         /\ Range(sync.batch[s]) \subseteq Range(Imported(s))
         /\ s \notin sync.reset => Range(table[s]) \subseteq Range(Imported(s))
         /\ Range(Imported(s)) \subseteq Range(table[s]) \cup Range(sync.batch[s])
<1>1. log[s] \in Seq(Nat) /\ table[s] \in Seq(Nat) /\ sync.batch[s] \in Seq(Nat)
  BY LogFields DEF ReadInv
<1>2. BatchOK(s)
  <2>1. PICK i \in DOMAIN Streams : Streams[i] = s
    BY LogPlaces
  <2>2. sync.at \in Nat
    BY SyncFields DEF ReadInv, ReadTypes, SyncTypes
  <2>3. i < sync.at
    BY <2>2, LogPlaces DEF Looking
  <2> QED
    BY <2>1, <2>3 DEF ReadInv, SyncOK
<1> DEFINE rows == IF s \in sync.reset THEN <<>> ELSE table[s]
<1>3. /\ rows \in Seq(Nat) /\ Range(rows) \subseteq Range(table[s])
      /\ (s \notin sync.reset => Range(rows) = Range(table[s]))
  BY <1>1, EmptyLines
<1>4. Imported(s) = IF s \in Keyed THEN Ignoring(rows, sync.batch[s]) ELSE rows \o sync.batch[s]
  BY DEF Imported
<1> HIDE DEF rows
<1>5. /\ Ignoring(rows, sync.batch[s]) \in Seq(Nat)
      /\ Range(Ignoring(rows, sync.batch[s])) = Range(rows) \cup Range(sync.batch[s])
  BY <1>1, <1>3, IgnoringLines, Zenon
<1>6. /\ rows \o sync.batch[s] \in Seq(Nat)
      /\ Range(rows \o sync.batch[s]) = Range(rows) \cup Range(sync.batch[s])
  BY <1>1, <1>3, JoinedLines, Zenon
<1>7. /\ Imported(s) \in Seq(Nat)
      /\ Range(Imported(s)) = Range(rows) \cup Range(sync.batch[s])
  BY <1>4, <1>5, <1>6, Zenon
<1> QED
  BY <1>2, <1>3, <1>7 DEF BatchOK

\* The lines that a commit no longer counts as slipped are none of a log it keeps.
LEMMA StillLapsed ==
  ASSUME ReadInv, Commit, ~ sync.torn, NEW s \in Logs, s \notin sync.reset,
         NEW x \in Lines(s), x \in lapsed
  PROVE  x \in lapsed'
<1>1. lapsed' = lapsed \ UNION {Range(sync.batch[r]) : r \in sync.reset}
  BY DEF Commit
<1>2. ASSUME NEW r \in sync.reset PROVE x \notin Range(sync.batch[r])
  <2>1. r \in Logs /\ r # s
    BY SyncFields DEF ReadInv, ReadTypes, SyncTypes
  <2> QED
    BY <2>1 DEF ReadInv, Owned, Lines
<1> QED
  BY <1>1, <1>2

LEMMA CommitKeeps ==
  ASSUME ReadInv, Commit
  PROVE  ReadInv'
<1>1. /\ Syncing /\ ~ Looking /\ table' = [s \in Logs |-> Imported(s)] /\ mark' = sync.upto
      /\ sync' = NoSync /\ shifted' = (shifted \ sync.reset) \cup sync.cut
      /\ UNCHANGED <<written, log, build>>
  BY DEF Commit, files
<1>2. /\ sync \in SyncRecord /\ sync.reset \in SUBSET Logs /\ sync.cut \in SUBSET Logs
      /\ sync.upto \in [Logs -> Nat \cup {<<>>}]
  BY SyncFields DEF ReadInv, ReadTypes, SyncTypes
<1>3. SyncTypes' /\ SyncOK' /\ \A s \in Logs : sync'.batch[s] = <<>>
  BY <1>1, Idle
<1>4. BuildTypes' /\ BuildOK'
  BY <1>1 DEF ReadInv, ReadTypes, BuildTypes, BuildOK
<1>5. \A s \in Logs : /\ table'[s] = Imported(s) /\ table'[s] \in Seq(Nat)
                      /\ mark'[s] = sync.upto[s] /\ mark'[s] \in Nat
  BY <1>1, ImportedLines
<1>6. ReadTypes'
  <2>1. table' \in [Logs -> Seq(Nat)]
    BY <1>1, ImportedLines
  <2>2. mark' \in [Logs -> Nat \cup {NoMark}]
    BY <1>1, <1>2, <1>5
  <2>3. \A s \in Logs : mark'[s] # NoMark
    BY <1>5, ReadModelAssumption
  <2>4. LogTypes'
    BY <1>1, <2>1, <2>2, <2>3 DEF ReadInv, ReadTypes, LogTypes
  <2>5. lapsed' \subseteq 1 .. written
    <3>1. lapsed' \subseteq lapsed \cup UNION {Range(log[s]) \ Range(Imported(s)) : s \in Logs}
      BY DEF Commit
    <3>2. \A s \in Logs : Range(log[s]) \subseteq 1 .. written
      BY DEF ReadInv, Owned, Lines
    <3> QED
      BY <3>1, <3>2 DEF ReadInv, ReadTypes, SlipTypes
  <2>6. twice' \subseteq Logs
    BY DEF Commit
  <2>7. SlipTypes'
    BY <1>1, <1>2, <2>5, <2>6 DEF ReadInv, ReadTypes, SlipTypes
  <2> QED
    BY <1>3, <1>4, <2>4, <2>7 DEF ReadTypes
<1>7. Owned'
  <2>1. \A s \in Logs : Lines(s)' \subseteq Lines(s)
    BY <1>1, <1>3, <1>5, ImportedLines, EmptyLines DEF Lines
  <2> QED
    BY <1>1, <2>1, StillOwned DEF ReadInv, ReadTypes, LogTypes, Owned
\* What was read of a log that was not cut continues what was copied of it.
<1>8. ASSUME NEW s \in Logs, s \notin shifted'
      PROVE  /\ s \notin sync.cut /\ (s \notin sync.reset => s \notin shifted)
             /\ log[s] \in Seq(Nat) /\ Len(log[s]) \in Nat
             /\ sync.batch[s] \in Seq(Nat) /\ Len(sync.batch[s]) \in Nat
             /\ From(s) \in Nat /\ sync.upto[s] \in Nat /\ From(s) <= sync.upto[s]
             /\ sync.upto[s] <= From(s) + Len(sync.batch[s])
             /\ From(s) + Len(sync.batch[s]) <= Len(log[s])
             /\ \A k \in 1 .. Len(sync.batch[s]) : sync.batch[s][k] = log[s][From(s) + k]
  <2>1. s \notin sync.cut /\ (s \notin sync.reset => s \notin shifted)
    BY <1>1, <1>8
  <2>2. log[s] \in Seq(Nat) /\ sync.batch[s] \in Seq(Nat)
    BY LogFields DEF ReadInv
  <2>3. BatchOK(s) /\ From(s) \in Nat /\ sync.upto[s] \in Nat
    BY <1>1, ImportedLines
  <2>4. Follows(sync.batch[s], log[s], From(s)) /\ From(s) <= sync.upto[s]
        /\ sync.upto[s] <= From(s) + Len(sync.batch[s])
    BY <2>1, <2>3 DEF BatchOK
  <2> QED
    BY <2>1, <2>2, <2>3, <2>4, LineTypes DEF Follows
<1>9. ASSUME ~ sync.torn, NEW s \in Logs, s \notin sync.reset
      PROVE  From(s) = mark[s] /\ mark[s] # NoMark
  <2>1. From(s) = mark[s] /\ From(s) \in Nat
    BY <1>1, <1>9, ImportedLines DEF ReadInv, SyncOK, From
  <2> QED
    BY <2>1, ReadModelAssumption
<1>10. Copied'
  <2> SUFFICES ASSUME NEW s \in Logs, s \notin shifted'
               PROVE  /\ sync.upto[s] <= Len(log[s])
                      /\ \A i \in 1 .. sync.upto[s] :
                           log[s][i] \in Range(Imported(s)) \cup lapsed'
    BY <1>1, <1>5 DEF Copied
  <2>1. sync.upto[s] <= Len(log[s])
    BY <1>8
  <2>2. ASSUME NEW i \in 1 .. sync.upto[s] PROVE log[s][i] \in Range(Imported(s)) \cup lapsed'
    <3>0. i \in 1 .. Len(log[s]) /\ log[s][i] \in Range(log[s])
      BY <1>8, <2>1, LineTypes
    <3>1. CASE sync.torn
      <4>1. lapsed' = lapsed \cup UNION {Range(log[r]) \ Range(Imported(r)) : r \in Logs}
        BY <3>1 DEF Commit
      <4> QED
        BY <3>0, <4>1
    <3>2. CASE ~ sync.torn /\ i <= From(s)
      <4>1. s \notin sync.reset
        BY <1>8, <3>2 DEF From
      <4>2. mark[s] = From(s) /\ mark[s] # NoMark /\ s \notin shifted
        BY <1>8, <1>9, <3>2, <4>1
      <4>3. i \in 1 .. mark[s]
        BY <1>8, <3>2, <4>2
      <4>4. log[s][i] \in Range(table[s]) \cup lapsed
        BY <4>2, <4>3 DEF ReadInv, Copied
      <4>5. log[s][i] \in lapsed => log[s][i] \in lapsed'
        BY <3>0, <3>2, <4>1, StillLapsed DEF Lines
      <4> QED
        BY <1>1, <4>1, <4>4, <4>5, ImportedLines
    <3>3. CASE ~ sync.torn /\ ~ (i <= From(s))
      <4>1. PICK k \in 1 .. Len(sync.batch[s]) : From(s) + k = i
        <5>1. i - From(s) \in 1 .. Len(sync.batch[s]) /\ From(s) + (i - From(s)) = i
          BY <1>8, <3>3
        <5> QED
          BY <5>1
      <4>2. log[s][i] = sync.batch[s][k]
        BY <1>8, <4>1
      <4>3. log[s][i] \in Range(sync.batch[s])
        BY <1>8, <4>2, LineTypes
      <4> QED
        BY <1>1, <4>3, ImportedLines
    <3> QED
      BY <3>1, <3>2, <3>3
  <2> QED
    BY <2>1, <2>2
<1>11. Exact'
  <2> SUFFICES ASSUME NEW s \in Logs \ Keyed, s \notin shifted', s \notin twice',
                      lapsed' \cap Range(log[s]) = {}
               PROVE  /\ Len(Imported(s)) = sync.upto[s]
                      /\ \A k \in 1 .. sync.upto[s] : Imported(s)[k] = log[s][k]
    BY <1>1, <1>5 DEF Exact
  <2>1. /\ ~ sync.torn /\ (s \notin sync.reset => s \notin twice)
        /\ ~ (Len(sync.batch[s]) > sync.upto[s] - From(s))
    BY DEF Commit, From
  <2>5. /\ sync.upto[s] \in Nat /\ From(s) \in Nat /\ Len(sync.batch[s]) \in Nat
        /\ sync.upto[s] <= From(s) + Len(sync.batch[s])
        /\ table[s] \in Seq(Nat) /\ sync.batch[s] \in Seq(Nat)
    BY <1>8, LogFields DEF ReadInv
  <2>2. Len(sync.batch[s]) = sync.upto[s] - From(s)
    <3>1. \A a, b, c \in Nat : a <= b + c /\ ~ (c > a - b) => c = a - b
      OBVIOUS
    <3> QED
      BY <2>1, <2>5, <3>1, Zenon
  <2>3. CASE s \in sync.reset
    <3>1. Imported(s) = sync.batch[s] /\ From(s) = 0
      <4>1. Imported(s) = <<>> \o sync.batch[s]
        BY <2>3 DEF Imported
      <4> QED
        BY <1>8, <2>3, <4>1 DEF From
    <3>2. Len(sync.batch[s]) = sync.upto[s]
      BY <1>8, <2>2, <3>1
    <3>3. \A k \in 1 .. Len(sync.batch[s]) : 0 + k = k
      BY <1>8
    <3> QED
      BY <1>8, <3>1, <3>2, <3>3
  <2>4. CASE s \notin sync.reset
    <3>1. Imported(s) = table[s] \o sync.batch[s]
      BY <2>4 DEF Imported
    <3>2. mark[s] = From(s) /\ mark[s] # NoMark /\ s \notin shifted /\ s \notin twice
      BY <1>8, <1>9, <2>1, <2>4
    <3>3. lapsed \cap Range(log[s]) = {}
      BY <2>1, <2>4, StillLapsed DEF Lines
    <3>4. Len(table[s]) = mark[s] /\ \A k \in 1 .. mark[s] : table[s][k] = log[s][k]
      BY <3>2, <3>3 DEF ReadInv, Exact
    <3>5. /\ Len(Imported(s)) = Len(table[s]) + Len(sync.batch[s])
          /\ \A i \in 1 .. Len(table[s]) : Imported(s)[i] = table[s][i]
          /\ \A i \in 1 .. Len(sync.batch[s]) : Imported(s)[Len(table[s]) + i] = sync.batch[s][i]
      <4>1. LET a == table[s] \o sync.batch[s] IN
            /\ Len(a) = Len(table[s]) + Len(sync.batch[s])
            /\ \A i \in 1 .. Len(table[s]) : a[i] = table[s][i]
            /\ \A i \in 1 .. Len(sync.batch[s]) : a[Len(table[s]) + i] = sync.batch[s][i]
        BY <2>5, JoinedLines, Zenon
      <4> QED
        BY <3>1, <4>1
    <3>6. Len(Imported(s)) = sync.upto[s]
      BY <1>8, <2>2, <3>2, <3>4, <3>5
    <3>7. ASSUME NEW k \in 1 .. sync.upto[s] PROVE Imported(s)[k] = log[s][k]
      <4>1. CASE k <= From(s)
        <5>1. k \in 1 .. mark[s]
          BY <1>8, <3>2, <4>1
        <5> QED
          BY <3>4, <3>5, <5>1
      <4>2. CASE ~ (k <= From(s))
        <5>1. PICK i \in 1 .. Len(sync.batch[s]) : From(s) + i = k
          <6>1. k - From(s) \in 1 .. Len(sync.batch[s]) /\ From(s) + (k - From(s)) = k
            BY <1>8, <2>2, <4>2
          <6> QED
            BY <6>1
        <5>2. Imported(s)[Len(table[s]) + i] = sync.batch[s][i] /\ Len(table[s]) = From(s)
          BY <3>2, <3>4, <3>5, <5>1
        <5> QED
          BY <1>8, <5>1, <5>2
      <4> QED
        BY <4>1, <4>2
    <3> QED
      BY <3>6, <3>7
  <2> QED
    BY <2>3, <2>4
<1> QED
  BY <1>3, <1>4, <1>6, <1>7, <1>10, <1>11 DEF ReadInv

LEMMA ReadInvKept ==
  ASSUME ReadInv, [ReadNext]_readVars
  PROVE  ReadInv'
<1>1. ASSUME NEW s \in Logs, AppendLine(s) PROVE ReadInv'
  BY <1>1, WriteKeeps DEF AppendLine
<1>2. ASSUME NEW s \in Logs, AppendAgain(s) PROVE ReadInv'
  BY <1>2, WriteKeeps DEF AppendAgain
<1>3. ASSUME NEW s \in Logs, Cut(s) PROVE ReadInv'
  BY <1>3, CutKeeps
<1>4. CASE SyncStep
  BY <1>4, SyncReads, ReadBatchKeeps, CommitKeeps DEF SyncStep
<1>5. CASE SyncFails \/ Down
  BY <1>5, GivingUpKeeps
<1>6. CASE BeginBuild
  BY <1>6, BuildReads
<1>7. CASE BuildStep
  BY <1>7, BuildReads, DropKeeps, ImportKeeps, GivingUpKeeps DEF BuildStep
<1>8. CASE UNCHANGED readVars
  <2>1. UNCHANGED <<files, db, sync, build, slips>>
    BY <1>8 DEF readVars
  <2>2. UNCHANGED <<log, table, mark>>
    BY <2>1 DEF files, db
  <2>3. SyncTypes' /\ BuildTypes' /\ BuildOK'
    BY <2>1, <2>2 DEF ReadInv, ReadTypes, SyncTypes, Syncing, Looking, BuildTypes, BuildOK
  <2>4. \A s \in Logs : BatchOK(s) => BatchOK(s)'
    BY <2>1, <2>2 DEF BatchOK, From
  <2>5. \A i \in DOMAIN Streams : i < sync'.at => BatchOK(Streams[i])'
    BY <2>1, <2>4, LogPlaces DEF ReadInv, SyncOK
  <2>6. SyncOK'
    BY <2>1, <2>2, <2>5 DEF ReadInv, SyncOK, Syncing
  <2>7. \A s \in Logs : Lines(s)' \subseteq Lines(s)
    BY <2>1, <2>2 DEF Lines
  <2> QED
    BY <2>1, <2>3, <2>6, <2>7, OnlyCopies
<1> QED
  BY <1>1, <1>2, <1>3, <1>4, <1>5, <1>6, <1>7, <1>8 DEF ReadNext, Writers

LEMMA ReadInvariant == ReadSpec => []ReadInv
<1>1. ReadInit => ReadInv
  <2> SUFFICES ASSUME ReadInit PROVE ReadInv
    OBVIOUS
  <2>1. /\ written = 0 /\ log = NoRows /\ table = NoRows /\ mark = [s \in Logs |-> NoMark]
        /\ sync = NoSync /\ build = NoBuild /\ lapsed = {} /\ twice = {} /\ shifted = {}
    BY DEF ReadInit
  <2>2. \A s \in Logs : /\ log[s] = <<>> /\ table[s] = <<>> /\ mark[s] = NoMark
                        /\ sync.batch[s] = <<>> /\ build.rows[s] = <<>>
    BY <2>1, Nothing
  <2>3. /\ sync \in SyncRecord /\ sync.at = 0 /\ ~ sync.stated /\ sync.reset = {}
        /\ build \in BuildRecord /\ build.at = 0 /\ ~ build.dropped
    BY <2>1, Nothing
  <2>4. 0 <= Len(Streams) + 1 /\ ~ (0 > 0) /\ \A i \in DOMAIN Streams : ~ (i < 0)
    BY LogPlaces
  <2>5. ReadTypes
    <3>1. LogTypes
      BY <2>1, <2>2, Nothing DEF LogTypes
    <3>2. SyncTypes
      BY <2>3, <2>4 DEF SyncTypes, Syncing
    <3>3. BuildTypes /\ SlipTypes
      BY <2>1, <2>3, <2>4 DEF BuildTypes, SlipTypes
    <3> QED
      BY <3>1, <3>2, <3>3 DEF ReadTypes
  <2>6. Owned
    <3>1. \A s \in Logs : Lines(s) = {}
      BY <2>2, EmptyLines DEF Lines
    <3>2. \A s \in Logs : IsInjective(log[s])
      <4>1. IsInjective(<<>>)
        BY DEF IsInjective
      <4> QED
        BY <2>2, <4>1
    <3> QED
      BY <3>1, <3>2 DEF Owned
  <2>7. SyncOK /\ BuildOK
    BY <2>3, <2>4 DEF SyncOK, BuildOK, Syncing
  <2>8. Copied /\ Exact
    BY <2>2 DEF Copied, Exact
  <2> QED
    BY <2>5, <2>6, <2>7, <2>8 DEF ReadInv
<1>2. ReadInv /\ [ReadNext]_readVars => ReadInv'
  BY ReadInvKept
<1> QED
  BY <1>1, <1>2, PTL DEF ReadSpec

LEMMA LinesOf ==
  ASSUME NEW S, NEW q \in Seq(Nat), \A i \in 1 .. Len(q) : q[i] \in S
  PROVE  q \in Seq(S)
  OBVIOUS

\* The logs and the tables hold lines that were written; a log without a watermark has no rows.
THEOREM ReadTypeCorrect == ReadSpec => []ReadTypeOK
<1>1. ReadInv => ReadTypeOK
  <2> SUFFICES ASSUME ReadInv PROVE ReadTypeOK
    OBVIOUS
  <2>1. ASSUME NEW s \in Logs PROVE log[s] \in Seq(1 .. written) /\ table[s] \in Seq(1 .. written)
    <3>1. log[s] \in Seq(Nat) /\ table[s] \in Seq(Nat)
      BY LogFields DEF ReadInv
    <3>2. Range(log[s]) \subseteq 1 .. written /\ Range(table[s]) \subseteq 1 .. written
      BY DEF ReadInv, Owned, Lines
    <3>3. \A i \in 1 .. Len(log[s]) : log[s][i] \in 1 .. written
      BY <3>1, <3>2, LineTypes
    <3>4. \A i \in 1 .. Len(table[s]) : table[s][i] \in 1 .. written
      BY <3>1, <3>2, LineTypes
    <3> QED
      BY <3>1, <3>3, <3>4, LinesOf, Zenon
  <2>2. /\ log \in [Logs -> Seq(1 .. written)] /\ table \in [Logs -> Seq(1 .. written)]
        /\ mark \in [Logs -> Nat \cup {NoMark}]
        /\ \A s \in Logs : mark[s] = NoMark => table[s] = <<>>
    BY <2>1 DEF ReadInv, ReadTypes, LogTypes
  <2>3. sync.at \in 0 .. Len(Streams) + 1 /\ build.at \in 0 .. Len(Streams) + 1
    BY SyncFields, BuildFields, LogPlaces DEF ReadInv, ReadTypes, SyncTypes, BuildTypes
  <2> QED
    BY <2>2, <2>3 DEF ReadInv, ReadTypes, SlipTypes, ReadTypeOK
<1> QED
  BY <1>1, ReadInvariant, PTL

\* The watermark of a log is honest, for any logs and any interleaving of the writers, the
\* retention job, the syncs and the rebuilds, with the failures of each (sync_from_jsonl).
THEOREM WatermarkIsHonest == ReadSpec => []NothingSkipped
<1>1. ReadInv => NothingSkipped
  <2> SUFFICES ASSUME ReadInv, NEW s \in Logs \ shifted, mark[s] # NoMark,
                      NEW i \in DOMAIN log[s], i <= mark[s]
               PROVE  log[s][i] \in Range(table[s]) \cup lapsed
    BY DEF NothingSkipped
  <2>1. mark[s] \in Nat /\ log[s] \in Seq(Nat)
    BY LogFields DEF ReadInv
  <2>2. i \in 1 .. mark[s]
    BY <2>1, LineTypes
  <2> QED
    BY <2>2 DEF ReadInv, Copied
<1> QED
  BY <1>1, ReadInvariant, PTL

\* A log without a key that has been copied to its end and its table give the same answers,
\* for they are the same sequence, unless the log was cut since, a line has slipped through,
\* or one may have been imported twice: one that was appended between the size and the read
\* of a sync, or that a sync imported beside a rebuild (metrics_snapshots,
\* provider_usage_by_model and what they fall back to).
THEOREM ProjectionAgrees == ReadSpec => []AnswersAgree
<1>1. ReadInv => AnswersAgree
  <2> SUFFICES ASSUME ReadInv, NEW s \in Logs \ (Keyed \cup shifted \cup twice),
                      mark[s] = Len(log[s]), lapsed \cap Range(log[s]) = {}
               PROVE  /\ metrics_snapshots(s) = read_metrics_history(s)
                      /\ provider_usage_by_model(s) = provider_usage_summary(s)
    BY DEF AnswersAgree
  <2>1. log[s] \in Seq(Nat) /\ table[s] \in Seq(Nat)
    BY LogFields DEF ReadInv
  <2>2. mark[s] # NoMark
    BY <2>1, LineTypes, ReadModelAssumption
  <2>3. Len(table[s]) = Len(log[s]) /\ \A k \in 1 .. Len(log[s]) : table[s][k] = log[s][k]
    BY <2>2 DEF ReadInv, Exact
  <2>4. table[s] = log[s]
    BY <2>1, <2>3, SameLines
  <2> QED
    BY <2>4 DEF metrics_snapshots, read_metrics_history, provider_usage_by_model,
                provider_usage_summary
<1> QED
  BY <1>1, ReadInvariant, PTL

------------------------------------------------------------------------------
(***************************************************************************)
(* The tables are a view of the logs: each step of the read model is one   *)
(* of MaterializedView, or none.                                           *)
(***************************************************************************)
Produced == Logs \X (1 .. written)
Source == {p \in Produced : p[2] \in Range(log[p[1]]) \ lapsed}
Shown == {p \in Produced : p[2] \in Range(table[p[1]])}

LEMMA Seen == View!vars = <<Produced, Source, Shown, build.dropped>>
  BY DEF View!vars, Produced, Source, Shown

LEMMA NothingSeen ==
  ASSUME UNCHANGED <<written, log, table, lapsed>>, build'.dropped = build.dropped
  PROVE  UNCHANGED View!vars
  BY Seen DEF View!vars

\* A new line is produced; one that is stored again has been there before.
LEMMA WriteProduces ==
  ASSUME ReadInv, NEW s \in Logs, NEW line, Write(s, line),
         line = written + 1 \/ line \in Range(log[s])
  PROVE  View!Produce
<1>1. /\ written' = written + 1 /\ log' = [log EXCEPT ![s] = Append(log[s], line)]
      /\ UNCHANGED <<table, lapsed, build>>
  BY DEF Write, db, slips
<1>2. /\ written \in Nat /\ log \in [Logs -> Seq(Nat)] /\ log[s] \in Seq(Nat)
      /\ \A r \in Logs : Range(log[r]) \subseteq 1 .. written
      /\ \A r \in Logs : Range(table[r]) \subseteq 1 .. written
  BY DEF ReadInv, ReadTypes, LogTypes, Owned, Lines
<1>3. line \in Nat
  BY <1>2
<1>4. \A r \in Logs : Range(log'[r]) \subseteq Range(log[r]) \cup {line}
  BY <1>1, <1>2, <1>3, OneMoreLine
<1>5. Produced \subseteq Produced'
  BY <1>1, <1>2 DEF Produced
<1>6. ASSUME NEW p \in Source', p \in Produced PROVE p \in Source
  <2>1. /\ p[1] \in Logs /\ p[2] \in 1 .. written
        /\ p[2] \in Range(log'[p[1]]) /\ p[2] \notin lapsed
    BY <1>1, <1>6 DEF Source, Produced
  <2>2. p[2] \in Range(log[p[1]])
    <3>1. CASE p[1] # s
      BY <1>1, <1>2, <2>1, <3>1
    <3>2. CASE p[1] = s
      <4>1. p[2] # written + 1
        BY <1>2, <2>1
      <4> QED
        BY <1>4, <2>1, <3>2, <4>1
    <3> QED
      BY <3>1, <3>2
  <2> QED
    BY <1>6, <2>1, <2>2 DEF Source
<1>7. Shown' = Shown
  BY <1>1, <1>2, <1>5 DEF Shown, Produced
<1>8. Source' \subseteq Source \cup (Produced' \ Produced)
  BY <1>6 DEF Source
<1> QED
  BY <1>1, <1>5, <1>7, <1>8 DEF View!Produce, Produced, Source, Shown

\* No row of a line that stays in its log is lost.
LEMMA CommitRefreshes ==
  ASSUME ReadInv, Commit
  PROVE  View!Refresh
<1>1. /\ Syncing /\ ~ Looking /\ table' = [s \in Logs |-> Imported(s)]
      /\ UNCHANGED <<written, log, build>>
  BY DEF Commit, files
<1>2. ASSUME NEW p \in Source \cap Source' \cap Shown PROVE p \in Shown'
  <2>1. /\ p \in Produced /\ p[1] \in Logs /\ p[2] \in Range(log[p[1]])
        /\ p[2] \notin lapsed' /\ p[2] \in Range(table[p[1]])
    BY <1>2 DEF Source, Shown, Produced
  <2>2. PICK s \in Logs : s = p[1]
    BY <2>1
  <2>3. p[2] \in Range(Imported(s))
    <3>1. CASE s \notin sync.reset
      BY <1>1, <2>1, <2>2, <3>1, ImportedLines
    <3>2. CASE s \in sync.reset /\ ~ sync.torn
      BY <1>1, <2>1, <2>2, <3>2, ImportedLines DEF BatchOK
    <3>3. CASE sync.torn
      <4>1. lapsed' = lapsed \cup UNION {Range(log[r]) \ Range(Imported(r)) : r \in Logs}
        BY <3>3 DEF Commit
      <4> QED
        BY <2>1, <2>2, <4>1
    <3> QED
      BY <3>1, <3>2, <3>3
  <2>4. p \in Produced'
    BY <1>1, <2>1 DEF Produced
  <2> QED
    BY <1>1, <2>2, <2>3, <2>4 DEF Shown
<1>3. Produced' = Produced
  BY <1>1 DEF Produced
<1>4. Source \cap Source' \cap Shown \subseteq Shown' /\ Shown' \subseteq Produced
      /\ Source' \subseteq Produced
  BY <1>2, <1>3 DEF Shown, Source
<1> QED
  BY <1>1, <1>3, <1>4 DEF View!Refresh, Produced, Source, Shown

LEMMA CutRefreshes ==
  ASSUME ReadInv, NEW s \in Logs, Cut(s)
  PROVE  View!Refresh
<1>1. UNCHANGED <<written, table>>
  BY DEF Cut, db
<1>2. build'.dropped = build.dropped
  BY DEF Cut, ReadInv, ReadTypes, BuildTypes, BuildRecord
<1>3. Produced' = Produced /\ Shown' = Shown
  BY <1>1 DEF Produced, Shown
<1>4. Shown' \subseteq Produced /\ Source' \subseteq Produced
  BY <1>3 DEF Shown, Source
<1> QED
  BY <1>2, <1>3, <1>4 DEF View!Refresh, Produced, Source, Shown

LEMMA DropDiscards ==
  ASSUME ReadInv, Drop
  PROVE  View!Discard
<1>1. /\ table' = NoRows /\ build'.dropped /\ build'.dropped = TRUE
      /\ UNCHANGED <<written, log, lapsed>>
  BY DEF Drop, files, ReadInv, ReadTypes, BuildTypes, BuildRecord
<1>2. Produced' = Produced /\ Source' = Source
  BY <1>1 DEF Produced, Source
<1>3. Shown' = {}
  BY <1>1, Nothing, EmptyLines DEF Shown, Produced
<1> QED
  BY <1>1, <1>2, <1>3 DEF View!Discard, Produced, Source, Shown

\* The second half of a rebuild, its failure, or the end of the process between the halves.
LEMMA RebuildSettles ==
  ASSUME ReadInv, build.dropped, ImportAll \/ BuildFails \/ Down
  PROVE  View!Settle
<1>1. written' = written /\ build' = NoBuild /\ ~ build'.dropped
  BY Nothing DEF ImportAll, BuildFails, Down, files
<1>2. Produced' = Produced
  BY <1>1 DEF Produced
<1>3. Shown \subseteq Shown'
  <2>1. CASE ImportAll
    <3>1. \A s \in Logs : table[s] = <<>>
      BY <2>1, LogFields DEF ImportAll, Refused, ReadInv
    <3> QED
      BY <3>1, EmptyLines DEF Shown, Produced
  <2>2. CASE BuildFails \/ Down
    <3>1. table' = table
      BY <2>2 DEF BuildFails, Down, db
    <3> QED
      BY <1>2, <3>1 DEF Shown
  <2> QED
    BY <2>1, <2>2
<1>4. Shown' \subseteq Produced /\ Source' \subseteq Produced
  BY <1>2 DEF Shown, Source
<1>5. build.dropped = TRUE /\ build'.dropped = FALSE
  BY <1>1, Nothing, BuildFields DEF ReadInv, ReadTypes, BuildTypes
<1> QED
  BY <1>2, <1>3, <1>4, <1>5 DEF View!Settle, Produced, Source, Shown

LEMMA ViewStep ==
  ASSUME ReadInv, [ReadNext]_readVars
  PROVE  [View!Next]_(View!vars)
<1>1. ASSUME NEW s \in Logs, AppendLine(s) PROVE View!Produce
  BY <1>1, WriteProduces DEF AppendLine
<1>2. ASSUME NEW s \in Logs, AppendAgain(s) PROVE View!Produce
  BY <1>2, WriteProduces DEF AppendAgain
<1>3. ASSUME NEW s \in Logs, Cut(s) PROVE View!Refresh
  BY <1>3, CutRefreshes
<1>4. CASE Commit
  BY <1>4, CommitRefreshes DEF View!Next
<1>5. CASE Drop
  BY <1>5, DropDiscards DEF View!Next
<1>6. CASE ImportAll \/ BuildFails \/ (Down /\ build.dropped)
  <2>1. build.dropped
    BY <1>6 DEF ImportAll, BuildFails
  <2> QED
    BY <1>6, <2>1, RebuildSettles DEF View!Next
<1>7. CASE BeginSync \/ StatBatch \/ ReadBatch \/ SyncFails \/ UNCHANGED readVars
  <2>1. UNCHANGED <<files, db, slips, build>>
    BY <1>7 DEF BeginSync, StatBatch, ReadBatch, SyncFails, readVars
  <2>2. UNCHANGED <<written, log, table, lapsed>> /\ build'.dropped = build.dropped
    BY <2>1 DEF files, db, slips
  <2> QED
    BY <2>2, NothingSeen
<1>8. CASE BeginBuild \/ ReadAll \/ (Down /\ ~ build.dropped)
  <2>1. UNCHANGED <<files, db, slips>>
    BY <1>8 DEF BeginBuild, ReadAll, Down
  <2>2. build'.dropped = build.dropped
    <3>1. build \in BuildRecord /\ build.dropped \in BOOLEAN /\ NoBuild.dropped = FALSE
      BY Nothing, BuildFields DEF ReadInv, ReadTypes, BuildTypes
    <3>2. CASE ReadAll
      BY <3>1, <3>2 DEF ReadAll, BuildRecord
    <3>3. CASE BeginBuild
      <4>1. build.dropped = FALSE
        BY <3>1, <3>3, BuildFields, LogPlaces
        DEF BeginBuild, Building, ReadInv, ReadTypes, BuildTypes
      <4>2. build'.dropped = FALSE
        BY <3>3 DEF BeginBuild, NoBuild
      <4> QED
        BY <4>1, <4>2
    <3>4. CASE Down /\ ~ build.dropped
      BY <3>1, <3>4 DEF Down
    <3> QED
      BY <1>8, <3>2, <3>3, <3>4
  <2>3. UNCHANGED <<written, log, table, lapsed>>
    BY <2>1 DEF files, db, slips
  <2> QED
    BY <2>2, <2>3, NothingSeen
<1> QED
  BY <1>1, <1>2, <1>3, <1>4, <1>5, <1>6, <1>7, <1>8
  DEF ReadNext, Writers, SyncStep, BuildStep, View!Next

\* The read model implements a materialized view: no step but the first half of a rebuild
\* takes a row away whose line stays in its log (import_rows, rebuild).
THEOREM ViewOfTheLogs == ReadSpec => IsView
<1>1. ReadInit => View!Init
  <2> SUFFICES ASSUME ReadInit PROVE View!Init
    OBVIOUS
  <2>1. 1 .. 0 = {} /\ written = 0 /\ build.dropped = FALSE
    BY Nothing DEF ReadInit, NoBuild
  <2> QED
    BY <2>1 DEF View!Init
<1>2. ReadInv /\ [ReadNext]_readVars => [View!Next]_(View!vars)
  BY ViewStep
<1> QED
  BY <1>1, <1>2, ReadInvariant, PTL DEF ReadSpec, IsView, View!Spec

==============================================================================
