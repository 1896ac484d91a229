---------------------------- MODULE CompanyProofs ----------------------------
(***************************************************************************)
(* Proofs about CompanyFiles, for any number of threads, departments and   *)
(* company names, and any number of calls and faults.                      *)
(***************************************************************************)
EXTENDS CompanyFiles, TLAPS

USE DEF files, artefacts, auxiliary

------------------------------------------------------------------------------
(***************************************************************************)
(* Types: what a call holds, and the points it passes through.             *)
(***************************************************************************)
Points == {"idle", "begin", "open", "close", "list", "reopen", "reclose", "done", "check",
           "registry", "again", "generate", "built", "graph", "output"}
Operations == Writing \cup Reading \cup {"none"}

PointsOf(op) ==
  CASE op = "none"     -> {"idle"}
    [] op \in Editing  -> {"begin", "open", "close", "list", "reopen", "reclose", "done"}
    [] op = "rename"   -> {"list", "reopen", "reclose", "done"}
    [] op = "build"    -> {"begin", "check", "registry", "again", "generate", "built"}
    [] op = "export"   -> {"begin", "graph", "built"}
    [] op = "validate" -> {"begin", "output"}

Manifests == [name : Names \cup {None}, listed : BOOLEAN, proper : SUBSET Depts,
              bare : SUBSET Depts]
CallRecord == [op : Operations, on : Depts \cup Names \cup {None}, at : Points,
               has : SUBSET Depts, manifest : Manifests, skipped : SUBSET Depts, step : 0 .. 10]

\* What a call is about, by its operation, and where it can be.
Proper(w) ==
  /\ w.at \in PointsOf(w.op)
  /\ w.op \in Editing => w.on \in Depts
  /\ w.op = "rename" => w.on \in Names
  /\ w.at = "generate" => w.step \in 1 .. 10

CallsOK == call \in [Callers -> CallRecord] /\ \A c \in Callers : Proper(call[c])

TypeInv == CompanyTypeOK /\ CallsOK

\* The other threads are where they were.
Others(c) == \A k \in Callers : k # c => call'[k] = call[k]

\* All others in a call are told that something has been written.
Noticed(c, what) ==
  /\ stirred' \in [Callers -> SUBSET {"files", "artefacts"}]
  /\ stirred'[c] = stirred[c]
  /\ \A k \in Callers : k # c => stirred'[k] = stirred[k] \cup {what}

LEMMA PointOfOne ==
  ASSUME NEW op \in Operations
  PROVE  PointsOf(op) \subseteq Points
  BY DEF PointsOf, Points, Operations, Writing, Reading, Editing

LEMMA IdleType == Idle \in CallRecord /\ Proper(Idle) /\ CutManifest \in Manifests
<1>1. CutManifest \in Manifests
  BY DEF CutManifest, Manifests
<1> QED
  BY <1>1 DEF Idle, CallRecord, Operations, Points, Proper, PointsOf, Editing

\* The changes of a call's record that the steps make.
LEMMA EditAt ==
  ASSUME NEW w \in CallRecord, NEW at \in Points
  PROVE  LET v == [w EXCEPT !.at = at]
         IN  /\ v \in CallRecord /\ v.at = at
             /\ v.op = w.op /\ v.on = w.on /\ v.has = w.has /\ v.manifest = w.manifest
             /\ v.skipped = w.skipped
             /\ v.step = w.step
  BY DEF CallRecord

LEMMA EditStep ==
  ASSUME NEW w \in CallRecord, NEW s \in 0 .. 10
  PROVE  LET v == [w EXCEPT !.step = s]
         IN  /\ v \in CallRecord /\ v.step = s
             /\ v.op = w.op /\ v.on = w.on /\ v.at = w.at /\ v.has = w.has
             /\ v.manifest = w.manifest /\ v.skipped = w.skipped
  BY DEF CallRecord

LEMMA EditOp ==
  ASSUME NEW w \in CallRecord, NEW op \in Operations
  PROVE  LET v == [w EXCEPT !.op = op]
         IN  /\ v \in CallRecord /\ v.op = op
             /\ v.on = w.on /\ v.at = w.at /\ v.has = w.has /\ v.manifest = w.manifest
             /\ v.skipped = w.skipped
             /\ v.step = w.step
  BY DEF CallRecord

LEMMA EditOn ==
  ASSUME NEW w \in CallRecord, NEW on \in Depts \cup Names \cup {None}
  PROVE  LET v == [w EXCEPT !.on = on]
         IN  /\ v \in CallRecord /\ v.on = on
             /\ v.op = w.op /\ v.at = w.at /\ v.has = w.has /\ v.manifest = w.manifest
             /\ v.skipped = w.skipped
             /\ v.step = w.step
  BY DEF CallRecord

LEMMA EditHas ==
  ASSUME NEW w \in CallRecord, NEW h \in SUBSET Depts
  PROVE  LET v == [w EXCEPT !.has = h]
         IN  /\ v \in CallRecord /\ v.has = h
             /\ v.op = w.op /\ v.on = w.on /\ v.at = w.at /\ v.manifest = w.manifest
             /\ v.skipped = w.skipped
             /\ v.step = w.step
  BY DEF CallRecord

LEMMA EditManifest ==
  ASSUME NEW w \in CallRecord, NEW m \in Manifests
  PROVE  LET v == [w EXCEPT !.manifest = m]
         IN  /\ v \in CallRecord /\ v.manifest = m
             /\ v.op = w.op /\ v.on = w.on /\ v.at = w.at /\ v.has = w.has
             /\ v.skipped = w.skipped /\ v.step = w.step
  BY DEF CallRecord

LEMMA EditSkipped ==
  ASSUME NEW w \in CallRecord, NEW s \in SUBSET Depts
  PROVE  LET v == [w EXCEPT !.skipped = s]
         IN  /\ v \in CallRecord /\ v.skipped = s
             /\ v.op = w.op /\ v.on = w.on /\ v.at = w.at /\ v.has = w.has
             /\ v.manifest = w.manifest /\ v.step = w.step
  BY DEF CallRecord

\* One record replaced.
LEMMA Replaced ==
  ASSUME CallsOK, NEW c \in Callers, NEW w \in CallRecord, Proper(w),
         call' = [call EXCEPT ![c] = w]
  PROVE  CallsOK' /\ Others(c) /\ call'[c] = w
<1>1. call' \in [Callers -> CallRecord] /\ call'[c] = w /\ Others(c)
  BY DEF CallsOK, Others
<1>2. ASSUME NEW k \in Callers PROVE Proper(call'[k])
  BY <1>1 DEF CallsOK, Others
<1> QED
  BY <1>1, <1>2 DEF CallsOK

LEMMA EndsEffect ==
  ASSUME CallsOK, NEW c \in Callers, Ends(c)
  PROVE  CallsOK' /\ Others(c) /\ call'[c] = Idle
  BY Replaced, IdleType, Zenon DEF Ends

\* A call moves on: the fields that change, and those that do not.
LEMMA GoesEffect ==
  ASSUME CallsOK, NEW c \in Callers, NEW at \in PointsOf(call[c].op), at # "generate", Goes(c, at)
  PROVE  /\ CallsOK' /\ Others(c) /\ call'[c].at = at
         /\ call'[c].skipped = call[c].skipped
         /\ call'[c].op = call[c].op /\ call'[c].on = call[c].on /\ call'[c].has = call[c].has
         /\ call'[c].manifest = call[c].manifest /\ call'[c].step = call[c].step
<1> DEFINE w == [call[c] EXCEPT !.at = at]
<1>1. call[c] \in CallRecord /\ Proper(call[c]) /\ at \in Points
  BY PointOfOne DEF CallsOK, CallRecord
<1>2. /\ w \in CallRecord /\ w.at = at
      /\ w.skipped = call[c].skipped /\ w.op = call[c].op /\ w.on = call[c].on
      /\ w.has = call[c].has
      /\ w.manifest = call[c].manifest /\ w.step = call[c].step
  BY <1>1, EditAt
<1>3. call' = [call EXCEPT ![c] = w]
  BY DEF Goes
<1> HIDE DEF w
<1>4. Proper(w)
  BY <1>1, <1>2 DEF Proper, PointsOf, Editing
<1>5. CallsOK' /\ Others(c) /\ call'[c] = w
  BY <1>2, <1>3, <1>4, Replaced, Zenon
<1> QED
  BY <1>2, <1>5

LEMMA StepEffect ==
  ASSUME CallsOK, NEW c \in Callers, NEW s \in 1 .. 10, call' = [call EXCEPT ![c].step = s]
  PROVE  /\ CallsOK' /\ Others(c) /\ call'[c].step = s
         /\ call'[c].skipped = call[c].skipped
         /\ call'[c].op = call[c].op /\ call'[c].on = call[c].on /\ call'[c].at = call[c].at
         /\ call'[c].has = call[c].has /\ call'[c].manifest = call[c].manifest
<1> DEFINE w == [call[c] EXCEPT !.step = s]
<1>1. call[c] \in CallRecord /\ Proper(call[c]) /\ s \in 0 .. 10
  BY DEF CallsOK
<1>2. /\ w \in CallRecord /\ w.step = s
      /\ w.skipped = call[c].skipped /\ w.op = call[c].op /\ w.on = call[c].on /\ w.at = call[c].at
      /\ w.has = call[c].has /\ w.manifest = call[c].manifest
  BY <1>1, EditStep
<1>3. call' = [call EXCEPT ![c] = w]
  BY Zenon
<1> HIDE DEF w
<1>4. Proper(w)
  BY <1>1, <1>2 DEF Proper, PointsOf, Editing
<1>5. CallsOK' /\ Others(c) /\ call'[c] = w
  BY <1>2, <1>3, <1>4, Replaced, Zenon
<1> QED
  BY <1>2, <1>5

LEMMA HasEffect ==
  ASSUME CallsOK, NEW c \in Callers, NEW at \in PointsOf(call[c].op), at # "generate",
         NEW h \in SUBSET Depts, call' = [call EXCEPT ![c].has = h, ![c].at = at]
  PROVE  /\ CallsOK' /\ Others(c) /\ call'[c].has = h /\ call'[c].at = at
         /\ call'[c].skipped = call[c].skipped
         /\ call'[c].op = call[c].op /\ call'[c].on = call[c].on
         /\ call'[c].manifest = call[c].manifest /\ call'[c].step = call[c].step
<1> DEFINE v == [call[c] EXCEPT !.has = h]
           w == [v EXCEPT !.at = at]
<1>1. call[c] \in CallRecord /\ Proper(call[c]) /\ at \in Points
  BY PointOfOne DEF CallsOK, CallRecord
<1>2. /\ w \in CallRecord /\ w.has = h /\ w.at = at
      /\ w.skipped = call[c].skipped /\ w.op = call[c].op /\ w.on = call[c].on
      /\ w.manifest = call[c].manifest /\ w.step = call[c].step
  <2>1. /\ v \in CallRecord /\ v.has = h
       /\ v.skipped = call[c].skipped /\ v.op = call[c].op /\ v.on = call[c].on /\ v.at = call[c].at
       /\ v.manifest = call[c].manifest /\ v.step = call[c].step
    BY <1>1, EditHas
  <2>2. /\ w \in CallRecord /\ w.at = at
       /\ w.skipped = v.skipped /\ w.op = v.op /\ w.on = v.on /\ w.has = v.has
       /\ w.manifest = v.manifest /\ w.step = v.step
    BY <1>1, <2>1, EditAt
  <2> HIDE DEF v, w
  <2> QED
    BY <2>1, <2>2
<1>3. call' = [call EXCEPT ![c] = w]
  BY DEF CallsOK
<1> HIDE DEF w
<1>4. Proper(w)
  BY <1>1, <1>2 DEF Proper, PointsOf, Editing
<1>5. CallsOK' /\ Others(c) /\ call'[c] = w
  BY <1>2, <1>3, <1>4, Replaced, Zenon
<1> QED
  BY <1>2, <1>5

LEMMA ManifestEffect ==
  ASSUME CallsOK, NEW c \in Callers, NEW at \in PointsOf(call[c].op), at # "generate",
         NEW m \in Manifests, call' = [call EXCEPT ![c].manifest = m, ![c].at = at]
  PROVE  /\ CallsOK' /\ Others(c) /\ call'[c].manifest = m /\ call'[c].at = at
         /\ call'[c].skipped = call[c].skipped
         /\ call'[c].op = call[c].op /\ call'[c].on = call[c].on
         /\ call'[c].has = call[c].has /\ call'[c].step = call[c].step
<1> DEFINE v == [call[c] EXCEPT !.manifest = m]
           w == [v EXCEPT !.at = at]
<1>1. call[c] \in CallRecord /\ Proper(call[c]) /\ at \in Points
  BY PointOfOne DEF CallsOK, CallRecord
<1>2. /\ w \in CallRecord /\ w.manifest = m /\ w.at = at
      /\ w.skipped = call[c].skipped /\ w.op = call[c].op /\ w.on = call[c].on
      /\ w.has = call[c].has /\ w.step = call[c].step
  <2>1. /\ v \in CallRecord /\ v.manifest = m
       /\ v.skipped = call[c].skipped /\ v.op = call[c].op /\ v.on = call[c].on
       /\ v.at = call[c].at /\ v.has = call[c].has
       /\ v.step = call[c].step
    BY <1>1, EditManifest
  <2>2. /\ w \in CallRecord /\ w.at = at
       /\ w.skipped = v.skipped /\ w.op = v.op /\ w.on = v.on /\ w.has = v.has
       /\ w.manifest = v.manifest /\ w.step = v.step
    BY <1>1, <2>1, EditAt
  <2> HIDE DEF v, w
  <2> QED
    BY <2>1, <2>2
<1>3. call' = [call EXCEPT ![c] = w]
  BY DEF CallsOK
<1> HIDE DEF w
<1>4. Proper(w)
  BY <1>1, <1>2 DEF Proper, PointsOf, Editing
<1>5. CallsOK' /\ Others(c) /\ call'[c] = w
  BY <1>2, <1>3, <1>4, Replaced, Zenon
<1> QED
  BY <1>2, <1>5

LEMMA BothEffect ==
  ASSUME CallsOK, NEW c \in Callers, call[c].op = "build", NEW m \in Manifests,
         call' = [call EXCEPT ![c].manifest = m, ![c].at = "generate", ![c].step = 1]
  PROVE  /\ CallsOK' /\ Others(c) /\ call'[c].manifest = m /\ call'[c].at = "generate"
         /\ call'[c].step = 1
         /\ call'[c].skipped = call[c].skipped
         /\ call'[c].op = call[c].op /\ call'[c].on = call[c].on /\ call'[c].has = call[c].has
<1> DEFINE u == [call[c] EXCEPT !.manifest = m]
           v == [u EXCEPT !.at = "generate"]
           w == [v EXCEPT !.step = 1]
<1>1. call[c] \in CallRecord /\ Proper(call[c]) /\ "generate" \in Points /\ 1 \in 0 .. 10
  BY DEF CallsOK, Points
<1>2. /\ w \in CallRecord /\ w.manifest = m /\ w.at = "generate" /\ w.step = 1
      /\ w.skipped = call[c].skipped /\ w.op = call[c].op /\ w.on = call[c].on
      /\ w.has = call[c].has
  <2>1. /\ u \in CallRecord /\ u.manifest = m
       /\ u.skipped = call[c].skipped /\ u.op = call[c].op /\ u.on = call[c].on
       /\ u.at = call[c].at /\ u.has = call[c].has
       /\ u.step = call[c].step
    BY <1>1, EditManifest
  <2>2. /\ v \in CallRecord /\ v.at = "generate"
       /\ v.skipped = u.skipped /\ v.op = u.op /\ v.on = u.on /\ v.has = u.has
       /\ v.manifest = u.manifest /\ v.step = u.step
    BY <1>1, <2>1, EditAt
  <2>3. /\ w \in CallRecord /\ w.step = 1
       /\ w.skipped = v.skipped /\ w.op = v.op /\ w.on = v.on /\ w.at = v.at /\ w.has = v.has
       /\ w.manifest = v.manifest
    BY <1>1, <2>2, EditStep
  <2> HIDE DEF u, v, w
  <2> QED
    BY <2>1, <2>2, <2>3
<1>3. call' = [call EXCEPT ![c] = w]
  BY DEF CallsOK
<1> HIDE DEF w
<1>4. Proper(w)
  BY <1>1, <1>2 DEF Proper, PointsOf, Editing
<1>5. CallsOK' /\ Others(c) /\ call'[c] = w
  BY <1>2, <1>3, <1>4, Replaced, Zenon
<1> QED
  BY <1>2, <1>5

LEMMA SkippedEffect ==
  ASSUME CallsOK, NEW c \in Callers, call[c].op = "build", NEW d \in SUBSET Depts,
         call' = [call EXCEPT ![c].skipped = d, ![c].at = "registry"]
  PROVE  /\ CallsOK' /\ Others(c) /\ call'[c].skipped = d /\ call'[c].at = "registry"
         /\ call'[c].op = call[c].op /\ call'[c].on = call[c].on /\ call'[c].has = call[c].has
         /\ call'[c].manifest = call[c].manifest
<1> DEFINE v == [call[c] EXCEPT !.skipped = d]
           w == [v EXCEPT !.at = "registry"]
<1>1. call[c] \in CallRecord /\ Proper(call[c]) /\ "registry" \in Points
  BY DEF CallsOK, Points
<1>2. /\ w \in CallRecord /\ w.skipped = d /\ w.at = "registry"
      /\ w.op = call[c].op /\ w.on = call[c].on /\ w.has = call[c].has
      /\ w.manifest = call[c].manifest /\ w.step = call[c].step
  <2>1. /\ v \in CallRecord /\ v.skipped = d
        /\ v.op = call[c].op /\ v.on = call[c].on /\ v.at = call[c].at /\ v.has = call[c].has
        /\ v.manifest = call[c].manifest /\ v.step = call[c].step
    BY <1>1, EditSkipped
  <2>2. /\ w \in CallRecord /\ w.at = "registry" /\ w.skipped = v.skipped
        /\ w.op = v.op /\ w.on = v.on /\ w.has = v.has /\ w.manifest = v.manifest /\ w.step = v.step
    BY <1>1, <2>1, EditAt
  <2> HIDE DEF v, w
  <2> QED
    BY <2>1, <2>2
<1>3. call' = [call EXCEPT ![c] = w]
  BY DEF CallsOK
<1> HIDE DEF w
<1>4. Proper(w)
  BY <1>1, <1>2 DEF Proper, PointsOf, Editing
<1>5. CallsOK' /\ Others(c) /\ call'[c] = w
  BY <1>2, <1>3, <1>4, Replaced, Zenon
<1> QED
  BY <1>2, <1>5

LEMMA StirsEffect ==
  ASSUME TypeInv, NEW c \in Callers, NEW what \in {"files", "artefacts"}, Stirs(c, what)
  PROVE  Noticed(c, what)
  BY DEF Stirs, Noticed, TypeInv, CompanyTypeOK

\* A call goes on to a point, and is still the same call.
Moves(c, at) ==
  /\ CallsOK' /\ Others(c)
  /\ call'[c].at = at /\ call'[c].op = call[c].op /\ call'[c].on = call[c].on

Finishes(c) == CallsOK' /\ Others(c) /\ call'[c] = Idle

\* What a call is about that may begin.
Askable(op, x) ==
  \/ op \in Editing /\ x \in Depts
  \/ op = "rename" /\ x \in Names
  \/ op \in Reading /\ x = None

\* What the steps do with the call they belong to.
LEMMA AskDoes ==
  ASSUME TypeInv, NEW c \in Callers, NEW op, NEW x, Askable(op, x), Ask(c, op, x)
  PROVE  /\ CallsOK' /\ Others(c) /\ call[c].op = "none" /\ call'[c].op = op /\ call'[c].on = x
         /\ call'[c].at = IF op = "rename" THEN "list" ELSE "begin"
<1> DEFINE at == IF op = "rename" THEN "list" ELSE "begin"
           u == [Idle EXCEPT !.op = op]
           v == [u EXCEPT !.on = x]
           w == [v EXCEPT !.at = at]
<1>1. call' = [call EXCEPT ![c] = w] /\ call[c].op = "none"
  BY DEF Ask
<1>2. op \in Operations /\ x \in Depts \cup Names \cup {None} /\ at \in Points
  BY DEF Askable, Operations, Points, Editing, Writing, Reading
<1> HIDE DEF at
<1>3. w \in CallRecord /\ w.op = op /\ w.on = x /\ w.at = at
  <2>1. u \in CallRecord /\ u.op = op
    BY <1>2, IdleType, EditOp
  <2>2. v \in CallRecord /\ v.op = u.op /\ v.on = x
    <3> HIDE DEF u
    <3> QED
      BY <1>2, <2>1, EditOn
  <2>3. w \in CallRecord /\ w.op = v.op /\ w.on = v.on /\ w.at = at
    <3> HIDE DEF v
    <3> QED
      BY <1>2, <2>2, EditAt
  <2> HIDE DEF u, v, w
  <2> QED
    BY <2>1, <2>2, <2>3
<1>4. Proper(w)
  BY <1>3 DEF at, Proper, Askable, PointsOf, Editing, Writing, Reading
<1> HIDE DEF w
<1>5. CallsOK' /\ Others(c) /\ call'[c] = w
  BY <1>1, <1>3, <1>4, Replaced, Zenon DEF TypeInv
<1> QED
  BY <1>1, <1>3, <1>5 DEF at

LEMMA LoadDepartmentsDoes ==
  ASSUME TypeInv, NEW c \in Callers, LoadDepartments(c)
  PROVE  \/ Finishes(c)
         \/ Moves(c, "open") /\ call'[c].has = registry
<1>1. CASE Ends(c)
  BY <1>1, EndsEffect, Zenon DEF TypeInv, Finishes
<1>2. CASE ~ Ends(c)
  <2>1. call' = [call EXCEPT ![c].has = registry, ![c].at = "open"] /\ call[c].op \in Editing
    BY <1>2 DEF LoadDepartments, At, Editing
  <2>2. "open" \in PointsOf(call[c].op) /\ registry \in SUBSET Depts /\ CallsOK
    BY <2>1 DEF PointsOf, Editing, TypeInv, CompanyTypeOK
  <2>3. CallsOK' /\ Others(c) /\ call'[c].has = registry /\ call'[c].at = "open"
        /\ call'[c].op = call[c].op /\ call'[c].on = call[c].on
    BY <2>1, <2>2, HasEffect
  <2> QED
    BY <2>3 DEF Moves
<1> QED
  BY <1>1, <1>2

LEMMA OpenDepartmentsDoes ==
  ASSUME TypeInv, NEW c \in Callers, OpenDepartments(c)
  PROVE  Moves(c, "close") /\ call'[c].has = call[c].has
         /\ call'[c].manifest = call[c].manifest
<1>1. Goes(c, "close") /\ "close" \in PointsOf(call[c].op) /\ CallsOK
  BY DEF OpenDepartments, At, PointsOf, Editing, Writing, Reading, TypeInv
<1> QED
  BY <1>1, GoesEffect DEF Moves

LEMMA CloseDepartmentsDoes ==
  ASSUME TypeInv, NEW c \in Callers, CloseDepartments(c)
  PROVE  Moves(c, "list") /\ call'[c].has = call[c].has
         /\ call'[c].manifest = call[c].manifest
<1>1. Goes(c, "list") /\ "list" \in PointsOf(call[c].op) /\ CallsOK
  BY DEF CloseDepartments, At, PointsOf, Editing, Writing, Reading, TypeInv
<1> QED
  BY <1>1, GoesEffect DEF Moves

LEMMA LoadManifestDoes ==
  ASSUME TypeInv, NEW c \in Callers, LoadManifest(c)
  PROVE  /\ call'[c].manifest = manifest /\ call[c].on \in Depts \cup Names
         /\ Moves(c, IF Relisted(call[c].op, call[c].on, manifest) = manifest
                     THEN "done" ELSE "reopen")
<1> DEFINE at == IF Relisted(call[c].op, call[c].on, manifest) = manifest THEN "done" ELSE "reopen"
<1>1. call' = [call EXCEPT ![c].manifest = manifest, ![c].at = at]
  BY DEF LoadManifest
<1>2. call[c].op \in Writing /\ manifest \in Manifests /\ CallsOK /\ at \in {"done", "reopen"}
  BY DEF LoadManifest, At, TypeInv, CompanyTypeOK, Manifests
<1>3. at \in PointsOf(call[c].op) /\ at # "generate"
  BY <1>2 DEF PointsOf, Editing, Writing
<1>4. call[c].on \in Depts \cup Names
  BY <1>2 DEF CallsOK, Proper, Editing, Writing
<1> HIDE DEF at
<1>5. Moves(c, at) /\ call'[c].manifest = manifest
  BY <1>1, <1>2, <1>3, ManifestEffect DEF Moves
<1> QED
  BY <1>4, <1>5 DEF at

LEMMA OpenManifestDoes ==
  ASSUME TypeInv, NEW c \in Callers, OpenManifest(c)
  PROVE  Moves(c, "reclose") /\ call'[c].has = call[c].has
         /\ call'[c].manifest = call[c].manifest
<1>1. Goes(c, "reclose") /\ "reclose" \in PointsOf(call[c].op) /\ CallsOK
  BY DEF OpenManifest, At, PointsOf, Editing, Writing, Reading, TypeInv
<1> QED
  BY <1>1, GoesEffect DEF Moves

LEMMA CloseManifestDoes ==
  ASSUME TypeInv, NEW c \in Callers, CloseManifest(c)
  PROVE  Moves(c, "done") /\ call'[c].has = call[c].has
         /\ call'[c].manifest = call[c].manifest
<1>1. Goes(c, "done") /\ "done" \in PointsOf(call[c].op) /\ CallsOK
  BY DEF CloseManifest, At, PointsOf, Editing, Writing, Reading, TypeInv
<1> QED
  BY <1>1, GoesEffect DEF Moves

LEMMA BootstrapManifestDoes ==
  ASSUME TypeInv, NEW c \in Callers, BootstrapManifest(c)
  PROVE  \/ Finishes(c)
         \/ Moves(c, "check") /\ call'[c].manifest = manifest
<1>1. CASE Ends(c)
  BY <1>1, EndsEffect, Zenon DEF TypeInv, Finishes
<1>2. CASE ~ Ends(c)
  <2>1. call' = [call EXCEPT ![c].manifest = manifest, ![c].at = "check"] /\ call[c].op = "build"
    BY <1>2 DEF BootstrapManifest, At
  <2>2. "check" \in PointsOf(call[c].op) /\ manifest \in Manifests /\ CallsOK
    BY <2>1 DEF PointsOf, Editing, Manifests, TypeInv, CompanyTypeOK
  <2> QED
    BY <2>1, <2>2, ManifestEffect DEF Moves
<1> QED
  BY <1>1, <1>2

LEMMA BootstrapDoes ==
  ASSUME TypeInv, NEW c \in Callers, Bootstrap(c)
  PROVE  \/ Finishes(c) /\ UNCHANGED <<packages, faults>>
         \/ /\ Moves(c, "registry") /\ call'[c].manifest = call[c].manifest
            /\ Valid(call[c].manifest) /\ faults' \in 0 .. MaxFaults
            /\ packages' = packages \cup ReadmeFiles(call[c].manifest.proper \ call'[c].skipped)
<1>1. CASE Valid(call[c].manifest)
  <2>1. PICK skipped \in SUBSET call[c].manifest.proper :
          /\ skipped # {} => faults < MaxFaults
          /\ faults' = IF skipped = {} THEN faults ELSE faults + 1
          /\ packages' = packages \cup ReadmeFiles(call[c].manifest.proper \ skipped)
          /\ call' = [call EXCEPT ![c].skipped = skipped, ![c].at = "registry"]
    BY <1>1 DEF Bootstrap
  <2>2. call[c].op = "build" /\ CallsOK /\ skipped \in SUBSET Depts
    BY DEF Bootstrap, At, TypeInv, CallsOK, CallRecord, Manifests
  <2>3. /\ CallsOK' /\ Others(c) /\ call'[c].skipped = skipped /\ call'[c].at = "registry"
        /\ call'[c].op = call[c].op /\ call'[c].on = call[c].on
        /\ call'[c].manifest = call[c].manifest
    BY <2>1, <2>2, SkippedEffect
  <2>4. faults' \in 0 .. MaxFaults
    BY <2>1, CompanyAssumption DEF TypeInv, CompanyTypeOK
  <2> QED
    BY <1>1, <2>1, <2>3, <2>4 DEF Moves
<1>2. CASE ~ Valid(call[c].manifest)
  BY <1>2, EndsEffect DEF TypeInv, Finishes, Bootstrap
<1> QED
  BY <1>1, <1>2

LEMMA LoadRegistryDoes ==
  ASSUME TypeInv, NEW c \in Callers, LoadRegistry(c)
  PROVE  \/ Finishes(c)
         \/ /\ Moves(c, IF call[c].op = "export" THEN "graph" ELSE "again")
            /\ call'[c].has = registry /\ call'[c].skipped = call[c].skipped
<1>1. CASE Ends(c)
  BY <1>1, EndsEffect, Zenon DEF TypeInv, Finishes
<1>2. CASE ~ Ends(c)
  <2> DEFINE at == IF call[c].op = "export" THEN "graph" ELSE "again"
  <2>1. call' = [call EXCEPT ![c].has = registry, ![c].at = at]
        /\ call[c].op \in {"build", "export"}
    BY <1>2 DEF LoadRegistry, At, Registered
  <2>2. at \in PointsOf(call[c].op) /\ at # "generate" /\ registry \in SUBSET Depts /\ CallsOK
    BY <2>1 DEF PointsOf, Editing, TypeInv, CompanyTypeOK
  <2> HIDE DEF at
  <2>3. Moves(c, at) /\ call'[c].has = registry /\ call'[c].skipped = call[c].skipped
    BY <2>1, <2>2, HasEffect DEF Moves
  <2> QED
    BY <2>3 DEF at
<1> QED
  BY <1>1, <1>2

LEMMA LoadManifestAgainDoes ==
  ASSUME TypeInv, NEW c \in Callers, LoadManifestAgain(c)
  PROVE  /\ Moves(c, "generate") /\ call'[c].manifest = manifest
         /\ call'[c].has = call[c].has /\ call'[c].step = 1
         /\ call'[c].skipped = call[c].skipped
<1>1. CallsOK /\ call[c].op = "build" /\ manifest \in Manifests
  BY DEF LoadManifestAgain, At, TypeInv, CompanyTypeOK, Manifests
<1>2. call' = [call EXCEPT ![c].manifest = manifest, ![c].at = "generate", ![c].step = 1]
  BY DEF LoadManifestAgain
<1>3. CallsOK' /\ Others(c) /\ call'[c].manifest = manifest /\ call'[c].at = "generate"
      /\ call'[c].skipped = call[c].skipped
      /\ call'[c].step = 1 /\ call'[c].has = call[c].has /\ call'[c].op = call[c].op
      /\ call'[c].on = call[c].on
  BY <1>1, <1>2, BothEffect, Zenon
<1> QED
  BY <1>3 DEF Moves

LEMMA GenerateDoes ==
  ASSUME TypeInv, NEW c \in Callers, Generate(c)
  PROVE  /\ Moves(c, IF call[c].step = 10 THEN "built" ELSE "generate")
         /\ call'[c].manifest = call[c].manifest /\ call'[c].has = call[c].has
         /\ call'[c].skipped = call[c].skipped
         /\ call[c].step \in 1 .. 10 /\ (call[c].step # 10 => call'[c].step = call[c].step + 1)
<1>1. call[c].op = "build" /\ call[c].at = "generate" /\ call[c].step \in 1 .. 10 /\ CallsOK
  BY DEF Generate, At, TypeInv, CallsOK, Proper
<1>2. Len(Generators) = 10
  BY DEF Generators
<1>3. CASE call[c].step = 10
  <2>1. Goes(c, "built") /\ "built" \in PointsOf(call[c].op)
    BY <1>1, <1>2, <1>3 DEF Generate, PointsOf, Editing
  <2> QED
    BY <1>1, <1>3, <2>1, GoesEffect DEF Moves
<1>4. CASE call[c].step # 10
  <2> DEFINE s == call[c].step + 1
  <2>1. call' = [call EXCEPT ![c].step = s]
    BY <1>1, <1>2, <1>4 DEF Generate
  <2>2. s \in 1 .. 10
    BY <1>1, <1>4
  <2> HIDE DEF s
  <2>3. Moves(c, "generate") /\ call'[c].manifest = call[c].manifest /\ call'[c].has = call[c].has
        /\ call'[c].step = s /\ call'[c].skipped = call[c].skipped
    BY <1>1, <2>1, <2>2, StepEffect DEF Moves
  <2> QED
    BY <1>1, <1>4, <2>3 DEF s
<1> QED
  BY <1>3, <1>4

LEMMA ExportDoes ==
  ASSUME TypeInv, NEW c \in Callers, Export(c)
  PROVE  Moves(c, "built")
<1>1. Goes(c, "built") /\ "built" \in PointsOf(call[c].op) /\ CallsOK
  BY DEF Export, At, PointsOf, Editing, Writing, Reading, TypeInv
<1> QED
  BY <1>1, GoesEffect DEF Moves

LEMMA ValidateManifestDoes ==
  ASSUME TypeInv, NEW c \in Callers, ValidateManifest(c)
  PROVE  \/ Finishes(c)
         \/ Moves(c, "output") /\ call'[c].manifest = manifest
<1>1. CASE Ends(c)
  BY <1>1, EndsEffect, Zenon DEF TypeInv, Finishes
<1>2. CASE ~ Ends(c)
  <2>1. call' = [call EXCEPT ![c].manifest = manifest, ![c].at = "output"]
        /\ call[c].op = "validate"
    BY <1>2 DEF ValidateManifest, At
  <2>2. "output" \in PointsOf(call[c].op) /\ manifest \in Manifests /\ CallsOK
    BY <2>1 DEF PointsOf, Editing, Manifests, TypeInv, CompanyTypeOK
  <2> QED
    BY <2>1, <2>2, ManifestEffect DEF Moves
<1> QED
  BY <1>1, <1>2

\* The other steps end the call.
LEMMA OthersFinish ==
  ASSUME TypeInv, NEW c \in Callers,
         \/ Answer(c) \/ SaveFails(c) \/ Report(c) \/ GenerateFails(c) \/ ValidateOutput(c)
  PROVE  Finishes(c)
<1>1. Ends(c)
  BY DEF Answer, SaveFails, Report, GenerateFails, ValidateOutput
<1> QED
  BY <1>1, EndsEffect, Zenon DEF TypeInv, Finishes

\* Every step is one of those.
LEMMA AskIsAskable ==
  ASSUME NEW c \in Callers,
         \/ \E d \in Depts : Ask(c, "add", d) \/ Ask(c, "remove", d)
         \/ \E n \in Names : Ask(c, "rename", n)
         \/ \E op \in Reading : Ask(c, op, None)
  PROVE  \E op, x : Askable(op, x) /\ Ask(c, op, x)
  BY DEF Askable, Editing

\* What the calls make of the files has their types.
LEMMA MadeTypes ==
  ASSUME TypeInv, NEW c \in Callers
  PROVE  /\ call[c].op \in Editing => Edited(call[c].op, call[c].on, call[c].has) \in SUBSET Depts
         /\ call[c].op \in Writing =>
              Relisted(call[c].op, call[c].on, call[c].manifest) \in Manifests
<1>1. /\ call[c] \in CallRecord /\ call[c].has \in SUBSET Depts /\ call[c].manifest \in Manifests
      /\ call[c].op \in Editing => call[c].on \in Depts
      /\ call[c].op = "rename" => call[c].on \in Names
  BY DEF TypeInv, CallsOK, CallRecord, Proper
<1>2. ASSUME NEW m \in Manifests, NEW n \in Names
      PROVE  [m EXCEPT !.name = n] \in Manifests
  BY DEF Manifests
<1>7. ASSUME NEW m \in Manifests, NEW d \in Depts, NEW op
      PROVE  [m EXCEPT !.bare = Edited(op, d, m.bare)] \in Manifests
  BY DEF Manifests, Edited
<1>3. call[c].op \in Writing => call[c].op = "rename" \/ call[c].op \in Editing
  BY DEF Writing, Editing
<1>4. call[c].op \in Editing => Edited(call[c].op, call[c].on, call[c].has) \in SUBSET Depts
  BY <1>1 DEF Edited
<1>5. CASE call[c].op = "rename"
  BY <1>1, <1>2, <1>4, <1>5 DEF Relisted, Editing
<1>6. CASE call[c].op \in Editing
  <2>1. [call[c].manifest EXCEPT !.bare = Edited(call[c].op, call[c].on, call[c].manifest.bare)]
          \in Manifests
    BY <1>1, <1>6, <1>7
  <2>2. call[c].op # "rename"
    BY <1>6 DEF Editing
  <2> QED
    BY <1>1, <1>4, <2>1, <2>2 DEF Relisted
<1> QED
  BY <1>3, <1>4, <1>5, <1>6

\* Every step keeps the types.
LEMMA TypesKept ==
  ASSUME TypeInv, [Next]_vars
  PROVE  TypeInv'
<1>1. ASSUME NEW c \in Callers, NEW op, NEW x, Askable(op, x), Ask(c, op, x) PROVE TypeInv'
  <2>1. CallsOK'
    BY <1>1, AskDoes DEF Finishes, Moves
  <2> QED
    BY <1>1, <2>1, CompanyAssumption DEF Ask, TypeInv, CompanyTypeOK
<1>2. ASSUME NEW c \in Callers, LoadDepartments(c) PROVE TypeInv'
  <2>1. CallsOK'
    BY <1>2, LoadDepartmentsDoes DEF Finishes, Moves
  <2> QED
    BY <1>2, <2>1, CompanyAssumption DEF LoadDepartments, TypeInv, CompanyTypeOK
<1>3. ASSUME NEW c \in Callers, OpenDepartments(c) PROVE TypeInv'
  <2>1. CallsOK'
    BY <1>3, OpenDepartmentsDoes DEF Moves
  <2>2. Noticed(c, "files")
    BY <1>3, StirsEffect DEF OpenDepartments
  <2>3. registry' \in SUBSET Depts /\ manifest' \in Manifests
    BY <1>3 DEF OpenDepartments, At, Editing, TypeInv, CompanyTypeOK, Manifests
  <2>4. pages' \in [Pages -> SUBSET Depts]
    BY <1>3 DEF OpenDepartments, TypeInv, CompanyTypeOK
  <2> QED
    BY <1>3, <2>1, <2>2, <2>3, <2>4 DEF OpenDepartments, TypeInv, CompanyTypeOK, Manifests, Noticed
<1>4. ASSUME NEW c \in Callers, CloseDepartments(c) PROVE TypeInv'
  <2>1. CallsOK'
    BY <1>4, CloseDepartmentsDoes DEF Moves
  <2>2. Noticed(c, "files")
    BY <1>4, StirsEffect DEF CloseDepartments
  <2>3. registry' \in SUBSET Depts /\ manifest' \in Manifests
    BY <1>4, MadeTypes DEF CloseDepartments, At, Editing, TypeInv, CompanyTypeOK, Manifests
  <2>4. pages' \in [Pages -> SUBSET Depts]
    BY <1>4 DEF CloseDepartments, TypeInv, CompanyTypeOK
  <2> QED
    BY <1>4, <2>1, <2>2, <2>3, <2>4 DEF CloseDepartments, TypeInv, CompanyTypeOK, Manifests, Noticed
<1>5. ASSUME NEW c \in Callers, LoadManifest(c) PROVE TypeInv'
  <2>1. CallsOK'
    BY <1>5, LoadManifestDoes DEF Finishes, Moves
  <2> QED
    BY <1>5, <2>1, CompanyAssumption DEF LoadManifest, TypeInv, CompanyTypeOK
<1>6. ASSUME NEW c \in Callers, OpenManifest(c) PROVE TypeInv'
  <2>1. CallsOK'
    BY <1>6, OpenManifestDoes DEF Moves
  <2>2. Noticed(c, "files")
    BY <1>6, StirsEffect DEF OpenManifest
  <2>3. registry' \in SUBSET Depts /\ manifest' \in Manifests
    BY <1>6, IdleType DEF OpenManifest, At, Editing, TypeInv, CompanyTypeOK, Manifests
  <2>4. pages' \in [Pages -> SUBSET Depts]
    BY <1>6 DEF OpenManifest, TypeInv, CompanyTypeOK
  <2> QED
    BY <1>6, <2>1, <2>2, <2>3, <2>4 DEF OpenManifest, TypeInv, CompanyTypeOK, Manifests, Noticed
<1>7. ASSUME NEW c \in Callers, CloseManifest(c) PROVE TypeInv'
  <2>1. CallsOK'
    BY <1>7, CloseManifestDoes DEF Moves
  <2>2. Noticed(c, "files")
    BY <1>7, StirsEffect DEF CloseManifest
  <2>3. registry' \in SUBSET Depts /\ manifest' \in Manifests
    BY <1>7, MadeTypes DEF CloseManifest, At, Editing, TypeInv, CompanyTypeOK, Manifests
  <2>4. pages' \in [Pages -> SUBSET Depts]
    BY <1>7 DEF CloseManifest, TypeInv, CompanyTypeOK
  <2> QED
    BY <1>7, <2>1, <2>2, <2>3, <2>4 DEF CloseManifest, TypeInv, CompanyTypeOK, Manifests, Noticed
<1>8. ASSUME NEW c \in Callers, Answer(c) PROVE TypeInv'
  <2>1. CallsOK'
    BY <1>8, OthersFinish DEF Finishes, Moves
  <2>2. told' \in [Depts -> {"founded", "added", "removed"}]
    BY <1>8 DEF Answer, TypeInv, CompanyTypeOK
  <2> QED
    BY <1>8, <2>1, <2>2, CompanyAssumption DEF Answer, TypeInv, CompanyTypeOK
<1>9. ASSUME NEW c \in Callers, SaveFails(c) PROVE TypeInv'
  <2>1. CallsOK'
    BY <1>9, OthersFinish DEF Finishes, Moves
  <2>2. Late(c) => call[c].on \in Depts
    BY DEF Late, TypeInv, CallsOK, Proper
  <2>3. halfway' \subseteq Depts
    BY <1>9, <2>2 DEF SaveFails, TypeInv, CompanyTypeOK
  <2>4. UNCHANGED <<files, artefacts, told, vouched, apart, stirred, calls>>
        /\ faults' = faults + 1 /\ faults < MaxFaults
    BY <1>9 DEF SaveFails
  <2> QED
    BY <2>1, <2>3, <2>4, CompanyAssumption DEF TypeInv, CompanyTypeOK
<1>10. ASSUME NEW c \in Callers, BootstrapManifest(c) PROVE TypeInv'
  <2>1. CallsOK'
    BY <1>10, BootstrapManifestDoes DEF Finishes, Moves
  <2> QED
    BY <1>10, <2>1, CompanyAssumption DEF BootstrapManifest, TypeInv, CompanyTypeOK
<1>11. ASSUME NEW c \in Callers, Bootstrap(c) PROVE TypeInv'
  <2>1. CallsOK'
    BY <1>11, BootstrapDoes DEF Finishes, Moves
  <2>2. faults' \in 0 .. MaxFaults
    BY <1>11, BootstrapDoes DEF TypeInv, CompanyTypeOK
  <2>3. UNCHANGED <<files, pages, told, auxiliary, calls>>
    BY <1>11 DEF Bootstrap
  <2> QED
    BY <2>1, <2>2, <2>3 DEF TypeInv, CompanyTypeOK
<1>12. ASSUME NEW c \in Callers, LoadRegistry(c) PROVE TypeInv'
  <2>1. CallsOK'
    BY <1>12, LoadRegistryDoes DEF Finishes, Moves
  <2> QED
    BY <1>12, <2>1, CompanyAssumption DEF LoadRegistry, TypeInv, CompanyTypeOK
<1>13. ASSUME NEW c \in Callers, LoadManifestAgain(c) PROVE TypeInv'
  <2>1. CallsOK'
    BY <1>13, LoadManifestAgainDoes DEF Finishes, Moves
  <2> QED
    BY <1>13, <2>1, CompanyAssumption DEF LoadManifestAgain, TypeInv, CompanyTypeOK
<1>14. ASSUME NEW c \in Callers, Generate(c) PROVE TypeInv'
  <2>1. CallsOK'
    BY <1>14, GenerateDoes DEF Moves
  <2>2. Noticed(c, "artefacts")
    BY <1>14, StirsEffect DEF Generate, Generates
  <2>3. registry' \in SUBSET Depts /\ manifest' \in Manifests
    BY <1>14 DEF Generate, At, Editing, TypeInv, CompanyTypeOK, Manifests
  <2>4. pages' \in [Pages -> SUBSET Depts]
    BY <1>14 DEF Generate, Generates, Repaged, TypeInv, CompanyTypeOK, CallsOK, CallRecord
  <2> QED
    BY <1>14, <2>1, <2>2, <2>3, <2>4
    DEF Generate, Generates, TypeInv, CompanyTypeOK, Manifests, Noticed
<1>15. ASSUME NEW c \in Callers, Export(c) PROVE TypeInv'
  <2>1. CallsOK'
    BY <1>15, ExportDoes DEF Moves
  <2>2. Noticed(c, "artefacts")
    BY <1>15, StirsEffect DEF Export, Generates
  <2>3. registry' \in SUBSET Depts /\ manifest' \in Manifests
    BY <1>15 DEF Export, At, Editing, TypeInv, CompanyTypeOK, Manifests
  <2>4. pages' \in [Pages -> SUBSET Depts]
    BY <1>15 DEF Export, Generates, Repaged, TypeInv, CompanyTypeOK, CallsOK, CallRecord
  <2> QED
    BY <1>15, <2>1, <2>2, <2>3, <2>4
    DEF Export, Generates, TypeInv, CompanyTypeOK, Manifests, Noticed
<1>16. ASSUME NEW c \in Callers, Report(c) PROVE TypeInv'
  <2>1. CallsOK'
    BY <1>16, OthersFinish DEF Finishes, Moves
  <2> QED
    BY <1>16, <2>1, CompanyAssumption DEF Report, TypeInv, CompanyTypeOK
<1>17. ASSUME NEW c \in Callers, GenerateFails(c) PROVE TypeInv'
  <2>1. CallsOK'
    BY <1>17, OthersFinish DEF Finishes, Moves
  <2> QED
    BY <1>17, <2>1, CompanyAssumption DEF GenerateFails, TypeInv, CompanyTypeOK
<1>18. ASSUME NEW c \in Callers, ValidateManifest(c) PROVE TypeInv'
  <2>1. CallsOK'
    BY <1>18, ValidateManifestDoes DEF Finishes, Moves
  <2> QED
    BY <1>18, <2>1, CompanyAssumption DEF ValidateManifest, TypeInv, CompanyTypeOK
<1>19. ASSUME NEW c \in Callers, ValidateOutput(c) PROVE TypeInv'
  <2>1. CallsOK'
    BY <1>19, OthersFinish DEF Finishes, Moves
  <2> QED
    BY <1>19, <2>1, CompanyAssumption DEF ValidateOutput, TypeInv, CompanyTypeOK
<1>20. CASE End
  <2>1. CallsOK'
    BY <1>20, IdleType DEF End, TypeInv, CallsOK
  <2>2. apart' \in BOOLEAN
    BY <1>20, Zenon DEF End, TypeInv, CompanyTypeOK
  <2>3. UNCHANGED <<files, artefacts, told, vouched, stirred, calls>>
        /\ faults' = faults + 1 /\ faults < MaxFaults
    BY <1>20 DEF End
  <2>4. halfway' \subseteq Depts
    <3>1. \A k \in Callers : Late(k) => call[k].on \in Depts
      BY DEF Late, TypeInv, CallsOK, Proper
    <3> QED
      BY <1>20, <3>1 DEF End, TypeInv, CompanyTypeOK
  <2> QED
    BY <2>1, <2>2, <2>3, <2>4, CompanyAssumption DEF TypeInv, CompanyTypeOK
<1>21. CASE UNCHANGED vars
  BY <1>21 DEF vars, TypeInv, CompanyTypeOK, CallsOK
<1> QED
  BY <1>1, <1>2, <1>3, <1>4, <1>5, <1>6, <1>7, <1>8, <1>9, <1>10, <1>11, <1>12, <1>13, <1>14,
     <1>15, <1>16, <1>17, <1>18, <1>19, <1>20, <1>21, AskIsAskable DEF Next

\* The files hold departments of the company, the manifest a name of it or none, and a call is
\* at a point of its operation (api/app.py's handlers and the facade's methods they call).
THEOREM CompanyTypeCorrect == Spec => [](CompanyTypeOK /\ CallsOK)
<1>1. Init => TypeInv
  <2> SUFFICES ASSUME Init PROVE TypeInv
    OBVIOUS
  <2>1. CallsOK
    BY IdleType DEF Init, CallsOK
  <2>2. manifest \in Manifests
    <3>1. PICK n \in Names : manifest = [name |-> n, listed |-> TRUE, proper |-> Founded,
                                         bare |-> {}]
      BY DEF Init
    <3> QED
      BY <3>1, CompanyAssumption DEF Manifests
  <2>3. told \in [Depts -> {"founded", "added", "removed"}]
    BY DEF Init
  <2>4. /\ vouched = FALSE /\ apart = TRUE /\ halfway = {} /\ calls = 0 /\ faults = 0
        /\ registry = Founded
        /\ pages \in [Pages -> SUBSET Depts]
        /\ stirred \in [Callers -> SUBSET {"files", "artefacts"}]
    BY DEF Init
  <2>5. calls \in 0 .. MaxCalls /\ faults \in 0 .. MaxFaults /\ registry \in SUBSET Depts
    BY <2>4, CompanyAssumption
  <2>6. vouched \in BOOLEAN /\ apart \in BOOLEAN /\ halfway \subseteq Depts
    BY <2>4
  <2> QED
    BY <2>1, <2>2, <2>3, <2>4, <2>5, <2>6, Zenon DEF TypeInv, CompanyTypeOK, Manifests
<1>2. TypeInv /\ [Next]_vars => TypeInv'
  BY TypesKept
<1>3. TypeInv => CompanyTypeOK /\ CallsOK
  BY DEF TypeInv
<1> QED
  BY <1>1, <1>2, <1>3, PTL DEF Spec

------------------------------------------------------------------------------
(***************************************************************************)
(* A validation that has passed.                                           *)
(***************************************************************************)
\* A validation on its way has seen a manifest that is valid, and unless somebody has written
\* to the files since, the manifest still is.
VouchInv ==
  /\ vouched => Valid(manifest) /\ packages # {}
  /\ \A c \in Callers :
       At(c, {"validate"}, "output") /\ "files" \notin stirred[c] => Valid(manifest)

\* A step that leaves the manifest alone, and after which the call is not before its last report.
LEMMA VouchStays ==
  ASSUME VouchInv, NEW c \in Callers, Others(c), call'[c].at # "output",
         manifest' = manifest, packages \subseteq packages', vouched' = vouched,
         \A k \in Callers : k # c => stirred[k] \subseteq stirred'[k]
  PROVE  VouchInv'
  BY DEF VouchInv, Others, At, Valid, Loads

LEMMA VouchKept ==
  ASSUME TypeInv, TypeInv', VouchInv, [Next]_vars
  PROVE  VouchInv'
<1>1. ASSUME NEW c \in Callers, NEW op, NEW x, Askable(op, x), Ask(c, op, x) PROVE VouchInv'
  <2>1. Others(c) /\ call'[c].at # "output"
    BY <1>1, AskDoes DEF Finishes, Moves, Idle
  <2>2. manifest' = manifest /\ packages \subseteq packages' /\ vouched' = vouched
    BY <1>1 DEF Ask
  <2>3. \A k \in Callers : k # c => stirred[k] \subseteq stirred'[k]
    BY <1>1 DEF Ask, TypeInv, CompanyTypeOK
  <2> QED
    BY <2>1, <2>2, <2>3, VouchStays
<1>2. ASSUME NEW c \in Callers, LoadDepartments(c) PROVE VouchInv'
  <2>1. Others(c) /\ call'[c].at # "output"
    BY <1>2, LoadDepartmentsDoes DEF Finishes, Moves, Idle
  <2>2. manifest' = manifest /\ packages \subseteq packages' /\ vouched' = vouched
    BY <1>2 DEF LoadDepartments
  <2>3. \A k \in Callers : k # c => stirred[k] \subseteq stirred'[k]
    BY <1>2 DEF LoadDepartments, TypeInv, CompanyTypeOK
  <2> QED
    BY <2>1, <2>2, <2>3, VouchStays
<1>3. ASSUME NEW c \in Callers, OpenDepartments(c) PROVE VouchInv'
  <2>1. Others(c) /\ call'[c].at # "output"
    BY <1>3, OpenDepartmentsDoes DEF Finishes, Moves, Idle
  <2>2. manifest' = manifest /\ packages \subseteq packages' /\ vouched' = vouched
    BY <1>3 DEF OpenDepartments
  <2>3. \A k \in Callers : k # c => stirred[k] \subseteq stirred'[k]
    BY <1>3, StirsEffect DEF OpenDepartments, Noticed
  <2> QED
    BY <2>1, <2>2, <2>3, VouchStays
<1>4. ASSUME NEW c \in Callers, CloseDepartments(c) PROVE VouchInv'
  <2>1. Others(c) /\ call'[c].at # "output"
    BY <1>4, CloseDepartmentsDoes DEF Finishes, Moves, Idle
  <2>2. manifest' = manifest /\ packages \subseteq packages' /\ vouched' = vouched
    BY <1>4 DEF CloseDepartments
  <2>3. \A k \in Callers : k # c => stirred[k] \subseteq stirred'[k]
    BY <1>4, StirsEffect DEF CloseDepartments, Noticed
  <2> QED
    BY <2>1, <2>2, <2>3, VouchStays
<1>5. ASSUME NEW c \in Callers, LoadManifest(c) PROVE VouchInv'
  <2>1. Others(c) /\ call'[c].at # "output"
    BY <1>5, LoadManifestDoes DEF Finishes, Moves, Idle
  <2>2. manifest' = manifest /\ packages \subseteq packages' /\ vouched' = vouched
    BY <1>5 DEF LoadManifest
  <2>3. \A k \in Callers : k # c => stirred[k] \subseteq stirred'[k]
    BY <1>5 DEF LoadManifest, TypeInv, CompanyTypeOK
  <2> QED
    BY <2>1, <2>2, <2>3, VouchStays
<1>6. ASSUME NEW c \in Callers, OpenManifest(c) PROVE VouchInv'
  <2>1. Others(c) /\ call'[c].at # "output" /\ vouched' = FALSE
    BY <1>6, OpenManifestDoes DEF Moves, OpenManifest
  <2>2. \A k \in Callers : k # c => "files" \in stirred'[k]
    BY <1>6, StirsEffect DEF OpenManifest, Noticed
  <2> QED
    BY <2>1, <2>2 DEF VouchInv, At
<1>7. ASSUME NEW c \in Callers, CloseManifest(c) PROVE VouchInv'
  <2>1. Others(c) /\ call'[c].at # "output" /\ vouched' = FALSE
    BY <1>7, CloseManifestDoes DEF Moves, CloseManifest
  <2>2. \A k \in Callers : k # c => "files" \in stirred'[k]
    BY <1>7, StirsEffect DEF CloseManifest, Noticed
  <2> QED
    BY <2>1, <2>2 DEF VouchInv, At
<1>8. ASSUME NEW c \in Callers, Answer(c) PROVE VouchInv'
  <2>1. Others(c) /\ call'[c].at # "output"
    BY <1>8, OthersFinish DEF Finishes, Moves, Idle
  <2>2. manifest' = manifest /\ packages \subseteq packages' /\ vouched' = vouched
    BY <1>8 DEF Answer
  <2>3. \A k \in Callers : k # c => stirred[k] \subseteq stirred'[k]
    BY <1>8 DEF Answer, TypeInv, CompanyTypeOK
  <2> QED
    BY <2>1, <2>2, <2>3, VouchStays
<1>9. ASSUME NEW c \in Callers, SaveFails(c) PROVE VouchInv'
  <2>1. Others(c) /\ call'[c].at # "output"
    BY <1>9, OthersFinish DEF Finishes, Moves, Idle
  <2>2. manifest' = manifest /\ packages \subseteq packages' /\ vouched' = vouched
    BY <1>9 DEF SaveFails
  <2>3. \A k \in Callers : k # c => stirred[k] \subseteq stirred'[k]
    BY <1>9 DEF SaveFails, TypeInv, CompanyTypeOK
  <2> QED
    BY <2>1, <2>2, <2>3, VouchStays
<1>10. ASSUME NEW c \in Callers, BootstrapManifest(c) PROVE VouchInv'
  <2>1. Others(c) /\ call'[c].at # "output"
    BY <1>10, BootstrapManifestDoes DEF Finishes, Moves, Idle
  <2>2. manifest' = manifest /\ packages \subseteq packages' /\ vouched' = vouched
    BY <1>10 DEF BootstrapManifest
  <2>3. \A k \in Callers : k # c => stirred[k] \subseteq stirred'[k]
    BY <1>10 DEF BootstrapManifest, TypeInv, CompanyTypeOK
  <2> QED
    BY <2>1, <2>2, <2>3, VouchStays
<1>11. ASSUME NEW c \in Callers, Bootstrap(c) PROVE VouchInv'
  <2>1. Others(c) /\ call'[c].at # "output"
    <3>1. Finishes(c) \/ Moves(c, "registry")
      BY <1>11, BootstrapDoes
    <3> QED
      BY <3>1 DEF Finishes, Moves, Idle
  <2>2. manifest' = manifest /\ packages \subseteq packages' /\ vouched' = vouched
    BY <1>11 DEF Bootstrap
  <2>3. \A k \in Callers : k # c => stirred[k] \subseteq stirred'[k]
    BY <1>11 DEF Bootstrap, TypeInv, CompanyTypeOK
  <2> QED
    BY <2>1, <2>2, <2>3, VouchStays
<1>12. ASSUME NEW c \in Callers, LoadRegistry(c) PROVE VouchInv'
  <2>1. Others(c) /\ call'[c].at # "output"
    BY <1>12, LoadRegistryDoes DEF Finishes, Moves, Idle
  <2>2. manifest' = manifest /\ packages \subseteq packages' /\ vouched' = vouched
    BY <1>12 DEF LoadRegistry
  <2>3. \A k \in Callers : k # c => stirred[k] \subseteq stirred'[k]
    BY <1>12 DEF LoadRegistry, TypeInv, CompanyTypeOK
  <2> QED
    BY <2>1, <2>2, <2>3, VouchStays
<1>13. ASSUME NEW c \in Callers, LoadManifestAgain(c) PROVE VouchInv'
  <2>1. Others(c) /\ call'[c].at # "output"
    BY <1>13, LoadManifestAgainDoes DEF Finishes, Moves, Idle
  <2>2. manifest' = manifest /\ packages \subseteq packages' /\ vouched' = vouched
    BY <1>13 DEF LoadManifestAgain
  <2>3. \A k \in Callers : k # c => stirred[k] \subseteq stirred'[k]
    BY <1>13 DEF LoadManifestAgain, TypeInv, CompanyTypeOK
  <2> QED
    BY <2>1, <2>2, <2>3, VouchStays
<1>14. ASSUME NEW c \in Callers, Generate(c) PROVE VouchInv'
  <2>1. Others(c) /\ call'[c].at # "output"
    BY <1>14, GenerateDoes DEF Finishes, Moves, Idle
  <2>2. manifest' = manifest /\ packages \subseteq packages' /\ vouched' = vouched
    BY <1>14 DEF Generate, Generates
  <2>3. \A k \in Callers : k # c => stirred[k] \subseteq stirred'[k]
    BY <1>14, StirsEffect DEF Generate, Generates, Noticed
  <2> QED
    BY <2>1, <2>2, <2>3, VouchStays
<1>15. ASSUME NEW c \in Callers, Export(c) PROVE VouchInv'
  <2>1. Others(c) /\ call'[c].at # "output"
    BY <1>15, ExportDoes DEF Finishes, Moves, Idle
  <2>2. manifest' = manifest /\ packages \subseteq packages' /\ vouched' = vouched
    BY <1>15 DEF Export, Generates
  <2>3. \A k \in Callers : k # c => stirred[k] \subseteq stirred'[k]
    BY <1>15, StirsEffect DEF Export, Generates, Noticed
  <2> QED
    BY <2>1, <2>2, <2>3, VouchStays
<1>16. ASSUME NEW c \in Callers, Report(c) PROVE VouchInv'
  <2>1. Others(c) /\ call'[c].at # "output"
    BY <1>16, OthersFinish DEF Finishes, Moves, Idle
  <2>2. manifest' = manifest /\ packages \subseteq packages' /\ vouched' = vouched
    BY <1>16 DEF Report
  <2>3. \A k \in Callers : k # c => stirred[k] \subseteq stirred'[k]
    BY <1>16 DEF Report, TypeInv, CompanyTypeOK
  <2> QED
    BY <2>1, <2>2, <2>3, VouchStays
<1>17. ASSUME NEW c \in Callers, GenerateFails(c) PROVE VouchInv'
  <2>1. Others(c) /\ call'[c].at # "output"
    BY <1>17, OthersFinish DEF Finishes, Moves, Idle
  <2>2. manifest' = manifest /\ packages \subseteq packages' /\ vouched' = vouched
    BY <1>17 DEF GenerateFails
  <2>3. \A k \in Callers : k # c => stirred[k] \subseteq stirred'[k]
    BY <1>17 DEF GenerateFails, TypeInv, CompanyTypeOK
  <2> QED
    BY <2>1, <2>2, <2>3, VouchStays
<1>18. ASSUME NEW c \in Callers, ValidateManifest(c) PROVE VouchInv'
  <2>1. Others(c) /\ UNCHANGED <<manifest, packages, vouched, stirred>>
    BY <1>18, ValidateManifestDoes DEF Finishes, Moves, ValidateManifest
  <2>2. call'[c].at = "output" => Valid(manifest)
    BY <1>18, EndsEffect DEF ValidateManifest, TypeInv, ManifestReport, Idle
  <2> QED
    BY <2>1, <2>2 DEF VouchInv, At, Valid, Loads, Others
<1>19. ASSUME NEW c \in Callers, ValidateOutput(c) PROVE VouchInv'
  <2>1. Others(c) /\ call'[c].at # "output" /\ UNCHANGED <<manifest, packages, stirred>>
    BY <1>19, OthersFinish DEF Finishes, Idle, ValidateOutput
  <2>2. vouched' => Valid(manifest) /\ packages # {}
    BY <1>19 DEF VouchInv, ValidateOutput, OutputReport
  <2> QED
    BY <2>1, <2>2 DEF VouchInv, At, Valid, Loads, Others
<1>20. CASE End
  <2>1. UNCHANGED <<manifest, packages, vouched>> /\ \A k \in Callers : call'[k].at # "output"
    BY <1>20 DEF End, Idle
  <2> QED
    BY <2>1 DEF VouchInv, At, Valid, Loads
<1>21. CASE UNCHANGED vars
  BY <1>21 DEF vars, VouchInv, At, Valid, Loads
<1> QED
  BY <1>1, <1>2, <1>3, <1>4, <1>5, <1>6, <1>7, <1>8, <1>9, <1>10, <1>11, <1>12, <1>13, <1>14,
     <1>15, <1>16, <1>17, <1>18, <1>19, <1>20, <1>21, AskIsAskable DEF Next

\* A validation that has passed means that a build would get past its bootstrap, until somebody
\* saves the manifest (validate_artifacts, then build_run).
THEOREM PassedForBuilds == Spec => []PassedMeansBuildable
<1>1. Init => VouchInv
  BY DEF Init, VouchInv, At, Idle
<1>2. TypeInv /\ TypeInv' /\ VouchInv /\ [Next]_vars => VouchInv'
  BY VouchKept
<1>3. VouchInv => PassedMeansBuildable
  BY DEF VouchInv, PassedMeansBuildable
<1>4. CompanyTypeOK /\ CallsOK <=> TypeInv
  BY DEF TypeInv
<1> QED
  BY <1>1, <1>2, <1>3, <1>4, CompanyTypeCorrect, PTL DEF Spec

------------------------------------------------------------------------------
(***************************************************************************)
(* Builds.                                                                 *)
(***************************************************************************)
\* The generators a build is through with.
Past(c) == IF call[c].at = "built" THEN 1 .. 10 ELSE 1 .. (call[c].step - 1)

\* What a generator has written one file for each member of stays, and what it has written for
\* the whole stays as long as nobody else generates: both are of what the call has loaded.
Outs(c) ==
  call[c].op = "build" /\ call[c].at \in {"generate", "built"} =>
    \A i \in Past(c) :
      /\ Rendered(Generators[i], call[c].has, ManifestOr(call[c].manifest)) \subseteq packages
      /\ "artefacts" \notin stirred[c] /\ Generators[i] \in Pages =>
           pages[Generators[i]] = call[c].has

\* What a build has loaded is what the files hold, as long as nobody else writes to them.
Loaded(c) ==
  call[c].op = "build" /\ "files" \notin stirred[c] =>
    /\ call[c].at \in {"check", "generate", "built"} => call[c].manifest = manifest
    /\ call[c].at \in {"registry", "again", "generate", "built"} =>
         Valid(manifest) /\ ReadmeFiles(manifest.proper \ call[c].skipped) \subseteq packages
    /\ call[c].at \in {"again", "generate", "built"} => call[c].has = registry

BuildInv == \A c \in Callers : Outs(c) /\ Loaded(c)

\* Each generator comes once, and each of the pages has its generator.
LEMMA GeneratorsOnce ==
  /\ \A i, j \in 1 .. 10 : Generators[i] = Generators[j] => i = j
  /\ \A p \in Pages : \E i \in 1 .. 10 : Generators[i] = p
<1> DEFINE place(g) == CASE g = "organization" -> 1 [] g = "board" -> 2 [] g = "executives" -> 3
                         [] g = "departments" -> 4 [] g = "specialists" -> 5
                         [] g = "workflows" -> 6 [] g = "prompts" -> 7 [] g = "docs" -> 8
                         [] g = "graph" -> 9 [] g = "documents" -> 10
<1>1. ASSUME NEW i \in 1 .. 10 PROVE place(Generators[i]) = i
  BY DEF Generators
<1> HIDE DEF place
<1>2. /\ Generators[1] = "organization" /\ Generators[7] = "prompts" /\ Generators[8] = "docs"
      /\ Generators[9] = "graph" /\ Generators[10] = "documents"
  BY DEF Generators
<1>3. \A p \in Pages : \E i \in 1 .. 10 : Generators[i] = p
  BY <1>2 DEF Pages
<1> QED
  BY <1>1, <1>3

\* A thread that takes no part in a step is left alone, unless it is told of what is written.
LEMMA Bystander ==
  ASSUME NEW k \in Callers, Outs(k), Loaded(k), call'[k] = call[k], packages \subseteq packages',
         stirred[k] \subseteq stirred'[k],
         "files" \notin stirred'[k] => UNCHANGED files,
         "artefacts" \notin stirred'[k] => UNCHANGED pages
  PROVE  Outs(k)' /\ Loaded(k)'
<1>1. Past(k)' = Past(k)
  BY DEF Past
<1>2. Outs(k)'
  BY <1>1 DEF Outs, ManifestOr, Loads
<1>3. Loaded(k)'
  BY DEF Loaded, Valid, Loads
<1> QED
  BY <1>2, <1>3

\* A step that writes nothing that others could see.
LEMMA Unseen ==
  ASSUME BuildInv, NEW c \in Callers, Others(c), packages \subseteq packages',
         UNCHANGED <<files, pages>>, \A k \in Callers : k # c => stirred'[k] = stirred[k],
         Outs(c)', Loaded(c)'
  PROVE  BuildInv'
<1>1. ASSUME NEW k \in Callers, k # c PROVE Outs(k)' /\ Loaded(k)'
  BY <1>1, Bystander DEF BuildInv, Others
<1> QED
  BY <1>1 DEF BuildInv

\* A step that writes, and tells all others so.
LEMMA Seen ==
  ASSUME BuildInv, NEW c \in Callers, Others(c), packages \subseteq packages',
         \/ Noticed(c, "files") /\ UNCHANGED pages
         \/ Noticed(c, "artefacts") /\ UNCHANGED files,
         Outs(c)', Loaded(c)'
  PROVE  BuildInv'
<1>1. ASSUME NEW k \in Callers, k # c PROVE Outs(k)' /\ Loaded(k)'
  BY <1>1, Bystander DEF BuildInv, Others, Noticed
<1> QED
  BY <1>1 DEF BuildInv

\* A generator of a build writes of what the call has loaded.
LEMMA GenerateKeeps ==
  ASSUME TypeInv, BuildInv, NEW c \in Callers, Generate(c)
  PROVE  Outs(c)' /\ Loaded(c)' /\ packages \subseteq packages'
<1> DEFINE s == call[c].step
           g == Generators[s]
           m == ManifestOr(call[c].manifest)
<1>1. /\ call'[c].at = IF s = 10 THEN "built" ELSE "generate"
      /\ call'[c].op = call[c].op /\ call'[c].manifest = call[c].manifest
      /\ call'[c].has = call[c].has /\ s \in 1 .. 10 /\ (s # 10 => call'[c].step = s + 1)
      /\ call'[c].skipped = call[c].skipped
  BY GenerateDoes DEF Moves
<1>2. call[c].op = "build" /\ call[c].at = "generate" /\ UNCHANGED files
  BY DEF Generate, At
<1>3. /\ packages' = packages \cup Rendered(g, call[c].has, m)
      /\ pages' = [p \in Pages |-> IF p = g THEN call[c].has ELSE pages[p]]
  BY DEF Generate, Generates, Repaged
<1>4. stirred'[c] = stirred[c]
  BY StirsEffect DEF Generate, Generates, Noticed
<1>5. Past(c) = 1 .. (s - 1) /\ Past(c)' = 1 .. s
  <2>1. CASE s = 10
    BY <1>1, <1>2, <2>1 DEF Past
  <2>2. CASE s # 10
    <3>1. call'[c].at = "generate" /\ call'[c].step - 1 = s
      BY <1>1, <2>2
    <3> QED
      BY <1>2, <3>1 DEF Past
  <2> QED
    BY <2>1, <2>2
<1>6. ManifestOr(call[c].manifest)' = m
  BY <1>1 DEF ManifestOr, Loads
<1>7. ASSUME NEW i \in 1 .. s
      PROVE  /\ Rendered(Generators[i], call[c].has, m) \subseteq packages'
             /\ "artefacts" \notin stirred[c] /\ Generators[i] \in Pages =>
                  pages'[Generators[i]] = call[c].has
  <2>1. CASE i = s
    BY <1>3, <2>1
  <2>2. CASE i # s
    <3>1. i \in Past(c) /\ i \in 1 .. 10
      BY <1>1, <1>5, <2>2
    <3>2. Generators[i] # g
      BY <1>1, <2>2, <3>1, GeneratorsOnce
    <3>3. /\ Rendered(Generators[i], call[c].has, m) \subseteq packages
          /\ "artefacts" \notin stirred[c] /\ Generators[i] \in Pages =>
               pages[Generators[i]] = call[c].has
      BY <1>2, <3>1 DEF BuildInv, Outs
    <3> HIDE DEF g, m
    <3> QED
      BY <1>3, <3>2, <3>3
  <2> QED
    BY <2>1, <2>2
<1> HIDE DEF g, m
<1>8. Outs(c)'
  BY <1>1, <1>4, <1>5, <1>6, <1>7 DEF Outs
<1>9. packages \subseteq packages'
  BY <1>3
<1>10. Loaded(c)'
  BY <1>1, <1>2, <1>4, <1>9 DEF BuildInv, Loaded, Valid, Loads
<1> QED
  BY <1>8, <1>9, <1>10

LEMMA BuildKept ==
  ASSUME TypeInv, TypeInv', BuildInv, [Next]_vars
  PROVE  BuildInv'
<1>1. ASSUME NEW c \in Callers, NEW op, NEW x, Askable(op, x), Ask(c, op, x) PROVE BuildInv'
  <2>1. Others(c) /\ Outs(c)' /\ Loaded(c)'
    BY <1>1, AskDoes DEF Outs, Loaded
  <2>2. UNCHANGED <<files, pages>> /\ packages \subseteq packages'
        /\ \A k \in Callers : k # c => stirred'[k] = stirred[k]
    BY <1>1 DEF Ask, TypeInv, CompanyTypeOK
  <2> QED
    BY <2>1, <2>2, Unseen
<1>2. ASSUME NEW c \in Callers, LoadDepartments(c) PROVE BuildInv'
  <2>1. Others(c) /\ Outs(c)' /\ Loaded(c)'
    BY <1>2, LoadDepartmentsDoes
    DEF LoadDepartments, At, Finishes, Moves, Idle, Outs, Loaded, Writing
  <2>2. UNCHANGED <<files, pages>> /\ packages \subseteq packages'
        /\ \A k \in Callers : k # c => stirred'[k] = stirred[k]
    BY <1>2 DEF LoadDepartments, TypeInv, CompanyTypeOK
  <2> QED
    BY <2>1, <2>2, Unseen
<1>3. ASSUME NEW c \in Callers, OpenDepartments(c) PROVE BuildInv'
  <2>1. Others(c) /\ Outs(c)' /\ Loaded(c)'
    BY <1>3, OpenDepartmentsDoes
    DEF OpenDepartments, At, Finishes, Moves, Idle, Outs, Loaded, Writing
  <2>2. Noticed(c, "files") /\ UNCHANGED pages /\ packages \subseteq packages'
    BY <1>3, StirsEffect DEF OpenDepartments
  <2> QED
    BY <2>1, <2>2, Seen
<1>4. ASSUME NEW c \in Callers, CloseDepartments(c) PROVE BuildInv'
  <2>1. Others(c) /\ Outs(c)' /\ Loaded(c)'
    BY <1>4, CloseDepartmentsDoes
    DEF CloseDepartments, At, Finishes, Moves, Idle, Outs, Loaded, Writing
  <2>2. Noticed(c, "files") /\ UNCHANGED pages /\ packages \subseteq packages'
    BY <1>4, StirsEffect DEF CloseDepartments
  <2> QED
    BY <2>1, <2>2, Seen
<1>5. ASSUME NEW c \in Callers, LoadManifest(c) PROVE BuildInv'
  <2>1. Others(c) /\ Outs(c)' /\ Loaded(c)'
    BY <1>5, LoadManifestDoes DEF LoadManifest, At, Finishes, Moves, Idle, Outs, Loaded, Writing
  <2>2. UNCHANGED <<files, pages>> /\ packages \subseteq packages'
        /\ \A k \in Callers : k # c => stirred'[k] = stirred[k]
    BY <1>5 DEF LoadManifest, TypeInv, CompanyTypeOK
  <2> QED
    BY <2>1, <2>2, Unseen
<1>6. ASSUME NEW c \in Callers, OpenManifest(c) PROVE BuildInv'
  <2>1. Others(c) /\ Outs(c)' /\ Loaded(c)'
    BY <1>6, OpenManifestDoes DEF OpenManifest, At, Finishes, Moves, Idle, Outs, Loaded, Writing
  <2>2. Noticed(c, "files") /\ UNCHANGED pages /\ packages \subseteq packages'
    BY <1>6, StirsEffect DEF OpenManifest
  <2> QED
    BY <2>1, <2>2, Seen
<1>7. ASSUME NEW c \in Callers, CloseManifest(c) PROVE BuildInv'
  <2>1. Others(c) /\ Outs(c)' /\ Loaded(c)'
    BY <1>7, CloseManifestDoes DEF CloseManifest, At, Finishes, Moves, Idle, Outs, Loaded, Writing
  <2>2. Noticed(c, "files") /\ UNCHANGED pages /\ packages \subseteq packages'
    BY <1>7, StirsEffect DEF CloseManifest
  <2> QED
    BY <2>1, <2>2, Seen
<1>8. ASSUME NEW c \in Callers, Answer(c) PROVE BuildInv'
  <2>1. Others(c) /\ Outs(c)' /\ Loaded(c)'
    BY <1>8, OthersFinish DEF Finishes, Idle, Outs, Loaded
  <2>2. UNCHANGED <<files, pages>> /\ packages \subseteq packages'
        /\ \A k \in Callers : k # c => stirred'[k] = stirred[k]
    BY <1>8 DEF Answer, TypeInv, CompanyTypeOK
  <2> QED
    BY <2>1, <2>2, Unseen
<1>9. ASSUME NEW c \in Callers, SaveFails(c) PROVE BuildInv'
  <2>1. Others(c) /\ Outs(c)' /\ Loaded(c)'
    BY <1>9, OthersFinish DEF Finishes, Idle, Outs, Loaded
  <2>2. UNCHANGED <<files, pages>> /\ packages \subseteq packages'
        /\ \A k \in Callers : k # c => stirred'[k] = stirred[k]
    BY <1>9 DEF SaveFails, TypeInv, CompanyTypeOK
  <2> QED
    BY <2>1, <2>2, Unseen
<1>10. ASSUME NEW c \in Callers, BootstrapManifest(c) PROVE BuildInv'
  <2>1. Others(c) /\ Outs(c)' /\ Loaded(c)'
    <3>1. stirred' = stirred /\ UNCHANGED files /\ packages \subseteq packages' /\ Loaded(c)
      BY <1>10 DEF BootstrapManifest, BuildInv
    <3> QED
      BY <1>10, <3>1, BootstrapManifestDoes
      DEF BootstrapManifest, At, Finishes, Moves, Idle, Outs, Loaded, Valid, Loads
  <2>2. UNCHANGED <<files, pages>> /\ packages \subseteq packages'
        /\ \A k \in Callers : k # c => stirred'[k] = stirred[k]
    BY <1>10 DEF BootstrapManifest, TypeInv, CompanyTypeOK
  <2> QED
    BY <2>1, <2>2, Unseen
<1>11. ASSUME NEW c \in Callers, Bootstrap(c) PROVE BuildInv'
  <2>1. Others(c) /\ Outs(c)' /\ Loaded(c)'
    <3>1. stirred' = stirred /\ UNCHANGED files /\ packages \subseteq packages' /\ Loaded(c)
      BY <1>11 DEF Bootstrap, BuildInv
    <3>2. CASE Finishes(c)
      BY <3>2 DEF Finishes, Idle, Outs, Loaded
    <3>3. CASE ~ Finishes(c)
      <4>1. /\ Others(c) /\ call'[c].at = "registry" /\ call'[c].op = call[c].op
            /\ Valid(call[c].manifest)
            /\ ReadmeFiles(call[c].manifest.proper \ call'[c].skipped) \subseteq packages'
        BY <1>11, <3>3, BootstrapDoes DEF Moves
      <4>2. call[c].op = "build" /\ call[c].at = "check"
        BY <1>11 DEF Bootstrap, At
      <4>3. Outs(c)'
        BY <4>1 DEF Outs
      <4>4. Loaded(c)'
        BY <3>1, <4>1, <4>2 DEF Loaded, Valid, Loads
      <4> QED
        BY <4>1, <4>3, <4>4
    <3> QED
      BY <3>2, <3>3
  <2>2. UNCHANGED <<files, pages>> /\ packages \subseteq packages'
        /\ \A k \in Callers : k # c => stirred'[k] = stirred[k]
    BY <1>11 DEF Bootstrap, TypeInv, CompanyTypeOK
  <2> QED
    BY <2>1, <2>2, Unseen
<1>12. ASSUME NEW c \in Callers, LoadRegistry(c) PROVE BuildInv'
  <2>1. Others(c) /\ Outs(c)' /\ Loaded(c)'
    <3>1. stirred' = stirred /\ UNCHANGED files /\ packages \subseteq packages' /\ Loaded(c)
      BY <1>12 DEF LoadRegistry, BuildInv
    <3> QED
      BY <1>12, <3>1, LoadRegistryDoes
      DEF LoadRegistry, At, Finishes, Moves, Idle, Outs, Loaded, Valid, Loads
  <2>2. UNCHANGED <<files, pages>> /\ packages \subseteq packages'
        /\ \A k \in Callers : k # c => stirred'[k] = stirred[k]
    BY <1>12 DEF LoadRegistry, TypeInv, CompanyTypeOK
  <2> QED
    BY <2>1, <2>2, Unseen
<1>13. ASSUME NEW c \in Callers, LoadManifestAgain(c) PROVE BuildInv'
  <2>1. Others(c) /\ Outs(c)' /\ Loaded(c)'
    <3>1. stirred' = stirred /\ UNCHANGED files /\ packages \subseteq packages' /\ Loaded(c)
      BY <1>13 DEF LoadManifestAgain, BuildInv
    <3>2. Past(c)' = {}
      BY <1>13, LoadManifestAgainDoes DEF Moves, Past
    <3>3. /\ Others(c) /\ call'[c].at = "generate" /\ call'[c].manifest = manifest
          /\ call'[c].op = call[c].op /\ call'[c].has = call[c].has
          /\ call'[c].skipped = call[c].skipped
      BY <1>13, LoadManifestAgainDoes DEF Moves
    <3>4. call[c].op = "build" /\ call[c].at = "again"
      BY <1>13 DEF LoadManifestAgain, At
    <3>5. Outs(c)'
      BY <3>2 DEF Outs
    <3>6. Loaded(c)'
      BY <3>1, <3>3, <3>4 DEF Loaded, Valid, Loads
    <3> QED
      BY <3>3, <3>5, <3>6
  <2>2. UNCHANGED <<files, pages>> /\ packages \subseteq packages'
        /\ \A k \in Callers : k # c => stirred'[k] = stirred[k]
    BY <1>13 DEF LoadManifestAgain, TypeInv, CompanyTypeOK
  <2> QED
    BY <2>1, <2>2, Unseen
<1>14. ASSUME NEW c \in Callers, Generate(c) PROVE BuildInv'
  <2>1. Others(c) /\ Noticed(c, "artefacts") /\ UNCHANGED files
    BY <1>14, GenerateDoes, StirsEffect DEF Moves, Generate, Generates
  <2> QED
    BY <1>14, <2>1, GenerateKeeps, Seen
<1>15. ASSUME NEW c \in Callers, Export(c) PROVE BuildInv'
  <2>1. Others(c) /\ Outs(c)' /\ Loaded(c)'
    BY <1>15, ExportDoes DEF Export, At, Finishes, Moves, Idle, Outs, Loaded, Writing
  <2>2. Noticed(c, "artefacts") /\ UNCHANGED files /\ packages \subseteq packages'
    BY <1>15, StirsEffect DEF Export, Generates
  <2> QED
    BY <2>1, <2>2, Seen
<1>16. ASSUME NEW c \in Callers, Report(c) PROVE BuildInv'
  <2>1. Others(c) /\ Outs(c)' /\ Loaded(c)'
    BY <1>16, OthersFinish DEF Finishes, Idle, Outs, Loaded
  <2>2. UNCHANGED <<files, pages>> /\ packages \subseteq packages'
        /\ \A k \in Callers : k # c => stirred'[k] = stirred[k]
    BY <1>16 DEF Report, TypeInv, CompanyTypeOK
  <2> QED
    BY <2>1, <2>2, Unseen
<1>17. ASSUME NEW c \in Callers, GenerateFails(c) PROVE BuildInv'
  <2>1. Others(c) /\ Outs(c)' /\ Loaded(c)'
    BY <1>17, OthersFinish DEF Finishes, Idle, Outs, Loaded
  <2>2. UNCHANGED <<files, pages>> /\ packages \subseteq packages'
        /\ \A k \in Callers : k # c => stirred'[k] = stirred[k]
    BY <1>17 DEF GenerateFails, TypeInv, CompanyTypeOK
  <2> QED
    BY <2>1, <2>2, Unseen
<1>18. ASSUME NEW c \in Callers, ValidateManifest(c) PROVE BuildInv'
  <2>1. Others(c) /\ Outs(c)' /\ Loaded(c)'
    BY <1>18, ValidateManifestDoes
    DEF ValidateManifest, At, Finishes, Moves, Idle, Outs, Loaded, Writing
  <2>2. UNCHANGED <<files, pages>> /\ packages \subseteq packages'
        /\ \A k \in Callers : k # c => stirred'[k] = stirred[k]
    BY <1>18 DEF ValidateManifest, TypeInv, CompanyTypeOK
  <2> QED
    BY <2>1, <2>2, Unseen
<1>19. ASSUME NEW c \in Callers, ValidateOutput(c) PROVE BuildInv'
  <2>1. Others(c) /\ Outs(c)' /\ Loaded(c)'
    BY <1>19, OthersFinish DEF Finishes, Idle, Outs, Loaded
  <2>2. UNCHANGED <<files, pages>> /\ packages \subseteq packages'
        /\ \A k \in Callers : k # c => stirred'[k] = stirred[k]
    BY <1>19 DEF ValidateOutput, TypeInv, CompanyTypeOK
  <2> QED
    BY <2>1, <2>2, Unseen
<1>20. CASE End
  <2>1. \A k \in Callers : call'[k].op # "build"
    BY <1>20 DEF End, Idle
  <2> QED
    BY <2>1 DEF BuildInv, Outs, Loaded
<1>21. CASE UNCHANGED vars
  <2>1. ASSUME NEW k \in Callers PROVE Outs(k)' /\ Loaded(k)'
    BY <1>21, Bystander DEF vars, BuildInv
  <2> QED
    BY <2>1 DEF BuildInv
<1> QED
  BY <1>1, <1>2, <1>3, <1>4, <1>5, <1>6, <1>7, <1>8, <1>9, <1>10, <1>11, <1>12, <1>13, <1>14,
     <1>15, <1>16, <1>17, <1>18, <1>19, <1>20, <1>21, AskIsAskable DEF Next

LEMMA BuildInvariant == Spec => []BuildInv
<1>1. Init => BuildInv
  BY DEF Init, BuildInv, Outs, Loaded, Idle
<1>2. TypeInv /\ TypeInv' /\ BuildInv /\ [Next]_vars => BuildInv'
  BY BuildKept
<1>3. CompanyTypeOK /\ CallsOK <=> TypeInv
  BY DEF TypeInv
<1> QED
  BY <1>1, <1>2, <1>3, CompanyTypeCorrect, PTL DEF Spec

\* Whatever is written to the company's files meanwhile, the charts and indices of a build that
\* no other build or export overlaps agree with each other (generate_all).
THEOREM PicturesAgree == Spec => []OnePicture
<1>1. ASSUME BuildInv, NEW c \in Callers, At(c, {"build"}, "built"), "artefacts" \notin stirred[c],
             NEW p \in Pages
      PROVE  pages[p] = call[c].has
  <2>1. PICK i \in 1 .. 10 : Generators[i] = p
    BY GeneratorsOnce
  <2>2. i \in Past(c)
    BY <1>1 DEF Past, At
  <2> QED
    BY <1>1, <2>1, <2>2 DEF BuildInv, Outs, At
<1>2. BuildInv => OnePicture
  BY <1>1 DEF OnePicture
<1> QED
  BY <1>2, BuildInvariant, PTL

\* A build that succeeds while nobody else writes has rendered the company as it is, but for the
\* readmes its bootstrap has skipped with a warning, and takes a manifest that loads and has
\* departments (build_run, BootstrapGenerator._render_template).
THEOREM BuildsAreWhole == Spec => []BuildIsWhole
<1>1. ASSUME BuildInv, NEW c \in Callers, At(c, {"build"}, "built"), stirred[c] = {}
      PROVE  /\ Valid(manifest)
             /\ \A p \in Pages : pages[p] = registry
             /\ Of("prompts", registry) \cup Of("docs", registry) \subseteq packages
             /\ DepartmentFiles(manifest.proper) \subseteq packages
             /\ ReadmeFiles(manifest.proper \ call[c].skipped) \subseteq packages
  <2>1. /\ call[c].manifest = manifest /\ call[c].has = registry /\ Valid(manifest)
        /\ ReadmeFiles(manifest.proper \ call[c].skipped) \subseteq packages
    BY <1>1 DEF BuildInv, Loaded, At
  <2>2. ASSUME NEW i \in 1 .. 10
        PROVE  /\ Rendered(Generators[i], registry, ManifestOr(manifest)) \subseteq packages
               /\ Generators[i] \in Pages => pages[Generators[i]] = registry
    BY <1>1, <2>1 DEF BuildInv, Outs, At, Past
  <2>3. \A p \in Pages : pages[p] = registry
    BY <2>2, GeneratorsOnce
  <2>4. ManifestOr(manifest) = manifest.proper
    BY <2>1 DEF ManifestOr, Valid
  <2>5. Generators[4] = "departments" /\ Generators[7] = "prompts" /\ Generators[8] = "docs"
    BY DEF Generators
  <2>6. /\ DepartmentFiles(manifest.proper) \subseteq packages
        /\ PromptFiles(registry) \subseteq packages /\ DocFiles(registry) \subseteq packages
    BY <2>2, <2>4, <2>5 DEF Rendered
  <2>7. Of("prompts", registry) \subseteq PromptFiles(registry)
        /\ Of("docs", registry) \subseteq DocFiles(registry)
    BY DEF Of, PromptFiles, DocFiles
  <2> QED
    BY <2>1, <2>3, <2>6, <2>7
<1>2. BuildInv => BuildIsWhole
  BY <1>1 DEF BuildIsWhole
<1> QED
  BY <1>2, BuildInvariant, PTL

------------------------------------------------------------------------------
(***************************************************************************)
(* The files and the audit trail.                                          *)
(***************************************************************************)
Done(c) == call[c].op \in Editing /\ call[c].at = "done"

\* The departments that must be in the registry, and those that must not, whatever call is on
\* its way: a call that has saved it decides, and otherwise the trail.
OnFile ==
  {d \in Depts :
     \/ \E c \in Callers : Late(c) /\ call[c].on = d /\ call[c].op = "add"
     \/ told[d] # "removed" /\ d \notin halfway /\ \A c \in Callers : Late(c) => call[c].on # d}
OffFile ==
  {d \in Depts :
     \/ \E c \in Callers : Late(c) /\ call[c].on = d /\ call[c].op = "remove"
     \/ told[d] = "removed" /\ d \notin halfway /\ \A c \in Callers : Late(c) => call[c].on # d}

\* The same for the strings on the manifest's list.
OnList ==
  {d \in Depts :
     \/ \E c \in Callers : Done(c) /\ call[c].on = d /\ call[c].op = "add"
     \/ told[d] = "added" /\ d \notin halfway /\ \A c \in Callers : Done(c) => call[c].on # d}
OffList ==
  {d \in Depts :
     \/ \E c \in Callers : Done(c) /\ call[c].on = d /\ call[c].op = "remove"
     \/ told[d] # "added" /\ d \notin halfway /\ \A c \in Callers : Done(c) => call[c].on # d}

FileTells(r) == OnFile \subseteq r /\ OffFile \cap r = {}
ListTells(m) ==
  m.listed /\ m.proper = Founded /\ OnList \subseteq m.bare /\ OffList \cap m.bare = {}

\* One call at a department, one between the load and the save of each file.
Alone ==
  /\ \A c, k \in Callers :
       call[c].op \in Editing /\ call[k].op \in Editing /\ call[c].on = call[k].on => c = k
  /\ \A c, k \in Callers :
       call[c].at \in {"open", "close"} /\ call[k].at \in {"open", "close"} => c = k
  /\ \A c, k \in Callers :
       call[c].at \in {"reopen", "reclose"} /\ call[k].at \in {"reopen", "reclose"} => c = k

\* While a file is cut the call that has cut it holds what was in it.
FileInv ==
  /\ ~ Between({"close"}) => FileTells(registry)
  /\ \A c \in Callers : call[c].at = "close" => FileTells(call[c].has)
  /\ \A c \in Callers : call[c].at = "open" => call[c].has = registry
ListInv ==
  /\ ~ Between({"reclose"}) => ListTells(manifest)
  /\ \A c \in Callers : call[c].at = "reclose" => ListTells(call[c].manifest)
  /\ \A c \in Callers : call[c].at = "reopen" => call[c].manifest = manifest

TrailInv == apart => Alone /\ FileInv /\ ListInv

\* What the files must tell does not change as long as no call saves or is answered.
LEMMA FileSteady ==
  ASSUME NEW c \in Callers, Others(c), UNCHANGED <<told, halfway>>, Late(c)' <=> Late(c),
         Late(c) => call'[c].op = call[c].op /\ call'[c].on = call[c].on
  PROVE  OnFile' = OnFile /\ OffFile' = OffFile
<1>1. ASSUME NEW k \in Callers
      PROVE  /\ Late(k)' <=> Late(k)
             /\ Late(k) => call'[k].op = call[k].op /\ call'[k].on = call[k].on
  BY DEF Others, Late
<1> QED
  BY <1>1 DEF OnFile, OffFile

LEMMA ListSteady ==
  ASSUME NEW c \in Callers, Others(c), UNCHANGED <<told, halfway>>, Done(c)' <=> Done(c),
         Done(c) => call'[c].op = call[c].op /\ call'[c].on = call[c].on
  PROVE  OnList' = OnList /\ OffList' = OffList
<1>1. ASSUME NEW k \in Callers
      PROVE  /\ Done(k)' <=> Done(k)
             /\ Done(k) => call'[k].op = call[k].op /\ call'[k].on = call[k].on
  BY DEF Others, Done
<1> QED
  BY <1>1 DEF OnList, OffList

\* A call that has saved a file decides for its department.
LEMMA FileDecided ==
  ASSUME Alone', NEW c \in Callers, Others(c), UNCHANGED <<told, halfway>>, Late(c)', ~ Late(c)
  PROVE  LET d == call'[c].on
         IN  /\ OnFile' \ {d} \subseteq OnFile /\ OffFile' \ {d} \subseteq OffFile
             /\ d \in OnFile' => call'[c].op = "add"
             /\ d \in OffFile' => call'[c].op = "remove"
<1>1. ASSUME NEW k \in Callers, k # c
      PROVE  /\ Late(k)' <=> Late(k)
             /\ call'[k].op = call[k].op /\ call'[k].on = call[k].on
             /\ Late(k)' => call'[k].on # call'[c].on
  BY <1>1 DEF Others, Late, Alone
<1> QED
  BY <1>1 DEF OnFile, OffFile

LEMMA ListDecided ==
  ASSUME Alone', NEW c \in Callers, Others(c), UNCHANGED <<told, halfway>>, Done(c)', ~ Done(c)
  PROVE  LET d == call'[c].on
         IN  /\ OnList' \ {d} \subseteq OnList /\ OffList' \ {d} \subseteq OffList
             /\ d \in OnList' => call'[c].op = "add"
             /\ d \in OffList' => call'[c].op = "remove"
<1>1. ASSUME NEW k \in Callers, k # c
      PROVE  /\ Done(k)' <=> Done(k)
             /\ call'[k].op = call[k].op /\ call'[k].on = call[k].on
             /\ Done(k)' => call'[k].on # call'[c].on
  BY <1>1 DEF Others, Done, Alone
<1> QED
  BY <1>1 DEF OnList, OffList

\* No second call comes to a department, nor between the load and the save of a file.
LEMMA AloneKept ==
  ASSUME Alone, NEW c \in Callers, Others(c),
         call'[c].op \in Editing =>
           \/ call'[c].op = call[c].op /\ call'[c].on = call[c].on
           \/ \A k \in Callers : k # c /\ call[k].op \in Editing => call[k].on # call'[c].on,
         call'[c].at \in {"open", "close"} =>
           call[c].at \in {"open", "close"} \/ ~ Between({"open", "close"}),
         call'[c].at \in {"reopen", "reclose"} =>
           call[c].at \in {"reopen", "reclose"} \/ ~ Between({"reopen", "reclose"})
  PROVE  Alone'
<1>1. ASSUME NEW k \in Callers, k # c PROVE call'[k] = call[k]
  BY <1>1 DEF Others
<1>2. ASSUME NEW k \in Callers, NEW l \in Callers,
             call'[k].op \in Editing, call'[l].op \in Editing, call'[k].on = call'[l].on
      PROVE  k = l
  BY <1>1, <1>2 DEF Alone
<1>3. ASSUME NEW k \in Callers, NEW l \in Callers,
             call'[k].at \in {"open", "close"}, call'[l].at \in {"open", "close"}
      PROVE  k = l
  BY <1>1, <1>3 DEF Alone, Between
<1>4. ASSUME NEW k \in Callers, NEW l \in Callers,
             call'[k].at \in {"reopen", "reclose"}, call'[l].at \in {"reopen", "reclose"}
      PROVE  k = l
  BY <1>1, <1>4 DEF Alone, Between
<1> QED
  BY <1>2, <1>3, <1>4 DEF Alone

\* A step that leaves a file alone, and is not one between its load and its save.
LEMMA FileStays ==
  ASSUME FileInv, NEW c \in Callers, Others(c), registry' = registry,
         OnFile' \subseteq OnFile, OffFile' \subseteq OffFile,
         call'[c].at \notin {"open", "close"}, call[c].at # "close"
  PROVE  FileInv'
<1>1. ASSUME NEW k \in Callers, k # c PROVE call'[k] = call[k]
  BY <1>1 DEF Others
<1>2. Between({"close"})' <=> Between({"close"})
  BY <1>1 DEF Between
<1>3. ASSUME NEW r, FileTells(r) PROVE OnFile' \subseteq r /\ OffFile' \cap r = {}
  BY <1>3 DEF FileTells
<1>4. ~ Between({"close"}) => FileTells(registry)'
  <2>1. PICK r : r = registry
    OBVIOUS
  <2> QED
    BY <1>3, <2>1 DEF FileInv, FileTells
<1>5. ASSUME NEW k \in Callers, call'[k].at = "close" PROVE FileTells(call[k].has)'
  <2>1. PICK r : r = call[k].has
    OBVIOUS
  <2>2. k # c /\ call'[k] = call[k]
    BY <1>1, <1>5
  <2> QED
    BY <1>3, <1>5, <2>1, <2>2 DEF FileInv, FileTells
<1>6. ASSUME NEW k \in Callers, call'[k].at = "open" PROVE call'[k].has = registry'
  BY <1>1, <1>6 DEF FileInv
<1> QED
  BY <1>2, <1>4, <1>5, <1>6 DEF FileInv

LEMMA ListStays ==
  ASSUME ListInv, NEW c \in Callers, Others(c), manifest' = manifest,
         OnList' \subseteq OnList, OffList' \subseteq OffList,
         call'[c].at \notin {"reopen", "reclose"}, call[c].at # "reclose"
  PROVE  ListInv'
<1>1. ASSUME NEW k \in Callers, k # c PROVE call'[k] = call[k]
  BY <1>1 DEF Others
<1>2. Between({"reclose"})' <=> Between({"reclose"})
  BY <1>1 DEF Between
<1>3. ASSUME NEW m, ListTells(m)
      PROVE  m.listed /\ m.proper = Founded /\ OnList' \subseteq m.bare /\ OffList' \cap m.bare = {}
  BY <1>3 DEF ListTells
<1>4. ~ Between({"reclose"}) => ListTells(manifest)'
  <2>1. PICK m : m = manifest
    OBVIOUS
  <2> QED
    BY <1>3, <2>1 DEF ListInv, ListTells
<1>5. ASSUME NEW k \in Callers, call'[k].at = "reclose" PROVE ListTells(call[k].manifest)'
  <2>1. PICK m : m = call[k].manifest
    OBVIOUS
  <2>2. k # c /\ call'[k] = call[k]
    BY <1>1, <1>5
  <2> QED
    BY <1>3, <1>5, <2>1, <2>2 DEF ListInv, ListTells
<1>6. ASSUME NEW k \in Callers, call'[k].at = "reopen" PROVE call'[k].manifest = manifest'
  BY <1>1, <1>6 DEF ListInv
<1> QED
  BY <1>2, <1>4, <1>5, <1>6 DEF ListInv

\* Calls that do not write are at none of those points.
LEMMA ReaderPoints ==
  ASSUME NEW w \in CallRecord, Proper(w), w.op \notin Writing
  PROVE  w.at \notin {"open", "close", "reopen", "reclose", "done"}
  BY DEF Proper, PointsOf, CallRecord, Operations, Writing, Reading, Editing

LEMMA ReaderLeaves ==
  ASSUME TypeInv, TypeInv', TrailInv, NEW c \in Callers, Others(c),
         call[c].op \notin Writing, call'[c].op \notin Writing,
         UNCHANGED <<registry, manifest, told, halfway, apart>>
  PROVE  TrailInv'
<1> SUFFICES ASSUME apart PROVE Alone' /\ FileInv' /\ ListInv'
  BY DEF TrailInv
<1>1. call[c].at \notin {"open", "close", "reopen", "reclose", "done"}
  BY ReaderPoints DEF TypeInv, CallsOK
<1>2. call'[c].at \notin {"open", "close", "reopen", "reclose", "done"}
  BY ReaderPoints DEF TypeInv, CallsOK
<1>3. ~ Late(c) /\ ~ Late(c)' /\ ~ Done(c) /\ ~ Done(c)' /\ call'[c].op \notin Editing
  BY DEF Late, Done, Editing, Writing
<1>4. Alone'
  BY <1>1, <1>2, <1>3, AloneKept DEF TrailInv
<1>5. OnFile' = OnFile /\ OffFile' = OffFile /\ OnList' = OnList /\ OffList' = OffList
  BY <1>3, FileSteady, ListSteady
<1> QED
  BY <1>1, <1>2, <1>4, <1>5, FileStays, ListStays DEF TrailInv

\* A string that is put on the list or taken off it.
LEMMA RelistedTells ==
  ASSUME NEW m \in Manifests, m.listed, NEW op \in Editing, NEW d
  PROVE  LET n == Relisted(op, d, m)
         IN  n.listed /\ n.proper = m.proper /\ n.bare = Edited(op, d, m.bare)
  BY DEF Relisted, Manifests, Editing

\* A step that touches neither file and leaves the call at none of those points.
LEMMA StepAside ==
  ASSUME TrailInv, NEW c \in Callers, Others(c), UNCHANGED <<registry, manifest>>, apart' => apart,
         OnFile' \subseteq OnFile, OffFile' \subseteq OffFile,
         OnList' \subseteq OnList, OffList' \subseteq OffList,
         call[c].at \notin {"close", "reclose"},
         call'[c].at \notin {"open", "close", "reopen", "reclose"},
         apart' /\ call'[c].op \in Editing =>
           \/ call'[c].op = call[c].op /\ call'[c].on = call[c].on
           \/ \A k \in Callers : k # c /\ call[k].op \in Editing => call[k].on # call'[c].on
  PROVE  TrailInv'
<1> SUFFICES ASSUME apart, apart' PROVE Alone' /\ FileInv' /\ ListInv'
  BY DEF TrailInv
<1>1. Alone'
  BY AloneKept DEF TrailInv
<1> QED
  BY <1>1, FileStays, ListStays DEF TrailInv

\* A call that has loaded a file, opens it and saves it: the registry.
LEMMA FileLoads ==
  ASSUME TypeInv, TrailInv, apart, apart', NEW c \in Callers, LoadDepartments(c), Moves(c, "open"),
         call'[c].has = registry
  PROVE  TrailInv'
<1>1. /\ Others(c) /\ call[c].at = "begin" /\ call'[c].at = "open"
      /\ call'[c].op = call[c].op /\ call'[c].on = call[c].on
      /\ UNCHANGED <<registry, manifest, told, halfway>> /\ ~ Between({"open", "close"})
  BY DEF LoadDepartments, At, Moves
<1>2. ~ Late(c) /\ ~ Late(c)' /\ ~ Done(c) /\ ~ Done(c)'
  BY <1>1 DEF Late, Done
<1>3. OnFile' = OnFile /\ OffFile' = OffFile /\ OnList' = OnList /\ OffList' = OffList
  BY <1>1, <1>2, FileSteady, ListSteady
<1>4. Alone' /\ ListInv'
  BY <1>1, <1>3, AloneKept, ListStays DEF TrailInv
<1>5. \A k \in Callers : call'[k].at # "close" /\ (call'[k].at = "open" => k = c)
  BY <1>1 DEF Others, Between
<1>6. FileTells(registry)'
  BY <1>1, <1>3 DEF TrailInv, FileInv, FileTells, Between
<1>7. FileInv'
  BY <1>1, <1>5, <1>6 DEF FileInv
<1> QED
  BY <1>4, <1>7 DEF TrailInv

LEMMA FileOpens ==
  ASSUME TypeInv, TrailInv, apart, NEW c \in Callers, OpenDepartments(c)
  PROVE  TrailInv'
<1>1. /\ Others(c) /\ call[c].at = "open" /\ call'[c].at = "close" /\ call'[c].has = call[c].has
      /\ call'[c].op = call[c].op /\ call'[c].on = call[c].on
      /\ UNCHANGED <<manifest, told, halfway, apart>>
  BY OpenDepartmentsDoes DEF OpenDepartments, At, Moves
<1>2. ~ Late(c) /\ ~ Late(c)' /\ ~ Done(c) /\ ~ Done(c)'
  BY <1>1 DEF Late, Done
<1>3. OnFile' = OnFile /\ OffFile' = OffFile /\ OnList' = OnList /\ OffList' = OffList
  BY <1>1, <1>2, FileSteady, ListSteady
<1>4. Alone' /\ ListInv'
  BY <1>1, <1>3, AloneKept, ListStays DEF TrailInv
<1>5. \A k \in Callers : call'[k].at \in {"open", "close"} => k = c
  BY <1>1 DEF Others, TrailInv, Alone
<1>6. call[c].has = registry /\ ~ Between({"close"})
  BY <1>1 DEF TrailInv, FileInv, Alone, Between
<1>7. FileTells(call[c].has)'
  <2>1. PICK r : r = call[c].has
    OBVIOUS
  <2>2. FileTells(r)
    BY <1>6, <2>1 DEF TrailInv, FileInv
  <2>3. OnFile' \subseteq r /\ OffFile' \cap r = {}
    BY <1>3, <2>2 DEF FileTells
  <2> QED
    BY <1>1, <2>1, <2>3 DEF FileTells
<1>8. Between({"close"})'
  BY <1>1 DEF Between
<1>9. FileInv'
  BY <1>1, <1>5, <1>7, <1>8 DEF FileInv
<1> QED
  BY <1>4, <1>9 DEF TrailInv

LEMMA FileCloses ==
  ASSUME TypeInv, TrailInv, apart, NEW c \in Callers, CloseDepartments(c)
  PROVE  TrailInv'
<1>1. /\ Others(c) /\ call[c].at = "close" /\ call'[c].at = "list" /\ call[c].op \in Editing
      /\ call'[c].op = call[c].op /\ call'[c].on = call[c].on
      /\ UNCHANGED <<manifest, told, halfway, apart>>
      /\ registry' = Edited(call[c].op, call[c].on, call[c].has)
  BY CloseDepartmentsDoes DEF CloseDepartments, At, Moves
<1>2. ~ Late(c) /\ Late(c)' /\ ~ Done(c) /\ ~ Done(c)'
  BY <1>1 DEF Late, Done
<1>3. OnList' = OnList /\ OffList' = OffList
  BY <1>1, <1>2, ListSteady
<1>4. Alone' /\ ListInv'
  BY <1>1, <1>3, AloneKept, ListStays DEF TrailInv
<1>5. \A k \in Callers : call'[k].at \notin {"open", "close"}
  BY <1>1 DEF Others, TrailInv, Alone
<1>6. PICK d, op : d = call[c].on /\ op = call[c].op
  OBVIOUS
<1>7. /\ OnFile' \ {d} \subseteq OnFile /\ OffFile' \ {d} \subseteq OffFile
      /\ d \in OnFile' => op = "add"
      /\ d \in OffFile' => op = "remove"
  BY <1>1, <1>2, <1>4, <1>6, FileDecided
<1>8. FileTells(registry)'
  <2>1. PICK r : r = call[c].has
    OBVIOUS
  <2>2. OnFile \subseteq r /\ OffFile \cap r = {}
    BY <1>1, <2>1 DEF TrailInv, FileInv, FileTells
  <2>3. OnFile' \subseteq Edited(op, d, r) /\ OffFile' \cap Edited(op, d, r) = {}
    BY <1>1, <1>6, <1>7, <2>2 DEF Edited, Editing
  <2> QED
    BY <1>1, <1>6, <2>1, <2>3 DEF FileTells
<1>9. FileInv'
  BY <1>5, <1>8 DEF FileInv
<1> QED
  BY <1>4, <1>9 DEF TrailInv

\* The manifest.  One that needs no change is as good as saved.
LEMMA ListLoads ==
  ASSUME TypeInv, TrailInv, apart, apart', NEW c \in Callers, LoadManifest(c)
  PROVE  TrailInv'
<1> DEFINE at == IF Relisted(call[c].op, call[c].on, manifest) = manifest THEN "done" ELSE "reopen"
<1>1. /\ Others(c) /\ call[c].at = "list" /\ call'[c].at = at /\ call[c].op \in Writing
      /\ call'[c].op = call[c].op /\ call'[c].on = call[c].on /\ call'[c].manifest = manifest
      /\ UNCHANGED <<registry, manifest, told, halfway>> /\ ~ Between({"reopen", "reclose"})
  BY LoadManifestDoes DEF LoadManifest, At, Moves
<1> HIDE DEF at
<1>2. at \in {"done", "reopen"}
  BY DEF at
<1>3. (Late(c)' <=> Late(c)) /\ ~ Done(c)
  BY <1>1, <1>2 DEF Late, Done
<1>4. OnFile' = OnFile /\ OffFile' = OffFile
  BY <1>1, <1>3, FileSteady
<1>5. Alone' /\ FileInv'
  BY <1>1, <1>2, <1>4, AloneKept, FileStays DEF TrailInv
<1>6. \A k \in Callers : call'[k].at # "reclose" /\ (call'[k].at = "reopen" => k = c)
  BY <1>1, <1>2 DEF Others, Between
<1>7. PICK m : m = manifest
  OBVIOUS
<1>8. m.listed /\ m.proper = Founded /\ OnList \subseteq m.bare /\ OffList \cap m.bare = {}
  BY <1>1, <1>7 DEF TrailInv, ListInv, ListTells, Between
<1>9. ListTells(manifest)'
  <2>1. CASE ~ Done(c)'
    <3>1. OnList' = OnList /\ OffList' = OffList
      BY <1>1, <1>3, <2>1, ListSteady
    <3> QED
      BY <1>1, <1>7, <1>8, <3>1 DEF ListTells
  <2>2. CASE Done(c)'
    <3>1. PICK d, op : d = call[c].on /\ op = call[c].op
      OBVIOUS
    <3>2. op \in Editing /\ at = "done"
      BY <1>1, <2>2, <3>1 DEF Done
    <3>3. /\ OnList' \ {d} \subseteq OnList /\ OffList' \ {d} \subseteq OffList
          /\ d \in OnList' => op = "add"
          /\ d \in OffList' => op = "remove"
      BY <1>1, <1>3, <1>5, <2>2, <3>1, ListDecided
    <3>4. m = Relisted(op, d, m) /\ m \in Manifests
      BY <1>7, <3>1, <3>2 DEF at, TypeInv, CompanyTypeOK, Manifests
    <3>5. m.bare = Edited(op, d, m.bare)
      BY <1>8, <3>2, <3>4, RelistedTells
    <3>6. OnList' \subseteq m.bare /\ OffList' \cap m.bare = {}
      BY <1>8, <3>2, <3>3, <3>5 DEF Edited, Editing
    <3> QED
      BY <1>1, <1>7, <1>8, <3>6 DEF ListTells
  <2> QED
    BY <2>1, <2>2
<1>10. ListInv'
  BY <1>1, <1>6, <1>9 DEF ListInv
<1> QED
  BY <1>5, <1>10 DEF TrailInv

LEMMA ListOpens ==
  ASSUME TypeInv, TrailInv, apart, NEW c \in Callers, OpenManifest(c)
  PROVE  TrailInv'
<1>1. /\ Others(c) /\ call[c].at = "reopen" /\ call'[c].at = "reclose"
      /\ call'[c].manifest = call[c].manifest
      /\ call'[c].op = call[c].op /\ call'[c].on = call[c].on
      /\ UNCHANGED <<registry, told, halfway, apart>>
  BY OpenManifestDoes DEF OpenManifest, At, Moves
<1>2. (Late(c)' <=> Late(c)) /\ ~ Done(c) /\ ~ Done(c)'
  BY <1>1 DEF Late, Done
<1>3. OnFile' = OnFile /\ OffFile' = OffFile /\ OnList' = OnList /\ OffList' = OffList
  BY <1>1, <1>2, FileSteady, ListSteady
<1>4. Alone' /\ FileInv'
  BY <1>1, <1>3, AloneKept, FileStays DEF TrailInv
<1>5. \A k \in Callers : call'[k].at \in {"reopen", "reclose"} => k = c
  BY <1>1 DEF Others, TrailInv, Alone
<1>6. call[c].manifest = manifest /\ ~ Between({"reclose"})
  BY <1>1 DEF TrailInv, ListInv, Alone, Between
<1>7. ListTells(call[c].manifest)'
  <2>1. PICK m : m = call[c].manifest
    OBVIOUS
  <2>2. ListTells(m)
    BY <1>6, <2>1 DEF TrailInv, ListInv
  <2>3. m.listed /\ m.proper = Founded /\ OnList' \subseteq m.bare /\ OffList' \cap m.bare = {}
    BY <1>3, <2>2 DEF ListTells
  <2> QED
    BY <1>1, <2>1, <2>3 DEF ListTells
<1>8. Between({"reclose"})'
  BY <1>1 DEF Between
<1>9. ListInv'
  BY <1>1, <1>5, <1>7, <1>8 DEF ListInv
<1> QED
  BY <1>4, <1>9 DEF TrailInv

LEMMA ListCloses ==
  ASSUME TypeInv, TrailInv, apart, NEW c \in Callers, CloseManifest(c)
  PROVE  TrailInv'
<1>1. /\ Others(c) /\ call[c].at = "reclose" /\ call'[c].at = "done" /\ call[c].op \in Writing
      /\ call'[c].op = call[c].op /\ call'[c].on = call[c].on
      /\ UNCHANGED <<registry, told, halfway, apart>>
      /\ manifest' = Relisted(call[c].op, call[c].on, call[c].manifest)
  BY CloseManifestDoes DEF CloseManifest, At, Moves
<1>2. (Late(c)' <=> Late(c)) /\ ~ Done(c)
  BY <1>1 DEF Late, Done
<1>3. OnFile' = OnFile /\ OffFile' = OffFile
  BY <1>1, <1>2, FileSteady
<1>4. Alone' /\ FileInv'
  BY <1>1, <1>3, AloneKept, FileStays DEF TrailInv
<1>5. \A k \in Callers : call'[k].at \notin {"reopen", "reclose"}
  BY <1>1 DEF Others, TrailInv, Alone
<1>6. PICK d, op, m : d = call[c].on /\ op = call[c].op /\ m = call[c].manifest
  OBVIOUS
<1>7. /\ m.listed /\ m.proper = Founded /\ OnList \subseteq m.bare /\ OffList \cap m.bare = {}
      /\ m \in Manifests
  BY <1>1, <1>6 DEF TrailInv, ListInv, ListTells, TypeInv, CallsOK, CallRecord
<1>8. ListTells(manifest)'
  <2>1. CASE op = "rename"
    <3>1. OnList' = OnList /\ OffList' = OffList
      BY <1>1, <1>2, <1>6, <2>1, ListSteady DEF Done, Editing
    <3>2. LET n == [m EXCEPT !.name = d]
          IN  n.listed = m.listed /\ n.proper = m.proper /\ n.bare = m.bare
      BY <1>7 DEF Manifests
    <3> QED
      BY <1>1, <1>6, <1>7, <2>1, <3>1, <3>2 DEF ListTells, Relisted
  <2>2. CASE op \in Editing
    <3>1. /\ OnList' \ {d} \subseteq OnList /\ OffList' \ {d} \subseteq OffList
          /\ d \in OnList' => op = "add"
          /\ d \in OffList' => op = "remove"
      BY <1>1, <1>2, <1>4, <1>6, <2>2, ListDecided DEF Done
    <3>2. PICK n : n = Relisted(op, d, m)
      OBVIOUS
    <3>3. n.listed /\ n.proper = m.proper /\ n.bare = Edited(op, d, m.bare)
      BY <1>7, <2>2, <3>2, RelistedTells
    <3>4. OnList' \subseteq n.bare /\ OffList' \cap n.bare = {}
      BY <1>7, <2>2, <3>1, <3>3 DEF Edited, Editing
    <3> QED
      BY <1>1, <1>6, <1>7, <3>2, <3>3, <3>4 DEF ListTells
  <2> QED
    BY <1>1, <1>6, <2>1, <2>2 DEF Writing, Editing
<1>9. ListInv'
  BY <1>5, <1>8 DEF ListInv
<1> QED
  BY <1>4, <1>9 DEF TrailInv

\* The answer of a call says what the call has made of the files.
LEMMA Answered ==
  ASSUME TypeInv, TrailInv, apart, NEW c \in Callers, Answer(c)
  PROVE  /\ OnFile' \subseteq OnFile /\ OffFile' \subseteq OffFile
         /\ OnList' \subseteq OnList /\ OffList' \subseteq OffList
<1>1. Others(c) /\ call'[c] = Idle /\ call[c].at = "done" /\ call[c].op \in Writing
  BY OthersFinish DEF Answer, At, Finishes
<1>2. ~ Late(c)' /\ ~ Done(c)'
  BY <1>1 DEF Late, Done, Idle
<1>3. CASE call[c].op = "rename"
  <2>1. ~ Late(c) /\ ~ Done(c) /\ UNCHANGED <<told, halfway>>
    BY <1>3 DEF Answer, Late, Done, Editing
  <2> QED
    BY <1>1, <1>2, <2>1, FileSteady, ListSteady
<1>4. CASE call[c].op \in Editing
  <2>1. PICK d, op : d = call[c].on /\ op = call[c].op
    OBVIOUS
  <2>2. /\ d \in Depts /\ halfway' = halfway \ {d} /\ Late(c) /\ Done(c)
        /\ told' = [told EXCEPT ![d] = IF op = "add" THEN "added" ELSE "removed"]
    BY <1>1, <1>4, <2>1 DEF Answer, Late, Done, Editing, TypeInv, CallsOK, Proper
  <2>3. /\ told'[d] = IF op = "add" THEN "added" ELSE "removed"
        /\ \A e \in Depts : e # d => told'[e] = told[e] /\ (e \in halfway' <=> e \in halfway)
    BY <2>2 DEF TypeInv, CompanyTypeOK
  <2>4. ASSUME NEW k \in Callers, k # c
        PROVE  /\ Late(k)' <=> Late(k)
               /\ Done(k)' <=> Done(k)
               /\ call'[k] = call[k]
               /\ Late(k) \/ Done(k) => call[k].on # d
    BY <1>1, <1>4, <2>1, <2>4 DEF Others, Late, Done, TrailInv, Alone
  <2>5. ASSUME NEW e \in OnFile' PROVE e \in OnFile
    BY <1>2, <1>4, <2>1, <2>2, <2>3, <2>4, <2>5 DEF OnFile, Editing
  <2>6. ASSUME NEW e \in OffFile' PROVE e \in OffFile
    BY <1>2, <1>4, <2>1, <2>2, <2>3, <2>4, <2>6 DEF OffFile, Editing
  <2>7. ASSUME NEW e \in OnList' PROVE e \in OnList
    BY <1>2, <1>4, <2>1, <2>2, <2>3, <2>4, <2>7 DEF OnList, Editing
  <2>8. ASSUME NEW e \in OffList' PROVE e \in OffList
    BY <1>2, <1>4, <2>1, <2>2, <2>3, <2>4, <2>8 DEF OffList, Editing
  <2> QED
    BY <2>5, <2>6, <2>7, <2>8
<1> QED
  BY <1>1, <1>3, <1>4 DEF Writing, Editing

\* A department whose change is broken off is halfway.
LEMMA BrokenOff ==
  ASSUME TypeInv, NEW broken \in SUBSET Callers, \A k \in broken : ~ Late(k)' /\ ~ Done(k)',
         \A k \in Callers \ broken : call'[k] = call[k], told' = told,
         halfway' = halfway \cup {call[k].on : k \in {l \in broken : Late(l)}}
  PROVE  /\ OnFile' \subseteq OnFile /\ OffFile' \subseteq OffFile
         /\ OnList' \subseteq OnList /\ OffList' \subseteq OffList
<1>1. ASSUME NEW k \in Callers
      PROVE  /\ Late(k)' => Late(k) /\ call'[k] = call[k]
             /\ Done(k)' => Done(k) /\ call'[k] = call[k]
             /\ Late(k) /\ ~ Late(k)' => call[k].on \in halfway'
             /\ Late(k)' <=> Late(k) /\ k \notin broken
             /\ Done(k)' <=> Done(k) /\ k \notin broken
             /\ Done(k) => Late(k)
  BY DEF Late, Done
<1>2. halfway \subseteq halfway'
  OBVIOUS
<1>3. \A d \in Depts \ halfway' : \A k \in Callers : Late(k) /\ call[k].on = d => Late(k)'
  BY <1>1
<1>4. \A d \in Depts \ halfway' : \A k \in Callers : Done(k) /\ call[k].on = d => Done(k)'
  BY <1>1, <1>3
<1>5. ASSUME NEW e \in OnFile' PROVE e \in OnFile
  BY <1>1, <1>2, <1>3, <1>5 DEF OnFile
<1>6. ASSUME NEW e \in OffFile' PROVE e \in OffFile
  BY <1>1, <1>2, <1>3, <1>6 DEF OffFile
<1>7. ASSUME NEW e \in OnList' PROVE e \in OnList
  BY <1>1, <1>2, <1>4, <1>7 DEF OnList
<1>8. ASSUME NEW e \in OffList' PROVE e \in OffList
  BY <1>1, <1>2, <1>4, <1>8 DEF OffList
<1> QED
  BY <1>5, <1>6, <1>7, <1>8

LEMMA TrailKept ==
  ASSUME TypeInv, TypeInv', TrailInv, [Next]_vars
  PROVE  TrailInv'
<1>1. ASSUME NEW c \in Callers, NEW op, NEW x, Askable(op, x), Ask(c, op, x) PROVE TrailInv'
  <2>1. /\ Others(c) /\ call[c].op = "none" /\ call'[c].op = op /\ call'[c].on = x
        /\ call'[c].at = IF op = "rename" THEN "list" ELSE "begin"
    BY <1>1, AskDoes
  <2>2. /\ UNCHANGED <<registry, manifest, told, halfway>> /\ (apart' => apart)
        /\ apart' /\ op \in Editing =>
             \A k \in Callers : call[k].op \in Editing => call[k].on # x
    BY <1>1 DEF Ask
  <2>3. call[c].at \notin {"close", "reclose"}
    BY <2>1, ReaderPoints DEF TypeInv, CallsOK, Writing
  <2>4. ~ Late(c) /\ ~ Late(c)' /\ ~ Done(c) /\ ~ Done(c)'
    BY <2>1 DEF Late, Done, Editing
  <2>5. OnFile' = OnFile /\ OffFile' = OffFile /\ OnList' = OnList /\ OffList' = OffList
    BY <2>1, <2>2, <2>4, FileSteady, ListSteady
  <2>6. call'[c].at \notin {"open", "close", "reopen", "reclose"}
    BY <2>1
  <2> QED
    BY <2>1, <2>2, <2>3, <2>5, <2>6, StepAside
<1>2. ASSUME NEW c \in Callers, LoadDepartments(c) PROVE TrailInv'
  <2>1. /\ UNCHANGED <<registry, manifest, told, halfway>> /\ (apart' => apart)
        /\ call[c].at = "begin"
    BY <1>2 DEF LoadDepartments, At
  <2>2. CASE Finishes(c)
    <3>1. Others(c) /\ call'[c] = Idle
      BY <2>2 DEF Finishes
    <3>2. ~ Late(c) /\ ~ Late(c)' /\ ~ Done(c) /\ ~ Done(c)'
      BY <2>1, <3>1 DEF Late, Done, Idle
    <3>3. OnFile' = OnFile /\ OffFile' = OffFile /\ OnList' = OnList /\ OffList' = OffList
      BY <2>1, <3>1, <3>2, FileSteady, ListSteady
    <3>4. call'[c].at = "idle" /\ call'[c].op \notin Editing
      BY <3>1 DEF Idle, Editing
    <3> QED
      BY <2>1, <3>1, <3>3, <3>4, StepAside
  <2>3. CASE Moves(c, "open") /\ call'[c].has = registry
    BY <1>2, <2>1, <2>3, FileLoads DEF TrailInv
  <2> QED
    BY <1>2, <2>2, <2>3, LoadDepartmentsDoes
<1>3. ASSUME NEW c \in Callers, OpenDepartments(c) PROVE TrailInv'
  BY <1>3, FileOpens DEF TrailInv, OpenDepartments
<1>4. ASSUME NEW c \in Callers, CloseDepartments(c) PROVE TrailInv'
  BY <1>4, FileCloses DEF TrailInv, CloseDepartments
<1>5. ASSUME NEW c \in Callers, LoadManifest(c) PROVE TrailInv'
  BY <1>5, ListLoads DEF TrailInv, LoadManifest
<1>6. ASSUME NEW c \in Callers, OpenManifest(c) PROVE TrailInv'
  BY <1>6, ListOpens DEF TrailInv, OpenManifest
<1>7. ASSUME NEW c \in Callers, CloseManifest(c) PROVE TrailInv'
  BY <1>7, ListCloses DEF TrailInv, CloseManifest
<1>8. ASSUME NEW c \in Callers, Answer(c) PROVE TrailInv'
  <2>1. /\ Others(c) /\ call'[c] = Idle /\ call[c].at = "done"
        /\ UNCHANGED <<registry, manifest, apart>>
    BY <1>8, OthersFinish DEF Answer, At, Finishes
  <2>2. call'[c].at = "idle" /\ call'[c].op \notin Editing
    BY <2>1 DEF Idle, Editing
  <2>3. apart => /\ OnFile' \subseteq OnFile /\ OffFile' \subseteq OffFile
                 /\ OnList' \subseteq OnList /\ OffList' \subseteq OffList
    BY <1>8, Answered
  <2>4. CASE apart
    BY <2>1, <2>2, <2>3, <2>4, StepAside
  <2>5. CASE ~ apart
    BY <2>1, <2>5 DEF TrailInv
  <2> QED
    BY <2>4, <2>5
<1>9. ASSUME NEW c \in Callers, SaveFails(c) PROVE TrailInv'
  <2>1. /\ Others(c) /\ call'[c] = Idle /\ call[c].at \in {"open", "reopen"}
        /\ UNCHANGED <<registry, manifest, told, apart>>
    BY <1>9, OthersFinish DEF SaveFails, At, Finishes
  <2>2. call'[c].at = "idle" /\ call'[c].op \notin Editing /\ ~ Late(c)' /\ ~ Done(c)'
    BY <2>1 DEF Idle, Editing, Late, Done
  <2>3. /\ OnFile' \subseteq OnFile /\ OffFile' \subseteq OffFile
        /\ OnList' \subseteq OnList /\ OffList' \subseteq OffList
    <3>1. PICK broken : broken = {c}
      OBVIOUS
    <3>2. halfway' = halfway \cup {call[k].on : k \in {l \in broken : Late(l)}}
      BY <1>9, <3>1 DEF SaveFails
    <3>3. broken \in SUBSET Callers /\ \A k \in Callers \ broken : call'[k] = call[k]
      BY <2>1, <3>1 DEF Others
    <3>4. \A k \in broken : ~ Late(k)' /\ ~ Done(k)'
      BY <2>2, <3>1
    <3> QED
      BY <2>1, <3>2, <3>3, <3>4, BrokenOff
  <2> QED
    BY <2>1, <2>2, <2>3, StepAside
<1>10. ASSUME NEW c \in Callers, BootstrapManifest(c) PROVE TrailInv'
  <2>1. Others(c) /\ call[c].op \notin Writing /\ call'[c].op \notin Writing
    BY <1>10, BootstrapManifestDoes DEF BootstrapManifest, At, Writing, Finishes, Moves, Idle
  <2>2. UNCHANGED <<registry, manifest, told, halfway, apart>>
    BY <1>10 DEF BootstrapManifest
  <2> QED
    BY <2>1, <2>2, ReaderLeaves
<1>11. ASSUME NEW c \in Callers, Bootstrap(c) PROVE TrailInv'
  <2>1. Others(c) /\ call[c].op \notin Writing /\ call'[c].op \notin Writing
    <3>1. Finishes(c) \/ Moves(c, "registry")
      BY <1>11, BootstrapDoes
    <3> QED
      BY <1>11, <3>1 DEF Bootstrap, At, Writing, Finishes, Moves, Idle
  <2>2. UNCHANGED <<registry, manifest, told, halfway, apart>>
    BY <1>11 DEF Bootstrap
  <2> QED
    BY <2>1, <2>2, ReaderLeaves
<1>12. ASSUME NEW c \in Callers, LoadRegistry(c) PROVE TrailInv'
  <2>1. Others(c) /\ call[c].op \notin Writing /\ call'[c].op \notin Writing
    BY <1>12, LoadRegistryDoes DEF LoadRegistry, At, Writing, Finishes, Moves, Idle
  <2>2. UNCHANGED <<registry, manifest, told, halfway, apart>>
    BY <1>12 DEF LoadRegistry
  <2> QED
    BY <2>1, <2>2, ReaderLeaves
<1>13. ASSUME NEW c \in Callers, LoadManifestAgain(c) PROVE TrailInv'
  <2>1. Others(c) /\ call[c].op \notin Writing /\ call'[c].op \notin Writing
    <3>1. Others(c) /\ call'[c].op = call[c].op
      BY <1>13, LoadManifestAgainDoes DEF Moves
    <3>2. call[c].op = "build"
      BY <1>13 DEF LoadManifestAgain, At
    <3> QED
      BY <3>1, <3>2 DEF Writing
  <2>2. UNCHANGED <<registry, manifest, told, halfway, apart>>
    BY <1>13 DEF LoadManifestAgain
  <2> QED
    BY <2>1, <2>2, ReaderLeaves
<1>14. ASSUME NEW c \in Callers, Generate(c) PROVE TrailInv'
  <2>1. Others(c) /\ call[c].op \notin Writing /\ call'[c].op \notin Writing
    BY <1>14, GenerateDoes DEF Generate, At, Writing, Finishes, Moves, Idle
  <2>2. UNCHANGED <<registry, manifest, told, halfway, apart>>
    BY <1>14 DEF Generate
  <2> QED
    BY <2>1, <2>2, ReaderLeaves
<1>15. ASSUME NEW c \in Callers, Export(c) PROVE TrailInv'
  <2>1. Others(c) /\ call[c].op \notin Writing /\ call'[c].op \notin Writing
    BY <1>15, ExportDoes DEF Export, At, Writing, Finishes, Moves, Idle
  <2>2. UNCHANGED <<registry, manifest, told, halfway, apart>>
    BY <1>15 DEF Export
  <2> QED
    BY <2>1, <2>2, ReaderLeaves
<1>16. ASSUME NEW c \in Callers, Report(c) PROVE TrailInv'
  <2>1. Others(c) /\ call[c].op \notin Writing /\ call'[c].op \notin Writing
    BY <1>16, OthersFinish DEF Report, At, Writing, Finishes, Moves, Idle
  <2>2. UNCHANGED <<registry, manifest, told, halfway, apart>>
    BY <1>16 DEF Report
  <2> QED
    BY <2>1, <2>2, ReaderLeaves
<1>17. ASSUME NEW c \in Callers, GenerateFails(c) PROVE TrailInv'
  <2>1. Others(c) /\ call[c].op \notin Writing /\ call'[c].op \notin Writing
    BY <1>17, OthersFinish DEF GenerateFails, At, Writing, Finishes, Moves, Idle
  <2>2. UNCHANGED <<registry, manifest, told, halfway, apart>>
    BY <1>17 DEF GenerateFails
  <2> QED
    BY <2>1, <2>2, ReaderLeaves
<1>18. ASSUME NEW c \in Callers, ValidateManifest(c) PROVE TrailInv'
  <2>1. Others(c) /\ call[c].op \notin Writing /\ call'[c].op \notin Writing
    BY <1>18, ValidateManifestDoes DEF ValidateManifest, At, Writing, Finishes, Moves, Idle
  <2>2. UNCHANGED <<registry, manifest, told, halfway, apart>>
    BY <1>18 DEF ValidateManifest
  <2> QED
    BY <2>1, <2>2, ReaderLeaves
<1>19. ASSUME NEW c \in Callers, ValidateOutput(c) PROVE TrailInv'
  <2>1. Others(c) /\ call[c].op \notin Writing /\ call'[c].op \notin Writing
    BY <1>19, OthersFinish DEF ValidateOutput, At, Writing, Finishes, Moves, Idle
  <2>2. UNCHANGED <<registry, manifest, told, halfway, apart>>
    BY <1>19 DEF ValidateOutput
  <2> QED
    BY <2>1, <2>2, ReaderLeaves
<1>20. CASE End
  <2> SUFFICES ASSUME apart, apart' PROVE Alone' /\ FileInv' /\ ListInv'
    BY <1>20 DEF End, TrailInv
  <2>1. \A k \in Callers : call'[k].op = "none" /\ call'[k].at = "idle"
    BY <1>20 DEF End, Idle
  <2>2. /\ UNCHANGED <<registry, manifest, told>> /\ ~ Between({"close", "reclose"})
        /\ halfway' = halfway \cup {call[k].on : k \in {l \in Callers : Late(l)}}
    BY <1>20 DEF End
  <2>3. \A k \in Callers : ~ Late(k)' /\ ~ Done(k)'
    BY <2>1 DEF Late, Done, Editing
  <2>4. /\ OnFile' \subseteq OnFile /\ OffFile' \subseteq OffFile
        /\ OnList' \subseteq OnList /\ OffList' \subseteq OffList
    <3>1. PICK broken : broken = Callers
      OBVIOUS
    <3>2. \A k \in Callers \ broken : call'[k] = call[k]
      BY <3>1
    <3> QED
      BY <2>2, <2>3, <3>1, <3>2, BrokenOff
  <2>5. FileTells(registry) /\ ListTells(manifest)
    BY <2>2 DEF TrailInv, FileInv, ListInv, Between
  <2>6. FileTells(registry)' /\ ListTells(manifest)'
    BY <2>2, <2>4, <2>5 DEF FileTells, ListTells
  <2>7. Alone'
    BY <2>1 DEF Alone, Editing
  <2> QED
    BY <2>1, <2>6, <2>7 DEF FileInv, ListInv
<1>21. CASE UNCHANGED vars
  BY <1>21 DEF vars, TrailInv, Alone, FileInv, ListInv, FileTells, ListTells, OnFile, OffFile,
     OnList, OffList, Late, Done, Between
<1> QED
  BY <1>1, <1>2, <1>3, <1>4, <1>5, <1>6, <1>7, <1>8, <1>9, <1>10, <1>11, <1>12, <1>13, <1>14,
     <1>15, <1>16, <1>17, <1>18, <1>19, <1>20, <1>21, AskIsAskable DEF Next

\* The files tell of each department what the audit trail tells of it, however calls and their
\* two saves interleave: unless a call is at the department or was broken off at it between its
\* saves, unless two calls met between the load and the save of one file or at one department,
\* and except that a founded department which is removed stays on the manifest, as a mapping
\* (company_department_add, _remove and company_manifest_update, with the audit after them).
THEOREM TrailIsTrue == Spec => []TrailTellsFiles
<1>1. Init => TrailInv
  <2> SUFFICES ASSUME Init PROVE Alone /\ FileInv /\ ListInv
    BY DEF TrailInv
  <2>1. \A c \in Callers : call[c].op = "none" /\ call[c].at = "idle"
    BY DEF Init, Idle
  <2>2. /\ OnFile \subseteq Founded /\ OffFile \cap Founded = {}
        /\ OnList = {}
    BY <2>1, CompanyAssumption DEF Init, OnFile, OffFile, OnList, Late, Done, Editing
  <2>3. registry = Founded
    BY DEF Init
  <2>4. manifest.listed /\ manifest.proper = Founded /\ manifest.bare = {}
    BY DEF Init
  <2>5. FileTells(registry) /\ ListTells(manifest)
    BY <2>2, <2>3, <2>4 DEF FileTells, ListTells
  <2>6. Alone
    BY <2>1 DEF Alone, Editing
  <2> QED
    BY <2>1, <2>5, <2>6 DEF FileInv, ListInv
<1>2. TypeInv /\ TypeInv' /\ TrailInv /\ [Next]_vars => TrailInv'
  BY TrailKept
<1>3. TypeInv /\ TrailInv => TrailTellsFiles
  <2> SUFFICES ASSUME TypeInv, TrailInv, apart, NEW d \in Depts \ halfway, ~ InFlight(d)
               PROVE  /\ ~ Between({"close"}) => (d \in registry <=> told[d] # "removed")
                      /\ ~ Between({"reclose"}) =>
                           /\ manifest.listed
                           /\ d \in manifest.bare <=> told[d] = "added"
                           /\ d \in manifest.proper <=> d \in Founded
    BY DEF TrailTellsFiles
  <2>1. \A c \in Callers : (Late(c) => call[c].on # d) /\ (Done(c) => call[c].on # d)
    BY DEF InFlight, Late, Done
  <2>2. told[d] # "removed" => d \in OnFile
    BY <2>1 DEF OnFile
  <2>3. told[d] = "removed" => d \in OffFile
    BY <2>1 DEF OffFile
  <2>4. told[d] = "added" => d \in OnList
    BY <2>1 DEF OnList
  <2>5. told[d] # "added" => d \in OffList
    BY <2>1 DEF OffList
  <2>6. ~ Between({"close"}) => FileTells(registry)
    BY DEF TrailInv, FileInv
  <2>7. ~ Between({"reclose"}) => ListTells(manifest)
    BY DEF TrailInv, ListInv
  <2> QED
    BY <2>2, <2>3, <2>4, <2>5, <2>6, <2>7 DEF FileTells, ListTells
<1>4. CompanyTypeOK /\ CallsOK <=> TypeInv
  BY DEF TypeInv
<1> QED
  BY <1>1, <1>2, <1>3, <1>4, CompanyTypeCorrect, PTL DEF Spec

==============================================================================
