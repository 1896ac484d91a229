---------------------------- MODULE DecisionProofs ----------------------------
(***************************************************************************)
(* Proofs about DecisionInbox, for any number of API threads, calls,       *)
(* failed appends and restarts, and for every hierarchy, rule and policy.  *)
(***************************************************************************)
EXTENDS DecisionInbox, FiniteSetTheorems, WellFoundedInduction, TLAPS

------------------------------------------------------------------------------
(***************************************************************************)
(* Sequences and the positions in them.                                    *)
(***************************************************************************)
IsSeq(s) == s \in Seq(Range(s))

LEMMA SeqOfIsSeq ==
  ASSUME NEW S, NEW s \in Seq(S)
  PROVE  IsSeq(s) /\ Range(s) \subseteq S
<1>1. s \in [1 .. Len(s) -> S] /\ Len(s) \in Nat
  OBVIOUS
<1>2. s \in [1 .. Len(s) -> Range(s)]
  BY <1>1 DEF Range
<1> QED
  BY <1>1, <1>2 DEF IsSeq, Range

LEMMA SizeOfSeq ==
  ASSUME NEW s, IsSeq(s)
  PROVE  Len(s) \in Nat /\ DOMAIN s = 1 .. Len(s)
  BY DEF IsSeq

LEMMA EmptyIsSeq == IsSeq(<<>>) /\ Len(<<>>) = 0 /\ DOMAIN <<>> = {}
  BY DEF IsSeq, Range

\* One more value at the end.
LEMMA OneMore ==
  ASSUME NEW s, IsSeq(s), NEW x
  PROVE  /\ IsSeq(Append(s, x)) /\ Len(Append(s, x)) = Len(s) + 1
         /\ DOMAIN Append(s, x) = 1 .. Len(s) + 1
         /\ Append(s, x)[Len(s) + 1] = x
         /\ \A i \in DOMAIN s : Append(s, x)[i] = s[i]
<1> DEFINE a == Append(s, x)
           S == Range(s) \cup {x}
<1>1. s \in Seq(S) /\ x \in S
  BY DEF IsSeq
<1>2. /\ a \in Seq(S) /\ Len(a) = Len(s) + 1 /\ DOMAIN a = 1 .. Len(s) + 1
      /\ a[Len(s) + 1] = x /\ \A i \in DOMAIN s : a[i] = s[i]
  BY <1>1
<1>3. IsSeq(a)
  BY <1>2, SeqOfIsSeq
<1> QED
  BY <1>2, <1>3

\* Several more.
LEMMA ManyMore ==
  ASSUME NEW s, IsSeq(s), NEW t, IsSeq(t)
  PROVE  /\ IsSeq(s \o t) /\ DOMAIN (s \o t) = 1 .. Len(s) + Len(t)
         /\ Len(s \o t) = Len(s) + Len(t)
         /\ \A i \in DOMAIN s : (s \o t)[i] = s[i]
         /\ \A i \in DOMAIN t : (s \o t)[Len(s) + i] = t[i]
<1> DEFINE a == s \o t
           S == Range(s) \cup Range(t)
<1>1. s \in Seq(S) /\ t \in Seq(S)
  BY DEF IsSeq
<1>2. /\ a \in Seq(S) /\ Len(a) = Len(s) + Len(t) /\ DOMAIN a = 1 .. Len(s) + Len(t)
      /\ \A i \in DOMAIN s : a[i] = s[i]
      /\ \A i \in DOMAIN t : a[Len(s) + i] = t[i]
  BY <1>1
<1>3. IsSeq(a)
  BY <1>2, SeqOfIsSeq
<1> QED
  BY <1>2, <1>3

LEMMA Replaced ==
  ASSUME NEW s, IsSeq(s), NEW k \in DOMAIN s, NEW x
  PROVE  LET a == [s EXCEPT ![k] = x] IN
         /\ IsSeq(a) /\ DOMAIN a = DOMAIN s /\ Len(a) = Len(s) /\ a[k] = x
         /\ \A i \in DOMAIN s \ {k} : a[i] = s[i]
<1> DEFINE a == [s EXCEPT ![k] = x]
           S == Range(s) \cup {x}
<1>1. s \in Seq(S) /\ x \in S
  BY DEF IsSeq
<1>2. /\ a \in Seq(S) /\ Len(a) = Len(s) /\ DOMAIN a = DOMAIN s /\ a[k] = x
      /\ \A i \in DOMAIN s \ {k} : a[i] = s[i]
  BY <1>1
<1>3. IsSeq(a)
  BY <1>2, SeqOfIsSeq
<1> QED
  BY <1>2, <1>3

\* The greatest position of some.
LEMMA Greatest ==
  ASSUME NEW n \in Nat, NEW S \in SUBSET (1 .. n), S # {}
  PROVE  Max(S) \in S /\ \A k \in S : Max(S) >= k
<1> DEFINE T == {n - k : k \in S}
<1>1. T \in SUBSET Nat /\ T # {}
  <2>1. \A k \in S : n - k \in Nat
    OBVIOUS
  <2> QED
    BY <2>1
<1>2. IsWellFoundedOn(OpToRel(<, Nat), Nat)
  BY NatLessThanWellFounded
<1>3. PICK x \in T : \A y \in T : ~ (<<y, x>> \in OpToRel(<, Nat))
  BY <1>1, <1>2, WFMin
<1>4. \A a, b \in Nat : <<b, a>> \in OpToRel(<, Nat) <=> b < a
  BY DEF OpToRel
<1>5. PICK m \in S : x = n - m
  OBVIOUS
<1>6. ASSUME NEW k \in S PROVE m >= k
  <2>1. n - k \in T /\ n - k \in Nat /\ x \in Nat /\ k \in Nat /\ m \in Nat
    OBVIOUS
  <2>2. ~ (n - k < n - m)
    BY <1>3, <1>4, <1>5, <2>1
  <2> QED
    BY <2>1, <2>2
<1> QED
  BY <1>6 DEF Max

\* The last entry of an id.
LEMMA LastEntryIs ==
  ASSUME NEW s, IsSeq(s), NEW id \in Ids(s)
  PROVE  /\ LastEntry(s, id) \in DOMAIN s /\ s[LastEntry(s, id)].id = id
         /\ \A i \in DOMAIN s : s[i].id = id => LastEntry(s, id) >= i
<1> DEFINE I == {i \in 1 .. Len(s) : s[i].id = id}
<1>1. Len(s) \in Nat /\ DOMAIN s = 1 .. Len(s)
  BY SizeOfSeq
<1>2. I # {} /\ I \in SUBSET (1 .. Len(s))
  BY <1>1 DEF Ids
<1>3. LastEntry(s, id) = Max(I)
  BY <1>2 DEF LastEntry, SelectLastInSeq
<1>4. Max(I) \in I /\ \A k \in I : Max(I) >= k
  <2> HIDE DEF I
  <2> QED
    BY <1>1, <1>2, Greatest
<1> QED
  BY <1>1, <1>3, <1>4

\* The smallest of some numbers.
LEMMA Least ==
  ASSUME NEW S \in SUBSET Nat, S # {}
  PROVE  \E m \in S : \A k \in S : m <= k
<1>1. IsWellFoundedOn(OpToRel(<, Nat), Nat)
  BY NatLessThanWellFounded
<1>2. \E x \in S : \A y \in S : ~ (<<y, x>> \in OpToRel(<, Nat))
  BY <1>1, WFMin
<1>3. \A x, y \in Nat : <<y, x>> \in OpToRel(<, Nat) <=> y < x
  BY DEF OpToRel
<1>4. PICK x \in S : \A y \in S : ~ (<<y, x>> \in OpToRel(<, Nat))
  BY <1>2, Zenon
<1>5. ASSUME NEW k \in S PROVE x <= k
  <2>1. ~ (k < x)
    BY <1>3, <1>4, Zenon
  <2> QED
    BY <2>1
<1> QED
  BY <1>5, Zenon

\* The first entry that has a value.
LEMMA FirstIs ==
  ASSUME NEW s, IsSeq(s), NEW x \in Range(s), NEW at, at = SelectInSeq(s, LAMBDA y : y = x)
  PROVE  at \in DOMAIN s /\ s[at] = x
<1> DEFINE I == {i \in 1 .. Len(s) : s[i] = x}
<1>1. Len(s) \in Nat /\ DOMAIN s = 1 .. Len(s)
  BY SizeOfSeq
<1>2. I # {} /\ I \in SUBSET Nat
  BY <1>1 DEF Range
<1>3. at = Min(I)
  BY <1>2 DEF SelectInSeq
<1>4. \E m \in I : \A k \in I : m <= k
  <2> HIDE DEF I
  <2> QED
    BY <1>2, Least
<1>5. Min(I) \in I
  BY <1>4 DEF Min
<1> QED
  BY <1>1, <1>3, <1>5

\* The values of a finite set, in some order.
LEMMA InSomeOrder ==
  ASSUME NEW S, IsFiniteSet(S)
  PROVE  IsSeq(SetToSeq(S)) /\ Range(SetToSeq(S)) = S
<1> DEFINE n == Cardinality(S)
           f == SetToSeq(S)
<1>1. n \in Nat /\ ExistsBijection(1 .. n, S)
  BY FS_CardinalityType
<1>2. f \in [1 .. n -> S] /\ IsInjective(f)
  BY <1>1 DEF SetToSeq, ExistsBijection, Bijection, Injection
<1>3. IsFiniteSet(1 .. n) /\ Cardinality(1 .. n) = n
  BY <1>1, FS_Interval
<1>4. f \in Surjection(1 .. n, S)
  <2>1. f \in Injection(1 .. n, S)
    BY <1>2 DEF Injection
  <2> QED
    BY <1>3, <2>1, FS_Injection
<1>5. Range(f) = S
  BY <1>2, <1>4 DEF Range, Surjection
<1>6. f \in Seq(S)
  BY <1>1, <1>2
<1> QED
  BY <1>5, <1>6, SeqOfIsSeq

\* The ids of a file are finitely many.
LEMMA FinitelyManyIds ==
  ASSUME NEW s, IsSeq(s)
  PROVE  IsFiniteSet(Ids(s))
<1> DEFINE f == [i \in 1 .. Len(s) |-> s[i].id]
<1>1. Len(s) \in Nat /\ DOMAIN s = 1 .. Len(s)
  BY SizeOfSeq
<1>2. f \in Surjection(1 .. Len(s), Ids(s))
  BY <1>1 DEF Surjection, Ids
<1>3. IsFiniteSet(1 .. Len(s))
  BY <1>1, FS_Interval
<1> QED
  BY <1>2, <1>3, FS_Surjection

------------------------------------------------------------------------------
(***************************************************************************)
(* The invariant of the types.                                             *)
(***************************************************************************)
Fields == {"id", "status", "approver", "required", "owner", "path"}
IsRecord(d, fields) == DOMAIN d = fields /\ d = [f \in DOMAIN d |-> d[f]]
IsDecision(d) == IsRecord(d, Fields) /\ d.status \in Statuses
IsTable(f) == f = [x \in DOMAIN f |-> f[x]]

\* An index leads to objects with the ids it is asked for.
IsIndex(ix) ==
  /\ IsTable(ix)
  /\ \A id \in DOMAIN ix : ix[id] \in DOMAIN heap /\ heap[ix[id]].id = id

HeapOK == IsSeq(heap) /\ \A o \in DOMAIN heap : IsDecision(heap[o])
EnginesOK ==
  /\ IsSeq(engines) /\ current \in 0 .. Len(engines)
  /\ \A e \in DOMAIN engines :
       IsRecord(engines[e], {"index", "counter"}) /\ IsIndex(engines[e].index)
FileOK == IsSeq(file) /\ \A i \in DOMAIN file : file[i] = Torn \/ IsDecision(file[i])

Points == {"idle", "engine", "built", "number", "draft", "look",
           "sign", "act", "record", "append", "answer"}
Holding == {"sign", "act", "record", "append", "answer"}
Starting == {"idle", "engine", "built"}
Verdicts == {"approve", "reject", "escalate", "cancel"}

ThreadsOK ==
  /\ pc \in [Callers -> Points]
  /\ IsTable(call) /\ DOMAIN call = Callers /\ IsTable(eng) /\ DOMAIN eng = Callers
  /\ IsTable(obj) /\ DOMAIN obj = Callers /\ IsTable(entry) /\ DOMAIN entry = Callers

\* What a thread holds where it stands.
CallerOK(c) ==
  /\ pc[c] = "idle" <=> call[c] = NoCall
  /\ pc[c] # "idle" => call[c].kind \in Kinds
  /\ pc[c] = "look" \/ pc[c] = "act" => call[c].kind \in Verdicts
  /\ pc[c] = "sign" => call[c].kind = "approve"
  /\ obj[c] # 0 <=> pc[c] \in Holding
  /\ pc[c] \in Holding => obj[c] \in DOMAIN heap
  /\ pc[c] \notin {"idle", "engine"} => eng[c] \in DOMAIN engines
  /\ pc[c] \in {"append", "answer"} => IsDecision(entry[c]) /\ entry[c].id = heap[obj[c]].id
  /\ pc[c] = "append" => entry[c].id \in DOMAIN engines[eng[c]].index

HeapIds == {heap[o].id : o \in DOMAIN heap}
CountsOK ==
  /\ split \in BOOLEAN /\ now \in 0 .. MaxTime /\ audits \in Nat /\ cut \in Nat
  /\ contested \subseteq HeapIds /\ unsaved \subseteq HeapIds

\* As long as no engine is in place nobody works with one.
StartOK == current = 0 => \A c \in Callers : pc[c] \in Starting

InboxInv ==
  /\ HeapOK /\ EnginesOK /\ FileOK /\ ThreadsOK
  /\ \A c \in Callers : CallerOK(c)
  /\ CountsOK /\ StartOK

\* What the steps of a process have in common: objects stay and keep their ids, and
\* what is in an index stays there.
Grown ==
  /\ \A o \in DOMAIN heap : o \in DOMAIN heap' /\ heap'[o].id = heap[o].id
  /\ \A e \in DOMAIN engines :
       e \in DOMAIN engines' /\ DOMAIN engines[e].index \subseteq DOMAIN engines'[e].index

\* The state of a thread that does not take the step.
Same(d) ==
  /\ pc'[d] = pc[d] /\ call'[d] = call[d] /\ eng'[d] = eng[d]
  /\ obj'[d] = obj[d] /\ entry'[d] = entry[d]

LEMMA OthersKept ==
  ASSUME NEW d \in Callers, CallerOK(d), Same(d), Grown
  PROVE  CallerOK(d)'
<1>1. pc[d] \in Holding => obj'[d] \in DOMAIN heap' /\ heap'[obj'[d]].id = heap[obj[d]].id
  BY DEF CallerOK, Same, Grown
<1>2. pc[d] \notin {"idle", "engine"} => eng'[d] \in DOMAIN engines'
  BY DEF CallerOK, Same, Grown
<1>3. pc[d] = "append" => entry'[d].id \in DOMAIN engines'[eng'[d]].index
  BY DEF CallerOK, Same, Grown
<1> QED
  BY <1>1, <1>2, <1>3 DEF CallerOK, Same, Holding

\* A step that leaves the heap and the engines alone.
LEMMA NothingGrown ==
  ASSUME UNCHANGED <<heap, engines>>
  PROVE  Grown
  BY DEF Grown

\* A change of an object that is not of its id.
LEMMA ObjectChanged ==
  ASSUME HeapOK, NEW o \in DOMAIN heap, NEW d, IsDecision(d), d.id = heap[o].id,
         heap' = [heap EXCEPT ![o] = d], UNCHANGED engines
  PROVE  /\ HeapOK' /\ Grown /\ DOMAIN heap' = DOMAIN heap
         /\ heap'[o] = d /\ \A k \in DOMAIN heap \ {o} : heap'[k] = heap[k]
         /\ HeapIds' = HeapIds
<1>1. /\ IsSeq(heap') /\ DOMAIN heap' = DOMAIN heap /\ heap'[o] = d
      /\ \A k \in DOMAIN heap \ {o} : heap'[k] = heap[k]
  BY Replaced DEF HeapOK
<1>2. \A k \in DOMAIN heap : IsDecision(heap'[k]) /\ heap'[k].id = heap[k].id
  BY <1>1 DEF HeapOK
<1>3. HeapOK'
  BY <1>1, <1>2 DEF HeapOK
<1>4. Grown
  BY <1>1, <1>2 DEF Grown
<1>5. HeapIds' = HeapIds
  BY <1>1, <1>2 DEF HeapIds
<1> QED
  BY <1>1, <1>3, <1>4, <1>5

\* The indexes still lead to the ids when the heap grows.
LEMMA IndexesKept ==
  ASSUME EnginesOK, Grown, UNCHANGED <<engines, current>>
  PROVE  EnginesOK'
<1>1. ASSUME NEW e \in DOMAIN engines PROVE IsIndex(engines[e].index)'
  BY <1>1 DEF EnginesOK, IsIndex, Grown
<1> QED
  BY <1>1 DEF EnginesOK

\* The policies leave the id and the status alone.
LEMMA EnforcedKeeps ==
  ASSUME NEW d, IsDecision(d)
  PROVE  IsDecision(Enforced(d)) /\ Enforced(d).id = d.id /\ Enforced(d).status = d.status
<1> DEFINE after == FoldLeft(Enforce, d, Policies)
           With(r, w) == [d EXCEPT !.required = r, !.owner = w]
<1>1. ASSUME NEW r, NEW w
      PROVE  IsDecision(With(r, w)) /\ With(r, w).id = d.id /\ With(r, w).status = d.status
  BY DEF IsDecision, IsRecord, Fields
<1>2. Enforced(d) = With(after.required, after.owner)
  BY DEF Enforced
<1> HIDE DEF after, With
<1> QED
  BY <1>1, <1>2

\* The lines that loading comes to.
LEMMA ReadableIs ==
  ASSUME FileOK
  PROVE  /\ IsSeq(Readable(file)) /\ \A i \in DOMAIN Readable(file) : IsDecision(Readable(file)[i])
         /\ Torn \notin ToSet(file) => Readable(file) = file
<1> DEFINE bad == {i \in DOMAIN file : file[i] = Torn}
           n == CHOOSE i \in bad : \A j \in bad : i <= j
<1>1. IsSeq(file) /\ Len(file) \in Nat /\ DOMAIN file = 1 .. Len(file)
  BY SizeOfSeq DEF FileOK
<1>2. CASE bad = {}
  <2>1. Readable(file) = file
    BY <1>2 DEF Readable
  <2>2. \A i \in DOMAIN file : IsDecision(file[i])
    BY <1>2 DEF FileOK
  <2> QED
    BY <1>1, <2>1, <2>2
<1>3. CASE bad # {}
  <2>1. \E m \in bad : \A k \in bad : m <= k
    <3>1. bad \in SUBSET Nat
      BY <1>1
    <3> HIDE DEF bad
    <3> QED
      BY <1>3, <3>1, Least
  <2>2. n \in bad /\ \A j \in bad : n <= j
    BY <2>1
  <2>3. Readable(file) = SubSeq(file, 1, n - 1)
    BY <1>3 DEF Readable
  <2>4. n \in 1 .. Len(file) /\ file \in Seq(Range(file))
    BY <1>1, <2>2 DEF IsSeq
  <2> DEFINE r == SubSeq(file, 1, n - 1)
  <2>5. r \in Seq(Range(file)) /\ DOMAIN r = 1 .. n - 1 /\ \A i \in 1 .. n - 1 : r[i] = file[i]
    <3> HIDE DEF n
    <3> QED
      BY <1>1, <2>4
  <2>6. IsSeq(r)
    BY <2>5, SeqOfIsSeq
  <2>7. ASSUME NEW i \in 1 .. n - 1 PROVE IsDecision(file[i])
    <3>1. i \in DOMAIN file /\ i \notin bad
      <4>1. i \in 1 .. Len(file) /\ ~ (n <= i)
        BY <1>1, <2>4
      <4> QED
        BY <1>1, <2>2, <4>1
    <3> QED
      BY <3>1 DEF FileOK
  <2>8. Torn \in ToSet(file)
    BY <2>2 DEF ToSet
  <2> HIDE DEF n, bad
  <2> QED
    BY <2>3, <2>5, <2>6, <2>7, <2>8
<1> QED
  BY <1>2, <1>3

\* An engine built from some lines: its index leads from every id of theirs to a new
\* object, the last entry of the id.
LEMMA BuiltIs ==
  ASSUME NEW s, IsSeq(s), \A i \in DOMAIN s : IsDecision(s[i]), IsSeq(heap)
  PROVE  LET new == Built(s) IN
         /\ IsSeq(new.objects) /\ \A o \in DOMAIN new.objects : IsDecision(new.objects[o])
         /\ IsTable(new.index) /\ DOMAIN new.index = Ids(s)
         /\ \A id \in Ids(s) : \E k \in DOMAIN new.objects :
              new.index[id] = Len(heap) + k /\ new.objects[k] = s[LastEntry(s, id)]
<1> DEFINE ids == SetToSeq(Ids(s))
           objects == [i \in DOMAIN ids |-> s[LastEntry(s, ids[i])]]
           place == [id \in Ids(s) |-> SelectInSeq(ids, LAMBDA x : x = id)]
           index == [id \in ToSet(ids) |-> Len(heap) + SelectInSeq(ids, LAMBDA x : x = id)]
<1>1. IsSeq(ids) /\ Range(ids) = Ids(s) /\ ToSet(ids) = Ids(s)
  BY InSomeOrder, FinitelyManyIds DEF ToSet, Range
<1>2. \A i \in DOMAIN ids : ids[i] \in Ids(s)
  BY <1>1 DEF Range
<1>3. \A id \in Ids(s) : LastEntry(s, id) \in DOMAIN s
  BY LastEntryIs
<1>4. Len(ids) \in Nat /\ DOMAIN ids = 1 .. Len(ids)
  BY <1>1, SizeOfSeq
<1>5. Built(s).objects = objects /\ Built(s).index = index
  BY DEF Built
<1>6. ASSUME NEW id \in Ids(s)
      PROVE  place[id] \in DOMAIN ids /\ ids[place[id]] = id
  <2>1. place[id] = SelectInSeq(ids, LAMBDA x : x = id)
    OBVIOUS
  <2> HIDE DEF place, ids
  <2> QED
    BY <1>1, <2>1, FirstIs
<1>7. index = [id \in Ids(s) |-> Len(heap) + place[id]]
  BY <1>1
<1> HIDE DEF ids, place, index
<1>8. IsSeq(objects) /\ DOMAIN objects = DOMAIN ids
  <2>1. objects \in Seq(Range(s))
    BY <1>2, <1>3, <1>4 DEF Range
  <2> QED
    BY <2>1, SeqOfIsSeq
<1>9. \A o \in DOMAIN ids : IsDecision(objects[o])
  BY <1>2, <1>3
<1>10. \A id \in Ids(s) : objects[place[id]] = s[LastEntry(s, id)]
  BY <1>6
<1> HIDE DEF objects
<1>11. IsTable(index) /\ DOMAIN index = Ids(s)
  BY <1>7 DEF IsTable
<1>12. \A id \in Ids(s) : index[id] = Len(heap) + place[id]
  BY <1>7
<1> QED
  BY <1>5, <1>6, <1>8, <1>9, <1>10, <1>11, <1>12

\* What an append leaves of the file.
LEMMA WithLineIs ==
  ASSUME FileOK, NEW l, l = Torn \/ IsDecision(l)
  PROVE  LET f == WithLine(file, l) IN
         /\ IsSeq(f) /\ \A i \in DOMAIN f : f[i] = Torn \/ IsDecision(f[i])
         /\ Torn \in ToSet(f) <=> Torn \in ToSet(file) \/ l = Torn
         /\ Torn \notin ToSet(file) => f = Append(file, l)
<1>1. IsSeq(file) /\ Len(file) \in Nat /\ DOMAIN file = 1 .. Len(file)
  BY SizeOfSeq DEF FileOK
<1>2. CASE file # <<>> /\ Last(file) = Torn
  <2>1. Len(file) # 0
    BY <1>1, <1>2 DEF IsSeq
  <2>2. Torn \in ToSet(file)
    BY <1>1, <1>2, <2>1 DEF ToSet, Last
  <2> QED
    BY <1>1, <1>2, <2>2 DEF WithLine, FileOK
<1>3. CASE ~ (file # <<>> /\ Last(file) = Torn)
  <2> DEFINE f == Append(file, l)
  <2>1. WithLine(file, l) = f
    BY <1>3 DEF WithLine
  <2>2. /\ IsSeq(f) /\ DOMAIN f = 1 .. Len(file) + 1 /\ f[Len(file) + 1] = l
        /\ \A i \in DOMAIN file : f[i] = file[i]
    BY <1>1, OneMore
  <2> HIDE DEF f
  <2>3. DOMAIN f = DOMAIN file \cup {Len(file) + 1}
    BY <1>1, <2>2
  <2>4. \A i \in DOMAIN f : f[i] = Torn \/ IsDecision(f[i])
    BY <2>2, <2>3 DEF FileOK
  <2>5. ToSet(f) = ToSet(file) \cup {l}
    BY <2>2, <2>3 DEF ToSet
  <2> QED
    BY <2>1, <2>2, <2>4, <2>5 DEF f
<1> QED
  BY <1>2, <1>3

\* A step changes the state of the thread that takes it.
LEMMA OneThreadMoves ==
  ASSUME ThreadsOK, NEW c \in Callers, CallStep(c)
  PROVE  ThreadsOK' /\ \A d \in Callers \ {c} : Same(d)
<1> USE DEF ThreadsOK, IsTable, Same, Goto, End, Points
<1>1. CASE Begin(c)
  BY <1>1 DEF Begin
<1>2. CASE BuildEngine(c)
  BY <1>2 DEF BuildEngine
<1>3. CASE AssignEngine(c)
  BY <1>3 DEF AssignEngine
<1>4. CASE UseEngine(c)
  BY <1>4 DEF UseEngine
<1>5. CASE ReadInbox(c)
  BY <1>5 DEF ReadInbox
<1>6. CASE Number(c)
  BY <1>6 DEF Number
<1>7. CASE Draft(c)
  BY <1>7 DEF Draft
<1>8. CASE Look(c)
  BY <1>8 DEF Look
<1>9. CASE LookFails(c)
  BY <1>9 DEF LookFails
<1>10. CASE Sign(c)
  BY <1>10 DEF Sign
<1>11. CASE Act(c)
  BY <1>11 DEF Act
<1>12. CASE Record(c)
  BY <1>12 DEF Record
<1>13. CASE AppendLine(c)
  BY <1>13 DEF AppendLine
<1>14. CASE AppendFails(c)
  BY <1>14 DEF AppendFails
<1>15. CASE Answer(c)
  BY <1>15 DEF Answer
<1> QED
  BY <1>1, <1>2, <1>3, <1>4, <1>5, <1>6, <1>7, <1>8, <1>9, <1>10, <1>11,
     <1>12, <1>13, <1>14, <1>15 DEF CallStep

\* What a verdict does to its decision.
LEMMA ActChanges ==
  ASSUME HeapOK, NEW c \in Callers, obj[c] \in DOMAIN heap, call[c].kind \in Verdicts, Act(c)
  PROVE  \E d : IsDecision(d) /\ d.id = heap[obj[c]].id /\ Change(c, d)
<1> DEFINE d == heap[obj[c]]
<1>1. IsDecision(d)
  BY DEF HeapOK
<1>2. ASSUME NEW s \in Statuses
      PROVE  LET e == [d EXCEPT !.status = s] IN IsDecision(e) /\ e.id = d.id
  BY <1>1 DEF IsDecision, IsRecord, Fields
<1>3. CASE call[c].kind = "approve"
  <2> DEFINE s == IF d.required /\ call[c].who = Nobody THEN "escalated" ELSE "approved"
             e == [d EXCEPT !.status = s]
  <2>1. s \in Statuses
    BY DEF Statuses
  <2>2. IsDecision(e) /\ e.id = d.id
    <3> HIDE DEF s
    <3> QED
      BY <1>2, <2>1
  <2>3. Change(c, Enforced(e))
    BY <1>3 DEF Act
  <2> HIDE DEF e
  <2> QED
    BY <2>2, <2>3, EnforcedKeeps
<1>4. CASE call[c].kind \in {"reject", "cancel"}
  <2> DEFINE s == IF call[c].kind = "reject" THEN "rejected" ELSE "cancelled"
             e == [d EXCEPT !.status = s]
  <2>1. s \in Statuses
    BY DEF Statuses
  <2>2. IsDecision(e) /\ e.id = d.id
    <3> HIDE DEF s
    <3> QED
      BY <1>2, <2>1
  <2>3. Change(c, e)
    BY <1>4 DEF Act
  <2> HIDE DEF e
  <2> QED
    BY <2>2, <2>3
<1>5. CASE call[c].kind = "escalate"
  <2> DEFINE e == [d EXCEPT !.status = "escalated", !.path = Append(@, NextLevel(d))]
  <2>1. IsDecision(e) /\ e.id = d.id
    BY <1>1 DEF IsDecision, IsRecord, Fields, Statuses
  <2>2. Change(c, e)
    BY <1>5 DEF Act
  <2> HIDE DEF e
  <2> QED
    BY <2>1, <2>2
<1> QED
  BY <1>3, <1>4, <1>5 DEF Verdicts

\* The engine that a thread builds, and its objects, are new; its index leads from every
\* id of the file to the last entry that loading comes to.
LEMMA EngineIsBuilt ==
  ASSUME InboxInv, NEW c \in Callers, BuildEngine(c)
  PROVE  /\ HeapOK' /\ EnginesOK' /\ Grown
         /\ pc[c] = "engine" /\ pc'[c] = "built" /\ current = 0
         /\ eng'[c] = Len(engines) + 1
         /\ DOMAIN engines' = DOMAIN engines \cup {Len(engines) + 1}
         /\ Len(engines) + 1 \notin DOMAIN engines
         /\ \A o \in DOMAIN heap : heap'[o] = heap[o]
         /\ \A e \in DOMAIN engines : engines'[e] = engines[e]
         /\ LET index == engines'[Len(engines) + 1].index IN
            /\ DOMAIN index = Ids(Readable(file))
            /\ \A id \in DOMAIN index :
                 heap'[index[id]] = Readable(file)[LastEntry(Readable(file), id)]
         /\ UNCHANGED <<now, current, file, call, obj, entry, audits, contested, split, unsaved,
                        cut>>
<1> DEFINE new == Built(Readable(file))
<1>1. /\ pc[c] = "engine" /\ current = 0 /\ heap' = heap \o new.objects
      /\ engines' = Append(engines, [index |-> new.index, counter |-> 0])
      /\ eng'[c] = Len(engines) + 1 /\ pc'[c] = "built"
      /\ UNCHANGED <<now, current, file, call, obj, entry, audits, contested, split, unsaved,
                     cut>>
  BY DEF BuildEngine, At, Goto, InboxInv, ThreadsOK, IsTable, auxVars
<1>2. IsSeq(heap) /\ IsSeq(engines) /\ FileOK
  BY DEF InboxInv, HeapOK, EnginesOK
<1>3. PICK objects : objects = new.objects
  OBVIOUS
<1>4. PICK index : index = new.index
  OBVIOUS
<1>5. /\ heap' = heap \o objects
       /\ engines' = Append(engines, [index |-> index, counter |-> 0])
  BY <1>1, <1>3, <1>4
<1>6. /\ IsSeq(objects) /\ \A o \in DOMAIN objects : IsDecision(objects[o])
      /\ IsTable(index) /\ DOMAIN index = Ids(Readable(file))
      /\ \A id \in DOMAIN index : \E k \in DOMAIN objects :
           /\ index[id] = Len(heap) + k /\ objects[k].id = id
           /\ objects[k] = Readable(file)[LastEntry(Readable(file), id)]
  <2>1. /\ IsSeq(new.objects) /\ \A o \in DOMAIN new.objects : IsDecision(new.objects[o])
        /\ IsTable(new.index) /\ DOMAIN new.index = Ids(Readable(file))
        /\ \A id \in Ids(Readable(file)) : \E k \in DOMAIN new.objects :
             /\ new.index[id] = Len(heap) + k
             /\ new.objects[k] = Readable(file)[LastEntry(Readable(file), id)]
    BY <1>2, BuiltIs, ReadableIs
  <2>2. \A id \in Ids(Readable(file)) : Readable(file)[LastEntry(Readable(file), id)].id = id
    BY <1>2, ReadableIs, LastEntryIs
  <2> HIDE DEF new
  <2> QED
    BY <1>3, <1>4, <2>1, <2>2
<1> HIDE DEF new
<1>7. /\ IsSeq(heap') /\ DOMAIN heap' = 1 .. Len(heap) + Len(objects)
      /\ \A o \in DOMAIN heap : heap'[o] = heap[o]
      /\ \A k \in DOMAIN objects : heap'[Len(heap) + k] = objects[k]
  BY <1>2, <1>5, <1>6, ManyMore
<1>8. /\ Len(heap) \in Nat /\ DOMAIN heap = 1 .. Len(heap)
      /\ Len(objects) \in Nat /\ DOMAIN objects = 1 .. Len(objects)
      /\ Len(engines) \in Nat /\ DOMAIN engines = 1 .. Len(engines)
  BY <1>2, <1>6, SizeOfSeq
<1>9. HeapOK'
  <2>1. ASSUME NEW o \in DOMAIN heap' PROVE IsDecision(heap'[o])
    <3>1. CASE o \in DOMAIN heap
      BY <1>7, <3>1 DEF InboxInv, HeapOK
    <3>2. CASE o \notin DOMAIN heap
      <4>1. o - Len(heap) \in DOMAIN objects /\ Len(heap) + (o - Len(heap)) = o
        BY <1>7, <1>8, <3>2
      <4> QED
        BY <1>7, <1>6, <4>1
    <3> QED
      BY <3>1, <3>2
  <2> QED
    BY <1>7, <2>1 DEF HeapOK
<1>10. /\ IsSeq(engines') /\ DOMAIN engines' = 1 .. Len(engines) + 1
       /\ Len(engines') = Len(engines) + 1
       /\ \A e \in DOMAIN engines : engines'[e] = engines[e]
       /\ engines'[Len(engines) + 1] = [index |-> index, counter |-> 0]
  BY <1>2, <1>5, OneMore
<1>11. Grown
  BY <1>7, <1>8, <1>10 DEF Grown
<1>12. IsIndex(index)'
  <2>1. ASSUME NEW id \in DOMAIN index
        PROVE  index[id] \in DOMAIN heap' /\ heap'[index[id]].id = id
    <3>1. PICK k \in DOMAIN objects : index[id] = Len(heap) + k /\ objects[k].id = id
      BY <1>6
    <3>2. Len(heap) + k \in DOMAIN heap'
      BY <1>7, <1>8
    <3> QED
      BY <1>7, <3>1, <3>2
  <2> QED
    BY <1>6, <2>1 DEF IsIndex
<1>13. EnginesOK'
  <2>1. ASSUME NEW e \in DOMAIN engines PROVE IsIndex(engines[e].index)'
    <3>1. IsIndex(engines[e].index) /\ engines'[e] = engines[e]
      BY <1>10 DEF InboxInv, EnginesOK
    <3> QED
      BY <1>11, <3>1 DEF IsIndex, Grown
  <2>2. ASSUME NEW e \in DOMAIN engines'
        PROVE  IsRecord(engines'[e], {"index", "counter"}) /\ IsIndex(engines[e].index)'
    <3>1. CASE e \in DOMAIN engines
      BY <1>10, <2>1, <3>1 DEF InboxInv, EnginesOK
    <3>2. CASE e \notin DOMAIN engines
      <4>1. e = Len(engines) + 1
        BY <1>8, <1>10, <3>2
      <4>2. engines'[e] = [index |-> index, counter |-> 0]
        BY <1>10, <4>1
      <4>3. engines'[e].index = index /\ IsRecord(engines'[e], {"index", "counter"})
        BY <4>2 DEF IsRecord
      <4> QED
        BY <1>12, <4>3
    <3> QED
      BY <3>1, <3>2
  <2>3. current' \in 0 .. Len(engines')
    BY <1>1, <1>8, <1>10 DEF InboxInv, EnginesOK
  <2> QED
    BY <1>10, <2>2, <2>3 DEF EnginesOK
<1>14. \A id \in DOMAIN index : heap'[index[id]] = Readable(file)[LastEntry(Readable(file), id)]
  <2>1. ASSUME NEW id \in DOMAIN index
        PROVE  heap'[index[id]] = Readable(file)[LastEntry(Readable(file), id)]
    <3>1. PICK k \in DOMAIN objects :
            /\ index[id] = Len(heap) + k
            /\ objects[k] = Readable(file)[LastEntry(Readable(file), id)]
      BY <1>6
    <3> QED
      BY <1>7, <3>1
  <2> QED
    BY <2>1
<1>15. /\ DOMAIN engines' = DOMAIN engines \cup {Len(engines) + 1}
       /\ Len(engines) + 1 \notin DOMAIN engines
  BY <1>8, <1>10
<1>16. engines'[Len(engines) + 1].index = index
  BY <1>10
<1> QED
  BY <1>1, <1>6, <1>7, <1>9, <1>10, <1>11, <1>13, <1>14, <1>15, <1>16

\* An index after an object was entered.
LEMMA EnteredIs ==
  ASSUME NEW index, NEW id, NEW o
  PROVE  /\ IsTable(Entered(index, id, o)) /\ DOMAIN Entered(index, id, o) = DOMAIN index \cup {id}
         /\ Entered(index, id, o)[id] = o
         /\ \A i \in DOMAIN index \ {id} : Entered(index, id, o)[i] = index[i]
  BY DEF Entered, IsTable

\* A decision that is recorded is what the index of the engine leads to.
LEMMA DecisionIsEntered ==
  ASSUME InboxInv, NEW c \in Callers, Record(c)
  PROVE  /\ EnginesOK' /\ Grown /\ DOMAIN engines' = DOMAIN engines
         /\ pc[c] = "record" /\ pc'[c] = "append" /\ entry'[c] = heap[obj[c]]
         /\ eng[c] \in DOMAIN engines /\ obj[c] \in DOMAIN heap
         /\ engines'[eng[c]].index
              = Entered(engines[eng[c]].index, heap[obj[c]].id, obj[c])
         /\ \A e \in DOMAIN engines \ {eng[c]} : engines'[e] = engines[e]
         /\ UNCHANGED <<heap, current, now, file, call, eng, obj, audits, contested, split,
                        unsaved, cut>>
<1> DEFINE d == heap[obj[c]]
           g == [engines[eng[c]] EXCEPT !.index = Entered(@, d.id, obj[c])]
<1>1. /\ pc[c] = "record" /\ pc'[c] = "append" /\ entry'[c] = d
      /\ engines' = [engines EXCEPT ![eng[c]] = g]
      /\ UNCHANGED <<heap, current, now, file, call, eng, obj, audits, contested, split,
                     unsaved, cut>>
  BY DEF Record, At, Goto, InboxInv, ThreadsOK, IsTable, auxVars
<1>2. obj[c] \in DOMAIN heap /\ eng[c] \in DOMAIN engines /\ obj[c] # 0
  BY <1>1 DEF InboxInv, CallerOK, Holding
<1>3. /\ IsRecord(g, {"index", "counter"}) /\ IsIndex(g.index)
      /\ g.index = Entered(engines[eng[c]].index, d.id, obj[c])
  <2>1. IsRecord(engines[eng[c]], {"index", "counter"}) /\ IsIndex(engines[eng[c]].index)
    BY <1>2 DEF InboxInv, EnginesOK
  <2>2. IsRecord(g, {"index", "counter"}) /\ g.index = Entered(engines[eng[c]].index, d.id, obj[c])
    BY <2>1 DEF IsRecord
  <2>3. /\ IsTable(g.index)
        /\ DOMAIN g.index = DOMAIN engines[eng[c]].index \cup {d.id}
        /\ \A id \in DOMAIN g.index :
             g.index[id] = IF id = d.id THEN obj[c] ELSE engines[eng[c]].index[id]
    BY <2>2 DEF IsTable, Entered
  <2> HIDE DEF g
  <2> QED
    BY <1>2, <2>1, <2>2, <2>3 DEF IsIndex
<1>4. /\ IsSeq(engines') /\ DOMAIN engines' = DOMAIN engines /\ Len(engines') = Len(engines)
      /\ engines'[eng[c]] = g
      /\ \A e \in DOMAIN engines \ {eng[c]} : engines'[e] = engines[e]
  <2> DEFINE a == [engines EXCEPT ![eng[c]] = g]
  <2> HIDE DEF g
  <2>1. /\ IsSeq(a) /\ DOMAIN a = DOMAIN engines /\ Len(a) = Len(engines)
        /\ a[eng[c]] = g /\ \A e \in DOMAIN engines \ {eng[c]} : a[e] = engines[e]
    BY <1>2, Replaced DEF InboxInv, EnginesOK
  <2> QED
    BY <1>1, <2>1
<1> HIDE DEF g
<1>5. Grown
  <2>1. DOMAIN engines[eng[c]].index \subseteq DOMAIN g.index
    BY <1>3 DEF Entered
  <2> QED
    BY <1>1, <1>4, <2>1 DEF Grown
<1>6. EnginesOK'
  <2>1. \A e \in DOMAIN engines' : IsRecord(engines'[e], {"index", "counter"})
    BY <1>3, <1>4 DEF InboxInv, EnginesOK
  <2>2. ASSUME NEW e \in DOMAIN engines' PROVE IsIndex(engines[e].index)'
    <3>1. IsIndex(engines'[e].index)
      BY <1>3, <1>4 DEF InboxInv, EnginesOK
    <3> QED
      BY <1>1, <3>1 DEF IsIndex
  <2> QED
    BY <1>1, <1>4, <2>1, <2>2 DEF InboxInv, EnginesOK
<1> QED
  BY <1>1, <1>2, <1>3, <1>4, <1>5, <1>6

\* Every call keeps the types.
LEMMA CallKeepsTypes ==
  ASSUME InboxInv, NEW c \in Callers, CallStep(c)
  PROVE  InboxInv' /\ Grown
<1>1. ThreadsOK' /\ \A d \in Callers \ {c} : Same(d)
  BY OneThreadMoves DEF InboxInv
<1>2. CallerOK(c) /\ pc[c] \in Points /\ (current = 0 => pc[c] \in Starting)
  BY DEF InboxInv, StartOK, ThreadsOK
<1>3. ASSUME HeapOK', EnginesOK', FileOK', Grown, CallerOK(c)', CountsOK',
             current' = 0 => current = 0 /\ pc'[c] \in Starting
      PROVE  InboxInv' /\ Grown
  <2>1. \A d \in Callers \ {c} : CallerOK(d)'
    BY <1>1, <1>3, OthersKept DEF InboxInv
  <2>2. \A d \in Callers : CallerOK(d)'
    BY <1>3, <2>1
  <2>3. StartOK'
    BY <1>1, <1>3 DEF InboxInv, StartOK, Same
  <2> QED
    BY <1>1, <1>3, <2>2, <2>3 DEF InboxInv
<1>4. ASSUME HeapOK', EnginesOK', FileOK', Grown, CallerOK(c)', UNCHANGED <<now, split>>,
             audits' \in Nat, cut' = cut, contested' \subseteq contested \cup HeapIds',
             unsaved' \subseteq unsaved \cup HeapIds', current' = current,
             current # 0 \/ pc'[c] \in Starting
      PROVE  InboxInv' /\ Grown
  <2>1. HeapIds \subseteq HeapIds'
    BY <1>4 DEF Grown, HeapIds
  <2>2. CountsOK'
    BY <1>4, <2>1 DEF CountsOK, InboxInv
  <2> QED
    BY <1>3, <1>4, <2>2
<1>5. ASSUME UNCHANGED <<heap, engines, current, file, now, cut, contested, split>>, CallerOK(c)',
             unsaved' \subseteq unsaved \cup HeapIds, audits' \in Nat,
             current # 0 \/ pc'[c] \in Starting
      PROVE  InboxInv' /\ Grown
  <2>1. HeapOK' /\ EnginesOK' /\ FileOK' /\ Grown /\ HeapIds' = HeapIds
    BY <1>5, NothingGrown
       DEF InboxInv, HeapOK, EnginesOK, IsIndex, FileOK, HeapIds
  <2> QED
    BY <1>4, <1>5, <2>1
<1>6. CASE Begin(c)
  <2>1. CallerOK(c)'
    BY <1>1, <1>2, <1>6, DecisionAssumption
       DEF Begin, At, Goto, CallerOK, Holding, NoCall, ThreadsOK, Kinds, IsTable
  <2>2. current # 0 \/ pc'[c] \in Starting
    BY <1>1, <1>2, <1>6 DEF Begin, End, At, Goto, ThreadsOK, Starting, IsTable, InboxInv
  <2> QED
    BY <1>5, <1>6, <2>1, <2>2 DEF Begin, engineVars, auxVars, InboxInv, CountsOK
<1>7. CASE UseEngine(c)
  <2>1. current # 0 => current \in DOMAIN engines
    BY SizeOfSeq DEF InboxInv, EnginesOK
  <2>2. /\ pc[c] = "engine" /\ current # 0 /\ call[c].kind # "read"
        /\ pc'[c] = (IF call[c].kind = "create" THEN "number" ELSE "look")
        /\ eng'[c] = current
        /\ UNCHANGED <<call, obj, entry, heap, engines>>
    BY <1>7 DEF UseEngine, At, Goto, InboxInv, ThreadsOK, IsTable, engineVars
  <2>3. CallerOK(c)'
    BY <1>2, <2>1, <2>2 DEF CallerOK, Holding, Kinds, Verdicts
  <2> QED
    BY <1>5, <1>7, <2>2, <2>3 DEF UseEngine, engineVars, auxVars, InboxInv, CountsOK
<1>8. CASE ReadInbox(c)
  <2>1. CallerOK(c)'
    BY <1>1, <1>2, <1>8 DEF ReadInbox, End, At, Goto, CallerOK, Holding, ThreadsOK,
                              IsTable, InboxInv
  <2>2. current # 0 \/ pc'[c] \in Starting
    BY <1>1, <1>2, <1>8 DEF ReadInbox, End, At, Goto, ThreadsOK, Starting, IsTable, InboxInv
  <2> QED
    BY <1>5, <1>8, <2>1, <2>2 DEF ReadInbox, engineVars, auxVars, InboxInv, CountsOK
<1>9. CASE LookFails(c)
  <2>1. CallerOK(c)'
    BY <1>1, <1>2, <1>9 DEF LookFails, End, At, Goto, CallerOK, Holding, ThreadsOK,
                              IsTable, InboxInv
  <2>2. current # 0 \/ pc'[c] \in Starting
    BY <1>1, <1>2, <1>9 DEF LookFails, End, At, Goto, ThreadsOK, Starting, IsTable, InboxInv
  <2> QED
    BY <1>5, <1>9, <2>1, <2>2 DEF LookFails, engineVars, auxVars, InboxInv, CountsOK
<1>10. CASE Answer(c)
  <2>1. CallerOK(c)'
    BY <1>1, <1>2, <1>10 DEF Answer, End, At, Goto, CallerOK, Holding, ThreadsOK,
                              IsTable, InboxInv
  <2>2. current # 0 \/ pc'[c] \in Starting
    BY <1>1, <1>2, <1>10 DEF Answer, End, At, Goto, ThreadsOK, Starting, IsTable, InboxInv
  <2> QED
    BY <1>5, <1>10, <2>1, <2>2 DEF Answer, engineVars, auxVars, InboxInv, CountsOK
<1>11. CASE BuildEngine(c)
  <2>1. /\ HeapOK' /\ EnginesOK' /\ Grown /\ pc[c] = "engine" /\ pc'[c] = "built"
        /\ eng'[c] \in DOMAIN engines'
        /\ UNCHANGED <<now, current, file, call, obj, entry, audits, contested, split, unsaved,
                       cut>>
    BY <1>11, EngineIsBuilt
  <2>2. CallerOK(c)'
    BY <1>2, <2>1 DEF CallerOK, Holding
  <2>3. FileOK'
    BY <2>1 DEF InboxInv, FileOK
  <2> QED
    BY <1>4, <2>1, <2>2, <2>3 DEF Starting, InboxInv, CountsOK
<1>12. CASE AssignEngine(c)
  <2>1. /\ pc[c] = "built" /\ current' = eng[c] /\ pc'[c] = "engine" /\ split' \in BOOLEAN
        /\ UNCHANGED <<heap, engines, now, file, call, eng, obj, entry, audits, contested,
                       unsaved, cut>>
    BY <1>12 DEF AssignEngine, At, Goto, InboxInv, ThreadsOK
  <2>2. CallerOK(c)'
    BY <1>2, <2>1 DEF CallerOK, Holding
  <2>3. eng[c] \in DOMAIN engines /\ DOMAIN engines = 1 .. Len(engines) /\ Len(engines) \in Nat
    BY <1>2, <2>1, SizeOfSeq DEF CallerOK, InboxInv, EnginesOK
  <2>4. HeapOK' /\ FileOK' /\ Grown /\ CountsOK'
    BY <2>1, NothingGrown DEF InboxInv, HeapOK, FileOK, CountsOK, HeapIds
  <2>5. EnginesOK'
    BY <2>1, <2>3 DEF InboxInv, EnginesOK, IsIndex
  <2> QED
    BY <1>3, <2>1, <2>2, <2>3, <2>4, <2>5
<1>13. CASE Number(c)
  <2>1. /\ pc[c] = "number" /\ pc'[c] = "draft"
        /\ engines' = [engines EXCEPT ![eng[c]].counter = @ + 1]
        /\ UNCHANGED <<heap, current, now, file, call, eng, obj, entry, audits, contested,
                       split, unsaved, cut>>
    BY <1>13 DEF Number, At, Goto, InboxInv, ThreadsOK, auxVars
  <2>2. eng[c] \in DOMAIN engines /\ IsSeq(engines)
    BY <1>2, <2>1 DEF CallerOK, InboxInv, EnginesOK
  <2>3. PICK g : /\ engines' = [engines EXCEPT ![eng[c]] = g]
                 /\ IsRecord(g, {"index", "counter"}) /\ g.index = engines[eng[c]].index
    <3> DEFINE g == [engines[eng[c]] EXCEPT !.counter = @ + 1]
    <3>1. engines' = [engines EXCEPT ![eng[c]] = g]
      BY <2>1
    <3>2. IsRecord(engines[eng[c]], {"index", "counter"})
      BY <2>2 DEF InboxInv, EnginesOK
    <3>3. IsRecord(g, {"index", "counter"}) /\ g.index = engines[eng[c]].index
      BY <3>2 DEF IsRecord
    <3> HIDE DEF g
    <3> QED
      BY <3>1, <3>3
  <2>4. /\ IsSeq(engines') /\ DOMAIN engines' = DOMAIN engines /\ Len(engines') = Len(engines)
        /\ engines'[eng[c]] = g
        /\ \A e \in DOMAIN engines \ {eng[c]} : engines'[e] = engines[e]
    <3> DEFINE a == [engines EXCEPT ![eng[c]] = g]
    <3>1. /\ IsSeq(a) /\ DOMAIN a = DOMAIN engines /\ Len(a) = Len(engines)
          /\ a[eng[c]] = g /\ \A e \in DOMAIN engines \ {eng[c]} : a[e] = engines[e]
      BY <2>2, Replaced
    <3> QED
      BY <2>3, <3>1
  <2>5. \A e \in DOMAIN engines : /\ engines'[e].index = engines[e].index
                                   /\ IsRecord(engines'[e], {"index", "counter"})
    BY <2>3, <2>4 DEF InboxInv, EnginesOK
  <2>6. EnginesOK' /\ Grown
    BY <2>1, <2>4, <2>5 DEF InboxInv, EnginesOK, IsIndex, Grown
  <2>7. HeapOK' /\ FileOK' /\ HeapIds' = HeapIds
    BY <2>1 DEF InboxInv, HeapOK, FileOK, HeapIds
  <2>8. CallerOK(c)'
    BY <1>2, <2>1, <2>2, <2>4 DEF CallerOK, Holding
  <2>9. current # 0
    BY <1>2, <2>1 DEF Starting
  <2> QED
    BY <1>4, <2>1, <2>6, <2>7, <2>8, <2>9 DEF InboxInv, CountsOK
<1>14. CASE Draft(c)
  <2> DEFINE id == <<now, engines[eng[c]].counter>>
             d == [id |-> id, status |-> "pending", approver |-> Nobody,
                   required |-> ApprovalRequired(call[c].who), owner |-> call[c].who,
                   path |-> PathOf(call[c].who)]
  <2>1. /\ pc[c] = "draft" /\ pc'[c] = "record" /\ heap' = Append(heap, d)
        /\ obj'[c] = Len(heap) + 1 /\ contested' \subseteq contested \cup {id}
        /\ UNCHANGED <<engines, current, now, file, call, eng, entry, audits, split,
                       unsaved, cut>>
    BY <1>14 DEF Draft, Contest, At, Goto, InboxInv, ThreadsOK, IsTable
  <2>2. IsDecision(d) /\ d.id = id
    BY DEF IsDecision, IsRecord, Fields, Statuses
  <2> HIDE DEF d, id
  <2>3. /\ IsSeq(heap') /\ DOMAIN heap' = 1 .. Len(heap) + 1 /\ heap'[Len(heap) + 1] = d
        /\ \A o \in DOMAIN heap : heap'[o] = heap[o]
    BY <2>1, OneMore DEF InboxInv, HeapOK
  <2>4. Len(heap) \in Nat /\ DOMAIN heap = 1 .. Len(heap)
    BY SizeOfSeq DEF InboxInv, HeapOK
  <2>5. DOMAIN heap' = DOMAIN heap \cup {Len(heap) + 1}
    BY <2>3, <2>4
  <2>6. HeapOK' /\ Grown
    BY <2>1, <2>2, <2>3, <2>5 DEF InboxInv, HeapOK, Grown
  <2>7. id \in HeapIds'
    BY <2>2, <2>3, <2>5 DEF HeapIds
  <2>8. EnginesOK'
    BY <2>1, <2>6, IndexesKept DEF InboxInv
  <2>9. CallerOK(c)'
    BY <1>2, <2>1, <2>4, <2>5 DEF CallerOK, Holding
  <2>10. FileOK' /\ current # 0
    BY <1>2, <2>1 DEF InboxInv, FileOK, Starting
  <2> QED
    BY <1>4, <2>1, <2>6, <2>7, <2>8, <2>9, <2>10 DEF InboxInv, CountsOK
<1>15. CASE Look(c)
  <2> DEFINE o == engines[eng[c]].index[call[c].id]
  <2>1. /\ pc[c] = "look" /\ call[c].id \in DOMAIN engines[eng[c]].index
        /\ pc'[c] = (IF call[c].kind = "approve" THEN "sign" ELSE "act")
        /\ obj'[c] = o /\ contested' \subseteq contested \cup {heap[o].id}
        /\ UNCHANGED <<heap, engines, current, now, file, call, eng, entry, audits, split,
                       unsaved, cut>>
    BY <1>15 DEF Look, Indexed, Contest, At, Goto, InboxInv, ThreadsOK, IsTable, engineVars
  <2>2. eng[c] \in DOMAIN engines
    BY <1>2, <2>1 DEF CallerOK
  <2>3. o \in DOMAIN heap /\ o # 0
    BY <2>1, <2>2, SizeOfSeq DEF InboxInv, EnginesOK, IsIndex, HeapOK
  <2> HIDE DEF o
  <2>4. HeapOK' /\ EnginesOK' /\ FileOK' /\ Grown /\ HeapIds' = HeapIds
    BY <2>1, NothingGrown DEF InboxInv, HeapOK, EnginesOK, IsIndex, FileOK, HeapIds
  <2>5. CallerOK(c)'
    BY <1>2, <2>1, <2>2, <2>3 DEF CallerOK, Holding, Verdicts
  <2>6. current # 0 /\ heap[o].id \in HeapIds
    BY <1>2, <2>1, <2>3 DEF Starting, HeapIds
  <2> QED
    BY <1>4, <2>1, <2>4, <2>5, <2>6 DEF InboxInv, CountsOK
<1>16. ASSUME NEW d, IsDecision(d), d.id = heap[obj[c]].id, Change(c, d), pc[c] \in Holding,
              UNCHANGED <<engines, current, now, file, call, eng, obj, entry, audits,
                          contested, split, unsaved, cut>>,
              CallerOK(c)'
       PROVE  InboxInv' /\ Grown
  <2>1. obj[c] \in DOMAIN heap /\ HeapOK /\ EnginesOK
    BY <1>2, <1>16 DEF CallerOK, InboxInv
  <2>2. heap' = [heap EXCEPT ![obj[c]] = d]
    BY <1>16 DEF Change
  <2>3. HeapOK' /\ Grown /\ HeapIds' = HeapIds
    BY <1>16, <2>1, <2>2, ObjectChanged
  <2>4. EnginesOK' /\ FileOK'
    BY <1>16, <2>1, <2>3, IndexesKept DEF InboxInv, FileOK
  <2>5. current # 0
    BY <1>2, <1>16 DEF Holding, Starting
  <2> QED
    BY <1>4, <1>16, <2>3, <2>4, <2>5 DEF InboxInv, CountsOK
<1>17. CASE Sign(c)
  <2> DEFINE d == [heap[obj[c]] EXCEPT !.approver = call[c].who]
  <2>1. /\ pc[c] = "sign" /\ pc'[c] = "act" /\ Change(c, d)
        /\ UNCHANGED <<engines, current, now, file, call, eng, obj, entry, audits, contested,
                       split, unsaved, cut>>
    BY <1>17 DEF Sign, At, Goto, InboxInv, ThreadsOK, auxVars
  <2>2. obj[c] \in DOMAIN heap
    BY <1>2, <2>1 DEF CallerOK, Holding
  <2>3. IsDecision(heap[obj[c]])
    BY <2>2 DEF InboxInv, HeapOK
  <2>4. IsDecision(d) /\ d.id = heap[obj[c]].id
    BY <2>3 DEF IsDecision, IsRecord, Fields
  <2> HIDE DEF d
  <2>5. DOMAIN heap' = DOMAIN heap
    BY <2>1 DEF Change
  <2>6. CallerOK(c)'
    BY <1>2, <2>1, <2>5 DEF CallerOK, Holding, Verdicts
  <2> QED
    BY <1>16, <2>1, <2>4, <2>6 DEF Holding
<1>18. CASE Act(c)
  <2>1. /\ pc[c] = "act" /\ pc'[c] = "record"
        /\ UNCHANGED <<engines, current, now, file, call, eng, obj, entry, audits, contested,
                       split, unsaved, cut>>
    BY <1>18 DEF Act, At, Goto, InboxInv, ThreadsOK, auxVars
  <2>2. obj[c] \in DOMAIN heap /\ call[c].kind \in Verdicts
    BY <1>2, <2>1 DEF CallerOK, Holding
  <2>3. PICK d : IsDecision(d) /\ d.id = heap[obj[c]].id /\ Change(c, d)
    BY <1>18, <2>2, ActChanges DEF InboxInv
  <2>4. DOMAIN heap' = DOMAIN heap
    BY <2>3 DEF Change
  <2>5. CallerOK(c)'
    BY <1>2, <2>1, <2>4 DEF CallerOK, Holding, Verdicts
  <2> QED
    BY <1>16, <2>1, <2>3, <2>5 DEF Holding
<1>19. CASE Record(c)
  <2>1. /\ EnginesOK' /\ Grown /\ DOMAIN engines' = DOMAIN engines
        /\ pc[c] = "record" /\ pc'[c] = "append" /\ entry'[c] = heap[obj[c]]
        /\ eng[c] \in DOMAIN engines /\ obj[c] \in DOMAIN heap
        /\ heap[obj[c]].id \in DOMAIN engines'[eng[c]].index
        /\ UNCHANGED <<heap, current, now, file, call, eng, obj, audits, contested, split,
                       unsaved, cut>>
    <3>1. engines'[eng[c]].index = Entered(engines[eng[c]].index, heap[obj[c]].id, obj[c])
      BY <1>19, DecisionIsEntered
    <3>2. heap[obj[c]].id \in DOMAIN engines'[eng[c]].index
      BY <3>1 DEF Entered
    <3> QED
      BY <1>19, <3>2, DecisionIsEntered
  <2>2. HeapOK' /\ FileOK' /\ HeapIds' = HeapIds /\ IsDecision(heap[obj[c]])
    BY <2>1 DEF InboxInv, HeapOK, FileOK, HeapIds
  <2>3. CallerOK(c)'
    BY <1>2, <2>1, <2>2 DEF CallerOK, Holding
  <2>4. current # 0
    BY <1>2, <2>1 DEF Starting
  <2> QED
    BY <1>4, <2>1, <2>2, <2>3, <2>4 DEF InboxInv, CountsOK
<1>20. CASE AppendLine(c)
  <2>1. /\ pc[c] = "append" /\ pc'[c] = "answer" /\ file' = WithLine(file, Line(c))
        /\ UNCHANGED <<heap, engines, current, now, call, eng, obj, entry, audits, contested,
                       split, unsaved, cut>>
    BY <1>20 DEF AppendLine, At, Goto, InboxInv, ThreadsOK, auxVars, engineVars
  <2>2. IsDecision(entry[c])
    BY <1>2, <2>1 DEF CallerOK
  <2>3. IsDecision(Line(c))
    BY <2>2 DEF Line, IsDecision, IsRecord, Fields
  <2>4. FileOK'
    BY <2>1, <2>3, WithLineIs DEF InboxInv, FileOK
  <2>5. HeapOK' /\ EnginesOK' /\ Grown /\ HeapIds' = HeapIds
    BY <2>1, NothingGrown DEF InboxInv, HeapOK, EnginesOK, IsIndex, HeapIds
  <2>6. CallerOK(c)'
    BY <1>2, <2>1 DEF CallerOK, Holding
  <2>7. current # 0
    BY <1>2, <2>1 DEF Starting
  <2> QED
    BY <1>4, <2>1, <2>4, <2>5, <2>6, <2>7 DEF InboxInv, CountsOK
<1>21. CASE AppendFails(c)
  <2>1. /\ pc[c] = "append" /\ pc'[c] = "idle" /\ file' \in {file, WithLine(file, Torn)}
        /\ call'[c] = NoCall /\ obj'[c] = 0 /\ unsaved' = unsaved \cup {entry[c].id}
        /\ UNCHANGED <<heap, engines, current, now, audits, contested, split, cut>>
    BY <1>21 DEF AppendFails, End, At, Goto, InboxInv, ThreadsOK, IsTable, engineVars
  <2>2. FileOK'
    BY <2>1, WithLineIs DEF InboxInv, FileOK
  <2>3. entry[c].id \in HeapIds
    BY <1>2, <2>1 DEF CallerOK, Holding, HeapIds
  <2>4. HeapOK' /\ EnginesOK' /\ Grown /\ HeapIds' = HeapIds
    BY <2>1, NothingGrown DEF InboxInv, HeapOK, EnginesOK, IsIndex, HeapIds
  <2>5. CallerOK(c)' /\ current # 0
    BY <1>2, <2>1 DEF CallerOK, Holding, Starting
  <2> QED
    BY <1>4, <2>1, <2>2, <2>3, <2>4, <2>5 DEF InboxInv, CountsOK
<1> QED
  BY <1>6, <1>7, <1>8, <1>9, <1>10, <1>11, <1>12, <1>13, <1>14, <1>15, <1>17, <1>18, <1>19,
     <1>20, <1>21 DEF CallStep

\* A new process begins with the file, whole or with a torn line at its end.
LEMMA RestartKeepsTypes ==
  ASSUME InboxInv, Restart
  PROVE  InboxInv'
<1>1. heap' = <<>> /\ engines' = <<>> /\ current' = 0 /\ contested' = {} /\ unsaved' = {}
      /\ split' = FALSE
      /\ UNCHANGED <<now, audits>>
  BY DEF Restart
<1>2. HeapOK' /\ EnginesOK'
  BY <1>1, EmptyIsSeq DEF HeapOK, EnginesOK
<1>3. file' = file \/ file' = WithLine(file, Torn)
  BY DEF Restart
<1>4. FileOK'
  BY <1>3, WithLineIs DEF InboxInv, FileOK
<1>5. ThreadsOK' /\ StartOK' /\ \A c \in Callers : CallerOK(c)'
  BY DEF Restart, ThreadsOK, StartOK, CallerOK, IsTable, Points, Starting, Holding
<1>6. cut' \in Nat
  <2> DEFINE S == {c \in Callers : At(c, "answer")}
  <2>1. IsFiniteSet(S)
    BY DecisionAssumption, FS_Subset
  <2>2. Cardinality(S) \in Nat
    BY <2>1, FS_CardinalityType
  <2> QED
    BY <2>2 DEF Restart, InboxInv, CountsOK
<1>7. CountsOK'
  BY <1>1, <1>6 DEF InboxInv, CountsOK
<1> QED
  BY <1>2, <1>4, <1>5, <1>7 DEF InboxInv

LEMMA TypesKept ==
  ASSUME InboxInv, [InboxNext]_inboxVars
  PROVE  InboxInv'
<1>1. CASE Tick
  <2>1. UNCHANGED <<heap, engines, current, file, pc, call, eng, obj, entry, audits, contested,
                   split, unsaved, cut>> /\ now' \in 0 .. MaxTime
    BY <1>1, DecisionAssumption DEF Tick, engineVars, threadVars, auxVars, InboxInv, CountsOK
  <2> QED
    BY <2>1 DEF InboxInv, HeapOK, EnginesOK, IsIndex, FileOK, ThreadsOK, CallerOK, CountsOK,
                HeapIds, StartOK
<1>2. CASE UNCHANGED inboxVars
  <2>1. UNCHANGED <<heap, engines, current, file, pc, call, eng, obj, entry, audits, contested,
                   split, unsaved, cut, now>>
    BY <1>2 DEF inboxVars, engineVars, threadVars, auxVars
  <2> QED
    BY <2>1 DEF InboxInv, HeapOK, EnginesOK, IsIndex, FileOK, ThreadsOK, CallerOK, CountsOK,
                HeapIds, StartOK
<1> QED
  BY <1>1, <1>2, CallKeepsTypes, RestartKeepsTypes DEF InboxNext

LEMMA TypesFromTheStart ==
  ASSUME InboxInit
  PROVE  InboxInv
<1>1. HeapOK /\ EnginesOK /\ FileOK
  BY EmptyIsSeq DEF InboxInit, HeapOK, EnginesOK, FileOK
<1>2. ThreadsOK /\ StartOK /\ \A c \in Callers : CallerOK(c)
  BY DEF InboxInit, ThreadsOK, StartOK, CallerOK, IsTable, Points, Starting, Holding
<1>3. split \in BOOLEAN
  BY DEF InboxInit
<1>4. now \in 0 .. MaxTime /\ audits \in Nat /\ cut \in Nat /\ contested = {} /\ unsaved = {}
  BY DecisionAssumption DEF InboxInit
<1>5. CountsOK
  BY <1>3, <1>4 DEF CountsOK
<1> QED
  BY <1>1, <1>2, <1>5 DEF InboxInv

LEMMA InboxInvariant == InboxSpec => []InboxInv
  BY TypesFromTheStart, TypesKept, PTL DEF InboxSpec

\* Every thread has an engine and an object exactly where it works on them, an index
\* leads to objects with the ids it is asked for, and every status is one of five.
THEOREM InboxTypeCorrect == InboxSpec => []InboxTypeOK
<1>1. InboxInv => InboxTypeOK
  BY DEF InboxInv, HeapOK, EnginesOK, IsIndex, CallerOK, CountsOK, HeapIds, IsDecision,
         Holding, InboxTypeOK
<1> QED
  BY <1>1, InboxInvariant, PTL

------------------------------------------------------------------------------
(***************************************************************************)
(* One line for each call.                                                 *)
(***************************************************************************)
Answering == {c \in Callers : At(c, "answer")}

LEMMA AnsweringIsFinite == IsFiniteSet(Answering) /\ Cardinality(Answering) \in Nat
<1>1. IsFiniteSet(Answering)
  BY DecisionAssumption, FS_Subset DEF Answering
<1> QED
  BY <1>1, FS_CardinalityType

LEMMA CallRecordsOnce ==
  ASSUME InboxInv, RecordedOnce, NEW c \in Callers, CallStep(c)
  PROVE  RecordedOnce'
<1> USE DEF At
<1>1. ThreadsOK /\ ThreadsOK' /\ \A d \in Callers \ {c} : pc'[d] = pc[d]
  BY OneThreadMoves DEF InboxInv, Same
<1>2. IsFiniteSet(Answering) /\ Cardinality(Answering) \in Nat
  BY AnsweringIsFinite
<1>3. audits \in Nat /\ cut \in Nat /\ IsSeq(file) /\ Len(file) \in Nat
  BY SizeOfSeq DEF InboxInv, CountsOK, FileOK
<1>4. Torn \notin ToSet(file) => Len(file) = audits + cut + Cardinality(Answering)
  BY DEF RecordedOnce, Answering
<1>5. ASSUME Torn \notin ToSet(file)' => file' = file, UNCHANGED <<audits, cut>>,
             pc[c] # "answer", pc'[c] # "answer"
      PROVE  RecordedOnce'
  <2>1. Answering' = Answering
    BY <1>1, <1>5 DEF Answering
  <2> QED
    BY <1>4, <1>5, <2>1 DEF RecordedOnce, Answering
<1>6. CASE AppendLine(c)
  <2>1. /\ pc[c] = "append" /\ pc'[c] = "answer" /\ file' = WithLine(file, Line(c))
        /\ UNCHANGED <<audits, cut>>
    BY <1>1, <1>6 DEF AppendLine, Goto, ThreadsOK, auxVars
  <2>2. IsDecision(Line(c))
    BY <2>1 DEF InboxInv, CallerOK, Line, IsDecision, IsRecord, Fields
  <2>3. Torn \notin ToSet(file)' => Torn \notin ToSet(file) /\ file' = Append(file, Line(c))
    BY <2>1, <2>2, WithLineIs DEF InboxInv
  <2>4. Answering' = Answering \cup {c} /\ c \notin Answering
    BY <1>1, <2>1 DEF Answering
  <2>5. Cardinality(Answering)' = Cardinality(Answering) + 1
    BY <1>2, <2>4, FS_AddElement
  <2>6. Torn \notin ToSet(file)' => Len(file)' = Len(file) + 1
    BY <1>3, <2>3, OneMore
  <2>7. Torn \notin ToSet(file)' => Len(file)' = audits' + cut' + Cardinality(Answering)'
    BY <1>2, <1>3, <1>4, <2>1, <2>3, <2>5, <2>6
  <2> QED
    BY <2>7 DEF RecordedOnce, Answering
<1>7. CASE Answer(c)
  <2>1. /\ pc[c] = "answer" /\ pc'[c] = "idle" /\ audits' = audits + 1 /\ UNCHANGED <<file, cut>>
    BY <1>1, <1>7 DEF Answer, End, Goto, ThreadsOK, auxVars
  <2>2. Answering' = Answering \ {c} /\ c \in Answering
    BY <1>1, <2>1 DEF Answering
  <2>3. Cardinality(Answering)' = Cardinality(Answering) - 1
    BY <1>2, <2>2, FS_RemoveElement
  <2>4. Torn \notin ToSet(file)' => Len(file)' = audits' + cut' + Cardinality(Answering)'
    BY <1>2, <1>3, <1>4, <2>1, <2>3
  <2> QED
    BY <2>4 DEF RecordedOnce, Answering
<1>8. CASE AppendFails(c)
  <2>1. /\ pc[c] = "append" /\ pc'[c] = "idle" /\ file' \in {file, WithLine(file, Torn)}
        /\ UNCHANGED <<audits, cut>>
    BY <1>1, <1>8 DEF AppendFails, End, Goto, ThreadsOK
  <2>2. Torn \in ToSet(WithLine(file, Torn))
    BY WithLineIs DEF InboxInv
  <2> QED
    BY <1>5, <2>1, <2>2
<1>9. CASE Begin(c)
  BY <1>1, <1>5, <1>9 DEF Begin, Goto, ThreadsOK, auxVars
<1>10. CASE BuildEngine(c)
  BY <1>1, <1>5, <1>10 DEF BuildEngine, Goto, ThreadsOK, auxVars
<1>11. CASE AssignEngine(c)
  BY <1>1, <1>5, <1>11 DEF AssignEngine, Goto, ThreadsOK, auxVars
<1>12. CASE UseEngine(c)
  BY <1>1, <1>5, <1>12 DEF UseEngine, Goto, ThreadsOK, auxVars
<1>13. CASE ReadInbox(c)
  BY <1>1, <1>5, <1>13 DEF ReadInbox, End, Goto, ThreadsOK, auxVars
<1>14. CASE Number(c)
  BY <1>1, <1>5, <1>14 DEF Number, Goto, ThreadsOK, auxVars
<1>15. CASE Draft(c)
  BY <1>1, <1>5, <1>15 DEF Draft, Goto, ThreadsOK, auxVars
<1>16. CASE Look(c)
  BY <1>1, <1>5, <1>16 DEF Look, Goto, ThreadsOK, auxVars
<1>17. CASE LookFails(c)
  BY <1>1, <1>5, <1>17 DEF LookFails, End, Goto, ThreadsOK, auxVars
<1>18. CASE Sign(c)
  BY <1>1, <1>5, <1>18 DEF Sign, Goto, ThreadsOK, auxVars
<1>19. CASE Act(c)
  BY <1>1, <1>5, <1>19 DEF Act, Goto, ThreadsOK, auxVars
<1>20. CASE Record(c)
  BY <1>1, <1>5, <1>20 DEF Record, Goto, ThreadsOK, auxVars
<1> QED
  BY <1>6, <1>7, <1>8, <1>9, <1>10, <1>11, <1>12, <1>13, <1>14, <1>15, <1>16, <1>17,
     <1>18, <1>19, <1>20 DEF CallStep

LEMMA RestartRecordsOnce ==
  ASSUME InboxInv, RecordedOnce, Restart
  PROVE  RecordedOnce'
<1>1. Torn \notin ToSet(file)' => file' = file
  BY WithLineIs DEF Restart, InboxInv
<1>2. Answering' = {} /\ Cardinality(Answering)' = 0
  BY FS_EmptySet DEF Restart, Answering, At
<1>3. cut' = cut + Cardinality(Answering) /\ UNCHANGED audits
  BY DEF Restart, Answering
<1>4. Torn \notin ToSet(file)' => Len(file)' = audits' + cut' + Cardinality(Answering)'
  BY <1>1, <1>2, <1>3, AnsweringIsFinite DEF RecordedOnce, Answering, InboxInv, CountsOK
<1> QED
  BY <1>4 DEF RecordedOnce, Answering

\* "record-once": over any number of restarts, the file has one line for each audited
\* call, for each call that has still to be audited and for each that a restart cut off
\* there, as long as no line of the file is torn.
THEOREM EveryCallRecordedOnce == InboxSpec => []RecordedOnce
<1>1. InboxInit => RecordedOnce
  <2> SUFFICES ASSUME InboxInit PROVE RecordedOnce
    OBVIOUS
  <2>1. Answering = {} /\ Cardinality(Answering) = 0
    BY FS_EmptySet DEF InboxInit, Answering, At
  <2>2. Len(file) = 0 /\ audits = 0 /\ cut = 0
    BY EmptyIsSeq DEF InboxInit
  <2>3. Len(file) = audits + cut + Cardinality(Answering)
    BY <2>1, <2>2
  <2> QED
    BY <2>3 DEF RecordedOnce, Answering
<1>2. InboxInv /\ RecordedOnce /\ [InboxNext]_inboxVars => RecordedOnce'
  <2> SUFFICES ASSUME InboxInv, RecordedOnce, [InboxNext]_inboxVars PROVE RecordedOnce'
    OBVIOUS
  <2>1. CASE Tick
    BY <2>1 DEF Tick, RecordedOnce, At, threadVars, auxVars
  <2>2. CASE UNCHANGED inboxVars
    BY <2>2 DEF inboxVars, RecordedOnce, At, threadVars, auxVars
  <2> QED
    BY <2>1, <2>2, CallRecordsOnce, RestartRecordsOnce DEF InboxNext
<1> QED
  BY <1>1, <1>2, InboxInvariant, PTL DEF InboxSpec

------------------------------------------------------------------------------
(***************************************************************************)
(* What the inbox shows and what the file says.                            *)
(***************************************************************************)
\* An entry with the status of an object is in the file, or about to be.
Written(id, o) == \E i \in DOMAIN file : file[i].id = id /\ file[i].status = heap[o].status
Coming(o) ==
  \E c \in Callers : /\ obj[c] = o
                     /\ \/ pc[c] = "record"
                        \/ pc[c] = "append" /\ entry[c].status = heap[o].status

\* In every engine, also in one that was replaced: no status that an index leads to is
\* without a trace.
Traced(id, o) == Written(id, o) \/ id \in unsaved \/ Coming(o)
TraceInv ==
  Torn \notin ToSet(file) =>
    \A e \in DOMAIN engines : \A id \in DOMAIN engines[e].index :
      Traced(id, engines[e].index[id])

\* As long as no engine was replaced, all work with the one in place.
OneEngine ==
  current # 0 /\ ~ split =>
    \A c \in Callers : pc[c] \notin Starting => eng[c] = current

\* Who works on a decision works on it alone, unless it is contested.
Alone ==
  \A c, d \in Callers : c # d => Working(c) \cap Working(d) \subseteq contested

\* What an index shows of a decision is its last entry.
Told(e, id) ==
  /\ id \in Ids(file) /\ id \in DOMAIN engines[e].index
  /\ heap[engines[e].index[id]] = file[LastEntry(file, id)]

\* The engines that have been built and not assigned yet.
BuiltInv ==
  current = 0 /\ Torn \notin ToSet(file) =>
    \A c \in Callers : pc[c] = "built" =>
      \A id \in Ids(file) \cup DOMAIN engines[eng[c]].index : Told(eng[c], id)

\* The engine in place.  Who is about to append a decision that nobody contests has put
\* it into the index and copied it as it is.
Entering(c) ==
  LET id == heap[obj[c]].id IN
  pc[c] = "append" /\ id \notin contested =>
    entry[c] = heap[obj[c]] /\ engines[current].index[id] = obj[c]

PlaceInv ==
  current # 0 /\ ~ split /\ Torn \notin ToSet(file) =>
    /\ Ids(file) \subseteq DOMAIN engines[current].index
    /\ \A c \in Callers : Entering(c)
    /\ \A id \in DOMAIN engines[current].index \ (InProgress \cup contested \cup unsaved) :
         Told(current, id)

\* The steps that leave the file and the engines alone and where no thread puts down
\* what it holds.
LEMMA TraceStays ==
  ASSUME InboxInv, TraceInv, NEW c \in Callers, \A d \in Callers \ {c} : Same(d),
         Torn \notin ToSet(file)' => file' = file /\ unsaved \subseteq unsaved',
         \A e \in DOMAIN engines' : e \in DOMAIN engines /\ engines'[e].index = engines[e].index,
         \A o \in DOMAIN heap : heap'[o].status = heap[o].status,
         \/ pc[c] \notin {"record", "append"}
         \/ pc'[c] = pc[c] /\ obj'[c] = obj[c] /\ entry'[c] = entry[c]
  PROVE  TraceInv'
<1>1. SUFFICES ASSUME Torn \notin ToSet(file)', NEW e \in DOMAIN engines',
                      NEW id \in DOMAIN engines'[e].index
               PROVE  Traced(id, engines[e].index[id])'
  BY DEF TraceInv
<1>2. PICK o : o = engines[e].index[id]
  OBVIOUS
<1>3. e \in DOMAIN engines /\ engines'[e].index = engines[e].index /\ id \in DOMAIN engines[e].index
  BY <1>1
<1>4. o \in DOMAIN heap /\ heap'[o].status = heap[o].status /\ file' = file
  BY <1>1, <1>2, <1>3 DEF InboxInv, EnginesOK, IsIndex
<1>5. Traced(id, o)
  BY <1>1, <1>2, <1>3, <1>4 DEF TraceInv
<1>6. Written(id, o) => Written(id, o)'
  BY <1>4 DEF Written
<1>7. Coming(o) => Coming(o)'
  BY <1>4 DEF Coming, Same
<1>8. Traced(id, o)'
  BY <1>1, <1>5, <1>6, <1>7 DEF Traced
<1> QED
  BY <1>2, <1>3, <1>8

LEMMA CallKeepsTrace ==
  ASSUME InboxInv, InboxInv', TraceInv, NEW c \in Callers, CallStep(c)
  PROVE  TraceInv'
<1>1. ThreadsOK /\ ThreadsOK' /\ CallerOK(c) /\ \A d \in Callers \ {c} : Same(d)
  BY OneThreadMoves DEF InboxInv
<1>2. ASSUME UNCHANGED <<heap, engines, file, unsaved>>, pc[c] \notin {"record", "append"}
      PROVE  TraceInv'
  BY <1>1, <1>2, TraceStays
<1>3. CASE Begin(c)
  BY <1>2, <1>3 DEF Begin, At, engineVars, auxVars
<1>4. CASE AssignEngine(c)
  BY <1>2, <1>4 DEF AssignEngine, At, engineVars, auxVars
<1>5. CASE UseEngine(c)
  BY <1>2, <1>5 DEF UseEngine, At, engineVars, auxVars
<1>6. CASE ReadInbox(c)
  BY <1>2, <1>6 DEF ReadInbox, At, engineVars, auxVars
<1>7. CASE LookFails(c)
  BY <1>2, <1>7 DEF LookFails, At, engineVars, auxVars
<1>8. CASE Look(c)
  BY <1>2, <1>8 DEF Look, At, engineVars, auxVars
<1>9. CASE Answer(c)
  BY <1>2, <1>9 DEF Answer, At, engineVars, auxVars
<1>10. CASE Number(c)
  <2>1. /\ pc[c] = "number" /\ engines' = [engines EXCEPT ![eng[c]].counter = @ + 1]
        /\ UNCHANGED <<heap, file, unsaved>>
    BY <1>10 DEF Number, At, auxVars
  <2>2. ASSUME NEW e \in DOMAIN engines'
        PROVE  e \in DOMAIN engines /\ engines'[e].index = engines[e].index
    <3>1. e \in DOMAIN engines /\ IsRecord(engines[e], {"index", "counter"})
      BY <2>1 DEF InboxInv, EnginesOK, IsSeq
    <3> QED
      BY <2>1, <3>1 DEF IsRecord
  <2> QED
    BY <1>1, <2>1, <2>2, TraceStays
<1>11. CASE Draft(c)
  <2>1. /\ pc[c] = "draft" /\ UNCHANGED <<engines, file, unsaved>>
        /\ \E d : heap' = Append(heap, d)
    BY <1>11 DEF Draft, At
  <2>2. \A o \in DOMAIN heap : heap'[o] = heap[o]
    BY <2>1, OneMore DEF InboxInv, HeapOK
  <2> QED
    BY <1>1, <2>1, <2>2, TraceStays
<1>12. CASE Sign(c)
  <2>1. /\ pc[c] = "sign" /\ UNCHANGED <<engines, file, unsaved>>
        /\ heap' = [heap EXCEPT ![obj[c]] = [heap[obj[c]] EXCEPT !.approver = call[c].who]]
    BY <1>12 DEF Sign, Change, At, auxVars
  <2>2. ASSUME NEW o \in DOMAIN heap PROVE heap'[o].status = heap[o].status
    <3>1. IsDecision(heap[o])
      BY DEF InboxInv, HeapOK
    <3> QED
      BY <2>1, <3>1 DEF IsDecision, IsRecord, Fields
  <2> QED
    BY <1>1, <2>1, <2>2, TraceStays
<1>13. ASSUME NEW e \in DOMAIN engines, NEW id \in DOMAIN engines[e].index,
              Torn \notin ToSet(file)
       PROVE  /\ Traced(id, engines[e].index[id]) /\ engines[e].index[id] \in DOMAIN heap
              /\ heap[engines[e].index[id]].id = id
  BY <1>13 DEF TraceInv, InboxInv, EnginesOK, IsIndex
<1>14. ASSUME Torn \notin ToSet(file)' =>
                \A e \in DOMAIN engines' : \A id \in DOMAIN engines'[e].index :
                  \A o \in {engines'[e].index[id]} : Traced(id, o)'
       PROVE  TraceInv'
  <2> SUFFICES ASSUME Torn \notin ToSet(file)', NEW e \in DOMAIN engines',
                      NEW id \in DOMAIN engines'[e].index
               PROVE  Traced(id, engines[e].index[id])'
    BY DEF TraceInv
  <2>1. PICK o : o = engines'[e].index[id]
    OBVIOUS
  <2>2. Traced(id, o)'
    BY <1>14, <2>1
  <2> QED
    BY <2>1, <2>2
<1>15. CASE BuildEngine(c)
  <2>1. SUFFICES ASSUME Torn \notin ToSet(file)', NEW e \in DOMAIN engines',
                        NEW id \in DOMAIN engines'[e].index, NEW o, o = engines'[e].index[id]
                 PROVE  Traced(id, o)'
    BY <1>14
  <2>2. /\ DOMAIN engines' = DOMAIN engines \cup {Len(engines) + 1}
        /\ \A k \in DOMAIN heap : heap'[k] = heap[k]
        /\ \A k \in DOMAIN engines : engines'[k] = engines[k]
        /\ DOMAIN engines'[Len(engines) + 1].index = Ids(Readable(file))
        /\ \A i \in Ids(Readable(file)) :
             heap'[engines'[Len(engines) + 1].index[i]]
               = Readable(file)[LastEntry(Readable(file), i)]
        /\ pc[c] = "engine" /\ UNCHANGED <<file, unsaved, obj, entry>>
    BY <1>15, EngineIsBuilt
  <2>3. Readable(file) = file /\ Torn \notin ToSet(file)
    BY <2>1, <2>2, ReadableIs DEF InboxInv
  <2>4. CASE e \in DOMAIN engines
    <3>1. engines'[e].index = engines[e].index /\ o = engines[e].index[id]
      BY <2>1, <2>2, <2>4
    <3>2. Traced(id, o) /\ o \in DOMAIN heap
      BY <1>13, <2>1, <2>3, <2>4, <3>1
    <3>3. heap'[o] = heap[o]
      BY <2>2, <3>2
    <3>4. Written(id, o) => Written(id, o)'
      BY <2>2, <3>3 DEF Written
    <3>5. Coming(o) => Coming(o)'
      BY <1>1, <2>2, <3>3 DEF Coming, Same
    <3> QED
      BY <2>2, <3>2, <3>4, <3>5 DEF Traced
  <2>5. CASE e \notin DOMAIN engines
    <3>1. e = Len(engines) + 1
      BY <2>2, <2>5
    <3>2. id \in Ids(file) /\ heap'[o] = file[LastEntry(file, id)]
      BY <2>1, <2>2, <2>3, <3>1
    <3>3. LastEntry(file, id) \in DOMAIN file /\ file[LastEntry(file, id)].id = id
      BY <3>2, LastEntryIs DEF InboxInv, FileOK
    <3>4. Written(id, o)'
      BY <2>2, <3>2, <3>3 DEF Written
    <3> QED
      BY <3>4 DEF Traced
  <2> QED
    BY <2>4, <2>5
<1>16. CASE Act(c)
  <2>1. SUFFICES ASSUME Torn \notin ToSet(file)', NEW e \in DOMAIN engines',
                        NEW id \in DOMAIN engines'[e].index, NEW o, o = engines'[e].index[id]
                 PROVE  Traced(id, o)'
    BY <1>14
  <2>2. /\ pc[c] = "act" /\ pc'[c] = "record" /\ \E d : Change(c, d)
        /\ UNCHANGED <<engines, file, unsaved, obj, entry>>
    BY <1>1, <1>16 DEF Act, At, Goto, ThreadsOK, auxVars
  <2>3. Traced(id, o)
    BY <1>13, <2>1, <2>2
  <2>4. CASE o = obj[c]
    BY <2>2, <2>4 DEF Traced, Coming
  <2>5. CASE o # obj[c]
    <3>1. heap'[o] = heap[o]
      <4>1. o \in DOMAIN heap
        BY <1>13, <2>1, <2>2
      <4> QED
        BY <2>2, <2>5, <4>1 DEF Change
    <3>2. Written(id, o) => Written(id, o)'
      BY <2>2, <3>1 DEF Written
    <3>3. Coming(o) => Coming(o)'
      BY <1>1, <2>2, <3>1 DEF Coming, Same
    <3> QED
      BY <2>2, <2>3, <3>2, <3>3 DEF Traced
  <2> QED
    BY <2>4, <2>5
<1>17. CASE Record(c)
  <2>1. SUFFICES ASSUME Torn \notin ToSet(file)', NEW e \in DOMAIN engines',
                        NEW id \in DOMAIN engines'[e].index, NEW o, o = engines'[e].index[id]
                 PROVE  Traced(id, o)'
    BY <1>14
  <2>2. /\ DOMAIN engines' = DOMAIN engines /\ pc'[c] = "append" /\ entry'[c] = heap[obj[c]]
        /\ eng[c] \in DOMAIN engines
        /\ engines'[eng[c]].index = Entered(engines[eng[c]].index, heap[obj[c]].id, obj[c])
        /\ \A k \in DOMAIN engines \ {eng[c]} : engines'[k] = engines[k]
        /\ UNCHANGED <<heap, file, obj, unsaved>>
    BY <1>17, DecisionIsEntered
  <2>3. o # obj[c] => id \in DOMAIN engines[e].index /\ o = engines[e].index[id]
    BY <2>1, <2>2 DEF Entered
  <2>4. CASE o = obj[c]
    BY <2>2, <2>4 DEF Traced, Coming
  <2>5. CASE o # obj[c]
    <3>1. Traced(id, o)
      BY <1>13, <2>1, <2>2, <2>3, <2>5
    <3>2. Coming(o) => Coming(o)'
      BY <1>1, <2>2, <2>5 DEF Coming, Same
    <3> QED
      BY <2>2, <3>1, <3>2 DEF Traced, Written
  <2> QED
    BY <2>4, <2>5
<1>18. ASSUME pc[c] = "append", UNCHANGED <<heap, engines>>, unsaved \subseteq unsaved',
              Torn \notin ToSet(file)' =>
                /\ Torn \notin ToSet(file)
                /\ \A i \in DOMAIN file : i \in DOMAIN file' /\ file'[i] = file[i]
                /\ \/ entry[c].id \in unsaved'
                   \/ \E i \in DOMAIN file' : /\ file'[i].id = entry[c].id
                                              /\ file'[i].status = entry[c].status
       PROVE  TraceInv'
  <2>1. SUFFICES ASSUME Torn \notin ToSet(file)', NEW e \in DOMAIN engines',
                        NEW id \in DOMAIN engines'[e].index, NEW o, o = engines'[e].index[id]
                 PROVE  Traced(id, o)'
    BY <1>14
  <2>2. Traced(id, o) /\ heap[o].id = id
    BY <1>13, <1>18, <2>1
  <2>3. Written(id, o) => Written(id, o)'
    BY <1>18, <2>1 DEF Written
  <2>4. CASE obj[c] = o /\ entry[c].status = heap[o].status
    <3>1. entry[c].id = id
      BY <1>1, <1>18, <2>2, <2>4 DEF CallerOK
    <3> QED
      BY <1>18, <2>1, <2>4, <3>1 DEF Traced, Written
  <2>5. CASE ~ (obj[c] = o /\ entry[c].status = heap[o].status)
    <3>1. Coming(o) => Coming(o)'
      BY <1>1, <1>18, <2>5 DEF Coming, Same
    <3> QED
      BY <1>18, <2>2, <2>3, <3>1 DEF Traced
  <2> QED
    BY <2>4, <2>5
<1>19. CASE AppendLine(c)
  <2>1. /\ pc[c] = "append" /\ file' = WithLine(file, Line(c))
        /\ UNCHANGED <<heap, engines, unsaved>>
    BY <1>19 DEF AppendLine, At, auxVars, engineVars
  <2>2. IsDecision(Line(c)) /\ Line(c).id = entry[c].id /\ Line(c).status = entry[c].status
    BY <1>1, <2>1 DEF CallerOK, Line, IsDecision, IsRecord, Fields
  <2>3. Torn \notin ToSet(file)' => Torn \notin ToSet(file) /\ file' = Append(file, Line(c))
    BY <2>1, <2>2, WithLineIs DEF InboxInv
  <2>4. /\ Len(file) + 1 \in DOMAIN Append(file, Line(c))
        /\ Append(file, Line(c))[Len(file) + 1] = Line(c)
        /\ \A i \in DOMAIN file : /\ i \in DOMAIN Append(file, Line(c))
                                  /\ Append(file, Line(c))[i] = file[i]
    BY OneMore, SizeOfSeq DEF InboxInv, FileOK
  <2> QED
    BY <1>18, <2>1, <2>2, <2>3, <2>4
<1>20. CASE AppendFails(c)
  <2>1. /\ pc[c] = "append" /\ file' \in {file, WithLine(file, Torn)}
        /\ unsaved' = unsaved \cup {entry[c].id} /\ UNCHANGED <<heap, engines>>
    BY <1>20 DEF AppendFails, At, engineVars
  <2>2. Torn \in ToSet(WithLine(file, Torn))
    BY WithLineIs DEF InboxInv
  <2> QED
    BY <1>18, <2>1, <2>2
<1> QED
  BY <1>3, <1>4, <1>5, <1>6, <1>7, <1>8, <1>9, <1>10, <1>11, <1>12, <1>15, <1>16, <1>17, <1>19,
     <1>20 DEF CallStep

LEMMA TraceInvariant == InboxSpec => [](InboxInv /\ TraceInv)
<1>1. InboxInit => TraceInv
  BY EmptyIsSeq DEF InboxInit, TraceInv
<1>2. InboxInv /\ InboxInv' /\ TraceInv /\ [InboxNext]_inboxVars => TraceInv'
  <2> SUFFICES ASSUME InboxInv, InboxInv', TraceInv, [InboxNext]_inboxVars PROVE TraceInv'
    OBVIOUS
  <2>1. CASE Tick
    BY <2>1 DEF Tick, TraceInv, Traced, Written, Coming, engineVars, threadVars, auxVars
  <2>2. CASE UNCHANGED inboxVars
    BY <2>2 DEF inboxVars, TraceInv, Traced, Written, Coming, engineVars, threadVars, auxVars
  <2>3. CASE Restart
    <3>1. DOMAIN engines' = {}
      BY <2>3, EmptyIsSeq DEF Restart
    <3> QED
      BY <3>1 DEF TraceInv
  <2> QED
    BY <2>1, <2>2, <2>3, CallKeepsTrace DEF InboxNext
<1> QED
  BY <1>1, <1>2, InboxInvariant, PTL DEF InboxSpec

\* However calls overlap, the status that the inbox shows of a decision nobody works on
\* is in the file, unless an append failed or a line is torn: no verdict without a trace,
\* not even when two threads build the engine at once.
THEOREM NoVerdictUnrecorded == InboxSpec => []NothingUnrecorded
<1>1. InboxInv /\ TraceInv => NothingUnrecorded
  <2> SUFFICES ASSUME InboxInv, TraceInv, current # 0, Torn \notin ToSet(file),
                      NEW id \in DOMAIN engines[current].index \ (InProgress \cup unsaved)
               PROVE  \E i \in DOMAIN file : file[i].id = id /\ file[i].status = Shown(id).status
    BY DEF NothingUnrecorded
  <2> DEFINE o == engines[current].index[id]
  <2>1. current \in DOMAIN engines
    BY SizeOfSeq DEF InboxInv, EnginesOK
  <2>2. Traced(id, o) /\ heap[o].id = id
    BY <2>1 DEF TraceInv, InboxInv, EnginesOK, IsIndex
  <2>3. ~ Coming(o)
    BY <2>2 DEF Coming, InProgress, Working
  <2> QED
    BY <2>2, <2>3 DEF Traced, Written, Shown
<1> QED
  BY <1>1, TraceInvariant, PTL

LEMMA CallKeepsOneEngine ==
  ASSUME InboxInv, OneEngine, NEW c \in Callers, CallStep(c)
  PROVE  OneEngine'
<1>1. ThreadsOK /\ ThreadsOK' /\ CallerOK(c) /\ \A d \in Callers \ {c} : Same(d)
  BY OneThreadMoves DEF InboxInv
<1>2. ASSUME UNCHANGED <<current, split>>,
             current # 0 /\ ~ split => pc'[c] \in Starting \/ eng'[c] = current
      PROVE  OneEngine'
  BY <1>1, <1>2 DEF OneEngine, Same
<1>3. CASE AssignEngine(c)
  <2>1. current' # 0 /\ ~ split' => current = 0 /\ pc'[c] \in Starting
    BY <1>1, <1>3 DEF AssignEngine, Goto, ThreadsOK, Starting
  <2>2. current = 0 => \A d \in Callers \ {c} : pc'[d] \in Starting
    BY <1>1 DEF InboxInv, StartOK, Same
  <2> QED
    BY <2>1, <2>2 DEF OneEngine
<1>4. CASE BuildEngine(c)
  <2>1. current = 0 /\ UNCHANGED <<current, split>>
    BY <1>4, EngineIsBuilt
  <2> QED
    BY <1>2, <2>1
<1>5. ASSUME pc[c] \notin Starting, UNCHANGED <<current, split>>,
             pc'[c] \in Starting \/ eng'[c] = eng[c]
      PROVE  OneEngine'
  BY <1>2, <1>5 DEF OneEngine
<1>6. CASE Begin(c)
  BY <1>1, <1>2, <1>6
     DEF Begin, At, Goto, ThreadsOK, IsTable, Starting, engineVars, auxVars
<1>7. CASE UseEngine(c)
  BY <1>1, <1>2, <1>7
     DEF UseEngine, At, Goto, ThreadsOK, IsTable, Starting, engineVars, auxVars
<1>8. CASE ReadInbox(c)
  BY <1>1, <1>2, <1>8
     DEF ReadInbox, End, At, Goto, ThreadsOK, IsTable, Starting, engineVars, auxVars
<1>9. CASE Number(c)
  BY <1>1, <1>5, <1>9
     DEF Number, At, Goto, ThreadsOK, IsTable, Starting, engineVars, auxVars
<1>10. CASE Draft(c)
  BY <1>1, <1>5, <1>10
     DEF Draft, At, Goto, ThreadsOK, IsTable, Starting, engineVars, auxVars
<1>11. CASE Look(c)
  BY <1>1, <1>5, <1>11
     DEF Look, At, Goto, ThreadsOK, IsTable, Starting, engineVars, auxVars
<1>12. CASE LookFails(c)
  BY <1>1, <1>5, <1>12
     DEF LookFails, End, At, Goto, ThreadsOK, IsTable, Starting, engineVars, auxVars
<1>13. CASE Sign(c)
  BY <1>1, <1>5, <1>13
     DEF Sign, At, Goto, ThreadsOK, IsTable, Starting, engineVars, auxVars
<1>14. CASE Act(c)
  BY <1>1, <1>5, <1>14
     DEF Act, At, Goto, ThreadsOK, IsTable, Starting, engineVars, auxVars
<1>15. CASE Record(c)
  BY <1>1, <1>5, <1>15
     DEF Record, At, Goto, ThreadsOK, IsTable, Starting, engineVars, auxVars
<1>16. CASE AppendLine(c)
  BY <1>1, <1>5, <1>16
     DEF AppendLine, At, Goto, ThreadsOK, IsTable, Starting, engineVars, auxVars
<1>17. CASE AppendFails(c)
  BY <1>1, <1>5, <1>17
     DEF AppendFails, End, At, Goto, ThreadsOK, IsTable, Starting, engineVars, auxVars
<1>18. CASE Answer(c)
  BY <1>1, <1>5, <1>18
     DEF Answer, End, At, Goto, ThreadsOK, IsTable, Starting, engineVars, auxVars
<1> QED
  BY <1>3, <1>4, <1>6, <1>7, <1>8, <1>9, <1>10, <1>11, <1>12, <1>13, <1>14, <1>15, <1>16,
     <1>17, <1>18 DEF CallStep

\* What others work on.
LEMMA WorkKept ==
  ASSUME InboxInv, Grown, NEW d \in Callers, Same(d)
  PROVE  Working(d)' = Working(d)
<1>1. pc[d] \in Holding => obj[d] \in DOMAIN heap
  BY DEF InboxInv, CallerOK
<1>2. pc'[d] = pc[d] /\ obj'[d] = obj[d]
  BY DEF Same
<1>3. pc[d] \in Holding => heap'[obj[d]].id = heap[obj[d]].id
  BY <1>1 DEF Grown
<1> QED
  BY <1>2, <1>3 DEF Working, Holding

\* A thread that begins to work on a decision that another one works on contests it.
LEMMA CallKeepsAlone ==
  ASSUME InboxInv, Alone, NEW c \in Callers, CallStep(c)
  PROVE  Alone' /\ contested \subseteq contested'
<1>1. ThreadsOK /\ ThreadsOK' /\ CallerOK(c) /\ \A d \in Callers \ {c} : Same(d)
  BY OneThreadMoves DEF InboxInv
<1>2. Grown
  BY CallKeepsTypes
<1>3. \A d \in Callers \ {c} : Working(d)' = Working(d)
  BY <1>1, <1>2, WorkKept
<1>4. ASSUME contested \subseteq contested',
             \A d \in Callers \ {c} : Working(c)' \cap Working(d) \subseteq contested'
      PROVE  Alone' /\ contested \subseteq contested'
  BY <1>3, <1>4 DEF Alone
<1>5. ASSUME UNCHANGED contested, Working(c)' \subseteq Working(c)
      PROVE  Alone' /\ contested \subseteq contested'
  BY <1>4, <1>5 DEF Alone
<1>6. ASSUME UNCHANGED contested, pc'[c] \notin {"sign", "act", "record", "append"}
      PROVE  Alone' /\ contested \subseteq contested'
  <2>1. Working(c)' = {}
    BY <1>6 DEF Working
  <2> QED
    BY <1>5, <1>6, <2>1
<1>7. ASSUME UNCHANGED <<contested, obj>>, pc[c] \in {"sign", "act", "record", "append"}
      PROVE  Alone' /\ contested \subseteq contested'
  <2>1. heap'[obj'[c]].id = heap[obj[c]].id
    BY <1>1, <1>2, <1>7 DEF CallerOK, Holding, Grown
  <2>2. Working(c)' \subseteq Working(c)
    BY <1>7, <2>1 DEF Working
  <2> QED
    BY <1>5, <1>7, <2>2
<1>8. ASSUME NEW id, Contest(c, id), Working(c)' = {id}
      PROVE  Alone' /\ contested \subseteq contested'
  BY <1>4, <1>8 DEF Contest
<1>9. CASE Draft(c)
  <2>1. PICK id : id = <<now, engines[eng[c]].counter>>
    OBVIOUS
  <2>2. PICK d : heap' = Append(heap, d) /\ d.id = id
    BY <1>9, <2>1 DEF Draft
  <2>3. heap'[Len(heap) + 1] = d
    BY <2>2, OneMore DEF InboxInv, HeapOK
  <2>4. Contest(c, id) /\ obj'[c] = Len(heap) + 1 /\ pc'[c] = "record"
    BY <1>1, <1>9, <2>1 DEF Draft, Goto, ThreadsOK, IsTable
  <2>5. Working(c)' = {id}
    BY <2>2, <2>3, <2>4 DEF Working
  <2> QED
    BY <1>8, <2>4, <2>5
<1>10. CASE Look(c)
  <2>1. PICK o : o = engines[eng[c]].index[call[c].id]
    OBVIOUS
  <2>2. PICK id : id = heap[o].id
    OBVIOUS
  <2>3. /\ Contest(c, id) /\ obj'[c] = o /\ pc'[c] \in {"sign", "act"} /\ UNCHANGED heap
    BY <1>1, <1>10, <2>1, <2>2 DEF Look, Goto, ThreadsOK, IsTable, engineVars
  <2>4. Working(c)' = {id}
    BY <2>2, <2>3 DEF Working
  <2> QED
    BY <1>8, <2>3, <2>4
<1>11. CASE Begin(c)
  BY <1>1, <1>6, <1>11
     DEF Begin, At, Goto, ThreadsOK, auxVars
<1>12. CASE BuildEngine(c)
  BY <1>1, <1>6, <1>12
     DEF BuildEngine, At, Goto, ThreadsOK, auxVars
<1>13. CASE AssignEngine(c)
  BY <1>1, <1>6, <1>13
     DEF AssignEngine, At, Goto, ThreadsOK, auxVars
<1>14. CASE UseEngine(c)
  BY <1>1, <1>6, <1>14
     DEF UseEngine, At, Goto, ThreadsOK, auxVars
<1>15. CASE ReadInbox(c)
  BY <1>1, <1>6, <1>15
     DEF ReadInbox, End, At, Goto, ThreadsOK, auxVars
<1>16. CASE Number(c)
  BY <1>1, <1>6, <1>16
     DEF Number, At, Goto, ThreadsOK, auxVars
<1>17. CASE LookFails(c)
  BY <1>1, <1>6, <1>17
     DEF LookFails, End, At, Goto, ThreadsOK, auxVars
<1>18. CASE Sign(c)
  BY <1>1, <1>7, <1>18
     DEF Sign, At, Goto, ThreadsOK, auxVars
<1>19. CASE Act(c)
  BY <1>1, <1>7, <1>19
     DEF Act, At, Goto, ThreadsOK, auxVars
<1>20. CASE Record(c)
  BY <1>1, <1>7, <1>20
     DEF Record, At, Goto, ThreadsOK, auxVars
<1>21. CASE AppendLine(c)
  BY <1>1, <1>6, <1>21
     DEF AppendLine, At, Goto, ThreadsOK, auxVars
<1>22. CASE AppendFails(c)
  BY <1>1, <1>6, <1>22
     DEF AppendFails, End, At, Goto, ThreadsOK, auxVars
<1>23. CASE Answer(c)
  BY <1>1, <1>6, <1>23
     DEF Answer, End, At, Goto, ThreadsOK, auxVars
<1> QED
  BY <1>9, <1>10, <1>11, <1>12, <1>13, <1>14, <1>15, <1>16, <1>17, <1>18, <1>19, <1>20, <1>21,
     <1>22, <1>23 DEF CallStep

\* The last entries after an append.
LEMMA LastEntryAfter ==
  ASSUME NEW s, IsSeq(s), NEW l
  PROVE  /\ Ids(Append(s, l)) = Ids(s) \cup {l.id}
         /\ Append(s, l)[LastEntry(Append(s, l), l.id)] = l
         /\ \A id \in Ids(s) \ {l.id} :
              Append(s, l)[LastEntry(Append(s, l), id)] = s[LastEntry(s, id)]
<1> DEFINE a == Append(s, l)
<1>1. /\ IsSeq(a) /\ DOMAIN a = 1 .. Len(s) + 1 /\ a[Len(s) + 1] = l
      /\ \A i \in DOMAIN s : a[i] = s[i]
  BY OneMore
<1>2. Len(s) \in Nat /\ DOMAIN s = 1 .. Len(s)
  BY SizeOfSeq
<1> HIDE DEF a
<1>3. DOMAIN a = DOMAIN s \cup {Len(s) + 1}
  BY <1>1, <1>2
<1>4. Ids(a) = Ids(s) \cup {l.id}
  BY <1>1, <1>3 DEF Ids
<1>5. a[LastEntry(a, l.id)] = l
  <2>1. LastEntry(a, l.id) \in DOMAIN a /\ LastEntry(a, l.id) >= Len(s) + 1
    BY <1>1, <1>3, <1>4, LastEntryIs
  <2>2. LastEntry(a, l.id) = Len(s) + 1
    BY <1>1, <1>2, <2>1
  <2> QED
    BY <1>1, <2>2
<1>6. ASSUME NEW id \in Ids(s) \ {l.id}
      PROVE  a[LastEntry(a, id)] = s[LastEntry(s, id)]
  <2>1. /\ LastEntry(a, id) \in DOMAIN a /\ a[LastEntry(a, id)].id = id
        /\ \A i \in DOMAIN a : a[i].id = id => LastEntry(a, id) >= i
    BY <1>1, <1>4, LastEntryIs
  <2>2. /\ LastEntry(s, id) \in DOMAIN s /\ s[LastEntry(s, id)].id = id
        /\ \A i \in DOMAIN s : s[i].id = id => LastEntry(s, id) >= i
    BY LastEntryIs
  <2>3. LastEntry(a, id) \in DOMAIN s
    BY <1>1, <1>3, <2>1
  <2>4. LastEntry(s, id) >= LastEntry(a, id) /\ LastEntry(a, id) >= LastEntry(s, id)
    BY <1>1, <1>3, <2>1, <2>2, <2>3
  <2>5. LastEntry(s, id) = LastEntry(a, id)
    BY <1>2, <2>2, <2>3, <2>4
  <2> QED
    BY <1>1, <2>3, <2>5
<1> QED
  BY <1>4, <1>5, <1>6 DEF a

\* What is built before an engine is in place stays as the file tells it.
LEMMA CallKeepsBuilt ==
  ASSUME InboxInv, InboxInv', BuiltInv, NEW c \in Callers, CallStep(c)
  PROVE  BuiltInv'
<1>1. ThreadsOK /\ ThreadsOK' /\ CallerOK(c) /\ \A d \in Callers \ {c} : Same(d)
  BY OneThreadMoves DEF InboxInv
<1>2. SUFFICES ASSUME current' = 0, Torn \notin ToSet(file)', NEW d \in Callers, pc'[d] = "built",
                      NEW id \in Ids(file)' \cup DOMAIN engines'[eng'[d]].index
               PROVE  Told(eng[d], id)'
  BY DEF BuiltInv
<1>3. CASE Begin(c)
  <2>1. UNCHANGED <<current, file, heap, engines, eng>> /\ pc'[c] = "engine"
    BY <1>1, <1>3 DEF Begin, Goto, ThreadsOK, engineVars
  <2>2. pc[d] = "built"
    BY <1>1, <1>2, <2>1 DEF Same
  <2>3. Told(eng[d], id)
    BY <1>2, <2>1, <2>2 DEF BuiltInv
  <2> QED
    BY <2>1, <2>3 DEF Told
<1>4. CASE BuildEngine(c)
  <2>1. /\ eng'[c] = Len(engines) + 1 /\ current = 0 /\ Len(engines) + 1 \notin DOMAIN engines
        /\ \A k \in DOMAIN heap : heap'[k] = heap[k]
        /\ \A k \in DOMAIN engines : engines'[k] = engines[k]
        /\ DOMAIN engines'[Len(engines) + 1].index = Ids(Readable(file))
        /\ \A i \in Ids(Readable(file)) :
             heap'[engines'[Len(engines) + 1].index[i]]
               = Readable(file)[LastEntry(Readable(file), i)]
        /\ UNCHANGED file
    BY <1>4, EngineIsBuilt
  <2>2. Readable(file) = file /\ Torn \notin ToSet(file)
    BY <1>2, <2>1, ReadableIs DEF InboxInv
  <2>3. CASE d = c
    <3>1. /\ DOMAIN engines'[eng'[d]].index = Ids(file)
          /\ \A i \in Ids(file) : heap'[engines'[eng'[d]].index[i]] = file[LastEntry(file, i)]
      BY <2>1, <2>2, <2>3
    <3>2. id \in Ids(file)
      BY <1>2, <2>1, <3>1
    <3> QED
      BY <2>1, <3>1, <3>2 DEF Told
  <2>4. CASE d # c
    <3>1. eng'[d] = eng[d] /\ pc[d] = "built" /\ eng[d] \in DOMAIN engines
      BY <1>1, <1>2, <2>4 DEF Same, InboxInv, CallerOK
    <3>2. engines'[eng[d]] = engines[eng[d]] /\ id \in Ids(file) \cup DOMAIN engines[eng[d]].index
      BY <1>2, <2>1, <3>1
    <3>3. Told(eng[d], id)
      BY <2>1, <2>2, <3>1, <3>2 DEF BuiltInv
    <3>4. engines[eng[d]].index[id] \in DOMAIN heap
      BY <3>1, <3>3 DEF Told, InboxInv, EnginesOK, IsIndex
    <3>5. heap'[engines'[eng'[d]].index[id]] = heap[engines[eng[d]].index[id]]
      BY <2>1, <3>1, <3>2, <3>4
    <3> QED
      BY <2>1, <3>1, <3>2, <3>3, <3>5 DEF Told
  <2> QED
    BY <2>3, <2>4
<1>5. CASE AssignEngine(c)
  <2>1. current' = eng[c] /\ eng[c] \in DOMAIN engines
    BY <1>1, <1>5 DEF AssignEngine, At, CallerOK
  <2> QED
    BY <1>2, <2>1, SizeOfSeq DEF InboxInv, EnginesOK
<1>6. ASSUME current # 0, UNCHANGED current
      PROVE  FALSE
  BY <1>2, <1>6
<1>7. pc[c] \notin Starting => current # 0
  BY DEF InboxInv, StartOK
<1>8. CASE UseEngine(c)
  BY <1>6, <1>8 DEF UseEngine, engineVars
<1>9. CASE ReadInbox(c)
  BY <1>6, <1>9 DEF ReadInbox, engineVars
<1>10. CASE Number(c)
  BY <1>6, <1>7, <1>10 DEF Number, At, Starting, engineVars
<1>11. CASE Draft(c)
  BY <1>6, <1>7, <1>11 DEF Draft, At, Starting, engineVars
<1>12. CASE Look(c)
  BY <1>6, <1>7, <1>12 DEF Look, At, Starting, engineVars
<1>13. CASE LookFails(c)
  BY <1>6, <1>7, <1>13 DEF LookFails, At, Starting, engineVars
<1>14. CASE Sign(c)
  BY <1>6, <1>7, <1>14 DEF Sign, At, Starting, engineVars
<1>15. CASE Act(c)
  BY <1>6, <1>7, <1>15 DEF Act, At, Starting, engineVars
<1>16. CASE Record(c)
  BY <1>6, <1>7, <1>16 DEF Record, At, Starting, engineVars
<1>17. CASE AppendLine(c)
  BY <1>6, <1>7, <1>17 DEF AppendLine, At, Starting, engineVars
<1>18. CASE AppendFails(c)
  BY <1>6, <1>7, <1>18 DEF AppendFails, At, Starting, engineVars
<1>19. CASE Answer(c)
  BY <1>6, <1>7, <1>19 DEF Answer, At, Starting, engineVars
<1> QED
  BY <1>3, <1>4, <1>5, <1>8, <1>9, <1>10, <1>11, <1>12, <1>13, <1>14, <1>15, <1>16, <1>17,
     <1>18, <1>19 DEF CallStep

InboxIInv == InboxInv /\ OneEngine /\ Alone /\ BuiltInv /\ PlaceInv

\* The steps that leave the file and the index alone and every object but those that the
\* thread works on.
LEMMA PlaceStays ==
  ASSUME InboxIInv, InboxInv', Alone', contested \subseteq contested', Grown,
         NEW c \in Callers, \A d \in Callers \ {c} : Same(d),
         UNCHANGED <<current, split>>, unsaved \subseteq unsaved',
         Torn \notin ToSet(file)' => file' = file,
         current # 0 => engines'[current].index = engines[current].index,
         \A o \in DOMAIN heap : heap[o].id \notin Working(c) => heap'[o] = heap[o],
         pc'[c] # "append",
         Working(c) \subseteq Working(c)' \cup unsaved'
  PROVE  PlaceInv'
<1>1. SUFFICES ASSUME current # 0, ~ split, Torn \notin ToSet(file), file' = file
               PROVE  PlaceInv'
  BY DEF PlaceInv
<1>2. PICK e : e = current
  OBVIOUS
<1>3. e \in DOMAIN engines /\ current' = e /\ engines'[e].index = engines[e].index
  BY <1>1, <1>2, SizeOfSeq DEF InboxIInv, InboxInv, EnginesOK
<1>4. Ids(file) \subseteq DOMAIN engines[e].index
  BY <1>1, <1>2 DEF InboxIInv, PlaceInv
<1>5. \A d \in Callers \ {c} : Working(d)' = Working(d)
  BY WorkKept DEF InboxIInv
<1>6. ASSUME NEW d \in Callers PROVE Entering(d)'
  <2>1. CASE d = c
    BY <2>1 DEF Entering
  <2>2. CASE d # c
    <3>1. SUFFICES ASSUME pc'[d] = "append", heap'[obj'[d]].id \notin contested'
                   PROVE  /\ entry'[d] = heap'[obj'[d]]
                          /\ engines'[e].index[heap'[obj'[d]].id] = obj'[d]
      BY <1>3 DEF Entering
    <3>2. pc[d] = "append" /\ obj'[d] = obj[d] /\ entry'[d] = entry[d] /\ obj[d] \in DOMAIN heap
      BY <2>2, <3>1 DEF Same, InboxIInv, InboxInv, CallerOK, Holding
    <3>3. heap'[obj[d]].id = heap[obj[d]].id /\ heap[obj[d]].id \notin contested
      BY <3>1, <3>2 DEF Grown
    <3>4. heap[obj[d]].id \in Working(d)
      BY <3>2 DEF Working
    <3>5. heap[obj[d]].id \notin Working(c)
      BY <2>2, <3>3, <3>4 DEF InboxIInv, Alone
    <3>6. heap'[obj[d]] = heap[obj[d]]
      BY <3>2, <3>5
    <3>7. entry[d] = heap[obj[d]] /\ engines[e].index[heap[obj[d]].id] = obj[d]
      BY <1>1, <1>2, <3>2, <3>3 DEF InboxIInv, PlaceInv, Entering
    <3> QED
      BY <1>3, <3>2, <3>3, <3>6, <3>7
  <2> QED
    BY <2>1, <2>2
<1>7. ASSUME NEW id \in DOMAIN engines[e].index, id \notin InProgress', id \notin contested',
             id \notin unsaved'
      PROVE  Told(e, id)'
  <2>1. id \notin contested /\ id \notin unsaved
    BY <1>7
  <2>2. \A d \in Callers : id \notin Working(d)
    BY <1>5, <1>7 DEF InProgress
  <2>3. Told(e, id)
    BY <1>1, <1>2, <1>7, <2>1, <2>2 DEF InboxIInv, PlaceInv, InProgress
  <2>4. engines[e].index[id] \in DOMAIN heap /\ heap[engines[e].index[id]].id = id
    BY <1>3, <1>7 DEF InboxIInv, InboxInv, EnginesOK, IsIndex
  <2>5. heap'[engines[e].index[id]] = heap[engines[e].index[id]]
    BY <2>2, <2>4
  <2> QED
    BY <1>1, <1>3, <2>3, <2>5 DEF Told
<1>8. \A id \in DOMAIN engines'[e].index \ (InProgress' \cup contested' \cup unsaved') :
        Told(e, id)'
  BY <1>3, <1>7
<1>9. (\A id \in DOMAIN engines[e].index \ (InProgress \cup contested \cup unsaved) :
        Told(e, id))'
  BY <1>8
<1> QED
  BY <1>1, <1>3, <1>4, <1>6, <1>9 DEF PlaceInv

LEMMA CallKeepsPlace ==
  ASSUME InboxIInv, InboxInv', OneEngine', Alone', contested \subseteq contested', Grown,
         NEW c \in Callers, CallStep(c)
  PROVE  PlaceInv'
<1>1. /\ ThreadsOK /\ ThreadsOK' /\ CallerOK(c) /\ \A d \in Callers \ {c} : Same(d)
      /\ InboxInv /\ Alone /\ PlaceInv
  BY OneThreadMoves DEF InboxIInv, InboxInv
<1>2. ASSUME UNCHANGED <<current, split, file, heap>>, unsaved \subseteq unsaved',
             current # 0 => engines'[current].index = engines[current].index,
             pc'[c] # "append", Working(c) \subseteq Working(c)' \cup unsaved'
      PROVE  PlaceInv'
  BY <1>1, <1>2, PlaceStays
<1>3. ASSUME pc[c] \notin {"sign", "act", "record", "append"}
      PROVE  Working(c) = {}
  BY <1>3 DEF Working
<1>4. CASE Begin(c)
  BY <1>1, <1>2, <1>3, <1>4 DEF Begin, At, Goto, ThreadsOK, engineVars, auxVars
<1>5. CASE UseEngine(c)
  BY <1>1, <1>2, <1>3, <1>5 DEF UseEngine, At, Goto, ThreadsOK, engineVars, auxVars
<1>6. CASE ReadInbox(c)
  BY <1>1, <1>2, <1>3, <1>6 DEF ReadInbox, End, At, Goto, ThreadsOK, engineVars, auxVars
<1>7. CASE LookFails(c)
  BY <1>1, <1>2, <1>3, <1>7 DEF LookFails, End, At, Goto, ThreadsOK, engineVars, auxVars
<1>8. CASE Answer(c)
  BY <1>1, <1>2, <1>3, <1>8 DEF Answer, End, At, Goto, ThreadsOK, engineVars, auxVars
<1>9. CASE Number(c)
  <2>1. /\ engines' = [engines EXCEPT ![eng[c]].counter = @ + 1] /\ pc[c] = "number"
        /\ pc'[c] = "draft" /\ UNCHANGED <<current, split, file, heap, unsaved>>
    BY <1>1, <1>9 DEF Number, At, Goto, ThreadsOK, auxVars
  <2>2. ASSUME current # 0 PROVE engines'[current].index = engines[current].index
    <3>1. current \in DOMAIN engines
      BY <2>2, SizeOfSeq DEF InboxIInv, InboxInv, EnginesOK
    <3>2. IsRecord(engines[current], {"index", "counter"})
      BY <1>1, <3>1 DEF InboxInv, EnginesOK
    <3> QED
      BY <2>1, <3>1, <3>2 DEF IsRecord
  <2> QED
    BY <1>2, <1>3, <2>1, <2>2
<1>10. CASE Draft(c)
  <2>1. /\ \E d : heap' = Append(heap, d)
        /\ pc[c] = "draft" /\ pc'[c] = "record"
        /\ UNCHANGED <<engines, current, split, file, unsaved>>
    BY <1>1, <1>10 DEF Draft, At, Goto, ThreadsOK
  <2>2. \A o \in DOMAIN heap : heap'[o] = heap[o]
    BY <1>1, <2>1, OneMore DEF InboxInv, HeapOK
  <2> QED
    BY <1>1, <1>3, <2>1, <2>2, PlaceStays
<1>11. CASE Look(c)
  BY <1>1, <1>2, <1>3, <1>11 DEF Look, At, Goto, ThreadsOK, engineVars
<1>12. ASSUME \E d : Change(c, d), pc[c] \in {"sign", "act"}, pc'[c] \in {"act", "record"},
              UNCHANGED <<engines, current, split, file, unsaved, obj>>
       PROVE  PlaceInv'
  <2>1. Working(c) = {heap[obj[c]].id} /\ obj[c] \in DOMAIN heap
    BY <1>1, <1>12 DEF Working, CallerOK, Holding
  <2>2. Working(c)' = {heap[obj[c]].id}
    BY <1>12, <2>1 DEF Working, Grown
  <2>3. \A o \in DOMAIN heap : heap[o].id \notin Working(c) => heap'[o] = heap[o]
    BY <1>12, <2>1 DEF Change
  <2> QED
    BY <1>1, <1>12, <2>1, <2>2, <2>3, PlaceStays
<1>13. CASE Sign(c)
  BY <1>1, <1>12, <1>13 DEF Sign, At, Goto, ThreadsOK, auxVars
<1>14. CASE Act(c)
  <2>1. \E d : Change(c, d)
    BY <1>14 DEF Act
  <2> QED
    BY <1>1, <1>12, <1>14, <2>1 DEF Act, At, Goto, ThreadsOK, auxVars
<1>15. CASE AppendFails(c)
  <2>1. /\ pc[c] = "append" /\ pc'[c] = "idle" /\ file' \in {file, WithLine(file, Torn)}
        /\ unsaved' = unsaved \cup {entry[c].id}
        /\ UNCHANGED <<heap, engines, current, split>>
    BY <1>1, <1>15 DEF AppendFails, End, At, Goto, ThreadsOK, engineVars
  <2>2. Torn \in ToSet(WithLine(file, Torn))
    BY <1>1, WithLineIs DEF InboxInv
  <2>3. Working(c) = {entry[c].id}
    BY <1>1, <2>1 DEF Working, CallerOK
  <2> QED
    BY <1>1, <2>1, <2>2, <2>3, PlaceStays
<1>16. CASE BuildEngine(c)
  <2>1. current' = 0
    BY <1>1, <1>16, EngineIsBuilt
  <2> QED
    BY <2>1 DEF PlaceInv
<1>17. CASE AssignEngine(c)
  <2>1. SUFFICES ASSUME ~ split', Torn \notin ToSet(file)'
                 PROVE  PlaceInv'
    BY DEF PlaceInv
  <2>2. PICK e : e = eng[c]
    OBVIOUS
  <2>3. /\ pc[c] = "built" /\ pc'[c] = "engine" /\ current = 0 /\ current' = e
        /\ UNCHANGED <<heap, engines, file>>
    BY <1>1, <1>17, <2>1, <2>2 DEF AssignEngine, At, Goto, ThreadsOK
  <2>4. \A id \in Ids(file) \cup DOMAIN engines[e].index : Told(e, id)
    BY <2>1, <2>2, <2>3 DEF InboxIInv, BuiltInv
  <2>5. \A d \in Callers : pc'[d] # "append"
    BY <1>1, <2>3 DEF InboxInv, StartOK, Starting, Same
  <2>6. \A d \in Callers : Entering(d)'
    BY <2>5 DEF Entering
  <2>7. \A id \in Ids(file) \cup DOMAIN engines[e].index : Told(e, id)'
    BY <2>3, <2>4 DEF Told
  <2>8. Ids(file) \subseteq DOMAIN engines[e].index
    BY <2>4 DEF Told
  <2> QED
    BY <2>3, <2>6, <2>7, <2>8 DEF PlaceInv
<1>18. CASE Record(c)
  <2>1. SUFFICES ASSUME current # 0, ~ split, Torn \notin ToSet(file)
                 PROVE  PlaceInv'
    BY <1>1, <1>18, DecisionIsEntered DEF PlaceInv
  <2>2. PICK e : e = current
    OBVIOUS
  <2>3. PICK it : it = heap[obj[c]].id
    OBVIOUS
  <2>4. /\ pc[c] = "record" /\ pc'[c] = "append" /\ entry'[c] = heap[obj[c]]
        /\ eng[c] \in DOMAIN engines /\ obj[c] \in DOMAIN heap
        /\ engines'[eng[c]].index = Entered(engines[eng[c]].index, it, obj[c])
        /\ UNCHANGED <<heap, current, file, obj, contested, unsaved>>
    BY <1>1, <1>18, <2>3, DecisionIsEntered
  <2>5. eng[c] = e
    BY <2>1, <2>2, <2>4 DEF InboxIInv, OneEngine, Starting
  <2>6. /\ DOMAIN engines'[e].index = DOMAIN engines[e].index \cup {it}
        /\ engines'[e].index[it] = obj[c]
        /\ \A id \in DOMAIN engines[e].index \ {it} : engines'[e].index[id] = engines[e].index[id]
    BY <2>4, <2>5 DEF Entered
  <2>7. Ids(file) \subseteq DOMAIN engines'[e].index
    BY <1>1, <2>1, <2>2, <2>6 DEF PlaceInv
  <2>8. it \in Working(c) /\ it \in Working(c)'
    BY <2>3, <2>4 DEF Working
  <2>9. \A d \in Callers \ {c} : Working(d)' = Working(d)
    BY <1>1, WorkKept
  <2>10. ASSUME NEW d \in Callers PROVE Entering(d)'
    <3>1. CASE d = c
      BY <2>2, <2>3, <2>4, <2>6, <3>1 DEF Entering
    <3>2. CASE d # c
      <4>1. SUFFICES ASSUME pc[d] = "append", heap[obj[d]].id \notin contested
                     PROVE  /\ entry[d] = heap[obj[d]]
                            /\ engines'[e].index[heap[obj[d]].id] = obj[d]
        BY <1>1, <2>2, <2>4, <3>2 DEF Entering, Same
      <4>2. heap[obj[d]].id # it
        BY <1>1, <2>8, <3>2, <4>1 DEF Alone, Working
      <4>3. entry[d] = heap[obj[d]] /\ engines[e].index[heap[obj[d]].id] = obj[d]
        BY <1>1, <2>1, <2>2, <4>1 DEF PlaceInv, Entering
      <4>4. heap[obj[d]].id \in DOMAIN engines[e].index
        <5>1. eng[d] = e
          BY <2>1, <2>2, <4>1 DEF InboxIInv, OneEngine, Starting
        <5>2. entry[d].id = heap[obj[d]].id /\ entry[d].id \in DOMAIN engines[eng[d]].index
          BY <1>1, <4>1 DEF InboxInv, CallerOK
        <5> QED
          BY <5>1, <5>2
      <4> QED
        BY <2>6, <4>2, <4>3, <4>4
    <3> QED
      BY <3>1, <3>2
  <2>11. ASSUME NEW id \in DOMAIN engines'[e].index, id \notin InProgress', id \notin contested,
                id \notin unsaved
         PROVE  Told(e, id)'
    <3>1. \A d \in Callers : id \notin Working(d)
      <4>1. \A d \in Callers \ {c} : id \notin Working(d)
        BY <2>9, <2>11 DEF InProgress
      <4>2. id # it
        BY <2>8, <2>11 DEF InProgress
      <4>3. Working(c) = {it}
        BY <2>3, <2>4 DEF Working
      <4> QED
        BY <4>1, <4>2, <4>3
    <3>2. id # it /\ id \in DOMAIN engines[e].index
      BY <2>6, <2>8, <2>11, <3>1
    <3>3. Told(e, id)
      BY <1>1, <2>1, <2>2, <2>11, <3>1, <3>2 DEF PlaceInv, InProgress
    <3> QED
      BY <2>4, <2>6, <3>2, <3>3 DEF Told
  <2>12. (\A id \in DOMAIN engines[e].index \ (InProgress \cup contested \cup unsaved) :
           Told(e, id))'
    BY <2>4, <2>11
  <2> QED
    BY <2>2, <2>4, <2>7, <2>10, <2>12 DEF PlaceInv
<1>19. CASE AppendLine(c)
  <2>1. /\ pc[c] = "append" /\ pc'[c] = "answer" /\ file' = WithLine(file, Line(c))
        /\ UNCHANGED <<heap, engines, current, obj, entry, contested, split, unsaved>>
    BY <1>1, <1>19 DEF AppendLine, At, Goto, ThreadsOK, auxVars, engineVars
  <2>2. IsDecision(Line(c)) /\ Line(c).id = entry[c].id
    BY <1>1, <2>1 DEF CallerOK, Line, IsDecision, IsRecord, Fields
  <2>3. Torn \notin ToSet(file)' => Torn \notin ToSet(file) /\ file' = Append(file, Line(c))
    BY <1>1, <2>1, <2>2, WithLineIs DEF InboxInv
  <2>4. SUFFICES ASSUME current # 0, ~ split, Torn \notin ToSet(file),
                        file' = Append(file, Line(c))
                 PROVE  PlaceInv'
    BY <2>1, <2>3 DEF PlaceInv
  <2>5. PICK e : e = current
    OBVIOUS
  <2>6. PICK it : it = entry[c].id
    OBVIOUS
  <2>7. /\ Ids(file)' = Ids(file) \cup {it}
        /\ file'[LastEntry(file, it)'] = Line(c)
        /\ \A id \in Ids(file) \ {it} : file'[LastEntry(file, id)'] = file[LastEntry(file, id)]
    <3>1. PICK s, l : s = file /\ l = Line(c)
      OBVIOUS
    <3>2. IsSeq(s) /\ l.id = it /\ file' = Append(s, l)
      BY <1>1, <2>2, <2>4, <2>6, <3>1 DEF InboxInv, FileOK
    <3>3. /\ Ids(Append(s, l)) = Ids(s) \cup {it}
          /\ Append(s, l)[LastEntry(Append(s, l), it)] = l
          /\ \A id \in Ids(s) \ {it} :
               Append(s, l)[LastEntry(Append(s, l), id)] = s[LastEntry(s, id)]
      BY <3>2, LastEntryAfter
    <3>4. /\ Ids(file') = Ids(s) \cup {it}
          /\ file'[LastEntry(file', it)] = l
          /\ \A id \in Ids(s) \ {it} : file'[LastEntry(file', id)] = s[LastEntry(s, id)]
      BY <3>2, <3>3
    <3> QED
      BY <3>1, <3>4
  <2>8. eng[c] = e /\ it \in DOMAIN engines[e].index /\ it = heap[obj[c]].id
    BY <1>1, <2>1, <2>4, <2>5, <2>6 DEF InboxIInv, OneEngine, Starting, CallerOK
  <2>9. Ids(file)' \subseteq DOMAIN engines[e].index
    BY <1>1, <2>4, <2>5, <2>7, <2>8 DEF PlaceInv
  <2>10. ASSUME NEW d \in Callers PROVE Entering(d)'
    BY <1>1, <2>1, <2>4 DEF Entering, PlaceInv, Same
  <2>11. ASSUME NEW id \in DOMAIN engines[e].index, id \notin InProgress', id \notin contested,
                id \notin unsaved
         PROVE  Told(e, id)'
    <3>1. \A d \in Callers \ {c} : id \notin Working(d)
      <4>1. \A d \in Callers \ {c} : Working(d)' = Working(d)
        BY <1>1, WorkKept
      <4> QED
        BY <2>11, <4>1 DEF InProgress
    <3>2. CASE id = it
      <4>1. entry[c] = heap[obj[c]] /\ engines[e].index[it] = obj[c]
        BY <1>1, <2>1, <2>4, <2>5, <2>8, <2>11, <3>2 DEF PlaceInv, Entering
      <4>2. IsDecision(entry[c])
        BY <1>1, <2>1 DEF CallerOK
      <4>3. Line(c) = heap[obj[c]]
        BY <4>1, <4>2 DEF Line, IsDecision, IsRecord, Fields
      <4> QED
        BY <2>1, <2>7, <3>2, <4>1, <4>3 DEF Told
    <3>3. CASE id # it
      <4>1. id \notin Working(c)
        BY <2>1, <2>8, <3>3 DEF Working
      <4>2. Told(e, id)
        BY <1>1, <2>4, <2>5, <2>11, <3>1, <4>1 DEF PlaceInv, InProgress
      <4> QED
        BY <2>1, <2>7, <3>3, <4>2 DEF Told
    <3> QED
      BY <3>2, <3>3
  <2>12. (\A id \in DOMAIN engines[e].index \ (InProgress \cup contested \cup unsaved) :
           Told(e, id))'
    BY <2>1, <2>11
  <2> QED
    BY <2>1, <2>5, <2>9, <2>10, <2>12 DEF PlaceInv
<1> QED
  BY <1>4, <1>5, <1>6, <1>7, <1>8, <1>9, <1>10, <1>11, <1>13, <1>14, <1>15, <1>16, <1>17,
     <1>18, <1>19 DEF CallStep

LEMMA InboxIInvariant == InboxSpec => []InboxIInv
<1>1. InboxInit => OneEngine /\ Alone /\ BuiltInv /\ PlaceInv
  BY DEF InboxInit, OneEngine, Alone, Working, BuiltInv, PlaceInv
<1>2. InboxIInv /\ InboxInv' /\ [InboxNext]_inboxVars => InboxIInv'
  <2> SUFFICES ASSUME InboxIInv, InboxInv', [InboxNext]_inboxVars PROVE InboxIInv'
    OBVIOUS
  <2>1. ASSUME UNCHANGED <<engineVars, file, threadVars, auxVars>> PROVE InboxIInv'
    BY <2>1 DEF InboxIInv, OneEngine, Alone, Working, BuiltInv, PlaceInv, Told, Entering,
                InProgress, engineVars, threadVars, auxVars
  <2>2. CASE Tick
    BY <2>1, <2>2 DEF Tick
  <2>3. CASE UNCHANGED inboxVars
    BY <2>1, <2>3 DEF inboxVars
  <2>4. CASE Restart
    <3>1. current' = 0 /\ \A c \in Callers : pc'[c] = "idle"
      BY <2>4 DEF Restart
    <3> QED
      BY <3>1 DEF InboxIInv, OneEngine, Alone, Working, BuiltInv, PlaceInv
  <2>5. ASSUME NEW c \in Callers, CallStep(c) PROVE InboxIInv'
    <3>1. OneEngine' /\ Alone' /\ contested \subseteq contested' /\ BuiltInv' /\ Grown
      BY <2>5, CallKeepsTypes, CallKeepsOneEngine, CallKeepsAlone, CallKeepsBuilt DEF InboxIInv
    <3>2. PlaceInv'
      BY <2>5, <3>1, CallKeepsPlace
    <3> QED
      BY <3>1, <3>2 DEF InboxIInv
  <2> QED
    BY <2>2, <2>3, <2>4, <2>5 DEF InboxNext
<1> QED
  BY <1>1, <1>2, InboxInvariant, PTL DEF InboxSpec, InboxIInv

\* "inbox survives restarts via import_decisions()": what an engine that is built from the
\* file would show of a decision is what the inbox shows, unless two calls worked on the
\* decision at once, one of its changes could not be appended, two threads built the
\* engine at once, or a line is torn.
THEOREM InboxTellsTheFile == InboxSpec => []InboxIsFile
<1>1. InboxIInv => InboxIsFile
  <2> SUFFICES ASSUME InboxIInv, current # 0, ~ split, Torn \notin ToSet(file),
                      NEW id \in (Ids(file) \cup DOMAIN engines[current].index)
                                   \ (InProgress \cup contested \cup unsaved)
               PROVE  /\ id \in Ids(file) /\ Indexed(current, id)
                      /\ Shown(id) = file[LastEntry(file, id)]
    BY DEF InboxIsFile
  <2>1. Told(current, id)
    BY DEF InboxIInv, PlaceInv
  <2> QED
    BY <2>1 DEF Told, Indexed, Shown
<1> QED
  BY <1>1, InboxIInvariant, PTL

=============================================================================
