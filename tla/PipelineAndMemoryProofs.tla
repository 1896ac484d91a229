---------------------- MODULE PipelineAndMemoryProofs -----------------------
(***************************************************************************)
(* Proofs about MemoryStore, for every set of callers, entries and tags,   *)
(* and about PipelineRun, for every set of plans with stages of any shape, *)
(* any dependencies, and any number of calls and recoveries.  The two say  *)
(* nothing of each other.                                                  *)
(***************************************************************************)
EXTENDS PipelineRun, MemoryStore, SequenceTheorems, FiniteSetTheorems,
        WellFoundedInduction, TLAPS

------------------------------------------------------------------------------
(***************************************************************************)
(* The file and what a new engine loads from it.                           *)
(***************************************************************************)
\* Of some numbers there is a smallest one, and below a bound a greatest one.
LEMMA Least ==
  ASSUME NEW S \in SUBSET Nat, S # {}
  PROVE  Min(S) \in S /\ \A k \in S : Min(S) <= k
<1>1. IsWellFoundedOn(OpToRel(<, Nat), Nat)
  BY NatLessThanWellFounded
<1>2. \E x \in S : \A y \in S : ~ (<<y, x>> \in OpToRel(<, Nat))
  BY <1>1, WFMin
<1>3. \A x, y \in Nat : <<y, x>> \in OpToRel(<, Nat) <=> y < x
  BY DEF OpToRel
<1>4. PICK x \in S : \A y \in S : ~ (<<y, x>> \in OpToRel(<, Nat))
  BY <1>2, Zenon
<1>5. ASSUME NEW k \in S PROVE x <= k
  <2>1. ~ (k < x)
    BY <1>3, <1>4, Zenon
  <2> QED
    BY <2>1
<1>6. \E m \in S : \A k \in S : m <= k
  BY <1>5, Zenon
<1> QED
  BY <1>6 DEF Min

LEMMA Greatest ==
  ASSUME NEW n \in Nat, NEW S \in SUBSET (1 .. n), S # {}
  PROVE  Max(S) \in S /\ \A k \in S : Max(S) >= k
<1> DEFINE T == {n - k : k \in S}
<1>1. T \in SUBSET Nat /\ T # {}
  <2>1. \A k \in S : n - k \in Nat
    OBVIOUS
  <2> QED
    BY <2>1
<1>2. PICK m \in S : n - m = Min(T)
  <2>1. Min(T) \in T
    <3> HIDE DEF T
    <3> QED
      BY <1>1, Least
  <2> QED
    BY <2>1
<1>3. ASSUME NEW k \in S PROVE m >= k
  <2>1. n - k \in T
    OBVIOUS
  <2>2. n - m <= n - k
    <3> HIDE DEF T
    <3> QED
      BY <1>1, <1>2, <2>1, Least
  <2> QED
    BY <2>2
<1> QED
  BY <1>3 DEF Max

\* A line before the first one that is torn.
InLead(f, i) == i \in DOMAIN f /\ \A k \in 1 .. i : f[k] # Torn

LEMMA LeadIsRead ==
  ASSUME NEW f \in Seq(Line)
  PROVE  \E n \in Nat : /\ Readable(f) \in Seq(Line) /\ Len(Readable(f)) = n
                        /\ \A i : InLead(f, i) <=> i \in 1 .. n
                        /\ \A i \in 1 .. n : Readable(f)[i] = f[i]
<1> DEFINE bad == {i \in 1 .. Len(f) : f[i] = Torn}
<1>1. CASE bad = {}
  <2>1. Readable(f) = f
    BY <1>1 DEF Readable, SelectInSeq
  <2>2. \A i : InLead(f, i) <=> i \in 1 .. Len(f)
    BY <1>1 DEF InLead
  <2> QED
    BY <2>1, <2>2
<1>2. CASE bad # {}
  <2>1. PICK t : t = Min(bad)
    OBVIOUS
  <2>2. t \in bad /\ \A k \in bad : t <= k
    <3>1. bad \in SUBSET Nat
      OBVIOUS
    <3> HIDE DEF bad
    <3> QED
      BY <1>2, <2>1, <3>1, Least
  <2>3. t \in 1 .. Len(f) /\ f[t] = Torn /\ \A k \in 1 .. t - 1 : f[k] # Torn
    BY <2>2
  <2>4. Readable(f) = SubSeq(f, 1, t - 1)
    <3>1. t = IF bad # {} THEN Min(bad) ELSE 0
      BY <1>2, <2>1
    <3>2. t # 0
      BY <2>3
    <3> QED
      BY <3>1, <3>2 DEF Readable, SelectInSeq
  <2> DEFINE r == SubSeq(f, 1, t - 1)
  <2>5. r \in Seq(Line) /\ Len(r) = t - 1 /\ \A i \in 1 .. t - 1 : r[i] = f[i]
    BY <2>3
  <2>6. \A i : InLead(f, i) <=> i \in 1 .. t - 1
    BY <2>3 DEF InLead
  <2> HIDE DEF bad
  <2> QED
    BY <2>3, <2>4, <2>5, <2>6
<1> QED
  BY <1>1, <1>2

\* The last readable line of an id decides.
LEMMA ContentsIs ==
  ASSUME NEW f \in Seq(Line), NEW id \in Ids
  PROVE  \/ /\ Contents(f)[id] = Absent
            /\ \A i : InLead(f, i) => f[i].id # id
         \/ \E i : /\ InLead(f, i) /\ f[i].id = id
                   /\ \A j : InLead(f, j) /\ f[j].id = id => j <= i
                   /\ Contents(f)[id] = f[i].entry
<1>1. PICK n \in Nat : /\ Readable(f) \in Seq(Line) /\ Len(Readable(f)) = n
                       /\ \A i : InLead(f, i) <=> i \in 1 .. n
                       /\ \A i \in 1 .. n : Readable(f)[i] = f[i]
  BY LeadIsRead
<1>2. PICK r : r = Readable(f)
  OBVIOUS
<1> DEFINE I == {i \in 1 .. Len(r) : r[i].id = id}
<1>3. PICK at : at = IF I # {} THEN Max(I) ELSE 0
  OBVIOUS
<1>4. Contents(f)[id] = IF at = 0 THEN Absent ELSE f[at].entry
  BY <1>2, <1>3 DEF Contents, SelectLastInSeq
<1>5. CASE I = {}
  BY <1>1, <1>2, <1>3, <1>4, <1>5
<1>6. CASE I # {}
  <2>1. at \in I /\ \A k \in I : at >= k
    <3>1. I \in SUBSET (1 .. n)
      BY <1>1, <1>2
    <3> HIDE DEF I
    <3> QED
      BY <1>3, <1>6, <3>1, Greatest
  <2>2. at \in 1 .. n /\ f[at].id = id /\ \A j \in 1 .. n : f[j].id = id => j <= at
    BY <1>1, <1>2, <2>1
  <2>3. Contents(f)[id] = f[at].entry
    BY <1>4, <2>2
  <2> QED
    BY <1>1, <2>2, <2>3
<1> QED
  BY <1>5, <1>6

\* A line that is not torn is an entry.
LEMMA LineIs ==
  ASSUME NEW l \in Line, l # Torn
  PROVE  l.id \in Ids /\ l.entry \in Entry /\ l = [id |-> l.id, entry |-> l.entry]
  BY DEF Line

LEMMA AbsentIsNone == Absent \notin Entry /\ Torn.id \notin Ids
  BY MemoryAssumption DEF Absent, Entry, Torn

LEMMA ContentsAreEntries ==
  ASSUME NEW f \in Seq(Line)
  PROVE  Contents(f) \in Entries
<1>1. ASSUME NEW id \in Ids PROVE Contents(f)[id] \in Entry \cup {Absent}
  <2>1. ASSUME NEW i, InLead(f, i) PROVE f[i].entry \in Entry
    BY <2>1, LineIs DEF InLead
  <2> QED
    BY <2>1, ContentsIs
<1> QED
  BY <1>1 DEF Contents, Entries

\* The lines of some entries: one for each that is there.
LEMMA LinesAre ==
  ASSUME NEW m \in Entries
  PROVE  /\ Lines(m) \in Seq([id : Ids, entry : Entry])
         /\ \A i \in 1 .. Len(Lines(m)) : Lines(m)[i].entry = m[Lines(m)[i].id]
         /\ \A id \in Present(m) : \E i \in 1 .. Len(Lines(m)) : Lines(m)[i].id = id
<1> DEFINE L(id) == [id |-> id, entry |-> m[id]]
           S == {L(id) : id \in Present(m)}
           n == Cardinality(S)
           f == SetToSeq(S)
<1>1. Present(m) \in SUBSET Ids /\ \A id \in Present(m) : m[id] \in Entry
  BY DEF Present, Entries
<1>2. IsFiniteSet(S)
  <2>1. IsFiniteSet(Present(m))
    BY <1>1, MemoryAssumption, FS_Subset
  <2> DEFINE g == [id \in Present(m) |-> L(id)]
  <2>2. g \in Surjection(Present(m), S)
    BY DEF Surjection
  <2> QED
    BY <2>1, <2>2, FS_Surjection
<1>3. S \subseteq [id : Ids, entry : Entry]
  BY <1>1
<1>4. /\ n \in Nat /\ f \in [1 .. n -> S]
      /\ \A l \in S : \E i \in 1 .. n : f[i] = l
  <2> HIDE DEF S
  <2>1. n \in Nat /\ ExistsBijection(1 .. n, S)
    BY <1>2, FS_CardinalityType
  <2>2. f \in [1 .. n -> S] /\ IsInjective(f)
    BY <2>1 DEF SetToSeq, ExistsBijection, Bijection, Injection
  <2>3. IsFiniteSet(1 .. n) /\ Cardinality(1 .. n) = n
    BY <2>1, FS_Interval
  <2>4. f \in Injection(1 .. n, S)
    BY <2>2 DEF Injection
  <2>5. f \in Surjection(1 .. n, S)
    BY <1>2, <2>3, <2>4, FS_Injection
  <2> QED
    BY <2>1, <2>2, <2>5 DEF Surjection
<1>5. Lines(m) = f
  BY DEF Lines
<1>6. f \in Seq([id : Ids, entry : Entry]) /\ Len(f) = n
  <2> HIDE DEF S, f, n
  <2>1. ASSUME NEW X, NEW g \in [1 .. n -> X] PROVE g \in Seq(X) /\ Len(g) = n
    BY <1>4
  <2>2. f \in [1 .. n -> [id : Ids, entry : Entry]]
    BY <1>3, <1>4
  <2> QED
    BY <2>1, <2>2
<1>7. \A i \in 1 .. n : f[i] \in S
  <2> HIDE DEF S, f, n
  <2> QED
    BY <1>4
<1>8. ASSUME NEW i \in 1 .. n PROVE f[i].entry = m[f[i].id]
  <2> HIDE DEF f, n
  <2>1. PICK id \in Present(m) : f[i] = L(id)
    BY <1>7
  <2> QED
    BY <2>1
<1>9. ASSUME NEW id \in Present(m) PROVE \E i \in 1 .. n : f[i].id = id
  <2>1. L(id) \in S /\ L(id).id = id
    OBVIOUS
  <2> HIDE DEF S, f, n, L
  <2> QED
    BY <1>4, <2>1
<1> HIDE DEF S, f, n
<1> QED
  BY <1>5, <1>6, <1>8, <1>9

LEMMA LinesAreLines ==
  ASSUME NEW m \in Entries
  PROVE  Lines(m) \in Seq(Line)
<1>1. [id : Ids, entry : Entry] \subseteq Line
  BY DEF Line
<1>2. ASSUME NEW A, NEW B, A \subseteq B, NEW q \in Seq(A) PROVE q \in Seq(B)
  BY <1>2
<1> QED
  BY <1>1, <1>2, LinesAre

\* The last line of an id before the next torn one.
Latest(f, i) ==
  /\ f[i] # Torn
  /\ \A j \in DOMAIN f : j > i /\ f[j].id = f[i].id => \E t \in i .. j : f[t] = Torn

\* What a file consists of that was written over an older one.
LEMMA OverwrittenIs ==
  ASSUME NEW new \in Seq(Line), NEW old \in Seq(Line), NEW f \in WrittenOver(new, old)
  PROVE  /\ f \in Seq(Line) /\ Len(f) >= Len(new)
         /\ \A i \in 1 .. Len(new) : f[i] = new[i]
         /\ \A i \in DOMAIN f : \/ i \in 1 .. Len(new)
                                \/ f[i] = Torn
                                \/ \E k \in DOMAIN old :
                                     f[i] = old[k] /\ (Latest(f, i) => Latest(old, k))
<1>1. CASE new = <<>>
  <2>1. f = old
    BY <1>1 DEF WrittenOver
  <2> QED
    BY <1>1, <2>1
<1>2. CASE \E i \in DOMAIN old : f = new \o <<Torn>>
  <2>1. Torn \in Line
    BY DEF Line
  <2> QED
    BY <1>2, <2>1
<1>3. ASSUME NEW k \in 1 .. Len(old) + 1, f = new \o SubSeq(old, k, Len(old))
      PROVE  /\ f \in Seq(Line) /\ Len(f) >= Len(new)
             /\ \A i \in 1 .. Len(new) : f[i] = new[i]
             /\ \A i \in DOMAIN f \ (1 .. Len(new)) :
                  \E o \in DOMAIN old : f[i] = old[o] /\ (Latest(f, i) => Latest(old, o))
  <2> DEFINE rest == SubSeq(old, k, Len(old))
             n == Len(new)
             d == n + 1 - k
  <2>1. /\ rest \in Seq(Line) /\ Len(rest) = Len(old) + 1 - k
        /\ \A i \in 1 .. Len(rest) : rest[i] = old[k + i - 1]
    OBVIOUS
  <2>2. /\ f \in Seq(Line) /\ Len(f) = n + Len(rest) /\ DOMAIN f = 1 .. n + Len(rest)
        /\ \A i \in 1 .. n : f[i] = new[i]
        /\ \A i \in 1 .. Len(rest) : f[n + i] = rest[i]
    BY <1>3, <2>1
  <2>3. n \in Nat /\ d \in Int /\ Len(old) \in Nat /\ DOMAIN old = 1 .. Len(old)
    OBVIOUS
  <2>4. \A o \in k .. Len(old) : o + d \in DOMAIN f /\ f[o + d] = old[o]
    <3>1. ASSUME NEW o \in k .. Len(old)
          PROVE  o + d \in DOMAIN f /\ f[o + d] = old[o]
      <4> HIDE DEF rest, n
      <4>1. PICK q \in Int : q = o + 1 - k
        OBVIOUS
      <4>2. q \in 1 .. Len(rest) /\ o + d = n + q /\ k + q - 1 = o
        BY <2>1, <2>3, <4>1
      <4>3. rest[q] = old[o] /\ f[n + q] = rest[q]
        BY <2>1, <2>2, <4>2
      <4>4. n + q \in DOMAIN f
        BY <2>1, <2>2, <2>3, <4>2
      <4> HIDE DEF d
      <4> QED
        BY <4>2, <4>3, <4>4
    <3> QED
      BY <3>1
  <2>5. ASSUME NEW i \in DOMAIN f \ (1 .. n)
        PROVE  \E o \in DOMAIN old : f[i] = old[o] /\ (Latest(f, i) => Latest(old, o))
    <3>1. PICK o \in k .. Len(old) : i = o + d
      <4> HIDE DEF rest, n
      <4>1. i \in Int /\ i > n /\ i <= n + Len(old) + 1 - k
        BY <2>1, <2>2, <2>3
      <4>2. i - d \in k .. Len(old) /\ i = (i - d) + d
        BY <2>3, <4>1
      <4> QED
        BY <4>2
    <3>2. f[i] = old[o] /\ o \in DOMAIN old
      BY <2>3, <2>4, <3>1
    <3>3. ASSUME Latest(f, i), NEW j \in DOMAIN old, j > o, old[j].id = old[o].id
          PROVE  \E t \in o .. j : old[t] = Torn
      <4>1. j \in k .. Len(old) /\ j + d > i
        BY <2>3, <3>1, <3>3
      <4>2. j + d \in DOMAIN f /\ f[j + d].id = f[i].id
        BY <2>4, <3>2, <3>3, <4>1
      <4>3. PICK t \in i .. j + d : f[t] = Torn
        BY <3>3, <4>1, <4>2 DEF Latest
      <4>4. t - d \in o .. j /\ t - d \in k .. Len(old) /\ t - d + d = t
        BY <2>3, <3>1, <4>1, <4>3
      <4> QED
        BY <2>4, <4>3, <4>4
    <3> QED
      BY <3>2, <3>3 DEF Latest
  <2> QED
    BY <2>2, <2>5
<1> QED
  BY <1>1, <1>2, <1>3 DEF WrittenOver

------------------------------------------------------------------------------
(***************************************************************************)
(* The invariant of the types, with what a call knows of its engine.       *)
(***************************************************************************)
Named == {"save", "get", "update", "delete", "archive", "unarchive"}
Passes == {"retention", "archive_old", "purge"}

CommandOK(c) ==
  /\ pc[c] # "idle" => c \in open
  /\ call[c].kind \in Named => call[c].id \in Ids
  /\ call[c].kind \in {"save", "update"} => call[c].tag \in Tags
  /\ pc[c] = "touched" => call[c].kind = "update" /\ mem[c][call[c].id] # Absent
  /\ todo[c] \subseteq Present(mem[c])
  /\ todo[c] # {} => /\ pc[c] \in {"run", "truncated", "unlinked"}
                     /\ call[c].kind \in Passes

MemoryInv == MemoryTypeOK /\ \A c \in Callers : CommandOK(c)

\* What a step of another caller leaves alone.
Alike(d) ==
  /\ pc'[d] = pc[d] \/ (pc[d] = "truncated" /\ pc'[d] = "unlinked")
  /\ call'[d] = call[d] /\ mem'[d] = mem[d] /\ index'[d] = index[d] /\ todo'[d] = todo[d]
  /\ d \in open' <=> d \in open

LEMMA AlikeIsOK ==
  ASSUME NEW d \in Callers, CommandOK(d), Alike(d)
  PROVE  CommandOK(d)'
  BY DEF CommandOK, Alike, Present

LEMMA RequestIs ==
  ASSUME MemoryTypeOK, NEW c \in Callers, NEW r \in Requests(c)
  PROVE  /\ r \in Commands
         /\ r.kind \in Named => r.id \in Ids
         /\ r.kind \in {"save", "update"} => r.tag \in Tags
<1>1. used \subseteq Ids
  BY DEF MemoryTypeOK
<1>2. \/ \E id \in Ids, t \in Tags :
           \E k \in {"save", "update"} : r = [kind |-> k, id |-> id, tag |-> t, due |-> {}]
      \/ \E id \in Ids : \E k \in {"get", "delete", "archive", "unarchive"} :
           r = [kind |-> k, id |-> id, tag |-> NoTag, due |-> {}]
      \/ \E S \in SUBSET Ids : \E k \in {"retention", "archive_old"} :
           r = [kind |-> k, id |-> Nil, tag |-> NoTag, due |-> S]
      \/ \E k \in {"purge", "clear"} : r = [kind |-> k, id |-> Nil, tag |-> NoTag, due |-> {}]
  BY <1>1 DEF Requests
<1> QED
  BY <1>2 DEF Commands, Kinds, Named

\* An entry that is written.
LEMMA WriteIs ==
  ASSUME MemoryTypeOK, NEW c \in Callers, NEW id \in Ids, NEW e \in Entry, NEW where,
         Write(c, id, e, where)
  PROVE  /\ file' \in Seq(Line) /\ mem' \in [Callers -> Entries] /\ truth' \in Entries
         /\ index' \in [Callers -> [Tags -> SUBSET Ids]] /\ lost' \subseteq Ids
         /\ pc'[c] = where /\ call' = call /\ open' = open
         /\ mem'[c][id] = e /\ \A i \in Ids \ {id} : mem'[c][i] = mem[c][i]
         /\ truth'[id] = e /\ \A i \in Ids \ {id} : truth'[i] = truth[i]
         /\ id \in index'[c][e.tag]
         /\ \A t \in Tags : index[c][t] \subseteq index'[c][t]
         /\ \A d \in Callers \ {c} : /\ pc'[d] = pc[d] /\ mem'[d] = mem[d]
                                    /\ index'[d] = index[d]
<1>1. e.tag \in Tags /\ e # Absent
  BY AbsentIsNone DEF Entry
<1>2. /\ mem' = [mem EXCEPT ![c] = [mem[c] EXCEPT ![id] = e]]
      /\ index' = [index EXCEPT ![c] = Reindexed(index[c], id, e)]
      /\ file' = Append(file, [id |-> id, entry |-> e])
      /\ truth' = [truth EXCEPT ![id] = e]
      /\ lost' = IF Torn \in ToSet(file) THEN lost \cup {id} ELSE lost \ {id}
      /\ pc' = [pc EXCEPT ![c] = where] /\ call' = call /\ open' = open
  BY DEF Write, Engine, Goto
<1>3. [id |-> id, entry |-> e] \in Line
  BY DEF Line
<1>4. file' \in Seq(Line) /\ lost' \subseteq Ids
  BY <1>2, <1>3 DEF MemoryTypeOK
<1>5. /\ mem[c] \in Entries /\ mem'[c] = [mem[c] EXCEPT ![id] = e]
      /\ \A d \in Callers \ {c} : mem'[d] = mem[d]
  BY <1>2 DEF MemoryTypeOK
<1>6. /\ mem'[c] \in Entries /\ mem'[c][id] = e
      /\ \A i \in Ids \ {id} : mem'[c][i] = mem[c][i]
  BY <1>5 DEF Entries
<1>7. mem' \in [Callers -> Entries]
  BY <1>2, <1>5, <1>6 DEF MemoryTypeOK
<1>8. truth' \in Entries /\ truth'[id] = e /\ \A i \in Ids \ {id} : truth'[i] = truth[i]
  BY <1>2 DEF MemoryTypeOK, Entries
<1>10. index[c] \in [Tags -> SUBSET Ids] /\ index'[c] = Reindexed(index[c], id, e)
  BY <1>2 DEF MemoryTypeOK
<1>11. /\ index'[c] \in [Tags -> SUBSET Ids] /\ id \in index'[c][e.tag]
       /\ \A t \in Tags : index[c][t] \subseteq index'[c][t]
  BY <1>1, <1>10 DEF Reindexed
<1>12. /\ index' \in [Callers -> [Tags -> SUBSET Ids]]
       /\ \A d \in Callers \ {c} : index'[d] = index[d]
  BY <1>2, <1>10, <1>11 DEF MemoryTypeOK
<1>13. pc'[c] = where /\ \A d \in Callers \ {c} : pc'[d] = pc[d]
  BY <1>2 DEF MemoryTypeOK
<1> QED
  BY <1>2, <1>4, <1>5, <1>6, <1>7, <1>8, <1>11, <1>12, <1>13

\* An entry that is deleted, with the file open for writing.
LEMMA DiscardIs ==
  ASSUME MemoryTypeOK, NEW c \in Callers, NEW id \in Ids, mem[c][id] # Absent, Discard(c, id)
  PROVE  /\ mem' \in [Callers -> Entries] /\ truth' \in Entries
         /\ index' \in [Callers -> [Tags -> SUBSET Ids]]
         /\ file' = <<>> /\ lost' = {} /\ pc' = [pc EXCEPT ![c] = "truncated"]
         /\ call' = call /\ open' = open
         /\ mem'[c][id] = Absent /\ \A i \in Ids \ {id} : mem'[c][i] = mem[c][i]
         /\ Present(mem'[c]) = Present(mem[c]) \ {id}
         /\ \A t \in Tags : index[c][t] \ {id} \subseteq index'[c][t]
         /\ \A d \in Callers \ {c} : mem'[d] = mem[d] /\ index'[d] = index[d]
<1>1. /\ mem' = [mem EXCEPT ![c] = [mem[c] EXCEPT ![id] = Absent]]
      /\ index' = [index EXCEPT ![c] = [index[c] EXCEPT ![mem[c][id].tag] = @ \ {id}]]
      /\ file' = <<>> /\ truth' = [truth EXCEPT ![id] = Absent] /\ lost' = {}
      /\ pc' = [pc EXCEPT ![c] = "truncated"] /\ call' = call /\ open' = open
  BY DEF Discard, Engine, Goto
<1>2. /\ mem[c] \in Entries /\ mem'[c] = [mem[c] EXCEPT ![id] = Absent]
      /\ \A d \in Callers \ {c} : mem'[d] = mem[d]
  BY <1>1 DEF MemoryTypeOK
<1>3. /\ mem'[c] \in Entries /\ mem'[c][id] = Absent
      /\ \A i \in Ids \ {id} : mem'[c][i] = mem[c][i]
  BY <1>2 DEF Entries
<1>4. mem' \in [Callers -> Entries]
  BY <1>1, <1>2, <1>3 DEF MemoryTypeOK
<1>5. truth' \in Entries
  BY <1>1 DEF MemoryTypeOK, Entries
<1>6. Present(mem'[c]) = Present(mem[c]) \ {id}
  BY <1>3 DEF Present
<1>7. mem[c][id].tag \in Tags
  BY <1>2 DEF Entries, Entry
<1>8. /\ index[c] \in [Tags -> SUBSET Ids]
      /\ index'[c] = [index[c] EXCEPT ![mem[c][id].tag] = @ \ {id}]
      /\ \A d \in Callers \ {c} : index'[d] = index[d]
  BY <1>1 DEF MemoryTypeOK
<1>9. /\ index'[c] \in [Tags -> SUBSET Ids]
      /\ \A t \in Tags : index[c][t] \ {id} \subseteq index'[c][t]
  BY <1>7, <1>8
<1>10. index' \in [Callers -> [Tags -> SUBSET Ids]]
  BY <1>1, <1>8, <1>9 DEF MemoryTypeOK
<1> QED
  BY <1>1, <1>2, <1>3, <1>4, <1>5, <1>6, <1>8, <1>9, <1>10

\* An engine that is found or built.
LEMMA LoadIs ==
  ASSUME MemoryTypeOK, NEW c \in Callers, Load(c)
  PROVE  /\ open' = open \cup {c} /\ mem' \in [Callers -> Entries]
         /\ index' \in [Callers -> [Tags -> SUBSET Ids]]
         /\ \A d \in Callers \ {c} : mem'[d] = mem[d] /\ index'[d] = index[d]
         /\ c \in open => mem'[c] = mem[c] /\ index'[c] = index[c]
         /\ c \notin open => mem'[c] = Contents(file) /\ index'[c] = IndexOf(file)
<1>1. CASE c \in open
  BY <1>1 DEF Load, MemoryTypeOK
<1>2. CASE c \notin open
  <2>1. /\ open' = open \cup {c} /\ mem' = [mem EXCEPT ![c] = Contents(file)]
        /\ index' = [index EXCEPT ![c] = IndexOf(file)]
    BY <1>2 DEF Load, Engine
  <2>2. Contents(file) \in Entries
    BY ContentsAreEntries DEF MemoryTypeOK
  <2>3. IndexOf(file) \in [Tags -> SUBSET Ids]
    <3>1. ASSUME NEW l \in ToSet(Readable(file)), l.entry.tag \in Tags PROVE l.id \in Ids
      <4>1. l \in Line
        BY LeadIsRead DEF MemoryTypeOK, ToSet
      <4>2. l # Torn
        BY <3>1, MemoryAssumption DEF Torn, Absent
      <4> QED
        BY <4>1, <4>2, LineIs
    <3> QED
      BY <3>1 DEF IndexOf
  <2> QED
    BY <1>2, <2>1, <2>2, <2>3 DEF MemoryTypeOK
<1> QED
  BY <1>1, <1>2

LEMMA NothingIs == Nothing \in Entries /\ NoIndex \in [Tags -> SUBSET Ids] /\ NoCall \in Commands
  BY DEF Nothing, Entries, NoIndex, NoCall, Commands, Kinds

\* An engine that is dropped.
LEMMA EmptyEngineIs ==
  ASSUME MemoryTypeOK, NEW c \in Callers, Engine(c, Nothing, NoIndex)
  PROVE  /\ mem' \in [Callers -> Entries] /\ index' \in [Callers -> [Tags -> SUBSET Ids]]
         /\ mem'[c] = Nothing
         /\ \A d \in Callers \ {c} : mem'[d] = mem[d] /\ index'[d] = index[d]
  BY NothingIs DEF Engine, MemoryTypeOK

LEMMA WriteKeepsTypes ==
  ASSUME MemoryInv, NEW c \in Callers, NEW id \in Ids, NEW e \in Entry, NEW where,
         Write(c, id, e, where), pc[c] # "idle", where \in {"run", "touched", "done"},
         where = "touched" => call[c].kind = "update" /\ call[c].id = id,
         todo' \in [Callers -> SUBSET Ids], todo'[c] \subseteq todo[c],
         \A d \in Callers \ {c} : todo'[d] = todo[d], todo'[c] # {} => where = "run"
  PROVE  MemoryInv'
<1>1. /\ file' \in Seq(Line) /\ mem' \in [Callers -> Entries] /\ truth' \in Entries
      /\ index' \in [Callers -> [Tags -> SUBSET Ids]] /\ lost' \subseteq Ids
      /\ pc'[c] = where /\ call' = call /\ open' = open
      /\ mem'[c][id] = e /\ Present(mem'[c]) = Present(mem[c]) \cup {id}
      /\ \A d \in Callers \ {c} : pc'[d] = pc[d] /\ mem'[d] = mem[d] /\ index'[d] = index[d]
  <2>1. MemoryTypeOK
    BY DEF MemoryInv
  <2>2. /\ file' \in Seq(Line) /\ mem' \in [Callers -> Entries] /\ truth' \in Entries
        /\ index' \in [Callers -> [Tags -> SUBSET Ids]] /\ lost' \subseteq Ids
    BY <2>1, WriteIs
  <2>3. pc'[c] = where /\ call' = call /\ open' = open /\ mem'[c][id] = e
    BY <2>1, WriteIs
  <2>5. \A i \in Ids \ {id} : mem'[c][i] = mem[c][i]
    BY <2>1, WriteIs
  <2>6. Present(mem'[c]) = Present(mem[c]) \cup {id}
    BY <2>3, <2>5, AbsentIsNone DEF Present
  <2>4. \A d \in Callers \ {c} : pc'[d] = pc[d] /\ mem'[d] = mem[d] /\ index'[d] = index[d]
    BY <2>1, WriteIs
  <2> QED
    BY <2>2, <2>3, <2>4, <2>6
<1>2. UNCHANGED <<used, asked, faults>> /\ pc' = [pc EXCEPT ![c] = where]
  BY DEF Write, Goto
<1>3. MemoryTypeOK'
  BY <1>1, <1>2 DEF MemoryInv, MemoryTypeOK
<1>4. CommandOK(c)'
  <2>1. CommandOK(c)
    BY DEF MemoryInv
  <2>2. e # Absent
    BY AbsentIsNone
  <2>3. todo'[c] \subseteq Present(mem'[c])
    BY <1>1, <2>1 DEF CommandOK
  <2>4. pc'[c] = "touched" => call'[c].kind = "update" /\ mem'[c][call'[c].id] # Absent
    BY <1>1, <2>2
  <2>5. todo'[c] # {} => pc'[c] = "run" /\ call'[c].kind \in Passes
    BY <1>1, <2>1 DEF CommandOK
  <2> QED
    BY <1>1, <2>1, <2>3, <2>4, <2>5 DEF CommandOK, Present
<1>5. ASSUME NEW d \in Callers \ {c} PROVE CommandOK(d)'
  BY <1>1, <1>5, AlikeIsOK DEF Alike, MemoryInv
<1> QED
  BY <1>3, <1>4, <1>5 DEF MemoryInv

LEMMA DiscardKeepsTypes ==
  ASSUME MemoryInv, NEW c \in Callers, NEW id \in Ids, mem[c][id] # Absent, Discard(c, id),
         pc[c] # "idle", todo' \in [Callers -> SUBSET Ids], todo'[c] \subseteq todo[c] \ {id},
         \A d \in Callers \ {c} : todo'[d] = todo[d]
  PROVE  MemoryInv'
<1>1. /\ mem' \in [Callers -> Entries] /\ truth' \in Entries
      /\ index' \in [Callers -> [Tags -> SUBSET Ids]]
      /\ file' = <<>> /\ lost' = {} /\ pc' = [pc EXCEPT ![c] = "truncated"]
      /\ call' = call /\ open' = open
      /\ Present(mem'[c]) = Present(mem[c]) \ {id}
      /\ \A d \in Callers \ {c} : mem'[d] = mem[d] /\ index'[d] = index[d]
  BY DiscardIs DEF MemoryInv
<1>2. UNCHANGED <<used, asked, faults>>
  BY DEF Discard
<1>3. pc'[c] = "truncated" /\ \A d \in Callers \ {c} : pc'[d] = pc[d]
  BY <1>1 DEF MemoryInv, MemoryTypeOK
<1>4. MemoryTypeOK'
  BY <1>1, <1>2 DEF MemoryInv, MemoryTypeOK
<1>5. CommandOK(c)'
  <2>1. CommandOK(c)
    BY DEF MemoryInv
  <2>2. todo'[c] \subseteq Present(mem'[c])
    BY <1>1, <2>1 DEF CommandOK
  <2> QED
    BY <1>1, <1>3, <2>1, <2>2 DEF CommandOK, Present
<1>6. ASSUME NEW d \in Callers \ {c} PROVE CommandOK(d)'
  BY <1>1, <1>3, <1>6, AlikeIsOK DEF Alike, MemoryInv
<1> QED
  BY <1>4, <1>5, <1>6 DEF MemoryInv

\* The steps that write an entry.
WritesOne(c) ==
  \E id \in Ids, e \in Entry, where \in {"run", "touched", "done"} :
    /\ Write(c, id, e, where) /\ pc[c] \in {"run", "touched"}
    /\ where = "touched" => call[c].kind = "update" /\ call[c].id = id
    /\ todo' \in [Callers -> SUBSET Ids] /\ todo'[c] \subseteq todo[c]
    /\ \A d \in Callers \ {c} : todo'[d] = todo[d]
    /\ todo'[c] # {} => where = "run"

LEMMA WritesAre ==
  ASSUME MemoryInv, NEW c \in Callers,
         Save(c) \/ Touch(c) \/ Change(c) \/ SetArchived(c) \/ ArchiveDue(c)
  PROVE  WritesOne(c)
<1>1. MemoryTypeOK /\ CommandOK(c) /\ call[c] \in Commands /\ mem[c] \in Entries
  BY DEF MemoryInv, MemoryTypeOK
<1>2. \A id \in Ids : mem[c][id] # Absent => mem[c][id] \in Entry
  BY <1>1 DEF Entries
<1>3. CASE Save(c)
  <2> DEFINE e == [version |-> 1, tag |-> call[c].tag, archived |-> FALSE]
  <2>1. /\ pc[c] = "run" /\ call[c].kind = "save" /\ todo' = todo
        /\ Write(c, call[c].id, e, "done")
    BY <1>3 DEF Save, Is, At
  <2>2. call[c].id \in Ids /\ e \in Entry /\ todo[c] = {}
    BY <1>1, <2>1 DEF CommandOK, Named, Passes, Entry
  <2> HIDE DEF e
  <2> QED
    BY <1>1, <2>1, <2>2 DEF WritesOne, MemoryTypeOK
<1>4. CASE Touch(c)
  <2>1. PICK where \in {"touched", "done"} :
          /\ Write(c, call[c].id, mem[c][call[c].id], where)
          /\ where = "touched" => call[c].kind = "update"
    BY <1>4 DEF Touch, Is
  <2>2. /\ pc[c] = "run" /\ call[c].kind \in {"get", "update"} /\ todo' = todo
        /\ mem[c][call[c].id] # Absent
    BY <1>4 DEF Touch, Is, At
  <2>3. call[c].id \in Ids /\ mem[c][call[c].id] \in Entry /\ todo[c] = {}
    BY <1>1, <1>2, <2>2 DEF CommandOK, Named, Passes
  <2>4. todo' \in [Callers -> SUBSET Ids]
    BY <1>1, <2>2 DEF MemoryTypeOK
  <2> QED
    BY <2>1, <2>2, <2>3, <2>4 DEF WritesOne
<1>5. CASE Change(c)
  <2> DEFINE e == [mem[c][call[c].id] EXCEPT !.version = @ + 1, !.tag = call[c].tag]
  <2>1. pc[c] = "touched" /\ todo' = todo /\ Write(c, call[c].id, e, "done")
    BY <1>5 DEF Change, At
  <2>2. /\ call[c].id \in Ids /\ call[c].tag \in Tags /\ todo[c] = {}
        /\ mem[c][call[c].id] \in Entry
    BY <1>1, <1>2, <2>1 DEF CommandOK, Named
  <2>3. e \in Entry
    <3>1. ASSUME NEW x \in Entry, NEW t \in Tags
          PROVE  [x EXCEPT !.version = @ + 1, !.tag = t] \in Entry
      <4>1. x.version + 1 \in Nat
        BY DEF Entry
      <4>2. [x EXCEPT !.version = x.version + 1] \in Entry
        BY <4>1 DEF Entry
      <4> QED
        BY <4>2 DEF Entry
    <3> QED
      BY <2>2, <3>1
  <2> HIDE DEF e
  <2> QED
    BY <1>1, <2>1, <2>2, <2>3 DEF WritesOne, MemoryTypeOK
<1>6. CASE SetArchived(c)
  <2> DEFINE e == [mem[c][call[c].id] EXCEPT !.archived = Is(c, "archive")]
  <2>1. /\ pc[c] = "run" /\ call[c].kind \in {"archive", "unarchive"} /\ todo' = todo
        /\ mem[c][call[c].id] # Absent /\ Write(c, call[c].id, e, "done")
    BY <1>6 DEF SetArchived, Is, At
  <2>2. call[c].id \in Ids /\ todo[c] = {} /\ mem[c][call[c].id] \in Entry
    BY <1>1, <1>2, <2>1 DEF CommandOK, Named, Passes
  <2>3. e \in Entry
    BY <2>2 DEF Entry, Is, At
  <2> HIDE DEF e
  <2> QED
    BY <1>1, <2>1, <2>2, <2>3 DEF WritesOne, MemoryTypeOK
<1>7. CASE ArchiveDue(c)
  <2>1. PICK id \in todo[c] : /\ Visit(c, id)
                              /\ Is(c, "retention") \/ Is(c, "archive_old")
                              /\ Write(c, id, [mem[c][id] EXCEPT !.archived = TRUE], "run")
    BY <1>7 DEF ArchiveDue
  <2> DEFINE e == [mem[c][id] EXCEPT !.archived = TRUE]
  <2>2. todo' = [todo EXCEPT ![c] = @ \ {id}] /\ pc[c] = "run"
    BY <2>1 DEF Visit, Is, At
  <2>3. id \in Ids /\ mem[c][id] \in Entry
    BY <1>1, <1>2, <2>1 DEF CommandOK, Present
  <2>4. /\ todo' \in [Callers -> SUBSET Ids] /\ todo'[c] = todo[c] \ {id}
        /\ \A d \in Callers \ {c} : todo'[d] = todo[d]
    BY <1>1, <2>2 DEF MemoryTypeOK
  <2>5. e \in Entry /\ Write(c, id, e, "run")
    BY <2>1, <2>3 DEF Entry
  <2> HIDE DEF e
  <2> QED
    BY <2>2, <2>3, <2>4, <2>5 DEF WritesOne
<1> QED
  BY <1>3, <1>4, <1>5, <1>6, <1>7

\* The steps that delete one.
DiscardsOne(c) ==
  \E id \in Ids :
    /\ mem[c][id] # Absent /\ Discard(c, id) /\ pc[c] = "run"
    /\ todo' \in [Callers -> SUBSET Ids] /\ todo'[c] \subseteq todo[c] \ {id}
    /\ \A d \in Callers \ {c} : todo'[d] = todo[d]

LEMMA DiscardsAre ==
  ASSUME MemoryInv, NEW c \in Callers, Delete(c) \/ Purge(c)
  PROVE  DiscardsOne(c)
<1>1. MemoryTypeOK /\ CommandOK(c) /\ call[c] \in Commands /\ mem[c] \in Entries
  BY DEF MemoryInv, MemoryTypeOK
<1>2. CASE Delete(c)
  <2>1. /\ pc[c] = "run" /\ call[c].kind = "delete" /\ todo' = todo
        /\ mem[c][call[c].id] # Absent /\ Discard(c, call[c].id)
    BY <1>2 DEF Delete, Is, At
  <2>2. call[c].id \in Ids /\ todo[c] = {}
    BY <1>1, <2>1 DEF CommandOK, Named, Passes
  <2>3. todo' \in [Callers -> SUBSET Ids]
    BY <1>1, <2>1 DEF MemoryTypeOK
  <2> QED
    BY <2>1, <2>2, <2>3 DEF DiscardsOne
<1>3. CASE Purge(c)
  <2>1. PICK id \in todo[c] : Visit(c, id) /\ Purges(c, id) /\ Discard(c, id)
    BY <1>3 DEF Purge
  <2>2. todo' = [todo EXCEPT ![c] = @ \ {id}] /\ pc[c] = "run"
    BY <2>1 DEF Visit, Purges, Is, At
  <2>3. id \in Ids /\ mem[c][id] # Absent
    BY <1>1, <2>1 DEF CommandOK, Present
  <2>4. /\ todo' \in [Callers -> SUBSET Ids] /\ todo'[c] = todo[c] \ {id}
        /\ \A d \in Callers \ {c} : todo'[d] = todo[d]
    BY <1>1, <2>2 DEF MemoryTypeOK
  <2> QED
    BY <2>1, <2>2, <2>3, <2>4 DEF DiscardsOne
<1> QED
  BY <1>2, <1>3

LEMMA CallKeepsTypes ==
  ASSUME MemoryInv, NEW c \in Callers, CallStep(c)
  PROVE  MemoryInv'
<1>1. MemoryTypeOK /\ CommandOK(c) /\ call[c] \in Commands /\ mem[c] \in Entries
  BY DEF MemoryInv, MemoryTypeOK
<1>2. CASE Begin(c)
  <2>1. /\ pc[c] = "idle" /\ pc' = [pc EXCEPT ![c] = "run"]
        /\ UNCHANGED <<file, truth, lost, faults>> /\ asked' = asked + 1 /\ Load(c)
    BY <1>2 DEF Begin, At, Goto
  <2>2. PICK r \in Requests(c) :
          /\ call' = [call EXCEPT ![c] = r]
          /\ used' = IF r.kind = "save" THEN used \cup {r.id} ELSE used
          /\ todo' = [todo EXCEPT ![c] = Visits(r, mem'[c]) \cap Present(mem'[c])]
    BY <1>2 DEF Begin
  <2>3. /\ r \in Commands
        /\ r.kind \in Named => r.id \in Ids
        /\ r.kind \in {"save", "update"} => r.tag \in Tags
    BY <1>1, RequestIs
  <2>4. /\ open' = open \cup {c} /\ mem' \in [Callers -> Entries]
        /\ index' \in [Callers -> [Tags -> SUBSET Ids]]
        /\ \A d \in Callers \ {c} : mem'[d] = mem[d] /\ index'[d] = index[d]
    BY <1>1, <2>1, LoadIs
  <2>5. Present(mem'[c]) \subseteq Ids
    BY DEF Present
  <2>6. /\ todo' \in [Callers -> SUBSET Ids] /\ todo'[c] \subseteq Present(mem'[c])
        /\ todo'[c] \subseteq Visits(r, mem'[c])
    BY <1>1, <2>2, <2>5 DEF MemoryTypeOK
  <2>7. todo'[c] # {} => r.kind \in Passes
    BY <2>6 DEF Visits, Passes
  <2>8. used' \subseteq Ids /\ asked' \in Nat
    BY <1>1, <2>1, <2>2, <2>3 DEF MemoryTypeOK, Named
  <2>9. /\ pc'[c] = "run" /\ call'[c] = r
        /\ \A d \in Callers \ {c} : /\ pc'[d] = pc[d] /\ call'[d] = call[d]
                                   /\ todo'[d] = todo[d]
    BY <1>1, <2>1, <2>2 DEF MemoryTypeOK
  <2>10. MemoryTypeOK'
    BY <1>1, <2>1, <2>2, <2>3, <2>4, <2>6, <2>8 DEF MemoryTypeOK
  <2>11. CommandOK(c)'
    BY <2>3, <2>4, <2>6, <2>7, <2>9 DEF CommandOK, Present
  <2>12. ASSUME NEW d \in Callers \ {c} PROVE CommandOK(d)'
    BY <2>4, <2>9, <2>12, AlikeIsOK DEF Alike, MemoryInv
  <2> QED
    BY <2>10, <2>11, <2>12 DEF MemoryInv
<1>3. CASE NotFound(c) \/ PassEnds(c)
  <2>1. /\ pc[c] = "run" /\ pc' = [pc EXCEPT ![c] = "done"]
        /\ UNCHANGED <<file, call, engineVars, auxVars, asked, faults>>
        /\ todo[c] = {} \/ call[c].kind \in Named
    BY <1>3 DEF NotFound, PassEnds, Is, At, Goto, Named
  <2>2. todo[c] = {}
    BY <1>1, <2>1 DEF CommandOK, Named, Passes
  <2>3. MemoryTypeOK'
    BY <1>1, <2>1 DEF MemoryTypeOK, engineVars, auxVars
  <2>4. pc'[c] = "done" /\ \A d \in Callers \ {c} : pc'[d] = pc[d]
    BY <1>1, <2>1 DEF MemoryTypeOK
  <2>5. CommandOK(c)'
    BY <1>1, <2>1, <2>2, <2>4 DEF CommandOK, Present, engineVars
  <2>6. ASSUME NEW d \in Callers \ {c} PROVE CommandOK(d)'
    BY <2>1, <2>4, <2>6, AlikeIsOK DEF Alike, MemoryInv, engineVars
  <2> QED
    BY <2>3, <2>5, <2>6 DEF MemoryInv
<1>4. CASE Save(c) \/ Touch(c) \/ Change(c) \/ SetArchived(c) \/ ArchiveDue(c)
  BY <1>4, WritesAre, WriteKeepsTypes DEF WritesOne
<1>5. CASE Delete(c) \/ Purge(c)
  BY <1>5, DiscardsAre, DiscardKeepsTypes DEF DiscardsOne
<1>6. CASE Rebuild(c)
  <2>1. /\ pc[c] \in {"truncated", "unlinked"}
        /\ file' \in IF pc[c] = "truncated" THEN WrittenOver(Lines(mem[c]), file) ELSE {file}
        /\ lost' = IF pc[c] = "truncated" THEN lost \cup Unseen(c) ELSE lost
        /\ pc' = [pc EXCEPT ![c] = IF call[c].kind = "delete" \/ todo[c] = {}
                                   THEN "done" ELSE "run"]
        /\ UNCHANGED <<call, open, mem, index, todo, used, truth, asked, faults>>
    BY <1>6 DEF Rebuild, At, Goto, engineVars
  <2>2. file' \in Seq(Line)
    <3>1. Lines(mem[c]) \in Seq(Line)
      BY <1>1, LinesAreLines
    <3> QED
      BY <1>1, <2>1, <3>1, OverwrittenIs DEF MemoryTypeOK
  <2>3. lost' \subseteq Ids
    BY <1>1, <2>1 DEF MemoryTypeOK, Unseen
  <2>4. MemoryTypeOK'
    BY <1>1, <2>1, <2>2, <2>3 DEF MemoryTypeOK
  <2>5. /\ pc'[c] = IF call[c].kind = "delete" \/ todo[c] = {} THEN "done" ELSE "run"
        /\ \A d \in Callers \ {c} : pc'[d] = pc[d]
    BY <1>1, <2>1 DEF MemoryTypeOK
  <2>6. CommandOK(c)'
    BY <1>1, <2>1, <2>5 DEF CommandOK, Present, Passes
  <2>7. ASSUME NEW d \in Callers \ {c} PROVE CommandOK(d)'
    BY <2>1, <2>5, <2>7, AlikeIsOK DEF Alike, MemoryInv
  <2> QED
    BY <2>4, <2>6, <2>7 DEF MemoryInv
<1>7. CASE Clear(c)
  <2>1. /\ pc[c] = "run" /\ call[c].kind = "clear" /\ Engine(c, Nothing, NoIndex)
        /\ file' = <<>> /\ truth' = Nothing /\ lost' = {}
        /\ pc' = [k \in Callers |-> IF k = c THEN "done" ELSE
                                    IF pc[k] = "truncated" THEN "unlinked" ELSE pc[k]]
        /\ UNCHANGED <<call, open, todo, used, asked, faults>>
    BY <1>7 DEF Clear, Is, At
  <2>2. /\ mem' \in [Callers -> Entries] /\ index' \in [Callers -> [Tags -> SUBSET Ids]]
        /\ \A d \in Callers \ {c} : mem'[d] = mem[d] /\ index'[d] = index[d]
    BY <1>1, <2>1, EmptyEngineIs
  <2>3. todo[c] = {}
    BY <1>1, <2>1 DEF CommandOK, Passes
  <2>4. pc' \in [Callers -> {"idle", "run", "touched", "truncated", "unlinked", "done"}]
    BY <1>1, <2>1 DEF MemoryTypeOK
  <2>5. MemoryTypeOK'
    BY <1>1, <2>1, <2>2, <2>4, NothingIs DEF MemoryTypeOK
  <2>6. CommandOK(c)'
    BY <1>1, <2>1, <2>3 DEF CommandOK, Named
  <2>7. ASSUME NEW d \in Callers \ {c} PROVE CommandOK(d)'
    BY <2>1, <2>2, <2>7, AlikeIsOK DEF Alike, MemoryInv
  <2> QED
    BY <2>5, <2>6, <2>7 DEF MemoryInv
<1>8. CASE End(c)
  <2>1. /\ pc[c] = "done" /\ pc' = [pc EXCEPT ![c] = "idle"]
        /\ call' = [call EXCEPT ![c] = NoCall] /\ Drop(c)
        /\ UNCHANGED <<file, todo, used, truth, lost, asked, faults>>
    BY <1>8 DEF End, At, Goto
  <2>2. /\ mem' \in [Callers -> Entries] /\ index' \in [Callers -> [Tags -> SUBSET Ids]]
        /\ \A d \in Callers \ {c} : mem'[d] = mem[d] /\ index'[d] = index[d]
        /\ open' \subseteq Callers /\ \A d \in Callers \ {c} : d \in open' <=> d \in open
    <3>1. CASE c \in Residents
      BY <1>1, <2>1, <3>1 DEF Drop, MemoryTypeOK
    <3>2. CASE c \notin Residents
      BY <1>1, <2>1, <3>2, EmptyEngineIs DEF Drop, MemoryTypeOK
    <3> QED
      BY <3>1, <3>2
  <2>3. /\ pc'[c] = "idle" /\ call'[c] = NoCall
        /\ \A d \in Callers \ {c} : pc'[d] = pc[d] /\ call'[d] = call[d]
    BY <1>1, <2>1 DEF MemoryTypeOK
  <2>4. MemoryTypeOK'
    BY <1>1, <2>1, <2>2, NothingIs DEF MemoryTypeOK
  <2>5. CommandOK(c)'
    BY <1>1, <2>1, <2>3 DEF CommandOK, Named, NoCall
  <2>6. ASSUME NEW d \in Callers \ {c} PROVE CommandOK(d)'
    BY <2>1, <2>2, <2>3, <2>6, AlikeIsOK DEF Alike, MemoryInv
  <2> QED
    BY <2>4, <2>5, <2>6 DEF MemoryInv
<1> QED
  BY <1>2, <1>3, <1>4, <1>5, <1>6, <1>7, <1>8 DEF CallStep

\* The file after the end of a process.
LEMMA CrashIs ==
  ASSUME MemoryTypeOK, NEW c \in Callers, Crash(c)
  PROVE  /\ file' \in Seq(Line)
         /\ pc[c] # "truncated" => file' = file /\ lost' = lost
         /\ pc[c] = "truncated" =>
              /\ lost' = lost \cup {id \in Ids : Contents(file')[id] # truth[id]}
              /\ \A i \in DOMAIN file' :
                   \/ InLead(file', i) \/ file'[i] = Torn
                   \/ \E k \in DOMAIN file :
                        file'[i] = file[k] /\ (Latest(file', i) => Latest(file, k))
<1>1. file \in Seq(Line) /\ mem[c] \in Entries
  BY DEF MemoryTypeOK
<1>2. CASE pc[c] # "truncated"
  BY <1>1, <1>2 DEF Crash, At
<1>3. CASE pc[c] = "truncated"
  <2> DEFINE L == [id : Ids, entry : Entry]
  <2>1. PICK m \in Entries, s \in Seq(L) : m = mem[c] /\ s = Lines(m)
    BY <1>1, LinesAre
  <2>2. PICK n \in 0 .. Len(s), torn \in {<<>>, <<Torn>>} :
          file' \in WrittenOver(SubSeq(s, 1, n) \o torn, file)
    BY <1>3, <2>1 DEF Crash, At
  <2>3. PICK new : new = SubSeq(s, 1, n) \o torn
    OBVIOUS
  <2>4. /\ new \in Seq(Line) /\ Len(new) >= n
        /\ \A i \in 1 .. n : new[i] = s[i]
        /\ \A i \in 1 .. Len(new) : i > n => new[i] = Torn
    <3>1. s \in Seq(Line)
      BY <2>1, LinesAreLines
    <3>2. torn = <<>> \/ torn = <<Torn>>
      BY <2>2
    <3>3. Torn \in Line
      BY DEF Line
    <3>4. PICK p : p = SubSeq(s, 1, n)
      OBVIOUS
    <3>5. p \in Seq(Line) /\ Len(p) = n /\ \A i \in 1 .. n : p[i] = s[i]
      BY <3>1, <3>4
    <3>6. torn \in Seq(Line) /\ \A i \in 1 .. Len(torn) : torn[i] = Torn
      <4>1. CASE torn = <<>>
        BY <4>1
      <4>2. CASE torn = <<Torn>>
        BY <3>3, <4>2
      <4> QED
        BY <3>2, <4>1, <4>2
    <3>7. /\ new \in Seq(Line) /\ Len(new) = n + Len(torn)
          /\ \A i \in 1 .. n : new[i] = p[i]
          /\ \A i \in 1 .. Len(torn) : new[n + i] = torn[i]
      BY <2>3, <3>4, <3>5, <3>6
    <3>8. ASSUME NEW i \in 1 .. Len(new), i > n PROVE new[i] = Torn
      <4>1. i - n \in 1 .. Len(torn) /\ n + (i - n) = i
        BY <3>6, <3>7, <3>8
      <4> QED
        BY <3>6, <3>7, <4>1
    <3> QED
      BY <3>5, <3>6, <3>7, <3>8
  <2>5. PICK f : f = file'
    OBVIOUS
  <2>6. /\ f \in Seq(Line) /\ Len(f) >= Len(new)
        /\ \A i \in 1 .. Len(new) : f[i] = new[i]
        /\ \A i \in DOMAIN f : \/ i \in 1 .. Len(new)
                               \/ f[i] = Torn
                               \/ \E k \in DOMAIN file :
                                    f[i] = file[k] /\ (Latest(f, i) => Latest(file, k))
    <3>1. f \in WrittenOver(new, file)
      BY <2>2, <2>3, <2>5
    <3>2. new \in Seq(Line)
      BY <2>4
    <3> QED
      BY <1>1, <3>1, <3>2, OverwrittenIs
  <2>7. ASSUME NEW i \in 1 .. Len(new), f[i] # Torn PROVE InLead(f, i)
    <3>1. i \in 1 .. n
      BY <2>4, <2>6, <2>7
    <3>2. ASSUME NEW k \in 1 .. i PROVE f[k] # Torn
      <4>1. k \in 1 .. n /\ k \in 1 .. Len(new) /\ k \in 1 .. Len(s)
        BY <2>4, <3>1
      <4>2. f[k] = s[k]
        BY <2>4, <2>6, <4>1
      <4>3. s[k] \in L
        <5> HIDE DEF L
        <5> QED
          BY <4>1
      <4> QED
        BY <4>2, <4>3, MemoryAssumption DEF Torn
    <3> QED
      BY <2>6, <3>2 DEF InLead
  <2>8. lost' = lost \cup {id \in Ids : Contents(file')[id] # truth[id]}
    BY <1>3 DEF Crash, At
  <2> QED
    BY <1>3, <2>5, <2>6, <2>7, <2>8
<1> QED
  BY <1>2, <1>3

LEMMA CrashKeepsTypes ==
  ASSUME MemoryInv, NEW c \in Callers, Crash(c)
  PROVE  MemoryInv'
<1>1. MemoryTypeOK /\ CommandOK(c)
  BY DEF MemoryInv
<1>2. /\ pc' = [pc EXCEPT ![c] = "idle"] /\ call' = [call EXCEPT ![c] = NoCall]
      /\ open' = open \ {c} /\ Engine(c, Nothing, NoIndex)
      /\ todo' = [todo EXCEPT ![c] = {}] /\ faults' = faults + 1
      /\ UNCHANGED <<used, truth, asked>>
  BY DEF Crash
<1>3. file' \in Seq(Line) /\ lost' \subseteq Ids
  <2>1. file' \in Seq(Line)
    BY <1>1, CrashIs
  <2>2. lost' \subseteq Ids
    <3>1. PICK S \in SUBSET Ids : lost' = lost \cup S
      BY DEF Crash
    <3> QED
      BY <1>1, <3>1 DEF MemoryTypeOK
  <2> QED
    BY <2>1, <2>2
<1>4. /\ mem' \in [Callers -> Entries] /\ index' \in [Callers -> [Tags -> SUBSET Ids]]
      /\ \A d \in Callers \ {c} : mem'[d] = mem[d] /\ index'[d] = index[d]
  BY <1>1, <1>2, EmptyEngineIs
<1>5. /\ pc'[c] = "idle" /\ call'[c] = NoCall /\ todo'[c] = {}
      /\ \A d \in Callers \ {c} : /\ pc'[d] = pc[d] /\ call'[d] = call[d]
                                 /\ todo'[d] = todo[d] /\ (d \in open' <=> d \in open)
  BY <1>1, <1>2 DEF MemoryTypeOK
<1>6. MemoryTypeOK'
  <2>1. pc' \in [Callers -> {"idle", "run", "touched", "truncated", "unlinked", "done"}]
    BY <1>1, <1>2 DEF MemoryTypeOK
  <2>2. call' \in [Callers -> Commands] /\ todo' \in [Callers -> SUBSET Ids]
    BY <1>1, <1>2, NothingIs DEF MemoryTypeOK
  <2> QED
    BY <1>1, <1>2, <1>3, <1>4, <2>1, <2>2 DEF MemoryTypeOK
<1>7. CommandOK(c)'
  BY <1>5 DEF CommandOK, Named, NoCall
<1>8. ASSUME NEW d \in Callers \ {c} PROVE CommandOK(d)'
  BY <1>4, <1>5, <1>8, AlikeIsOK DEF Alike, MemoryInv
<1> QED
  BY <1>6, <1>7, <1>8 DEF MemoryInv

LEMMA MemoryStutters ==
  ASSUME MemoryInv, UNCHANGED memoryVars
  PROVE  MemoryInv'
<1>1. MemoryTypeOK'
  BY DEF MemoryInv, MemoryTypeOK, memoryVars, engineVars, auxVars
<1>2. ASSUME NEW c \in Callers PROVE CommandOK(c)'
  BY <1>2 DEF MemoryInv, CommandOK, Present, memoryVars, engineVars
<1> QED
  BY <1>1, <1>2 DEF MemoryInv

LEMMA MemoryStart ==
  ASSUME MemoryInit
  PROVE  MemoryInv
<1>1. PICK m \in [Ids -> {Absent} \cup [version : {1}, tag : Tags, archived : {FALSE}]] :
        file = Lines(m) /\ truth = m /\ used = Present(m)
  BY DEF MemoryInit
<1>2. m \in Entries
  <2>1. ASSUME NEW id \in Ids PROVE m[id] \in Entry \cup {Absent}
    <3>1. m[id] = Absent \/ m[id] \in [version : {1}, tag : Tags, archived : {FALSE}]
      OBVIOUS
    <3>2. ASSUME NEW e \in [version : {1}, tag : Tags, archived : {FALSE}] PROVE e \in Entry
      <4>1. PICK t \in Tags : e = [version |-> 1, tag |-> t, archived |-> FALSE]
        <5>1. e.tag \in Tags /\ e = [version |-> 1, tag |-> e.tag, archived |-> FALSE]
          OBVIOUS
        <5> QED
          BY <5>1
      <4> QED
        BY <4>1 DEF Entry
    <3> QED
      BY <3>1, <3>2
  <2> QED
    BY <2>1 DEF Entries
<1>3. file \in Seq(Line) /\ truth \in Entries /\ used \subseteq Ids
  BY <1>1, <1>2, LinesAreLines DEF Present
<1>4. MemoryTypeOK
  BY <1>3, NothingIs DEF MemoryInit, MemoryTypeOK
<1>5. ASSUME NEW c \in Callers PROVE CommandOK(c)
  BY DEF MemoryInit, CommandOK, NoCall, Named
<1> QED
  BY <1>4, <1>5 DEF MemoryInv

LEMMA MemoryInvariant == MemorySpec => []MemoryInv
<1>1. ASSUME MemoryInv, [MemoryNext]_memoryVars PROVE MemoryInv'
  BY <1>1, CallKeepsTypes, CrashKeepsTypes, MemoryStutters DEF MemoryNext
<1> QED
  BY <1>1, MemoryStart, PTL DEF MemorySpec

\* The lines of the file and every engine's entries and index have the types of the code's
\* tables, wherever calls overlap and processes end.
THEOREM MemoryTypeCorrect == MemorySpec => []MemoryTypeOK
<1>1. MemoryInv => MemoryTypeOK
  BY DEF MemoryInv
<1> QED
  BY <1>1, MemoryInvariant, PTL

------------------------------------------------------------------------------
(***************************************************************************)
(* Searches.  Also an archived entry is under its tag.                     *)
(***************************************************************************)
Indexed(c) == \A id \in Ids : mem[c][id] # Absent => id \in index[c][mem[c][id].tag]

LoadedInv == \A c \in open : Indexed(c)

LEMMA LoadedIsIndexed ==
  ASSUME NEW f \in Seq(Line), NEW id \in Ids, Contents(f)[id] # Absent
  PROVE  id \in IndexOf(f)[Contents(f)[id].tag]
<1>1. PICK n \in Nat : /\ Readable(f) \in Seq(Line) /\ Len(Readable(f)) = n
                       /\ \A i : InLead(f, i) <=> i \in 1 .. n
                       /\ \A i \in 1 .. n : Readable(f)[i] = f[i]
  BY LeadIsRead
<1>2. PICK i : InLead(f, i) /\ f[i].id = id /\ Contents(f)[id] = f[i].entry
  BY ContentsIs
<1>3. f[i] \in ToSet(Readable(f))
  BY <1>1, <1>2 DEF ToSet
<1>4. f[i].entry.tag \in Tags
  <2>1. f[i] \in Line /\ f[i] # Torn
    BY <1>2 DEF InLead
  <2> QED
    BY <2>1, LineIs DEF Entry
<1> QED
  BY <1>2, <1>3, <1>4 DEF IndexOf

LEMMA EmptiedIsIndexed ==
  ASSUME MemoryTypeOK, LoadedInv, NEW c \in Callers, Engine(c, Nothing, NoIndex),
         open' \subseteq open
  PROVE  LoadedInv'
<1>1. /\ mem'[c] = Nothing
      /\ \A d \in Callers \ {c} : mem'[d] = mem[d] /\ index'[d] = index[d]
  BY EmptyEngineIs
<1>2. Indexed(c)'
  BY <1>1 DEF Indexed, Nothing
<1>3. ASSUME NEW d \in open, d # c PROVE Indexed(d)'
  BY <1>1, <1>3 DEF LoadedInv, Indexed, MemoryTypeOK
<1> QED
  BY <1>2, <1>3 DEF LoadedInv

LEMMA CallKeepsIndex ==
  ASSUME MemoryInv, LoadedInv, NEW c \in Callers, CallStep(c)
  PROVE  LoadedInv'
<1>1. MemoryTypeOK /\ CommandOK(c)
  BY DEF MemoryInv
<1>2. ASSUME NEW id \in Ids, mem[c][id] # Absent PROVE mem[c][id].tag \in Tags
  BY <1>1, <1>2 DEF MemoryTypeOK, Entries, Entry
<1>3. CASE Begin(c)
  <2>1. Load(c)
    BY <1>3 DEF Begin
  <2>2. /\ open' = open \cup {c}
        /\ \A d \in Callers \ {c} : mem'[d] = mem[d] /\ index'[d] = index[d]
        /\ c \in open => mem'[c] = mem[c] /\ index'[c] = index[c]
        /\ c \notin open => mem'[c] = Contents(file) /\ index'[c] = IndexOf(file)
    BY <1>1, <2>1, LoadIs
  <2>3. Indexed(c)'
    BY <1>1, <2>2, LoadedIsIndexed DEF LoadedInv, Indexed, MemoryTypeOK
  <2>4. ASSUME NEW d \in open, d # c PROVE Indexed(d)'
    BY <1>1, <2>2, <2>4 DEF LoadedInv, Indexed, MemoryTypeOK
  <2> QED
    BY <2>2, <2>3, <2>4 DEF LoadedInv
<1>4. CASE Save(c) \/ Touch(c) \/ Change(c) \/ SetArchived(c) \/ ArchiveDue(c)
  <2>1. PICK id \in Ids, e \in Entry, where \in {"run", "touched", "done"} :
          Write(c, id, e, where) /\ pc[c] \in {"run", "touched"}
    BY <1>4, WritesAre DEF WritesOne
  <2>2. /\ mem'[c][id] = e /\ \A i \in Ids \ {id} : mem'[c][i] = mem[c][i]
        /\ id \in index'[c][e.tag]
        /\ \A t \in Tags : index[c][t] \subseteq index'[c][t]
    BY <1>1, <2>1, WriteIs
  <2>3. open' = open /\ \A d \in Callers \ {c} : mem'[d] = mem[d] /\ index'[d] = index[d]
    BY <1>1, <2>1, WriteIs
  <2>4. Indexed(c)'
    <3>1. Indexed(c)
      BY <1>1, <2>1 DEF CommandOK, LoadedInv
    <3>2. ASSUME NEW i \in Ids, mem'[c][i] # Absent
          PROVE  i \in index'[c][mem'[c][i].tag]
      <4>1. CASE i = id
        BY <2>2, <4>1
      <4>2. CASE i # id
        BY <1>2, <2>2, <3>1, <3>2, <4>2 DEF Indexed
      <4> QED
        BY <4>1, <4>2
    <3> QED
      BY <3>2 DEF Indexed
  <2>5. ASSUME NEW d \in open, d # c PROVE Indexed(d)'
    BY <1>1, <2>3, <2>5 DEF LoadedInv, Indexed, MemoryTypeOK
  <2> QED
    BY <2>3, <2>4, <2>5 DEF LoadedInv
<1>5. CASE Delete(c) \/ Purge(c)
  <2>1. PICK id \in Ids : mem[c][id] # Absent /\ Discard(c, id) /\ pc[c] = "run"
    BY <1>5, DiscardsAre DEF DiscardsOne
  <2>2. /\ mem'[c][id] = Absent /\ \A i \in Ids \ {id} : mem'[c][i] = mem[c][i]
        /\ \A t \in Tags : index[c][t] \ {id} \subseteq index'[c][t]
        /\ open' = open /\ \A d \in Callers \ {c} : mem'[d] = mem[d] /\ index'[d] = index[d]
    BY <1>1, <2>1, DiscardIs
  <2>3. Indexed(c)'
    <3>1. Indexed(c)
      BY <1>1, <2>1 DEF CommandOK, LoadedInv
    <3> QED
      BY <1>2, <2>2, <3>1 DEF Indexed
  <2>4. ASSUME NEW d \in open, d # c PROVE Indexed(d)'
    BY <1>1, <2>2, <2>4 DEF LoadedInv, Indexed, MemoryTypeOK
  <2> QED
    BY <2>2, <2>3, <2>4 DEF LoadedInv
<1>6. CASE NotFound(c) \/ PassEnds(c) \/ Rebuild(c)
  <2>1. UNCHANGED <<open, mem, index>>
    BY <1>6 DEF NotFound, PassEnds, Rebuild, engineVars
  <2> QED
    BY <2>1 DEF LoadedInv, Indexed
<1>7. CASE Clear(c) \/ End(c)
  <2>1. \/ UNCHANGED <<open, mem, index>>
        \/ Engine(c, Nothing, NoIndex) /\ open' \subseteq open
    BY <1>7 DEF Clear, End, Drop
  <2>2. CASE UNCHANGED <<open, mem, index>>
    BY <2>2 DEF LoadedInv, Indexed
  <2>3. CASE Engine(c, Nothing, NoIndex) /\ open' \subseteq open
    BY <1>1, <2>3, EmptiedIsIndexed
  <2> QED
    BY <2>1, <2>2, <2>3
<1> QED
  BY <1>3, <1>4, <1>5, <1>6, <1>7 DEF CallStep

\* A search by tag finds every living entry with the tag, in the engine that read the file and
\* in one that wrote since (MemoryIndex: the index is changed with every write, deletion and load).
THEOREM FoundByItsTag == MemorySpec => []FoundByTag
<1>1. MemoryInit => LoadedInv
  BY DEF MemoryInit, LoadedInv
<1>2. ASSUME MemoryInv, LoadedInv, [MemoryNext]_memoryVars PROVE LoadedInv'
  <2>1. ASSUME NEW c \in Callers, Crash(c) PROVE LoadedInv'
    <3>1. Engine(c, Nothing, NoIndex) /\ open' \subseteq open
      BY <2>1 DEF Crash
    <3> QED
      BY <1>2, <3>1, EmptiedIsIndexed DEF MemoryInv
  <2>2. CASE UNCHANGED memoryVars
    BY <1>2, <2>2 DEF LoadedInv, Indexed, memoryVars, engineVars
  <2> QED
    BY <1>2, <2>1, <2>2, CallKeepsIndex DEF MemoryNext
<1>3. MemoryInv /\ LoadedInv => FoundByTag
  <2>1. ASSUME MemoryInv, LoadedInv, NEW c \in open,
               NEW id \in Present(mem[c]) \ Archived(mem[c])
        PROVE  id \in Search(c, mem[c][id].tag)
    <3>1. id \in index[c][mem[c][id].tag] /\ ~ mem[c][id].archived
      BY <2>1 DEF LoadedInv, Indexed, Present, Archived
    <3> QED
      BY <3>1 DEF Search
  <2> QED
    BY <2>1 DEF FoundByTag
<1> QED
  BY <1>1, <1>2, <1>3, MemoryInvariant, PTL DEF MemorySpec

------------------------------------------------------------------------------
(***************************************************************************)
(* What was last written.  A file tells it with the last line of every id, *)
(* also with those behind a torn line: they are read again once the file   *)
(* is written over up to them.                                             *)
(***************************************************************************)
TrueLines(f, t, excepted) ==
  \A i \in DOMAIN f : Latest(f, i) /\ f[i].id \notin excepted => f[i].entry = t[f[i].id]

KeptInv == TrueLines(file, truth, lost) /\ WrittenIsKept

LEMMA TrueLinesAreRead ==
  ASSUME NEW f \in Seq(Line), NEW t, NEW excepted, TrueLines(f, t, excepted),
         NEW id \in Ids \ excepted
  PROVE  \/ Contents(f)[id] = t[id]
         \/ Contents(f)[id] = Absent /\ \A i : InLead(f, i) => f[i].id # id
<1>1. ASSUME NEW i, InLead(f, i), f[i].id = id, Contents(f)[id] = f[i].entry,
             \A j : InLead(f, j) /\ f[j].id = id => j <= i
      PROVE  Contents(f)[id] = t[id]
  <2>1. i \in 1 .. Len(f) /\ \A k \in 1 .. i : f[k] # Torn
    BY <1>1 DEF InLead
  <2>2. ASSUME NEW j \in DOMAIN f, j > i, f[j].id = f[i].id
        PROVE  \E k \in i .. j : f[k] = Torn
    <3>1. ~ InLead(f, j)
      BY <1>1, <2>1, <2>2
    <3>2. PICK k \in 1 .. j : f[k] = Torn
      BY <3>1 DEF InLead
    <3>3. k \in i .. j
      BY <2>1, <3>2
    <3> QED
      BY <3>2, <3>3
  <2>3. Latest(f, i) /\ i \in DOMAIN f
    BY <2>1, <2>2 DEF Latest
  <2> QED
    BY <1>1, <2>3 DEF TrueLines
<1> QED
  BY <1>1, ContentsIs

\* A file that begins with the lines of some entries tells all of these.
LEMMA BeginningIsRead ==
  ASSUME NEW m \in Entries, NEW f \in Seq(Line), Len(f) >= Len(Lines(m)),
         \A i \in 1 .. Len(Lines(m)) : f[i] = Lines(m)[i],
         NEW id \in Ids, m[id] # Absent
  PROVE  \E i : InLead(f, i) /\ f[i].id = id
<1> DEFINE L == [id : Ids, entry : Entry]
<1>1. PICK s \in Seq(L) : s = Lines(m)
  BY LinesAre
<1>2. PICK i \in 1 .. Len(s) : s[i].id = id
  BY <1>1, LinesAre DEF Present
<1>3. ASSUME NEW k \in 1 .. i PROVE f[k] # Torn
  <2>1. k \in 1 .. Len(s) /\ f[k] = s[k]
    BY <1>1
  <2>2. s[k] \in L
    <3> HIDE DEF L
    <3> QED
      BY <2>1
  <2> QED
    BY <2>1, <2>2, MemoryAssumption DEF Torn
<1>4. i \in DOMAIN f /\ f[i].id = id
  BY <1>1, <1>2
<1> QED
  BY <1>3, <1>4 DEF InLead

\* A file that the lines of some entries were written to tells what was last written about
\* all entries but those of which these are not the last state.
LEMMA RewrittenIsTrue ==
  ASSUME NEW m \in Entries, NEW old \in Seq(Line), NEW f \in WrittenOver(Lines(m), old),
         NEW t, NEW S, NEW excepted, TrueLines(old, t, S), S \subseteq excepted,
         \A id \in Ids \ excepted : t[id] = m[id]
  PROVE  /\ TrueLines(f, t, excepted)
         /\ \A id \in Ids \ excepted : Contents(f)[id] = t[id]
<1>1. PICK s \in Seq(Line) : s = Lines(m)
  BY LinesAreLines
<1>2. /\ f \in Seq(Line) /\ Len(f) >= Len(s)
      /\ \A i \in 1 .. Len(s) : f[i] = s[i]
      /\ \A i \in DOMAIN f : \/ i \in 1 .. Len(s)
                             \/ f[i] = Torn
                             \/ \E k \in DOMAIN old :
                                  f[i] = old[k] /\ (Latest(f, i) => Latest(old, k))
  BY <1>1, OverwrittenIs
<1>3. ASSUME NEW i \in DOMAIN f, Latest(f, i), f[i].id \notin excepted
      PROVE  f[i].entry = t[f[i].id]
  <2>1. f[i] # Torn /\ f[i].id \in Ids
    <3>1. f[i] \in Line /\ f[i] # Torn
      BY <1>2, <1>3 DEF Latest
    <3> QED
      BY <3>1, LineIs
  <2>2. CASE i \in 1 .. Len(s)
    BY <1>1, <1>2, <1>3, <2>1, <2>2, LinesAre
  <2>3. CASE \E k \in DOMAIN old : f[i] = old[k] /\ (Latest(f, i) => Latest(old, k))
    BY <1>3, <2>3 DEF TrueLines
  <2>4. \/ i \in 1 .. Len(s)
        \/ \E k \in DOMAIN old : f[i] = old[k] /\ (Latest(f, i) => Latest(old, k))
    BY <1>2, <1>3, <2>1, Zenon
  <2> QED
    BY <2>2, <2>3, <2>4
<1>4. TrueLines(f, t, excepted)
  BY <1>3 DEF TrueLines
<1>5. ASSUME NEW id \in Ids \ excepted PROVE Contents(f)[id] = t[id]
  <2>1. CASE m[id] = Absent
    BY <1>2, <1>4, <2>1, TrueLinesAreRead
  <2>2. CASE m[id] # Absent
    <3>1. \E i : InLead(f, i) /\ f[i].id = id
      BY <1>1, <1>2, <2>2, BeginningIsRead
    <3> QED
      BY <1>2, <1>4, <3>1, TrueLinesAreRead
  <2> QED
    BY <2>1, <2>2
<1> QED
  BY <1>4, <1>5

\* A line at the end counts for its id, unless a torn one is before it.
LEMMA AppendedIs ==
  ASSUME NEW f \in Seq(Line), NEW l \in Line, l # Torn, NEW id \in Ids
  PROVE  Contents(Append(f, l))[id] = IF id = l.id /\ Torn \notin ToSet(f) THEN l.entry
                                      ELSE Contents(f)[id]
<1>1. PICK g \in Seq(Line) : g = Append(f, l)
  <2>1. Append(f, l) \in Seq(Line)
    OBVIOUS
  <2> QED
    BY <2>1
<1>2. PICK n \in Nat : n = Len(f)
  OBVIOUS
<1>3. /\ DOMAIN f = 1 .. n /\ DOMAIN g = 1 .. n + 1 /\ g[n + 1] = l
      /\ \A i \in 1 .. n : g[i] = f[i]
  BY <1>1, <1>2
<1>4. ASSUME NEW i \in 1 .. n PROVE InLead(g, i) <=> InLead(f, i)
  BY <1>3 DEF InLead
<1>5. \A i : (InLead(g, i) => i \in 1 .. n + 1) /\ (InLead(f, i) => i \in 1 .. n)
  BY <1>3 DEF InLead
<1>6. InLead(g, n + 1) <=> Torn \notin ToSet(f)
  <2>1. ToSet(f) = {f[i] : i \in 1 .. n}
    BY <1>3 DEF ToSet
  <2>2. InLead(g, n + 1) <=> \A k \in 1 .. n + 1 : g[k] # Torn
    BY <1>3 DEF InLead
  <2> QED
    BY <1>3, <2>1, <2>2
<1>7. \/ /\ Contents(f)[id] = Absent
         /\ \A i : InLead(f, i) => f[i].id # id
      \/ \E i : /\ InLead(f, i) /\ f[i].id = id
                /\ \A j : InLead(f, j) /\ f[j].id = id => j <= i
                /\ Contents(f)[id] = f[i].entry
  BY ContentsIs
<1>8. \/ /\ Contents(g)[id] = Absent
         /\ \A i : InLead(g, i) => g[i].id # id
      \/ \E i : /\ InLead(g, i) /\ g[i].id = id
                /\ \A j : InLead(g, j) /\ g[j].id = id => j <= i
                /\ Contents(g)[id] = g[i].entry
  BY ContentsIs
<1>9. CASE id = l.id /\ Torn \notin ToSet(f)
  BY <1>1, <1>3, <1>5, <1>6, <1>8, <1>9
<1>10. CASE ~ (id = l.id /\ Torn \notin ToSet(f))
  <2>1. ASSUME NEW i, InLead(g, i), g[i].id = id PROVE InLead(f, i) /\ f[i].id = id
    BY <1>3, <1>4, <1>5, <1>6, <1>10, <2>1
  <2>2. ASSUME NEW i, InLead(f, i), f[i].id = id PROVE InLead(g, i) /\ g[i].id = id
    BY <1>3, <1>4, <1>5, <2>2
  <2>3. \A i : InLead(f, i) => g[i].entry = f[i].entry
    BY <1>3, <1>5
  <2> SUFFICES Contents(g)[id] = Contents(f)[id]
    BY <1>1, <1>10
  <2>4. CASE \A i : InLead(f, i) => f[i].id # id
    BY <1>7, <1>8, <2>1, <2>4, Zenon
  <2>5. CASE \E i : InLead(f, i) /\ f[i].id = id
    <3>1. PICK i : /\ InLead(f, i) /\ f[i].id = id
                   /\ \A j : InLead(f, j) /\ f[j].id = id => j <= i
                   /\ Contents(f)[id] = f[i].entry
      BY <1>7, <2>5, Zenon
    <3>2. PICK k : /\ InLead(g, k) /\ g[k].id = id
                   /\ \A j : InLead(g, j) /\ g[j].id = id => j <= k
                   /\ Contents(g)[id] = g[k].entry
      BY <1>8, <2>2, <2>5, Zenon
    <3>3. i <= k /\ k <= i /\ InLead(f, k)
      BY <2>1, <2>2, <3>1, <3>2, Zenon
    <3>4. i = k
      BY <1>5, <3>1, <3>3
    <3> QED
      BY <2>3, <3>1, <3>2, <3>4, Zenon
  <2> QED
    BY <2>4, <2>5
<1> QED
  BY <1>9, <1>10

\* A written entry.
LEMMA WriteKeeps ==
  ASSUME MemoryTypeOK, KeptInv, NEW c \in Callers, NEW id \in Ids, NEW e \in Entry, NEW where,
         where # "truncated", pc[c] # "truncated", Write(c, id, e, where)
  PROVE  KeptInv'
<1> DEFINE l == [id |-> id, entry |-> e]
<1>1. /\ file' = Append(file, l)
      /\ lost' = IF Torn \in ToSet(file) THEN lost \cup {id} ELSE lost \ {id}
      /\ truth'[id] = e /\ \A i \in Ids \ {id} : truth'[i] = truth[i]
      /\ pc'[c] = where /\ \A d \in Callers \ {c} : pc'[d] = pc[d]
  <2>1. truth'[id] = e /\ \A i \in Ids \ {id} : truth'[i] = truth[i]
    BY WriteIs
  <2>2. pc'[c] = where /\ \A d \in Callers \ {c} : pc'[d] = pc[d]
    BY WriteIs
  <2> QED
    BY <2>1, <2>2 DEF Write
<1>2. l \in Line /\ l.id = id /\ l.entry = e /\ l # Torn
  BY MemoryAssumption DEF Line, Torn
<1> HIDE DEF l
<1>3. PICK n \in Nat : n = Len(file) /\ DOMAIN file = 1 .. n
  BY DEF MemoryTypeOK
<1>4. PICK g : g = file'
  OBVIOUS
<1>5. /\ g \in Seq(Line) /\ DOMAIN g = 1 .. n + 1 /\ g[n + 1] = l
      /\ \A i \in 1 .. n : g[i] = file[i]
  BY <1>1, <1>2, <1>3, <1>4 DEF MemoryTypeOK
<1>6. ASSUME NEW i \in DOMAIN g, Latest(g, i), g[i].id \notin lost'
      PROVE  g[i].entry = truth'[g[i].id]
  <2>1. CASE i = n + 1
    BY <1>1, <1>2, <1>5, <2>1
  <2>2. CASE i \in 1 .. n
    <3>1. g[i] = file[i] /\ g[i] \in Line /\ g[i] # Torn
      BY <1>5, <1>6, <2>2 DEF Latest
    <3>2. g[i].id \in Ids
      BY <3>1, LineIs
    <3>3. Latest(file, i)
      <4>1. ASSUME NEW j \in DOMAIN file, j > i, file[j].id = file[i].id
            PROVE  \E k \in i .. j : file[k] = Torn
        <5>1. j \in DOMAIN g /\ g[j] = file[j]
          BY <1>3, <1>5
        <5>2. PICK k \in i .. j : g[k] = Torn
          BY <1>6, <3>1, <4>1, <5>1 DEF Latest
        <5>3. k \in 1 .. n
          BY <1>3, <2>2
        <5> QED
          BY <1>5, <5>2, <5>3
      <4> QED
        BY <3>1, <4>1 DEF Latest
    <3>4. g[i].id # id
      <4>1. SUFFICES ASSUME g[i].id = id PROVE FALSE
        OBVIOUS
      <4>2. Torn \notin ToSet(file)
        BY <1>1, <1>6, <4>1
      <4>3. PICK k \in i .. n + 1 : g[k] = Torn
        <5>1. n + 1 > i /\ n + 1 \in DOMAIN g
          BY <1>3, <1>5, <2>2
        <5> QED
          BY <1>2, <1>5, <1>6, <4>1, <5>1 DEF Latest
      <4>4. k \in 1 .. n
        BY <1>2, <1>5, <2>2, <4>3
      <4> QED
        BY <1>3, <1>5, <4>2, <4>3, <4>4 DEF ToSet
    <3>5. g[i].id \notin lost
      BY <1>1, <1>6, <3>4
    <3>6. file[i].entry = truth[file[i].id]
      BY <1>3, <2>2, <3>1, <3>3, <3>5 DEF KeptInv, TrueLines
    <3> QED
      BY <1>1, <3>1, <3>2, <3>4, <3>6
  <2> QED
    BY <1>5, <2>1, <2>2
<1>7. TrueLines(file, truth, lost)'
  BY <1>4, <1>6 DEF TrueLines
<1>8. ASSUME \A d \in Callers : pc'[d] # "truncated", NEW i \in Ids, i \notin lost'
      PROVE  Contents(file')[i] = truth'[i]
  <2>1. \A d \in Callers : pc[d] # "truncated"
    BY <1>1, <1>8
  <2>2. Contents(file')[i] = IF i = id /\ Torn \notin ToSet(file) THEN e ELSE Contents(file)[i]
    BY <1>1, <1>2, AppendedIs DEF MemoryTypeOK
  <2>3. i # id => i \notin lost
    BY <1>1, <1>8
  <2>4. i # id => Contents(file)[i] = truth[i]
    BY <2>1, <2>3 DEF KeptInv, WrittenIsKept, At
  <2>5. i = id => Torn \notin ToSet(file)
    BY <1>1, <1>8
  <2> QED
    BY <1>1, <2>2, <2>4, <2>5
<1>9. WrittenIsKept'
  BY <1>8 DEF WrittenIsKept, At
<1> QED
  BY <1>7, <1>9 DEF KeptInv

\* The steps that leave the file, and what was written last, alone.
LEMMA OthersKeep ==
  ASSUME KeptInv, UNCHANGED <<file, truth, lost>>,
         \A d \in Callers : pc[d] = "truncated" => pc'[d] = "truncated"
  PROVE  KeptInv'
<1>1. TrueLines(file, truth, lost)'
  BY DEF KeptInv, TrueLines
<1>2. WrittenIsKept'
  <2>1. ASSUME \A d \in Callers : pc'[d] # "truncated", NEW id \in Ids \ lost
        PROVE  Contents(file)[id] = truth[id]
    BY <2>1 DEF KeptInv, WrittenIsKept, At
  <2> QED
    BY <2>1 DEF WrittenIsKept, At
<1> QED
  BY <1>1, <1>2 DEF KeptInv

LEMMA RebuildKeeps ==
  ASSUME MemoryTypeOK, KeptInv, NEW c \in Callers, Rebuild(c)
  PROVE  KeptInv'
<1>1. /\ pc[c] \in {"truncated", "unlinked"} /\ truth' = truth
      /\ file' \in IF pc[c] = "truncated" THEN WrittenOver(Lines(mem[c]), file) ELSE {file}
      /\ lost' = IF pc[c] = "truncated" THEN lost \cup Unseen(c) ELSE lost
      /\ pc' = [pc EXCEPT ![c] = IF call[c].kind = "delete" \/ todo[c] = {}
                                 THEN "done" ELSE "run"]
  BY DEF Rebuild, At, Goto
<1>2. CASE pc[c] = "truncated"
  <2>1. /\ file \in Seq(Line) /\ mem[c] \in Entries
        /\ file' \in WrittenOver(Lines(mem[c]), file) /\ lost \subseteq lost'
        /\ TrueLines(file, truth, lost)
    BY <1>1, <1>2 DEF MemoryTypeOK, KeptInv
  <2>2. \A id \in Ids \ lost' : truth[id] = mem[c][id]
    BY <1>1, <1>2 DEF Unseen
  <2>3. /\ TrueLines(file', truth, lost')
        /\ \A id \in Ids \ lost' : Contents(file')[id] = truth[id]
    BY <2>1, <2>2, RewrittenIsTrue
  <2>4. TrueLines(file, truth, lost)'
    BY <1>1, <2>3 DEF TrueLines
  <2>5. WrittenIsKept'
    BY <1>1, <2>3 DEF WrittenIsKept
  <2> QED
    BY <2>4, <2>5 DEF KeptInv
<1>3. CASE pc[c] = "unlinked"
  <2>1. \A d \in Callers : pc[d] = "truncated" => pc'[d] = "truncated"
    BY <1>1, <1>3 DEF MemoryTypeOK
  <2> QED
    BY <1>1, <1>3, <2>1, OthersKeep
<1> QED
  BY <1>1, <1>2, <1>3

LEMMA CrashKeeps ==
  ASSUME MemoryTypeOK, KeptInv, NEW c \in Callers, Crash(c)
  PROVE  KeptInv'
<1>1. truth' = truth /\ pc' = [pc EXCEPT ![c] = "idle"]
  BY DEF Crash
<1>2. CASE pc[c] # "truncated"
  <2>1. file' = file /\ lost' = lost
    BY <1>2, CrashIs
  <2>2. \A d \in Callers : pc[d] = "truncated" => pc'[d] = "truncated"
    BY <1>1, <1>2 DEF MemoryTypeOK
  <2> QED
    BY <1>1, <2>1, <2>2, OthersKeep
<1>3. CASE pc[c] = "truncated"
  <2>1. PICK f \in Seq(Line) : f = file'
    BY CrashIs
  <2>2. /\ lost' = lost \cup {id \in Ids : Contents(f)[id] # truth[id]}
        /\ \A i \in DOMAIN f :
             \/ InLead(f, i) \/ f[i] = Torn
             \/ \E k \in DOMAIN file : f[i] = file[k] /\ (Latest(f, i) => Latest(file, k))
    BY <1>3, <2>1, CrashIs
  <2>3. ASSUME NEW i \in DOMAIN f, Latest(f, i), f[i].id \notin lost'
        PROVE  f[i].entry = truth[f[i].id]
    <3>1. f[i] # Torn /\ f[i].id \in Ids
      <4>1. f[i] \in Line /\ f[i] # Torn
        BY <2>3 DEF Latest
      <4> QED
        BY <4>1, LineIs
    <3>2. CASE InLead(f, i)
      <4>1. PICK id \in Ids : id = f[i].id
        BY <3>1
      <4>2. Contents(f)[id] = truth[id]
        BY <2>2, <2>3, <4>1
      <4>3. PICK k : /\ InLead(f, k) /\ f[k].id = id
                     /\ \A j : InLead(f, j) /\ f[j].id = id => j <= k
                     /\ Contents(f)[id] = f[k].entry
        BY <3>2, <4>1, ContentsIs
      <4>4. k = i
        <5>1. k \in DOMAIN f /\ i <= k /\ \A j \in 1 .. k : f[j] # Torn
          BY <3>2, <4>1, <4>3 DEF InLead
        <5>2. ~ (k > i)
          <6>1. SUFFICES ASSUME k > i PROVE FALSE
            OBVIOUS
          <6>2. PICK j \in i .. k : f[j] = Torn
            BY <2>3, <4>1, <4>3, <5>1, <6>1 DEF Latest
          <6>3. j \in 1 .. k
            OBVIOUS
          <6> QED
            BY <5>1, <6>2, <6>3
        <5> QED
          BY <5>1, <5>2
      <4> QED
        BY <4>1, <4>2, <4>3, <4>4
    <3>3. CASE \E k \in DOMAIN file : f[i] = file[k] /\ (Latest(f, i) => Latest(file, k))
      BY <2>2, <2>3, <3>3 DEF KeptInv, TrueLines
    <3> QED
      BY <2>2, <3>1, <3>2, <3>3, Zenon
  <2>4. TrueLines(file, truth, lost)'
    BY <1>1, <2>1, <2>3 DEF TrueLines
  <2>5. WrittenIsKept'
    BY <1>1, <2>1, <2>2 DEF WrittenIsKept
  <2> QED
    BY <2>4, <2>5 DEF KeptInv
<1> QED
  BY <1>2, <1>3

\* A file without lines tells of no entry.
LEMMA NoLines ==
  /\ \A t, S : TrueLines(<<>>, t, S)
  /\ \A id \in Ids : Contents(<<>>)[id] = Absent
<1>1. <<>> \in Seq(Line) /\ DOMAIN <<>> = {}
  OBVIOUS
<1>2. \A i : ~ InLead(<<>>, i)
  BY <1>1 DEF InLead
<1> QED
  BY <1>1, <1>2, ContentsIs DEF TrueLines

LEMMA CallKeepsWritten ==
  ASSUME MemoryInv, KeptInv, NEW c \in Callers, CallStep(c)
  PROVE  KeptInv'
<1>1. MemoryTypeOK
  BY DEF MemoryInv
<1>2. CASE Save(c) \/ Touch(c) \/ Change(c) \/ SetArchived(c) \/ ArchiveDue(c)
  <2>1. PICK id \in Ids, e \in Entry, where \in {"run", "touched", "done"} :
          Write(c, id, e, where) /\ pc[c] \in {"run", "touched"}
    BY <1>2, WritesAre DEF WritesOne
  <2>2. where # "truncated" /\ pc[c] # "truncated"
    BY <2>1
  <2> QED
    BY <1>1, <2>1, <2>2, WriteKeeps
<1>3. CASE Delete(c) \/ Purge(c)
  <2>1. PICK id \in Ids : mem[c][id] # Absent /\ Discard(c, id)
    BY <1>3, DiscardsAre DEF DiscardsOne
  <2>2. file' = <<>> /\ pc'[c] = "truncated"
    BY <1>1, <2>1, DiscardIs DEF MemoryTypeOK
  <2>3. WrittenIsKept'
    BY <2>2 DEF WrittenIsKept, At
  <2> QED
    BY <2>2, <2>3, NoLines DEF KeptInv
<1>4. CASE Rebuild(c)
  BY <1>1, <1>4, RebuildKeeps
<1>5. CASE Clear(c)
  <2>1. file' = <<>> /\ truth' = Nothing
    BY <1>5 DEF Clear
  <2>2. WrittenIsKept'
    BY <2>1, NoLines DEF WrittenIsKept, Nothing
  <2> QED
    BY <2>1, <2>2, NoLines DEF KeptInv
<1>6. CASE Begin(c) \/ NotFound(c) \/ PassEnds(c) \/ End(c)
  <2>1. UNCHANGED <<file, truth, lost>> /\ pc[c] \in {"idle", "run", "done"}
    BY <1>6 DEF Begin, NotFound, PassEnds, End, At, Is, auxVars
  <2>2. \E where : pc' = [pc EXCEPT ![c] = where]
    BY <1>6 DEF Begin, NotFound, PassEnds, End, Goto
  <2>3. \A d \in Callers : pc[d] = "truncated" => pc'[d] = "truncated"
    BY <1>1, <2>1, <2>2 DEF MemoryTypeOK
  <2> QED
    BY <2>1, <2>3, OthersKeep
<1> QED
  BY <1>2, <1>3, <1>4, <1>5, <1>6 DEF CallStep

LEMMA KeptAtStart ==
  ASSUME MemoryInit
  PROVE  KeptInv
<1>1. PICK m \in [Ids -> {Absent} \cup [version : {1}, tag : Tags, archived : {FALSE}]] :
        file = Lines(m) /\ truth = m
  BY DEF MemoryInit
<1>2. truth = m /\ m \in Entries /\ lost = {}
  BY <1>1, MemoryStart DEF MemoryInit, MemoryInv, MemoryTypeOK
<1>3. file \in WrittenOver(Lines(m), <<>>) /\ <<>> \in Seq(Line)
  <2>1. CASE Lines(m) = <<>>
    BY <1>1, <2>1 DEF WrittenOver
  <2>2. CASE Lines(m) # <<>>
    <3>1. Lines(m) \in Seq(Line)
      BY <1>2, LinesAreLines
    <3>2. Lines(m) \o SubSeq(<<>>, 1, 0) = Lines(m)
      BY <3>1
    <3> QED
      BY <1>1, <2>2, <3>2 DEF WrittenOver
  <2> QED
    BY <2>1, <2>2
<1>4. /\ TrueLines(file, m, {})
      /\ \A id \in Ids \ {} : Contents(file)[id] = m[id]
  <2>1. PICK empty, none : empty = <<>> /\ none = {}
    OBVIOUS
  <2>2. empty \in Seq(Line) /\ file \in WrittenOver(Lines(m), empty)
    BY <1>3, <2>1
  <2>3. TrueLines(empty, m, none) /\ none \subseteq none
    BY <2>1, NoLines
  <2>4. /\ TrueLines(file, m, none)
        /\ \A id \in Ids \ none : Contents(file)[id] = m[id]
    BY <1>2, <2>2, <2>3, RewrittenIsTrue
  <2> QED
    BY <2>1, <2>4
<1> QED
  BY <1>1, <1>2, <1>4 DEF KeptInv, WrittenIsKept

\* Whatever calls overlap and wherever processes end, a new engine loads what was last written
\* about every entry but those that someone wrote over unseen, wrote behind a torn line, or
\* lost with the end of a process (MemoryStore.save, delete and _rebuild_disk).
THEOREM WrittenKept == MemorySpec => []WrittenIsKept
<1>1. MemoryInit => KeptInv
  BY KeptAtStart
<1>2. ASSUME MemoryInv, KeptInv, [MemoryNext]_memoryVars PROVE KeptInv'
  <2>1. CASE UNCHANGED memoryVars
    <3>1. UNCHANGED <<file, truth, lost>> /\ pc' = pc
      BY <2>1 DEF memoryVars, auxVars
    <3> QED
      BY <1>2, <3>1, OthersKeep
  <2> QED
    BY <1>2, <2>1, CallKeepsWritten, CrashKeeps DEF MemoryNext, MemoryInv
<1>3. KeptInv => WrittenIsKept
  BY DEF KeptInv
<1> QED
  BY <1>1, <1>2, <1>3, MemoryInvariant, PTL DEF MemorySpec

------------------------------------------------------------------------------
(***************************************************************************)
(* PipelineRun.                                                            *)
(***************************************************************************)
USE DEF state, runner, store, undo, history, GoTo, Mark, Call

\* CheckpointManager.create under its cap: the new checkpoint is the last one, and
\* every other one was there before.
LEMMA KeptCheckpoints ==
  ASSUME NEW S, NEW s \in Seq(S), NEW ck \in S, Cap \in Nat \ {0}, Len(s) <= Cap
  PROVE  /\ Kept(s, ck) \in Seq(S) /\ Len(Kept(s, ck)) <= Cap
         /\ Kept(s, ck) # <<>> /\ Last(Kept(s, ck)) = ck
         /\ \A k \in DOMAIN Kept(s, ck) :
              Kept(s, ck)[k] = ck \/ \E j \in DOMAIN s : Kept(s, ck)[k] = s[j]
<1>1. ASSUME NEW u \in Seq(S), Len(u) < Cap,
             \A k \in DOMAIN u : \E j \in DOMAIN s : u[k] = s[j],
             Kept(s, ck) = Append(u, ck)
      PROVE  /\ Kept(s, ck) \in Seq(S) /\ Len(Kept(s, ck)) <= Cap
             /\ Kept(s, ck) # <<>> /\ Last(Kept(s, ck)) = ck
             /\ \A k \in DOMAIN Kept(s, ck) :
                  Kept(s, ck)[k] = ck \/ \E j \in DOMAIN s : Kept(s, ck)[k] = s[j]
  <2>1. /\ Append(u, ck) \in Seq(S) /\ Len(Append(u, ck)) = Len(u) + 1
        /\ Append(u, ck)[Len(u) + 1] = ck
        /\ \A k \in 1 .. Len(u) : Append(u, ck)[k] = u[k]
        /\ DOMAIN u = 1 .. Len(u) /\ DOMAIN Append(u, ck) = 1 .. (Len(u) + 1)
        /\ Len(u) \in Nat
    OBVIOUS
  <2>2. Append(u, ck) # <<>>
    BY <2>1
  <2>3. Last(Append(u, ck)) = ck
    BY <2>1 DEF Last
  <2>4. ASSUME NEW k \in DOMAIN Append(u, ck)
        PROVE  Append(u, ck)[k] = ck \/ \E j \in DOMAIN s : Append(u, ck)[k] = s[j]
    <3>1. CASE k = Len(u) + 1
      BY <2>1, <3>1
    <3>2. CASE k \in DOMAIN u
      BY <1>1, <2>1, <3>2
    <3> QED
      BY <2>1, <3>1, <3>2
  <2>5. Len(Append(u, ck)) <= Cap
    BY <1>1, <2>1
  <2> QED
    BY <1>1, <2>1, <2>2, <2>3, <2>4, <2>5
<1>2. CASE Len(s) < Cap
  BY <1>1, <1>2 DEF Kept
<1>3. CASE ~ (Len(s) < Cap)
  <2>1. Len(s) = Cap /\ s # <<>> /\ Len(s) \in Nat
    BY <1>3
  <2>2. /\ Tail(s) \in Seq(S) /\ Len(Tail(s)) = Len(s) - 1
        /\ DOMAIN Tail(s) = 1 .. (Len(s) - 1) /\ DOMAIN s = 1 .. Len(s)
        /\ \A k \in 1 .. (Len(s) - 1) : Tail(s)[k] = s[k + 1]
    BY <2>1
  <2>3. \A k \in DOMAIN Tail(s) : \E j \in DOMAIN s : Tail(s)[k] = s[j]
    <3> TAKE k \in DOMAIN Tail(s)
    <3> WITNESS k + 1 \in DOMAIN s
    <3> QED BY <2>2
  <2>4. Kept(s, ck) = Append(Tail(s), ck) /\ Len(Tail(s)) < Cap
    BY <1>3, <2>1, <2>2 DEF Kept
  <2> QED
    BY <1>1, <2>2, <2>3, <2>4
<1> QED
  BY <1>2, <1>3

\* A function on 1 .. n is a sequence.
LEMMA FunctionIsSeq ==
  ASSUME NEW S, NEW n \in Nat, NEW f \in [1 .. n -> S]
  PROVE  f \in Seq(S) /\ Len(f) = n /\ DOMAIN f = 1 .. n
<1>1. f \in Seq(S)
  BY SeqDef
<1> QED
  BY <1>1, LenProperties

\* What a sequence holds is of its type.
LEMMA ElementsOfSeq ==
  ASSUME NEW S, NEW s \in Seq(S)
  PROVE  /\ Len(s) \in Nat /\ DOMAIN s = 1 .. Len(s)
         /\ \A k \in 1 .. Len(s) : s[k] \in S
         /\ ToSet(s) \subseteq S
  BY ElementOfSeq, LenProperties DEF ToSet

\* The stages and their tasks.
LEMMA StageTypes ==
  ASSUME NEW p \in Plans
  PROVE  /\ Len(Stages[p]) \in Nat
         /\ \A k \in 1 .. Len(Stages[p]) :
              /\ Stages[p][k].parallel \in BOOLEAN
              /\ StageTasks(p, k) \subseteq Tasks
              /\ \A i \in 1 .. Len(Stages[p][k].tasks) : Stages[p][k].tasks[i] \in Tasks
              /\ Len(Stages[p][k].tasks) \in Nat
<1>1. Stages[p] \in Seq(StageRecord)
  BY PipelineAssumption
<1>2. Len(Stages[p]) \in Nat /\ \A k \in 1 .. Len(Stages[p]) : Stages[p][k] \in StageRecord
  BY <1>1, ElementsOfSeq
<1>3. ASSUME NEW k \in 1 .. Len(Stages[p])
      PROVE  Stages[p][k].tasks \in Seq(Tasks) /\ Stages[p][k].parallel \in BOOLEAN
  BY <1>2 DEF StageRecord
<1> QED
  BY <1>2, <1>3, ElementsOfSeq DEF StageTasks

\* No two entries of a sequence of handlers, or of steps, are for the same task.
DistinctHandlers(hs) == \A i, j \in DOMAIN hs : hs[i].task = hs[j].task => i = j
DistinctSteps(ts)    == \A i, j \in DOMAIN ts : ts[i] = ts[j] => i = j

\* RollbackManager.register_handler.
LEMMA RegisteredHandlers ==
  ASSUME NEW p \in Plans, NEW t \in Undoable, Register(p, t),
         handlers \in Seq(Handler)
  PROVE  /\ handlers' \in Seq(Handler)
         /\ \A h \in ToSet(handlers') :
              h = [task |-> t, plan |-> p] \/ (h \in ToSet(handlers) /\ h.task # t)
         /\ DistinctHandlers(handlers) => DistinctHandlers(handlers')
<1> DEFINE h0 == [task |-> t, plan |-> p]
           H == Handler
<1>0. h0 \in H
  BY DEF Handler
<1>1. CASE \E k \in DOMAIN handlers : handlers[k].task = t
  <2> DEFINE new == [k \in DOMAIN handlers |-> IF handlers[k].task = t THEN h0 ELSE handlers[k]]
  <2>1. handlers' = new
    BY <1>1 DEF Register
  <2>2. DOMAIN handlers = 1 .. Len(handlers) /\ Len(handlers) \in Nat
        /\ \A k \in DOMAIN handlers : handlers[k] \in H
    BY ElementsOfSeq
  <2>3. new \in Seq(H)
    <3>1. new \in [1 .. Len(handlers) -> H]
      BY <1>0, <2>2
    <3> HIDE DEF new, H
    <3> QED
      BY <2>2, <3>1, FunctionIsSeq
  <2>4. \A h \in ToSet(new) : h = h0 \/ (h \in ToSet(handlers) /\ h.task # t)
    BY DEF ToSet
  <2>5. DistinctHandlers(handlers) => DistinctHandlers(new)
    BY DEF DistinctHandlers
  <2> QED
    BY <2>1, <2>3, <2>4, <2>5
<1>2. CASE ~ \E k \in DOMAIN handlers : handlers[k].task = t
  <2>1. handlers' = Append(handlers, h0)
    BY <1>2 DEF Register
  <2>2. /\ handlers' \in Seq(H) /\ DOMAIN handlers' = 1 .. (Len(handlers) + 1)
        /\ \A k \in 1 .. Len(handlers) : handlers'[k] = handlers[k]
        /\ handlers'[Len(handlers) + 1] = h0
        /\ DOMAIN handlers = 1 .. Len(handlers) /\ Len(handlers) \in Nat
    BY <1>0, <2>1
  <2>3. \A h \in ToSet(handlers') : h = h0 \/ (h \in ToSet(handlers) /\ h.task # t)
    BY <1>2, <2>2 DEF ToSet
  <2>4. DistinctHandlers(handlers) => DistinctHandlers(handlers')
    BY <1>2, <2>2 DEF DistinctHandlers
  <2> QED
    BY <2>2, <2>3, <2>4
<1> QED
  BY <1>1, <1>2

\* execute_rollback has a step for every handler.
LEMMA RollbackSteps ==
  ASSUME NEW p \in Plans, BeginRollback(p), undoing \in [Plans -> Seq(Tasks)],
         handlers \in Seq(Handler)
  PROVE  /\ undoing' \in [Plans -> Seq(Tasks)]
         /\ \A q \in Plans \ {p} : undoing'[q] = undoing[q]
         /\ ToSet(undoing'[p]) = {h.task : h \in ToSet(handlers)}
         /\ DistinctHandlers(handlers) => DistinctSteps(undoing'[p])
<1> DEFINE n == Len(handlers)
           steps == [k \in DOMAIN handlers |-> Reverse(handlers)[k].task]
<1>1. /\ n \in Nat /\ DOMAIN handlers = 1 .. n
      /\ \A k \in 1 .. n : handlers[k] \in Handler
  BY ElementsOfSeq
<1>2. \A k \in 1 .. n : (n - k) + 1 \in 1 .. n /\ steps[k] = handlers[(n - k) + 1].task
  BY <1>1 DEF Reverse
<1>3. steps \in Seq(Tasks)
  <2>1. \A k \in 1 .. n : steps[k] \in Tasks
    BY <1>1, <1>2, PipelineAssumption DEF Handler
  <2>2. steps \in [1 .. n -> Tasks]
    BY <1>1, <2>1
  <2> HIDE DEF steps
  <2> QED
    BY <1>1, <2>2, FunctionIsSeq
<1>4. ToSet(steps) = {h.task : h \in ToSet(handlers)}
  <2>1. \A k \in 1 .. n : steps[(n - k) + 1] = handlers[k].task /\ (n - k) + 1 \in 1 .. n
    BY <1>1, <1>2
  <2>2. DOMAIN steps = 1 .. n
    BY <1>1
  <2> HIDE DEF steps
  <2>3. ASSUME NEW k \in 1 .. n PROVE \E h \in ToSet(handlers) : steps[k] = h.task
    BY <1>1, <1>2 DEF ToSet
  <2>4. ASSUME NEW h \in ToSet(handlers) PROVE \E k \in 1 .. n : steps[k] = h.task
    <3>1. PICK k \in 1 .. n : handlers[k] = h
      BY <1>1 DEF ToSet
    <3> WITNESS (n - k) + 1 \in 1 .. n
    <3> QED
      BY <2>1, <3>1
  <2>5. ToSet(steps) = {steps[k] : k \in 1 .. n}
    BY <2>2 DEF ToSet
  <2> QED
    BY <2>3, <2>4, <2>5
<1>5. undoing' = [undoing EXCEPT ![p] = steps]
  BY DEF BeginRollback
<1>6. DistinctHandlers(handlers) => DistinctSteps(steps)
  <2> SUFFICES ASSUME DistinctHandlers(handlers), NEW i \in 1 .. n, NEW j \in 1 .. n,
                      steps[i] = steps[j]
               PROVE  i = j
    BY <1>1 DEF DistinctSteps
  <2>1. /\ (n - i) + 1 \in 1 .. n /\ (n - j) + 1 \in 1 .. n
        /\ handlers[(n - i) + 1].task = handlers[(n - j) + 1].task
    BY <1>2
  <2>2. (n - i) + 1 = (n - j) + 1
    BY <1>1, <2>1 DEF DistinctHandlers
  <2> QED
    BY <1>1, <2>2
<1> HIDE DEF steps
<1> QED
  BY <1>3, <1>4, <1>5, <1>6

\* What writing a checkpoint of plan p does to the table.
LEMMA CheckpointWritten ==
  ASSUME RecordsOK, NEW p \in Plans, NEW ts \in [Tasks -> TaskStatuses], NEW number \in Nat \ {0},
         Checkpoint(p, ts, number)
  PROVE  /\ checkpoints' \in [Plans -> Seq(CheckpointRecord)]
         /\ \A q \in Plans : Len(checkpoints'[q]) <= Cap
         /\ checkpoints'[p] # <<>>
         /\ Last(checkpoints'[p]) = [tasks |-> ts, stage |-> number]
         /\ \A k \in DOMAIN checkpoints'[p] :
              \/ checkpoints'[p][k] = [tasks |-> ts, stage |-> number]
              \/ \E j \in DOMAIN checkpoints[p] : checkpoints'[p][k] = checkpoints[p][j]
         /\ \A q \in Plans \ {p} : checkpoints'[q] = checkpoints[q]
<1> DEFINE ck == [tasks |-> ts, stage |-> number]
           new == Kept(checkpoints[p], ck)
<1>1. ck \in CheckpointRecord
  BY DEF CheckpointRecord
<1>2. checkpoints' = [checkpoints EXCEPT ![p] = new]
  BY DEF Checkpoint
<1>3. /\ checkpoints \in [Plans -> Seq(CheckpointRecord)]
      /\ \A q \in Plans : Len(checkpoints[q]) <= Cap
  BY DEF RecordsOK
<1> HIDE DEF ck
<1>4. /\ new \in Seq(CheckpointRecord) /\ Len(new) <= Cap /\ new # <<>> /\ Last(new) = ck
      /\ \A k \in DOMAIN new :
           new[k] = ck \/ \E j \in DOMAIN checkpoints[p] : new[k] = checkpoints[p][j]
  BY <1>1, <1>3, KeptCheckpoints, PipelineAssumption
<1> HIDE DEF new
<1>5. checkpoints'[p] = new /\ \A q \in Plans \ {p} : checkpoints'[q] = checkpoints[q]
  BY <1>2, <1>3
<1>6. checkpoints' \in [Plans -> Seq(CheckpointRecord)]
  BY <1>2, <1>3, <1>4
<1> QED
  BY <1>3, <1>4, <1>5, <1>6 DEF ck

\* Every table of the engine keeps its type, a plan's thread is inside a stage that
\* there is, and no plan has more checkpoints than the cap.
THEOREM PipelineTypeCorrect == Spec => []TypeOK
<1>1. Init => TypeOK
  BY PipelineAssumption DEF Init, TypeOK, ThreadsOK, RecordsOK, TaskStatuses, PlanStatuses, Points
<1>2. TypeOK /\ [Next]_vars => ThreadsOK'
  <2> SUFFICES ASSUME TypeOK, [Next]_vars PROVE ThreadsOK'
    OBVIOUS
  <2> USE StageTypes DEF TypeOK, ThreadsOK, TaskStatuses, PlanStatuses, Points
  <2>1. ASSUME NEW p \in Plans, RunPlan(p) PROVE ThreadsOK'
    BY <2>1 DEF RunPlan, Execute
  <2>2. ASSUME NEW p \in Plans, Resume(p) PROVE ThreadsOK'
    <3>1. PICK k \in DOMAIN checkpoints[p] : Execute(p, <<checkpoints[p][k]>>)
      BY <2>2 DEF Resume
    <3>2. checkpoints[p][k] \in CheckpointRecord
      BY <3>1, ElementsOfSeq DEF RecordsOK
    <3> QED
      BY <2>2, <3>1, <3>2 DEF Resume, Execute, CheckpointRecord
  <2>3. ASSUME NEW p \in Plans, Rollback(p) PROVE ThreadsOK'
    BY <2>3 DEF Rollback, BeginRollback
  <2>4. ASSUME NEW p \in Plans, EnterStage(p) PROVE ThreadsOK'
    BY <2>4 DEF EnterStage
  <2>5. ASSUME NEW p \in Plans, SkipStage(p) PROVE ThreadsOK'
    BY <2>5 DEF SkipStage, EndStage
  <2>6. ASSUME NEW p \in Plans, Complete(p) PROVE ThreadsOK'
    BY <2>6 DEF Complete
  <2>7. ASSUME NEW p \in Plans, NextTask(p) PROVE ThreadsOK'
    <3>1. PICK h \in Tasks : h = Here(p)
      <4> InStage(p, FALSE) /\ ~ Past(p)
        BY <2>7 DEF NextTask
      <4>1. stage[p] \in 1 .. Len(Stages[p])
        BY DEF InStage
      <4>2. position[p] \in 1 .. Len(Stages[p][stage[p]].tasks)
        BY <4>1 DEF Past
      <4> QED
        BY <4>1, <4>2 DEF Here
    <3>2. UNCHANGED <<status, stage, results, stageIndex, recoveries, effects, history>>
      BY <2>7 DEF NextTask
    <3>3. point[p] = "next"
      BY <2>7 DEF NextTask, InStage
    <3>4. CASE /\ position' = [position EXCEPT ![p] = @ + 1]
               /\ UNCHANGED <<tasks, point, wave>>
      BY <3>2, <3>4
    <3>5. CASE /\ tasks' = [tasks EXCEPT ![p][h] = "SKIPPED"]
               /\ position' = [position EXCEPT ![p] = @ + 1]
               /\ UNCHANGED <<point, wave>>
      BY <3>1, <3>2, <3>5
    <3>6. CASE /\ wave' = [wave EXCEPT ![p] = {h}]
               /\ point' = [point EXCEPT ![p] = "wait"]
               /\ UNCHANGED <<tasks, position>>
      BY <3>1, <3>2, <3>3, <3>6
    <3> QED
      BY <2>7, <3>1, <3>4, <3>5, <3>6 DEF NextTask
  <2>8. ASSUME NEW p \in Plans, EndSequential(p) PROVE ThreadsOK'
    BY <2>8 DEF EndSequential, InStage, Past, EndStage
  <2>9. ASSUME NEW p \in Plans, SubmitWave(p) PROVE ThreadsOK'
    BY <2>9 DEF SubmitWave, InStage, NextWave
  <2>10. ASSUME NEW p \in Plans, EndParallel(p) PROVE ThreadsOK'
    BY <2>10 DEF EndParallel, InStage, NextWave, EndStage
  <2>11. ASSUME NEW p \in Plans, NEW t \in Tasks, ApplyCompleted(p, t) PROVE ThreadsOK'
    BY <2>11 DEF ApplyCompleted, Take, GoOn, Register, WriteCheckpoint
  <2>12. ASSUME NEW p \in Plans, NEW t \in Tasks, ApplyTolerated(p, t) PROVE ThreadsOK'
    BY <2>12 DEF ApplyTolerated, Take, GoOn
  <2>13. ASSUME NEW p \in Plans, NEW t \in Tasks, ApplyFailure(p, t) PROVE ThreadsOK'
    BY <2>13 DEF ApplyFailure, Take
  <2>14. ASSUME NEW p \in Plans, Drain(p) PROVE ThreadsOK'
    BY <2>14 DEF Drain
  <2>15. ASSUME NEW p \in Plans, GiveUp(p) PROVE ThreadsOK'
    BY <2>15 DEF GiveUp, MayRecover
  <2>16. ASSUME NEW p \in Plans, Recover(p) PROVE ThreadsOK'
    BY <2>16 DEF Recover, BeginRollback, MayRecover
  <2>17. ASSUME NEW p \in Plans, UndoStep(p) PROVE ThreadsOK'
    BY <2>17 DEF UndoStep
  <2>18. ASSUME NEW p \in Plans, EndRollback(p) PROVE ThreadsOK'
    BY <2>18 DEF EndRollback
  <2>19. ASSUME NEW p \in Plans, ExecuteAgain(p) PROVE ThreadsOK'
    <3>1. source[p] # <<>> => source[p][1] \in CheckpointRecord
      BY ElementsOfSeq, EmptySeq DEF RecordsOK
    <3> QED
      BY <2>19, <3>1 DEF ExecuteAgain, Execute, CheckpointRecord
  <2>20. ASSUME NEW p \in Plans, NEW t \in Tasks, StartTask(p, t) PROVE ThreadsOK'
    BY <2>20 DEF StartTask
  <2>21. ASSUME NEW p \in Plans, NEW t \in Tasks, EndTask(p, t) PROVE ThreadsOK'
    <3>1. effects' \subseteq Plans \X Tasks
      BY <2>21 DEF EndTask
    <3>2. PICK r \in {"completed", "failed"} : results' = [results EXCEPT ![p][t] = r]
      BY <2>21 DEF EndTask
    <3> QED
      BY <2>21, <3>1, <3>2 DEF EndTask
  <2>22. CASE UNCHANGED vars
    BY <2>22 DEF vars
  <2> QED
    BY <2>1, <2>2, <2>3, <2>4, <2>5, <2>6, <2>7, <2>8, <2>9, <2>10, <2>11,
       <2>12, <2>13, <2>14, <2>15, <2>16, <2>17, <2>18, <2>19, <2>20, <2>21,
       <2>22
    DEF Next, Calls, PlanThread, Worker
<1>3. TypeOK /\ [Next]_vars => RecordsOK'
  <2> SUFFICES ASSUME TypeOK, [Next]_vars PROVE RecordsOK'
    OBVIOUS
  <2> USE StageTypes DEF TypeOK, RecordsOK
  <2>1. ASSUME NEW p \in Plans, RunPlan(p) PROVE RecordsOK'
    BY <2>1 DEF RunPlan, Execute
  <2>2. ASSUME NEW p \in Plans, Resume(p) PROVE RecordsOK'
    BY <2>2 DEF Resume, Execute
  <2>3. ASSUME NEW p \in Plans, Rollback(p) PROVE RecordsOK'
    <3>1. undoing' \in [Plans -> Seq(Tasks)]
      BY <2>3, RollbackSteps DEF Rollback
    <3> QED
      BY <2>3, <3>1 DEF Rollback
  <2>4. ASSUME NEW p \in Plans, EnterStage(p) PROVE RecordsOK'
    BY <2>4 DEF EnterStage
  <2>5. ASSUME NEW p \in Plans, SkipStage(p) PROVE RecordsOK'
    <3> DEFINE ts == [t \in Tasks |-> IF t \in StageTasks(p, stage[p]) /\ tasks[p][t] = "PENDING"
                                  THEN "SKIPPED" ELSE tasks[p][t]]
    <3>1. ts \in [Tasks -> TaskStatuses] /\ (stage[p] + 1) \in Nat \ {0}
      BY <2>5 DEF ThreadsOK, TaskStatuses
    <3>2. Checkpoint(p, ts, (stage[p] + 1)) \/ UNCHANGED checkpoints
      BY <2>5 DEF SkipStage, EndStage, WriteCheckpoint
    <3>4. unsaved' \subseteq Plans /\ skipped' \in Nat
      BY <2>5 DEF SkipStage, EndStage, WriteCheckpoint
    <3> HIDE DEF ts
    <3> QED
      BY <2>5, <3>1, <3>2, <3>4, CheckpointWritten DEF SkipStage
  <2>6. ASSUME NEW p \in Plans, Complete(p) PROVE RecordsOK'
    BY <2>6 DEF Complete
  <2>7. ASSUME NEW p \in Plans, NextTask(p) PROVE RecordsOK'
    BY <2>7 DEF NextTask, InStage, Here, Past, Settled, Ready
  <2>8. ASSUME NEW p \in Plans, EndSequential(p) PROVE RecordsOK'
    <3> DEFINE ts == tasks[p]
    <3>1. ts \in [Tasks -> TaskStatuses] /\ (stage[p] + 1) \in Nat \ {0}
      BY <2>8 DEF ThreadsOK, TaskStatuses
    <3>2. Checkpoint(p, ts, (stage[p] + 1)) \/ UNCHANGED checkpoints
      BY <2>8 DEF EndSequential, EndStage, WriteCheckpoint
    <3>4. unsaved' \subseteq Plans /\ skipped' \in Nat
      BY <2>8 DEF EndSequential, EndStage, WriteCheckpoint
    <3> HIDE DEF ts
    <3> QED
      BY <2>8, <3>1, <3>2, <3>4, CheckpointWritten DEF EndSequential
  <2>9. ASSUME NEW p \in Plans, SubmitWave(p) PROVE RecordsOK'
    BY <2>9 DEF SubmitWave, InStage, NextWave
  <2>10. ASSUME NEW p \in Plans, EndParallel(p) PROVE RecordsOK'
    <3> DEFINE ts == tasks[p]
    <3>1. ts \in [Tasks -> TaskStatuses] /\ (stage[p] + 1) \in Nat \ {0}
      BY <2>10 DEF ThreadsOK, TaskStatuses
    <3>2. Checkpoint(p, ts, (stage[p] + 1)) \/ UNCHANGED checkpoints
      BY <2>10 DEF EndParallel, EndStage, WriteCheckpoint
    <3>4. unsaved' \subseteq Plans /\ skipped' \in Nat
      BY <2>10 DEF EndParallel, EndStage, WriteCheckpoint
    <3> HIDE DEF ts
    <3> QED
      BY <2>10, <3>1, <3>2, <3>4, CheckpointWritten DEF EndParallel
  <2>11. ASSUME NEW p \in Plans, NEW t \in Tasks, ApplyCompleted(p, t) PROVE RecordsOK'
    <3> DEFINE ts == [tasks[p] EXCEPT ![t] = "COMPLETED"]
    <3>1. ts \in [Tasks -> TaskStatuses] /\ stageIndex \in Nat \ {0}
      BY <2>11 DEF ThreadsOK, TaskStatuses
    <3>2. Checkpoint(p, ts, stageIndex) \/ UNCHANGED checkpoints
      BY <2>11 DEF ApplyCompleted, WriteCheckpoint
    <3>4. unsaved' \subseteq Plans /\ skipped' \in Nat
      BY <2>11 DEF ApplyCompleted, WriteCheckpoint
    <3>3. handlers' \in Seq(Handler)
      BY <2>11, RegisteredHandlers DEF ApplyCompleted
    <3> HIDE DEF ts
    <3> QED
      BY <2>11, <3>1, <3>2, <3>3, <3>4, CheckpointWritten DEF ApplyCompleted
  <2>12. ASSUME NEW p \in Plans, NEW t \in Tasks, ApplyTolerated(p, t) PROVE RecordsOK'
    BY <2>12 DEF ApplyTolerated, Take, GoOn
  <2>13. ASSUME NEW p \in Plans, NEW t \in Tasks, ApplyFailure(p, t) PROVE RecordsOK'
    <3> DEFINE ts == [tasks[p] EXCEPT ![t] = "FAILED"]
    <3>1. ts \in [Tasks -> TaskStatuses] /\ stageIndex \in Nat \ {0}
      BY <2>13 DEF ThreadsOK, TaskStatuses
    <3>2. Checkpoint(p, ts, stageIndex) \/ UNCHANGED checkpoints
      BY <2>13 DEF ApplyFailure, WriteCheckpoint
    <3>4. unsaved' \subseteq Plans /\ skipped' \in Nat
      BY <2>13 DEF ApplyFailure, WriteCheckpoint
    <3> HIDE DEF ts
    <3> QED
      BY <2>13, <3>1, <3>2, <3>4, CheckpointWritten DEF ApplyFailure
  <2>14. ASSUME NEW p \in Plans, Drain(p) PROVE RecordsOK'
    BY <2>14 DEF Drain
  <2>15. ASSUME NEW p \in Plans, GiveUp(p) PROVE RecordsOK'
    BY <2>15 DEF GiveUp, MayRecover
  <2>16. ASSUME NEW p \in Plans, Recover(p) PROVE RecordsOK'
    <3>1. undoing' \in [Plans -> Seq(Tasks)]
      BY <2>16, RollbackSteps DEF Recover
    <3>2. checkpoints[p] # <<>> => Last(checkpoints[p]) \in CheckpointRecord
      BY ElementsOfSeq, EmptySeq DEF Last
    <3>3. source' \in [Plans -> Seq(CheckpointRecord)]
      BY <2>16, <3>2 DEF Recover
    <3> QED
      BY <2>16, <3>1, <3>3 DEF Recover
  <2>17. ASSUME NEW p \in Plans, UndoStep(p) PROVE RecordsOK'
    BY <2>17 DEF UndoStep
  <2>18. ASSUME NEW p \in Plans, EndRollback(p) PROVE RecordsOK'
    BY <2>18 DEF EndRollback
  <2>19. ASSUME NEW p \in Plans, ExecuteAgain(p) PROVE RecordsOK'
    BY <2>19 DEF ExecuteAgain, Execute
  <2>20. ASSUME NEW p \in Plans, NEW t \in Tasks, StartTask(p, t) PROVE RecordsOK'
    BY <2>20 DEF StartTask
  <2>21. ASSUME NEW p \in Plans, NEW t \in Tasks, EndTask(p, t) PROVE RecordsOK'
    BY <2>21 DEF EndTask
  <2>22. CASE UNCHANGED vars
    BY <2>22 DEF vars
  <2> QED
    BY <2>1, <2>2, <2>3, <2>4, <2>5, <2>6, <2>7, <2>8, <2>9, <2>10, <2>11,
       <2>12, <2>13, <2>14, <2>15, <2>16, <2>17, <2>18, <2>19, <2>20, <2>21,
       <2>22
    DEF Next, Calls, PlanThread, Worker
<1> QED
  BY <1>1, <1>2, <1>3, PTL DEF Spec, TypeOK

------------------------------------------------------------------------------
(***************************************************************************)
(* The order of the tasks: what the statuses, the checkpoints and the      *)
(* submitted tasks have in common.                                         *)
(***************************************************************************)
\* Task statuses ts in which whatever started had its dependencies completed.
OrderedBy(ts) ==
  \A t \in Tasks : ts[t] \in {"RUNNING", "COMPLETED", "FAILED"} =>
    \A d \in Deps[t] : ts[d] = "COMPLETED"

\* The statuses of every plan are ordered, and so is every copy of them that an
\* execution can start from.
StatusesOrdered ==
  \A p \in Plans :
    /\ OrderedBy(tasks[p])
    /\ \A k \in DOMAIN checkpoints[p] : OrderedBy(checkpoints[p][k].tasks)
    /\ source[p] # <<>> => OrderedBy(source[p][1].tasks)

\* A submitted task was ready and has not been given a final status; its result is
\* that of a running task; and after a failure only running tasks are left.
WavesOpen ==
  \A p \in Plans :
    /\ wave[p] # {} => point[p] \in {"wait", "cancelled"}
    /\ \A t \in wave[p] : tasks[p][t] \in {"PENDING", "RUNNING"} /\ Ready(p, t)
    /\ \A t \in Tasks : results[p][t] # "none" => t \in wave[p] /\ tasks[p][t] = "RUNNING"
    /\ point[p] = "cancelled" => \A t \in wave[p] : tasks[p][t] = "RUNNING"


\* A status that is given to a task that is not completed.
LEMMA OrderedMark ==
  ASSUME NEW ts \in [Tasks -> TaskStatuses], OrderedBy(ts), NEW t \in Tasks, ts[t] # "COMPLETED",
         NEW s \in TaskStatuses,
         s \in {"RUNNING", "COMPLETED", "FAILED"} => \A d \in Deps[t] : ts[d] = "COMPLETED"
  PROVE  [ts EXCEPT ![t] = s] \in [Tasks -> TaskStatuses] /\ OrderedBy([ts EXCEPT ![t] = s])
<1> DEFINE new == [ts EXCEPT ![t] = s]
<1>1. new \in [Tasks -> TaskStatuses]
  OBVIOUS
<1>2. ASSUME NEW u \in Tasks, new[u] \in {"RUNNING", "COMPLETED", "FAILED"}, NEW d \in Deps[u]
      PROVE  new[d] = "COMPLETED"
  <2>1. d \in Tasks
    BY PipelineAssumption
  <2>2. ts[d] = "COMPLETED"
    BY <1>2, PipelineAssumption DEF OrderedBy
  <2> QED
    BY <2>1, <2>2
<1> QED
  BY <1>1, <1>2 DEF OrderedBy

\* The order after a step, and after one that changes none of its copies.
LEMMA OrderedAfter ==
  ASSUME \A q \in Plans :
           /\ OrderedBy(tasks'[q])
           /\ \A k \in DOMAIN checkpoints'[q] : OrderedBy(checkpoints'[q][k].tasks)
           /\ source'[q] # <<>> => OrderedBy(source'[q][1].tasks)
  PROVE  StatusesOrdered'
  BY DEF StatusesOrdered, OrderedBy

LEMMA OrderUntouched ==
  ASSUME StatusesOrdered, UNCHANGED <<tasks, checkpoints, source>>
  PROVE  StatusesOrdered'
  BY OrderedAfter DEF StatusesOrdered

\* A step of plan p that leaves it with ordered statuses ts.
LEMMA OrderedStep ==
  ASSUME TypeOK, StatusesOrdered,
         NEW p \in Plans, NEW ts \in [Tasks -> TaskStatuses], OrderedBy(ts),
         tasks' = [tasks EXCEPT ![p] = ts], UNCHANGED source,
         UNCHANGED checkpoints \/ \E i \in Nat \ {0} : Checkpoint(p, ts, i)
  PROVE  StatusesOrdered'
<1> SUFFICES ASSUME NEW q \in Plans
             PROVE  /\ OrderedBy(tasks'[q])
                    /\ \A k \in DOMAIN checkpoints'[q] : OrderedBy(checkpoints'[q][k].tasks)
                    /\ source'[q] # <<>> => OrderedBy(source'[q][1].tasks)
  BY OrderedAfter
<1>1. OrderedBy(tasks'[q])
  <2>1. CASE q = p
    BY <2>1 DEF TypeOK, ThreadsOK
  <2>2. CASE q # p
    BY <2>2 DEF StatusesOrdered, TypeOK, ThreadsOK
  <2> QED
    BY <2>1, <2>2
<1>2. \A k \in DOMAIN checkpoints'[q] : OrderedBy(checkpoints'[q][k].tasks)
  <2>1. CASE UNCHANGED checkpoints
    BY <2>1 DEF StatusesOrdered
  <2>2. ASSUME NEW i \in Nat \ {0}, Checkpoint(p, ts, i)
        PROVE  \A k \in DOMAIN checkpoints'[q] : OrderedBy(checkpoints'[q][k].tasks)
    <3>1. \A k \in DOMAIN checkpoints'[p] :
            \/ checkpoints'[p][k] = [tasks |-> ts, stage |-> i]
            \/ \E j \in DOMAIN checkpoints[p] : checkpoints'[p][k] = checkpoints[p][j]
      BY <2>2, CheckpointWritten DEF TypeOK
    <3>2. q # p => checkpoints'[q] = checkpoints[q]
      BY <2>2, CheckpointWritten DEF TypeOK
    <3>3. CASE q = p
      BY <3>1, <3>3 DEF StatusesOrdered
    <3>4. CASE q # p
      BY <3>2, <3>4 DEF StatusesOrdered
    <3> QED
      BY <3>3, <3>4
  <2> QED
    BY <2>1, <2>2
<1>3. source'[q] # <<>> => OrderedBy(source'[q][1].tasks)
  BY DEF StatusesOrdered
<1> QED
  BY <1>1, <1>2, <1>3

\* What Ready says of a task.
LEMMA ReadyMeans ==
  ASSUME NEW p \in Plans, NEW t \in Tasks, Ready(p, t)
  PROVE  \A d \in Deps[t] : tasks[p][d] = "COMPLETED"
  BY DEF Ready, Completed

\* The task a sequential stage is at.
LEMMA StageTask ==
  ASSUME ThreadsOK, NEW p \in Plans, InStage(p, FALSE), ~ Past(p)
  PROVE  Here(p) \in Tasks
<1>1. stage[p] \in 1 .. Len(Stages[p])
  BY StageTypes DEF InStage, ThreadsOK
<1>2. position[p] \in 1 .. Len(Stages[p][stage[p]].tasks)
  BY <1>1, StageTypes DEF Past, ThreadsOK
<1> QED
  BY <1>1, <1>2, StageTypes DEF Here

\* No step breaks the order of the statuses.
LEMMA OrderKept ==
  ASSUME TypeOK, StatusesOrdered, WavesOpen, [Next]_vars
  PROVE  StatusesOrdered'
<1> USE PipelineAssumption DEF TypeOK, ThreadsOK
<1>1. ASSUME NEW p \in Plans, RunPlan(p) PROVE StatusesOrdered'
  <2> DEFINE ts == [t \in Tasks |-> IF t \in TasksOf(p) THEN "PENDING" ELSE "absent"]
  <2>1. ts \in [Tasks -> TaskStatuses] /\ OrderedBy(ts)
    BY DEF TaskStatuses, OrderedBy
  <2>2. tasks' = [tasks EXCEPT ![p] = ts] /\ UNCHANGED <<source, checkpoints>>
    BY <1>1 DEF RunPlan, Execute
  <2> HIDE DEF ts
  <2> QED
    BY <2>1, <2>2, OrderedStep
<1>2. ASSUME NEW p \in Plans, Resume(p) PROVE StatusesOrdered'
  <2>1. PICK k \in DOMAIN checkpoints[p] : Execute(p, <<checkpoints[p][k]>>)
    BY <1>2 DEF Resume
  <2> DEFINE ts == checkpoints[p][k].tasks
  <2>2. checkpoints[p][k] \in CheckpointRecord
    BY <2>1, ElementsOfSeq DEF RecordsOK
  <2>3. ts \in [Tasks -> TaskStatuses] /\ OrderedBy(ts)
    BY <2>1, <2>2 DEF CheckpointRecord, StatusesOrdered
  <2>4. tasks' = [tasks EXCEPT ![p] = ts] /\ UNCHANGED <<source, checkpoints>>
    BY <1>2, <2>1 DEF Resume, Execute
  <2> HIDE DEF ts
  <2> QED
    BY <2>3, <2>4, OrderedStep
<1>3. ASSUME NEW p \in Plans, Rollback(p) PROVE StatusesOrdered'
  BY <1>3, OrderUntouched DEF Rollback
<1>4. ASSUME NEW p \in Plans, EnterStage(p) PROVE StatusesOrdered'
  BY <1>4, OrderUntouched DEF EnterStage
<1>5. ASSUME NEW p \in Plans, SkipStage(p) PROVE StatusesOrdered'
  <2> DEFINE ts == [t \in Tasks |-> IF t \in StageTasks(p, stage[p]) /\ tasks[p][t] = "PENDING"
                                THEN "SKIPPED" ELSE tasks[p][t]]
  <2>1. ts \in [Tasks -> TaskStatuses] /\ OrderedBy(ts)
    BY PipelineAssumption DEF StatusesOrdered, OrderedBy, TaskStatuses
  <2>2. tasks' = [tasks EXCEPT ![p] = ts] /\ UNCHANGED source
    BY <1>5 DEF SkipStage, EndStage
  <2>3. UNCHANGED checkpoints \/ (stage[p] + 1 \in Nat \ {0} /\ Checkpoint(p, ts, stage[p] + 1))
    BY <1>5 DEF SkipStage, EndStage, WriteCheckpoint
  <2> HIDE DEF ts
  <2> QED
    BY <2>1, <2>2, <2>3, OrderedStep
<1>6. ASSUME NEW p \in Plans, Complete(p) PROVE StatusesOrdered'
  BY <1>6, OrderUntouched DEF Complete
<1>7. ASSUME NEW p \in Plans, NextTask(p) PROVE StatusesOrdered'
  <2>1. CASE UNCHANGED tasks
    BY <1>7, <2>1 DEF NextTask, StatusesOrdered
  <2>2. CASE tasks' # tasks
    <3>1. PICK h \in Tasks : h = Here(p)
      BY <1>7, StageTask DEF NextTask
    <3> DEFINE ts == [tasks[p] EXCEPT ![h] = "SKIPPED"]
    <3>2. tasks' = [tasks EXCEPT ![p] = ts] /\ tasks[p][h] # "COMPLETED"
      BY <1>7, <2>2, <3>1 DEF NextTask, Settled
    <3>3. ts \in [Tasks -> TaskStatuses] /\ OrderedBy(ts)
      BY <3>1, <3>2, OrderedMark DEF StatusesOrdered, TaskStatuses
    <3>4. UNCHANGED <<source, checkpoints>>
      BY <1>7 DEF NextTask
    <3> HIDE DEF ts
    <3> QED
      BY <3>2, <3>3, <3>4, OrderedStep
  <2> QED
    BY <2>1, <2>2
<1>8. ASSUME NEW p \in Plans, EndSequential(p) PROVE StatusesOrdered'
  <2> DEFINE ts == tasks[p]
  <2>1. ts \in [Tasks -> TaskStatuses] /\ OrderedBy(ts)
    BY DEF StatusesOrdered
  <2>2. tasks' = [tasks EXCEPT ![p] = ts] /\ UNCHANGED source
    BY <1>8 DEF EndSequential, EndStage
  <2>3. UNCHANGED checkpoints \/ (stage[p] + 1 \in Nat \ {0} /\ Checkpoint(p, ts, stage[p] + 1))
    BY <1>8 DEF EndSequential, EndStage, WriteCheckpoint
  <2> HIDE DEF ts
  <2> QED
    BY <2>1, <2>2, <2>3, OrderedStep
<1>9. ASSUME NEW p \in Plans, SubmitWave(p) PROVE StatusesOrdered'
  BY <1>9, OrderUntouched DEF SubmitWave
<1>10. ASSUME NEW p \in Plans, EndParallel(p) PROVE StatusesOrdered'
  <2> DEFINE ts == tasks[p]
  <2>1. ts \in [Tasks -> TaskStatuses] /\ OrderedBy(ts)
    BY DEF StatusesOrdered
  <2>2. tasks' = [tasks EXCEPT ![p] = ts] /\ UNCHANGED source
    BY <1>10 DEF EndParallel, EndStage
  <2>3. UNCHANGED checkpoints \/ (stage[p] + 1 \in Nat \ {0} /\ Checkpoint(p, ts, stage[p] + 1))
    BY <1>10 DEF EndParallel, EndStage, WriteCheckpoint
  <2> HIDE DEF ts
  <2> QED
    BY <2>1, <2>2, <2>3, OrderedStep
<1>11. ASSUME NEW p \in Plans, NEW t \in Tasks, ApplyCompleted(p, t) PROVE StatusesOrdered'
  <2> DEFINE ts == [tasks[p] EXCEPT ![t] = "COMPLETED"]
  <2>1. ts \in [Tasks -> TaskStatuses] /\ OrderedBy(ts)
    <3>1. tasks[p][t] # "COMPLETED" /\ \A d \in Deps[t] : tasks[p][d] = "COMPLETED"
      BY <1>11, ReadyMeans DEF ApplyCompleted, Take, WavesOpen
    <3> QED
      BY <3>1, OrderedMark DEF StatusesOrdered, TaskStatuses
  <2>2. tasks' = [tasks EXCEPT ![p] = ts] /\ UNCHANGED source
    BY <1>11 DEF ApplyCompleted, WriteCheckpoint
  <2>3. UNCHANGED checkpoints \/ (stageIndex \in Nat \ {0} /\ Checkpoint(p, ts, stageIndex))
    BY <1>11 DEF ApplyCompleted, WriteCheckpoint
  <2> HIDE DEF ts
  <2> QED
    BY <2>1, <2>2, <2>3, OrderedStep
<1>12. ASSUME NEW p \in Plans, NEW t \in Tasks, ApplyTolerated(p, t) PROVE StatusesOrdered'
  <2> DEFINE ts == [tasks[p] EXCEPT ![t] = "FAILED"]
  <2>1. ts \in [Tasks -> TaskStatuses] /\ OrderedBy(ts)
    <3>1. tasks[p][t] # "COMPLETED" /\ \A d \in Deps[t] : tasks[p][d] = "COMPLETED"
      BY <1>12, ReadyMeans DEF ApplyTolerated, Take, WavesOpen
    <3> QED
      BY <3>1, OrderedMark DEF StatusesOrdered, TaskStatuses
  <2>2. tasks' = [tasks EXCEPT ![p] = ts] /\ UNCHANGED source
    BY <1>12 DEF ApplyTolerated, Mark
  <2>3. UNCHANGED checkpoints
    BY <1>12 DEF ApplyTolerated, Mark
  <2> HIDE DEF ts
  <2> QED
    BY <2>1, <2>2, <2>3, OrderedStep
<1>13. ASSUME NEW p \in Plans, NEW t \in Tasks, ApplyFailure(p, t) PROVE StatusesOrdered'
  <2> DEFINE ts == [tasks[p] EXCEPT ![t] = "FAILED"]
  <2>1. ts \in [Tasks -> TaskStatuses] /\ OrderedBy(ts)
    <3>1. tasks[p][t] # "COMPLETED" /\ \A d \in Deps[t] : tasks[p][d] = "COMPLETED"
      BY <1>13, ReadyMeans DEF ApplyFailure, Take, WavesOpen
    <3> QED
      BY <3>1, OrderedMark DEF StatusesOrdered, TaskStatuses
  <2>2. tasks' = [tasks EXCEPT ![p] = ts] /\ UNCHANGED source
    BY <1>13 DEF ApplyFailure, Take
  <2>3. UNCHANGED checkpoints \/ (stageIndex \in Nat \ {0} /\ Checkpoint(p, ts, stageIndex))
    BY <1>13 DEF ApplyFailure, Take, WriteCheckpoint
  <2> HIDE DEF ts
  <2> QED
    BY <2>1, <2>2, <2>3, OrderedStep
<1>14. ASSUME NEW p \in Plans, Drain(p) PROVE StatusesOrdered'
  BY <1>14, OrderUntouched DEF Drain
<1>15. ASSUME NEW p \in Plans, GiveUp(p) PROVE StatusesOrdered'
  BY <1>15, OrderUntouched DEF GiveUp
<1>16. ASSUME NEW p \in Plans, Recover(p) PROVE StatusesOrdered'
  <2>1. UNCHANGED <<tasks, checkpoints>> /\ \A q \in Plans \ {p} : source'[q] = source[q]
    BY <1>16 DEF Recover, RecordsOK
  <2>2. source'[p] = IF checkpoints[p] = <<>> THEN <<>> ELSE <<Last(checkpoints[p])>>
    BY <1>16 DEF Recover, RecordsOK
  <2>3. checkpoints[p] # <<>> => OrderedBy(Last(checkpoints[p]).tasks)
    <3>1. checkpoints[p] # <<>> => Len(checkpoints[p]) \in DOMAIN checkpoints[p]
      BY EmptySeq, LenProperties DEF RecordsOK
    <3> QED
      BY <3>1 DEF Last, StatusesOrdered
  <2>4. source'[p] # <<>> => OrderedBy(source'[p][1].tasks)
    BY <2>2, <2>3
  <2> QED
    BY <2>1, <2>4, OrderedAfter DEF StatusesOrdered
<1>17. ASSUME NEW p \in Plans, UndoStep(p) PROVE StatusesOrdered'
  BY <1>17, OrderUntouched DEF UndoStep
<1>18. ASSUME NEW p \in Plans, EndRollback(p) PROVE StatusesOrdered'
  BY <1>18, OrderUntouched DEF EndRollback
<1>19. ASSUME NEW p \in Plans, ExecuteAgain(p) PROVE StatusesOrdered'
  <2> DEFINE ts == IF source[p] = <<>>
                    THEN [t \in Tasks |-> IF t \in TasksOf(p) THEN "PENDING" ELSE "absent"]
                    ELSE source[p][1].tasks
  <2>1. source[p] # <<>> => source[p][1] \in CheckpointRecord
    BY ElementsOfSeq, EmptySeq DEF RecordsOK
  <2>2. ts \in [Tasks -> TaskStatuses] /\ OrderedBy(ts)
    BY <2>1 DEF CheckpointRecord, StatusesOrdered, TaskStatuses, OrderedBy
  <2>3. /\ tasks' = [tasks EXCEPT ![p] = ts] /\ UNCHANGED checkpoints
        /\ source'[p] = <<>> /\ \A q \in Plans \ {p} : source'[q] = source[q]
    BY <1>19 DEF ExecuteAgain, Execute, RecordsOK
  <2> HIDE DEF ts
  <2>4. ASSUME NEW q \in Plans PROVE OrderedBy(tasks'[q])
    <3>1. CASE q = p
      BY <2>2, <2>3, <3>1
    <3>2. CASE q # p
      BY <2>3, <3>2 DEF StatusesOrdered
    <3> QED
      BY <3>1, <3>2
  <2> QED
    BY <2>3, <2>4, OrderedAfter DEF StatusesOrdered
<1>20. ASSUME NEW p \in Plans, NEW t \in Tasks, StartTask(p, t) PROVE StatusesOrdered'
  <2> DEFINE ts == [tasks[p] EXCEPT ![t] = "RUNNING"]
  <2>1. ts \in [Tasks -> TaskStatuses] /\ OrderedBy(ts)
    <3>1. tasks[p][t] # "COMPLETED" /\ \A d \in Deps[t] : tasks[p][d] = "COMPLETED"
      BY <1>20, ReadyMeans DEF StartTask, Take, WavesOpen
    <3> QED
      BY <3>1, OrderedMark DEF StatusesOrdered, TaskStatuses
  <2>2. tasks' = [tasks EXCEPT ![p] = ts] /\ UNCHANGED source
    BY <1>20 DEF StartTask, Mark
  <2>3. UNCHANGED checkpoints
    BY <1>20 DEF StartTask, Mark
  <2> HIDE DEF ts
  <2> QED
    BY <2>1, <2>2, <2>3, OrderedStep
<1>21. ASSUME NEW p \in Plans, NEW t \in Tasks, EndTask(p, t) PROVE StatusesOrdered'
  BY <1>21, OrderUntouched DEF EndTask
<1>22. CASE UNCHANGED vars
  BY <1>22, OrderUntouched DEF vars
<1> QED
  BY <1>1, <1>2, <1>3, <1>4, <1>5, <1>6, <1>7, <1>8, <1>9, <1>10, <1>11,
     <1>12, <1>13, <1>14, <1>15, <1>16, <1>17, <1>18, <1>19, <1>20, <1>21,
     <1>22
  DEF Next, Calls, PlanThread, Worker

\* No step submits a task that is not ready, or leaves one behind.
LEMMA WavesKept ==
  ASSUME TypeOK, WavesOpen, [Next]_vars
  PROVE  WavesOpen'
<1> USE PipelineAssumption DEF TypeOK, ThreadsOK, WavesOpen, Ready, Completed
<1>1. ASSUME NEW p \in Plans, RunPlan(p) PROVE WavesOpen'
  BY <1>1 DEF RunPlan, Execute
<1>2. ASSUME NEW p \in Plans, Resume(p) PROVE WavesOpen'
  BY <1>2 DEF Resume, Execute
<1>3. ASSUME NEW p \in Plans, Rollback(p) PROVE WavesOpen'
  BY <1>3 DEF Rollback, BeginRollback
<1>4. ASSUME NEW p \in Plans, EnterStage(p) PROVE WavesOpen'
  BY <1>4 DEF EnterStage
<1>5. ASSUME NEW p \in Plans, SkipStage(p) PROVE WavesOpen'
  BY <1>5 DEF SkipStage, EndStage
<1>6. ASSUME NEW p \in Plans, Complete(p) PROVE WavesOpen'
  BY <1>6 DEF Complete
<1>7. ASSUME NEW p \in Plans, NextTask(p) PROVE WavesOpen'
  <2>1. PICK h \in Tasks : h = Here(p)
    BY <1>7, StageTask DEF NextTask
  <2>2. point[p] = "next" /\ wave[p] = {} /\ UNCHANGED results
    BY <1>7 DEF NextTask, InStage, WavesOpen
  <2>3. CASE UNCHANGED <<tasks, point, wave>>
    BY <2>2, <2>3 DEF WavesOpen, Ready, Completed
  <2>4. CASE tasks' = [tasks EXCEPT ![p][h] = "SKIPPED"] /\ UNCHANGED <<point, wave>>
    BY <2>1, <2>2, <2>4 DEF WavesOpen, Ready, Completed
  <2>5. CASE /\ tasks[p][h] = "PENDING" /\ Ready(p, h)
             /\ wave' = [wave EXCEPT ![p] = {h}] /\ point' = [point EXCEPT ![p] = "wait"]
             /\ UNCHANGED tasks
    BY <2>1, <2>2, <2>5 DEF WavesOpen, Ready, Completed
  <2> QED
    BY <1>7, <2>1, <2>3, <2>4, <2>5 DEF NextTask
<1>8. ASSUME NEW p \in Plans, EndSequential(p) PROVE WavesOpen'
  BY <1>8 DEF EndSequential, InStage, Past, EndStage
<1>9. ASSUME NEW p \in Plans, SubmitWave(p) PROVE WavesOpen'
  BY <1>9 DEF SubmitWave, InStage, NextWave
<1>10. ASSUME NEW p \in Plans, EndParallel(p) PROVE WavesOpen'
  BY <1>10 DEF EndParallel, InStage, NextWave, EndStage
<1>11. ASSUME NEW p \in Plans, NEW t \in Tasks, ApplyCompleted(p, t) PROVE WavesOpen'
  BY <1>11 DEF ApplyCompleted, Take, GoOn, Register, WriteCheckpoint
<1>12. ASSUME NEW p \in Plans, NEW t \in Tasks, ApplyTolerated(p, t) PROVE WavesOpen'
  BY <1>12 DEF ApplyTolerated, Take, GoOn
<1>13. ASSUME NEW p \in Plans, NEW t \in Tasks, ApplyFailure(p, t) PROVE WavesOpen'
  BY <1>13 DEF ApplyFailure, Take
<1>14. ASSUME NEW p \in Plans, Drain(p) PROVE WavesOpen'
  BY <1>14 DEF Drain
<1>15. ASSUME NEW p \in Plans, GiveUp(p) PROVE WavesOpen'
  BY <1>15 DEF GiveUp, MayRecover
<1>16. ASSUME NEW p \in Plans, Recover(p) PROVE WavesOpen'
  BY <1>16 DEF Recover, BeginRollback, MayRecover
<1>17. ASSUME NEW p \in Plans, UndoStep(p) PROVE WavesOpen'
  BY <1>17 DEF UndoStep
<1>18. ASSUME NEW p \in Plans, EndRollback(p) PROVE WavesOpen'
  BY <1>18 DEF EndRollback
<1>19. ASSUME NEW p \in Plans, ExecuteAgain(p) PROVE WavesOpen'
  BY <1>19 DEF ExecuteAgain, Execute
<1>20. ASSUME NEW p \in Plans, NEW t \in Tasks, StartTask(p, t) PROVE WavesOpen'
  BY <1>20 DEF StartTask
<1>21. ASSUME NEW p \in Plans, NEW t \in Tasks, EndTask(p, t) PROVE WavesOpen'
  <2>1. PICK r \in {"completed", "failed"} : results' = [results EXCEPT ![p][t] = r]
    BY <1>21 DEF EndTask
  <2> QED
    BY <1>21, <2>1 DEF EndTask
<1>22. CASE UNCHANGED vars
  BY <1>22 DEF vars
<1> QED
  BY <1>1, <1>2, <1>3, <1>4, <1>5, <1>6, <1>7, <1>8, <1>9, <1>10, <1>11,
     <1>12, <1>13, <1>14, <1>15, <1>16, <1>17, <1>18, <1>19, <1>20, <1>21,
     <1>22
  DEF Next, Calls, PlanThread, Worker

\* The order of the tasks, in every behaviour.
LEMMA OrderAndWaves == Spec => [](TypeOK /\ StatusesOrdered /\ WavesOpen)
<1>1. Init => StatusesOrdered /\ WavesOpen
  BY DEF Init, StatusesOrdered, WavesOpen, OrderedBy
<1>2. TypeOK /\ (StatusesOrdered /\ WavesOpen) /\ [Next]_vars => (StatusesOrdered /\ WavesOpen)'
  BY OrderKept, WavesKept
<1> QED
  BY <1>1, <1>2, PipelineTypeCorrect, PTL DEF Spec

\* A task that was started had all its dependencies completed in the same execution,
\* whatever was skipped, cancelled or restored before (DependencyGraph.ready_tasks).
THEOREM DependenciesComeFirst == Spec => []DependenciesFirst
<1>1. StatusesOrdered => DependenciesFirst
  BY PipelineAssumption DEF StatusesOrdered, OrderedBy, DependenciesFirst, Completed
<1> QED
  BY <1>1, OrderAndWaves, PTL

\* No task executes while its plan is recovered, rolled back or returned to the caller
\* (_execute_parallel leaves its pool only when the submitted tasks have ended).
THEOREM WavesEndFirst == Spec => []NoTaskOutlivesItsRun
<1>1. TypeOK /\ WavesOpen => NoTaskOutlivesItsRun
  BY DEF TypeOK, ThreadsOK, WavesOpen, NoTaskOutlivesItsRun
<1> QED
  BY <1>1, OrderAndWaves, PTL

------------------------------------------------------------------------------
(***************************************************************************)
(* One plan at a time: rollback and resumption.                            *)
(***************************************************************************)
Executing == {"stage", "next", "wait", "cancelled", "failed"}

\* An execution is under way exactly as long as its status says so.
StatusIsRunning == \A p \in Plans : point[p] \in Executing => status[p] = "RUNNING"

\* A handler is registered once for a task, and is run once in a rollback.
HandlersDistinct ==
  /\ DistinctHandlers(handlers)
  /\ \A p \in Plans : point[p] = "undo" => DistinctSteps(undoing[p])

OneAtATime ==
  alone => \A p, q \in Plans : point[p] # "idle" /\ point[q] # "idle" => p = q

\* The effect of a task that completed stands until its result is applied.
EffectsStand ==
  alone => \A p \in Plans, t \in Tasks : results[p][t] = "completed" => <<p, t>> \in effects

\* _stage_index is the stage of the plan that runs.
IndexIsStage ==
  alone => \A p \in Plans : point[p] \in {"stage", "next", "wait"} => stageIndex = stage[p]

\* Once a sequential stage has failed, its last checkpoint is where it failed, if that
\* checkpoint could be written.
FailureSaved ==
  alone => \A p \in Plans \ unsaved :
    (status[p] = "FAILED" \/ point[p] \in {"cancelled", "failed"})
      /\ ~ Stages[p][stage[p]].parallel =>
        checkpoints[p] # <<>> /\ Last(checkpoints[p]) = [tasks |-> tasks[p], stage |-> stage[p]]

\* An execution that was not resumed leaves the stage loop with its first failure that
\* fails the plan.
NoneForgotten ==
  \A p \in Plans :
    ~ resumed[p] /\ (point[p] \in {"stage", "next", "wait"} \/ status[p] = "COMPLETED") =>
      \A t \in FailFast : tasks[p][t] # "FAILED"

AloneInv == StatusIsRunning /\ HandlersDistinct /\ OneAtATime /\ EffectsStand /\ IndexIsStage

\* The first step of a rollback, done.
LEMMA StepsAfterFirst ==
  ASSUME NEW ts \in Seq(Tasks), ts # <<>>, DistinctSteps(ts)
  PROVE  /\ DistinctSteps(Tail(ts)) /\ Head(ts) \notin ToSet(Tail(ts))
         /\ ToSet(ts) = {Head(ts)} \cup ToSet(Tail(ts))
<1> DEFINE n == Len(ts)
<1>1. /\ n \in Nat \ {0} /\ DOMAIN ts = 1 .. n /\ Head(ts) = ts[1]
      /\ DOMAIN Tail(ts) = 1 .. (n - 1) /\ \A k \in 1 .. (n - 1) : Tail(ts)[k] = ts[k + 1]
  BY EmptySeq, LenProperties, HeadTailProperties
<1>2. ASSUME NEW i \in 1 .. (n - 1), NEW j \in 1 .. (n - 1), ts[i + 1] = ts[j + 1] PROVE i = j
  <2>1. i + 1 \in 1 .. n /\ j + 1 \in 1 .. n
    BY <1>1
  <2>2. i + 1 = j + 1
    BY <1>1, <1>2, <2>1 DEF DistinctSteps
  <2> QED
    BY <1>1, <2>2
<1>3. DistinctSteps(Tail(ts))
  BY <1>1, <1>2 DEF DistinctSteps
<1>4. ASSUME NEW k \in 1 .. (n - 1) PROVE ts[k + 1] # ts[1]
  <2>1. k + 1 \in 1 .. n /\ 1 \in 1 .. n /\ k + 1 # 1
    BY <1>1
  <2> QED
    BY <1>1, <2>1 DEF DistinctSteps
<1>5. Head(ts) \notin ToSet(Tail(ts))
  BY <1>1, <1>4 DEF ToSet
<1>6. ASSUME NEW k \in 1 .. n PROVE ts[k] = ts[1] \/ \E j \in 1 .. (n - 1) : ts[k] = Tail(ts)[j]
  <2>1. CASE k = 1
    BY <2>1
  <2>2. CASE k # 1
    <3>1. k - 1 \in 1 .. (n - 1) /\ (k - 1) + 1 = k
      BY <1>1, <2>2
    <3> QED
      BY <1>1, <3>1
  <2> QED
    BY <2>1, <2>2
<1>7. ASSUME NEW j \in 1 .. (n - 1) PROVE \E k \in 1 .. n : ts[k] = Tail(ts)[j]
  <2>1. j + 1 \in 1 .. n
    BY <1>1
  <2> QED
    BY <1>1, <2>1
<1>8. ToSet(ts) = {ts[k] : k \in 1 .. n} /\ ToSet(Tail(ts)) = {Tail(ts)[k] : k \in 1 .. (n - 1)}
  BY <1>1 DEF ToSet
<1>9. 1 \in 1 .. n
  BY <1>1
<1>10. ToSet(ts) = {Head(ts)} \cup ToSet(Tail(ts))
  BY <1>1, <1>6, <1>7, <1>8, <1>9
<1> QED
  BY <1>3, <1>5, <1>10

\* The status is set when an execution starts and when it is over.
LEMMA StatusKept ==
  ASSUME TypeOK, StatusIsRunning, [Next]_vars
  PROVE  StatusIsRunning'
<1> USE PipelineAssumption DEF TypeOK, ThreadsOK, StatusIsRunning, Executing
<1>1. ASSUME NEW p \in Plans, RunPlan(p) PROVE StatusIsRunning'
  BY <1>1 DEF RunPlan, Execute
<1>2. ASSUME NEW p \in Plans, Resume(p) PROVE StatusIsRunning'
  <2>1. PICK k \in DOMAIN checkpoints[p] : Execute(p, <<checkpoints[p][k]>>)
    BY <1>2 DEF Resume
  <2> QED
    BY <1>2, <2>1 DEF Resume, Execute
<1>3. ASSUME NEW p \in Plans, Rollback(p) PROVE StatusIsRunning'
  BY <1>3 DEF Rollback, BeginRollback
<1>4. ASSUME NEW p \in Plans, EnterStage(p) PROVE StatusIsRunning'
  BY <1>4 DEF EnterStage
<1>5. ASSUME NEW p \in Plans, SkipStage(p) PROVE StatusIsRunning'
  BY <1>5 DEF SkipStage, EndStage
<1>6. ASSUME NEW p \in Plans, Complete(p) PROVE StatusIsRunning'
  BY <1>6 DEF Complete
<1>7. ASSUME NEW p \in Plans, NextTask(p) PROVE StatusIsRunning'
  BY <1>7 DEF NextTask, InStage, Here, Past, Settled, Ready
<1>8. ASSUME NEW p \in Plans, EndSequential(p) PROVE StatusIsRunning'
  BY <1>8 DEF EndSequential, InStage, Past, EndStage
<1>9. ASSUME NEW p \in Plans, SubmitWave(p) PROVE StatusIsRunning'
  BY <1>9 DEF SubmitWave, InStage, NextWave
<1>10. ASSUME NEW p \in Plans, EndParallel(p) PROVE StatusIsRunning'
  BY <1>10 DEF EndParallel, InStage, NextWave, EndStage
<1>11. ASSUME NEW p \in Plans, NEW t \in Tasks, ApplyCompleted(p, t) PROVE StatusIsRunning'
  BY <1>11 DEF ApplyCompleted, Take, GoOn, Register, WriteCheckpoint
<1>12. ASSUME NEW p \in Plans, NEW t \in Tasks, ApplyTolerated(p, t) PROVE StatusIsRunning'
  BY <1>12 DEF ApplyTolerated, Take, GoOn
<1>13. ASSUME NEW p \in Plans, NEW t \in Tasks, ApplyFailure(p, t) PROVE StatusIsRunning'
  BY <1>13 DEF ApplyFailure, Take
<1>14. ASSUME NEW p \in Plans, Drain(p) PROVE StatusIsRunning'
  BY <1>14 DEF Drain
<1>15. ASSUME NEW p \in Plans, GiveUp(p) PROVE StatusIsRunning'
  BY <1>15 DEF GiveUp, MayRecover
<1>16. ASSUME NEW p \in Plans, Recover(p) PROVE StatusIsRunning'
  BY <1>16 DEF Recover, BeginRollback, MayRecover
<1>17. ASSUME NEW p \in Plans, UndoStep(p) PROVE StatusIsRunning'
  BY <1>17 DEF UndoStep
<1>18. ASSUME NEW p \in Plans, EndRollback(p) PROVE StatusIsRunning'
  BY <1>18 DEF EndRollback
<1>19. ASSUME NEW p \in Plans, ExecuteAgain(p) PROVE StatusIsRunning'
  BY <1>19 DEF ExecuteAgain, Execute
<1>20. ASSUME NEW p \in Plans, NEW t \in Tasks, StartTask(p, t) PROVE StatusIsRunning'
  BY <1>20 DEF StartTask
<1>21. ASSUME NEW p \in Plans, NEW t \in Tasks, EndTask(p, t) PROVE StatusIsRunning'
  BY <1>21 DEF EndTask
<1>22. CASE UNCHANGED vars
  BY <1>22 DEF vars
<1> QED
  BY <1>1, <1>2, <1>3, <1>4, <1>5, <1>6, <1>7, <1>8, <1>9, <1>10, <1>11,
     <1>12, <1>13, <1>14, <1>15, <1>16, <1>17, <1>18, <1>19, <1>20, <1>21,
     <1>22
  DEF Next, Calls, PlanThread, Worker

\* Only a call made while every plan is idle keeps "alone".
LEMMA OneKept ==
  ASSUME TypeOK, OneAtATime, [Next]_vars
  PROVE  OneAtATime'
<1> USE PipelineAssumption DEF TypeOK, ThreadsOK, OneAtATime
<1>1. ASSUME NEW p \in Plans, RunPlan(p) PROVE OneAtATime'
  BY <1>1 DEF RunPlan, Execute
<1>2. ASSUME NEW p \in Plans, Resume(p) PROVE OneAtATime'
  <2>1. PICK k \in DOMAIN checkpoints[p] : Execute(p, <<checkpoints[p][k]>>)
    BY <1>2 DEF Resume
  <2> QED
    BY <1>2, <2>1 DEF Resume, Execute
<1>3. ASSUME NEW p \in Plans, Rollback(p) PROVE OneAtATime'
  BY <1>3 DEF Rollback, BeginRollback
<1>4. ASSUME NEW p \in Plans, EnterStage(p) PROVE OneAtATime'
  BY <1>4 DEF EnterStage
<1>5. ASSUME NEW p \in Plans, SkipStage(p) PROVE OneAtATime'
  BY <1>5 DEF SkipStage, EndStage
<1>6. ASSUME NEW p \in Plans, Complete(p) PROVE OneAtATime'
  BY <1>6 DEF Complete
<1>7. ASSUME NEW p \in Plans, NextTask(p) PROVE OneAtATime'
  BY <1>7 DEF NextTask, InStage, Here, Past, Settled, Ready
<1>8. ASSUME NEW p \in Plans, EndSequential(p) PROVE OneAtATime'
  BY <1>8 DEF EndSequential, InStage, Past, EndStage
<1>9. ASSUME NEW p \in Plans, SubmitWave(p) PROVE OneAtATime'
  BY <1>9 DEF SubmitWave, InStage, NextWave
<1>10. ASSUME NEW p \in Plans, EndParallel(p) PROVE OneAtATime'
  BY <1>10 DEF EndParallel, InStage, NextWave, EndStage
<1>11. ASSUME NEW p \in Plans, NEW t \in Tasks, ApplyCompleted(p, t) PROVE OneAtATime'
  BY <1>11 DEF ApplyCompleted, Take, GoOn, Register, WriteCheckpoint
<1>12. ASSUME NEW p \in Plans, NEW t \in Tasks, ApplyTolerated(p, t) PROVE OneAtATime'
  BY <1>12 DEF ApplyTolerated, Take, GoOn
<1>13. ASSUME NEW p \in Plans, NEW t \in Tasks, ApplyFailure(p, t) PROVE OneAtATime'
  BY <1>13 DEF ApplyFailure, Take
<1>14. ASSUME NEW p \in Plans, Drain(p) PROVE OneAtATime'
  BY <1>14 DEF Drain
<1>15. ASSUME NEW p \in Plans, GiveUp(p) PROVE OneAtATime'
  BY <1>15 DEF GiveUp, MayRecover
<1>16. ASSUME NEW p \in Plans, Recover(p) PROVE OneAtATime'
  BY <1>16 DEF Recover, BeginRollback, MayRecover
<1>17. ASSUME NEW p \in Plans, UndoStep(p) PROVE OneAtATime'
  BY <1>17 DEF UndoStep
<1>18. ASSUME NEW p \in Plans, EndRollback(p) PROVE OneAtATime'
  BY <1>18 DEF EndRollback
<1>19. ASSUME NEW p \in Plans, ExecuteAgain(p) PROVE OneAtATime'
  BY <1>19 DEF ExecuteAgain, Execute
<1>20. ASSUME NEW p \in Plans, NEW t \in Tasks, StartTask(p, t) PROVE OneAtATime'
  BY <1>20 DEF StartTask
<1>21. ASSUME NEW p \in Plans, NEW t \in Tasks, EndTask(p, t) PROVE OneAtATime'
  BY <1>21 DEF EndTask
<1>22. CASE UNCHANGED vars
  BY <1>22 DEF vars
<1> QED
  BY <1>1, <1>2, <1>3, <1>4, <1>5, <1>6, <1>7, <1>8, <1>9, <1>10, <1>11,
     <1>12, <1>13, <1>14, <1>15, <1>16, <1>17, <1>18, <1>19, <1>20, <1>21,
     <1>22
  DEF Next, Calls, PlanThread, Worker

\* The runner's index follows the stage of the plan that runs alone.
LEMMA IndexKept ==
  ASSUME TypeOK, OneAtATime, IndexIsStage, [Next]_vars
  PROVE  IndexIsStage'
<1> USE PipelineAssumption DEF TypeOK, ThreadsOK, OneAtATime, IndexIsStage
<1>1. ASSUME NEW p \in Plans, RunPlan(p) PROVE IndexIsStage'
  BY <1>1 DEF RunPlan, Execute
<1>2. ASSUME NEW p \in Plans, Resume(p) PROVE IndexIsStage'
  <2>1. PICK k \in DOMAIN checkpoints[p] : Execute(p, <<checkpoints[p][k]>>)
    BY <1>2 DEF Resume
  <2> QED
    BY <1>2, <2>1 DEF Resume, Execute
<1>3. ASSUME NEW p \in Plans, Rollback(p) PROVE IndexIsStage'
  BY <1>3 DEF Rollback, BeginRollback
<1>4. ASSUME NEW p \in Plans, EnterStage(p) PROVE IndexIsStage'
  BY <1>4 DEF EnterStage
<1>5. ASSUME NEW p \in Plans, SkipStage(p) PROVE IndexIsStage'
  BY <1>5 DEF SkipStage, EndStage
<1>6. ASSUME NEW p \in Plans, Complete(p) PROVE IndexIsStage'
  BY <1>6 DEF Complete
<1>7. ASSUME NEW p \in Plans, NextTask(p) PROVE IndexIsStage'
  BY <1>7 DEF NextTask, InStage, Here, Past, Settled, Ready
<1>8. ASSUME NEW p \in Plans, EndSequential(p) PROVE IndexIsStage'
  BY <1>8 DEF EndSequential, InStage, Past, EndStage
<1>9. ASSUME NEW p \in Plans, SubmitWave(p) PROVE IndexIsStage'
  BY <1>9 DEF SubmitWave, InStage, NextWave
<1>10. ASSUME NEW p \in Plans, EndParallel(p) PROVE IndexIsStage'
  BY <1>10 DEF EndParallel, InStage, NextWave, EndStage
<1>11. ASSUME NEW p \in Plans, NEW t \in Tasks, ApplyCompleted(p, t) PROVE IndexIsStage'
  BY <1>11 DEF ApplyCompleted, Take, GoOn, Register, WriteCheckpoint
<1>12. ASSUME NEW p \in Plans, NEW t \in Tasks, ApplyTolerated(p, t) PROVE IndexIsStage'
  BY <1>12 DEF ApplyTolerated, Take, GoOn
<1>13. ASSUME NEW p \in Plans, NEW t \in Tasks, ApplyFailure(p, t) PROVE IndexIsStage'
  BY <1>13 DEF ApplyFailure, Take
<1>14. ASSUME NEW p \in Plans, Drain(p) PROVE IndexIsStage'
  BY <1>14 DEF Drain
<1>15. ASSUME NEW p \in Plans, GiveUp(p) PROVE IndexIsStage'
  BY <1>15 DEF GiveUp, MayRecover
<1>16. ASSUME NEW p \in Plans, Recover(p) PROVE IndexIsStage'
  BY <1>16 DEF Recover, BeginRollback, MayRecover
<1>17. ASSUME NEW p \in Plans, UndoStep(p) PROVE IndexIsStage'
  BY <1>17 DEF UndoStep
<1>18. ASSUME NEW p \in Plans, EndRollback(p) PROVE IndexIsStage'
  BY <1>18 DEF EndRollback
<1>19. ASSUME NEW p \in Plans, ExecuteAgain(p) PROVE IndexIsStage'
  BY <1>19 DEF ExecuteAgain, Execute
<1>20. ASSUME NEW p \in Plans, NEW t \in Tasks, StartTask(p, t) PROVE IndexIsStage'
  BY <1>20 DEF StartTask
<1>21. ASSUME NEW p \in Plans, NEW t \in Tasks, EndTask(p, t) PROVE IndexIsStage'
  BY <1>21 DEF EndTask
<1>22. CASE UNCHANGED vars
  BY <1>22 DEF vars
<1> QED
  BY <1>1, <1>2, <1>3, <1>4, <1>5, <1>6, <1>7, <1>8, <1>9, <1>10, <1>11,
     <1>12, <1>13, <1>14, <1>15, <1>16, <1>17, <1>18, <1>19, <1>20, <1>21,
     <1>22
  DEF Next, Calls, PlanThread, Worker

\* The handlers and the steps after a step, and after one that leaves them.
LEMMA HandlersAfter ==
  ASSUME DistinctHandlers(handlers'),
         \A q \in Plans : point'[q] = "undo" => DistinctSteps(undoing'[q])
  PROVE  HandlersDistinct'
  BY DEF HandlersDistinct, DistinctHandlers, DistinctSteps

LEMMA HandlersUntouched ==
  ASSUME HandlersDistinct, UNCHANGED <<handlers, undoing>>,
         \A q \in Plans : point'[q] = "undo" => point[q] = "undo"
  PROVE  HandlersDistinct'
  BY HandlersAfter DEF HandlersDistinct

\* A handler is registered in the place of the one it replaces.
LEMMA DistinctKept ==
  ASSUME TypeOK, HandlersDistinct, [Next]_vars
  PROVE  HandlersDistinct'
<1> USE PipelineAssumption DEF TypeOK, ThreadsOK
<1>1. ASSUME NEW p \in Plans, RunPlan(p) PROVE HandlersDistinct'
  <2>1. UNCHANGED <<handlers, undoing>>
    BY <1>1 DEF RunPlan
  <2>2. \A q \in Plans : point'[q] = "undo" => point[q] = "undo"
    BY <1>1 DEF RunPlan, Execute
  <2> QED
    BY <2>1, <2>2, HandlersUntouched
<1>2. ASSUME NEW p \in Plans, Resume(p) PROVE HandlersDistinct'
  <2>1. UNCHANGED <<handlers, undoing>>
    BY <1>2 DEF Resume
  <2>2. \A q \in Plans : point'[q] = "undo" => point[q] = "undo"
    BY <1>2 DEF Resume, Execute
  <2> QED
    BY <2>1, <2>2, HandlersUntouched
<1>3. ASSUME NEW p \in Plans, Rollback(p) PROVE HandlersDistinct'
  <2>1. UNCHANGED handlers /\ DistinctHandlers(handlers)
    BY <1>3 DEF Rollback, HandlersDistinct
  <2>2. DistinctSteps(undoing'[p]) /\ \A q \in Plans \ {p} : undoing'[q] = undoing[q]
    BY <1>3, <2>1, RollbackSteps DEF Rollback, RecordsOK
  <2>3. \A q \in Plans \ {p} : point'[q] = point[q]
    BY <1>3 DEF Rollback
  <2> QED
    BY <2>1, <2>2, <2>3, HandlersAfter DEF HandlersDistinct
<1>4. ASSUME NEW p \in Plans, EnterStage(p) PROVE HandlersDistinct'
  <2>1. UNCHANGED <<handlers, undoing>>
    BY <1>4 DEF EnterStage
  <2>2. \A q \in Plans : point'[q] = "undo" => point[q] = "undo"
    BY <1>4 DEF EnterStage
  <2> QED
    BY <2>1, <2>2, HandlersUntouched
<1>5. ASSUME NEW p \in Plans, SkipStage(p) PROVE HandlersDistinct'
  <2>1. UNCHANGED <<handlers, undoing>>
    BY <1>5 DEF SkipStage
  <2>2. \A q \in Plans : point'[q] = "undo" => point[q] = "undo"
    BY <1>5 DEF SkipStage, EndStage
  <2> QED
    BY <2>1, <2>2, HandlersUntouched
<1>6. ASSUME NEW p \in Plans, Complete(p) PROVE HandlersDistinct'
  <2>1. UNCHANGED <<handlers, undoing>>
    BY <1>6 DEF Complete
  <2>2. \A q \in Plans : point'[q] = "undo" => point[q] = "undo"
    BY <1>6 DEF Complete
  <2> QED
    BY <2>1, <2>2, HandlersUntouched
<1>7. ASSUME NEW p \in Plans, NextTask(p) PROVE HandlersDistinct'
  <2>1. UNCHANGED <<handlers, undoing>>
    BY <1>7 DEF NextTask
  <2>2. \A q \in Plans : point'[q] = "undo" => point[q] = "undo"
    BY <1>7 DEF NextTask
  <2> QED
    BY <2>1, <2>2, HandlersUntouched
<1>8. ASSUME NEW p \in Plans, EndSequential(p) PROVE HandlersDistinct'
  <2>1. UNCHANGED <<handlers, undoing>>
    BY <1>8 DEF EndSequential
  <2>2. \A q \in Plans : point'[q] = "undo" => point[q] = "undo"
    BY <1>8 DEF EndSequential, EndStage
  <2> QED
    BY <2>1, <2>2, HandlersUntouched
<1>9. ASSUME NEW p \in Plans, SubmitWave(p) PROVE HandlersDistinct'
  <2>1. UNCHANGED <<handlers, undoing>>
    BY <1>9 DEF SubmitWave
  <2>2. \A q \in Plans : point'[q] = "undo" => point[q] = "undo"
    BY <1>9 DEF SubmitWave
  <2> QED
    BY <2>1, <2>2, HandlersUntouched
<1>10. ASSUME NEW p \in Plans, EndParallel(p) PROVE HandlersDistinct'
  <2>1. UNCHANGED <<handlers, undoing>>
    BY <1>10 DEF EndParallel
  <2>2. \A q \in Plans : point'[q] = "undo" => point[q] = "undo"
    BY <1>10 DEF EndParallel, EndStage
  <2> QED
    BY <2>1, <2>2, HandlersUntouched
<1>11. ASSUME NEW p \in Plans, NEW t \in Tasks, ApplyCompleted(p, t) PROVE HandlersDistinct'
  <2>1. DistinctHandlers(handlers')
    <3>1. CASE t \in Undoable
      BY <1>11, <3>1, RegisteredHandlers DEF ApplyCompleted, HandlersDistinct, RecordsOK
    <3>2. CASE t \notin Undoable
      BY <1>11, <3>2 DEF ApplyCompleted, HandlersDistinct
    <3> QED
      BY <3>1, <3>2
  <2>2. UNCHANGED undoing /\ \A q \in Plans : point'[q] = "undo" => point[q] = "undo"
    BY <1>11 DEF ApplyCompleted, GoOn
  <2> QED
    BY <2>1, <2>2, HandlersAfter DEF HandlersDistinct
<1>12. ASSUME NEW p \in Plans, NEW t \in Tasks, ApplyTolerated(p, t) PROVE HandlersDistinct'
  <2>1. UNCHANGED <<handlers, undoing>>
    BY <1>12 DEF ApplyTolerated
  <2>2. \A q \in Plans : point'[q] = "undo" => point[q] = "undo"
    BY <1>12 DEF ApplyTolerated, GoOn
  <2> QED
    BY <2>1, <2>2, HandlersUntouched
<1>13. ASSUME NEW p \in Plans, NEW t \in Tasks, ApplyFailure(p, t) PROVE HandlersDistinct'
  <2>1. UNCHANGED <<handlers, undoing>>
    BY <1>13 DEF ApplyFailure
  <2>2. \A q \in Plans : point'[q] = "undo" => point[q] = "undo"
    BY <1>13 DEF ApplyFailure
  <2> QED
    BY <2>1, <2>2, HandlersUntouched
<1>14. ASSUME NEW p \in Plans, Drain(p) PROVE HandlersDistinct'
  <2>1. UNCHANGED <<handlers, undoing>>
    BY <1>14 DEF Drain
  <2>2. \A q \in Plans : point'[q] = "undo" => point[q] = "undo"
    BY <1>14 DEF Drain
  <2> QED
    BY <2>1, <2>2, HandlersUntouched
<1>15. ASSUME NEW p \in Plans, GiveUp(p) PROVE HandlersDistinct'
  <2>1. UNCHANGED <<handlers, undoing>>
    BY <1>15 DEF GiveUp
  <2>2. \A q \in Plans : point'[q] = "undo" => point[q] = "undo"
    BY <1>15 DEF GiveUp
  <2> QED
    BY <2>1, <2>2, HandlersUntouched
<1>16. ASSUME NEW p \in Plans, Recover(p) PROVE HandlersDistinct'
  <2>1. UNCHANGED handlers /\ DistinctHandlers(handlers)
    BY <1>16 DEF Recover, HandlersDistinct
  <2>2. DistinctSteps(undoing'[p]) /\ \A q \in Plans \ {p} : undoing'[q] = undoing[q]
    BY <1>16, <2>1, RollbackSteps DEF Recover, RecordsOK
  <2>3. \A q \in Plans \ {p} : point'[q] = point[q]
    BY <1>16 DEF Recover
  <2> QED
    BY <2>1, <2>2, <2>3, HandlersAfter DEF HandlersDistinct
<1>17. ASSUME NEW p \in Plans, UndoStep(p) PROVE HandlersDistinct'
  <2>1. UNCHANGED <<handlers, point>> /\ point[p] = "undo"
    BY <1>17 DEF UndoStep
  <2>2. DistinctSteps(undoing'[p]) /\ \A q \in Plans \ {p} : undoing'[q] = undoing[q]
    BY <1>17, <2>1, StepsAfterFirst DEF UndoStep, HandlersDistinct, RecordsOK
  <2> QED
    BY <2>1, <2>2, HandlersAfter DEF HandlersDistinct
<1>18. ASSUME NEW p \in Plans, EndRollback(p) PROVE HandlersDistinct'
  <2>1. handlers' = <<>> /\ UNCHANGED undoing
    BY <1>18 DEF EndRollback
  <2>2. \A q \in Plans : point'[q] = "undo" => point[q] = "undo"
    BY <1>18 DEF EndRollback
  <2>3. DOMAIN handlers' = {}
    BY <2>1
  <2> QED
    BY <2>1, <2>2, <2>3 DEF HandlersDistinct, DistinctHandlers, DistinctSteps
<1>19. ASSUME NEW p \in Plans, ExecuteAgain(p) PROVE HandlersDistinct'
  <2>1. UNCHANGED <<handlers, undoing>>
    BY <1>19 DEF ExecuteAgain
  <2>2. \A q \in Plans : point'[q] = "undo" => point[q] = "undo"
    BY <1>19 DEF ExecuteAgain, Execute
  <2> QED
    BY <2>1, <2>2, HandlersUntouched
<1>20. ASSUME NEW p \in Plans, NEW t \in Tasks, StartTask(p, t) PROVE HandlersDistinct'
  <2>1. UNCHANGED <<handlers, undoing>>
    BY <1>20 DEF StartTask
  <2>2. \A q \in Plans : point'[q] = "undo" => point[q] = "undo"
    BY <1>20 DEF StartTask
  <2> QED
    BY <2>1, <2>2, HandlersUntouched
<1>21. ASSUME NEW p \in Plans, NEW t \in Tasks, EndTask(p, t) PROVE HandlersDistinct'
  <2>1. UNCHANGED <<handlers, undoing>>
    BY <1>21 DEF EndTask
  <2>2. \A q \in Plans : point'[q] = "undo" => point[q] = "undo"
    BY <1>21 DEF EndTask
  <2> QED
    BY <2>1, <2>2, HandlersUntouched
<1>22. CASE UNCHANGED vars
  BY <1>22, HandlersUntouched DEF vars
<1> QED
  BY <1>1, <1>2, <1>3, <1>4, <1>5, <1>6, <1>7, <1>8, <1>9, <1>10, <1>11,
     <1>12, <1>13, <1>14, <1>15, <1>16, <1>17, <1>18, <1>19, <1>20, <1>21,
     <1>22
  DEF Next, Calls, PlanThread, Worker

\* Only a rollback step takes an effect away, and none runs beside an execution.
LEMMA EffectsKept ==
  ASSUME TypeOK, WavesOpen, OneAtATime, EffectsStand, [Next]_vars
  PROVE  EffectsStand'
<1> USE PipelineAssumption DEF TypeOK, ThreadsOK, WavesOpen, OneAtATime, EffectsStand
<1>1. ASSUME NEW p \in Plans, RunPlan(p) PROVE EffectsStand'
  BY <1>1 DEF RunPlan, Execute
<1>2. ASSUME NEW p \in Plans, Resume(p) PROVE EffectsStand'
  <2>1. PICK k \in DOMAIN checkpoints[p] : Execute(p, <<checkpoints[p][k]>>)
    BY <1>2 DEF Resume
  <2> QED
    BY <1>2, <2>1 DEF Resume, Execute
<1>3. ASSUME NEW p \in Plans, Rollback(p) PROVE EffectsStand'
  BY <1>3 DEF Rollback, BeginRollback
<1>4. ASSUME NEW p \in Plans, EnterStage(p) PROVE EffectsStand'
  BY <1>4 DEF EnterStage
<1>5. ASSUME NEW p \in Plans, SkipStage(p) PROVE EffectsStand'
  BY <1>5 DEF SkipStage, EndStage
<1>6. ASSUME NEW p \in Plans, Complete(p) PROVE EffectsStand'
  BY <1>6 DEF Complete
<1>7. ASSUME NEW p \in Plans, NextTask(p) PROVE EffectsStand'
  BY <1>7 DEF NextTask, InStage, Here, Past, Settled, Ready
<1>8. ASSUME NEW p \in Plans, EndSequential(p) PROVE EffectsStand'
  BY <1>8 DEF EndSequential, InStage, Past, EndStage
<1>9. ASSUME NEW p \in Plans, SubmitWave(p) PROVE EffectsStand'
  BY <1>9 DEF SubmitWave, InStage, NextWave
<1>10. ASSUME NEW p \in Plans, EndParallel(p) PROVE EffectsStand'
  BY <1>10 DEF EndParallel, InStage, NextWave, EndStage
<1>11. ASSUME NEW p \in Plans, NEW t \in Tasks, ApplyCompleted(p, t) PROVE EffectsStand'
  BY <1>11 DEF ApplyCompleted, Take, GoOn, Register, WriteCheckpoint
<1>12. ASSUME NEW p \in Plans, NEW t \in Tasks, ApplyTolerated(p, t) PROVE EffectsStand'
  BY <1>12 DEF ApplyTolerated, Take, GoOn
<1>13. ASSUME NEW p \in Plans, NEW t \in Tasks, ApplyFailure(p, t) PROVE EffectsStand'
  BY <1>13 DEF ApplyFailure, Take
<1>14. ASSUME NEW p \in Plans, Drain(p) PROVE EffectsStand'
  BY <1>14 DEF Drain
<1>15. ASSUME NEW p \in Plans, GiveUp(p) PROVE EffectsStand'
  BY <1>15 DEF GiveUp, MayRecover
<1>16. ASSUME NEW p \in Plans, Recover(p) PROVE EffectsStand'
  BY <1>16 DEF Recover, BeginRollback, MayRecover
<1>17. ASSUME NEW p \in Plans, UndoStep(p) PROVE EffectsStand'
  <2> SUFFICES ASSUME alone, NEW q \in Plans, NEW t \in Tasks, results[q][t] = "completed"
               PROVE  <<q, t>> \in effects'
    BY <1>17 DEF UndoStep
  <2>1. wave[q] # {} /\ point[q] \in {"wait", "cancelled"}
    OBVIOUS
  <2>2. FALSE
    BY <1>17, <2>1 DEF UndoStep
  <2> QED
    BY <2>2
<1>18. ASSUME NEW p \in Plans, EndRollback(p) PROVE EffectsStand'
  BY <1>18 DEF EndRollback
<1>19. ASSUME NEW p \in Plans, ExecuteAgain(p) PROVE EffectsStand'
  BY <1>19 DEF ExecuteAgain, Execute
<1>20. ASSUME NEW p \in Plans, NEW t \in Tasks, StartTask(p, t) PROVE EffectsStand'
  BY <1>20 DEF StartTask
<1>21. ASSUME NEW p \in Plans, NEW t \in Tasks, EndTask(p, t) PROVE EffectsStand'
  <2>1. CASE /\ results' = [results EXCEPT ![p][t] = "completed"]
             /\ effects' = effects \cup {<<p, t>>}
    BY <1>21, <2>1 DEF EndTask
  <2>2. CASE results' = [results EXCEPT ![p][t] = "failed"] /\ UNCHANGED effects
    BY <1>21, <2>2 DEF EndTask
  <2> QED
    BY <1>21, <2>1, <2>2 DEF EndTask
<1>22. CASE UNCHANGED vars
  BY <1>22 DEF vars
<1> QED
  BY <1>1, <1>2, <1>3, <1>4, <1>5, <1>6, <1>7, <1>8, <1>9, <1>10, <1>11,
     <1>12, <1>13, <1>14, <1>15, <1>16, <1>17, <1>18, <1>19, <1>20, <1>21,
     <1>22
  DEF Next, Calls, PlanThread, Worker

\* What is to be shown after a step, and a step that leaves it.
LEMMA UndoneAfter ==
  ASSUME alone' => \A h \in ToSet(handlers') :
           (\A q \in Plans : point'[q] = "undo" => h.task \in ToSet(undoing'[q]))
             => <<h.plan, h.task>> \in effects'
  PROVE  NothingUndoneTwice'
  BY DEF NothingUndoneTwice, ToSet

LEMMA UndoUntouched ==
  ASSUME NothingUndoneTwice, UNCHANGED undo, alone' => alone,
         \A q \in Plans : point[q] = "undo" => point'[q] = "undo"
  PROVE  NothingUndoneTwice'
  BY UndoneAfter DEF NothingUndoneTwice

\* A rollback step concerns a task that no later step of the rollback does.
LEMMA UndoneKept ==
  ASSUME TypeOK, OneAtATime, HandlersDistinct, EffectsStand, NothingUndoneTwice, [Next]_vars
  PROVE  NothingUndoneTwice'
<1> USE PipelineAssumption DEF TypeOK, ThreadsOK
<1>1. ASSUME NEW p \in Plans, RunPlan(p) PROVE NothingUndoneTwice'
  <2>1. UNCHANGED undo /\ (alone' => alone)
    BY <1>1 DEF RunPlan, Execute
  <2>2. \A q \in Plans : point[q] = "undo" => point'[q] = "undo"
    BY <1>1 DEF RunPlan, Execute
  <2> QED
    BY <2>1, <2>2, UndoUntouched
<1>2. ASSUME NEW p \in Plans, Resume(p) PROVE NothingUndoneTwice'
  <2>1. UNCHANGED undo /\ (alone' => alone)
    BY <1>2 DEF Resume
  <2>2. \A q \in Plans : point[q] = "undo" => point'[q] = "undo"
    BY <1>2 DEF Resume, Execute
  <2> QED
    BY <2>1, <2>2, UndoUntouched
<1>3. ASSUME NEW p \in Plans, Rollback(p) PROVE NothingUndoneTwice'
  <2> SUFFICES ASSUME alone', NEW h \in ToSet(handlers')
               PROVE  <<h.plan, h.task>> \in effects'
    BY UndoneAfter
  <2>1. alone /\ UNCHANGED <<handlers, effects>>
    BY <1>3 DEF Rollback
  <2>2. \A q \in Plans : point[q] # "undo"
    BY <1>3, <2>1 DEF Rollback, OneAtATime
  <2> QED
    BY <2>1, <2>2 DEF NothingUndoneTwice
<1>4. ASSUME NEW p \in Plans, EnterStage(p) PROVE NothingUndoneTwice'
  <2>1. UNCHANGED undo /\ (alone' => alone)
    BY <1>4 DEF EnterStage
  <2>2. \A q \in Plans : point[q] = "undo" => point'[q] = "undo"
    BY <1>4 DEF EnterStage
  <2> QED
    BY <2>1, <2>2, UndoUntouched
<1>5. ASSUME NEW p \in Plans, SkipStage(p) PROVE NothingUndoneTwice'
  <2>1. UNCHANGED undo /\ (alone' => alone)
    BY <1>5 DEF SkipStage, EndStage
  <2>2. \A q \in Plans : point[q] = "undo" => point'[q] = "undo"
    BY <1>5 DEF SkipStage, EndStage
  <2> QED
    BY <2>1, <2>2, UndoUntouched
<1>6. ASSUME NEW p \in Plans, Complete(p) PROVE NothingUndoneTwice'
  <2>1. UNCHANGED undo /\ (alone' => alone)
    BY <1>6 DEF Complete
  <2>2. \A q \in Plans : point[q] = "undo" => point'[q] = "undo"
    BY <1>6 DEF Complete
  <2> QED
    BY <2>1, <2>2, UndoUntouched
<1>7. ASSUME NEW p \in Plans, NextTask(p) PROVE NothingUndoneTwice'
  <2>1. UNCHANGED undo /\ (alone' => alone)
    BY <1>7 DEF NextTask
  <2>2. \A q \in Plans : point[q] = "undo" => point'[q] = "undo"
    BY <1>7 DEF NextTask, InStage
  <2> QED
    BY <2>1, <2>2, UndoUntouched
<1>8. ASSUME NEW p \in Plans, EndSequential(p) PROVE NothingUndoneTwice'
  <2>1. UNCHANGED undo /\ (alone' => alone)
    BY <1>8 DEF EndSequential, EndStage
  <2>2. \A q \in Plans : point[q] = "undo" => point'[q] = "undo"
    BY <1>8 DEF EndSequential, EndStage, InStage
  <2> QED
    BY <2>1, <2>2, UndoUntouched
<1>9. ASSUME NEW p \in Plans, SubmitWave(p) PROVE NothingUndoneTwice'
  <2>1. UNCHANGED undo /\ (alone' => alone)
    BY <1>9 DEF SubmitWave
  <2>2. \A q \in Plans : point[q] = "undo" => point'[q] = "undo"
    BY <1>9 DEF SubmitWave, InStage
  <2> QED
    BY <2>1, <2>2, UndoUntouched
<1>10. ASSUME NEW p \in Plans, EndParallel(p) PROVE NothingUndoneTwice'
  <2>1. UNCHANGED undo /\ (alone' => alone)
    BY <1>10 DEF EndParallel, EndStage
  <2>2. \A q \in Plans : point[q] = "undo" => point'[q] = "undo"
    BY <1>10 DEF EndParallel, EndStage, InStage
  <2> QED
    BY <2>1, <2>2, UndoUntouched
<1>11. ASSUME NEW p \in Plans, NEW t \in Tasks, ApplyCompleted(p, t) PROVE NothingUndoneTwice'
  <2> SUFFICES ASSUME alone', NEW h \in ToSet(handlers'),
                      \A q \in Plans : point'[q] = "undo" => h.task \in ToSet(undoing'[q])
               PROVE  <<h.plan, h.task>> \in effects'
    BY UndoneAfter
  <2>1. alone /\ UNCHANGED <<undoing, effects>>
    BY <1>11 DEF ApplyCompleted
  <2>2. \A q \in Plans : point[q] = "undo" => h.task \in ToSet(undoing[q])
    BY <1>11, <2>1 DEF ApplyCompleted, GoOn, Take
  <2>3. CASE h \in ToSet(handlers)
    BY <2>1, <2>2, <2>3 DEF NothingUndoneTwice
  <2>4. CASE h \notin ToSet(handlers)
    <3>1. h = [task |-> t, plan |-> p]
      BY <1>11, <2>4, RegisteredHandlers DEF ApplyCompleted, RecordsOK
    <3>2. <<p, t>> \in effects
      BY <1>11, <2>1 DEF ApplyCompleted, Take, EffectsStand
    <3> QED
      BY <2>1, <3>1, <3>2
  <2> QED
    BY <2>3, <2>4
<1>12. ASSUME NEW p \in Plans, NEW t \in Tasks, ApplyTolerated(p, t) PROVE NothingUndoneTwice'
  <2>1. UNCHANGED undo /\ (alone' => alone)
    BY <1>12 DEF ApplyTolerated, GoOn
  <2>2. \A q \in Plans : point[q] = "undo" => point'[q] = "undo"
    BY <1>12 DEF ApplyTolerated, GoOn, Take
  <2> QED
    BY <2>1, <2>2, UndoUntouched
<1>13. ASSUME NEW p \in Plans, NEW t \in Tasks, ApplyFailure(p, t) PROVE NothingUndoneTwice'
  <2>1. UNCHANGED undo /\ (alone' => alone)
    BY <1>13 DEF ApplyFailure
  <2>2. \A q \in Plans : point[q] = "undo" => point'[q] = "undo"
    BY <1>13 DEF ApplyFailure, Take
  <2> QED
    BY <2>1, <2>2, UndoUntouched
<1>14. ASSUME NEW p \in Plans, Drain(p) PROVE NothingUndoneTwice'
  <2>1. UNCHANGED undo /\ (alone' => alone)
    BY <1>14 DEF Drain
  <2>2. \A q \in Plans : point[q] = "undo" => point'[q] = "undo"
    BY <1>14 DEF Drain
  <2> QED
    BY <2>1, <2>2, UndoUntouched
<1>15. ASSUME NEW p \in Plans, GiveUp(p) PROVE NothingUndoneTwice'
  <2>1. UNCHANGED undo /\ (alone' => alone)
    BY <1>15 DEF GiveUp
  <2>2. \A q \in Plans : point[q] = "undo" => point'[q] = "undo"
    BY <1>15 DEF GiveUp
  <2> QED
    BY <2>1, <2>2, UndoUntouched
<1>16. ASSUME NEW p \in Plans, Recover(p) PROVE NothingUndoneTwice'
  <2> SUFFICES ASSUME alone', NEW h \in ToSet(handlers')
               PROVE  <<h.plan, h.task>> \in effects'
    BY UndoneAfter
  <2>1. alone /\ UNCHANGED <<handlers, effects>>
    BY <1>16 DEF Recover
  <2>2. \A q \in Plans : point[q] # "undo"
    BY <1>16, <2>1 DEF Recover, OneAtATime
  <2> QED
    BY <2>1, <2>2 DEF NothingUndoneTwice
<1>17. ASSUME NEW p \in Plans, UndoStep(p) PROVE NothingUndoneTwice'
  <2> DEFINE x == Head(undoing[p])
             undone == {<<h.plan, h.task>> : h \in {g \in ToSet(handlers) : g.task = x}}
  <2> SUFFICES ASSUME alone', NEW h \in ToSet(handlers'),
                      \A q \in Plans : point'[q] = "undo" => h.task \in ToSet(undoing'[q])
               PROVE  <<h.plan, h.task>> \in effects'
    BY UndoneAfter
  <2>1. /\ alone /\ UNCHANGED <<handlers, point>> /\ point[p] = "undo" /\ undoing[p] # <<>>
        /\ undoing'[p] = Tail(undoing[p]) /\ undoing[p] \in Seq(Tasks)
    BY <1>17 DEF UndoStep, RecordsOK
  <2>2. effects' \in {effects, effects \ undone}
    BY <1>17 DEF UndoStep
  <2>3. /\ x \notin ToSet(Tail(undoing[p]))
        /\ ToSet(undoing[p]) = {x} \cup ToSet(Tail(undoing[p]))
    BY <2>1, StepsAfterFirst DEF HandlersDistinct
  <2>4. h.task # x /\ h.task \in ToSet(undoing[p])
    BY <2>1, <2>3
  <2> HIDE DEF x
  <2>5. \A q \in Plans : point[q] = "undo" => q = p
    BY <2>1 DEF OneAtATime
  <2>6. <<h.plan, h.task>> \in effects
    BY <2>1, <2>4, <2>5 DEF NothingUndoneTwice
  <2>7. <<h.plan, h.task>> \notin undone
    BY <2>4
  <2> QED
    BY <2>2, <2>6, <2>7
<1>18. ASSUME NEW p \in Plans, EndRollback(p) PROVE NothingUndoneTwice'
  <2>1. handlers' = <<>>
    BY <1>18 DEF EndRollback
  <2>2. ToSet(handlers') = {}
    BY <2>1 DEF ToSet
  <2> QED
    BY <2>2, UndoneAfter
<1>19. ASSUME NEW p \in Plans, ExecuteAgain(p) PROVE NothingUndoneTwice'
  <2>1. UNCHANGED undo /\ (alone' => alone)
    BY <1>19 DEF ExecuteAgain, Execute
  <2>2. \A q \in Plans : point[q] = "undo" => point'[q] = "undo"
    BY <1>19 DEF ExecuteAgain, Execute
  <2> QED
    BY <2>1, <2>2, UndoUntouched
<1>20. ASSUME NEW p \in Plans, NEW t \in Tasks, StartTask(p, t) PROVE NothingUndoneTwice'
  <2>1. UNCHANGED undo /\ (alone' => alone)
    BY <1>20 DEF StartTask
  <2>2. \A q \in Plans : point[q] = "undo" => point'[q] = "undo"
    BY <1>20 DEF StartTask
  <2> QED
    BY <2>1, <2>2, UndoUntouched
<1>21. ASSUME NEW p \in Plans, NEW t \in Tasks, EndTask(p, t) PROVE NothingUndoneTwice'
  <2>1. UNCHANGED <<handlers, undoing, point, alone>> /\ effects \subseteq effects'
    BY <1>21 DEF EndTask
  <2> QED
    BY <2>1 DEF NothingUndoneTwice
<1>22. CASE UNCHANGED vars
  BY <1>22, UndoUntouched DEF vars
<1> QED
  BY <1>1, <1>2, <1>3, <1>4, <1>5, <1>6, <1>7, <1>8, <1>9, <1>10, <1>11,
     <1>12, <1>13, <1>14, <1>15, <1>16, <1>17, <1>18, <1>19, <1>20, <1>21,
     <1>22
  DEF Next, Calls, PlanThread, Worker

\* What a step of another plan leaves.
SameFor(q) ==
  /\ status'[q] = status[q] /\ tasks'[q] = tasks[q] /\ point'[q] = point[q]
  /\ stage'[q] = stage[q] /\ checkpoints'[q] = checkpoints[q]
  /\ resumed'[q] = resumed[q] /\ (q \in unsaved' <=> q \in unsaved)

\* What is to be shown after a step of plan p.
LEMMA SavedAfter ==
  ASSUME FailureSaved, NEW p \in Plans, alone' => alone, \A q \in Plans \ {p} : SameFor(q),
         alone' /\ p \notin unsaved'
           /\ (status'[p] = "FAILED" \/ point'[p] \in {"cancelled", "failed"})
           /\ ~ Stages[p][stage'[p]].parallel =>
             /\ checkpoints'[p] # <<>>
             /\ Last(checkpoints'[p]) = [tasks |-> tasks'[p], stage |-> stage'[p]]
  PROVE  FailureSaved'
<1> SUFFICES ASSUME alone', NEW q \in Plans, q \notin unsaved',
                    status'[q] = "FAILED" \/ point'[q] \in {"cancelled", "failed"},
                    ~ Stages[q][stage'[q]].parallel
             PROVE  /\ checkpoints'[q] # <<>>
                    /\ Last(checkpoints'[q]) = [tasks |-> tasks'[q], stage |-> stage'[q]]
  BY DEF FailureSaved, Last
<1>1. CASE q = p
  BY <1>1
<1>2. CASE q # p
  BY <1>2 DEF SameFor, FailureSaved
<1> QED
  BY <1>1, <1>2

\* A failing sequential stage checkpoints last.
LEMMA SavedKept ==
  ASSUME TypeOK, WavesOpen, StatusIsRunning, IndexIsStage, FailureSaved, [Next]_vars
  PROVE  FailureSaved'
<1> USE PipelineAssumption DEF TypeOK, ThreadsOK
<1>1. ASSUME NEW p \in Plans, RunPlan(p) PROVE FailureSaved'
  <2>1. (alone' => alone) /\ \A q \in Plans \ {p} : SameFor(q)
    BY <1>1 DEF RunPlan, Execute, SameFor, RecordsOK
  <2>2. status'[p] = "RUNNING" /\ point'[p] \notin {"cancelled", "failed"}
    BY <1>1 DEF RunPlan, Execute, StatusIsRunning, Executing
  <2> QED
    BY <2>1, <2>2, SavedAfter
<1>2. ASSUME NEW p \in Plans, Resume(p) PROVE FailureSaved'
  <2>1. (alone' => alone) /\ \A q \in Plans \ {p} : SameFor(q)
    BY <1>2 DEF Resume, Execute, SameFor, RecordsOK
  <2>2. status'[p] = "RUNNING" /\ point'[p] \notin {"cancelled", "failed"}
    BY <1>2 DEF Resume, Execute, StatusIsRunning, Executing
  <2> QED
    BY <2>1, <2>2, SavedAfter
<1>3. ASSUME NEW p \in Plans, Rollback(p) PROVE FailureSaved'
  <2>1. (alone' => alone) /\ \A q \in Plans \ {p} : SameFor(q)
    BY <1>3 DEF Rollback, SameFor, RecordsOK
  <2>2. /\ UNCHANGED <<tasks, stage, checkpoints, unsaved>>
        /\ status'[p] = "FAILED" \/ point'[p] \in {"cancelled", "failed"}
             => status[p] = "FAILED" \/ point[p] \in {"cancelled", "failed"}
    BY <1>3 DEF Rollback
  <2> QED
    BY <2>1, <2>2, SavedAfter DEF FailureSaved
<1>4. ASSUME NEW p \in Plans, EnterStage(p) PROVE FailureSaved'
  <2>1. (alone' => alone) /\ \A q \in Plans \ {p} : SameFor(q)
    BY <1>4 DEF EnterStage, SameFor, RecordsOK
  <2>2. status'[p] = "RUNNING" /\ point'[p] \notin {"cancelled", "failed"}
    BY <1>4 DEF EnterStage, StatusIsRunning, Executing
  <2> QED
    BY <2>1, <2>2, SavedAfter
<1>5. ASSUME NEW p \in Plans, SkipStage(p) PROVE FailureSaved'
  <2>1. (alone' => alone) /\ \A q \in Plans \ {p} : SameFor(q)
    BY <1>5 DEF SkipStage, EndStage, WriteCheckpoint, Checkpoint, SameFor, RecordsOK
  <2>2. status'[p] = "RUNNING" /\ point'[p] \notin {"cancelled", "failed"}
    BY <1>5 DEF SkipStage, EndStage, Checkpoint, StatusIsRunning, Executing
  <2> QED
    BY <2>1, <2>2, SavedAfter
<1>6. ASSUME NEW p \in Plans, Complete(p) PROVE FailureSaved'
  <2>1. (alone' => alone) /\ \A q \in Plans \ {p} : SameFor(q)
    BY <1>6 DEF Complete, SameFor, RecordsOK
  <2>2. status'[p] = "COMPLETED" /\ point'[p] \notin {"cancelled", "failed"}
    BY <1>6 DEF Complete, StatusIsRunning, Executing
  <2> QED
    BY <2>1, <2>2, SavedAfter
<1>7. ASSUME NEW p \in Plans, NextTask(p) PROVE FailureSaved'
  <2>1. (alone' => alone) /\ \A q \in Plans \ {p} : SameFor(q)
    BY <1>7 DEF NextTask, InStage, SameFor, RecordsOK
  <2>2. status'[p] = "RUNNING" /\ point'[p] \notin {"cancelled", "failed"}
    BY <1>7 DEF NextTask, InStage, StatusIsRunning, Executing
  <2> QED
    BY <2>1, <2>2, SavedAfter
<1>8. ASSUME NEW p \in Plans, EndSequential(p) PROVE FailureSaved'
  <2>1. (alone' => alone) /\ \A q \in Plans \ {p} : SameFor(q)
    BY <1>8 DEF EndSequential, EndStage, InStage, WriteCheckpoint, Checkpoint, SameFor, RecordsOK
  <2>2. status'[p] = "RUNNING" /\ point'[p] \notin {"cancelled", "failed"}
    BY <1>8 DEF EndSequential, EndStage, InStage, Checkpoint, StatusIsRunning, Executing
  <2> QED
    BY <2>1, <2>2, SavedAfter
<1>9. ASSUME NEW p \in Plans, SubmitWave(p) PROVE FailureSaved'
  <2>1. (alone' => alone) /\ \A q \in Plans \ {p} : SameFor(q)
    BY <1>9 DEF SubmitWave, InStage, SameFor, RecordsOK
  <2>2. status'[p] = "RUNNING" /\ point'[p] \notin {"cancelled", "failed"}
    BY <1>9 DEF SubmitWave, InStage, StatusIsRunning, Executing
  <2> QED
    BY <2>1, <2>2, SavedAfter
<1>10. ASSUME NEW p \in Plans, EndParallel(p) PROVE FailureSaved'
  <2>1. (alone' => alone) /\ \A q \in Plans \ {p} : SameFor(q)
    BY <1>10 DEF EndParallel, EndStage, InStage, WriteCheckpoint, Checkpoint, SameFor, RecordsOK
  <2>2. status'[p] = "RUNNING" /\ point'[p] \notin {"cancelled", "failed"}
    BY <1>10 DEF EndParallel, EndStage, InStage, Checkpoint, StatusIsRunning, Executing
  <2> QED
    BY <2>1, <2>2, SavedAfter
<1>11. ASSUME NEW p \in Plans, NEW t \in Tasks, ApplyCompleted(p, t) PROVE FailureSaved'
  <2>1. (alone' => alone) /\ \A q \in Plans \ {p} : SameFor(q)
    BY <1>11 DEF ApplyCompleted, GoOn, Take, WriteCheckpoint, Checkpoint, SameFor, RecordsOK
  <2>2. status'[p] = "RUNNING" /\ point'[p] \notin {"cancelled", "failed"}
    BY <1>11 DEF ApplyCompleted, GoOn, Take, WriteCheckpoint, Checkpoint, StatusIsRunning, Executing
  <2> QED
    BY <2>1, <2>2, SavedAfter
<1>12. ASSUME NEW p \in Plans, NEW t \in Tasks, ApplyTolerated(p, t) PROVE FailureSaved'
  <2>1. (alone' => alone) /\ \A q \in Plans \ {p} : SameFor(q)
    BY <1>12 DEF ApplyTolerated, GoOn, Take, SameFor, RecordsOK
  <2>2. status'[p] = "RUNNING" /\ point'[p] \notin {"cancelled", "failed"}
    BY <1>12 DEF ApplyTolerated, GoOn, Take, StatusIsRunning, Executing
  <2> QED
    BY <2>1, <2>2, SavedAfter
<1>13. ASSUME NEW p \in Plans, NEW t \in Tasks, ApplyFailure(p, t) PROVE FailureSaved'
  <2> DEFINE ts == [tasks[p] EXCEPT ![t] = "FAILED"]
  <2>1. (alone' => alone) /\ \A q \in Plans \ {p} : SameFor(q)
    BY <1>13 DEF ApplyFailure, Take, WriteCheckpoint, Checkpoint, SameFor, RecordsOK
  <2>2. ASSUME alone', ~ Stages[p][stage'[p]].parallel, p \notin unsaved'
        PROVE  /\ checkpoints'[p] # <<>>
               /\ Last(checkpoints'[p]) = [tasks |-> tasks'[p], stage |-> stage'[p]]
    <3>1. stageIndex = stage[p] /\ UNCHANGED stage
      BY <1>13, <2>2 DEF ApplyFailure, Take, IndexIsStage
    <3>2. ts \in [Tasks -> TaskStatuses] /\ tasks'[p] = ts /\ Checkpoint(p, ts, stageIndex)
      BY <1>13, <2>2, <3>1 DEF ApplyFailure, WriteCheckpoint, TaskStatuses
    <3> HIDE DEF ts
    <3> QED
      BY <3>1, <3>2, CheckpointWritten
  <2> QED
    BY <2>1, <2>2, SavedAfter
<1>14. ASSUME NEW p \in Plans, Drain(p) PROVE FailureSaved'
  <2>1. (alone' => alone) /\ \A q \in Plans \ {p} : SameFor(q)
    BY <1>14 DEF Drain, SameFor, RecordsOK
  <2>2. /\ UNCHANGED <<tasks, stage, checkpoints, unsaved>>
        /\ status'[p] = "FAILED" \/ point'[p] \in {"cancelled", "failed"}
             => status[p] = "FAILED" \/ point[p] \in {"cancelled", "failed"}
    BY <1>14 DEF Drain
  <2> QED
    BY <2>1, <2>2, SavedAfter DEF FailureSaved
<1>15. ASSUME NEW p \in Plans, GiveUp(p) PROVE FailureSaved'
  <2>1. (alone' => alone) /\ \A q \in Plans \ {p} : SameFor(q)
    BY <1>15 DEF GiveUp, SameFor, RecordsOK
  <2>2. /\ UNCHANGED <<tasks, stage, checkpoints, unsaved>>
        /\ status'[p] = "FAILED" \/ point'[p] \in {"cancelled", "failed"}
             => status[p] = "FAILED" \/ point[p] \in {"cancelled", "failed"}
    BY <1>15 DEF GiveUp
  <2> QED
    BY <2>1, <2>2, SavedAfter DEF FailureSaved
<1>16. ASSUME NEW p \in Plans, Recover(p) PROVE FailureSaved'
  <2>1. (alone' => alone) /\ \A q \in Plans \ {p} : SameFor(q)
    BY <1>16 DEF Recover, SameFor, RecordsOK
  <2>2. /\ UNCHANGED <<tasks, stage, checkpoints, unsaved>>
        /\ status'[p] = "FAILED" \/ point'[p] \in {"cancelled", "failed"}
             => status[p] = "FAILED" \/ point[p] \in {"cancelled", "failed"}
    BY <1>16 DEF Recover
  <2> QED
    BY <2>1, <2>2, SavedAfter DEF FailureSaved
<1>17. ASSUME NEW p \in Plans, UndoStep(p) PROVE FailureSaved'
  <2>1. (alone' => alone) /\ \A q \in Plans \ {p} : SameFor(q)
    BY <1>17 DEF UndoStep, SameFor, RecordsOK
  <2>2. /\ UNCHANGED <<tasks, stage, checkpoints, unsaved>>
        /\ status'[p] = "FAILED" \/ point'[p] \in {"cancelled", "failed"}
             => status[p] = "FAILED" \/ point[p] \in {"cancelled", "failed"}
    BY <1>17 DEF UndoStep
  <2> QED
    BY <2>1, <2>2, SavedAfter DEF FailureSaved
<1>18. ASSUME NEW p \in Plans, EndRollback(p) PROVE FailureSaved'
  <2>1. (alone' => alone) /\ \A q \in Plans \ {p} : SameFor(q)
    BY <1>18 DEF EndRollback, SameFor, RecordsOK
  <2>2. /\ UNCHANGED <<tasks, stage, checkpoints, unsaved>>
        /\ status'[p] = "FAILED" \/ point'[p] \in {"cancelled", "failed"}
             => status[p] = "FAILED" \/ point[p] \in {"cancelled", "failed"}
    BY <1>18 DEF EndRollback
  <2> QED
    BY <2>1, <2>2, SavedAfter DEF FailureSaved
<1>19. ASSUME NEW p \in Plans, ExecuteAgain(p) PROVE FailureSaved'
  <2>1. (alone' => alone) /\ \A q \in Plans \ {p} : SameFor(q)
    BY <1>19 DEF ExecuteAgain, Execute, SameFor, RecordsOK
  <2>2. status'[p] = "RUNNING" /\ point'[p] \notin {"cancelled", "failed"}
    BY <1>19 DEF ExecuteAgain, Execute, StatusIsRunning, Executing
  <2> QED
    BY <2>1, <2>2, SavedAfter
<1>20. ASSUME NEW p \in Plans, NEW t \in Tasks, StartTask(p, t) PROVE FailureSaved'
  <2>1. (alone' => alone) /\ \A q \in Plans \ {p} : SameFor(q)
    BY <1>20 DEF StartTask, SameFor, RecordsOK
  <2>2. status'[p] = "RUNNING" /\ point'[p] \notin {"cancelled", "failed"}
    BY <1>20 DEF StartTask, StatusIsRunning, Executing, WavesOpen
  <2> QED
    BY <2>1, <2>2, SavedAfter
<1>21. ASSUME NEW p \in Plans, NEW t \in Tasks, EndTask(p, t) PROVE FailureSaved'
  <2>1. (alone' => alone) /\ \A q \in Plans \ {p} : SameFor(q)
    BY <1>21 DEF EndTask, SameFor, RecordsOK
  <2>2. /\ UNCHANGED <<tasks, stage, checkpoints, unsaved>>
        /\ status'[p] = "FAILED" \/ point'[p] \in {"cancelled", "failed"}
             => status[p] = "FAILED" \/ point[p] \in {"cancelled", "failed"}
    BY <1>21 DEF EndTask
  <2> QED
    BY <2>1, <2>2, SavedAfter DEF FailureSaved
<1>22. CASE UNCHANGED vars
  BY <1>22 DEF vars, FailureSaved, Last
<1> QED
  BY <1>1, <1>2, <1>3, <1>4, <1>5, <1>6, <1>7, <1>8, <1>9, <1>10, <1>11,
     <1>12, <1>13, <1>14, <1>15, <1>16, <1>17, <1>18, <1>19, <1>20, <1>21,
     <1>22
  DEF Next, Calls, PlanThread, Worker

\* What is to be shown after a step of plan p.
LEMMA ForgottenAfter ==
  ASSUME NoneForgotten, NEW p \in Plans, \A q \in Plans \ {p} : SameFor(q),
         ~ resumed'[p] /\ (point'[p] \in {"stage", "next", "wait"} \/ status'[p] = "COMPLETED") =>
           \A t \in FailFast : tasks'[p][t] # "FAILED"
  PROVE  NoneForgotten'
<1> SUFFICES ASSUME NEW q \in Plans, ~ resumed'[q],
                    point'[q] \in {"stage", "next", "wait"} \/ status'[q] = "COMPLETED",
                    NEW t \in FailFast
             PROVE  tasks'[q][t] # "FAILED"
  BY DEF NoneForgotten
<1>1. CASE q = p
  BY <1>1
<1>2. CASE q # p
  BY <1>2 DEF SameFor, NoneForgotten
<1> QED
  BY <1>1, <1>2

\* The first status that fails the plan takes it out of the stage loop.
LEMMA NoneForgottenKept ==
  ASSUME TypeOK, StatusIsRunning, NoneForgotten, [Next]_vars
  PROVE  NoneForgotten'
<1> USE DEF TypeOK, ThreadsOK, StatusIsRunning, Executing, NoneForgotten
<1>1. ASSUME NEW p \in Plans, RunPlan(p) PROVE NoneForgotten'
  <2>1. \A q \in Plans \ {p} : SameFor(q)
    BY <1>1 DEF RunPlan, Execute, SameFor, RecordsOK
  <2>2. ~ resumed'[p] => \A t \in FailFast : tasks'[p][t] # "FAILED"
    BY <1>1, PipelineAssumption DEF RunPlan, Execute
  <2> QED
    BY <2>1, <2>2, ForgottenAfter
<1>2. ASSUME NEW p \in Plans, Resume(p) PROVE NoneForgotten'
  <2>1. \A q \in Plans \ {p} : SameFor(q)
    BY <1>2 DEF Resume, Execute, SameFor, RecordsOK
  <2>2. resumed'[p]
    BY <1>2 DEF Resume, Execute
  <2> QED
    BY <2>1, <2>2, ForgottenAfter
<1>3. ASSUME NEW p \in Plans, Rollback(p) PROVE NoneForgotten'
  BY <1>3 DEF Rollback
<1>4. ASSUME NEW p \in Plans, EnterStage(p) PROVE NoneForgotten'
  BY <1>4 DEF EnterStage
<1>5. ASSUME NEW p \in Plans, SkipStage(p) PROVE NoneForgotten'
  <2>1. \A q \in Plans \ {p} : SameFor(q)
    BY <1>5 DEF SkipStage, EndStage, WriteCheckpoint, Checkpoint, SameFor, RecordsOK
  <2>2. /\ UNCHANGED <<resumed, status>> /\ point[p] = "stage"
        /\ \A t \in FailFast : tasks[p][t] # "FAILED" => tasks'[p][t] # "FAILED"
    BY <1>5, PipelineAssumption DEF SkipStage, EndStage
  <2>3. ~ resumed'[p] => \A t \in FailFast : tasks'[p][t] # "FAILED"
    BY <2>2
  <2> QED
    BY <2>1, <2>3, ForgottenAfter
<1>6. ASSUME NEW p \in Plans, Complete(p) PROVE NoneForgotten'
  BY <1>6 DEF Complete
<1>7. ASSUME NEW p \in Plans, NextTask(p) PROVE NoneForgotten'
  <2>1. \A q \in Plans \ {p} : SameFor(q)
    BY <1>7 DEF NextTask, InStage, SameFor, RecordsOK
  <2>2. /\ UNCHANGED <<resumed, status>> /\ point[p] = "next"
        /\ \A t \in FailFast : tasks[p][t] # "FAILED" => tasks'[p][t] # "FAILED"
    <3>1. CASE UNCHANGED tasks
      BY <1>7, <3>1 DEF NextTask, InStage
    <3>2. CASE tasks' # tasks
      <4>1. PICK h \in Tasks : h = Here(p)
        BY <1>7, StageTask DEF NextTask
      <4>2. tasks' = [tasks EXCEPT ![p][h] = "SKIPPED"]
        BY <1>7, <3>2, <4>1 DEF NextTask
      <4> QED
        BY <1>7, <4>2, PipelineAssumption DEF NextTask, InStage
    <3> QED
      BY <3>1, <3>2
  <2>3. ~ resumed'[p] => \A t \in FailFast : tasks'[p][t] # "FAILED"
    BY <2>2
  <2> QED
    BY <2>1, <2>3, ForgottenAfter
<1>8. ASSUME NEW p \in Plans, EndSequential(p) PROVE NoneForgotten'
  BY <1>8 DEF EndSequential, EndStage, InStage
<1>9. ASSUME NEW p \in Plans, SubmitWave(p) PROVE NoneForgotten'
  BY <1>9 DEF SubmitWave, InStage
<1>10. ASSUME NEW p \in Plans, EndParallel(p) PROVE NoneForgotten'
  BY <1>10 DEF EndParallel, EndStage, InStage
<1>11. ASSUME NEW p \in Plans, NEW t \in Tasks, ApplyCompleted(p, t) PROVE NoneForgotten'
  BY <1>11 DEF ApplyCompleted, GoOn, Take
<1>12. ASSUME NEW p \in Plans, NEW t \in Tasks, ApplyTolerated(p, t) PROVE NoneForgotten'
  BY <1>12 DEF ApplyTolerated, GoOn, Take
<1>13. ASSUME NEW p \in Plans, NEW t \in Tasks, ApplyFailure(p, t) PROVE NoneForgotten'
  BY <1>13 DEF ApplyFailure, Take
<1>14. ASSUME NEW p \in Plans, Drain(p) PROVE NoneForgotten'
  BY <1>14 DEF Drain
<1>15. ASSUME NEW p \in Plans, GiveUp(p) PROVE NoneForgotten'
  BY <1>15 DEF GiveUp
<1>16. ASSUME NEW p \in Plans, Recover(p) PROVE NoneForgotten'
  BY <1>16 DEF Recover
<1>17. ASSUME NEW p \in Plans, UndoStep(p) PROVE NoneForgotten'
  BY <1>17 DEF UndoStep
<1>18. ASSUME NEW p \in Plans, EndRollback(p) PROVE NoneForgotten'
  BY <1>18 DEF EndRollback
<1>19. ASSUME NEW p \in Plans, ExecuteAgain(p) PROVE NoneForgotten'
  <2>1. \A q \in Plans \ {p} : SameFor(q)
    BY <1>19 DEF ExecuteAgain, Execute, SameFor, RecordsOK
  <2>2. CASE source[p] # <<>>
    <3>1. resumed'[p]
      BY <1>19, <2>2 DEF ExecuteAgain, Execute
    <3> QED
      BY <2>1, <3>1, ForgottenAfter
  <2>3. CASE source[p] = <<>>
    <3>1. \A t \in FailFast : tasks'[p][t] # "FAILED"
      BY <1>19, <2>3, PipelineAssumption DEF ExecuteAgain, Execute
    <3> QED
      BY <2>1, <3>1, ForgottenAfter
  <2> QED
    BY <2>2, <2>3
<1>20. ASSUME NEW p \in Plans, NEW t \in Tasks, StartTask(p, t) PROVE NoneForgotten'
  BY <1>20 DEF StartTask
<1>21. ASSUME NEW p \in Plans, NEW t \in Tasks, EndTask(p, t) PROVE NoneForgotten'
  BY <1>21 DEF EndTask
<1>22. CASE UNCHANGED vars
  BY <1>22 DEF vars
<1> QED
  BY <1>1, <1>2, <1>3, <1>4, <1>5, <1>6, <1>7, <1>8, <1>9, <1>10, <1>11,
     <1>12, <1>13, <1>14, <1>15, <1>16, <1>17, <1>18, <1>19, <1>20, <1>21,
     <1>22
  DEF Next, Calls, PlanThread, Worker

\* Rollback and resumption, in every behaviour.
LEMMA AloneInvariant == Spec => [](AloneInv /\ NothingUndoneTwice /\ FailureSaved /\ NoneForgotten)
<1> DEFINE Inv == AloneInv /\ NothingUndoneTwice /\ FailureSaved /\ NoneForgotten
<1>1. Init => Inv
  <2> SUFFICES ASSUME Init PROVE Inv
    OBVIOUS
  <2>1. ToSet(handlers) = {} /\ DOMAIN handlers = {}
    BY DEF Init, ToSet
  <2> QED
    BY <2>1 DEF Init, AloneInv, StatusIsRunning, HandlersDistinct, DistinctHandlers, OneAtATime,
       EffectsStand, IndexIsStage, NothingUndoneTwice, FailureSaved, NoneForgotten, Executing
<1>2. (TypeOK /\ StatusesOrdered /\ WavesOpen) /\ Inv /\ [Next]_vars => Inv'
  BY StatusKept, DistinctKept, OneKept, EffectsKept, IndexKept, UndoneKept, SavedKept,
     NoneForgottenKept DEF AloneInv
<1> HIDE DEF Inv
<1>3. Spec => []Inv
  BY <1>1, <1>2, OrderAndWaves, PTL DEF Spec
<1> QED
  BY <1>3 DEF Inv

\* A handler that may still be run stands for an effect that was not yet undone, over any
\* sequence of runs, resumptions and rollbacks made one after the other (RollbackManager).
THEOREM UndoneOnce == Spec => []NothingUndoneTwice
  BY AloneInvariant, PTL

\* A failure in a sequential stage is in the plan's last checkpoint, unless that one could
\* not be written or plans were run side by side (_execute_sequential writes a checkpoint
\* before it raises); and an execution that was not resumed is not COMPLETED over a failure
\* that fails the plan.  What a resumption makes of the checkpoint is not part of it.
THEOREM FailuresKept == Spec => []FailureIsKept
<1>1. StatusIsRunning /\ FailureSaved /\ NoneForgotten => FailureIsKept
  BY DEF FailureSaved, NoneForgotten, FailureIsKept
<1> QED
  BY <1>1, AloneInvariant, PTL DEF AloneInv
=============================================================================
