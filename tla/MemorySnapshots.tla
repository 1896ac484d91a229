--------------------------- MODULE MemorySnapshots ---------------------------
(***************************************************************************)
(* Snapshots of the memory (memory/snapshot.py): those a process knows,    *)
(* and the directories on disk, each with a metadata and an entries file.  *)
(* A snapshot is named by the second it was taken in; what it holds is a   *)
(* function from ids to entries, as the store is.                          *)
(***************************************************************************)
EXTENDS Naturals, FiniteSets, Functions, TLC

NoSnapshots(onDisk) == [known |-> << >>, disk |-> << >>, onDisk |-> onDisk]

\* The three steps of writing a directory: it is made, then one file and the
\* other are written.  A process may end after any of them.
Saved(sn, id, held, steps) ==
  LET before == IF id \in DOMAIN sn.disk THEN sn.disk[id] ELSE [metadata |-> FALSE, entries |-> {}]
      files == [metadata |-> before.metadata \/ steps >= 2,
                entries |-> IF steps >= 3 THEN {held} ELSE before.entries]
  IN IF sn.onDisk /\ steps >= 1 THEN [sn EXCEPT !.disk = (id :> files) @@ @] ELSE sn

\* Ids without an entry are left out; no ids means all.
create_snapshot(sn, store, second, ids, steps) ==
  LET held == IF ids = {} THEN store ELSE Restrict(store, ids \intersect DOMAIN store)
  IN Saved([sn EXCEPT !.known = (second :> held) @@ @], second, held, steps)

\* A directory is read if it has both files.
Stored(sn, id) ==
  IF id \in DOMAIN sn.disk /\ sn.disk[id].metadata THEN sn.disk[id].entries ELSE {}

\* What is found of an id: at most one.
Found(sn, id) ==
  IF id \in DOMAIN sn.known THEN {sn.known[id]} ELSE IF sn.onDisk THEN Stored(sn, id) ELSE {}

\* An id that was read from disk is known again.
Learned(sn, id) ==
  IF Found(sn, id) = {} THEN sn ELSE [sn EXCEPT !.known = (id :> CHOOSE held \in Found(sn, id) : TRUE) @@ @]

\* Every entry of the snapshot is saved; no other is touched.
restore_snapshot(sn, store, id) ==
  [snapshots |-> Learned(sn, id),
   store |-> IF Found(sn, id) = {} THEN store ELSE (CHOOSE held \in Found(sn, id) : TRUE) @@ store]

\* Only the process forgets; the directory stays.
delete_snapshot(sn, id) == [sn EXCEPT !.known = Restrict(@, DOMAIN @ \ {id})]

import_snapshot(sn, id, held) == Saved([sn EXCEPT !.known = (id :> held) @@ @], id, held, 3)

\* A new process lists every directory that has its metadata, one without
\* entries as empty.
Load(sn) ==
  [sn EXCEPT !.known =
     IF sn.onDisk THEN [id \in {x \in DOMAIN sn.disk : sn.disk[x].metadata} |->
                          IF sn.disk[id].entries = {} THEN << >> ELSE CHOOSE held \in sn.disk[id].entries : TRUE]
     ELSE << >>]

list_snapshots(sn) == DOMAIN sn.known
=============================================================================
