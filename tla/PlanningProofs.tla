--------------------------- MODULE PlanningProofs ---------------------------
(***************************************************************************)
(* Proofs about the shared planning directory, for any workstreams, files  *)
(* and processes: what a rollback may delete, where the project's files    *)
(* are, and which granularity can come into force.                         *)
(***************************************************************************)
EXTENDS Planning, TLAPS

\* The command that moves files knows what it has moved: during a migration
\* the new directory holds that and nothing else, during an archiving the
\* archive holds it; while files are put back this goes on as long as every
\* move succeeds.
Moving ==
  /\ job.op = "migrate" =>
       /\ job = [op |-> "migrate", n |-> job.n, to |-> job.to, todo |-> job.todo,
                 moved |-> job.moved]
       /\ job.to \in Names /\ ws[job.to] = job.moved
  /\ job.op = "rollback" =>
       /\ job = [op |-> "rollback", to |-> job.to, moved |-> job.moved]
       /\ job.to \in Names /\ (~unrolled => ws[job.to] = job.moved)
  /\ job.op = "archive" =>
       /\ job = [op |-> "archive", n |-> job.n, active |-> job.active, moved |-> job.moved]
       /\ job.n \in Names /\ job.moved \subseteq archive
  /\ job.op = "unarchive" =>
       /\ job = [op |-> "unarchive", n |-> job.n, active |-> job.active,
                 moved |-> job.moved, dir |-> job.dir]
       /\ job.n \in Names /\ (~unrolled => archive \cap job.dir = job.moved)

FilesInv ==
  /\ ws = [n \in Names |-> ws[n]]
  /\ Moving
  /\ FilesKept

LEMMA FilesInit == Files!Init => FilesInv
BY DEF Files!Init, Files!Idle, FilesInv, Moving, FilesKept, Files!FilesKept

\* The steps of a migration and of its rollback.
LEMMA MigrateInv ==
  ASSUME FilesInv,
         Files!MigrateOne \/ Files!MigrateFails \/ Files!RollbackOne \/ Files!RollbackFails
  PROVE  FilesInv'
<1>1. CASE Files!MigrateOne
  BY <1>1 DEF FilesInv, Moving, FilesKept, Files!FilesKept, Files!MigrateOne
<1>2. CASE Files!MigrateFails
  BY <1>2 DEF FilesInv, Moving, FilesKept, Files!FilesKept, Files!MigrateFails
<1>3. CASE Files!RollbackOne
  BY <1>3 DEF FilesInv, Moving, FilesKept, Files!FilesKept, Files!RollbackOne
<1>4. CASE Files!RollbackFails
  BY <1>4 DEF FilesInv, Moving, FilesKept, Files!FilesKept, Files!RollbackFails
<1>5. QED BY <1>1, <1>2, <1>3, <1>4

\* The clean-ups: what they delete is empty, or something was not put back.
LEMMA CleanUpInv ==
  ASSUME FilesInv, NEW clean \in BOOLEAN,
         Files!RollbackEnds(clean) \/ Files!UnarchiveEnds(clean)
  PROVE  FilesInv'
<1>1. CASE Files!RollbackEnds(clean)
  BY <1>1 DEF FilesInv, Moving, FilesKept, Files!FilesKept, Files!RollbackEnds, Files!Idle
<1>2. CASE Files!UnarchiveEnds(clean)
  BY <1>2 DEF FilesInv, Moving, FilesKept, Files!FilesKept, Files!UnarchiveEnds, Files!Idle
<1>3. QED BY <1>1, <1>2

\* The steps of an archiving and of its rollback.
LEMMA ArchiveInv ==
  ASSUME FilesInv,
         Files!ArchiveOne \/ Files!ArchiveFails \/ Files!UnarchiveOne \/ Files!ArchiveDone
  PROVE  FilesInv'
<1>1. CASE Files!ArchiveOne
  BY <1>1 DEF FilesInv, Moving, FilesKept, Files!FilesKept, Files!ArchiveOne
<1>2. CASE Files!ArchiveFails
  BY <1>2 DEF FilesInv, Moving, FilesKept, Files!FilesKept, Files!ArchiveFails
<1>3. CASE Files!UnarchiveOne
  BY <1>3 DEF FilesInv, Moving, FilesKept, Files!FilesKept, Files!UnarchiveOne
<1>4. CASE Files!ArchiveDone
  BY <1>4 DEF FilesInv, Moving, FilesKept, Files!FilesKept, Files!ArchiveDone, Files!Idle
<1>5. QED BY <1>1, <1>2, <1>3, <1>4

\* The commands' first steps, and the steps that move nothing.
LEMMA CommandInv ==
  ASSUME FilesInv,
         \/ \E n, to \in Names, migrate \in BOOLEAN : Files!Create(n, migrate, to)
         \/ \E n \in Names : Files!Complete(n) \/ Files!Set(n)
         \/ Files!Set(None) \/ Files!MigrateDone \/ Files!CreateEnds \/ Files!KillCommand
         \/ Files!CreateFile("phases", "STATE") \/ Files!CreateFile("STATE", "point")
         \/ Files!RegenerateState \/ UNCHANGED filesVars
  PROVE  FilesInv'
<1>1. ASSUME NEW n \in Names, NEW to \in Names, NEW migrate \in BOOLEAN, Files!Create(n, migrate, to)
      PROVE FilesInv'
  BY <1>1 DEF FilesInv, Moving, FilesKept, Files!FilesKept, Files!Create, Files!Start, Files!Idle
<1>2. ASSUME NEW n \in Names, Files!Complete(n) PROVE FilesInv'
  BY <1>2 DEF FilesInv, Moving, FilesKept, Files!FilesKept, Files!Complete, Files!Start, Files!Idle
<1>3. ASSUME NEW n \in Names \cup {None}, Files!Set(n) PROVE FilesInv'
  BY <1>3 DEF FilesInv, Moving, FilesKept, Files!FilesKept, Files!Set, Files!Start, Files!Idle
<1>4. CASE Files!MigrateDone
  BY <1>4 DEF FilesInv, Moving, FilesKept, Files!FilesKept, Files!MigrateDone
<1>5. CASE Files!CreateEnds \/ Files!KillCommand
  BY <1>5 DEF FilesInv, Moving, FilesKept, Files!FilesKept, Files!CreateEnds, Files!KillCommand, Files!Idle
<1>6. CASE Files!CreateFile("phases", "STATE")
  BY <1>6 DEF FilesInv, Moving, FilesKept, Files!FilesKept, Files!CreateFile
<1>7. CASE Files!CreateFile("STATE", "point")
  BY <1>7 DEF FilesInv, Moving, FilesKept, Files!FilesKept, Files!CreateFile
<1>8. CASE Files!RegenerateState
  BY <1>8 DEF FilesInv, Moving, FilesKept, Files!FilesKept, Files!RegenerateState, Files!Idle
<1>9. CASE UNCHANGED filesVars
  BY <1>9 DEF FilesInv, Moving, FilesKept, Files!FilesKept, filesVars
<1>10. QED BY <1>1, <1>2, <1>3, <1>4, <1>5, <1>6, <1>7, <1>8, <1>9

\* Files are deleted only after a rollback that could not put one back, for
\* any number of workstreams, files and commands (workstream create, complete).
THEOREM FilesAreKept == Spec => []FilesKept
<1>1. Init => FilesInv  BY FilesInit DEF Init
<1>2. FilesInv /\ [Next]_vars => FilesInv'
  <2> SUFFICES ASSUME FilesInv, [Next]_vars PROVE FilesInv'  OBVIOUS
  <2>1. CASE Files!Next  BY <2>1, MigrateInv, CleanUpInv, ArchiveInv, CommandInv DEF Files!Next
  <2>2. CASE UNCHANGED filesVars  BY <2>2, CommandInv
  <2>3. ASSUME NEW p \in Procs, HealthRepair(p) PROVE FilesInv'
    BY <2>3, CommandInv DEF HealthRepair
  <2>4. CASE UNCHANGED vars  BY <2>2, <2>4 DEF vars
  <2>5. QED BY <2>1, <2>2, <2>3, <2>4 DEF Next
<1>3. FilesInv => FilesKept  BY DEF FilesInv
<1>4. QED BY <1>1, <1>2, <1>3, PTL DEF Spec

-----------------------------------------------------------------------------
(* The original files stay together. *)

\* No original in a directory.
Clear(dir) == \A f \in dir : f.id # 0
Dirs == {n \in Names : ws[n] # NoDir}

RootOnly    == Clear(archive) /\ \A n \in Dirs : Clear(ws[n])
ArchiveOnly == Clear(root) /\ \A n \in Dirs : Clear(ws[n])
StreamOnly(m) == Clear(root) /\ Clear(archive) /\ \A n \in Dirs \ {m} : Clear(ws[n])
Together == RootOnly \/ ArchiveOnly \/ \E m \in Names : StreamOnly(m)

\* While files are on the way, their old and their new directory are one
\* place.  A migration has still to visit the originals in the old directory;
\* an archiving knows those it has moved.
MigrateTogether == Clear(archive) \/ (Clear(root) /\ Clear(job.moved))
ArchiveTogether(n) ==
  \/ /\ Clear(root) /\ \A k \in Dirs \ {n} : Clear(ws[k])
     /\ \A f \in archive : f.id = 0 => f \in job.moved
  \/ Together /\ Clear(ws[n]) /\ Clear(job.moved)

\* A new workstream's directory may be the one that has the originals.
CreateTogether(n) == StreamOnly(n) \/ (Together /\ Clear(ws[n]))

OnTheWay ==
  /\ job.op = "idle" => Together
  /\ job.op \in {"phases", "STATE", "point"} => job.n \in Names /\ CreateTogether(job.n)
  /\ job.op \in {"migrate", "rollback"} =>
       /\ MigrateTogether /\ \A n \in Dirs : n = job.to
       /\ \A f \in job.moved : f.id = 0 => f.item \in Items
  /\ job.op = "migrate" =>
       job.n \in Names /\ \A f \in root : f.id = 0 => f.item \in job.todo
  /\ job.op \in {"archive", "unarchive"} => ArchiveTogether(job.n)

TogetherInv ==
  /\ made \in Nat
  /\ ~killed /\ ~unrolled =>
       /\ \A f \in root : f.id = 0 => f.item \in Items
       /\ job.op \in {"idle", "phases", "STATE", "point", "migrate", "rollback", "archive",
                      "unarchive"}
       /\ ~wsRoot => Dirs = {} /\ job.op = "idle"
       /\ OnTheWay

LEMMA TogetherInit ==
  ASSUME Files!Init
  PROVE  TogetherInv
<1>1. Dirs = {} /\ made \in Nat /\ job.op = "idle" /\ archive = {}
  BY DEF Files!Init, Files!Idle, Dirs
<1>2. PICK present \in SUBSET Items : root = {[item |-> i, id |-> 0] : i \in present}
  BY DEF Files!Init
<1>3. \A f \in root : f.item \in Items
  BY <1>2
<1>4. RootOnly
  BY <1>1 DEF RootOnly, Clear
<1> QED
  BY <1>1, <1>3, <1>4 DEF TogetherInv, OnTheWay, Together

\* A file is made that is not an original.
LEMMA NewFile ==
  ASSUME made \in Nat, NEW item, NEW dir
  PROVE  /\ Files!File(item).id # 0
         /\ Clear(dir) => Clear(dir \cup {Files!File(item)})
         /\ made + 1 \in Nat
<1>1. Files!File(item).id = made + 1
  BY DEF Files!File
<1> QED
  BY <1>1 DEF Clear

\* A step that puts no original anywhere new keeps the originals together.
LEMMA TogetherKept ==
  ASSUME Together, Clear(root) => Clear(root'), Clear(archive) => Clear(archive'),
         \A n \in Dirs' : Clear(ws'[n]) \/ (n \in Dirs /\ (Clear(ws[n]) => Clear(ws'[n])))
  PROVE  Together'
<1>1. CASE RootOnly
  <2>1. RootOnly'
    BY <1>1 DEF RootOnly, Clear
  <2> QED
    BY <2>1 DEF Together
<1>2. CASE ArchiveOnly
  <2>1. ArchiveOnly'
    BY <1>2 DEF ArchiveOnly, Clear
  <2> QED
    BY <2>1 DEF Together
<1>3. ASSUME NEW m \in Names, StreamOnly(m) PROVE Together'
  <2>1. StreamOnly(m)'
    BY <1>3 DEF StreamOnly, Clear
  <2> QED
    BY <2>1 DEF Together
<1> QED
  BY <1>1, <1>2, <1>3 DEF Together

\* A directory that was there, or is new and empty.
LEMMA MadeTogether ==
  ASSUME Together', NEW n \in Names, n \in Dirs' \/ ws'[n] = {}
  PROVE  CreateTogether(n)'
<1>1. ASSUME NEW m \in Names, StreamOnly(m)' PROVE CreateTogether(n)'
  BY <1>1 DEF StreamOnly, CreateTogether, Clear
<1>2. CASE RootOnly' \/ ArchiveOnly'
  BY <1>2 DEF RootOnly, ArchiveOnly, CreateTogether, Clear
<1> QED
  BY <1>1, <1>2 DEF Together

\* The steps of a migration.
LEMMA MigrateTogetherInv ==
  ASSUME FilesInv, TogetherInv, Files!MigrateOne
  PROVE  TogetherInv'
<1>1. PICK i \in job.todo :
        /\ root' = root \ {x \in root : x.item = i}
        /\ ws' = [ws EXCEPT ![job.to] = @ \cup {x \in root : x.item = i}]
        /\ job' = [job EXCEPT !.todo = @ \ {i}, !.moved = @ \cup {x \in root : x.item = i}]
  BY DEF Files!MigrateOne
<1>2. /\ job.op = "migrate" /\ UNCHANGED <<wsRoot, archive, made, killed, unrolled>>
      /\ job.to \in Names /\ ws[job.to] = job.moved /\ ws = [n \in Names |-> ws[n]]
      /\ job = [op |-> "migrate", n |-> job.n, to |-> job.to, todo |-> job.todo,
                moved |-> job.moved]
  BY DEF Files!MigrateOne, FilesInv, Moving
<1>3. made' \in Nat
  BY <1>2 DEF TogetherInv
<1>4. ASSUME ~killed, ~unrolled PROVE TogetherInv'
  <2>1. /\ MigrateTogether /\ \A n \in Dirs : n = job.to
        /\ \A f \in job.moved : f.id = 0 => f.item \in Items
        /\ job.n \in Names /\ \A f \in root : f.id = 0 => f.item \in job.todo
        /\ \A f \in root : f.id = 0 => f.item \in Items
        /\ wsRoot
    BY <1>2, <1>4 DEF TogetherInv, OnTheWay
  <2> DEFINE f == {x \in root : x.item = i}
  <2>2. job' = [op |-> "migrate", n |-> job.n, to |-> job.to, todo |-> job.todo \ {i},
                moved |-> job.moved \cup f]
    BY <1>1, <1>2
  <2>3. \A n \in Names : ws'[n] = IF n = job.to THEN job.moved \cup f ELSE ws[n]
    BY <1>1, <1>2
  <2>4. /\ job'.op = "migrate" /\ job'.n = job.n /\ job'.to = job.to
        /\ job'.todo = job.todo \ {i} /\ job'.moved = job.moved \cup f
    BY <2>2
  <2>5. \A n \in Dirs' : n = job'.to
    BY <2>1, <2>3, <2>4 DEF Dirs
  <2>6. MigrateTogether'
    BY <1>1, <1>2, <2>1, <2>4 DEF MigrateTogether, Clear
  <2>7. \A x \in job'.moved : x.id = 0 => x.item \in Items
    BY <2>1, <2>4
  <2>8. \A x \in root' : x.id = 0 => x.item \in job'.todo
    BY <1>1, <2>1, <2>4
  <2> QED
    BY <1>1, <1>2, <1>3, <2>1, <2>4, <2>5, <2>6, <2>7, <2>8 DEF TogetherInv, OnTheWay
<1> QED
  BY <1>2, <1>3, <1>4 DEF TogetherInv

LEMMA MigrateDoneInv ==
  ASSUME FilesInv, TogetherInv, Files!MigrateDone
  PROVE  TogetherInv'
<1>1. /\ job.op = "migrate" /\ job.todo = {} /\ job.to \in Names /\ ws[job.to] = job.moved
      /\ UNCHANGED <<root, wsRoot, archive, made, killed, unrolled>>
      /\ ws' = [ws EXCEPT ![job.n] = IF @ = NoDir THEN {} ELSE @]
      /\ job' = [op |-> "phases", n |-> job.n] /\ ws = [n \in Names |-> ws[n]]
  BY DEF Files!MigrateDone, FilesInv, Moving
<1>2. job'.op = "phases" /\ job'.n = job.n
  BY <1>1
<1>3. ASSUME ~killed, ~unrolled PROVE TogetherInv'
  <2>1. /\ MigrateTogether /\ \A n \in Dirs : n = job.to
        /\ job.n \in Names /\ wsRoot /\ \A f \in root : f.id # 0 /\ (f.id = 0 => f.item \in Items)
    BY <1>1, <1>3 DEF TogetherInv, OnTheWay
  <2>2. \A n \in Names : ws'[n] = IF n = job.n /\ ws[n] = NoDir THEN {} ELSE ws[n]
    BY <1>1, <2>1
  <2>3. \A n \in Dirs' : n = job.to \/ Clear(ws'[n])
    BY <2>1, <2>2 DEF Dirs, Clear
  <2>6. ASSUME Together' PROVE TogetherInv'
    <3>1. PICK k \in Names : k = job.n
      BY <2>1
    <3>2. k \in Dirs' \/ ws'[k] = {}
      BY <2>2, <3>1 DEF Dirs
    <3>3. CreateTogether(k)'
      BY <2>6, <3>2, MadeTogether
    <3> QED
      BY <1>1, <1>2, <2>1, <3>1, <3>3 DEF TogetherInv, OnTheWay
  <2>4. CASE Clear(archive)
    <3>0. PICK m \in Names : m = job.to
      BY <1>1
    <3>1. StreamOnly(m)'
      BY <1>1, <2>1, <2>3, <2>4, <3>0 DEF StreamOnly, Clear
    <3>2. Together'
      BY <3>1 DEF Together
    <3> QED
      BY <2>6, <3>2
  <2>5. CASE Clear(job.moved)
    <3>1. ArchiveOnly'
      <4>1. \A n \in Dirs' : Clear(ws'[n])
        BY <1>1, <2>2, <2>3, <2>5 DEF Clear
      <4> QED
        BY <1>1, <2>1, <4>1 DEF ArchiveOnly, Clear
    <3>2. Together'
      BY <3>1 DEF Together
    <3> QED
      BY <2>6, <3>2
  <2> QED
    BY <2>1, <2>4, <2>5 DEF MigrateTogether
<1> QED
  BY <1>1, <1>3 DEF TogetherInv

\* A move of the migration fails, and the files are put back.
LEMMA RollbackTogetherInv ==
  ASSUME FilesInv, TogetherInv,
         Files!MigrateFails \/ Files!RollbackOne \/ \E clean \in BOOLEAN : Files!RollbackEnds(clean)
  PROVE  TogetherInv'
<1>0. made \in Nat
      /\ (~killed /\ ~unrolled => \A f \in root : f.id = 0 => f.item \in Items)
  BY DEF TogetherInv
<1>1. CASE Files!MigrateFails
  <2>1. /\ job.op = "migrate" /\ UNCHANGED <<root, ws, wsRoot, archive, made, killed, unrolled>>
        /\ job' = [op |-> "rollback", to |-> job.to, moved |-> job.moved]
    BY <1>1 DEF Files!MigrateFails
  <2>2. job'.op = "rollback" /\ job'.to = job.to /\ job'.moved = job.moved
    BY <2>1
  <2> QED
    BY <2>1, <2>2 DEF TogetherInv, OnTheWay, MigrateTogether, Clear, Dirs
<1>2. CASE Files!RollbackOne
  <2>1. PICK f \in job.moved :
          /\ root' = root \cup {f} /\ ws' = [ws EXCEPT ![job.to] = @ \ {f}]
          /\ job' = [job EXCEPT !.moved = @ \ {f}]
    BY <1>2 DEF Files!RollbackOne
  <2>2. /\ job.op = "rollback" /\ UNCHANGED <<wsRoot, archive, made, killed, unrolled>>
        /\ job = [op |-> "rollback", to |-> job.to, moved |-> job.moved]
        /\ job.to \in Names /\ ws = [n \in Names |-> ws[n]]
    BY <1>2 DEF Files!RollbackOne, FilesInv, Moving
  <2>3. job'.op = "rollback" /\ job'.to = job.to /\ job'.moved = job.moved \ {f}
    BY <2>1, <2>2
  <2>4. \A n \in Names : n # job.to => ws'[n] = ws[n]
    BY <2>1, <2>2
  <2>5. ASSUME ~killed, ~unrolled PROVE TogetherInv'
    <3>1. /\ MigrateTogether /\ \A n \in Dirs : n = job.to
          /\ \A x \in job.moved : x.id = 0 => x.item \in Items
          /\ wsRoot
      BY <2>2, <2>5 DEF TogetherInv, OnTheWay
    <3>2. MigrateTogether'
      BY <2>1, <2>2, <2>3, <3>1 DEF MigrateTogether, Clear
    <3>3. \A n \in Dirs' : n = job.to
      BY <2>4, <3>1 DEF Dirs
    <3> QED
      BY <1>0, <2>1, <2>2, <2>3, <3>1, <3>2, <3>3 DEF TogetherInv, OnTheWay
  <2>6. ASSUME killed \/ unrolled PROVE TogetherInv'
    BY <1>0, <2>1, <2>2, <2>6 DEF TogetherInv
  <2> QED
    BY <2>5, <2>6
<1>3. ASSUME NEW clean \in BOOLEAN, Files!RollbackEnds(clean) PROVE TogetherInv'
  <2>1. /\ job.op = "rollback" /\ job.moved = {} /\ UNCHANGED <<root, archive, made, killed>>
        /\ job' = Files!Idle /\ job.to \in Names /\ (unrolled => unrolled')
        /\ ~unrolled => ws[job.to] = {}
        /\ unrolled' \/ (ws' = [ws EXCEPT ![job.to] = NoDir] /\ wsRoot' = FALSE)
        /\ ws = [n \in Names |-> ws[n]]
    BY <1>3 DEF Files!RollbackEnds, FilesInv, Moving
  <2>2. job'.op = "idle"
    BY <2>1 DEF Files!Idle
  <2>3. ASSUME ~killed, ~unrolled' PROVE TogetherInv'
    <3>1. MigrateTogether /\ \A n \in Dirs : n = job.to
      BY <2>1, <2>3 DEF TogetherInv, OnTheWay
    <3>2. Dirs' = {}
      BY <2>1, <2>3, <3>1 DEF Dirs
    <3>3. Together'
      BY <2>1, <3>1, <3>2 DEF Together, MigrateTogether, RootOnly, ArchiveOnly, Clear
    <3> QED
      BY <1>0, <2>1, <2>2, <3>2, <3>3 DEF TogetherInv, OnTheWay
  <2> QED
    BY <1>0, <2>1, <2>3 DEF TogetherInv
<1> QED
  BY <1>1, <1>2, <1>3

\* workstream create starts: with a migration, or with the directory.
LEMMA CreateTogetherInv ==
  ASSUME FilesInv, TogetherInv, NEW n \in Names, NEW to \in Names, NEW migrate \in BOOLEAN,
         Files!Create(n, migrate, to)
  PROVE  TogetherInv'
<1>1. /\ job.op = "idle" /\ wsRoot' = TRUE /\ UNCHANGED <<root, archive, made, killed, unrolled>>
      /\ ws = [k \in Names |-> ws[k]]
      /\ \/ /\ ~wsRoot /\ ws' = [ws EXCEPT ![to] = {}]
            /\ job' = [op |-> "migrate", n |-> n, to |-> to, todo |-> Items, moved |-> {}]
         \/ /\ ws' = [ws EXCEPT ![n] = IF @ = NoDir THEN {} ELSE @]
            /\ job' = [op |-> "phases", n |-> n]
  BY DEF Files!Create, Files!Start, Files!Idle, FilesInv
<1>2. made' \in Nat
  BY <1>1 DEF TogetherInv
<1>3. ASSUME ~killed, ~unrolled PROVE TogetherInv'
  <2>1. /\ Together /\ (~wsRoot => Dirs = {}) /\ \A f \in root : f.id = 0 => f.item \in Items
    BY <1>1, <1>3 DEF TogetherInv, OnTheWay
  <2>2. CASE /\ ~wsRoot /\ ws' = [ws EXCEPT ![to] = {}]
             /\ job' = [op |-> "migrate", n |-> n, to |-> to, todo |-> Items, moved |-> {}]
    <3>1. /\ job'.op = "migrate" /\ job'.n = n /\ job'.to = to /\ job'.todo = Items
          /\ job'.moved = {}
      BY <2>2
    <3>2. \A k \in Dirs' : k = to
      BY <1>1, <2>1, <2>2 DEF Dirs
    <3>3. MigrateTogether'
      BY <1>1, <2>1, <3>1
      DEF MigrateTogether, Together, RootOnly, ArchiveOnly, StreamOnly, Clear
    <3> QED
      BY <1>1, <1>2, <2>1, <3>1, <3>2, <3>3 DEF TogetherInv, OnTheWay
  <2>3. CASE /\ ws' = [ws EXCEPT ![n] = IF @ = NoDir THEN {} ELSE @]
             /\ job' = [op |-> "phases", n |-> n]
    <3>1. job'.op = "phases" /\ job'.n = n
      BY <2>3
    <3>2. \A k \in Names : ws'[k] = IF k = n /\ ws[k] = NoDir THEN {} ELSE ws[k]
      BY <1>1, <2>3
    <3>3. \A k \in Dirs' : Clear(ws'[k]) \/ (k \in Dirs /\ ws'[k] = ws[k])
      BY <3>2 DEF Dirs, Clear
    <3>4. Together'
      BY <1>1, <2>1, <3>3, TogetherKept
    <3>5. CreateTogether(n)'
      BY <3>2, <3>4, MadeTogether DEF Dirs
    <3> QED
      BY <1>1, <1>2, <2>1, <3>1, <3>5 DEF TogetherInv, OnTheWay
  <2> QED
    BY <1>1, <2>2, <2>3
<1> QED
  BY <1>1, <1>2, <1>3 DEF TogetherInv

\* phases/ and STATE.md are made.
LEMMA CreateFileTogetherInv ==
  ASSUME FilesInv, TogetherInv, NEW item \in {"phases", "STATE"}, NEW next \in {"STATE", "point"},
         Files!CreateFile(item, next)
  PROVE  TogetherInv'
<1>1. /\ job.op = item /\ UNCHANGED <<root, wsRoot, archive, killed, unrolled>>
      /\ job' = [op |-> next, n |-> job.n] /\ ws = [k \in Names |-> ws[k]] /\ made \in Nat
      /\ \/ UNCHANGED <<ws, made>>
         \/ ws' = [ws EXCEPT ![job.n] = @ \cup {Files!File(item)}] /\ made' = made + 1
  BY DEF Files!CreateFile, FilesInv, TogetherInv
<1>2. made' \in Nat
  BY <1>1
<1>3. job'.op = next /\ job'.n = job.n
  BY <1>1
<1>4. ASSUME ~killed, ~unrolled PROVE TogetherInv'
  <2>1. /\ CreateTogether(job.n) /\ wsRoot /\ \A f \in root : f.id = 0 => f.item \in Items
        /\ job.n \in Names
    BY <1>1, <1>4 DEF TogetherInv, OnTheWay
  <2>2. PICK m \in Names : m = job.n
    BY <2>1
  <2>3. Clear(ws[m]) => Clear(ws[m] \cup {Files!File(item)})
    BY <1>1, NewFile
  <2>4. \A k \in Names \ {m} : ws'[k] = ws[k]
    BY <1>1, <2>2
  <2>5. Clear(ws[m]) => Clear(ws'[m])
    BY <1>1, <2>2, <2>3
  <2>6. CreateTogether(m)'
    <3>1. CASE StreamOnly(m)
      <4>1. StreamOnly(m)'
        BY <1>1, <2>4, <3>1 DEF StreamOnly, Clear, Dirs
      <4> QED
        BY <4>1 DEF CreateTogether
    <3>2. CASE Together /\ Clear(ws[m])
      <4>1. \A k \in Dirs' : Clear(ws'[k]) \/ (k \in Dirs /\ ws'[k] = ws[k])
        BY <2>4, <2>5, <3>2 DEF Dirs
      <4>2. Together'
        BY <1>1, <3>2, <4>1, TogetherKept
      <4> QED
        BY <2>5, <3>2, <4>2 DEF CreateTogether, Clear
    <3> QED
      BY <2>1, <2>2, <3>1, <3>2 DEF CreateTogether
  <2> QED
    BY <1>1, <1>2, <1>3, <2>1, <2>2, <2>6 DEF TogetherInv, OnTheWay
<1> QED
  BY <1>1, <1>2, <1>4 DEF TogetherInv

\* The command ends, another one moves the pointer or clears it, or nothing
\* happens to the files.
LEMMA PointerTogetherInv ==
  ASSUME FilesInv, TogetherInv,
         \/ Files!CreateEnds \/ (\E n \in Names \cup {None} : Files!Set(n)) \/ UNCHANGED filesVars
         \/ Files!KillCommand \/ Files!RollbackFails
  PROVE  TogetherInv'
<1>0. made \in Nat
  BY DEF TogetherInv
<1>1. CASE Files!CreateEnds
  <2>1. /\ job.op = "point" /\ UNCHANGED <<root, ws, wsRoot, archive, made, killed, unrolled>>
        /\ job'.op = "idle"
    BY <1>1 DEF Files!CreateEnds, Files!Idle
  <2>2. ASSUME ~killed, ~unrolled PROVE TogetherInv'
    <3>1. /\ job.n \in Names /\ CreateTogether(job.n) /\ wsRoot
          /\ \A f \in root : f.id = 0 => f.item \in Items
      BY <2>1, <2>2 DEF TogetherInv, OnTheWay
    <3>2. Together
      BY <3>1 DEF CreateTogether, Together
    <3>3. Together'
      BY <2>1, <3>2 DEF Together, RootOnly, ArchiveOnly, StreamOnly, Clear, Dirs
    <3> QED
      BY <1>0, <2>1, <3>1, <3>3 DEF TogetherInv, OnTheWay
  <2> QED
    BY <1>0, <2>1, <2>2 DEF TogetherInv
<1>2. CASE (\E n \in Names \cup {None} : Files!Set(n)) \/ UNCHANGED filesVars
  <2>1. UNCHANGED <<root, ws, wsRoot, archive, made, killed, unrolled, job>>
    BY <1>2 DEF Files!Set, filesVars
  <2> QED
    BY <2>1 DEF TogetherInv, OnTheWay, Together, RootOnly, ArchiveOnly, StreamOnly, Clear, Dirs,
                CreateTogether, MigrateTogether, ArchiveTogether
<1>3. CASE Files!KillCommand \/ Files!RollbackFails
  BY <1>0, <1>3 DEF Files!KillCommand, Files!RollbackFails, TogetherInv
<1> QED
  BY <1>1, <1>2, <1>3

\* workstream complete: the originals are in the directory to archive, or
\* the files to move are none of them.
LEMMA CompleteTogetherInv ==
  ASSUME FilesInv, TogetherInv, NEW n \in Names, Files!Complete(n)
  PROVE  TogetherInv'
<1>1. /\ job.op = "idle" /\ n \in Dirs
      /\ UNCHANGED <<root, ws, wsRoot, archive, made, killed, unrolled>>
      /\ job'.op = "archive" /\ job'.n = n /\ job'.moved = {}
  BY DEF Files!Complete, Files!Start, Files!Idle, Dirs
<1>2. ASSUME ~killed, ~unrolled PROVE TogetherInv'
  <2>1. /\ Together /\ wsRoot /\ \A f \in root : f.id = 0 => f.item \in Items
    BY <1>1, <1>2 DEF TogetherInv, OnTheWay
  <2>2. ArchiveTogether(n)'
    <3>1. CASE StreamOnly(n)
      BY <1>1, <3>1 DEF StreamOnly, ArchiveTogether, Clear, Dirs
    <3>2. CASE ~StreamOnly(n)
      <4>1. Clear(ws[n])
        BY <1>1, <2>1, <3>2 DEF Together, RootOnly, ArchiveOnly, StreamOnly
      <4>2. Together'
        BY <1>1, <2>1 DEF Together, RootOnly, ArchiveOnly, StreamOnly, Clear, Dirs
      <4> QED
        BY <1>1, <4>1, <4>2 DEF ArchiveTogether, Clear
    <3> QED
      BY <3>1, <3>2
  <2> QED
    BY <1>1, <2>1, <2>2 DEF TogetherInv, OnTheWay
<1> QED
  BY <1>1, <1>2 DEF TogetherInv

\* A file goes to the archive or comes back from it.
LEMMA ArchiveTogetherInv ==
  ASSUME FilesInv, TogetherInv, Files!ArchiveOne \/ Files!ArchiveFails \/ Files!UnarchiveOne
  PROVE  TogetherInv'
<1>1. /\ made \in Nat /\ job.op \in {"archive", "unarchive"} /\ job.n \in Names
      /\ UNCHANGED <<root, wsRoot, made, killed, unrolled>>
      /\ ws = [n \in Names |-> ws[n]]
  BY DEF Files!ArchiveOne, Files!ArchiveFails, Files!UnarchiveOne, FilesInv, Moving, TogetherInv
<1>2. PICK n \in Names : n = job.n
  BY <1>1
<1>3. job'.op \in {"archive", "unarchive"} /\ job'.n = n
  BY <1>2 DEF Files!ArchiveOne, Files!ArchiveFails, Files!UnarchiveOne, FilesInv, Moving
<1>4. \E x : \/ /\ ws' = [ws EXCEPT ![n] = @ \ {x}] /\ archive' = archive \cup {x}
                /\ job'.moved = job.moved \cup {x} /\ x \in ws[n]
             \/ /\ ws' = [ws EXCEPT ![n] = @ \cup {x}] /\ archive' = archive \ {x}
                /\ job'.moved = job.moved \ {x} /\ x \in job.moved
             \/ UNCHANGED <<ws, archive>> /\ job'.moved = job.moved
  <2>1. CASE Files!ArchiveOne
    BY <1>2, <2>1 DEF Files!ArchiveOne, FilesInv, Moving
  <2>2. CASE Files!ArchiveFails
    BY <2>2 DEF Files!ArchiveFails
  <2>3. CASE Files!UnarchiveOne
    BY <1>2, <2>3 DEF Files!UnarchiveOne, FilesInv, Moving
  <2> QED
    BY <2>1, <2>2, <2>3
<1>5. \A k \in Names \ {n} : ws'[k] = ws[k]
  BY <1>1, <1>4
<1>6. ASSUME ~killed, ~unrolled PROVE TogetherInv'
  <2>1. ArchiveTogether(n) /\ wsRoot /\ \A f \in root : f.id = 0 => f.item \in Items
    BY <1>1, <1>2, <1>6 DEF TogetherInv, OnTheWay
  <2>2. ArchiveTogether(n)'
    <3>1. CASE /\ Clear(root) /\ \A k \in Dirs \ {n} : Clear(ws[k])
               /\ \A f \in archive : f.id = 0 => f \in job.moved
      <4>1. \A f \in archive' : f.id = 0 => f \in job'.moved
        BY <1>4, <3>1
      <4>2. \A k \in Dirs' \ {n} : Clear(ws'[k])
        BY <1>5, <3>1 DEF Dirs
      <4> QED
        BY <1>1, <3>1, <4>1, <4>2 DEF ArchiveTogether, Clear
    <3>2. CASE Together /\ Clear(ws[n]) /\ Clear(job.moved)
      <4>1. Clear(ws'[n]) /\ Clear(job'.moved) /\ (Clear(archive) => Clear(archive'))
        BY <1>1, <1>4, <3>2 DEF Clear
      <4>2. \A k \in Dirs' : Clear(ws'[k]) \/ (k \in Dirs /\ ws'[k] = ws[k])
        BY <1>5, <4>1 DEF Dirs
      <4>3. Together'
        BY <1>1, <3>2, <4>1, <4>2, TogetherKept
      <4> QED
        BY <4>1, <4>3 DEF ArchiveTogether, Clear
    <3> QED
      BY <2>1, <3>1, <3>2 DEF ArchiveTogether
  <2> QED
    BY <1>1, <1>3, <2>1, <2>2 DEF TogetherInv, OnTheWay
<1> QED
  BY <1>1, <1>6 DEF TogetherInv

\* An archiving ends: the directory is empty, or everything was put back.
LEMMA ArchiveEndsTogetherInv ==
  ASSUME FilesInv, TogetherInv,
         Files!ArchiveDone \/ \E clean \in BOOLEAN : Files!UnarchiveEnds(clean)
  PROVE  TogetherInv'
<1>1. /\ made \in Nat /\ job.op \in {"archive", "unarchive"} /\ job.n \in Names
      /\ UNCHANGED <<root, made, killed, unrolled>>
      /\ ws = [n \in Names |-> ws[n]] /\ job'.op = "idle"
  <2>1. CASE Files!ArchiveDone
    BY <2>1 DEF Files!ArchiveDone, Files!Idle, FilesInv, Moving, TogetherInv
  <2>2. ASSUME NEW clean \in BOOLEAN, Files!UnarchiveEnds(clean)
        PROVE  /\ job.op = "unarchive" /\ job' = Files!Idle
               /\ UNCHANGED <<root, made, killed, unrolled>>
    BY <2>2 DEF Files!UnarchiveEnds
  <2> QED
    BY <2>1, <2>2 DEF Files!Idle, FilesInv, Moving, TogetherInv
<1>2. PICK n \in Names : n = job.n
  BY <1>1
<1>3. ASSUME ~killed, ~unrolled PROVE TogetherInv'
  <2>1. ArchiveTogether(n) /\ wsRoot /\ \A f \in root : f.id = 0 => f.item \in Items
    BY <1>1, <1>2, <1>3 DEF TogetherInv, OnTheWay
  <2>2. CASE Files!ArchiveDone
    <3>1. /\ ws[n] = {} /\ ws' = [ws EXCEPT ![n] = NoDir] /\ archive' = archive
          /\ wsRoot' = \E k \in Names \ {n} : ws[k] # NoDir
      BY <1>2, <2>2 DEF Files!ArchiveDone
    <3>2. \A k \in Dirs' : k \in Dirs \ {n} /\ ws'[k] = ws[k]
      BY <1>1, <3>1 DEF Dirs
    <3>3. ~wsRoot' => Dirs' = {}
      BY <3>1, <3>2 DEF Dirs
    <3>4. Together'
      <4>1. CASE Clear(root) /\ \A k \in Dirs \ {n} : Clear(ws[k])
        <5>1. ArchiveOnly'
          BY <1>1, <3>2, <4>1 DEF ArchiveOnly, Clear
        <5> QED
          BY <5>1 DEF Together
      <4>2. CASE Together
        BY <1>1, <3>1, <3>2, <4>2, TogetherKept
      <4> QED
        BY <2>1, <4>1, <4>2 DEF ArchiveTogether
    <3> QED
      BY <1>1, <2>1, <3>3, <3>4 DEF TogetherInv, OnTheWay
  <2>3. ASSUME NEW clean \in BOOLEAN, Files!UnarchiveEnds(clean) PROVE TogetherInv'
    <3>1. /\ job.moved = {} /\ UNCHANGED <<ws, wsRoot>> /\ archive' = archive
      BY <1>3, <2>3 DEF Files!UnarchiveEnds, FilesInv, Moving
    <3>2. Together'
      <4>1. CASE /\ Clear(root) /\ \A k \in Dirs \ {n} : Clear(ws[k])
                 /\ \A f \in archive : f.id = 0 => f \in job.moved
        <5>1. StreamOnly(n)'
          BY <1>1, <3>1, <4>1 DEF StreamOnly, Clear, Dirs
        <5> QED
          BY <5>1 DEF Together
      <4>2. CASE Together
        BY <1>1, <3>1, <4>2 DEF Together, RootOnly, ArchiveOnly, StreamOnly, Clear, Dirs
      <4> QED
        BY <2>1, <4>1, <4>2 DEF ArchiveTogether
    <3> QED
      BY <1>1, <2>1, <3>1, <3>2 DEF TogetherInv, OnTheWay
  <2> QED
    BY <2>2, <2>3
<1> QED
  BY <1>1, <1>3 DEF TogetherInv

\* validate health --repair makes a STATE.md where the active workstream is.
LEMMA RegenerateTogetherInv ==
  ASSUME FilesInv, TogetherInv, Files!RegenerateState
  PROVE  TogetherInv'
<1>1. /\ made \in Nat /\ job.op = "idle" /\ ws = [n \in Names |-> ws[n]]
      /\ UNCHANGED <<wsRoot, archive, job, killed, unrolled>>
      /\ \/ UNCHANGED <<root, ws, made>>
         \/ root' = root \cup {Files!File("STATE")} /\ ws' = ws /\ made' = made + 1
         \/ /\ ws' = [ws EXCEPT ![Files!Active] = @ \cup {Files!File("STATE")}]
            /\ root' = root /\ made' = made + 1 /\ Files!Active # None
  BY DEF Files!RegenerateState, Files!Idle, FilesInv, TogetherInv
<1>2. made' \in Nat
  BY <1>1
<1>3. \A dir : Clear(dir) => Clear(dir \cup {Files!File("STATE")})
  BY <1>1, NewFile
<1>4. ASSUME ~killed, ~unrolled PROVE TogetherInv'
  <2>1. /\ Together /\ (~wsRoot => Dirs = {}) /\ \A f \in root : f.id = 0 => f.item \in Items
    BY <1>1, <1>4 DEF TogetherInv, OnTheWay
  <2>2. /\ \A n \in Names : ws'[n] = ws[n] \/ (ws[n] # NoDir /\ ws'[n] = ws[n] \cup {Files!File("STATE")})
    BY <1>1 DEF Files!Active
  <2>3. \A n \in Dirs' : n \in Dirs /\ (Clear(ws[n]) => Clear(ws'[n]))
    BY <1>3, <2>2 DEF Dirs
  <2>4. Clear(root) => Clear(root')
    BY <1>1, <1>3
  <2>5. Together'
    BY <1>1, <2>1, <2>3, <2>4, TogetherKept
  <2>6. \A f \in root' : f.id = 0 => f.item \in Items
    <3>1. Files!File("STATE").id # 0
      BY <1>1, NewFile
    <3> QED
      BY <1>1, <2>1, <3>1
  <2> QED
    BY <1>1, <1>2, <2>1, <2>3, <2>5, <2>6 DEF TogetherInv, OnTheWay
<1> QED
  BY <1>1, <1>2, <1>4 DEF TogetherInv

\* A migration or an archiving that fails leaves the project's original files
\* in one directory, whatever commands ran before, unless one was killed or a
\* rollback failed (migrateToWorkstreams and cmdWorkstreamComplete).
THEOREM OriginalsStayTogether == Spec => []NotSplit
<1>1. Init => FilesInv /\ TogetherInv
  BY FilesInit, TogetherInit DEF Init
<1>2. FilesInv /\ TogetherInv /\ [Next]_vars => (FilesInv /\ TogetherInv)'
  <2> SUFFICES ASSUME FilesInv, TogetherInv, [Next]_vars PROVE FilesInv' /\ TogetherInv'
    OBVIOUS
  <2>1. CASE Files!Next
    <3>1. FilesInv'
      BY <2>1, MigrateInv, CleanUpInv, ArchiveInv, CommandInv DEF Files!Next
    <3>2. TogetherInv'
      BY <2>1, CreateTogetherInv, CompleteTogetherInv, PointerTogetherInv, MigrateTogetherInv,
         RollbackTogetherInv, MigrateDoneInv, CreateFileTogetherInv, ArchiveTogetherInv,
         ArchiveEndsTogetherInv DEF Files!Next
    <3> QED
      BY <3>1, <3>2
  <2>2. CASE UNCHANGED filesVars
    BY <2>2, CommandInv, PointerTogetherInv
  <2>3. ASSUME NEW p \in Procs, HealthRepair(p) PROVE FilesInv' /\ TogetherInv'
    BY <2>3, CommandInv, RegenerateTogetherInv DEF HealthRepair
  <2>4. CASE UNCHANGED vars
    BY <2>2, <2>4 DEF vars
  <2> QED
    BY <2>1, <2>2, <2>3, <2>4 DEF Next
<1>3. TogetherInv => NotSplit
  <2>1. TogetherInv /\ job = Files!Idle /\ ~killed /\ ~unrolled => Together
    BY DEF TogetherInv, OnTheWay, Files!Idle
  <2>2. Together => \A c, d \in {root, archive} \cup {ws[n] : n \in {m \in Names : ws[m] # NoDir}} :
                      Clear(c) \/ Clear(d) \/ c = d
    BY DEF Together, RootOnly, ArchiveOnly, StreamOnly, Dirs
  <2> QED
    BY <2>1, <2>2 DEF NotSplit, Files!NotSplit, Clear
<1>4. QED
  BY <1>1, <1>2, <1>3, PTL DEF Spec

-----------------------------------------------------------------------------
(* The configuration. *)

\* The granularity a text puts in force is genuine.
Genuine(c, set, start, none) ==
  Config!Effective(c) \in set \cup {start} \cup (IF none THEN {None} ELSE {})

\* Not only the file is genuine but every text a process is going to write;
\* and a file can only be missing if it was so from the start.
ConfigInv ==
  /\ config \in Config!Settings \cup {Missing, Torn}
  /\ blank \in BOOLEAN
  /\ cpc \in [Procs -> {"idle", "migrate", "migrating", "truncate", "fill"}]
  /\ cbuf \in [Procs -> Config!Settings \cup {Missing}]
  /\ \A p \in Procs : cpc[p] # "idle" => cbuf[p] \in Config!Settings
  /\ repos \subseteq Repos
  /\ config = Missing => blank
  /\ config \in Config!Settings => Genuine(config, asked, first, blank)
  /\ \A p \in Procs : cbuf[p] \in Config!Settings => Genuine(cbuf[p], asked, first, blank)

\* The migrations of loadConfig keep the type and the granularity in force.
LEMMA MigrationKeeps ==
  ASSUME NEW c \in Config!Settings, repos \subseteq Repos
  PROVE  /\ Config!MigrateDepth(c) \in Config!Settings
         /\ Config!Effective(Config!MigrateDepth(c)) = Config!Effective(c)
         /\ Config!SyncRepos(c) \in Config!Settings
         /\ Config!Effective(Config!SyncRepos(c)) = Config!Effective(c)
<1>1. /\ Config!MigrateDepth(c) \in Config!Settings
      /\ Config!Effective(Config!MigrateDepth(c)) = Config!Effective(c)
  BY MarksAssumption
  DEF Config!MigrateDepth, Config!Settings, Config!Effective, Config!depthToGranularity,
      Config!Depths, Config!Granularities
<1>2. /\ Config!SyncRepos(c) \in Config!Settings
      /\ Config!SyncRepos(c).depth = c.depth
      /\ Config!SyncRepos(c).granularity = c.granularity
  BY DEF Config!SyncRepos, Config!Settings
<1>3. QED BY <1>1, <1>2 DEF Config!Effective

LEMMA NewSettings ==
  /\ Config!Nothing \in Config!Settings
  /\ Config!Effective(Config!Nothing) = None
  /\ \A g \in Config!Granularities \cup {None} :
        Config!Fresh(g) \in Config!Settings /\ Config!Effective(Config!Fresh(g)) = g
  /\ \A d \in Config!Depths, m \in BOOLEAN : Config!Old(d, m) \in Config!Settings
BY DEF Config!Nothing, Config!Fresh, Config!Old, Config!Settings, Config!Effective

LEMMA ConfigInit == Config!Init => ConfigInv
<1> SUFFICES ASSUME Config!Init PROVE ConfigInv  OBVIOUS
<1>1. config \in Config!Settings \cup {Missing}
  BY NewSettings DEF Config!Init, Config!Depths, Config!Granularities
<1>2. config \in Config!Settings => Genuine(config, asked, first, blank)
  BY MarksAssumption DEF Config!Init, Genuine
<1>3. cbuf = [p \in Procs |-> Missing] /\ cpc = [p \in Procs |-> "idle"]  BY DEF Config!Init
<1>4. repos \subseteq Repos /\ blank \in BOOLEAN /\ (config = Missing => blank)
  <2>1. repos \subseteq Repos  BY DEF Config!Init
  <2>2. blank = (config = Missing)  BY Zenon DEF Config!Init
  <2>3. QED BY <2>1, <2>2, Zenon
<1>5. QED BY <1>1, <1>2, <1>3, <1>4, MarksAssumption DEF ConfigInv

\* A process starts to write a genuine text, and nothing is forgotten.
LEMMA RewriteInv ==
  ASSUME ConfigInv, NEW p \in Procs, NEW c \in Config!Settings,
         NEW at \in {"migrate", "truncate"},
         cpc' = [cpc EXCEPT ![p] = at], cbuf' = [cbuf EXCEPT ![p] = c],
         UNCHANGED <<repos, first>>, config' \in {config, cbuf[p]}, cpc[p] = "idle" => config' = config,
         asked \subseteq asked', blank => blank',
         blank' \in BOOLEAN, Genuine(c, asked', first', blank')
  PROVE  ConfigInv'
<1>1. /\ cpc' = [cpc EXCEPT ![p] = at]
      /\ cbuf' = [cbuf EXCEPT ![p] = c]
  OBVIOUS
<1>2. \A d : Genuine(d, asked, first, blank) => Genuine(d, asked', first', blank')
  BY DEF Genuine, ConfigInv
<1>3. cpc' \in [Procs -> {"idle", "migrate", "migrating", "truncate", "fill"}]
      /\ cbuf' \in [Procs -> Config!Settings \cup {Missing}]
  BY <1>1 DEF ConfigInv
<1>4. \A q \in Procs : /\ cpc'[q] # "idle" => cbuf'[q] \in Config!Settings
                       /\ cbuf'[q] \in Config!Settings => Genuine(cbuf'[q], asked', first', blank')
  BY <1>1, <1>2 DEF ConfigInv
<1>5. /\ config' \in Config!Settings \cup {Missing, Torn} /\ (config' = Missing => blank')
      /\ config' \in Config!Settings => Genuine(config', asked', first', blank')
  BY <1>2, MarksAssumption DEF ConfigInv
<1>6. QED BY <1>3, <1>4, <1>5 DEF ConfigInv

\* The commands that rewrite the configuration.
LEMMA ConfigCommandInv ==
  ASSUME ConfigInv, NEW p \in Procs,
         \/ Config!loadConfig(p) \/ Config!setConfigValue(p) \/ Config!RepairConfig(p)
         \/ \E g \in {"standard", "fine"} : Config!ConfigSet(p, g)
         \/ \E g \in {"standard", "fine", None} : Config!NewProject(p, g)
  PROVE  ConfigInv'
<1>0. /\ blank \in BOOLEAN /\ repos \subseteq Repos
      /\ config \in Config!Settings \cup {Missing, Torn} /\ (config = Missing => blank)
      /\ config \in Config!Settings => Genuine(config, asked, first, blank)
  BY DEF ConfigInv
<1>1. CASE Config!loadConfig(p)
  <2>1. config \in Config!Settings /\ UNCHANGED <<config, repos, first, asked, blank>>
    BY <1>0, <1>1 DEF Config!loadConfig
  <2>2. ASSUME NEW c \in {Config!MigrateDepth(config), Config!SyncRepos(config)}
        PROVE  c \in Config!Settings /\ Genuine(c, asked', first', blank')
    BY <1>0, <2>1, MigrationKeeps DEF Genuine
  <2>3. PICK c \in {Config!MigrateDepth(config), Config!SyncRepos(config)},
             at \in {"migrate", "truncate"} :
          cpc' = [cpc EXCEPT ![p] = at] /\ cbuf' = [cbuf EXCEPT ![p] = c]
    BY <1>1 DEF Config!loadConfig, Config!Rewrite
  <2>4. QED BY <1>0, <2>1, <2>2, <2>3, RewriteInv
<1>2. CASE Config!setConfigValue(p)
  <2> DEFINE b == IF config = Missing THEN Config!Nothing ELSE config
             c == [b EXCEPT !.nyquist = TRUE]
  <2>1. b \in Config!Settings /\ Genuine(b, asked, first, blank)
    BY <1>0, <1>2, NewSettings DEF Config!setConfigValue, Genuine
  <2>2. Config!Rewrite(p, c) /\ UNCHANGED <<config, repos, first, asked, blank>>
    BY <1>2 DEF Config!setConfigValue
  <2> HIDE DEF b
  <2>3. c \in Config!Settings /\ Genuine(c, asked, first, blank)
    BY <2>1 DEF Config!Settings, Config!Effective, Genuine
  <2> HIDE DEF c
  <2>4. QED BY <1>0, <2>2, <2>3, RewriteInv DEF Config!Rewrite
<1>3. CASE Config!RepairConfig(p)
  <2>1. /\ UNCHANGED <<config, repos, first, asked>> /\ blank' = (blank \/ config = Torn)
        /\ Config!Rewrite(p, Config!Repaired) \/ UNCHANGED <<cpc, cbuf>>
    BY <1>3 DEF Config!RepairConfig
  <2>2. Config!Repaired \in Config!Settings /\ Genuine(Config!Repaired, asked', first', blank')
    <3>1. CASE config \in {Missing, Torn}
      <4>1. Config!Repaired = Config!Fresh(None)  BY <3>1 DEF Config!Repaired
      <4>2. blank'  BY <1>0, <2>1, <3>1
      <4>3. QED BY <4>1, <4>2, NewSettings DEF Genuine
    <3>2. CASE config \notin {Missing, Torn}
      <4>1. config \in Config!Settings  BY <1>0, <3>2
      <4>2. Config!Repaired = [config EXCEPT !.nyquist = TRUE]  BY <3>2 DEF Config!Repaired
      <4>3. blank' = blank  BY <1>0, <2>1, <3>2
      <4>4. QED BY <1>0, <2>1, <4>1, <4>2, <4>3 DEF Config!Settings, Config!Effective, Genuine
    <3>3. QED BY <3>1, <3>2
  <2>3. CASE Config!Rewrite(p, Config!Repaired)  BY <1>0, <2>1, <2>2, <2>3, RewriteInv DEF Config!Rewrite
  <2>4. CASE UNCHANGED <<cpc, cbuf>>
    <3>1. \A d : Genuine(d, asked, first, blank) => Genuine(d, asked', first', blank')
      BY <1>0, <2>1 DEF Genuine
    <3>2. QED BY <1>0, <2>1, <2>4, <3>1 DEF ConfigInv
  <2>5. QED BY <2>1, <2>3, <2>4
<1>4. ASSUME NEW g \in {"standard", "fine"}, Config!ConfigSet(p, g) PROVE ConfigInv'
  <2> DEFINE b == IF config = Missing THEN Config!Nothing ELSE config
             c == [b EXCEPT !.granularity = g]
  <2>1. b \in Config!Settings  BY <1>0, <1>4, NewSettings DEF Config!ConfigSet
  <2>2. /\ Config!Rewrite(p, c) /\ asked' = asked \cup {g}
        /\ UNCHANGED <<config, repos, first, blank>>
    BY <1>4 DEF Config!ConfigSet
  <2> HIDE DEF b
  <2>3. g \in Config!Granularities /\ g # None  BY MarksAssumption DEF Config!Granularities
  <2>4. c \in Config!Settings /\ Genuine(c, asked', first', blank')
    BY <2>1, <2>2, <2>3 DEF Config!Settings, Config!Effective, Genuine
  <2> HIDE DEF c
  <2>5. QED BY <1>0, <2>2, <2>4, RewriteInv DEF Config!Rewrite
<1>5. ASSUME NEW g \in {"standard", "fine", None}, Config!NewProject(p, g) PROVE ConfigInv'
  <2>1. /\ Config!Rewrite(p, Config!Fresh(g)) /\ asked' = asked \cup ({g} \ {None})
        /\ config = Missing /\ UNCHANGED <<config, repos, first, blank>>
    BY <1>5 DEF Config!NewProject
  <2>2. g \in Config!Granularities \cup {None}  BY DEF Config!Granularities
  <2>3. Config!Fresh(g) \in Config!Settings /\ Genuine(Config!Fresh(g), asked', first', blank')
    BY <1>0, <2>1, <2>2, NewSettings DEF Genuine
  <2>4. QED BY <1>0, <2>1, <2>3, RewriteInv DEF Config!Rewrite
<1>6. QED BY <1>1, <1>2, <1>3, <1>4, <1>5

\* The two halves of a write, and its interruption.
LEMMA ConfigWriteInv ==
  ASSUME ConfigInv, NEW p \in Procs,
         Config!Truncate(p) \/ Config!Fill(p) \/ Config!Kill(p)
  PROVE  ConfigInv'
<1>1. UNCHANGED <<repos, first, asked, blank>>
  BY DEF Config!Truncate, Config!Fill, Config!Kill
<1>2. CASE Config!Truncate(p)
  <2>1. PICK at \in {"fill", "migrating"} :
          config' = Torn /\ cbuf' = cbuf /\ cpc' = [cpc EXCEPT ![p] = at] /\ cpc[p] # "idle"
    BY <1>2 DEF Config!Truncate
  <2>2. QED BY <1>1, <2>1, MarksAssumption DEF ConfigInv
<1>3. CASE Config!Fill(p)
  <2>1. cpc[p] # "idle" /\ config' = cbuf[p]  BY <1>3 DEF Config!Fill
  <2>2. /\ cbuf[p] \in Config!Settings /\ repos \subseteq Repos /\ blank \in BOOLEAN
        /\ Genuine(cbuf[p], asked, first, blank)
    BY <2>1 DEF ConfigInv
  <2>3. CASE Config!Rewrite(p, Config!SyncRepos(cbuf[p]))
    <3>1. Config!SyncRepos(cbuf[p]) \in Config!Settings
          /\ Genuine(Config!SyncRepos(cbuf[p]), asked', first', blank')
      BY <1>1, <2>2, MigrationKeeps DEF Genuine
    <3>2. QED BY <1>1, <2>1, <2>2, <2>3, <3>1, RewriteInv DEF Config!Rewrite
  <2>4. CASE cpc' = [cpc EXCEPT ![p] = "idle"] /\ cbuf' = [cbuf EXCEPT ![p] = Missing]
    BY <1>1, <2>1, <2>4, MarksAssumption DEF ConfigInv
  <2>5. QED BY <1>3, <2>3, <2>4 DEF Config!Fill
<1>4. CASE Config!Kill(p)
  <2>1. /\ config' = config /\ cpc' = [cpc EXCEPT ![p] = "idle"]
        /\ cbuf' = [cbuf EXCEPT ![p] = Missing]
    BY <1>4 DEF Config!Kill
  <2>2. QED BY <1>1, <2>1, MarksAssumption DEF ConfigInv
<1>5. QED BY <1>2, <1>3, <1>4

\* The granularity in force is one somebody chose or the one of the start,
\* for any number of processes that rewrite config.json without a lock.
THEOREM SettingsAreGenuine == Spec => []SettingGenuine
<1>1. Init => ConfigInv  BY ConfigInit DEF Init
<1>2. ConfigInv /\ [Next]_vars => ConfigInv'
  <2> SUFFICES ASSUME ConfigInv, [Next]_vars PROVE ConfigInv'  OBVIOUS
  <2>1. CASE Config!Next  BY <2>1, ConfigCommandInv, ConfigWriteInv DEF Config!Next
  <2>2. CASE UNCHANGED configVars  BY <2>2 DEF configVars, ConfigInv
  <2>3. ASSUME NEW p \in Procs, HealthRepair(p) PROVE ConfigInv'
    BY <2>3, ConfigCommandInv DEF HealthRepair
  <2>4. CASE UNCHANGED vars  BY <2>2, <2>4 DEF vars
  <2>5. QED BY <2>1, <2>2, <2>3, <2>4 DEF Next
<1>3. ConfigInv => SettingGenuine
  BY DEF ConfigInv, SettingGenuine, Config!SettingGenuine, Genuine
<1>4. QED BY <1>1, <1>2, <1>3, PTL DEF Spec
=============================================================================
