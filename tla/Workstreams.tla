---------------------------- MODULE Workstreams ----------------------------
(***************************************************************************)
(* Workstreams: the files of a project are kept under .planning/ (flat     *)
(* mode) or under .planning/workstreams/<name>/, and a file names the      *)
(* active workstream (bin/lib/workstream.cjs, and the paths of core.cjs).  *)
(* Creating the first workstream migrates the flat files, completing one   *)
(* archives its files; both move one file at a time, put the files back    *)
(* when a move fails, and may be killed anywhere.  The user runs the       *)
(* commands one after the other.                                           *)
(***************************************************************************)
EXTENDS Naturals

CONSTANTS
  Names,     \* workstreams
  Items,     \* files moved by the migration: "ROADMAP", "STATE", "REQUIREMENTS", "phases"
  MaxFiles,  \* bound: files created after the start
  NoDir, None

VARIABLES
  root,     \* project files directly under .planning/
  ws,       \* files of each workstream's directory, or NoDir
  wsRoot,   \* .planning/workstreams/ exists
  pointer,  \* the name in .planning/active-workstream
  archive,  \* files under .planning/milestones/ws-*
  job,      \* the command under way
  made,     \* files created so far
  lost,     \* history: files deleted
  killed,   \* history: a command was killed
  unrolled, \* history: a rollback could not put a file back, or clean up
  left      \* commands that may still start

Idle == [op |-> "idle"]
Has(dir, item) == \E f \in dir : f.item = item
File(item) == [item |-> item, id |-> made + 1]

\* getActiveWorkstream: a name whose directory is gone counts as none.
Active == IF pointer # None /\ ws[pointer] # NoDir THEN pointer ELSE None

\* The directory planningDir resolves to.
Base == IF Active = None THEN root ELSE ws[Active]

Start == job = Idle /\ left > 0 /\ left' = left - 1

-----------------------------------------------------------------------------
Init ==
  /\ \E present \in SUBSET Items : root = {[item |-> i, id |-> 0] : i \in present}
  /\ ws = [n \in Names |-> NoDir]
  /\ wsRoot = FALSE
  /\ pointer = None
  /\ archive = {}
  /\ job = Idle
  /\ made = 0
  /\ lost = {}
  /\ killed = FALSE
  /\ unrolled = FALSE

\* workstream create: refuse a name that is taken; in flat mode migrate the
\* existing work to a workstream of its own first.
Create(n, migrate, to) ==
  LET work == Has(root, "ROADMAP") \/ Has(root, "STATE") \/ Has(root, "phases") IN
  /\ Start
  /\ ~(ws[n] # NoDir /\ Has(ws[n], "STATE"))
  /\ IF ~wsRoot /\ migrate /\ work
     THEN /\ ws' = [ws EXCEPT ![to] = {}]
          /\ job' = [op |-> "migrate", n |-> n, to |-> to, todo |-> Items, moved |-> {}]
     ELSE /\ ws' = [ws EXCEPT ![n] = IF @ = NoDir THEN {} ELSE @]
          /\ job' = [op |-> "phases", n |-> n]
  /\ wsRoot' = TRUE
  /\ UNCHANGED <<root, pointer, archive, made, lost, killed, unrolled>>

\* migrateToWorkstreams: move the next file, if it is there, in any order.
MigrateOne ==
  /\ job.op = "migrate"
  /\ \E i \in job.todo :
       LET f == {x \in root : x.item = i} IN
       /\ root' = root \ f
       /\ ws' = [ws EXCEPT ![job.to] = @ \cup f]
       /\ job' = [job EXCEPT !.todo = @ \ {i}, !.moved = @ \cup f]
  /\ UNCHANGED <<wsRoot, pointer, archive, made, lost, killed, unrolled, left>>

MutMigrateFails ==
  /\ job.op = "migrate" /\ \E i \in job.todo : Has(root, i)
  /\ job' = Idle
  /\ UNCHANGED <<root, ws, wsRoot, pointer, archive, made, lost, killed, unrolled, left>>
\* A move fails.
MigrateFails ==
  /\ job.op = "migrate" /\ \E i \in job.todo : Has(root, i)
  /\ job' = [op |-> "rollback", to |-> job.to, moved |-> job.moved]
  /\ UNCHANGED <<root, ws, wsRoot, pointer, archive, made, lost, killed, unrolled, left>>

\* The catch block moves the files back one by one ...
RollbackOne ==
  /\ job.op = "rollback"
  /\ \E f \in job.moved :
       /\ root' = root \cup {f}
       /\ ws' = [ws EXCEPT ![job.to] = @ \ {f}]
       /\ job' = [job EXCEPT !.moved = @ \ {f}]
  /\ UNCHANGED <<wsRoot, pointer, archive, made, lost, killed, unrolled, left>>

\* ... goes on when that fails for one ...
RollbackFails ==
  /\ job.op \in {"rollback", "unarchive"}
  /\ \E f \in job.moved : job' = [job EXCEPT !.moved = @ \ {f}]
  /\ unrolled' = TRUE
  /\ UNCHANGED <<root, ws, wsRoot, pointer, archive, made, lost, killed, left>>

\* ... and deletes the new directory with what is left in it; that may fail
\* too, and then workstreams/ stays.
RollbackEnds(clean) ==
  /\ job.op = "rollback" /\ job.moved = {}
  /\ IF clean
     THEN /\ lost' = lost \cup ws[job.to]
          /\ ws' = [ws EXCEPT ![job.to] = NoDir]
          /\ wsRoot' = FALSE
          /\ UNCHANGED unrolled
     ELSE unrolled' = TRUE /\ UNCHANGED <<lost, ws, wsRoot>>
  /\ job' = Idle
  /\ UNCHANGED <<root, pointer, archive, made, killed, left>>

\* All moved: make the directory of the new workstream.
MigrateDone ==
  /\ job.op = "migrate" /\ job.todo = {}
  /\ ws' = [ws EXCEPT ![job.n] = IF @ = NoDir THEN {} ELSE @]
  /\ job' = [op |-> "phases", n |-> job.n]
  /\ UNCHANGED <<root, wsRoot, pointer, archive, made, lost, killed, unrolled, left>>

\* phases/, then STATE.md, each only if it is not there, ...
CreateFile(item, next) ==
  /\ job.op = item
  /\ IF Has(ws[job.n], item) THEN UNCHANGED <<ws, made>>
     ELSE /\ made < MaxFiles
          /\ ws' = [ws EXCEPT ![job.n] = @ \cup {File(item)}]
          /\ made' = made + 1
  /\ job' = [op |-> next, n |-> job.n]
  /\ UNCHANGED <<root, wsRoot, pointer, archive, lost, killed, unrolled, left>>

\* ... then the pointer.
CreateEnds ==
  /\ job.op = "point"
  /\ pointer' = job.n
  /\ job' = Idle
  /\ UNCHANGED <<root, ws, wsRoot, archive, made, lost, killed, unrolled, left>>

\* workstream complete: clear the pointer, make a fresh archive directory.
Complete(n) ==
  /\ Start
  /\ ws[n] # NoDir
  /\ pointer' = IF Active = n THEN None ELSE pointer
  /\ job' = [op |-> "archive", n |-> n, active |-> Active = n, moved |-> {}]
  /\ UNCHANGED <<root, ws, wsRoot, archive, made, lost, killed, unrolled>>

ArchiveOne ==
  /\ job.op = "archive"
  /\ \E f \in ws[job.n] :
       /\ ws' = [ws EXCEPT ![job.n] = @ \ {f}]
       /\ archive' = archive \cup {f}
       /\ job' = [job EXCEPT !.moved = @ \cup {f}]
  /\ UNCHANGED <<root, wsRoot, pointer, made, lost, killed, unrolled, left>>

ArchiveFails ==
  /\ job.op = "archive" /\ ws[job.n] # {}
  /\ job' = [op |-> "unarchive", n |-> job.n, active |-> job.active,
             moved |-> job.moved, dir |-> job.moved]
  /\ UNCHANGED <<root, ws, wsRoot, pointer, archive, made, lost, killed, unrolled, left>>

UnarchiveOne ==
  /\ job.op = "unarchive"
  /\ \E f \in job.moved :
       /\ ws' = [ws EXCEPT ![job.n] = @ \cup {f}]
       /\ archive' = archive \ {f}
       /\ job' = [job EXCEPT !.moved = @ \ {f}]
  /\ UNCHANGED <<root, wsRoot, pointer, made, lost, killed, unrolled, left>>

MutUnarchiveEnds(clean) ==
  /\ job.op = "unarchive"
  /\ archive' = IF clean THEN archive \ job.dir ELSE archive
  /\ lost' = IF clean THEN lost \cup (archive \cap job.dir) ELSE lost
  /\ pointer' = IF job.active THEN job.n ELSE pointer
  /\ job' = Idle
  /\ UNCHANGED <<root, ws, wsRoot, made, killed, unrolled, left>>
\* The archive directory goes, with what could not be put back, unless that
\* fails too; the pointer is put back.
UnarchiveEnds(clean) ==
  /\ job.op = "unarchive" /\ job.moved = {}
  /\ archive' = IF clean THEN archive \ job.dir ELSE archive
  /\ lost' = IF clean THEN lost \cup (archive \cap job.dir) ELSE lost
  /\ pointer' = IF job.active THEN job.n ELSE pointer
  /\ job' = Idle
  /\ UNCHANGED <<root, ws, wsRoot, made, killed, unrolled, left>>

\* The empty directory goes, and workstreams/ when it was the last one.
ArchiveDone ==
  /\ job.op = "archive" /\ ws[job.n] = {}
  /\ ws' = [ws EXCEPT ![job.n] = NoDir]
  /\ wsRoot' = \E n \in Names \ {job.n} : ws[n] # NoDir
  /\ job' = Idle
  /\ UNCHANGED <<root, pointer, archive, made, lost, killed, unrolled, left>>

\* workstream set, with a name whose directory exists or to clear it.
Set(n) ==
  /\ Start
  /\ n # None => ws[n] # NoDir
  /\ pointer' = n
  /\ UNCHANGED <<root, ws, wsRoot, archive, job, made, lost, killed, unrolled>>

\* validate health --repair: a missing STATE.md is regenerated.
RegenerateState ==
  /\ job = Idle
  /\ IF Has(Base, "STATE") THEN UNCHANGED <<root, ws, made>>
     ELSE /\ made < MaxFiles
          /\ IF Active = None THEN root' = root \cup {File("STATE")} /\ UNCHANGED ws
             ELSE ws' = [ws EXCEPT ![Active] = @ \cup {File("STATE")}] /\ UNCHANGED root
          /\ made' = made + 1
  /\ UNCHANGED <<wsRoot, pointer, archive, job, lost, killed, unrolled>>

\* The command is killed between two file system calls.
KillCommand ==
  /\ job # Idle
  /\ job' = Idle
  /\ killed' = TRUE
  /\ UNCHANGED <<root, ws, wsRoot, pointer, archive, made, lost, unrolled, left>>

Next ==
  \/ \E n, to \in Names, migrate \in BOOLEAN : Create(n, migrate, to)
  \/ \E n \in Names : Complete(n) \/ Set(n)
  \/ Set(None)
  \/ MigrateOne \/ MigrateFails \/ RollbackOne \/ RollbackFails
  \/ \E clean \in BOOLEAN : RollbackEnds(clean) \/ UnarchiveEnds(clean)
  \/ MigrateDone \/ CreateFile("phases", "STATE") \/ CreateFile("STATE", "point") \/ CreateEnds
  \/ ArchiveOne \/ ArchiveFails \/ UnarchiveOne \/ ArchiveDone
  \/ KillCommand

-----------------------------------------------------------------------------
Stored == root \cup archive \cup UNION {ws[n] : n \in {m \in Names : ws[m] # NoDir}}

\* No move, failed move or killed command deletes a file, except that the
\* rollbacks delete what they could not put back.
FilesKept == lost # {} => unrolled

\* The project's original files stay together, under .planning/, in one
\* workstream or archived: a migration or an archiving that fails half way
\* puts everything back.  Only a killed command or a failed rollback may
\* split them.
NotSplit ==
  job = Idle /\ ~killed /\ ~unrolled =>
    LET original(dir) == {f \in dir : f.id = 0} IN
    \A c, d \in {root, archive} \cup {ws[n] : n \in {m \in Names : ws[m] # NoDir}} :
      original(c) # {} /\ original(d) # {} => c = d
=============================================================================
