--------------------- MODULE WorkspaceReplacementProofs ---------------------
(***************************************************************************)
(* Proofs about WorkspaceReplacement, for any number of jobs of any kinds, *)
(* attempts, edits, throwing operations and deaths of the process.         *)
(***************************************************************************)
EXTENDS WorkspaceReplacement, SequenceTheorems, TLAPS

\* The tree a job brings, as its staging directory holds it when it is whole.
Staged(j) == [src |-> j, rev |-> 0]

\* The workspace is whole: at the root, or in the one backup that a swap, a
\* rollback or an interrupted replacement has left.
Files ==
    /\ \A j, k \in Backups : j = k
    /\ \A j \in Backups : Whole(At(j, "backup"))
    /\ Backups = {} => Whole(Root)
    /\ \A j \in Job : fs[At(j, "staging")] \in {None, Partial, Staged(j)}

\* What the records say of the backups and of the commit artifacts.
Named ==
    /\ BackupIsNamed
    /\ CompleteWasCommitted
    /\ ReplacesWhatWasReviewed
    /\ \A j \in Backups : kind[j] # "import"
                             => fs[At(j, "backup")] = reviewed[j]
    /\ \A j \in Job : Exists(At(j, "committed"))
                         => /\ j \in done /\ j \notin Backups
                            /\ job[j].state # "uploaded"

\* Confirmed jobs wait only while requests are served or being drained.
Waiting ==
    /\ \A j \in pending : job[j].state = "replacing" /\ job[j].prepared
    /\ pending # {} => server = "open" \/ exec = "stop"
    /\ exec \in {"drain", "stop", "succeed"} => cur \notin pending

\* Steps of the executor at which no file operation is outstanding.
Quiet == {"swapOut", "swapIn", "swapBack", "reset", "restart", "commit",
          "committed", "mark", "unseat", "relaunch", "report", "incomplete",
          "bootReset"}

\* Steps at which the new tree is at the root and the old one in the backup,
\* and steps at which there is no backup.
Swapped == {"reset", "restart", "commit", "mark"}
Seated == {"drain", "stop", "swapOut", "committed", "succeed", "release",
           "report", "resetBack", "bootReset", "bootFinalize"}

\* Where the executor can be, by what the server does.
Serving ==
    /\ server = "open" =>
         Backups = {} /\ exec \in {"idle", "drain", "succeed", "release"}
    /\ server = "closed" =>
         /\ exec \in {"stop", "relaunch", "commit", "committed", "mark",
                      "report", "release"}
         /\ exec = "relaunch" => Backups = {}
    /\ server = "stopped" =>
         exec \in {"swapOut", "swapIn", "swapBack", "reset", "restart",
                   "relaunch", "mark", "unseat", "restore", "resetBack",
                   "incomplete", "recover"}
    /\ server = "booting" => exec \in {"recover", "bootReset", "bootFinalize"}
    /\ server \in {"down", "rejected"} => exec = "idle" /\ script = <<>>

\* Where the trees are at each step, and what the record of its job says.
Stepping ==
    /\ exec \in Quiet => script = <<>>
    /\ exec \in Seated => Backups = {}
    /\ exec \in Swapped => Backups = {cur} /\ fs[Root] = Staged(cur)
    /\ exec \in {"unseat", "restore"} => Backups = {cur}
    /\ exec \in {"swapIn", "swapBack"} => Backups = {cur} /\ ~Exists(Root)
    /\ exec = "swapIn" => fs[At(cur, "staging")] = Staged(cur)
    /\ exec = "relaunch" => \/ Backups = {}
                            \/ Backups = {cur} /\ ~Exists(Root)
    /\ exec \notin {"idle", "bootReset", "bootFinalize"} /\ server # "booting"
         => cur \in Job
    /\ cur \in Job => job[cur].state # "uploaded"
    /\ exec \in {"drain", "stop", "swapOut", "committed"}
         => job[cur].state = "replacing" /\ job[cur].prepared
    /\ exec \in {"committed", "succeed"} => cur \in done
    /\ exec = "succeed" =>
         /\ job[cur].state \in {"replacing", "complete"}
         /\ kind[cur] = "clear" => job[cur].state = "complete"

\* The operations that tidy up after a job without a backup: nothing is
\* recorded as complete that was not committed.
TidyOps(k) ==
    {RemoveOp(At(k, a)) : a \in Artifact \ {"backup"}}
    \cup {MoveOp(At(k, "committed"), Root)}
    \cup {RecordOp(k, r) : r \in {r \in Record :
             /\ r.state \in {"complete", "failed", "gone"}
             /\ r.state = "complete" => k \in done}}

\* The operations of a recovery that still has to put the backup back.
PutsBack(k, s) ==
    /\ s # <<>> /\ Head(s) = MoveOp(At(k, "backup"), Root)
    /\ Tail(s) \in Seq(TidyOps(k))
MovesAside(k, s) ==
    \/ PutsBack(k, s)
    \/ /\ s # <<>> /\ Head(s) = MoveOp(Root, At(k, "interrupted"))
       /\ PutsBack(k, Tail(s))
Reinstating(k, s) ==
    \/ MovesAside(k, s)
    \/ /\ s # <<>> /\ Head(s) = RemoveOp(At(k, "interrupted"))
       /\ MovesAside(k, Tail(s))

Tidying(k) ==
    /\ k \notin Backups /\ k \notin pending
    /\ script \in Seq(TidyOps(k))
    /\ job[k].state # "uploaded"
    /\ exec \in {"drain", "stop", "succeed"} => k # cur

\* What the outstanding file operations are, and that a recovery has every
\* backup still before it.
Scripted ==
    /\ \/ script = <<>>
       \/ exec = "restore" /\ script = <<RemoveOp(Root)>>
       \/ \E k \in Job : Tidying(k)
       \/ \E k \in Backups : exec = "recover" /\ Reinstating(k, script)
    /\ exec = "recover" =>
         \A j \in Backups : j \in todo \/ Reinstating(j, script)

\* The inductive invariant.
IInv ==
    /\ TypeOK /\ Files /\ Named /\ Waiting /\ Serving /\ Stepping /\ Scripted

----------------------------------------------------------------------------
(* Paths, trees and moves *)

USE DEF At, Root

LEMMA Paths ==
    /\ Root \in Path
    /\ \A j \in Job, a \in Artifact : At(j, a) \in Path /\ At(j, a) # Root
    /\ \A j, k \in Job, a, b \in Artifact : At(j, a) = At(k, b) <=> j = k /\ a = b
    /\ \A p \in Path : p = Root \/ \E j \in Job, a \in Artifact : p = At(j, a)
  BY ValuesAssumption DEF Path, Artifact

LEMMA Trees ==
    /\ None \notin Tree /\ Partial \notin Tree /\ Mark \notin Tree
    /\ None # Partial /\ None # Mark /\ None \notin Job
    /\ \A j \in Job : Staged(j) \in Tree
  BY ValuesAssumption, BoundsAssumption DEF Tree, Staged

LEMMA MoveAt ==
    ASSUME TypeOK, NEW from \in Path, NEW to \in Path, from # to, Move(from, to)
    PROVE  /\ fs' \in [Path -> Tree \cup {None, Partial, Mark}]
           /\ fs[to] = None
           /\ \A p \in Path : fs'[p] = IF p = from THEN None
                                       ELSE IF p = to THEN fs[from] ELSE fs[p]
  BY DEF TypeOK, Move, Moved, Exists

\* Where the process ends, the trees that matter to the invariant stay.
LEMMA EndsAt ==
    ASSUME TypeOK, ProcessEnds
    PROVE  /\ fs' \in [Path -> Tree \cup {None, Partial, Mark}]
           /\ fs'[Root] = fs[Root]
           /\ \A j \in Job, a \in Artifact \ {"interrupted"} :
                 fs'[At(j, a)] = fs[At(j, a)]
           /\ server' = "down" /\ exec' = "idle" /\ cur' = None
           /\ pending' = {} /\ todo' = {} /\ owed' = {} /\ script' = <<>>
<1>1. PICK same \in BOOLEAN :
         fs' = [p \in Path |-> IF p[2] = "interrupted" /\ ~same THEN None
                               ELSE fs[p]]
  BY DEF ProcessEnds
<1>2. \A p \in Path : fs[p] \in Tree \cup {None, Partial, Mark}
  BY DEF TypeOK
<1>3. fs' \in [Path -> Tree \cup {None, Partial, Mark}]
  BY <1>1, <1>2
<1>4. Root[2] = "root"
  OBVIOUS
<1>5. \A j \in Job, a \in Artifact : At(j, a)[2] = a
  OBVIOUS
<1> QED
  BY <1>1, <1>3, <1>4, <1>5, Paths DEF ProcessEnds

\* The one backup is the workspace; without one, the root is.
LEMMA TheContent ==
    ASSUME Files
    PROVE  /\ \A j \in Backups : Backups = {j} /\ Content = fs[At(j, "backup")]
           /\ Backups = {} => Content = fs[Root]
<1>1. ASSUME NEW j \in Backups
      PROVE  Backups = {j} /\ Content = fs[At(j, "backup")]
  <2>1. Backups = {j}
    BY <1>1 DEF Files
  <2>2. (CHOOSE k \in Backups : TRUE) = j
    BY <2>1
  <2> QED
    BY <2>1, <2>2 DEF Content
<1> QED
  BY <1>1 DEF Content

----------------------------------------------------------------------------
(* The outstanding file operations *)

LEMMA SeqSteps ==
    ASSUME NEW S, NEW s \in Seq(S), s # <<>>
    PROVE  Head(s) \in S /\ Tail(s) \in Seq(S)
  BY HeadTailProperties

\* What a step of a script does to the file system and to the records.
Tidies(k, a, v) ==
    /\ fs' = [fs EXCEPT ![At(k, a)] = v] /\ job' = job
    /\ v = None \/ (v = Partial /\ Whole(At(k, a)))
Returns(k) == Move(At(k, "committed"), Root) /\ job' = job
Records(k, r) ==
    /\ fs' = fs /\ job' = [job EXCEPT ![k] = r]
    /\ r \in Record /\ r.state \in {"complete", "failed", "gone"}
    /\ r.state = "complete" => k \in done
Clears(v) ==
    /\ exec = "restore" /\ v \in {Partial, None}
    /\ fs' = [fs EXCEPT ![Root] = v] /\ job' = job

\* Any step of a script is one of these.
ScriptForm ==
    \/ \E k \in Job : Tidying(k) /\
          \/ \E a \in Artifact \ {"backup"}, v \in {Partial, None} :
                Tidies(k, a, v)
          \/ Returns(k)
          \/ \E r \in Record : Records(k, r)
    \/ \E v \in {Partial, None} : Clears(v)
    \/ \E k \in Backups : exec = "recover" /\
          \/ \E v \in {Partial, None} : Tidies(k, "interrupted", v)
          \/ Move(Root, At(k, "interrupted")) /\ job' = job
          \/ Move(At(k, "backup"), Root) /\ job' = job

LEMMA TidyForms ==
    ASSUME NEW k \in Job, NEW o \in TidyOps(k)
    PROVE  \/ \E a \in Artifact \ {"backup"} : o = RemoveOp(At(k, a))
           \/ o = MoveOp(At(k, "committed"), Root)
           \/ \E r \in Record : /\ o = RecordOp(k, r)
                                /\ r.state \in {"complete", "failed", "gone"}
                                /\ r.state = "complete" => k \in done
  BY DEF TidyOps

\* A step of a script makes the operation at its head.
LEMMA Operations ==
    ASSUME ScriptStep
    PROVE  /\ script # <<>>
           /\ \A p : Head(script) = RemoveOp(p) =>
                /\ \E v \in {Partial, None} : /\ fs' = [fs EXCEPT ![p] = v]
                                              /\ v = None \/ Whole(p)
                /\ job' = job /\ script' \in {script, Tail(script)}
           /\ \A p, q : Head(script) = MoveOp(p, q) =>
                Move(p, q) /\ job' = job /\ script' = Tail(script)
           /\ \A k, r : Head(script) = RecordOp(k, r) =>
                /\ job' = [job EXCEPT ![k] = r] /\ fs' = fs
                /\ script' = Tail(script)
<1>1. script # <<>>
  BY DEF ScriptStep
<1>2. ASSUME NEW p, Head(script) = RemoveOp(p)
      PROVE  /\ \E v \in {Partial, None} : /\ fs' = [fs EXCEPT ![p] = v]
                                           /\ v = None \/ Whole(p)
             /\ job' = job /\ script' \in {script, Tail(script)}
  <2>1. Head(script).op = "remove" /\ Head(script).at = p
    BY <1>2 DEF RemoveOp
  <2>2. RemoveStep(p) /\ job' = job
    BY <2>1 DEF ScriptStep
  <2> QED
    BY <2>2 DEF RemoveStep
<1>3. ASSUME NEW p, NEW q, Head(script) = MoveOp(p, q)
      PROVE  Move(p, q) /\ job' = job /\ script' = Tail(script)
  <2>1. /\ Head(script).op = "move"
        /\ Head(script).from = p /\ Head(script).to = q
    BY <1>3 DEF MoveOp
  <2> QED
    BY <2>1 DEF ScriptStep
<1>4. ASSUME NEW k, NEW r, Head(script) = RecordOp(k, r)
      PROVE  /\ job' = [job EXCEPT ![k] = r] /\ fs' = fs
             /\ script' = Tail(script)
  <2>1. /\ Head(script).op = "record"
        /\ Head(script).id = k /\ Head(script).record = r
    BY <1>4 DEF RecordOp
  <2> QED
    BY <2>1 DEF ScriptStep
<1> QED
  BY <1>1, <1>2, <1>3, <1>4

LEMMA ScriptForms ==
    ASSUME IInv, ScriptStep
    PROVE  ScriptForm
<1>1. CASE exec = "restore" /\ script = <<RemoveOp(Root)>>
  <2>1. Head(script) = RemoveOp(Root)
    BY <1>1
  <2> QED
    BY <1>1, <2>1, Operations DEF ScriptForm, Clears
<1>2. ASSUME NEW k \in Job, Tidying(k)
      PROVE  ScriptForm
  <2>1. Head(script) \in TidyOps(k)
    BY <1>2, SeqSteps, Operations DEF Tidying
  <2>2. CASE \E a \in Artifact \ {"backup"} : Head(script) = RemoveOp(At(k, a))
    <3>1. PICK a \in Artifact \ {"backup"} : Head(script) = RemoveOp(At(k, a))
      BY <2>2
    <3>2. PICK v \in {Partial, None} :
             fs' = [fs EXCEPT ![At(k, a)] = v] /\ (v = None \/ Whole(At(k, a)))
      BY <3>1, Operations
    <3>3. Tidies(k, a, v)
      BY <3>1, <3>2, Operations DEF Tidies
    <3> QED
      BY <1>2, <3>3 DEF ScriptForm
  <2>3. CASE Head(script) = MoveOp(At(k, "committed"), Root)
    BY <1>2, <2>3, Operations DEF ScriptForm, Returns
  <2>4. ASSUME NEW r \in Record, Head(script) = RecordOp(k, r),
               r.state \in {"complete", "failed", "gone"},
               r.state = "complete" => k \in done
        PROVE  ScriptForm
    <3>1. Records(k, r)
      BY <2>4, Operations DEF Records
    <3> QED
      BY <1>2, <3>1 DEF ScriptForm
  <2> QED
    BY <2>1, <2>2, <2>3, <2>4, TidyForms
<1>3. ASSUME NEW k \in Backups, exec = "recover", Reinstating(k, script)
      PROVE  ScriptForm
  <2>1. \/ Head(script) = RemoveOp(At(k, "interrupted"))
        \/ Head(script) = MoveOp(Root, At(k, "interrupted"))
        \/ Head(script) = MoveOp(At(k, "backup"), Root)
    BY <1>3 DEF Reinstating, MovesAside, PutsBack
  <2>2. CASE Head(script) = RemoveOp(At(k, "interrupted"))
    <3>1. PICK v \in {Partial, None} :
             /\ fs' = [fs EXCEPT ![At(k, "interrupted")] = v]
             /\ v = None \/ Whole(At(k, "interrupted"))
      BY <2>2, Operations
    <3>2. Tidies(k, "interrupted", v)
      BY <2>2, <3>1, Operations DEF Tidies
    <3> QED
      BY <1>3, <3>2 DEF ScriptForm
  <2>3. CASE Head(script) = MoveOp(Root, At(k, "interrupted"))
    BY <1>3, <2>3, Operations DEF ScriptForm
  <2>4. CASE Head(script) = MoveOp(At(k, "backup"), Root)
    BY <1>3, <2>4, Operations DEF ScriptForm
  <2> QED
    BY <2>1, <2>2, <2>3, <2>4
<1> QED
  BY <1>1, <1>2, <1>3, Operations DEF IInv, Scripted

----------------------------------------------------------------------------
(* Types *)

LEMMA CurIsAJob ==
    ASSUME IInv
    PROVE  exec \in {"swapOut", "swapIn", "swapBack", "commit", "mark",
                     "unseat", "restore", "incomplete", "committed"}
             => cur \in Job
  BY DEF IInv, Stepping, Serving

\* One file or tree is written or removed.
LEMMA WriteAt ==
    ASSUME TypeOK, NEW p \in Path, NEW v \in Tree \cup {None, Partial, Mark},
           fs' = [fs EXCEPT ![p] = v]
    PROVE  fs' \in [Path -> Tree \cup {None, Partial, Mark}]
  BY DEF TypeOK

LEMMA FileTypes ==
    ASSUME IInv, [Next]_vars
    PROVE  fs' \in [Path -> Tree \cup {None, Partial, Mark}]
<1>1. TypeOK /\ fs \in [Path -> Tree \cup {None, Partial, Mark}]
  BY DEF IInv, TypeOK
<1>2. \A j \in Job, a \in {"backup", "committed", "staging", "failed",
                           "interrupted", "marker"} :
         At(j, a) \in Path /\ At(j, a) # Root /\ Root \in Path
  BY Paths DEF Artifact
<1>3. \A j \in Job : [src |-> j, rev |-> 0] \in Tree
  BY Trees DEF Staged
<1>4. CASE fs' = fs
  BY <1>1, <1>4
<1>5. CASE SwapOut
  BY <1>1, <1>2, <1>5, CurIsAJob, MoveAt DEF SwapOut
<1>6. CASE SwapIn \/ SwapBack
  BY <1>1, <1>2, <1>6, CurIsAJob, MoveAt DEF SwapIn, SwapBack
<1>7. CASE Commit
  <2>1. At(cur, "backup") # At(cur, "committed")
    OBVIOUS
  <2> QED
    BY <1>1, <1>2, <1>7, <2>1, CurIsAJob, MoveAt DEF Commit
<1>8. CASE Unseat \/ Restore
  BY <1>1, <1>2, <1>8, CurIsAJob, MoveAt DEF Unseat, Restore
<1>9. CASE MarkRollback
  BY <1>1, <1>2, <1>9, CurIsAJob, WriteAt DEF MarkRollback
<1>10. CASE Recovered
  BY <1>1, <1>10, Paths, WriteAt DEF Recovered, Adopted
<1>11. CASE OnCommitted \/ Terminate \/ Crash
  BY <1>1, <1>11, EndsAt DEF OnCommitted, Terminate, Crash
<1>12. CASE ScriptStep
  <2>1. ScriptForm
    BY <1>12, ScriptForms
  <2>2. ASSUME NEW k \in Job, NEW a \in Artifact, NEW v \in {Partial, None},
               Tidies(k, a, v)
        PROVE  fs' \in [Path -> Tree \cup {None, Partial, Mark}]
    BY <1>1, <2>2, Paths, WriteAt DEF Tidies
  <2>3. ASSUME NEW v \in {Partial, None}, Clears(v)
        PROVE  fs' \in [Path -> Tree \cup {None, Partial, Mark}]
    BY <1>1, <2>3, Paths, WriteAt DEF Clears
  <2>4. ASSUME NEW k \in Job, \/ Returns(k) \/ Move(Root, At(k, "interrupted"))
                              \/ Move(At(k, "backup"), Root)
        PROVE  fs' \in [Path -> Tree \cup {None, Partial, Mark}]
    BY <1>1, <1>2, <2>4, MoveAt DEF Returns
  <2> QED
    BY <1>1, <2>1, <2>2, <2>3, <2>4 DEF ScriptForm, Records, Backups, Artifact
<1>13. CASE Edit
  <2>1. [fs[Root] EXCEPT !.rev = @ + 1] \in Tree
    BY <1>13, BoundsAssumption DEF Edit, Whole, Tree
  <2> QED
    BY <1>1, <1>13, <2>1, Paths, WriteAt DEF Edit
<1>14. ASSUME NEW j \in Job, PrepareStart(j)
       PROVE  fs' \in [Path -> Tree \cup {None, Partial, Mark}]
  BY <1>1, <1>14 DEF PrepareStart
<1>15. ASSUME NEW j \in Job, \/ PrepareDone(j) \/ PrepareFail(j)
                             \/ Schedule(j) \/ Refuse(j)
       PROVE  fs' \in [Path -> Tree \cup {None, Partial, Mark}]
  BY <1>1, <1>2, <1>3, <1>15, WriteAt
     DEF PrepareDone, PrepareFail, Schedule, Refuse
<1>16. CASE \/ Drain \/ Stop \/ Reset \/ Restart \/ OnSucceeded \/ Release
            \/ ResetBack \/ Relaunch \/ OnFailed \/ Boot \/ BootReset
            \/ BootAcknowledge \/ ScriptThrows
            \/ \E j \in Job : \/ Recover(j) \/ BootFinalize(j) \/ Confirm(j)
                              \/ SnapshotBegin(j) \/ Expire(j) \/ MaintainClear(j)
  <2>1. fs' = fs
    BY <1>16 DEF Drain, Stop, Reset, Restart, OnSucceeded, Release, ResetBack,
                 Relaunch, OnFailed, Boot, BootReset, BootAcknowledge,
                 ScriptThrows, Recover, BootFinalize, Confirm, SnapshotBegin,
                 Expire, MaintainClear, durable
  <2> QED
    BY <1>1, <2>1
<1> QED
  BY <1>4, <1>5, <1>6, <1>7, <1>8, <1>9, <1>10, <1>11, <1>12, <1>13, <1>14,
     <1>15, <1>16 DEF Next, Advance, Request, vars

LEMMA Patches ==
    ASSUME NEW r \in Record, NEW u \in JobState
    PROVE  /\ [r EXCEPT !.state = u] \in Record
           /\ [r EXCEPT !.state = u, !.prepared = TRUE] \in Record
           /\ [r EXCEPT !.state = u, !.cleanup = TRUE] \in Record
           /\ [r EXCEPT !.state = u, !.reset = "no"] \in Record
           /\ [r EXCEPT !.reset = "no"] \in Record
<1>1. [r EXCEPT !.state = u] \in Record
  BY DEF Record
<1>2. [r EXCEPT !.state = u, !.prepared = TRUE] \in Record
  BY DEF Record
<1>3. [r EXCEPT !.state = u, !.cleanup = TRUE] \in Record
  BY DEF Record
<1>4. [r EXCEPT !.state = u, !.reset = "no"] \in Record
  BY DEF Record
<1>5. [r EXCEPT !.reset = "no"] \in Record
  BY DEF Record
<1> QED
  BY <1>1, <1>2, <1>3, <1>4, <1>5

LEMMA RecordAt ==
    ASSUME TypeOK, NEW j \in Job, NEW r \in Record, job' = [job EXCEPT ![j] = r]
    PROVE  job' \in [Job -> Record]
  BY DEF TypeOK

\* How an action writes the record of one job.
Patched(j, u) ==
    \E r \in {[job[j] EXCEPT !.state = u],
              [job[j] EXCEPT !.state = u, !.prepared = TRUE],
              [job[j] EXCEPT !.state = u, !.cleanup = TRUE],
              [job[j] EXCEPT !.state = u, !.reset = "no"],
              [job[j] EXCEPT !.reset = "no"]} : job' = [job EXCEPT ![j] = r]

LEMMA RecordTypes ==
    ASSUME IInv, [Next]_vars
    PROVE  job' \in [Job -> Record]
<1>1. TypeOK /\ job \in [Job -> Record]
  BY DEF IInv, TypeOK
<1>2. ASSUME NEW j \in Job, NEW u \in JobState, Patched(j, u)
      PROVE  job' \in [Job -> Record]
  <2>1. job[j] \in Record
    BY <1>1
  <2> QED
    BY <1>1, <1>2, <2>1, Patches, RecordAt DEF Patched
<1>3. CASE job' = job
  BY <1>1, <1>3
<1>4. ASSUME NEW j \in Job,
             PrepareStart(j) \/ PrepareDone(j) \/ PrepareFail(j) \/ Confirm(j)
      PROVE  job' \in [Job -> Record]
  <2>1. CASE PrepareStart(j)
    <3>1. Patched(j, "preparing")
      BY <2>1 DEF PrepareStart, Patched
    <3> QED
      BY <1>2, <3>1 DEF JobState
  <2>2. CASE PrepareDone(j)
    <3>1. Patched(j, "ready")
      BY <1>1, <2>2 DEF PrepareDone, Patched
    <3> QED
      BY <1>2, <3>1 DEF JobState
  <2>3. CASE PrepareFail(j)
    <3>1. Patched(j, "failed")
      BY <2>3 DEF PrepareFail, Patched
    <3> QED
      BY <1>2, <3>1 DEF JobState
  <2>4. CASE Confirm(j)
    <3>1. Patched(j, "replacing")
      BY <2>4 DEF Confirm, Patched
    <3> QED
      BY <1>2, <3>1 DEF JobState
  <2> QED
    BY <1>4, <2>1, <2>2, <2>3, <2>4
<1>5. ASSUME NEW j \in Job, SnapshotBegin(j)
      PROVE  job' \in [Job -> Record]
  <2>1. Patched(j, "replacing")
    BY <1>1, <1>5 DEF SnapshotBegin, Patched
  <2> QED
    BY <1>2, <2>1 DEF JobState
<1>6. ASSUME NEW j \in Job, Refuse(j)
      PROVE  job' \in [Job -> Record]
  <2>1. Patched(j, "failed") \/ Patched(j, "ready")
    BY <1>1, <1>6 DEF Refuse, Patched
  <2> QED
    BY <1>2, <2>1 DEF JobState
<1>7. CASE OnCommitted
  <2>1. cur \in Job
    BY <1>7, CurIsAJob DEF OnCommitted
  <2>2. job' = job \/ Patched(cur, "complete")
    BY <1>1, <1>7, <2>1 DEF OnCommitted, Patched
  <2> QED
    BY <1>2, <1>3, <2>1, <2>2 DEF JobState
<1>8. CASE Terminate
  <2>1. cur \in Job
    BY <1>8, CurIsAJob DEF Terminate
  <2>2. job' = job \/ Patched(cur, "replacing")
    BY <1>1, <1>8, <2>1 DEF Terminate, Patched
  <2> QED
    BY <1>2, <1>3, <2>1, <2>2 DEF JobState
<1>9. CASE BootAcknowledge
  <2>1. job' = job \/ \E j \in Job : Patched(j, "failed")
    BY <1>1, <1>9 DEF BootAcknowledge, Patched, TypeOK
  <2> QED
    BY <1>2, <1>3, <2>1 DEF JobState
<1>10. CASE ScriptStep
  <2>1. job' = job \/ \E k \in Job, r \in Record : Records(k, r)
    BY <1>10, ScriptForms DEF ScriptForm, Tidies, Returns, Clears
  <2> QED
    BY <1>1, <1>3, <2>1, RecordAt DEF Records
<1>11. CASE \/ Drain \/ Stop \/ SwapOut \/ SwapIn \/ SwapBack \/ Reset
            \/ Restart \/ Commit \/ OnSucceeded \/ Release \/ MarkRollback
            \/ Unseat \/ Restore \/ ResetBack \/ Relaunch \/ OnFailed \/ Boot
            \/ Recovered \/ BootReset \/ ScriptThrows \/ Crash \/ Edit
            \/ \E j \in Job : \/ Recover(j) \/ BootFinalize(j) \/ Schedule(j)
                              \/ Expire(j) \/ MaintainClear(j)
  <2>1. job' = job
    BY <1>11 DEF Drain, Stop, SwapOut, SwapIn, SwapBack, Reset, Restart,
                 Commit, OnSucceeded, Release, MarkRollback, Unseat, Restore,
                 ResetBack, Relaunch, OnFailed, Boot, Recovered, BootReset,
                 ScriptThrows, Crash, Edit, Recover, BootFinalize, Schedule,
                 Expire, MaintainClear, durable
  <2> QED
    BY <1>3, <2>1
<1> QED
  BY <1>3, <1>4, <1>5, <1>6, <1>7, <1>8, <1>9, <1>10, <1>11
     DEF Next, Advance, Request, vars

LEMMA TypeStep ==
    ASSUME IInv, [Next]_vars
    PROVE  TypeOK'
<1>1. /\ TypeOK
      /\ fs' \in [Path -> Tree \cup {None, Partial, Mark}]
      /\ job' \in [Job -> Record]
  BY FileTypes, RecordTypes DEF IInv
<1>2. LiveSource \in Job \cup {Own, Partial}
  BY DEF LiveSource, Whole, Tree
<1>3. Whole(Root) => LiveSource \in Job \cup {Own}
  BY DEF LiveSource, Whole, Tree
<1>4. troubles' \in 0..MaxTroubles
  <2>1. Fault \/ NoFault \/ UNCHANGED troubles
    BY DEF Next, Advance, Request, Drain, Stop, SwapOut, SwapIn, SwapBack,
           Reset, ResetDerived, Restart, Commit, OnCommitted, OnSucceeded,
           Release, MarkRollback, Unseat, Restore, ResetBack, Relaunch,
           OnFailed, Terminate, Boot, Recovered, BootReset, BootAcknowledge,
           Recover, BootFinalize, Edit, PrepareStart, PrepareDone, PrepareFail,
           Confirm, SnapshotBegin, Schedule, Refuse, Expire, MaintainClear,
           ScriptStep, ScriptThrows, Crash, vars
  <2> QED
    BY <1>1, <2>1, BoundsAssumption DEF TypeOK, Fault, NoFault
<1>5. attempts' \in [Job -> 0..MaxAttempts]
  <2>1. CASE UNCHANGED attempts
    BY <1>1, <2>1 DEF TypeOK
  <2>2. ASSUME NEW j \in Job, PrepareStart(j)
        PROVE  attempts' \in [Job -> 0..MaxAttempts]
    BY <1>1, <2>2, BoundsAssumption DEF PrepareStart, TypeOK
  <2> QED
    BY <2>1, <2>2
       DEF Next, Advance, Request, Drain, Stop, SwapOut, SwapIn, SwapBack,
           Reset, Restart, Commit, OnCommitted, OnSucceeded,
           Release, MarkRollback, Unseat, Restore, ResetBack, Relaunch,
           OnFailed, Terminate, Boot, Recovered, BootReset, BootAcknowledge,
           Recover, BootFinalize, Edit, PrepareDone, PrepareFail,
           Confirm, SnapshotBegin, Schedule, Refuse, Expire, MaintainClear,
           ScriptStep, ScriptThrows, Crash, vars, Steady
<1>6. CASE UNCHANGED vars
  BY <1>1, <1>6 DEF TypeOK, vars
<1>7. CASE \/ Drain \/ Stop \/ SwapOut \/ SwapIn \/ SwapBack \/ Restart
           \/ Commit \/ OnSucceeded \/ Release \/ MarkRollback \/ Unseat
           \/ Restore \/ OnFailed
  BY <1>1, <1>4, <1>5, <1>7, CurIsAJob
     DEF Drain, Stop, SwapOut, SwapIn, SwapBack, Restart, Commit, OnSucceeded,
         Release, MarkRollback, Unseat, Restore, OnFailed, Steady, TypeOK,
         durable
<1>8. CASE Reset \/ ResetBack \/ BootReset
  BY <1>1, <1>2, <1>4, <1>5, <1>8
     DEF Reset, ResetBack, ResetDerived, BootReset, Reject, Steady, TypeOK
<1>9. CASE \/ Relaunch \/ Boot \/ Recovered \/ BootAcknowledge \/ ScriptThrows
           \/ \E j \in Job : Recover(j)
  BY <1>1, <1>4, <1>5, <1>9
     DEF Relaunch, Boot, Recovered, BootAcknowledge, ScriptThrows, Recover,
         Reject, TypeOK, durable
<1>10. CASE Terminate \/ Crash
  BY <1>1, <1>4, <1>5, <1>10 DEF Terminate, Crash, ProcessEnds, TypeOK
<1>11. CASE OnCommitted
  <2>1. Whole(Root)
    BY <1>11 DEF OnCommitted, IInv, Files, Stepping, Seated
  <2> QED
    BY <1>1, <1>3, <1>4, <1>5, <1>11, <2>1 DEF OnCommitted, ProcessEnds, TypeOK
<1>12. ASSUME NEW j \in Job, BootFinalize(j)
       PROVE  TypeOK'
  <2>1. Whole(Root)
    BY <1>12 DEF BootFinalize, IInv, Files, Stepping, Seated
  <2> QED
    BY <1>1, <1>3, <1>4, <1>5, <1>12, <2>1 DEF BootFinalize, Reject, TypeOK
<1>13. CASE Edit \/ ScriptStep
  BY <1>1, <1>4, <1>5, <1>13 DEF Edit, ScriptStep, TypeOK, process
<1>14. ASSUME NEW j \in Job, PrepareStart(j) \/ SnapshotBegin(j)
       PROVE  TypeOK'
  <2>1. fs[Root] \in Tree
    BY <1>14 DEF PrepareStart, SnapshotBegin, IInv, Files, Serving, Whole
  <2> QED
    BY <1>1, <1>4, <1>5, <1>14, <2>1
       DEF PrepareStart, SnapshotBegin, TypeOK, process
<1>15. ASSUME NEW j \in Job, \/ PrepareDone(j) \/ PrepareFail(j) \/ Confirm(j)
                             \/ Schedule(j) \/ Refuse(j) \/ Expire(j)
                             \/ MaintainClear(j)
       PROVE  TypeOK'
  BY <1>1, <1>4, <1>5, <1>15
     DEF PrepareDone, PrepareFail, Confirm, Schedule, Refuse, Expire,
         MaintainClear, TypeOK, process, durable, Steady
<1> QED
  BY <1>6, <1>7, <1>8, <1>9, <1>10, <1>11, <1>12, <1>13, <1>14, <1>15
     DEF Next, Advance, Request

----------------------------------------------------------------------------
(* The workspace is whole *)

\* The root and the artifacts the invariant speaks of.
Trees_ == {"backup", "committed", "staging"}
KeepsTrees ==
    /\ fs'[Root] = fs[Root]
    /\ \A j \in Job, a \in Trees_ : fs'[At(j, a)] = fs[At(j, a)]

\* A tree leaves one path for another, and nothing else changes.
Moves(from, to) ==
    /\ fs[to] = None
    /\ \A p \in Path : fs'[p] = IF p = from THEN None
                                ELSE IF p = to THEN fs[from] ELSE fs[p]

LEMMA MovesTo ==
    ASSUME TypeOK, NEW p \in Path, NEW q \in Path, p # q, Move(p, q)
    PROVE  Moves(p, q)
  BY MoveAt DEF Moves

\* The steps that touch none of these trees.
LEMMA KeepSteps ==
    ASSUME IInv,
           \/ UNCHANGED fs
           \/ ProcessEnds
           \/ exec = "mark" /\ fs' = [fs EXCEPT ![At(cur, "marker")] = Mark]
           \/ \E k \in Job, a \in Artifact \ Trees_, v \in {Partial, None} :
                Tidies(k, a, v)
    PROVE  KeepsTrees
<1>1. CASE UNCHANGED fs
  BY <1>1 DEF KeepsTrees
<1>2. CASE ProcessEnds
  BY <1>2, EndsAt DEF KeepsTrees, IInv, Trees_, Artifact
<1>3. CASE exec = "mark" /\ fs' = [fs EXCEPT ![At(cur, "marker")] = Mark]
  BY <1>3, Paths DEF KeepsTrees, IInv, TypeOK, Trees_, Artifact
<1>4. ASSUME NEW k \in Job, NEW a \in Artifact \ Trees_,
             NEW v \in {Partial, None}, Tidies(k, a, v)
      PROVE  KeepsTrees
  <2>1. \A p \in Path : p # At(k, a) => fs'[p] = fs[p]
    BY <1>4 DEF Tidies, IInv, TypeOK
  <2>2. \A j \in Job, b \in Trees_ : At(j, b) \in Path /\ At(j, b) # At(k, a)
    BY Paths DEF Trees_, Artifact
  <2>3. Root \in Path /\ Root # At(k, a)
    BY Paths
  <2> QED
    BY <2>1, <2>2, <2>3 DEF KeepsTrees
<1> QED
  BY <1>1, <1>2, <1>3, <1>4

LEMMA KeptFiles ==
    ASSUME Files, KeepsTrees
    PROVE  Files' /\ Backups' = Backups
  BY DEF Files, KeepsTrees, Backups, Exists, Whole, Trees_, Tree, Staged

\* The recovery is over only when no backup is left.
LEMMA RecoveredWhole ==
    ASSUME IInv, Recovered
    PROVE  Backups = {} /\ Whole(Root) /\ fs' = fs
<1>1. \A j \in Backups : ~Reinstating(j, script)
  BY DEF Recovered, Reinstating, MovesAside, PutsBack
<1>2. Backups = {}
  BY <1>1 DEF Recovered, IInv, Scripted
<1>3. Whole(Root) /\ Exists(Root)
  BY <1>2, Trees DEF IInv, Files, Whole, Exists
<1> QED
  BY <1>2, <1>3 DEF Recovered, Adopted

\* What the swap, its undoing and the commit do to the trees.
OthersKeep(k, artifacts) ==
    \A j \in Job, a \in Trees_ :
        j # k \/ a \notin artifacts => fs'[At(j, a)] = fs[At(j, a)]

LEMMA MoveSteps ==
    ASSUME TypeOK, NEW k \in Job
    PROVE  /\ Move(Root, At(k, "backup")) =>
                /\ fs'[Root] = None /\ fs'[At(k, "backup")] = fs[Root]
                /\ fs[At(k, "backup")] = None
                /\ OthersKeep(k, {"backup"})
           /\ Move(At(k, "staging"), Root) =>
                /\ fs'[Root] = fs[At(k, "staging")]
                /\ fs'[At(k, "staging")] = None /\ fs[Root] = None
                /\ OthersKeep(k, {"staging"})
           /\ Move(At(k, "backup"), Root) =>
                /\ fs'[Root] = fs[At(k, "backup")]
                /\ fs'[At(k, "backup")] = None /\ fs[Root] = None
                /\ OthersKeep(k, {"backup"})
           /\ Move(At(k, "committed"), Root) =>
                /\ fs'[Root] = fs[At(k, "committed")]
                /\ fs'[At(k, "committed")] = None /\ fs[Root] = None
                /\ OthersKeep(k, {"committed"})
           /\ Move(At(k, "backup"), At(k, "committed")) =>
                /\ fs'[Root] = fs[Root] /\ fs[At(k, "committed")] = None
                /\ fs'[At(k, "committed")] = fs[At(k, "backup")]
                /\ fs'[At(k, "backup")] = None
                /\ OthersKeep(k, {"backup", "committed"})
           /\ \A a \in Artifact \ Trees_ : Move(Root, At(k, a)) =>
                fs'[Root] = None /\ OthersKeep(k, {})
<1>1. /\ Root \in Path
      /\ \A j \in Job, a \in Artifact : At(j, a) \in Path /\ At(j, a) # Root
      /\ \A a, b \in Artifact : a # b => At(k, a) # At(k, b)
      /\ \A a \in Trees_ : a \in Artifact
      /\ {"backup", "committed", "staging"} \subseteq Artifact
  BY Paths DEF Trees_, Artifact
<1>2. ASSUME Move(Root, At(k, "backup"))
      PROVE  /\ fs'[Root] = None /\ fs'[At(k, "backup")] = fs[Root]
             /\ fs[At(k, "backup")] = None
             /\ OthersKeep(k, {"backup"})
  <2>1. Moves(Root, At(k, "backup"))
    BY <1>1, <1>2, MovesTo
  <2> QED
    BY <1>1, <2>1 DEF Moves, OthersKeep
<1>3. ASSUME Move(At(k, "staging"), Root)
      PROVE  /\ fs'[Root] = fs[At(k, "staging")]
             /\ fs'[At(k, "staging")] = None /\ fs[Root] = None
             /\ OthersKeep(k, {"staging"})
  <2>1. Moves(At(k, "staging"), Root)
    BY <1>1, <1>3, MovesTo
  <2> QED
    BY <1>1, <2>1 DEF Moves, OthersKeep
<1>4. ASSUME Move(At(k, "backup"), Root)
      PROVE  /\ fs'[Root] = fs[At(k, "backup")]
             /\ fs'[At(k, "backup")] = None /\ fs[Root] = None
             /\ OthersKeep(k, {"backup"})
  <2>1. Moves(At(k, "backup"), Root)
    BY <1>1, <1>4, MovesTo
  <2> QED
    BY <1>1, <2>1 DEF Moves, OthersKeep
<1>5. ASSUME Move(At(k, "committed"), Root)
      PROVE  /\ fs'[Root] = fs[At(k, "committed")]
             /\ fs'[At(k, "committed")] = None /\ fs[Root] = None
             /\ OthersKeep(k, {"committed"})
  <2>1. Moves(At(k, "committed"), Root)
    BY <1>1, <1>5, MovesTo
  <2> QED
    BY <1>1, <2>1 DEF Moves, OthersKeep
<1>6. ASSUME Move(At(k, "backup"), At(k, "committed"))
      PROVE  /\ fs'[Root] = fs[Root] /\ fs[At(k, "committed")] = None
             /\ fs'[At(k, "committed")] = fs[At(k, "backup")]
             /\ fs'[At(k, "backup")] = None
             /\ OthersKeep(k, {"backup", "committed"})
  <2>1. Moves(At(k, "backup"), At(k, "committed"))
    BY <1>1, <1>6, MovesTo
  <2> QED
    BY <1>1, <2>1 DEF Moves, OthersKeep
<1>7. ASSUME NEW a \in Artifact \ Trees_, Move(Root, At(k, a))
      PROVE  fs'[Root] = None /\ OthersKeep(k, {})
  <2>1. Moves(Root, At(k, a))
    BY <1>1, <1>7, MovesTo
  <2> QED
    BY <1>1, <2>1 DEF Moves, OthersKeep
<1> QED
  BY <1>2, <1>3, <1>4, <1>5, <1>6, <1>7

\* One tree or artifact of a job is written or removed.
LEMMA WriteSteps ==
    ASSUME TypeOK, NEW k \in Job, NEW a \in Trees_, NEW v,
           fs' = [fs EXCEPT ![At(k, a)] = v]
    PROVE  /\ fs'[Root] = fs[Root] /\ fs'[At(k, a)] = v
           /\ OthersKeep(k, {a})
<1>1. /\ \A j \in Job, b \in Trees_ : At(j, b) \in Path /\ At(j, b) # Root
      /\ Root \in Path
  BY Paths DEF Trees_, Artifact
<1>2. \A p \in Path : fs'[p] = IF p = At(k, a) THEN v ELSE fs[p]
  BY DEF TypeOK
<1> QED
  BY <1>1, <1>2 DEF OthersKeep

LEMMA PrepareStep ==
    ASSUME IInv, NEW k \in Job, PrepareStart(k)
    PROVE  /\ fs'[Root] = fs[Root] /\ fs'[At(k, "staging")] = Partial
           /\ fs'[At(k, "backup")] = None /\ fs'[At(k, "committed")] = None
           /\ OthersKeep(k, Trees_)
           /\ k \notin Backups
<1>1. /\ \A j \in Job, b \in Trees_ : At(j, b) \in Path /\ At(j, b) # Root
      /\ Root \in Path /\ Trees_ = {"backup", "committed", "staging"}
  BY Paths DEF Trees_, Artifact
<1>2. \A p \in Path : fs'[p] = IF p[1] # k THEN fs[p]
                               ELSE IF p[2] = "staging" THEN Partial ELSE None
  BY DEF PrepareStart
<1>3. fs'[Root] = fs[Root]
  BY <1>1, <1>2, Trees
<1>4. OthersKeep(k, Trees_)
  BY <1>1, <1>2 DEF OthersKeep
<1>5. k \notin Backups
  BY DEF PrepareStart, IInv, Named, BackupIsNamed
<1> QED
  BY <1>1, <1>2, <1>3, <1>4, <1>5

\* Every step keeps the trees, or changes them like this.
FileForm ==
    \/ KeepsTrees
    \/ Edit /\ fs'[Root] \in Tree /\ Backups = {}
          /\ \A j \in Job : OthersKeep(j, {})
    \/ exec = "restore" /\ \A j \in Job : OthersKeep(j, {})          \* Clears
    \/ \E k \in Job :
         \/ PrepareStart(k)
         \/ \E v \in {None, Partial, Staged(k)} :
               /\ fs'[Root] = fs[Root] /\ fs'[At(k, "staging")] = v
               /\ OthersKeep(k, {"staging"})
         \/ \E v \in {None, Partial} :
               /\ fs'[Root] = fs[Root] /\ fs'[At(k, "committed")] = v
               /\ OthersKeep(k, {"committed"})
               /\ v = None \/ Whole(At(k, "committed"))
         \/ SwapOut /\ k = cur /\ Backups = {} /\ Move(Root, At(k, "backup"))
         \/ SwapIn /\ k = cur /\ Backups = {k} /\ Move(At(k, "staging"), Root)
         \/ Commit /\ k = cur /\ Move(At(k, "backup"), At(k, "committed"))
         \/ k \in Backups /\ Move(At(k, "backup"), Root)
         \/ Returns(k)
         \/ \E a \in Artifact \ Trees_ :
               k \in Backups /\ Move(Root, At(k, a))

LEMMA FileForms ==
    ASSUME IInv, [Next]_vars
    PROVE  FileForm
<1>1. TypeOK
  BY DEF IInv
<1>2. CASE fs' = fs
  BY <1>2, KeepSteps DEF FileForm
<1>3. CASE OnCommitted \/ Terminate \/ Crash
  BY <1>3, KeepSteps DEF OnCommitted, Terminate, Crash, FileForm
<1>4. CASE SwapOut
  BY <1>4, <1>2, CurIsAJob DEF SwapOut, FileForm, IInv, Stepping, Seated
<1>5. CASE SwapIn
  BY <1>5, <1>2, CurIsAJob DEF SwapIn, FileForm, IInv, Stepping
<1>6. CASE SwapBack
  BY <1>6, <1>2, CurIsAJob DEF SwapBack, FileForm, IInv, Stepping
<1>7. CASE Commit
  BY <1>7, <1>2, CurIsAJob DEF Commit, FileForm
<1>8. CASE MarkRollback
  BY <1>8, <1>2, KeepSteps DEF MarkRollback, FileForm
<1>9. CASE Unseat
  BY <1>9, <1>2, CurIsAJob
     DEF Unseat, FileForm, IInv, Stepping, Artifact, Trees_
<1>10. CASE Restore
  BY <1>10, <1>2, CurIsAJob DEF Restore, FileForm, IInv, Stepping
<1>11. CASE Recovered
  BY <1>11, <1>2, RecoveredWhole
<1>12. CASE ScriptStep
  <2>1. ScriptForm
    BY <1>12, ScriptForms
  <2>2. ASSUME NEW k \in Job, NEW a \in Artifact \ {"backup"},
               NEW v \in {Partial, None}, Tidies(k, a, v)
        PROVE  FileForm
    <3>1. CASE a \notin Trees_
      BY <2>2, <3>1, KeepSteps DEF FileForm
    <3>2. CASE a \in Trees_
      <4>1. a = "staging" \/ a = "committed"
        BY <3>2 DEF Trees_
      <4>2. /\ fs'[Root] = fs[Root] /\ fs'[At(k, a)] = v
            /\ OthersKeep(k, {a}) /\ v \in {None, Partial}
            /\ v = None \/ Whole(At(k, a))
        BY <1>1, <2>2, <3>2, WriteSteps DEF Tidies
      <4> QED
        BY <2>2, <4>1, <4>2 DEF FileForm
    <3> QED
      BY <3>1, <3>2
  <2>3. ASSUME NEW v \in {Partial, None}, Clears(v)
        PROVE  FileForm
    <3>1. \A j \in Job : OthersKeep(j, {})
      BY <1>1, <2>3, Paths DEF Clears, OthersKeep, TypeOK, Trees_, Artifact
    <3> QED
      BY <2>3, <3>1 DEF FileForm, Clears
  <2>4. ASSUME NEW k \in Backups, Move(Root, At(k, "interrupted"))
        PROVE  FileForm
    BY <2>4 DEF FileForm, Backups, Artifact, Trees_
  <2>5. ASSUME NEW k \in Backups, Move(At(k, "backup"), Root)
        PROVE  FileForm
    BY <2>5 DEF FileForm, Backups
  <2>6. ASSUME NEW k \in Job, Returns(k)
        PROVE  FileForm
    BY <2>6 DEF FileForm
  <2> QED
    BY <1>2, <2>1, <2>2, <2>3, <2>4, <2>5, <2>6
       DEF ScriptForm, Records, Backups, Artifact
<1>13. CASE Edit
  <2>1. fs'[Root] \in Tree
    <3>1. [fs[Root] EXCEPT !.rev = @ + 1] \in Tree
      BY <1>13, BoundsAssumption DEF Edit, Whole, Tree
    <3>2. fs'[Root] = [fs[Root] EXCEPT !.rev = @ + 1]
      BY <1>1, <1>13, Paths DEF Edit, TypeOK
    <3> QED
      BY <3>1, <3>2
  <2>2. \A j \in Job : OthersKeep(j, {})
    <3>1. \A p \in Path : p # Root => fs'[p] = fs[p]
      BY <1>1, <1>13 DEF Edit, TypeOK
    <3>2. \A j \in Job, a \in Trees_ : At(j, a) \in Path /\ At(j, a) # Root
      BY Paths DEF Artifact, Trees_
    <3> QED
      BY <3>1, <3>2 DEF OthersKeep
  <2> QED
    BY <1>13, <2>1, <2>2 DEF FileForm, Edit, IInv, Serving
<1>14. ASSUME NEW j \in Job, PrepareStart(j)
       PROVE  FileForm
  BY <1>14 DEF FileForm
<1>15. ASSUME NEW j \in Job, \/ PrepareDone(j) \/ PrepareFail(j)
                             \/ Schedule(j) \/ Refuse(j)
       PROVE  FileForm
  <2>1. fs' = fs \/ \E v \in {None, Partial, Staged(j)} :
                       fs' = [fs EXCEPT ![At(j, "staging")] = v]
    BY <1>15 DEF PrepareDone, PrepareFail, Schedule, Refuse, Staged
  <2> QED
    BY <1>1, <1>2, <2>1, WriteSteps DEF FileForm, Trees_
<1>16. CASE \/ Drain \/ Stop \/ Reset \/ Restart \/ OnSucceeded \/ Release
            \/ ResetBack \/ Relaunch \/ OnFailed \/ Boot \/ BootReset
            \/ BootAcknowledge \/ ScriptThrows
            \/ \E j \in Job : \/ Recover(j) \/ BootFinalize(j) \/ Confirm(j)
                              \/ SnapshotBegin(j) \/ Expire(j) \/ MaintainClear(j)
  <2>1. fs' = fs
    BY <1>16 DEF Drain, Stop, Reset, Restart, OnSucceeded, Release, ResetBack,
                 Relaunch, OnFailed, Boot, BootReset, BootAcknowledge,
                 ScriptThrows, Recover, BootFinalize, Confirm, SnapshotBegin,
                 Expire, MaintainClear, durable
  <2> QED
    BY <1>2, <2>1
<1> QED
  BY <1>2, <1>3, <1>4, <1>5, <1>6, <1>7, <1>8, <1>9, <1>10, <1>11, <1>12,
     <1>13, <1>14, <1>15, <1>16 DEF Next, Advance, Request, vars

LEMMA FilesStep ==
    ASSUME IInv, [Next]_vars
    PROVE  Files'
<1>1. TypeOK /\ Files /\ Named
  BY DEF IInv
<1>2. \A j \in Job : OthersKeep(j, {}) =>
         \A i \in Job, a \in Trees_ : fs'[At(i, a)] = fs[At(i, a)]
  BY DEF OthersKeep
<1>3. CASE KeepsTrees
  BY <1>1, <1>3, KeptFiles
<1>4. CASE /\ fs'[Root] \in Tree /\ Backups = {}
           /\ \A j \in Job : OthersKeep(j, {})
  BY <1>1, <1>2, <1>4
     DEF Files, Backups, Exists, Whole, OthersKeep, Trees_, Tree, Staged
<1>5. CASE exec = "restore" /\ \A j \in Job : OthersKeep(j, {})
  <2>1. Backups # {}
    BY <1>5 DEF IInv, Stepping
  <2> QED
    BY <1>1, <1>2, <1>5, <2>1
       DEF Files, Backups, Exists, Whole, OthersKeep, Trees_, Tree, Staged
<1>6. ASSUME NEW k \in Job, PrepareStart(k)
      PROVE  Files'
  <2>1. Backups' = Backups
    BY <1>6, PrepareStep DEF IInv, OthersKeep, Backups, Exists, Trees_
  <2> QED
    BY <1>1, <1>6, <2>1, PrepareStep
       DEF Files, Backups, Whole, Exists, OthersKeep, Trees_, Tree, Staged
<1>7. ASSUME NEW k \in Job, NEW v \in {None, Partial, Staged(k)},
             fs'[Root] = fs[Root], fs'[At(k, "staging")] = v,
             OthersKeep(k, {"staging"})
      PROVE  Files'
  <2>1. Backups' = Backups
    BY <1>7 DEF OthersKeep, Backups, Exists, Trees_
  <2> QED
    BY <1>1, <1>7, <2>1
       DEF Files, Backups, Whole, OthersKeep, Trees_, Tree, Staged
<1>8. ASSUME NEW k \in Job, fs'[Root] = fs[Root], OthersKeep(k, {"committed"})
      PROVE  Files'
  <2>1. Backups' = Backups
    BY <1>8 DEF OthersKeep, Backups, Exists, Trees_
  <2> QED
    BY <1>1, <1>8, <2>1
       DEF Files, Backups, Whole, OthersKeep, Trees_, Tree, Staged
<1>9. ASSUME NEW k \in Job, Backups = {}, Move(Root, At(k, "backup"))
      PROVE  Files'
  <2>0. /\ fs'[Root] = None /\ fs'[At(k, "backup")] = fs[Root]
        /\ OthersKeep(k, {"backup"})
    BY <1>1, <1>9, MoveSteps
  <2>1. Backups' = {k}
    BY <1>1, <1>9, <2>0, Trees
       DEF Files, OthersKeep, Backups, Exists, Trees_, Whole
  <2> QED
    BY <1>1, <1>9, <2>1, <2>0
       DEF Files, Backups, Whole, OthersKeep, Trees_, Tree, Staged
<1>10. ASSUME NEW k \in Job, Backups = {k}, Move(At(k, "staging"), Root)
       PROVE  Files'
  <2>0. /\ fs'[Root] = fs[At(k, "staging")] /\ fs'[At(k, "staging")] = None
        /\ OthersKeep(k, {"staging"})
    BY <1>1, <1>10, MoveSteps
  <2>1. Backups' = {k}
    BY <1>1, <1>10, <2>0 DEF OthersKeep, Backups, Exists, Trees_
  <2> QED
    BY <1>1, <1>10, <2>1, <2>0
       DEF Files, Backups, Whole, OthersKeep, Trees_, Tree, Staged
<1>11. ASSUME Commit, cur \in Job, Move(At(cur, "backup"), At(cur, "committed"))
       PROVE  Files'
  <2>0. /\ fs'[Root] = fs[Root] /\ fs'[At(cur, "backup")] = None
        /\ OthersKeep(cur, {"backup", "committed"})
    BY <1>1, <1>11, MoveSteps
  <2>1. Backups = {cur} /\ fs[Root] = Staged(cur)
    BY <1>11 DEF Commit, IInv, Stepping, Swapped
  <2>2. Backups' = {}
    BY <1>1, <1>11, <2>1, <2>0 DEF OthersKeep, Backups, Exists, Trees_
  <2>3. Whole(Root)'
    BY <1>1, <1>11, <2>1, <2>0, Trees DEF Whole, Tree
  <2> QED
    BY <1>1, <1>11, <2>2, <2>3, <2>0
       DEF Files, OthersKeep, Trees_, Staged
<1>12. ASSUME NEW k \in Backups, Move(At(k, "backup"), Root)
       PROVE  Files'
  <2>0. /\ fs'[Root] = fs[At(k, "backup")] /\ fs'[At(k, "backup")] = None
        /\ OthersKeep(k, {"backup"})
    BY <1>1, <1>12, MoveSteps DEF Backups
  <2>1. k \in Job /\ Backups = {k} /\ Whole(At(k, "backup"))
    BY <1>1, <1>12 DEF Files, Backups
  <2>2. Backups' = {}
    BY <1>1, <1>12, <2>1, <2>0 DEF OthersKeep, Backups, Exists, Trees_
  <2>3. Whole(Root)'
    BY <1>1, <1>12, <2>1, <2>0 DEF Whole, Tree
  <2> QED
    BY <1>1, <1>12, <2>1, <2>2, <2>3, <2>0
       DEF Files, OthersKeep, Trees_, Staged
<1>13. ASSUME NEW k \in Job, Returns(k)
       PROVE  Files'
  <2>0. fs[Root] = None /\ OthersKeep(k, {"committed"})
    BY <1>1, <1>13, MoveSteps DEF Returns
  <2>1. fs[Root] = None
    BY <1>1, <1>13, <2>0 DEF Returns
  <2>2. Backups # {}
    BY <1>1, <2>1, Trees DEF Files, Whole
  <2>3. Backups' = Backups
    BY <1>1, <1>13, <2>0 DEF Returns, OthersKeep, Backups, Exists, Trees_
  <2> QED
    BY <1>1, <1>13, <2>2, <2>3, <2>0
       DEF Returns, Files, Backups, Whole, OthersKeep, Trees_, Tree, Staged
<1>14. ASSUME NEW k \in Job, NEW a \in Artifact \ Trees_, k \in Backups,
              Move(Root, At(k, a))
       PROVE  Files'
  <2>0. OthersKeep(k, {})
    BY <1>1, <1>14, MoveSteps
  <2>1. Backups' = Backups
    BY <1>1, <1>14, <2>0 DEF OthersKeep, Backups, Exists, Trees_
  <2> QED
    BY <1>1, <1>14, <2>1, <2>0
       DEF Files, Backups, Whole, OthersKeep, Trees_, Tree, Staged
<1> QED
  BY <1>3, <1>4, <1>5, <1>6, <1>7, <1>8, <1>9, <1>10, <1>11, <1>12, <1>13,
     <1>14, FileForms DEF FileForm

----------------------------------------------------------------------------
(* The records name the backups *)

\* Nothing the records are compared with has changed, but for the record of
\* one job without a backup.
LEMMA NamedKept ==
    ASSUME Named, Backups' \subseteq Backups,
           \A j \in Backups' : fs'[At(j, "backup")] = fs[At(j, "backup")],
           \A j \in Job :
             /\ fs'[At(j, "committed")] \in {fs[At(j, "committed")], None, Partial}
             /\ Exists(At(j, "committed"))' => Exists(At(j, "committed")),
           kind' = kind, reviewed' = reviewed, done' = done,
           \A j \in Job :
               \/ job'[j] = job[j]
               \/ /\ j \in Backups => /\ job'[j].state = "replacing"
                                      /\ job'[j].prepared
                  /\ job'[j].state = "complete" => j \in done
                  /\ job'[j].state = "uploaded" => job[j].state = "uploaded"
    PROVE  Named'
<1>1. \A j \in Backups : j \in Job
  BY DEF Backups
<1>2. BackupIsNamed'
  BY <1>1 DEF Named, BackupIsNamed
<1>3. CompleteWasCommitted'
  BY DEF Named, CompleteWasCommitted
<1>4. ReplacesWhatWasReviewed'
  BY Trees DEF Named, ReplacesWhatWasReviewed, Whole, Tree
<1>5. \A j \in Backups' : kind'[j] # "import"
                            => fs'[At(j, "backup")] = reviewed'[j]
  BY DEF Named
<1>6. ASSUME NEW j \in Job, Exists(At(j, "committed"))'
      PROVE  j \in done' /\ j \notin Backups' /\ job'[j].state # "uploaded"
  <2>1. j \in done /\ j \notin Backups /\ job[j].state # "uploaded"
    BY <1>6 DEF Named
  <2> QED
    BY <2>1
<1> QED
  BY <1>2, <1>3, <1>4, <1>5, <1>6 DEF Named

\* What a step does to the records, the reviewed trees and the commit points.
RecordForm ==
    /\ kind' = kind
    /\ \A j \in Job :
         \/ job'[j] = job[j]
         \/ /\ j \in Backups => job'[j].state = "replacing" /\ job'[j].prepared
            /\ job'[j].state = "complete" => j \in done
            /\ job'[j].state = "uploaded" => job[j].state = "uploaded"

LEMMA PatchAt ==
    ASSUME TypeOK, NEW k \in Job, NEW u, Patched(k, u)
    PROVE  /\ \A i \in Job \ {k} : job'[i] = job[i]
           /\ job'[k].state \in {u, job[k].state}
<1>1. PICK r \in {[job[k] EXCEPT !.state = u],
                  [job[k] EXCEPT !.state = u, !.prepared = TRUE],
                  [job[k] EXCEPT !.state = u, !.cleanup = TRUE],
                  [job[k] EXCEPT !.state = u, !.reset = "no"],
                  [job[k] EXCEPT !.reset = "no"]} : job' = [job EXCEPT ![k] = r]
  BY DEF Patched
<1>2. job[k] \in Record
  BY DEF TypeOK
<1>3. r.state \in {u, job[k].state}
  BY <1>2 DEF Record
<1> QED
  BY <1>1, <1>3 DEF TypeOK

LEMMA RecordForms ==
    ASSUME IInv, [Next]_vars
    PROVE  RecordForm
<1>1. /\ TypeOK /\ job \in [Job -> Record]
      /\ \A j \in Job : job[j].state = "complete" => j \in done
      /\ \A j \in Backups : job[j].state = "replacing" /\ job[j].prepared
  BY DEF IInv, TypeOK, Named, CompleteWasCommitted, BackupIsNamed
<1>2. kind' = kind
  BY DEF Next, Advance, Request, Drain, Stop, SwapOut, SwapIn, SwapBack, Reset,
         Restart, Commit, OnCommitted, OnSucceeded, Release, MarkRollback,
         Unseat, Restore, ResetBack, Relaunch, OnFailed, Terminate, Boot,
         Recovered, BootReset, BootAcknowledge, Recover, BootFinalize, Edit,
         PrepareStart, PrepareDone, PrepareFail, Confirm, SnapshotBegin,
         Schedule, Refuse, Expire, MaintainClear, ScriptStep, ScriptThrows,
         Crash, vars, Steady
<1>3. CASE job' = job
  BY <1>2, <1>3 DEF RecordForm
<1>4. ASSUME NEW k \in Job, PrepareStart(k) \/ PrepareDone(k) \/ PrepareFail(k)
      PROVE  RecordForm
  <2>1. k \notin Backups
    BY <1>1, <1>4 DEF PrepareStart, PrepareDone, PrepareFail
  <2>2. /\ \A i \in Job \ {k} : job'[i] = job[i]
        /\ job'[k].state \in {"preparing", "ready", "failed"}
    <3>1. CASE PrepareStart(k)
      <4>1. Patched(k, "preparing")
        BY <3>1 DEF PrepareStart, Patched
      <4>2. job'[k].state = "preparing"
        BY <1>1, <3>1 DEF PrepareStart, Record
      <4> QED
        BY <1>1, <4>1, <4>2, PatchAt
    <3>2. CASE PrepareDone(k)
      <4>1. Patched(k, "ready") /\ job[k].state = "preparing"
        BY <1>1, <3>2 DEF PrepareDone, Patched
      <4> QED
        BY <1>1, <4>1, PatchAt
    <3>3. CASE PrepareFail(k)
      <4>1. Patched(k, "failed") /\ job[k].state = "preparing"
        BY <3>3 DEF PrepareFail, Patched
      <4> QED
        BY <1>1, <4>1, PatchAt
    <3> QED
      BY <1>4, <3>1, <3>2, <3>3
  <2> QED
    BY <1>2, <2>1, <2>2 DEF RecordForm
<1>5. ASSUME NEW k \in Job, Confirm(k) \/ SnapshotBegin(k)
      PROVE  RecordForm
  <2>1. /\ \A i \in Job \ {k} : job'[i] = job[i]
        /\ job'[k].state = "replacing" /\ job'[k].prepared
    BY <1>1, <1>5 DEF Confirm, SnapshotBegin, Record
  <2> QED
    BY <1>2, <2>1 DEF RecordForm
<1>6. ASSUME NEW k \in Job, Refuse(k)
      PROVE  RecordForm
  <2>1. Backups = {}
    BY <1>6 DEF Refuse, IInv, Waiting, Serving, Stepping, Seated
  <2>2. /\ \A i \in Job \ {k} : job'[i] = job[i]
        /\ job'[k].state \in {"ready", "failed", "replacing"}
    <3>1. Patched(k, "failed") \/ Patched(k, "ready")
      BY <1>1, <1>6 DEF Refuse, Patched
    <3>2. job[k].state = "replacing"
      BY <1>6 DEF Refuse, IInv, Waiting
    <3> QED
      BY <1>1, <3>1, <3>2, PatchAt
  <2> QED
    BY <1>2, <2>1, <2>2 DEF RecordForm
<1>7. CASE OnCommitted
  <2>1. Backups = {} /\ cur \in done /\ cur \in Job
    BY <1>7, CurIsAJob DEF OnCommitted, IInv, Stepping, Seated
  <2>2. /\ \A i \in Job \ {cur} : job'[i] = job[i]
        /\ job'[cur].state \in {job[cur].state, "complete"}
    <3>1. job' = job \/ Patched(cur, "complete")
      BY <1>1, <1>7, <2>1 DEF OnCommitted, Patched
    <3> QED
      BY <1>1, <2>1, <3>1, PatchAt
  <2> QED
    BY <1>1, <1>2, <2>1, <2>2 DEF RecordForm
<1>8. CASE Terminate
  <2>1. cur \in Job
    BY <1>8, CurIsAJob DEF Terminate
  <2> QED
    BY <1>1, <1>2, <1>8, <2>1 DEF Terminate, RecordForm
<1>9. CASE BootAcknowledge
  <2>1. CASE job' = job
    BY <1>3, <2>1
  <2>2. ASSUME NEW k \in Job, job' = [job EXCEPT ![k].reset = "no"]
        PROVE  RecordForm
    <3>1. /\ \A i \in Job \ {k} : job'[i] = job[i]
          /\ job'[k].state = job[k].state /\ job'[k].prepared = job[k].prepared
      BY <1>1, <2>2 DEF Record
    <3> QED
      BY <1>1, <1>2, <3>1 DEF RecordForm
  <2> QED
    BY <1>1, <1>9, <2>1, <2>2 DEF BootAcknowledge, TypeOK
<1>10. CASE ScriptStep
  <2>1. \/ job' = job
        \/ \E k \in Job, r \in Record : k \notin Backups /\ Records(k, r)
    BY <1>10, ScriptForms DEF ScriptForm, Tidies, Returns, Clears, Tidying
  <2> QED
    BY <1>1, <1>2, <1>3, <2>1 DEF Records, RecordForm
<1>11. CASE \/ Drain \/ Stop \/ SwapOut \/ SwapIn \/ SwapBack \/ Reset
            \/ Restart \/ Commit \/ OnSucceeded \/ Release \/ MarkRollback
            \/ Unseat \/ Restore \/ ResetBack \/ Relaunch \/ OnFailed \/ Boot
            \/ Recovered \/ BootReset \/ ScriptThrows \/ Crash \/ Edit
            \/ \E j \in Job : \/ Recover(j) \/ BootFinalize(j) \/ Schedule(j)
                              \/ Expire(j) \/ MaintainClear(j)
  <2>1. job' = job
    BY <1>11 DEF Drain, Stop, SwapOut, SwapIn, SwapBack, Reset, Restart,
                 Commit, OnSucceeded, Release, MarkRollback, Unseat, Restore,
                 ResetBack, Relaunch, OnFailed, Boot, Recovered, BootReset,
                 ScriptThrows, Crash, Edit, Recover, BootFinalize, Schedule,
                 Expire, MaintainClear, durable
  <2> QED
    BY <1>3, <2>1
<1> QED
  BY <1>3, <1>4, <1>5, <1>6, <1>7, <1>8, <1>9, <1>10, <1>11
     DEF Next, Advance, Request, vars

LEMMA NamedStep ==
    ASSUME IInv, [Next]_vars
    PROVE  Named'
<1>1. /\ TypeOK /\ Files /\ Named /\ RecordForm
      /\ \A j \in Job : \/ job'[j] = job[j]
                        \/ job'[j].state = "uploaded" => job[j].state = "uploaded"
  BY RecordForms DEF IInv, RecordForm
<1>2. CASE /\ reviewed' = reviewed /\ done' = done
           /\ Backups' \subseteq Backups
           /\ \A j \in Backups' : fs'[At(j, "backup")] = fs[At(j, "backup")]
           /\ \A j \in Job :
                /\ fs'[At(j, "committed")] \in {fs[At(j, "committed")], None, Partial}
                /\ Exists(At(j, "committed"))' => Exists(At(j, "committed"))
  BY <1>1, <1>2, NamedKept DEF RecordForm
<1>3. ASSUME NEW k \in Job, PrepareStart(k)
      PROVE  Named'
  <2>1. Backups' = Backups /\ k \notin Backups
    BY <1>3, PrepareStep DEF OthersKeep, Backups, Exists, Trees_
  <2>2. /\ \A j \in Job \ {k} : /\ reviewed'[j] = reviewed[j]
                                /\ job'[j] = job[j]
                                /\ fs'[At(j, "committed")] = fs[At(j, "committed")]
                                /\ fs'[At(j, "backup")] = fs[At(j, "backup")]
        /\ job'[k].state = "preparing" /\ fs'[At(k, "committed")] = None
        /\ done' = done /\ kind' = kind
    <3>1. OthersKeep(k, Trees_) /\ fs'[At(k, "committed")] = None
      BY <1>3, PrepareStep
    <3>2. \A j \in Job \ {k} : /\ fs'[At(j, "committed")] = fs[At(j, "committed")]
                               /\ fs'[At(j, "backup")] = fs[At(j, "backup")]
      BY <3>1 DEF OthersKeep, Trees_
    <3>3. /\ \A j \in Job \ {k} : reviewed'[j] = reviewed[j] /\ job'[j] = job[j]
          /\ done' = done /\ kind' = kind
      BY <1>1, <1>3 DEF PrepareStart, TypeOK
    <3>4. job'[k].state = "preparing"
      BY <1>1, <1>3 DEF PrepareStart, TypeOK, Record
    <3> QED
      BY <3>1, <3>2, <3>3, <3>4
  <2>3. BackupIsNamed' /\ CompleteWasCommitted'
    <3>1. \A j \in Job : j \in Backups' => j \in Backups /\ job'[j] = job[j]
      BY <2>1, <2>2
    <3>2. Backups' \subseteq Job
      BY DEF Backups
    <3>3. BackupIsNamed'
      BY <1>1, <3>1, <3>2 DEF Named, BackupIsNamed
    <3>4. CompleteWasCommitted'
      BY <1>1, <2>2 DEF Named, CompleteWasCommitted
    <3> QED
      BY <3>3, <3>4
  <2>4. ReplacesWhatWasReviewed'
    BY <1>1, <2>2, Trees
       DEF Named, ReplacesWhatWasReviewed, Whole, Tree
  <2> QED
    <3>1. \A j \in Backups' : kind'[j] # "import"
                                => fs'[At(j, "backup")] = reviewed'[j]
      BY <1>1, <2>1, <2>2 DEF Named, Backups
    <3>2. \A j \in Job : Exists(At(j, "committed"))'
                            => /\ j \in done' /\ j \notin Backups'
                               /\ job'[j].state # "uploaded"
      BY <1>1, <2>1, <2>2 DEF Named, Exists
    <3> QED
      BY <2>3, <2>4, <3>1, <3>2 DEF Named
<1>4. ASSUME NEW k \in Job, SnapshotBegin(k)
      PROVE  Named'
  <2>1. /\ Backups = {} /\ fs' = fs /\ done' = done /\ kind' = kind
        /\ \A j \in Job \ {k} : reviewed'[j] = reviewed[j] /\ job'[j] = job[j]
        /\ job'[k].state = "replacing" /\ ~Exists(At(k, "committed"))
    BY <1>1, <1>4 DEF SnapshotBegin, IInv, Serving, Named, TypeOK, Record
  <2>2. Backups' = {}
    BY <2>1 DEF Backups, Exists
  <2>3. ReplacesWhatWasReviewed'
    BY <1>1, <2>1, Trees
       DEF Named, ReplacesWhatWasReviewed, Whole, Tree, Exists
  <2> QED
    BY <1>1, <2>1, <2>2, <2>3
       DEF Named, Exists, BackupIsNamed, CompleteWasCommitted
<1>5. ASSUME Commit, cur \in Job, Move(At(cur, "backup"), At(cur, "committed")),
             fs' # fs
      PROVE  Named'
  <2>1. Backups = {cur}
    BY <1>5 DEF Commit, IInv, Stepping, Swapped
  <2>2. /\ fs'[At(cur, "committed")] = fs[At(cur, "backup")]
        /\ fs'[At(cur, "backup")] = None
        /\ OthersKeep(cur, {"backup", "committed"})
    BY <1>1, <1>5, MoveSteps
  <2>3. /\ done' = done \cup {cur} /\ job' = job /\ kind' = kind
        /\ reviewed' = reviewed
    BY <1>5 DEF Commit, Steady
  <2>4. Backups' = {}
    BY <2>1, <2>2 DEF OthersKeep, Backups, Exists, Trees_
  <2>5. job[cur].state = "replacing"
    BY <1>1, <2>1 DEF Named, BackupIsNamed
  <2>6. ReplacesWhatWasReviewed'
    BY <1>1, <1>5, <2>1, <2>2, <2>3
       DEF Named, ReplacesWhatWasReviewed, Whole, Tree, OthersKeep, Trees_
  <2>7. \A j \in Job : Exists(At(j, "committed"))'
                          => j \in done' /\ job[j].state # "uploaded"
    BY <1>1, <1>5, <2>2, <2>3, <2>5 DEF Named, Exists, OthersKeep, Trees_
  <2> QED
    BY <1>1, <2>3, <2>4, <2>6, <2>7
       DEF Named, BackupIsNamed, CompleteWasCommitted
<1>6. ASSUME SwapOut, cur \in Job, Backups = {}, Move(Root, At(cur, "backup"))
      PROVE  Named'
  <2>1. CASE fs' = fs
    BY <1>2, <1>6, <2>1 DEF SwapOut, Steady, Backups, Exists
  <2>2. CASE fs' # fs
    <3>1. Admissible(cur) /\ job' = job /\ kind' = kind /\ reviewed' = reviewed
          /\ done' = done /\ job[cur].state = "replacing" /\ job[cur].prepared
      BY <1>6, <2>2 DEF SwapOut, Steady, IInv, Stepping
    <3>2. /\ fs'[At(cur, "backup")] = fs[Root]
          /\ OthersKeep(cur, {"backup"})
      BY <1>1, <1>6, MoveSteps
    <3>3. Backups' \subseteq {cur}
      BY <1>6, <3>2 DEF OthersKeep, Backups, Exists, Trees_
    <3>4. \A j \in Job : fs'[At(j, "committed")] = fs[At(j, "committed")]
      BY <3>2 DEF OthersKeep, Trees_
    <3>5. kind[cur] = "import" \/ fs[Root] = reviewed[cur]
      BY <3>1 DEF Admissible
    <3>6. ~Exists(At(cur, "committed"))
      BY <3>1 DEF Admissible
    <3>7. BackupIsNamed' /\ CompleteWasCommitted' /\ ReplacesWhatWasReviewed'
      BY <1>1, <3>1, <3>3, <3>4
         DEF Named, BackupIsNamed, CompleteWasCommitted,
             ReplacesWhatWasReviewed, Whole, Tree
    <3> QED
      BY <1>1, <3>1, <3>2, <3>3, <3>4, <3>5, <3>6, <3>7 DEF Named, Exists
  <2> QED
    BY <2>1, <2>2
<1>7. \/ reviewed' = reviewed /\ done' = done
      \/ \E k \in Job : PrepareStart(k) \/ SnapshotBegin(k)
      \/ Commit /\ fs' # fs
  <2>1. CASE Commit
    <3>1. reviewed' = reviewed /\ (fs' = fs => done' = done)
      <4>1. cur \in Job /\ Backups = {cur}
        BY <2>1, CurIsAJob DEF Commit, IInv, Stepping, Swapped
      <4>2. ASSUME Move(At(cur, "backup"), At(cur, "committed"))
            PROVE  fs' # fs
        <5>1. fs'[At(cur, "backup")] = None
          BY <1>1, <4>1, <4>2, MoveSteps
        <5> QED
          BY <4>1, <5>1 DEF Backups, Exists
      <4> QED
        BY <2>1, <4>2 DEF Commit, Steady
    <3> QED
      BY <2>1, <3>1
  <2> QED
    BY <2>1
       DEF Next, Advance, Request, Drain, Stop, SwapOut, SwapIn, SwapBack, Reset,
         Restart, OnCommitted, OnSucceeded, Release, MarkRollback,
         Unseat, Restore, ResetBack, Relaunch, OnFailed, Terminate, Boot,
         Recovered, BootReset, BootAcknowledge, Recover, BootFinalize, Edit,
         PrepareDone, PrepareFail, Confirm, Schedule, Refuse, Expire,
         MaintainClear, ScriptStep, ScriptThrows, Crash, vars, Steady, durable
<1>8. ASSUME reviewed' = reviewed, done' = done
      PROVE  Named'
  <2>1. CASE \/ KeepsTrees
             \/ \A j \in Job : OthersKeep(j, {})
             \/ \E k \in Job : OthersKeep(k, {"staging"})
    <3>1. \A j \in Job : /\ fs'[At(j, "backup")] = fs[At(j, "backup")]
                         /\ fs'[At(j, "committed")] = fs[At(j, "committed")]
      BY <2>1 DEF KeepsTrees, OthersKeep, Trees_
    <3> QED
      BY <1>2, <1>8, <3>1 DEF Backups, Exists
  <2>2. ASSUME NEW k \in Job, NEW v \in {None, Partial},
               fs'[At(k, "committed")] = v, OthersKeep(k, {"committed"}),
               v = None \/ Whole(At(k, "committed"))
        PROVE  Named'
    <3>1. /\ \A j \in Job : fs'[At(j, "backup")] = fs[At(j, "backup")]
          /\ \A j \in Job \ {k} : fs'[At(j, "committed")] = fs[At(j, "committed")]
      BY <2>2 DEF OthersKeep, Trees_
    <3>2. Whole(At(k, "committed")) => Exists(At(k, "committed"))
      BY Trees DEF Whole, Exists
    <3> QED
      BY <1>2, <1>8, <2>2, <3>1, <3>2 DEF Backups, Exists
  <2>3. ASSUME NEW k \in Job, Move(At(k, "staging"), Root)
        PROVE  Named'
    <3>1. OthersKeep(k, {"staging"})
      BY <1>1, <2>3, MoveSteps
    <3> QED
      BY <2>1, <3>1
  <2>4. ASSUME NEW k \in Backups, Move(At(k, "backup"), Root)
        PROVE  Named'
    <3>1. fs'[At(k, "backup")] = None /\ OthersKeep(k, {"backup"}) /\ k \in Job
      BY <1>1, <2>4, MoveSteps DEF Backups
    <3>2. /\ \A j \in Job : fs'[At(j, "committed")] = fs[At(j, "committed")]
          /\ \A j \in Job \ {k} : fs'[At(j, "backup")] = fs[At(j, "backup")]
      BY <3>1 DEF OthersKeep, Trees_
    <3> QED
      BY <1>2, <1>8, <3>1, <3>2 DEF Backups, Exists
  <2>5. ASSUME NEW k \in Job, Returns(k)
        PROVE  Named'
    <3>1. fs'[At(k, "committed")] = None /\ OthersKeep(k, {"committed"})
      BY <1>1, <2>5, MoveSteps DEF Returns
    <3> QED
      BY <2>2, <3>1
  <2>6. ASSUME NEW k \in Job, NEW a \in Artifact \ Trees_, Move(Root, At(k, a))
        PROVE  Named'
    <3>1. OthersKeep(k, {})
      BY <1>1, <2>6, MoveSteps
    <3>2. \A j \in Job : OthersKeep(j, {})
      BY <3>1 DEF OthersKeep
    <3> QED
      BY <2>1, <3>2
  <2>7. CASE Commit
    <3>1. CASE fs' = fs
      BY <2>1, <3>1 DEF KeepsTrees
    <3>2. CASE fs' # fs
      BY <1>5, <2>7, <3>2, CurIsAJob DEF Commit
    <3> QED
      BY <3>1, <3>2
  <2> QED
    BY <1>3, <1>6, <2>1, <2>2, <2>3, <2>4, <2>5, <2>6, <2>7, FileForms
       DEF FileForm
<1> QED
  BY <1>3, <1>4, <1>5, <1>7, <1>8, CurIsAJob, FileForms DEF FileForm, Commit

----------------------------------------------------------------------------
(* Where the executor is *)

\* While requests are served the records of the jobs change, and the executor
\* stays where it is.
LEMMA RequestsKeep ==
    ASSUME IInv, UNCHANGED <<server, exec, cur, done, kind>>,
           server = "open" \/ exec = "stop", Backups' = {},
           \A j \in Job : \/ job'[j] = job[j]
                          \/ /\ job'[j].state # "uploaded"
                             /\ j = cur => exec \in {"idle", "release"}
    PROVE  Serving' /\ Stepping'
<1>1. /\ Serving /\ Stepping
      /\ exec \in {"idle", "drain", "succeed", "release", "stop"}
      /\ server = "open" \/ server = "closed" \/ exec = "stop"
  BY DEF IInv, Serving
<1>2. exec = "stop" => server \notin {"open", "stopped", "booting", "down", "rejected"}
  BY <1>1 DEF Serving
<1>3. Serving'
  BY <1>1, <1>2 DEF Serving
<1>4. cur \in Job /\ exec \notin {"idle", "release"} => job'[cur] = job[cur]
  OBVIOUS
<1>5. exec \notin Quiet \cup Swapped \cup {"unseat", "restore", "swapIn",
                                           "swapBack", "relaunch"}
  BY <1>1 DEF Quiet, Swapped
<1>6. cur \in Job => job'[cur].state # "uploaded"
  BY <1>1, <1>4 DEF Stepping
<1>7. exec \in {"drain", "stop", "committed", "succeed"} => job'[cur] = job[cur]
  BY <1>1, <1>4 DEF Stepping, Serving
<1> QED
  BY <1>1, <1>3, <1>5, <1>6, <1>7 DEF Stepping, Quiet, Swapped

\* What the requests write in the record of their job.
RecordKept(k) == \A j \in Job \ {k} : job'[j] = job[j]

LEMMA RequestRecords ==
    ASSUME TypeOK, NEW k \in Job
    PROVE  /\ PrepareStart(k) => RecordKept(k) /\ job'[k].state = "preparing"
           /\ PrepareDone(k) => RecordKept(k) /\ job'[k].state = "ready"
           /\ PrepareFail(k) => RecordKept(k) /\ job'[k].state = "failed"
           /\ Confirm(k) => /\ RecordKept(k) /\ job'[k].state = "replacing"
                            /\ job'[k].prepared
           /\ SnapshotBegin(k) => /\ RecordKept(k)
                                  /\ job'[k].state = "replacing"
                                  /\ job'[k].prepared
           /\ Refuse(k) => RecordKept(k) /\ job'[k].state \in {"ready", "failed"}
<1>1. job \in [Job -> Record] /\ job[k] \in Record
  BY DEF TypeOK
<1>2. PrepareStart(k) => RecordKept(k) /\ job'[k].state = "preparing"
  BY <1>1 DEF PrepareStart, RecordKept, Record
<1>3. PrepareDone(k) => RecordKept(k) /\ job'[k].state = "ready"
  BY <1>1 DEF PrepareDone, RecordKept, Record
<1>4. PrepareFail(k) => RecordKept(k) /\ job'[k].state = "failed"
  BY <1>1 DEF PrepareFail, RecordKept, Record
<1>5. Confirm(k) => RecordKept(k) /\ job'[k].state = "replacing" /\ job'[k].prepared
  BY <1>1 DEF Confirm, RecordKept, Record
<1>6. SnapshotBegin(k)
        => RecordKept(k) /\ job'[k].state = "replacing" /\ job'[k].prepared
  BY <1>1 DEF SnapshotBegin, RecordKept, Record
<1>7. Refuse(k) => RecordKept(k) /\ job'[k].state \in {"ready", "failed"}
  BY <1>1 DEF Refuse, RecordKept, Record
<1> QED
  BY <1>2, <1>3, <1>4, <1>5, <1>6, <1>7

\* No request takes or makes a backup.
LEMMA RequestFiles ==
    ASSUME IInv, Request, Backups = {}
    PROVE  Backups' = {}
<1>1. TypeOK
  BY DEF IInv
<1>2. CASE Edit
  <2>1. \A p \in Path : p # Root => fs'[p] = fs[p]
    BY <1>1, <1>2 DEF Edit, TypeOK
  <2>2. \A j \in Job : At(j, "backup") \in Path /\ At(j, "backup") # Root
    BY Paths DEF Artifact
  <2>3. \A j \in Job : fs'[At(j, "backup")] = fs[At(j, "backup")]
    BY <2>1, <2>2
  <2> QED
    BY <2>3 DEF Backups, Exists
<1>3. ASSUME NEW k \in Job, PrepareStart(k)
      PROVE  Backups' = {}
  BY <1>3, PrepareStep DEF OthersKeep, Backups, Exists, Trees_
<1>4. ASSUME NEW k \in Job, \/ PrepareDone(k) \/ PrepareFail(k)
                            \/ Schedule(k) \/ Refuse(k)
      PROVE  Backups' = {}
  <2>1. fs' = fs \/ \E v : fs' = [fs EXCEPT ![At(k, "staging")] = v]
    BY <1>4 DEF PrepareDone, PrepareFail, Schedule, Refuse
  <2>2. fs' = fs \/ OthersKeep(k, {"staging"})
    BY <1>1, <2>1, WriteSteps DEF Trees_
  <2> QED
    BY <2>2 DEF OthersKeep, Backups, Exists, Trees_
<1>5. ASSUME NEW k \in Job, \/ Confirm(k) \/ SnapshotBegin(k) \/ Expire(k)
                            \/ MaintainClear(k)
      PROVE  Backups' = {}
  <2>1. fs' = fs
    BY <1>5 DEF Confirm, SnapshotBegin, Expire, MaintainClear, durable
  <2> QED
    BY <2>1 DEF Backups, Exists
<1> QED
  BY <1>2, <1>3, <1>4, <1>5 DEF Request

LEMMA RequestPhases ==
    ASSUME IInv, Request
    PROVE  Serving' /\ Stepping'
<1>1. /\ TypeOK /\ Waiting /\ Serving /\ Stepping /\ Named /\ Files
  BY DEF IInv
<1>2. server = "open" => Backups = {} /\ Backups' = {}
  BY <1>1, RequestFiles DEF Serving
<1>3. CASE Edit
  BY <1>2, <1>3, RequestsKeep DEF Edit, process
<1>4. ASSUME NEW k \in Job, PrepareStart(k)
      PROVE  Serving' /\ Stepping'
  <2>1. RecordKept(k) /\ job'[k].state = "preparing"
    BY <1>1, <1>4, RequestRecords
  <2> QED
    BY <1>2, <1>4, <2>1, RequestsKeep DEF PrepareStart, process, RecordKept
<1>5. ASSUME NEW k \in Job, PrepareDone(k) \/ PrepareFail(k)
      PROVE  Serving' /\ Stepping'
  <2>1. RecordKept(k) /\ job'[k].state \in {"ready", "failed"}
    BY <1>1, <1>5, RequestRecords
  <2>2. server = "open" /\ job[k].state = "preparing"
    BY <1>5 DEF PrepareDone, PrepareFail
  <2>3. k = cur => exec \in {"idle", "release"}
    BY <1>1, <2>2 DEF Serving, Stepping
  <2> QED
    BY <1>2, <1>5, <2>1, <2>2, <2>3, RequestsKeep
       DEF PrepareDone, PrepareFail, process, RecordKept
<1>6. ASSUME NEW k \in Job, Confirm(k) \/ SnapshotBegin(k)
      PROVE  Serving' /\ Stepping'
  <2>1. RecordKept(k) /\ job'[k].state = "replacing"
    BY <1>1, <1>6, RequestRecords
  <2>2. server = "open" /\ job[k].state \in {"ready", "uploaded"}
    BY <1>6 DEF Confirm, SnapshotBegin
  <2>3. k = cur => exec \in {"idle", "release"}
    BY <1>1, <2>2 DEF Serving, Stepping
  <2> QED
    BY <1>2, <1>6, <2>1, <2>2, <2>3, RequestsKeep
       DEF Confirm, SnapshotBegin, RecordKept
<1>7. ASSUME NEW k \in Job, Refuse(k)
      PROVE  Serving' /\ Stepping'
  <2>1. RecordKept(k) /\ job'[k].state \in {"ready", "failed"}
    BY <1>1, <1>7, RequestRecords
  <2>2. k \in pending /\ (server = "open" \/ exec = "stop")
    BY <1>1, <1>7 DEF Refuse, Waiting
  <2>3. k = cur => exec \in {"idle", "release"}
    BY <1>1, <2>2 DEF Serving, Waiting
  <2>4. Backups' = {}
    BY <1>1, <1>7, <2>2, RequestFiles DEF Serving, Stepping, Seated, Request
  <2> QED
    BY <1>7, <2>1, <2>2, <2>3, <2>4, RequestsKeep DEF Refuse, RecordKept
<1>8. ASSUME NEW k \in Job, Expire(k) \/ MaintainClear(k)
      PROVE  Serving' /\ Stepping'
  BY <1>2, <1>8, RequestsKeep DEF Expire, MaintainClear, durable, Steady
<1>9. ASSUME NEW k \in Job, Schedule(k)
      PROVE  Serving' /\ Stepping'
  <2>1. /\ cur = None /\ k \in pending /\ cur' = k /\ exec' = "drain"
        /\ server' = server /\ job' = job /\ kind' = kind /\ done' = done
    BY <1>9 DEF Schedule
  <2>2. job[k].state = "replacing" /\ job[k].prepared
    BY <1>1, <2>1 DEF Waiting
  <2>3. exec = "stop" => cur \in Job
    BY <1>1 DEF Stepping, Serving
  <2>4. server = "open"
    BY <1>1, <2>1, <2>3, Trees DEF Waiting
  <2> QED
    BY <1>2, <2>1, <2>2, <2>4, <1>9 DEF Serving, Stepping, Quiet, Seated, Swapped
<1> QED
  BY <1>3, <1>4, <1>5, <1>6, <1>7, <1>8, <1>9 DEF Request

\* A process that has ended leaves nothing of the executor behind.
LEMMA EndedPhases ==
    ASSUME IInv, ProcessEnds
    PROVE  Serving' /\ Stepping'
  BY EndsAt, Trees DEF IInv, Serving, Stepping, Quiet, Seated, Swapped

\* What the server does, by where the executor is.
LEMMA ServerAt ==
    ASSUME IInv
    PROVE  /\ exec \in {"swapOut", "swapIn", "swapBack", "reset", "restart",
                       "unseat", "restore", "resetBack", "incomplete"}
                => server = "stopped"
           /\ exec \in {"stop", "commit", "committed", "report"}
                => server = "closed"
           /\ exec \in {"mark", "relaunch"} => server \in {"stopped", "closed"}
           /\ exec \in {"drain", "succeed"} => server = "open"
           /\ exec = "release" => server \in {"open", "closed"}
           /\ exec \in {"bootReset", "bootFinalize"} => server = "booting"
           /\ exec = "recover" => server \in {"stopped", "booting"}
           /\ exec = "idle" => server \in {"open", "down", "rejected"}
  BY DEF IInv, TypeOK, Serving

LEMMA AdvancePhases ==
    ASSUME IInv, Advance
    PROVE  Serving' /\ Stepping'
<1> USE DEF Quiet, Seated, Swapped
<1>1. /\ TypeOK /\ Serving /\ Stepping /\ Named /\ Files
      /\ \A j \in Job : job[j].state = "complete" => j \in done
  BY DEF IInv, Named, CompleteWasCommitted
<1>c. exec \in {"drain", "stop", "swapOut", "swapIn", "swapBack", "reset",
                "restart", "commit", "committed", "succeed", "release",
                "mark", "unseat", "restore", "resetBack", "relaunch",
                "report", "incomplete"} => cur \in Job
  BY <1>1, ServerAt DEF Stepping
<1>2. UNCHANGED fs => /\ Backups' = Backups
                      /\ Exists(Root)' = Exists(Root)
                      /\ \A j \in Job, a \in Artifact : fs'[At(j, a)] = fs[At(j, a)]
  BY DEF Backups, Exists
<1>3. CASE Drain
  BY <1>1, <1>2, <1>3 DEF Drain, Serving, Stepping, Steady, durable
<1>4. CASE Stop
  BY <1>1, <1>2, <1>4 DEF Stop, Serving, Stepping, Steady, durable
<1>5. CASE SwapOut
  <2>1. /\ cur \in Job /\ Backups = {} /\ server = "stopped" /\ script = <<>>
        /\ job[cur].state = "replacing"
        /\ UNCHANGED <<job, kind, done, server, cur, script>>
    BY <1>1, <1>5, <1>c, ServerAt DEF SwapOut, Steady, Stepping
  <2>2. CASE exec' = "relaunch" /\ fs' = fs
    BY <1>1, <1>2, <2>1, <2>2 DEF Serving, Stepping
  <2>3. CASE /\ exec' = "swapIn" /\ Move(Root, At(cur, "backup"))
             /\ Admissible(cur)
    <3>1. /\ fs'[Root] = None /\ fs'[At(cur, "backup")] = fs[Root]
          /\ OthersKeep(cur, {"backup"}) /\ Whole(Root)
      BY <1>1, <2>1, <2>3, MoveSteps DEF Files
    <3>2. Backups' = {cur} /\ ~Exists(Root)'
      BY <2>1, <3>1, Trees DEF OthersKeep, Backups, Exists, Trees_, Whole
    <3>3. fs[At(cur, "staging")] = Staged(cur)
      BY <1>1, <2>1, <2>3, Trees DEF Admissible, Whole, Files
    <3>4. fs'[At(cur, "staging")] = Staged(cur)
      BY <2>1, <3>1, <3>3 DEF OthersKeep, Trees_
    <3> QED
      BY <1>1, <2>1, <2>3, <3>2, <3>4 DEF Serving, Stepping, Staged
  <2> QED
    BY <1>5, <2>2, <2>3 DEF SwapOut
<1>6. CASE SwapIn
  <2>1. /\ cur \in Job /\ Backups = {cur} /\ server = "stopped" /\ script = <<>>
        /\ ~Exists(Root) /\ fs[At(cur, "staging")] = Staged(cur)
        /\ UNCHANGED <<job, kind, done, server, cur, script>>
    BY <1>1, <1>6, <1>c, ServerAt DEF SwapIn, Steady, Stepping
  <2>2. CASE exec' = "swapBack" /\ fs' = fs
    BY <1>1, <1>2, <2>1, <2>2 DEF Serving, Stepping
  <2>3. CASE exec' = "reset" /\ Move(At(cur, "staging"), Root)
    <3>1. fs'[Root] = Staged(cur) /\ OthersKeep(cur, {"staging"})
      BY <1>1, <2>1, <2>3, MoveSteps
    <3>2. Backups' = {cur}
      BY <2>1, <3>1 DEF OthersKeep, Backups, Exists, Trees_
    <3> QED
      BY <1>1, <2>1, <2>3, <3>1, <3>2 DEF Serving, Stepping, Staged
  <2> QED
    BY <1>6, <2>2, <2>3 DEF SwapIn
<1>7. CASE SwapBack
  <2>1. /\ cur \in Job /\ Backups = {cur} /\ server = "stopped" /\ script = <<>>
        /\ ~Exists(Root) /\ exec' = "relaunch"
        /\ UNCHANGED <<job, kind, done, server, cur, script>>
    BY <1>1, <1>7, <1>c, ServerAt DEF SwapBack, Steady, Stepping
  <2>2. CASE fs' = fs
    BY <1>1, <1>2, <2>1, <2>2 DEF Serving, Stepping
  <2>3. CASE Move(At(cur, "backup"), Root)
    <3>1. fs'[At(cur, "backup")] = None /\ OthersKeep(cur, {"backup"})
      BY <1>1, <2>1, <2>3, MoveSteps
    <3>2. Backups' = {}
      BY <2>1, <3>1 DEF OthersKeep, Backups, Exists, Trees_
    <3> QED
      BY <1>1, <2>1, <3>2 DEF Serving, Stepping
  <2> QED
    BY <1>7, <2>2, <2>3 DEF SwapBack
<1>8. CASE Reset \/ Restart
  BY <1>1, <1>2, <1>8
     DEF Reset, Restart, ResetDerived, Serving, Stepping, Steady, durable
<1>9. CASE Commit
  <2>1. /\ cur \in Job /\ Backups = {cur} /\ server = "closed" /\ script = <<>>
        /\ job[cur].state = "replacing" /\ job[cur].prepared
        /\ UNCHANGED <<job, kind, server, cur, script>>
    BY <1>1, <1>9, <1>c, ServerAt
       DEF Commit, Steady, Stepping, Named, BackupIsNamed
  <2>2. CASE exec' = "mark" /\ UNCHANGED <<fs, done>>
    BY <1>1, <1>2, <2>1, <2>2, <1>9 DEF Serving, Stepping, Commit
  <2>3. CASE /\ exec' = "committed" /\ done' = done \cup {cur}
             /\ Move(At(cur, "backup"), At(cur, "committed"))
    <3>1. /\ fs'[At(cur, "backup")] = None
          /\ OthersKeep(cur, {"backup", "committed"})
      BY <1>1, <2>1, <2>3, MoveSteps
    <3>2. Backups' = {}
      BY <2>1, <3>1 DEF OthersKeep, Backups, Exists, Trees_
    <3> QED
      BY <1>1, <2>1, <2>3, <3>2 DEF Serving, Stepping
  <2> QED
    BY <1>9, <2>2, <2>3 DEF Commit
<1>10. CASE OnCommitted
  <2>1. /\ cur \in Job /\ Backups = {} /\ server = "closed" /\ script = <<>>
        /\ job[cur].state = "replacing" /\ job[cur].prepared /\ cur \in done
        /\ kind' = kind /\ done' = done
    BY <1>1, <1>10, <1>c, ServerAt DEF OnCommitted, Stepping, Serving
  <2>2. CASE ProcessEnds
    BY <2>2, EndedPhases
  <2>3. CASE /\ exec' = "succeed" /\ server' = "open" /\ UNCHANGED <<fs, cur, script>>
             /\ job' = CASE kind[cur] = "import" -> job
                         [] kind[cur] = "clear" ->
                              [job EXCEPT ![cur].state = "complete",
                                          ![cur].cleanup = TRUE]
                         [] OTHER -> [job EXCEPT ![cur].reset = "no"]
    <3>1. /\ job'[cur].state \in {"replacing", "complete"}
          /\ kind[cur] = "clear" => job'[cur].state = "complete"
      <4>1. job[cur] \in Record /\ job \in [Job -> Record]
        BY <1>1, <2>1 DEF TypeOK
      <4> QED
        BY <2>1, <2>3, <4>1 DEF Record
    <3> QED
      BY <1>1, <1>2, <2>1, <2>3, <3>1 DEF Serving, Stepping
  <2> QED
    BY <1>10, <2>2, <2>3 DEF OnCommitted
<1>11. CASE OnSucceeded \/ OnFailed
  <2>1. /\ exec' = "release" /\ server \in {"open", "closed"}
        /\ cur \in Job /\ Backups = {}
        /\ UNCHANGED <<fs, job, kind, done, server, cur>>
    BY <1>1, <1>11, <1>c, ServerAt
       DEF OnSucceeded, OnFailed, Steady, Stepping, durable
  <2> QED
    BY <1>1, <1>2, <2>1 DEF Serving, Stepping
<1>12. CASE Release
  <2>1. /\ exec' = "idle" /\ server' = "open" /\ cur' = None /\ Backups = {}
        /\ UNCHANGED <<fs, job, kind, done>>
    BY <1>1, <1>12 DEF Release, Steady, Stepping, durable
  <2> QED
    BY <1>1, <1>2, <2>1, Trees DEF Serving, Stepping
<1>13. CASE MarkRollback
  <2>1. /\ cur \in Job /\ Backups = {cur} /\ script = <<>>
        /\ server' = "stopped" /\ exec' \in {"unseat", "incomplete"}
        /\ UNCHANGED <<job, kind, done, cur, script>>
    BY <1>1, <1>13, <1>c DEF MarkRollback, Steady, Stepping
  <2>2. KeepsTrees
    BY <1>13, KeepSteps DEF MarkRollback
  <2>3. Backups' = {cur}
    BY <2>1, <2>2 DEF KeepsTrees, Backups, Exists, Trees_
  <2> QED
    BY <1>1, <2>1, <2>3 DEF Serving, Stepping
<1>14. CASE Unseat
  <2>1. /\ cur \in Job /\ Backups = {cur} /\ server = "stopped"
        /\ exec' = "restore" /\ UNCHANGED <<job, kind, done, server, cur>>
    BY <1>1, <1>14, <1>c, ServerAt DEF Unseat, Steady, Stepping
  <2>2. fs' = fs \/ OthersKeep(cur, {})
    BY <1>1, <1>14, <2>1, MoveSteps DEF Unseat, Artifact, Trees_
  <2>3. Backups' = {cur}
    BY <2>1, <2>2 DEF OthersKeep, Backups, Exists, Trees_
  <2> QED
    BY <1>1, <2>1, <2>3 DEF Serving, Stepping
<1>15. CASE Restore
  <2>1. /\ cur \in Job /\ Backups = {cur} /\ server = "stopped" /\ script = <<>>
        /\ UNCHANGED <<job, kind, done, server, cur>>
    BY <1>1, <1>15, <1>c, ServerAt DEF Restore, Steady, Stepping
  <2>2. CASE exec' = "incomplete" /\ UNCHANGED <<fs, script>>
    BY <1>1, <1>2, <2>1, <2>2 DEF Serving, Stepping
  <2>3. CASE exec' = "resetBack" /\ Move(At(cur, "backup"), Root)
    <3>1. fs'[At(cur, "backup")] = None /\ OthersKeep(cur, {"backup"})
      BY <1>1, <2>1, <2>3, MoveSteps
    <3>2. Backups' = {}
      BY <2>1, <3>1 DEF OthersKeep, Backups, Exists, Trees_
    <3> QED
      BY <1>1, <2>1, <2>3, <3>2 DEF Serving, Stepping
  <2> QED
    BY <1>15, <2>2, <2>3 DEF Restore
<1>16. CASE ResetBack
  <2>1. /\ cur \in Job /\ Backups = {} /\ server = "stopped" /\ script = <<>>
        /\ exec' \in {"relaunch", "incomplete"}
        /\ UNCHANGED <<fs, job, kind, done, server, cur, script>>
    BY <1>1, <1>16, <1>c, ServerAt DEF ResetBack, ResetDerived, Steady, Stepping
  <2> QED
    BY <1>1, <1>2, <2>1 DEF Serving, Stepping
<1>17. CASE Relaunch
  <2>1. /\ cur \in Job /\ script = <<>>
        /\ UNCHANGED <<fs, job, kind, done, cur, script>>
    BY <1>1, <1>17, <1>c DEF Relaunch, Stepping, durable
  <2>2. CASE server = "closed" /\ exec' = "report" /\ server' = server
    BY <1>1, <1>2, <1>17, <2>1, <2>2 DEF Relaunch, Serving, Stepping
  <2>3. CASE server = "stopped" /\ exec' = "recover" /\ server' = server
    BY <1>1, <1>2, <2>1, <2>3 DEF Serving, Stepping
  <2>4. CASE /\ server = "stopped" /\ Exists(Root)
             /\ \/ server' = "closed" /\ exec' = "report"
                \/ server' = server /\ exec' = "incomplete"
    <3>1. Backups = {}
      BY <1>1, <1>17, <2>4 DEF Relaunch, Stepping
    <3> QED
      BY <1>1, <1>2, <2>1, <2>4, <3>1 DEF Serving, Stepping
  <2> QED
    BY <1>17, <2>2, <2>3, <2>4 DEF Relaunch
<1>18. CASE Terminate
  BY <1>18, EndedPhases DEF Terminate
<1>19. CASE Boot
  <2>1. /\ server' = "booting" /\ exec' = "recover" /\ exec = "idle"
        /\ UNCHANGED <<fs, job, kind, done, cur, script>>
    BY <1>1, <1>19 DEF Boot, Serving, durable
  <2> QED
    BY <1>1, <1>2, <2>1 DEF Serving, Stepping
<1>20. ASSUME NEW j \in Job, Recover(j)
       PROVE  Serving' /\ Stepping'
  <2>1. /\ exec = "recover" /\ server \in {"stopped", "booting"}
        /\ UNCHANGED <<fs, job, kind, done, cur, server, exec>>
    BY <1>20, ServerAt DEF Recover, durable
  <2> QED
    BY <1>1, <1>2, <2>1 DEF Serving, Stepping
<1>21. CASE Recovered
  <2>1. Backups = {} /\ Whole(Root) /\ fs' = fs
    BY <1>21, RecoveredWhole
  <2>2. /\ exec = "recover" /\ server \in {"stopped", "booting"} /\ script = <<>>
        /\ UNCHANGED <<job, kind, done, cur, script>>
    BY <1>21, ServerAt DEF Recovered
  <2>3. \/ /\ server = "stopped" /\ server' = server
           /\ exec' \in {"relaunch", "incomplete"}
        \/ server = "booting" /\ server' = "open" /\ exec' = "idle"
        \/ server = "booting" /\ server' = server /\ exec' = "bootReset"
    BY <1>21 DEF Recovered
  <2> QED
    BY <1>1, <1>2, <2>1, <2>2, <2>3 DEF Serving, Stepping
<1>22. CASE \/ BootReset \/ BootAcknowledge \/ \E j \in Job : BootFinalize(j)
  <2>1. /\ exec \in {"bootReset", "bootFinalize"} /\ server = "booting"
        /\ Backups = {} /\ UNCHANGED <<fs, kind, done, cur>>
    BY <1>1, <1>22, ServerAt
       DEF BootReset, BootAcknowledge, BootFinalize, Stepping
  <2>2. \/ server' = server /\ exec' = "bootFinalize"
        \/ server' = "open" /\ exec' = "idle"
        \/ server' = "rejected" /\ exec' = "idle" /\ script' = <<>>
    BY <1>22, <2>1 DEF BootReset, BootAcknowledge, BootFinalize, Reject
  <2>3. \A j \in Job : job[j].state = job'[j].state
    <3>1. CASE job' = job
      BY <3>1
    <3>2. ASSUME NEW k \in Job, job' = [job EXCEPT ![k].reset = "no"]
          PROVE  \A j \in Job : job[j].state = job'[j].state
      BY <1>1, <3>2 DEF TypeOK, Record
    <3> QED
      BY <1>1, <1>22, <3>1, <3>2
         DEF BootReset, BootAcknowledge, BootFinalize, TypeOK
  <2> QED
    BY <1>1, <1>2, <2>1, <2>2, <2>3 DEF Serving, Stepping
<1> QED
  BY <1>3, <1>4, <1>5, <1>6, <1>7, <1>8, <1>9, <1>10, <1>11, <1>12, <1>13,
     <1>14, <1>15, <1>16, <1>17, <1>18, <1>19, <1>20, <1>21, <1>22 DEF Advance

\* A step of a script takes a backup only in a recovery, to put it back.
LEMMA ScriptFiles ==
    ASSUME IInv, ScriptStep
    PROVE  /\ exec # "recover" => Backups' = Backups
           /\ Backups' \subseteq Backups
<1>1. /\ TypeOK /\ Files /\ \A k \in Backups : k \in Job
  BY DEF IInv, Backups
<1>2. ASSUME NEW k \in Job, NEW a \in Artifact \ {"backup"}, NEW v,
             fs' = [fs EXCEPT ![At(k, a)] = v]
      PROVE  Backups' = Backups
  <2>1. \A p \in Path : p # At(k, a) => fs'[p] = fs[p]
    BY <1>1, <1>2 DEF TypeOK
  <2>2. \A j \in Job : At(j, "backup") \in Path /\ At(j, "backup") # At(k, a)
    BY Paths DEF Artifact
  <2> QED
    BY <2>1, <2>2 DEF Backups, Exists
<1>3. ASSUME NEW k \in Job, NEW a \in Artifact \ {"backup"},
             Move(Root, At(k, a)) \/ Returns(k)
      PROVE  Backups' = Backups
  <2>1. Root \in Path /\ At(k, a) \in Path /\ Root # At(k, a)
    BY Paths
  <2>4. Move(Root, At(k, a)) => Moves(Root, At(k, a))
    BY <1>1, <2>1, MovesTo
  <2>3. Returns(k) => OthersKeep(k, {"committed"})
    BY <1>1, MoveSteps DEF Returns
  <2>2. \A j \in Job : At(j, "backup") \in Path /\ At(j, "backup") # At(k, a)
                       /\ At(j, "backup") # Root
    BY Paths DEF Artifact
  <2> QED
    BY <1>3, <2>2, <2>3, <2>4 DEF OthersKeep, Moves, Backups, Exists, Trees_
<1>4. ASSUME NEW v, fs' = [fs EXCEPT ![Root] = v]
      PROVE  Backups' = Backups
  <2>1. \A j \in Job : At(j, "backup") \in Path /\ At(j, "backup") # Root
    BY Paths DEF Artifact
  <2> QED
    BY <1>1, <1>4, <2>1 DEF TypeOK, Backups, Exists
<1>5. ASSUME NEW k \in Job, Move(At(k, "backup"), Root)
      PROVE  Backups' \subseteq Backups
  <2>1. fs'[At(k, "backup")] = None /\ OthersKeep(k, {"backup"})
    BY <1>1, <1>5, MoveSteps
  <2> QED
    BY <2>1 DEF OthersKeep, Backups, Exists, Trees_
<1>6. fs' = fs => Backups' = Backups
  BY DEF Backups, Exists
<1>7. ASSUME NEW k \in Job, NEW a \in Artifact \ {"backup"}, NEW v, Tidies(k, a, v)
      PROVE  Backups' = Backups
  BY <1>2, <1>7 DEF Tidies
<1>8. ASSUME NEW k \in Job, NEW r, Records(k, r)
      PROVE  Backups' = Backups
  BY <1>6, <1>8 DEF Records
<1>9. ASSUME NEW v, Clears(v)
      PROVE  Backups' = Backups
  BY <1>4, <1>9 DEF Clears
<1>10. "interrupted" \in Artifact \ {"backup"}
  BY DEF Artifact
<1> QED
  BY <1>1, <1>3, <1>5, <1>7, <1>8, <1>9, <1>10, ScriptForms DEF ScriptForm

LEMMA ScriptPhases ==
    ASSUME IInv, ScriptStep
    PROVE  Serving' /\ Stepping'
<1>1. /\ TypeOK /\ Serving /\ Stepping
      /\ UNCHANGED <<server, exec, cur, done, kind>> /\ script # <<>>
  BY DEF IInv, ScriptStep
<1>2. /\ exec # "recover" => Backups' = Backups
      /\ Backups' \subseteq Backups
  BY ScriptFiles
<1>3. exec \notin Quiet
  BY <1>1 DEF Stepping
<1>4. \A j \in Job :
         \/ job'[j] = job[j]
         \/ /\ job'[j].state # "uploaded"
            /\ exec \in {"drain", "stop", "succeed"} => j # cur
  <2>1. \/ job' = job
        \/ \E k \in Job, r \in Record : Tidying(k) /\ Records(k, r)
    BY ScriptForms DEF ScriptForm, Tidies, Returns, Clears
  <2> QED
    BY <1>1, <2>1 DEF Records, Tidying, TypeOK
<1>5. Serving'
  BY <1>1, <1>2, <1>3 DEF Serving, Quiet
<1>6. exec \in {"idle", "drain", "stop", "succeed", "release", "restore",
                "resetBack", "recover", "bootFinalize"}
  BY <1>1, <1>3 DEF Serving, Quiet, TypeOK
<1>7. cur \in Job => job'[cur].state # "uploaded"
  BY <1>1, <1>4 DEF Stepping
<1>8. exec \in {"drain", "stop", "succeed"} => cur \in Job /\ job'[cur] = job[cur]
  BY <1>1, <1>4, ServerAt DEF Stepping
<1> QED
  BY <1>1, <1>2, <1>5, <1>6, <1>7, <1>8 DEF Stepping, Quiet, Seated, Swapped

LEMMA PhasesStep ==
    ASSUME IInv, [Next]_vars
    PROVE  Serving' /\ Stepping'
<1>1. /\ TypeOK /\ Serving /\ Stepping
  BY DEF IInv
<1>2. CASE UNCHANGED vars
  BY <1>1, <1>2 DEF vars, Serving, Stepping, Backups, Exists
<1>3. CASE ScriptThrows
  <2>1. /\ UNCHANGED <<fs, job, kind, done, cur>> /\ script # <<>>
        /\ script' = <<>>
        /\ \/ server = "booting" /\ server' = "rejected" /\ exec' = "idle"
           \/ server = "stopped" /\ server' = server /\ exec' = "incomplete"
           \/ server \in {"open", "closed"} /\ UNCHANGED <<server, exec>>
    BY <1>3 DEF ScriptThrows, Reject, durable
  <2>2. Backups' = Backups /\ Exists(Root)' = Exists(Root)
    BY <2>1 DEF Backups, Exists
  <2>3. server = "stopped" => cur \in Job
    BY <1>1, ServerAt DEF Serving, Stepping
  <2> QED
    BY <1>1, <2>1, <2>2, <2>3 DEF Serving, Stepping, Quiet, Seated, Swapped
<1>4. CASE Crash
  BY <1>4, EndedPhases DEF Crash
<1> QED
  BY <1>2, <1>3, <1>4, AdvancePhases, ScriptPhases, RequestPhases DEF Next

----------------------------------------------------------------------------
(* Confirmed jobs *)

LEMMA WaitingStep ==
    ASSUME IInv, [Next]_vars
    PROVE  Waiting'
<1>1. /\ TypeOK /\ Waiting /\ Serving /\ Stepping
  BY DEF IInv
<1>2. CASE pending' = {}
  BY <1>2 DEF Waiting
<1>3. CASE UNCHANGED vars
  BY <1>1, <1>3 DEF Waiting, vars
<1>4. CASE Drain
  BY <1>1, <1>4 DEF Drain, Waiting, Steady, durable
<1>5. CASE OnSucceeded \/ Release \/ OnFailed
  <2>1. /\ UNCHANGED <<pending, job>> /\ exec' \in {"release", "idle"}
        /\ server' = server \/ server' = "open"
    BY <1>5 DEF OnSucceeded, Release, OnFailed, Steady, durable
  <2>2. pending # {} => server' = "open"
    BY <1>1, <1>5, <2>1 DEF Waiting, OnSucceeded, Release, OnFailed
  <2> QED
    BY <1>1, <2>1, <2>2 DEF Waiting
<1>6. CASE \/ Stop \/ SwapOut \/ SwapIn \/ SwapBack \/ Reset \/ Restart
           \/ Commit \/ MarkRollback \/ Unseat \/ Restore \/ ResetBack
           \/ Relaunch \/ Boot \/ Recovered \/ BootReset \/ BootAcknowledge
           \/ \E j \in Job : Recover(j) \/ BootFinalize(j)
  <2>1. pending' = pending
    BY <1>6 DEF Stop, SwapOut, SwapIn, SwapBack, Reset, Restart, Commit,
                MarkRollback, Unseat, Restore, ResetBack, Relaunch, Boot,
                Recovered, BootReset, BootAcknowledge, Recover, BootFinalize,
                Steady
  <2>2. CASE Stop
    BY <1>2, <2>1, <2>2 DEF Stop
  <2>3. CASE ~Stop
    <3>1. exec \in {"swapOut", "swapIn", "swapBack", "reset", "restart",
                    "commit", "mark", "unseat", "restore", "resetBack",
                    "relaunch", "recover", "bootReset", "bootFinalize"}
          \/ server = "down"
      BY <1>6, <2>3 DEF SwapOut, SwapIn, SwapBack, Reset, Restart, Commit,
                MarkRollback, Unseat, Restore, ResetBack, Relaunch, Boot,
                Recovered, BootReset, BootAcknowledge, Recover, BootFinalize
    <3>2. pending = {}
      BY <1>1, <3>1, ServerAt DEF Waiting, Serving
    <3> QED
      BY <1>2, <2>1, <3>2
  <2> QED
    BY <2>2, <2>3
<1>7. CASE OnCommitted \/ Terminate \/ Crash
  <2>1. pending' = {} \/ (OnCommitted /\ pending' = pending)
    BY <1>7 DEF OnCommitted, Terminate, Crash, ProcessEnds
  <2>2. OnCommitted => pending = {}
    BY <1>1, ServerAt DEF OnCommitted, Waiting
  <2> QED
    BY <1>2, <2>1, <2>2
<1>8. CASE ScriptStep
  <2>1. \/ job' = job
        \/ \E k \in Job, r \in Record : Tidying(k) /\ Records(k, r)
    BY <1>8, ScriptForms DEF ScriptForm, Tidies, Returns, Clears
  <2>2. \A j \in pending : job'[j] = job[j]
    BY <1>1, <2>1 DEF Records, Tidying, TypeOK
  <2> QED
    BY <1>1, <1>8, <2>2 DEF ScriptStep, Waiting
<1>9. CASE ScriptThrows
  <2>1. UNCHANGED <<pending, cur, job>>
    BY <1>9 DEF ScriptThrows, durable
  <2>2. CASE server \in {"booting", "stopped"}
    <3>1. pending = {}
      BY <1>1, <2>2 DEF Waiting, Serving
    <3> QED
      BY <1>2, <2>1, <3>1
  <2>3. CASE server \in {"open", "closed"}
    BY <1>1, <1>9, <2>1, <2>3 DEF ScriptThrows, Reject, Waiting
  <2> QED
    BY <1>9, <2>2, <2>3 DEF ScriptThrows
<1>10. CASE Edit \/ \E k \in Job : Expire(k) \/ MaintainClear(k)
  BY <1>1, <1>10 DEF Edit, Expire, MaintainClear, Waiting, process, durable, Steady
<1>11. ASSUME NEW k \in Job, PrepareStart(k) \/ PrepareDone(k) \/ PrepareFail(k)
       PROVE  Waiting'
  <2>1. RecordKept(k) /\ UNCHANGED <<pending, server, exec, cur>>
    BY <1>1, <1>11, RequestRecords
       DEF PrepareStart, PrepareDone, PrepareFail, process
  <2>2. k \notin pending
    BY <1>1, <1>11 DEF PrepareStart, PrepareDone, PrepareFail, Waiting
  <2> QED
    BY <1>1, <2>1, <2>2 DEF RecordKept, Waiting, TypeOK
<1>12. ASSUME NEW k \in Job, Confirm(k) \/ SnapshotBegin(k)
       PROVE  Waiting'
  <2>1. /\ RecordKept(k) /\ job'[k].state = "replacing" /\ job'[k].prepared
        /\ UNCHANGED <<server, exec, cur>> /\ pending' = pending \cup {k}
        /\ server = "open"
    BY <1>1, <1>12, RequestRecords DEF Confirm, SnapshotBegin
  <2>2. job[k].state \in {"ready", "uploaded"}
    BY <1>12 DEF Confirm, SnapshotBegin
  <2>3. exec \in {"drain", "stop", "succeed"} => cur # k
    BY <1>1, <2>2 DEF Stepping
  <2> QED
    BY <1>1, <2>1, <2>3 DEF RecordKept, Waiting, TypeOK
<1>13. ASSUME NEW k \in Job, Schedule(k)
       PROVE  Waiting'
  <2>1. server = "open"
    <3>1. cur = None /\ k \in pending
      BY <1>13 DEF Schedule
    <3>2. exec = "stop" => cur \in Job
      BY <1>1, ServerAt DEF Stepping
    <3> QED
      BY <1>1, <3>1, <3>2, Trees DEF Waiting
  <2> QED
    BY <1>1, <1>13, <2>1 DEF Schedule, Waiting
<1>14. ASSUME NEW k \in Job, Refuse(k)
       PROVE  Waiting'
  <2>1. /\ RecordKept(k) /\ pending' = pending \ {k}
        /\ UNCHANGED <<server, exec, cur>>
    BY <1>1, <1>14, RequestRecords DEF Refuse
  <2> QED
    BY <1>1, <2>1 DEF RecordKept, Waiting, TypeOK
<1> QED
  BY <1>3, <1>4, <1>5, <1>6, <1>7, <1>8, <1>9, <1>10, <1>11, <1>12, <1>13,
     <1>14 DEF Next, Advance, Request

----------------------------------------------------------------------------
(* The scripts of the executor, of the recovery and of the clean-ups *)

LEMMA Cons ==
    ASSUME NEW S, NEW o \in S, NEW s \in Seq(S)
    PROVE  /\ <<o>> \in Seq(S) /\ <<o>> \o s \in Seq(S)
           /\ <<o>> \o s # <<>>
           /\ Head(<<o>> \o s) = o /\ Tail(<<o>> \o s) = s
<1>1. <<o>> \in Seq(S) /\ Len(<<o>>) = 1 /\ <<o>>[1] = o
  OBVIOUS
<1>2. /\ <<o>> \o s \in Seq(S) /\ Len(<<o>> \o s) = 1 + Len(s)
      /\ \A i \in 1 .. 1 + Len(s) : (<<o>> \o s)[i] = IF i <= 1 THEN <<o>>[i] ELSE s[i - 1]
  BY <1>1, ConcatProperties
<1>3. Len(s) \in Nat
  OBVIOUS
<1>4. <<o>> \o s # <<>> /\ Head(<<o>> \o s) = o
  BY <1>1, <1>2, <1>3
<1>5. Tail(<<o>> \o s) = s
  <2>1. /\ Tail(<<o>> \o s) \in Seq(S) /\ Len(Tail(<<o>> \o s)) = Len(s)
        /\ \A i \in 1 .. Len(s) : Tail(<<o>> \o s)[i] = s[i]
    BY <1>1, <1>2, <1>3, <1>4
  <2> QED
    BY <2>1, SeqEqual
<1> QED
  BY <1>1, <1>2, <1>4, <1>5

LEMMA TidyScripts ==
    ASSUME NEW k \in Job
    PROVE  /\ <<>> \in Seq(TidyOps(k))
           /\ \A a \in Artifact \ {"backup"} :
                 /\ <<RemoveOp(At(k, a))>> \in Seq(TidyOps(k))
                 /\ Removal(k, a) \in Seq(TidyOps(k))
           /\ <<MoveOp(At(k, "committed"), Root)>> \in Seq(TidyOps(k))
           /\ \A r \in Record : /\ r.state \in {"complete", "failed", "gone"}
                                /\ r.state = "complete" => k \in done
                => <<RecordOp(k, r)>> \in Seq(TidyOps(k))
           /\ \A s, t \in Seq(TidyOps(k)) : s \o t \in Seq(TidyOps(k))
           /\ DiscardCommitted(k) \in Seq(TidyOps(k))
           /\ DiscardRolledBack(k) \in Seq(TidyOps(k))
<1>1. \A o \in TidyOps(k) : <<o>> \in Seq(TidyOps(k))
  OBVIOUS
<1>2. ASSUME NEW a \in Artifact \ {"backup"}
      PROVE  /\ <<RemoveOp(At(k, a))>> \in Seq(TidyOps(k))
             /\ Removal(k, a) \in Seq(TidyOps(k))
  <2>1. RemoveOp(At(k, a)) \in TidyOps(k)
    BY DEF TidyOps
  <2> QED
    BY <1>1, <2>1 DEF Removal
<1>3. <<MoveOp(At(k, "committed"), Root)>> \in Seq(TidyOps(k))
  <2>1. MoveOp(At(k, "committed"), Root) \in TidyOps(k)
    BY DEF TidyOps
  <2> QED
    BY <1>1, <2>1
<1>4. ASSUME NEW r \in Record, r.state \in {"complete", "failed", "gone"},
             r.state = "complete" => k \in done
      PROVE  <<RecordOp(k, r)>> \in Seq(TidyOps(k))
  <2>1. RecordOp(k, r) \in TidyOps(k)
    BY <1>4 DEF TidyOps
  <2> QED
    BY <1>1, <2>1
<1>5. \A s, t \in Seq(TidyOps(k)) : s \o t \in Seq(TidyOps(k))
  BY ConcatProperties
<1>6. \A a \in {"committed", "marker", "failed", "staging", "interrupted"} :
         Removal(k, a) \in Seq(TidyOps(k))
  BY <1>2 DEF Artifact
<1>7. DiscardCommitted(k) \in Seq(TidyOps(k))
  BY <1>5, <1>6 DEF DiscardCommitted
<1>8. DiscardRolledBack(k) \in Seq(TidyOps(k))
  BY <1>5, <1>6 DEF DiscardRolledBack
<1> QED
  BY <1>2, <1>3, <1>4, <1>5, <1>7, <1>8

\* What is recorded last of a replacement that has ended.
LEMMA LastRecords ==
    ASSUME NEW r \in Record, NEW u \in JobState
    PROVE  /\ [r EXCEPT !.prepared = FALSE] \in Record
           /\ [r EXCEPT !.prepared = FALSE, !.cleanup = FALSE] \in Record
           /\ [r EXCEPT !.cleanup = TRUE] \in Record
           /\ [r EXCEPT !.state = u] \in Record
           /\ \A b \in {"yes", "no"} : [r EXCEPT !.state = u, !.reset = b] \in Record
           /\ [r EXCEPT !.reset = "no"] \in Record
           /\ [r EXCEPT !.prepared = FALSE].state = r.state
           /\ [r EXCEPT !.prepared = FALSE, !.cleanup = FALSE].state = r.state
           /\ [r EXCEPT !.cleanup = TRUE].state = r.state
           /\ [r EXCEPT !.reset = "no"].state = r.state
           /\ [r EXCEPT !.state = u].state = u
           /\ \A b : [r EXCEPT !.state = u, !.reset = b].state = u
<1>1. [r EXCEPT !.prepared = FALSE] \in Record
  BY DEF Record
<1>2. [r EXCEPT !.prepared = FALSE, !.cleanup = FALSE] \in Record
  BY DEF Record
<1>3. [r EXCEPT !.cleanup = TRUE] \in Record
  BY DEF Record
<1>4. \A b \in {"yes", "no"} : [r EXCEPT !.state = u, !.reset = b] \in Record
  BY DEF Record
<1>5. /\ [r EXCEPT !.prepared = FALSE].state = r.state
      /\ [r EXCEPT !.prepared = FALSE, !.cleanup = FALSE].state = r.state
      /\ [r EXCEPT !.cleanup = TRUE].state = r.state
      /\ [r EXCEPT !.reset = "no"].state = r.state
      /\ [r EXCEPT !.state = u].state = u
      /\ \A b : [r EXCEPT !.state = u, !.reset = b].state = u
  BY DEF Record
<1> QED
  BY <1>1, <1>2, <1>3, <1>4, <1>5, Patches

LEMMA FinishTidies ==
    ASSUME TypeOK, NEW j \in Job, NEW state \in {"complete", "failed"},
           NEW reset \in BOOLEAN, NEW cleanup \in Seq(TidyOps(j)),
           state = "complete" => j \in done
    PROVE  FinishRecovery(j, state, reset, cleanup) \in Seq(TidyOps(j))
<1> DEFINE settled == [job[j] EXCEPT !.state = state,
                                     !.reset = IF reset THEN "yes" ELSE "no"]
<1>1. job[j] \in Record /\ state \in JobState
  BY DEF TypeOK, JobState
<1>2. settled \in Record /\ settled.state = state
  <2>1. (IF reset THEN "yes" ELSE "no") \in {"yes", "no"}
    OBVIOUS
  <2>2. \A b \in {"yes", "no"} :
           /\ [job[j] EXCEPT !.state = state, !.reset = b] \in Record
           /\ [job[j] EXCEPT !.state = state, !.reset = b].state = state
    BY <1>1 DEF Record
  <2> QED
    BY <2>1, <2>2
<1> HIDE DEF settled
<1>3. /\ [settled EXCEPT !.cleanup = TRUE] \in Record
      /\ [settled EXCEPT !.cleanup = TRUE].state = state
      /\ [settled EXCEPT !.prepared = FALSE] \in Record
      /\ [settled EXCEPT !.prepared = FALSE].state = state
  BY <1>1, <1>2, LastRecords
<1>4. /\ RecordOp(j, settled) \in TidyOps(j)
      /\ RecordOp(j, [settled EXCEPT !.cleanup = TRUE]) \in TidyOps(j)
      /\ RecordOp(j, [settled EXCEPT !.prepared = FALSE]) \in TidyOps(j)
  BY <1>2, <1>3 DEF TidyOps
<1>5. <<RecordOp(j, settled), RecordOp(j, [settled EXCEPT !.cleanup = TRUE])>>
        \in Seq(TidyOps(j))
  BY <1>4
<1>6. <<RecordOp(j, settled)>> \o cleanup \o
        <<RecordOp(j, [settled EXCEPT !.prepared = FALSE])>> \in Seq(TidyOps(j))
  BY <1>4, TidyScripts, ConcatProperties
<1> QED
  BY <1>5, <1>6 DEF FinishRecovery, settled

LEMMA FinalizeTidies ==
    ASSUME TypeOK, NEW j \in Job, job[j].state = "complete", j \in done
    PROVE  FinalizeClear(j) \in Seq(TidyOps(j))
<1> DEFINE last == [job[j] EXCEPT !.prepared = FALSE, !.cleanup = FALSE]
<1>1. last \in Record /\ last.state = "complete"
  <2>1. job[j] \in Record /\ "complete" \in JobState
    BY DEF TypeOK, JobState
  <2> QED
    BY <2>1, LastRecords
<1> HIDE DEF last
<1>2. <<RecordOp(j, last)>> \in Seq(TidyOps(j))
  BY <1>1, TidyScripts
<1> QED
  BY <1>2, TidyScripts DEF FinalizeClear, last

LEMMA FailureTidies ==
    ASSUME TypeOK, NEW j \in Job
    PROVE  FailureScript(j) \in Seq(TidyOps(j))
<1>1. job[j] \in Record /\ "failed" \in JobState
  BY DEF TypeOK, JobState
<1> DEFINE failed == IF kind[j] = "snapshot"
                     THEN [Patch(j, "failed") EXCEPT !.reset = "no"]
                     ELSE Patch(j, "failed")
<1>2. Patch(j, "failed") \in Record /\ Patch(j, "failed").state = "failed"
  BY <1>1, LastRecords DEF Patch
<1>3. failed \in Record /\ failed.state = "failed"
  BY <1>1, <1>2, LastRecords
<1>4. /\ [failed EXCEPT !.prepared = FALSE] \in Record
      /\ [failed EXCEPT !.prepared = FALSE].state = "failed"
  BY <1>1, <1>3, LastRecords
<1> HIDE DEF failed
<1>5. /\ <<RecordOp(j, failed)>> \in Seq(TidyOps(j))
      /\ <<RecordOp(j, [failed EXCEPT !.prepared = FALSE])>> \in Seq(TidyOps(j))
      /\ <<>> \in Seq(TidyOps(j))
  BY <1>3, <1>4, TidyScripts
<1> QED
  BY <1>5, TidyScripts DEF FailureScript, failed

LEMMA SuccessTidies ==
    ASSUME TypeOK, NEW j \in Job, j \in done
    PROVE  /\ <<RecordOp(j, Patch(j, "complete"))>> \o DiscardCommitted(j)
                \in Seq(TidyOps(j))
           /\ <<RecordOp(j, Patch(j, "complete"))>> \o DiscardCommitted(j)
                \o <<RecordOp(j, [Patch(j, "complete") EXCEPT !.prepared = FALSE])>>
                \in Seq(TidyOps(j))
<1>1. job[j] \in Record /\ "complete" \in JobState
  BY DEF TypeOK, JobState
<1>2. Patch(j, "complete") \in Record /\ Patch(j, "complete").state = "complete"
  BY <1>1, LastRecords DEF Patch
<1>3. /\ [Patch(j, "complete") EXCEPT !.prepared = FALSE] \in Record
      /\ [Patch(j, "complete") EXCEPT !.prepared = FALSE].state = "complete"
  BY <1>1, <1>2, LastRecords
<1>4. /\ <<RecordOp(j, Patch(j, "complete"))>> \in Seq(TidyOps(j))
      /\ <<RecordOp(j, [Patch(j, "complete") EXCEPT !.prepared = FALSE])>>
           \in Seq(TidyOps(j))
  BY <1>2, <1>3, TidyScripts
<1> QED
  BY <1>4, TidyScripts

LEMMA ExpiryTidies ==
    ASSUME TypeOK, NEW j \in Job
    PROVE  /\ DiscardCommitted(j) \o
                <<RecordOp(j, [Patch(j, "gone") EXCEPT !.prepared = FALSE])>>
                \in Seq(TidyOps(j))
           /\ DiscardRolledBack(j) \o
                <<RecordOp(j, [Patch(j, "gone") EXCEPT !.prepared = FALSE])>>
                \in Seq(TidyOps(j))
<1>1. job[j] \in Record /\ "gone" \in JobState
  BY DEF TypeOK, JobState
<1>2. Patch(j, "gone") \in Record /\ Patch(j, "gone").state = "gone"
  BY <1>1, LastRecords DEF Patch
<1>3. /\ [Patch(j, "gone") EXCEPT !.prepared = FALSE] \in Record
      /\ [Patch(j, "gone") EXCEPT !.prepared = FALSE].state = "gone"
  BY <1>1, <1>2, LastRecords
<1>4. <<RecordOp(j, [Patch(j, "gone") EXCEPT !.prepared = FALSE])>>
        \in Seq(TidyOps(j))
  BY <1>3, TidyScripts
<1> QED
  BY <1>4, TidyScripts

\* Whatever a recovery does after it, the backup is put back first.
LEMMA ReinstateFirst ==
    ASSUME NEW j \in Job, NEW rest \in Seq(TidyOps(j))
    PROVE  Reinstating(j, Reinstate(j) \o rest)
<1> DEFINE r == RemoveOp(At(j, "interrupted"))
           m == MoveOp(Root, At(j, "interrupted"))
           b == MoveOp(At(j, "backup"), Root)
           S == TidyOps(j) \cup {r, m, b}
           first == Removal(j, "interrupted")
           aside == IF Exists(Root) THEN <<m>> ELSE <<>>
<1>1. r \in S /\ m \in S /\ b \in S /\ rest \in Seq(S)
  OBVIOUS
<1> HIDE DEF r, m, b, S
<1>2. first \in Seq(S) /\ aside \in Seq(S) /\ <<b>> \in Seq(S)
  BY <1>1 DEF Removal, r
<1>3. Reinstate(j) \o rest = ((first \o aside) \o <<b>>) \o rest
  BY DEF Reinstate, m, b
<1>4. ((first \o aside) \o <<b>>) \o rest = first \o (aside \o (<<b>> \o rest))
  <2> HIDE DEF first, aside
  <2>0. \A s, t, u \in Seq(S) : (s \o t) \o u = s \o (t \o u)
    BY ConcatAssociative
  <2>1. first \o aside \in Seq(S) /\ <<b>> \o rest \in Seq(S)
    BY <1>1, <1>2, ConcatProperties
  <2>2. ((first \o aside) \o <<b>>) \o rest = (first \o aside) \o (<<b>> \o rest)
    BY <1>1, <1>2, <2>0, <2>1
  <2> QED
    BY <1>2, <2>0, <2>1, <2>2
<1>5. PutsBack(j, <<b>> \o rest) /\ <<b>> \o rest \in Seq(S)
  BY <1>1, Cons DEF PutsBack, b
<1>6. MovesAside(j, aside \o (<<b>> \o rest)) /\ aside \o (<<b>> \o rest) \in Seq(S)
  <2>1. CASE Exists(Root)
    <3>1. aside = <<m>>
      BY <2>1
    <3> QED
      BY <1>1, <1>5, <3>1, Cons DEF MovesAside, m
  <2>2. CASE ~Exists(Root)
    <3>1. aside \o (<<b>> \o rest) = <<b>> \o rest
      BY <1>5, <2>2, ConcatEmptySeq
    <3> QED
      BY <1>5, <3>1 DEF MovesAside
  <2> QED
    BY <2>1, <2>2
<1> HIDE DEF aside
<1>7. Reinstating(j, first \o (aside \o (<<b>> \o rest)))
  <2>1. CASE Exists(At(j, "interrupted"))
    <3>1. first = <<r>>
      BY <2>1 DEF Removal, r
    <3> DEFINE s == aside \o (<<b>> \o rest)
    <3>2. MovesAside(j, s) /\ s \in Seq(S)
      BY <1>6
    <3> HIDE DEF s
    <3>3. /\ <<r>> \o s # <<>> /\ Head(<<r>> \o s) = r
          /\ Tail(<<r>> \o s) = s
      BY <1>1, <3>2, Cons
    <3>4. Reinstating(j, <<r>> \o s)
      BY <3>2, <3>3 DEF Reinstating, r
    <3> QED
      BY <3>1, <3>4 DEF s
  <2>2. CASE ~Exists(At(j, "interrupted"))
    <3>1. first = <<>>
      BY <2>2 DEF Removal
    <3>2. first \o (aside \o (<<b>> \o rest)) = aside \o (<<b>> \o rest)
      BY <1>6, <3>1, ConcatEmptySeq
    <3> QED
      BY <1>6, <3>2 DEF Reinstating
  <2> QED
    BY <2>1, <2>2
<1> QED
  BY <1>3, <1>4, <1>7

\* What a recovery does for a job without a backup only tidies up.
LEMMA RecoveryTidies ==
    ASSUME IInv, NEW j \in Job, j \notin Backups,
           job[j].state \in {"replacing", "complete", "failed"}
    PROVE  Recovery(j).ops \in Seq(TidyOps(j))
<1>1. /\ TypeOK /\ ~Exists(At(j, "backup"))
      /\ job[j].state = "complete" => j \in done
      /\ Exists(At(j, "committed")) => j \in done
  BY DEF IInv, Named, CompleteWasCommitted, Backups
<1>2. /\ <<>> \in Seq(TidyOps(j))
      /\ <<RemoveOp(At(j, "interrupted"))>> \in Seq(TidyOps(j))
      /\ <<MoveOp(At(j, "committed"), Root)>> \in Seq(TidyOps(j))
      /\ Removal(j, "staging") \in Seq(TidyOps(j))
      /\ <<>> \o <<RemoveOp(At(j, "interrupted"))>> \in Seq(TidyOps(j))
      /\ \A s, t \in Seq(TidyOps(j)) : s \o t \in Seq(TidyOps(j))
      /\ DiscardCommitted(j) \in Seq(TidyOps(j))
      /\ DiscardRolledBack(j) \in Seq(TidyOps(j))
  BY TidyScripts DEF Artifact
<1>3. ResetRequired(j) \in BOOLEAN
  BY DEF ResetRequired
<1> DEFINE fails(before, reset) ==
             before \o FinishRecovery(j, "failed", reset, DiscardRolledBack(j))
           completes == FinishRecovery(j, "complete", ResetRequired(j),
                                       DiscardCommitted(j))
<1>4. \A before \in Seq(TidyOps(j)), reset \in BOOLEAN :
         fails(before, reset) \in Seq(TidyOps(j))
  BY <1>1, <1>2, FinishTidies
<1>5. j \in done => completes \in Seq(TidyOps(j))
  BY <1>1, <1>2, <1>3, FinishTidies
<1> HIDE DEF fails, completes
<1>6. Recovery(j).ops =
        IF ~job[j].prepared THEN <<>>
        ELSE IF job[j].state = "complete" THEN completes
        ELSE IF job[j].state = "failed" THEN fails(<<>>, ResetRequired(j))
        ELSE IF Exists(At(j, "marker"))
             THEN fails(<<>> \o <<RemoveOp(At(j, "interrupted"))>>, ResetRequired(j))
        ELSE IF Exists(At(j, "committed"))
             THEN IF Exists(Root) THEN completes
                  ELSE fails(<<MoveOp(At(j, "committed"), Root)>>, ResetRequired(j))
        ELSE IF Exists(At(j, "staging")) THEN fails(Removal(j, "staging"), FALSE)
        ELSE IF Exists(Root) THEN fails(<<>>, ResetRequired(j))
        ELSE <<>>
  BY <1>1 DEF Recovery, fails, completes, AmbiguousOutcome
<1> QED
  BY <1>1, <1>2, <1>3, <1>4, <1>5, <1>6

\* For a job with a backup, it puts the backup back.
LEMMA RecoveryReinstates ==
    ASSUME IInv, NEW j \in Backups
    PROVE  Reinstating(j, Recovery(j).ops)
<1>1. /\ TypeOK /\ j \in Job /\ Exists(At(j, "backup"))
      /\ job[j].state = "replacing" /\ job[j].prepared
      /\ ~Exists(At(j, "committed"))
  BY DEF IInv, Named, BackupIsNamed, Backups
<1>2. /\ <<RemoveOp(At(j, "interrupted"))>> \in Seq(TidyOps(j))
      /\ Removal(j, "staging") \in Seq(TidyOps(j))
      /\ \A s, t \in Seq(TidyOps(j)) : s \o t \in Seq(TidyOps(j))
      /\ DiscardRolledBack(j) \in Seq(TidyOps(j))
  BY <1>1, TidyScripts DEF Artifact
<1>3. ResetRequired(j) \in BOOLEAN
  BY DEF ResetRequired
<1> DEFINE finish == FinishRecovery(j, "failed", ResetRequired(j),
                                    DiscardRolledBack(j))
           drop == <<RemoveOp(At(j, "interrupted"))>>
           unstage == Removal(j, "staging")
<1>4. finish \in Seq(TidyOps(j)) /\ drop \in Seq(TidyOps(j))
      /\ unstage \in Seq(TidyOps(j))
  BY <1>1, <1>2, <1>3, FinishTidies
<1>5. Recovery(j).ops = IF Exists(At(j, "marker"))
                        THEN (Reinstate(j) \o drop) \o finish
                        ELSE ((Reinstate(j) \o unstage) \o drop) \o finish
  BY <1>1 DEF Recovery
<1> HIDE DEF finish, drop, unstage
<1> DEFINE S == TidyOps(j) \cup {RemoveOp(At(j, "interrupted")),
                                 MoveOp(Root, At(j, "interrupted")),
                                 MoveOp(At(j, "backup"), Root)}
<1>6. Reinstate(j) \in Seq(S) /\ drop \in Seq(S) /\ finish \in Seq(S)
      /\ unstage \in Seq(S)
  <2>1. drop \in Seq(S) /\ finish \in Seq(S) /\ unstage \in Seq(S)
    BY <1>4
  <2> DEFINE first == Removal(j, "interrupted")
             aside == IF Exists(Root) THEN <<MoveOp(Root, At(j, "interrupted"))>>
                      ELSE <<>>
  <2>2. /\ first \in Seq(S) /\ aside \in Seq(S)
        /\ <<MoveOp(At(j, "backup"), Root)>> \in Seq(S)
    BY DEF Removal
  <2> HIDE DEF first, aside, S
  <2>3. first \o aside \in Seq(S)
    BY <2>2, ConcatProperties
  <2>4. (first \o aside) \o <<MoveOp(At(j, "backup"), Root)>> \in Seq(S)
    BY <2>2, <2>3, ConcatProperties
  <2> QED
    BY <2>1, <2>4 DEF Reinstate, first, aside
<1> HIDE DEF S
<1>7. (Reinstate(j) \o drop) \o finish = Reinstate(j) \o (drop \o finish)
  BY <1>6, ConcatAssociative
<1>8. ((Reinstate(j) \o unstage) \o drop) \o finish
        = Reinstate(j) \o (unstage \o (drop \o finish))
  <2>0. \A s, t, u \in Seq(S) : (s \o t) \o u = s \o (t \o u)
    BY ConcatAssociative
  <2>1. drop \o finish \in Seq(S) /\ Reinstate(j) \o unstage \in Seq(S)
    BY <1>6, ConcatProperties
  <2>2. ((Reinstate(j) \o unstage) \o drop) \o finish
          = (Reinstate(j) \o unstage) \o (drop \o finish)
    BY <1>6, <2>0, <2>1
  <2> QED
    BY <1>6, <2>0, <2>1, <2>2
<1>9. drop \o finish \in Seq(TidyOps(j)) /\ unstage \o (drop \o finish) \in Seq(TidyOps(j))
  BY <1>2, <1>4
<1> QED
  BY <1>1, <1>5, <1>7, <1>8, <1>9, ReinstateFirst

----------------------------------------------------------------------------
(* Outstanding file operations stay of their kind *)

LEMMA SameOps ==
    ASSUME done' = done
    PROVE  /\ \A k \in Job : TidyOps(k)' = TidyOps(k)
           /\ \A k \in Job : \A s : Reinstating(k, s)' <=> Reinstating(k, s)
<1>1. \A k \in Job : TidyOps(k)' = TidyOps(k)
  BY DEF TidyOps
<1>2. \A k \in Job : \A s : PutsBack(k, s)' <=> PutsBack(k, s)
  BY <1>1 DEF PutsBack
<1>3. \A k \in Job : \A s : MovesAside(k, s)' <=> MovesAside(k, s)
  BY <1>2 DEF MovesAside
<1>4. \A k \in Job : \A s : Reinstating(k, s)' <=> Reinstating(k, s)
  BY <1>3 DEF Reinstating
<1> QED
  BY <1>1, <1>4

\* A script that only tidies up goes on when the step leaves its job alone.
LEMMA StillTidying ==
    ASSUME NEW k \in Job, script' \in Seq(TidyOps(k)), done' = done,
           k \notin Backups', k \notin pending', job'[k].state # "uploaded",
           exec' \in {"drain", "stop", "succeed"} => k # cur',
           exec' # "recover" \/ Backups' = {}
    PROVE  Scripted'
<1>1. TidyOps(k)' = TidyOps(k)
  BY SameOps
<1>2. Tidying(k)'
  BY <1>1 DEF Tidying
<1> QED
  BY <1>2 DEF Scripted

\* A request leaves the script alone, and the job the script is about.
LEMMA RequestScripts ==
    ASSUME IInv, Request
    PROVE  Scripted'
<1>1. /\ TypeOK /\ Waiting /\ Serving /\ Stepping /\ Scripted
      /\ \A j \in Job : job[j].state = "complete" => j \in done
  BY DEF IInv, Named, CompleteWasCommitted
<1>2. server = "open" => Backups = {} /\ Backups' = {} /\ exec # "recover"
                         /\ exec # "restore"
  BY <1>1, RequestFiles DEF Serving
<1>3. server = "open" => script = <<>> \/ \E k \in Job : Tidying(k)
  BY <1>2 DEF IInv, Scripted
<1>4. ASSUME server = "open" \/ exec = "stop", Backups' = {},
             UNCHANGED <<script, done, exec, cur>>,
             pending' \subseteq pending \/ server = "open",
             \A k \in Job : Tidying(k) => /\ k \notin pending'
                                          /\ job'[k].state # "uploaded"
      PROVE  Scripted'
  <2>1. exec \notin {"recover", "restore"}
    BY <1>2, <1>4
  <2>2. script = <<>> \/ \E k \in Job : Tidying(k)
    BY <1>1, <2>1 DEF Scripted
  <2>3. CASE script = <<>>
    BY <1>4, <2>1, <2>3 DEF Scripted
  <2>4. ASSUME NEW k \in Job, Tidying(k)
        PROVE  Scripted'
    BY <1>4, <2>1, <2>4, StillTidying DEF Tidying
  <2> QED
    BY <2>2, <2>3, <2>4
<1>5. CASE Edit
  BY <1>2, <1>4, <1>5 DEF Edit, process, Tidying
<1>6. ASSUME NEW k \in Job, \/ PrepareStart(k) \/ PrepareDone(k)
                            \/ PrepareFail(k)
      PROVE  Scripted'
  <2>1. /\ RecordKept(k) /\ job'[k].state \in {"preparing", "ready", "failed"}
        /\ UNCHANGED <<script, done, exec, cur, pending>> /\ server = "open"
    BY <1>1, <1>6, RequestRecords
       DEF PrepareStart, PrepareDone, PrepareFail, process
  <2> QED
    BY <1>2, <1>4, <2>1 DEF RecordKept, Tidying
<1>7. ASSUME NEW k \in Job, Confirm(k) \/ SnapshotBegin(k)
      PROVE  Scripted'
  <2>1. /\ RecordKept(k) /\ job'[k].state = "replacing"
        /\ UNCHANGED <<script, done, exec, cur>> /\ server = "open"
        /\ pending' = pending \cup {k}
        /\ script = <<>> \/ job[k].state = "uploaded"
    BY <1>1, <1>7, RequestRecords DEF Confirm, SnapshotBegin
  <2>2. CASE script = <<>>
    BY <1>2, <2>1, <2>2 DEF Scripted
  <2>3. CASE job[k].state = "uploaded"
    BY <1>2, <1>4, <2>1, <2>3 DEF RecordKept, Tidying
  <2> QED
    BY <2>1, <2>2, <2>3
<1>8. ASSUME NEW k \in Job, Refuse(k)
      PROVE  Scripted'
  <2>1. /\ RecordKept(k) /\ job'[k].state \in {"ready", "failed"}
        /\ UNCHANGED <<script, done, exec, cur>> /\ k \in pending
        /\ pending' = pending \ {k}
    BY <1>1, <1>8, RequestRecords DEF Refuse
  <2>2. server = "open" \/ exec = "stop"
    BY <1>1, <2>1 DEF Waiting
  <2>3. Backups' = {}
    BY <1>1, <1>8, <2>2, RequestFiles DEF Serving, Stepping, Seated, Request
  <2> QED
    BY <1>4, <2>1, <2>2, <2>3 DEF RecordKept, Tidying
<1>9. ASSUME NEW k \in Job, Schedule(k)
      PROVE  Scripted'
  <2>1. /\ cur = None /\ k \in pending /\ pending' = pending \ {k}
        /\ cur' = k /\ exec' = "drain" /\ UNCHANGED <<script, done, job>>
    BY <1>9 DEF Schedule
  <2>2. server = "open"
    <3>1. exec = "stop" => cur \in Job
      BY <1>1, ServerAt DEF Stepping
    <3> QED
      BY <1>1, <2>1, <3>1, Trees DEF Waiting
  <2>3. CASE script = <<>>
    BY <2>1, <2>3 DEF Scripted
  <2>4. ASSUME NEW j \in Job, Tidying(j)
        PROVE  Scripted'
    BY <1>2, <2>1, <2>2, <2>4, StillTidying DEF Tidying
  <2> QED
    BY <1>3, <2>2, <2>3, <2>4
<1>10. ASSUME NEW k \in Job, Expire(k) \/ MaintainClear(k)
       PROVE  Scripted'
  <2>1. /\ server = "open" /\ cur # k
        /\ UNCHANGED <<job, done, exec, cur, pending>>
        /\ job[k].state \in {"ready", "complete", "failed"}
    BY <1>10 DEF Expire, MaintainClear, Steady, durable
  <2>2. script' \in Seq(TidyOps(k))
    <3>1. CASE Expire(k)
      BY <1>1, <3>1, ExpiryTidies DEF Expire
    <3>2. CASE MaintainClear(k)
      BY <1>1, <3>2, FinalizeTidies DEF MaintainClear
    <3> QED
      BY <1>10, <3>1, <3>2
  <2>3. k \notin pending
    BY <1>1, <2>1 DEF Waiting
  <2> QED
    BY <1>2, <2>1, <2>2, <2>3, StillTidying
<1> QED
  BY <1>5, <1>6, <1>7, <1>8, <1>9, <1>10 DEF Request

\* The steps of the executor and of the boot that leave no script, or a script
\* that tidies up after their own job.
LEMMA AdvanceScripts ==
    ASSUME IInv, Advance
    PROVE  Scripted'
<1>1. /\ TypeOK /\ Waiting /\ Serving /\ Stepping /\ Scripted
      /\ \A j \in Job : job[j].state = "complete" => j \in done
  BY DEF IInv, Named, CompleteWasCommitted
<1>2. script' = <<>> /\ exec' # "recover" => Scripted'
  BY DEF Scripted
<1>3. CASE \/ SwapOut \/ SwapIn \/ SwapBack \/ Reset \/ Restart \/ Commit
           \/ MarkRollback
  <2>1. script = <<>> /\ script' = script
    BY <1>1, <1>3
       DEF SwapOut, SwapIn, SwapBack, Reset, Restart, Commit, MarkRollback,
           Stepping, Quiet
  <2>2. exec' # "recover"
    BY <1>3 DEF SwapOut, SwapIn, SwapBack, Reset, ResetDerived, Restart,
                Commit, MarkRollback
  <2> QED
    BY <1>2, <2>1, <2>2
<1>4. CASE Stop \/ Release \/ ResetBack \/ BootAcknowledge \/ BootReset
  <2>1. script = <<>> /\ script' = script
    BY <1>1, <1>4
       DEF Stop, Release, ResetBack, BootAcknowledge, BootReset, Reject,
           Stepping, Quiet
  <2>2. exec' # "recover"
    BY <1>4 DEF Stop, Release, ResetBack, ResetDerived, BootAcknowledge,
                BootReset, Reject
  <2> QED
    BY <1>2, <2>1, <2>2
<1>5. CASE Drain
  <2>1. /\ exec = "drain" /\ server = "open" /\ exec' = "stop"
        /\ UNCHANGED <<fs, job, script, done, cur, pending>>
    BY <1>5, ServerAt DEF Drain, Steady, durable
  <2>2. Backups = {} /\ Backups' = {}
    BY <1>1, <2>1 DEF Serving, Backups, Exists
  <2>3. script = <<>> \/ \E k \in Job : Tidying(k)
    BY <1>1, <2>1 DEF Scripted
  <2>4. ASSUME NEW k \in Job, Tidying(k)
        PROVE  Scripted'
    BY <2>1, <2>2, <2>4, StillTidying DEF Tidying
  <2> QED
    BY <1>2, <2>1, <2>3, <2>4
<1>6. CASE OnCommitted \/ Terminate
  <2>1. exec \in {"committed", "incomplete"} /\ script = <<>>
    BY <1>1, <1>6 DEF OnCommitted, Terminate, Stepping, Quiet
  <2>2. script' = <<>> /\ exec' \in {"succeed", "idle"}
    BY <1>6, <2>1 DEF OnCommitted, Terminate, ProcessEnds
  <2> QED
    BY <1>2, <2>2
<1>7. CASE OnSucceeded
  <2>1. /\ exec = "succeed" /\ cur \in Job /\ cur \in done /\ cur \notin pending
        /\ script = <<>> /\ Backups = {} /\ job[cur].state # "uploaded"
        /\ kind[cur] = "clear" => job[cur].state = "complete"
    BY <1>1, <1>7, ServerAt DEF OnSucceeded, Stepping, Waiting, Seated
  <2>2. /\ exec' = "release" /\ UNCHANGED <<fs, job, done, cur, pending>>
        /\ Backups' = {}
    BY <1>7, <2>1 DEF OnSucceeded, Steady, durable, Backups, Exists
  <2>3. script' = <<>> \/ script' \in Seq(TidyOps(cur))
    BY <1>1, <1>7, <2>1, FinalizeTidies, SuccessTidies DEF OnSucceeded
  <2> QED
    BY <1>2, <2>1, <2>2, <2>3, StillTidying
<1>8. CASE OnFailed
  <2>1. /\ exec = "report" /\ cur \in Job /\ pending = {} /\ Backups = {}
        /\ script = <<>> /\ job[cur].state # "uploaded"
    BY <1>1, <1>8, ServerAt DEF OnFailed, Stepping, Waiting, Seated, Quiet
  <2>2. /\ exec' = "release" /\ UNCHANGED <<fs, job, done, cur, pending>>
        /\ Backups' = {}
    BY <1>8, <2>1 DEF OnFailed, Steady, durable, Backups, Exists
  <2>3. script' = <<>> \/ script' \in Seq(TidyOps(cur))
    BY <1>1, <1>8, <2>1, FailureTidies DEF OnFailed
  <2> QED
    BY <1>2, <2>1, <2>2, <2>3, StillTidying
<1>9. CASE Unseat
  <2>1. script = <<>> /\ exec' = "restore"
    BY <1>1, <1>9 DEF Unseat, Stepping, Quiet
  <2>2. script' = <<>> \/ script' = <<RemoveOp(Root)>>
    BY <1>9, <2>1 DEF Unseat
  <2> QED
    BY <2>1, <2>2 DEF Scripted
<1>10. CASE Restore
  <2>1. /\ cur \in Job /\ Backups = {cur} /\ pending = {}
        /\ job[cur].state # "uploaded"
        /\ UNCHANGED <<job, done, cur, pending>> /\ script = <<>>
    BY <1>1, <1>10, ServerAt DEF Restore, Steady, Stepping, Waiting
  <2>2. CASE exec' = "incomplete" /\ UNCHANGED script
    BY <1>2, <2>1, <2>2
  <2>3. CASE /\ exec' = "resetBack" /\ Move(At(cur, "backup"), Root)
             /\ script' = <<RemoveOp(At(cur, "failed"))>>
    <3>1. fs'[At(cur, "backup")] = None
      BY <1>1, <2>1, <2>3, MoveSteps
    <3>2. cur \notin Backups'
      BY <3>1 DEF Backups, Exists
    <3>3. script' \in Seq(TidyOps(cur))
      BY <2>1, <2>3, TidyScripts DEF Artifact
    <3> QED
      BY <2>1, <2>3, <3>2, <3>3, StillTidying
  <2> QED
    BY <1>10, <2>2, <2>3 DEF Restore
<1>11. CASE Relaunch \/ Boot
  <2>1. script' = <<>>
    BY <1>1, <1>11 DEF Relaunch, Boot, Stepping, Quiet, Serving
  <2>2. exec' = "recover" => todo' = Job
    BY <1>11 DEF Relaunch, Boot
  <2> QED
    BY <2>1, <2>2 DEF Scripted, Backups
<1>12. CASE Recovered
  <2>1. script' = <<>>
    BY <1>12 DEF Recovered
  <2>2. exec' # "recover"
    BY <1>12 DEF Recovered
  <2> QED
    BY <1>2, <2>1, <2>2
<1>13. ASSUME NEW j \in Job, BootFinalize(j)
       PROVE  Scripted'
  <2>1. /\ exec = "bootFinalize" /\ Backups = {} /\ pending = {}
        /\ UNCHANGED <<fs, job, done, cur, pending>> /\ Backups' = {}
    BY <1>1, <1>13, ServerAt
       DEF BootFinalize, Stepping, Seated, Waiting, Backups, Exists
  <2>2. exec' \in {"bootFinalize", "idle"}
    BY <1>13 DEF BootFinalize, Reject
  <2>3. \/ script' = <<>>
        \/ script' \in Seq(TidyOps(j)) /\ job[j].state = "complete"
    BY <1>1, <1>13, FinalizeTidies DEF BootFinalize, Reject
  <2> QED
    BY <1>2, <2>1, <2>2, <2>3, StillTidying
<1>14. ASSUME NEW j \in Job, Recover(j)
       PROVE  Scripted'
  <2>1. /\ exec = "recover" /\ exec' = "recover" /\ script = <<>> /\ pending = {}
        /\ UNCHANGED <<fs, job, done, cur, pending>> /\ Backups' = Backups
        /\ j \in todo /\ todo' = todo \ {j}
    BY <1>1, <1>14, ServerAt DEF Recover, Waiting, durable, Backups, Exists
  <2>2. \A k \in Backups : k \in todo /\ k \in Job
    BY <1>1, <2>1 DEF Scripted, Reinstating, MovesAside, PutsBack, Backups
  <2>3. \A k \in Job : /\ TidyOps(k)' = TidyOps(k)
                       /\ \A s : Reinstating(k, s)' <=> Reinstating(k, s)
    BY <2>1, SameOps
  <2>4. CASE j \in Backups
    <3>1. Reinstating(j, script')
      BY <1>14, <2>4, RecoveryReinstates
         DEF Recover, IInv, Named, BackupIsNamed
    <3>2. Reinstating(j, script)'
      BY <2>3, <3>1
    <3>3. Backups = {j}
      BY <2>4 DEF IInv, Files
    <3> QED
      BY <2>1, <3>2, <3>3 DEF Scripted
  <2>5. CASE j \notin Backups
    <3>1. \A k \in Backups : k \in todo'
      BY <2>1, <2>2, <2>5
    <3>2. CASE script' = <<>>
      BY <2>1, <3>1, <3>2 DEF Scripted
    <3>3. CASE job[j].state \in {"replacing", "complete", "failed"}
               /\ script' = Recovery(j).ops
      <4>1. script' \in Seq(TidyOps(j))
        BY <2>5, <3>3, RecoveryTidies
      <4>2. Tidying(j)'
        BY <2>1, <2>3, <2>5, <3>3, <4>1 DEF Tidying
      <4> QED
        BY <2>1, <3>1, <4>2 DEF Scripted
    <3> QED
      BY <1>14, <2>1, <3>2, <3>3 DEF Recover
  <2> QED
    BY <2>4, <2>5
<1> QED
  BY <1>3, <1>4, <1>5, <1>6, <1>7, <1>8, <1>9, <1>10, <1>11, <1>12, <1>13,
     <1>14 DEF Advance

\* A step of a recovery that puts a backup back.
LEMMA ReinstatingSteps ==
    ASSUME IInv, ScriptStep, NEW k \in Backups, exec = "recover",
           Reinstating(k, script)
    PROVE  \/ k \in Backups' /\ Reinstating(k, script')
           \/ k \notin Backups' /\ script' \in Seq(TidyOps(k)) /\ job' = job
<1>1. TypeOK /\ k \in Job /\ Exists(At(k, "backup"))
  BY DEF IInv, Backups
<1>2. /\ RemoveOp(At(k, "interrupted")) # MoveOp(At(k, "backup"), Root)
      /\ RemoveOp(At(k, "interrupted")) # MoveOp(Root, At(k, "interrupted"))
  BY DEF RemoveOp, MoveOp
<1>3. MoveOp(Root, At(k, "interrupted")) # MoveOp(At(k, "backup"), Root)
  BY <1>1, ValuesAssumption DEF MoveOp
<1>4. \/ Head(script) = RemoveOp(At(k, "interrupted"))
      \/ Head(script) = MoveOp(Root, At(k, "interrupted"))
      \/ Head(script) = MoveOp(At(k, "backup"), Root)
  BY DEF Reinstating, MovesAside, PutsBack
<1>5. CASE Head(script) = RemoveOp(At(k, "interrupted"))
  <2>1. MovesAside(k, Tail(script))
    BY <1>2, <1>5 DEF Reinstating, MovesAside, PutsBack
  <2>2. /\ script' \in {script, Tail(script)}
        /\ \E v \in {Partial, None} : fs' = [fs EXCEPT ![At(k, "interrupted")] = v]
    BY <1>5, Operations
  <2>3. fs'[At(k, "backup")] = fs[At(k, "backup")]
    BY <1>1, <2>2, Paths DEF TypeOK, Artifact
  <2>4. k \in Backups'
    BY <1>1, <2>3 DEF Backups, Exists
  <2>5. Reinstating(k, script')
    BY <2>1, <2>2 DEF Reinstating
  <2> QED
    BY <2>4, <2>5
<1>6. CASE Head(script) = MoveOp(Root, At(k, "interrupted"))
  <2>1. PutsBack(k, Tail(script))
    BY <1>2, <1>3, <1>6 DEF Reinstating, MovesAside, PutsBack
  <2>2. script' = Tail(script) /\ Move(Root, At(k, "interrupted"))
    BY <1>6, Operations
  <2>3. OthersKeep(k, {})
    BY <1>1, <2>2, MoveSteps DEF Artifact, Trees_
  <2>4. k \in Backups'
    BY <1>1, <2>3 DEF OthersKeep, Trees_, Backups, Exists
  <2> QED
    BY <2>1, <2>2, <2>4 DEF Reinstating, MovesAside
<1>7. CASE Head(script) = MoveOp(At(k, "backup"), Root)
  <2>1. Tail(script) \in Seq(TidyOps(k))
    BY <1>2, <1>3, <1>7 DEF Reinstating, MovesAside, PutsBack
  <2>2. script' = Tail(script) /\ Move(At(k, "backup"), Root) /\ job' = job
    BY <1>7, Operations
  <2>3. fs'[At(k, "backup")] = None
    BY <1>1, <2>2, MoveSteps
  <2>4. k \notin Backups'
    BY <2>3 DEF Backups, Exists
  <2> QED
    BY <2>1, <2>2, <2>4
<1> QED
  BY <1>4, <1>5, <1>6, <1>7

\* A step of a script that tidies up leaves one that does.
LEMMA TidyingSteps ==
    ASSUME IInv, ScriptStep, NEW k \in Job, Tidying(k)
    PROVE  /\ script' \in Seq(TidyOps(k))
           /\ job'[k].state # "uploaded"
           /\ \A j \in Backups : ~Reinstating(j, script)
<1>1. /\ script # <<>> /\ script \in Seq(TidyOps(k))
      /\ job[k].state # "uploaded" /\ k \notin Backups
  BY Operations DEF Tidying
<1>2. Head(script) \in TidyOps(k) /\ Tail(script) \in Seq(TidyOps(k))
  BY <1>1, SeqSteps
<1>3. CASE \E a \in Artifact \ {"backup"} : Head(script) = RemoveOp(At(k, a))
  <2>1. PICK a \in Artifact \ {"backup"} : Head(script) = RemoveOp(At(k, a))
    BY <1>3
  <2>2. script' \in {script, Tail(script)} /\ job' = job
    BY <2>1, Operations
  <2>3. \A j \in Backups : ~Reinstating(j, script)
    BY <1>1, <2>1
       DEF Reinstating, MovesAside, PutsBack, RemoveOp, MoveOp
  <2> QED
    BY <1>1, <1>2, <2>2, <2>3
<1>4. CASE Head(script) = MoveOp(At(k, "committed"), Root)
  <2>1. script' = Tail(script) /\ job' = job
    BY <1>4, Operations
  <2>2. \A j \in Job : /\ Head(script) # MoveOp(Root, At(j, "interrupted"))
                       /\ Head(script) # MoveOp(At(j, "backup"), Root)
                       /\ Head(script) # RemoveOp(At(j, "interrupted"))
    <3>1. Head(script).from = <<k, "committed">>
          /\ "at" \notin DOMAIN Head(script)
      BY <1>4 DEF MoveOp
    <3> QED
      BY <3>1, ValuesAssumption DEF MoveOp, RemoveOp
  <2>3. \A j \in Backups : ~Reinstating(j, script)
    BY <2>2 DEF Reinstating, MovesAside, PutsBack, Backups
  <2> QED
    BY <1>1, <1>2, <2>1, <2>3
<1>5. ASSUME NEW r \in Record, Head(script) = RecordOp(k, r),
             r.state \in {"complete", "failed", "gone"}
      PROVE  /\ script' \in Seq(TidyOps(k)) /\ job'[k].state # "uploaded"
             /\ \A j \in Backups : ~Reinstating(j, script)
  <2>1. script' = Tail(script) /\ job' = [job EXCEPT ![k] = r]
    BY <1>5, Operations
  <2>2. job'[k] = r
    BY <2>1 DEF IInv, TypeOK
  <2>3. \A j : /\ Head(script) # MoveOp(Root, At(j, "interrupted"))
               /\ Head(script) # MoveOp(At(j, "backup"), Root)
               /\ Head(script) # RemoveOp(At(j, "interrupted"))
    BY <1>5 DEF MoveOp, RemoveOp, RecordOp
  <2>4. \A j \in Backups : ~Reinstating(j, script)
    BY <2>3 DEF Reinstating, MovesAside, PutsBack
  <2> QED
    BY <1>2, <1>5, <2>1, <2>2, <2>4
<1> QED
  BY <1>2, <1>3, <1>4, <1>5, TidyForms

LEMMA ScriptStepScripts ==
    ASSUME IInv, ScriptStep
    PROVE  Scripted'
<1>1. /\ TypeOK /\ Named /\ Waiting /\ Scripted /\ script # <<>>
      /\ UNCHANGED <<exec, cur, done, pending, todo>> /\ Backups' \subseteq Backups
  BY ScriptFiles, Operations DEF IInv, ScriptStep
<1>2. CASE exec = "restore" /\ script = <<RemoveOp(Root)>>
  <2>1. Head(script) = RemoveOp(Root) /\ Tail(script) = <<>>
    BY <1>2
  <2>2. script' = <<>> \/ script' = <<RemoveOp(Root)>>
    BY <1>2, <2>1, Operations
  <2> QED
    BY <1>1, <1>2, <2>2 DEF Scripted
<1>3. ASSUME NEW k \in Job, Tidying(k)
      PROVE  Scripted'
  <2>1. /\ script' \in Seq(TidyOps(k)) /\ job'[k].state # "uploaded"
        /\ \A j \in Backups : ~Reinstating(j, script)
    BY <1>3, TidyingSteps
  <2>2. exec = "recover" => \A j \in Backups' : j \in todo'
    BY <1>1, <2>1 DEF Scripted
  <2>3. TidyOps(k)' = TidyOps(k)
    BY <1>1, SameOps
  <2>4. Tidying(k)'
    BY <1>1, <1>3, <2>1, <2>3 DEF Tidying
  <2> QED
    BY <1>1, <2>2, <2>4 DEF Scripted
<1>4. ASSUME NEW k \in Backups, exec = "recover", Reinstating(k, script)
      PROVE  Scripted'
  <2>1. /\ k \in Job /\ pending = {} /\ job[k].state # "uploaded" /\ Backups = {k}
    BY <1>1, <1>4, ServerAt DEF Named, BackupIsNamed, Waiting, Backups, IInv, Files
  <2>2. CASE k \in Backups' /\ Reinstating(k, script')
    <3>1. Reinstating(k, script)'
      BY <1>1, <2>1, <2>2, SameOps
    <3> QED
      BY <1>1, <1>4, <2>1, <2>2, <3>1 DEF Scripted
  <2>3. CASE k \notin Backups' /\ script' \in Seq(TidyOps(k)) /\ job' = job
    <3>1. Backups' = {}
      BY <1>1, <2>1, <2>3
    <3> QED
      BY <1>1, <1>4, <2>1, <2>3, <3>1, StillTidying
  <2> QED
    BY <1>4, <2>2, <2>3, ReinstatingSteps
<1> QED
  BY <1>1, <1>2, <1>3, <1>4 DEF Scripted

LEMMA ScriptedStep ==
    ASSUME IInv, [Next]_vars
    PROVE  Scripted'
<1>1. script' = <<>> /\ exec' # "recover" => Scripted'
  BY DEF Scripted
<1>2. CASE UNCHANGED vars
  <2>1. Scripted' <=> Scripted
    <3>1. /\ UNCHANGED <<fs, job, pending, done, cur, todo, exec, script>>
          /\ Backups' = Backups
      BY <1>2 DEF vars, Backups, Exists
    <3>2. \A k \in Job : /\ Tidying(k)' <=> Tidying(k)
                         /\ Reinstating(k, script)' <=> Reinstating(k, script)
      BY <3>1, SameOps DEF Tidying
    <3> QED
      BY <3>1, <3>2 DEF Scripted, Backups
  <2> QED
    BY <2>1 DEF IInv
<1>3. CASE ScriptThrows
  <2>1. script' = <<>> /\ exec' # "recover"
    BY <1>3, ServerAt DEF ScriptThrows, Reject
  <2> QED
    BY <1>1, <2>1
<1>4. CASE Crash
  BY <1>1, <1>4 DEF Crash, ProcessEnds
<1> QED
  BY <1>2, <1>3, <1>4, AdvanceScripts, RequestScripts, ScriptStepScripts
     DEF Next

----------------------------------------------------------------------------
(* The invariant *)

LEMMA InitialInvariant ==
    ASSUME Init
    PROVE  IInv
<1>1. TypeOK
  BY Paths, Trees, BoundsAssumption, ValuesAssumption, KindsAssumption
     DEF Init, TypeOK, Record, JobState, Tree
<1>2. fs[Root] = [src |-> Own, rev |-> 0] /\ fs[Root] \in Tree
  BY Paths, BoundsAssumption DEF Init, Tree
<1>3. \A j \in Job, a \in Artifact : fs[At(j, a)] = None
  BY Paths DEF Init
<1>4. Backups = {}
  BY <1>3 DEF Backups, Exists, Artifact
<1>5. Files
  BY <1>2, <1>3, <1>4 DEF Files, Whole, Artifact
<1>6. Named
  BY <1>3, <1>4, Trees
     DEF Init, Named, BackupIsNamed, CompleteWasCommitted,
         ReplacesWhatWasReviewed, Whole, Exists, Artifact
<1>7. Waiting /\ Serving /\ Stepping /\ Scripted
  BY <1>4, Trees DEF Init, Waiting, Serving, Stepping, Scripted, Quiet, Seated, Swapped
<1> QED
  BY <1>1, <1>5, <1>6, <1>7 DEF IInv

LEMMA InvariantStep ==
    ASSUME IInv, [Next]_vars
    PROVE  IInv'
  BY TypeStep, FilesStep, NamedStep, WaitingStep, PhasesStep, ScriptedStep
     DEF IInv

\* The invariant holds in every reachable state.
THEOREM ReplacementInvariant == Spec => []IInv
  BY InitialInvariant, InvariantStep, PTL DEF Spec

\* Every variable keeps its type: the records of job.json, the paths beside
\* the root, the phases of the executor and the sets of jobs it works on.
THEOREM ReplacementTypes == Spec => []TypeOK
<1>1. IInv => TypeOK
  BY DEF IInv
<1> QED
  BY <1>1, ReplacementInvariant, PTL

\* A job is reported complete only past its commit point: the outcome that
\* onSucceeded, onCommitted or a recovery writes never claims a replacement
\* that was rolled back.
THEOREM CommitPrecedesReport == Spec => []CompleteWasCommitted
<1>1. IInv => CompleteWasCommitted
  BY DEF IInv, Named
<1> QED
  BY <1>1, ReplacementInvariant, PTL

\* While a backup is the workspace, a record names it and says replacing, so
\* that recoverInterruptedWorkspaceReplacements puts it back.
THEOREM BackupsAreNamed == Spec => []BackupIsNamed
<1>1. IInv => BackupIsNamed
  BY DEF IInv, Named
<1> QED
  BY <1>1, ReplacementInvariant, PTL

\* A server that is open has a whole tree at the root and no backup beside
\* it: the swap, the rollback and the recovery admit no request before.
THEOREM OpenOnSettledTree == Spec => []ServesSettledTree
<1>1. IInv => ServesSettledTree
  BY DEF IInv, Serving, Files, ServesSettledTree
<1> QED
  BY <1>1, ReplacementInvariant, PTL

\* What a clear or a snapshot restore retires is the tree its user reviewed
\* or backed up: validateBeforeSwap stops every other.
THEOREM ReviewedIsReplaced == Spec => []ReplacesWhatWasReviewed
<1>1. IInv => ReplacesWhatWasReviewed
  BY DEF IInv, Named
<1> QED
  BY <1>1, ReplacementInvariant, PTL

----------------------------------------------------------------------------
(* Every step is a step of the abstract replacement, or none at all *)

\* A job passes its commit point in the rename of commit() only.
LEMMA OnlyCommitsCount ==
    ASSUME [Next]_vars
    PROVE  \/ UNCHANGED done
           \/ /\ Commit /\ Move(At(cur, "backup"), At(cur, "committed"))
              /\ done' = done \cup {cur}
<1>1. CASE Advance
  BY <1>1
     DEF Advance, Drain, Stop, SwapOut, SwapIn, SwapBack, Reset, Restart,
         Commit, OnCommitted, OnSucceeded, Release, MarkRollback, Unseat,
         Restore, ResetBack, Relaunch, OnFailed, Terminate, Boot, Recovered,
         BootReset, BootAcknowledge, Recover, BootFinalize
<1>2. CASE Request
  BY <1>2
     DEF Request, Edit, PrepareStart, PrepareDone, PrepareFail, Confirm,
         SnapshotBegin, Schedule, Refuse, Expire, MaintainClear
<1>3. CASE ScriptStep \/ ScriptThrows \/ Crash \/ UNCHANGED vars
  BY <1>3 DEF ScriptStep, ScriptThrows, Crash, vars
<1> QED
  BY <1>1, <1>2, <1>3 DEF Next

\* The content after a step.
LEMMA TheNextContent ==
    ASSUME Files'
    PROVE  /\ \A j \in Backups' :
                 Backups' = {j} /\ Content' = fs'[At(j, "backup")]
           /\ Backups' = {} => Content' = fs'[Root]
<1>1. ASSUME NEW j \in Backups'
      PROVE  Backups' = {j} /\ Content' = fs'[At(j, "backup")]
  <2>1. Backups' = {j}
    BY <1>1 DEF Files
  <2>2. (CHOOSE k \in Backups' : TRUE) = j
    BY <2>1
  <2> QED
    BY <2>1, <2>2 DEF Content
<1> QED
  BY <1>1 DEF Content

\* Where the backup stays, and the root where there is none, so does the
\* content.
LEMMA ContentStays ==
    ASSUME Files, Files',
           \A j \in Job : fs'[At(j, "backup")] = fs[At(j, "backup")],
           Backups = {} => fs'[Root] = fs[Root]
    PROVE  Content' = Content
<1>1. Backups' = Backups
  BY DEF Backups, Exists
<1>2. CASE Backups = {}
  BY <1>1, <1>2, TheContent, TheNextContent
<1>3. ASSUME NEW j \in Backups
      PROVE  Content' = Content
  <2>1. j \in Job /\ j \in Backups'
    BY <1>1, <1>3 DEF Backups
  <2>2. Content = fs[At(j, "backup")]
    BY <1>3, TheContent
  <2>3. Content' = fs'[At(j, "backup")]
    BY <2>1, TheNextContent
  <2> QED
    BY <2>1, <2>2, <2>3
<1> QED
  BY <1>2, <1>3

\* The rename of commit() makes the tree at the root the content.
LEMMA CommitReplaces ==
    ASSUME IInv, Commit, Move(At(cur, "backup"), At(cur, "committed"))
    PROVE  /\ cur \in Job /\ Content' = Staged(cur)
           /\ done' = done \cup {cur}
<1>1. TypeOK /\ Files /\ Files' /\ cur \in Job
  BY FilesStep, CurIsAJob DEF IInv, Commit, Next, Advance
<1>2. /\ fs'[Root] = fs[Root] /\ fs'[At(cur, "backup")] = None
      /\ OthersKeep(cur, {"backup", "committed"})
  BY <1>1, MoveSteps
<1>3. Backups = {cur} /\ fs[Root] = Staged(cur)
  BY DEF Commit, IInv, Stepping, Swapped
<1>4. Backups' = {}
  BY <1>2, <1>3 DEF OthersKeep, Backups, Exists, Trees_
<1>5. Content' = Staged(cur)
  BY <1>1, <1>2, <1>3, <1>4, TheNextContent
<1>6. fs' # fs
  BY <1>2, <1>3 DEF Backups, Exists
<1> QED
  BY <1>1, <1>5, <1>6 DEF Commit

\* An edit changes the content, a commit replaces it, and no other step does
\* anything to it.
LEMMA ContentStep ==
    ASSUME IInv, [Next]_vars
    PROVE  \/ Content' = Content
           \/ Edit /\ Content' = [Content EXCEPT !.rev = @ + 1]
           \/ Commit /\ Move(At(cur, "backup"), At(cur, "committed"))
<1>1. TypeOK /\ Files /\ Files'
  BY FilesStep DEF IInv
<1>2. \A k \in Job, S \in SUBSET Trees_ : "backup" \notin S /\ OthersKeep(k, S)
         => \A j \in Job : fs'[At(j, "backup")] = fs[At(j, "backup")]
  BY DEF OthersKeep, Trees_
<1>3. ASSUME NEW k \in Job, NEW S \in SUBSET Trees_, "backup" \notin S,
             OthersKeep(k, S), Backups # {} \/ fs'[Root] = fs[Root]
      PROVE  Content' = Content
  BY <1>1, <1>2, <1>3, ContentStays
<1>4. CASE KeepsTrees
  BY <1>1, <1>4, ContentStays DEF KeepsTrees, Trees_
<1>5. CASE Edit /\ Backups = {} /\ \A j \in Job : OthersKeep(j, {})
  <2>1. Backups' = {}
    BY <1>5 DEF OthersKeep, Trees_, Backups, Exists
  <2>2. fs'[Root] = [fs[Root] EXCEPT !.rev = @ + 1]
    BY <1>1, <1>5, Paths DEF Edit, TypeOK
  <2> QED
    BY <1>1, <1>5, <2>1, <2>2, TheContent, TheNextContent
<1>6. CASE exec = "restore" /\ \A j \in Job : OthersKeep(j, {})
  <2>1. Backups # {} /\ cur \in Job
    BY <1>6 DEF IInv, Stepping, Backups
  <2> QED
    BY <1>3, <1>6, <2>1
<1>7. ASSUME NEW k \in Job, PrepareStart(k)
      PROVE  Content' = Content
  <2>1. /\ fs'[Root] = fs[Root] /\ fs'[At(k, "backup")] = None
        /\ OthersKeep(k, Trees_) /\ k \notin Backups
    BY <1>7, PrepareStep
  <2>2. \A j \in Job : fs'[At(j, "backup")] = fs[At(j, "backup")]
    BY <2>1 DEF OthersKeep, Trees_, Backups, Exists
  <2> QED
    BY <1>1, <2>1, <2>2, ContentStays
<1>8. ASSUME NEW k \in Job, NEW a \in {"staging", "committed"},
             fs'[Root] = fs[Root], OthersKeep(k, {a})
      PROVE  Content' = Content
  BY <1>3, <1>8 DEF Trees_
<1>9. ASSUME NEW k \in Job, Backups = {}, Move(Root, At(k, "backup"))
      PROVE  Content' = Content
  <2>1. fs'[At(k, "backup")] = fs[Root]
    BY <1>1, <1>9, MoveSteps
  <2>2. k \in Backups'
    BY <1>1, <1>9, <2>1, Trees DEF Files, Whole, Backups, Exists
  <2> QED
    BY <1>1, <1>9, <2>1, <2>2, TheContent, TheNextContent
<1>10. ASSUME NEW k \in Job, Backups = {k}, Move(At(k, "staging"), Root)
       PROVE  Content' = Content
  <2>1. OthersKeep(k, {"staging"})
    BY <1>1, <1>10, MoveSteps
  <2> QED
    BY <1>3, <1>10, <2>1 DEF Trees_
<1>11. CASE Commit /\ Move(At(cur, "backup"), At(cur, "committed"))
  BY <1>11
<1>12. ASSUME NEW k \in Backups, Move(At(k, "backup"), Root)
       PROVE  Content' = Content
  <2>1. /\ fs'[Root] = fs[At(k, "backup")] /\ fs'[At(k, "backup")] = None
        /\ OthersKeep(k, {"backup"})
    BY <1>1, <1>12, MoveSteps DEF Backups
  <2>2. Backups = {k} /\ Content = fs[At(k, "backup")]
    BY <1>1, <1>12, TheContent
  <2>3. Backups' = {}
    BY <2>1, <2>2 DEF OthersKeep, Backups, Exists, Trees_
  <2> QED
    BY <1>1, <2>1, <2>2, <2>3, TheNextContent
<1>13. ASSUME NEW k \in Job, Returns(k)
       PROVE  Content' = Content
  <2>1. fs[Root] = None /\ OthersKeep(k, {"committed"})
    BY <1>1, <1>13, MoveSteps DEF Returns
  <2>2. Backups # {}
    BY <1>1, <2>1, Trees DEF Files, Whole
  <2> QED
    BY <1>3, <2>1, <2>2 DEF Trees_
<1>14. ASSUME NEW k \in Backups, NEW a \in Artifact \ Trees_,
              Move(Root, At(k, a))
       PROVE  Content' = Content
  <2>1. k \in Job /\ OthersKeep(k, {})
    BY <1>1, <1>14, MoveSteps DEF Backups
  <2> QED
    BY <1>3, <1>14, <2>1
<1> QED
  BY <1>4, <1>5, <1>6, <1>7, <1>8, <1>9, <1>10, <1>11, <1>12, <1>13, <1>14,
     FileForms DEF FileForm

LEMMA AbstractStep ==
    ASSUME IInv, [Next]_vars
    PROVE  [Abstract!Next]_(Abstract!vars)
<1>1. CASE Commit /\ Move(At(cur, "backup"), At(cur, "committed"))
  <2>1. cur \in Job /\ Abstract!Replace(cur)
    BY <1>1, CommitReplaces DEF Abstract!Replace, Staged
  <2> QED
    BY <2>1 DEF Abstract!Next
<1>2. CASE ~(Commit /\ Move(At(cur, "backup"), At(cur, "committed")))
  <2>1. done' = done
    BY <1>2, OnlyCommitsCount
  <2>2. CASE Content' = Content
    BY <2>1, <2>2 DEF Abstract!vars
  <2>3. CASE Content' = [Content EXCEPT !.rev = @ + 1]
    BY <2>1, <2>3 DEF Abstract!Next, Abstract!Edit
  <2> QED
    BY <1>2, <2>2, <2>3, ContentStep
<1> QED
  BY <1>1, <1>2

\* Replacement is atomic: whatever the swap, the rollback and the recovery
\* move, delete and record, and wherever the process dies, the content of the
\* workspace is what the users' edits made of it until the one rename that
\* commits a job's tree.
THEOREM AtomicityOfReplacement == Spec => ReplacementIsAtomic
<1>1. Init => Abstract!Init
  <2> SUFFICES ASSUME Init PROVE Abstract!Init
    OBVIOUS
  <2>1. Files /\ fs[Root] = [src |-> Own, rev |-> 0]
    BY InitialInvariant, Paths DEF Init, IInv
  <2>2. Backups = {}
    BY Paths DEF Init, Backups, Exists, Artifact
  <2> QED
    BY <2>1, <2>2, TheContent DEF Init, Abstract!Init
<1> QED
  BY <1>1, AbstractStep, ReplacementInvariant, PTL
     DEF Spec, ReplacementIsAtomic, Abstract!Spec

----------------------------------------------------------------------------
(* What is derived from the tree *)

\* The source of the tree the workspace consists of, and the jobs whose
\* record asks the next boot for what the running process still owes them.
Source == Content.src
Once == \A j \in Job : attempts[j] <= 1

\* An import whose record has left "uploaded" was prepared.
Tried == \A j \in Job : kind[j] = "import" /\ job[j].state # "uploaded"
                           => attempts[j] >= 1

\* Before its swap a job that is prepared once has no reset on record.
Unreset ==
    /\ \A j \in Job : job[j].state \in {"uploaded", "preparing", "ready"}
                         => job[j].reset = "unset"
    /\ \A j \in pending : job[j].reset = "unset"
    /\ exec \in {"drain", "stop", "swapOut", "swapIn"}
         => job[cur].reset = "unset"

\* A record the recovery asks a reset for: of a job past its swap, of one
\* whose recovery is over, and of one it still has to finish.
InFlight(j) ==
    /\ job[j].state = "replacing" /\ job[j].prepared
    /\ job[j].reset # "no" /\ ~Exists(At(j, "staging"))
Settled(j) ==
    /\ job[j].reset = "yes"
    /\ job[j].state \in {"replacing", "complete", "failed"}
    /\ job[j].state = "replacing" => ~job[j].prepared
Owing(j) ==
    \/ InFlight(j) \/ Settled(j)
    \/ /\ job[j].state \in {"complete", "failed"}
       /\ job[j].prepared /\ job[j].reset # "no"

\* A record the recovery takes for a completed replacement.
Finishing(j) ==
    \/ job[j].state = "complete" /\ Owing(j)
    \/ InFlight(j) /\ Exists(At(j, "committed")) /\ ~Exists(At(j, "marker"))

\* What is derived describes the workspace, or one of the jobs asks for a
\* reset; the policies are the workspace's, or its own job is finished again.
DerivedOwed(jobs) ==
    derived = Source \/ \E j \in jobs : Owing(j) /\ Backups \subseteq {j}
PolicyOwed(jobs) ==
    policy = Source \/ (Source \in jobs /\ Finishing(Source) /\ Backups = {})

\* The executor, from its swap to the end of the commit or the rollback.
Flying == {"reset", "restart", "commit", "committed", "mark", "unseat",
           "restore", "resetBack"}
Running ==
    /\ exec \in Flying => InFlight(cur)
    /\ exec = "resetBack" => script \in {<<>>, <<RemoveOp(At(cur, "failed"))>>}
    /\ exec \in {"swapIn", "reset", "restart", "commit", "committed"}
         => ~Exists(At(cur, "marker"))
    /\ exec = "committed" => Source = cur /\ Exists(At(cur, "committed"))
    /\ exec \in {"restart", "commit", "committed"} => derived = cur
    /\ server \in {"open", "closed", "stopped"} =>
         /\ exec \notin Flying \cup {"incomplete"} => derived = Source
         /\ exec # "committed" => policy = Source
    /\ exec = "incomplete" =>
         derived = Source \/ (InFlight(cur) /\ Backups \subseteq {cur})
    /\ server \in {"down", "rejected"} => DerivedOwed(Job) /\ PolicyOwed(Job)

\* The recovery of job k at boot records one outcome u for it, last of all,
\* and a reset when it asked for one.
RecordOps(k, u, due) ==
    {RecordOp(k, r) : r \in {r \in Record : /\ r.state = u
                                            /\ k \in due => r.reset = "yes"}}
BootOps(k, u, due) ==
    RecordOps(k, u, due) \cup {RemoveOp(p) : p \in Path}
                         \cup {MoveOp(p, q) : p \in Path, q \in Path}
Writing(k, u) ==
    \E s \in Seq(BootOps(k, u, owed)), o \in RecordOps(k, u, owed) :
        script = s \o <<o>>

Visited ==
    \/ script = <<>> /\ \A j \in owed : Settled(j)
    \/ \E k \in Job \ todo, u \in {"complete", "failed"} :
         /\ Writing(k, u)
         /\ job[k].state = "complete" => u = "complete"
         /\ \A j \in owed \ {k} : Settled(j)
Announced ==
    policy # Source /\ Source \notin todo
      => \/ job[Source].state = "complete"
         \/ script # <<>> /\ Head(script) \in RecordOps(Source, "complete", owed)
Booting ==
    /\ server # "booting" => owed = {}
    /\ server = "booting" =>
         /\ DerivedOwed(todo \cup owed) /\ PolicyOwed(todo \cup owed)
         /\ Visited /\ Announced
         /\ exec = "recover" => owed \cap todo = {}
    /\ exec = "bootReset" => todo = owed /\ owed # {}
    /\ exec = "bootFinalize" =>
         derived = Source /\ PolicyOwed(todo) /\ todo \subseteq owed

Fresh == Unreset /\ Running /\ Booting
RInv == IInv /\ Tried /\ (Once => Fresh)

\* A sequence that ends with a given element, and what its tail is.
LEMMA Ending ==
    ASSUME NEW S, NEW s \in Seq(S), NEW o \in S
    PROVE  /\ s \o <<o>> # <<>>
           /\ s = <<>> => Head(s \o <<o>>) = o /\ Tail(s \o <<o>>) = <<>>
           /\ s # <<>> => /\ Head(s) \in S /\ Head(s \o <<o>>) = Head(s)
                          /\ Tail(s) \in Seq(S)
                          /\ Tail(s \o <<o>>) = Tail(s) \o <<o>>
<1>1. <<o>> \in Seq(S) /\ s \o <<o>> \in Seq(S) /\ s \o <<o>> # <<>>
  OBVIOUS
<1>2. CASE s = <<>>
  <2>1. s \o <<o>> = <<o>>
    BY <1>2
  <2> QED
    BY <1>1, <1>2, <2>1
<1>3. CASE s # <<>>
  <2>1. Head(s) \in S /\ Tail(s) \in Seq(S) /\ Head(s \o <<o>>) = Head(s)
    BY <1>1, <1>3, SeqSteps
  <2>2. s = <<Head(s)>> \o Tail(s)
    BY <1>3
  <2>3. s \o <<o>> = <<Head(s)>> \o (Tail(s) \o <<o>>)
    BY <2>1, <2>2
  <2>4. Tail(s) \o <<o>> \in Seq(S)
    BY <1>1, <2>1
  <2> QED
    BY <1>1, <1>3, <2>1, <2>3, <2>4, Cons
<1> QED
  BY <1>1, <1>2, <1>3

LEMMA AttemptSteps ==
    ASSUME [Next]_vars
    PROVE  \/ attempts' = attempts
           \/ \E j \in Job : PrepareStart(j)
<1> USE DEF Steady
<1>1. CASE Request
  BY <1>1 DEF Request, Edit, PrepareDone, PrepareFail, Confirm, SnapshotBegin,
              Schedule, Refuse, Expire, MaintainClear
<1>2. CASE Drain \/ Stop \/ SwapOut \/ SwapIn \/ SwapBack \/ Reset
           \/ Restart \/ Commit \/ OnCommitted \/ OnSucceeded \/ Release
  BY <1>2 DEF Drain, Stop, SwapOut, SwapIn, SwapBack, Reset, Restart, Commit,
              OnCommitted, OnSucceeded, Release
<1>3. CASE MarkRollback \/ Unseat \/ Restore \/ ResetBack \/ Relaunch
           \/ OnFailed \/ Terminate \/ Boot \/ Recovered \/ BootReset
           \/ BootAcknowledge \/ \E j \in Job : Recover(j) \/ BootFinalize(j)
  BY <1>3 DEF MarkRollback, Unseat, Restore, ResetBack, Relaunch, OnFailed,
              Terminate, Boot, Recovered, BootReset, BootAcknowledge, Recover,
              BootFinalize
<1>4. CASE ScriptStep \/ ScriptThrows \/ Crash \/ UNCHANGED vars
  BY <1>4 DEF ScriptStep, ScriptThrows, Crash, vars
<1> QED
  BY <1>1, <1>2, <1>3, <1>4 DEF Next, Advance

\* Preparations are counted, never forgotten.
LEMMA OnceBefore ==
    ASSUME TypeOK, [Next]_vars
    PROVE  /\ \A j \in Job : attempts[j] \in Nat /\ attempts'[j] >= attempts[j]
           /\ Once' => Once
<1>1. \A j \in Job : attempts[j] \in Nat
  BY BoundsAssumption DEF TypeOK
<1>2. \A j \in Job : attempts'[j] >= attempts[j] /\ attempts'[j] \in Nat
  <2>1. CASE attempts' = attempts
    BY <1>1, <2>1
  <2>2. ASSUME NEW k \in Job, PrepareStart(k)
        PROVE  \A j \in Job : attempts'[j] >= attempts[j] /\ attempts'[j] \in Nat
    <3>1. attempts' = [attempts EXCEPT ![k] = @ + 1]
      BY <2>2 DEF PrepareStart
    <3>2. DOMAIN attempts = Job
      BY DEF TypeOK
    <3> QED
      BY <1>1, <3>1, <3>2
  <2> QED
    BY <2>1, <2>2, AttemptSteps
<1> QED
  BY <1>1, <1>2 DEF Once

\* A record leaves "uploaded" only when its job is prepared, or as the record
\* of a snapshot.
LEMMA FirstRecords ==
    ASSUME IInv, [Next]_vars, NEW j \in Job, job'[j].state # "uploaded"
    PROVE  job[j].state # "uploaded" \/ PrepareStart(j) \/ kind[j] = "snapshot"
<1>1. TypeOK /\ Stepping /\ Scripted
  BY DEF IInv
<1>2. job'[j] = job[j] => job[j].state # "uploaded"
  OBVIOUS
<1>3. CASE Request
  <2>1. CASE job' = job
    BY <1>2, <2>1
  <2>2. ASSUME NEW k \in Job, \/ PrepareStart(k) \/ PrepareDone(k) \/ PrepareFail(k)
                              \/ Confirm(k) \/ SnapshotBegin(k) \/ Refuse(k)
        PROVE  job[j].state # "uploaded" \/ PrepareStart(j) \/ kind[j] = "snapshot"
    <3>1. j # k => job'[j] = job[j]
      BY <1>1, <2>2, RequestRecords DEF RecordKept
    <3>2. CASE j = k /\ ~PrepareStart(k) /\ ~SnapshotBegin(k)
      BY <1>1, <2>2, <3>2
         DEF PrepareDone, PrepareFail, Confirm, Refuse, IInv, Waiting
    <3> QED
      BY <1>2, <2>2, <3>1, <3>2 DEF SnapshotBegin
  <2> QED
    BY <1>3, <2>1, <2>2 DEF Request, Edit, Schedule, Expire, MaintainClear, durable
<1>4. CASE OnCommitted \/ Terminate
  <2>1. cur \in Job /\ job[cur].state # "uploaded"
    BY <1>1, <1>4, CurIsAJob DEF OnCommitted, Terminate, Stepping
  <2>2. j # cur => job'[j] = job[j]
    BY <1>4, <1>1, <2>1 DEF OnCommitted, Terminate, TypeOK
  <2> QED
    BY <1>2, <2>1, <2>2
<1>5. CASE BootAcknowledge
  <2>1. job' = job \/ \E k \in owed : job' = [job EXCEPT ![k].reset = "no"]
    BY <1>5 DEF BootAcknowledge
  <2>2. job \in [Job -> Record] /\ owed \subseteq Job
    BY <1>1 DEF TypeOK
  <2>3. job'[j].state = job[j].state
    BY <2>1, <2>2 DEF Record
  <2> QED
    BY <2>3
<1>6. CASE ScriptStep
  <2>1. ScriptForm
    BY <1>6, ScriptForms
  <2>2. job' = job \/ \E k \in Job, r \in Record :
                         Tidying(k) /\ job' = [job EXCEPT ![k] = r]
    BY <2>1 DEF ScriptForm, Tidies, Returns, Records, Clears
  <2> QED
    BY <1>1, <1>2, <2>2 DEF Tidying, TypeOK
<1>7. CASE ScriptThrows \/ Crash \/ UNCHANGED vars
  BY <1>2, <1>7 DEF ScriptThrows, Crash, vars, durable
<1>8. CASE Drain \/ Stop \/ SwapOut \/ SwapIn \/ SwapBack \/ Reset
           \/ Restart \/ Commit \/ OnSucceeded \/ Release \/ MarkRollback
  BY <1>2, <1>8 DEF Drain, Stop, SwapOut, SwapIn, SwapBack, Reset, Restart,
              Commit, OnSucceeded, Release, MarkRollback, durable
<1>9. CASE Unseat \/ Restore \/ ResetBack \/ Relaunch
           \/ OnFailed \/ Boot \/ Recovered \/ BootReset
           \/ \E k \in Job : Recover(k) \/ BootFinalize(k)
  BY <1>2, <1>9 DEF Unseat, Restore, ResetBack, Relaunch, OnFailed, Boot,
              Recovered, BootReset, Recover, BootFinalize, durable
<1> QED
  BY <1>3, <1>4, <1>5, <1>6, <1>7, <1>8, <1>9 DEF Next, Advance

LEMMA KindStays ==
    ASSUME IInv, [Next]_vars
    PROVE  kind' = kind
  BY RecordForms DEF RecordForm

LEMMA TriedStep ==
    ASSUME IInv, Tried, [Next]_vars
    PROVE  Tried'
<1> SUFFICES ASSUME NEW j \in Job, kind'[j] = "import", job'[j].state # "uploaded"
             PROVE  attempts'[j] >= 1
  BY DEF Tried
<1>1. TypeOK /\ kind' = kind
  BY KindStays DEF IInv
<1>2. attempts[j] \in Nat /\ attempts'[j] \in Nat /\ attempts'[j] >= attempts[j]
  <2>1. TypeOK'
    BY TypeStep
  <2> QED
    BY <1>1, <2>1, OnceBefore, BoundsAssumption DEF TypeOK
<1>3. CASE job[j].state # "uploaded"
  BY <1>1, <1>2, <1>3 DEF Tried
<1>4. CASE PrepareStart(j)
  <2>1. attempts'[j] = attempts[j] + 1
    BY <1>1, <1>4 DEF PrepareStart, TypeOK
  <2> QED
    BY <1>2, <2>1
<1> QED
  BY <1>1, <1>3, <1>4, FirstRecords

\* Only a commit changes the source of the workspace.
LEMMA SourceSteps ==
    ASSUME IInv, [Next]_vars
    PROVE  /\ \/ Source' = Source
              \/ Commit /\ Move(At(cur, "backup"), At(cur, "committed"))
           /\ Commit /\ Move(At(cur, "backup"), At(cur, "committed"))
                => Source' = cur
<1>1. CASE Content' = Content
  BY <1>1, CommitReplaces DEF Source, Staged
<1>2. CASE Edit /\ Content' = [Content EXCEPT !.rev = @ + 1]
  <2>1. Content = fs[Root] /\ Content \in Tree
    BY <1>2, TheContent DEF IInv, Serving, Edit, Files, Whole
  <2>2. Content'.src = Content.src
    BY <1>2, <2>1 DEF Tree
  <2> QED
    BY <2>2, CommitReplaces DEF Source, Staged
<1>3. CASE Commit /\ Move(At(cur, "backup"), At(cur, "committed"))
  BY <1>3, CommitReplaces DEF Source, Staged
<1> QED
  BY <1>1, <1>2, <1>3, ContentStep

\* With no backup the tree at the root is the workspace.
LEMMA LiveIsSource ==
    ASSUME IInv
    PROVE  /\ Source \in Job \cup {Own}
           /\ Backups = {} => Whole(Root) /\ LiveSource = Source
<1>1. Files
  BY DEF IInv
<1>2. Content \in Tree
  BY <1>1, TheContent DEF Files, Whole
<1> QED
  BY <1>1, <1>2, TheContent DEF Files, LiveSource, Source, Tree

\* What a job owes stays owed while nobody writes its record or its files.
LEMMA OwingKept ==
    ASSUME NEW j, job'[j] = job[j],
           Exists(At(j, "staging"))' => Exists(At(j, "staging"))
    PROVE  /\ InFlight(j) => InFlight(j)'
           /\ Settled(j) => Settled(j)'
           /\ Owing(j) => Owing(j)'
           /\ \/ Exists(At(j, "committed")) /\ ~Exists(At(j, "committed"))'
              \/ Exists(At(j, "marker"))' /\ ~Exists(At(j, "marker"))
              \/ (Finishing(j) => Finishing(j)')
  BY DEF InFlight, Settled, Owing, Finishing, Exists

\* However the process stands, a boot would find in the records what is still
\* to be refreshed.
LEMMA AlwaysOwed ==
    ASSUME IInv, Fresh
    PROVE  DerivedOwed(Job) /\ PolicyOwed(Job)
<1>1. Running /\ Booting /\ Stepping /\ Serving /\ TypeOK
  BY DEF IInv, Fresh
<1>2. CASE server \in {"down", "rejected"}
  BY <1>1, <1>2 DEF Running
<1>3. CASE server = "booting"
  BY <1>1, <1>3 DEF Booting, DerivedOwed, PolicyOwed, TypeOK
<1>4. CASE server \in {"open", "closed", "stopped"}
  <2>1. CASE exec \notin Flying \cup {"incomplete"}
    BY <1>1, <1>4, <2>1 DEF Running, DerivedOwed, PolicyOwed, Flying
  <2>2. CASE exec = "incomplete"
    BY <1>1, <1>4, <2>2, CurIsAJob DEF Running, DerivedOwed, PolicyOwed, Owing
  <2>3. CASE exec \in Flying
    <3>1. cur \in Job /\ InFlight(cur) /\ Backups \subseteq {cur}
      BY <1>1, <1>4, <2>3 DEF Running, Stepping, Flying, Swapped, Seated
    <3>2. DerivedOwed(Job)
      BY <3>1 DEF DerivedOwed, Owing
    <3>3. CASE exec = "committed"
      <4>1. Source = cur /\ Exists(At(cur, "committed"))
            /\ ~Exists(At(cur, "marker"))
        BY <1>1, <3>3 DEF Running
      <4>2. Backups = {}
        BY <1>1, <3>3 DEF Stepping, Seated
      <4>3. Finishing(cur)
        BY <3>1, <4>1 DEF Finishing
      <4> QED
        BY <3>1, <3>2, <4>1, <4>2, <4>3 DEF PolicyOwed
    <3>4. CASE exec # "committed"
      <4>1. policy = Source
        BY <1>1, <1>4, <3>4 DEF Running
      <4> QED
        BY <3>2, <4>1 DEF PolicyOwed
    <3> QED
      BY <3>2, <3>3, <3>4
  <2> QED
    BY <2>1, <2>2, <2>3
<1> QED
  BY <1>1, <1>2, <1>3, <1>4 DEF TypeOK

\* The same after a step that writes nothing a boot reads.
LEMMA StillOwed ==
    ASSUME NEW jobs, NEW later, jobs \subseteq later,
           job' = job, derived' = derived, policy' = policy, Source' = Source,
           Backups' \subseteq Backups,
           \A j \in jobs :
             /\ Exists(At(j, "staging"))' => Exists(At(j, "staging"))
             /\ Exists(At(j, "committed")) => Exists(At(j, "committed"))'
             /\ Exists(At(j, "marker"))' => Exists(At(j, "marker"))
    PROVE  /\ DerivedOwed(jobs) => DerivedOwed(later)'
           /\ PolicyOwed(jobs) => PolicyOwed(later)'
<1>1. \A j \in jobs : /\ Owing(j) => Owing(j)'
                      /\ Finishing(j) => Finishing(j)'
  BY OwingKept
<1>2. DerivedOwed(jobs) => DerivedOwed(later)'
  BY <1>1 DEF DerivedOwed
<1>3. PolicyOwed(jobs) => PolicyOwed(later)'
  BY <1>1 DEF PolicyOwed
<1> QED
  BY <1>2, <1>3

\* The process ends and leaves what was to be refreshed to the next one.
LEMMA LaidDown ==
    ASSUME exec' = "idle", server' \in {"down", "rejected"}, owed' = {},
           pending' = {}, DerivedOwed(Job)', PolicyOwed(Job)',
           \A j \in Job : job'[j].state \in {"uploaded", "preparing", "ready"}
                            => job'[j].reset = "unset"
    PROVE  Fresh'
<1>1. Unreset'
  BY DEF Unreset
<1>2. Running'
  BY DEF Running, Flying
<1>3. Booting'
  BY DEF Booting
<1> QED
  BY <1>1, <1>2, <1>3 DEF Fresh

\* Crash, and a callback that throws before it has written anything.
LEMMA EndKeepsOwed ==
    ASSUME IInv, Fresh, [Next]_vars, ProcessEnds, job' = job,
           derived' = derived, policy' = policy
    PROVE  Fresh'
<1>1. TypeOK /\ Files /\ Unreset
  BY DEF IInv, Fresh
<1>2. /\ \A j \in Job, a \in Artifact \ {"interrupted"} :
            fs'[At(j, a)] = fs[At(j, a)]
      /\ server' = "down" /\ exec' = "idle" /\ pending' = {} /\ owed' = {}
  BY <1>1, EndsAt
<1>3. Backups' = Backups
  BY <1>2 DEF Backups, Exists, Artifact
<1>4. Source' = Source
  <2>1. exec' # exec \/ ~Commit
    BY <1>2 DEF Commit
  <2>2. ~Commit \/ exec' \in {"mark", "committed"}
    BY DEF Commit
  <2> QED
    BY <1>2, <2>2, SourceSteps
<1>5. \A j \in Job :
        /\ Exists(At(j, "staging"))' => Exists(At(j, "staging"))
        /\ Exists(At(j, "committed")) => Exists(At(j, "committed"))'
        /\ Exists(At(j, "marker"))' => Exists(At(j, "marker"))
  BY <1>2 DEF Exists, Artifact
<1>6. DerivedOwed(Job)' /\ PolicyOwed(Job)'
  <2>1. DerivedOwed(Job) /\ PolicyOwed(Job)
    BY AlwaysOwed
  <2> QED
    BY <1>3, <1>4, <1>5, <2>1, StillOwed
<1> QED
  BY <1>1, <1>2, <1>6, LaidDown DEF Unreset

\* The invariants of a job's first attempt after a step that leaves the
\* records alone and does not take the executor to a step before its swap.
LEMMA UnresetKept ==
    ASSUME Unreset, job' = job, pending' \subseteq pending,
           \/ exec' \notin {"drain", "stop", "swapOut", "swapIn"}
           \/ exec' = exec /\ cur' = cur
           \/ exec \in {"drain", "stop", "swapOut"} /\ cur' = cur
    PROVE  Unreset'
  BY DEF Unreset

\* The same after a step that writes one record.
LEMMA UnresetWritten ==
    ASSUME Unreset, NEW k \in Job, RecordKept(k), pending \subseteq Job,
           job'[k].state \in {"uploaded", "preparing", "ready"}
             => job'[k].reset = "unset",
           pending' \subseteq pending \cup {k},
           k \in pending' => job'[k].reset = "unset",
           exec' = exec, cur' = cur,
           exec \in {"drain", "stop", "swapOut", "swapIn"}
             => cur \in Job /\ (cur = k => job'[k].reset = "unset")
    PROVE  Unreset'
  BY DEF Unreset, RecordKept

\* Before its swap a job has no reset on record, whatever request is served.
LEMMA RequestsUnreset ==
    ASSUME IInv, Fresh, Request,
           \A k \in Job : PrepareStart(k) => job[k].state = "uploaded"
    PROVE  Unreset'
<1>1. /\ TypeOK /\ Unreset /\ Waiting /\ job \in [Job -> Record]
      /\ pending \subseteq Job
      /\ exec \in {"drain", "stop", "swapOut", "swapIn"} => cur \in Job
  BY DEF IInv, Fresh, Stepping, Serving, TypeOK
<1>2. CASE Edit
  BY <1>1, <1>2, UnresetKept DEF Edit, process
<1>3. ASSUME NEW k \in Job, \/ PrepareStart(k) \/ PrepareDone(k)
                            \/ PrepareFail(k) \/ Confirm(k) \/ SnapshotBegin(k)
      PROVE  Unreset'
  <2>1. RecordKept(k) /\ exec' = exec /\ cur' = cur
        /\ pending' \subseteq pending \cup {k}
    BY <1>1, <1>3, RequestRecords
       DEF PrepareStart, PrepareDone, PrepareFail, Confirm, SnapshotBegin, process
  <2>2. job'[k].reset = job[k].reset
    BY <1>1, <1>3
       DEF PrepareStart, PrepareDone, PrepareFail, Confirm, SnapshotBegin, Record
  <2>3. job[k].state \in {"uploaded", "preparing", "ready"}
    BY <1>3 DEF PrepareStart, PrepareDone, PrepareFail, Confirm, SnapshotBegin
  <2>4. job'[k].reset = "unset"
    BY <1>1, <2>2, <2>3 DEF Unreset
  <2> QED
    BY <1>1, <2>1, <2>4, UnresetWritten
<1>4. ASSUME NEW k \in Job, Refuse(k)
      PROVE  Unreset'
  <2>1. /\ RecordKept(k) /\ exec' = exec /\ cur' = cur
        /\ pending' = pending \ {k} /\ k \in pending
        /\ job'[k].state \in {"ready", "failed"}
    BY <1>1, <1>4, RequestRecords DEF Refuse
  <2>2. job[k].reset = "unset"
    BY <1>1, <2>1 DEF Unreset
  <2>3. \/ job' = [job EXCEPT ![k].state = "ready"]
        \/ job' = [job EXCEPT ![k].state = "failed", ![k].reset = "no"]
    BY <1>4 DEF Refuse
  <2>4. job'[k].state = "ready" => job'[k].reset = "unset"
    BY <1>1, <2>2, <2>3 DEF Record
  <2>5. exec \in {"drain", "stop", "swapOut", "swapIn"} => cur # k
    <3>1. exec \in {"drain", "stop", "succeed"} => cur \notin pending
      BY <1>1 DEF Waiting
    <3>2. exec \notin {"swapOut", "swapIn"}
      BY <1>1, <2>1 DEF Waiting, IInv, Serving
    <3> QED
      BY <2>1, <3>1, <3>2
  <2> QED
    BY <1>1, <2>1, <2>4, <2>5, UnresetWritten
<1>5. ASSUME NEW k \in Job, Schedule(k)
      PROVE  Unreset'
  <2>1. job' = job /\ pending' = pending \ {k} /\ k \in pending /\ cur' = k
    BY <1>5 DEF Schedule
  <2> QED
    BY <1>1, <2>1 DEF Unreset
<1>6. ASSUME NEW k \in Job, Expire(k) \/ MaintainClear(k)
      PROVE  Unreset'
  BY <1>1, <1>6, UnresetKept DEF Expire, MaintainClear, durable, Steady
<1> QED
  BY <1>2, <1>3, <1>4, <1>5, <1>6 DEF Request

\* Nor does the executor or a boot write one.
LEMMA StepsUnreset ==
    ASSUME IInv, Fresh, [Next]_vars, ~Request
    PROVE  Unreset'
<1>1. /\ TypeOK /\ Unreset /\ Waiting /\ Stepping /\ job \in [Job -> Record]
      /\ pending \subseteq Job /\ owed \subseteq Job
  BY DEF IInv, Fresh, TypeOK
<1>2. CASE Drain \/ Stop \/ SwapOut \/ SwapIn \/ SwapBack \/ Reset
           \/ Restart \/ Commit \/ OnSucceeded \/ Release \/ MarkRollback
  BY <1>1, <1>2, UnresetKept
     DEF Drain, Stop, SwapOut, SwapIn, SwapBack, Reset, ResetDerived, Restart,
         Commit, OnSucceeded, Release, MarkRollback, durable, Steady
<1>3. CASE Unseat \/ Restore \/ ResetBack \/ Relaunch
           \/ OnFailed \/ Boot \/ Recovered \/ BootReset
           \/ \E k \in Job : Recover(k) \/ BootFinalize(k)
  BY <1>1, <1>3, UnresetKept
     DEF Unseat, Restore, ResetBack, ResetDerived, Relaunch, OnFailed, Boot,
         Recovered, BootReset, Recover, BootFinalize, durable, Steady, Reject
<1>4. ASSUME NEW k \in Job, RecordKept(k), pending' = {},
             exec' \notin {"drain", "stop", "swapOut", "swapIn"},
             job'[k].state \notin {"uploaded", "preparing", "ready"}
      PROVE  Unreset'
  BY <1>1, <1>4 DEF Unreset, RecordKept
<1>5. CASE OnCommitted
  <2>1. /\ cur \in Job /\ job[cur].state = "replacing" /\ pending = {}
        /\ pending' = {} /\ exec' \in {"idle", "succeed"}
    BY <1>1, <1>5, CurIsAJob
       DEF OnCommitted, ProcessEnds, Stepping, Waiting, IInv, Serving
  <2>2. \/ job' = job
        \/ job' = [job EXCEPT ![cur].state = "complete", ![cur].cleanup = TRUE]
        \/ job' = [job EXCEPT ![cur].reset = "no"]
    BY <1>5 DEF OnCommitted
  <2>3. RecordKept(cur) /\ job'[cur].state \in {"replacing", "complete"}
    BY <1>1, <2>1, <2>2 DEF RecordKept, Record
  <2> QED
    BY <1>4, <2>1, <2>3
<1>6. CASE Terminate
  <2>1. cur \in Job /\ pending' = {} /\ exec' = "idle"
    BY <1>6, CurIsAJob DEF Terminate, ProcessEnds
  <2>2. \/ job' = job
        \/ job' = [job EXCEPT ![cur].state = "replacing"]
    BY <1>6 DEF Terminate
  <2>3. CASE job' = job
    BY <1>1, <2>1, <2>3, UnresetKept
  <2>4. CASE job' = [job EXCEPT ![cur].state = "replacing"]
    <3>1. RecordKept(cur) /\ job'[cur].state = "replacing"
      BY <1>1, <2>1, <2>4 DEF RecordKept, Record
    <3> QED
      BY <1>4, <2>1, <3>1
  <2> QED
    BY <2>2, <2>3, <2>4
<1>7. CASE BootAcknowledge
  <2>1. exec = "bootFinalize" /\ server = "booting" /\ script = <<>>
    BY <1>7, ServerAt DEF BootAcknowledge
  <2>2. /\ pending = {} /\ pending' = {}
        /\ exec' \notin {"drain", "stop", "swapOut", "swapIn"}
    BY <1>1, <1>7, <2>1 DEF BootAcknowledge, Reject, Waiting
  <2>3. CASE job' = job
    BY <1>1, <2>2, <2>3, UnresetKept
  <2>4. ASSUME NEW k \in owed, job' = [job EXCEPT ![k].reset = "no"]
        PROVE  Unreset'
    <3>1. Visited /\ k \in Job
      BY <1>1, <2>1 DEF Fresh, Booting
    <3>2. Settled(k)
      <4>1. \A i, u : Writing(i, u) => script # <<>>
        BY Ending DEF Writing, BootOps
      <4> QED
        BY <2>1, <3>1, <4>1 DEF Visited
    <3>3. RecordKept(k) /\ job'[k].state = job[k].state
      BY <1>1, <2>4, <3>1 DEF RecordKept, Record
    <3> QED
      BY <1>4, <2>2, <3>1, <3>2, <3>3 DEF Settled
  <2> QED
    BY <1>7, <2>3, <2>4 DEF BootAcknowledge
<1>8. CASE ScriptStep
  <2>1. ScriptForm /\ UNCHANGED <<pending, exec, cur>>
    BY <1>8, ScriptForms DEF ScriptStep
  <2>2. CASE job' = job
    BY <1>1, <2>1, <2>2, UnresetKept
  <2>3. ASSUME NEW k \in Job, Tidying(k), NEW r \in Record, Records(k, r)
        PROVE  Unreset'
    <3>1. RecordKept(k) /\ job'[k] = r
      BY <1>1, <2>3 DEF Records, RecordKept
    <3>2. r.state \notin {"uploaded", "preparing", "ready"} /\ k \notin pending
      BY <2>3 DEF Records, Tidying
    <3>3. exec \in {"drain", "stop", "swapOut", "swapIn"} => cur \in Job /\ cur # k
      <4>1. script # <<>>
        BY <1>8 DEF ScriptStep
      <4>2. exec \notin {"swapOut", "swapIn"}
        BY <1>1, <4>1 DEF Stepping, Quiet
      <4>3. exec \in {"drain", "stop"} => cur \in Job
        BY <1>1, ServerAt DEF Stepping
      <4> QED
        BY <2>3, <4>2, <4>3 DEF Tidying
    <3> QED
      BY <1>1, <2>1, <3>1, <3>2, <3>3, UnresetWritten
  <2> QED
    BY <2>1, <2>2, <2>3 DEF ScriptForm, Tidies, Returns, Clears
<1>9. CASE ScriptThrows \/ Crash
  BY <1>1, <1>9, UnresetKept DEF ScriptThrows, Crash, Reject, ProcessEnds, durable
<1>10. CASE UNCHANGED vars
  BY <1>1, <1>10, UnresetKept DEF vars
<1> QED
  BY <1>2, <1>3, <1>5, <1>6, <1>7, <1>8, <1>9, <1>10 DEF Next, Advance

\* With everything refreshed, and the executor before its swap or after its
\* last step, nothing more is asked.
Calm == {"idle", "drain", "stop", "swapOut", "swapBack", "succeed", "release",
         "relaunch", "report", "recover"}
LEMMA CalmIsFresh ==
    ASSUME Unreset', owed' = {}, exec' \in Calm,
           server' \in {"open", "closed", "stopped"},
           derived' = Source', policy' = Source'
    PROVE  Fresh'
<1>1. Running'
  BY DEF Running, Flying, Calm
<1>2. Booting'
  BY DEF Booting, Calm
<1> QED
  BY <1>1, <1>2 DEF Fresh

LEMMA CalmStays ==
    ASSUME IInv, Fresh, [Next]_vars, exec \in Calm, exec' \in Calm,
           server \in {"open", "closed", "stopped"},
           server' \in {"open", "closed", "stopped"},
           UNCHANGED <<derived, policy, owed>>, Unreset'
    PROVE  Fresh'
<1>1. Running /\ Booting
  BY DEF Fresh
<1>2. derived = Source /\ policy = Source
  BY <1>1 DEF Running, Calm, Flying
<1>3. owed = {}
  BY <1>1 DEF Booting
<1>4. Source' = Source
  BY SourceSteps DEF Commit, Calm
<1> QED
  BY <1>2, <1>3, <1>4, CalmIsFresh

LEMMA RequestsFresh ==
    ASSUME IInv, Fresh, Request,
           \A k \in Job : PrepareStart(k) => job[k].state = "uploaded"
    PROVE  Fresh'
<1>1. [Next]_vars /\ Unreset'
  BY RequestsUnreset DEF Next
<1>2. Waiting /\ Serving
  BY DEF IInv
<1>3. UNCHANGED <<derived, policy, owed, server>>
  BY DEF Request, Edit, PrepareStart, PrepareDone, PrepareFail, Confirm,
         SnapshotBegin, Schedule, Refuse, Expire, MaintainClear, process,
         durable, Steady
<1>4. server = "open" \/ pending # {}
  BY DEF Request, Edit, PrepareStart, PrepareDone, PrepareFail, Confirm,
         SnapshotBegin, Schedule, Refuse, Expire, MaintainClear
<1>5. exec' = exec \/ exec' = "drain"
  BY DEF Request, Edit, PrepareStart, PrepareDone, PrepareFail, Confirm,
         SnapshotBegin, Schedule, Refuse, Expire, MaintainClear, process, Steady
<1>6. /\ server = "open" => exec \in Calm
      /\ server # "open" => exec = "stop"
  BY <1>2, <1>4 DEF Waiting, Serving, Calm
<1>7. server \in {"open", "closed"}
  BY <1>6, ServerAt
<1> QED
  BY <1>1, <1>3, <1>5, <1>6, <1>7, CalmStays DEF Calm

\* What the writes and renames of the executor do to the files that say what
\* a job still owes.
Told == {"staging", "committed", "marker"}
LEMMA ToldFiles ==
    ASSUME TypeOK, NEW k \in Job
    PROVE  /\ \A a \in {"backup", "failed", "interrupted"} :
                Move(Root, At(k, a)) \/ Move(At(k, a), Root)
                  => \A j \in Job, b \in Told : fs'[At(j, b)] = fs[At(j, b)]
           /\ Move(At(k, "staging"), Root) =>
                /\ fs'[At(k, "staging")] = None
                /\ fs'[At(k, "marker")] = fs[At(k, "marker")]
           /\ Move(At(k, "backup"), At(k, "committed")) =>
                /\ fs'[At(k, "committed")] = fs[At(k, "backup")]
                /\ fs'[At(k, "staging")] = fs[At(k, "staging")]
                /\ fs'[At(k, "marker")] = fs[At(k, "marker")]
           /\ fs' = [fs EXCEPT ![At(k, "marker")] = Mark] =>
                fs'[At(k, "staging")] = fs[At(k, "staging")]
<1>1. \A j \in Job, b \in Artifact : At(j, b) \in Path /\ At(j, b) # Root
  BY Paths
<1>2. \A p \in Path, q \in Path : p # q /\ Move(p, q) =>
        /\ fs'[q] = fs[p] /\ fs'[p] = None
        /\ \A r \in Path \ {p, q} : fs'[r] = fs[r]
  BY MovesTo DEF Moves
<1>3. Root \in Path
  BY Paths
<1>4. \A j \in Job, a, b \in Artifact : a # b => At(j, a) # At(k, b)
  BY Paths
<1>5. ASSUME NEW a \in {"backup", "failed", "interrupted"},
             Move(Root, At(k, a)) \/ Move(At(k, a), Root),
             NEW j \in Job, NEW b \in Told
      PROVE  fs'[At(j, b)] = fs[At(j, b)]
  <2>1. /\ a \in Artifact /\ b \in Artifact /\ a # b
    BY DEF Told, Artifact
  <2>2. /\ At(j, b) \in Path \ {At(k, a), Root}
        /\ At(k, a) \in Path /\ At(k, a) # Root
    BY <1>1, <1>4, <2>1
  <2> QED
    BY <1>2, <1>3, <1>5, <2>2
<1>6. ASSUME Move(At(k, "staging"), Root)
      PROVE  /\ fs'[At(k, "staging")] = None
             /\ fs'[At(k, "marker")] = fs[At(k, "marker")]
  BY <1>1, <1>2, <1>3, <1>4, <1>6 DEF Artifact
<1>7. ASSUME Move(At(k, "backup"), At(k, "committed"))
      PROVE  /\ fs'[At(k, "committed")] = fs[At(k, "backup")]
             /\ fs'[At(k, "staging")] = fs[At(k, "staging")]
             /\ fs'[At(k, "marker")] = fs[At(k, "marker")]
  <2>1. /\ At(k, "backup") \in Path /\ At(k, "committed") \in Path
        /\ At(k, "backup") # At(k, "committed")
    BY <1>1, <1>4 DEF Artifact
  <2>2. /\ At(k, "staging") \in Path \ {At(k, "backup"), At(k, "committed")}
        /\ At(k, "marker") \in Path \ {At(k, "backup"), At(k, "committed")}
    BY <1>1, <1>4 DEF Artifact
  <2> QED
    BY <1>2, <1>7, <2>1, <2>2
<1>8. ASSUME fs' = [fs EXCEPT ![At(k, "marker")] = Mark]
      PROVE  fs'[At(k, "staging")] = fs[At(k, "staging")]
  BY <1>1, <1>4, <1>8 DEF Artifact, TypeOK
<1> QED
  BY <1>5, <1>6, <1>7, <1>8

\* While the executor's job is past its swap it stays in flight.
LEMMA FlightStays ==
    ASSUME job' = job, cur' = cur,
           fs'[At(cur, "staging")] \in {fs[At(cur, "staging")], None}
    PROVE  InFlight(cur) => InFlight(cur)'
  BY DEF InFlight, Exists, At

\* Outside a boot, the executor's part of the invariant is enough.
LEMMA RunningIsFresh ==
    ASSUME Unreset', Running', owed' = {}, server' # "booting",
           exec' \notin {"bootReset", "bootFinalize"}
    PROVE  Fresh'
  BY DEF Fresh, Booting

\* The swap: from here on the job's record asks for a reset.
LEMMA SwapFresh ==
    ASSUME IInv, Fresh, SwapOut \/ SwapIn \/ SwapBack
    PROVE  Fresh'
<1>1. [Next]_vars /\ TypeOK /\ Stepping /\ Running /\ Booting /\ Named /\ Unreset
  BY DEF IInv, Fresh, Next, Advance
<1>2. Unreset'
  BY <1>1, StepsUnreset
     DEF SwapOut, SwapIn, SwapBack, Request, Edit, PrepareStart, PrepareDone,
         PrepareFail, Confirm, SnapshotBegin, Schedule, Refuse, Expire,
         MaintainClear, IInv, Serving, Waiting
<1>3. /\ cur \in Job /\ server = "stopped" /\ server' = server /\ cur' = cur
      /\ UNCHANGED <<derived, policy, job, owed>>
  BY CurIsAJob, ServerAt DEF SwapOut, SwapIn, SwapBack, Steady
<1>4. Source' = Source /\ derived = Source /\ policy = Source /\ owed = {}
  <2>1. exec \in {"swapOut", "swapIn", "swapBack"}
    BY DEF SwapOut, SwapIn, SwapBack
  <2>2. Source' = Source
    BY <1>1, <2>1, SourceSteps DEF Commit
  <2>3. derived = Source /\ policy = Source
    BY <1>1, <1>3, <2>1 DEF Running, Flying
  <2>4. owed = {}
    BY <1>1, <1>3 DEF Booting
  <2> QED
    BY <2>2, <2>3, <2>4
<1>5. CASE exec' \in Calm
  BY <1>2, <1>3, <1>4, <1>5, CalmIsFresh
<1>6. CASE SwapOut /\ exec' = "swapIn"
  <2>1. Admissible(cur) /\ Move(Root, At(cur, "backup"))
    BY <1>6 DEF SwapOut
  <2>2. ~Exists(At(cur, "marker"))'
    <3>1. fs[At(cur, "marker")] = None
      BY <2>1 DEF Admissible, Exists
    <3>2. fs'[At(cur, "marker")] = None
      BY <1>1, <1>3, <2>1, <3>1, ToldFiles DEF Told
    <3> QED
      BY <1>3, <3>2 DEF Exists, At
  <2>3. Running'
    BY <1>3, <1>4, <1>6, <2>2 DEF Running, Flying
  <2> QED
    BY <1>2, <1>3, <1>4, <1>6, <2>3, RunningIsFresh
<1>7. CASE SwapIn /\ exec' = "reset"
  <2>1. Move(At(cur, "staging"), Root) /\ exec = "swapIn"
    BY <1>7 DEF SwapIn
  <2>2. /\ fs'[At(cur, "staging")] = None
        /\ fs'[At(cur, "marker")] = fs[At(cur, "marker")]
    BY <1>1, <1>3, <2>1, ToldFiles
  <2>3. ~Exists(At(cur, "marker"))
    BY <1>1, <2>1 DEF Running
  <2>4. ~Exists(At(cur, "marker"))'
    BY <1>3, <2>2, <2>3 DEF Exists, At
  <2>5. job[cur].state = "replacing" /\ job[cur].prepared
    BY <1>1, <2>1 DEF Stepping, Named, BackupIsNamed
  <2>6. job[cur].reset = "unset"
    BY <1>1, <2>1 DEF Unreset
  <2>7. InFlight(cur)'
    BY <1>3, <2>2, <2>5, <2>6 DEF InFlight, Exists, At
  <2>8. Running'
    BY <1>3, <1>4, <1>7, <2>4, <2>7 DEF Running, Flying
  <2> QED
    BY <1>2, <1>3, <1>4, <1>7, <2>8, RunningIsFresh
<1>8. exec' \in {"swapIn", "reset"} \cup Calm
  BY DEF SwapOut, SwapIn, SwapBack, Calm
<1> QED
  BY <1>5, <1>6, <1>7, <1>8 DEF SwapOut, SwapIn, SwapBack, Calm

\* The reset, the restart on the new tree and the commit.
LEMMA CommitFresh ==
    ASSUME IInv, Fresh, Reset \/ Restart \/ Commit, Unreset'
    PROVE  Fresh'
<1>1. [Next]_vars /\ TypeOK /\ Stepping /\ Running /\ Booting
  BY DEF IInv, Fresh, Next, Advance
<1>2. /\ exec \in {"reset", "restart", "commit"} /\ server \in {"stopped", "closed"}
      /\ server' \in {"stopped", "closed"} /\ cur' = cur /\ cur \in Job
      /\ UNCHANGED <<policy, job, owed>> /\ owed = {}
      /\ exec' \in {"restart", "commit", "committed", "mark"}
  <2>1. exec \in {"reset", "restart", "commit"} /\ cur' = cur
        /\ UNCHANGED <<policy, job, owed>>
        /\ exec' \in {"restart", "commit", "committed", "mark"}
    BY DEF Reset, Restart, Commit, ResetDerived, Steady, durable
  <2>2. server \in {"stopped", "closed"}
    BY <2>1, ServerAt
  <2>3. server' = server \/ server' = "closed"
    BY DEF Reset, Restart, Commit
  <2>4. cur \in Job
    BY <1>1, <2>1, <2>2 DEF Stepping
  <2>5. owed = {}
    BY <1>1, <2>2 DEF Booting
  <2> QED
    BY <2>1, <2>2, <2>3, <2>4, <2>5
<1>3. /\ InFlight(cur) /\ ~Exists(At(cur, "marker")) /\ policy = Source
      /\ exec \in {"restart", "commit"} => derived = cur
      /\ Backups = {cur} /\ fs[Root] = Staged(cur)
  <2>1. InFlight(cur)
    BY <1>1, <1>2 DEF Running, Flying
  <2>2. ~Exists(At(cur, "marker"))
    BY <1>1, <1>2 DEF Running
  <2>3. policy = Source
    BY <1>1, <1>2 DEF Running
  <2>4. exec \in {"restart", "commit"} => derived = cur
    BY <1>1 DEF Running
  <2>5. Backups = {cur} /\ fs[Root] = Staged(cur)
    BY <1>1, <1>2 DEF Stepping, Swapped
  <2> QED
    BY <2>1, <2>2, <2>3, <2>4, <2>5
<1>4. exec' \in {"restart", "commit", "committed"} => derived' = cur
  <2>1. LiveSource = cur
    BY <1>2, <1>3, Trees DEF LiveSource, Whole, Staged
  <2> QED
    BY <1>3, <2>1 DEF Reset, Restart, Commit, ResetDerived, durable
<1>5. fs' = fs \/ (Commit /\ Move(At(cur, "backup"), At(cur, "committed")))
  BY DEF Reset, Restart, Commit, durable
<1>6. CASE fs' = fs /\ exec' # "committed"
  <2>1. Source' = Source
    <3>1. ~Move(At(cur, "backup"), At(cur, "committed"))
      <4>1. SUFFICES ASSUME Move(At(cur, "backup"), At(cur, "committed"))
                     PROVE  FALSE
        OBVIOUS
      <4>2. fs'[At(cur, "committed")] = fs[At(cur, "backup")]
        BY <1>1, <1>2, <4>1, ToldFiles
      <4>3. fs[At(cur, "committed")] = None /\ fs[At(cur, "backup")] # None
        BY <1>3, <4>1 DEF Move, Exists, Backups
      <4> QED
        BY <1>6, <4>2, <4>3
    <3> QED
      BY <1>1, <3>1, SourceSteps
  <2>2. InFlight(cur)'
    BY <1>2, <1>3, <1>6, FlightStays
  <2>3. ~Exists(At(cur, "marker"))'
    BY <1>2, <1>3, <1>6 DEF Exists, At
  <2>4. Running'
    BY <1>2, <1>3, <1>4, <1>6, <2>1, <2>2, <2>3 DEF Running, Flying
  <2> QED
    BY <1>2, <2>4, RunningIsFresh
<1>7. CASE /\ Commit /\ exec' = "committed"
           /\ Move(At(cur, "backup"), At(cur, "committed"))
  <2>1. Source' = cur
    BY <1>1, <1>7, SourceSteps
  <2>2. /\ fs'[At(cur, "committed")] = fs[At(cur, "backup")]
        /\ fs'[At(cur, "staging")] = fs[At(cur, "staging")]
        /\ fs'[At(cur, "marker")] = fs[At(cur, "marker")]
    BY <1>1, <1>2, <1>7, ToldFiles
  <2>3. InFlight(cur)'
    BY <1>2, <1>3, <2>2, FlightStays
  <2>4. ~Exists(At(cur, "marker"))'
    BY <1>2, <1>3, <2>2 DEF Exists, At
  <2>5. Exists(At(cur, "committed"))'
    <3>1. fs[At(cur, "backup")] # None
      BY <1>3 DEF Backups, Exists
    <3> QED
      BY <1>2, <2>2, <3>1 DEF Exists, At
  <2>6. Running'
    BY <1>2, <1>4, <1>7, <2>1, <2>3, <2>4, <2>5 DEF Running, Flying
  <2> QED
    BY <1>2, <2>6, RunningIsFresh
<1>8. \/ fs' = fs /\ exec' # "committed"
      \/ /\ Commit /\ exec' = "committed"
         /\ Move(At(cur, "backup"), At(cur, "committed"))
  BY DEF Reset, Restart, Commit, ResetDerived, durable
<1> QED
  BY <1>6, <1>7, <1>8

\* The rollback: marker, unseat, restore and the reset back.
LEMMA RollbackFresh ==
    ASSUME IInv, Fresh, MarkRollback \/ Unseat \/ Restore \/ ResetBack, Unreset'
    PROVE  Fresh'
<1>1. [Next]_vars /\ TypeOK /\ Stepping /\ Running /\ Booting /\ IInv'
  BY InvariantStep DEF IInv, Fresh, Next, Advance
<1>2. /\ exec \in {"mark", "unseat", "restore", "resetBack"}
      /\ cur' = cur /\ UNCHANGED <<policy, job, owed>>
      /\ exec' \in {"unseat", "restore", "resetBack", "relaunch", "incomplete"}
  BY DEF MarkRollback, Unseat, Restore, ResetBack, ResetDerived, Steady
<1>3. server \in {"stopped", "closed"} /\ server' = "stopped"
  BY <1>2, ServerAt DEF MarkRollback, Unseat, Restore, ResetBack
<1>4. cur \in Job /\ Backups \subseteq {cur}
  <2>1. cur \in Job
    BY <1>1, <1>2, <1>3 DEF Stepping
  <2>2. Backups = {cur} \/ Backups = {}
    BY <1>1, <1>2 DEF Stepping, Swapped, Seated
  <2> QED
    BY <2>1, <2>2
<1>5. owed = {}
  BY <1>1, <1>3 DEF Booting
<1>6. InFlight(cur) /\ policy = Source
  <2>1. InFlight(cur)
    BY <1>1, <1>2 DEF Running, Flying
  <2>2. policy = Source
    BY <1>1, <1>2, <1>3 DEF Running
  <2> QED
    BY <2>1, <2>2
<1>7. Source' = Source
  BY <1>1, <1>2, SourceSteps DEF Commit
<1>8. fs'[At(cur, "staging")] = fs[At(cur, "staging")]
  <2>1. CASE fs' = fs
    BY <2>1
  <2>2. CASE fs' = [fs EXCEPT ![At(cur, "marker")] = Mark]
    BY <1>1, <1>4, <2>2, ToldFiles
  <2>3. CASE Move(Root, At(cur, "failed")) \/ Move(At(cur, "backup"), Root)
    BY <1>1, <1>4, <2>3, ToldFiles DEF Told
  <2> QED
    BY <2>1, <2>2, <2>3 DEF MarkRollback, Unseat, Restore, ResetBack
<1>9. InFlight(cur)'
  BY <1>2, <1>6, <1>8, FlightStays
<1>10. Backups' \subseteq {cur'}
  <2>1. CASE exec' # "relaunch"
    <3>1. exec' = "incomplete" => fs' = fs
      BY DEF MarkRollback, Unseat, Restore, ResetBack, ResetDerived
    <3>2. CASE exec' = "incomplete"
      BY <1>2, <1>4, <3>1, <3>2 DEF Backups, Exists
    <3>3. CASE exec' \in {"unseat", "restore", "resetBack"}
      <4>1. Stepping'
        BY <1>1 DEF IInv
      <4>2. Backups' = {cur'} \/ Backups' = {}
        BY <3>3, <4>1 DEF Stepping, Seated
      <4> QED
        BY <4>2
    <3> QED
      BY <1>2, <2>1, <3>2, <3>3
  <2>2. CASE exec' = "relaunch"
    <3>1. fs' = fs
      BY <2>2 DEF MarkRollback, Unseat, Restore, ResetBack
    <3> QED
      BY <1>2, <1>4, <3>1 DEF Backups, Exists
  <2> QED
    BY <2>1, <2>2
<1>11. CASE exec' \in {"unseat", "restore", "resetBack"}
  <2>1. exec' = "resetBack"
          => script' \in {<<>>, <<RemoveOp(At(cur', "failed"))>>}
    BY <1>2 DEF MarkRollback, Unseat, Restore, ResetBack, ResetDerived
  <2>2. Running'
    BY <1>2, <1>3, <1>6, <1>7, <1>9, <1>11, <2>1 DEF Running, Flying
  <2> QED
    BY <1>2, <1>3, <1>5, <1>11, <2>2, RunningIsFresh
<1>12. CASE exec' = "incomplete"
  <2>1. Running'
    BY <1>2, <1>3, <1>6, <1>7, <1>9, <1>10, <1>12 DEF Running, Flying
  <2> QED
    BY <1>2, <1>3, <1>5, <1>12, <2>1, RunningIsFresh
<1>13. CASE exec' = "relaunch"
  <2>1. ResetBack /\ derived' = LiveSource /\ Backups = {}
    BY <1>1, <1>13
       DEF MarkRollback, Unseat, Restore, ResetBack, ResetDerived, Stepping, Seated
  <2>2. derived' = Source'
    BY <1>7, <2>1, LiveIsSource
  <2> QED
    BY <1>2, <1>3, <1>5, <1>6, <1>7, <1>13, <2>2, CalmIsFresh DEF Calm
<1> QED
  BY <1>2, <1>11, <1>12, <1>13

\* The end of a commit, and of a process that gives up or dies.
LEMMA CommittedFresh ==
    ASSUME IInv, Fresh, OnCommitted, Unreset'
    PROVE  Fresh'
<1>1. [Next]_vars /\ TypeOK /\ Stepping /\ Running /\ Booting /\ Waiting
  BY DEF IInv, Fresh, Next, Advance
<1>2. /\ exec = "committed" /\ server = "closed" /\ Backups = {}
      /\ derived' = derived /\ Source' = Source /\ cur \in Job
  <2>1. exec = "committed" /\ derived' = derived
    BY DEF OnCommitted
  <2>2. server = "closed" /\ cur \in Job /\ Backups = {}
    BY <1>1, <2>1, ServerAt, CurIsAJob DEF Stepping, Seated
  <2>3. Source' = Source
    BY <1>1, <2>1, SourceSteps DEF Commit
  <2> QED
    BY <2>1, <2>2, <2>3
<1>3. derived = Source /\ LiveSource = Source /\ owed = {}
  <2>1. derived = cur /\ Source = cur
    BY <1>1, <1>2 DEF Running
  <2>2. owed = {}
    BY <1>1, <1>2 DEF Booting
  <2> QED
    BY <1>2, <2>1, <2>2, LiveIsSource
<1>4. CASE server' = "open" /\ exec' = "succeed" /\ policy' = LiveSource
           /\ UNCHANGED owed
  BY <1>2, <1>3, <1>4, CalmIsFresh DEF Calm
<1>5. CASE ProcessEnds /\ policy' = policy /\ job' = job
  BY <1>1, <1>2, <1>5, EndKeepsOwed
<1>6. CASE ProcessEnds /\ policy' = LiveSource
  <2>1. DerivedOwed(Job)' /\ PolicyOwed(Job)'
    BY <1>2, <1>3, <1>6 DEF DerivedOwed, PolicyOwed
  <2>2. /\ exec' = "idle" /\ server' = "down" /\ owed' = {} /\ pending' = {}
    BY <1>6 DEF ProcessEnds
  <2> QED
    BY <2>1, <2>2, LaidDown DEF Unreset
<1> QED
  BY <1>4, <1>5, <1>6 DEF OnCommitted

LEMMA TerminateFresh ==
    ASSUME IInv, Fresh, Terminate, Unreset'
    PROVE  Fresh'
<1>1. [Next]_vars /\ TypeOK /\ Stepping /\ Running /\ Booting
  BY DEF IInv, Fresh, Next, Advance
<1>2. /\ exec = "incomplete" /\ server = "stopped" /\ cur \in Job /\ ProcessEnds
      /\ derived' = derived /\ policy' = policy
  BY ServerAt, CurIsAJob DEF Terminate
<1>3. Source' = Source /\ policy = Source
  BY <1>1, <1>2, SourceSteps DEF Commit, Running
<1>4. CASE job' = job
  BY <1>1, <1>2, <1>4, EndKeepsOwed
<1>5. CASE job' = [job EXCEPT ![cur].state = "replacing"]
  <2>1. PolicyOwed(Job)'
    BY <1>2, <1>3 DEF PolicyOwed
  <2>2. CASE derived = Source
    <3>1. DerivedOwed(Job)'
      BY <1>2, <1>3, <2>2 DEF DerivedOwed
    <3> QED
      BY <1>2, <2>1, <3>1, LaidDown DEF Unreset, ProcessEnds
  <2>3. CASE InFlight(cur) /\ Backups \subseteq {cur}
    <3>1. job' = job
      BY <1>1, <1>2, <1>5, <2>3 DEF InFlight, TypeOK, Record
    <3> QED
      BY <1>4, <3>1
  <2> QED
    BY <1>1, <1>2, <2>2, <2>3 DEF Running
<1> QED
  BY <1>4, <1>5 DEF Terminate

LEMMA CrashFresh ==
    ASSUME IInv, Fresh, Crash
    PROVE  Fresh'
  BY EndKeepsOwed DEF Crash, Next

\* The steps of the executor before its swap and after its last rename, and a
\* recovery before a restart.
LEMMA CalmFresh ==
    ASSUME IInv, Fresh, Unreset', server # "booting",
           \/ Drain \/ Stop \/ OnSucceeded \/ Release \/ Relaunch \/ OnFailed
           \/ Recovered \/ \E j \in Job : Recover(j)
    PROVE  Fresh'
<1>1. [Next]_vars /\ Running /\ Booting
  BY DEF IInv, Fresh, Next, Advance
<1>2. exec \in Calm
  BY DEF Drain, Stop, OnSucceeded, Release, Relaunch, OnFailed, Recovered,
         Recover, Calm
<1>3. server \in {"open", "closed", "stopped"}
  <2>1. exec # "idle"
    BY DEF Drain, Stop, OnSucceeded, Release, Relaunch, OnFailed, Recovered, Recover
  <2> QED
    BY <2>1 DEF IInv, TypeOK, Serving
<1>4. /\ UNCHANGED <<derived, policy, owed>>
      /\ exec' \in Calm \cup {"incomplete"}
      /\ server' \in {"open", "closed", "stopped"}
  BY <1>2, <1>3 DEF Drain, Stop, OnSucceeded, Release, Relaunch, OnFailed,
              Recovered, Recover, Calm, durable, Steady
<1>5. CASE exec' \in Calm
  BY <1>1, <1>2, <1>3, <1>4, <1>5, CalmStays
<1>6. CASE exec' = "incomplete"
  <2>1. derived = Source /\ policy = Source /\ owed = {}
    BY <1>1, <1>2, <1>3 DEF Running, Booting, Calm, Flying
  <2>2. Source' = Source
    BY <1>1, <1>2, SourceSteps DEF Commit, Calm
  <2>3. Running'
    BY <1>4, <1>6, <2>1, <2>2 DEF Running, Flying
  <2> QED
    BY <1>4, <1>6, <2>1, <2>3, RunningIsFresh
<1> QED
  BY <1>4, <1>5, <1>6

\* A script step outside a boot.
LEMMA ScriptFresh ==
    ASSUME IInv, Fresh, ScriptStep, Unreset', server # "booting"
    PROVE  Fresh'
<1>1. /\ [Next]_vars /\ TypeOK /\ Stepping /\ Serving /\ Scripted
      /\ Running /\ Booting
  BY DEF IInv, Fresh, Next
<1>2. /\ script # <<>>
      /\ UNCHANGED <<exec, cur, server, derived, policy, owed>>
  BY DEF ScriptStep
<1>3. /\ server \in {"open", "closed", "stopped"}
      /\ exec \in Calm \cup {"restore", "resetBack"}
  <2>1. server \in {"open", "closed", "stopped"}
    BY <1>1, <1>2 DEF Serving, TypeOK
  <2> QED
    BY <1>1, <1>2, <2>1 DEF Serving, Stepping, Quiet, Calm
<1>4. CASE exec \in Calm
  BY <1>1, <1>2, <1>3, <1>4, CalmStays
<1>5. CASE exec \in {"restore", "resetBack"}
  <2>1. /\ cur \in Job /\ server = "stopped" /\ owed = {}
        /\ InFlight(cur) /\ policy = Source
    <3>1. server = "stopped"
      BY <1>5, ServerAt
    <3>2. cur \in Job
      BY <1>1, <1>5, <3>1 DEF Stepping
    <3>3. owed = {}
      BY <1>1, <3>1 DEF Booting
    <3>4. InFlight(cur) /\ policy = Source
      BY <1>1, <1>5, <3>1 DEF Running, Flying
    <3> QED
      BY <3>1, <3>2, <3>3, <3>4
  <2>2. Source' = Source
    BY <1>1, <1>5, SourceSteps DEF Commit
  <2>3. /\ job'[cur] = job[cur]
        /\ Exists(At(cur, "staging"))' => Exists(At(cur, "staging"))
        /\ exec = "resetBack"
             => script' \in {<<>>, <<RemoveOp(At(cur, "failed"))>>}
    <3>1. CASE exec = "resetBack"
      <4>1. script = <<RemoveOp(At(cur, "failed"))>>
        BY <1>1, <1>2, <3>1 DEF Running
      <4>2. Head(script) = RemoveOp(At(cur, "failed")) /\ Tail(script) = <<>>
        BY <4>1
      <4>3. /\ \E v \in {Partial, None} : fs' = [fs EXCEPT ![At(cur, "failed")] = v]
            /\ job' = job /\ script' \in {script, Tail(script)}
        BY <4>2, Operations
      <4>4. At(cur, "staging") \in Path /\ At(cur, "staging") # At(cur, "failed")
        BY <2>1, Paths DEF Artifact
      <4>5. fs'[At(cur, "staging")] = fs[At(cur, "staging")]
        BY <1>1, <4>3, <4>4 DEF TypeOK
      <4> QED
        BY <1>2, <4>1, <4>2, <4>3, <4>5 DEF Exists, At
    <3>2. CASE exec = "restore"
      <4>1. cur \in Backups
        BY <1>1, <3>2 DEF Stepping
      <4>2. ScriptForm
        BY ScriptForms
      <4>3. CASE \E v \in {Partial, None} : Clears(v)
        <5>1. job' = job /\ \E v : fs' = [fs EXCEPT ![Root] = v]
          BY <4>3 DEF Clears
        <5>2. At(cur, "staging") \in Path /\ At(cur, "staging") # Root
          BY <2>1, Paths DEF Artifact
        <5>3. fs'[At(cur, "staging")] = fs[At(cur, "staging")]
          BY <1>1, <5>1, <5>2 DEF TypeOK
        <5> QED
          BY <1>2, <3>2, <5>1, <5>3 DEF Exists, At
      <4>4. ASSUME NEW k \in Job, Tidying(k),
                   \/ \E a \in Artifact \ {"backup"}, v \in {Partial, None} :
                         Tidies(k, a, v)
                   \/ Returns(k)
                   \/ \E r \in Record : Records(k, r)
            PROVE  /\ job'[cur] = job[cur]
                   /\ fs'[At(cur, "staging")] = fs[At(cur, "staging")]
        <5>1. k # cur
          BY <4>1, <4>4 DEF Tidying
        <5>2. At(cur, "staging") \in Path /\ At(cur, "staging") # Root
          BY <2>1, Paths DEF Artifact
        <5>3. \A a \in Artifact : At(k, a) \in Path /\ At(k, a) # At(cur, "staging")
          BY <2>1, <5>1, Paths DEF Artifact
        <5>4. CASE \E a \in Artifact \ {"backup"}, v \in {Partial, None} :
                      Tidies(k, a, v)
          BY <1>1, <5>2, <5>3, <5>4 DEF Tidies, TypeOK
        <5>5. CASE Returns(k)
          <6>1. Moves(At(k, "committed"), Root)
            BY <1>1, <5>3, <5>5, Paths, MovesTo DEF Returns, Artifact
          <6> QED
            BY <5>2, <5>3, <5>5, <6>1 DEF Moves, Returns, Artifact
        <5>6. CASE \E r \in Record : Records(k, r)
          BY <1>1, <2>1, <5>1, <5>6 DEF Records, TypeOK
        <5> QED
          BY <4>4, <5>4, <5>5, <5>6
      <4> QED
        BY <1>2, <3>2, <4>2, <4>3, <4>4 DEF ScriptForm, Exists, At
    <3> QED
      BY <1>5, <3>1, <3>2
  <2>4. InFlight(cur)'
    BY <1>2, <2>1, <2>3 DEF InFlight, Exists, At
  <2>5. Running'
    BY <1>2, <1>5, <2>1, <2>2, <2>3, <2>4 DEF Running, Flying
  <2> QED
    BY <1>2, <1>5, <2>1, <2>5, RunningIsFresh
<1> QED
  BY <1>3, <1>4, <1>5

\* A script that throws outside a boot.
LEMMA ThrowFresh ==
    ASSUME IInv, Fresh, ScriptThrows, Unreset', server # "booting"
    PROVE  Fresh'
<1>1. [Next]_vars /\ TypeOK /\ Stepping /\ Serving /\ Running /\ Booting
  BY DEF IInv, Fresh, Next
<1>2. /\ script # <<>> /\ UNCHANGED <<fs, cur, server, job, derived, policy, owed>>
      /\ server \in {"open", "closed", "stopped"}
      /\ server \in {"open", "closed"} => exec' = exec
      /\ server = "stopped" => exec' = "incomplete"
  BY DEF ScriptThrows, durable, Reject
<1>3. exec \in Calm \cup {"restore", "resetBack"}
  BY <1>1, <1>2 DEF Serving, Stepping, Quiet, Calm
<1>4. Source' = Source
  BY <1>1, <1>3, SourceSteps DEF Commit, Calm
<1>5. owed = {} /\ policy = Source
  BY <1>1, <1>2, <1>3 DEF Booting, Running, Calm
<1>6. CASE server \in {"open", "closed"}
  <2>1. exec \in Calm
    BY <1>3, <1>6, ServerAt
  <2> QED
    BY <1>1, <1>2, <1>6, <2>1, CalmStays
<1>7. CASE server = "stopped"
  <2>1. derived = Source \/ (InFlight(cur) /\ Backups \subseteq {cur})
    <3>1. CASE exec \in Calm
      BY <1>1, <1>2, <3>1 DEF Running, Calm, Flying
    <3>2. CASE exec \in {"restore", "resetBack"}
      <4>1. InFlight(cur)
        BY <1>1, <3>2 DEF Running, Flying
      <4>2. Backups = {cur} \/ Backups = {}
        BY <1>1, <3>2 DEF Stepping, Seated
      <4> QED
        BY <4>1, <4>2
    <3> QED
      BY <1>3, <3>1, <3>2
  <2>2. InFlight(cur) => InFlight(cur)'
    BY <1>2, FlightStays
  <2>3. Backups' = Backups
    BY <1>2 DEF Backups, Exists
  <2>4. Running'
    BY <1>2, <1>4, <1>5, <1>7, <2>1, <2>2, <2>3 DEF Running, Flying
  <2> QED
    BY <1>2, <1>5, <1>7, <2>4, RunningIsFresh
<1> QED
  BY <1>2, <1>6, <1>7

----------------------------------------------------------------------------
(* What a boot records *)

\* What finishRecovery writes, with the reset it records by name.
Mark_ == {"yes", "no"}
Finished(j, u, mark, cleanup) ==
    LET settled == [job[j] EXCEPT !.state = u, !.reset = mark]
    IN IF kind[j] = "clear" /\ u = "complete"
       THEN <<RecordOp(j, settled),
              RecordOp(j, [settled EXCEPT !.cleanup = TRUE])>>
       ELSE <<RecordOp(j, settled)>> \o cleanup \o
            <<RecordOp(j, [settled EXCEPT !.prepared = FALSE])>>

\* A set of operations with every such record, and operations that end or
\* begin with one.
Takes(S, j, u, mark) ==
    \A r \in Record : r.state = u /\ r.reset = mark => RecordOp(j, r) \in S
EndsIn(S, ops, j, u, mark) ==
    \E s \in Seq(S), r \in Record :
        /\ r.state = u /\ r.reset = mark /\ ops = s \o <<RecordOp(j, r)>>
StartsIn(ops, j, u, mark) ==
    \E r \in Record :
        r.state = u /\ r.reset = mark /\ Head(ops) = RecordOp(j, r)

\* finishRecovery records its outcome first and last, with a reset when the
\* recovery asks for one.
LEMMA FinishWrites ==
    ASSUME TypeOK, NEW j \in Job, NEW u \in {"complete", "failed"},
           NEW mark \in Mark_, NEW S, NEW cleanup \in Seq(S),
           Takes(S, j, u, mark)
    PROVE  /\ EndsIn(S, Finished(j, u, mark, cleanup), j, u, mark)
           /\ StartsIn(Finished(j, u, mark, cleanup), j, u, mark)
<1> DEFINE settled == [job[j] EXCEPT !.state = u, !.reset = mark]
           cleaned == [settled EXCEPT !.cleanup = TRUE]
           last == [settled EXCEPT !.prepared = FALSE]
           Good(r) == r \in Record /\ r.state = u /\ r.reset = mark
<1>1. Good(settled)
  <2>1. job[j] \in Record /\ u \in JobState
    BY DEF TypeOK, JobState
  <2> QED
    BY <2>1 DEF Record, Mark_
<1>2. Good(cleaned) /\ Good(last)
  <2> HIDE DEF settled
  <2> QED
    BY <1>1 DEF Record
<1>3. Finished(j, u, mark, cleanup)
        \in {<<RecordOp(j, settled), RecordOp(j, cleaned)>>,
             <<RecordOp(j, settled)>> \o cleanup \o <<RecordOp(j, last)>>}
  BY DEF Finished
<1> HIDE DEF settled, cleaned, last
<1> DEFINE a == RecordOp(j, settled)
           b == RecordOp(j, cleaned)
           c == RecordOp(j, last)
<1>5. a \in S /\ b \in S /\ c \in S
  BY <1>1, <1>2 DEF Takes
<1>6. CASE Finished(j, u, mark, cleanup) = <<a, b>>
  <2>1. <<a, b>> = <<a>> \o <<b>> /\ <<a>> \in Seq(S) /\ Head(<<a, b>>) = a
    BY <1>5
  <2> QED
    BY <1>1, <1>2, <1>6, <2>1 DEF EndsIn, StartsIn
<1>7. CASE Finished(j, u, mark, cleanup) = <<a>> \o cleanup \o <<c>>
  <2>1. <<a>> \o cleanup \in Seq(S) /\ <<a>> \o cleanup # <<>>
        /\ Head(<<a>> \o cleanup) = a
    BY <1>5, Cons
  <2>2. Head(<<a>> \o cleanup \o <<c>>) = a
    BY <1>5, <2>1, Ending
  <2> QED
    BY <1>1, <1>2, <1>7, <2>1, <2>2 DEF EndsIn, StartsIn
<1> QED
  BY <1>3, <1>6, <1>7

\* Every script consists of moves, removals and records.
LEMMA PlainScripts ==
    ASSUME NEW j \in Job, NEW S, \A p \in Path : RemoveOp(p) \in S,
           \A p, q \in Path : MoveOp(p, q) \in S
    PROVE  /\ <<>> \in Seq(S)
           /\ \A s, t \in Seq(S) : s \o t \in Seq(S)
           /\ \A p \in Path : <<RemoveOp(p)>> \in Seq(S)
           /\ \A p, q \in Path : <<MoveOp(p, q)>> \in Seq(S)
           /\ \A a \in Artifact : Removal(j, a) \in Seq(S)
           /\ DiscardCommitted(j) \in Seq(S)
           /\ DiscardRolledBack(j) \in Seq(S)
           /\ Reinstate(j) \in Seq(S)
<1>1. <<>> \in Seq(S) /\ \A s, t \in Seq(S) : s \o t \in Seq(S)
  BY ConcatProperties
<1>2. Root \in Path /\ \A a \in Artifact : At(j, a) \in Path
  BY Paths
<1>3. \A p, q \in Path : <<RemoveOp(p)>> \in Seq(S) /\ <<MoveOp(p, q)>> \in Seq(S)
  OBVIOUS
<1>4. \A a \in Artifact : Removal(j, a) \in Seq(S)
  BY <1>1, <1>2, <1>3 DEF Removal
<1>5. /\ Removal(j, "committed") \in Seq(S) /\ Removal(j, "marker") \in Seq(S)
      /\ Removal(j, "failed") \in Seq(S) /\ Removal(j, "staging") \in Seq(S)
      /\ Removal(j, "interrupted") \in Seq(S)
  BY <1>4 DEF Artifact
<1>6. DiscardCommitted(j) \in Seq(S) /\ DiscardRolledBack(j) \in Seq(S)
  BY <1>1, <1>5 DEF DiscardCommitted, DiscardRolledBack
<1>7. Reinstate(j) \in Seq(S)
  <2>1. /\ <<MoveOp(Root, At(j, "interrupted"))>> \in Seq(S)
        /\ <<MoveOp(At(j, "backup"), Root)>> \in Seq(S)
    BY <1>2, <1>3 DEF Artifact
  <2>2. (IF Exists(Root) THEN <<MoveOp(Root, At(j, "interrupted"))>> ELSE <<>>)
          \in Seq(S)
    BY <1>1, <2>1
  <2> QED
    BY <1>1, <1>5, <2>1, <2>2 DEF Reinstate
<1> QED
  BY <1>1, <1>3, <1>4, <1>6, <1>7

\* The outcome a boot records for a job, when it records one.
Outcome(j) ==
    IF \/ job[j].state = "complete"
       \/ /\ job[j].state # "failed" /\ ~Exists(At(j, "marker"))
          /\ Exists(At(j, "committed")) /\ Exists(Root)
    THEN "complete" ELSE "failed"

\* What the recovery does with a record: nothing, or file operations and then
\* the outcome.
LEMMA RecoveryForms ==
    ASSUME IInv, NEW j \in Job, NEW S, \A p \in Path : RemoveOp(p) \in S,
           \A p, q \in Path : MoveOp(p, q) \in S
    PROVE  \/ /\ ~job[j].prepared /\ Recovery(j).ops = <<>>
              /\ Recovery(j).reset = (job[j].reset = "yes")
           \/ Recovery(j).ops = <<>> /\ Recovery(j).reset = FALSE
           \/ \E mark \in Mark_, before, cleanup \in Seq(S) :
                /\ Recovery(j).ops =
                     before \o Finished(j, Outcome(j), mark, cleanup)
                /\ mark = "no" => Recovery(j).reset = FALSE
<1> DEFINE required == ResetRequired(j)
           ends(b) == FinishRecovery(j, "failed", b, DiscardRolledBack(j))
           Some(before, b) == [ops |-> before \o ends(b), reset |-> b]
           complete == [ops |-> FinishRecovery(j, "complete", required,
                                               DiscardCommitted(j)),
                        reset |-> required]
           drop == <<RemoveOp(At(j, "interrupted"))>>
           back == (IF Exists(At(j, "backup")) THEN Reinstate(j) ELSE <<>>) \o drop
           unstaged == Reinstate(j) \o Removal(j, "staging") \o drop
           returned == <<MoveOp(At(j, "committed"), Root)>>
           Goal == \E mark \in Mark_, before, cleanup \in Seq(S) :
                      /\ Recovery(j).ops =
                           before \o Finished(j, Outcome(j), mark, cleanup)
                      /\ mark = "no" => Recovery(j).reset = FALSE
<1>1. required = TRUE \/ required = FALSE
  BY DEF ResetRequired
<1>2. /\ DiscardRolledBack(j) \in Seq(S) /\ DiscardCommitted(j) \in Seq(S)
      /\ back \in Seq(S) /\ unstaged \in Seq(S) /\ returned \in Seq(S)
      /\ Removal(j, "staging") \in Seq(S) /\ <<>> \in Seq(S)
  <2>1. /\ At(j, "interrupted") \in Path /\ At(j, "committed") \in Path
        /\ Root \in Path
    BY Paths DEF Artifact
  <2>2. drop \in Seq(S) /\ returned \in Seq(S) /\ Removal(j, "staging") \in Seq(S)
    BY <2>1, PlainScripts DEF Artifact
  <2> QED
    BY <2>2, PlainScripts
<1>3. Recovery(j) =
        IF ~job[j].prepared THEN [ops |-> <<>>, reset |-> job[j].reset = "yes"]
        ELSE IF job[j].state = "complete" THEN complete
        ELSE IF job[j].state = "failed" THEN Some(<<>>, required)
        ELSE IF Exists(At(j, "marker")) THEN Some(back, required)
        ELSE IF Exists(At(j, "committed"))
             THEN IF Exists(Root) THEN complete ELSE Some(returned, required)
        ELSE IF Exists(At(j, "backup")) THEN Some(unstaged, required)
        ELSE IF Exists(At(j, "staging"))
             THEN Some(Removal(j, "staging"), FALSE)
        ELSE IF Exists(Root) THEN Some(<<>>, required)
        ELSE [ops |-> <<>>, reset |-> FALSE]
  BY DEF Recovery, AmbiguousOutcome
<1> HIDE DEF back, unstaged, returned
<1>4. ASSUME NEW before \in Seq(S), Outcome(j) = "failed",
             Recovery(j) = Some(before, TRUE)
      PROVE  Goal
  <2>1. Recovery(j).ops = before \o Finished(j, "failed", "yes", DiscardRolledBack(j))
    BY <1>4 DEF FinishRecovery, Finished
  <2>2. Recovery(j).ops = before \o Finished(j, Outcome(j), "yes", DiscardRolledBack(j))
    BY <1>4, <2>1
  <2> QED
    BY <1>2, <2>2 DEF Mark_
<1>5. ASSUME NEW before \in Seq(S), Outcome(j) = "failed",
             Recovery(j) = Some(before, FALSE)
      PROVE  Goal
  <2>1. /\ Recovery(j).ops = before \o Finished(j, "failed", "no", DiscardRolledBack(j))
        /\ Recovery(j).reset = FALSE
    BY <1>5 DEF FinishRecovery, Finished
  <2>2. Recovery(j).ops = before \o Finished(j, Outcome(j), "no", DiscardRolledBack(j))
    BY <1>5, <2>1
  <2> QED
    BY <1>2, <2>1, <2>2 DEF Mark_
<1>6. ASSUME Recovery(j) = complete, Outcome(j) = "complete"
      PROVE  Goal
  <2> DEFINE cleanup == DiscardCommitted(j)
  <2>1. \/ Recovery(j) = [ops |-> FinishRecovery(j, "complete", TRUE, cleanup),
                          reset |-> TRUE]
        \/ Recovery(j) = [ops |-> FinishRecovery(j, "complete", FALSE, cleanup),
                          reset |-> FALSE]
    BY <1>1, <1>6
  <2> HIDE DEF cleanup
  <2>2. \/ Recovery(j).ops = Finished(j, "complete", "yes", cleanup)
        \/ /\ Recovery(j).ops = Finished(j, "complete", "no", cleanup)
           /\ Recovery(j).reset = FALSE
    <3>1. CASE Recovery(j) = [ops |-> FinishRecovery(j, "complete", TRUE, cleanup),
                              reset |-> TRUE]
      <4>1. Recovery(j).ops = Finished(j, "complete", "yes", cleanup)
        BY <3>1 DEF FinishRecovery, Finished
      <4> QED
        BY <4>1
    <3>2. CASE Recovery(j) = [ops |-> FinishRecovery(j, "complete", FALSE, cleanup),
                              reset |-> FALSE]
      <4>1. /\ Recovery(j).ops = Finished(j, "complete", "no", cleanup)
            /\ Recovery(j).reset = FALSE
        BY <3>2 DEF FinishRecovery, Finished
      <4> QED
        BY <4>1
    <3> QED
      BY <2>1, <3>1, <3>2
  <2>3. cleanup \in Seq(S)
    BY <1>2 DEF cleanup
  <2>4. \A mark \in Mark_ : /\ Finished(j, Outcome(j), mark, cleanup)
                                = Finished(j, "complete", mark, cleanup)
                            /\ Finished(j, "complete", mark, cleanup)
                                = <<>> \o Finished(j, "complete", mark, cleanup)
    <3>1. TAKE mark \in Mark_
    <3> DEFINE T == S \cup {RecordOp(j, r) : r \in Record}
    <3>2. cleanup \in Seq(T)
      BY <2>3
    <3>3. Takes(T, j, "complete", mark)
      BY DEF Takes
    <3>4. TypeOK
      BY DEF IInv
    <3>5. \A r \in Record : RecordOp(j, r) \in T
      OBVIOUS
    <3> HIDE DEF T
    <3>6. EndsIn(T, Finished(j, "complete", mark, cleanup), j, "complete", mark)
      BY <3>1, <3>2, <3>3, <3>4, FinishWrites
    <3>7. Finished(j, "complete", mark, cleanup) \in Seq(T)
      BY <3>5, <3>6 DEF EndsIn
    <3> QED
      BY <1>6, <3>7
  <2> QED
    BY <1>2, <2>2, <2>3, <2>4 DEF Mark_
<1> HIDE DEF Some, complete, Goal
<1>7. \/ Recovery(j) = complete /\ Outcome(j) = "complete"
      \/ Recovery(j) = [ops |-> <<>>, reset |-> FALSE]
      \/ \E before \in Seq(S) :
            /\ Recovery(j) = Some(before, TRUE) \/ Recovery(j) = Some(before, FALSE)
            /\ Outcome(j) = "failed"
      \/ ~job[j].prepared
  BY <1>1, <1>2, <1>3 DEF Outcome
<1>8. CASE ~job[j].prepared
  <2>1. Recovery(j) = [ops |-> <<>>, reset |-> job[j].reset = "yes"]
    BY <1>3, <1>8
  <2> QED
    BY <1>8, <2>1
<1>9. CASE Recovery(j) = [ops |-> <<>>, reset |-> FALSE]
  BY <1>9
<1>10. CASE Goal
  BY <1>10 DEF Goal
<1> QED
  BY <1>4, <1>5, <1>6, <1>7, <1>8, <1>9, <1>10

\* A recovery asks for the reset that a job still owes.
LEMMA RecoveryOwes ==
    ASSUME IInv, NEW j \in Job, Owing(j), Backups \subseteq {j}
    PROVE  /\ job[j].state \in {"replacing", "complete", "failed"}
           /\ Recovery(j).reset = TRUE
<1>1. /\ Files /\ job[j].state \in {"replacing", "complete", "failed"}
      /\ job[j].reset # "no"
  BY DEF IInv, Owing, InFlight, Settled
<1>2. ResetRequired(j) = TRUE
  BY <1>1 DEF ResetRequired
<1>3. CASE ~job[j].prepared
  <2>1. Settled(j)
    BY <1>3 DEF Owing, InFlight
  <2>2. Recovery(j) = [ops |-> <<>>, reset |-> job[j].reset = "yes"]
    BY <1>3 DEF Recovery
  <2> QED
    <3>1. (job[j].reset = "yes") = TRUE
      BY <2>1 DEF Settled
    <3>2. Recovery(j).reset = (job[j].reset = "yes")
      BY <2>2
    <3> QED
      BY <1>1, <3>1, <3>2
<1>4. CASE job[j].prepared
  <2>1. job[j].state = "replacing" => ~Exists(At(j, "staging"))
    BY <1>4 DEF Owing, InFlight, Settled
  <2>2. ~Exists(At(j, "backup")) => Exists(Root)
    BY <1>1, Trees DEF Files, Backups, Whole, Exists
  <2>3. \E ops : Recovery(j) = [ops |-> ops, reset |-> TRUE]
    BY <1>1, <1>2, <1>4, <2>1, <2>2 DEF Recovery
  <2> QED
    BY <1>1, <2>3
<1> QED
  BY <1>3, <1>4

\* It finishes a committed replacement first of all.
LEMMA RecoveryFinishes ==
    ASSUME IInv, NEW j \in Job, Finishing(j), Backups = {},
           job[j].state # "complete"
    PROVE  /\ Outcome(j) = "complete" /\ job[j].prepared
           /\ Recovery(j).reset = TRUE
           /\ Recovery(j).ops = Finished(j, "complete", "yes",
                                         DiscardCommitted(j))
<1>1. /\ job[j].state = "replacing" /\ job[j].prepared /\ job[j].reset # "no"
      /\ Exists(At(j, "committed")) /\ ~Exists(At(j, "marker"))
  BY DEF Finishing, InFlight
<1>2. Exists(Root)
  BY Trees DEF IInv, Files, Whole, Exists
<1>3. ResetRequired(j) = TRUE
  BY <1>1 DEF ResetRequired
<1>4. Recovery(j) = [ops |-> Finished(j, "complete", "yes", DiscardCommitted(j)),
                     reset |-> TRUE]
  BY <1>1, <1>2, <1>3 DEF Recovery, FinishRecovery, Finished
<1> QED
  BY <1>1, <1>2, <1>4 DEF Outcome

\* What a boot has to know of the script of one record's recovery.
LEMMA RecoveryWrites ==
    ASSUME IInv, NEW j \in Job, job[j].state \in {"replacing", "complete", "failed"},
           NEW S, \A p \in Path : RemoveOp(p) \in S,
           \A p, q \in Path : MoveOp(p, q) \in S,
           Takes(S, j, Outcome(j), "yes"),
           Recovery(j).reset = FALSE => Takes(S, j, Outcome(j), "no")
    PROVE  \/ Recovery(j).ops = <<>> /\ (Recovery(j).reset => Settled(j))
           \/ EndsIn(S, Recovery(j).ops, j, Outcome(j), "yes")
           \/ /\ Recovery(j).reset = FALSE
              /\ EndsIn(S, Recovery(j).ops, j, Outcome(j), "no")
<1> DEFINE u == Outcome(j)
<1>1. TypeOK /\ u \in {"complete", "failed"}
  BY DEF IInv, Outcome
<1>2. ASSUME NEW mark \in Mark_, NEW before \in Seq(S), NEW cleanup \in Seq(S),
             Recovery(j).ops = before \o Finished(j, Outcome(j), mark, cleanup),
             mark = "no" => Recovery(j).reset = FALSE
      PROVE  /\ EndsIn(S, Recovery(j).ops, j, Outcome(j), mark)
             /\ mark \in {"yes", "no"}
  <2>1. Takes(S, j, u, mark) /\ mark \in {"yes", "no"}
    BY <1>2 DEF Mark_
  <2> HIDE DEF u
  <2>2. EndsIn(S, Finished(j, u, mark, cleanup), j, u, mark)
    BY <1>1, <1>2, <2>1, FinishWrites
  <2>3. PICK s \in Seq(S), r \in Record :
           /\ r.state = u /\ r.reset = mark
           /\ Finished(j, u, mark, cleanup) = s \o <<RecordOp(j, r)>>
    BY <2>2 DEF EndsIn
  <2>4. before \o s \in Seq(S) /\ RecordOp(j, r) \in S
    BY <1>2, <2>1, <2>3, ConcatProperties DEF Takes
  <2>5. before \o (s \o <<RecordOp(j, r)>>) = (before \o s) \o <<RecordOp(j, r)>>
    BY <1>2, <2>3, <2>4
  <2>6. Recovery(j).ops = (before \o s) \o <<RecordOp(j, r)>>
    BY <1>2, <2>3, <2>5 DEF u
  <2> QED
    BY <2>1, <2>3, <2>4, <2>6 DEF EndsIn, u
<1>3. CASE /\ ~job[j].prepared /\ Recovery(j).ops = <<>>
           /\ Recovery(j).reset = (job[j].reset = "yes")
  BY <1>3 DEF Settled
<1>4. CASE Recovery(j).ops = <<>> /\ Recovery(j).reset = FALSE
  BY <1>4
<1>5. CASE \E mark \in Mark_, before, cleanup \in Seq(S) :
             /\ Recovery(j).ops =
                  before \o Finished(j, Outcome(j), mark, cleanup)
             /\ mark = "no" => Recovery(j).reset = FALSE
  <2>1. PICK mark \in Mark_, before \in Seq(S), cleanup \in Seq(S) :
             /\ Recovery(j).ops =
                  before \o Finished(j, Outcome(j), mark, cleanup)
             /\ mark = "no" => Recovery(j).reset = FALSE
    BY <1>5
  <2>2. /\ EndsIn(S, Recovery(j).ops, j, Outcome(j), mark)
        /\ mark \in {"yes", "no"}
    BY <1>2, <2>1
  <2> QED
    BY <2>1, <2>2
<1> HIDE DEF u
<1> QED
  BY <1>3, <1>4, <1>5, RecoveryForms

\* A script under way in a boot writes something.
LEMMA WritingIsSome ==
    ASSUME NEW k, NEW u, Writing(k, u)
    PROVE  script # <<>>
<1>1. PICK s \in Seq(BootOps(k, u, owed)), o \in RecordOps(k, u, owed) :
        script = s \o <<o>>
  BY DEF Writing
<1>2. o \in BootOps(k, u, owed)
  BY <1>1 DEF BootOps
<1> QED
  BY <1>1, <1>2, Ending

\* A script that ends with the record of an outcome.
LEMMA EndIsWritten ==
    ASSUME NEW k, NEW u, NEW mark,
           EndsIn(BootOps(k, u, owed'), script', k, u, mark),
           k \in owed' => mark = "yes"
    PROVE  Writing(k, u)'
<1>1. PICK s \in Seq(BootOps(k, u, owed')), r \in Record :
        /\ r.state = u /\ r.reset = mark /\ script' = s \o <<RecordOp(k, r)>>
  BY DEF EndsIn
<1>2. RecordOp(k, r) \in RecordOps(k, u, owed')
  BY <1>1 DEF RecordOps
<1>3. \E t \in Seq(BootOps(k, u, owed')), o \in RecordOps(k, u, owed') :
        script' = t \o <<o>>
  BY <1>1, <1>2
<1> QED
  BY <1>3 DEF Writing

LEMMA AllSettled ==
    ASSUME Visited, script = <<>>
    PROVE  \A j \in owed : Settled(j)
  BY WritingIsSome DEF Visited

\* A boot takes over what the records owe.
LEMMA BootFresh ==
    ASSUME IInv, Fresh, Boot, Unreset'
    PROVE  Fresh'
<1>1. /\ [Next]_vars /\ server = "down" /\ server' = "booting"
      /\ exec' = "recover" /\ todo' = Job
      /\ UNCHANGED <<fs, job, derived, policy, owed, script>>
  BY DEF Boot, durable, Next, Advance
<1>2. exec = "idle" /\ script = <<>> /\ owed = {}
  BY <1>1 DEF IInv, Serving, Fresh, Booting
<1>3. Source' = Source /\ Backups' = Backups
  BY <1>1, <1>2, SourceSteps DEF Commit, Backups, Exists
<1>4. DerivedOwed(Job)' /\ PolicyOwed(Job)'
  <2>1. DerivedOwed(Job) /\ PolicyOwed(Job)
    BY AlwaysOwed
  <2> QED
    BY <1>1, <1>3, <2>1, StillOwed DEF Exists
<1>5. /\ DerivedOwed(todo \cup owed)' /\ PolicyOwed(todo \cup owed)'
  BY <1>1, <1>2, <1>4 DEF DerivedOwed, PolicyOwed
<1>6. Visited' /\ Announced'
  <2>1. policy' # Source' => Source' \in Job
    BY <1>4 DEF PolicyOwed
  <2> QED
    BY <1>1, <1>2, <2>1 DEF Visited, Announced
<1>7. Running' /\ Booting'
  BY <1>1, <1>2, <1>5, <1>6 DEF Running, Booting, Flying
<1> QED
  BY <1>7 DEF Fresh

\* It visits one record.
LEMMA RecoverFresh ==
    ASSUME IInv, Fresh, NEW j \in Job, Recover(j), server = "booting", Unreset'
    PROVE  Fresh'
<1>1. /\ exec = "recover" /\ script = <<>> /\ j \in todo /\ todo' = todo \ {j}
      /\ exec' = exec /\ server' = server
      /\ UNCHANGED <<fs, job, derived, policy>>
  BY DEF Recover, durable
<1>2. /\ DerivedOwed(todo \cup owed) /\ PolicyOwed(todo \cup owed)
      /\ Visited /\ Announced /\ owed \cap todo = {}
      /\ TypeOK /\ [Next]_vars
  BY <1>1 DEF Fresh, Booting, IInv, Next, Advance
<1>3. \A k \in owed : Settled(k)
  BY <1>1, <1>2, AllSettled
<1>4. /\ Source' = Source /\ Backups' = Backups
      /\ \A k : /\ Owing(k)' <=> Owing(k)
                /\ Finishing(k)' <=> Finishing(k)
                /\ Settled(k)' <=> Settled(k)
  BY <1>1, <1>2, SourceSteps
     DEF Commit, Backups, Exists, Owing, Finishing, Settled, InFlight
<1>5. owed \subseteq owed' /\ owed' \subseteq owed \cup {j}
  BY DEF Recover
<1>6. /\ Owing(j) /\ Backups \subseteq {j} => j \in owed'
      /\ Finishing(j) /\ Backups = {} => j \in owed'
  <2>1. CASE Owing(j) /\ Backups \subseteq {j}
    BY <1>1, <2>1, RecoveryOwes DEF Recover
  <2>2. Finishing(j) => Owing(j)
    BY DEF Finishing, Owing
  <2> QED
    BY <2>1, <2>2
<1>7. DerivedOwed(todo \cup owed)' /\ PolicyOwed(todo \cup owed)'
  <2>1. DerivedOwed(todo \cup owed)'
    <3>1. CASE derived = Source
      BY <1>1, <1>4, <3>1 DEF DerivedOwed
    <3>2. ASSUME NEW k \in todo \cup owed, Owing(k), Backups \subseteq {k}
          PROVE  DerivedOwed(todo \cup owed)'
      <4>1. k \in todo' \cup owed'
        BY <1>1, <1>5, <1>6, <3>2
      <4> QED
        BY <1>4, <3>2, <4>1 DEF DerivedOwed
    <3> QED
      BY <1>2, <3>1, <3>2 DEF DerivedOwed
  <2>2. PolicyOwed(todo \cup owed)'
    <3>1. CASE policy = Source
      BY <1>1, <1>4, <3>1 DEF PolicyOwed
    <3>2. CASE Source \in todo \cup owed /\ Finishing(Source) /\ Backups = {}
      <4>1. Source \in todo' \cup owed'
        BY <1>1, <1>5, <1>6, <3>2
      <4> QED
        BY <1>4, <3>2, <4>1 DEF PolicyOwed
    <3> QED
      BY <1>2, <3>1, <3>2 DEF PolicyOwed
  <2> QED
    BY <2>1, <2>2
<1>8. owed' \cap todo' = {}
  BY <1>1, <1>2, <1>5
<1>9. CASE /\ job[j].state \notin {"replacing", "complete", "failed"}
           /\ UNCHANGED <<script, owed>>
  <2>1. Visited'
    BY <1>1, <1>3, <1>4, <1>9 DEF Visited
  <2>2. Announced'
    <3>1. SUFFICES ASSUME policy # Source, Source \notin todo'
                   PROVE  job[Source].state = "complete"
      BY <1>1, <1>4 DEF Announced
    <3>2. CASE Source \notin todo
      BY <1>1, <1>2, <3>1, <3>2 DEF Announced
    <3>3. CASE Source = j
      <4>1. Finishing(j)
        BY <1>2, <3>1, <3>3 DEF PolicyOwed
      <4> QED
        BY <1>9, <4>1 DEF Finishing, InFlight, Owing, Settled
    <3> QED
      BY <1>1, <3>1, <3>2, <3>3
  <2> QED
    BY <1>1, <1>7, <1>8, <2>1, <2>2 DEF Fresh, Running, Booting, Flying
<1>10. CASE /\ job[j].state \in {"replacing", "complete", "failed"}
            /\ script' = Recovery(j).ops
            /\ owed' = IF Recovery(j).reset THEN owed \cup {j} ELSE owed
  <2> SUFFICES ASSUME NEW u \in {"complete", "failed"}, u = Outcome(j)
               PROVE  Fresh'
    BY DEF Outcome
  <2> DEFINE S == BootOps(j, u, owed')
  <2>1. j \in owed' <=> Recovery(j).reset
    BY <1>1, <1>2, <1>10
  <2>2. u \in {"complete", "failed"} /\ (job[j].state = "complete" => u = "complete")
    BY DEF Outcome
  <2>3. /\ Takes(S, j, u, "yes") /\ (Recovery(j).reset = FALSE => Takes(S, j, u, "no"))
        /\ \A p \in Path : RemoveOp(p) \in S
        /\ \A p, q \in Path : MoveOp(p, q) \in S
    BY <2>1 DEF Takes, BootOps, RecordOps
  <2>4. \/ script' = <<>> /\ (Recovery(j).reset => Settled(j))
        \/ EndsIn(S, script', j, u, "yes")
        \/ Recovery(j).reset = FALSE /\ EndsIn(S, script', j, u, "no")
    <3> HIDE DEF S
    <3> QED
      BY <1>10, <2>3, RecoveryWrites
  <2>5. Visited'
    <3>1. CASE script' = <<>> /\ (Recovery(j).reset => Settled(j))
      BY <1>3, <1>4, <1>5, <2>1, <3>1 DEF Visited
    <3>2. ASSUME Writing(j, u)'
          PROVE  Visited'
      <4>1. \A k \in owed' \ {j} : Settled(k)'
        BY <1>3, <1>4, <1>5
      <4>2. job'[j].state = "complete" => u = "complete"
        BY <1>1, <2>2
      <4>3. j \in Job \ todo'
        BY <1>1
      <4> QED
        BY <2>2, <3>2, <4>1, <4>2, <4>3 DEF Visited
    <3>3. CASE EndsIn(S, script', j, u, "yes")
      BY <3>2, <3>3, EndIsWritten
    <3>4. CASE Recovery(j).reset = FALSE /\ EndsIn(S, script', j, u, "no")
      <4>1. j \notin owed'
        BY <2>1, <3>4
      <4> QED
        BY <3>2, <3>4, <4>1, EndIsWritten
    <3> QED
      BY <2>4, <3>1, <3>3, <3>4
  <2>6. Announced'
    <3>1. SUFFICES ASSUME policy # Source, Source \notin todo',
                          job[Source].state # "complete"
                   PROVE  /\ script' # <<>>
                          /\ Head(script') \in RecordOps(Source, "complete", owed')
      BY <1>1, <1>4 DEF Announced
    <3>2. CASE Source \notin todo
      BY <1>1, <1>2, <3>1, <3>2 DEF Announced
    <3>3. CASE Source = j
      <4>1. Finishing(j) /\ Backups = {}
        BY <1>2, <3>1, <3>3 DEF PolicyOwed
      <4>2. /\ script' = Finished(j, "complete", "yes", DiscardCommitted(j))
            /\ u = "complete"
        BY <1>10, <3>1, <3>3, <4>1, RecoveryFinishes
      <4>3. DiscardCommitted(j) \in Seq(S)
        <5> HIDE DEF S
        <5> QED
          BY <2>3, PlainScripts
      <4>4. /\ EndsIn(S, script', j, "complete", "yes")
            /\ StartsIn(script', j, "complete", "yes")
        <5>1. Takes(S, j, "complete", "yes")
          BY <2>3, <4>2
        <5> HIDE DEF S
        <5> QED
          BY <1>2, <4>2, <4>3, <5>1, FinishWrites DEF Mark_
      <4>5. Head(script') \in RecordOps(j, "complete", owed')
        BY <4>4 DEF StartsIn, RecordOps
      <4>6. script' # <<>>
        <5>1. PICK s \in Seq(S), r \in Record : /\ r.state = "complete" /\ r.reset = "yes"
                                                /\ script' = s \o <<RecordOp(j, r)>>
          BY <4>4 DEF EndsIn
        <5>2. RecordOp(j, r) \in S
          BY <2>3, <4>2, <5>1 DEF Takes
        <5> HIDE DEF S
        <5> QED
          BY <5>1, <5>2, Ending
      <4> QED
        BY <3>3, <4>5, <4>6
    <3> QED
      BY <1>1, <3>1, <3>2, <3>3
  <2> QED
    BY <1>1, <1>7, <1>8, <2>5, <2>6 DEF Fresh, Running, Booting, Flying
<1> QED
  BY <1>9, <1>10 DEF Recover

\* With every record visited, the server opens on derived state that needs no
\* reset, or resets it.
LEMMA RecoveredFresh ==
    ASSUME IInv, Fresh, Recovered, server = "booting", Unreset'
    PROVE  Fresh'
<1>1. /\ [Next]_vars /\ exec = "recover" /\ script = <<>> /\ todo = {}
      /\ UNCHANGED <<job, derived, policy, owed, script>>
      /\ \/ owed = {} /\ server' = "open" /\ exec' = "idle"
         \/ /\ owed # {} /\ server' = "booting" /\ exec' = "bootReset"
            /\ todo' = owed
  BY DEF Recovered, Next, Advance
<1>2. Backups = {} /\ fs' = fs
  BY RecoveredWhole
<1>3. Source' = Source /\ Backups' = Backups
  BY <1>1, <1>2, SourceSteps DEF Commit, Backups, Exists
<1>4. DerivedOwed(owed) /\ PolicyOwed(owed) /\ \A j \in owed : Settled(j)
  <2>1. todo \cup owed = owed
    BY <1>1
  <2>2. DerivedOwed(todo \cup owed) /\ PolicyOwed(todo \cup owed) /\ Visited
    BY DEF Fresh, Booting
  <2> QED
    BY <1>1, <2>1, <2>2, AllSettled
<1>5. CASE owed = {}
  <2>1. derived = Source /\ policy = Source
    BY <1>4, <1>5 DEF DerivedOwed, PolicyOwed
  <2> QED
    BY <1>1, <1>3, <1>5, <2>1, CalmIsFresh DEF Calm
<1>6. CASE owed # {}
  <2>1. /\ DerivedOwed(owed)' /\ PolicyOwed(owed)'
        /\ \A j \in owed : Settled(j)'
    <3>1. \A j : Settled(j) => Settled(j)'
      BY <1>1 DEF Settled
    <3>2. \A j : (Owing(j) => Owing(j)') /\ (Finishing(j) => Finishing(j)')
      BY <1>1, <1>2 DEF Owing, Finishing, InFlight, Settled, Exists
    <3>3. DerivedOwed(owed)'
      BY <1>1, <1>3, <1>4, <3>2 DEF DerivedOwed
    <3>4. PolicyOwed(owed)'
      BY <1>1, <1>3, <1>4, <3>2 DEF PolicyOwed
    <3> QED
      BY <1>1, <1>4, <3>1, <3>3, <3>4
  <2>2. DerivedOwed(todo \cup owed)' /\ PolicyOwed(todo \cup owed)'
    BY <1>1, <1>6, <2>1 DEF DerivedOwed, PolicyOwed
  <2>3. Visited' /\ Announced'
    BY <1>1, <1>6, <2>1 DEF Visited, Announced, PolicyOwed
  <2> QED
    BY <1>1, <1>6, <2>2, <2>3 DEF Fresh, Running, Booting, Flying
<1> QED
  BY <1>1, <1>5, <1>6

\* A boot step that throws leaves what is owed to the next process.
LEMMA RejectFresh ==
    ASSUME IInv, Fresh, [Next]_vars, server = "booting", Reject, Unreset',
           UNCHANGED <<fs, job, pending>>, DerivedOwed(Job)', PolicyOwed(Job)'
    PROVE  Fresh'
<1>1. pending = {}
  BY DEF IInv, Waiting, Serving
<1> QED
  BY <1>1, LaidDown DEF Reject, Unreset

\* The reset of derived state at boot.
LEMMA BootResetFresh ==
    ASSUME IInv, Fresh, BootReset, Unreset'
    PROVE  Fresh'
<1>1. /\ [Next]_vars /\ exec = "bootReset" /\ server = "booting"
      /\ UNCHANGED <<fs, job, policy, pending>>
  BY ServerAt DEF BootReset, Next, Advance
<1>2. /\ Backups = {} /\ script = <<>> /\ todo = owed /\ owed # {}
      /\ PolicyOwed(todo \cup owed) /\ Visited /\ Announced
  BY <1>1 DEF IInv, Stepping, Seated, Quiet, Fresh, Booting
<1>3. Source' = Source /\ Backups' = Backups /\ LiveSource = Source
  BY <1>1, <1>2, SourceSteps, LiveIsSource DEF Commit, Backups, Exists
<1>4. \A j \in owed : Settled(j) /\ Settled(j)'
  BY <1>1, <1>2, AllSettled DEF Settled
<1>5. CASE /\ derived' = LiveSource /\ exec' = "bootFinalize"
           /\ UNCHANGED <<server, todo, owed, script>>
  <2>1. PolicyOwed(todo)' /\ PolicyOwed(todo \cup owed)'
    <3>1. \A j : Finishing(j) <=> Finishing(j)'
      BY <1>1 DEF Finishing, Owing, InFlight, Settled, Exists
    <3> QED
      BY <1>1, <1>2, <1>3, <1>5, <3>1 DEF PolicyOwed
  <2>2. Visited'
    BY <1>2, <1>4, <1>5 DEF Visited
  <2>3. Announced'
    BY <1>5, <2>1 DEF Announced, PolicyOwed
  <2>4. derived' = Source' /\ DerivedOwed(todo \cup owed)'
    BY <1>3, <1>5 DEF DerivedOwed
  <2> QED
    BY <1>1, <1>2, <1>5, <2>1, <2>2, <2>3, <2>4
       DEF Fresh, Running, Booting, Flying
<1>6. CASE derived' = Partial /\ Reject
  <2>1. DerivedOwed(Job)'
    <3>1. PICK j \in owed : Settled(j)'
      BY <1>2, <1>4
    <3>2. j \in Job /\ Backups' = {}
      BY <1>2, <1>3, <3>1 DEF IInv, TypeOK
    <3> QED
      BY <3>1, <3>2 DEF DerivedOwed, Owing
  <2>2. PolicyOwed(Job)'
    <3>1. PolicyOwed(Job)
      BY AlwaysOwed
    <3>2. \A j : Finishing(j) <=> Finishing(j)'
      BY <1>1 DEF Finishing, Owing, InFlight, Settled, Exists
    <3> QED
      BY <1>1, <1>3, <3>1, <3>2 DEF PolicyOwed
  <2> QED
    BY <1>1, <1>6, <2>1, <2>2, RejectFresh
<1> QED
  BY <1>5, <1>6 DEF BootReset

\* finalizeWorkspaceClearJob records the outcome last, and keeps its reset.
LEMMA FinalizeWrites ==
    ASSUME TypeOK, NEW j \in Job, job[j].state = "complete", job[j].reset = "yes",
           NEW S, \A p \in Path : RemoveOp(p) \in S,
           \A p, q \in Path : MoveOp(p, q) \in S
    PROVE  EndsIn(S, FinalizeClear(j), j, "complete", "yes")
<1> DEFINE r == [job[j] EXCEPT !.prepared = FALSE, !.cleanup = FALSE]
<1>1. job[j] \in Record
  BY DEF TypeOK
<1>2. r \in Record /\ r.state = "complete" /\ r.reset = "yes"
  BY <1>1 DEF Record
<1>3. DiscardCommitted(j) \in Seq(S)
  BY PlainScripts
<1>4. FinalizeClear(j) = DiscardCommitted(j) \o <<RecordOp(j, r)>>
  BY DEF FinalizeClear
<1> HIDE DEF r
<1> QED
  BY <1>2, <1>3, <1>4 DEF EndsIn

\* The boot finishes what one committed replacement still needs.
LEMMA BootFinalizeFresh ==
    ASSUME IInv, Fresh, NEW j \in Job, BootFinalize(j), Unreset'
    PROVE  Fresh'
<1>1. /\ [Next]_vars /\ exec = "bootFinalize" /\ server = "booting"
      /\ script = <<>> /\ j \in todo
      /\ UNCHANGED <<fs, job, derived, pending>>
  BY ServerAt DEF BootFinalize, Next, Advance
<1>2. /\ TypeOK /\ Backups = {} /\ derived = Source /\ PolicyOwed(todo)
      /\ todo \subseteq owed /\ \A k \in owed : Settled(k)
  BY <1>1, AllSettled DEF IInv, Stepping, Seated, Fresh, Booting
<1>3. /\ Source' = Source /\ Backups' = Backups /\ LiveSource = Source
      /\ \A k : /\ Settled(k) <=> Settled(k)'
                /\ Finishing(k) <=> Finishing(k)'
  <2>1. Source' = Source /\ Backups' = Backups /\ LiveSource = Source
    BY <1>1, <1>2, SourceSteps, LiveIsSource DEF Commit, Backups, Exists
  <2> QED
    BY <1>1, <2>1 DEF Finishing, Owing, InFlight, Settled, Exists
<1>4. CASE Reject /\ UNCHANGED policy
  <2>1. DerivedOwed(Job)'
    BY <1>1, <1>2, <1>3 DEF DerivedOwed
  <2>2. PolicyOwed(Job)'
    <3>1. PolicyOwed(Job)
      BY AlwaysOwed
    <3> QED
      BY <1>3, <1>4, <3>1 DEF PolicyOwed
  <2> QED
    BY <1>1, <1>4, <2>1, <2>2, RejectFresh
<1>5. ASSUME todo' = todo \ {j}, UNCHANGED <<server, exec, owed>>,
             policy' = IF job[j].state = "complete" THEN LiveSource ELSE policy,
             script' = IF /\ kind[j] = "clear" /\ job[j].state = "complete"
                          /\ job[j].prepared
                       THEN FinalizeClear(j) ELSE <<>>
      PROVE  Fresh'
  <2>1. policy' = Source' \/ (Source' \in todo' /\ Finishing(Source') /\ Backups' = {})
    <3>1. CASE job[j].state = "complete"
      BY <1>3, <1>5, <3>1
    <3>2. CASE job[j].state # "complete"
      <4>1. ~Finishing(j)
        BY <1>1, <1>2, <3>2 DEF Finishing, InFlight, Settled
      <4> QED
        BY <1>2, <1>3, <1>5, <3>2, <4>1 DEF PolicyOwed
    <3> QED
      BY <3>1, <3>2
  <2>2. PolicyOwed(todo)' /\ PolicyOwed(todo \cup owed)' /\ Announced'
    <3>1. policy' = Source' \/ (Source' \in todo' /\ Finishing(Source)' /\ Backups' = {})
      BY <1>3, <2>1
    <3> QED
      BY <3>1 DEF PolicyOwed, Announced
  <2>3. derived' = Source' /\ DerivedOwed(todo \cup owed)'
    BY <1>1, <1>2, <1>3 DEF DerivedOwed
  <2>4. Visited'
    <3>1. \A k \in owed' : Settled(k)'
      BY <1>2, <1>3, <1>5
    <3>2. CASE script' = <<>>
      BY <3>1, <3>2 DEF Visited
    <3>3. CASE job[j].state = "complete" /\ script' = FinalizeClear(j)
      <4> DEFINE S == BootOps(j, "complete", owed')
      <4>1. /\ \A p \in Path : RemoveOp(p) \in S
            /\ \A p, q \in Path : MoveOp(p, q) \in S
        BY DEF BootOps
      <4>2. job[j].reset = "yes"
        BY <1>1, <1>2 DEF Settled
      <4>3. EndsIn(S, FinalizeClear(j), j, "complete", "yes")
        <5> HIDE DEF S
        <5> QED
          BY <1>2, <3>3, <4>1, <4>2, FinalizeWrites
      <4>4. Writing(j, "complete")'
        BY <3>3, <4>3, EndIsWritten
      <4>5. j \in Job \ todo'
        BY <1>5
      <4> QED
        BY <3>1, <4>4, <4>5 DEF Visited
    <3> QED
      BY <1>5, <3>2, <3>3
  <2>5. todo' \subseteq owed'
    BY <1>2, <1>5
  <2> QED
    BY <1>1, <1>5, <2>2, <2>3, <2>4, <2>5 DEF Fresh, Running, Booting, Flying
<1> QED
  BY <1>4, <1>5 DEF BootFinalize

\* The resets are acknowledged one by one, and the server opens.
LEMMA BootAcknowledgeFresh ==
    ASSUME IInv, Fresh, BootAcknowledge, Unreset'
    PROVE  Fresh'
<1>1. /\ [Next]_vars /\ exec = "bootFinalize" /\ server = "booting"
      /\ script = <<>> /\ todo = {}
      /\ UNCHANGED <<fs, derived, policy, pending>>
  BY ServerAt DEF BootAcknowledge, Next, Advance
<1>2. /\ TypeOK /\ derived = Source /\ policy = Source
      /\ \A k \in owed : Settled(k)
  BY <1>1, AllSettled DEF IInv, Fresh, Booting, PolicyOwed
<1>3. derived' = Source' /\ policy' = Source'
  BY <1>1, <1>2, SourceSteps DEF Commit
<1>4. ASSUME NEW k \in owed, job' = [job EXCEPT ![k].reset = "no"],
             owed' = owed \ {k}, UNCHANGED <<server, exec, script, todo>>
      PROVE  Fresh'
  <2>1. \A i \in owed' : Settled(i)'
    <3>1. TAKE i \in owed'
    <3>2. i \in Job /\ i # k /\ Settled(i)
      BY <1>2, <1>4, <3>1 DEF TypeOK
    <3>3. job'[i] = job[i]
      BY <1>2, <1>4, <3>2 DEF TypeOK
    <3> QED
      BY <3>2, <3>3 DEF Settled
  <2>2. /\ DerivedOwed(todo \cup owed)' /\ PolicyOwed(todo \cup owed)'
        /\ PolicyOwed(todo)' /\ Announced'
    BY <1>3 DEF DerivedOwed, PolicyOwed, Announced
  <2>3. Visited'
    BY <1>1, <1>4, <2>1 DEF Visited
  <2> QED
    BY <1>1, <1>3, <1>4, <2>2, <2>3 DEF Fresh, Running, Booting, Flying
<1>5. CASE owed = {} /\ server' = "open" /\ exec' = "idle" /\ UNCHANGED owed
  BY <1>3, <1>5, CalmIsFresh DEF Calm
<1>6. CASE Reject /\ UNCHANGED job
  <2>1. DerivedOwed(Job)' /\ PolicyOwed(Job)'
    BY <1>3 DEF DerivedOwed, PolicyOwed
  <2> QED
    BY <1>1, <1>6, <2>1, RejectFresh
<1> QED
  BY <1>4, <1>5, <1>6 DEF BootAcknowledge

\* A script that throws in a boot.
LEMMA ThrowBootFresh ==
    ASSUME IInv, Fresh, ScriptThrows, server = "booting", Unreset'
    PROVE  Fresh'
<1>1. [Next]_vars /\ Reject /\ UNCHANGED <<fs, job, derived, policy, pending>>
  BY DEF ScriptThrows, durable, Next
<1>2. exec # "commit"
  BY DEF IInv, Serving
<1>3. Source' = Source /\ Backups' = Backups
  BY <1>1, <1>2, SourceSteps DEF Commit, Backups, Exists
<1>4. \A j : (Owing(j) => Owing(j)') /\ (Finishing(j) => Finishing(j)')
  BY <1>1 DEF Owing, Finishing, InFlight, Settled, Exists
<1>5. DerivedOwed(Job)' /\ PolicyOwed(Job)'
  <2>1. DerivedOwed(Job) /\ PolicyOwed(Job)
    BY AlwaysOwed
  <2>2. DerivedOwed(Job)'
    BY <1>1, <1>3, <1>4, <2>1 DEF DerivedOwed
  <2>3. PolicyOwed(Job)'
    BY <1>1, <1>3, <1>4, <2>1 DEF PolicyOwed
  <2> QED
    BY <2>2, <2>3
<1> QED
  BY <1>1, <1>5, RejectFresh

\* What a recorded outcome says.
LEMMA RecordedOps ==
    ASSUME NEW k, NEW u, NEW due, NEW o \in RecordOps(k, u, due)
    PROVE  o.op = "record" /\ o.id = k /\ o.record.state = u
  BY DEF RecordOps, RecordOp

\* The record that a script ends with names the job whose files it tidies.
LEMMA WritesForOne ==
    ASSUME NEW k \in Job, NEW u, NEW i \in Job, Writing(k, u),
           script \in Seq(TidyOps(i))
    PROVE  i = k
<1>1. PICK s \in Seq(BootOps(k, u, owed)), o \in RecordOps(k, u, owed) :
        script = s \o <<o>>
  BY DEF Writing
<1>2. o \in BootOps(k, u, owed)
  BY <1>1 DEF BootOps
<1>3. Len(script) \in Nat \ {0} /\ script[Len(script)] = o
  <2> HIDE DEF BootOps, RecordOps
  <2> QED
    BY <1>1, <1>2
<1>4. o \in TidyOps(i)
  <2> HIDE DEF TidyOps
  <2> QED
    BY <1>3
<1>5. o.op = "record" /\ o.id = k
  BY <1>1 DEF RecordOps, RecordOp
<1> QED
  BY <1>4, <1>5, TidyForms DEF RecordOp, RemoveOp, MoveOp

\* Every operation of a boot's script is the record or a file operation, and
\* what follows a file operation ends with the record too.
Onward(k, u) ==
    \E s \in Seq(BootOps(k, u, owed)), o \in RecordOps(k, u, owed) :
        Tail(script) = s \o <<o>>

LEMMA BootHeads ==
    ASSUME NEW k, NEW u, Writing(k, u)
    PROVE  \/ \E r \in Record :
                /\ Head(script) = RecordOp(k, r) /\ r.state = u
                /\ k \in owed => r.reset = "yes"
                /\ Tail(script) = <<>> \/ Onward(k, u)
           \/ /\ \/ \E p \in Path : Head(script) = RemoveOp(p)
                 \/ \E p, q \in Path : Head(script) = MoveOp(p, q)
              /\ Onward(k, u)
<1>1. PICK s \in Seq(BootOps(k, u, owed)), o \in RecordOps(k, u, owed) :
        script = s \o <<o>>
  BY DEF Writing
<1>2. o \in BootOps(k, u, owed)
  BY <1>1 DEF BootOps
<1>3. \/ /\ Head(script) \in RecordOps(k, u, owed)
         /\ Tail(script) = <<>> \/ Onward(k, u)
      \/ Head(script) \in BootOps(k, u, owed) /\ Onward(k, u)
  <2>1. CASE s = <<>>
    BY <1>1, <1>2, <2>1, Ending
  <2>2. CASE s # <<>>
    <3>1. /\ Head(s) \in BootOps(k, u, owed) /\ Head(script) = Head(s)
          /\ Tail(s) \in Seq(BootOps(k, u, owed))
          /\ Tail(script) = Tail(s) \o <<o>>
      BY <1>1, <1>2, <2>2, Ending
    <3> QED
      BY <1>1, <3>1 DEF Onward
  <2> QED
    BY <2>1, <2>2
<1>4. \/ /\ Head(script) \in RecordOps(k, u, owed)
         /\ Tail(script) = <<>> \/ Onward(k, u)
      \/ /\ \/ \E p \in Path : Head(script) = RemoveOp(p)
            \/ \E p, q \in Path : Head(script) = MoveOp(p, q)
         /\ Onward(k, u)
  BY <1>3 DEF BootOps
<1>5. Head(script) \in RecordOps(k, u, owed) =>
        \E r \in Record : /\ Head(script) = RecordOp(k, r)
                          /\ r.state = u /\ (k \in owed => r.reset = "yes")
  BY DEF RecordOps
<1> QED
  BY <1>4, <1>5

\* In a boot no file operation lets a staged tree or a marker appear, and a
\* committed backup goes only for the job whose files are tidied.
LEMMA BootFiles ==
    ASSUME IInv, ScriptStep, server = "booting", job' = job
    PROVE  /\ \A j \in Job :
                /\ Exists(At(j, "staging"))' => Exists(At(j, "staging"))
                /\ Exists(At(j, "marker"))' => Exists(At(j, "marker"))
           /\ \/ Backups # {}
              \/ \E i \in Job :
                   /\ script \in Seq(TidyOps(i))
                   /\ \A j \in Job \ {i} :
                        Exists(At(j, "committed")) => Exists(At(j, "committed"))'
<1>1. TypeOK /\ exec # "restore" /\ ScriptForm
  BY ScriptForms DEF IInv, Serving
<1>2. ASSUME NEW i \in Job, NEW a \in Artifact \ {"backup"},
             NEW v \in {Partial, None}, Tidies(i, a, v)
      PROVE  /\ \A j \in Job, b \in Artifact :
                  Exists(At(j, b))' => Exists(At(j, b))
             /\ \A j \in Job \ {i}, b \in Artifact : fs'[At(j, b)] = fs[At(j, b)]
  <2>1. /\ At(i, a) \in Path
        /\ \A j \in Job, b \in Artifact : /\ At(j, b) \in Path
                                          /\ At(j, b) = At(i, a) => j = i
    BY <1>2, Paths
  <2>2. fs' = [fs EXCEPT ![At(i, a)] = v] /\ (v = None \/ Whole(At(i, a)))
    BY <1>2 DEF Tidies
  <2>3. Whole(At(i, a)) => fs[At(i, a)] # None
    BY Trees DEF Whole
  <2>4. \A p \in Path : fs'[p] = IF p = At(i, a) THEN v ELSE fs[p]
    BY <1>1, <2>1, <2>2 DEF TypeOK
  <2> QED
    BY <2>1, <2>2, <2>3, <2>4 DEF Exists
<1>3. ASSUME NEW i \in Job, Returns(i)
      PROVE  /\ \A j \in Job, b \in Artifact :
                  Exists(At(j, b))' => Exists(At(j, b))
             /\ \A j \in Job \ {i}, b \in Artifact : fs'[At(j, b)] = fs[At(j, b)]
  <2>1. /\ At(i, "committed") \in Path /\ Root \in Path
        /\ At(i, "committed") # Root
        /\ \A j \in Job, b \in Artifact :
             /\ At(j, b) \in Path /\ At(j, b) # Root
             /\ At(j, b) = At(i, "committed") => j = i
    BY Paths DEF Artifact
  <2>2. Moves(At(i, "committed"), Root)
    BY <1>1, <1>3, <2>1, MovesTo DEF Returns
  <2> QED
    BY <2>1, <2>2 DEF Moves, Exists
<1>4. ASSUME NEW i \in Job, Tidying(i),
             \/ \E a \in Artifact \ {"backup"}, v \in {Partial, None} :
                   Tidies(i, a, v)
             \/ Returns(i)
             \/ \E r \in Record : Records(i, r)
      PROVE  /\ \A j \in Job, b \in Artifact :
                  Exists(At(j, b))' => Exists(At(j, b))
             /\ \A j \in Job \ {i}, b \in Artifact : fs'[At(j, b)] = fs[At(j, b)]
  <2>1. CASE \E r \in Record : Records(i, r)
    BY <2>1 DEF Records, Exists
  <2> QED
    BY <1>2, <1>3, <1>4, <2>1
<1>5. ASSUME NEW i \in Backups,
             \/ \E v \in {Partial, None} : Tidies(i, "interrupted", v)
             \/ Move(Root, At(i, "interrupted")) /\ job' = job
             \/ Move(At(i, "backup"), Root) /\ job' = job
      PROVE  \A j \in Job :
                /\ Exists(At(j, "staging"))' => Exists(At(j, "staging"))
                /\ Exists(At(j, "marker"))' => Exists(At(j, "marker"))
  <2>1. i \in Job /\ "interrupted" \in Artifact \ {"backup"}
    BY <1>5 DEF Backups, Artifact
  <2>2. CASE \E v \in {Partial, None} : Tidies(i, "interrupted", v)
    BY <1>2, <2>1, <2>2 DEF Artifact
  <2>3. CASE Move(Root, At(i, "interrupted")) \/ Move(At(i, "backup"), Root)
    BY <1>1, <2>1, <2>3, ToldFiles DEF Told, Exists, At
  <2> QED
    BY <1>5, <2>2, <2>3
<1>6. CASE \E i \in Job : Tidying(i) /\
             \/ \E a \in Artifact \ {"backup"}, v \in {Partial, None} :
                   Tidies(i, a, v)
             \/ Returns(i)
             \/ \E r \in Record : Records(i, r)
  <2>1. PICK i \in Job :
             /\ Tidying(i)
             /\ \A j \in Job, b \in Artifact :
                  Exists(At(j, b))' => Exists(At(j, b))
             /\ \A j \in Job \ {i}, b \in Artifact : fs'[At(j, b)] = fs[At(j, b)]
    BY <1>4, <1>6
  <2>2. \A j \in Job \ {i} :
          Exists(At(j, "committed")) => Exists(At(j, "committed"))'
    BY <2>1 DEF Artifact, Exists, At
  <2>3. script \in Seq(TidyOps(i))
    BY <2>1 DEF Tidying
  <2> QED
    BY <2>1, <2>2, <2>3 DEF Artifact
<1>7. CASE \E i \in Backups : exec = "recover" /\
             \/ \E v \in {Partial, None} : Tidies(i, "interrupted", v)
             \/ Move(Root, At(i, "interrupted")) /\ job' = job
             \/ Move(At(i, "backup"), Root) /\ job' = job
  <2>1. Backups # {}
    BY <1>7
  <2> QED
    BY <1>5, <1>7, <2>1
<1> QED
  BY <1>1, <1>6, <1>7 DEF ScriptForm, Clears

\* One operation of a boot's script.
LEMMA ScriptBootFresh ==
    ASSUME IInv, Fresh, ScriptStep, server = "booting", Unreset'
    PROVE  Fresh'
<1>1. /\ [Next]_vars /\ TypeOK /\ script # <<>> /\ Booting
      /\ exec \in {"recover", "bootFinalize"}
      /\ UNCHANGED <<derived, policy, server, exec, todo, owed>>
  BY DEF IInv, Fresh, Next, ScriptStep, Stepping, Quiet, Serving
<1>2. Source' = Source /\ Backups' \subseteq Backups
  BY <1>1, SourceSteps, ScriptFiles DEF Commit
<1>3. PICK k \in Job \ todo, u \in {"complete", "failed"} :
        /\ Writing(k, u)
        /\ job[k].state = "complete" => u = "complete"
        /\ \A j \in owed \ {k} : Settled(j)
  BY <1>1 DEF Booting, Visited
<1>4. /\ DerivedOwed(todo \cup owed) /\ PolicyOwed(todo \cup owed) /\ Announced
      /\ exec = "recover" => owed \cap todo = {}
      /\ exec = "bootFinalize" =>
           derived = Source /\ PolicyOwed(todo) /\ todo \subseteq owed
  BY <1>1 DEF Booting
<1>5. /\ Onward(k, u) /\ script' = Tail(script) => Writing(k, u)'
      /\ script' = script => Writing(k, u)'
  <2>1. ASSUME NEW rest, script' = rest,
               \E s \in Seq(BootOps(k, u, owed)), o \in RecordOps(k, u, owed) :
                   rest = s \o <<o>>
        PROVE  Writing(k, u)'
    <3>1. \E s \in Seq(BootOps(k, u, owed')), o \in RecordOps(k, u, owed') :
            script' = s \o <<o>>
      BY <1>1, <2>1
    <3> QED
      BY <3>1 DEF Writing
  <2> QED
    BY <1>3, <2>1 DEF Onward, Writing
<1>6. ASSUME DerivedOwed(todo \cup owed)', PolicyOwed(todo \cup owed)',
             PolicyOwed(todo) => PolicyOwed(todo)', Visited', Announced'
      PROVE  Fresh'
  <2>1. /\ exec' = "recover" => owed' \cap todo' = {}
        /\ exec' = "bootFinalize" =>
             derived' = Source' /\ PolicyOwed(todo)' /\ todo' \subseteq owed'
    BY <1>1, <1>2, <1>4, <1>6
  <2> QED
    BY <1>1, <1>6, <2>1 DEF Fresh, Running, Booting, Flying
<1>7. CASE \E r \in Record : /\ Head(script) = RecordOp(k, r) /\ r.state = u
                             /\ k \in owed => r.reset = "yes"
                             /\ Tail(script) = <<>> \/ Onward(k, u)
  <2>1. PICK r \in Record : /\ Head(script) = RecordOp(k, r) /\ r.state = u
                            /\ k \in owed => r.reset = "yes"
                            /\ Tail(script) = <<>> \/ Onward(k, u)
    BY <1>7
  <2>2. /\ job' = [job EXCEPT ![k] = r] /\ fs' = fs /\ script' = Tail(script)
    BY <2>1, Operations
  <2>3. /\ job'[k] = r /\ \A j \in Job \ {k} : job'[j] = job[j]
        /\ Backups' = Backups
    BY <1>1, <2>2 DEF TypeOK, Backups, Exists
  <2>4. k \in owed => Settled(k)'
    BY <2>1, <2>3 DEF Settled
  <2>5. \A j \in Job \ {k} :
          /\ Settled(j) => Settled(j)'
          /\ Owing(j) => Owing(j)'
          /\ Finishing(j) => Finishing(j)'
    BY <2>2, <2>3 DEF Settled, Owing, InFlight, Finishing, Exists
  <2>6. DerivedOwed(todo \cup owed)'
    <3>1. CASE derived = Source
      BY <1>1, <1>2, <3>1 DEF DerivedOwed
    <3>2. ASSUME NEW j \in todo \cup owed, Owing(j), Backups \subseteq {j}
          PROVE  DerivedOwed(todo \cup owed)'
      <4>1. j \in Job
        BY <1>1, <3>2 DEF TypeOK
      <4>2. Owing(j)'
        BY <1>3, <2>4, <2>5, <3>2, <4>1 DEF Owing
      <4> QED
        BY <1>1, <2>3, <3>2, <4>2 DEF DerivedOwed
    <3> QED
      BY <1>4, <3>1, <3>2 DEF DerivedOwed
  <2>7. ASSUME policy # Source, Source = k
        PROVE  u = "complete"
    <3>1. \/ job[k].state = "complete"
          \/ Head(script) \in RecordOps(k, "complete", owed)
      BY <1>3, <1>4, <2>7 DEF Announced
    <3>2. Head(script) \in RecordOps(k, "complete", owed) => r.state = "complete"
      <4>1. Head(script).record = r
        BY <2>1 DEF RecordOp
      <4>2. Head(script) \in RecordOps(k, "complete", owed)
              => Head(script).record.state = "complete"
        BY RecordedOps
      <4> QED
        BY <4>1, <4>2
    <3> QED
      BY <1>3, <2>1, <3>1, <3>2
  <2>8. policy # Source => Source \in Job
    BY <1>1, <1>4 DEF PolicyOwed, TypeOK
  <2>9. PolicyOwed(todo \cup owed)'
    <3>1. CASE policy = Source
      BY <1>1, <1>2, <3>1 DEF PolicyOwed
    <3>2. ASSUME policy # Source, Source \in todo \cup owed, Finishing(Source),
                 Backups = {}
          PROVE  PolicyOwed(todo \cup owed)'
      <4>1. CASE Source = k
        <5>1. k \in owed /\ u = "complete"
          BY <1>3, <2>7, <3>2, <4>1
        <5>2. Finishing(k)'
          BY <2>1, <2>3, <2>4, <5>1 DEF Finishing, Owing
        <5> QED
          BY <1>1, <1>2, <2>3, <3>2, <4>1, <5>1, <5>2 DEF PolicyOwed
      <4>2. CASE Source # k
        <5>1. PICK j \in Job : j = Source
          BY <2>8, <3>2
        <5>2. Finishing(j)'
          BY <2>5, <3>2, <4>2, <5>1
        <5> QED
          BY <1>1, <1>2, <2>3, <3>2, <5>1, <5>2 DEF PolicyOwed
      <4> QED
        BY <4>1, <4>2
    <3> QED
      BY <1>4, <3>1, <3>2 DEF PolicyOwed
  <2>10. PolicyOwed(todo) => PolicyOwed(todo)'
    <3>1. CASE policy = Source
      BY <1>1, <1>2, <3>1 DEF PolicyOwed
    <3>2. ASSUME policy # Source, Source \in todo, Finishing(Source), Backups = {}
          PROVE  PolicyOwed(todo)'
      <4>1. PICK j \in Job : j = Source
        BY <2>8, <3>2
      <4>2. Finishing(j)'
        BY <1>3, <2>5, <3>2, <4>1
      <4> QED
        BY <1>1, <1>2, <2>3, <3>2, <4>1, <4>2 DEF PolicyOwed
    <3> QED
      BY <3>1, <3>2 DEF PolicyOwed
  <2>11. Visited'
    <3>1. \A j \in owed' \ {k} : Settled(j)'
      BY <1>1, <1>3, <2>5 DEF TypeOK
    <3>2. CASE Tail(script) = <<>>
      <4>1. \A j \in owed' : Settled(j)'
        BY <1>1, <2>4, <3>1
      <4> QED
        BY <2>2, <3>2, <4>1 DEF Visited
    <3>3. CASE Onward(k, u)
      <4>1. Writing(k, u)' /\ job'[k].state = u /\ k \in Job \ todo'
        BY <1>1, <1>5, <2>1, <2>2, <2>3, <3>3
      <4> QED
        BY <3>1, <4>1 DEF Visited
    <3> QED
      BY <2>1, <3>2, <3>3
  <2>12. Announced'
    <3>1. SUFFICES ASSUME policy # Source, Source \notin todo
                   PROVE  job'[Source].state = "complete"
      BY <1>1, <1>2 DEF Announced
    <3>2. CASE Source = k
      BY <2>1, <2>3, <2>7, <3>1, <3>2
    <3>3. CASE Source # k
      <4>1. Head(script) \notin RecordOps(Source, "complete", owed)
        BY <2>1, <3>3 DEF RecordOps, RecordOp
      <4>2. job[Source].state = "complete"
        BY <1>4, <3>1, <4>1 DEF Announced
      <4> QED
        BY <2>3, <2>8, <3>1, <3>3, <4>2
    <3> QED
      BY <3>2, <3>3
  <2> QED
    BY <1>6, <2>6, <2>9, <2>10, <2>11, <2>12
<1>8. CASE /\ \/ \E p \in Path : Head(script) = RemoveOp(p)
              \/ \E p, q \in Path : Head(script) = MoveOp(p, q)
           /\ Onward(k, u)
  <2>1. job' = job /\ script' \in {script, Tail(script)}
    BY <1>8, Operations
  <2>2. /\ \A j \in Job :
             /\ Exists(At(j, "staging"))' => Exists(At(j, "staging"))
             /\ Exists(At(j, "marker"))' => Exists(At(j, "marker"))
        /\ \/ Backups # {}
           \/ \A j \in Job \ {k} :
                Exists(At(j, "committed")) => Exists(At(j, "committed"))'
    <3>1. \A i \in Job : script \in Seq(TidyOps(i)) => i = k
      BY <1>3, WritesForOne
    <3> QED
      BY <1>3, <2>1, <3>1, BootFiles
  <2>3. \A j \in Job : /\ Owing(j) => Owing(j)'
                       /\ Settled(j) => Settled(j)'
                       /\ j # k /\ Backups = {} /\ Finishing(j) => Finishing(j)'
                       /\ job[j].state = "complete" /\ Finishing(j)
                            => Finishing(j)'
    <3>1. TAKE j \in Job
    <3>2. /\ Owing(j) => Owing(j)'
          /\ Settled(j) => Settled(j)'
          /\ \/ Exists(At(j, "committed")) /\ ~Exists(At(j, "committed"))'
             \/ Exists(At(j, "marker"))' /\ ~Exists(At(j, "marker"))
             \/ (Finishing(j) => Finishing(j)')
      BY <2>1, <2>2, OwingKept
    <3>3. job[j].state = "complete" /\ Finishing(j) => Finishing(j)'
      BY <2>1, <3>2 DEF Finishing, InFlight
    <3> QED
      BY <2>2, <3>2, <3>3
  <2>4. policy # Source => Source \in Job
    BY <1>1, <1>4 DEF PolicyOwed, TypeOK
  <2>5. ~(Head(script) \in RecordOps(Source, "complete", owed))
    <3>1. Head(script).op \in {"remove", "move"}
      BY <1>8 DEF RemoveOp, MoveOp
    <3>2. Head(script) \in RecordOps(Source, "complete", owed)
            => Head(script).op = "record"
      BY RecordedOps
    <3> QED
      BY <3>1, <3>2
  <2>6. policy # Source /\ Source \notin todo => job[Source].state = "complete"
    BY <1>4, <2>5 DEF Announced
  <2>7. ASSUME policy # Source, Finishing(Source), Backups = {}
        PROVE  Finishing(Source)'
    <3>1. PICK j \in Job : j = Source
      BY <2>4, <2>7
    <3>2. j # k \/ job[j].state = "complete"
      BY <1>3, <2>6, <2>7, <3>1
    <3>3. Finishing(j)'
      BY <2>3, <2>7, <3>1, <3>2
    <3> QED
      BY <1>2, <3>1, <3>3
  <2>8. DerivedOwed(todo \cup owed)'
    <3>1. CASE derived = Source
      BY <1>1, <1>2, <3>1 DEF DerivedOwed
    <3>2. ASSUME NEW j \in todo \cup owed, Owing(j), Backups \subseteq {j}
          PROVE  DerivedOwed(todo \cup owed)'
      BY <1>1, <1>2, <2>3, <3>2 DEF DerivedOwed, TypeOK
    <3> QED
      BY <1>4, <3>1, <3>2 DEF DerivedOwed
  <2>9. /\ PolicyOwed(todo \cup owed)'
        /\ PolicyOwed(todo) => PolicyOwed(todo)'
    <3>1. CASE policy = Source
      BY <1>1, <1>2, <3>1 DEF PolicyOwed
    <3>2. CASE policy # Source /\ Finishing(Source) /\ Backups = {}
      BY <1>1, <1>2, <1>4, <2>7, <3>2 DEF PolicyOwed
    <3> QED
      BY <1>4, <3>1, <3>2 DEF PolicyOwed
  <2>10. Visited'
    <3>1. Writing(k, u)'
      <4>1. CASE script' = script
        BY <1>5, <4>1
      <4>2. CASE script' = Tail(script)
        BY <1>5, <1>8, <4>2
      <4> QED
        BY <2>1, <4>1, <4>2
    <3>2. /\ \A j \in owed' \ {k} : Settled(j)'
          /\ job'[k].state = "complete" => u = "complete"
          /\ k \in Job \ todo'
      BY <1>1, <1>3, <2>1, <2>3 DEF TypeOK
    <3> QED
      BY <3>1, <3>2 DEF Visited
  <2>11. Announced'
    BY <1>1, <1>2, <2>1, <2>6 DEF Announced
  <2> QED
    BY <1>6, <2>8, <2>9, <2>10, <2>11
<1> QED
  BY <1>3, <1>7, <1>8, BootHeads

\* A job is not prepared for the second time while all are prepared once.
LEMMA FirstPreparations ==
    ASSUME TypeOK, Tried, Once', [Next]_vars, NEW k \in Job, PrepareStart(k)
    PROVE  job[k].state = "uploaded"
<1>1. /\ attempts[k] \in Nat /\ attempts'[k] <= 1
  BY OnceBefore DEF Once
<1>2. attempts'[k] = attempts[k] + 1
  BY DEF PrepareStart, TypeOK
<1>3. ~(attempts[k] >= 1)
  BY <1>1, <1>2
<1> QED
  BY <1>3 DEF PrepareStart, Tried

LEMMA StutterFresh ==
    ASSUME Fresh, UNCHANGED vars
    PROVE  Fresh'
<1> USE DEF vars, durable, process
<1>1. /\ Source' = Source /\ Backups' = Backups
      /\ \A p : Exists(p)' <=> Exists(p)
  BY DEF Source, Content, Backups, Whole, Exists
<1>2. \A j : /\ InFlight(j)' <=> InFlight(j)
             /\ Settled(j)' <=> Settled(j)
             /\ Owing(j)' <=> Owing(j)
             /\ Finishing(j)' <=> Finishing(j)
  BY DEF InFlight, Settled, Owing, Finishing, Exists
<1>3. Unreset'
  BY DEF Fresh, Unreset
<1>4. /\ DerivedOwed(Job)' <=> DerivedOwed(Job)
      /\ DerivedOwed(todo \cup owed)' <=> DerivedOwed(todo \cup owed)
      /\ PolicyOwed(Job)' <=> PolicyOwed(Job)
      /\ PolicyOwed(todo)' <=> PolicyOwed(todo)
      /\ PolicyOwed(todo \cup owed)' <=> PolicyOwed(todo \cup owed)
  BY <1>1, <1>2 DEF DerivedOwed, PolicyOwed
<1>5. InFlight(cur)' <=> InFlight(cur)
  BY DEF InFlight, Exists
<1>6. Running'
  <2>1. /\ Exists(At(cur, "marker"))' <=> Exists(At(cur, "marker"))
        /\ Exists(At(cur, "committed"))' <=> Exists(At(cur, "committed"))
    BY DEF Exists
  <2> QED
    BY <1>1, <1>4, <1>5, <2>1 DEF Fresh, Running
<1>7. Visited' <=> Visited
  <2>1. \A k, u : Writing(k, u)' <=> Writing(k, u)
    BY DEF Writing, BootOps, RecordOps
  <2> QED
    BY <1>2, <2>1 DEF Visited
<1>8. Announced' <=> Announced
  BY <1>1 DEF Announced, RecordOps
<1>9. Booting'
  BY <1>1, <1>4, <1>7, <1>8 DEF Fresh, Booting
<1> QED
  BY <1>3, <1>6, <1>9 DEF Fresh

\* What is derived, and what is owed, follows the tree in every step.
LEMMA FreshStep ==
    ASSUME IInv, Tried, Fresh, Once', [Next]_vars
    PROVE  Fresh'
<1>1. CASE UNCHANGED vars
  BY <1>1, StutterFresh
<1>2. CASE Request
  <2>1. \A k \in Job : PrepareStart(k) => job[k].state = "uploaded"
    BY FirstPreparations DEF IInv
  <2> QED
    BY <1>2, <2>1, RequestsFresh
<1>3. ASSUME ~Request
      PROVE  Unreset'
  BY <1>3, StepsUnreset
<1>4. CASE ScriptStep /\ ~Request
  BY <1>3, <1>4, ScriptFresh, ScriptBootFresh
<1>5. CASE ScriptThrows /\ ~Request
  BY <1>3, <1>5, ThrowFresh, ThrowBootFresh
<1>6. CASE Crash
  BY <1>6, CrashFresh
<1>7. CASE SwapOut \/ SwapIn \/ SwapBack
  BY <1>7, SwapFresh
<1>8. CASE (Reset \/ Restart \/ Commit) /\ ~Request
  BY <1>3, <1>8, CommitFresh
<1>9. CASE (MarkRollback \/ Unseat \/ Restore \/ ResetBack) /\ ~Request
  BY <1>3, <1>9, RollbackFresh
<1>10. CASE (OnCommitted \/ Terminate \/ Boot \/ BootReset \/ BootAcknowledge)
              /\ ~Request
  BY <1>3, <1>10, CommittedFresh, TerminateFresh, BootFresh, BootResetFresh,
     BootAcknowledgeFresh
<1>11. CASE (Drain \/ Stop \/ OnSucceeded \/ Release \/ Relaunch \/ OnFailed)
              /\ ~Request
  <2>1. server # "booting"
    BY <1>11, ServerAt DEF IInv, Serving, Drain, Stop, OnSucceeded, Release,
                           Relaunch, OnFailed
  <2> QED
    BY <1>3, <1>11, <2>1, CalmFresh
<1>12. CASE Recovered /\ ~Request
  BY <1>3, <1>12, CalmFresh, RecoveredFresh
<1>13. ASSUME NEW j \in Job, Recover(j) \/ BootFinalize(j), ~Request
       PROVE  Fresh'
  <2>1. Recover(j) /\ server = "booting" => Fresh'
    BY <1>3, <1>13, RecoverFresh
  <2>2. Recover(j) /\ server # "booting" => Fresh'
    BY <1>3, <1>13, CalmFresh
  <2>3. BootFinalize(j) => Fresh'
    BY <1>3, <1>13, BootFinalizeFresh
  <2> QED
    BY <1>13, <2>1, <2>2, <2>3
<1> QED
  BY <1>1, <1>2, <1>4, <1>5, <1>6, <1>7, <1>8, <1>9, <1>10, <1>11, <1>12, <1>13
     DEF Next, Advance

LEMMA InitialRefreshes ==
    ASSUME Init
    PROVE  RInv
<1>1. IInv
  BY InitialInvariant
<1>2. Tried
  BY DEF Init, Tried
<1>3. Backups = {} /\ Source = Own
  <2>1. Backups = {}
    <3>1. \A j \in Job : At(j, "backup") \in Path /\ At(j, "backup") # Root
      BY Paths DEF Artifact
    <3> QED
      BY <3>1 DEF Init, Backups, Exists
  <2>2. Content = fs[Root]
    BY <1>1, <2>1, TheContent DEF IInv
  <2> QED
    BY <2>1, <2>2, Paths DEF Init, Source
<1>4. Fresh
  <2>1. Unreset
    BY DEF Init, Unreset
  <2>2. Running
    BY <1>3 DEF Init, Running, Flying
  <2>3. Booting
    BY DEF Init, Booting
  <2> QED
    BY <2>1, <2>2, <2>3 DEF Fresh
<1> QED
  BY <1>1, <1>2, <1>4 DEF RInv

LEMMA RefreshStep ==
    ASSUME RInv, [Next]_vars
    PROVE  RInv'
<1>1. IInv /\ IInv' /\ Tried /\ Tried'
  BY InvariantStep, TriedStep DEF RInv
<1>2. ASSUME Once'
      PROVE  Fresh'
  <2>1. Once
    BY <1>1, <1>2, OnceBefore DEF IInv
  <2> QED
    BY <1>1, <1>2, <2>1, FreshStep DEF RInv
<1> QED
  BY <1>1, <1>2 DEF RInv

\* The inductive invariant of the derived state: while no job was prepared
\* twice, what the workspace's derived files and policies describe is its
\* tree, or a record tells the next boot to bring them up to date
\* (workspace-replacement-recovery.ts, the executor in index.ts).
THEOREM RefreshInvariant == Spec => []RInv
<1>1. Init => RInv
  BY InitialRefreshes
<1>2. RInv /\ [Next]_vars => RInv'
  BY RefreshStep
<1> QED
  BY <1>1, <1>2, PTL DEF Spec

\* As long as no import was prepared a second time, requests are served only
\* on derived files, private stores and team policies of the tree at the
\* root: through crashes, throwing steps, rollbacks and boots that are
\* themselves interrupted (resetRequired of the job records,
\* finishRecovery, acknowledgeWorkspaceReplacementResets).
THEOREM FirstAttemptsAreRefreshed == Spec => []FirstAttemptsRefresh
<1>1. RInv => FirstAttemptsRefresh
  <2>1. SUFFICES ASSUME RInv, server = "open", Once
                 PROVE  Refreshed
    BY DEF FirstAttemptsRefresh, Once
  <2>2. /\ Running /\ Backups = {}
        /\ exec \in {"idle", "drain", "succeed", "release"}
    BY <2>1 DEF RInv, Fresh, IInv, Serving
  <2>3. derived = Source /\ policy = Source
    BY <2>1, <2>2 DEF Running, Flying
  <2>4. LiveSource = Source
    BY <2>1, <2>2, LiveIsSource DEF RInv
  <2> QED
    BY <2>3, <2>4 DEF Refreshed
<1> QED
  BY <1>1, RefreshInvariant, PTL
=============================================================================
