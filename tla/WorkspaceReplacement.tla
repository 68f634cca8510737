------------------------ MODULE WorkspaceReplacement ------------------------
(***************************************************************************)
(* Replacing the whole workspace by another tree: an import, a clear or a   *)
(* snapshot restore (workspace-replacement.ts, the executor in index.ts,    *)
(* the jobs in workspace-transfer-jobs.ts, workspace-clear-jobs.ts and      *)
(* workspace-snapshot-restore.ts) and the recovery that runs when a process *)
(* starts after a crash (workspace-replacement-recovery.ts).                *)
(*                                                                          *)
(* The state that survives a crash is the file system beside the workspace  *)
(* root (fs), the job records (job), the derived files and private stores   *)
(* (derived) and the team policies (policy).  Every rename, removal and     *)
(* record write is a step; the process may die between any two of them, and *)
(* each may throw where the code has a handler for it.                      *)
(***************************************************************************)
EXTENDS Naturals, Sequences, FiniteSets

CONSTANTS
    Job,           \* replacement jobs
    KindChoices,   \* what kinds the jobs may have together
    Own,           \* the source of the tree the workspace starts with
    None,          \* no file, no job
    Partial,       \* a tree some of whose files are missing
    Mark,          \* the content of a rollback marker
    MaxAttempts,   \* bound: how often one import is prepared
    MaxEdits,      \* bound: edits made to one tree
    MaxTroubles    \* bound: operations that throw and deaths of the process

ASSUME KindsAssumption ==
    KindChoices \subseteq [Job -> {"import", "clear", "snapshot"}]
ASSUME BoundsAssumption ==
    MaxAttempts \in Nat /\ MaxEdits \in Nat /\ MaxTroubles \in Nat

VARIABLES
    fs,        \* path -> what is there: the root and each job's artifacts
    job,       \* job -> its record in job.json
    kind,      \* job -> its kind
    reviewed,  \* job -> the live tree its user reviewed or backed up
    derived,   \* the source of the tree the derived files describe
    policy,    \* the source of the tree the team policies were reset for
    server,    \* what the process is doing for its users
    exec,      \* the next step of the executor or of the boot
    cur,       \* the job scheduleWorkspaceReplacement admitted
    pending,   \* confirmed jobs that are not yet scheduled
    todo,      \* jobs the running recovery has still to visit
    owed,      \* jobs whose recovery asks for a reset of derived state
    script,    \* file operations the running code still has to make
    done,      \* history: jobs that passed the durable commit point
    attempts,  \* job -> preparations so far
    troubles   \* operations that threw and deaths so far

durable == <<fs, job, derived, policy>>
process == <<server, exec, cur, pending, todo, owed, script>>
vars == <<fs, job, kind, reviewed, derived, policy, server, exec, cur,
          pending, todo, owed, script, done, attempts, troubles>>

Tree == [src : Job \cup {Own}, rev : 0..MaxEdits]

\* Renames never meet a name that stands for nothing, and a half-deleted tree
\* or a marker is not a tree.
ASSUME ValuesAssumption ==
    /\ None \notin Job /\ None \notin {Partial, Mark}
    /\ {None, Partial, Mark} \cap Tree = {}

Artifact == {"staging", "backup", "committed", "failed", "interrupted",
             "marker"}
Root == <<None, "root">>
At(j, artifact) == <<j, artifact>>
Path == {Root} \cup (Job \X Artifact)

JobState == {"uploaded", "preparing", "ready", "replacing", "complete",
             "failed", "gone"}
Record == [state : JobState, prepared : BOOLEAN,
           reset : {"unset", "yes", "no"}, cleanup : BOOLEAN]

Exists(p) == fs[p] # None
Whole(p) == fs[p] \in Tree

Init ==
    /\ fs = [p \in Path |-> IF p = Root THEN [src |-> Own, rev |-> 0]
                            ELSE None]
    /\ job = [j \in Job |-> [state |-> "uploaded", prepared |-> FALSE,
                             reset |-> "unset", cleanup |-> FALSE]]
    /\ kind \in KindChoices
    /\ reviewed = [j \in Job |-> None]
    /\ derived = Own /\ policy = Own
    /\ server = "open" /\ exec = "idle" /\ cur = None
    /\ pending = {} /\ todo = {} /\ owed = {} /\ script = <<>>
    /\ done = {} /\ attempts = [j \in Job |-> 0]
    /\ troubles = 0

----------------------------------------------------------------------------
(* File operations *)

\* renameWorkspaceReplacement and renameSync: the target must not exist.
Moved(from, to) == [fs EXCEPT ![to] = fs[from], ![from] = None]
Move(from, to) == ~Exists(to) /\ fs' = Moved(from, to)

MoveOp(from, to) == [op |-> "move", from |-> from, to |-> to]
RemoveOp(p) == [op |-> "remove", at |-> p]
RecordOp(j, r) == [op |-> "record", id |-> j, record |-> r]

\* removeWorkspaceTree deletes a tree file by file: a crash can leave part of
\* it.  A marker is one file.
RemoveStep(p) ==
    \/ Whole(p) /\ fs' = [fs EXCEPT ![p] = Partial] /\ UNCHANGED script
    \/ ~Whole(p) /\ fs' = [fs EXCEPT ![p] = None] /\ script' = Tail(script)

\* One operation of the code that is running.
ScriptStep ==
    /\ script # <<>>
    /\ LET o == Head(script) IN
       \/ /\ o.op = "move"
          /\ Move(o.from, o.to)
          /\ script' = Tail(script)
          /\ UNCHANGED job
       \/ o.op = "remove" /\ RemoveStep(o.at) /\ UNCHANGED job
       \/ /\ o.op = "record"
          /\ job' = [job EXCEPT ![o.id] = o.record]
          /\ script' = Tail(script)
          /\ UNCHANGED fs
    /\ UNCHANGED <<kind, pending, reviewed, derived, policy, server, exec, cur, todo,
                   owed, done, attempts, troubles>>

\* The removal of an artifact; removing what does not exist is no step.
Removal(j, artifact) ==
    IF Exists(At(j, artifact)) THEN <<RemoveOp(At(j, artifact))>> ELSE <<>>

\* discardCommittedWorkspaceReplacement and recovery's cleanupCommitted.
DiscardCommitted(j) ==
    Removal(j, "committed") \o Removal(j, "marker") \o Removal(j, "failed")
\* discardRolledBackWorkspaceReplacement and recovery's cleanupRolledBack.
DiscardRolledBack(j) ==
    Removal(j, "staging") \o Removal(j, "failed") \o Removal(j, "marker")

Fault == troubles < MaxTroubles /\ troubles' = troubles + 1
NoFault == UNCHANGED troubles

----------------------------------------------------------------------------
(* Jobs up to the swap *)

Patch(j, state) == [job[j] EXCEPT !.state = state]

\* An edit by a user or an agent.
Edit ==
    /\ server = "open" /\ Whole(Root) /\ fs[Root].rev < MaxEdits
    /\ fs' = [fs EXCEPT ![Root].rev = @ + 1]
    /\ UNCHANGED <<job, kind, reviewed, derived, policy, process, done,
                   attempts, troubles>>

\* Slip: the checkpoint is taken of the staging tree, not of the live one.
PrepareStart_StagedCheckpoint(j) ==
    /\ server = "open" /\ cur # j /\ script = <<>>
    /\ \/ kind[j] # "snapshot" /\ job[j].state = "uploaded"
       \/ kind[j] = "import" /\ job[j].state = "failed"
    /\ attempts[j] < MaxAttempts
    /\ attempts' = [attempts EXCEPT ![j] = @ + 1]
    /\ job' = [job EXCEPT ![j].state = "preparing"]
    /\ fs' = [p \in Path |-> IF p[1] # j THEN fs[p]
                             ELSE IF p[2] = "staging" THEN Partial ELSE None]
    /\ reviewed' = [reviewed EXCEPT ![j] = fs'[At(j, "staging")]]
    /\ UNCHANGED <<kind, derived, policy, process, done, troubles>>

\* prepareWorkspaceImportJob and createWorkspaceClearJob begin to fill a
\* staging tree; a clear records the checkpoint of the live tree its user is
\* shown.  A failed import may be prepared again, under new paths: what an
\* earlier attempt left behind under its own paths is named by no record any
\* more.
PrepareStart(j) ==
    /\ server = "open" /\ cur # j /\ script = <<>>
    /\ \/ kind[j] # "snapshot" /\ job[j].state = "uploaded"
       \/ kind[j] = "import" /\ job[j].state = "failed"
    /\ attempts[j] < MaxAttempts
    /\ attempts' = [attempts EXCEPT ![j] = @ + 1]
    /\ job' = [job EXCEPT ![j].state = "preparing"]
    /\ fs' = [p \in Path |-> IF p[1] # j THEN fs[p]
                             ELSE IF p[2] = "staging" THEN Partial ELSE None]
    /\ reviewed' = [reviewed EXCEPT ![j] = fs[Root]]
    /\ UNCHANGED <<kind, derived, policy, process, done, troubles>>

\* The end of runWorkspaceImportPreparation and startPreparation.  After a
\* crash they start over, with the same result.
PrepareDone(j) ==
    /\ server = "open" /\ job[j].state = "preparing"
    /\ fs' = [fs EXCEPT ![At(j, "staging")] = [src |-> j, rev |-> 0]]
    /\ job' = [job EXCEPT ![j].state = "ready", ![j].prepared = TRUE]
    /\ UNCHANGED <<kind, reviewed, derived, policy, process, done, attempts,
                   troubles>>

\* publishImportFailure, and the catch of startPreparation.
PrepareFail(j) ==
    /\ server = "open" /\ job[j].state = "preparing" /\ Fault
    /\ fs' = [fs EXCEPT ![At(j, "staging")] = None]
    /\ job' = [job EXCEPT ![j].state = "failed"]
    /\ UNCHANGED <<kind, reviewed, derived, policy, process, done, attempts>>

\* replaceWorkspaceImportJob and confirmWorkspaceClearJob: the record says
\* replacing before the replacement is scheduled.
Confirm(j) ==
    /\ server = "open" /\ script = <<>>
    /\ job[j].state = "ready" /\ job[j].prepared
    /\ job' = [job EXCEPT ![j].state = "replacing"]
    /\ pending' = pending \cup {j}
    /\ UNCHANGED <<fs, kind, reviewed, derived, policy, server, exec, cur,
                   todo, owed, script, done, attempts, troubles>>

\* restoreLiveWorkspaceSnapshot: with no replacement scheduled, the record
\* names both paths and says replacing before the downloaded tree is moved
\* beside the root.
SnapshotBegin(j) ==
    /\ server = "open" /\ cur = None
    /\ kind[j] = "snapshot" /\ job[j].state = "uploaded"
    /\ job' = [job EXCEPT ![j].state = "replacing", ![j].prepared = TRUE]
    /\ reviewed' = [reviewed EXCEPT ![j] = fs[Root]]
    /\ pending' = pending \cup {j}
    /\ UNCHANGED <<fs, kind, derived, policy, server, exec, cur, todo, owed,
                   script, done, attempts, troubles>>

\* scheduleWorkspaceReplacement: the slot is free, and a snapshot's tree has
\* been staged.
Schedule(j) ==
    /\ j \in pending /\ cur = None
    /\ fs' = IF kind[j] = "snapshot"
             THEN [fs EXCEPT ![At(j, "staging")] = [src |-> j, rev |-> 0]]
             ELSE fs
    /\ pending' = pending \ {j} /\ cur' = j /\ exec' = "drain"
    /\ UNCHANGED <<job, kind, reviewed, derived, policy, server, todo, owed,
                   script, done, attempts, troubles>>

\* Another replacement is in progress, or the snapshot could not be staged:
\* an import or a clear is ready again, a snapshot restore has failed.
Refuse(j) ==
    /\ j \in pending
    /\ IF cur # None THEN NoFault ELSE kind[j] = "snapshot" /\ Fault
    /\ pending' = pending \ {j}
    /\ IF kind[j] = "snapshot"
       THEN /\ job' = [job EXCEPT ![j].state = "failed", ![j].reset = "no"]
            /\ fs' = [fs EXCEPT ![At(j, "staging")] = None]
       ELSE job' = [job EXCEPT ![j].state = "ready"] /\ UNCHANGED fs
    /\ UNCHANGED <<kind, reviewed, derived, policy, server, exec, cur, todo,
                   owed, script, done, attempts>>

\* removeExpiredJob for an import or a clear whose time has passed and whose
\* record still names artifacts.  A record that names none is only deleted.
Expire(j) ==
    /\ server = "open" /\ script = <<>> /\ cur # j /\ kind[j] # "snapshot"
    /\ job[j].state \in {"ready", "complete", "failed"} /\ job[j].prepared
    /\ job[j].reset # "yes" /\ ~job[j].cleanup
    /\ script' = (IF job[j].state = "complete" THEN DiscardCommitted(j)
                  ELSE DiscardRolledBack(j))
                 \o <<RecordOp(j, [Patch(j, "gone") EXCEPT
                                     !.prepared = FALSE])>>
    /\ UNCHANGED <<durable, kind, pending, reviewed, server, exec, cur, todo,
                   owed, done, attempts, troubles>>

----------------------------------------------------------------------------
(* The executor: drain, swap, reset, restart, commit *)

\* What the executor leaves alone in every step.
Steady == UNCHANGED <<kind, reviewed, pending, todo, owed, attempts>>

\* The source of the tree at the root.
LiveSource == IF Whole(Root) THEN fs[Root].src ELSE Partial

\* stopWorkspaceRequestAdmissionAndDrain admits no request any more; the ones
\* under way end.
Drain ==
    /\ exec = "drain" /\ server' = "closed" /\ exec' = "stop"
    /\ UNCHANGED <<durable, cur, script, done, troubles>> /\ Steady

\* server.stop() leaves no active server even when it throws.
Stop ==
    /\ exec = "stop" /\ script = <<>> /\ pending = {}
    /\ \/ NoFault /\ server' = "stopped" /\ exec' = "swapOut"
       \/ Fault /\ server' \in {"closed", "stopped"} /\ exec' = "relaunch"
    /\ UNCHANGED <<durable, cur, script, done>> /\ Steady

\* Slip: the live tree is not compared with the reviewed one.
Admissible_Unreviewed(j) ==
    /\ Whole(At(j, "staging"))
    /\ ~Exists(At(j, "committed")) /\ ~Exists(At(j, "marker"))

\* beginPreparedWorkspaceReplacement checks the staged tree, that no recovery
\* artifact of the job exists, and the live tree: clear and snapshot jobs
\* replace only the very tree that was reviewed, an import takes the
\* checkpoint of the tree it finds.
Admissible(j) ==
    /\ Whole(At(j, "staging"))
    /\ ~Exists(At(j, "committed")) /\ ~Exists(At(j, "marker"))
    /\ kind[j] = "import" \/ fs[Root] = reviewed[j]

\* Its checks and its first rename.
SwapOut ==
    /\ exec = "swapOut"
    /\ \/ /\ Admissible(cur) /\ NoFault
          /\ Move(Root, At(cur, "backup"))
          /\ exec' = "swapIn"
       \/ /\ IF Admissible(cur) THEN Fault ELSE NoFault
          /\ exec' = "relaunch" /\ UNCHANGED fs
    /\ UNCHANGED <<job, derived, policy, server, cur, script, done>>
    /\ Steady

\* Its second rename.
SwapIn ==
    /\ exec = "swapIn"
    /\ \/ NoFault /\ Move(At(cur, "staging"), Root) /\ exec' = "reset"
       \/ Fault /\ exec' = "swapBack" /\ UNCHANGED fs
    /\ UNCHANGED <<job, derived, policy, server, cur, script, done>>
    /\ Steady

\* The catch of the second rename; when it throws too the root is missing.
SwapBack ==
    /\ exec = "swapBack"
    /\ \/ NoFault /\ Move(At(cur, "backup"), Root)
       \/ Fault /\ UNCHANGED fs
    /\ exec' = "relaunch"
    /\ UNCHANGED <<job, derived, policy, server, cur, script, done>>
    /\ Steady

\* retireWorkspaceDerivedFiles and the workspaceReset event.  When a listener
\* throws, what is derived belongs to no tree.
ResetDerived(then, otherwise) ==
    \/ NoFault /\ derived' = LiveSource /\ exec' = then
    \/ Fault /\ derived' = Partial /\ exec' = otherwise

Reset ==
    /\ exec = "reset" /\ ResetDerived("restart", "mark")
    /\ UNCHANGED <<fs, job, policy, server, cur, script, done>> /\ Steady

\* startServer with admission closed.
Restart ==
    /\ exec = "restart"
    /\ \/ NoFault /\ server' = "closed" /\ exec' = "commit"
       \/ Fault /\ exec' = "mark" /\ UNCHANGED server
    /\ UNCHANGED <<durable, cur, script, done>> /\ Steady

\* The durable commit point: one rename.
Commit ==
    /\ exec = "commit"
    /\ \/ /\ NoFault
          /\ Move(At(cur, "backup"), At(cur, "committed"))
          /\ done' = done \cup {cur}
          /\ exec' = "committed"
       \/ Fault /\ exec' = "mark" /\ UNCHANGED <<fs, done>>
    /\ UNCHANGED <<job, derived, policy, server, cur, script>> /\ Steady

----------------------------------------------------------------------------
(* The executor after the commit point *)

\* The process ends; the next one may get the same process id, and only then
\* finds what this one moved to `.interrupted-<pid>`.
ProcessEnds ==
    /\ \E samePid \in BOOLEAN :
         fs' = [p \in Path |->
                  IF p[2] = "interrupted" /\ ~samePid THEN None ELSE fs[p]]
    /\ server' = "down" /\ exec' = "idle" /\ cur' = None
    /\ pending' = {} /\ todo' = {} /\ owed' = {} /\ script' = <<>>

\* onCommitted, before requests reopen: the policies, for a clear also the
\* durable outcome, for a snapshot the note that nothing is left to reset.
\* When it throws the process exits.
OnCommitted ==
    /\ exec = "committed"
    /\ LET outcome ==
             CASE kind[cur] = "import" -> job
               [] kind[cur] = "clear" ->
                    [job EXCEPT ![cur].state = "complete",
                                ![cur].cleanup = TRUE]
               [] OTHER -> [job EXCEPT ![cur].reset = "no"]
       IN \/ /\ NoFault
             /\ policy' = LiveSource /\ job' = outcome
             /\ server' = "open" /\ exec' = "succeed"
             /\ UNCHANGED <<fs, cur, pending, todo, owed, script>>
          \/ /\ Fault /\ ProcessEnds
             /\ \/ UNCHANGED <<policy, job>>
                \/ policy' = LiveSource /\ job' \in {job, outcome}
    /\ UNCHANGED <<kind, reviewed, derived, done, attempts>>

\* finalizeWorkspaceClearJob.
FinalizeClear(j) ==
    DiscardCommitted(j) \o
    <<RecordOp(j, [job[j] EXCEPT !.prepared = FALSE, !.cleanup = FALSE])>>

\* Slip: the slot is kept when the callback throws.
OnSucceeded_Held ==
    /\ exec = "succeed" /\ script = <<>>
    /\ \/ /\ NoFault
          /\ script' =
               CASE kind[cur] = "clear" -> FinalizeClear(cur)
                 [] kind[cur] = "snapshot" ->
                      <<RecordOp(cur, Patch(cur, "complete"))>>
                      \o DiscardCommitted(cur)
                 [] OTHER ->
                      <<RecordOp(cur, Patch(cur, "complete"))>>
                      \o DiscardCommitted(cur)
                      \o <<RecordOp(cur, [Patch(cur, "complete") EXCEPT
                                            !.prepared = FALSE])>>
       \/ Fault /\ UNCHANGED script
    /\ exec' = IF troubles' = troubles THEN "release" ELSE "idle"
    /\ UNCHANGED <<durable, server, cur, done>> /\ Steady

\* onSucceeded; when its first write throws, the record goes on saying
\* replacing until the next boot.
OnSucceeded ==
    /\ exec = "succeed" /\ script = <<>>
    /\ \/ /\ NoFault
          /\ script' =
               CASE kind[cur] = "clear" -> FinalizeClear(cur)
                 [] kind[cur] = "snapshot" ->
                      <<RecordOp(cur, Patch(cur, "complete"))>>
                      \o DiscardCommitted(cur)
                 [] OTHER ->
                      <<RecordOp(cur, Patch(cur, "complete"))>>
                      \o DiscardCommitted(cur)
                      \o <<RecordOp(cur, [Patch(cur, "complete") EXCEPT
                                            !.prepared = FALSE])>>
       \/ Fault /\ UNCHANGED script
    /\ exec' = "release"
    /\ UNCHANGED <<durable, server, cur, done>> /\ Steady

\* release() of workspace-replacement-coordinator.ts, once the callback ends.
Release ==
    /\ exec = "release" /\ script = <<>>
    /\ server' = "open" /\ exec' = "idle" /\ cur' = None
    /\ UNCHANGED <<durable, script, done, troubles>> /\ Steady

\* Transfer maintenance finishes a clear whose clean-up was interrupted.
MaintainClear(j) ==
    /\ server = "open" /\ script = <<>> /\ cur # j
    /\ kind[j] = "clear" /\ job[j].state = "complete" /\ job[j].prepared
    /\ script' = FinalizeClear(j)
    /\ UNCHANGED <<durable, server, exec, cur, done, troubles>> /\ Steady

----------------------------------------------------------------------------
(* The executor's rollback *)

\* rollback() stops the server that runs on the new tree and writes the
\* marker; when anything from here on throws, recovery is incomplete.
MarkRollback ==
    /\ exec = "mark" /\ server' = "stopped"
    /\ \/ /\ NoFault
          /\ fs' = [fs EXCEPT ![At(cur, "marker")] = Mark]
          /\ exec' = "unseat"
       \/ Fault /\ exec' = "incomplete" /\ UNCHANGED fs
    /\ UNCHANGED <<job, derived, policy, cur, script, done>> /\ Steady

\* The new tree leaves the root by a rename or, when that throws, file by
\* file.
Unseat ==
    /\ exec = "unseat" /\ exec' = "restore"
    /\ \/ NoFault /\ Move(Root, At(cur, "failed")) /\ UNCHANGED script
       \/ Fault /\ script' = <<RemoveOp(Root)>> /\ UNCHANGED fs
    /\ UNCHANGED <<job, derived, policy, server, cur, done>> /\ Steady

Restore ==
    /\ exec = "restore" /\ script = <<>>
    /\ \/ /\ NoFault
          /\ Move(At(cur, "backup"), Root)
          /\ script' = <<RemoveOp(At(cur, "failed"))>>
          /\ exec' = "resetBack"
       \/ Fault /\ exec' = "incomplete" /\ UNCHANGED <<fs, script>>
    /\ UNCHANGED <<job, derived, policy, server, cur, done>> /\ Steady

ResetBack ==
    /\ exec = "resetBack" /\ script = <<>>
    /\ ResetDerived("relaunch", "incomplete")
    /\ UNCHANGED <<fs, job, policy, server, cur, script, done>> /\ Steady

\* With no active server: recoverWorkspaceRootBeforeReplacementRestart runs
\* the journal recovery when the root is missing, then the server restarts.
Relaunch ==
    /\ exec = "relaunch"
    /\ \/ /\ server = "closed" /\ NoFault
          /\ exec' = "report" /\ UNCHANGED <<server, todo>>
       \/ /\ server = "stopped" /\ ~Exists(Root) /\ NoFault
          /\ exec' = "recover" /\ todo' = Job /\ UNCHANGED server
       \/ /\ server = "stopped" /\ Exists(Root)
          /\ \/ NoFault /\ server' = "closed" /\ exec' = "report"
             \/ Fault /\ exec' = "incomplete" /\ UNCHANGED server
          /\ UNCHANGED todo
    /\ UNCHANGED <<durable, kind, pending, reviewed, cur, owed, script, done, attempts>>

\* onFailed.  An import the recovery has already settled is left alone; a
\* snapshot keeps its paths.
FailureScript(j) ==
    LET failed == IF kind[j] = "snapshot"
                  THEN [Patch(j, "failed") EXCEPT !.reset = "no"]
                  ELSE Patch(j, "failed")
    IN IF kind[j] = "import" /\ job[j].state = "failed" /\ ~job[j].prepared
       THEN <<>>
       ELSE <<RecordOp(j, failed)>> \o DiscardRolledBack(j) \o
            (IF kind[j] = "snapshot" THEN <<>>
             ELSE <<RecordOp(j, [failed EXCEPT !.prepared = FALSE])>>)

OnFailed ==
    /\ exec = "report"
    /\ \/ NoFault /\ script' = FailureScript(cur)
       \/ Fault /\ UNCHANGED script
    /\ exec' = "release"
    /\ UNCHANGED <<durable, server, cur, done>> /\ Steady

\* Slip: an incomplete recovery is recorded as a failed job.
Terminate_Settled ==
    /\ exec = "incomplete" /\ ProcessEnds
    /\ job' = IF kind[cur] = "import"
              THEN [job EXCEPT ![cur].state = "failed"] ELSE job
    /\ UNCHANGED <<kind, reviewed, derived, policy, done, attempts, troubles>>

\* onFailed with recoveryIncomplete, then the process exits: an import's
\* record says replacing again, whatever it said.
Terminate ==
    /\ exec = "incomplete" /\ ProcessEnds
    /\ job' = IF kind[cur] = "import"
              THEN [job EXCEPT ![cur].state = "replacing"] ELSE job
    /\ UNCHANGED <<kind, reviewed, derived, policy, done, attempts, troubles>>

----------------------------------------------------------------------------
(* Recovery, at boot or before a restart *)

\* Slip: a record without the flag is taken to need no reset.
ResetRequired_Known(j) == job[j].reset = "yes"

\* replacementResetRequired.
ResetRequired(j) == job[j].reset # "no"

\* finishRecovery: the outcome is durable before its artifacts go, and a
\* cleared workspace keeps them until its finalization.
FinishRecovery(j, state, reset, cleanup) ==
    LET settled == [job[j] EXCEPT !.state = state,
                                  !.reset = IF reset THEN "yes" ELSE "no"]
    IN IF kind[j] = "clear" /\ state = "complete"
       THEN <<RecordOp(j, settled),
              RecordOp(j, [settled EXCEPT !.cleanup = TRUE])>>
       ELSE <<RecordOp(j, settled)>> \o cleanup \o
            <<RecordOp(j, [settled EXCEPT !.prepared = FALSE])>>

\* Slip: what is at the root is kept, and the backup treated as debris.
Reinstate_KeepLive(j) ==
    IF Exists(Root) THEN <<RemoveOp(At(j, "backup"))>>
    ELSE <<MoveOp(At(j, "backup"), Root)>>

\* Recovery puts the backup back at the root, moving aside what is there.
Reinstate(j) ==
    Removal(j, "interrupted") \o
    (IF Exists(Root) THEN <<MoveOp(Root, At(j, "interrupted"))>> ELSE <<>>)
    \o <<MoveOp(At(j, "backup"), Root)>>

\* Slip: a replacement that left only an active workspace is taken to have
\* succeeded.
AmbiguousOutcome_Claimed == "complete"

\* Only the active workspace is left: success is never claimed without its
\* durable commit artifact.
AmbiguousOutcome == "failed"

\* What recoverInterruptedWorkspaceReplacements does with one record, and
\* whether it asks for a reset.
Recovery(j) ==
    LET settle(state, before, reset) ==
            [ops |-> before \o FinishRecovery(j, state, reset,
                                              DiscardRolledBack(j)),
             reset |-> reset]
        failed(before, reset) == settle("failed", before, reset)
        complete == [ops |-> FinishRecovery(j, "complete", ResetRequired(j),
                                            DiscardCommitted(j)),
                     reset |-> ResetRequired(j)]
        required == ResetRequired(j)
        dropInterrupted == <<RemoveOp(At(j, "interrupted"))>>
        untouched == [ops |-> <<>>, reset |-> job[j].reset = "yes"]
    IN IF ~job[j].prepared THEN untouched
       ELSE IF job[j].state = "complete" THEN complete
       ELSE IF job[j].state = "failed" THEN failed(<<>>, required)
       ELSE IF Exists(At(j, "marker")) THEN
            failed((IF Exists(At(j, "backup")) THEN Reinstate(j)
                    ELSE <<>>) \o dropInterrupted, required)
       ELSE IF Exists(At(j, "committed")) THEN
            IF Exists(Root) THEN complete
            ELSE failed(<<MoveOp(At(j, "committed"), Root)>>, required)
       ELSE IF Exists(At(j, "backup")) THEN
            failed(Reinstate(j) \o Removal(j, "staging")
                   \o dropInterrupted, required)
       ELSE IF Exists(At(j, "staging")) THEN
            failed(Removal(j, "staging"), FALSE)
       ELSE IF Exists(Root) THEN settle(AmbiguousOutcome, <<>>, required)
       ELSE [ops |-> <<>>, reset |-> FALSE]

\* Slip: the server opens without waiting for the recovery.
Boot_Eager ==
    /\ server = "down"
    /\ server' = "open" /\ exec' = "idle" /\ UNCHANGED todo
    /\ UNCHANGED <<durable, kind, pending, reviewed, cur, owed, script, done, attempts,
                   troubles>>

Boot ==
    /\ server = "down"
    /\ server' = "booting" /\ exec' = "recover" /\ todo' = Job
    /\ UNCHANGED <<durable, kind, pending, reviewed, cur, owed, script, done, attempts,
                   troubles>>

\* The records are visited in the order the directory lists them.
Recover(j) ==
    /\ exec = "recover" /\ script = <<>> /\ j \in todo
    /\ todo' = todo \ {j}
    /\ \/ /\ job[j].state \in {"replacing", "complete", "failed"}
          /\ script' = Recovery(j).ops
          /\ owed' = IF server = "booting" /\ Recovery(j).reset
                     THEN owed \cup {j} ELSE owed
       \/ /\ job[j].state \notin {"replacing", "complete", "failed"}
          /\ UNCHANGED <<script, owed>>
    /\ UNCHANGED <<durable, kind, pending, reviewed, server, exec, cur, done, attempts,
                   troubles>>

\* Adopting a missing root makes an empty workspace of it.
Adopted == IF Exists(Root) THEN fs ELSE [fs EXCEPT ![Root] = Partial]

Recovered ==
    /\ exec = "recover" /\ script = <<>> /\ todo = {}
    /\ \/ /\ server = "stopped"
          /\ exec' = IF Exists(Root) THEN "relaunch" ELSE "incomplete"
          /\ UNCHANGED <<fs, server, todo>>
       \/ /\ server = "booting" /\ owed = {}
          /\ fs' = Adopted /\ server' = "open" /\ exec' = "idle"
          /\ UNCHANGED todo
       \/ /\ server = "booting" /\ owed # {}
          /\ fs' = Adopted /\ exec' = "bootReset" /\ todo' = owed
          /\ UNCHANGED server
    /\ UNCHANGED <<job, kind, pending, reviewed, derived, policy, cur, owed, script,
                   done, attempts, troubles>>

\* A boot step that throws leaves a server that refuses the workspace.
Reject ==
    /\ server' = "rejected" /\ exec' = "idle"
    /\ todo' = {} /\ owed' = {} /\ script' = <<>>

BootReset ==
    /\ exec = "bootReset"
    /\ \/ /\ NoFault /\ derived' = LiveSource /\ exec' = "bootFinalize"
          /\ UNCHANGED <<server, todo, owed, script>>
       \/ Fault /\ derived' = Partial /\ Reject
    /\ UNCHANGED <<fs, job, kind, pending, reviewed, policy, cur, done, attempts>>

\* What a committed replacement still needs before requests are served.
BootFinalize(j) ==
    /\ exec = "bootFinalize" /\ script = <<>> /\ j \in todo
    /\ \/ /\ NoFault /\ todo' = todo \ {j}
          /\ policy' = IF job[j].state = "complete" THEN LiveSource
                       ELSE policy
          /\ script' = IF kind[j] = "clear" /\ job[j].state = "complete"
                          /\ job[j].prepared
                       THEN FinalizeClear(j) ELSE <<>>
          /\ UNCHANGED <<server, exec, owed>>
       \/ Fault /\ Reject /\ UNCHANGED policy
    /\ UNCHANGED <<fs, job, kind, pending, reviewed, derived, cur, done, attempts>>

\* acknowledgeWorkspaceReplacementResets, then the first request is served.
BootAcknowledge ==
    /\ exec = "bootFinalize" /\ script = <<>> /\ todo = {}
    /\ \/ /\ NoFault /\ owed # {}
          /\ \E j \in owed : /\ job' = [job EXCEPT ![j].reset = "no"]
                             /\ owed' = owed \ {j}
          /\ UNCHANGED <<server, exec, script, todo>>
       \/ /\ NoFault /\ owed = {} /\ server' = "open" /\ exec' = "idle"
          /\ UNCHANGED <<job, owed, script, todo>>
       \/ owed # {} /\ Fault /\ Reject /\ UNCHANGED job
    /\ UNCHANGED <<fs, kind, pending, reviewed, derived, policy, cur, done, attempts>>

----------------------------------------------------------------------------
(* Failures, and the whole *)

\* An operation of a script throws: in a boot the workspace is pending, in a
\* rollback recovery is incomplete, elsewhere the rest is left undone.
ScriptThrows ==
    /\ script # <<>> /\ Fault
    /\ \/ server = "booting" /\ Reject
       \/ /\ server = "stopped" /\ exec' = "incomplete"
          /\ script' = <<>> /\ todo' = {}
          /\ UNCHANGED <<server, owed>>
       \/ /\ server \in {"open", "closed"} /\ script' = <<>>
          /\ UNCHANGED <<server, exec, todo, owed>>
    /\ UNCHANGED <<durable, kind, pending, reviewed, cur, done, attempts>>

Crash ==
    /\ server # "down" /\ Fault
    /\ ProcessEnds
    /\ UNCHANGED <<job, kind, reviewed, derived, policy, done, attempts>>

\* The steps a running process takes by itself.
Advance ==
    \/ Drain \/ Stop \/ SwapOut \/ SwapIn \/ SwapBack \/ Reset
    \/ Restart \/ Commit \/ OnCommitted \/ OnSucceeded \/ Release
    \/ MarkRollback \/ Unseat \/ Restore \/ ResetBack \/ Relaunch \/ OnFailed
    \/ Terminate \/ Boot \/ Recovered \/ BootReset \/ BootAcknowledge
    \/ \E j \in Job : Recover(j) \/ BootFinalize(j)

Request ==
    \/ Edit
    \/ \E j \in Job : \/ PrepareStart(j) \/ PrepareDone(j) \/ PrepareFail(j)
                      \/ Confirm(j) \/ SnapshotBegin(j)
                      \/ Schedule(j) \/ Refuse(j) \/ Expire(j) \/ MaintainClear(j)

Next == Advance \/ ScriptStep \/ Request \/ ScriptThrows \/ Crash

Spec == Init /\ [][Next]_vars

FairSpec ==
    /\ Spec /\ WF_vars(Advance) /\ WF_vars(ScriptStep)
    /\ \A j \in Job : WF_vars(Schedule(j) \/ Refuse(j))

----------------------------------------------------------------------------
(* Properties *)

\* Type correctness of every variable.
TypeOK ==
    /\ fs \in [Path -> Tree \cup {None, Partial, Mark}]
    /\ job \in [Job -> Record]
    /\ kind \in KindChoices
    /\ reviewed \in [Job -> Tree \cup {None}]
    /\ derived \in Job \cup {Own, Partial} /\ policy \in Job \cup {Own}
    /\ server \in {"down", "booting", "open", "closed", "stopped", "rejected"}
    /\ cur \in Job \cup {None} /\ pending \subseteq Job
    /\ todo \subseteq Job /\ owed \subseteq Job
    /\ done \subseteq Job /\ attempts \in [Job -> 0..MaxAttempts]
    /\ troubles \in 0..MaxTroubles

\* The tree the workspace consists of: a backup that was not committed is
\* still the workspace, wherever the swap, the rollback or a recovery stands.
Backups == {j \in Job : Exists(At(j, "backup"))}
Content == IF Backups = {} THEN fs[Root]
           ELSE fs[At(CHOOSE j \in Backups : TRUE, "backup")]

\* Replacement is atomic: through crashes, throwing renames, rollbacks,
\* half-deleted trees and repeated recoveries the content of the workspace
\* changes only by an edit or, whole, at commit()'s rename
\* (beginPreparedWorkspaceReplacement, recoverInterruptedWorkspaceReplacements).
Abstract == INSTANCE AtomicReplacement WITH content <- Content,
                                            replaced <- done
ReplacementIsAtomic == Abstract!Spec

\* Requests are served only on a whole tree at the root, with no backup of an
\* undecided replacement beside it.
ServesSettledTree == server = "open" => Whole(Root) /\ Backups = {}

\* A backup that is still the workspace is always named by a record that the
\* next recovery acts on: state replacing, with its paths.
BackupIsNamed ==
    \A j \in Backups : job[j].state = "replacing" /\ job[j].prepared

\* A job is reported complete only past its commit point, the rename that
\* commit() or a recovery can rely on: never for a swap that was rolled back.
CompleteWasCommitted ==
    \A j \in Job : job[j].state = "complete" => j \in done

\* A clear or a snapshot restore replaces exactly the tree that was reviewed
\* or backed up: an edit accepted in between stops it
\* (expectedDestinationContentCheckpoint, validateBeforeSwap).
ReplacesWhatWasReviewed ==
    \A j \in Job : Whole(At(j, "committed")) /\ kind[j] # "import"
                      => fs[At(j, "committed")] = reviewed[j]

\* Derived files, private stores and team policies describe the tree at the
\* root whenever requests are served.
Refreshed == derived = LiveSource /\ policy = LiveSource
ServesRefreshedState == server = "open" => Refreshed

\* The same for jobs that were prepared once.
FirstAttemptsRefresh ==
    server = "open" /\ (\A j \in Job : attempts[j] <= 1) => Refreshed

\* However often the process dies or a step throws, a server that does not
\* serve, or holds the replacement slot, ends by serving with the slot free
\* or by refusing the workspace at boot.
ServesAgain ==
    (server # "open" \/ cur # None)
        ~> ((server = "open" /\ cur = None) \/ server = "rejected")
=============================================================================
