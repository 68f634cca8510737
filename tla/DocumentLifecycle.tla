------------------------- MODULE DocumentLifecycle --------------------------
(***************************************************************************)
(* packages/server/src/document-lifecycle-journal.ts: moving a document,   *)
(* or a folder of documents, with everything kept under its path.          *)
(*                                                                         *)
(* A move is a plan of items (history, source, annotation file, metadata   *)
(* edits) that change place one disk write at a time.  A journal published *)
(* before the first write and settled after the last lets an in-process    *)
(* error handler, or the next start of the server, finish the move or take *)
(* it back.  The server may die between any two disk writes, any call may  *)
(* throw, and other programs edit the same files.                          *)
(*                                                                         *)
(* Endpoint n is the path the documents have after n committed moves.  An  *)
(* item takes Length(i) disk writes from one endpoint to the next, so its  *)
(* state is one number: n * Length(i) at endpoint n, and the states        *)
(* recovery tells apart ("linked", "parked", "intermediate") in between.   *)
(***************************************************************************)
EXTENDS Integers, Sequences

CONSTANTS Plans,    \* the kinds of move: what is moved, and how
          None

Kinds == {"history", "source", "bundle", "annotation", "hidden", "edit"}

ASSUME PlansAssumption ==
    Plans \subseteq [items : Seq([kind : Kinds, doc : Nat]), exact : BOOLEAN,
                     stride : Nat \ {0}, moves : Nat]

\* runtimePlan, applyPortableRuntime: a folder's documents in order, each
\* with its files together, then the hidden items and the metadata edits,
\* which belong to no document; an exact rename counts no documents.
DocumentsFirst(items, d) ==
    /\ \A i \in 1 .. d : items[i].doc > 0 /\ items[i].kind \notin {"hidden", "edit"}
    /\ \A i \in d + 1 .. Len(items) : items[i].doc = 0
    /\ \A i, k \in 1 .. d : i <= k => items[i].doc <= items[k].doc
    /\ d > 0 => items[1].doc = 1
    /\ \A i \in 2 .. d : items[i].doc <= items[i - 1].doc + 1

ASSUME PlanOrder ==
    \A p \in Plans :
        /\ Len(p.items) > 0
        /\ \E d \in 0 .. Len(p.items) :
               DocumentsFirst(p.items, d) /\ (p.exact => d = 0)

ASSUME NoneAssumption ==
    /\ None \notin Nat
    /\ None \notin [op : Nat, from : Nat, phase : {"applying", "committed"},
                    cursor : Nat, completed : SUBSET Nat]

VARIABLE plan   \* the kind of move this behaviour is about

Plan == plan.items       \* the items in the order they move
Exact == plan.exact      \* an exact rename, rather than a folder's (prefix)
Stride == plan.stride    \* progressStride: documents between saved cursors
MaxMoves == plan.moves   \* bound on the moves begun

Item == 1 .. Len(Plan)
Kind(i) == Plan[i].kind
Doc(i) == Plan[i].doc      \* 0 for hidden items and edits

\* Disk writes from one endpoint to the next: a history file is linked and
\* then unlinked, an annotation file renamed and then rewritten, a bundle
\* parked, renamed and rewritten; the rest is one rename or one write.
Length(i) ==
    CASE Kind(i) \in {"history", "annotation"} -> 2
      [] Kind(i) = "bundle" -> 3
      [] OTHER -> 1

\* journal.documents.length
Documents == CHOOSE n \in {0} \cup {Doc(i) : i \in Item} :
                 \A i \in Item : Doc(i) <= n

Journal ==
    [op : 1 .. MaxMoves, from : Nat, phase : {"applying", "committed"},
     cursor : 0 .. Documents, completed : SUBSET Item]

VARIABLES
    at,       \* where each item is
    touched,  \* what another program did since the plan was captured:
              \* "edited" in place, or a "stray" file at the other endpoint
    active,   \* the journal in active/, or None
    marker,   \* the settled journal awaiting reconciliation, or None
    moves,    \* moves begun
    shared,   \* whether a share link reaches either endpoint
    collab,   \* endpoint whose path has saved collaboration state, or None
    pc, mem,  \* the running operation: its step, and its copy of the journal
    next,     \* the item it works on
    mode,     \* "run", "recover" (its error handler) or "boot" (startup)
    moved,    \* collaborationStateApplied
    fenced    \* requireWorkspaceRecovery

disk == <<at, active, marker>>
run == <<pc, mem, next, mode, moved, fenced>>
vars == <<plan, at, touched, active, marker, moves, shared, collab, run>>

Steps == {"idle", "prepared", "revoke", "apply", "save", "verify", "commit",
          "collab", "settle", "error", "redo", "undo", "reconcile", "down"}

TypeOK ==
    /\ plan \in Plans
    /\ at \in [Item -> Nat]
    /\ touched \in [Item -> {"clean", "edited", "stray"}]
    /\ active \in Journal \cup {None}
    /\ marker \in Journal \cup {None}
    /\ moves \in 0 .. MaxMoves
    /\ shared \in BOOLEAN
    /\ collab \in Nat \cup {None}
    /\ pc \in Steps
    /\ mem \in Journal \cup {None}
    /\ next \in 0 .. Len(Plan) + 1
    /\ mode \in {"run", "recover", "boot"}
    /\ {moved, fenced} \subseteq BOOLEAN

Init ==
    /\ plan \in Plans
    /\ at = [i \in Item |-> 0]
    /\ touched = [i \in Item |-> "clean"]
    /\ active = None /\ marker = None
    /\ moves = 0
    /\ shared = FALSE /\ collab = None
    /\ pc = "idle" /\ mem = None /\ next = 0
    /\ mode = "run" /\ moved = FALSE /\ fenced = FALSE

Before(j, i) == j.from * Length(i)
After(j, i) == (j.from + 1) * Length(i)
Goal(j, i) == IF j.phase = "committed" THEN After(j, i) ELSE Before(j, i)

-----------------------------------------------------------------------------
(* What classifyFile, classifySource and verifyPortableState conclude *)

\* A source is identified by its endpoint, not its content; but at the new
\* endpoint an exact rename trusts a changed file only once the journal says
\* that the source was moved.
Ambiguous(j, i) ==
    \/ touched[i] = "stray"
    \/ touched[i] = "edited" /\ Kind(i) = "edit"
    \/ /\ touched[i] = "edited" /\ Kind(i) = "source"
       /\ Exact /\ at[i] = After(j, i) /\ i \notin j.completed

\* Hidden items are settled by where they are and are never verified.
AtCheckpoint(j) ==
    \A i \in Item : Kind(i) # "hidden" =>
        at[i] = Goal(j, i) /\ ~Ambiguous(j, i)

verifyCapturedBefore(j) ==
    AtCheckpoint(j) /\ \A i \in Item : touched[i] = "clean"

\* verifyPrefixEndpointOwnership, sourceAtCheckpoint: reconciliation checks
\* the sources once more.
OwnsEndpoint(j) ==
    \A i \in Item : Kind(i) \in {"source", "bundle"} =>
        at[i] = Goal(j, i) /\ ~Ambiguous(j, i)

-----------------------------------------------------------------------------
(* executePrepared *)

Goto(step) == pc' = step
KeepRun == UNCHANGED <<mem, next, mode, moved, fenced>>

\* prepareExactRename, prepareExactPrefixMove: the plan captures the files
\* as they are, wherever they are.
Prepare ==
    /\ pc = "idle" /\ ~fenced /\ moves < MaxMoves
    /\ moves' = moves + 1
    /\ touched' = [i \in Item |-> "clean"]
    /\ mem' = [op |-> moves', from |-> at[1] \div Length(1),
               phase |-> "applying", cursor |-> 0, completed |-> {}]
    /\ next' = 1 /\ mode' = "run" /\ moved' = FALSE
    /\ Goto("prepared")
    /\ UNCHANGED <<plan, disk, shared, collab, fenced>>

\* createJournal
Publish ==
    /\ pc = "prepared"
    /\ IF marker = None /\ active = None /\ verifyCapturedBefore(mem)
       THEN active' = mem /\ Goto("revoke")
       ELSE UNCHANGED active /\ Goto("error")
    /\ UNCHANGED <<plan, at, touched, marker, moves, shared, collab>>
    /\ KeepRun

\* Slip: shares are revoked with the commit.
RevokeShares_Later ==
    /\ pc = "revoke"
    /\ active' = mem
    /\ Goto("apply")
    /\ UNCHANGED <<plan, at, touched, marker, moves, shared, collab>>
    /\ KeepRun

\* invalidateShares, then markCompleted("share-revoked")
RevokeShares ==
    /\ pc = "revoke"
    /\ shared' = FALSE
    /\ active' = mem
    /\ Goto("apply")
    /\ UNCHANGED <<plan, at, touched, marker, moves, collab>>
    /\ KeepRun

\* One disk write of applyPortableRuntime.
Apply ==
    /\ pc = "apply" /\ next \in Item
    /\ IF at[next] = After(mem, next) THEN Goto("save") /\ UNCHANGED at
       ELSE IF Ambiguous(mem, next) THEN Goto("error") /\ UNCHANGED at
       ELSE at' = [at EXCEPT ![next] = @ + 1] /\ UNCHANGED pc
    /\ UNCHANGED <<plan, touched, active, marker, moves, shared, collab>>
    /\ KeepRun

LastOfDocument(i) == Doc(i) # 0 /\ (i = Len(Plan) \/ Doc(i + 1) # Doc(i))

\* Whether the journal is written once item i has moved: after every step of
\* an exact rename; in a folder at every stride and after the last document,
\* when "source" completes, and after every edit.
Saves(i, cursor) ==
    \/ Exact \/ Kind(i) = "edit"
    \/ /\ LastOfDocument(i)
       /\ cursor % Stride = 0 \/ cursor = Documents
    \/ i < Len(Plan) /\ Kind(i + 1) = "edit"

\* Slip: the cursor counts files rather than documents.
Save_CountsFiles ==
    /\ pc = "save"
    /\ mem' = [mem EXCEPT !.cursor = @ + 1, !.completed = @ \cup {next}]
    /\ active' = IF Saves(next, mem'.cursor) THEN mem' ELSE active
    /\ next' = next + 1
    /\ Goto(IF next = Len(Plan) THEN "verify" ELSE "apply")
    /\ UNCHANGED <<plan, at, touched, marker, moves, shared, collab,
                   mode, moved, fenced>>

\* markCompleted, checkpointPrefixCursor
Save ==
    /\ pc = "save"
    /\ LET cursor == IF LastOfDocument(next) THEN Doc(next) ELSE mem.cursor
           j == [mem EXCEPT !.cursor = cursor,
                            !.completed = @ \cup {next}]
       IN  /\ mem' = j
           /\ active' = IF Saves(next, cursor) THEN j ELSE active
    /\ next' = next + 1
    /\ Goto(IF next = Len(Plan) THEN "verify" ELSE "apply")
    /\ UNCHANGED <<plan, at, touched, marker, moves, shared, collab,
                   mode, moved, fenced>>

\* verifyPortableState(journal, "after"), verifyCommittedCatalog
Verify ==
    /\ pc = "verify"
    /\ Goto(IF AtCheckpoint([mem EXCEPT !.phase = "committed"])
            THEN "commit" ELSE "error")
    /\ UNCHANGED <<plan, disk, touched, moves, shared, collab>>
    /\ KeepRun

Commit ==
    /\ pc = "commit"
    /\ mem' = [mem EXCEPT !.phase = "committed"]
    /\ active' = mem'
    /\ Goto("collab")
    /\ UNCHANGED <<plan, at, touched, marker, moves, shared, collab,
                   next, mode, moved, fenced>>

\* yjsManager.renameState, renameStatesBatch
MoveCollaboration ==
    /\ pc = "collab"
    /\ collab' = IF collab = mem.from THEN mem.from + 1 ELSE collab
    /\ moved' = TRUE
    /\ Goto("settle")
    /\ UNCHANGED <<plan, disk, touched, moves, shared, mem, next, mode,
                   fenced>>

\* Startup recovery that throws leaves the server down; the error handler
\* fences the workspace until a restart.
GiveUp ==
    /\ Goto(IF mode = "boot" THEN "down" ELSE "reconcile")
    /\ fenced' = (mode # "boot")
    /\ UNCHANGED <<mem, next, mode, moved>>

\* settleJournalForReconciliation: one rename of the journal's directory.
Settle ==
    /\ pc = "settle"
    /\ active' = None /\ marker' = active
    /\ Goto("reconcile")
    /\ UNCHANGED <<plan, at, touched, moves, shared, collab>>
    /\ KeepRun

\* A call throws: in the operation, in its error handler, at startup.
Throw ==
    /\ \/ /\ mode = "run"
          /\ pc \in {"prepared", "revoke", "apply", "save", "verify",
                     "commit", "collab", "settle"}
          /\ Goto("error") /\ KeepRun
       \/ /\ \/ pc = "error"
             \/ mode # "run" /\ pc \in {"redo", "undo", "settle"}
          /\ GiveUp
    /\ UNCHANGED <<plan, disk, touched, moves, shared, collab>>

-----------------------------------------------------------------------------
(* applyPortableRecovery *)

\* Slip: whatever was interrupted is taken back.
Recover_IgnoresPhase(m) ==
    /\ mode' = m
    /\ mem' = [active EXCEPT !.phase = "applying"]
    /\ Goto("undo") /\ next' = Len(Plan)

\* Reads what is in active/, whatever the operation had in memory.
Recover(m) ==
    /\ mode' = m
    /\ mem' = active
    /\ IF active.phase = "committed" THEN Goto("redo") /\ next' = 1
       ELSE Goto("undo") /\ next' = Len(Plan)

\* executePrepared's catch
HandleError ==
    /\ pc = "error"
    /\ IF active = None THEN Goto("reconcile") /\ KeepRun
       ELSE IF active.op # mem.op THEN GiveUp
       ELSE Recover("recover") /\ UNCHANGED <<moved, fenced>>
    /\ UNCHANGED <<plan, disk, touched, moves, shared, collab>>

\* Forward: a folder's documents are not moved again, the commit requires
\* that its cursor covers all of them.
Redoes(i) == Exact \/ Kind(i) = "edit"

Redo ==
    /\ pc = "redo" /\ next \in Item
    /\ IF \/ Redoes(next) /\ Ambiguous(mem, next)
          \/ ~Exact /\ mem.cursor # Documents
       THEN GiveUp /\ UNCHANGED at
       ELSE IF Redoes(next) /\ at[next] < After(mem, next)
       THEN /\ at' = [at EXCEPT ![next] = @ + 1]
            /\ UNCHANGED run
       ELSE /\ next' = next + 1
            /\ UNCHANGED <<at, pc, mem, mode, moved, fenced>>
    /\ UNCHANGED <<plan, touched, active, marker, moves, shared, collab>>

\* Slip: only the operation itself moves collaboration state.
FinishRedo_KeepsState ==
    /\ pc = "redo" /\ next = Len(Plan) + 1
    /\ IF AtCheckpoint(mem) THEN Goto("settle") /\ KeepRun ELSE GiveUp
    /\ UNCHANGED <<plan, disk, touched, moves, shared, collab>>

\* clearRecoveredCollaborationState, or in a folder's error handler
\* renameStatesBatch.
FinishRedo ==
    /\ pc = "redo" /\ next = Len(Plan) + 1
    /\ IF AtCheckpoint(mem)
       THEN /\ collab' = IF moved THEN collab
                         ELSE IF mode = "boot" \/ Exact THEN None
                         ELSE IF collab = mem.from THEN mem.from + 1
                         ELSE collab
            /\ moved' = TRUE
            /\ Goto("settle")
            /\ UNCHANGED <<mem, next, mode, fenced>>
       ELSE GiveUp /\ UNCHANGED collab
    /\ UNCHANGED <<plan, disk, touched, moves, shared>>

\* Slip: compensation starts at the saved cursor.
prefixCompensationEnd_AtCursor(j) == j.cursor

prefixCompensationEnd(j) ==
    IF j.cursor + Stride < Documents THEN j.cursor + Stride ELSE Documents

\* Slip: hidden items are not carried back.
Undoes_NotHidden(i) ==
    Kind(i) # "hidden" /\ (Exact \/ Doc(i) <= prefixCompensationEnd(mem))

\* Backwards: everything, but no folder document that cannot have moved.
Undoes(i) == Exact \/ Doc(i) <= prefixCompensationEnd(mem)

Undo ==
    /\ pc = "undo" /\ next \in Item
    /\ IF Undoes(next) /\ Ambiguous(mem, next)
       THEN GiveUp /\ UNCHANGED at
       ELSE IF Undoes(next) /\ at[next] > Before(mem, next)
       THEN /\ at' = [at EXCEPT ![next] = @ - 1]
            /\ UNCHANGED run
       ELSE /\ next' = next - 1
            /\ UNCHANGED <<at, pc, mem, mode, moved, fenced>>
    /\ UNCHANGED <<plan, touched, active, marker, moves, shared, collab>>

FinishUndo ==
    /\ pc = "undo" /\ next = 0
    /\ IF AtCheckpoint(mem) THEN Goto("settle") /\ KeepRun ELSE GiveUp
    /\ UNCHANGED <<plan, disk, touched, moves, shared, collab>>

\* reconcileDocumentMove, or startup's reconciliation: the content is
\* recorded, the sources are checked once more and the marker removed.
Reconcile ==
    /\ pc = "reconcile"
    /\ Goto("idle")
    /\ \/ /\ marker # None => OwnsEndpoint(marker)
          /\ marker' = None
          /\ UNCHANGED fenced
       \/ /\ marker # None      \* it may also throw
          /\ fenced' = TRUE
          /\ UNCHANGED marker
    /\ UNCHANGED <<plan, at, touched, active, moves, shared, collab,
                   mem, next, mode, moved>>

-----------------------------------------------------------------------------
(* The server's life, and everyone else *)

Stop ==
    /\ Goto("down")
    /\ mem' = None /\ next' = 0 /\ mode' = "run"
    /\ moved' = FALSE /\ fenced' = FALSE
    /\ UNCHANGED <<plan, disk, touched, moves, shared, collab>>

Crash == pc # "down" /\ Stop

\* "Workspace unavailable: restart Worktable to finish recovering"
Restart == pc = "idle" /\ fenced /\ Stop

\* Slip: startup looks at active/ only.
Boot_IgnoresMarker ==
    /\ pc = "down"
    /\ IF active # None THEN Recover("boot")
       ELSE Goto("idle") /\ mode' = "boot" /\ UNCHANGED <<mem, next>>
    /\ UNCHANGED <<plan, disk, touched, moves, shared, collab, moved, fenced>>

\* recoverInterruptedDocumentLifecycles
Boot ==
    /\ pc = "down"
    /\ IF active # None /\ marker = None THEN Recover("boot")
       ELSE /\ Goto(IF active # None THEN "down"
                    ELSE IF marker # None THEN "reconcile" ELSE "idle")
            /\ mode' = "boot"
            /\ UNCHANGED <<mem, next>>
    /\ UNCHANGED <<plan, disk, touched, moves, shared, collab, moved, fenced>>

Share ==
    /\ pc = "idle" /\ ~fenced /\ ~shared
    /\ shared' = TRUE
    /\ UNCHANGED <<plan, disk, touched, moves, collab, run>>

OpenDocument ==
    /\ pc = "idle" /\ ~fenced
    /\ collab' = at[1] \div Length(1)
    /\ UNCHANGED <<plan, disk, touched, moves, shared, run>>

\* Another program writes a source or a metadata file while a move is under
\* way; what it did before is what the plan captures.
Touch(i) ==
    /\ pc # "idle" \/ active # None \/ marker # None
    /\ \/ /\ Kind(i) \in {"source", "bundle", "edit"} /\ touched[i] = "clean"
          /\ touched' = [touched EXCEPT ![i] = "edited"]
       \/ /\ Kind(i) \in {"source", "bundle"} /\ touched[i] # "stray"
          /\ touched' = [touched EXCEPT ![i] = "stray"]
    /\ UNCHANGED <<plan, disk, moves, shared, collab, run>>

-----------------------------------------------------------------------------
Operation ==
    \/ Publish \/ RevokeShares \/ Apply \/ Save \/ Verify \/ Commit
    \/ MoveCollaboration \/ Settle \/ HandleError
    \/ Redo \/ FinishRedo \/ Undo \/ FinishUndo \/ Reconcile

Next ==
    \/ Prepare \/ Operation \/ Throw
    \/ Crash \/ Restart \/ Boot
    \/ Share \/ OpenDocument
    \/ \E i \in Item : Touch(i)

Spec == Init /\ [][Next]_vars

\* A running server goes on, a fenced or stopped one is restarted, and in the
\* end nothing crashes, throws or meddles; reconciliation succeeds if it can.
FairSpec ==
    /\ Spec
    /\ <>[][~(Crash \/ Throw \/ \E i \in Item : Touch(i))]_vars
    /\ WF_vars(Operation) /\ WF_vars(Boot) /\ WF_vars(Restart)
    /\ SF_vars(Reconcile /\ marker' = None)

-----------------------------------------------------------------------------
(***************************************************************************)
(* Whenever no journal is active, every file of every document, hidden     *)
(* items and metadata included, is at one and the same endpoint: no crash, *)
(* exception or outside edit makes recovery settle a half-moved folder.    *)
(***************************************************************************)
AllOrNothing ==
    active = None =>
        \A i, k \in Item : at[i] * Length(k) = at[k] * Length(i)

\* Another program left recovery no way to tell what a file is: a changed
\* metadata file, or a second file where a source is moved from or to.
Interfered ==
    \E i \in Item :
        touched[i] = "stray" \/ (touched[i] = "edited" /\ Kind(i) = "edit")

\* The next recovery step throws, and would throw again after a restart.
RecoveryBlocked ==
    \/ /\ pc \in {"redo", "undo"} /\ next \in Item
       /\ Ambiguous(mem, next)
    \/ pc = "redo" /\ ~Exact /\ mem.cursor # Documents
    \/ /\ (pc = "redo" /\ next = Len(Plan) + 1) \/ (pc = "undo" /\ next = 0)
       /\ ~AtCheckpoint(mem)
    \/ pc = "down" /\ active # None /\ marker # None

(***************************************************************************)
(* classifySource: "Content may legitimately change through an external    *)
(* editor while this local-first transaction is in flight; the journal     *)
(* hash is diagnostic, not authority to discard that edit or strand        *)
(* recovery."  However often the server dies, in the move or in recovery   *)
(* itself, recovery recognizes every file as it finds it.                  *)
(***************************************************************************)
NeverStranded == RecoveryBlocked => Interfered

\* Another program changed the source that an exact rename moves.
SourceEdited ==
    Exact /\ \E i \in Item : touched[i] = "edited" /\ Kind(i) = "source"

(***************************************************************************)
(* A folder's move always, and an exact rename unless its source was       *)
(* edited: recovery recognizes every file as it finds it.                  *)
(***************************************************************************)
StrandedOnlyByEdits == RecoveryBlocked => Interfered \/ SourceEdited

(***************************************************************************)
(* While any file of a move is away from its old endpoint and the move is  *)
(* not settled, no share link reaches either endpoint.                     *)
(***************************************************************************)
SharesRevokedFirst ==
    active # None /\ (\E i \in Item : at[i] # Before(active, i)) => ~shared

(***************************************************************************)
(* A committed move settles with no collaboration state saved under the    *)
(* old path, where a later document would pick it up.                      *)
(***************************************************************************)
CollaborationFollows ==
    marker # None /\ marker.phase = "committed" => collab # marker.from

(***************************************************************************)
(* Every move that is begun is settled and reconciled, whatever crashes    *)
(* and exceptions it meets, unless another program interferes with it as   *)
(* NeverStranded and StrandedOnlyByEdits say.                              *)
(***************************************************************************)
MoveSettles ==
    active # None \/ marker # None ~> \/ active = None /\ marker = None
                                      \/ Interfered \/ SourceEdited

-----------------------------------------------------------------------------
(***************************************************************************)
(* The journal makes a move of many files atomic: as users see it, the     *)
(* documents change place once, at the commit, or not at all.              *)
(***************************************************************************)
Atomic == INSTANCE AtomicMove WITH
    endpoint <- IF active # None /\ active.phase = "committed"
                THEN active.from + 1
                ELSE IF active # None THEN active.from
                ELSE at[1] \div Length(1),
    state <- IF active # None /\ active.phase = "applying" THEN "moving"
             ELSE IF active # None \/ marker # None THEN "settling"
             ELSE "settled"

\* The move implements AtomicMove.
MoveIsAtomic == Atomic!Spec
=============================================================================
