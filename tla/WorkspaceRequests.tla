------------------------- MODULE WorkspaceRequests --------------------------
(***************************************************************************)
(* Who may touch the workspace, and when: workspace-request-lifecycle.ts   *)
(* (admission of reads and writes, drains), workspace-export-coordinator.ts*)
(* (captures), workspace-replacement-coordinator.ts and the executor in    *)
(* index.ts (replacing the whole tree), thread-waiters.ts (long polls).    *)
(*                                                                         *)
(* One process and one event loop: an action is what runs between two      *)
(* awaits.                                                                 *)
(***************************************************************************)
EXTENDS Naturals

CONSTANTS Request,     \* handlers, each serving one request after another
          Writers,     \* those serving requests classified as "write"
          Export,      \* jobs that take a consistent capture
          None,
          MaxSignals   \* bound on the workspace changes that wake a long poll

ASSUME RequestConstants ==
    /\ Writers \subseteq Request
    /\ None \notin Export
    /\ MaxSignals \in Nat

VARIABLES accepting,    \* kind -> whether new requests of it are admitted
          request,      \* request -> where its handler stands
          after,        \* request -> signalRevision, which its poll waits past
          seen,         \* history: the signal its last reconciliation includes
          revision,     \* the signal's revision
          export,       \* export -> where its job stands
          turn,         \* the capture snapshotQueue lets run, or None
          scheduled,    \* replacementScheduled
          replacement   \* where the executor stands

vars == <<accepting, request, after, seen, revision, export, turn, scheduled,
          replacement>>

Kind(r) == IF r \in Writers THEN "write" ELSE "read"

\* "waiting" for admission, "woken" from it; an admitted handler is "active",
\* and a long poll has "looked" at the signal, is "ready" to wait, or "polling".
Admitted == {"active", "looked", "ready", "polling"}
RequestState == {"none", "waiting", "woken"} \cup Admitted
ExportState == {"none", "leased", "queued", "draining", "parked", "capturing"}
Replacing == {"stopping", "swapping", "restarting", "committing", "committed",
              "failing"}
ReplacementState == {"none", "scheduled", "timer", "draining", "parked",
                     "exports", "succeeding"} \cup Replacing

TypeOK ==
    /\ accepting \in [{"read", "write"} -> BOOLEAN]
    /\ request \in [Request -> RequestState]
    /\ after \in [Request -> 0 .. MaxSignals]
    /\ seen \in [Request -> 0 .. MaxSignals]
    /\ revision \in 0 .. MaxSignals
    /\ export \in [Export -> ExportState]
    /\ turn \in Export \cup {None}
    /\ scheduled \in BOOLEAN
    /\ replacement \in ReplacementState

Init ==
    /\ accepting = [k \in {"read", "write"} |-> TRUE]
    /\ request = [r \in Request |-> "none"]
    /\ after = [r \in Request |-> 0] /\ seen = [r \in Request |-> 0]
    /\ revision = 0
    /\ export = [e \in Export |-> "none"]
    /\ turn = None
    /\ scheduled = FALSE /\ replacement = "none"

-----------------------------------------------------------------------------
(* Requests *)

isWorkspaceDraining == ~(accepting["read"] /\ accepting["write"])

polls == <<after, seen, revision>>
jobs == <<export, turn, scheduled, replacement>>

Goto(r, state) == request' = [request EXCEPT ![r] = state]

\* Slip: a request waits for whatever closed the gate.
Arrive_Waits(r) ==
    /\ request[r] = "none"
    /\ Goto(r, IF accepting[Kind(r)] THEN "active" ELSE "waiting")
    /\ UNCHANGED <<accepting, polls, jobs>>

\* The first middleware: admit, wait out a capture, or refuse.
Arrive(r) ==
    /\ request[r] = "none"
    /\ \/ accepting[Kind(r)] /\ Goto(r, "active")
       \/ ~accepting[Kind(r)] /\ accepting["read"] /\ Goto(r, "waiting")
       \/ ~accepting[Kind(r)] /\ ~accepting["read"] /\ UNCHANGED request
    /\ UNCHANGED <<accepting, polls, jobs>>

\* WRITE_ADMISSION_WAIT_MS
WaitTimesOut(r) ==
    /\ request[r] = "waiting"
    /\ Goto(r, "woken")
    /\ UNCHANGED <<accepting, polls, jobs>>

\* A woken request finds the gate as it is by then, or is refused.
Readmit(r) ==
    /\ request[r] = "woken"
    /\ Goto(r, IF accepting[Kind(r)] THEN "active" ELSE "none")
    /\ UNCHANGED <<accepting, polls, jobs>>

\* Slip: the drain is not told.
Finish_Silently(r) ==
    /\ request[r] \in {"active", "looked", "ready"}
    /\ Goto(r, "none")
    /\ UNCHANGED <<accepting, polls, jobs>>

Unpark(state) == IF state = "parked" THEN "draining" ELSE state

\* release(): every parked drain looks at the sets again.
Finish(r) ==
    /\ request[r] \in {"active", "looked", "ready"}
    /\ Goto(r, "none")
    /\ export' = [e \in Export |-> Unpark(export[e])]
    /\ replacement' = Unpark(replacement)
    /\ UNCHANGED <<accepting, polls, turn, scheduled>>

-----------------------------------------------------------------------------
(* A long poll: claimNextThreadDelivery over waitForInboxSignal *)

\* Slip: a key without signals has no revision yet.
Look_Undefined(r) ==
    /\ request[r] = "active"
    /\ after' = [after EXCEPT ![r] = IF revision = 0 THEN None ELSE revision]
    /\ Goto(r, "looked")
    /\ UNCHANGED <<accepting, seen, revision, jobs>>

\* inboxSignalRevision
Look(r) ==
    /\ request[r] = "active"
    /\ after' = [after EXCEPT ![r] = revision]
    /\ Goto(r, "looked")
    /\ UNCHANGED <<accepting, seen, revision, jobs>>

\* Slip: the revision is read again after reconciling.
Reconcile_Rereads(r) ==
    /\ request[r] = "looked"
    /\ \E old \in {after[r], revision} :
         seen' = [seen EXCEPT ![r] = old]
    /\ after' = [after EXCEPT ![r] = revision]
    /\ Goto(r, "ready")
    /\ UNCHANGED <<accepting, revision, jobs>>

\* reconcileParticipantDeliveries sees the files as they were at some point
\* since the revision was read.
Reconcile(r) ==
    /\ request[r] = "looked"
    /\ \E old \in after[r] .. revision :
         seen' = [seen EXCEPT ![r] = old]
    /\ Goto(r, "ready")
    /\ UNCHANGED <<accepting, after, revision, jobs>>

\* A draining workspace makes the poll return, which is Finish.
Wait(r) ==
    /\ request[r] = "ready"
    /\ \/ revision # after[r] /\ Goto(r, "active")
       \/ revision = after[r] /\ ~isWorkspaceDraining /\ Goto(r, "polling")
    /\ UNCHANGED <<accepting, polls, jobs>>

\* The poll's deadline, or the next delivery's: it looks once more or returns.
PollTimesOut(r) ==
    /\ request[r] = "polling"
    /\ Goto(r, "ready")
    /\ UNCHANGED <<accepting, polls, jobs>>

\* wake(): a workspace change.
Signal ==
    /\ revision < MaxSignals
    /\ revision' = revision + 1
    /\ request' = [r \in Request |->
                     IF request[r] = "polling" THEN "active" ELSE request[r]]
    /\ UNCHANGED <<accepting, after, seen, jobs>>

-----------------------------------------------------------------------------
(* Captures *)

\* drain(): close the gates and let every long poll answer.
BeginDrain(kinds) ==
    /\ accepting' = [k \in {"read", "write"} |-> accepting[k] /\ k \notin kinds]
    /\ request' = [r \in Request |->
                     IF request[r] = "polling" THEN "ready" ELSE request[r]]

Drained(kinds) ==
    \A r \in Request : Kind(r) \in kinds => request[r] \notin Admitted

\* resumeWorkspaceRequestAdmission
Resume ==
    /\ accepting' = [k \in {"read", "write"} |-> TRUE]
    /\ request' = [r \in Request |->
                     IF request[r] = "waiting" THEN "woken" ELSE request[r]]

ExportsDone == \A e \in Export : export[e] = "none"

\* withWorkspaceExportLease
Lease(e) ==
    /\ export[e] = "none" /\ ~scheduled
    /\ export' = [export EXCEPT ![e] = "leased"]
    /\ UNCHANGED <<accepting, request, polls, turn, scheduled, replacement>>

\* withWorkspaceExportSnapshot: one capture at a time, in some order.
Queue(e) ==
    /\ export[e] = "leased"
    /\ export' = [export EXCEPT ![e] = "queued"]
    /\ UNCHANGED <<accepting, request, polls, turn, scheduled, replacement>>

\* stopWorkspaceMutationsAndDrain
StartCapture(e) ==
    /\ export[e] = "queued" /\ turn = None
    /\ turn' = e
    /\ BeginDrain({"write"})
    /\ export' = [export EXCEPT ![e] = "draining"]
    /\ UNCHANGED <<polls, scheduled, replacement>>

\* Slip: the drain waits once and does not look again.
DrainCapture_Once(e) ==
    /\ export[e] = "draining"
    /\ export' = [export EXCEPT ![e] = "capturing"]
    /\ UNCHANGED <<accepting, request, polls, turn, scheduled, replacement>>

DrainCapture(e) ==
    /\ export[e] = "draining"
    /\ export' = [export EXCEPT ![e] = IF Drained({"write"}) THEN "capturing"
                                       ELSE "parked"]
    /\ UNCHANGED <<accepting, request, polls, turn, scheduled, replacement>>

\* The finally block, whether the capture succeeded or not.
EndCapture(e) ==
    /\ export[e] = "capturing"
    /\ turn' = None
    /\ Resume
    /\ export' = [export EXCEPT ![e] = "leased"]
    /\ UNCHANGED <<polls, scheduled, replacement>>

EndLease(e) ==
    /\ export[e] = "leased"
    /\ export' = [export EXCEPT ![e] = "none"]
    /\ UNCHANGED <<accepting, request, polls, turn, scheduled, replacement>>

-----------------------------------------------------------------------------
(* Replacements *)

Advance(from, to) == replacement = from /\ replacement' = to

\* scheduleWorkspaceReplacement; a second one throws.
Schedule ==
    /\ ~scheduled /\ scheduled' = TRUE
    /\ Advance("none", "scheduled")
    /\ UNCHANGED <<accepting, request, polls, export, turn>>

\* The executor is called when the exports are done, and sets a timer.
Execute ==
    /\ ExportsDone
    /\ Advance("scheduled", "timer")
    /\ UNCHANGED <<accepting, request, polls, export, turn, scheduled>>

\* stopWorkspaceRequestAdmissionAndDrain
StartReplacement ==
    /\ Advance("timer", "draining")
    /\ BeginDrain({"read", "write"})
    /\ UNCHANGED <<polls, export, turn, scheduled>>

\* Slip: only writes are waited for, as for a capture.
DrainReplacement_Writes ==
    /\ Advance("draining", IF Drained({"write"}) THEN "exports" ELSE "parked")
    /\ UNCHANGED <<accepting, request, polls, export, turn, scheduled>>

DrainReplacement ==
    /\ Advance("draining", IF Drained({"read", "write"}) THEN "exports"
                           ELSE "parked")
    /\ UNCHANGED <<accepting, request, polls, export, turn, scheduled>>

AwaitExports ==
    /\ ExportsDone
    /\ Advance("exports", "stopping")
    /\ UNCHANGED <<accepting, request, polls, export, turn, scheduled>>

\* server.stop(), beginPreparedWorkspaceReplacement, startServer and
\* transaction.commit(), each of which may throw.
Replace ==
    /\ \/ Advance("stopping", "swapping") \/ Advance("swapping", "restarting")
       \/ Advance("restarting", "committing")
       \/ Advance("committing", "committed")
       \/ /\ replacement \in {"stopping", "swapping", "restarting", "committing"}
          /\ replacement' = "failing"
    /\ UNCHANGED <<accepting, request, polls, export, turn, scheduled>>

\* onCommitted, then the gates open; then onSucceeded, then release().
Reopen ==
    /\ Advance("committed", "succeeding")
    /\ Resume
    /\ UNCHANGED <<polls, export, turn, scheduled>>

\* Slip: only a failure releases the schedule.
Succeed_Unreleased ==
    /\ Advance("succeeding", "none")
    /\ UNCHANGED <<accepting, request, polls, export, turn, scheduled>>

Succeed ==
    /\ Advance("succeeding", "none")
    /\ scheduled' = FALSE
    /\ UNCHANGED <<accepting, request, polls, export, turn>>

\* rollback, restart, onFailed and release(); the gates open at once.
RollBack ==
    /\ Advance("failing", "none")
    /\ scheduled' = FALSE
    /\ Resume
    /\ UNCHANGED <<polls, export, turn>>

\* onCommitted, or the rollback, failed: the process exits, and its supervisor
\* starts another.
Exit ==
    /\ replacement \in {"committed", "failing"}
    /\ accepting' = [k \in {"read", "write"} |-> TRUE]
    /\ request' = [r \in Request |-> "none"]
    /\ after' = [r \in Request |-> 0] /\ seen' = [r \in Request |-> 0]
    /\ revision' = 0
    /\ export' = [e \in Export |-> "none"]
    /\ turn' = None
    /\ scheduled' = FALSE /\ replacement' = "none"

-----------------------------------------------------------------------------
Serve(r) ==
    \/ Arrive(r) \/ WaitTimesOut(r) \/ Readmit(r) \/ Finish(r)
    \/ Look(r) \/ Reconcile(r) \/ Wait(r) \/ PollTimesOut(r)

Capture(e) ==
    Lease(e) \/ Queue(e) \/ StartCapture(e) \/ DrainCapture(e)
      \/ EndCapture(e) \/ EndLease(e)

Executor ==
    Execute \/ StartReplacement \/ DrainReplacement \/ AwaitExports
      \/ Replace \/ Reopen \/ Succeed \/ RollBack \/ Exit

Next ==
    \/ \E r \in Request : Serve(r)
    \/ \E e \in Export : Capture(e)
    \/ Signal \/ Schedule \/ Executor

Spec == Init /\ [][Next]_vars

\* A handler that is not held up ends, timers fire, jobs go on, the queue of
\* captures is first come first served, and a job has an end.  Polls need not
\* time out and no signal need ever come.
FairSpec ==
    /\ Spec
    /\ \A r \in Request : WF_vars(Finish(r)) /\ WF_vars(Readmit(r))
    /\ \A e \in Export :
         /\ SF_vars(StartCapture(e)) /\ WF_vars(DrainCapture(e))
         /\ WF_vars(EndCapture(e)) /\ SF_vars(EndLease(e))
    /\ WF_vars(Executor)

-----------------------------------------------------------------------------
(***************************************************************************)
(* A capture is consistent: while it reads the tree no admitted write is   *)
(* running, whichever drains, resumptions and readmissions came before.    *)
(***************************************************************************)
CaptureSeesNoWriter ==
    \A e \in Export : export[e] = "capturing" => Drained({"write"})

(***************************************************************************)
(* "a handler that already passed authorization cannot write into the new  *)
(* root": from the moment the server is stopped until the gates open       *)
(* again, rollback included, no request is admitted and no capture reads.  *)
(***************************************************************************)
ReplacementIsAlone ==
    replacement \in Replacing => Drained({"read", "write"}) /\ ExportsDone

(***************************************************************************)
(* "Long polls answer now instead of holding the drain": none is waiting   *)
(* while a drain is.                                                       *)
(***************************************************************************)
PollsYield ==
    isWorkspaceDraining => \A r \in Request : request[r] # "polling"

(***************************************************************************)
(* A request is only kept waiting by a capture, which reopens soon, and    *)
(* never by a replacement.                                                 *)
(***************************************************************************)
WaitsForCapture ==
    \A r \in Request : request[r] = "waiting" =>
        turn # None /\ replacement \in {"none", "scheduled"}

(***************************************************************************)
(* "a portable edit that lands while reconciliation scans the old file     *)
(* must still wake this wait": a poll that waits has seen every change.    *)
(***************************************************************************)
NoLostWakeUp ==
    \A r \in Request : request[r] = "polling" => seen[r] = revision

(***************************************************************************)
(* The gate for writes opens again, although drains wait for handlers,     *)
(* captures for each other and replacements for both.                      *)
(***************************************************************************)
AdmissionReopens == ~accepting["write"] ~> accepting["write"]

(***************************************************************************)
(* A replacement that is scheduled ends, however many exports come along.  *)
(***************************************************************************)
ReplacementEnds == scheduled ~> ~scheduled
=============================================================================
