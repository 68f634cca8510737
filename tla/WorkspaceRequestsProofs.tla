----------------------- MODULE WorkspaceRequestsProofs -----------------------
(***************************************************************************)
(* Proofs about WorkspaceRequests, for any number of handlers, export jobs *)
(* and signals.                                                            *)
(***************************************************************************)
EXTENDS WorkspaceRequests, TLAPS

Holding == {"draining", "parked", "capturing"}
Closing == {"draining", "parked", "exports"} \cup Replacing

(***************************************************************************)
(* The job whose turn it is holds the gate for writes closed, and only     *)
(* jobs without an export outlive Execute; so the gates have one owner,    *)
(* and a capture's finally block cannot open them under a replacement.     *)
(***************************************************************************)
TurnHolds == \A e \in Export : export[e] \in Holding <=> turn = e

ScheduledIsReplacing == scheduled <=> replacement # "none"

ExportsDoneFirst == replacement \notin {"none", "scheduled"} => ExportsDone

ClosedForCapture == turn # None => ~accepting["write"]

ClosedForReplacement ==
    replacement \in Closing => ~accepting["write"] /\ ~accepting["read"]

ClosedForAReason ==
    /\ ~accepting["write"] => turn # None \/ replacement \in Closing
    /\ ~accepting["read"] => replacement \in Closing

DrainedForReplacement ==
    replacement \in {"exports"} \cup Replacing => Drained({"read", "write"})

Gates ==
    /\ TurnHolds /\ ScheduledIsReplacing /\ ExportsDoneFirst
    /\ ClosedForCapture /\ ClosedForReplacement /\ ClosedForAReason
    /\ DrainedForReplacement /\ CaptureSeesNoWriter

(***************************************************************************)
(* What a poll knows between reading the revision and waiting on it.       *)
(***************************************************************************)
PollKnows ==
    \A r \in Request :
        /\ request[r] = "looked" => after[r] <= revision
        /\ request[r] = "ready" => after[r] <= seen[r] /\ seen[r] <= revision
        /\ request[r] = "polling" => after[r] = revision /\ seen[r] = revision

(* The state of the request lifecycle keeps its types. *)
LEMMA TypeStep == TypeOK /\ [Next]_vars => TypeOK'
<1> SUFFICES ASSUME TypeOK, [Next]_vars PROVE TypeOK'
  OBVIOUS
<1> USE RequestConstants
<1> USE DEF TypeOK, RequestState, Admitted, ExportState, ReplacementState,
            Replacing, polls, jobs
<1>1. ASSUME NEW r \in Request, Serve(r) PROVE TypeOK'
  <2>1. CASE Arrive(r) BY <2>1 DEF Arrive, Goto
  <2>2. CASE WaitTimesOut(r) BY <2>2 DEF WaitTimesOut, Goto
  <2>3. CASE Readmit(r) BY <2>3 DEF Readmit, Goto
  <2>4. CASE Finish(r) BY <2>4 DEF Finish, Goto, Unpark
  <2>5. CASE Look(r) BY <2>5 DEF Look, Goto
  <2>6. CASE Reconcile(r) BY <2>6 DEF Reconcile, Goto
  <2>7. CASE Wait(r) BY <2>7 DEF Wait, Goto
  <2>8. CASE PollTimesOut(r) BY <2>8 DEF PollTimesOut, Goto
  <2>. QED BY <1>1, <2>1, <2>2, <2>3, <2>4, <2>5, <2>6, <2>7, <2>8 DEF Serve
<1>2. ASSUME NEW e \in Export, Capture(e) PROVE TypeOK'
  <2>1. CASE Lease(e) BY <2>1 DEF Lease
  <2>2. CASE Queue(e) BY <2>2 DEF Queue
  <2>3. CASE StartCapture(e) BY <2>3 DEF StartCapture, BeginDrain
  <2>4. CASE DrainCapture(e) BY <2>4 DEF DrainCapture
  <2>5. CASE EndCapture(e) BY <2>5 DEF EndCapture, Resume
  <2>6. CASE EndLease(e) BY <2>6 DEF EndLease
  <2>. QED BY <1>2, <2>1, <2>2, <2>3, <2>4, <2>5, <2>6 DEF Capture
<1>3. CASE Signal BY <1>3 DEF Signal
<1>4. CASE Schedule BY <1>4 DEF Schedule, Advance
<1>5. CASE Executor
  <2>1. CASE Execute BY <2>1 DEF Execute, Advance
  <2>2. CASE StartReplacement BY <2>2 DEF StartReplacement, Advance, BeginDrain
  <2>3. CASE DrainReplacement BY <2>3 DEF DrainReplacement, Advance
  <2>4. CASE AwaitExports BY <2>4 DEF AwaitExports, Advance
  <2>5. CASE Replace BY <2>5 DEF Replace, Advance
  <2>6. CASE Reopen BY <2>6 DEF Reopen, Advance, Resume
  <2>7. CASE Succeed BY <2>7 DEF Succeed, Advance
  <2>8. CASE RollBack BY <2>8 DEF RollBack, Advance, Resume
  <2>9. CASE Exit
    <3>1. 0 \in 0 .. MaxSignals OBVIOUS
    <3>. QED BY <2>9, <3>1, Zenon DEF Exit
  <2>. QED BY <1>5, <2>1, <2>2, <2>3, <2>4, <2>5, <2>6, <2>7, <2>8, <2>9
           DEF Executor
<1>6. CASE UNCHANGED vars BY <1>6 DEF vars
<1>. QED BY <1>1, <1>2, <1>3, <1>4, <1>5, <1>6 DEF Next

(* Gates are opened and closed only by the job that owns them. *)
LEMMA GatesStep == TypeOK /\ Gates /\ [Next]_vars => Gates'
<1> SUFFICES ASSUME TypeOK, Gates, [Next]_vars PROVE Gates'
  OBVIOUS
<1> USE RequestConstants
<1> USE DEF TypeOK, RequestState, Admitted, ExportState, ReplacementState,
            Replacing, Holding, Closing, polls, jobs, Kind, Drained, ExportsDone,
            Gates, TurnHolds, ScheduledIsReplacing, ExportsDoneFirst,
            ClosedForCapture, ClosedForReplacement, ClosedForAReason,
            DrainedForReplacement, CaptureSeesNoWriter
<1>1. ASSUME NEW r \in Request, Serve(r) PROVE Gates'
  <2>1. CASE Arrive(r) BY <2>1 DEF Arrive, Goto
  <2>2. CASE WaitTimesOut(r) BY <2>2 DEF WaitTimesOut, Goto
  <2>3. CASE Readmit(r) BY <2>3 DEF Readmit, Goto
  <2>4. CASE Finish(r) BY <2>4 DEF Finish, Goto, Unpark
  <2>5. CASE Look(r) BY <2>5 DEF Look, Goto
  <2>6. CASE Reconcile(r) BY <2>6 DEF Reconcile, Goto
  <2>7. CASE Wait(r) BY <2>7 DEF Wait, Goto
  <2>8. CASE PollTimesOut(r) BY <2>8 DEF PollTimesOut, Goto
  <2>. QED BY <1>1, <2>1, <2>2, <2>3, <2>4, <2>5, <2>6, <2>7, <2>8 DEF Serve
<1>2. ASSUME NEW e \in Export, Capture(e) PROVE Gates'
  <2>1. CASE Lease(e) BY <2>1 DEF Lease
  <2>2. CASE Queue(e) BY <2>2 DEF Queue
  <2>3. CASE StartCapture(e) BY <2>3 DEF StartCapture, BeginDrain
  <2>4. CASE DrainCapture(e) BY <2>4 DEF DrainCapture
  <2>5. CASE EndCapture(e) BY <2>5 DEF EndCapture, Resume
  <2>6. CASE EndLease(e) BY <2>6 DEF EndLease
  <2>. QED BY <1>2, <2>1, <2>2, <2>3, <2>4, <2>5, <2>6 DEF Capture
<1>3. CASE Signal BY <1>3 DEF Signal
<1>4. CASE Schedule BY <1>4 DEF Schedule, Advance
<1>5. CASE Executor
  <2>1. CASE Execute BY <2>1 DEF Execute, Advance
  <2>2. CASE StartReplacement BY <2>2 DEF StartReplacement, Advance, BeginDrain
  <2>3. CASE DrainReplacement BY <2>3 DEF DrainReplacement, Advance
  <2>4. CASE AwaitExports BY <2>4 DEF AwaitExports, Advance
  <2>5. CASE Replace BY <2>5 DEF Replace, Advance
  <2>6. CASE Reopen BY <2>6 DEF Reopen, Advance, Resume
  <2>7. CASE Succeed BY <2>7 DEF Succeed, Advance
  <2>8. CASE RollBack BY <2>8 DEF RollBack, Advance, Resume
  <2>9. CASE Exit BY <2>9 DEF Exit
  <2>. QED BY <1>5, <2>1, <2>2, <2>3, <2>4, <2>5, <2>6, <2>7, <2>8, <2>9
           DEF Executor
<1>6. CASE UNCHANGED vars BY <1>6 DEF vars
<1>. QED BY <1>1, <1>2, <1>3, <1>4, <1>5, <1>6 DEF Next

(* A request is kept waiting only while a capture has its turn. *)
LEMMA WaitsStep ==
    TypeOK /\ Gates /\ WaitsForCapture /\ [Next]_vars => WaitsForCapture'
<1> SUFFICES ASSUME TypeOK, Gates, WaitsForCapture, [Next]_vars
             PROVE WaitsForCapture'
  OBVIOUS
<1> USE RequestConstants
<1> USE DEF TypeOK, RequestState, Admitted, ExportState, ReplacementState,
            Replacing, Closing, Holding, polls, jobs, Kind, ExportsDone, Gates,
            TurnHolds, ExportsDoneFirst, ScheduledIsReplacing, ClosedForAReason,
            WaitsForCapture
<1>1. ASSUME NEW r \in Request, Serve(r) PROVE WaitsForCapture'
  <2>1. CASE Arrive(r) BY <2>1 DEF Arrive, Goto, ClosedForReplacement
  <2>2. CASE Finish(r) BY <2>2 DEF Finish, Goto, Unpark
  <2>3. CASE WaitTimesOut(r) \/ Readmit(r) \/ Look(r) \/ Reconcile(r)
               \/ Wait(r) \/ PollTimesOut(r)
    BY <2>3 DEF WaitTimesOut, Readmit, Look, Reconcile, Wait, PollTimesOut, Goto
  <2>. QED BY <1>1, <2>1, <2>2, <2>3 DEF Serve
<1>2. ASSUME NEW e \in Export, Capture(e) PROVE WaitsForCapture'
  <2>1. CASE StartCapture(e) BY <2>1 DEF StartCapture, BeginDrain
  <2>2. CASE EndCapture(e) BY <2>2 DEF EndCapture, Resume
  <2>3. CASE Lease(e) \/ Queue(e) \/ DrainCapture(e) \/ EndLease(e)
    BY <2>3 DEF Lease, Queue, DrainCapture, EndLease
  <2>. QED BY <1>2, <2>1, <2>2, <2>3 DEF Capture
<1>3. CASE Signal BY <1>3 DEF Signal
<1>4. CASE Schedule BY <1>4 DEF Schedule, Advance
<1>5. CASE Executor
  <2>1. CASE StartReplacement BY <2>1 DEF StartReplacement, Advance, BeginDrain
  <2>2. CASE Reopen BY <2>2 DEF Reopen, Advance, Resume
  <2>3. CASE RollBack BY <2>3 DEF RollBack, Advance, Resume
  <2>4. CASE Exit BY <2>4 DEF Exit
  <2>5. CASE Execute \/ DrainReplacement \/ AwaitExports \/ Replace \/ Succeed
    BY <2>5 DEF Execute, DrainReplacement, AwaitExports, Replace, Succeed, Advance
  <2>. QED BY <1>5, <2>1, <2>2, <2>3, <2>4, <2>5 DEF Executor
<1>6. CASE UNCHANGED vars BY <1>6 DEF vars
<1>. QED BY <1>1, <1>2, <1>3, <1>4, <1>5, <1>6 DEF Next

(* A poll waits neither through a drain nor through a change. *)
LEMMA PollStep ==
    TypeOK /\ PollKnows /\ PollsYield /\ [Next]_vars => (PollKnows /\ PollsYield)'
<1> SUFFICES ASSUME TypeOK, PollKnows, PollsYield, [Next]_vars
             PROVE PollKnows' /\ PollsYield'
  OBVIOUS
<1> USE RequestConstants
<1> USE DEF TypeOK, RequestState, Admitted, polls, jobs, isWorkspaceDraining,
            PollKnows, PollsYield
<1>1. ASSUME NEW r \in Request, Serve(r) PROVE PollKnows' /\ PollsYield'
  <2>1. CASE Look(r) BY <2>1 DEF Look, Goto
  <2>2. CASE Reconcile(r) BY <2>2 DEF Reconcile, Goto
  <2>3. CASE Wait(r) BY <2>3 DEF Wait, Goto
  <2>4. CASE Arrive(r) \/ WaitTimesOut(r) \/ Readmit(r) \/ Finish(r)
               \/ PollTimesOut(r)
    BY <2>4 DEF Arrive, WaitTimesOut, Readmit, Finish, PollTimesOut, Goto
  <2>. QED BY <1>1, <2>1, <2>2, <2>3, <2>4 DEF Serve
<1>2. ASSUME NEW e \in Export, Capture(e) PROVE PollKnows' /\ PollsYield'
  <2>1. CASE StartCapture(e) BY <2>1 DEF StartCapture, BeginDrain
  <2>2. CASE EndCapture(e) BY <2>2 DEF EndCapture, Resume
  <2>3. CASE Lease(e) \/ Queue(e) \/ DrainCapture(e) \/ EndLease(e)
    BY <2>3 DEF Lease, Queue, DrainCapture, EndLease
  <2>. QED BY <1>2, <2>1, <2>2, <2>3 DEF Capture
<1>3. CASE Signal BY <1>3 DEF Signal
<1>4. CASE Schedule BY <1>4 DEF Schedule
<1>5. CASE Executor
  <2>1. CASE StartReplacement BY <2>1 DEF StartReplacement, BeginDrain
  <2>2. CASE Reopen BY <2>2 DEF Reopen, Resume
  <2>3. CASE RollBack BY <2>3 DEF RollBack, Resume
  <2>4. CASE Exit BY <2>4 DEF Exit
  <2>5. CASE Execute \/ DrainReplacement \/ AwaitExports \/ Replace \/ Succeed
    BY <2>5 DEF Execute, DrainReplacement, AwaitExports, Replace, Succeed
  <2>. QED BY <1>5, <2>1, <2>2, <2>3, <2>4, <2>5 DEF Executor
<1>6. CASE UNCHANGED vars BY <1>6 DEF vars
<1>. QED BY <1>1, <1>2, <1>3, <1>4, <1>5, <1>6 DEF Next

-----------------------------------------------------------------------------
RequestInv ==
    TypeOK /\ Gates /\ WaitsForCapture /\ PollKnows /\ PollsYield

(***************************************************************************)
(* The inductive invariant: who owns the gates, who waits for them, and    *)
(* what polls know.                                                        *)
(***************************************************************************)
THEOREM Inductive == Spec => []RequestInv
<1>1. Init => RequestInv
  <2> SUFFICES ASSUME Init PROVE RequestInv
    OBVIOUS
  <2> USE RequestConstants DEF Init
  <2>0. 0 \in 0 .. MaxSignals OBVIOUS
  <2>1. TypeOK BY <2>0, Zenon DEF TypeOK, RequestState, ExportState, ReplacementState
  <2>2. Gates
    BY DEF Gates, TurnHolds, ScheduledIsReplacing, ExportsDoneFirst,
           ClosedForCapture, ClosedForReplacement, ClosedForAReason, Closing,
           Replacing, Holding, DrainedForReplacement, CaptureSeesNoWriter
  <2>3. WaitsForCapture /\ PollKnows /\ PollsYield
    BY DEF WaitsForCapture, PollKnows, PollsYield
  <2>. QED BY <2>1, <2>2, <2>3 DEF RequestInv
<1>2. RequestInv /\ [Next]_vars => RequestInv'
  BY TypeStep, GatesStep, WaitsStep, PollStep DEF RequestInv
<1>. QED BY <1>1, <1>2, PTL DEF Spec

(***************************************************************************)
(* No admitted write runs while a capture reads the tree.                  *)
(***************************************************************************)
THEOREM ConsistentCapture == Spec => []CaptureSeesNoWriter
<1>1. RequestInv => CaptureSeesNoWriter
  BY DEF RequestInv, Gates
<1>. QED BY <1>1, Inductive, PTL

(***************************************************************************)
(* No request and no capture runs while the tree is replaced or rolled     *)
(* back.                                                                   *)
(***************************************************************************)
THEOREM ReplacementIsolation == Spec => []ReplacementIsAlone
<1>1. RequestInv => ReplacementIsAlone
  BY DEF RequestInv, Gates, DrainedForReplacement, ExportsDoneFirst,
         ReplacementIsAlone, Replacing
<1>. QED BY <1>1, Inductive, PTL

(***************************************************************************)
(* Requests wait for captures only, and are refused by a replacement.      *)
(***************************************************************************)
THEOREM Waiting == Spec => []WaitsForCapture
<1>1. RequestInv => WaitsForCapture
  BY DEF RequestInv
<1>. QED BY <1>1, Inductive, PTL

(***************************************************************************)
(* A long poll is never left waiting: not through a drain, and not with a  *)
(* change behind it that its reconciliation did not include.               *)
(***************************************************************************)
THEOREM Polling == Spec => [](PollsYield /\ NoLostWakeUp)
<1>1. RequestInv => PollsYield /\ NoLostWakeUp
  BY DEF RequestInv, PollKnows, NoLostWakeUp
<1>. QED BY <1>1, Inductive, PTL

(***************************************************************************)
(* Requests, export jobs, the gates and the replacement of                 *)
(* workspace-safety.ts stay in their declared states.                      *)
(***************************************************************************)
THEOREM RequestTypes == Spec => []TypeOK
<1>1. RequestInv => TypeOK
  BY DEF RequestInv
<1>. QED BY <1>1, Inductive, PTL
=============================================================================
