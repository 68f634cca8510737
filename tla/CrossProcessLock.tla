-------------------------- MODULE CrossProcessLock --------------------------
(***************************************************************************)
(* packages/server/src/cross-process-lock.ts: a lock file that serializes  *)
(* the Worktable processes sharing one data directory.                     *)
(*                                                                         *)
(* Every process runs one acquireCrossProcessLock call at a time (callers  *)
(* queue in-process first).  Each file system call is a step of its own,   *)
(* because the other processes run between any two of them.  A file is its *)
(* owner record and whether its mtime is older than staleMs.  Candidate    *)
(* files are private to their call and are not part of the state; neither  *)
(* is a quarantine file whose process died, since nothing reads it again.  *)
(***************************************************************************)
EXTENDS Naturals

CONSTANTS Proc,        \* process ids
          Undefined,   \* a missing file, and what readOwner gives for it
          MaxCalls,    \* bound: acquisitions per process
          MaxRestarts  \* bound: incarnations of a process after the first

ASSUME LockConstants ==
    /\ MaxCalls \in Nat
    /\ MaxRestarts \in Nat

VARIABLES lock,         \* the file at lockDir
          quarantine,   \* process -> the file it renamed to .stale-<pid>-...
          pc,           \* process -> where its call stands
          owner,        \* process -> the LockOwner of its current call
          observed,     \* process -> `current`, the owner it judged stale
          expired,      \* process -> Date.now() > deadline
          nonce,        \* process -> calls begun (its last random nonce)
          incarnation,  \* process -> its birth token
          displaced     \* history: a rename took a file other than the observed one

vars == <<lock, quarantine, pc, owner, observed, expired, nonce, incarnation,
          displaced>>

LockOwner == [pid : Proc, nonce : 0..MaxCalls, incarnation : 0..MaxRestarts]
File == [owner : LockOwner, aged : BOOLEAN]

ASSUME UndefinedIsNothing == Undefined \notin LockOwner \cup File

Control == {"idle", "link", "stat", "read", "alive", "recheck", "rename",
            "verify", "wait", "held", "release", "down"}

TypeOK ==
    /\ lock \in File \cup {Undefined}
    /\ quarantine \in [Proc -> File \cup {Undefined}]
    /\ pc \in [Proc -> Control]
    /\ owner \in [Proc -> LockOwner]
    /\ observed \in [Proc -> LockOwner \cup {Undefined}]
    /\ expired \in [Proc -> BOOLEAN]
    /\ nonce \in [Proc -> 0..MaxCalls]
    /\ incarnation \in [Proc -> 0..MaxRestarts]
    /\ displaced \in BOOLEAN

Init ==
    /\ lock = Undefined
    /\ quarantine = [p \in Proc |-> Undefined]
    /\ pc = [p \in Proc |-> "idle"]
    /\ owner = [p \in Proc |-> [pid |-> p, nonce |-> 0, incarnation |-> 0]]
    /\ observed = [p \in Proc |-> Undefined]
    /\ expired = [p \in Proc |-> FALSE]
    /\ nonce = [p \in Proc |-> 0]
    /\ incarnation = [p \in Proc |-> 0]
    /\ displaced = FALSE

readOwner(file) == IF file = Undefined THEN Undefined ELSE file.owner

ownerProcessIsCurrent(o) ==
    /\ pc[o.pid] # "down"
    /\ o.incarnation = incarnation[o.pid]

Goto(p, label) == pc' = [pc EXCEPT ![p] = label]

-----------------------------------------------------------------------------
(* acquireCrossProcessLock *)

Begin(p) ==
    /\ pc[p] = "idle"
    /\ nonce[p] < MaxCalls
    /\ nonce' = [nonce EXCEPT ![p] = nonce[p] + 1]
    /\ owner' = [owner EXCEPT ![p] =
         [pid |-> p, nonce |-> nonce[p] + 1, incarnation |-> incarnation[p]]]
    /\ expired' = [expired EXCEPT ![p] = FALSE]
    /\ Goto(p, "link")
    /\ UNCHANGED <<lock, quarantine, observed, incarnation, displaced>>

\* Slip: rename instead of link, which replaces an existing lock.
Link_Replaces(p) ==
    /\ pc[p] = "link"
    /\ lock' = [owner |-> owner[p], aged |-> FALSE]
    /\ Goto(p, "held")
    /\ UNCHANGED <<quarantine, owner, observed, expired, nonce, incarnation,
                   displaced>>

\* utimes on the candidate, then link, which never replaces an existing path.
Link(p) ==
    /\ pc[p] = "link"
    /\ IF lock = Undefined
       THEN /\ lock' = [owner |-> owner[p], aged |-> FALSE]
            /\ Goto(p, "held")
       ELSE /\ Goto(p, "stat")
            /\ UNCHANGED lock
    /\ UNCHANGED <<quarantine, owner, observed, expired, nonce, incarnation,
                   displaced>>

\* ENOENT goes straight back to link, without looking at the deadline.
Stat(p) ==
    /\ pc[p] = "stat"
    /\ Goto(p, IF lock = Undefined THEN "link"
               ELSE IF lock.aged THEN "read" ELSE "wait")
    /\ UNCHANGED <<lock, quarantine, owner, observed, expired, nonce,
                   incarnation, displaced>>

\* Slip: the file itself is remembered, not the owner parsed from it.
Read_Unparsed(p) ==
    /\ pc[p] = "read"
    /\ observed' = [observed EXCEPT ![p] = lock]
    /\ Goto(p, "recheck")
    /\ UNCHANGED <<lock, quarantine, owner, expired, nonce, incarnation,
                   displaced>>

\* An unreadable owner is stale at once.
Read(p) ==
    /\ pc[p] = "read"
    /\ observed' = [observed EXCEPT ![p] = readOwner(lock)]
    /\ Goto(p, IF lock = Undefined THEN "recheck" ELSE "alive")
    /\ UNCHANGED <<lock, quarantine, owner, expired, nonce, incarnation,
                   displaced>>

CheckAlive(p) ==
    /\ pc[p] = "alive"
    /\ Goto(p, IF ownerProcessIsCurrent(observed[p])
               THEN "wait" ELSE "recheck")
    /\ UNCHANGED <<lock, quarantine, owner, observed, expired, nonce,
                   incarnation, displaced>>

\* Slip: the deadline is never consulted.
Wait_NoDeadline(p) ==
    /\ pc[p] = "wait"
    /\ Goto(p, "link")
    /\ UNCHANGED <<lock, quarantine, owner, observed, expired, nonce,
                   incarnation, displaced>>

Wait(p) ==
    /\ pc[p] = "wait"
    /\ Goto(p, IF expired[p] THEN "idle" ELSE "link")
    /\ UNCHANGED <<lock, quarantine, owner, observed, expired, nonce,
                   incarnation, displaced>>

-----------------------------------------------------------------------------
(* quarantineStaleLock *)

Recheck(p) ==
    /\ pc[p] = "recheck"
    /\ Goto(p, IF readOwner(lock) = observed[p] THEN "rename" ELSE "wait")
    /\ UNCHANGED <<lock, quarantine, owner, observed, expired, nonce,
                   incarnation, displaced>>

Rename(p) ==
    /\ pc[p] = "rename"
    /\ IF lock = Undefined
       THEN /\ Goto(p, "wait")
            /\ UNCHANGED <<lock, quarantine, displaced>>
       ELSE /\ quarantine' = [quarantine EXCEPT ![p] = lock]
            /\ lock' = Undefined
            /\ displaced' = (displaced \/ lock.owner # observed[p])
            /\ Goto(p, "verify")
    /\ UNCHANGED <<owner, observed, expired, nonce, incarnation>>

\* Slip: no second look at the owner after the rename.
Remove_Unverified(p) ==
    /\ pc[p] = "verify"
    /\ quarantine' = [quarantine EXCEPT ![p] = Undefined]
    /\ Goto(p, "link")
    /\ UNCHANGED <<lock, owner, observed, expired, nonce, incarnation,
                   displaced>>

\* rmSync(quarantine) and retry at once.
Remove(p) ==
    /\ pc[p] = "verify"
    /\ readOwner(quarantine[p]) = observed[p]
    /\ quarantine' = [quarantine EXCEPT ![p] = Undefined]
    /\ Goto(p, "link")
    /\ UNCHANGED <<lock, owner, observed, expired, nonce, incarnation,
                   displaced>>

\* renameSync(quarantine, lockDir) replaces whatever is there by now.
Restore(p) ==
    /\ pc[p] = "verify"
    /\ readOwner(quarantine[p]) # observed[p]
    /\ lock' = quarantine[p]
    /\ quarantine' = [quarantine EXCEPT ![p] = Undefined]
    /\ Goto(p, "wait")
    /\ UNCHANGED <<owner, observed, expired, nonce, incarnation, displaced>>

-----------------------------------------------------------------------------
(* the release closure: read the owner, then remove the path *)

ReleaseRead(p) ==
    /\ pc[p] = "held"
    /\ Goto(p, IF readOwner(lock) = owner[p] THEN "release" ELSE "idle")
    /\ UNCHANGED <<lock, quarantine, owner, observed, expired, nonce,
                   incarnation, displaced>>

ReleaseRemove(p) ==
    /\ pc[p] = "release"
    /\ lock' = Undefined
    /\ Goto(p, "idle")
    /\ UNCHANGED <<quarantine, owner, observed, expired, nonce, incarnation,
                   displaced>>

-----------------------------------------------------------------------------
(* time, crashes and restarts *)

Age ==
    /\ lock # Undefined
    /\ ~lock.aged
    /\ lock' = [lock EXCEPT !.aged = TRUE]
    /\ UNCHANGED <<quarantine, pc, owner, observed, expired, nonce,
                   incarnation, displaced>>

DeadlinePasses(p) ==
    /\ pc[p] \notin {"idle", "held", "release", "down"}
    /\ ~expired[p]
    /\ expired' = [expired EXCEPT ![p] = TRUE]
    /\ UNCHANGED <<lock, quarantine, pc, owner, observed, nonce, incarnation,
                   displaced>>

Crash(p) ==
    /\ pc[p] # "down"
    /\ incarnation[p] < MaxRestarts
    /\ quarantine' = [quarantine EXCEPT ![p] = Undefined]
    /\ Goto(p, "down")
    /\ UNCHANGED <<lock, owner, observed, expired, nonce, incarnation,
                   displaced>>

\* A PID-stable restart: the same pid, a new birth token.
Restart(p) ==
    /\ pc[p] = "down"
    /\ incarnation[p] < MaxRestarts
    /\ incarnation' = [incarnation EXCEPT ![p] = incarnation[p] + 1]
    /\ Goto(p, "idle")
    /\ UNCHANGED <<lock, quarantine, owner, observed, expired, nonce,
                   displaced>>

-----------------------------------------------------------------------------

Step(p) ==
    \/ Link(p) \/ Stat(p) \/ Read(p) \/ CheckAlive(p) \/ Wait(p)
    \/ Recheck(p) \/ Rename(p) \/ Remove(p) \/ Restore(p)
    \/ ReleaseRead(p) \/ ReleaseRemove(p)

Next ==
    \/ \E p \in Proc :
         Begin(p) \/ Step(p) \/ DeadlinePasses(p) \/ Crash(p) \/ Restart(p)
    \/ Age

Spec == Init /\ [][Next]_vars

\* A process that is up keeps executing its call, a critical section ends,
\* and the clock reaches every deadline.
FairSpec ==
    /\ Spec
    /\ \A p \in Proc : WF_vars(Step(p)) /\ WF_vars(DeadlinePasses(p))

-----------------------------------------------------------------------------
Holding(p) == pc[p] \in {"held", "release"}

(***************************************************************************)
(* "acquisition is both complete and exclusive": at most one process is    *)
(* between acquireCrossProcessLock's return and the end of its release.    *)
(***************************************************************************)
MutualExclusion ==
    \A p, q \in Proc : Holding(p) /\ Holding(q) => p = q

(***************************************************************************)
(* Exclusion fails only through the window between quarantineStaleLock's   *)
(* recheck and its rename: as long as no rename has carried off a file     *)
(* other than the one judged stale, crashes, restarts, stale recovery and  *)
(* timeouts in any order leave every holder's own file at lockDir, hence   *)
(* one holder.                                                             *)
(***************************************************************************)
ExclusiveUnlessDisplaced ==
    ~displaced => /\ MutualExclusion
                  /\ \A p \in Proc :
                       Holding(p) => readOwner(lock) = owner[p]

(***************************************************************************)
(* Stale recovery deletes a lock file only when the process incarnation    *)
(* that wrote it is gone, whatever happened since the liveness check.      *)
(***************************************************************************)
RecoveryDeletesOnlyDead ==
    [][\A p \in Proc :
         Remove(p) => /\ quarantine[p] # Undefined
                      /\ ~ownerProcessIsCurrent(quarantine[p].owner)]_vars

(***************************************************************************)
(* Every acquire call ends: it gets the lock, or the deadline throws, or   *)
(* its process dies.  The retries that skip the deadline check cannot keep *)
(* it in the loop once the other processes stop calling.                   *)
(***************************************************************************)
AcquireEnds ==
    \A p \in Proc :
        pc[p] = "link" ~> pc[p] \in {"idle", "held", "release", "down"}

=============================================================================
