--------------------------- MODULE ThreadDelivery ---------------------------
(***************************************************************************)
(* Delivery of one thread's reply requests to its participants:            *)
(* thread-service.ts over thread-store.ts (the portable thread file) and   *)
(* thread-delivery-store.ts (the machine-local delivery file).             *)
(*                                                                         *)
(* Each file has a lock of its own, so one request handler is a sequence   *)
(* of locked sections with other handlers in between: a post publishes the *)
(* message and then queues its delivery; a reconciliation scans the thread *)
(* and later applies what it saw; a claim leases a delivery, reads the     *)
(* thread and may then give the lease back; a reply checks its lease,      *)
(* appends and then marks the delivery.  A server that dies between two    *)
(* sections leaves the rest undone.                                        *)
(*                                                                         *)
(* A call quoting a lease that is no longer current throws LEASE_LOST and  *)
(* changes nothing, so adapter calls appear only with the current lease.   *)
(***************************************************************************)
EXTENDS ThreadDeliveryStore

CONSTANTS Worker,        \* handlers serving claims and replies
          Scanner,       \* handlers running a reconciliation
          GrokBots,      \* participants that may have a Grok Bot connection
          Phase,         \* the phases adapters report
          MaxRevision,   \* bound: thread edits other than replies stop here
          MayRestore     \* whether a deleted thread file may come back

ASSUME ServiceConstants ==
    /\ GrokBots \subseteq Participant
    /\ Phase \subseteq {"working", "receiving"}
    /\ MaxRevision \in Nat
    /\ MayRestore \in BOOLEAN

VARIABLES thread,   \* the portable thread file
          file,     \* the delivery file
          posts,    \* published requests whose delivery is not queued yet
          scan,     \* scanner -> what it read, not applied yet
          worker,   \* worker -> the claim or reply it is serving
          policy    \* participant -> grokBotPolicy

vars == <<thread, file, posts, scan, worker, policy>>

PendingPost == [key : Key, participant : Participant, revision : Nat]
Snapshot == [participant : Participant, thread : Thread, complete : BOOLEAN]
WorkerState ==
    [pc : {"idle", "read", "fail", "commit", "check", "append", "mark"},
     key : Key \cup {None}, lease : Lease \cup {None},
     participant : Participant \cup {None}, revision : Nat,
     error : {"none", "retired", "notFound", "access"}]

Idle == [pc |-> "idle", key |-> None, lease |-> None, participant |-> None,
         revision |-> 0, error |-> "none"]

TypeOK ==
    /\ thread \in Thread
    /\ file \in DeliveryFile
    /\ posts \in SUBSET PendingPost
    /\ scan \in [Scanner -> Snapshot \cup {None}]
    /\ worker \in [Worker -> WorkerState]
    /\ policy \in [Participant -> {"none", "ready", "paused"}]

Unsent == [status |-> "unsent", identity |-> None]
NoRequest == [status |-> "none", identity |-> None]
OpenFor(i) == [status |-> "open", identity |-> i]
RespondedBy(i) == [status |-> "responded", identity |-> i]

Init ==
    /\ \E member \in [Identity -> Participant] :
         thread = [present |-> FALSE, revision |-> 0,
                   request |-> [m \in Message |-> Unsent], member |-> member]
    /\ file = emptyFile
    /\ posts = {}
    /\ scan = [s \in Scanner |-> None]
    /\ worker = [w \in Worker |-> Idle]
    /\ policy = [p \in Participant |-> "none"]

-----------------------------------------------------------------------------
(* The portable thread *)

Ask(m, i) == [thread EXCEPT !.present = TRUE, !.revision = @ + 1,
                            !.request[m] = OpenFor(i)]

\* postThreadMessage up to the append (the first one creates the thread).
Post(m, i) ==
    /\ thread.present \/ thread.revision = 0
    /\ thread.revision < MaxRevision
    /\ thread.request[m].status = "unsent"
    /\ \A n \in Message : n < m => thread.request[n].status # "unsent"
    /\ thread' = Ask(m, i)
    /\ posts' = posts \cup
         {[key |-> [message |-> m, identity |-> i],
           participant |-> thread.member[i], revision |-> thread.revision + 1]}
    /\ UNCHANGED <<file, scan, worker, policy>>

\* ... and from there on.  A delivery that a reconciliation has created by
\* now is left as it is.
QueuePost(x) ==
    /\ x \in posts
    /\ posts' = posts \ {x}
    /\ file' = IF x.key \in Stored(file) THEN file
               ELSE queueThreadDelivery(file, x.key, x.participant, x.revision)
    /\ UNCHANGED <<thread, scan, worker, policy>>

\* The server dies between publishing and queueing.
LosePost(x) ==
    /\ x \in posts
    /\ posts' = posts \ {x}
    /\ UNCHANGED <<thread, file, scan, worker, policy>>

\* assignThreadMessage: hand an unanswered request to i, or to nobody.  The
\* reconciliations assignResponseRequest goes on to run are BeginScan steps.
Assign(m, i) ==
    /\ thread.present
    /\ thread.revision < MaxRevision
    /\ thread.request[m].status \in {"none", "open"}
    /\ thread.request[m] # OpenFor(i)
    /\ thread' = [thread EXCEPT
                    !.revision = @ + 1,
                    !.request[m] = IF i = None THEN NoRequest ELSE OpenFor(i)]
    /\ UNCHANGED <<file, posts, scan, worker, policy>>

\* A message without a request, a rename, or a portable edit that hands an
\* identity to another member.
Edit(i, p) ==
    /\ thread.present
    /\ thread.revision < MaxRevision
    /\ thread' = [thread EXCEPT !.revision = @ + 1, !.member[i] = p]
    /\ UNCHANGED <<file, posts, scan, worker, policy>>

DeleteThread ==
    /\ thread.present
    /\ thread' = [thread EXCEPT !.present = FALSE]
    /\ UNCHANGED <<file, posts, scan, worker, policy>>

RestoreThread ==
    /\ MayRestore
    /\ ~thread.present
    /\ thread.revision > 0
    /\ thread' = [thread EXCEPT !.present = TRUE]
    /\ UNCHANGED <<file, posts, scan, worker, policy>>

-----------------------------------------------------------------------------
(* reconcileParticipantDeliveries: scan, then apply under the delivery lock *)

BeginScan(s, p, complete) ==
    /\ scan[s] = None
    /\ scan' = [scan EXCEPT ![s] = [participant |-> p, thread |-> thread,
                                    complete |-> complete]]
    /\ UNCHANGED <<thread, file, posts, worker, policy>>

ApplyScan(s) ==
    /\ scan[s] # None
    /\ file' = reconcileThreadDeliveries(file, scan[s].participant,
                                         scan[s].thread, scan[s].complete)
    /\ scan' = [scan EXCEPT ![s] = None]
    /\ UNCHANGED <<thread, posts, worker, policy>>

\* The server dies, or the scan's stamp says nothing has changed.
DropScan(s) ==
    /\ scan[s] # None
    /\ scan' = [scan EXCEPT ![s] = None]
    /\ UNCHANGED <<thread, file, posts, worker, policy>>

-----------------------------------------------------------------------------
(* claimNextThreadDelivery *)

UsedLeases == {file.deliveries[k].leaseId : k \in Stored(file)}
                \cup {worker[w].lease : w \in Worker}

Go(w, state) == worker' = [worker EXCEPT ![w] = state]

Claim(w, p) ==
    LET f == BeforeClaim(file, p, policy[p])
    IN  /\ worker[w].pc = "idle"
        /\ \/ /\ Held(f, p, policy[p])
              /\ file' = f
              /\ UNCHANGED worker
           \/ /\ ~Held(f, p, policy[p])
              /\ Claimable(f, p, policy[p]) = {}
              /\ file' = claimThreadDelivery(f, p, policy[p], None, None)
              /\ UNCHANGED worker
           \/ /\ ~Held(f, p, policy[p])
              /\ \E c \in Claimable(f, p, policy[p]), l \in Lease \ UsedLeases :
                   /\ file' = claimThreadDelivery(f, p, policy[p], c, l)
                   /\ Go(w, [Idle EXCEPT !.pc = "read", !.key = c, !.lease = l,
                                         !.participant = p])
        /\ UNCHANGED <<thread, posts, scan, policy>>

Current(t, k, p) ==
    /\ t.request[k.message] = OpenFor(k.identity)
    /\ t.member[k.identity] = p

\* Read the thread the claim is for: hand the delivery out, or give it back.
ReadClaim(w) ==
    /\ worker[w].pc = "read"
    /\ Go(w, IF ~thread.present
             THEN [worker[w] EXCEPT !.pc = "fail", !.error = "notFound"]
             ELSE IF ~Current(thread, worker[w].key, worker[w].participant)
             THEN [worker[w] EXCEPT !.pc = "fail", !.error = "retired",
                                    !.revision = thread.revision]
             ELSE Idle)
    /\ UNCHANGED <<thread, file, posts, scan, policy>>

\* TeamAccessError: access changed after the claim.
ReadRefused(w) ==
    /\ worker[w].pc = "read"
    /\ Go(w, [worker[w] EXCEPT !.pc = "fail", !.error = "access"])
    /\ UNCHANGED <<thread, file, posts, scan, policy>>

FailClaim(w) ==
    /\ worker[w].pc = "fail"
    /\ file' = IF requireLease(file, worker[w].key, worker[w].lease,
                               worker[w].participant)
               THEN failThreadDelivery(file, worker[w].key,
                                       worker[w].error = "access", FALSE,
                                       worker[w].error, worker[w].revision)
               ELSE file
    /\ Go(w, Idle)
    /\ UNCHANGED <<thread, posts, scan, policy>>

-----------------------------------------------------------------------------
(* The adapter that holds a lease *)

Live(k) == file.deliveries[k] # None /\ file.deliveries[k].live

Accept(k) ==
    /\ Live(k)
    /\ file' = acceptThreadDelivery(file, k)
    /\ UNCHANGED <<thread, posts, scan, worker, policy>>

Progress(k, phase) ==
    /\ Live(k)
    /\ file' = progressThreadDelivery(file, k, phase)
    /\ UNCHANGED <<thread, posts, scan, worker, policy>>

Fail(k, retryable) ==
    /\ Live(k)
    /\ file' = failThreadDelivery(file, k, retryable, TRUE, "agent", 0)
    /\ UNCHANGED <<thread, posts, scan, worker, policy>>

-----------------------------------------------------------------------------
(* postThreadMessage with responseTo *)

requiresManagedDeliveryLease(k, p) ==
    \/ policy[p] # "none"
    \/ /\ file.deliveries[k] # None
       /\ file.deliveries[k].managed
       /\ file.deliveries[k].participant = p

\* Quoting a lease is optional unless the delivery is managed.  A response
\* to a request the identity does not have is refused and is left out.
BeginReply(w, k, quoted) ==
    LET p == thread.member[k.identity]
        managed == requiresManagedDeliveryLease(k, p)
        lease == IF quoted /\ file.deliveries[k] # None
                 THEN file.deliveries[k].leaseId ELSE None
    IN  /\ worker[w].pc = "idle"
        /\ thread.present
        /\ thread.request[k.message] \in {OpenFor(k.identity),
                                          RespondedBy(k.identity)}
        /\ managed => lease # None
        /\ Go(w, [Idle EXCEPT !.pc = IF managed THEN "commit"
                                     ELSE IF lease # None THEN "check"
                                     ELSE "append",
                              !.key = k, !.lease = lease, !.participant = p])
        /\ UNCHANGED <<thread, file, posts, scan, policy>>

CheckLease(w) ==
    /\ worker[w].pc = "check"
    /\ Go(w, IF replyLease(file, worker[w].key, worker[w].lease,
                           worker[w].participant)
             THEN [worker[w] EXCEPT !.pc = "append"] ELSE Idle)
    /\ UNCHANGED <<thread, file, posts, scan, policy>>

\* appendThreadMessage accepts a response from the identity that is asked.
Appends(k) ==
    /\ thread.present
    /\ thread.request[k.message] = OpenFor(k.identity)

Answered(k) ==
    [thread EXCEPT !.revision = @ + 1,
                   !.request[k.message] = RespondedBy(k.identity)]

\* Slip: any response is appended as the identity's.
AppendReply_Unchecked(w) ==
    /\ worker[w].pc = "append"
    /\ thread.present
    /\ Go(w, [worker[w] EXCEPT !.pc = "mark"])
    /\ UNCHANGED <<thread, file, posts, scan, policy>>

\* A retry of the post that answered is replayed; anything else is refused.
AppendReply(w) ==
    /\ worker[w].pc = "append"
    /\ \/ /\ Appends(worker[w].key)
          /\ thread' = Answered(worker[w].key)
          /\ Go(w, [worker[w] EXCEPT !.pc = "mark"])
       \/ /\ thread.present
          /\ thread.request[worker[w].key.message]
               = RespondedBy(worker[w].key.identity)
          /\ Go(w, [worker[w] EXCEPT !.pc = "mark"])
          /\ UNCHANGED thread
       \/ /\ ~Appends(worker[w].key)
          /\ Go(w, Idle)
          /\ UNCHANGED thread
    /\ UNCHANGED <<file, posts, scan, policy>>

\* commitThreadDeliveryReply: check, append and save under the delivery
\* lock.  If the server dies after the append the save is lost; a lost lease
\* still replays an answer this post has already given.
CommitReply(w) ==
    LET k == worker[w].key
        valid == replyLease(file, k, worker[w].lease, worker[w].participant)
    IN  /\ worker[w].pc = "commit"
        /\ \/ /\ valid /\ Appends(k)
              /\ thread' = Answered(k)
              /\ \/ /\ file' = Put(file, k, Settle(file.deliveries[k],
                                                   "replied", "none"))
                    /\ Go(w, [worker[w] EXCEPT !.pc = "mark"])
                 \/ /\ Go(w, Idle)
                    /\ UNCHANGED file
           \/ /\ ~valid /\ thread.present
              /\ thread.request[k.message] = RespondedBy(k.identity)
              /\ Go(w, [worker[w] EXCEPT !.pc = "mark"])
              /\ UNCHANGED <<thread, file>>
           \/ /\ ~(valid /\ Appends(k))
              /\ Go(w, Idle)
              /\ UNCHANGED <<thread, file>>
        /\ UNCHANGED <<posts, scan, policy>>

MarkReplied(w) ==
    /\ worker[w].pc = "mark"
    /\ file' = markThreadDeliveryReplied(file, worker[w].key,
                                         worker[w].participant)
    /\ Go(w, Idle)
    /\ UNCHANGED <<thread, posts, scan, policy>>

\* The server handling the request dies.
LoseWorker(w) ==
    /\ worker[w].pc # "idle"
    /\ Go(w, Idle)
    /\ UNCHANGED <<thread, file, posts, scan, policy>>

-----------------------------------------------------------------------------
(* Time, the Grok Bot connection, and a workspace reset *)

LeaseExpires(k) ==
    /\ Live(k)
    /\ file' = Put(file, k, [file.deliveries[k] EXCEPT !.live = FALSE])
    /\ UNCHANGED <<thread, posts, scan, worker, policy>>

BackoffElapses(k) ==
    /\ k \in Stored(file)
    /\ file.deliveries[k].waiting
    /\ file' = Put(file, k, [file.deliveries[k] EXCEPT !.waiting = FALSE])
    /\ UNCHANGED <<thread, posts, scan, worker, policy>>

\* expireGrokBotDeliveries
ExpireDeadlines(p) ==
    /\ p \in GrokBots
    /\ file' = expireManaged(file, p, policy[p] # "none")
    /\ UNCHANGED <<thread, posts, scan, worker, policy>>

\* retryGrokBotDelivery, as the routine's owner asks for it.
Retry(k) ==
    /\ k \in Stored(file)
    /\ file.deliveries[k].participant \in GrokBots
    /\ policy[file.deliveries[k].participant] # "none"
    /\ file.deliveries[k].state = "failed"
    /\ ~isRetiredThreadDelivery(file.deliveries[k])
    /\ file' = retryGrokBotDelivery(file, k)
    /\ UNCHANGED <<thread, posts, scan, worker, policy>>

SetPolicy(p, v) ==
    /\ p \in GrokBots
    /\ policy[p] # v
    /\ policy' = [policy EXCEPT ![p] = v]
    /\ UNCHANGED <<thread, file, posts, scan, worker>>

WorkspaceReset ==
    /\ file # emptyFile
    /\ file' = emptyFile
    /\ UNCHANGED <<thread, posts, scan, worker, policy>>

-----------------------------------------------------------------------------
Author ==
    \/ \E m \in Message, i \in Identity : Post(m, i)
    \/ \E m \in Message, i \in Identity \cup {None} : Assign(m, i)
    \/ \E i \in Identity, p \in Participant : Edit(i, p)
    \/ DeleteThread \/ RestoreThread
    \/ \E x \in posts : QueuePost(x) \/ LosePost(x)

Reconcile(s) ==
    \/ \E p \in Participant, complete \in BOOLEAN : BeginScan(s, p, complete)
    \/ ApplyScan(s) \/ DropScan(s)

Serve(w) ==
    \/ \E p \in Participant : Claim(w, p)
    \/ ReadClaim(w) \/ ReadRefused(w) \/ FailClaim(w)
    \/ \E k \in Key, quoted \in BOOLEAN : BeginReply(w, k, quoted)
    \/ CheckLease(w) \/ AppendReply(w) \/ CommitReply(w) \/ MarkReplied(w)
    \/ LoseWorker(w)

Adapter(k) ==
    \/ Accept(k)
    \/ \E phase \in Phase : Progress(k, phase)
    \/ \E retryable \in BOOLEAN : Fail(k, retryable)

Passing ==
    \/ \E k \in Key : LeaseExpires(k) \/ BackoffElapses(k) \/ Retry(k)
    \/ \E p \in Participant : ExpireDeadlines(p)
    \/ \E p \in Participant, v \in {"none", "ready", "paused"} : SetPolicy(p, v)

Next ==
    \/ Author
    \/ \E s \in Scanner : Reconcile(s)
    \/ \E w \in Worker : Serve(w)
    \/ \E k \in Key : Adapter(k)
    \/ Passing
    \/ WorkspaceReset

Spec == Init /\ [][Next]_vars

\* Handlers that are running go on, posters finish, connected agents keep
\* polling (which reconciles and claims), access to a thread comes back, the
\* clock runs, and the workspace is not reset for ever; agents may do nothing
\* at all.
FairSpec ==
    /\ Spec
    /\ <>[][~WorkspaceReset]_vars
    /\ \A s \in Scanner, p \in Participant :
         /\ SF_vars(BeginScan(s, p, TRUE))
         /\ SF_vars(ApplyScan(s) /\ scan[s].participant = p)
    /\ \A w \in Worker, p \in Participant :
         /\ SF_vars(Claim(w, p))
         /\ SF_vars(ReadClaim(w) /\ worker[w].participant = p)
    /\ \A w \in Worker :
         WF_vars(FailClaim(w) \/ CheckLease(w) \/ AppendReply(w)
                   \/ CommitReply(w) \/ MarkReplied(w))
    /\ \A k \in Key : WF_vars(LeaseExpires(k)) /\ WF_vars(BackoffElapses(k))

-----------------------------------------------------------------------------
Record(k) == file.deliveries[k]

(***************************************************************************)
(* No execution runs past MAX_ATTEMPTS without a new assignment or an      *)
(* owner's retry, whatever mix of expiries, retryable failures and refunds *)
(* came before, and a queued delivery always has an attempt left.          *)
(***************************************************************************)
AttemptsBounded ==
    \A k \in Stored(file) :
        /\ Record(k).attempts <= MAX_ATTEMPTS
        /\ Record(k).state = "queued" => Record(k).attempts < MAX_ATTEMPTS

(***************************************************************************)
(* The lease fields agree with the state: exactly the deliveries in work   *)
(* carry a lease, only they can be live, only queued ones wait out a       *)
(* backoff, and no lease id authorizes two deliveries.                     *)
(***************************************************************************)
LeaseFencing ==
    /\ \A k \in Stored(file) :
         /\ active(Record(k)) <=> Record(k).leaseId # None
         /\ Record(k).live => active(Record(k))
         /\ Record(k).waiting => Record(k).state = "queued"
    /\ \A j, k \in Stored(file) :
         active(Record(j)) /\ Record(j).leaseId = Record(k).leaseId => j = k

(***************************************************************************)
(* The author is told "replied" only when the thread holds that identity's *)
(* response: through marks that arrive late, scans applied out of order,   *)
(* crashes between append and save, and rebinding of identities.           *)
(***************************************************************************)
RepliedIsCanonical ==
    \A k \in Stored(file) :
        Record(k).state = "replied" =>
            thread.request[k.message] = RespondedBy(k.identity)

(***************************************************************************)
(* A Grok Bot participant never has two managed executions in flight, even *)
(* across disconnects, reconnects, retries and rebinds.                    *)
(***************************************************************************)
OneManagedExecution ==
    \A j, k \in Stored(file) :
        /\ active(Record(j)) /\ Record(j).managed
        /\ active(Record(k)) /\ Record(k).managed
        /\ Record(j).participant = Record(k).participant
        => j = k

(***************************************************************************)
(* "does not let an older scan revive a retired assignment": a retired     *)
(* delivery is queued again only for another participant, or by a thread   *)
(* revision newer than any its participant's deliveries have seen.         *)
(***************************************************************************)
NoStaleRevival ==
    [][\A k \in Stored(file) :
         /\ Record(k).state = "failed" /\ Record(k).error = "retired"
         /\ file'.deliveries[k] # None /\ file'.deliveries[k].state = "queued"
         => LET p == Record(k).participant
            IN  \/ file'.deliveries[k].participant # p
                \/ file'.canonicalRevisions[p] > file.canonicalRevisions[p]]_vars

(***************************************************************************)
(* "Bring a participant's delivery state in line with the thread files":   *)
(* applying a complete scan of the thread as it stands leaves a delivery   *)
(* that is not retired for every open request.                             *)
(***************************************************************************)
InLineWithThread ==
    \A k \in Key :
        LET p == thread.member[k.identity]
            g == reconcileThreadDeliveries(file, p, thread, TRUE)
        IN  thread.present /\ Current(thread, k, p)
              => /\ k \in Stored(g)
                 /\ g.deliveries[k].participant = p
                 /\ ~isRetiredThreadDelivery(g.deliveries[k])

(***************************************************************************)
(* Every open request of a thread that stays is answered, withdrawn,       *)
(* handed to someone else, or fails where its author can see it, although  *)
(* posters, scanners and agents may die at any point.  The one way out is  *)
(* the fence an absent thread leaves (InLineWithThread is the finding).    *)
(***************************************************************************)
RequestSettles ==
    \A k \in Key :
        thread.present /\ thread.request[k.message] = OpenFor(k.identity)
          ~> \/ ~thread.present
             \/ thread.request[k.message] # OpenFor(k.identity)
             \/ Record(k) # None /\ Record(k).state = "failed"
             \/ file.canonicalRevisions[thread.member[k.identity]] = Fence
=============================================================================
