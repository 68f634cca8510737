------------------------ MODULE ThreadDeliveryStore -------------------------
(***************************************************************************)
(* packages/server/src/thread-delivery-store.ts: the delivery file of one  *)
(* thread, and each exported mutation as an operator from the file it      *)
(* loads under the lock to the file it saves.                              *)
(*                                                                         *)
(* A delivery is keyed by message and conversation identity.  The order of *)
(* the deliveries array is kept as, for each key, the set of keys ahead of *)
(* it.  Times are kept as what they decide: whether a lease is unexpired   *)
(* (live) and whether nextAttemptAt is still to come (waiting).            *)
(***************************************************************************)
EXTENDS Naturals

CONSTANTS Message,       \* sequence numbers of the messages that ask for a reply
          Identity,      \* conversation identities
          Participant,   \* members: people and agents
          Lease,         \* lease ids (a finite pool; an unused one is a new one)
          None,          \* undefined
          MAX_ATTEMPTS,
          Fence          \* Number.MAX_SAFE_INTEGER

ASSUME StoreConstants ==
    /\ Message \subseteq Nat
    /\ MAX_ATTEMPTS \in Nat \ {0}
    /\ Fence \in Nat
    /\ None \notin Lease

Key == [message : Message, identity : Identity]

DeliveryState == {"queued", "leased", "accepted", "working", "receiving",
                  "replied", "failed"}

\* "exhausted" is DELIVERY_FAILED, "retired" DELIVERY_RETIRED, "unconfirmed"
\* REMOTE_EXECUTION_UNCONFIRMED, "agent" any code an adapter reports.
ErrorCode == {"none", "retired", "notFound", "unconfirmed", "exhausted",
              "access", "agent"}

DeliveryRecord ==
    [participant : Participant, state : DeliveryState, attempts : Nat,
     leaseId : Lease \cup {None}, live : BOOLEAN, waiting : BOOLEAN,
     managed : BOOLEAN, error : ErrorCode]

ASSUME NoneIsNoRecord == None \notin DeliveryRecord /\ None \notin Key

DeliveryFile ==
    [deliveries : [Key -> DeliveryRecord \cup {None}],
     ahead : [Key -> SUBSET Key],
     canonicalRevisions : [Participant -> Nat]]

emptyFile ==
    [deliveries |-> [k \in Key |-> None],
     ahead |-> [k \in Key |-> {}],
     canonicalRevisions |-> [p \in Participant |-> 0]]

Stored(f) == {k \in Key : f.deliveries[k] # None}

active(r) == r.state \notin {"queued", "replied", "failed"}
Terminal(r) == r.state \in {"replied", "failed"}
isRetiredThreadDelivery(r) == r.error \in {"retired", "notFound"}

NewRecord(p, state) ==
    [participant |-> p, state |-> state, attempts |-> 0, leaseId |-> None,
     live |-> FALSE, waiting |-> FALSE, managed |-> FALSE, error |-> "none"]

\* Slip: the lease outlives the delivery's state.
Settle_KeepsLease(r, state, error) ==
    [r EXCEPT !.state = state, !.live = FALSE, !.waiting = FALSE,
              !.error = error]

\* Every exit from a lease clears the lease and the backoff with it.
Settle(r, state, error) ==
    [r EXCEPT !.state = state, !.leaseId = None, !.live = FALSE,
              !.waiting = FALSE, !.error = error]

\* Slip: attempts is left undefined.
Requeue_Undefined(r) == [Settle(r, "queued", "none") EXCEPT !.attempts = None]

Requeue(r) == [Settle(r, "queued", "none") EXCEPT !.attempts = 0]

Put(f, k, r) == [f EXCEPT !.deliveries[k] = r]

\* deliveries.push for each key of a set, in message order.
PushAll(f, keys, record) ==
    [f EXCEPT
       !.deliveries = [k \in Key |-> IF k \in keys THEN record[k]
                                     ELSE f.deliveries[k]],
       !.ahead = [k \in Key |->
           IF k \in keys
           THEN Stored(f) \cup {j \in keys : j.message < k.message}
           ELSE f.ahead[k]]]

\* deliveries.filter
DropAll(f, keys) ==
    [f EXCEPT
       !.deliveries = [k \in Key |-> IF k \in keys THEN None
                                     ELSE f.deliveries[k]],
       !.ahead = [k \in Key |-> IF k \in keys THEN {} ELSE f.ahead[k] \ keys]]

-----------------------------------------------------------------------------
(* leases *)

requireLease(f, k, lease, p) ==
    /\ f.deliveries[k] # None
    /\ lease # None
    /\ f.deliveries[k].leaseId = lease
    /\ f.deliveries[k].participant = p
    /\ f.deliveries[k].live

\* A managed delivery must be accepted before it is answered.
replyLease(f, k, lease, p) ==
    /\ requireLease(f, k, lease, p)
    /\ ~(f.deliveries[k].managed /\ f.deliveries[k].state = "leased")

\* A managed claim has one absolute deadline; any other starts over.  Called
\* on an unexpired lease, renewing it and leaving it alone are both "live".
acceptThreadDelivery(f, k) == Put(f, k, [f.deliveries[k] EXCEPT !.state = "accepted"])

progressThreadDelivery(f, k, phase) ==
    Put(f, k, [f.deliveries[k] EXCEPT !.state = phase])

\* Slip: a spent delivery may be retried once more.
failThreadDelivery_OneMore(f, k, retryable, spendAttempt, error, revision) ==
    LET r == f.deliveries[k]
        refund == retryable /\ ~spendAttempt
        attempts == IF refund /\ r.attempts > 0 THEN r.attempts - 1 ELSE r.attempts
        retry == refund \/ (~r.managed /\ retryable /\ attempts <= MAX_ATTEMPTS)
        wm == f.canonicalRevisions[r.participant]
    IN  [Put(f, k, [Settle(r, IF retry THEN "queued" ELSE "failed", error)
                      EXCEPT !.attempts = attempts,
                             !.waiting = retry /\ ~refund])
         EXCEPT !.canonicalRevisions[r.participant] =
                    IF revision > wm THEN revision ELSE wm]

\* revision is canonicalThreadRevision, 0 when the caller passes none.
failThreadDelivery(f, k, retryable, spendAttempt, error, revision) ==
    LET r == f.deliveries[k]
        refund == retryable /\ ~spendAttempt
        attempts == IF refund /\ r.attempts > 0 THEN r.attempts - 1 ELSE r.attempts
        retry == refund \/ (~r.managed /\ retryable /\ attempts < MAX_ATTEMPTS)
        wm == f.canonicalRevisions[r.participant]
    IN  [Put(f, k, [Settle(r, IF retry THEN "queued" ELSE "failed", error)
                      EXCEPT !.attempts = attempts,
                             !.waiting = retry /\ ~refund])
         EXCEPT !.canonicalRevisions[r.participant] =
                    IF revision > wm THEN revision ELSE wm]

markThreadDeliveryReplied(f, k, p) ==
    IF /\ f.deliveries[k] # None
       /\ f.deliveries[k].participant = p
       /\ f.deliveries[k].state # "replied"
    THEN Put(f, k, Settle(f.deliveries[k], "replied", "none"))
    ELSE f

-----------------------------------------------------------------------------
(* Grok Bot deliveries *)

Overdue(f, k, p, includeLegacy) ==
    /\ f.deliveries[k] # None
    /\ f.deliveries[k].participant = p
    /\ f.deliveries[k].managed \/ includeLegacy
    /\ active(f.deliveries[k])
    /\ ~f.deliveries[k].live

expireManaged(f, p, includeLegacy) ==
    [f EXCEPT !.deliveries = [k \in Key |->
        IF Overdue(f, k, p, includeLegacy)
        THEN [Settle(f.deliveries[k], "failed", "unconfirmed")
                EXCEPT !.managed = TRUE]
        ELSE f.deliveries[k]]]

retryGrokBotDelivery(f, k) == Put(f, k, Requeue(f.deliveries[k]))

-----------------------------------------------------------------------------
(* claimThreadDelivery; policy is "none", "ready" or "paused" (disabled, or  *)
(* stopped on an error) *)

Considered(f, p, policy) ==
    {k \in Stored(f) : /\ f.deliveries[k].participant = p
                       /\ ~(f.deliveries[k].managed /\ policy = "none")
                       /\ ~Terminal(f.deliveries[k])}

Holds(r) == r.waiting \/ (r.state # "queued" /\ r.live)

\* An earlier delivery of the same conversation identity holds this one up.
Blocked(f, considered, k) ==
    \E j \in considered \cap (f.ahead[k] \cup {k}) :
        j.identity = k.identity /\ Holds(f.deliveries[j])

Spent(r) == r.state # "queued" /\ r.attempts >= MAX_ATTEMPTS

Claimable(f, p, policy) ==
    LET considered == Considered(f, p, policy)
        open == {k \in considered : /\ ~Blocked(f, considered, k)
                                    /\ ~Spent(f.deliveries[k])}
    IN  {k \in open : open \cap f.ahead[k] = {}}

\* Slip: a spent delivery is passed over.
Exhausted_Skipped(f, p, policy) == {}

\* Deliveries the scan gives up on its way to the candidate.
Exhausted(f, p, policy) ==
    LET considered == Considered(f, p, policy)
    IN  {k \in considered :
           /\ ~Blocked(f, considered, k)
           /\ Spent(f.deliveries[k])
           /\ \A c \in Claimable(f, p, policy) : k \in f.ahead[c]}

\* Slip: only a paused connection holds a participant back.
Held_PausedOnly(f, p, policy) == policy = "paused"

\* A managed participant runs one delivery at a time, and none while one of
\* its executions is unconfirmed.
Held(f, p, policy) ==
    /\ policy # "none"
    /\ \/ policy = "paused"
       \/ \E k \in Stored(f) :
            /\ f.deliveries[k].participant = p
            /\ active(f.deliveries[k]) \/ f.deliveries[k].error = "unconfirmed"

Leased(r, lease, policy) ==
    [r EXCEPT !.state = "leased", !.leaseId = lease, !.live = TRUE,
              !.managed = (r.managed \/ policy # "none"),
              !.attempts = r.attempts + 1, !.waiting = FALSE, !.error = "none"]

\* The expiry pass a claim makes for a managed participant.
BeforeClaim(f, p, policy) ==
    IF policy = "none" THEN f ELSE expireManaged(f, p, TRUE)

\* The file a claim leaves; c is the candidate, or None.
claimThreadDelivery(f, p, policy, c, lease) ==
    [f EXCEPT !.deliveries = [k \in Key |->
        IF k = c THEN Leased(f.deliveries[k], lease, policy)
        ELSE IF k \in Exhausted(f, p, policy)
        THEN Settle(f.deliveries[k], "failed", "exhausted")
        ELSE f.deliveries[k]]]

-----------------------------------------------------------------------------
(* queueThreadDelivery and reconcileThreadDeliveries *)

queueThreadDelivery(f, k, p, threadRevision) ==
    IF threadRevision < f.canonicalRevisions[p] THEN f
    ELSE LET g == [f EXCEPT !.canonicalRevisions[p] = threadRevision]
         IN  IF k \in Stored(f) THEN g
             ELSE PushAll(g, {k}, [j \in {k} |-> NewRecord(p, "queued")])

\* A portable thread, as a scan digests it.
Request == [status : {"unsent", "none", "open", "responded"},
            identity : Identity \cup {None}]
Thread == [present : BOOLEAN, revision : Nat, request : [Message -> Request],
           member : [Identity -> Participant]]

\* The deliveries a thread asks of participant p.
Inputs(p, t) ==
    {k \in Key : /\ t.present
                 /\ t.request[k.message].status \in {"open", "responded"}
                 /\ t.request[k.message].identity = k.identity
                 /\ t.member[k.identity] = p}

\* Slip: any scan revives a retired assignment.
Reconciled_AnyScan(r, p, replied, fresh) ==
    IF r.participant # p
    THEN [Requeue(r) EXCEPT !.participant = p,
                            !.state = IF replied THEN "replied" ELSE "queued"]
    ELSE IF replied
    THEN IF r.state = "replied" THEN r ELSE Settle(r, "replied", "none")
    ELSE IF r.state = "failed" /\ isRetiredThreadDelivery(r)
    THEN Requeue(r)
    ELSE r

\* What one input makes of the record it finds; fresh says the thread moved
\* past the participant's watermark.
Reconciled(r, p, replied, fresh) ==
    IF r.participant # p
    THEN [Requeue(r) EXCEPT !.participant = p,
                            !.state = IF replied THEN "replied" ELSE "queued"]
    ELSE IF replied
    THEN IF r.state = "replied" THEN r ELSE Settle(r, "replied", "none")
    ELSE IF r.state = "failed" /\ isRetiredThreadDelivery(r) /\ fresh
    THEN Requeue(r)
    ELSE r

reconcileThreadDeliveries(f, p, t, complete) ==
    LET before == f.canonicalRevisions[p]
        raised == IF t.present /\ t.revision > before THEN t.revision ELSE before
        snapshotRevision == IF t.present THEN t.revision ELSE Fence
        inputs == Inputs(p, t)
        \* Deliveries of p that the scanned thread no longer asks for.
        missing == {k \in Stored(f) : /\ complete
                                      /\ snapshotRevision >= raised
                                      /\ f.deliveries[k].participant = p
                                      /\ k \notin inputs}
        removed == {k \in missing : Terminal(f.deliveries[k])}
        g == DropAll(f, removed)
        applied == IF t.revision >= raised THEN inputs ELSE {}
        replied(k) == t.request[k.message].status = "responded"
        h == [g EXCEPT
                !.canonicalRevisions[p] =
                    IF missing # {} THEN snapshotRevision ELSE raised,
                !.deliveries = [k \in Key |->
                    IF k \in missing \ removed
                    THEN Settle(g.deliveries[k], "failed", "retired")
                    ELSE IF k \in applied \cap Stored(g)
                    THEN Reconciled(g.deliveries[k], p, replied(k),
                                    t.revision > before)
                    ELSE g.deliveries[k]]]
    IN  PushAll(h, applied \ Stored(g),
                [k \in applied \ Stored(g) |->
                    NewRecord(p, IF replied(k) THEN "replied" ELSE "queued")])
=============================================================================
