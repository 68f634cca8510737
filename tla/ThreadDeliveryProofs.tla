------------------------ MODULE ThreadDeliveryProofs ------------------------
(***************************************************************************)
(* For any number of messages, identities, participants, handlers and      *)
(* leases: what the delivery file says of attempts, leases and managed     *)
(* executions stays consistent, and "replied" is never said of a request   *)
(* the thread does not show as answered.                                   *)
(***************************************************************************)
EXTENDS ThreadDelivery, TLAPS

RecordOK(r) ==
    /\ r \in DeliveryRecord
    /\ r.attempts <= MAX_ATTEMPTS
    /\ r.state = "queued" => r.attempts < MAX_ATTEMPTS
    /\ active(r) <=> r.leaseId # None
    /\ r.live => active(r)
    /\ r.waiting => r.state = "queued"

\* r becomes q without an execution being started.
Quiet(r, q) ==
    \/ q = None
    \/ /\ RecordOK(q)
       /\ active(q) => /\ r # None
                       /\ active(r)
                       /\ q.leaseId = r.leaseId
                       /\ q.participant = r.participant
                       /\ q.managed = r.managed

Unshared(f) ==
    \A j, k \in Stored(f) :
        active(f.deliveries[j]) /\ f.deliveries[j].leaseId = f.deliveries[k].leaseId
        => j = k

SingleManaged(f) ==
    \A j, k \in Stored(f) :
        /\ active(f.deliveries[j]) /\ f.deliveries[j].managed
        /\ active(f.deliveries[k]) /\ f.deliveries[k].managed
        /\ f.deliveries[j].participant = f.deliveries[k].participant
        => j = k

FileOK(f) ==
    /\ f \in DeliveryFile
    /\ \A k \in Stored(f) : RecordOK(f.deliveries[k])
    /\ Unshared(f)
    /\ SingleManaged(f)

\* Ending or withdrawing a delivery leaves a consistent record without lease.
LEMMA SettleOK ==
    ASSUME NEW r, RecordOK(r), NEW state \in {"queued", "replied", "failed"},
           NEW error \in ErrorCode,
           state = "queued" => r.attempts < MAX_ATTEMPTS
    PROVE  /\ RecordOK(Settle(r, state, error))
           /\ ~active(Settle(r, state, error))
<1> DEFINE q == Settle(r, state, error)
<1>1. q \in DeliveryRecord
  BY DEF RecordOK, DeliveryRecord, DeliveryState, Settle
<1>2. /\ q.state = state /\ q.leaseId = None /\ q.attempts = r.attempts
      /\ q.live = FALSE /\ q.waiting = FALSE
  BY DEF RecordOK, DeliveryRecord, Settle
<1>3. ~active(q)
  BY <1>2 DEF active
<1>4. q.attempts <= MAX_ATTEMPTS /\ (q.state = "queued" => q.attempts < MAX_ATTEMPTS)
  BY <1>2 DEF RecordOK
<1>5. ~q.live /\ ~q.waiting
  BY <1>2
<1> QED
  BY <1>1, <1>2, <1>3, <1>4, <1>5 DEF RecordOK

\* Requeueing a record (retryGrokBotDelivery, a reassignment, a revival)
\* leaves a well-formed queued one with every attempt left.
LEMMA RequeueOK ==
    ASSUME NEW r, RecordOK(r)
    PROVE  /\ RecordOK(Requeue(r))
           /\ ~active(Requeue(r))
           /\ Requeue(r).state = "queued"
<1> DEFINE q == Requeue(r)
<1>1. q \in DeliveryRecord
  BY DEF RecordOK, DeliveryRecord, DeliveryState, ErrorCode, Settle, Requeue
<1>2. /\ q.state = "queued" /\ q.leaseId = None /\ q.attempts = 0
      /\ q.live = FALSE /\ q.waiting = FALSE
  BY DEF RecordOK, DeliveryRecord, Settle, Requeue
<1>3. ~active(q)
  BY <1>2 DEF active
<1>4. q.attempts <= MAX_ATTEMPTS /\ q.attempts < MAX_ATTEMPTS
  BY <1>2, StoreConstants
<1>5. ~q.live /\ ~q.waiting
  BY <1>2
<1> QED
  BY <1>1, <1>2, <1>3, <1>4, <1>5 DEF RecordOK

\* The records queueThreadDelivery and reconcileThreadDeliveries push are
\* well formed and hold no lease.
LEMMA NewRecordOK ==
    ASSUME NEW p \in Participant, NEW state \in {"queued", "replied"}
    PROVE  /\ RecordOK(NewRecord(p, state))
           /\ ~active(NewRecord(p, state))
           /\ NewRecord(p, state).state = state
<1> DEFINE q == NewRecord(p, state)
<1>1. q \in DeliveryRecord
  BY DEF DeliveryRecord, DeliveryState, ErrorCode, NewRecord
<1>2. /\ q.state = state /\ q.leaseId = None /\ q.attempts = 0
      /\ q.live = FALSE /\ q.waiting = FALSE
  BY DEF NewRecord
<1>3. ~active(q)
  BY <1>2 DEF active
<1>4. q.attempts <= MAX_ATTEMPTS /\ q.attempts < MAX_ATTEMPTS
  BY <1>2, StoreConstants
<1>5. ~q.live /\ ~q.waiting
  BY <1>2
<1> QED
  BY <1>1, <1>2, <1>3, <1>4, <1>5 DEF RecordOK

\* A record that is left alone is quiet, and so is one without execution.
LEMMA QuietCases ==
    ASSUME NEW r, NEW q, RecordOK(q), q = r \/ ~active(q)
    PROVE  Quiet(r, q)
<1>1. q # None
  BY NoneIsNoRecord DEF RecordOK
<1> QED
  BY <1>1 DEF Quiet

\* A file whose records change quietly stays consistent.
LEMMA QuietStep ==
    ASSUME NEW f, FileOK(f), NEW g \in DeliveryFile,
           \A k \in Key : Quiet(f.deliveries[k], g.deliveries[k])
    PROVE  FileOK(g)
<1>1. \A k \in Stored(g) : RecordOK(g.deliveries[k])
  BY DEF Quiet, Stored
<1>2. ASSUME NEW k \in Stored(g), active(g.deliveries[k])
      PROVE  /\ k \in Stored(f)
             /\ active(f.deliveries[k])
             /\ g.deliveries[k].leaseId = f.deliveries[k].leaseId
             /\ g.deliveries[k].participant = f.deliveries[k].participant
             /\ g.deliveries[k].managed = f.deliveries[k].managed
  BY <1>2 DEF Quiet, Stored
<1>3. Unshared(g)
  <2> SUFFICES ASSUME NEW j \in Stored(g), NEW k \in Stored(g),
                      active(g.deliveries[j]),
                      g.deliveries[j].leaseId = g.deliveries[k].leaseId
               PROVE  j = k
    BY DEF Unshared
  <2>1. active(g.deliveries[k])
    BY <1>1 DEF RecordOK
  <2> QED
    BY <1>2, <2>1 DEF FileOK, Unshared
<1>4. SingleManaged(g)
  <2> SUFFICES ASSUME NEW j \in Stored(g), NEW k \in Stored(g),
                      active(g.deliveries[j]), g.deliveries[j].managed,
                      active(g.deliveries[k]), g.deliveries[k].managed,
                      g.deliveries[j].participant = g.deliveries[k].participant
               PROVE  j = k
    BY DEF SingleManaged
  <2>1. f.deliveries[j].managed /\ f.deliveries[k].managed
    BY <1>2
  <2> QED
    BY <1>2, <2>1 DEF FileOK, SingleManaged
<1> QED
  BY <1>1, <1>3, <1>4 DEF FileOK

KeepsReplies(f, g) ==
    \A k \in Stored(g) :
        g.deliveries[k].state = "replied" =>
            k \in Stored(f) /\ f.deliveries[k].state = "replied"

\* Saving one record, changed quietly.
LEMMA PutOK ==
    ASSUME NEW f, FileOK(f), NEW k \in Key, NEW q, RecordOK(q),
           Quiet(f.deliveries[k], q)
    PROVE  /\ FileOK(Put(f, k, q))
           /\ q.state # "replied" => KeepsReplies(f, Put(f, k, q))
           /\ \A j \in Key : Put(f, k, q).deliveries[j]
                              = IF j = k THEN q ELSE f.deliveries[j]
<1> DEFINE g == Put(f, k, q)
<1>1. \A j \in Key : g.deliveries[j] = IF j = k THEN q ELSE f.deliveries[j]
  BY DEF FileOK, DeliveryFile, Put
<1>2. g \in DeliveryFile
  BY DEF FileOK, DeliveryFile, Put, RecordOK
<1>3. \A j \in Key : Quiet(f.deliveries[j], g.deliveries[j])
  <2> SUFFICES ASSUME NEW j \in Key, j # k, f.deliveries[j] # None
               PROVE  Quiet(f.deliveries[j], g.deliveries[j])
    BY <1>1 DEF Quiet
  <2> QED
    BY <1>1, QuietCases DEF FileOK, Stored
<1>4. FileOK(g)
  BY <1>2, <1>3, QuietStep
<1>5. q.state # "replied" => KeepsReplies(f, g)
  BY <1>1 DEF KeepsReplies, Stored
<1> HIDE DEF g
<1> QED
  BY <1>1, <1>4, <1>5 DEF g

\* What the adapter holding the lease, and time, do to one record.
LEMMA LiveSteps ==
    ASSUME NEW f, FileOK(f), NEW k \in Stored(f), f.deliveries[k].live
    PROVE  /\ \A state \in {"accepted", "working", "receiving"} :
                LET g == Put(f, k, [f.deliveries[k] EXCEPT !.state = state])
                IN  FileOK(g) /\ KeepsReplies(f, g)
           /\ LET g == Put(f, k, [f.deliveries[k] EXCEPT !.live = FALSE])
              IN  FileOK(g) /\ KeepsReplies(f, g)
<1> DEFINE r == f.deliveries[k]
<1>1. RecordOK(r) /\ active(r) /\ k \in Key /\ r # None
  BY DEF FileOK, RecordOK, Stored
<1>2. r.waiting = FALSE /\ r.live = TRUE
  <2>1. r.state # "queued"
    BY <1>1 DEF active
  <2>2. ~r.waiting
    BY <1>1, <2>1 DEF RecordOK
  <2> QED
    BY <1>1, <2>2 DEF RecordOK, DeliveryRecord
<1>3. ASSUME NEW state \in {"accepted", "working", "receiving"}
      PROVE  LET g == Put(f, k, [f.deliveries[k] EXCEPT !.state = state])
             IN  FileOK(g) /\ KeepsReplies(f, g)
  <2> DEFINE q == [r EXCEPT !.state = state]
  <2>1. q \in DeliveryRecord
    BY <1>1 DEF RecordOK, DeliveryRecord, DeliveryState
  <2>2. /\ q.state = state /\ q.leaseId = r.leaseId /\ q.attempts = r.attempts
        /\ q.live = r.live /\ q.waiting = r.waiting /\ q.managed = r.managed
        /\ q.participant = r.participant
    BY <1>1 DEF RecordOK, DeliveryRecord
  <2>3. active(q)
    BY <2>2 DEF active
  <2>4. ~q.waiting
    BY <1>2, <2>2
  <2>5. q.attempts <= MAX_ATTEMPTS /\ q.state # "queued" /\ q.leaseId # None
    BY <1>1, <2>2 DEF RecordOK
  <2>6. RecordOK(q)
    BY <2>1, <2>3, <2>4, <2>5 DEF RecordOK
  <2>7. Quiet(r, q)
    BY <1>1, <2>2, <2>6 DEF Quiet
  <2> HIDE DEF q
  <2> QED
    BY <1>1, <2>2, <2>6, <2>7, PutOK DEF q
<1>4. LET g == Put(f, k, [f.deliveries[k] EXCEPT !.live = FALSE])
      IN  FileOK(g) /\ KeepsReplies(f, g)
  <2> DEFINE q == [r EXCEPT !.live = FALSE]
  <2>1. q \in DeliveryRecord
    BY <1>1 DEF RecordOK, DeliveryRecord
  <2>2. /\ q.state = r.state /\ q.leaseId = r.leaseId /\ q.attempts = r.attempts
        /\ q.live = FALSE /\ q.waiting = r.waiting /\ q.managed = r.managed
        /\ q.participant = r.participant
    BY <1>1 DEF RecordOK, DeliveryRecord
  <2>3. active(q)
    BY <1>1, <2>2 DEF active
  <2>4. ~q.waiting /\ ~q.live
    BY <1>2, <2>2
  <2>5. /\ q.attempts <= MAX_ATTEMPTS /\ q.state # "queued" /\ q.leaseId # None
        /\ q.state # "replied"
    BY <1>1, <2>2 DEF RecordOK, active
  <2>6. RecordOK(q)
    BY <2>1, <2>3, <2>4, <2>5 DEF RecordOK
  <2>7. Quiet(r, q)
    BY <1>1, <2>2, <2>6 DEF Quiet
  <2> HIDE DEF q
  <2> QED
    BY <1>1, <2>5, <2>6, <2>7, PutOK DEF q
<1> QED
  BY <1>3, <1>4

\* nextAttemptAt passing keeps the file well formed and replied records replied.
LEMMA BackoffStep ==
    ASSUME NEW f, FileOK(f), NEW k \in Stored(f), f.deliveries[k].waiting
    PROVE  LET g == Put(f, k, [f.deliveries[k] EXCEPT !.waiting = FALSE])
           IN  FileOK(g) /\ KeepsReplies(f, g)
<1> DEFINE r == f.deliveries[k]
           q == [r EXCEPT !.waiting = FALSE]
<1>1. RecordOK(r) /\ r.state = "queued" /\ k \in Key
  BY DEF FileOK, RecordOK, Stored
<1>2. q \in DeliveryRecord
  BY <1>1 DEF RecordOK, DeliveryRecord
<1>3. /\ q.state = "queued" /\ q.leaseId = r.leaseId /\ q.attempts = r.attempts
      /\ q.live = r.live /\ q.waiting = FALSE
  BY <1>1 DEF RecordOK, DeliveryRecord
<1>4. ~active(q) /\ ~active(r)
  BY <1>1, <1>3 DEF active
<1>5. ~q.live /\ q.leaseId = None
  BY <1>1, <1>3, <1>4 DEF RecordOK
<1>6. ~q.waiting
  BY <1>3
<1>7. q.attempts <= MAX_ATTEMPTS /\ q.attempts < MAX_ATTEMPTS
  BY <1>1, <1>3 DEF RecordOK
<1>8. RecordOK(q)
  BY <1>2, <1>4, <1>5, <1>6, <1>7 DEF RecordOK
<1>9. Quiet(r, q)
  BY <1>4, <1>8, QuietCases
<1> HIDE DEF q
<1> QED
  BY <1>1, <1>3, <1>8, <1>9, PutOK DEF q

\* Giving a delivery up, or back to the queue, ends its execution and leaves
\* a queued one with an attempt to spend.
LEMMA FailStep ==
    ASSUME NEW f, FileOK(f), NEW k \in Stored(f), NEW retryable \in BOOLEAN,
           NEW spend \in BOOLEAN, NEW error \in ErrorCode, NEW revision \in Nat
    PROVE  LET g == failThreadDelivery(f, k, retryable, spend, error, revision)
           IN  FileOK(g) /\ KeepsReplies(f, g)
<1> DEFINE r == f.deliveries[k]
           refund == retryable /\ ~spend
           attempts == IF refund /\ r.attempts > 0 THEN r.attempts - 1
                       ELSE r.attempts
           retry == refund \/ (~r.managed /\ retryable /\ attempts < MAX_ATTEMPTS)
           q == [Settle(r, IF retry THEN "queued" ELSE "failed", error)
                   EXCEPT !.attempts = attempts, !.waiting = retry /\ ~refund]
           wm == f.canonicalRevisions[r.participant]
           h == Put(f, k, q)
           g == [h EXCEPT !.canonicalRevisions[r.participant] =
                            IF revision > wm THEN revision ELSE wm]
<1>1. RecordOK(r) /\ k \in Key /\ r.attempts \in Nat
  BY DEF FileOK, RecordOK, Stored, DeliveryRecord
<1>2. attempts \in Nat /\ attempts <= MAX_ATTEMPTS
  BY <1>1, StoreConstants DEF RecordOK
<1>3. retry => attempts < MAX_ATTEMPTS
  BY <1>1, StoreConstants DEF RecordOK
<1>4. q \in DeliveryRecord
  <2>1. (retry /\ ~refund) \in BOOLEAN
    OBVIOUS
  <2> HIDE DEF retry, refund, attempts
  <2> QED
    BY <1>1, <1>2, <2>1 DEF RecordOK, DeliveryRecord, DeliveryState, Settle
<1>5. /\ q.state = (IF retry THEN "queued" ELSE "failed")
      /\ q.leaseId = None /\ q.attempts = attempts /\ q.live = FALSE
      /\ q.waiting = (retry /\ ~refund)
  BY <1>1 DEF RecordOK, DeliveryRecord, Settle
<1>6. ~active(q) /\ q.state # "replied"
  BY <1>5 DEF active
<1>7. q.waiting => q.state = "queued"
  BY <1>5
<1>8. RecordOK(q)
  <2>1. ~q.live
    BY <1>5
  <2>2. q.attempts <= MAX_ATTEMPTS /\ (q.state = "queued" => q.attempts < MAX_ATTEMPTS)
    BY <1>2, <1>3, <1>5
  <2> HIDE DEF q
  <2> QED
    BY <1>4, <1>5, <1>6, <1>7, <2>1, <2>2 DEF RecordOK
<1>9. Quiet(r, q)
  BY <1>6, <1>8, QuietCases
<1> HIDE DEF q
<1>10. FileOK(h) /\ KeepsReplies(f, h)
  BY <1>1, <1>6, <1>8, <1>9, PutOK
<1>11. g.deliveries = h.deliveries /\ g \in DeliveryFile
  <2>1. wm \in Nat /\ h \in DeliveryFile
    BY <1>1, <1>10 DEF FileOK, DeliveryFile, RecordOK, DeliveryRecord
  <2>2. (IF revision > wm THEN revision ELSE wm) \in Nat
    BY <2>1
  <2> HIDE DEF h, wm
  <2> QED
    BY <2>1, <2>2 DEF DeliveryFile
<1> HIDE DEF h
<1>12. FileOK(g) /\ KeepsReplies(f, g)
  <2> HIDE DEF g
  <2> QED
    BY <1>10, <1>11 DEF FileOK, KeepsReplies, Unshared, SingleManaged, Stored
<1>13. g = failThreadDelivery(f, k, retryable, spend, error, revision)
  BY DEF failThreadDelivery, g, h, q
<1> HIDE DEF g
<1> QED
  BY <1>12, <1>13

\* Ending one delivery for good, or an owner's retry of it.
LEMMA EndSteps ==
    ASSUME NEW f, FileOK(f), NEW k \in Stored(f)
    PROVE  /\ FileOK(Put(f, k, Settle(f.deliveries[k], "replied", "none")))
           /\ \A j \in Stored(Put(f, k, Settle(f.deliveries[k], "replied", "none"))) \ {k} :
                /\ j \in Stored(f)
                /\ Put(f, k, Settle(f.deliveries[k], "replied", "none")).deliveries[j]
                     = f.deliveries[j]
           /\ FileOK(retryGrokBotDelivery(f, k))
           /\ KeepsReplies(f, retryGrokBotDelivery(f, k))
<1>1. RecordOK(f.deliveries[k]) /\ k \in Key
  BY DEF FileOK, Stored
<1>2. /\ RecordOK(Settle(f.deliveries[k], "replied", "none"))
      /\ Quiet(f.deliveries[k], Settle(f.deliveries[k], "replied", "none"))
  BY <1>1, SettleOK, QuietCases DEF ErrorCode
<1>3. /\ RecordOK(Requeue(f.deliveries[k]))
      /\ Quiet(f.deliveries[k], Requeue(f.deliveries[k]))
      /\ Requeue(f.deliveries[k]).state = "queued"
  BY <1>1, RequeueOK, QuietCases
<1>4. FileOK(Put(f, k, Settle(f.deliveries[k], "replied", "none")))
  BY <1>1, <1>2, PutOK
<1>5. FileOK(retryGrokBotDelivery(f, k)) /\ KeepsReplies(f, retryGrokBotDelivery(f, k))
  BY <1>1, <1>3, PutOK DEF retryGrokBotDelivery
<1>6. \A j \in Key : Put(f, k, Settle(f.deliveries[k], "replied", "none")).deliveries[j]
                     = IF j = k THEN Settle(f.deliveries[k], "replied", "none")
                       ELSE f.deliveries[j]
  BY <1>1, <1>2, PutOK
<1> QED
  BY <1>4, <1>5, <1>6 DEF Stored

\* An overdue managed execution ends unconfirmed; the rest is left alone.
LEMMA ExpireStep ==
    ASSUME NEW f, FileOK(f), NEW p, NEW legacy
    PROVE  LET g == expireManaged(f, p, legacy)
           IN  /\ FileOK(g)
               /\ KeepsReplies(f, g)
               /\ \A k \in Key : Quiet(f.deliveries[k], g.deliveries[k])
<1> DEFINE e(r) == [Settle(r, "failed", "unconfirmed") EXCEPT !.managed = TRUE]
           g == expireManaged(f, p, legacy)
<1>1. ASSUME NEW r, RecordOK(r)
      PROVE  RecordOK(e(r)) /\ ~active(e(r)) /\ e(r).state = "failed"
  <2> DEFINE q == Settle(r, "failed", "unconfirmed")
  <2>1. RecordOK(q) /\ ~active(q)
    BY <1>1, SettleOK DEF ErrorCode
  <2>2. q.state = "failed" /\ q.leaseId = None /\ q.live = FALSE /\ q.waiting = FALSE
    BY <1>1 DEF Settle, RecordOK, DeliveryRecord
  <2> HIDE DEF q
  <2> DEFINE x == [q EXCEPT !.managed = TRUE]
  <2>3. x \in DeliveryRecord
    BY <2>1 DEF RecordOK, DeliveryRecord
  <2>4. /\ x.state = "failed" /\ x.leaseId = None /\ x.live = FALSE
        /\ x.waiting = FALSE /\ x.attempts = q.attempts
    BY <2>1, <2>2 DEF RecordOK, DeliveryRecord
  <2>5. ~x.live /\ ~x.waiting
    BY <2>4
  <2>6. ~active(x)
    BY <2>4 DEF active
  <2>7. x.attempts <= MAX_ATTEMPTS
    BY <2>1, <2>4 DEF RecordOK
  <2> HIDE DEF x
  <2>8. RecordOK(x)
    BY <2>3, <2>4, <2>5, <2>6, <2>7 DEF RecordOK
  <2> QED
    BY <2>4, <2>6, <2>8 DEF x, q
<1> HIDE DEF e
<1>2. \A k \in Key : g.deliveries[k] = IF Overdue(f, k, p, legacy)
                                      THEN e(f.deliveries[k]) ELSE f.deliveries[k]
  BY DEF expireManaged, FileOK, DeliveryFile, e
<1>3. \A k \in Key : Overdue(f, k, p, legacy) => RecordOK(f.deliveries[k])
  BY DEF Overdue, FileOK, Stored
<1>4. g \in DeliveryFile
  <2>1. \A k \in Key : (IF Overdue(f, k, p, legacy) THEN e(f.deliveries[k])
                                ELSE f.deliveries[k]) \in DeliveryRecord \cup {None}
    BY <1>1, <1>3 DEF RecordOK, FileOK, DeliveryFile
  <2> QED
    BY <2>1 DEF expireManaged, FileOK, DeliveryFile, e
<1>5. \A k \in Key : Quiet(f.deliveries[k], g.deliveries[k])
  <2> SUFFICES ASSUME NEW k \in Key PROVE Quiet(f.deliveries[k], g.deliveries[k])
    OBVIOUS
  <2>1. CASE Overdue(f, k, p, legacy)
    BY <1>1, <1>2, <1>3, <2>1, QuietCases
  <2>2. CASE ~Overdue(f, k, p, legacy) /\ f.deliveries[k] # None
    BY <1>2, <2>2, QuietCases DEF FileOK, Stored
  <2>3. CASE ~Overdue(f, k, p, legacy) /\ f.deliveries[k] = None
    BY <1>2, <2>3 DEF Quiet
  <2> QED
    BY <2>1, <2>2, <2>3
<1>6. KeepsReplies(f, g)
  BY <1>1, <1>2, <1>3 DEF KeepsReplies, Stored, Overdue
<1> QED
  BY <1>4, <1>5, <1>6, QuietStep

\* A claim that finds no candidate only gives spent deliveries up.
LEMMA ExhaustStep ==
    ASSUME NEW f, FileOK(f), NEW p, NEW status
    PROVE  LET h == claimThreadDelivery(f, p, status, None, None)
           IN  /\ FileOK(h)
               /\ KeepsReplies(f, h)
               /\ \A k \in Key : Quiet(f.deliveries[k], h.deliveries[k])
<1> DEFINE E == Exhausted(f, p, status)
           e(r) == Settle(r, "failed", "exhausted")
           h == claimThreadDelivery(f, p, status, None, None)
<1>1. \A k \in E : k \in Stored(f) /\ RecordOK(f.deliveries[k])
  BY DEF Exhausted, Considered, FileOK
<1>2. \A k \in E : /\ RecordOK(e(f.deliveries[k])) /\ ~active(e(f.deliveries[k]))
                    /\ e(f.deliveries[k]).state = "failed"
  <2> SUFFICES ASSUME NEW k \in E
               PROVE  /\ RecordOK(e(f.deliveries[k])) /\ ~active(e(f.deliveries[k]))
                      /\ e(f.deliveries[k]).state = "failed"
    OBVIOUS
  <2>1. RecordOK(e(f.deliveries[k])) /\ ~active(e(f.deliveries[k]))
    BY <1>1, SettleOK DEF ErrorCode
  <2>2. e(f.deliveries[k]).state = "failed"
    BY <1>1 DEF Settle, RecordOK, DeliveryRecord
  <2> QED
    BY <2>1, <2>2
<1> HIDE DEF E, e
<1>3. h = [f EXCEPT !.deliveries =
             [k \in Key |-> IF k \in E THEN e(f.deliveries[k]) ELSE f.deliveries[k]]]
  BY NoneIsNoRecord DEF claimThreadDelivery, E, e
<1>4. \A k \in Key : h.deliveries[k] = IF k \in E THEN e(f.deliveries[k])
                                      ELSE f.deliveries[k]
  BY <1>3 DEF FileOK, DeliveryFile
<1>5. h \in DeliveryFile
  <2>1. \A k \in Key : (IF k \in E THEN e(f.deliveries[k]) ELSE f.deliveries[k])
                       \in DeliveryRecord \cup {None}
    BY <1>2 DEF RecordOK, FileOK, DeliveryFile
  <2> QED
    BY <1>3, <2>1 DEF FileOK, DeliveryFile
<1> HIDE DEF h
<1>6. \A k \in Key : Quiet(f.deliveries[k], h.deliveries[k])
  <2> SUFFICES ASSUME NEW k \in Key PROVE Quiet(f.deliveries[k], h.deliveries[k])
    OBVIOUS
  <2>1. CASE k \in E
    BY <1>2, <1>4, <2>1, QuietCases
  <2>2. CASE k \notin E /\ f.deliveries[k] # None
    BY <1>4, <2>2, QuietCases DEF FileOK, Stored
  <2>3. CASE k \notin E /\ f.deliveries[k] = None
    BY <1>4, <2>3 DEF Quiet
  <2> QED
    BY <2>1, <2>2, <2>3
<1>7. KeepsReplies(f, h)
  BY <1>1, <1>2, <1>4 DEF KeepsReplies, Stored
<1> QED
  BY <1>5, <1>6, <1>7, QuietStep DEF h

\* A claim starts one execution, with a lease of its own; a managed
\* participant had none running.
LEMMA ClaimStep ==
    ASSUME NEW f, FileOK(f), NEW p, NEW status, ~Held(f, p, status),
           NEW c \in Claimable(f, p, status), NEW l \in Lease,
           \A k \in Stored(f) : f.deliveries[k].leaseId # l
    PROVE  LET g == claimThreadDelivery(f, p, status, c, l)
           IN  FileOK(g) /\ KeepsReplies(f, g)
<1> DEFINE h == claimThreadDelivery(f, p, status, None, None)
           g == claimThreadDelivery(f, p, status, c, l)
           r == f.deliveries[c]
           q == Leased(r, l, status)
<1>1. /\ c \in Stored(f) /\ c \in Key /\ RecordOK(r)
      /\ r.participant = p /\ ~(r.managed /\ status = "none") /\ ~Terminal(r)
      /\ ~Spent(r)
  BY DEF Claimable, Considered, FileOK, Stored
<1>2. l # None
  BY StoreConstants
<1>3. r.attempts + 1 \in Nat /\ r.attempts + 1 <= MAX_ATTEMPTS
  BY <1>1, StoreConstants DEF Spent, RecordOK, DeliveryRecord
<1>4. q \in DeliveryRecord
  <2>1. (r.managed \/ status # "none") \in BOOLEAN
    OBVIOUS
  <2> QED
    BY <1>1, <1>3, <2>1 DEF RecordOK, DeliveryRecord, DeliveryState, ErrorCode, Leased
<1>5. /\ q.state = "leased" /\ q.leaseId = l /\ q.attempts = r.attempts + 1
      /\ q.live = TRUE /\ q.waiting = FALSE /\ q.participant = p
      /\ q.managed = (r.managed \/ status # "none")
  BY <1>1 DEF RecordOK, DeliveryRecord, Leased
<1>6. active(q)
  BY <1>5 DEF active
<1>7. RecordOK(q)
  <2>1. ~q.waiting
    BY <1>5
  <2> QED
    BY <1>2, <1>3, <1>4, <1>5, <1>6, <2>1 DEF RecordOK
<1>8. /\ FileOK(h) /\ KeepsReplies(f, h)
      /\ \A k \in Key : Quiet(f.deliveries[k], h.deliveries[k])
  BY ExhaustStep
<1>9. \A k \in Key : g.deliveries[k] = IF k = c THEN q ELSE h.deliveries[k]
  BY NoneIsNoRecord DEF claimThreadDelivery, FileOK, DeliveryFile
<1>10. g \in DeliveryFile
  <2>1. g.deliveries = [k \in Key |-> IF k = c THEN q ELSE h.deliveries[k]]
    BY NoneIsNoRecord DEF claimThreadDelivery, FileOK, DeliveryFile
  <2>2. g = [f EXCEPT !.deliveries = g.deliveries]
    BY DEF claimThreadDelivery, FileOK, DeliveryFile
  <2>3. \A k \in Key : (IF k = c THEN q ELSE h.deliveries[k]) \in DeliveryRecord \cup {None}
    BY <1>4, <1>8 DEF FileOK, DeliveryFile
  <2> HIDE DEF g, h, q
  <2>4. g.deliveries \in [Key -> DeliveryRecord \cup {None}]
    BY <2>1, <2>3
  <2> QED
    BY <2>2, <2>4 DEF FileOK, DeliveryFile
<1> HIDE DEF g, h, q
<1>11. \A k \in Stored(g) : RecordOK(g.deliveries[k])
  BY <1>7, <1>8, <1>9 DEF FileOK, Stored
<1>12. ASSUME NEW k \in Stored(g), k # c, active(g.deliveries[k])
       PROVE  /\ k \in Stored(f) /\ active(f.deliveries[k])
              /\ g.deliveries[k].leaseId # l
              /\ g.deliveries[k].participant = f.deliveries[k].participant
  BY <1>8, <1>9, <1>12 DEF Quiet, Stored
<1>13. Unshared(g)
  <2> SUFFICES ASSUME NEW j \in Stored(g), NEW k \in Stored(g),
                      active(g.deliveries[j]),
                      g.deliveries[j].leaseId = g.deliveries[k].leaseId
               PROVE  j = k
    BY DEF Unshared
  <2>1. active(g.deliveries[k])
    BY <1>11 DEF RecordOK
  <2>2. CASE j = c \/ k = c
    BY <1>5, <1>9, <1>12, <2>1, <2>2 DEF Stored
  <2>3. CASE j # c /\ k # c
    BY <1>8, <1>9, <2>3 DEF FileOK, Unshared, Stored
  <2> QED
    BY <2>2, <2>3
<1>14. SingleManaged(g)
  <2> SUFFICES ASSUME NEW j \in Stored(g), NEW k \in Stored(g),
                      active(g.deliveries[j]), g.deliveries[j].managed,
                      active(g.deliveries[k]), g.deliveries[k].managed,
                      g.deliveries[j].participant = g.deliveries[k].participant,
                      j # k
               PROVE  FALSE
    BY DEF SingleManaged
  <2>1. q.managed => status # "none"
    BY <1>1, <1>5
  <2>2. status # "none" =>
          \A i \in Stored(f) : f.deliveries[i].participant = p => ~active(f.deliveries[i])
    BY DEF Held
  <2>3. CASE j = c
    BY <1>5, <1>9, <1>12, <2>1, <2>2, <2>3 DEF Stored
  <2>4. CASE k = c
    BY <1>5, <1>9, <1>12, <2>1, <2>2, <2>4 DEF Stored
  <2>5. CASE j # c /\ k # c
    BY <1>8, <1>9, <2>5 DEF FileOK, SingleManaged, Stored
  <2> QED
    BY <2>3, <2>4, <2>5
<1>15. KeepsReplies(f, g)
  BY <1>5, <1>8, <1>9 DEF KeepsReplies, Stored
<1> QED
  BY <1>10, <1>11, <1>13, <1>14, <1>15 DEF FileOK, g

\* Pushing new records that no execution has touched.
LEMMA PushStep ==
    ASSUME NEW f, FileOK(f), NEW keys \in SUBSET Key, NEW record,
           \A k \in keys : RecordOK(record[k]) /\ ~active(record[k])
    PROVE  /\ FileOK(PushAll(f, keys, record))
           /\ \A k \in Key : PushAll(f, keys, record).deliveries[k]
                              = IF k \in keys THEN record[k] ELSE f.deliveries[k]
<1> DEFINE g == PushAll(f, keys, record)
           d == [k \in Key |-> IF k \in keys THEN record[k] ELSE f.deliveries[k]]
           a == [k \in Key |-> IF k \in keys
                              THEN Stored(f) \cup {j \in keys : j.message < k.message}
                              ELSE f.ahead[k]]
<1>1. d \in [Key -> DeliveryRecord \cup {None}]
  BY DEF FileOK, DeliveryFile, RecordOK
<1>2. a \in [Key -> SUBSET Key]
  BY DEF FileOK, DeliveryFile, Stored
<1>3. g = [f EXCEPT !.deliveries = d, !.ahead = a]
  BY DEF PushAll
<1> HIDE DEF d, a, g
<1>4. g \in DeliveryFile /\ g.deliveries = d
  BY <1>1, <1>2, <1>3 DEF FileOK, DeliveryFile
<1>5. \A k \in Key : g.deliveries[k] = IF k \in keys THEN record[k]
                                      ELSE f.deliveries[k]
  BY <1>4 DEF d
<1>6. \A k \in Key : Quiet(f.deliveries[k], g.deliveries[k])
  <2> SUFFICES ASSUME NEW k \in Key PROVE Quiet(f.deliveries[k], g.deliveries[k])
    OBVIOUS
  <2>1. CASE k \in keys
    BY <1>5, <2>1, QuietCases
  <2>2. CASE k \notin keys /\ f.deliveries[k] # None
    BY <1>5, <2>2, QuietCases DEF FileOK, Stored
  <2>3. CASE k \notin keys /\ f.deliveries[k] = None
    BY <1>5, <2>3 DEF Quiet
  <2> QED
    BY <2>1, <2>2, <2>3
<1> QED
  BY <1>4, <1>5, <1>6, QuietStep DEF g

\* queueThreadDelivery creates at most one queued delivery.
LEMMA QueueStep ==
    ASSUME NEW f, FileOK(f), NEW k \in Key, NEW p \in Participant,
           NEW revision \in Nat
    PROVE  LET g == queueThreadDelivery(f, k, p, revision)
           IN  FileOK(g) /\ KeepsReplies(f, g)
<1> DEFINE e == [f EXCEPT !.canonicalRevisions[p] = revision]
           rec == [j \in {k} |-> NewRecord(p, "queued")]
           g == queueThreadDelivery(f, k, p, revision)
<1>1. e \in DeliveryFile /\ e.deliveries = f.deliveries
  BY DEF FileOK, DeliveryFile
<1>2. FileOK(e) /\ KeepsReplies(f, e) /\ KeepsReplies(f, f)
  <2> HIDE DEF e
  <2> QED
    BY <1>1 DEF FileOK, KeepsReplies, Unshared, SingleManaged, Stored
<1>3. /\ RecordOK(NewRecord(p, "queued")) /\ ~active(NewRecord(p, "queued"))
      /\ NewRecord(p, "queued").state = "queued"
  BY NewRecordOK
<1>4. \A j \in {k} : RecordOK(rec[j]) /\ ~active(rec[j]) /\ rec[j].state = "queued"
  BY <1>3
<1> HIDE DEF rec, e
<1>5. /\ FileOK(PushAll(e, {k}, rec))
      /\ \A j \in Key : PushAll(e, {k}, rec).deliveries[j]
                         = IF j \in {k} THEN rec[j] ELSE e.deliveries[j]
  BY <1>2, <1>4, PushStep
<1>6. KeepsReplies(f, PushAll(e, {k}, rec))
  BY <1>1, <1>4, <1>5 DEF KeepsReplies, Stored
<1>7. g = f \/ g = e \/ g = PushAll(e, {k}, rec)
  BY DEF queueThreadDelivery, e, rec
<1> QED
  BY <1>2, <1>5, <1>6, <1>7

\* One input of a reconciliation never starts an execution, and says
\* "replied" only of an answered request.
LEMMA ReconciledOK ==
    ASSUME NEW r, RecordOK(r), NEW p \in Participant, NEW replied \in BOOLEAN,
           NEW fresh \in BOOLEAN
    PROVE  LET q == Reconciled(r, p, replied, fresh)
           IN  /\ RecordOK(q)
               /\ q = r \/ ~active(q)
               /\ q.state = "replied" => replied \/ r.state = "replied"
<1> DEFINE z == Requeue(r)
           state == IF replied THEN "replied" ELSE "queued"
           b == [z EXCEPT !.participant = p, !.state = state]
           s == Settle(r, "replied", "none")
<1>1. RecordOK(z) /\ ~active(z) /\ z.state = "queued"
  BY RequeueOK
<1>2. RecordOK(s) /\ ~active(s)
  BY SettleOK DEF ErrorCode
<1>3. RecordOK(b) /\ ~active(b) /\ b.state = state
  <2> HIDE DEF z
  <2>1. state \in {"queued", "replied"}
    OBVIOUS
  <2> HIDE DEF state
  <2>2. b \in DeliveryRecord
    BY <1>1, <2>1 DEF RecordOK, DeliveryRecord, DeliveryState
  <2>3. /\ b.state = state /\ b.leaseId = z.leaseId /\ b.attempts = z.attempts
        /\ b.live = z.live /\ b.waiting = z.waiting
    BY <1>1 DEF RecordOK, DeliveryRecord
  <2>4. ~active(b)
    BY <2>1, <2>3 DEF active
  <2>5. z.leaseId = None /\ ~z.live
    BY <1>1 DEF RecordOK
  <2>6. b.attempts <= MAX_ATTEMPTS /\ b.attempts < MAX_ATTEMPTS
    BY <1>1, <2>3 DEF RecordOK
  <2>7. ~b.live
    BY <2>3, <2>5
  <2>8. b.waiting = FALSE
    <3>1. z.waiting = FALSE
      BY DEF z, Requeue, Settle, RecordOK, DeliveryRecord
    <3> QED
      BY <2>3, <3>1
  <2>9. ~b.waiting
    BY <2>8
  <2> HIDE DEF b
  <2> QED
    BY <2>2, <2>3, <2>4, <2>5, <2>6, <2>7, <2>9 DEF RecordOK
<1> DEFINE q == Reconciled(r, p, replied, fresh)
<1>4. \/ q = b
      \/ q = r
      \/ q = s /\ replied
      \/ q = z
  BY DEF Reconciled
<1>5. b.state = "replied" => replied
  BY <1>3
<1> HIDE DEF q, b, s, z
<1> QED
  BY <1>1, <1>2, <1>3, <1>4, <1>5 DEF q

\* Reconciling with any scan, late or not, leaves a consistent file, and adds
\* "replied" only where that scan showed the identity's answer.
LEMMA ReconcileStep ==
    ASSUME NEW f, FileOK(f), NEW p \in Participant, NEW t \in Thread,
           NEW complete \in BOOLEAN
    PROVE  LET g == reconcileThreadDeliveries(f, p, t, complete)
           IN  /\ FileOK(g)
               /\ \A k \in Stored(g) :
                    g.deliveries[k].state = "replied" =>
                       \/ k \in Stored(f) /\ f.deliveries[k].state = "replied"
                       \/ t.request[k.message] = RespondedBy(k.identity)
<1> DEFINE before == f.canonicalRevisions[p]
           raised == IF t.present /\ t.revision > before THEN t.revision ELSE before
           snapshotRevision == IF t.present THEN t.revision ELSE Fence
           inputs == Inputs(p, t)
           missing == {k \in Stored(f) : /\ complete
                                         /\ snapshotRevision >= raised
                                         /\ f.deliveries[k].participant = p
                                         /\ k \notin inputs}
           removed == {k \in missing : Terminal(f.deliveries[k])}
           d == DropAll(f, removed)
           applied == IF t.revision >= raised THEN inputs ELSE {}
           replied(k) == t.request[k.message].status = "responded"
           fresh == t.revision > before
           kept == [k \in Key |->
                      IF k \in missing \ removed
                      THEN Settle(d.deliveries[k], "failed", "retired")
                      ELSE IF k \in applied \cap Stored(d)
                      THEN Reconciled(d.deliveries[k], p, replied(k), fresh)
                      ELSE d.deliveries[k]]
           h == [d EXCEPT !.canonicalRevisions[p] =
                            IF missing # {} THEN snapshotRevision ELSE raised,
                          !.deliveries = kept]
           new == [k \in applied \ Stored(d) |->
                     NewRecord(p, IF replied(k) THEN "replied" ELSE "queued")]
           g == reconcileThreadDeliveries(f, p, t, complete)
<1>1. t.revision \in Nat /\ before \in Nat /\ Fence \in Nat
  BY StoreConstants DEF Thread, FileOK, DeliveryFile
<1>2. (IF missing # {} THEN snapshotRevision ELSE raised) \in Nat
  BY <1>1
<1>3. removed \subseteq missing /\ missing \subseteq Stored(f) /\ Stored(f) \subseteq Key
  BY DEF Stored
<1>4. inputs \subseteq Key
  BY DEF Inputs
<1>5. applied \subseteq inputs
  OBVIOUS
<1>6. \A k \in inputs : replied(k) => t.request[k.message] = RespondedBy(k.identity)
  <2> SUFFICES ASSUME NEW k \in inputs, replied(k)
               PROVE  t.request[k.message] = RespondedBy(k.identity)
    OBVIOUS
  <2>1. /\ t.request[k.message] \in Request
        /\ t.request[k.message].identity = k.identity
    BY DEF Inputs, Thread, Key
  <2> QED
    BY <2>1 DEF Request, RespondedBy
<1>7. g = PushAll(h, applied \ Stored(d), new)
  BY DEF reconcileThreadDeliveries
<1>8. /\ d \in DeliveryFile
      /\ \A k \in Key : d.deliveries[k] = IF k \in removed THEN None ELSE f.deliveries[k]
  <2> HIDE DEF removed
  <2>1. \A k \in Key : (IF k \in removed THEN {} ELSE f.ahead[k] \ removed) \in SUBSET Key
    BY DEF FileOK, DeliveryFile
  <2> QED
    BY <2>1 DEF FileOK, DeliveryFile, DropAll
<1> HIDE DEF d, missing, removed, inputs, applied, fresh, g
<1>9. \A k \in Stored(d) : /\ k \in Stored(f) /\ k \in Key /\ RecordOK(f.deliveries[k])
                           /\ d.deliveries[k] = f.deliveries[k]
  BY <1>8 DEF FileOK, Stored
<1>10. ASSUME NEW k \in Key
       PROVE  /\ kept[k] \in DeliveryRecord \cup {None}
              /\ Quiet(f.deliveries[k], kept[k])
              /\ kept[k] # None /\ kept[k].state = "replied" =>
                    \/ k \in Stored(f) /\ f.deliveries[k].state = "replied"
                    \/ t.request[k.message] = RespondedBy(k.identity)
  <2>1. CASE k \in missing \ removed
    <3>1. kept[k] = Settle(f.deliveries[k], "failed", "retired")
      BY <1>8, <2>1
    <3>2. RecordOK(f.deliveries[k])
      BY <1>3, <2>1 DEF FileOK
    <3>3. RecordOK(kept[k]) /\ ~active(kept[k])
      BY <3>1, <3>2, SettleOK DEF ErrorCode
    <3>4. kept[k].state = "failed"
      BY <3>1, <3>2 DEF Settle, RecordOK, DeliveryRecord
    <3> HIDE DEF kept
    <3> QED
      BY <3>3, <3>4, QuietCases DEF RecordOK
  <2>2. CASE k \notin missing \ removed /\ k \in applied \cap Stored(d)
    <3>1. kept[k] = Reconciled(f.deliveries[k], p, replied(k), fresh)
      BY <1>9, <2>2
    <3>2. RecordOK(f.deliveries[k]) /\ k \in Stored(f)
      BY <1>9, <2>2
    <3>3. replied(k) \in BOOLEAN /\ fresh \in BOOLEAN
      BY DEF fresh
    <3>4. /\ RecordOK(kept[k]) /\ (kept[k] = f.deliveries[k] \/ ~active(kept[k]))
          /\ kept[k].state = "replied" =>
               replied(k) \/ f.deliveries[k].state = "replied"
      <4> HIDE DEF kept, replied
      <4> QED
        BY <3>1, <3>2, <3>3, ReconciledOK
    <3>5. Quiet(f.deliveries[k], kept[k])
      <4> HIDE DEF kept
      <4> QED
        BY <3>4, QuietCases
    <3>6. replied(k) => t.request[k.message] = RespondedBy(k.identity)
      BY <1>5, <1>6, <2>2
    <3> HIDE DEF kept, replied
    <3> QED
      BY <3>2, <3>4, <3>5, <3>6 DEF RecordOK
  <2>3. CASE k \notin missing \ removed /\ k \notin applied \cap Stored(d)
    <3>1. kept[k] = d.deliveries[k]
      BY <2>3
    <3>2. CASE d.deliveries[k] = None
      BY <3>1, <3>2 DEF Quiet
    <3>3. CASE d.deliveries[k] # None
      <4>1. k \in Stored(d)
        BY <3>3 DEF Stored
      <4>2. RecordOK(kept[k]) /\ kept[k] = f.deliveries[k] /\ k \in Stored(f)
        BY <1>9, <3>1, <4>1
      <4> HIDE DEF kept
      <4> QED
        BY <4>2, QuietCases DEF RecordOK
    <3> QED
      BY <3>2, <3>3
  <2> QED
    BY <2>1, <2>2, <2>3
<1>11. kept \in [Key -> DeliveryRecord \cup {None}]
  <2>1. kept = [k \in Key |-> kept[k]]
    OBVIOUS
  <2> HIDE DEF kept
  <2> QED
    BY <1>10, <2>1
<1>12. h \in DeliveryFile /\ h.deliveries = kept
  <2> HIDE DEF kept, snapshotRevision, raised
  <2> QED
    BY <1>2, <1>8, <1>11 DEF DeliveryFile
<1> HIDE DEF kept, h
<1>13. FileOK(h)
  BY <1>10, <1>12, QuietStep
<1>14. \A k \in applied \ Stored(d) :
         /\ RecordOK(new[k]) /\ ~active(new[k])
         /\ new[k].state = "replied" => t.request[k.message] = RespondedBy(k.identity)
  <2> SUFFICES ASSUME NEW k \in applied \ Stored(d)
               PROVE  /\ RecordOK(new[k]) /\ ~active(new[k])
                      /\ new[k].state = "replied" =>
                           t.request[k.message] = RespondedBy(k.identity)
    OBVIOUS
  <2>1. (IF replied(k) THEN "replied" ELSE "queued") \in {"queued", "replied"}
    OBVIOUS
  <2>2. /\ RecordOK(new[k]) /\ ~active(new[k])
        /\ new[k].state = IF replied(k) THEN "replied" ELSE "queued"
    BY <2>1, NewRecordOK
  <2> HIDE DEF new
  <2> QED
    BY <1>5, <1>6, <2>2
<1>15. applied \ Stored(d) \in SUBSET Key
  BY <1>4, <1>5
<1> HIDE DEF new
<1> DEFINE added == applied \ Stored(d)
<1> HIDE DEF added
<1>16. /\ FileOK(g)
       /\ \A k \in Key : g.deliveries[k] = IF k \in added THEN new[k] ELSE h.deliveries[k]
  <2>1. added \in SUBSET Key /\ \A k \in added : RecordOK(new[k]) /\ ~active(new[k])
    BY <1>14, <1>15 DEF added
  <2>2. /\ FileOK(PushAll(h, added, new))
        /\ \A k \in Key : PushAll(h, added, new).deliveries[k]
                           = IF k \in added THEN new[k] ELSE h.deliveries[k]
    BY <1>13, <2>1, PushStep
  <2>3. g = PushAll(h, added, new)
    BY <1>7 DEF added
  <2> QED
    BY <2>2, <2>3
<1>17. \A k \in Stored(g) :
         g.deliveries[k].state = "replied" =>
            \/ k \in Stored(f) /\ f.deliveries[k].state = "replied"
            \/ t.request[k.message] = RespondedBy(k.identity)
  BY <1>10, <1>12, <1>14, <1>16 DEF Stored, added
<1> QED
  BY <1>16, <1>17 DEF g

-----------------------------------------------------------------------------
\* A handler that is under way knows what it works for.
WorkersKeyed ==
    \A w \in Worker :
        worker[w].pc # "idle" =>
            worker[w].key \in Key /\ worker[w].participant \in Participant

\* An answer a scan has seen is still there when the scan is applied.
ScansPast ==
    \A s \in Scanner, m \in Message :
        /\ scan[s] # None
        /\ scan[s].thread.request[m].status = "responded"
        => thread.request[m] = scan[s].thread.request[m]

\* A reply is marked only after its append.
MarksAppended ==
    \A w \in Worker :
        worker[w].pc = "mark" =>
            thread.request[worker[w].key.message]
              = RespondedBy(worker[w].key.identity)

IInv ==
    /\ TypeOK
    /\ FileOK(file)
    /\ WorkersKeyed
    /\ ScansPast
    /\ MarksAppended
    /\ RepliedIsCanonical

\* Answers in the thread file are never taken back.
RespondedStays ==
    \A m \in Message :
        thread.request[m].status = "responded" =>
            thread'.request[m] = thread.request[m]

\* The four states of a message's response request.
LEMMA RequestTypes ==
    /\ Unsent \in Request /\ NoRequest \in Request
    /\ \A i \in Identity : OpenFor(i) \in Request /\ RespondedBy(i) \in Request
BY DEF Request, Unsent, NoRequest, OpenFor, RespondedBy

\* The thread keeps its shape and its answers under every change to it.
Rewritten(t, m, x) == [t EXCEPT !.revision = @ + 1, !.request[m] = x]

\* Editing one message's request (appendThreadMessage, assignThreadMessage)
\* gives a thread that differs from the old one in that request only.
LEMMA RewrittenThread ==
    ASSUME NEW t \in Thread, NEW m \in Message, NEW x \in Request
    PROVE  /\ Rewritten(t, m, x) \in Thread
           /\ \A n \in Message : Rewritten(t, m, x).request[n]
                                  = IF n = m THEN x ELSE t.request[n]
<1> DEFINE u == [t EXCEPT !.revision = @ + 1, !.request[m] = x]
           v == [t.request EXCEPT ![m] = x]
<1>1. v \in [Message -> Request] /\ t.revision + 1 \in Nat
  BY DEF Thread
<1>2. u = [t EXCEPT !.revision = t.revision + 1, !.request = v]
  BY DEF Thread
<1>3. u.request = v
  BY DEF Thread
<1>4. u \in Thread
  <2> HIDE DEF v, u
  <2> QED
    BY <1>1, <1>2 DEF Thread
<1>5. \A n \in Message : v[n] = IF n = m THEN x ELSE t.request[n]
  BY DEF Thread
<1> HIDE DEF v, u
<1> QED
  BY <1>3, <1>4, <1>5 DEF u, Rewritten

\* appendThreadMessage answers one open request and undoes no answer.
LEMMA AnsweredStep ==
    ASSUME TypeOK, NEW k \in Key, thread' = Answered(k), Appends(k)
    PROVE  /\ thread' \in Thread /\ RespondedStays
           /\ thread'.request[k.message] = RespondedBy(k.identity)
<1>1. k.message \in Message /\ k.identity \in Identity
  BY DEF Key
<1>2. RespondedBy(k.identity) \in Request
  BY <1>1, RequestTypes
<1>3. /\ thread \in Thread
      /\ thread' = Rewritten(thread, k.message, RespondedBy(k.identity))
  BY DEF TypeOK, Answered, Rewritten
<1>4. /\ thread' \in Thread
      /\ \A n \in Message : thread'.request[n] = IF n = k.message
           THEN RespondedBy(k.identity) ELSE thread.request[n]
  BY <1>1, <1>2, <1>3, RewrittenThread
<1>5. thread.request[k.message].status # "responded"
  BY DEF Appends, OpenFor
<1> QED
  BY <1>1, <1>4, <1>5 DEF RespondedStays

\* No post, assignment, edit, deletion or restore undoes an answer.
LEMMA AuthorStep ==
    ASSUME TypeOK, Author
    PROVE  thread' \in Thread /\ RespondedStays
<1>1. ASSUME NEW m \in Message, NEW i \in Identity, Post(m, i)
      PROVE  thread' \in Thread /\ RespondedStays
  <2>1. OpenFor(i) \in Request
    BY RequestTypes
  <2> DEFINE t == [thread EXCEPT !.present = TRUE]
  <2>2. t \in Thread /\ t.request = thread.request
    BY DEF TypeOK, Thread
  <2>3. /\ thread' = Rewritten(t, m, OpenFor(i))
        /\ thread.request[m].status = "unsent"
    BY <1>1 DEF Post, Ask, TypeOK, Thread, Rewritten
  <2> HIDE DEF t
  <2>4. /\ thread' \in Thread
        /\ \A n \in Message : thread'.request[n] = IF n = m THEN OpenFor(i)
                                                   ELSE thread.request[n]
    BY <2>1, <2>2, <2>3, RewrittenThread
  <2> QED
    BY <2>3, <2>4 DEF RespondedStays
<1>2. ASSUME NEW m \in Message, NEW i \in Identity \cup {None}, Assign(m, i)
      PROVE  thread' \in Thread /\ RespondedStays
  <2> DEFINE x == IF i = None THEN NoRequest ELSE OpenFor(i)
  <2>1. x \in Request
    BY RequestTypes
  <2>2. /\ thread \in Thread
        /\ thread' = Rewritten(thread, m, x)
        /\ thread.request[m].status # "responded"
    BY <1>2 DEF Assign, TypeOK, Rewritten
  <2> HIDE DEF x
  <2>3. /\ thread' \in Thread
        /\ \A n \in Message : thread'.request[n] = IF n = m THEN x
                                                   ELSE thread.request[n]
    BY <2>1, <2>2, RewrittenThread
  <2> QED
    BY <2>2, <2>3 DEF RespondedStays
<1>3. ASSUME NEW i \in Identity, NEW p \in Participant, Edit(i, p)
      PROVE  thread' \in Thread /\ RespondedStays
  <2> DEFINE v == [thread.member EXCEPT ![i] = p]
  <2>1. thread \in Thread /\ v \in [Identity -> Participant]
    BY DEF TypeOK, Thread
  <2>2. thread' = [present |-> thread.present, revision |-> thread.revision + 1,
                   request |-> thread.request, member |-> v]
    BY <1>3, <2>1 DEF Edit, Thread
  <2> HIDE DEF v
  <2>3. thread' \in Thread
    BY <2>1, <2>2 DEF Thread
  <2> QED
    BY <2>2, <2>3 DEF RespondedStays
<1>4. ASSUME DeleteThread \/ RestoreThread
      PROVE  thread' \in Thread /\ RespondedStays
  <2>1. PICK b \in BOOLEAN : thread' = [thread EXCEPT !.present = b]
    BY <1>4 DEF DeleteThread, RestoreThread
  <2> QED
    BY <2>1 DEF TypeOK, Thread, RespondedStays
<1>5. ASSUME NEW x \in posts, QueuePost(x) \/ LosePost(x)
      PROVE  thread' \in Thread /\ RespondedStays
  BY <1>5 DEF QueuePost, LosePost, TypeOK, RespondedStays
<1> QED
  BY <1>1, <1>2, <1>3, <1>4, <1>5 DEF Author

\* Every step keeps the thread's shape and the answers it holds.
LEMMA ThreadInductive ==
    ASSUME IInv, Next
    PROVE  thread' \in Thread /\ RespondedStays
<1>1. CASE Author
  BY <1>1, AuthorStep DEF IInv
<1>2. ASSUME UNCHANGED thread PROVE thread' \in Thread /\ RespondedStays
  BY <1>2 DEF IInv, TypeOK, RespondedStays
<1>3. ASSUME NEW s \in Scanner, Reconcile(s) PROVE UNCHANGED thread
  BY <1>3 DEF Reconcile, BeginScan, ApplyScan, DropScan
<1>4. ASSUME NEW w \in Worker, Serve(w)
      PROVE  \/ UNCHANGED thread
             \/ Appends(worker[w].key) /\ thread' = Answered(worker[w].key)
                  /\ worker[w].pc # "idle"
  BY <1>4 DEF Serve, Claim, ReadClaim, ReadRefused, FailClaim, BeginReply,
              CheckLease, AppendReply, CommitReply, MarkReplied, LoseWorker
<1>5. ASSUME NEW w \in Worker, Serve(w) PROVE thread' \in Thread /\ RespondedStays
  <2>1. CASE UNCHANGED thread
    BY <1>2, <2>1
  <2>2. CASE Appends(worker[w].key) /\ thread' = Answered(worker[w].key)
               /\ worker[w].pc # "idle"
    <3>1. worker[w].key \in Key
      BY <2>2 DEF IInv, WorkersKeyed
    <3> QED
      BY <2>2, <3>1, AnsweredStep DEF IInv
  <2> QED
    BY <1>4, <1>5, <2>1, <2>2
<1>6. ASSUME NEW k \in Key, Adapter(k) PROVE UNCHANGED thread
  BY <1>6 DEF Adapter, Accept, Progress, Fail
<1>7. CASE Passing \/ WorkspaceReset
  BY <1>2, <1>7 DEF Passing, LeaseExpires, BackoffElapses, Retry, ExpireDeadlines,
                    SetPolicy, WorkspaceReset
<1> QED
  BY <1>1, <1>2, <1>3, <1>5, <1>6, <1>7 DEF Next

\* "replied" appears only where the thread now shows the answer.
RepliesTracked ==
    \A k \in Stored(file') :
        file'.deliveries[k].state = "replied" =>
            \/ k \in Stored(file) /\ file.deliveries[k].state = "replied"
            \/ thread'.request[k.message] = RespondedBy(k.identity)

\* A mutation that newly marks nothing replied leaves the replies tracked.
LEMMA Quietly ==
    ASSUME KeepsReplies(file, file') PROVE RepliesTracked
BY DEF KeepsReplies, RepliesTracked

\* So does a step that leaves the delivery file alone.
LEMMA UnchangedFile ==
    ASSUME FileOK(file), UNCHANGED file PROVE FileOK(file') /\ RepliesTracked
BY DEF RepliesTracked

\* claimThreadDelivery, with the expiry pass before it, keeps the file well
\* formed and marks nothing replied.
LEMMA ClaimInductive ==
    ASSUME IInv, NEW w \in Worker, NEW p \in Participant, Claim(w, p)
    PROVE  FileOK(file') /\ RepliesTracked
<1> DEFINE f == BeforeClaim(file, p, policy[p])
<1>1. /\ FileOK(f) /\ KeepsReplies(file, f)
      /\ \A k \in Key : Quiet(file.deliveries[k], f.deliveries[k])
  <2>1. CASE policy[p] = "none"
    <3>1. f = file
      BY <2>1 DEF BeforeClaim
    <3>2. \A k \in Key : Quiet(file.deliveries[k], file.deliveries[k])
      <4> SUFFICES ASSUME NEW k \in Key, file.deliveries[k] # None
                   PROVE  Quiet(file.deliveries[k], file.deliveries[k])
        BY DEF Quiet
      <4> QED
        BY QuietCases DEF IInv, FileOK, Stored
    <3> QED
      BY <3>1, <3>2 DEF IInv, KeepsReplies
  <2>2. CASE policy[p] # "none"
    <3>1. f = expireManaged(file, p, TRUE)
      BY <2>2 DEF BeforeClaim
    <3> QED
      BY <3>1, ExpireStep DEF IInv
  <2> QED
    BY <2>1, <2>2
<1>2. ASSUME NEW g, KeepsReplies(f, g), file' = g PROVE RepliesTracked
  BY <1>1, <1>2 DEF KeepsReplies, RepliesTracked
<1> HIDE DEF f
<1>3. CASE file' = f
  BY <1>1, <1>3, Quietly
<1>4. CASE file' = claimThreadDelivery(f, p, policy[p], None, None)
  BY <1>1, <1>2, <1>4, ExhaustStep
<1>5. ASSUME ~Held(f, p, policy[p]), NEW c \in Claimable(f, p, policy[p]),
             NEW l \in Lease \ UsedLeases,
             file' = claimThreadDelivery(f, p, policy[p], c, l)
      PROVE  FileOK(file') /\ RepliesTracked
  <2>1. \A k \in Stored(f) : f.deliveries[k].leaseId # l
    <3> SUFFICES ASSUME NEW k \in Stored(f) PROVE f.deliveries[k].leaseId # l
      OBVIOUS
    <3>1. CASE active(f.deliveries[k])
      <4>1. k \in Key /\ f.deliveries[k] # None
        BY DEF Stored
      <4>2. k \in Stored(file) /\ f.deliveries[k].leaseId = file.deliveries[k].leaseId
        BY <1>1, <3>1, <4>1 DEF Quiet, Stored
      <4> QED
        BY <1>5, <4>2 DEF UsedLeases
    <3>2. CASE ~active(f.deliveries[k])
      BY <1>1, <3>2, StoreConstants DEF FileOK, RecordOK
    <3> QED
      BY <3>1, <3>2
  <2>2. FileOK(file') /\ KeepsReplies(f, file')
    BY <1>1, <1>5, <2>1, ClaimStep
  <2> QED
    BY <1>2, <2>2
<1> QED
  BY <1>3, <1>4, <1>5 DEF Claim, f

\* commitThreadDeliveryReply and markThreadDeliveryReplied mark a record
\* replied only once the thread holds its answer.
LEMMA ReplyInductive ==
    ASSUME IInv, NEW w \in Worker, CommitReply(w) \/ MarkReplied(w)
    PROVE  FileOK(file') /\ RepliesTracked
<1> DEFINE k == worker[w].key
           g == Put(file, k, Settle(file.deliveries[k], "replied", "none"))
<1>1. k \in Key
  BY DEF IInv, WorkersKeyed, CommitReply, MarkReplied
<1>2. ASSUME k \in Stored(file), file' = g,
             thread'.request[k.message] = RespondedBy(k.identity)
      PROVE  FileOK(file') /\ RepliesTracked
  <2>1. /\ FileOK(g)
        /\ \A j \in Stored(g) \ {k} :
             j \in Stored(file) /\ g.deliveries[j] = file.deliveries[j]
    BY <1>2, EndSteps DEF IInv
  <2> HIDE DEF g, k
  <2> QED
    BY <1>2, <2>1 DEF RepliesTracked
<1>3. CASE UNCHANGED file
  BY <1>3, UnchangedFile DEF IInv
<1>4. CASE CommitReply(w) /\ file' # file
  <2>1. /\ Appends(k) /\ thread' = Answered(k) /\ file' = g
        /\ replyLease(file, k, worker[w].lease, worker[w].participant)
    BY <1>4 DEF CommitReply
  <2>2. k \in Stored(file)
    BY <1>1, <2>1 DEF replyLease, requireLease, Stored
  <2>3. thread'.request[k.message] = RespondedBy(k.identity)
    BY <1>1, <2>1, AnsweredStep DEF IInv
  <2> QED
    BY <1>2, <2>1, <2>2, <2>3
<1>5. CASE MarkReplied(w) /\ file' # file
  <2>1. file' = g /\ file.deliveries[k] # None
    BY <1>5 DEF MarkReplied, markThreadDeliveryReplied
  <2>2. k \in Stored(file)
    BY <1>1, <2>1 DEF Stored
  <2>3. thread'.request[k.message] = RespondedBy(k.identity)
    BY <1>5 DEF MarkReplied, IInv, MarksAppended
  <2> QED
    BY <1>2, <2>1, <2>2, <2>3
<1> QED
  BY <1>3, <1>4, <1>5

\* Every step keeps the delivery file well formed, and what it newly marks
\* replied the thread has answered.
LEMMA FileInductive ==
    ASSUME IInv, Next
    PROVE  FileOK(file') /\ RepliesTracked
<1> USE DEF IInv
<1>1. ASSUME FileOK(file') /\ KeepsReplies(file, file')
      PROVE  FileOK(file') /\ RepliesTracked
  BY <1>1, Quietly
<1>2. CASE UNCHANGED file
  BY <1>2, UnchangedFile
<1>3. ASSUME NEW x \in posts, QueuePost(x) PROVE FileOK(file') /\ RepliesTracked
  <2>1. x.key \in Key /\ x.participant \in Participant /\ x.revision \in Nat
    BY <1>3 DEF TypeOK, PendingPost
  <2>2. CASE file' = queueThreadDelivery(file, x.key, x.participant, x.revision)
    BY <1>1, <2>1, <2>2, QueueStep
  <2> QED
    BY <1>2, <1>3, <2>2 DEF QueuePost
<1>4. ASSUME NEW s \in Scanner, ApplyScan(s) PROVE FileOK(file') /\ RepliesTracked
  <2> DEFINE p == scan[s].participant
             t == scan[s].thread
             complete == scan[s].complete
  <2>1. scan[s] \in Snapshot
    BY <1>4 DEF ApplyScan, TypeOK
  <2>2. p \in Participant /\ t \in Thread /\ complete \in BOOLEAN
    BY <2>1 DEF Snapshot
  <2>3. file' = reconcileThreadDeliveries(file, p, t, complete) /\ UNCHANGED thread
    BY <1>4 DEF ApplyScan
  <2>4. \A m \in Message : t.request[m].status = "responded" =>
                             thread.request[m] = t.request[m]
    BY <1>4 DEF ApplyScan, ScansPast
  <2> HIDE DEF p, t, complete
  <2>5. /\ FileOK(file')
        /\ \A k \in Stored(file') :
             file'.deliveries[k].state = "replied" =>
               \/ k \in Stored(file) /\ file.deliveries[k].state = "replied"
               \/ t.request[k.message] = RespondedBy(k.identity)
    BY <2>2, <2>3, ReconcileStep
  <2>6. ASSUME NEW k \in Key, t.request[k.message] = RespondedBy(k.identity)
        PROVE  thread.request[k.message] = RespondedBy(k.identity)
    <3>1. t.request[k.message].status = "responded" /\ k.message \in Message
      BY <2>6 DEF RespondedBy, Key
    <3> QED
      BY <2>4, <2>6, <3>1
  <2> QED
    BY <2>3, <2>5, <2>6 DEF RepliesTracked, Stored
<1>5. ASSUME NEW w \in Worker, FailClaim(w) PROVE FileOK(file') /\ RepliesTracked
  <2> DEFINE k == worker[w].key
             e == worker[w].error
             r == worker[w].revision
  <2>1. k \in Key /\ e \in ErrorCode /\ r \in Nat
    BY <1>5 DEF FailClaim, WorkersKeyed, TypeOK, WorkerState, ErrorCode
  <2>2. CASE /\ requireLease(file, k, worker[w].lease, worker[w].participant)
             /\ file' = failThreadDelivery(file, k, e = "access", FALSE, e, r)
    <3>1. k \in Stored(file) /\ (e = "access") \in BOOLEAN
      BY <2>1, <2>2 DEF requireLease, Stored
    <3> HIDE DEF k, e, r
    <3> QED
      BY <1>1, <2>1, <2>2, <3>1, FailStep
  <2> QED
    BY <1>2, <1>5, <2>2 DEF FailClaim
<1>6. ASSUME NEW w \in Worker, Serve(w) PROVE FileOK(file') /\ RepliesTracked
  <2>1. CASE \E p \in Participant : Claim(w, p)
    BY <2>1, ClaimInductive
  <2>2. CASE CommitReply(w) \/ MarkReplied(w)
    BY <2>2, ReplyInductive
  <2>3. CASE UNCHANGED file
    BY <1>2, <2>3
  <2> QED
    BY <1>5, <1>6, <2>1, <2>2, <2>3 DEF Serve, ReadClaim, ReadRefused, BeginReply,
         CheckLease, AppendReply, LoseWorker
<1>7. ASSUME NEW k \in Key, Adapter(k) PROVE FileOK(file') /\ RepliesTracked
  <2>1. k \in Stored(file) /\ file.deliveries[k].live
    BY <1>7 DEF Adapter, Accept, Progress, Fail, Live, Stored
  <2>2. CASE Accept(k)
    BY <1>1, <2>1, <2>2, LiveSteps DEF Accept, acceptThreadDelivery
  <2>3. ASSUME NEW phase \in Phase, Progress(k, phase)
        PROVE  FileOK(file') /\ RepliesTracked
    <3>1. phase \in {"accepted", "working", "receiving"}
      BY ServiceConstants
    <3> QED
      BY <1>1, <2>1, <2>3, <3>1, LiveSteps DEF Progress, progressThreadDelivery
  <2>4. ASSUME NEW retryable \in BOOLEAN, Fail(k, retryable)
        PROVE  FileOK(file') /\ RepliesTracked
    <3>1. "agent" \in ErrorCode /\ TRUE \in BOOLEAN /\ 0 \in Nat
      BY DEF ErrorCode
    <3> QED
      BY <1>1, <2>1, <2>4, <3>1, FailStep DEF Fail
  <2> QED
    BY <1>7, <2>2, <2>3, <2>4 DEF Adapter
<1>8. ASSUME NEW k \in Key, LeaseExpires(k) \/ BackoffElapses(k) \/ Retry(k)
      PROVE  FileOK(file') /\ RepliesTracked
  <2>1. CASE LeaseExpires(k)
    BY <1>1, <2>1, LiveSteps DEF LeaseExpires, Live, Stored
  <2>2. CASE BackoffElapses(k)
    BY <1>1, <2>2, BackoffStep DEF BackoffElapses
  <2>3. CASE Retry(k)
    BY <1>1, <2>3, EndSteps DEF Retry
  <2> QED
    BY <1>8, <2>1, <2>2, <2>3
<1>9. ASSUME NEW p \in Participant, ExpireDeadlines(p)
      PROVE  FileOK(file') /\ RepliesTracked
  BY <1>1, <1>9, ExpireStep DEF ExpireDeadlines
<1>10. CASE WorkspaceReset
  <2>1. file' = emptyFile
    BY <1>10 DEF WorkspaceReset
  <2>2. Stored(emptyFile) = {} /\ emptyFile \in DeliveryFile
    BY DEF Stored, emptyFile, DeliveryFile
  <2> QED
    BY <2>1, <2>2 DEF FileOK, Unshared, SingleManaged, RepliesTracked
<1>11. CASE Author
  BY <1>2, <1>3, <1>11 DEF Author, Post, Assign, Edit, DeleteThread, RestoreThread,
                           LosePost
<1>12. ASSUME NEW s \in Scanner, Reconcile(s) PROVE FileOK(file') /\ RepliesTracked
  BY <1>2, <1>4, <1>12 DEF Reconcile, BeginScan, DropScan
<1>13. CASE Passing
  BY <1>2, <1>8, <1>9, <1>13 DEF Passing, SetPolicy
<1> QED
  BY <1>6, <1>7, <1>10, <1>11, <1>12, <1>13 DEF Next

\* What handlers carry from one locked section to the next stays true of the
\* thread, which only gains answers.
LEMMA ScansInductive ==
    ASSUME IInv, Next, RespondedStays, thread' \in Thread
    PROVE  scan' \in [Scanner -> Snapshot \cup {None}] /\ ScansPast'
<1> USE DEF IInv
<1>1. CASE UNCHANGED scan
  <2> SUFFICES ASSUME NEW s \in Scanner, NEW m \in Message, scan[s] # None,
                      scan[s].thread.request[m].status = "responded"
               PROVE  thread'.request[m] = scan[s].thread.request[m]
    BY <1>1 DEF TypeOK, ScansPast
  <2>1. thread.request[m] = scan[s].thread.request[m]
    BY DEF ScansPast
  <2> QED
    BY <2>1 DEF RespondedStays
<1>2. ASSUME NEW s \in Scanner, NEW x \in Snapshot \cup {None},
             scan' = [scan EXCEPT ![s] = x], x # None => x.thread = thread,
             UNCHANGED thread
      PROVE  scan' \in [Scanner -> Snapshot \cup {None}] /\ ScansPast'
  <2>1. scan' \in [Scanner -> Snapshot \cup {None}]
    BY <1>2 DEF TypeOK
  <2> SUFFICES ASSUME NEW z \in Scanner, NEW m \in Message, scan'[z] # None,
                      scan'[z].thread.request[m].status = "responded"
               PROVE  thread.request[m] = scan'[z].thread.request[m]
    BY <1>2, <2>1 DEF ScansPast
  <2>2. CASE z = s
    BY <1>2, <2>2 DEF TypeOK
  <2>3. CASE z # s
    BY <1>2, <2>3 DEF TypeOK, ScansPast
  <2> QED
    BY <2>2, <2>3
<1>3. ASSUME NEW s \in Scanner, Reconcile(s)
      PROVE  scan' \in [Scanner -> Snapshot \cup {None}] /\ ScansPast'
  <2>1. ASSUME NEW p \in Participant, NEW complete \in BOOLEAN,
               BeginScan(s, p, complete)
        PROVE  scan' \in [Scanner -> Snapshot \cup {None}] /\ ScansPast'
    <3> DEFINE x == [participant |-> p, thread |-> thread, complete |-> complete]
    <3>1. x \in Snapshot /\ x.thread = thread
      BY DEF Snapshot, TypeOK
    <3>2. scan' = [scan EXCEPT ![s] = x] /\ UNCHANGED thread
      BY <2>1 DEF BeginScan
    <3> HIDE DEF x
    <3> QED
      BY <1>2, <3>1, <3>2
  <2>2. CASE ApplyScan(s) \/ DropScan(s)
    BY <1>2, <2>2 DEF ApplyScan, DropScan
  <2> QED
    BY <1>3, <2>1, <2>2 DEF Reconcile
<1>4. ASSUME Author \/ (\E w \in Worker : Serve(w)) \/ (\E k \in Key : Adapter(k))
               \/ Passing \/ WorkspaceReset
      PROVE  UNCHANGED scan
  <2>1. CASE Author
    BY <2>1 DEF Author, Post, Assign, Edit, DeleteThread, RestoreThread, LosePost,
                QueuePost
  <2>2. CASE \E w \in Worker : Serve(w)
    BY <2>2 DEF Serve, Claim, ReadClaim, ReadRefused, FailClaim, BeginReply,
                CheckLease, AppendReply, CommitReply, MarkReplied, LoseWorker
  <2>3. CASE \E k \in Key : Adapter(k)
    BY <2>3 DEF Adapter, Accept, Progress, Fail
  <2>4. CASE Passing \/ WorkspaceReset
    BY <2>4 DEF Passing, LeaseExpires, BackoffElapses, Retry, ExpireDeadlines,
                SetPolicy, WorkspaceReset
  <2> QED
    BY <1>4, <2>1, <2>2, <2>3, <2>4
<1> QED
  BY <1>1, <1>3, <1>4 DEF Next

\* One worker's step, given what it becomes.
LEMMA WorkerStep ==
    ASSUME IInv, RespondedStays, NEW w \in Worker, NEW x \in WorkerState,
           Go(w, x),
           x.pc # "idle" => x.key \in Key /\ x.participant \in Participant,
           x.pc = "mark" => thread'.request[x.key.message] = RespondedBy(x.key.identity)
    PROVE  worker' \in [Worker -> WorkerState] /\ WorkersKeyed' /\ MarksAppended'
<1> USE DEF IInv
<1>1. worker' \in [Worker -> WorkerState]
  BY DEF Go, TypeOK
<1>2. \A v \in Worker : worker'[v] = IF v = w THEN x ELSE worker[v]
  BY DEF Go, TypeOK
<1>3. WorkersKeyed'
  BY <1>2 DEF WorkersKeyed
<1>4. MarksAppended'
  <2> SUFFICES ASSUME NEW v \in Worker, worker'[v].pc = "mark"
               PROVE  thread'.request[worker'[v].key.message]
                        = RespondedBy(worker'[v].key.identity)
    BY DEF MarksAppended
  <2>1. CASE v = w
    BY <1>2, <2>1
  <2>2. CASE v # w
    <3>1. /\ worker[v].key \in Key
          /\ thread.request[worker[v].key.message] = RespondedBy(worker[v].key.identity)
      BY <1>2, <2>2 DEF MarksAppended, WorkersKeyed
    <3>2. /\ worker[v].key.message \in Message
          /\ thread.request[worker[v].key.message].status = "responded"
      BY <3>1 DEF Key, RespondedBy
    <3> QED
      BY <1>2, <2>2, <3>1, <3>2 DEF RespondedStays
  <2> QED
    BY <2>1, <2>2
<1> QED
  BY <1>1, <1>3, <1>4

\* A handler that serves nothing.
LEMMA IdleOK == Idle \in WorkerState /\ Idle.pc = "idle"
BY DEF Idle, WorkerState

\* A handler about to mark a delivery replied has seen its answer appended,
\* through every step of a claim or a reply.
LEMMA ServeInductive ==
    ASSUME IInv, RespondedStays, NEW w \in Worker, Serve(w)
    PROVE  worker' \in [Worker -> WorkerState] /\ WorkersKeyed' /\ MarksAppended'
<1> DEFINE Goal == worker' \in [Worker -> WorkerState] /\ WorkersKeyed' /\ MarksAppended'
           y == worker[w]
<1> USE DEF IInv
<1>1. y \in WorkerState
  BY DEF TypeOK
<1>2. y.pc # "idle" => y.key \in Key /\ y.participant \in Participant
  BY DEF WorkersKeyed
<1>3. CASE Go(w, Idle)
  BY <1>3, IdleOK, WorkerStep
<1>4. ASSUME NEW p \in Participant, Claim(w, p) PROVE Goal
  <2>1. CASE UNCHANGED worker
    <3>1. Go(w, y)
      BY <2>1 DEF Go, TypeOK
    <3>2. UNCHANGED thread
      BY <1>4 DEF Claim
    <3> QED
      BY <2>1, <3>2 DEF TypeOK, WorkersKeyed, MarksAppended
  <2>2. ASSUME NEW c \in Claimable(BeforeClaim(file, p, policy[p]), p, policy[p]),
               NEW l \in Lease,
               Go(w, [Idle EXCEPT !.pc = "read", !.key = c, !.lease = l,
                                  !.participant = p])
        PROVE  Goal
    <3> DEFINE x == [Idle EXCEPT !.pc = "read", !.key = c, !.lease = l,
                                 !.participant = p]
    <3>1. c \in Key
      BY DEF Claimable, Considered, Stored
    <3>2. x \in WorkerState
      BY <3>1, IdleOK DEF WorkerState
    <3>3. x.pc = "read" /\ x.key = c /\ x.participant = p
      BY IdleOK DEF WorkerState
    <3>4. Go(w, x)
      BY <2>2
    <3> HIDE DEF x
    <3> QED
      BY <3>1, <3>2, <3>3, <3>4, WorkerStep
  <2> QED
    BY <1>4, <2>1, <2>2 DEF Claim
<1>5. CASE ReadClaim(w) \/ ReadRefused(w)
  <2>1. ASSUME NEW e \in {"retired", "notFound", "access"}, NEW r \in Nat,
               Go(w, [y EXCEPT !.pc = "fail", !.error = e, !.revision = r])
        PROVE  Goal
    <3> DEFINE x == [y EXCEPT !.pc = "fail", !.error = e, !.revision = r]
    <3>1. x \in WorkerState /\ x.pc = "fail" /\ x.key = y.key
            /\ x.participant = y.participant
      BY <1>1 DEF WorkerState
    <3>2. y.pc # "idle"
      BY <1>5 DEF ReadClaim, ReadRefused
    <3> HIDE DEF x
    <3> QED
      BY <1>2, <2>1, <3>1, <3>2, WorkerStep DEF x
  <2>2. thread.revision \in Nat /\ y.revision \in Nat
    BY <1>1 DEF TypeOK, Thread, WorkerState
  <2>3. \A e : [y EXCEPT !.pc = "fail", !.error = e]
               = [y EXCEPT !.pc = "fail", !.error = e, !.revision = y.revision]
    BY <1>1 DEF WorkerState
  <2>4. \/ Go(w, Idle)
        \/ Go(w, [y EXCEPT !.pc = "fail", !.error = "notFound"])
        \/ Go(w, [y EXCEPT !.pc = "fail", !.error = "access"])
        \/ Go(w, [y EXCEPT !.pc = "fail", !.error = "retired",
                           !.revision = thread.revision])
    BY <1>5 DEF ReadClaim, ReadRefused
  <2> HIDE DEF y, Goal
  <2> QED
    BY <1>3, <2>1, <2>2, <2>3, <2>4 DEF Goal
<1>6. ASSUME NEW k \in Key, NEW quoted \in BOOLEAN, BeginReply(w, k, quoted)
      PROVE  Goal
  <2> DEFINE p == thread.member[k.identity]
             l == IF quoted /\ file.deliveries[k] # None
                  THEN file.deliveries[k].leaseId ELSE None
             managed == requiresManagedDeliveryLease(k, p)
             pc == IF managed THEN "commit" ELSE IF l # None THEN "check" ELSE "append"
             x == [Idle EXCEPT !.pc = pc, !.key = k, !.lease = l, !.participant = p]
  <2>1. p \in Participant
    BY DEF TypeOK, Thread, Key
  <2>2. l \in Lease \cup {None}
    BY DEF TypeOK, DeliveryFile, DeliveryRecord
  <2>3. pc \in {"commit", "check", "append"}
    OBVIOUS
  <2>4. Go(w, x)
    BY <1>6 DEF BeginReply
  <2> HIDE DEF p, l, pc
  <2>5. x \in WorkerState
    BY <2>1, <2>2, <2>3, IdleOK DEF WorkerState
  <2>6. x.pc = pc /\ x.key = k /\ x.participant = p
    BY IdleOK DEF WorkerState
  <2> HIDE DEF x
  <2> QED
    BY <2>1, <2>3, <2>4, <2>5, <2>6, WorkerStep
<1>7. ASSUME NEW pc \in {"append", "mark"}, Go(w, [y EXCEPT !.pc = pc]),
             y.pc # "idle",
             pc = "mark" => thread'.request[y.key.message] = RespondedBy(y.key.identity)
      PROVE  Goal
  <2> DEFINE x == [y EXCEPT !.pc = pc]
  <2>1. x \in WorkerState /\ x.pc = pc /\ x.key = y.key /\ x.participant = y.participant
    BY <1>1 DEF WorkerState
  <2> HIDE DEF x
  <2> QED
    BY <1>2, <1>7, <2>1, WorkerStep DEF x
<1>8. CASE CheckLease(w)
  BY <1>3, <1>7, <1>8 DEF CheckLease
<1>9. CASE AppendReply(w) \/ CommitReply(w)
  <2>1. y.pc # "idle" /\ y.key \in Key
    BY <1>2, <1>9 DEF AppendReply, CommitReply
  <2>2. Appends(y.key) /\ thread' = Answered(y.key) =>
          thread'.request[y.key.message] = RespondedBy(y.key.identity)
    BY <2>1, AnsweredStep
  <2>3. \/ Go(w, Idle)
        \/ /\ Go(w, [y EXCEPT !.pc = "mark"])
           /\ thread'.request[y.key.message] = RespondedBy(y.key.identity)
    BY <1>9, <2>2 DEF AppendReply, CommitReply
  <2> QED
    BY <1>3, <1>7, <2>1, <2>3
<1> QED
  BY <1>3, <1>4, <1>5, <1>6, <1>8, <1>9
     DEF Serve, FailClaim, MarkReplied, LoseWorker

\* Every step keeps the handlers' state: what they hold is keyed, and marks
\* follow appends.
LEMMA WorkersInductive ==
    ASSUME IInv, Next, RespondedStays
    PROVE  worker' \in [Worker -> WorkerState] /\ WorkersKeyed' /\ MarksAppended'
<1> USE DEF IInv
<1>1. CASE UNCHANGED worker
  <2>1. worker' \in [Worker -> WorkerState] /\ WorkersKeyed'
    BY <1>1 DEF TypeOK, WorkersKeyed
  <2>2. MarksAppended'
    <3> SUFFICES ASSUME NEW v \in Worker, worker[v].pc = "mark"
                 PROVE  thread'.request[worker[v].key.message]
                          = RespondedBy(worker[v].key.identity)
      BY <1>1 DEF MarksAppended
    <3>1. /\ worker[v].key \in Key
          /\ thread.request[worker[v].key.message] = RespondedBy(worker[v].key.identity)
      BY DEF MarksAppended, WorkersKeyed
    <3>2. /\ worker[v].key.message \in Message
          /\ thread.request[worker[v].key.message].status = "responded"
      BY <3>1 DEF Key, RespondedBy
    <3> QED
      BY <3>1, <3>2 DEF RespondedStays
  <2> QED
    BY <2>1, <2>2
<1>2. CASE \E w \in Worker : Serve(w)
  BY <1>2, ServeInductive
<1>3. CASE Author
  BY <1>1, <1>3 DEF Author, Post, Assign, Edit, DeleteThread, RestoreThread,
                    LosePost, QueuePost
<1>4. ASSUME NEW s \in Scanner, Reconcile(s) PROVE UNCHANGED worker
  BY <1>4 DEF Reconcile, BeginScan, ApplyScan, DropScan
<1>5. ASSUME NEW k \in Key, Adapter(k) PROVE UNCHANGED worker
  BY <1>5 DEF Adapter, Accept, Progress, Fail
<1>6. CASE Passing \/ WorkspaceReset
  BY <1>1, <1>6 DEF Passing, LeaseExpires, BackoffElapses, Retry, ExpireDeadlines,
                    SetPolicy, WorkspaceReset
<1> QED
  BY <1>1, <1>2, <1>3, <1>4, <1>5, <1>6 DEF Next

\* Every step keeps the types of pending posts and connection policies.
LEMMA PostsAndPolicies ==
    ASSUME IInv, Next
    PROVE  /\ posts' \in SUBSET PendingPost
           /\ policy' \in [Participant -> {"none", "ready", "paused"}]
<1> USE DEF IInv
<1>1. CASE UNCHANGED <<posts, policy>>
  BY <1>1 DEF TypeOK
<1>2. ASSUME NEW m \in Message, NEW i \in Identity, Post(m, i)
      PROVE  /\ posts' \in SUBSET PendingPost
             /\ policy' \in [Participant -> {"none", "ready", "paused"}]
  <2> DEFINE x == [key |-> [message |-> m, identity |-> i],
                   participant |-> thread.member[i], revision |-> thread.revision + 1]
  <2>1. thread.member[i] \in Participant /\ thread.revision + 1 \in Nat
    BY DEF TypeOK, Thread
  <2>2. [message |-> m, identity |-> i] \in Key
    BY DEF Key
  <2>3. x \in PendingPost
    BY <2>1, <2>2 DEF PendingPost
  <2>4. posts' = posts \cup {x} /\ UNCHANGED policy
    BY <1>2 DEF Post
  <2> HIDE DEF x
  <2> QED
    BY <2>3, <2>4 DEF TypeOK
<1>3. CASE Author
  BY <1>1, <1>2, <1>3 DEF Author, Assign, Edit, DeleteThread, RestoreThread,
                          LosePost, QueuePost, TypeOK
<1>4. ASSUME NEW s \in Scanner, Reconcile(s) PROVE UNCHANGED <<posts, policy>>
  BY <1>4 DEF Reconcile, BeginScan, ApplyScan, DropScan
<1>5. ASSUME NEW w \in Worker, Serve(w) PROVE UNCHANGED <<posts, policy>>
  BY <1>5 DEF Serve, Claim, ReadClaim, ReadRefused, FailClaim, BeginReply,
              CheckLease, AppendReply, CommitReply, MarkReplied, LoseWorker
<1>6. ASSUME NEW k \in Key, Adapter(k) PROVE UNCHANGED <<posts, policy>>
  BY <1>6 DEF Adapter, Accept, Progress, Fail
<1>7. ASSUME NEW p \in Participant, NEW v \in {"none", "ready", "paused"},
             SetPolicy(p, v)
      PROVE  /\ posts' \in SUBSET PendingPost
             /\ policy' \in [Participant -> {"none", "ready", "paused"}]
  BY <1>7 DEF SetPolicy, TypeOK
<1>8. CASE Passing \/ WorkspaceReset
  BY <1>1, <1>7, <1>8 DEF Passing, LeaseExpires, BackoffElapses, Retry,
                          ExpireDeadlines, WorkspaceReset
<1> QED
  BY <1>1, <1>3, <1>4, <1>5, <1>6, <1>8 DEF Next

\* The initial state satisfies the inductive invariant.
LEMMA InitIInv == Init => IInv
<1> SUFFICES ASSUME Init PROVE IInv
  OBVIOUS
<1>1. PICK member \in [Identity -> Participant] :
        thread = [present |-> FALSE, revision |-> 0,
                  request |-> [m \in Message |-> Unsent], member |-> member]
  BY DEF Init
<1>2. [m \in Message |-> Unsent] \in [Message -> Request]
  BY RequestTypes
<1>3. thread \in Thread
  BY <1>1, <1>2 DEF Thread
<1>4. Stored(emptyFile) = {} /\ emptyFile \in DeliveryFile
  BY DEF Stored, emptyFile, DeliveryFile
<1>5. FileOK(file) /\ RepliedIsCanonical
  BY <1>4 DEF Init, FileOK, Unshared, SingleManaged, RepliedIsCanonical
<1>6. TypeOK
  BY <1>3, <1>4, IdleOK DEF Init, TypeOK
<1>7. WorkersKeyed /\ MarksAppended
  BY IdleOK DEF Init, WorkersKeyed, MarksAppended
<1>8. ScansPast
  BY DEF Init, ScansPast
<1> QED
  BY <1>5, <1>6, <1>7, <1>8 DEF IInv

\* The strengthened invariant is inductive.
LEMMA DeliveryInvariant == Spec => []IInv
<1>1. IInv /\ [Next]_vars => IInv'
  <2> SUFFICES ASSUME IInv, [Next]_vars PROVE IInv'
    OBVIOUS
  <2>1. CASE Next
    <3>1. thread' \in Thread /\ RespondedStays
      BY <2>1, ThreadInductive
    <3>2. FileOK(file') /\ RepliesTracked
      BY <2>1, FileInductive
    <3>3. scan' \in [Scanner -> Snapshot \cup {None}] /\ ScansPast'
      BY <2>1, <3>1, ScansInductive
    <3>4. worker' \in [Worker -> WorkerState] /\ WorkersKeyed' /\ MarksAppended'
      BY <2>1, <3>1, WorkersInductive
    <3>5. /\ posts' \in SUBSET PendingPost
          /\ policy' \in [Participant -> {"none", "ready", "paused"}]
      BY <2>1, PostsAndPolicies
    <3>6. TypeOK'
      BY <3>1, <3>2, <3>3, <3>4, <3>5 DEF TypeOK, FileOK
    <3>7. RepliedIsCanonical'
      <4> SUFFICES ASSUME NEW k \in Stored(file'),
                          file'.deliveries[k].state = "replied"
                   PROVE  thread'.request[k.message] = RespondedBy(k.identity)
        BY DEF RepliedIsCanonical, Record
      <4>1. CASE k \in Stored(file) /\ file.deliveries[k].state = "replied"
        <5>1. thread.request[k.message] = RespondedBy(k.identity)
          BY <4>1 DEF IInv, RepliedIsCanonical, Record
        <5>2. k.message \in Message /\ thread.request[k.message].status = "responded"
          BY <5>1 DEF Stored, Key, RespondedBy
        <5> QED
          BY <3>1, <5>1, <5>2 DEF RespondedStays
      <4> QED
        BY <3>2, <4>1 DEF RepliesTracked
    <3> QED
      BY <3>2, <3>3, <3>4, <3>6, <3>7 DEF IInv
  <2>2. CASE UNCHANGED vars
    BY <2>2 DEF vars, IInv, TypeOK, WorkersKeyed, ScansPast, MarksAppended,
                RepliedIsCanonical, Record
  <2> QED
    BY <2>1, <2>2
<1> QED
  BY InitIInv, <1>1, PTL DEF Spec

\* Deliveries never run past MAX_ATTEMPTS, whatever failures, refunds, expiries
\* and reconciliations thread-delivery-store.ts goes through.
THEOREM Attempts == Spec => []AttemptsBounded
<1>1. IInv => AttemptsBounded
  BY DEF IInv, FileOK, RecordOK, AttemptsBounded, Record
<1> QED
  BY DeliveryInvariant, <1>1, PTL

\* Lease fields agree with the state and no lease authorizes two deliveries.
THEOREM Leases == Spec => []LeaseFencing
<1>1. IInv => LeaseFencing
  BY DEF IInv, FileOK, RecordOK, Unshared, LeaseFencing, Record
<1> QED
  BY DeliveryInvariant, <1>1, PTL

\* "replied" is said only of requests the thread shows as answered by the
\* identity that was asked.
THEOREM Replies == Spec => []RepliedIsCanonical
<1>1. IInv => RepliedIsCanonical
  BY DEF IInv
<1> QED
  BY DeliveryInvariant, <1>1, PTL

\* A Grok Bot participant never has two managed executions in flight.
THEOREM ManagedExecutions == Spec => []OneManagedExecution
<1>1. IInv => OneManagedExecution
  BY DEF IInv, FileOK, SingleManaged, OneManagedExecution, Record
<1> QED
  BY DeliveryInvariant, <1>1, PTL

\* The thread, the delivery file, the scans and the workers of thread-service.ts
\* and thread-delivery-store.ts keep their declared shape.
THEOREM DeliveryTypes == Spec => []TypeOK
<1>1. IInv => TypeOK
  BY DEF IInv
<1> QED
  BY DeliveryInvariant, <1>1, PTL

-----------------------------------------------------------------------------
(* Retired assignments *)

Retired(f, k) ==
    /\ f.deliveries[k] # None
    /\ f.deliveries[k].state = "failed"
    /\ f.deliveries[k].error = "retired"

\* A retired delivery is left alone, dropped, or found to be answered.
KeepsRetired(f, g) ==
    \A k \in Key : Retired(f, k) =>
        \/ g.deliveries[k] = f.deliveries[k]
        \/ g.deliveries[k] = None
        \/ g.deliveries[k].state = "replied"

\* What a file may do with the retired deliveries of another (the property,
\* for any two files).
RevivesFresh(f, g) ==
    \A k \in Key :
        /\ Retired(f, k)
        /\ g.deliveries[k] # None
        /\ g.deliveries[k].state = "queued"
        => LET p == f.deliveries[k].participant
           IN  \/ g.deliveries[k].participant # p
               \/ g.canonicalRevisions[p] > f.canonicalRevisions[p]

LEMMA KeptIsFresh ==
    ASSUME NEW f, NEW g, KeepsRetired(f, g) PROVE RevivesFresh(f, g)
BY DEF KeepsRetired, RevivesFresh, Retired

\* Writing the record of a delivery that is not retired keeps the retired ones.
LEMMA PutKeepsRetired ==
    ASSUME NEW f \in DeliveryFile, NEW k \in Key, NEW q,
           ~Retired(f, k) \/ q.state = "replied"
    PROVE  KeepsRetired(f, Put(f, k, q))
<1>1. \A j \in Key : Put(f, k, q).deliveries[j] = IF j = k THEN q ELSE f.deliveries[j]
  BY DEF Put, DeliveryFile
<1> QED
  BY <1>1 DEF KeepsRetired

\* failThreadDelivery ends an attempt that was in work, never a retired one.
LEMMA FailKeepsRetired ==
    ASSUME NEW f, FileOK(f), NEW k \in Stored(f), f.deliveries[k].live,
           NEW retryable, NEW spend, NEW error, NEW revision
    PROVE  KeepsRetired(f, failThreadDelivery(f, k, retryable, spend, error, revision))
<1> DEFINE g == failThreadDelivery(f, k, retryable, spend, error, revision)
<1>1. ~Retired(f, k)
  BY DEF FileOK, RecordOK, Retired, active
<1>2. \A j \in Key \ {k} : g.deliveries[j] = f.deliveries[j]
  BY DEF failThreadDelivery, Put, FileOK, DeliveryFile
<1> QED
  BY <1>1, <1>2 DEF KeepsRetired

\* Neither the expiry pass nor the scan of a claim touches what has ended.
LEMMA ExpireKeepsRetired ==
    ASSUME NEW f \in DeliveryFile, NEW p, NEW legacy
    PROVE  \A k \in Key :
             Retired(f, k) => expireManaged(f, p, legacy).deliveries[k] = f.deliveries[k]
BY DEF expireManaged, Overdue, active, Retired, DeliveryFile

LEMMA ClaimKeepsRetired ==
    ASSUME NEW f \in DeliveryFile, NEW p, NEW status, NEW l,
           NEW c, c = None \/ c \in Claimable(f, p, status)
    PROVE  \A k \in Key :
             Retired(f, k) =>
               claimThreadDelivery(f, p, status, c, l).deliveries[k] = f.deliveries[k]
<1> SUFFICES ASSUME NEW k \in Key, Retired(f, k)
             PROVE  claimThreadDelivery(f, p, status, c, l).deliveries[k] = f.deliveries[k]
  OBVIOUS
<1>1. k \notin Considered(f, p, status)
  BY DEF Retired, Considered, Terminal
<1>2. k # c /\ k \notin Exhausted(f, p, status)
  BY <1>1, NoneIsNoRecord DEF Claimable, Exhausted
<1> QED
  BY <1>2 DEF claimThreadDelivery, DeliveryFile

\* queueThreadDelivery leaves the deliveries it finds alone.
LEMMA QueueKeepsRetired ==
    ASSUME NEW f \in DeliveryFile, NEW k \in Key, NEW p, NEW revision
    PROVE  KeepsRetired(f, queueThreadDelivery(f, k, p, revision))
<1> DEFINE g == queueThreadDelivery(f, k, p, revision)
<1>1. \A j \in Stored(f) : g.deliveries[j] = f.deliveries[j]
  BY DEF queueThreadDelivery, PushAll, DeliveryFile, Stored
<1> QED
  BY <1>1 DEF KeepsRetired, Retired, Stored

\* An input requeues a retired record only for another participant or when
\* the thread has moved past the participant's watermark.
LEMMA ReconciledRetired ==
    ASSUME NEW r \in DeliveryRecord, r.state = "failed", NEW p \in Participant,
           NEW replied \in BOOLEAN, NEW fresh \in BOOLEAN,
           Reconciled(r, p, replied, fresh).state = "queued"
    PROVE  \/ r.participant # p /\ Reconciled(r, p, replied, fresh).participant = p
           \/ r.participant = p /\ fresh
<1>1. CASE r.participant # p
  BY <1>1 DEF Reconciled, Requeue, Settle, DeliveryRecord
<1>2. CASE r.participant = p /\ replied
  <2>1. Settle(r, "replied", "none").state = "replied"
    BY DEF Settle, DeliveryRecord
  <2> QED
    BY <1>2, <2>1 DEF Reconciled
<1>3. CASE r.participant = p /\ ~replied
  BY <1>3 DEF Reconciled
<1> QED
  BY <1>1, <1>2, <1>3

\* A retired delivery comes back through reconcileThreadDeliveries only with a
\* thread revision above the participant's watermark, which rises to it.
LEMMA ReconcileRevivesFresh ==
    ASSUME NEW f \in DeliveryFile, NEW p \in Participant, NEW t \in Thread,
           NEW complete \in BOOLEAN
    PROVE  RevivesFresh(f, reconcileThreadDeliveries(f, p, t, complete))
<1> DEFINE before == f.canonicalRevisions[p]
           raised == IF t.present /\ t.revision > before THEN t.revision ELSE before
           snapshotRevision == IF t.present THEN t.revision ELSE Fence
           inputs == Inputs(p, t)
           missing == {k \in Stored(f) : /\ complete
                                         /\ snapshotRevision >= raised
                                         /\ f.deliveries[k].participant = p
                                         /\ k \notin inputs}
           removed == {k \in missing : Terminal(f.deliveries[k])}
           d == DropAll(f, removed)
           applied == IF t.revision >= raised THEN inputs ELSE {}
           replied(k) == t.request[k.message].status = "responded"
           fresh == t.revision > before
           watermark == IF missing # {} THEN snapshotRevision ELSE raised
           kept == [k \in Key |->
                      IF k \in missing \ removed
                      THEN Settle(d.deliveries[k], "failed", "retired")
                      ELSE IF k \in applied \cap Stored(d)
                      THEN Reconciled(d.deliveries[k], p, replied(k), fresh)
                      ELSE d.deliveries[k]]
           h == [d EXCEPT !.canonicalRevisions[p] = watermark,
                          !.deliveries = kept]
           added == applied \ Stored(d)
           new == [k \in added |->
                     NewRecord(p, IF replied(k) THEN "replied" ELSE "queued")]
           g == reconcileThreadDeliveries(f, p, t, complete)
<1>1. g = PushAll(h, added, new)
  BY DEF reconcileThreadDeliveries
<1>2. t.revision \in Nat /\ before \in Nat
  BY DEF Thread, DeliveryFile
<1>3. /\ \A k \in Key : d.deliveries[k] = IF k \in removed THEN None ELSE f.deliveries[k]
      /\ d.canonicalRevisions = f.canonicalRevisions
      /\ d \in DeliveryFile
  <2> HIDE DEF removed
  <2>1. \A k \in Key : (IF k \in removed THEN {} ELSE f.ahead[k] \ removed) \in SUBSET Key
    BY DEF DeliveryFile
  <2> QED
    BY <2>1 DEF DeliveryFile, DropAll
<1>4. removed \subseteq missing /\ missing \cap inputs = {} /\ applied \subseteq inputs
  OBVIOUS
<1>5. \A k \in inputs : t.present
  BY DEF Inputs
<1>6. ASSUME fresh, NEW k \in inputs PROVE watermark > before
  BY <1>2, <1>5, <1>6
<1> HIDE DEF d, missing, removed, inputs, applied, fresh, replied, g, watermark
<1>7. /\ h.deliveries = kept
      /\ h.canonicalRevisions = [d.canonicalRevisions EXCEPT ![p] = watermark]
  BY <1>3 DEF DeliveryFile
<1>8. h.canonicalRevisions[p] = watermark
  BY <1>3, <1>7 DEF DeliveryFile
<1> HIDE DEF kept, h, new, added
<1>9. /\ g.canonicalRevisions = h.canonicalRevisions
      /\ \A k \in Key : g.deliveries[k] = IF k \in added THEN new[k] ELSE h.deliveries[k]
  BY <1>1, <1>3, <1>7 DEF PushAll, h, DeliveryFile
<1> SUFFICES ASSUME NEW k \in Key, Retired(f, k), g.deliveries[k] # None,
                    g.deliveries[k].state = "queued",
                    g.deliveries[k].participant = f.deliveries[k].participant
             PROVE  g.canonicalRevisions[f.deliveries[k].participant]
                      > f.canonicalRevisions[f.deliveries[k].participant]
  BY DEF RevivesFresh, g
<1> DEFINE r == f.deliveries[k]
<1>10. r \in DeliveryRecord /\ r.state = "failed" /\ r # None /\ k \in Stored(f)
  BY DEF Retired, DeliveryFile, Stored
<1>11. k \notin removed
  <2> SUFFICES ASSUME k \in removed PROVE FALSE
    OBVIOUS
  <2>1. d.deliveries[k] = None /\ k \notin added
    BY <1>3, <1>4 DEF added
  <2>2. k \notin missing \ removed /\ k \notin Stored(d)
    BY <2>1 DEF Stored
  <2>3. kept[k] = None
    BY <2>1, <2>2 DEF kept
  <2> QED
    BY <1>7, <1>9, <2>1, <2>3
<1>12. d.deliveries[k] = r /\ k \in Stored(d) /\ k \notin added
  BY <1>3, <1>10, <1>11 DEF Stored, added
<1>13. g.deliveries[k] = kept[k]
  BY <1>7, <1>9, <1>12
<1>14. k \notin missing
  BY <1>10, <1>11 DEF removed, Terminal
<1>15. CASE k \in applied
  <2>1. kept[k] = Reconciled(r, p, replied(k), fresh)
    BY <1>12, <1>14, <1>15 DEF kept
  <2>2. replied(k) \in BOOLEAN /\ fresh \in BOOLEAN
    BY DEF replied, fresh
  <2>3. Reconciled(r, p, replied(k), fresh).state = "queued"
    BY <1>13, <2>1
  <2> HIDE DEF r
  <2>4. \/ r.participant # p /\ kept[k].participant = p
        \/ r.participant = p /\ fresh
    BY <1>10, <2>1, <2>2, <2>3, ReconciledRetired
  <2>5. r.participant = p /\ fresh
    BY <1>13, <2>4 DEF r
  <2> QED
    BY <1>4, <1>6, <1>8, <1>9, <1>15, <2>5 DEF r
<1>16. CASE k \notin applied
  <2>1. kept[k] = r
    BY <1>12, <1>14, <1>16 DEF kept
  <2> QED
    BY <1>10, <1>13, <2>1
<1> QED
  BY <1>15, <1>16

\* Every step of the service respects the participants' watermarks.
LEMMA StepRevivesFresh ==
    ASSUME IInv, Next
    PROVE  RevivesFresh(file, file')
<1> DEFINE Goal == RevivesFresh(file, file')
<1>1. file \in DeliveryFile /\ FileOK(file)
  BY DEF IInv, FileOK
<1>2. ASSUME KeepsRetired(file, file') PROVE Goal
  BY <1>2, KeptIsFresh
<1>3. ASSUME \A k \in Key : Retired(file, k) => file'.deliveries[k] = file.deliveries[k]
      PROVE  Goal
  BY <1>2, <1>3 DEF KeepsRetired
<1>4. ASSUME file' = file PROVE Goal
  BY <1>3, <1>4
<1> HIDE DEF Goal
<1>5. ASSUME NEW x \in posts, QueuePost(x) PROVE Goal
  <2>1. x.key \in Key
    BY <1>5 DEF IInv, TypeOK, PendingPost
  <2>2. CASE file' = queueThreadDelivery(file, x.key, x.participant, x.revision)
    BY <1>1, <1>2, <2>1, <2>2, QueueKeepsRetired
  <2> QED
    BY <1>4, <1>5, <2>2 DEF QueuePost
<1>6. ASSUME NEW s \in Scanner, ApplyScan(s) PROVE Goal
  <2>1. scan[s] \in Snapshot
    BY <1>6 DEF ApplyScan, IInv, TypeOK
  <2>2. /\ scan[s].participant \in Participant /\ scan[s].thread \in Thread
        /\ scan[s].complete \in BOOLEAN
    BY <2>1 DEF Snapshot
  <2> QED
    BY <1>1, <1>6, <2>2, ReconcileRevivesFresh DEF ApplyScan, Goal
<1>7. ASSUME NEW w \in Worker, NEW p \in Participant, Claim(w, p) PROVE Goal
  <2> DEFINE f == BeforeClaim(file, p, policy[p])
  <2>1. f \in DeliveryFile
    BY <1>1, ExpireStep DEF BeforeClaim, FileOK
  <2>2. \A k \in Key : Retired(file, k) => f.deliveries[k] = file.deliveries[k]
    <3>1. CASE policy[p] = "none"
      BY <3>1 DEF BeforeClaim
    <3>2. CASE policy[p] # "none"
      <4>1. f = expireManaged(file, p, TRUE)
        BY <3>2 DEF BeforeClaim
      <4>2. \A k \in Key :
              Retired(file, k) => expireManaged(file, p, TRUE).deliveries[k]
                                    = file.deliveries[k]
        BY <1>1 DEF expireManaged, Overdue, active, Retired, DeliveryFile
      <4> HIDE DEF f
      <4> QED
        BY <4>1, <4>2
    <3> QED
      BY <3>1, <3>2
  <2>3. \A k \in Key : Retired(file, k) => Retired(f, k)
    BY <2>2 DEF Retired
  <2> HIDE DEF f
  <2>4. CASE file' = f
    BY <1>3, <2>2, <2>4
  <2>5. ASSUME NEW c, NEW l, c = None \/ c \in Claimable(f, p, policy[p]),
               file' = claimThreadDelivery(f, p, policy[p], c, l)
        PROVE  Goal
    <3>1. \A k \in Key : Retired(f, k) => file'.deliveries[k] = f.deliveries[k]
      BY <2>1, <2>5, ClaimKeepsRetired
    <3> QED
      BY <1>3, <2>2, <2>3, <3>1
  <2> QED
    BY <1>7, <2>4, <2>5 DEF Claim, f
<1>8. ASSUME NEW w \in Worker, FailClaim(w) PROVE Goal
  <2> DEFINE k == worker[w].key
  <2>1. k \in Key
    BY <1>8 DEF FailClaim, IInv, WorkersKeyed
  <2>2. CASE /\ requireLease(file, k, worker[w].lease, worker[w].participant)
             /\ file' = failThreadDelivery(file, k, worker[w].error = "access", FALSE,
                                           worker[w].error, worker[w].revision)
    <3>1. k \in Stored(file) /\ file.deliveries[k].live
      BY <2>1, <2>2 DEF requireLease, Stored
    <3> HIDE DEF k
    <3> QED
      BY <1>1, <1>2, <2>2, <3>1, FailKeepsRetired
  <2> QED
    BY <1>4, <1>8, <2>2 DEF FailClaim
<1>9. ASSUME NEW w \in Worker, CommitReply(w) \/ MarkReplied(w) PROVE Goal
  <2> DEFINE k == worker[w].key
             q == Settle(file.deliveries[k], "replied", "none")
  <2>1. k \in Key
    BY <1>9 DEF IInv, WorkersKeyed, CommitReply, MarkReplied
  <2>2. CASE file' = Put(file, k, q) /\ file.deliveries[k] # None
    <3>1. file.deliveries[k] \in DeliveryRecord
      BY <1>1, <2>1, <2>2 DEF DeliveryFile
    <3>2. q.state = "replied"
      BY <3>1 DEF Settle, DeliveryRecord
    <3> HIDE DEF k, q
    <3> QED
      BY <1>1, <1>2, <2>1, <2>2, <3>2, PutKeepsRetired
  <2>3. \/ file' = file
        \/ file' = Put(file, k, q) /\ file.deliveries[k] # None
    BY <1>9 DEF CommitReply, MarkReplied, markThreadDeliveryReplied, replyLease,
                requireLease
  <2> QED
    BY <1>4, <2>2, <2>3
<1>10. ASSUME NEW w \in Worker, Serve(w) PROVE Goal
  BY <1>4, <1>7, <1>8, <1>9, <1>10 DEF Serve, ReadClaim, ReadRefused, BeginReply,
       CheckLease, AppendReply, LoseWorker
<1>11. ASSUME NEW k \in Key, NEW q, ~Retired(file, k), file' = Put(file, k, q)
       PROVE  Goal
  BY <1>1, <1>2, <1>11, PutKeepsRetired
<1>12. ASSUME NEW k \in Key, Live(k) PROVE k \in Stored(file) /\ ~Retired(file, k)
  BY <1>1, <1>12 DEF Live, FileOK, RecordOK, Retired, active, Stored
<1>13. ASSUME NEW k \in Key, Adapter(k) PROVE Goal
  <2>1. CASE Accept(k)
    BY <1>11, <1>12, <2>1 DEF Accept, acceptThreadDelivery
  <2>2. ASSUME NEW phase \in Phase, Progress(k, phase) PROVE Goal
    BY <1>11, <1>12, <2>2 DEF Progress, progressThreadDelivery
  <2>3. ASSUME NEW retryable \in BOOLEAN, Fail(k, retryable) PROVE Goal
    <3>1. k \in Stored(file) /\ file.deliveries[k].live
      BY <1>12, <2>3 DEF Fail, Live
    <3>2. file' = failThreadDelivery(file, k, retryable, TRUE, "agent", 0)
      BY <2>3 DEF Fail
    <3> QED
      BY <1>1, <1>2, <3>1, <3>2, FailKeepsRetired
  <2> QED
    BY <1>13, <2>1, <2>2, <2>3 DEF Adapter
<1>14. ASSUME NEW k \in Key, LeaseExpires(k) \/ BackoffElapses(k) \/ Retry(k)
       PROVE  Goal
  <2>1. CASE LeaseExpires(k)
    BY <1>11, <1>12, <2>1 DEF LeaseExpires
  <2>2. CASE BackoffElapses(k)
    <3>1. ~Retired(file, k)
      BY <1>1, <2>2 DEF BackoffElapses, FileOK, RecordOK, Retired
    <3> QED
      BY <1>11, <2>2, <3>1 DEF BackoffElapses
  <2>3. CASE Retry(k)
    BY <1>11, <2>3 DEF Retry, retryGrokBotDelivery, Retired, isRetiredThreadDelivery
  <2> QED
    BY <1>14, <2>1, <2>2, <2>3
<1>15. ASSUME NEW p \in Participant, ExpireDeadlines(p) PROVE Goal
  BY <1>1, <1>3, <1>15, ExpireKeepsRetired DEF ExpireDeadlines
<1>16. ASSUME WorkspaceReset PROVE Goal
  <2>1. \A k \in Key : file'.deliveries[k] = None
    BY <1>16 DEF WorkspaceReset, emptyFile
  <2>2. KeepsRetired(file, file')
    BY <2>1 DEF KeepsRetired
  <2> QED
    BY <1>2, <2>2
<1>17. ASSUME Author PROVE Goal
  <2>1. file' = file \/ \E x \in posts : QueuePost(x)
    BY <1>17 DEF Author, Post, Assign, Edit, DeleteThread, RestoreThread, LosePost
  <2> QED
    BY <1>4, <1>5, <2>1
<1>18. ASSUME NEW s \in Scanner, Reconcile(s) PROVE Goal
  BY <1>4, <1>6, <1>18 DEF Reconcile, BeginScan, DropScan
<1>19. ASSUME Passing PROVE Goal
  <2>1. \/ file' = file
        \/ \E k \in Key : LeaseExpires(k) \/ BackoffElapses(k) \/ Retry(k)
        \/ \E p \in Participant : ExpireDeadlines(p)
    BY <1>19 DEF Passing, SetPolicy
  <2> QED
    BY <1>4, <1>14, <1>15, <2>1
<1> QED
  BY <1>10, <1>13, <1>16, <1>17, <1>18, <1>19 DEF Next, Goal

\* "does not let an older scan revive a retired assignment": however late a
\* scan is applied, and whatever claims, retries and resets come in between,
\* reconcileThreadDeliveries queues a retired delivery again only for another
\* participant or with a newer thread revision.
THEOREM Revival == Spec => NoStaleRevival
<1>1. IInv /\ [Next]_vars =>
        [\A k \in Stored(file) :
           /\ Record(k).state = "failed" /\ Record(k).error = "retired"
           /\ file'.deliveries[k] # None /\ file'.deliveries[k].state = "queued"
           => LET p == Record(k).participant
              IN  \/ file'.deliveries[k].participant # p
                  \/ file'.canonicalRevisions[p] > file.canonicalRevisions[p]]_vars
  <2> SUFFICES ASSUME IInv, Next
               PROVE  \A k \in Stored(file) :
                        /\ Record(k).state = "failed" /\ Record(k).error = "retired"
                        /\ file'.deliveries[k] # None
                        /\ file'.deliveries[k].state = "queued"
                        => LET p == Record(k).participant
                           IN  \/ file'.deliveries[k].participant # p
                               \/ file'.canonicalRevisions[p] > file.canonicalRevisions[p]
    OBVIOUS
  <2>1. RevivesFresh(file, file')
    BY StepRevivesFresh
  <2> QED
    BY <2>1 DEF RevivesFresh, Retired, Record, Stored
<1> QED
  BY DeliveryInvariant, <1>1, PTL DEF Spec, NoStaleRevival
=============================================================================
