----------------------- MODULE CrossProcessLockProofs -----------------------
(***************************************************************************)
(* For any set of processes, any number of calls and restarts: exclusion   *)
(* fails only through a displaced file, and stale recovery deletes only    *)
(* the files of dead incarnations.                                         *)
(***************************************************************************)
EXTENDS CrossProcessLock, TLAPS

\* An owner record never carries a birth token its pid has not had yet.
Past(o) == o.incarnation <= incarnation[o.pid]

PastOwners ==
    /\ lock # Undefined => Past(lock.owner)
    /\ \A p \in Proc : quarantine[p] # Undefined => Past(quarantine[p].owner)
    /\ \A p \in Proc : observed[p] # Undefined => Past(observed[p])
    /\ \A p \in Proc : Past(owner[p])

\* A call's record names its own live process.
OwnRecord ==
    \A p \in Proc :
        /\ owner[p].pid = p
        /\ pc[p] \notin {"idle", "down"} =>
             owner[p].incarnation = incarnation[p]

\* The verdict of the liveness check stays true until it is acted on.
JudgedDead ==
    \A p \in Proc :
        /\ pc[p] \in {"recheck", "rename", "verify"} /\ observed[p] # Undefined
             => ~ownerProcessIsCurrent(observed[p])
        /\ pc[p] = "alive" => observed[p] # Undefined
        /\ pc[p] = "verify" => quarantine[p] # Undefined

InPlace ==
    ~displaced =>
        \A p \in Proc :
            /\ Holding(p) => lock # Undefined /\ lock.owner = owner[p]
            /\ pc[p] = "verify" => quarantine[p].owner = observed[p]

IInv == TypeOK /\ PastOwners /\ OwnRecord /\ JudgedDead /\ InPlace

\* Every state of the lock protocol has the declared shape.
LEMMA TypeInductive == TypeOK /\ [Next]_vars => TypeOK'
<1> SUFFICES ASSUME TypeOK, [Next]_vars PROVE TypeOK'
  OBVIOUS
<1> USE DEF TypeOK, Control, Goto, File, LockOwner
<1>1. ASSUME NEW p \in Proc, Begin(p) PROVE TypeOK'
  <2>1. nonce[p] + 1 \in 0..MaxCalls
    BY <1>1, LockConstants DEF Begin
  <2>2. QED
    BY <1>1, <2>1 DEF Begin
<1>2. ASSUME NEW p \in Proc, Link(p) PROVE TypeOK'
  <2>1. [owner |-> owner[p], aged |-> FALSE] \in File
    OBVIOUS
  <2>2. lock' \in File \cup {Undefined}
    BY <1>2, <2>1 DEF Link
  <2>3. QED
    BY <1>2, <2>2 DEF Link
<1>3. ASSUME NEW p \in Proc, Stat(p) \/ CheckAlive(p) \/ Wait(p) \/ Recheck(p)
                              \/ ReleaseRead(p)
      PROVE TypeOK'
  BY <1>3 DEF Stat, CheckAlive, Wait, Recheck, ReleaseRead
<1>4. ASSUME NEW p \in Proc, Read(p) PROVE TypeOK'
  BY <1>4 DEF Read, readOwner
<1>5. ASSUME NEW p \in Proc, Rename(p) PROVE TypeOK'
  <2>1. displaced' \in BOOLEAN
    BY <1>5 DEF Rename
  <2>2. lock' \in File \cup {Undefined} /\ quarantine' \in [Proc -> File \cup {Undefined}]
    BY <1>5 DEF Rename
  <2>3. pc' \in [Proc -> Control]
    BY <1>5 DEF Rename
  <2>4. QED
    BY <1>5, <2>1, <2>2, <2>3 DEF Rename
<1>6. ASSUME NEW p \in Proc, Remove(p) \/ Restore(p) \/ ReleaseRemove(p)
      PROVE TypeOK'
  BY <1>6 DEF Remove, Restore, ReleaseRemove
<1>7. CASE Age
  BY <1>7 DEF Age
<1>8. ASSUME NEW p \in Proc, DeadlinePasses(p) \/ Crash(p) PROVE TypeOK'
  BY <1>8 DEF DeadlinePasses, Crash
<1>9. ASSUME NEW p \in Proc, Restart(p) PROVE TypeOK'
  <2>1. incarnation[p] + 1 \in 0..MaxRestarts
    BY <1>9, LockConstants DEF Restart
  <2>2. QED
    BY <1>9, <2>1 DEF Restart
<1>10. CASE UNCHANGED vars
  BY <1>10 DEF vars
<1>11. QED
  BY <1>1, <1>2, <1>3, <1>4, <1>5, <1>6, <1>7, <1>8, <1>9, <1>10
     DEF Next, Step

\* The protocol starts in the invariant.
LEMMA InitIInv == Init => IInv
<1> SUFFICES ASSUME Init PROVE IInv
  OBVIOUS
<1>1. TypeOK
  <2>1. expired \in [Proc -> BOOLEAN] /\ displaced \in BOOLEAN
    BY DEF Init
  <2>2. owner \in [Proc -> LockOwner]
    BY LockConstants DEF Init, LockOwner
  <2>3. nonce \in [Proc -> 0..MaxCalls] /\ incarnation \in [Proc -> 0..MaxRestarts]
    BY LockConstants DEF Init
  <2>4. QED
    BY <2>1, <2>2, <2>3 DEF Init, TypeOK, Control
<1>2. PastOwners /\ OwnRecord
  BY LockConstants DEF Init, PastOwners, Past, OwnRecord
<1>3. JudgedDead /\ InPlace
  BY DEF Init, JudgedDead, InPlace, Holding
<1>4. QED
  BY <1>1, <1>2, <1>3 DEF IInv

\* A dead incarnation stays dead: its pid is down, or came back younger.
LEMMA DeadStaysDead ==
    ASSUME TypeOK, [Next]_vars, NEW o \in LockOwner, Past(o)
    PROVE  /\ Past(o)'
           /\ ~ownerProcessIsCurrent(o) => ~ownerProcessIsCurrent(o)'
<1> USE DEF TypeOK, Past, ownerProcessIsCurrent, Goto, LockOwner
<1>1. ASSUME NEW p \in Proc, Restart(p)
      PROVE  /\ Past(o)'
             /\ ~ownerProcessIsCurrent(o) => ~ownerProcessIsCurrent(o)'
  BY <1>1, LockConstants DEF Restart
<1>2. CASE ~ \E p \in Proc : Restart(p)
  <2>1. incarnation' = incarnation
    BY <1>2 DEF Next, Step, Begin, Link, Stat, Read, CheckAlive, Wait,
       Recheck, Rename, Remove, Restore, ReleaseRead, ReleaseRemove, Age,
       DeadlinePasses, Crash, vars
  <2>2. \A p \in Proc : pc[p] = "down" => pc'[p] = "down"
    BY <1>2 DEF Next, Step, Begin, Link, Stat, Read, CheckAlive, Wait,
       Recheck, Rename, Remove, Restore, ReleaseRead, ReleaseRemove, Age,
       DeadlinePasses, Crash, vars
  <2>3. QED
    BY <2>1, <2>2
<1>3. QED
  BY <1>1, <1>2

\* No action writes an owner record from the future.
LEMMA PastInductive == IInv /\ [Next]_vars => PastOwners'
<1> SUFFICES ASSUME IInv, [Next]_vars PROVE PastOwners'
  OBVIOUS
<1>0. TypeOK /\ TypeOK' /\ PastOwners
  BY TypeInductive DEF IInv
<1>1. \A o \in LockOwner : Past(o) => Past(o)'
  BY <1>0, DeadStaysDead
<1>2. \A p \in Proc : Past(owner[p])'
  <2>1. \A p \in Proc : owner'[p] = owner[p]
          \/ owner'[p] = [pid |-> p, nonce |-> nonce'[p], incarnation |-> incarnation'[p]]
    BY <1>0 DEF Next, Step, Begin, Link, Stat, Read, CheckAlive, Wait, TypeOK,
       Recheck, Rename, Remove, Restore, ReleaseRead, ReleaseRemove, Age,
       DeadlinePasses, Crash, Restart, vars
  <2>2. TAKE p \in Proc
  <2>3. CASE owner'[p] = owner[p]
    BY <2>3, <1>0, <1>1 DEF PastOwners, TypeOK, Past
  <2>4. CASE owner'[p] = [pid |-> p, nonce |-> nonce'[p], incarnation |-> incarnation'[p]]
    <3>1. incarnation'[p] \in Nat
      BY <1>0, LockConstants DEF TypeOK
    <3>2. QED
      BY <2>4, <3>1 DEF Past
  <2>5. QED
    BY <2>1, <2>3, <2>4
<1>3. lock' # Undefined => Past(lock.owner)'
  <2>1. \/ lock' = Undefined \/ lock' = lock
        \/ \E p \in Proc : lock' = [owner |-> owner[p], aged |-> FALSE]
        \/ \E p \in Proc : lock' = quarantine[p]
        \/ lock # Undefined /\ lock' = [lock EXCEPT !.aged = TRUE]
    BY <1>0 DEF Next, Step, Begin, Link, Stat, Read, CheckAlive, Wait, TypeOK,
       Recheck, Rename, Remove, Restore, ReleaseRead, ReleaseRemove, Age,
       DeadlinePasses, Crash, Restart, vars
  <2>2. \/ lock' = Undefined
        \/ \E p \in Proc : lock'.owner = owner[p]
        \/ \E p \in Proc : quarantine[p] # Undefined /\ lock'.owner = quarantine[p].owner
        \/ lock # Undefined /\ lock'.owner = lock.owner
    BY <2>1, <1>0 DEF TypeOK, File
  <2>3. QED
    BY <2>2, <1>0, <1>1 DEF PastOwners, TypeOK, File
<1>4. \A p \in Proc : quarantine'[p] # Undefined => Past(quarantine[p].owner)'
  <2>1. \A p \in Proc : \/ quarantine'[p] = Undefined
                        \/ quarantine'[p] = quarantine[p]
                        \/ quarantine'[p] = lock
    BY <1>0 DEF Next, Step, Begin, Link, Stat, Read, CheckAlive, Wait, TypeOK,
       Recheck, Rename, Remove, Restore, ReleaseRead, ReleaseRemove, Age,
       DeadlinePasses, Crash, Restart, vars
  <2>2. QED
    BY <2>1, <1>0, <1>1 DEF PastOwners, TypeOK, File
<1>5. \A p \in Proc : observed'[p] # Undefined => Past(observed[p])'
  <2>1. \A p \in Proc : \/ observed'[p] = Undefined
                        \/ observed'[p] = observed[p]
                        \/ lock # Undefined /\ observed'[p] = lock.owner
    BY <1>0 DEF Next, Step, Begin, Link, Stat, Read, CheckAlive, Wait, TypeOK,
       Recheck, Rename, Remove, Restore, ReleaseRead, ReleaseRemove, Age,
       DeadlinePasses, Crash, Restart, vars, readOwner
  <2>2. QED
    BY <2>1, <1>0, <1>1 DEF PastOwners, TypeOK, File
<1>6. QED
  BY <1>2, <1>3, <1>4, <1>5 DEF PastOwners

\* A call's record keeps naming the live incarnation that runs it.
LEMMA OwnRecordInductive == IInv /\ [Next]_vars => OwnRecord'
<1> SUFFICES ASSUME IInv, [Next]_vars PROVE OwnRecord'
  OBVIOUS
<1>0. TypeOK /\ OwnRecord
  BY DEF IInv
<1> USE DEF TypeOK, OwnRecord, Goto
<1>1. ASSUME NEW p \in Proc, Begin(p) PROVE OwnRecord'
  BY <1>0, <1>1 DEF Begin
<1>2. ASSUME NEW p \in Proc, Step(p) PROVE OwnRecord'
  BY <1>0, <1>2 DEF Step, Link, Stat, Read, CheckAlive, Wait, Recheck, Rename,
     Remove, Restore, ReleaseRead, ReleaseRemove
<1>3. ASSUME NEW p \in Proc, DeadlinePasses(p) \/ Crash(p) \/ Restart(p)
      PROVE OwnRecord'
  BY <1>0, <1>3 DEF DeadlinePasses, Crash, Restart
<1>4. CASE Age \/ UNCHANGED vars
  BY <1>0, <1>4 DEF Age, vars
<1>5. QED
  BY <1>1, <1>2, <1>3, <1>4 DEF Next

\* Once judged dead, an observed owner is still dead when it is acted on.
LEMMA JudgedInductive == IInv /\ [Next]_vars => JudgedDead'
<1> SUFFICES ASSUME IInv, [Next]_vars PROVE JudgedDead'
  OBVIOUS
<1>0. TypeOK /\ PastOwners /\ JudgedDead
  BY DEF IInv
<1>1. \A o \in LockOwner : Past(o) /\ ~ownerProcessIsCurrent(o)
                              => ~ownerProcessIsCurrent(o)'
  BY <1>0, DeadStaysDead
<1>2. ASSUME NEW q \in Proc PROVE pc'[q] = "alive" => observed'[q] # Undefined
  <2>1. lock # Undefined => lock.owner # Undefined
    BY <1>0, UndefinedIsNothing DEF TypeOK, File
  <2>2. QED
    BY <1>0, <2>1 DEF Next, Step, Begin, Link, Stat, Read, CheckAlive, Wait,
       TypeOK, Recheck, Rename, Remove, Restore, ReleaseRead, ReleaseRemove,
       Age, DeadlinePasses, Crash, Restart, vars, readOwner, JudgedDead, Goto
<1>3. ASSUME NEW q \in Proc PROVE pc'[q] = "verify" => quarantine'[q] # Undefined
  BY <1>0 DEF Next, Step, Begin, Link, Stat, Read, CheckAlive, Wait,
     TypeOK, Recheck, Rename, Remove, Restore, ReleaseRead, ReleaseRemove,
     Age, DeadlinePasses, Crash, Restart, vars, JudgedDead, Goto
<1>4. ASSUME NEW q \in Proc,
             pc'[q] \in {"recheck", "rename", "verify"}, observed'[q] # Undefined
      PROVE  ~ownerProcessIsCurrent(observed[q])'
  <2>1. /\ observed'[q] = observed[q]
        /\ \/ pc[q] \in {"recheck", "rename", "verify"}
           \/ pc[q] = "alive" /\ ~ownerProcessIsCurrent(observed[q])
    BY <1>0, <1>4 DEF Next, Step, Begin, Link, Stat, Read, CheckAlive, Wait,
       TypeOK, Recheck, Rename, Remove, Restore, ReleaseRead, ReleaseRemove,
       Age, DeadlinePasses, Crash, Restart, vars, readOwner, Goto
  <2>2. ~ownerProcessIsCurrent(observed[q]) /\ observed[q] \in LockOwner
    BY <1>0, <1>4, <2>1 DEF JudgedDead, TypeOK
  <2>3. Past(observed[q])
    BY <1>0, <1>4, <2>1 DEF PastOwners
  <2>4. QED
    BY <1>1, <2>1, <2>2, <2>3 DEF ownerProcessIsCurrent
<1>5. QED
  BY <1>2, <1>3, <1>4 DEF JudgedDead

\* Without a displaced file, every holder's file stays at lockDir.
LEMMA InPlaceInductive == IInv /\ [Next]_vars => InPlace'
<1> SUFFICES ASSUME IInv, [Next]_vars, ~displaced' PROVE
      \A q \in Proc :
         /\ Holding(q)' => lock' # Undefined /\ lock'.owner = owner'[q]
         /\ pc'[q] = "verify" => quarantine'[q].owner = observed'[q]
  BY DEF InPlace
<1>0. TypeOK /\ OwnRecord /\ JudgedDead
  BY DEF IInv
<1>1. ~displaced
  BY <1>0 DEF Next, Step, Begin, Link, Stat, Read, CheckAlive, Wait,
     Recheck, Rename, Remove, Restore, ReleaseRead, ReleaseRemove,
     Age, DeadlinePasses, Crash, Restart, vars
<1>2. \A q \in Proc :
         /\ Holding(q) => lock # Undefined /\ lock.owner = owner[q]
         /\ pc[q] = "verify" => quarantine[q].owner = observed[q]
  BY <1>1 DEF IInv, InPlace
<1>3. TAKE q \in Proc
<1> USE DEF TypeOK, Holding, Goto
<1>4. ASSUME NEW p \in Proc, Link(p)
      PROVE /\ Holding(q)' => lock' # Undefined /\ lock'.owner = owner'[q]
            /\ pc'[q] = "verify" => quarantine'[q].owner = observed'[q]
  <2>1. [owner |-> owner[p], aged |-> FALSE] # Undefined
    <3>1. [owner |-> owner[p], aged |-> FALSE] \in File
      BY <1>0 DEF File
    <3>2. QED
      BY <3>1, UndefinedIsNothing
  <2>2. QED
    BY <1>0, <1>2, <1>4, <2>1 DEF Link
<1>5. ASSUME NEW p \in Proc, Rename(p)
      PROVE /\ Holding(q)' => lock' # Undefined /\ lock'.owner = owner'[q]
            /\ pc'[q] = "verify" => quarantine'[q].owner = observed'[q]
  <2>1. CASE lock = Undefined
    BY <1>0, <1>2, <1>5, <2>1 DEF Rename
  <2>2. CASE lock # Undefined
    <3>1. lock.owner = observed[p] /\ lock.owner \in LockOwner
      <4>1. displaced' = (displaced \/ lock.owner # observed[p])
        BY <1>5, <2>2 DEF Rename
      <4>2. lock.owner = observed[p]
        BY <4>1
      <4>3. lock.owner \in LockOwner
        BY <1>0, <2>2 DEF File
      <4>4. QED
        BY <4>2, <4>3
    <3>2. ~ownerProcessIsCurrent(lock.owner)
      BY <1>0, <1>5, <3>1, UndefinedIsNothing DEF Rename, JudgedDead
    <3>3. ~Holding(q)
      BY <1>0, <1>2, <3>2 DEF OwnRecord, ownerProcessIsCurrent
    <3>4. QED
      BY <1>0, <1>2, <1>5, <2>2, <3>1, <3>3 DEF Rename
  <2>3. QED
    BY <2>1, <2>2
<1>6. ASSUME NEW p \in Proc, ReleaseRemove(p)
      PROVE /\ Holding(q)' => lock' # Undefined /\ lock'.owner = owner'[q]
            /\ pc'[q] = "verify" => quarantine'[q].owner = observed'[q]
  BY <1>0, <1>2, <1>6 DEF ReleaseRemove, OwnRecord
<1>7. ASSUME NEW p \in Proc, Restore(p)
      PROVE /\ Holding(q)' => lock' # Undefined /\ lock'.owner = owner'[q]
            /\ pc'[q] = "verify" => quarantine'[q].owner = observed'[q]
  BY <1>0, <1>2, <1>7 DEF Restore, readOwner, JudgedDead
<1>8. CASE Age
  BY <1>0, <1>2, <1>8, UndefinedIsNothing DEF Age, File
<1>9. ASSUME NEW p \in Proc,
             Begin(p) \/ Stat(p) \/ Read(p) \/ CheckAlive(p) \/ Wait(p)
             \/ Recheck(p) \/ Remove(p) \/ ReleaseRead(p)
      PROVE /\ Holding(q)' => lock' # Undefined /\ lock'.owner = owner'[q]
            /\ pc'[q] = "verify" => quarantine'[q].owner = observed'[q]
  BY <1>0, <1>2, <1>9 DEF Begin, Stat, Read, CheckAlive, Wait, Recheck,
     Remove, ReleaseRead, readOwner
<1>10. ASSUME NEW p \in Proc, DeadlinePasses(p) \/ Crash(p) \/ Restart(p)
      PROVE /\ Holding(q)' => lock' # Undefined /\ lock'.owner = owner'[q]
            /\ pc'[q] = "verify" => quarantine'[q].owner = observed'[q]
  BY <1>0, <1>2, <1>10 DEF DeadlinePasses, Crash, Restart
<1>11. CASE UNCHANGED vars
  BY <1>2, <1>11 DEF vars
<1>12. QED
  BY <1>4, <1>5, <1>6, <1>7, <1>8, <1>9, <1>10, <1>11 DEF Next, Step

\* The invariant behind both theorems holds in every reachable state.
LEMMA LockInvariant == Spec => []IInv
<1>1. IInv /\ [Next]_vars => IInv'
  <2>1. IInv /\ [Next]_vars => TypeOK'
    BY TypeInductive DEF IInv
  <2>2. QED
    BY <2>1, PastInductive, OwnRecordInductive, JudgedInductive,
       InPlaceInductive DEF IInv
<1>2. QED
  BY InitIInv, <1>1, PTL DEF Spec

(***************************************************************************)
(* cross-process-lock.ts excludes other holders in every run in which the  *)
(* rename of quarantineStaleLock only ever takes the file it judged.       *)
(***************************************************************************)
THEOREM Exclusion == Spec => []ExclusiveUnlessDisplaced
<1>1. IInv => ExclusiveUnlessDisplaced
  <2> SUFFICES ASSUME IInv, ~displaced
               PROVE  MutualExclusion /\ \A p \in Proc :
                         Holding(p) => readOwner(lock) = owner[p]
    BY DEF ExclusiveUnlessDisplaced
  <2>1. \A p \in Proc : Holding(p) => lock # Undefined /\ lock.owner = owner[p]
    BY DEF IInv, InPlace
  <2>2. QED
    BY <2>1 DEF IInv, OwnRecord, MutualExclusion, readOwner
<1>2. QED
  BY LockInvariant, <1>1, PTL

(***************************************************************************)
(* The rmSync at the end of quarantineStaleLock never deletes the file of  *)
(* a live incarnation, displaced or not.                                   *)
(***************************************************************************)
THEOREM RecoveryIsSafe == Spec => RecoveryDeletesOnlyDead
<1>1. IInv => \A p \in Proc :
        Remove(p) => /\ quarantine[p] # Undefined
                     /\ ~ownerProcessIsCurrent(quarantine[p].owner)
  <2> SUFFICES ASSUME IInv, NEW p \in Proc, Remove(p)
               PROVE  /\ quarantine[p] # Undefined
                      /\ ~ownerProcessIsCurrent(quarantine[p].owner)
    OBVIOUS
  <2>1. quarantine[p] # Undefined /\ pc[p] = "verify"
    BY DEF IInv, JudgedDead, Remove
  <2>2. quarantine[p].owner = observed[p] /\ observed[p] # Undefined
    BY <2>1, UndefinedIsNothing DEF IInv, TypeOK, File, Remove, readOwner
  <2>3. QED
    BY <2>1, <2>2 DEF IInv, JudgedDead
<1>2. QED
  BY LockInvariant, <1>1, PTL DEF RecoveryDeletesOnlyDead

(***************************************************************************)
(* Every record, nonce and program counter of cross-process-lock.ts keeps  *)
(* its declared shape, in particular no call runs more than MaxCalls.      *)
(***************************************************************************)
THEOREM LockTypes == Spec => []TypeOK
<1>1. IInv => TypeOK
  BY DEF IInv
<1>2. QED
  BY LockInvariant, <1>1, PTL
=============================================================================
