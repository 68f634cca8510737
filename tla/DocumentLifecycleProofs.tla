----------------------- MODULE DocumentLifecycleProofs ----------------------
(***************************************************************************)
(* Proofs about DocumentLifecycle, for any plan: any number of documents,  *)
(* hidden items, edits and moves, and any stride of the saved cursor.      *)
(***************************************************************************)
EXTENDS DocumentLifecycle, TLAPS

AllAt(n) == \A i \in Item : at[i] = n * Length(i)

Applying(j) == j # None /\ j.phase = "applying"
Committed(j) == j # None /\ j.phase = "committed"

\* The steps of applyPortableRuntime, from the published journal to the commit.
Forward == {"revoke", "apply", "save", "verify", "commit"}

\* An unfenced workspace between operations has nothing left to recover.
Fences ==
    /\ fenced => pc \in {"idle", "reconcile"}
    /\ pc \in {"idle", "prepared", "reconcile"} /\ ~fenced => active = None
    /\ pc = "idle" /\ ~fenced => marker = None

OneJournal == active = None \/ marker = None

\* Where the items are, by what the active journal says.
Placed ==
    /\ active = None => \E n \in Nat : AllAt(n)
    /\ Applying(active) =>
         \A i \in Item : Before(active, i) <= at[i] /\ at[i] <= After(active, i)
    /\ Committed(active) => /\ \A i \in Item : at[i] = After(active, i)
                            /\ ~Exact => active.cursor = Documents

\* The journal in memory of an operation that has written nothing yet.
Captured ==
    pc = "prepared" =>
        /\ Applying(mem) /\ AllAt(mem.from)
        /\ mem.cursor = 0 /\ next = 1

\* The items move in order, one at a time.
InOrder ==
    pc \in Forward =>
        /\ Applying(active) /\ Applying(mem) /\ mem.from = active.from
        /\ \A i \in Item : /\ i < next => at[i] = After(mem, i)
                           /\ i > next => at[i] = Before(mem, i)
        /\ pc = "revoke" => next = 1 /\ at[next] = Before(mem, next)
        /\ pc \in {"apply", "save"} => next \in Item
        /\ pc = "save" => at[next] = After(mem, next)
        /\ pc \in {"verify", "commit"} => next = Len(Plan) + 1

\* The cursor in memory counts the documents that have moved, and the saved
\* one is less than a stride behind it, at a multiple of the stride.
Counted ==
    pc \in Forward =>
        /\ mem.cursor = IF next \in Item /\ Doc(next) > 0
                        THEN Doc(next) - 1 ELSE Documents
        /\ active.cursor <= mem.cursor
        /\ mem.cursor < active.cursor + Stride
        /\ \/ active.cursor = Documents
           \/ \E q \in Nat : active.cursor = q * Stride

\* No document further than a stride past the saved cursor has moved.
WithinStride ==
    Applying(active) /\ ~Exact =>
        \A i \in Item : Doc(i) > active.cursor + Stride
                            => at[i] = Before(active, i)

\* Past the commit, and in recovery, memory holds what is in active/.
Recovering ==
    /\ pc \in {"collab", "redo"} => Committed(active) /\ mem = active
    /\ pc = "undo" =>
         /\ Applying(active) /\ mem = active
         /\ \A i \in Item : i > next => at[i] = Before(active, i)
    /\ pc = "settle" =>
         /\ active # None
         /\ Applying(active) => \A i \in Item : at[i] = Before(active, i)

Unshared ==
    /\ pc \in Forward \ {"revoke"} => ~shared
    /\ SharesRevokedFirst

\* Collaboration state is moved before the journal settles.
Moved ==
    /\ pc \in Forward \cup {"prepared"} => ~moved
    /\ moved \/ pc = "settle" =>
           (Committed(active) => collab # active.from)
    /\ Committed(marker) => collab # marker.from

OnDisk == OneJournal /\ Placed /\ WithinStride
InRun == Captured /\ InOrder /\ Counted /\ Recovering

IInv == TypeOK /\ Fences /\ OnDisk /\ InRun /\ Unshared /\ Moved

-----------------------------------------------------------------------------
(* The plan: its order, its lengths, its cursor *)

\* Multiples of the stride are where prefix cursors are saved.
LEMMA Multiple ==
    ASSUME NEW s \in Nat \ {0}, NEW c \in Nat, c % s = 0
    PROVE  \E q \in Nat : c = q * s
  BY Z3

LEMMA NextMultiple ==
    ASSUME NEW s \in Nat \ {0}, NEW q \in Nat
    PROVE  (q * s + s) % s = 0
<1>1. q * s + s = (q + 1) * s /\ q + 1 \in Nat
  BY Z3
<1>2. ASSUME NEW r \in Nat PROVE (r * s) % s = 0
  BY Z3
<1>3. QED
  BY <1>1, <1>2

LEMMA PlanTypes ==
    ASSUME plan \in Plans
    PROVE  /\ Len(Plan) \in Nat \ {0}
           /\ Exact \in BOOLEAN /\ Stride \in Nat \ {0} /\ MaxMoves \in Nat
           /\ \A i \in Item : Kind(i) \in Kinds /\ Doc(i) \in Nat
           /\ \A i \in Item : Length(i) \in 1 .. 3
<1>1. plan \in [items : Seq([kind : Kinds, doc : Nat]), exact : BOOLEAN,
                stride : Nat \ {0}, moves : Nat]
  BY PlansAssumption
<1>2. Plan \in Seq([kind : Kinds, doc : Nat]) /\ Len(Plan) > 0
  BY <1>1, PlanOrder DEF Plan
<1>3. Len(Plan) \in Nat \ {0}
  BY <1>2
<1>4. \A i \in Item : Plan[i] \in [kind : Kinds, doc : Nat]
  <2>1. ASSUME NEW T, NEW s \in Seq(T), NEW i \in 1 .. Len(s) PROVE s[i] \in T
    OBVIOUS
  <2>2. QED
    BY <1>2, <2>1 DEF Item
<1>5. \A i \in Item : Kind(i) \in Kinds /\ Doc(i) \in Nat
  BY <1>4 DEF Kind, Doc
<1>6. \A i : Length(i) \in 1 .. 3
  BY DEF Length
<1>7. QED
  BY <1>1, <1>3, <1>5, <1>6 DEF Exact, Stride, MaxMoves

\* What the order of the plan means for the documents of its items.
LEMMA DocumentOrder ==
    ASSUME plan \in Plans
    PROVE  /\ Documents \in Nat
           /\ \A i \in Item : Doc(i) <= Documents
           /\ \A i \in Item : Kind(i) \in {"hidden", "edit"} \/ Exact
                                  => Doc(i) = 0
           /\ 1 \in Item /\ Doc(1) <= 1
           /\ Doc(1) = 0 => Documents = 0
           /\ \A i \in Item : i + 1 \in Item => Doc(i + 1) <= Doc(i) + 1
           /\ \A i \in Item : i + 1 \in Item /\ Doc(i + 1) > 0
                                  => 0 < Doc(i) /\ Doc(i) <= Doc(i + 1)
           /\ \A i \in Item :
                Doc(i) > 0 /\ (i + 1 \notin Item \/ Doc(i + 1) = 0)
                    => Doc(i) = Documents
<1>1. PICK d \in 0 .. Len(Plan) : DocumentsFirst(Plan, d) /\ (Exact => d = 0)
  BY PlanOrder DEF Plan, Exact
<1>2. Len(Plan) \in Nat \ {0} /\ \A i \in Item : Doc(i) \in Nat
  BY PlanTypes
<1>3. /\ \A i \in 1 .. d : Doc(i) > 0 /\ Kind(i) \notin {"hidden", "edit"}
      /\ \A i \in d + 1 .. Len(Plan) : Doc(i) = 0
      /\ \A i, k \in 1 .. d : i <= k => Doc(i) <= Doc(k)
      /\ d > 0 => Doc(1) = 1
      /\ \A i \in 2 .. d : Doc(i) <= Doc(i - 1) + 1
  BY <1>1 DEF DocumentsFirst, Doc, Kind
<1>4. Documents \in {0} \cup {Doc(i) : i \in Item}
      /\ \A i \in Item : Doc(i) <= Documents
  <2> DEFINE Top(n) == n \in {0} \cup {Doc(i) : i \in Item}
                       /\ \A i \in Item : Doc(i) <= n
  <2>1. \E n : Top(n)
    <3>1. CASE d = 0
      <4>1. Top(0)
        BY <1>2, <1>3, <3>1 DEF Item
      <4>2. QED
        BY <4>1
    <3>2. CASE d # 0
      <4>1. Top(Doc(d))
        BY <1>2, <1>3, <3>2 DEF Item
      <4>2. QED
        BY <4>1
    <3>3. QED
      BY <3>1, <3>2
  <2>2. Top(CHOOSE n : Top(n))
    BY <2>1
  <2>3. Documents = CHOOSE n : Top(n)
    BY DEF Documents
  <2>4. QED
    BY <2>2, <2>3
<1>5. Documents = IF d = 0 THEN 0 ELSE Doc(d)
  BY <1>2, <1>3, <1>4 DEF Item
<1>6. \A i \in Item : Kind(i) \in {"hidden", "edit"} \/ Exact => Doc(i) = 0
  <2> SUFFICES ASSUME NEW i \in Item, Kind(i) \in {"hidden", "edit"} \/ Exact
               PROVE  Doc(i) = 0
    OBVIOUS
  <2>1. i \notin 1 .. d
    BY <1>1, <1>3
  <2>2. QED
    BY <1>2, <1>3, <2>1 DEF Item
<1>7. 1 \in Item /\ Doc(1) <= 1 /\ (Doc(1) = 0 => Documents = 0)
  BY <1>2, <1>3, <1>5 DEF Item
<1>8. /\ \A i \in Item : i + 1 \in Item => Doc(i + 1) <= Doc(i) + 1
      /\ \A i \in Item : i + 1 \in Item /\ Doc(i + 1) > 0
                              => 0 < Doc(i) /\ Doc(i) <= Doc(i + 1)
  BY <1>2, <1>3 DEF Item
<1>9. \A i \in Item :
          Doc(i) > 0 /\ (i + 1 \notin Item \/ Doc(i + 1) = 0)
              => Doc(i) = Documents
  <2> SUFFICES ASSUME NEW i \in Item, Doc(i) > 0,
                      i + 1 \notin Item \/ Doc(i + 1) = 0
               PROVE  Doc(i) = Documents
    OBVIOUS
  <2>1. i \in 1 .. d
    BY <1>2, <1>3 DEF Item
  <2>2. i + 1 \notin 1 .. d
    BY <1>2, <1>3 DEF Item
  <2>3. i = d
    BY <2>1, <2>2
  <2>4. QED
    BY <1>5, <2>1, <2>3
<1>10. Documents \in Nat
  BY <1>2, <1>4
<1>11. QED
  BY <1>4, <1>6, <1>7, <1>8, <1>9, <1>10

\* Nothing that is said of the plan changes with a step.
LEMMA PlanStays ==
    ASSUME plan' = plan
    PROVE  /\ Plan' = Plan /\ Item' = Item /\ Documents' = Documents
           /\ Exact' = Exact /\ Stride' = Stride /\ MaxMoves' = MaxMoves
           /\ \A i : Kind(i)' = Kind(i)
           /\ \A i : Doc(i)' = Doc(i)
           /\ \A i : Length(i)' = Length(i)
           /\ \A j, i : Before(j, i)' = Before(j, i)
           /\ \A j, i : After(j, i)' = After(j, i)
           /\ Journal' = Journal
  BY Zenon DEF Plan, Item, Documents, Exact, Stride, MaxMoves, Kind, Doc,
               Length, Before, After, Journal

\* Distances between endpoints.
LEMMA Distances ==
    ASSUME NEW n \in Nat, NEW l \in 1 .. 3
    PROVE  n * l \in Nat /\ (n + 1) * l = n * l + l /\ (n * l) \div l = n
  OBVIOUS

LEMMA Ends ==
    ASSUME plan \in Plans, NEW j, j.from \in Nat, NEW i \in Item
    PROVE  /\ Before(j, i) \in Nat /\ After(j, i) \in Nat
           /\ After(j, i) = Before(j, i) + Length(i)
           /\ Before(j, i) < After(j, i)
<1>1. Length(i) \in 1 .. 3
  BY PlanTypes
<1>2. /\ j.from * Length(i) \in Nat
      /\ (j.from + 1) * Length(i) = j.from * Length(i) + Length(i)
  BY <1>1, Distances
<1>3. QED
  BY <1>1, <1>2 DEF Before, After

LEMMA WhereAllAre ==
    ASSUME plan \in Plans, NEW n \in Nat, AllAt(n)
    PROVE  at[1] \div Length(1) = n
  BY PlanTypes, DocumentOrder, Distances DEF AllAt

LEMMA NoneIsNoJournal ==
    ASSUME plan \in Plans
    PROVE  /\ None \notin Journal /\ None \notin Nat
           /\ \A j \in Journal : j.from \in Nat /\ j.cursor \in Nat
<1>1. Documents \in Nat /\ MaxMoves \in Nat /\ Len(Plan) \in Nat
  BY PlanTypes, DocumentOrder
<1>2. Journal \subseteq [op : Nat, from : Nat,
                         phase : {"applying", "committed"},
                         cursor : Nat, completed : SUBSET Nat]
  BY <1>1 DEF Journal, Item
<1>3. QED
  BY <1>2, NoneAssumption

LEMMA OnePlan == [Next]_vars => plan' = plan
  BY DEF Next, Operation, Prepare, Publish, RevokeShares, Apply, Save, Verify,
         Commit, MoveCollaboration, Settle, HandleError, Redo, FinishRedo, Undo,
         FinishUndo, Reconcile, Throw, Crash, Restart, Stop, Boot, Share,
         OpenDocument, Touch, vars

-----------------------------------------------------------------------------
(* Types *)

LEMMA Flags ==
    ASSUME TypeOK, [Next]_vars
    PROVE  moved' \in BOOLEAN /\ fenced' \in BOOLEAN
<1> USE DEF Goto, KeepRun, disk, run
<1>0. moved \in BOOLEAN /\ fenced \in BOOLEAN
  BY DEF TypeOK
<1>1. ASSUME GiveUp PROVE moved' \in BOOLEAN /\ fenced' \in BOOLEAN
  BY <1>0, <1>1 DEF GiveUp
<1>2. ASSUME Stop PROVE moved' \in BOOLEAN /\ fenced' \in BOOLEAN
  BY <1>2 DEF Stop
<1>3. CASE \/ Publish \/ RevokeShares \/ Apply \/ Save \/ Verify \/ Commit
           \/ Settle \/ Share \/ OpenDocument \/ \E i \in Item : Touch(i)
  BY <1>0, <1>3 DEF Publish, RevokeShares, Apply, Save, Verify, Commit,
                    Settle, Share, OpenDocument, Touch
<1>4. CASE Prepare \/ MoveCollaboration \/ Reconcile \/ Boot \/ Throw
  BY <1>0, <1>1, <1>4 DEF Prepare, MoveCollaboration, Reconcile, Boot, Recover, Throw
<1>5. CASE HandleError \/ Redo \/ FinishRedo \/ Undo \/ FinishUndo
  BY <1>0, <1>1, <1>5 DEF HandleError, Recover, Redo, FinishRedo, Undo, FinishUndo
<1>6. CASE UNCHANGED vars
  BY <1>0, <1>6 DEF vars
<1>7. QED
  BY <1>2, <1>3, <1>4, <1>5, <1>6 DEF Next, Operation, Crash, Restart

\* What Save writes is a journal, with its cursor among the documents.
LEMMA SavesJournal == IInv /\ Save => mem' \in Journal /\ next \in Item
<1> SUFFICES ASSUME IInv, Save PROVE mem' \in Journal /\ next \in Item
  OBVIOUS
<1> DEFINE cursor == IF LastOfDocument(next) THEN Doc(next) ELSE mem.cursor
<1>1. mem \in Journal /\ next \in Item
  BY DEF IInv, TypeOK, InRun, InOrder, Save, Forward, Applying
<1>2. cursor \in 0 .. Documents
  BY <1>1, PlanTypes, DocumentOrder DEF IInv, TypeOK, Journal
<1>3. mem' = [mem EXCEPT !.cursor = cursor, !.completed = @ \cup {next}]
  BY DEF Save
<1>4. QED
  BY <1>1, <1>2, <1>3 DEF Journal

LEMMA TypeStep == IInv /\ [Next]_vars => TypeOK'
<1> SUFFICES ASSUME IInv, [Next]_vars PROVE TypeOK'
  OBVIOUS
<1> USE DEF IInv, TypeOK, Goto, KeepRun, disk, run
<1>0. /\ plan' \in Plans /\ Item' = Item /\ Journal' = Journal
      /\ Plan' = Plan /\ MaxMoves' = MaxMoves
  BY OnePlan, PlanStays
<1>1. plan \in Plans /\ Len(Plan) \in Nat \ {0} /\ MaxMoves \in Nat /\ Documents \in Nat
  BY PlanTypes, DocumentOrder
<1>f. {moved', fenced'} \subseteq BOOLEAN
  BY Flags
<1>2. CASE Prepare
  <2>1. at[1] \div Length(1) \in Nat
    BY DocumentOrder, PlanTypes
  <2>2. mem' \in Journal /\ moves' \in 0 .. MaxMoves
    BY <1>1, <1>2, <2>1 DEF Prepare, Journal
  <2>3. QED
    BY <1>1, <1>2, <2>2, <1>0, <1>f DEF Prepare, Steps
<1>3. CASE Publish \/ RevokeShares
  BY <1>1, <1>3, <1>0, <1>f DEF Publish, RevokeShares, Steps
<1>4. CASE Apply
  BY <1>1, <1>4, <1>0, <1>f DEF Apply, Steps
<1>5. CASE Save
  <2>1. mem' \in Journal /\ next \in Item
    BY <1>5, SavesJournal
  <2>2. active' \in Journal \cup {None} /\ next' \in 0 .. Len(Plan) + 1
    BY <1>1, <1>5, <2>1 DEF Save, Item
  <2>3. QED
    BY <1>5, <1>0, <1>f, <2>1, <2>2 DEF Save, Steps
<1>6. CASE Verify \/ Settle
  BY <1>6, <1>0, <1>f DEF Verify, Settle, Steps
<1>7. CASE Commit
  <2>1. mem \in Journal
    BY <1>7 DEF InRun, InOrder, Commit, Forward, Applying
  <2>2. mem' \in Journal
    BY <1>7, <2>1 DEF Commit, Journal
  <2>3. QED
    BY <1>7, <2>2, <1>0, <1>f DEF Commit, Steps
<1>8. CASE MoveCollaboration \/ FinishRedo
  <2>1. mem.from \in Nat
    BY <1>1, <1>8, NoneIsNoJournal
    DEF MoveCollaboration, FinishRedo, InRun, Recovering, Committed
  <2>2. QED
    BY <1>8, <2>1, <1>0, <1>f DEF MoveCollaboration, FinishRedo, GiveUp, Steps
<1>9. CASE Throw \/ FinishUndo
  BY <1>9, <1>0, <1>f DEF Throw, FinishUndo, GiveUp, Steps
<1>10. CASE HandleError \/ Boot
  BY <1>1, <1>10, <1>0, <1>f DEF HandleError, Boot, Recover, GiveUp, Steps
<1>11. CASE Redo
  BY <1>1, <1>11, <1>0, <1>f DEF Redo, GiveUp, Steps, Item
<1>12. CASE Undo
  <2>1. mem.from \in Nat
    BY <1>1, <1>12, NoneIsNoJournal DEF Undo, InRun, Recovering, Applying
  <2>2. next \in Item /\ Before(mem, next) \in Nat
    BY <1>1, <1>12, <2>1, Ends DEF Undo
  <2>3. at' \in [Item -> Nat]
    BY <1>12, <2>2 DEF Undo
  <2>4. QED
    BY <1>1, <1>12, <2>2, <2>3, <1>0, <1>f DEF Undo, GiveUp, Steps, Item
<1>13. CASE Reconcile \/ Crash \/ Restart \/ Share
  <2>1. CASE Reconcile \/ Share
    BY <1>1, <2>1, <1>0, <1>f DEF Reconcile, Share, Steps
  <2>2. CASE Stop
    BY <1>1, <2>2, <1>0, <1>f DEF Stop, Steps
  <2>3. QED
    BY <1>13, <2>1, <2>2 DEF Crash, Restart
<1>14. CASE OpenDocument
  <2>1. at[1] \div Length(1) \in Nat
    BY DocumentOrder, PlanTypes
  <2>2. QED
    BY <1>14, <2>1, <1>0, <1>f DEF OpenDocument, Steps
<1>15. ASSUME NEW i \in Item, Touch(i) PROVE TypeOK'
  BY <1>15, <1>0, <1>f DEF Touch
<1>16. CASE UNCHANGED vars
  BY <1>16, <1>0, <1>f DEF vars
<1>17. QED
  BY <1>2, <1>3, <1>4, <1>5, <1>6, <1>7, <1>8, <1>9, <1>10, <1>11, <1>12,
     <1>13, <1>14, <1>15, <1>16 DEF Next, Operation

-----------------------------------------------------------------------------
(* The fence, and what is on disk *)

LEMMA FencesStep == IInv /\ [Next]_vars => Fences'
<1> SUFFICES ASSUME IInv, [Next]_vars PROVE Fences'
  OBVIOUS
<1> USE DEF Fences, Goto, KeepRun, disk, run
<1>0. Fences
  BY DEF IInv
<1>1. ASSUME pc # "idle", pc # "reconcile", GiveUp, UNCHANGED disk PROVE Fences'
  BY <1>0, <1>1 DEF GiveUp
<1>2. CASE Prepare \/ Publish \/ RevokeShares \/ Apply \/ Save \/ Verify \/ Commit
  BY <1>0, <1>2 DEF Prepare, Publish, RevokeShares, Apply, Save, Verify, Commit
<1>3. CASE MoveCollaboration \/ Settle \/ Reconcile \/ Share \/ OpenDocument
  BY <1>0, <1>3 DEF MoveCollaboration, Settle, Reconcile, Share, OpenDocument
<1>4. CASE HandleError \/ Throw \/ Boot
  BY <1>0, <1>1, <1>4 DEF HandleError, Throw, Boot, Recover
<1>5. CASE Redo \/ FinishRedo \/ Undo \/ FinishUndo
  BY <1>0, <1>1, <1>5 DEF Redo, FinishRedo, Undo, FinishUndo
<1>6. CASE Stop \/ \E i \in Item : Touch(i)
  BY <1>0, <1>6 DEF Stop, Touch
<1>7. CASE UNCHANGED vars
  BY <1>0, <1>7 DEF vars
<1>8. QED
  BY <1>2, <1>3, <1>4, <1>5, <1>6, <1>7 DEF Next, Operation, Crash, Restart

\* What is said of the disk stays true while nothing on it changes.
LEMMA DiskKept ==
    ASSUME OnDisk, plan' = plan, UNCHANGED disk
    PROVE  OnDisk'
  BY PlanStays DEF OnDisk, OneJournal, Placed, WithinStride, AllAt, Applying,
                   Committed, disk

LEMMA OnDiskStep == IInv /\ [Next]_vars => OnDisk'
<1> SUFFICES ASSUME IInv, [Next]_vars PROVE OnDisk'
  OBVIOUS
<1> USE DEF Goto, KeepRun, disk, run
<1>0. /\ plan' = plan /\ plan \in Plans /\ OnDisk /\ at \in [Item -> Nat]
      /\ active # None => active.from \in Nat /\ active.cursor \in Nat
      /\ mem # None => mem.from \in Nat /\ mem.cursor \in Nat
      /\ Stride \in Nat /\ \A i \in Item : Doc(i) \in Nat
  BY OnePlan, NoneIsNoJournal, PlanTypes DEF IInv, TypeOK
<1>1. CASE Prepare \/ Verify \/ MoveCollaboration \/ HandleError \/ Throw
  BY <1>0, <1>1, DiskKept
  DEF Prepare, Verify, MoveCollaboration, HandleError, Throw
<1>2. CASE FinishRedo \/ FinishUndo \/ Boot \/ Share \/ OpenDocument \/ Stop
           \/ \E i \in Item : Touch(i)
  BY <1>0, <1>2, DiskKept
  DEF FinishRedo, FinishUndo, Boot, Share, OpenDocument, Stop, Touch
<1>3. CASE Publish
  <2>1. CASE marker = None /\ active = None /\ verifyCapturedBefore(mem)
    <3>1. /\ Applying(mem) /\ active' = mem /\ marker' = None /\ at' = at
          /\ \A i \in Item : at[i] = Before(mem, i)
      BY <1>3, <2>1 DEF Publish, Captured, InRun, IInv, AllAt, Before
    <3>2. \A i \in Item : Before(mem, i) <= After(mem, i) /\ Before(mem, i) \in Nat
      BY <1>0, <3>1, Ends DEF Applying
    <3>3. QED
      BY <1>0, <2>1, <3>1, <3>2, PlanStays
      DEF OnDisk, OneJournal, Placed, WithinStride, Applying, Committed
  <2>2. CASE ~(marker = None /\ active = None /\ verifyCapturedBefore(mem))
    BY <1>0, <1>3, <2>2, DiskKept DEF Publish
  <2>3. QED
    BY <1>3, <2>1, <2>2 DEF Publish
<1>4. CASE RevokeShares
  <2>1. /\ Applying(active) /\ Applying(mem) /\ mem.from = active.from
        /\ active.cursor <= mem.cursor
        /\ active' = mem /\ UNCHANGED <<at, marker>>
    BY <1>4 DEF RevokeShares, InRun, InOrder, Counted, Forward, IInv
  <2>2. \A i : Before(mem, i) = Before(active, i) /\ After(mem, i) = After(active, i)
    BY <2>1 DEF Before, After
  <2>3. QED
    BY <1>0, <2>1, <2>2, PlanStays
    DEF OnDisk, OneJournal, Placed, WithinStride, Applying, Committed
<1>5. CASE Apply
  <2>1. CASE at' = [at EXCEPT ![next] = @ + 1] /\ at[next] # After(mem, next)
    <3>1. /\ Applying(active) /\ Applying(mem) /\ mem.from = active.from
          /\ next \in Item /\ UNCHANGED <<active, marker>>
          /\ Doc(next) > 0 => Doc(next) <= active.cursor + Stride
      BY <1>0, <1>5 DEF Apply, InRun, InOrder, Counted, Forward, IInv, Applying
    <3>2. /\ Before(mem, next) = Before(active, next)
          /\ After(mem, next) = After(active, next)
          /\ Before(active, next) \in Nat /\ After(active, next) \in Nat
      BY <1>0, <3>1, Ends, PlanTypes DEF Before, After, Applying
    <3>3. QED
      <4>1. \A i \in Item : at'[i] = IF i = next THEN at[i] + 1 ELSE at[i]
        BY <1>0, <2>1
      <4>2. at[next] + 1 <= After(active, next)
        BY <1>0, <2>1, <3>1, <3>2 DEF OnDisk, Placed, Applying
      <4>9. \A i \in Item : Before(active, i) <= at'[i] /\ at'[i] <= After(active, i)
        BY <1>0, <3>1, <3>2, <4>1, <4>2 DEF OnDisk, Placed
      <4>3. Placed'
        BY <1>0, <3>1, <4>9, PlanStays DEF Placed, Applying, Committed
      <4>4. WithinStride'
        BY <1>0, <3>1, <4>1, PlanStays DEF OnDisk, WithinStride, Applying
      <4>5. QED
        BY <1>0, <3>1, <4>3, <4>4 DEF OnDisk, OneJournal
  <2>2. CASE UNCHANGED at
    BY <1>0, <1>5, <2>2, DiskKept DEF Apply
  <2>3. QED
    BY <1>5, <2>1, <2>2 DEF Apply
<1>6. CASE Save
  <2>1. /\ Applying(active) /\ Applying(mem) /\ mem.from = active.from
        /\ active.cursor <= mem.cursor /\ next \in Item
        /\ mem.cursor = IF Doc(next) > 0 THEN Doc(next) - 1 ELSE Documents
    BY <1>6 DEF Save, InRun, InOrder, Counted, Forward, IInv
  <2>2. /\ mem.cursor <= mem'.cursor /\ mem'.cursor \in Nat
        /\ mem'.phase = mem.phase /\ mem'.from = mem.from
    BY <1>0, <1>6, <2>1 DEF Save, LastOfDocument, IInv, TypeOK, Journal, Applying
  <2>3. CASE UNCHANGED active
    BY <1>0, <1>6, <2>3, DiskKept DEF Save
  <2>4. CASE active' = mem' /\ mem' # None
    <3>1. \A i : /\ Before(active', i) = Before(active, i)
                 /\ After(active', i) = After(active, i)
      BY <2>1, <2>2, <2>4 DEF Before, After
    <3>2. Applying(active') /\ active'.cursor >= active.cursor /\ active'.cursor \in Nat
      BY <1>0, <2>1, <2>2, <2>4 DEF Applying
    <3>3. UNCHANGED <<at, marker>>
      BY <1>6 DEF Save
    <3>4. QED
      BY <1>0, <2>1, <3>1, <3>2, <3>3, PlanStays
      DEF OnDisk, OneJournal, Placed, WithinStride, Applying, Committed
  <2>5. mem' # None
    BY <1>0, <1>6, SavesJournal, NoneIsNoJournal
  <2>6. QED
    BY <1>6, <2>3, <2>4, <2>5 DEF Save
<1>7. CASE Commit
  <2>1. /\ Applying(active) /\ Applying(mem) /\ mem.from = active.from
        /\ \A i \in Item : at[i] = After(mem, i)
        /\ mem.cursor = Documents /\ UNCHANGED <<at, marker>>
    BY <1>0, <1>7, PlanTypes
    DEF Commit, InRun, InOrder, Counted, Forward, IInv, Applying, Item
  <2>2. mem \in Journal
    BY <2>1 DEF Applying, IInv, TypeOK
  <2>3. /\ active' \in Journal /\ active'.phase = "committed"
        /\ active'.from = mem.from /\ active'.cursor = mem.cursor
    BY <1>7, <2>2 DEF Commit, Journal
  <2>4. \A i : After(active', i) = After(mem, i)
    BY <2>3 DEF After
  <2>5. QED
    BY <1>0, <2>1, <2>3, <2>4, PlanStays, NoneIsNoJournal
    DEF OnDisk, OneJournal, Placed, WithinStride, Applying, Committed
<1>8. CASE Settle
  <2>1. /\ active # None /\ active' = None /\ at' = at
        /\ Applying(active) => \A i \in Item : at[i] = Before(active, i)
    BY <1>8 DEF Settle, InRun, Recovering, IInv
  <2>2. active.phase \in {"applying", "committed"}
    BY <2>1 DEF IInv, TypeOK, Journal
  <2>3. \/ \A i \in Item : at[i] = Before(active, i)
        \/ \A i \in Item : at[i] = After(active, i)
    BY <1>0, <2>1, <2>2 DEF OnDisk, Placed, Applying, Committed
  <2>4. AllAt(active.from) \/ AllAt(active.from + 1)
    BY <2>3 DEF AllAt, Before, After
  <2>5. \E n \in Nat : AllAt(n)
    BY <1>0, <2>1, <2>4
  <2>6. QED
    BY <1>0, <2>1, <2>5, PlanStays
    DEF OnDisk, OneJournal, Placed, WithinStride, Applying, Committed, AllAt
<1>9. CASE Redo
  <2>1. Committed(active) /\ mem = active /\ next \in Item
    BY <1>9 DEF Redo, InRun, Recovering, IInv
  <2>2. at[next] = After(mem, next) /\ After(mem, next) \in Nat
    BY <1>0, <2>1 DEF OnDisk, Placed, Committed
  <2>3. UNCHANGED disk
    BY <1>9, <2>2 DEF Redo
  <2>4. QED
    BY <1>0, <2>3, DiskKept
<1>10. CASE Undo
  <2>1. /\ Applying(active) /\ mem = active /\ next \in Item
        /\ UNCHANGED <<active, marker>>
    BY <1>10 DEF Undo, InRun, Recovering, IInv
  <2>2. CASE at' = [at EXCEPT ![next] = @ - 1] /\ at[next] > Before(mem, next)
    <3>1. Before(active, next) \in Nat /\ After(active, next) \in Nat
      BY <1>0, <2>1, Ends, PlanTypes DEF Applying
    <3>2. QED
      <4>1. \A i \in Item : at'[i] = IF i = next THEN at[i] - 1 ELSE at[i]
        BY <1>0, <2>2
      <4>9. \A i \in Item : Before(active, i) <= at'[i] /\ at'[i] <= After(active, i)
        BY <1>0, <2>1, <2>2, <3>1, <4>1 DEF OnDisk, Placed
      <4>2. Placed'
        BY <1>0, <2>1, <4>9, PlanStays DEF Placed, Applying, Committed
      <4>8. \A i \in Item : at[i] = Before(active, i) => at'[i] = at[i]
        BY <1>0, <2>1, <2>2, <3>1, <4>1
      <4>3. WithinStride'
        BY <1>0, <2>1, <4>8, PlanStays DEF OnDisk, WithinStride, Applying
      <4>4. QED
        BY <1>0, <2>1, <4>2, <4>3 DEF OnDisk, OneJournal
  <2>3. CASE UNCHANGED at
    BY <1>0, <1>10, <2>3, DiskKept DEF Undo
  <2>4. QED
    BY <1>10, <2>2, <2>3 DEF Undo
<1>11. CASE Reconcile
  <2>1. marker' \in {marker, None} /\ UNCHANGED <<at, active>>
    BY <1>11 DEF Reconcile
  <2>2. QED
    BY <1>0, <2>1, PlanStays
    DEF OnDisk, OneJournal, Placed, WithinStride, Applying, Committed, AllAt
<1>12. CASE UNCHANGED vars
  BY <1>0, <1>12, DiskKept DEF vars
<1>13. QED
  BY <1>1, <1>2, <1>3, <1>4, <1>5, <1>6, <1>7, <1>8, <1>9, <1>10, <1>11, <1>12
  DEF Next, Operation, Crash, Restart

-----------------------------------------------------------------------------
(* The running operation *)

\* Nothing is said of a run that is over, failed or fenced.
LEMMA NotRunning ==
    ASSUME pc' \in {"idle", "error", "reconcile", "down"} PROVE InRun'
  BY DEF InRun, Captured, InOrder, Counted, Recovering, Forward

LEMMA RunKept ==
    ASSUME InRun, plan' = plan, UNCHANGED <<disk, run>> PROVE InRun'
  BY PlanStays DEF InRun, Captured, InOrder, Counted, Recovering, Forward,
                   AllAt, Applying, Committed, disk, run

LEMMA GivenUp == ASSUME GiveUp PROVE InRun'
  BY NotRunning DEF GiveUp, Goto

LEMMA RecoverStep ==
    ASSUME IInv, active # None, NEW m, Recover(m), plan' = plan, UNCHANGED disk
    PROVE  InRun'
<1>1. active \in Journal /\ mem' = active /\ active' = active /\ at' = at
  BY DEF IInv, TypeOK, Recover, disk
<1>2. CASE active.phase = "committed"
  BY <1>1, <1>2 DEF InRun, Captured, InOrder, Counted, Recovering, Forward,
                    Committed, Recover, Goto
<1>3. CASE active.phase # "committed"
  <2>1. pc' = "undo" /\ next' = Len(Plan) /\ active.phase = "applying"
    BY <1>1, <1>3 DEF Recover, Goto, Journal
  <2>2. \A i \in Item : ~(i > Len(Plan))
    BY PlanTypes DEF Item, IInv, TypeOK
  <2>3. QED
    BY <1>1, <2>1, <2>2, PlanStays DEF InRun, Captured, InOrder, Counted, Recovering, Forward,
                    Applying
<1>4. QED
  BY <1>2, <1>3

\* Before the first document has moved.
LEMMA FirstCursor ==
    ASSUME plan \in Plans
    PROVE  /\ 1 \in Item
           /\ 0 = IF 1 \in Item /\ Doc(1) > 0 THEN Doc(1) - 1 ELSE Documents
           /\ 0 * Stride = 0 /\ 0 < 0 + Stride
  BY PlanTypes, DocumentOrder

LEMMA BeforeTheFirstWrite ==
    ASSUME IInv, Prepare \/ Publish \/ RevokeShares
    PROVE  InRun'
<1> USE DEF Goto, KeepRun, disk, run
<1>0. plan' = plan /\ plan \in Plans
  BY DEF Prepare, Publish, RevokeShares, IInv, TypeOK
<1>1. CASE Prepare
  <2>1. PICK n \in Nat : AllAt(n)
    BY <1>1 DEF IInv, Fences, OnDisk, Placed, Prepare
  <2>2. /\ mem' = [op |-> moves', from |-> n, phase |-> "applying",
                   cursor |-> 0, completed |-> {}]
        /\ pc' = "prepared" /\ next' = 1 /\ at' = at
    BY <1>0, <1>1, <2>1, WhereAllAre DEF Prepare
  <2>3. AllAt(n)'
    BY <1>0, <2>1, <2>2, PlanStays DEF AllAt
  <2>4. moves' \in Nat /\ {} \subseteq Nat
    BY <1>0, <1>1, PlanTypes DEF Prepare, IInv, TypeOK
  <2>5. mem' # None
    BY <2>2, <2>4, NoneAssumption
  <2>6. QED
    BY <2>2, <2>3, <2>5
    DEF InRun, Captured, InOrder, Counted, Recovering, Forward, Applying
<1>2. CASE Publish
  <2>1. CASE marker = None /\ active = None /\ verifyCapturedBefore(mem)
    <3>1. /\ Applying(mem) /\ mem.cursor = 0 /\ next = 1
          /\ \A i \in Item : at[i] = Before(mem, i)
      BY <1>2, <2>1 DEF Publish, Captured, InRun, IInv, AllAt, Before
    <3>2. /\ active' = mem /\ mem' = mem /\ next' = 1 /\ at' = at
          /\ pc' = "revoke"
      BY <1>2, <2>1, <3>1 DEF Publish
    <3>3. InOrder'
      BY <1>0, <3>1, <3>2, PlanStays, FirstCursor
      DEF InOrder, Forward, Applying, Item
    <3>4. Counted'
      BY <1>0, <3>1, <3>2, PlanStays, FirstCursor, PlanTypes
      DEF Counted, Forward, Applying
    <3>5. QED
      BY <3>2, <3>3, <3>4 DEF InRun, Captured, Recovering
  <2>2. CASE ~(marker = None /\ active = None /\ verifyCapturedBefore(mem))
    BY <1>2, <2>2, NotRunning DEF Publish
  <2>3. QED
    BY <2>1, <2>2
<1>3. CASE RevokeShares
  <2>1. /\ Applying(mem) /\ next = 1 /\ at[1] = Before(mem, 1)
        /\ mem.cursor = IF 1 \in Item /\ Doc(1) > 0 THEN Doc(1) - 1 ELSE Documents
        /\ \A i \in Item : i > 1 => at[i] = Before(mem, i)
    BY <1>3 DEF RevokeShares, InRun, InOrder, Counted, Forward, IInv
  <2>2. mem.cursor = 0 /\ \A i \in Item : at[i] = Before(mem, i)
    BY <1>0, <2>1, FirstCursor, PlanTypes DEF Item
  <2>3. /\ active' = mem /\ mem' = mem /\ next' = 1 /\ at' = at
        /\ pc' = "apply"
    BY <1>3, <2>1 DEF RevokeShares
  <2>4. InOrder'
    BY <1>0, <2>1, <2>2, <2>3, PlanStays, FirstCursor
    DEF InOrder, Forward, Applying, Item
  <2>5. Counted'
    BY <1>0, <2>1, <2>2, <2>3, PlanStays, FirstCursor, PlanTypes
    DEF Counted, Forward, Applying
  <2>6. QED
    BY <2>3, <2>4, <2>5 DEF InRun, Captured, Recovering
<1>4. QED
  BY <1>1, <1>2, <1>3

\* The item that Save leaves behind is the last one that moved, and the
\* cursor it saves, or leaves behind, is less than a stride away.
LEMMA SaveRun == ASSUME IInv, Save PROVE InRun'
<1> USE DEF Goto
<1>0. /\ plan' = plan /\ plan \in Plans /\ mem' \in Journal /\ next \in Item
      /\ Len(Plan) \in Nat /\ Item = 1 .. Len(Plan)
  BY SavesJournal, PlanTypes DEF Save, IInv, TypeOK, Item
<1>1. /\ Applying(active) /\ Applying(mem) /\ mem.from = active.from
      /\ active \in Journal /\ mem \in Journal
      /\ \A i \in Item : /\ i < next => at[i] = After(mem, i)
                         /\ i > next => at[i] = Before(mem, i)
      /\ at[next] = After(mem, next)
  BY DEF IInv, TypeOK, InRun, InOrder, Save, Forward, Applying
<1>2. /\ mem.cursor = IF Doc(next) > 0 THEN Doc(next) - 1 ELSE Documents
      /\ active.cursor <= mem.cursor
      /\ mem.cursor < active.cursor + Stride
      /\ \/ active.cursor = Documents
         \/ \E q \in Nat : active.cursor = q * Stride
  BY <1>0 DEF IInv, InRun, Counted, Save, Forward
<1> DEFINE cursor == IF LastOfDocument(next) THEN Doc(next) ELSE mem.cursor
<1>3. /\ mem'.cursor = cursor /\ mem'.from = mem.from /\ mem'.phase = mem.phase
      /\ active' = IF Saves(next, cursor) THEN mem' ELSE active
      /\ next' = next + 1 /\ at' = at
      /\ pc' = IF next = Len(Plan) THEN "verify" ELSE "apply"
  BY <1>1 DEF Save, Journal
<1>4. InOrder'
  <2>1. \A i \in Item : i < next + 1 => at[i] = After(mem, i)
    BY <1>0, <1>1
  <2>2. \A i \in Item : /\ After(mem', i) = After(mem, i)
                        /\ Before(mem', i) = Before(mem, i)
    BY <1>3 DEF After, Before
  <2>3. /\ Applying(active') /\ Applying(mem') /\ mem'.from = active'.from
    BY <1>0, <1>1, <1>3, NoneIsNoJournal DEF Applying
  <2>4. \A i \in Item : i > next + 1 => at[i] = Before(mem, i)
    BY <1>0, <1>1
  <2>5. pc' = "apply" => next + 1 \in Item
    BY <1>0, <1>3
  <2>6. QED
    BY <1>0, <1>3, <2>1, <2>2, <2>3, <2>4, <2>5, PlanStays
    DEF InOrder, Forward, Applying
<1>5. Counted'
  <2>0. /\ Stride \in Nat \ {0} /\ Documents \in Nat /\ active.cursor \in Nat
        /\ Doc(next) \in Nat /\ Doc(next) <= Documents
        /\ next + 1 \in Item => Doc(next + 1) \in Nat
    BY <1>0, <1>1, PlanTypes, DocumentOrder, NoneIsNoJournal
  <2>1. cursor = IF next + 1 \in Item /\ Doc(next + 1) > 0
                 THEN Doc(next + 1) - 1 ELSE Documents
    <3>1. CASE next + 1 \in Item /\ Doc(next + 1) > 0
      <4>1. /\ 0 < Doc(next) /\ next # Len(Plan)
            /\ Doc(next + 1) = Doc(next) \/ Doc(next + 1) = Doc(next) + 1
        BY <1>0, <2>0, <3>1, DocumentOrder
      <4>2. QED
        BY <1>2, <2>0, <3>1, <4>1 DEF LastOfDocument
    <3>2. CASE ~(next + 1 \in Item /\ Doc(next + 1) > 0) /\ Doc(next) > 0
      <4>1. Doc(next) = Documents
        BY <1>0, <2>0, <3>2, DocumentOrder
      <4>2. next = Len(Plan) \/ Doc(next + 1) # Doc(next)
        BY <1>0, <2>0, <3>2
      <4>3. QED
        BY <2>0, <3>2, <4>1, <4>2 DEF LastOfDocument
    <3>3. CASE ~(next + 1 \in Item /\ Doc(next + 1) > 0) /\ Doc(next) = 0
      BY <1>2, <2>0, <3>3 DEF LastOfDocument
    <3>4. QED
      BY <2>0, <3>1, <3>2, <3>3
  <2>2. \/ cursor = mem.cursor
        \/ LastOfDocument(next) /\ cursor = Doc(next) /\ cursor = mem.cursor + 1
    BY <1>2, <2>0 DEF LastOfDocument
  <2>3. cursor \in Nat /\ mem.cursor \in Nat /\ cursor <= Documents
    BY <1>0, <1>1, <2>0, <2>1, NoneIsNoJournal, DocumentOrder
  <2>4. CASE Saves(next, cursor)
    <3>1. \/ cursor = Documents
          \/ \E q \in Nat : cursor = q * Stride
      <4>1. CASE Exact \/ Kind(next) = "edit"
        BY <1>0, <1>2, <2>0, <4>1, DocumentOrder DEF LastOfDocument
      <4>2. CASE cursor % Stride = 0
        BY <2>0, <2>3, <4>2, Multiple
      <4>3. CASE next < Len(Plan) /\ Kind(next + 1) = "edit"
        BY <1>0, <2>1, <4>3, DocumentOrder
      <4>4. QED
        BY <2>4, <4>1, <4>2, <4>3 DEF Saves
    <3>2. active'.cursor = cursor /\ cursor < cursor + Stride
      BY <1>3, <2>0, <2>3, <2>4
    <3>3. \/ active'.cursor = Documents
          \/ \E q \in Nat : active'.cursor = q * Stride
      BY <3>1, <3>2
    <3>4. active'.cursor <= cursor /\ cursor < active'.cursor + Stride
      BY <2>3, <3>2
    <3>5. QED
      BY <1>0, <1>3, <2>1, <3>3, <3>4, PlanStays DEF Counted
  <2>5. CASE ~Saves(next, cursor)
    <3>1. active.cursor <= cursor /\ cursor < active.cursor + Stride
      <4>1. CASE cursor = mem.cursor
        BY <1>2, <4>1
      <4>2. CASE LastOfDocument(next) /\ cursor = mem.cursor + 1
        <5>1. cursor % Stride # 0 /\ cursor # Documents
          BY <2>5, <4>2 DEF Saves
        <5>2. cursor # active.cursor + Stride
          <6>1. CASE active.cursor = Documents
            BY <2>0, <2>3, <6>1
          <6>2. ASSUME NEW q \in Nat, active.cursor = q * Stride
                PROVE  cursor # active.cursor + Stride
            BY <2>0, <5>1, <6>2, NextMultiple
          <6>3. QED
            BY <1>2, <6>1, <6>2
        <5>3. QED
          BY <1>2, <2>0, <2>3, <4>2, <5>2
      <4>3. QED
        BY <2>2, <4>1, <4>2
    <3>2. active' = active
      BY <1>3, <2>5
    <3>3. QED
      BY <1>0, <1>2, <1>3, <2>0, <2>1, <2>3, <3>1, <3>2, PlanStays DEF Counted
  <2>6. QED
    BY <2>4, <2>5
<1>6. QED
  BY <1>3, <1>4, <1>5 DEF InRun, Captured, Recovering

\* Undo leaves an item behind at its old endpoint.
LEMMA UndoRun == ASSUME IInv, Undo PROVE InRun'
<1> USE DEF Goto, run
<1>0. plan' = plan /\ plan \in Plans /\ at \in [Item -> Nat] /\ next \in Item
      /\ Item = 1 .. Len(Plan) /\ Len(Plan) \in Nat
  BY PlanTypes DEF Undo, IInv, TypeOK, Item
<1>1. /\ Applying(active) /\ mem = active /\ active \in Journal
      /\ \A i \in Item : i > next => at[i] = Before(active, i)
  BY DEF IInv, TypeOK, InRun, Recovering, Undo, Applying
<1>2. Before(active, next) \in Nat /\ at[next] >= Before(active, next)
  BY <1>0, <1>1, Ends, NoneIsNoJournal DEF IInv, OnDisk, Placed
<1>3. CASE GiveUp
  BY <1>3, GivenUp
<1>4. CASE at' = [at EXCEPT ![next] = @ - 1] /\ UNCHANGED run
  <2>1. \A i \in Item : i > next => at'[i] = Before(active, i)
    BY <1>0, <1>1, <1>4
  <2>2. QED
    BY <1>0, <1>1, <1>4, <2>1, PlanStays
    DEF Undo, InRun, Captured, InOrder, Counted, Recovering, Forward, Applying
<1>5. CASE next' = next - 1 /\ UNCHANGED <<at, pc, mem>> /\ ~(Undoes(next) /\ at[next] > Before(mem, next))
  <2>1. at[next] = Before(active, next)
    <3>1. CASE Undoes(next)
      BY <1>0, <1>1, <1>2, <1>5, <3>1
    <3>2. CASE ~Undoes(next)
      BY <1>0, <1>1, <3>2, DocumentOrder, PlanTypes, NoneIsNoJournal
      DEF Undoes, prefixCompensationEnd, IInv, OnDisk, WithinStride
    <3>3. QED
      BY <3>1, <3>2
  <2>2. \A i \in Item : i > next - 1 => at[i] = Before(active, i)
    BY <1>0, <1>1, <2>1
  <2>3. QED
    BY <1>0, <1>1, <1>5, <2>2, PlanStays
    DEF Undo, InRun, Captured, InOrder, Counted, Recovering, Forward, Applying
<1>6. QED
  BY <1>3, <1>4, <1>5 DEF Undo

LEMMA InRunStep == IInv /\ [Next]_vars => InRun'
<1> SUFFICES ASSUME IInv, [Next]_vars PROVE InRun'
  OBVIOUS
<1> USE DEF Goto, KeepRun, disk, run
<1>0. plan' = plan /\ plan \in Plans /\ InRun /\ at \in [Item -> Nat]
  BY OnePlan DEF IInv, TypeOK
<1>1. CASE Prepare \/ Publish \/ RevokeShares
  BY <1>1, BeforeTheFirstWrite
<1>2. CASE Apply
  <2>1. /\ Applying(active) /\ Applying(mem) /\ next \in Item
        /\ pc' \in {"apply", "save", "error"} /\ pc \in Forward
        /\ UNCHANGED <<active, mem, next>>
    BY <1>0, <1>2 DEF Apply, InRun, InOrder, Forward
  <2>2. /\ \A i \in Item : i # next => at'[i] = at[i]
        /\ pc' = "save" => at'[next] = After(mem, next)
    BY <1>0, <1>2 DEF Apply
  <2>3. InOrder'
    BY <1>0, <2>1, <2>2, PlanStays, PlanTypes DEF InRun, InOrder, Applying, Item
  <2>4. Counted'
    BY <1>0, <2>1, PlanStays DEF InRun, Counted, Forward
  <2>5. QED
    BY <2>1, <2>3, <2>4 DEF InRun, Captured, Recovering
<1>3. CASE Save
  BY <1>3, SaveRun
<1>4. CASE Verify
  <2>1. CASE pc' = "commit"
    BY <1>0, <1>4, <2>1, PlanStays
    DEF Verify, InRun, Captured, InOrder, Counted, Recovering, Forward, Applying
  <2>2. QED
    BY <1>4, <2>1, NotRunning DEF Verify
<1>5. CASE Commit
  <2>1. mem \in Journal
    BY <1>5 DEF InRun, InOrder, Commit, Forward, Applying, IInv, TypeOK
  <2>2. /\ mem' \in Journal /\ mem'.phase = "committed" /\ active' = mem'
        /\ pc' = "collab"
    BY <1>5, <2>1 DEF Commit, Journal
  <2>3. QED
    BY <1>0, <2>2, NoneIsNoJournal
    DEF InRun, Captured, InOrder, Counted, Recovering, Forward, Committed
<1>6. CASE MoveCollaboration
  <2>1. Committed(active) /\ active' = active /\ pc' = "settle"
    BY <1>0, <1>6 DEF MoveCollaboration, InRun, Recovering
  <2>2. QED
    BY <2>1 DEF InRun, Captured, InOrder, Counted, Recovering, Forward,
                Committed, Applying
<1>7. CASE Settle \/ Reconcile \/ Stop
  BY <1>7, NotRunning DEF Settle, Reconcile, Stop
<1>8. CASE HandleError
  BY <1>0, <1>8, NotRunning, GivenUp, RecoverStep DEF HandleError
<1>9. CASE Redo
  <2>1. CASE pc' = "redo"
    <3>1. Committed(active) /\ mem = active /\ UNCHANGED <<active, mem>>
      BY <1>0, <1>9, <2>1 DEF Redo, InRun, Recovering, GiveUp
    <3>2. QED
      BY <2>1, <3>1 DEF InRun, Captured, InOrder, Counted, Recovering, Forward,
                        Committed
  <2>2. QED
    BY <1>9, <2>1, GivenUp DEF Redo
<1>10. CASE FinishRedo
  <2>1. CASE pc' = "settle"
    <3>1. Committed(active) /\ active' = active
      BY <1>0, <1>10 DEF FinishRedo, InRun, Recovering
    <3>2. QED
      BY <2>1, <3>1 DEF InRun, Captured, InOrder, Counted, Recovering, Forward,
                        Committed, Applying
  <2>2. QED
    BY <1>10, <2>1, GivenUp DEF FinishRedo
<1>11. CASE Undo
  BY <1>11, UndoRun
<1>12. CASE FinishUndo
  <2>1. /\ Applying(active) /\ active' = active /\ at' = at /\ next = 0
        /\ \A i \in Item : i > next => at[i] = Before(active, i)
    BY <1>0, <1>12 DEF FinishUndo, InRun, Recovering
  <2>2. \A i \in Item : at'[i] = Before(active', i)
    BY <1>0, <2>1, PlanTypes DEF Item
  <2>3. CASE pc' = "settle"
    BY <1>0, <2>1, <2>2, <2>3, PlanStays
    DEF InRun, Captured, InOrder, Counted, Recovering, Forward, Applying
  <2>4. QED
    BY <1>12, <2>3, GivenUp DEF FinishUndo
<1>13. CASE Throw
  BY <1>13, NotRunning, GivenUp DEF Throw
<1>14. CASE Boot
  BY <1>0, <1>14, NotRunning, RecoverStep DEF Boot
<1>15. CASE Share \/ OpenDocument \/ (\E i \in Item : Touch(i)) \/ UNCHANGED vars
  BY <1>0, <1>15, RunKept DEF Share, OpenDocument, Touch, vars
<1>16. QED
  BY <1>1, <1>2, <1>3, <1>4, <1>5, <1>6, <1>7, <1>8, <1>9, <1>10, <1>11,
     <1>12, <1>13, <1>14, <1>15 DEF Next, Operation, Crash, Restart

-----------------------------------------------------------------------------
(* Shares and collaboration state *)

LEMMA UnsharedStep == IInv /\ [Next]_vars => Unshared'
<1> SUFFICES ASSUME IInv, [Next]_vars, shared' # FALSE PROVE Unshared'
  BY DEF Unshared, SharesRevokedFirst
<1> USE DEF Goto, KeepRun, disk, run
<1>0. /\ plan' = plan /\ plan \in Plans /\ Unshared /\ at \in [Item -> Nat]
      /\ shared \in BOOLEAN
      /\ active # None => active.from \in Nat
  BY OnePlan, NoneIsNoJournal DEF IInv, TypeOK
<1> DEFINE AtRest == /\ pc' \notin Forward \ {"revoke"}
                     /\ active' # None =>
                            \A i \in Item : at'[i] = Before(active', i)
<1>1. ASSUME AtRest PROVE Unshared'
  BY <1>0, <1>1, PlanStays DEF Unshared, SharesRevokedFirst
<1>2. CASE shared = FALSE
  <2>1. Share
    BY <1>2
    DEF Next, Operation, Prepare, Publish, RevokeShares, Apply, Save, Verify,
        Commit, MoveCollaboration, Settle, HandleError, Redo, FinishRedo, Undo,
        FinishUndo, Reconcile, Throw, Crash, Restart, Stop, Boot, OpenDocument,
        Touch, vars
  <2>2. AtRest
    BY <2>1 DEF Share, IInv, Fences, Forward
  <2>3. QED
    BY <1>1, <2>2
<1> DEFINE Still == active # None => \A i \in Item : at[i] = Before(active, i)
<1>3. ASSUME shared # FALSE PROVE pc \notin Forward \ {"revoke"} /\ Still
  BY <1>0, <1>3 DEF Unshared, SharesRevokedFirst
<1>4. ASSUME shared # FALSE, UNCHANGED <<at, active>>,
             pc' \notin Forward \ {"revoke"}
      PROVE  Unshared'
  BY <1>1, <1>3, <1>4
<1>5. ASSUME shared # FALSE, Publish PROVE Unshared'
  <2>1. CASE active' = active
    BY <1>4, <1>5, <2>1 DEF Publish, Forward
  <2>2. CASE active' = mem
    <3>1. pc' = "revoke" \/ active' = active
      BY <1>5 DEF Publish
    <3>2. \A i \in Item : at[i] = Before(mem, i)
      BY <1>5 DEF Publish, IInv, InRun, Captured, AllAt, Before
    <3>3. at' = at
      BY <1>5 DEF Publish
    <3>4. QED
      BY <1>1, <2>1, <2>2, <3>1, <3>2, <3>3 DEF Forward
  <2>3. QED
    BY <1>5, <2>1, <2>2 DEF Publish
<1>6. ASSUME shared # FALSE, Redo \/ Undo PROVE Unshared'
  <2>1. next \in Item /\ active # None /\ mem = active
        /\ pc \in {"redo", "undo"}
    BY <1>6 DEF Redo, Undo, IInv, InRun, Recovering, Applying, Committed
  <2>2. at[next] = Before(mem, next) /\ Before(mem, next) \in Nat
    BY <1>0, <1>3, <1>6, <2>1, Ends
  <2>3. Undo => at' = at
    BY <2>2 DEF Undo
  <2>4. ~Redo
    <3>1. ASSUME Redo PROVE FALSE
      <4>1. at[next] = After(mem, next)
        BY <2>1, <3>1 DEF Redo, IInv, InRun, Recovering, OnDisk, Placed
      <4>2. Before(active, next) < After(active, next)
        BY <1>0, <2>1, Ends
      <4>3. QED
        BY <2>1, <2>2, <4>1, <4>2
    <3>2. QED
      BY <3>1
  <2>5. QED
    BY <1>4, <1>6, <2>3, <2>4 DEF Undo, GiveUp, Forward
<1>7. ASSUME shared # FALSE, Settle PROVE Unshared'
  BY <1>1, <1>7 DEF Settle, Forward
<1>8. ASSUME shared # FALSE,
             \/ Prepare \/ MoveCollaboration \/ HandleError \/ FinishRedo
             \/ FinishUndo \/ Reconcile
      PROVE  Unshared'
  BY <1>4, <1>8 DEF Prepare, MoveCollaboration, HandleError, FinishRedo,
                    FinishUndo, Reconcile, Recover, GiveUp, Forward
<1>9. ASSUME shared # FALSE,
             \/ Throw \/ Stop \/ Boot \/ Share \/ OpenDocument
             \/ (\E i \in Item : Touch(i)) \/ UNCHANGED vars
      PROVE  Unshared'
  BY <1>3, <1>4, <1>9 DEF Throw, Stop, Boot, Share, OpenDocument, Touch, vars,
                          Recover, GiveUp, Forward
<1>10. ~(RevokeShares)
  BY DEF RevokeShares
<1>11. shared # FALSE => ~(Apply \/ Save \/ Verify \/ Commit)
  BY <1>3 DEF Apply, Save, Verify, Commit, Forward
<1>12. QED
  BY <1>2, <1>5, <1>6, <1>7, <1>8, <1>9, <1>10, <1>11
  DEF Next, Operation, Crash, Restart

LEMMA MovedStep == IInv /\ [Next]_vars => Moved'
<1> SUFFICES ASSUME IInv, [Next]_vars PROVE Moved'
  OBVIOUS
<1> USE DEF Goto, KeepRun, disk, run
<1>0. /\ Moved /\ plan \in Plans
      /\ active # None => active.from \in Nat
      /\ marker # None => marker.from \in Nat
  BY NoneIsNoJournal DEF IInv, TypeOK
<1>1. CASE \/ Publish \/ RevokeShares \/ Apply \/ Save \/ Verify \/ Commit
  <2>1. ~moved' /\ pc' # "settle" /\ UNCHANGED <<marker, collab>>
    BY <1>0, <1>1 DEF Publish, RevokeShares, Apply, Save, Verify, Commit,
                      Moved, Forward
  <2>2. QED
    BY <1>0, <2>1 DEF Moved
<1>2. CASE Prepare \/ Stop
  BY <1>0, <1>2 DEF Prepare, Stop, Moved, Forward
<1>3. CASE MoveCollaboration
  <2>1. mem = active /\ active # None /\ active.from \in Nat /\ marker = None
    BY <1>0, <1>3 DEF MoveCollaboration, IInv, InRun, Recovering, Committed,
                      OnDisk, OneJournal
  <2>2. collab' # active.from
    BY <1>3, <2>1 DEF MoveCollaboration
  <2>3. QED
    BY <1>3, <2>1, <2>2 DEF MoveCollaboration, Moved, Committed, Forward
<1>4. CASE FinishRedo
  <2>1. /\ mem = active /\ active # None /\ active.from \in Nat /\ marker = None
        /\ Committed(active) /\ UNCHANGED <<active, marker>>
    BY <1>0, <1>4 DEF FinishRedo, IInv, InRun, Recovering, Committed,
                      OnDisk, OneJournal
  <2>2. CASE pc' = "settle"
    <3>1. moved => collab # active.from
      BY <1>0, <2>1 DEF Moved
    <3>2. None # active.from
      BY <2>1, NoneAssumption
    <3>3. collab' # active.from
      BY <1>4, <2>1, <2>2, <3>1, <3>2 DEF FinishRedo, GiveUp
    <3>4. QED
      BY <2>1, <2>2, <3>3 DEF Moved, Committed, Forward
  <2>3. CASE GiveUp /\ UNCHANGED collab
    BY <1>0, <2>1, <2>3 DEF GiveUp, Moved, Committed, Forward
  <2>4. QED
    BY <1>4, <2>2, <2>3 DEF FinishRedo
<1>5. CASE Settle
  BY <1>0, <1>5 DEF Settle, Moved, Committed, Forward
<1>6. CASE OpenDocument
  <2>1. active = None /\ marker = None
    BY <1>6 DEF OpenDocument, IInv, Fences
  <2>2. QED
    BY <1>0, <1>6, <2>1 DEF OpenDocument, Moved, Committed
<1>7. CASE HandleError \/ Boot
  BY <1>0, <1>7 DEF HandleError, Boot, Recover, GiveUp, Moved, Forward
<1>8. CASE Redo \/ Undo
  BY <1>0, <1>8 DEF Redo, Undo, GiveUp, Moved, Forward
<1>9. CASE FinishUndo
  <2>1. Applying(active) /\ UNCHANGED <<active, marker, collab>>
    BY <1>9 DEF FinishUndo, IInv, InRun, Recovering
  <2>2. ~Committed(active')
    BY <2>1 DEF Applying, Committed
  <2>3. pc' \notin Forward \cup {"prepared"}
    BY <1>9 DEF FinishUndo, GiveUp, Forward
  <2>4. QED
    BY <1>0, <2>1, <2>2, <2>3 DEF Moved
<1>10. CASE Reconcile \/ Throw \/ Share
  BY <1>0, <1>10 DEF Reconcile, Throw, GiveUp, Share, Moved, Forward, Committed
<1>11. CASE (\E i \in Item : Touch(i)) \/ UNCHANGED vars
  BY <1>0, <1>11 DEF Touch, vars, Moved
<1>12. QED
  BY <1>1, <1>2, <1>3, <1>4, <1>5, <1>6, <1>7, <1>8, <1>9, <1>10, <1>11
  DEF Next, Operation, Crash, Restart

-----------------------------------------------------------------------------
(* The theorems *)

LEMMA InitIInv == Init => IInv
<1> SUFFICES ASSUME Init PROVE IInv
  OBVIOUS
<1>1. plan \in Plans /\ Len(Plan) \in Nat /\ MaxMoves \in Nat
  BY PlanTypes DEF Init
<1>2. TypeOK
  <2>1. {moved, fenced} \subseteq BOOLEAN /\ shared \in BOOLEAN
    BY DEF Init
  <2>2. /\ moves \in 0 .. MaxMoves /\ next \in 0 .. Len(Plan) + 1
        /\ at \in [Item -> Nat]
        /\ touched \in [Item -> {"clean", "edited", "stray"}]
    BY <1>1 DEF Init
  <2>3. QED
    BY <2>1, <2>2 DEF Init, TypeOK, Steps
<1>3. \A i \in Item : at[i] = 0 * Length(i)
  BY <1>1, PlanTypes, Distances DEF Init
<1>4. AllAt(0) /\ 0 \in Nat
  BY <1>3 DEF AllAt
<1>5. OnDisk
  BY <1>4 DEF Init, OnDisk, OneJournal, Placed, WithinStride, Applying, Committed
<1>6. Fences /\ InRun /\ Unshared /\ Moved
  BY DEF Init, Fences, InRun, Captured, InOrder, Counted, Recovering, Forward,
         Unshared, SharesRevokedFirst, Moved, Committed
<1>7. QED
  BY <1>2, <1>5, <1>6 DEF IInv

LEMMA LifecycleInvariant == Spec => []IInv
<1>1. IInv /\ [Next]_vars => IInv'
  <2>1. IInv /\ [Next]_vars => TypeOK' /\ Fences' /\ OnDisk'
    BY TypeStep, FencesStep, OnDiskStep
  <2>2. IInv /\ [Next]_vars => InRun' /\ Unshared' /\ Moved'
    BY InRunStep, UnsharedStep, MovedStep
  <2>3. QED
    BY <2>1, <2>2 DEF IInv
<1>2. QED
  BY InitIInv, <1>1, PTL DEF Spec

(***************************************************************************)
(* Journals, cursors and the program counter of a move stay in their       *)
(* declared ranges; in particular a saved cursor never passes the number   *)
(* of documents in the plan (document-lifecycle-journal.ts).               *)
(***************************************************************************)
THEOREM LifecycleTypes == Spec => []TypeOK
<1>1. IInv => TypeOK
  BY DEF IInv
<1>2. QED
  BY LifecycleInvariant, <1>1, PTL

(***************************************************************************)
(* Between two moves every file of every document is at one endpoint, for  *)
(* any folder, whatever crashes, exceptions and outside edits the journal  *)
(* went through.                                                           *)
(***************************************************************************)
THEOREM MovesAreWhole == Spec => []AllOrNothing
<1>1. IInv => AllOrNothing
  <2> SUFFICES ASSUME IInv, active = None, NEW i \in Item, NEW k \in Item
               PROVE  at[i] * Length(k) = at[k] * Length(i)
    BY DEF AllOrNothing
  <2>1. PICK n \in Nat : AllAt(n)
    BY DEF IInv, OnDisk, Placed
  <2>2. Length(i) \in 1 .. 3 /\ Length(k) \in 1 .. 3
    BY PlanTypes DEF IInv, TypeOK
  <2>3. at[i] = n * Length(i) /\ at[k] = n * Length(k)
    BY <2>1 DEF AllAt
  <2>4. QED
    BY <2>2, <2>3
<1>2. QED
  BY LifecycleInvariant, <1>1, PTL

(***************************************************************************)
(* classifySource, prefixCompensationEnd and the saved cursor: recovery    *)
(* always knows what to do with each file, unless somebody else's edit     *)
(* took its identity away.                                                 *)
(***************************************************************************)
THEOREM RecoveryGoesOn == Spec => []StrandedOnlyByEdits
<1>1. \A j, i : i \in Item /\ Ambiguous(j, i) => Interfered \/ SourceEdited
  BY DEF Ambiguous, Interfered, SourceEdited
<1>2. IInv => StrandedOnlyByEdits
  <2> SUFFICES ASSUME IInv, RecoveryBlocked PROVE Interfered \/ SourceEdited
    BY DEF StrandedOnlyByEdits
  <2> USE DEF IInv, OnDisk, InRun
  <2>1. CASE pc \in {"redo", "undo"} /\ next \in Item /\ Ambiguous(mem, next)
    BY <1>1, <2>1
  <2>2. ~(pc = "redo" /\ ~Exact /\ mem.cursor # Documents)
    BY DEF Recovering, Placed
  <2>3. CASE pc = "redo" /\ ~AtCheckpoint(mem)
    <3>1. \A i \in Item : at[i] = Goal(mem, i)
      BY <2>3 DEF Recovering, Placed, Committed, Goal
    <3>2. QED
      BY <1>1, <2>3, <3>1 DEF AtCheckpoint
  <2>4. CASE pc = "undo" /\ next = 0 /\ ~AtCheckpoint(mem)
    <3>1. \A i \in Item : i > 0
      BY PlanTypes DEF Item, TypeOK
    <3>2. \A i \in Item : at[i] = Goal(mem, i)
      BY <2>4, <3>1 DEF Recovering, Applying, Goal
    <3>3. QED
      BY <1>1, <2>4, <3>2 DEF AtCheckpoint
  <2>5. ~(pc = "down" /\ active # None /\ marker # None)
    BY DEF OneJournal
  <2>6. QED
    BY <2>1, <2>2, <2>3, <2>4, <2>5 DEF RecoveryBlocked
<1>3. QED
  BY LifecycleInvariant, <1>2, PTL

(***************************************************************************)
(* invalidateShares comes before the first write, and createDocumentShare  *)
(* cannot come between: no share link reaches a half-moved document.       *)
(***************************************************************************)
THEOREM SharesStayRevoked == Spec => []SharesRevokedFirst
<1>1. IInv => SharesRevokedFirst
  BY DEF IInv, Unshared
<1>2. QED
  BY LifecycleInvariant, <1>1, PTL

(***************************************************************************)
(* Whether the operation, its error handler or the next start finishes a   *)
(* committed move, it settles only once collaboration state has left the   *)
(* old path (renameState, renameStatesBatch,                               *)
(* clearRecoveredCollaborationState).                                      *)
(***************************************************************************)
THEOREM CollaborationMoves == Spec => []CollaborationFollows
<1>1. IInv => CollaborationFollows
  BY DEF IInv, Moved, Committed, CollaborationFollows
<1>2. QED
  BY LifecycleInvariant, <1>1, PTL

-----------------------------------------------------------------------------
(* Atomicity: DocumentLifecycle implements AtomicMove *)

Endpoint == IF active # None /\ active.phase = "committed"
            THEN active.from + 1
            ELSE IF active # None THEN active.from
            ELSE at[1] \div Length(1)

State == IF active # None /\ active.phase = "applying" THEN "moving"
         ELSE IF active # None \/ marker # None THEN "settling"
         ELSE "settled"

\* What users see changes with the active journal and the marker only.
LEMMA Stutter ==
    ASSUME UNCHANGED <<plan, at, active, marker>>
    PROVE  UNCHANGED <<Endpoint, State>>
<1>1. Length(1)' = Length(1)
  BY PlanStays
<1>2. QED
  BY <1>1 DEF Endpoint, State

\* While a journal is active, what is at the items does not show.
LEMMA StutterInMove ==
    ASSUME active # None, active' # None,
           active'.from = active.from, active'.phase = active.phase
    PROVE  UNCHANGED <<Endpoint, State>>
  BY DEF Endpoint, State

LEMMA Simulation ==
    IInv /\ [Next]_vars => [Atomic!Next]_<<Endpoint, State>>
<1> SUFFICES ASSUME IInv, [Next]_vars
             PROVE  Atomic!Next \/ UNCHANGED <<Endpoint, State>>
  OBVIOUS
<1> USE DEF Goto, KeepRun, disk, run
<1>0. /\ plan' = plan /\ plan \in Plans
      /\ active # None => /\ active.from \in Nat
                          /\ active.phase \in {"applying", "committed"}
  BY OnePlan, NoneIsNoJournal DEF IInv, TypeOK, Journal
<1>1. CASE \/ Prepare \/ Verify \/ MoveCollaboration \/ HandleError \/ FinishRedo
           \/ FinishUndo \/ Throw \/ Stop \/ Boot \/ Share \/ OpenDocument
           \/ (\E i \in Item : Touch(i)) \/ UNCHANGED vars
  <2>1. UNCHANGED <<plan, at, active, marker>>
    BY <1>1 DEF Prepare, Verify, MoveCollaboration, HandleError, FinishRedo,
                FinishUndo, Throw, Stop, Boot, Share, OpenDocument, Touch, vars
  <2>2. QED
    BY <2>1, Stutter
<1>2. CASE Publish
  <2>1. CASE marker = None /\ active = None /\ verifyCapturedBefore(mem)
    <3>1. /\ Applying(mem) /\ AllAt(mem.from) /\ active' = mem
      BY <1>2, <2>1 DEF Publish, IInv, InRun, Captured
    <3>2. mem.from \in Nat
      BY <1>0, <3>1, NoneIsNoJournal DEF Applying, IInv, TypeOK
    <3>3. Endpoint = mem.from /\ Endpoint' = mem.from
      BY <1>0, <2>1, <3>1, <3>2, WhereAllAre DEF Endpoint, Applying
    <3>4. State = "settled" /\ State' = "moving"
      BY <2>1, <3>1 DEF State, Applying
    <3>5. Atomic!Begin
      BY <3>3, <3>4 DEF Atomic!Begin, Endpoint, State
    <3>6. QED
      BY <3>5 DEF Atomic!Next
  <2>2. CASE ~(marker = None /\ active = None /\ verifyCapturedBefore(mem))
    BY <1>2, <2>2, Stutter DEF Publish
  <2>3. QED
    BY <2>1, <2>2
<1>3. CASE RevokeShares \/ Save
  <2>1. /\ Applying(active) /\ Applying(mem) /\ mem.from = active.from
        /\ mem \in Journal
    BY <1>3 DEF RevokeShares, Save, IInv, InRun, InOrder, Forward, TypeOK, Applying
  <2>2. Save => mem' # None /\ mem'.from = mem.from /\ mem'.phase = mem.phase
    BY <1>0, <2>1, SavesJournal, NoneIsNoJournal DEF Save, Journal
  <2>3. active' # None /\ active'.from = active.from /\ active'.phase = active.phase
    BY <1>3, <2>1, <2>2 DEF RevokeShares, Save, Applying
  <2>4. QED
    BY <2>1, <2>3, StutterInMove DEF Applying
<1>4. CASE Apply \/ Redo \/ Undo
  <2>1. active # None /\ UNCHANGED active
    BY <1>4 DEF Apply, Redo, Undo, IInv, InRun, InOrder, Recovering, Forward,
                Applying, Committed
  <2>2. QED
    BY <2>1, StutterInMove
<1>5. CASE Commit
  <2>1. /\ Applying(active) /\ mem.from = active.from /\ mem \in Journal
    BY <1>5 DEF Commit, IInv, InRun, InOrder, Forward, TypeOK, Applying
  <2>2. /\ active' \in Journal /\ active'.phase = "committed"
        /\ active'.from = active.from
    BY <1>5, <2>1 DEF Commit, Journal
  <2>3. active # None /\ active' # None
    BY <1>0, <2>1, <2>2, NoneIsNoJournal DEF Applying
  <2>4. Endpoint = active.from /\ Endpoint' = active.from + 1
    BY <2>1, <2>2, <2>3 DEF Endpoint, Applying
  <2>5. State = "moving" /\ State' = "settling"
    BY <2>1, <2>2, <2>3 DEF State, Applying
  <2>6. Atomic!Commit
    BY <2>4, <2>5 DEF Atomic!Commit, Endpoint, State
  <2>7. QED
    BY <2>6 DEF Atomic!Next
<1>6. CASE Settle
  <2>1. /\ active # None /\ active' = None /\ marker' = active /\ at' = at
        /\ Applying(active) => \A i \in Item : at[i] = Before(active, i)
    BY <1>6 DEF Settle, IInv, InRun, Recovering
  <2>2. State' = "settling"
    BY <2>1 DEF State
  <2>3. Endpoint' = at[1] \div Length(1)
    BY <1>0, <2>1, PlanStays DEF Endpoint
  <2>4. CASE active.phase = "applying"
    <3>1. AllAt(active.from)
      BY <2>1, <2>4 DEF Applying, AllAt, Before
    <3>2. Endpoint' = Endpoint
      BY <1>0, <2>1, <2>3, <2>4, <3>1, WhereAllAre DEF Endpoint
    <3>3. State = "moving"
      BY <2>1, <2>4 DEF State
    <3>4. Atomic!Abort
      BY <2>2, <3>2, <3>3 DEF Atomic!Abort, Endpoint, State
    <3>5. QED
      BY <3>4 DEF Atomic!Next
  <2>5. CASE active.phase = "committed"
    <3>1. AllAt(active.from + 1) /\ active.from + 1 \in Nat
      BY <1>0, <2>1, <2>5 DEF Committed, AllAt, After, IInv, OnDisk, Placed
    <3>2. Endpoint' = Endpoint
      BY <1>0, <2>1, <2>3, <2>5, <3>1, WhereAllAre DEF Endpoint
    <3>3. State = "settling"
      BY <2>1, <2>5 DEF State
    <3>4. QED
      BY <2>2, <3>2, <3>3
  <2>6. QED
    BY <1>0, <2>1, <2>4, <2>5
<1>7. CASE Reconcile
  <2>1. CASE marker = None \/ marker' = marker
    BY <1>7, <2>1, Stutter DEF Reconcile
  <2>2. CASE marker # None /\ marker' = None
    <3>1. active = None /\ UNCHANGED <<at, active>>
      BY <1>7, <2>2 DEF Reconcile, IInv, OnDisk, OneJournal
    <3>2. Endpoint' = Endpoint
      BY <1>0, <3>1, PlanStays DEF Endpoint
    <3>3. State = "settling" /\ State' = "settled"
      BY <2>2, <3>1 DEF State
    <3>4. Atomic!Finish
      BY <3>2, <3>3 DEF Atomic!Finish, Endpoint, State
    <3>5. QED
      BY <3>4 DEF Atomic!Next
  <2>3. QED
    BY <1>7, <2>1, <2>2 DEF Reconcile
<1>8. QED
  BY <1>1, <1>2, <1>3, <1>4, <1>5, <1>6, <1>7
  DEF Next, Operation, Crash, Restart

(***************************************************************************)
(* createJournal, the commit and settleJournalForReconciliation make the   *)
(* writes of executePrepared, its error handler and startup recovery one   *)
(* step: the detailed specification implements the atomic one.             *)
(***************************************************************************)
THEOREM Atomicity == Spec => MoveIsAtomic
<1>1. Init => Atomic!Init
  <2> SUFFICES ASSUME Init PROVE Atomic!Init
    OBVIOUS
  <2>1. plan \in Plans /\ active = None /\ marker = None
    BY DEF Init
  <2>2. 1 \in Item /\ Length(1) \in 1 .. 3
    BY <2>1, DocumentOrder, PlanTypes
  <2>3. at[1] = 0
    BY <2>2 DEF Init
  <2>4. at[1] \div Length(1) = 0
    BY <2>2, <2>3
  <2>5. QED
    BY <2>1, <2>4 DEF Atomic!Init
<1>2. IInv /\ [Next]_vars => [Atomic!Next]_(Atomic!vars)
  BY Simulation DEF Atomic!vars, Endpoint, State
<1>3. QED
  BY <1>1, <1>2, LifecycleInvariant, PTL DEF Spec, MoveIsAtomic, Atomic!Spec
=============================================================================
