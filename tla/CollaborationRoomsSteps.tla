---------------------- MODULE CollaborationRoomsSteps -----------------------
(***************************************************************************)
(* What the steps of CollaborationRooms do to the room, to the slot and to *)
(* the syncs, field by field: the lemmas on which the proofs of its        *)
(* properties rest.                                                        *)
(***************************************************************************)
EXTENDS CollaborationRooms, FiniteSetTheorems, TLAPS

-----------------------------------------------------------------------------
(* The slot and the syncs between two stages                               *)

\* Rooms that differ only in what asks for another save.
Alike(a, b) ==
    /\ a.key = b.key /\ a.items = b.items /\ a.gone = b.gone
    /\ a.gen = b.gen /\ a.saved = b.saved /\ a.intent = b.intent
    /\ a.igen = b.igen /\ a.base = b.base /\ a.hash = b.hash
    /\ a.seen = b.seen /\ a.hold = b.hold /\ a.clients = b.clients

\* A slot that carries nothing of an earlier save.
Clear(s) ==
    /\ s.stat = 0 /\ s.blocks = {} /\ s.known = None /\ s.gen = 0 /\ s.igen = 0
    /\ s.prov = None /\ s.made = None

\* The slot's new holder, task and stage: s is what it was.
Turned(s, t) ==
    \/ t.pc = "idle" /\ t.task \in {"none", "failed"}
    \/ /\ t.pc \in {"stat", "sync"} /\ t.key \in Place
       /\ \/ t.task \in {"persist", "replay"}
          \/ /\ t.task = "typed" /\ s.task \in DOMAIN NextStage
             /\ t.item = s.item /\ t.path = s.path
    \/ /\ t.task = s.task /\ s.task \in DOMAIN NextStage
       /\ t.pc = NextStage[s.task] /\ t.item = s.item /\ t.path = s.path

\* The slot passes to its next stage, with the syncs sy, and the room is r.
Turns(sy) ==
    /\ slot' \in Slots /\ Clear(slot') /\ Turned(slot, slot')
    /\ sync' \in [Syncer -> Syncs] /\ sync'["watcher"] = sy["watcher"]
    /\ slot'.pc # "sync" => sync'["slot"] = sy["slot"]
    /\ slot'.pc = "sync" => /\ sync'["slot"].pc = "read"
                            /\ sync'["slot"].items = {}
Passes(r, sy) == room' \in Rooms /\ Alike(room', r) /\ Turns(sy)

\* A save or a sync returns to whoever asked for it, or fails.
Comes == /\ slot'.task = "typed" => slot.task = "typed" /\ slot'.pc = "hold"
         /\ slot.task = "follow" => slot'.task = "follow" /\ slot'.pc = "release"
Fails == slot.task # "follow" => slot'.task \notin DOMAIN NextStage

LEMMA Stages ==
    /\ DOMAIN NextStage = {"required", "disk", "typed", "follow"}
    /\ NextStage["required"] = "check" /\ NextStage["disk"] = "typed"
    /\ NextStage["typed"] = "hold" /\ NextStage["follow"] = "release"
  BY DEF NextStage

LEMMA Blanks ==
    /\ IdleSlot \in Slots /\ IdleSync \in Syncs /\ Clear(IdleSlot)
    /\ IdleSlot.pc = "idle" /\ IdleSlot.task = "none"
    /\ IdleSync.pc = "idle" /\ IdleSync.items = {}
  BY DEF IdleSlot, IdleSync, Slots, Syncs, Content, Clear

LEMMA SyncOfForm ==
    ASSUME NEW r \in Rooms, NEW token \in Nat \cup {None}
    PROVE  /\ SyncOf(r, token) \in Syncs /\ SyncOf(r, token).pc = "read"
           /\ SyncOf(r, token).items = {} /\ SyncOf(r, token).key = r.key
           /\ SyncOf(r, token).token = token
  BY DEF SyncOf, IdleSync, Syncs, Rooms, Content

LEMMA AlikeRooms ==
    ASSUME NEW r \in Rooms, NEW b \in BOOLEAN
    PROVE  /\ [r EXCEPT !.required = None] \in Rooms
           /\ Alike([r EXCEPT !.required = None], r)
           /\ [r EXCEPT !.again = b] \in Rooms /\ Alike([r EXCEPT !.again = b], r)
           /\ [r EXCEPT !.timer = b] \in Rooms /\ Alike([r EXCEPT !.timer = b], r)
           /\ [r EXCEPT !.idle = b] \in Rooms /\ Alike([r EXCEPT !.idle = b], r)
           /\ Alike(r, r)
  BY DEF Rooms, Alike

LEMMA StartForm ==
    ASSUME NEW r \in Rooms, NEW sy \in [Syncer -> Syncs], NEW s \in Slots,
           Clear(s), s.task \in {"persist", "replay", "typed"},
           s.task = "typed" => /\ slot.task \in DOMAIN NextStage
                               /\ s.item = slot.item /\ s.path = slot.path,
           StartPersist(r, sy, s)
    PROVE  Passes(r, sy) /\ slot'.task = s.task /\ slot'.pc \in {"stat", "sync"}
<1> DEFINE owed == r.required # None /\ r.required = r.gen
           r1 == IF owed THEN r ELSE [r EXCEPT !.required = None]
           pc1 == IF owed THEN "sync" ELSE "stat"
<1>1. r1 \in Rooms /\ Alike(r1, r) /\ r1.key \in Place
  <2>1. /\ [r EXCEPT !.required = None] \in Rooms
        /\ Alike([r EXCEPT !.required = None], r) /\ Alike(r, r)
    BY AlikeRooms
  <2>2. r1 \in Rooms /\ Alike(r1, r)
    BY <2>1
  <2>3. \A q \in Rooms : q.key \in Place
    BY DEF Rooms
  <2> QED
    BY <2>2, <2>3
<1>0. pc1 \in {"sync", "stat"}
  OBVIOUS
<1>2. /\ room' = r1 /\ slot' = [s EXCEPT !.pc = pc1, !.key = r1.key]
      /\ sync' = IF owed THEN [sy EXCEPT !["slot"] = SyncOf(r1, r1.required)] ELSE sy
  BY DEF StartPersist
<1>3. /\ slot' \in Slots /\ Clear(slot') /\ slot'.pc = pc1
      /\ slot'.key \in Place /\ slot'.task = s.task
      /\ slot'.item = s.item /\ slot'.path = s.path
  <2> HIDE DEF pc1, r1
  <2>1. slot' \in Slots
    BY <1>0, <1>1, <1>2 DEF Slots, Saving
  <2>4. slot'.pc = pc1
    BY <1>2 DEF Slots
  <2>2. /\ slot'.key \in Place /\ slot'.task = s.task
        /\ slot'.item = s.item /\ slot'.path = s.path
    <3>1. slot'.key = r1.key
      BY <1>2 DEF Slots
    <3>2. slot'.task = s.task
      BY <1>2 DEF Slots
    <3>3. slot'.item = s.item /\ slot'.path = s.path
      BY <1>2 DEF Slots
    <3> QED
      BY <1>1, <3>1, <3>2, <3>3
  <2>3. Clear(slot')
    BY <1>0, <1>1, <1>2 DEF Slots, Clear
  <2> QED
    BY <2>1, <2>2, <2>3, <2>4
<1>4. /\ sync' \in [Syncer -> Syncs] /\ sync'["watcher"] = sy["watcher"]
      /\ ~owed => sync'["slot"] = sy["slot"]
      /\ owed => sync'["slot"].pc = "read" /\ sync'["slot"].items = {}
  <2>1. SyncOf(r1, r1.required) \in Syncs
        /\ SyncOf(r1, r1.required).pc = "read" /\ SyncOf(r1, r1.required).items = {}
    <3>1. r1.required \in Nat \cup {None}
      BY <1>1 DEF Rooms
    <3> QED
      BY <1>1, <3>1, SyncOfForm
  <2> QED
    BY <1>2, <2>1 DEF Syncer
<1>5. Turned(slot, slot')
  BY <1>3 DEF Turned
<1> QED
  BY <1>1, <1>2, <1>3, <1>4, <1>5 DEF Passes, Turns

LEMMA HandedForm ==
    ASSUME slot \in Slots, NEW t \in {"typed"} \cup DOMAIN NextStage,
           slot.task \in DOMAIN NextStage,
           NEW p \in {"check", "typed", "hold", "release"}
    PROVE  /\ Handed(t) \in Slots /\ Clear(Handed(t)) /\ Handed(t).task = t
           /\ Handed(t).item = slot.item /\ Handed(t).path = slot.path
           /\ \A s : s = [Handed(t) EXCEPT !.pc = p] =>
                /\ s \in Slots /\ Clear(s) /\ s.pc = p /\ s.task = t
                /\ s.item = slot.item /\ s.path = slot.path
<1> DEFINE h == Handed(t)
<1>1. slot.item \in Agent \cup {None} /\ slot.path \in Place \cup {None}
  BY DEF Slots
<1>2. h = [IdleSlot EXCEPT !.task = t, !.item = slot.item, !.path = slot.path]
  BY DEF Handed
<1>3. t \in {"none", "failed", "persist", "replay"} \cup DOMAIN NextStage
  BY Stages
<1> HIDE DEF h
<1>4. h \in Slots
  BY <1>1, <1>2, <1>3, Blanks DEF Slots
<1>5. h.task = t /\ h.item = slot.item /\ h.path = slot.path
  BY <1>2, Blanks DEF Slots
<1>6. Clear(h)
  BY <1>2, Blanks DEF Slots, Clear
<1>7. [h EXCEPT !.pc = p] \in Slots
  BY <1>4 DEF Slots, Handing
<1>8. [h EXCEPT !.pc = p].pc = p /\ [h EXCEPT !.pc = p].task = t
      /\ [h EXCEPT !.pc = p].item = slot.item /\ [h EXCEPT !.pc = p].path = slot.path
  BY <1>4, <1>5 DEF Slots
<1>9. Clear([h EXCEPT !.pc = p])
  BY <1>4, <1>6 DEF Slots, Clear
<1> QED
  BY <1>4, <1>5, <1>6, <1>7, <1>8, <1>9 DEF h

LEMMA TaskForm ==
    ASSUME NEW t \in {"persist", "replay", "failed"}
    PROVE  LET s == [IdleSlot EXCEPT !.task = t]
           IN s \in Slots /\ Clear(s) /\ s.task = t /\ s.pc = "idle"
<1>1. [IdleSlot EXCEPT !.task = t] \in Slots
  BY Blanks DEF Slots
<1>2. [IdleSlot EXCEPT !.task = t].task = t /\ [IdleSlot EXCEPT !.task = t].pc = "idle"
  BY Blanks DEF Slots
<1>3. Clear([IdleSlot EXCEPT !.task = t])
  BY Blanks DEF Slots, Clear
<1> QED
  BY <1>1, <1>2, <1>3

LEMMA AlikeTrans ==
    ASSUME NEW a, NEW b, NEW c, Alike(a, b), Alike(b, c)
    PROVE  Alike(a, c)
  BY DEF Alike

LEMMA FreeForm ==
    ASSUME NEW r \in Rooms, NEW sy \in [Syncer -> Syncs],
           NEW t \in {"persist", "replay"}, SlotFree(r, sy, t)
    PROVE  Passes(r, sy) /\ slot'.task \in {"none", "persist", "replay"}
           /\ slot'.pc \in {"idle", "stat", "sync"}
<1>0. r # None
  BY NoneAssumption
<1>1. CASE r.again
  <2> DEFINE r1 == [r EXCEPT !.again = FALSE]
             s == [IdleSlot EXCEPT !.task = t]
  <2>1. r1 \in Rooms /\ Alike(r1, r)
    BY AlikeRooms
  <2>2. s \in Slots /\ Clear(s) /\ s.task = t
    BY TaskForm
  <2>3. StartPersist(r1, sy, s)
    BY <1>0, <1>1 DEF SlotFree
  <2> HIDE DEF r1, s
  <2>4. Passes(r1, sy) /\ slot'.task = t /\ slot'.pc \in {"stat", "sync"}
    BY <2>1, <2>2, <2>3, StartForm
  <2>5. Alike(room', r)
    BY <2>1, <2>4, AlikeTrans DEF Passes, Turns
  <2> QED
    BY <2>4, <2>5 DEF Passes, Turns
<1>2. CASE ~r.again
  <2>1. room' = r /\ sync' = sy /\ slot' = IdleSlot
    BY <1>0, <1>2 DEF SlotFree
  <2> QED
    BY <2>1, Blanks, AlikeRooms DEF Passes, Turns, Turned
<1> QED
  BY <1>1, <1>2

LEMMA ReturnForm ==
    ASSUME NEW r \in Rooms, NEW sy \in [Syncer -> Syncs], NEW ok \in BOOLEAN,
           slot \in Slots, SlotReturn(r, sy, ok)
    PROVE  Passes(r, sy) /\ Comes /\ (~ok => Fails)
<1>1. CASE slot.task \in {"persist", "replay"} /\ SlotFree(r, sy, slot.task)
  BY <1>1, FreeForm, Stages DEF Comes, Fails
<1>2. CASE slot.task = "persist" /\ room' = r /\ sync' = sy
           /\ slot' = [IdleSlot EXCEPT !.task = "failed"]
  BY <1>2, TaskForm, AlikeRooms, Stages DEF Passes, Turns, Turned, Comes, Fails
<1>3. CASE slot.task = "replay" /\ room' = [r EXCEPT !.timer = TRUE] /\ sync' = sy /\ slot' = IdleSlot
  BY <1>3, Blanks, AlikeRooms, Stages DEF Passes, Turns, Turned, Comes, Fails
<1>4. CASE /\ slot.task \in DOMAIN NextStage /\ (ok \/ slot.task = "follow")
           /\ room' = r /\ sync' = sy
           /\ slot' = [Handed(slot.task) EXCEPT !.pc = NextStage[slot.task]]
  <2>1. NextStage[slot.task] \in {"check", "typed", "hold", "release"}
    BY <1>4, Stages
  <2>2. /\ slot' \in Slots /\ Clear(slot') /\ slot'.pc = NextStage[slot.task]
        /\ slot'.task = slot.task
        /\ slot'.item = slot.item /\ slot'.path = slot.path
    <3> DEFINE p == NextStage[slot.task]
               t == slot.task
    <3>1. p \in {"check", "typed", "hold", "release"} /\ t \in DOMAIN NextStage
          /\ slot' = [Handed(t) EXCEPT !.pc = p]
      BY <1>4, <2>1
    <3> HIDE DEF p, t
    <3>2. slot' \in Slots /\ Clear(slot') /\ slot'.pc = p /\ slot'.task = t
          /\ slot'.item = slot.item /\ slot'.path = slot.path
      BY <1>4, <3>1, HandedForm
    <3> QED
      BY <3>2 DEF p, t
  <2>3. Turned(slot, slot')
    BY <1>4, <2>2 DEF Turned
  <2> QED
    BY <1>4, <2>1, <2>2, <2>3, AlikeRooms, Stages DEF Passes, Turns, Comes, Fails
<1>5. CASE slot.task \in DOMAIN NextStage \ {"follow"} /\ SlotFree(r, sy, "replay")
  BY <1>5, FreeForm, Stages DEF Comes, Fails
<1> QED
  BY <1>1, <1>2, <1>3, <1>4, <1>5 DEF SlotReturn

LEMMA RunForm ==
    ASSUME NEW r \in Rooms, sync \in [Syncer -> Syncs], slot \in Slots, RunPersist(r)
    PROVE  \/ Passes(r, sync) /\ ~Busy /\ slot'.task = "persist"
              /\ slot'.pc \in {"stat", "sync"}
           \/ /\ Busy /\ room' \in Rooms /\ Alike(room', r)
              /\ slot' = slot /\ sync' = sync
<1>1. CASE Busy
  BY <1>1, AlikeRooms DEF RunPersist
<1>2. CASE ~Busy
  <2> DEFINE r1 == [r EXCEPT !.again = FALSE]
             s == [IdleSlot EXCEPT !.task = "persist"]
  <2>1. r1 \in Rooms /\ Alike(r1, r)
    BY AlikeRooms
  <2>2. s \in Slots /\ Clear(s) /\ s.task = "persist"
    BY TaskForm
  <2>3. StartPersist(r1, sync, s)
    BY <1>2 DEF RunPersist
  <2> HIDE DEF r1, s
  <2>4. Passes(r1, sync) /\ slot'.task = "persist" /\ slot'.pc \in {"stat", "sync"}
    BY <2>1, <2>2, <2>3, StartForm
  <2>5. Alike(room', r)
    BY <2>1, <2>4, AlikeTrans DEF Passes, Turns
  <2> QED
    BY <1>2, <2>4, <2>5 DEF Passes, Turns
<1> QED
  BY <1>1, <1>2

-----------------------------------------------------------------------------
(* Frames                                                                  *)

\* What frames with the edits e, with a signal or not, make of a room.
Grown(r, r1, e, signalled) ==
    /\ r1 \in Rooms
    /\ r1.key = r.key /\ r1.gone = r.gone /\ r1.saved = r.saved
    /\ r1.base = r.base /\ r1.hash = r.hash /\ r1.seen = r.seen
    /\ r1.hold = r.hold /\ r1.clients = r.clients
    /\ r.items \subseteq r1.items /\ r1.items \ r.items \subseteq Edit \ r.gone
    /\ e \subseteq r1.items \cup r.gone
    /\ r.gen <= r1.gen /\ (r1.gen = r.gen => r1.items = r.items)
    /\ signalled => r1.intent /\ r1.igen = r.igen + 1
    /\ ~signalled => r1.intent = r.intent /\ r1.igen = r.igen

LEMMA RoomUpdate ==
    ASSUME NEW r \in Rooms, NEW items \in Content, NEW gen \in Nat,
           NEW timer \in BOOLEAN, NEW intent \in BOOLEAN, NEW igen \in Nat
    PROVE  [r EXCEPT !.items = items, !.gen = gen, !.timer = timer,
                     !.intent = intent, !.igen = igen] \in Rooms
  BY DEF Rooms

LEMMA MergedForm ==
    ASSUME NEW r \in Rooms, NEW e \in SUBSET Edit, NEW b \in BOOLEAN
    PROVE  Grown(r, Merged(r, e, b), e, b)
<1> DEFINE new == e \ (r.items \cup r.gone)
           n == IF new = {} THEN 0 ELSE 1
           m == IF b THEN 1 ELSE 0
           t == r.timer \/ new # {}
           w == r.intent \/ b
           r1 == Merged(r, e, b)
<1>1. r1 = [r EXCEPT !.items = r.items \cup new, !.gen = r.gen + n, !.timer = t,
                     !.intent = w, !.igen = r.igen + m]
  BY DEF Merged
<1>2. n \in {0, 1} /\ m \in {0, 1} /\ (n = 0 <=> new = {})
  OBVIOUS
<1>3. t \in BOOLEAN /\ w \in BOOLEAN
  OBVIOUS
<1>4. r.items \cup new \in Content
  BY DEF Rooms, Content
<1>5. (b => m = 1 /\ w) /\ (~b => m = 0 /\ w = r.intent)
  <2>1. r.intent \in BOOLEAN
    BY DEF Rooms
  <2> QED
    BY <2>1
<1>6. new \subseteq Edit \ r.gone /\ e \subseteq (r.items \cup new) \cup r.gone
  OBVIOUS
<1> HIDE DEF n, m, t, w, r1, new
<1>7. r1 \in Rooms
  <2>1. r.gen + n \in Nat /\ r.igen + m \in Nat
    BY <1>2 DEF Rooms
  <2> QED
    BY <1>1, <1>3, <1>4, <2>1, RoomUpdate
<1>8. /\ r1.key = r.key /\ r1.gone = r.gone /\ r1.saved = r.saved
      /\ r1.base = r.base /\ r1.hash = r.hash /\ r1.seen = r.seen
      /\ r1.hold = r.hold /\ r1.clients = r.clients
  BY <1>1 DEF Rooms
<1>9. /\ r1.items = r.items \cup new /\ r1.gen = r.gen + n /\ r1.intent = w
      /\ r1.igen = r.igen + m
  BY <1>1 DEF Rooms
<1>10. r.gen \in Nat /\ r.igen \in Nat
  BY DEF Rooms
<1>11. r.items \subseteq r1.items /\ r1.items \ r.items \subseteq Edit \ r.gone
       /\ e \subseteq r1.items \cup r.gone
  BY <1>6, <1>9
<1>12. r.gen <= r1.gen /\ (r1.gen = r.gen => r1.items = r.items)
  BY <1>2, <1>9, <1>10
<1>13. b => r1.intent /\ r1.igen = r.igen + 1
  BY <1>5, <1>9
<1>14. ~b => r1.intent = r.intent /\ r1.igen = r.igen
  BY <1>5, <1>9, <1>10
<1> QED
  BY <1>7, <1>8, <1>11, <1>12, <1>13, <1>14 DEF Grown, r1

\* Frames are applied from the head of a queue, and the rest of it waits.
LEMMA Counted ==
    ASSUME NEW n \in Nat, NEW S \in SUBSET (1 .. n)
    PROVE  Cardinality(S) \in 0 .. n /\ Cardinality(1 .. n) = n
<1>1. IsFiniteSet(1 .. n) /\ Cardinality(1 .. n) = IF 1 > n THEN 0 ELSE n - 1 + 1
  BY FS_Interval
<1>2. Cardinality(1 .. n) = n
  BY <1>1
<1>3. IsFiniteSet(S) /\ Cardinality(S) <= Cardinality(1 .. n)
  BY <1>1, FS_Subset
<1>4. Cardinality(S) \in Nat
  BY <1>3, FS_CardinalityType
<1> QED
  BY <1>2, <1>3, <1>4

LEMMA Passed ==
    ASSUME NEW r, NEW paused, NEW fs \in Seq(Frames)
    PROVE  /\ Passing(r, paused, fs) \in 0 .. Len(fs)
           /\ (\A f \in Frames : ~Held(r, paused, f)) => Passing(r, paused, fs) = Len(fs)
<1> DEFINE free == {i \in DOMAIN fs : ~Held(r, paused, fs[i])}
<1>1. DOMAIN fs = 1 .. Len(fs) /\ Len(fs) \in Nat
  OBVIOUS
<1>2. free \in SUBSET (1 .. Len(fs)) /\ Passing(r, paused, fs) = Cardinality(free)
  BY <1>1 DEF Passing
<1>3. (\A f \in Frames : ~Held(r, paused, f)) => free = 1 .. Len(fs)
  OBVIOUS
<1> HIDE DEF free
<1> QED
  BY <1>1, <1>2, <1>3, Counted

\* Bodies of frames: a sequence or a function of sets of edits.
LEMMA Bodies ==
    ASSUME NEW r \in Rooms, NEW bodies, \A i \in DOMAIN bodies : bodies[i] \in SUBSET Edit,
           \A i \in DOMAIN bodies : i \in Nat /\ 1 .. i \subseteq DOMAIN bodies
    PROVE  /\ Edits(bodies) \in SUBSET Edit /\ Signalled(bodies) \in BOOLEAN
           /\ Announced(r, bodies) \in SUBSET Edit
           /\ Announced(r, bodies) \subseteq r.items \cup Edits(bodies)
           /\ ~Signalled(bodies) => Announced(r, bodies) = {}
<1>1. Edits(bodies) \in SUBSET Edit /\ Signalled(bodies) \in BOOLEAN
  BY DEF Edits, Signalled
<1>2. \A e \in Announced(r, bodies) : e \in Edit /\ e \in r.items \cup Edits(bodies)
  <2>1. TAKE e \in Announced(r, bodies)
  <2>2. PICK i \in DOMAIN bodies : e \in r.items \cup UNION {bodies[j] : j \in 1 .. i}
    BY <2>1 DEF Announced
  <2> QED
    <3>1. CASE e \in r.items
      BY <2>1, <3>1 DEF Announced
    <3>2. ASSUME NEW j \in 1 .. i, e \in bodies[j]
          PROVE  e \in Edit /\ e \in Edits(bodies)
      <4>1. j \in DOMAIN bodies
        OBVIOUS
      <4> QED
        BY <3>2, <4>1 DEF Edits
    <3> QED
      BY <2>2, <3>1, <3>2
<1>3. ~Signalled(bodies) => Announced(r, bodies) = {}
  BY DEF Signalled, Announced
<1> QED
  BY <1>1, <1>2, <1>3

LEMMA QueueForm ==
    ASSUME NEW r \in Rooms, NEW paused \in BOOLEAN, NEW fs \in Seq(Frames)
    PROVE  /\ \A i \in DOMAIN Ready(r, paused, fs) :
                /\ Ready(r, paused, fs)[i] \in SUBSET Edit
                /\ i \in Nat /\ 1 .. i \subseteq DOMAIN Ready(r, paused, fs)
           /\ Waiting(r, paused, fs) \in Seq(Frames)
           /\ Len(Waiting(r, paused, fs)) <= Len(fs)
           /\ ~paused /\ ~r.hold => Waiting(r, paused, fs) = <<>>
<1> DEFINE n == Passing(r, paused, fs)
<1>1. n \in 0 .. Len(fs) /\ DOMAIN fs = 1 .. Len(fs) /\ Len(fs) \in Nat
      /\ \A i \in 1 .. Len(fs) : fs[i] \in Frames
  BY Passed
<1>2. ~paused /\ ~r.hold => n = Len(fs)
  <2>1. ~paused /\ ~r.hold => \A f \in Frames : ~Held(r, paused, f)
    BY DEF Held
  <2> QED
    BY <2>1, Passed
<1>3. /\ Ready(r, paused, fs) = [i \in 1 .. n |-> fs[i].body]
      /\ Waiting(r, paused, fs) = SubSeq(fs, n + 1, Len(fs))
  BY DEF Ready, Waiting
<1> HIDE DEF n
<1>4. \A i \in 1 .. n : fs[i].body \in SUBSET Edit
  BY <1>1 DEF Frames
<1>5. SubSeq(fs, n + 1, Len(fs)) \in Seq(Frames)
      /\ Len(SubSeq(fs, n + 1, Len(fs))) <= Len(fs)
  BY <1>1
<1>6. n = Len(fs) => SubSeq(fs, n + 1, Len(fs)) = <<>>
  BY <1>1
<1> QED
  <2>1. \A i \in DOMAIN Ready(r, paused, fs) :
            /\ Ready(r, paused, fs)[i] \in SUBSET Edit
            /\ i \in Nat /\ 1 .. i \subseteq DOMAIN Ready(r, paused, fs)
    <3>1. n \in Nat
      BY <1>1
    <3> QED
      BY <1>3, <1>4, <3>1
  <2> QED
    BY <1>2, <1>3, <1>5, <1>6, <2>1

\* The frames of a pause that was lifted.
ReplayedEdits(r, paused) ==
    UNION {Edits(AllReady(r, paused)[c]) : c \in DOMAIN AllReady(r, paused)}
ReplayedSignal(r, paused) ==
    \E c \in DOMAIN AllReady(r, paused) : Signalled(AllReady(r, paused)[c])

LEMMA ReplayForm ==
    ASSUME NEW r \in Rooms, NEW paused \in BOOLEAN, ClientTypes
    PROVE  /\ ReplayedEdits(r, paused) \in SUBSET Edit
           /\ ReplayedSignal(r, paused) \in BOOLEAN
           /\ Grown(r, Replayed(r, paused), ReplayedEdits(r, paused),
                    ReplayedSignal(r, paused))
           /\ ToldBy(r, paused) \in SUBSET Edit
           /\ ToldBy(r, paused) \subseteq r.items \cup ReplayedEdits(r, paused)
           /\ ~ReplayedSignal(r, paused) => ToldBy(r, paused) = {}
<1> DEFINE ready == AllReady(r, paused)
           on == {d \in Client : conn[d] = "on"}
<1>1. DOMAIN ready = on /\ \A c \in on : ready[c] = Ready(r, paused, queue[c])
  BY DEF AllReady
<1>2. \A c \in on : queue[c] \in Seq(Frames)
  BY DEF ClientTypes
<1> HIDE DEF ready
<1>3. \A c \in on : /\ Edits(ready[c]) \in SUBSET Edit
                    /\ Announced(r, ready[c]) \in SUBSET Edit
                    /\ Announced(r, ready[c]) \subseteq r.items \cup Edits(ready[c])
                    /\ ~Signalled(ready[c]) => Announced(r, ready[c]) = {}
  <2>1. TAKE c \in on
  <2>2. \A i \in DOMAIN ready[c] : /\ ready[c][i] \in SUBSET Edit
                                   /\ i \in Nat /\ 1 .. i \subseteq DOMAIN ready[c]
    BY <1>1, <1>2, QueueForm
  <2> QED
    BY <2>2, Bodies
<1>4. ReplayedEdits(r, paused) \in SUBSET Edit
      /\ ReplayedSignal(r, paused) \in BOOLEAN
  BY <1>1, <1>3 DEF ReplayedEdits, ReplayedSignal, ready
<1>5. Replayed(r, paused)
        = Merged(r, ReplayedEdits(r, paused), ReplayedSignal(r, paused))
  BY DEF Replayed, ReplayedEdits, ReplayedSignal
<1>6. ToldBy(r, paused) = UNION {Announced(r, ready[c]) : c \in on}
  BY <1>1 DEF ToldBy, ready
<1>7. ReplayedEdits(r, paused) = UNION {Edits(ready[c]) : c \in on}
      /\ (ReplayedSignal(r, paused) <=> \E c \in on : Signalled(ready[c]))
  BY <1>1 DEF ReplayedEdits, ReplayedSignal, ready
<1> QED
  BY <1>3, <1>4, <1>5, <1>6, <1>7, MergedForm


-----------------------------------------------------------------------------
(* Sound states                                                            *)

\* What the stages of the slot carry with them.
Shape ==
  /\ slot.pc = "idle" => slot.task \in {"none", "failed"} /\ Clear(slot)
  /\ slot.pc \in Saving => slot.task \in {"persist", "replay", "typed"} /\ slot.key \in Place
  /\ slot.pc = "sync" => slot.task \in {"persist", "replay"} \cup DOMAIN NextStage
  /\ slot.pc \in {"check", "typed", "hold"} \cup Handing => slot.task \in DOMAIN NextStage
  /\ slot.task \in DOMAIN NextStage => slot.item \in Agent /\ slot.path \in Place
  /\ slot.pc \in {"compare", "settle", "write", "state"} => slot.prov \in Versions
  /\ slot.pc \in {"settle", "land", "store"} => slot.state \in States
  /\ slot.pc = "commit" => slot.key = slot.path
  /\ \A w \in Syncer : sync[w].pc = "cache" => sync[w].state \in States
  /\ Loaded => slot.gen <= room.gen /\ slot.igen <= room.igen /\ load.pc = "idle"
  /\ ~Loaded => \A c \in Client : conn[c] \notin {"joining", "on"}

Sound == TypeOK /\ Shape

-----------------------------------------------------------------------------
(* What the steps do to the room and the slot                              *)

\* The room's content grows by accepted frames, or stays.
Grows ==
    /\ Loaded /\ Loaded' /\ room' \in Rooms
    /\ room'.gone = room.gone
    /\ room.items \subseteq room'.items
    /\ room'.items \ room.items \subseteq Edit \ room.gone
    /\ room.gen <= room'.gen
    /\ room'.gen = room.gen => room'.items = room.items
    /\ told' \in SUBSET Edit /\ told' \subseteq told \cup room'.items \cup room.gone
    /\ \/ room'.intent /\ room'.igen = room.igen + 1
       \/ /\ room'.intent = room.intent /\ room'.igen = room.igen
          /\ told' = told

\* What the room takes for the disk's stays.
Rests == /\ room'.base = room.base /\ room'.hash = room.hash
         /\ room'.seen = room.seen

Working == {"export", "compare", "settle", "write", "record", "state", "land",
            "commit", "adopt", "store"}

\* The slot is at a stage that has nothing to write or to store.
Lays == /\ slot' \in Slots /\ slot'.pc \notin Working
        /\ slot'.prov \in {None, slot.prov} /\ slot'.made \in {None, slot.made}
        /\ slot'.known \in {None, slot.known} /\ slot'.blocks \in {{}, slot.blocks}
        /\ slot'.stat \in {0, slot.stat} /\ slot'.gen \in {0, slot.gen}
        /\ slot'.igen \in {0, slot.igen}

LEMMA AlikeGrows ==
    ASSUME Sound, Loaded, room' \in Rooms, Alike(room', room), told' = told
    PROVE  Grows /\ Rests
<1>1. room \in Rooms /\ told \in SUBSET Edit /\ Loaded'
  BY NoneAssumption DEF Sound, TypeOK, RoomTypes, GhostTypes, Loaded
<1>2. room.gen \in Nat /\ room'.gen \in Nat
  BY <1>1 DEF Rooms
<1> QED
  BY <1>1, <1>2 DEF Grows, Rests, Alike

LEMMA PassesLays ==
    ASSUME NEW r, NEW sy, Passes(r, sy)
    PROVE  Lays
<1>1. slot' \in Slots /\ Clear(slot') /\ Turned(slot, slot')
  BY DEF Passes, Turns
<1>2. slot'.pc \notin Working
  BY <1>1, Stages DEF Turned, Working
<1> QED
  BY <1>1, <1>2 DEF Lays, Clear

Stage == {"idle", "sync", "check", "typed", "hold"} \cup Saving \cup Handing
Task  == {"none", "failed", "persist", "replay"} \cup DOMAIN NextStage

\* Slots that differ in their stage and task.
Carries(s, t) ==
    /\ t.key = s.key /\ t.stat = s.stat /\ t.blocks = s.blocks /\ t.known = s.known
    /\ t.gen = s.gen /\ t.had = s.had /\ t.igen = s.igen /\ t.prov = s.prov
    /\ t.made = s.made /\ t.hash = s.hash /\ t.state = s.state /\ t.item = s.item
    /\ t.path = s.path

LEMMA SlotTo ==
    ASSUME NEW s \in Slots, NEW p \in Stage, NEW t, t = [s EXCEPT !.pc = p]
    PROVE  t \in Slots /\ t.pc = p /\ t.task = s.task /\ Carries(s, t)
<1>1. t \in Slots
  BY DEF Slots, Stage
<1>2. t.pc = p /\ t.task = s.task
  BY DEF Slots
<1>3. Carries(s, t)
  BY DEF Slots, Carries
<1> QED
  BY <1>1, <1>2, <1>3

LEMMA SlotToTask ==
    ASSUME NEW s \in Slots, NEW p \in Stage, NEW k \in Task,
           NEW t, t = [s EXCEPT !.pc = p, !.task = k]
    PROVE  t \in Slots /\ t.pc = p /\ t.task = k /\ Carries(s, t)
<1>1. t \in Slots
  BY DEF Slots, Stage, Task
<1>2. t.pc = p /\ t.task = k
  BY DEF Slots
<1>3. Carries(s, t)
  BY DEF Slots, Carries
<1> QED
  BY <1>1, <1>2, <1>3

LEMMA CarriesLays ==
    ASSUME slot' \in Slots, slot'.pc \notin Working, Carries(slot, slot')
    PROVE  Lays
  BY DEF Lays, Carries

\* The slot's stages ask for a room.
LEMMA BusyLoaded ==
    ASSUME Sound
    PROVE  /\ Busy => Loaded
           /\ room \in Rooms <=> Loaded
           /\ slot \in Slots /\ sync \in [Syncer -> Syncs]
           /\ sync["slot"].pc # "idle" => Busy
           /\ slot.pc = "sync" <=> sync["slot"].pc # "idle"
  BY NoneAssumption DEF Sound, TypeOK, RoomFits, RoomTypes, Busy, Loaded

\* A sync ends.
LEMMA DoneForm ==
    ASSUME Sound, NEW w \in Syncer, sync[w].pc # "idle", NEW r, NEW ok \in BOOLEAN,
           NEW sy \in [Syncer -> Syncs], SyncDone(w, r, sy, ok),
           IF Loaded THEN r \in Rooms ELSE r = None
    PROVE  /\ \/ /\ w = "slot" /\ Loaded /\ slot.pc = "sync" /\ Passes(r, sy)
                 /\ Comes /\ (~ok => Fails)
              \/ w = "watcher" /\ room' = r /\ sync' = sy /\ slot' = slot
           /\ pending' \in {None, pending}
<1>1. CASE w = "slot"
  <2>1. Loaded /\ slot.pc = "sync" /\ slot \in Slots /\ r \in Rooms
    BY <1>1, BusyLoaded
  <2>2. SlotReturn(r, sy, ok) /\ pending' = pending
    BY <1>1 DEF SyncDone
  <2> QED
    BY <1>1, <2>1, <2>2, ReturnForm
<1>2. CASE w = "watcher"
  BY <1>2 DEF SyncDone
<1> QED
  BY <1>1, <1>2 DEF Syncer

LEMMA NotOwedForm ==
    ASSUME Sound
    PROVE  IF Loaded THEN NotOwed(room) \in Rooms /\ Alike(NotOwed(room), room)
                     ELSE NotOwed(room) = None
  BY BusyLoaded, AlikeRooms DEF NotOwed, Loaded

-----------------------------------------------------------------------------
(* The steps of clients                                                    *)

\* The same room for the slot and for a move.
Follows == /\ Grows /\ Rests
           /\ room'.key = room.key /\ room'.saved = room.saved
           /\ room'.hold = room.hold

\* Rooms with the same content that stand on the same disk.
Copy(a, b) ==
    /\ a.items = b.items /\ a.gone = b.gone /\ a.gen = b.gen /\ a.saved = b.saved
    /\ a.intent = b.intent /\ a.igen = b.igen /\ a.base = b.base
    /\ a.hash = b.hash /\ a.seen = b.seen /\ a.key = b.key

LEMMA GrownGrows ==
    ASSUME Sound, Loaded, NEW r \in Rooms, Copy(r, room),
           NEW e \in SUBSET Edit, NEW b \in BOOLEAN, NEW q, Grown(r, q, e, b),
           room' \in Rooms, Alike(room', q),
           NEW news \in SUBSET Edit, told' = told \cup news,
           news \subseteq r.items \cup e, ~b => news = {}
    PROVE  /\ Grows /\ Rests /\ room'.key = room.key /\ room'.saved = room.saved
           /\ room'.hold = r.hold /\ room'.clients = r.clients
<1>1. told \in SUBSET Edit /\ Loaded'
  BY NoneAssumption DEF Sound, TypeOK, GhostTypes, Loaded
<1>2. /\ room'.gone = room.gone
      /\ room.items \subseteq room'.items
      /\ room'.items \ room.items \subseteq Edit \ room.gone
      /\ room.gen <= room'.gen
      /\ room'.gen = room.gen => room'.items = room.items
      /\ e \subseteq room'.items \cup room.gone
  BY DEF Grown, Alike, Copy
<1>3. told' \in SUBSET Edit /\ told' \subseteq told \cup room'.items \cup room.gone
  BY <1>1, <1>2 DEF Copy
<1>4. \/ room'.intent /\ room'.igen = room.igen + 1
      \/ /\ room'.intent = room.intent /\ room'.igen = room.igen
         /\ told' = told
  BY DEF Grown, Alike, Copy
<1>5. /\ Rests /\ room'.key = room.key /\ room'.saved = room.saved
      /\ room'.hold = r.hold /\ room'.clients = r.clients
  BY DEF Grown, Alike, Copy, Rests
<1> QED
  BY <1>1, <1>2, <1>3, <1>4, <1>5 DEF Grows

LEMMA SameRoom ==
    ASSUME Sound, Loaded, room' = room, told' = told
    PROVE  Follows /\ room'.clients = room.clients
<1>1. Alike(room', room) /\ room' \in Rooms
  BY BusyLoaded DEF Alike
<1> QED
  BY <1>1, AlikeGrows DEF Follows, Alike

LEMMA AttachForm ==
    ASSUME Sound, NEW c \in Client, Attach(c)
    PROVE  Follows /\ room'.clients = room.clients \cup {c}
<1>1. Loaded /\ room \in Rooms
  <2>1. conn[c] = "joining"
    BY DEF Attach
  <2> QED
    BY <2>1, BusyLoaded DEF Sound, Shape
<1> DEFINE b == FALSE
           r == [room EXCEPT !.clients = @ \cup {c}, !.idle = FALSE]
           bodies == Ready(r, Paused, queue[c])
<1>2. r \in Rooms /\ Copy(r, room) /\ r.clients = room.clients \cup {c}
      /\ r.hold = room.hold
  <2>1. room.clients \cup {c} \in SUBSET Client
    BY <1>1 DEF Rooms
  <2>2. r = [room EXCEPT !.clients = room.clients \cup {c}, !.idle = FALSE]
    OBVIOUS
  <2> HIDE DEF r
  <2> QED
    BY <1>1, <2>1, <2>2 DEF Rooms, Copy
<1>3. room' = Applied(r, bodies) /\ told' = told \cup Announced(r, bodies)
  BY DEF Attach
<1> HIDE DEF r
<1>4. /\ \A i \in DOMAIN bodies : bodies[i] \in SUBSET Edit
      /\ \A i \in DOMAIN bodies : i \in Nat /\ 1 .. i \subseteq DOMAIN bodies
  <2>1. queue[c] \in Seq(Frames) /\ Paused \in BOOLEAN
    BY DEF Sound, TypeOK, ClientTypes, Paused
  <2> QED
    BY <1>2, <2>1, QueueForm
<1> HIDE DEF bodies
<1>5. /\ Edits(bodies) \in SUBSET Edit /\ Signalled(bodies) \in BOOLEAN
      /\ Announced(r, bodies) \in SUBSET Edit
      /\ Announced(r, bodies) \subseteq r.items \cup Edits(bodies)
      /\ ~Signalled(bodies) => Announced(r, bodies) = {}
  BY <1>2, <1>4, Bodies
<1>6. Grown(r, room', Edits(bodies), Signalled(bodies))
  BY <1>2, <1>3, <1>5, MergedForm DEF Applied
<1>7. room' \in Rooms /\ Alike(room', room')
  BY <1>6 DEF Grown, Alike
<1> QED
  BY <1>1, <1>2, <1>3, <1>5, <1>6, <1>7, GrownGrows DEF Follows

LEMMA DetachedForm ==
    ASSUME Sound, NEW c \in Client, Detached(c, room), told' = told
    PROVE  IF Loaded THEN Follows /\ room'.clients = room.clients \ {c}
                     ELSE room' = None
<1>1. CASE Loaded
  <2>1. room \in Rooms /\ told \in SUBSET Edit
    BY <1>1, BusyLoaded DEF Sound, TypeOK, GhostTypes
  <2> DEFINE b == room.idle \/ room.clients \subseteq {c}
  <2>2. room' = [room EXCEPT !.clients = room.clients \ {c}, !.idle = b]
    BY <1>1 DEF Detached, Loaded
  <2>3. b \in BOOLEAN /\ room.clients \ {c} \in SUBSET Client
    BY <2>1 DEF Rooms
  <2> HIDE DEF b
  <2>4. /\ room' \in Rooms /\ Copy(room', room)
        /\ room'.clients = room.clients \ {c} /\ room'.hold = room.hold
    BY <2>1, <2>2, <2>3 DEF Rooms, Copy
  <2>5. room.gen \in Nat /\ Loaded'
    BY <2>1, <2>4, NoneAssumption DEF Rooms, Loaded
  <2> QED
    BY <1>1, <2>1, <2>4, <2>5 DEF Follows, Grows, Rests, Copy
<1>2. CASE ~Loaded
  BY <1>2 DEF Loaded, Detached
<1> QED
  BY <1>1, <1>2

LEMMA ReceiveForm ==
    ASSUME Sound, NEW c \in Client, Receive(c)
    PROVE  \/ Follows /\ room'.clients = room.clients /\ conn' = conn
           \/ room' = room /\ told' = told /\ conn' = conn
           \/ Detached(c, room) /\ told' = told
<1> DEFINE f == [body |-> Head(out[c]), early |-> FALSE, before |-> FALSE]
           bodies == <<f.body>>
<1>1. CASE /\ conn[c] = "on" /\ conn' = conn
           /\ room' = Applied(room, bodies)
           /\ told' = told \cup Announced(room, bodies)
  <2>1. Loaded /\ room \in Rooms
    BY <1>1, BusyLoaded DEF Sound, Shape
  <2>2. f.body \in SUBSET Edit
    <3>1. out[c] \in Seq(SUBSET Edit) /\ out[c] # <<>>
      BY DEF Sound, TypeOK, ClientTypes, Receive
    <3> QED
      BY <3>1
  <2>3. /\ \A i \in DOMAIN bodies : bodies[i] \in SUBSET Edit
        /\ \A i \in DOMAIN bodies : i \in Nat /\ 1 .. i \subseteq DOMAIN bodies
    <3>1. DOMAIN bodies = 1 .. 1 /\ bodies[1] = f.body
      OBVIOUS
    <3> HIDE DEF bodies, f
    <3> QED
      BY <2>2, <3>1
  <2> HIDE DEF bodies
  <2>4. /\ Edits(bodies) \in SUBSET Edit /\ Signalled(bodies) \in BOOLEAN
        /\ Announced(room, bodies) \in SUBSET Edit
        /\ Announced(room, bodies) \subseteq room.items \cup Edits(bodies)
        /\ ~Signalled(bodies) => Announced(room, bodies) = {}
    BY <2>1, <2>3, Bodies
  <2>5. Grown(room, room', Edits(bodies), Signalled(bodies))
    BY <1>1, <2>1, <2>4, MergedForm DEF Applied
  <2>6. room' \in Rooms /\ Alike(room', room') /\ Copy(room, room)
    BY <2>5 DEF Grown, Alike, Copy
  <2> QED
    BY <1>1, <2>1, <2>4, <2>5, <2>6, GrownGrows DEF Follows
<1>2. CASE room' = room /\ told' = told /\ conn' = conn
  BY <1>2
<1>3. CASE Detached(c, room) /\ told' = told
  BY <1>3
<1> QED
  BY <1>1, <1>2, <1>3 DEF Receive

\* A step of the slot alone, and of the syncs it starts.
Runs == \/ slot' = slot /\ sync' = sync
        \/ /\ ~Busy /\ Turns(sync) /\ slot'.task = "persist"
           /\ slot'.pc \in {"stat", "sync"}

LEMMA AlikeFollows ==
    ASSUME Sound, Loaded, told' = told, NEW r \in Rooms, Alike(r, room),
           room' \in Rooms, Alike(room', r)
    PROVE  Follows /\ room'.clients = room.clients
<1>1. Alike(room', room)
  BY AlikeTrans
<1> QED
  BY <1>1, AlikeGrows DEF Follows, Alike

LEMMA RunStep ==
    ASSUME Sound, Loaded, told' = told, NEW r \in Rooms, Alike(r, room),
           RunPersist(r)
    PROVE  Follows /\ room'.clients = room.clients /\ Runs
<1>1. \/ Passes(r, sync) /\ ~Busy /\ slot'.task = "persist"
         /\ slot'.pc \in {"stat", "sync"}
      \/ /\ Busy /\ room' \in Rooms /\ Alike(room', r)
         /\ slot' = slot /\ sync' = sync
  BY BusyLoaded, RunForm
<1> QED
  BY <1>1, AlikeFollows DEF Passes, Runs

LEMMA RunSteps ==
    ASSUME Sound, PersistTimer \/ UnloadBegin \/ BarrierDrain
    PROVE  IF Loaded THEN Follows /\ room'.clients = room.clients /\ Runs
           ELSE room' = None /\ told' = told /\ slot' = slot /\ sync' = sync
<1>1. told' = told
  BY DEF PersistTimer, UnloadBegin, BarrierDrain, ghostVars
<1>2. CASE Loaded
  <2>1. room \in Rooms /\ [room EXCEPT !.timer = FALSE] \in Rooms
        /\ Alike([room EXCEPT !.timer = FALSE], room)
        /\ [room EXCEPT !.idle = FALSE] \in Rooms
        /\ Alike([room EXCEPT !.idle = FALSE], room)
    BY <1>2, BusyLoaded, AlikeRooms
  <2>2. RunPersist([room EXCEPT !.timer = FALSE])
        \/ RunPersist([room EXCEPT !.idle = FALSE])
    BY <1>2 DEF PersistTimer, UnloadBegin, BarrierDrain
  <2> QED
    BY <1>1, <1>2, <2>1, <2>2, RunStep
<1>3. CASE ~Loaded
  BY <1>1, <1>3 DEF PersistTimer, UnloadBegin, BarrierDrain, Loaded
<1> QED
  BY <1>2, <1>3

LEMMA BarrierEndForm ==
    ASSUME Sound, BarrierEnd
    PROVE  IF Loaded THEN Follows /\ room'.clients = room.clients
                     ELSE room' = None /\ told' = told
<1>1. CASE Loaded
  <2>1. room \in Rooms /\ Copy(room, room) /\ ClientTypes
    BY <1>1, BusyLoaded DEF Copy, Sound, TypeOK
  <2>2. room' = Replayed(room, FALSE) /\ told' = told \cup ToldBy(room, FALSE)
    BY <1>1 DEF BarrierEnd
  <2> DEFINE e == ReplayedEdits(room, FALSE)
             b == ReplayedSignal(room, FALSE)
  <2>3. /\ Grown(room, room', e, b)
        /\ ToldBy(room, FALSE) \in SUBSET Edit
        /\ ToldBy(room, FALSE) \subseteq room.items \cup e
        /\ ~b => ToldBy(room, FALSE) = {}
    BY <2>1, <2>2, ReplayForm
  <2>4. e \in SUBSET Edit /\ b \in BOOLEAN
    BY <2>1, ReplayForm
  <2>5. room' \in Rooms /\ Alike(room', room')
    BY <2>3 DEF Grown, Alike
  <2> HIDE DEF e, b
  <2> QED
    BY <1>1, <2>1, <2>2, <2>3, <2>4, <2>5, GrownGrows DEF Follows
<1>2. CASE ~Loaded
  BY <1>2 DEF BarrierEnd, Loaded
<1> QED
  BY <1>1, <1>2

LEMMA AgentReleaseForm ==
    ASSUME Sound, AgentRelease
    PROVE  /\ Grows /\ Rests /\ room'.key = room.key /\ room'.saved = room.saved
           /\ room'.hold = FALSE /\ room'.clients = room.clients
           /\ Turns(sync) /\ slot'.task \in {"none", "persist", "replay"}
           /\ slot'.pc \in {"idle", "stat", "sync"}
<1> DEFINE r == [room EXCEPT !.hold = FALSE]
           e == ReplayedEdits(r, Paused)
           b == ReplayedSignal(r, Paused)
           news == ToldBy(r, Paused)
           q == Replayed(r, Paused)
<1>1. Loaded /\ room \in Rooms /\ sync \in [Syncer -> Syncs] /\ ClientTypes
  BY BusyLoaded DEF AgentRelease, Busy, Sound, TypeOK
<1>2. r \in Rooms /\ Copy(r, room) /\ r.clients = room.clients /\ r.hold = FALSE
  BY <1>1 DEF Rooms, Copy
<1>3. SlotFree(q, sync, "replay") /\ told' = told \cup news
  BY DEF AgentRelease
<1> HIDE DEF r
<1>4. /\ Grown(r, q, e, b) /\ news \in SUBSET Edit
      /\ news \subseteq r.items \cup e /\ (~b => news = {})
      /\ e \in SUBSET Edit /\ b \in BOOLEAN
  <2>1. Paused \in BOOLEAN
    BY DEF Paused
  <2> QED
    BY <1>1, <1>2, <2>1, ReplayForm
<1> HIDE DEF e, b, news, q
<1>5. q \in Rooms
  BY <1>4 DEF Grown
<1>6. /\ Passes(q, sync) /\ slot'.task \in {"none", "persist", "replay"}
      /\ slot'.pc \in {"idle", "stat", "sync"}
  BY <1>1, <1>3, <1>5, FreeForm
<1>7. room' \in Rooms /\ Alike(room', q) /\ Turns(sync)
  BY <1>6 DEF Passes
<1>8. /\ Grows /\ Rests /\ room'.key = room.key /\ room'.saved = room.saved
      /\ room'.hold = r.hold /\ room'.clients = r.clients
  BY <1>1, <1>2, <1>3, <1>4, <1>7, GrownGrows
<1> QED
  BY <1>2, <1>6, <1>7, <1>8

-----------------------------------------------------------------------------
(* The steps of a save                                                     *)

\* The slot waits for a sync of the disk to the room r.
Resyncs(r, task) ==
    /\ slot' \in Slots /\ slot'.pc = "sync" /\ slot'.task = task
    /\ Carries(slot, slot')
    /\ sync' \in [Syncer -> Syncs] /\ sync'["watcher"] = sync["watcher"]
    /\ sync'["slot"].pc = "read" /\ sync'["slot"].items = {}
    /\ sync'["slot"].key = r.key /\ sync'["slot"].token = None

LEMMA ResyncForm ==
    ASSUME Sound, NEW r \in Rooms, NEW task \in Task,
           \/ slot' = [slot EXCEPT !.pc = "sync"] /\ task = slot.task
           \/ slot' = [slot EXCEPT !.pc = "sync", !.task = task],
           sync' = [sync EXCEPT !["slot"] = SyncOf(r, None)]
    PROVE  Resyncs(r, task)
<1>1. slot \in Slots /\ sync \in [Syncer -> Syncs] /\ "sync" \in Stage
  BY BusyLoaded DEF Stage
<1>2. /\ slot' \in Slots /\ slot'.pc = "sync" /\ slot'.task = task
      /\ Carries(slot, slot')
  <2>1. CASE slot' = [slot EXCEPT !.pc = "sync"] /\ task = slot.task
    BY <1>1, <2>1, SlotTo
  <2>2. CASE slot' = [slot EXCEPT !.pc = "sync", !.task = task]
    <3>1. slot' \in Slots
      BY <1>1, <2>2 DEF Slots, Stage, Task
    <3>2. slot'.pc = "sync" /\ slot'.task = task
      BY <1>1, <2>2 DEF Slots
    <3>3. Carries(slot, slot')
      BY <1>1, <2>2 DEF Slots, Carries
    <3> QED
      BY <3>1, <3>2, <3>3
  <2> QED
    BY <2>1, <2>2
<1>3. /\ SyncOf(r, None) \in Syncs /\ SyncOf(r, None).pc = "read"
      /\ SyncOf(r, None).items = {} /\ SyncOf(r, None).key = r.key
      /\ SyncOf(r, None).token = None
  BY SyncOfForm
<1>4. sync' \in [Syncer -> Syncs] /\ sync'["watcher"] = sync["watcher"]
      /\ sync'["slot"] = SyncOf(r, None)
  BY <1>1, <1>3 DEF Syncer
<1> QED
  BY <1>2, <1>3, <1>4 DEF Resyncs

\* A save or a sync is over, and the room is r.
Returns == Turns(sync) /\ Comes

LEMMA SlotTask ==
    ASSUME Sound
    PROVE  slot.task \in Task /\ slot.pc \in Stage /\ slot.stat \in Nat
           /\ slot.gen \in Nat /\ slot.igen \in Nat /\ slot.blocks \in Content
           /\ file.stamp \in Nat /\ file.items \in Content /\ file.path \in Place
  BY BusyLoaded DEF Slots, Task, Stage, Sound, TypeOK, DocTypes

LEMMA StatForm ==
    ASSUME Sound, PersistStat
    PROVE  /\ Follows /\ room'.clients = room.clients
           /\ \/ Resyncs(room, slot.task) /\ collided' = collided
              \/ Returns /\ collided' = collided
              \/ /\ sync' = sync /\ slot' \in Slots /\ slot'.pc = "export"
                 /\ slot'.task = slot.task /\ slot'.key = slot.key
                 /\ slot'.item = slot.item /\ slot'.path = slot.path
                 /\ slot'.blocks = slot.blocks /\ slot'.gen = slot.gen
                 /\ slot'.igen = slot.igen /\ slot'.prov = slot.prov
                 /\ slot'.made = slot.made
                 /\ slot'.stat \in {0, file.stamp}
                 /\ \/ slot'.known = None
                    \/ room.seen # None /\ slot'.known = room.seen.items
                 /\ ~collided' => /\ ~collided
                                  /\ slot'.stat # 0 => file.stamp <= room.base
<1>1. /\ Loaded /\ room \in Rooms /\ slot \in Slots /\ sync \in [Syncer -> Syncs]
      /\ told' = told
  BY BusyLoaded DEF PersistStat, Busy
<1> DEFINE found == file.path = slot.key
           later == found /\ file.stamp > room.base
           stat == IF found THEN file.stamp ELSE 0
           known == IF found /\ room.seen # None /\ room.seen.stamp = file.stamp
                    THEN room.seen.items ELSE None
<1>2. CASE /\ slot' = [slot EXCEPT !.pc = "sync"] /\ room' = room
           /\ sync' = [sync EXCEPT !["slot"] = SyncOf(room, None)]
           /\ collided' = collided
  <2>1. Resyncs(room, slot.task)
    BY <1>1, <1>2, SlotTask, ResyncForm
  <2> QED
    BY <1>1, <1>2, <2>1, SameRoom
<1>3. CASE SlotReturn(room, sync, TRUE) /\ collided' = collided
  <2>1. /\ Passes(room, sync)
        /\ Comes
    BY <1>1, <1>3, ReturnForm
  <2>2. Alike(room, room)
    BY DEF Alike
  <2> QED
    BY <1>1, <1>3, <2>1, <2>2, AlikeFollows DEF Passes, Returns
<1>4. CASE /\ slot' = [slot EXCEPT !.pc = "export", !.stat = stat, !.known = known]
           /\ collided' = (collided \/ later)
           /\ room' = room /\ sync' = sync
  <2>1. stat \in Nat /\ stat \in {0, file.stamp} /\ (stat # 0 => found)
    BY SlotTask
  <2>2. known \in Content \cup {None}
        /\ (known = None \/ (room.seen # None /\ known = room.seen.items))
    BY <1>1 DEF Rooms, Glimpses
  <2>3. ~collided' => ~collided /\ (stat # 0 => file.stamp <= room.base)
    <3>1. file.stamp \in Nat /\ room.base \in Nat
      BY <1>1, SlotTask DEF Rooms
    <3>2. stat # 0 /\ ~later => file.stamp <= room.base
      BY <2>1, <3>1
    <3> HIDE DEF later
    <3>3. ~collided' => ~collided /\ ~later
      BY <1>4
    <3> QED
      BY <3>2, <3>3
  <2> HIDE DEF stat, known, later, found
  <2>4. slot' \in Slots
    <3>1. known \in Content \cup {None} /\ stat \in Nat
      BY <2>1, <2>2
    <3> QED
      BY <1>1, <1>4, <3>1 DEF Slots, Saving
  <2>5. slot'.pc = "export" /\ slot'.stat = stat /\ slot'.known = known
    BY <1>1, <1>4 DEF Slots
  <2>6. /\ slot'.task = slot.task /\ slot'.key = slot.key
        /\ slot'.item = slot.item /\ slot'.path = slot.path
        /\ slot'.blocks = slot.blocks /\ slot'.gen = slot.gen
        /\ slot'.igen = slot.igen /\ slot'.prov = slot.prov
        /\ slot'.made = slot.made
    BY <1>1, <1>4 DEF Slots
  <2>7. Follows /\ room'.clients = room.clients
    BY <1>1, <1>4, SameRoom
  <2> QED
    BY <1>4, <2>1, <2>2, <2>3, <2>4, <2>5, <2>6, <2>7
<1> QED
  <2>1. \/ /\ slot' = [slot EXCEPT !.pc = "sync"] /\ room' = room
           /\ sync' = [sync EXCEPT !["slot"] = SyncOf(room, None)]
           /\ collided' = collided
        \/ SlotReturn(room, sync, TRUE) /\ collided' = collided
        \/ /\ slot' = [slot EXCEPT !.pc = "export", !.stat = stat, !.known = known]
           /\ collided' = (collided \/ later)
           /\ room' = room /\ sync' = sync
    BY DEF PersistStat
  <2> QED
    BY <1>2, <1>3, <1>4, <2>1

LEMMA ExportForm ==
    ASSUME Sound, PersistExport
    PROVE  /\ Follows /\ room'.clients = room.clients /\ sync' = sync
           /\ slot' \in Slots /\ slot'.pc = "compare" /\ slot'.task = slot.task
           /\ slot'.key = slot.key /\ slot'.item = slot.item /\ slot'.path = slot.path
           /\ slot'.blocks = room.items /\ slot'.gen = room.gen
           /\ slot'.igen = room.igen /\ slot'.prov = prov
           /\ slot'.made = slot.made /\ slot'.known = slot.known
           /\ slot'.stat = slot.stat /\ room' = room
<1>1. /\ Loaded /\ room \in Rooms /\ slot \in Slots /\ prov \in Versions
      /\ told' = told
  BY BusyLoaded DEF PersistExport, Busy, Sound, TypeOK, DocTypes, ghostVars
<1>2. /\ slot' = [slot EXCEPT !.pc = "compare", !.blocks = room.items, !.gen = room.gen,
                             !.had = room.intent, !.igen = room.igen, !.prov = prov]
      /\ room' = room /\ sync' = sync
  BY DEF PersistExport
<1>3. /\ room.items \in Content /\ room.gen \in Nat /\ room.intent \in BOOLEAN
      /\ room.igen \in Nat
  BY <1>1 DEF Rooms
<1>4. slot' \in Slots
  BY <1>1, <1>2, <1>3 DEF Slots, Saving
<1>5. /\ slot'.pc = "compare" /\ slot'.task = slot.task
      /\ slot'.key = slot.key /\ slot'.item = slot.item /\ slot'.path = slot.path
      /\ slot'.blocks = room.items /\ slot'.gen = room.gen
      /\ slot'.igen = room.igen /\ slot'.prov = prov
      /\ slot'.made = slot.made /\ slot'.known = slot.known
      /\ slot'.stat = slot.stat
  BY <1>1, <1>2 DEF Slots
<1> QED
  BY <1>1, <1>2, <1>4, <1>5, SameRoom

\* Rooms with the same content for the same clients.
Same(a, b) ==
    /\ a.key = b.key /\ a.items = b.items /\ a.gone = b.gone /\ a.gen = b.gen
    /\ a.igen = b.igen /\ a.hold = b.hold /\ a.clients = b.clients
Keeps == Loaded /\ Loaded' /\ room' \in Rooms /\ Same(room', room) /\ told' = told

LEMMA SavedForm ==
    ASSUME NEW r \in Rooms, NEW gen \in Nat, r.saved <= r.gen, gen <= r.gen,
           NEW q, q = Saved(r, gen)
    PROVE  /\ q \in Rooms /\ Same(q, r) /\ q.saved <= q.gen /\ q.saved \in {r.saved, gen}
           /\ q.intent = r.intent /\ q.base = r.base /\ q.hash = r.hash /\ q.seen = r.seen
<1> DEFINE n == IF r.saved < gen THEN gen ELSE r.saved
<1>1. q = [r EXCEPT !.saved = n]
  BY DEF Saved
<1>2. n \in Nat /\ n <= r.gen /\ n \in {r.saved, gen}
  BY DEF Rooms
<1> HIDE DEF n
<1>3. q \in Rooms
  BY <1>1, <1>2 DEF Rooms
<1>4. Same(q, r) /\ q.saved = n
  BY <1>1 DEF Rooms, Same
<1>5. q.intent = r.intent /\ q.base = r.base /\ q.hash = r.hash /\ q.seen = r.seen
  BY <1>1 DEF Rooms
<1> QED
  BY <1>2, <1>3, <1>4, <1>5 DEF Same

LEMMA SpentForm ==
    ASSUME NEW r \in Rooms, NEW had, NEW igen, NEW q, q = Spent(r, had, igen)
    PROVE  /\ q \in Rooms /\ Same(q, r) /\ q.saved = r.saved
           /\ q.intent = r.intent \/ (~q.intent /\ igen = r.igen)
           /\ q.base = r.base /\ q.hash = r.hash /\ q.seen = r.seen
<1>1. CASE Spendable(r, had, igen)
  <2>1. q = [r EXCEPT !.intent = FALSE] /\ igen = r.igen
    BY <1>1 DEF Spent, Spendable
  <2>2. q \in Rooms /\ Same(q, r) /\ q.saved = r.saved
    BY <2>1 DEF Rooms, Same
  <2>3. ~q.intent /\ q.base = r.base /\ q.hash = r.hash /\ q.seen = r.seen
    BY <2>1 DEF Rooms
  <2> QED
    BY <2>1, <2>2, <2>3
<1>2. CASE ~Spendable(r, had, igen)
  BY <1>2 DEF Spent, Same
<1> QED
  BY <1>1, <1>2

\* A step ends in a room like r, which has the room's content.
LEMMA ReturnsForm ==
    ASSUME Sound, Loaded, NEW r \in Rooms, Same(r, room), told' = told,
           SlotReturn(r, sync, TRUE)
    PROVE  /\ Keeps /\ Returns /\ room'.saved = r.saved /\ room'.intent = r.intent
           /\ room'.base = r.base /\ room'.hash = r.hash /\ room'.seen = r.seen
<1>1. /\ Passes(r, sync)
      /\ Comes
  BY BusyLoaded, ReturnForm
<1>2. Loaded'
  BY <1>1, NoneAssumption DEF Passes, Loaded
<1> QED
  BY <1>1, <1>2 DEF Passes, Alike, Same, Keeps, Returns

\* What a save that compares takes for the file's content.
Current == IF slot.known = None THEN file.items ELSE slot.known

LEMMA CompareForm ==
    ASSUME Sound, PersistCompare
    PROVE  /\ Keeps /\ room'.saved = room.saved /\ room'.intent = room.intent
           /\ room'.base = room.base /\ room'.hash = room.hash
           /\ \/ room'.seen = room.seen
              \/ room'.seen \in Glimpses /\ room'.seen.items = Current
           /\ \/ Returns
              \/ Resyncs(room, slot.task)
              \/ /\ sync' = sync /\ slot' \in Slots /\ slot'.pc = "write"
                 /\ slot'.task = slot.task /\ Carries(slot, slot') /\ slot.stat # 0
              \/ /\ sync' = sync /\ slot' \in Slots /\ slot'.pc = "settle"
                 /\ slot'.task = slot.task /\ slot'.key = slot.key
                 /\ slot'.stat = slot.stat /\ slot'.blocks = slot.blocks
                 /\ slot'.gen = slot.gen /\ slot'.igen = slot.igen
                 /\ slot'.known = slot.known /\ slot'.prov = slot.prov
                 /\ slot'.made = slot.made /\ slot'.item = slot.item
                 /\ slot'.path = slot.path /\ slot.stat # 0
                 /\ slot.blocks = Current
                 /\ slot'.state \in States
                 /\ slot'.state = StateOf(room, slot.prov,
                      room.gen = slot.gen /\ slot.prov.items = slot.blocks)
<1>1. /\ Loaded /\ room \in Rooms /\ slot \in Slots /\ sync \in [Syncer -> Syncs]
      /\ told' = told /\ slot.prov \in Versions /\ slot.pc = "compare"
      /\ file.items \in Content /\ slot.stat \in Nat
  BY BusyLoaded, SlotTask DEF PersistCompare, Busy, Sound, Shape, ghostVars
<1> DEFINE current == IF slot.known = None THEN file.items ELSE slot.known
           glimpse == [stamp |-> slot.stat, items |-> current]
           matches == room.gen = slot.gen /\ slot.prov.items = current
           r == [room EXCEPT !.seen = glimpse]
<1>2. current \in Content /\ current = Current
  BY <1>1 DEF Slots, Current
<1>3. glimpse \in Glimpses /\ glimpse.items = current
  BY <1>1, <1>2 DEF Glimpses
<1>4. matches \in BOOLEAN
  OBVIOUS
<1> HIDE DEF current, glimpse, matches
<1>5. r \in Rooms /\ Same(r, room) /\ r.saved = room.saved /\ r.intent = room.intent
      /\ r.base = room.base /\ r.hash = room.hash /\ r.seen = glimpse
  <2> DEFINE q == r
  <2>1. q = [room EXCEPT !.seen = glimpse]
    OBVIOUS
  <2> HIDE DEF q
  <2>2. q \in Rooms
    BY <1>1, <1>3, <2>1 DEF Rooms
  <2>3. Same(q, room) /\ q.saved = room.saved /\ q.intent = room.intent
    BY <1>1, <2>1 DEF Rooms, Same
  <2>4. q.base = room.base /\ q.hash = room.hash /\ q.seen = glimpse
    BY <1>1, <2>1 DEF Rooms
  <2> QED
    BY <2>2, <2>3, <2>4 DEF q
<1> HIDE DEF r
<1>6. CASE SlotReturn([room EXCEPT !.again = TRUE], sync, TRUE)
  <2> DEFINE q == [room EXCEPT !.again = TRUE]
  <2>1. q \in Rooms /\ Alike(q, room)
    BY <1>1, AlikeRooms
  <2> HIDE DEF q
  <2>2. Same(q, room)
    BY <2>1 DEF Alike, Same
  <2>3. SlotReturn(q, sync, TRUE)
    BY <1>6 DEF q
  <2>4. /\ Keeps /\ Returns /\ room'.saved = q.saved /\ room'.intent = q.intent
        /\ room'.base = q.base /\ room'.hash = q.hash /\ room'.seen = q.seen
    BY <1>1, <2>1, <2>2, <2>3, ReturnsForm
  <2> QED
    BY <2>1, <2>4 DEF Alike
<1>7. CASE SlotReturn(room, sync, TRUE)
  <2>1. Same(room, room)
    BY DEF Same
  <2> QED
    BY <1>1, <1>7, <2>1, ReturnsForm
<1>8. ASSUME room' \in Rooms, Same(room', r), room'.saved = r.saved,
             room'.intent = r.intent, room'.base = r.base, room'.hash = r.hash,
             room'.seen = r.seen
      PROVE  /\ Keeps /\ room'.saved = room.saved /\ room'.intent = room.intent
             /\ room'.base = room.base /\ room'.hash = room.hash
             /\ room'.seen \in Glimpses /\ room'.seen.items = Current
  <2>1. Loaded'
    BY <1>8, NoneAssumption DEF Loaded
  <2>2. Same(room', room)
    BY <1>5, <1>8 DEF Same
  <2> QED
    BY <1>1, <1>2, <1>3, <1>5, <1>8, <2>1, <2>2 DEF Keeps
<1>9. CASE /\ room' = r /\ sync' = sync /\ slot.stat # 0 /\ current = slot.blocks
           /\ slot' = [slot EXCEPT !.pc = "settle",
                         !.state = StateOf(room, slot.prov, matches)]
  <2> DEFINE st == StateOf(room, slot.prov, matches)
  <2>1. st \in States
    BY <1>1, <1>4 DEF StateOf, States, Rooms
  <2>2. st = StateOf(room, slot.prov,
                     room.gen = slot.gen /\ slot.prov.items = slot.blocks)
    BY <1>9 DEF matches
  <2>3. slot' = [slot EXCEPT !.pc = "settle", !.state = st]
    BY <1>9
  <2> HIDE DEF st
  <2>4. slot' \in Slots
    BY <1>1, <2>1, <2>3 DEF Slots, Saving
  <2>5. slot'.pc = "settle" /\ slot'.state = st
    BY <1>1, <2>3 DEF Slots
  <2>6. /\ slot'.task = slot.task /\ slot'.key = slot.key
        /\ slot'.stat = slot.stat /\ slot'.blocks = slot.blocks
        /\ slot'.gen = slot.gen /\ slot'.igen = slot.igen
        /\ slot'.known = slot.known /\ slot'.prov = slot.prov
        /\ slot'.made = slot.made /\ slot'.item = slot.item /\ slot'.path = slot.path
    BY <1>1, <2>3 DEF Slots
  <2>7. /\ Keeps /\ room'.saved = room.saved /\ room'.intent = room.intent
        /\ room'.base = room.base /\ room'.hash = room.hash
        /\ room'.seen \in Glimpses /\ room'.seen.items = Current
    BY <1>5, <1>8, <1>9 DEF Same
  <2> QED
    BY <1>2, <1>9, <2>1, <2>2, <2>4, <2>5, <2>6, <2>7
<1>10. CASE /\ room' = r /\ slot' = [slot EXCEPT !.pc = "sync"]
            /\ sync' = [sync EXCEPT !["slot"] = SyncOf(r, None)]
  <2>1. Resyncs(r, slot.task) /\ r.key = room.key
    BY <1>5, <1>10, SlotTask, ResyncForm DEF Same
  <2>2. Resyncs(room, slot.task)
    BY <2>1 DEF Resyncs
  <2>3. Same(r, r)
    BY DEF Same
  <2> QED
    BY <1>5, <1>8, <1>10, <2>2, <2>3
<1>11. CASE /\ room' = [r EXCEPT !.shield = room.shield /\ ~StaleCache]
            /\ slot' = [slot EXCEPT !.pc = "write"] /\ sync' = sync /\ slot.stat # 0
  <2> DEFINE b == room.shield /\ ~StaleCache
  <2>1. b \in BOOLEAN
    OBVIOUS
  <2>2. room' = [r EXCEPT !.shield = b]
    BY <1>11
  <2> HIDE DEF b
  <2>3. room' \in Rooms
    BY <1>5, <2>1, <2>2 DEF Rooms
  <2>4. Same(room', r) /\ room'.saved = r.saved /\ room'.intent = r.intent
    BY <1>5, <2>2 DEF Rooms, Same
  <2>5. room'.base = r.base /\ room'.hash = r.hash /\ room'.seen = r.seen
    BY <1>5, <2>2 DEF Rooms
  <2>6. slot' \in Slots /\ slot'.pc = "write" /\ slot'.task = slot.task
        /\ Carries(slot, slot')
    <3>1. "write" \in Stage /\ slot' = [slot EXCEPT !.pc = "write"]
      BY <1>11 DEF Stage, Saving
    <3> QED
      BY <1>1, <3>1, SlotTo
  <2> QED
    BY <1>8, <1>11, <2>3, <2>4, <2>5, <2>6
<1> QED
  <2>1. r.shield = room.shield
    BY <1>1 DEF r, Rooms
  <2>2. \/ SlotReturn([room EXCEPT !.again = TRUE], sync, TRUE)
        \/ SlotReturn(room, sync, TRUE)
        \/ /\ room' = r /\ sync' = sync /\ slot.stat # 0 /\ current = slot.blocks
           /\ slot' = [slot EXCEPT !.pc = "settle",
                         !.state = StateOf(room, slot.prov, matches)]
        \/ /\ room' = r /\ slot' = [slot EXCEPT !.pc = "sync"]
           /\ sync' = [sync EXCEPT !["slot"] = SyncOf(r, None)]
        \/ /\ room' = [r EXCEPT !.shield = room.shield /\ ~StaleCache]
           /\ slot' = [slot EXCEPT !.pc = "write"] /\ sync' = sync /\ slot.stat # 0
    BY <2>1 DEF PersistCompare, current, glimpse, matches, r
  <2> QED
    BY <1>6, <1>7, <1>9, <1>10, <1>11, <2>2

LEMMA SettleForm ==
    ASSUME Sound, PersistSettle
    PROVE  /\ Keeps /\ Returns /\ room'.saved <= room'.gen
           /\ room'.saved \in {room.saved, slot.gen}
           /\ room'.intent = room.intent \/ (~room'.intent /\ slot.igen = room.igen)
           /\ room'.base = slot.stat /\ room'.hash = slot.blocks
           /\ room'.seen = room.seen
<1>1. /\ Loaded /\ room \in Rooms /\ slot \in Slots /\ told' = told
      /\ slot.prov \in Versions /\ slot.pc = "settle" /\ slot.blocks \in Content
      /\ slot.stat \in Nat /\ slot.gen \in Nat
      /\ slot.gen <= room.gen /\ room.saved <= room.gen
  BY BusyLoaded, SlotTask DEF PersistSettle, Busy, Sound, Shape, TypeOK, RoomFits, ghostVars
<1> DEFINE b == room.shield \/ slot.prov.agent
           r1 == [room EXCEPT !.base = slot.stat, !.hash = slot.blocks, !.shield = b]
           r2 == Saved(r1, slot.gen)
           r3 == Spent(r2, slot.had, slot.igen)
<1>2. b \in BOOLEAN
  OBVIOUS
<1>3. SlotReturn(r3, sync, TRUE)
  <2>1. [room EXCEPT !.base = slot.stat, !.hash = slot.blocks,
                     !.shield = @ \/ slot.prov.agent] = r1
    BY <1>1 DEF Rooms
  <2> QED
    BY <2>1 DEF PersistSettle
<1> HIDE DEF b
<1>4. r1 \in Rooms /\ Same(r1, room) /\ r1.saved = room.saved /\ r1.intent = room.intent
      /\ r1.base = slot.stat /\ r1.hash = slot.blocks /\ r1.seen = room.seen
  <2> DEFINE q == r1
  <2>1. q = [room EXCEPT !.base = slot.stat, !.hash = slot.blocks, !.shield = b]
    OBVIOUS
  <2> HIDE DEF q
  <2>2. q \in Rooms
    BY <1>1, <1>2, <2>1 DEF Rooms
  <2>3. Same(q, room) /\ q.saved = room.saved /\ q.intent = room.intent
    BY <1>1, <2>1 DEF Rooms, Same
  <2>4. q.base = slot.stat /\ q.hash = slot.blocks /\ q.seen = room.seen
    BY <1>1, <2>1 DEF Rooms
  <2> QED
    BY <2>2, <2>3, <2>4 DEF q
<1> HIDE DEF r1
<1>5. /\ r2 \in Rooms /\ Same(r2, r1) /\ r2.saved <= r2.gen
      /\ r2.saved \in {r1.saved, slot.gen}
      /\ r2.intent = r1.intent /\ r2.base = r1.base /\ r2.hash = r1.hash /\ r2.seen = r1.seen
  <2>1. r1.gen = room.gen
    BY <1>4 DEF Same
  <2> QED
    BY <1>1, <1>4, <2>1, SavedForm
<1> HIDE DEF r2
<1>6. /\ r3 \in Rooms /\ Same(r3, r2) /\ r3.saved = r2.saved
      /\ r3.intent = r2.intent \/ (~r3.intent /\ slot.igen = r2.igen)
      /\ r3.base = r2.base /\ r3.hash = r2.hash /\ r3.seen = r2.seen
  BY <1>5, SpentForm
<1> HIDE DEF r3
<1>7. Same(r3, room) /\ r3.saved <= r3.gen /\ r2.igen = room.igen
  BY <1>4, <1>5, <1>6 DEF Same
<1>8. /\ Keeps /\ Returns /\ room'.saved = r3.saved /\ room'.intent = r3.intent
      /\ room'.base = r3.base /\ room'.hash = r3.hash /\ room'.seen = r3.seen
  BY <1>1, <1>3, <1>6, <1>7, ReturnsForm
<1> QED
  BY <1>4, <1>5, <1>6, <1>7, <1>8 DEF Keeps, Same

LEMMA FileForm ==
    ASSUME NEW f \in [path : Place, items : Content, stamp : Nat],
           NEW items \in Content, NEW stamp \in Nat
    PROVE  [f EXCEPT !.items = items, !.stamp = stamp]
             \in [path : Place, items : Content, stamp : Nat]
  OBVIOUS

LEMMA WriteForm ==
    ASSUME Sound, PersistWrite
    PROVE  /\ Loaded /\ room' = room /\ told' = told /\ sync' = sync
           /\ slot' \in Slots /\ slot'.pc = "record" /\ slot'.task = slot.task
           /\ slot'.key = slot.key /\ slot'.stat = slot.stat
           /\ slot'.blocks = slot.blocks /\ slot'.gen = slot.gen
           /\ slot'.igen = slot.igen /\ slot'.known = slot.known
           /\ slot'.prov = slot.prov /\ slot'.item = slot.item /\ slot'.path = slot.path
           /\ slot'.made = None \/ (slot'.made \in Versions /\ slot'.made.items = slot.blocks)
           /\ kept' = kept \cup slot.blocks
           /\ file' \in [path : Place, items : Content, stamp : Nat]
           /\ file'.path = file.path /\ file'.items = slot.blocks
           /\ file.stamp <= file'.stamp
           /\ file'.stamp = file.stamp => file'.items = file.items
<1>1. /\ Loaded /\ room \in Rooms /\ slot \in Slots /\ slot.blocks \in Content
      /\ file \in [path : Place, items : Content, stamp : Nat]
  BY BusyLoaded, SlotTask DEF PersistWrite, Busy, Sound, TypeOK, DocTypes
<1> DEFINE same == file.items = slot.blocks
           made == IF same THEN None ELSE Version(slot.blocks, file.stamp + 1, FALSE)
<1>2. /\ file' = IF same THEN file
                 ELSE [file EXCEPT !.items = slot.blocks, !.stamp = file.stamp + 1]
      /\ slot' = [slot EXCEPT !.pc = "record", !.made = made]
      /\ kept' = kept \cup slot.blocks /\ room' = room /\ sync' = sync /\ told' = told
  BY <1>1 DEF PersistWrite
<1>3. made = None \/ (made \in Versions /\ made.items = slot.blocks)
  BY <1>1 DEF Version, Versions
<1>4. /\ file' \in [path : Place, items : Content, stamp : Nat]
      /\ file'.path = file.path /\ file'.items = slot.blocks
      /\ file.stamp <= file'.stamp
      /\ file'.stamp = file.stamp => file'.items = file.items
  <2>1. CASE same
    BY <1>1, <1>2, <2>1
  <2>2. CASE ~same
    <3>1. file' = [file EXCEPT !.items = slot.blocks, !.stamp = file.stamp + 1]
      BY <1>2, <2>2
    <3> HIDE DEF same
    <3>2. file.stamp + 1 \in Nat /\ file.stamp \in Nat /\ file.path \in Place
      BY <1>1
    <3>3. /\ file'.path = file.path /\ file'.items = slot.blocks
          /\ file'.stamp = file.stamp + 1
      BY <1>1, <3>1
    <3>4. file' \in [path : Place, items : Content, stamp : Nat]
      BY <1>1, <3>1, <3>2, FileForm
    <3> QED
      BY <3>2, <3>3, <3>4
  <2> QED
    BY <2>1, <2>2
<1> HIDE DEF made, same
<1>5. slot' \in Slots
  BY <1>1, <1>2, <1>3 DEF Slots, Saving
<1>6. slot'.pc = "record" /\ slot'.made = made
  BY <1>1, <1>2 DEF Slots
<1>7. /\ slot'.task = slot.task
      /\ slot'.key = slot.key /\ slot'.stat = slot.stat
      /\ slot'.blocks = slot.blocks /\ slot'.gen = slot.gen
      /\ slot'.igen = slot.igen /\ slot'.known = slot.known
      /\ slot'.prov = slot.prov /\ slot'.item = slot.item /\ slot'.path = slot.path
  BY <1>1, <1>2 DEF Slots
<1> QED
  BY <1>1, <1>2, <1>3, <1>4, <1>5, <1>6, <1>7

LEMMA RecordForm ==
    ASSUME Sound, PersistRecord
    PROVE  /\ Keeps /\ sync' = sync /\ room'.saved = room.saved
           /\ room'.intent = room.intent \/ (~room'.intent /\ slot.igen = room.igen)
           /\ room'.base = room.base /\ room'.hash = slot.blocks
           /\ room'.seen = room.seen
           /\ prov' \in Versions /\ prov' \in {prov, slot.made}
           /\ slot' \in Slots /\ slot'.pc = "state" /\ slot'.task = slot.task
           /\ slot'.key = slot.key /\ slot'.stat = 0 /\ slot'.blocks = slot.blocks
           /\ slot'.gen = slot.gen /\ slot'.igen = 0 /\ slot'.known = None
           /\ slot'.prov = prov' /\ slot'.made = None
           /\ slot'.item = slot.item /\ slot'.path = slot.path
<1>1. /\ Loaded /\ room \in Rooms /\ slot \in Slots /\ told' = told
      /\ prov \in Versions /\ slot.blocks \in Content /\ slot.gen \in Nat
  BY BusyLoaded, SlotTask
  DEF PersistRecord, Busy, Sound, TypeOK, DocTypes, ghostVars
<1> DEFINE version == IF slot.made = None THEN prov ELSE slot.made
           r == [room EXCEPT !.hash = slot.blocks]
<1>2. /\ prov' = version /\ room' = Spent(r, slot.had, slot.igen) /\ sync' = sync
      /\ slot' = [IdleSlot EXCEPT !.pc = "state", !.prov = version, !.task = slot.task,
                     !.key = slot.key, !.blocks = slot.blocks, !.gen = slot.gen,
                     !.item = slot.item, !.path = slot.path]
  BY DEF PersistRecord
<1>3. version \in Versions /\ version \in {prov, slot.made}
  BY <1>1 DEF Slots
<1>4. r \in Rooms /\ Same(r, room) /\ r.saved = room.saved /\ r.intent = room.intent
      /\ r.base = room.base /\ r.hash = slot.blocks /\ r.seen = room.seen
  <2> DEFINE q == r
  <2>1. q = [room EXCEPT !.hash = slot.blocks]
    OBVIOUS
  <2> HIDE DEF q
  <2>2. q \in Rooms
    BY <1>1, <2>1 DEF Rooms
  <2>3. Same(q, room) /\ q.saved = room.saved /\ q.intent = room.intent
    BY <1>1, <2>1 DEF Rooms, Same
  <2>4. q.base = room.base /\ q.hash = slot.blocks /\ q.seen = room.seen
    BY <1>1, <2>1 DEF Rooms
  <2> QED
    BY <2>2, <2>3, <2>4 DEF q
<1> HIDE DEF r, version
<1>5. /\ room' \in Rooms /\ Same(room', r) /\ room'.saved = r.saved
      /\ room'.intent = r.intent \/ (~room'.intent /\ slot.igen = r.igen)
      /\ room'.base = r.base /\ room'.hash = r.hash /\ room'.seen = r.seen
  BY <1>2, <1>4, SpentForm
<1>6. Keeps /\ r.igen = room.igen
  BY <1>1, <1>4, <1>5, NoneAssumption DEF Keeps, Same, Loaded
<1>7. slot' \in Slots
  <2>1. slot.task \in Task /\ slot.key \in Place \cup {None}
        /\ slot.item \in Agent \cup {None} /\ slot.path \in Place \cup {None}
    BY <1>1 DEF Slots, Task
  <2> QED
    BY <1>1, <1>2, <1>3, <2>1, Blanks DEF Slots, Saving, Task
<1>8. /\ slot'.pc = "state" /\ slot'.task = slot.task
      /\ slot'.key = slot.key /\ slot'.stat = 0 /\ slot'.blocks = slot.blocks
      /\ slot'.gen = slot.gen /\ slot'.igen = 0 /\ slot'.known = None
      /\ slot'.prov = version /\ slot'.made = None
      /\ slot'.item = slot.item /\ slot'.path = slot.path
  BY <1>2 DEF IdleSlot
<1> QED
  BY <1>2, <1>3, <1>4, <1>5, <1>6, <1>7, <1>8

LEMMA StateForm ==
    ASSUME Sound, PersistState
    PROVE  /\ Loaded /\ room' = room /\ told' = told /\ sync' = sync
           /\ slot' \in Slots /\ slot'.pc = "land" /\ slot'.task = slot.task
           /\ slot'.key = slot.key /\ slot'.stat = file.stamp
           /\ slot'.blocks = slot.blocks /\ slot'.gen = slot.gen
           /\ slot'.igen = slot.igen /\ slot'.known = slot.known
           /\ slot'.prov = slot.prov /\ slot'.made = slot.made
           /\ slot'.item = slot.item /\ slot'.path = slot.path
           /\ slot'.state \in States
           /\ slot'.state = StateOf(room, slot.prov,
                room.gen = slot.gen /\ slot.prov.items = slot.blocks)
<1>1. /\ Loaded /\ room \in Rooms /\ slot \in Slots /\ slot.prov \in Versions
      /\ file.stamp \in Nat
  BY BusyLoaded, SlotTask DEF PersistState, Busy, Sound, Shape
<1> DEFINE matches == room.gen = slot.gen /\ slot.prov.items = slot.blocks
           st == StateOf(room, slot.prov, matches)
<1>2. st \in States
  BY <1>1 DEF StateOf, States, Rooms
<1>3. slot' = [slot EXCEPT !.pc = "land", !.stat = file.stamp, !.state = st]
      /\ room' = room /\ told' = told /\ sync' = sync
  BY DEF PersistState, ghostVars
<1> HIDE DEF st
<1>4. slot' \in Slots
  BY <1>1, <1>2, <1>3 DEF Slots, Saving
<1>5. slot'.pc = "land" /\ slot'.stat = file.stamp /\ slot'.state = st
  BY <1>1, <1>3 DEF Slots
<1>6. /\ slot'.task = slot.task
      /\ slot'.key = slot.key /\ slot'.blocks = slot.blocks /\ slot'.gen = slot.gen
      /\ slot'.igen = slot.igen /\ slot'.known = slot.known
      /\ slot'.prov = slot.prov /\ slot'.made = slot.made
      /\ slot'.item = slot.item /\ slot'.path = slot.path
  BY <1>1, <1>3 DEF Slots
<1> QED
  BY <1>1, <1>2, <1>3, <1>4, <1>5, <1>6 DEF st

LEMMA LandForm ==
    ASSUME Sound, PersistLand
    PROVE  /\ Keeps /\ Returns /\ room'.saved <= room'.gen
           /\ room'.saved \in {room.saved, slot.gen}
           /\ room'.intent = room.intent
           /\ room'.base = slot.stat /\ room'.hash = room.hash
           /\ room'.seen \in Glimpses /\ room'.seen.items = slot.blocks
<1>1. /\ Loaded /\ room \in Rooms /\ told' = told
      /\ slot.blocks \in Content
      /\ slot.stat \in Nat /\ slot.gen \in Nat
      /\ slot.gen <= room.gen /\ room.saved <= room.gen
  BY BusyLoaded, SlotTask DEF PersistLand, Busy, Sound, Shape, TypeOK, RoomFits, ghostVars
<1> DEFINE glimpse == [stamp |-> slot.stat, items |-> slot.blocks]
           r1 == [room EXCEPT !.base = slot.stat, !.seen = glimpse]
           r2 == Saved(r1, slot.gen)
<1>2. glimpse \in Glimpses /\ glimpse.items = slot.blocks
  BY <1>1 DEF Glimpses
<1>3. SlotReturn(r2, sync, TRUE)
  BY DEF PersistLand
<1> HIDE DEF glimpse
<1>4. r1 \in Rooms /\ Same(r1, room) /\ r1.saved = room.saved /\ r1.intent = room.intent
      /\ r1.base = slot.stat /\ r1.hash = room.hash /\ r1.seen = glimpse
  <2> DEFINE q == r1
  <2>1. q = [room EXCEPT !.base = slot.stat, !.seen = glimpse]
    OBVIOUS
  <2> HIDE DEF q
  <2>2. q \in Rooms
    BY <1>1, <1>2, <2>1 DEF Rooms
  <2>3. Same(q, room) /\ q.saved = room.saved /\ q.intent = room.intent
    BY <1>1, <2>1 DEF Rooms, Same
  <2>4. q.base = slot.stat /\ q.hash = room.hash /\ q.seen = glimpse
    BY <1>1, <2>1 DEF Rooms
  <2> QED
    BY <2>2, <2>3, <2>4 DEF q
<1> HIDE DEF r1
<1>5. /\ r2 \in Rooms /\ Same(r2, r1) /\ r2.saved <= r2.gen
      /\ r2.saved \in {r1.saved, slot.gen}
      /\ r2.intent = r1.intent /\ r2.base = r1.base /\ r2.hash = r1.hash /\ r2.seen = r1.seen
  <2>1. r1.gen = room.gen
    BY <1>4 DEF Same
  <2> QED
    BY <1>1, <1>4, <2>1, SavedForm
<1> HIDE DEF r2
<1>6. Same(r2, room)
  BY <1>4, <1>5 DEF Same
<1>7. /\ Keeps /\ Returns /\ room'.saved = r2.saved /\ room'.intent = r2.intent
      /\ room'.base = r2.base /\ room'.hash = r2.hash /\ room'.seen = r2.seen
  BY <1>1, <1>3, <1>5, <1>6, ReturnsForm
<1> QED
  BY <1>2, <1>4, <1>5, <1>6, <1>7 DEF Keeps, Same

LEMMA FailsForm ==
    ASSUME Sound, PersistFails
    PROVE  Follows /\ room'.clients = room.clients /\ Returns
<1>1. Loaded /\ room \in Rooms /\ told' = told /\ Alike(room, room)
  BY BusyLoaded DEF PersistFails, Busy, Alike
<1>2. /\ Passes(room, sync)
      /\ Comes
  BY <1>1, BusyLoaded, ReturnForm DEF PersistFails
<1> QED
  BY <1>1, <1>2, AlikeFollows DEF Passes, Returns

-----------------------------------------------------------------------------
(* The steps of a disk sync                                                *)

\* The sync w is over.
Ended(w) ==
    /\ sync' \in [Syncer -> Syncs] /\ pending' \in {None, pending}
    /\ w = "slot" =>
         /\ Loaded /\ slot.pc = "sync"
         /\ slot' \in Slots /\ Clear(slot') /\ Turned(slot, slot')
         /\ Comes /\ sync'["watcher"] = sync["watcher"] /\ sync'["slot"].items = {}
         /\ slot'.pc = "sync" => sync'["slot"].pc = "read"
         /\ slot'.pc # "sync" => sync'["slot"].pc = "idle"
    /\ w = "watcher" =>
         /\ slot' = slot /\ sync'["slot"] = sync["slot"]
         /\ sync'["watcher"].pc = "idle" /\ sync'["watcher"].items = {}

\* The room stays, but for what asks for another save.
Stays == IF Loaded THEN room' \in Rooms /\ Alike(room', room) ELSE room' = None

LEMMA EndedForm ==
    ASSUME Sound, NEW w \in Syncer, sync[w].pc # "idle", NEW r, NEW ok \in BOOLEAN,
           SyncDone(w, r, [sync EXCEPT ![w] = IdleSync], ok),
           IF Loaded THEN r \in Rooms ELSE r = None
    PROVE  /\ Ended(w) /\ IF Loaded THEN room' \in Rooms /\ Alike(room', r) ELSE room' = None
           /\ w = "slot" /\ ~ok => Fails
<1> DEFINE sy == [sync EXCEPT ![w] = IdleSync]
<1>1. /\ sy \in [Syncer -> Syncs] /\ sy[w] = IdleSync
      /\ \A v \in Syncer : v # w => sy[v] = sync[v]
  BY BusyLoaded, Blanks
<1>2. IdleSync.pc = "idle" /\ IdleSync.items = {}
  BY Blanks
<1> HIDE DEF sy
<1>3. SyncDone(w, r, sy, ok)
  BY DEF sy
<1>4. /\ \/ /\ w = "slot" /\ Loaded /\ slot.pc = "sync" /\ Passes(r, sy)
            /\ Comes /\ (~ok => Fails)
         \/ w = "watcher" /\ room' = r /\ sync' = sy /\ slot' = slot
      /\ pending' \in {None, pending}
  BY <1>1, <1>3, DoneForm
<1>5. CASE w = "slot"
  BY <1>1, <1>2, <1>4, <1>5 DEF Passes, Turns, Ended, Syncer
<1>6. CASE w = "watcher"
  <2>1. Loaded => room' \in Rooms /\ Alike(room', r)
    BY <1>4, <1>6 DEF Alike
  <2> QED
    BY <1>1, <1>2, <1>4, <1>6, <2>1 DEF Ended, Syncer
<1> QED
  BY <1>5, <1>6 DEF Syncer

\* A sync that leaves the room as it is.
LEMMA EndsForm ==
    ASSUME Sound, NEW w \in Syncer, sync[w].pc # "idle", NEW ok \in BOOLEAN,
           NEW r \in {room, NotOwed(room)},
           SyncDone(w, r, [sync EXCEPT ![w] = IdleSync], ok)
    PROVE  Ended(w) /\ Stays /\ (w = "slot" /\ ~ok => Fails)
<1>1. IF Loaded THEN r \in Rooms /\ Alike(r, room) ELSE r = None
  <2>1. Loaded => room \in Rooms /\ Alike(room, room)
    BY BusyLoaded DEF Alike
  <2>2. ~Loaded => room = None
    BY DEF Loaded
  <2> QED
    BY <2>1, <2>2, NotOwedForm
<1>2. /\ Ended(w) /\ IF Loaded THEN room' \in Rooms /\ Alike(room', r) ELSE room' = None
      /\ w = "slot" /\ ~ok => Fails
  BY <1>1, EndedForm
<1> QED
  BY <1>1, <1>2, AlikeTrans DEF Stays

LEMMA SyncUpdate ==
    ASSUME NEW sy \in [Syncer -> Syncs], NEW w \in Syncer, NEW s \in Syncs
    PROVE  /\ [sy EXCEPT ![w] = s] \in [Syncer -> Syncs]
           /\ [sy EXCEPT ![w] = s][w] = s
           /\ \A v \in Syncer : v # w => [sy EXCEPT ![w] = s][v] = sy[v]
  OBVIOUS

LEMMA ReadForm ==
    ASSUME Sound, NEW w \in Syncer, SyncRead(w)
    PROVE  /\ told' = told
           /\ \/ Ended(w) /\ Stays /\ file.path # sync[w].key
              \/ /\ room' = room /\ slot' = slot /\ pending' = pending
                 /\ sync' \in [Syncer -> Syncs]
                 /\ sync'[w].pc = "apply" /\ sync'[w].items = file.items
                 /\ sync'[w].key = sync[w].key /\ sync'[w].token = sync[w].token
                 /\ \A v \in Syncer : v # w => sync'[v] = sync[v]
<1>1. sync[w] \in Syncs /\ sync \in [Syncer -> Syncs] /\ file.items \in Content
      /\ sync[w].pc # "idle" /\ told' = told
  BY BusyLoaded, SlotTask DEF SyncRead, ghostVars
<1>2. CASE file.path # sync[w].key
  <2>1. SyncDone(w, NotOwed(room), [sync EXCEPT ![w] = IdleSync], TRUE)
    BY <1>2 DEF SyncRead
  <2>2. Ended(w) /\ Stays
    BY <1>1, <2>1, EndsForm
  <2> QED
    BY <1>1, <1>2, <2>2
<1>3. CASE file.path = sync[w].key
  <2> DEFINE s == [sync[w] EXCEPT !.pc = "apply", !.items = file.items]
  <2>1. s \in Syncs /\ s.pc = "apply" /\ s.items = file.items /\ s.key = sync[w].key
        /\ s.token = sync[w].token
    BY <1>1 DEF Syncs
  <2>2. sync' = [sync EXCEPT ![w] = s] /\ room' = room /\ slot' = slot
        /\ pending' = pending
    BY <1>1, <1>3 DEF SyncRead
  <2> HIDE DEF s
  <2>3. sync' \in [Syncer -> Syncs] /\ sync'[w] = s
        /\ \A v \in Syncer : v # w => sync'[v] = sync[v]
    BY <1>1, <2>1, <2>2, SyncUpdate
  <2> QED
    BY <1>1, <2>1, <2>2, <2>3
<1> QED
  BY <1>2, <1>3

LEMMA CacheForm ==
    ASSUME Sound, NEW w \in Syncer, SyncCache(w) \/ SyncFails(w)
    PROVE  /\ Ended(w) /\ Stays /\ told' = told
           /\ w = "slot" => Fails \/ sync[w].pc = "cache"
<1>1. told' = told /\ sync[w].pc # "idle"
  BY DEF SyncCache, SyncFails, ghostVars
<1>2. PICK r \in {room, NotOwed(room)}, ok \in BOOLEAN :
        SyncDone(w, r, [sync EXCEPT ![w] = IdleSync], ok) /\ (~ok \/ sync[w].pc = "cache")
  BY DEF SyncCache, SyncFails
<1> QED
  BY <1>1, <1>2, EndsForm

\* The room is replaced by the items that the sync w read.
Replaces(w) ==
    /\ Loaded /\ Loaded' /\ room' \in Rooms
    /\ room'.key = room.key /\ room'.hold = room.hold /\ room'.clients = room.clients
    /\ room'.items = sync[w].items
    /\ room'.gone = (room.gone \cup room.items) \ sync[w].items
    /\ room'.gen = room.gen + 1 /\ room'.saved = room.gen + 1 /\ room'.igen = room.igen
    /\ room'.base = file.stamp /\ room'.hash = sync[w].items /\ room'.seen = None
    /\ room'.intent = room.intent \/ (~room'.intent /\ sync[w].igen = room.igen)
    /\ wiped' = wiped \cup ((room.items \ sync[w].items) \cap Edit)
    /\ room.key = sync[w].key
    /\ ~crossed' => /\ ~crossed /\ sync[w].items = file.items
                    /\ slot.pc \notin {"compare", "write", "commit"}

LEMMA ApplyForm ==
    ASSUME Sound, NEW w \in Syncer, SyncApply(w)
    PROVE  /\ told' = told
           /\ \/ /\ Ended(w) /\ Stays /\ wiped' = wiped /\ crossed' = crossed
                 /\ Superseded(sync[w])
                 /\ w = "slot" /\ sync[w].token = None => room.key # sync[w].key
              \/ /\ Replaces(w) /\ Ended(w)
              \/ /\ Replaces(w) /\ slot' = slot /\ pending' = pending
                 /\ prov.items = sync[w].items
                 /\ sync' \in [Syncer -> Syncs]
                 /\ sync'[w].pc = "cache" /\ sync'[w].items = {}
                 /\ sync'[w].key = sync[w].key
                 /\ sync'[w].state \in States
                 /\ sync'[w].state = StateOf(room', prov, TRUE)
                 /\ \A v \in Syncer : v # w => sync'[v] = sync[v]
<1>1. /\ sync[w] \in Syncs /\ sync \in [Syncer -> Syncs] /\ file.items \in Content
      /\ file.stamp \in Nat /\ prov \in Versions
      /\ sync[w].pc = "apply" /\ told' = told
  BY BusyLoaded, SlotTask DEF SyncApply, Sound, TypeOK, DocTypes
<1>2. CASE /\ Superseded(sync[w]) /\ wiped' = wiped /\ crossed' = crossed
           /\ SyncDone(w, NotOwed(room), [sync EXCEPT ![w] = IdleSync], TRUE)
  <2>1. Ended(w) /\ Stays
    BY <1>1, <1>2, EndsForm
  <2>2. w = "slot" /\ sync[w].token = None => room.key # sync[w].key
    <3>1. w = "slot" => Loaded
      BY <2>1 DEF Ended
    <3> QED
      BY <1>2, <3>1 DEF Superseded
  <2> QED
    BY <1>1, <1>2, <2>1, <2>2
<1>3. CASE ~Superseded(sync[w])
  <2> DEFINE s == sync[w]
             gone == (room.gone \cup room.items) \ s.items
             r == [room EXCEPT !.items = s.items, !.gone = gone,
                     !.gen = room.gen + 1, !.saved = room.gen + 1, !.base = file.stamp,
                     !.hash = s.items, !.seen = None, !.shield = prov.agent,
                     !.required = None]
             r1 == Spent(r, s.had, s.igen)
             sy == [sync EXCEPT ![w] = IdleSync]
             kept1 == [IdleSync EXCEPT !.pc = "cache", !.key = s.key,
                                       !.state = StateOf(r1, prov, TRUE)]
             lost == room.items \ s.items
  <2>1. Loaded /\ room \in Rooms /\ room.key = s.key
    BY <1>3, BusyLoaded DEF Superseded
  <2>2. /\ crossed' = (crossed \/ s.items # file.items
                               \/ slot.pc \in {"compare", "write", "commit"})
        /\ wiped' = wiped \cup (lost \cap Edit)
        /\ IF prov.items = s.items
           THEN room' = r1 /\ sync' = [sync EXCEPT ![w] = kept1]
                /\ slot' = slot /\ pending' = pending
           ELSE SyncDone(w, r1, sy, TRUE)
    <3>1. [room EXCEPT !.items = s.items, !.gone = (@ \cup room.items) \ s.items,
                 !.gen = @ + 1, !.saved = room.gen + 1, !.base = file.stamp,
                 !.hash = s.items, !.seen = None, !.shield = prov.agent,
                 !.required = None] = r
      BY <2>1 DEF Rooms
    <3> QED
      BY <1>3, <3>1 DEF SyncApply
  <2> HIDE DEF r, r1, kept1
  <2>3. /\ r \in Rooms /\ r.key = room.key /\ r.hold = room.hold
        /\ r.clients = room.clients /\ r.items = s.items /\ r.gone = gone
        /\ r.gen = room.gen + 1 /\ r.saved = room.gen + 1 /\ r.igen = room.igen
        /\ r.base = file.stamp /\ r.hash = s.items /\ r.seen = None
        /\ r.intent = room.intent
    <3> DEFINE n == room.gen + 1
               b == prov.agent
               t == s.items
    <3>1. n \in Nat /\ b \in BOOLEAN /\ t \in Content /\ gone \in Content
      BY <1>1, <2>1 DEF Rooms, Versions, Syncs, Content
    <3>2. r = [room EXCEPT !.items = t, !.gone = gone, !.gen = n, !.saved = n,
                 !.base = file.stamp, !.hash = t, !.seen = None, !.shield = b,
                 !.required = None]
      BY DEF r
    <3> HIDE DEF n, b, t, s, gone
    <3>3. r \in Rooms
      BY <1>1, <2>1, <3>1, <3>2 DEF Rooms
    <3>4. /\ r.key = room.key /\ r.hold = room.hold /\ r.clients = room.clients
          /\ r.items = t /\ r.gone = gone
      BY <2>1, <3>2 DEF Rooms
    <3>5. /\ r.gen = n /\ r.saved = n /\ r.igen = room.igen /\ r.intent = room.intent
      BY <2>1, <3>2 DEF Rooms
    <3>6. r.base = file.stamp /\ r.hash = t /\ r.seen = None
      BY <2>1, <3>2 DEF Rooms
    <3> QED
      BY <3>3, <3>4, <3>5, <3>6 DEF n, t
  <2>4. /\ r1 \in Rooms /\ Same(r1, r) /\ r1.saved = r.saved
        /\ r1.intent = r.intent \/ (~r1.intent /\ s.igen = r.igen)
        /\ r1.base = r.base /\ r1.hash = r.hash /\ r1.seen = r.seen
    BY <2>3, SpentForm DEF r1
  <2>5. ASSUME room' \in Rooms, Alike(room', r1)
        PROVE  Replaces(w)
    <3>1. Loaded'
      BY <2>5, NoneAssumption DEF Loaded
    <3>2. /\ room'.key = room.key /\ room'.hold = room.hold
          /\ room'.clients = room.clients
          /\ room'.items = s.items /\ room'.gone = gone
          /\ room'.gen = room.gen + 1 /\ room'.saved = room.gen + 1
          /\ room'.igen = room.igen /\ room'.base = file.stamp
          /\ room'.hash = s.items /\ room'.seen = None
      BY <2>3, <2>4, <2>5 DEF Alike, Same
    <3>3. room'.intent = room.intent \/ (~room'.intent /\ s.igen = room.igen)
      BY <2>3, <2>4, <2>5 DEF Alike, Same
    <3>4. ~crossed' => /\ ~crossed /\ s.items = file.items
                       /\ slot.pc \notin {"compare", "write", "commit"}
      BY <2>2
    <3> QED
      BY <2>1, <2>2, <2>5, <3>1, <3>2, <3>3, <3>4 DEF Replaces
  <2>6. CASE prov.items = s.items
    <3>1. Alike(room', r1) /\ room' = r1
      BY <2>2, <2>6 DEF Alike
    <3>2. StateOf(r1, prov, TRUE) \in States
      BY <1>1, <2>4 DEF StateOf, States, Rooms
    <3>3. kept1 \in Syncs /\ kept1.pc = "cache" /\ kept1.items = {}
          /\ kept1.key = s.key /\ kept1.state = StateOf(room', prov, TRUE)
      <4> DEFINE st == StateOf(r1, prov, TRUE)
      <4>1. kept1 = [IdleSync EXCEPT !.pc = "cache", !.key = s.key, !.state = st]
        BY DEF kept1
      <4>2. s.key \in Place \cup {None} /\ st \in States
        BY <1>1, <3>2 DEF Syncs
      <4> HIDE DEF st, s
      <4>3. kept1 \in Syncs
        BY <4>1, <4>2, Blanks DEF Syncs
      <4>4. kept1.pc = "cache" /\ kept1.items = {} /\ kept1.key = s.key
            /\ kept1.state = st
        BY <4>1, Blanks DEF Syncs
      <4> QED
        BY <3>1, <4>3, <4>4 DEF st
    <3>4. sync' \in [Syncer -> Syncs] /\ sync'[w] = kept1
          /\ \A v \in Syncer : v # w => sync'[v] = sync[v]
      BY <1>1, <2>2, <2>6, <3>3, SyncUpdate
    <3> QED
      BY <1>1, <2>2, <2>4, <2>5, <2>6, <3>1, <3>2, <3>3, <3>4
  <2>7. CASE prov.items # s.items
    <3>1. SyncDone(w, r1, sy, TRUE)
      BY <2>2, <2>7
    <3>2. Ended(w) /\ room' \in Rooms /\ Alike(room', r1)
      BY <1>1, <2>1, <2>4, <3>1, EndedForm
    <3> QED
      BY <1>1, <2>5, <3>2
  <2> QED
    BY <2>6, <2>7
<1> QED
  <2>1. Superseded(sync[w]) => 
          /\ wiped' = wiped /\ crossed' = crossed
          /\ SyncDone(w, NotOwed(room), [sync EXCEPT ![w] = IdleSync], TRUE)
    BY DEF SyncApply
  <2> QED
    BY <1>2, <1>3, <2>1

LEMMA WatcherForm ==
    ASSUME Sound, WatcherEvent
    PROVE  /\ told' = told /\ slot' = slot /\ Stays
           /\ sync["watcher"].pc = "idle"
           /\ prov' = prov \/ (prov' \in Versions /\ prov'.items = file.items)
           /\ prov' \in Versions
           /\ pending' \in [items : Content, gen : Nat] \cup {None}
           /\ sync' \in [Syncer -> Syncs] /\ sync'["slot"] = sync["slot"]
           /\ \/ sync' = sync
              \/ sync'["watcher"].pc = "read" /\ sync'["watcher"].items = {}
<1>1. /\ sync \in [Syncer -> Syncs] /\ file.items \in Content /\ file.stamp \in Nat
      /\ prov \in Versions /\ pending \in [items : Content, gen : Nat] \cup {None}
  BY BusyLoaded, SlotTask DEF Sound, TypeOK, DocTypes, WatchTypes
<1> DEFINE changed == prov.items # file.items
           again == ~changed /\ pending # None /\ pending.items = prov.items
           token == IF changed THEN room.gen ELSE pending.gen
<1>2. /\ told' = told /\ slot' = slot /\ sync["watcher"].pc = "idle"
      /\ prov' = IF changed THEN Version(file.items, file.stamp, TRUE) ELSE prov
  BY DEF WatcherEvent, ghostVars
<1>3. /\ prov' = prov \/ (prov' \in Versions /\ prov'.items = file.items)
      /\ prov' \in Versions
  <2>1. Version(file.items, file.stamp, TRUE) \in Versions
        /\ Version(file.items, file.stamp, TRUE).items = file.items
    BY <1>1 DEF Version, Versions
  <2> QED
    BY <1>1, <1>2, <2>1
<1>4. Loaded => room \in Rooms /\ Alike(room, room)
  BY BusyLoaded DEF Alike
<1>5. CASE /\ (changed \/ again) /\ Loaded /\ room.gen = token
           /\ pending' = [items |-> file.items, gen |-> token]
           /\ room' = [room EXCEPT !.required = token]
           /\ sync' = [sync EXCEPT !["watcher"] = SyncOf(room, token)]
  <2>1. room \in Rooms
    BY <1>4, <1>5
  <2>2. token \in Nat
    <3>1. room.gen \in Nat
      BY <2>1 DEF Rooms
    <3> QED
      BY <1>5, <3>1
  <2> HIDE DEF token, changed, again
  <2>3. /\ SyncOf(room, token) \in Syncs /\ SyncOf(room, token).pc = "read"
        /\ SyncOf(room, token).items = {}
    BY <2>1, <2>2, SyncOfForm
  <2>4. room' \in Rooms
    BY <1>5, <2>1, <2>2 DEF Rooms
  <2>5. Alike(room', room)
    BY <1>5, <2>1 DEF Rooms, Alike
  <2>6. pending' \in [items : Content, gen : Nat]
    BY <1>1, <1>5, <2>2
  <2>7. /\ sync' \in [Syncer -> Syncs] /\ sync'["slot"] = sync["slot"]
        /\ sync'["watcher"] = SyncOf(room, token)
    BY <1>1, <1>5, <2>3 DEF Syncer
  <2> QED
    BY <1>2, <1>3, <1>5, <2>3, <2>4, <2>5, <2>6, <2>7 DEF Stays
<1>6. CASE pending' = None /\ room' \in {room, NotOwed(room)} /\ sync' = sync
  <2>1. Stays
    BY <1>4, <1>6, NotOwedForm DEF Stays, Loaded
  <2> QED
    BY <1>1, <1>2, <1>3, <1>6, <2>1
<1> QED
  BY <1>5, <1>6 DEF WatcherEvent

-----------------------------------------------------------------------------
(* The steps of an agent's write                                           *)

LEMMA BeginForm ==
    ASSUME Sound, NEW a \in Agent, AgentBegin(a)
    PROVE  /\ Loaded /\ Stays /\ told' = told /\ slot.pc = "idle" /\ a \notin kept
           /\ slot' \in Slots /\ Clear(slot') /\ slot'.pc \in {"sync", "check"}
           /\ slot'.task = "required" /\ slot'.item = a /\ slot'.path = room.key
           /\ sync' \in [Syncer -> Syncs] /\ sync'["watcher"] = sync["watcher"]
           /\ slot'.pc = "sync" => sync'["slot"].pc = "read" /\ sync'["slot"].items = {}
           /\ slot'.pc # "sync" => sync'["slot"] = sync["slot"]
<1>1. /\ Loaded /\ room \in Rooms /\ sync \in [Syncer -> Syncs] /\ room.key \in Place
      /\ told' = told /\ slot.pc = "idle" /\ a \notin kept
  <2>1. \A r \in Rooms : r.key \in Place
    BY DEF Rooms
  <2> QED
    BY <2>1, BusyLoaded DEF AgentBegin, Busy, ghostVars
<1> DEFINE s == [IdleSlot EXCEPT !.task = "required", !.item = a, !.path = room.key]
<1>2. ASSUME NEW p \in {"sync", "check"}, slot' = [s EXCEPT !.pc = p]
      PROVE  /\ slot' \in Slots /\ Clear(slot') /\ slot'.pc = p
             /\ slot'.task = "required" /\ slot'.item = a /\ slot'.path = room.key
  <2>1. slot' = [IdleSlot EXCEPT !.pc = p, !.task = "required", !.item = a,
                                 !.path = room.key]
    BY <1>2, Blanks DEF Slots
  <2>2. slot' \in Slots
    BY <1>1, <2>1, Blanks, Stages DEF Slots
  <2>3. slot'.pc = p /\ slot'.task = "required" /\ slot'.item = a /\ slot'.path = room.key
    BY <2>1, Blanks DEF Slots
  <2>4. Clear(slot')
    BY <2>1, Blanks DEF Slots, Clear
  <2> QED
    BY <2>2, <2>3, <2>4
<1>3. CASE /\ sync' = [sync EXCEPT !["slot"] = SyncOf(room, room.required)]
           /\ slot' = [s EXCEPT !.pc = "sync"] /\ room' = room
  <2>1. room.required \in Nat \cup {None}
    BY <1>1 DEF Rooms
  <2>2. /\ SyncOf(room, room.required) \in Syncs
        /\ SyncOf(room, room.required).pc = "read"
        /\ SyncOf(room, room.required).items = {}
    <3> DEFINE t == room.required
    <3>1. t \in Nat \cup {None}
      BY <2>1
    <3> HIDE DEF t
    <3>2. SyncOf(room, t) \in Syncs /\ SyncOf(room, t).pc = "read"
          /\ SyncOf(room, t).items = {}
      BY <1>1, <3>1, SyncOfForm
    <3> QED
      BY <3>2 DEF t
  <2>3. /\ sync' \in [Syncer -> Syncs] /\ sync'["watcher"] = sync["watcher"]
        /\ sync'["slot"] = SyncOf(room, room.required)
    BY <1>1, <1>3, <2>2 DEF Syncer
  <2>4. Stays
    BY <1>1, <1>3 DEF Stays, Alike
  <2> HIDE DEF s
  <2> QED
    BY <1>1, <1>2, <1>3, <2>2, <2>3, <2>4
<1>4. CASE room' = NotOwed(room) /\ slot' = [s EXCEPT !.pc = "check"] /\ sync' = sync
  <2>1. Stays
    BY <1>1, <1>4, NotOwedForm DEF Stays
  <2> HIDE DEF s
  <2> QED
    BY <1>1, <1>2, <1>4, <2>1
<1> QED
  BY <1>3, <1>4 DEF AgentBegin

\* The slot goes to the stage p and carries everything with it.
Advances(p) == /\ slot' \in Slots /\ slot'.pc = p /\ slot'.task = slot.task
               /\ Carries(slot, slot') /\ sync' = sync

LEMMA CheckForm ==
    ASSUME Sound, AgentCheck
    PROVE  /\ Loaded /\ room' = room /\ told' = told
           /\ \/ Resyncs(room, "disk") /\ file.path = slot.path
              \/ /\ Advances("typed")
                 /\ file.path = slot.path => file.items = room.hash
<1>1. Loaded /\ room \in Rooms /\ slot \in Slots /\ room' = room /\ told' = told
  BY BusyLoaded DEF AgentCheck, Busy, ghostVars
<1>2. CASE file.path = slot.path /\ file.items # room.hash
  <2>1. "disk" \in Task /\ slot' = [slot EXCEPT !.pc = "sync", !.task = "disk"]
        /\ sync' = [sync EXCEPT !["slot"] = SyncOf(room, None)]
    BY <1>2, Stages DEF AgentCheck, Task
  <2>2. Resyncs(room, "disk")
    BY <1>1, <2>1, ResyncForm
  <2> QED
    BY <1>1, <1>2, <2>2
<1>3. CASE ~(file.path = slot.path /\ file.items # room.hash)
  <2>1. "typed" \in Stage /\ slot' = [slot EXCEPT !.pc = "typed"] /\ sync' = sync
    BY <1>3 DEF AgentCheck, Stage
  <2> QED
    BY <1>1, <1>3, <2>1, SlotTo DEF Advances
<1> QED
  BY <1>2, <1>3

LEMMA TypedForm ==
    ASSUME Sound, AgentTyped
    PROVE  /\ Loaded /\ Stays /\ told' = told
           /\ \/ Turns(sync) /\ slot'.task = "typed" /\ slot'.pc \in {"stat", "sync"}
              \/ Advances("hold")
<1>1. /\ Loaded /\ room \in Rooms /\ slot \in Slots /\ told' = told
      /\ slot.task \in DOMAIN NextStage /\ sync \in [Syncer -> Syncs]
  BY BusyLoaded DEF AgentTyped, Busy, Sound, Shape, ghostVars
<1>2. CASE room.timer
  <2> DEFINE r == [room EXCEPT !.timer = FALSE]
             h == Handed("typed")
  <2>1. r \in Rooms /\ Alike(r, room)
    BY <1>1, AlikeRooms
  <2>2. h \in Slots /\ Clear(h) /\ h.task = "typed" /\ h.item = slot.item
        /\ h.path = slot.path
    BY <1>1, HandedForm
  <2>3. StartPersist(r, sync, h)
    BY <1>2 DEF AgentTyped
  <2> HIDE DEF r, h
  <2>4. Passes(r, sync) /\ slot'.task = "typed" /\ slot'.pc \in {"stat", "sync"}
    BY <1>1, <2>1, <2>2, <2>3, StartForm
  <2>5. Stays
    BY <1>1, <2>1, <2>4, AlikeTrans DEF Passes, Stays
  <2> QED
    BY <1>1, <2>4, <2>5 DEF Passes
<1>3. CASE ~room.timer
  <2>1. "hold" \in Stage /\ slot' = [slot EXCEPT !.pc = "hold"] /\ sync' = sync
        /\ room' = room
    BY <1>3 DEF AgentTyped, Stage
  <2>2. Stays
    BY <1>1, <2>1 DEF Stays, Alike
  <2> QED
    BY <1>1, <2>1, <2>2, SlotTo DEF Advances
<1> QED
  BY <1>2, <1>3

LEMMA HoldForm ==
    ASSUME Sound, AgentHold
    PROVE  /\ Loaded /\ Loaded' /\ room' \in Rooms /\ Copy(room', room)
           /\ room'.clients = room.clients /\ room'.hold = TRUE
           /\ told' = told /\ sync' = sync
           /\ slot' \in Slots /\ slot'.pc = "commit" /\ slot'.task = slot.task
           /\ slot'.key = slot.path /\ slot'.path = slot.path /\ slot'.item = slot.item
           /\ slot'.blocks = room.items /\ slot'.hash = room.hash
           /\ slot'.stat = slot.stat /\ slot'.known = slot.known
           /\ slot'.gen = slot.gen /\ slot'.igen = slot.igen
           /\ slot'.prov = slot.prov /\ slot'.made = slot.made
<1>1. Loaded /\ room \in Rooms /\ slot \in Slots /\ told' = told /\ sync' = sync
  BY BusyLoaded DEF AgentHold, Busy, ghostVars
<1>2. /\ room' = [room EXCEPT !.hold = TRUE]
      /\ slot' = [slot EXCEPT !.pc = "commit", !.key = slot.path, !.blocks = room.items,
                          !.hash = room.hash]
  BY DEF AgentHold
<1>3. room' \in Rooms
  BY <1>1, <1>2 DEF Rooms
<1>4. Copy(room', room) /\ room'.clients = room.clients /\ room'.hold = TRUE
  BY <1>1, <1>2 DEF Rooms, Copy
<1>5. room.items \in Content /\ room.hash \in Content
  BY <1>1 DEF Rooms
<1>6. slot' \in Slots
  BY <1>1, <1>2, <1>5 DEF Slots, Handing
<1>7. /\ slot'.pc = "commit" /\ slot'.key = slot.path /\ slot'.blocks = room.items
      /\ slot'.hash = room.hash
  BY <1>1, <1>2 DEF Slots
<1>8. /\ slot'.task = slot.task /\ slot'.path = slot.path /\ slot'.item = slot.item
      /\ slot'.stat = slot.stat /\ slot'.known = slot.known
      /\ slot'.gen = slot.gen /\ slot'.igen = slot.igen
      /\ slot'.prov = slot.prov /\ slot'.made = slot.made
  BY <1>1, <1>2 DEF Slots
<1> QED
  BY <1>1, <1>3, <1>4, <1>6, <1>7, <1>8, NoneAssumption DEF Loaded

LEMMA CommitForm ==
    ASSUME Sound, AgentCommit
    PROVE  /\ Loaded /\ room' = room /\ told' = told /\ sync' = sync
           /\ \/ /\ Advances("release")
                 /\ file' = file /\ prov' = prov /\ kept' = kept
              \/ /\ file.path = slot.key /\ slot.item \in Agent
                 /\ slot' \in Slots /\ slot'.pc = "adopt" /\ slot'.task = slot.task
                 /\ slot'.blocks = slot.blocks \cup {slot.item}
                 /\ slot'.key = slot.key /\ slot'.stat = slot.stat
                 /\ slot'.known = slot.known /\ slot'.gen = slot.gen
                 /\ slot'.igen = slot.igen /\ slot'.prov = slot.prov
                 /\ slot'.made = slot.made /\ slot'.hash = slot.hash
                 /\ slot'.item = slot.item /\ slot'.path = slot.path
                 /\ kept' = kept \cup slot.blocks \cup {slot.item}
                 /\ file' \in [path : Place, items : Content, stamp : Nat]
                 /\ file'.path = file.path /\ file'.stamp = file.stamp + 1
                 /\ file'.items = slot.blocks \cup {slot.item}
                 /\ prov' \in Versions /\ prov'.items = slot.blocks \cup {slot.item}
<1>1. /\ Loaded /\ room' = room /\ told' = told /\ sync' = sync /\ slot \in Slots
      /\ slot.item \in Agent /\ slot.blocks \in Content
      /\ file \in [path : Place, items : Content, stamp : Nat] /\ file.stamp + 1 \in Nat
  BY BusyLoaded, SlotTask
  DEF AgentCommit, Busy, Sound, TypeOK, DocTypes, Shape, Handing
<1>2. CASE file.path # slot.key
  <2>1. "release" \in Stage /\ slot' = [slot EXCEPT !.pc = "release"]
        /\ file' = file /\ prov' = prov /\ kept' = kept
    BY <1>2 DEF AgentCommit, Stage, Handing
  <2> QED
    BY <1>1, <2>1, SlotTo DEF Advances
<1>3. CASE file.path = slot.key
  <2> DEFINE items == slot.blocks \cup {slot.item}
             stamp == file.stamp + 1
  <2>1. items \in Content /\ stamp \in Nat
    BY <1>1 DEF Content
  <2>2. /\ file' = [file EXCEPT !.items = items, !.stamp = stamp]
        /\ prov' = Version(items, stamp, TRUE) /\ kept' = kept \cup items
        /\ slot' = [slot EXCEPT !.pc = "adopt", !.blocks = items]
    BY <1>1, <1>3 DEF AgentCommit
  <2>3. kept' = kept \cup slot.blocks \cup {slot.item}
    BY <2>2
  <2> HIDE DEF items, stamp
  <2>4. slot' \in Slots
    BY <1>1, <2>1, <2>2 DEF Slots, Handing
  <2>5. slot'.pc = "adopt" /\ slot'.blocks = items
    BY <1>1, <2>2 DEF Slots
  <2>6. /\ slot'.key = slot.key /\ slot'.stat = slot.stat /\ slot'.task = slot.task
        /\ slot'.known = slot.known /\ slot'.gen = slot.gen
        /\ slot'.igen = slot.igen /\ slot'.prov = slot.prov
        /\ slot'.made = slot.made /\ slot'.hash = slot.hash
        /\ slot'.item = slot.item /\ slot'.path = slot.path
    BY <1>1, <2>2 DEF Slots
  <2>7. file' \in [path : Place, items : Content, stamp : Nat]
    BY <1>1, <2>1, <2>2, FileForm
  <2>8. file'.path = file.path /\ file'.stamp = stamp /\ file'.items = items
    BY <1>1, <2>2
  <2>9. prov' \in Versions /\ prov'.items = items
    BY <2>1, <2>2 DEF Version, Versions
  <2> QED
    BY <1>1, <1>3, <2>3, <2>4, <2>5, <2>6, <2>7, <2>8, <2>9 DEF items, stamp
<1> QED
  BY <1>2, <1>3

LEMMA GiveUpForm ==
    ASSUME Sound, AgentFails \/ AgentStore
    PROVE  Loaded /\ room' = room /\ told' = told /\ Advances("release")
<1>1. Loaded /\ slot \in Slots /\ room' = room /\ told' = told /\ sync' = sync
      /\ slot' = [slot EXCEPT !.pc = "release"] /\ "release" \in Stage
  BY BusyLoaded DEF AgentFails, AgentStore, Busy, ghostVars, Stage, Handing
<1> QED
  BY <1>1, SlotTo DEF Advances

\* The room after an agent's write, and what stays of the slot.
Adopted ==
    /\ Loaded /\ Loaded' /\ room' \in Rooms
    /\ room'.key = room.key /\ room'.hold = room.hold /\ room'.clients = room.clients
    /\ room'.gen = room.gen + 1 /\ room'.igen = room.igen
    /\ room'.base = file.stamp /\ room'.hash = slot.blocks /\ room'.seen = None
    /\ slot' \in Slots /\ slot'.task = slot.task /\ slot'.key = slot.key
    /\ slot'.stat = slot.stat /\ slot'.blocks = slot.blocks /\ slot'.known = slot.known
    /\ slot'.gen = slot.gen /\ slot'.igen = slot.igen /\ slot'.prov = slot.prov
    /\ slot'.made = slot.made /\ slot'.item = slot.item /\ slot'.path = slot.path
    /\ sync' = sync

LEMMA AdoptForm ==
    ASSUME Sound, AgentAdopt
    PROVE  /\ told' = told /\ slot.pc = "adopt" /\ slot.item \in Agent
           /\ \/ /\ Adopted /\ slot'.pc = "store" /\ wiped' = wiped
                 /\ room'.items = room.items \cup {slot.item}
                 /\ room'.gone = room.gone /\ room'.intent = room.intent
                 /\ room'.saved = room.saved
                 /\ slot'.state \in States
                 /\ slot'.state = StateOf(room', prov, FALSE)
              \/ /\ Adopted /\ room'.items = slot.blocks
                 /\ room'.gone = (room.gone \cup room.items) \ slot.blocks
                 /\ ~room'.intent /\ room'.saved = room'.gen
                 /\ wiped' = wiped \cup ((room.items \ slot.blocks) \cap Edit)
                 /\ \/ slot'.pc = "store" /\ prov.items = slot.blocks
                    \/ slot'.pc = "release"
                 /\ slot'.state \in States
                 /\ slot'.state = StateOf(room', prov, TRUE)
              \/ /\ Loaded /\ room' = room /\ Resyncs(room, "follow") /\ wiped' = wiped
<1>1. /\ Loaded /\ room \in Rooms /\ slot \in Slots /\ told' = told
      /\ slot.pc = "adopt" /\ slot.item \in Agent /\ slot.blocks \in Content
      /\ file.stamp \in Nat /\ prov \in Versions /\ room.gen + 1 \in Nat
  <2>1. \A r \in Rooms : r.gen + 1 \in Nat
    BY DEF Rooms
  <2> QED
    BY <2>1, BusyLoaded, SlotTask
    DEF AgentAdopt, Busy, Sound, TypeOK, DocTypes, Shape, Handing
<1> DEFINE n == room.gen + 1
           b == prov.agent
           r == [room EXCEPT !.gen = n, !.base = file.stamp, !.hash = slot.blocks,
                             !.seen = None, !.shield = b]
           placed == [r EXCEPT !.items = room.items \cup {slot.item}]
           gone == (room.gone \cup room.items) \ slot.blocks
           taken == [r EXCEPT !.items = slot.blocks, !.saved = n, !.gone = gone]
           whole == Spent(taken, room.intent, room.igen)
<1>2. b \in BOOLEAN /\ n \in Nat /\ gone \in Content /\ room.items \cup {slot.item} \in Content
  BY <1>1 DEF Rooms, Versions, Content
<1>3. /\ r.items = room.items /\ r.gone = room.gone /\ r.gen = n
  BY <1>1 DEF Rooms
<1>4. \/ /\ room' = placed /\ sync' = sync /\ wiped' = wiped
         /\ slot' = [slot EXCEPT !.pc = "store", !.state = StateOf(placed, prov, FALSE)]
      \/ /\ room' = whole /\ sync' = sync
         /\ wiped' = wiped \cup ((room.items \ slot.blocks) \cap Edit)
         /\ slot' = [slot EXCEPT !.pc = IF prov.items = slot.blocks THEN "store" ELSE "release",
                                 !.state = StateOf(whole, prov, TRUE)]
      \/ /\ room' = room /\ wiped' = wiped
         /\ sync' = [sync EXCEPT !["slot"] = SyncOf(room, None)]
         /\ slot' = [slot EXCEPT !.pc = "sync", !.task = "follow"]
  <2>1. [room EXCEPT !.gen = @ + 1, !.base = file.stamp, !.hash = slot.blocks,
                     !.seen = None, !.shield = prov.agent] = r
    BY <1>1 DEF Rooms
  <2>2. /\ [r EXCEPT !.items = @ \cup {slot.item}] = placed
        /\ [r EXCEPT !.items = slot.blocks, !.saved = r.gen,
                     !.gone = (@ \cup room.items) \ slot.blocks] = taken
    <3> HIDE DEF n, b, gone
    <3>1. r \in Rooms
      BY <1>1, <1>2 DEF Rooms
    <3> HIDE DEF r
    <3> QED
      BY <1>3, <3>1 DEF Rooms, gone
  <2> HIDE DEF r, placed, taken
  <2> QED
    BY <2>1, <2>2 DEF AgentAdopt
<1>5. r \in Rooms /\ r.key = room.key /\ r.hold = room.hold /\ r.clients = room.clients
      /\ r.igen = room.igen /\ r.base = file.stamp /\ r.hash = slot.blocks
      /\ r.seen = None /\ r.intent = room.intent /\ r.saved = room.saved
  <2> HIDE DEF n, b
  <2> DEFINE q == r
  <2>1. q = [room EXCEPT !.gen = n, !.base = file.stamp, !.hash = slot.blocks,
                         !.seen = None, !.shield = b]
    OBVIOUS
  <2> HIDE DEF q
  <2>2. q \in Rooms
    BY <1>1, <1>2, <2>1 DEF Rooms
  <2>3. q.key = room.key /\ q.hold = room.hold /\ q.clients = room.clients
        /\ q.igen = room.igen /\ q.intent = room.intent /\ q.saved = room.saved
    BY <1>1, <2>1 DEF Rooms
  <2>4. q.base = file.stamp /\ q.hash = slot.blocks /\ q.seen = None
    BY <1>1, <2>1 DEF Rooms
  <2> QED
    BY <2>2, <2>3, <2>4 DEF q
<1> HIDE DEF r, b, gone
<1>6. ASSUME NEW q \in Rooms, room' = q, q.key = r.key, q.hold = r.hold,
             q.clients = r.clients, q.gen = n, q.igen = r.igen, q.base = r.base,
             q.hash = r.hash, q.seen = r.seen, sync' = sync,
             NEW p \in {"store", "release"}, NEW m \in BOOLEAN,
             slot' = [slot EXCEPT !.pc = p, !.state = StateOf(q, prov, m)]
      PROVE  Adopted /\ slot'.pc = p /\ slot'.state \in States
             /\ slot'.state = StateOf(room', prov, m)
  <2> DEFINE st == StateOf(q, prov, m)
  <2>1. st \in States
    BY <1>1 DEF StateOf, States, Rooms
  <2>2. p \in Stage
    BY DEF Stage, Handing
  <2>3. slot' = [slot EXCEPT !.pc = p, !.state = st]
    BY <1>6
  <2>4. st = StateOf(room', prov, m)
    BY <1>6
  <2> HIDE DEF st
  <2>5. /\ slot' \in Slots /\ slot'.pc = p /\ slot'.state = st /\ slot'.task = slot.task
        /\ slot'.key = slot.key /\ slot'.stat = slot.stat /\ slot'.blocks = slot.blocks
        /\ slot'.known = slot.known /\ slot'.gen = slot.gen /\ slot'.igen = slot.igen
        /\ slot'.prov = slot.prov /\ slot'.made = slot.made /\ slot'.item = slot.item
        /\ slot'.path = slot.path
    <3>1. ASSUME NEW t, t = [slot EXCEPT !.pc = p, !.state = st]
          PROVE  /\ t \in Slots /\ t.pc = p /\ t.state = st /\ t.task = slot.task
                 /\ t.key = slot.key /\ t.stat = slot.stat /\ t.blocks = slot.blocks
                 /\ t.known = slot.known /\ t.gen = slot.gen /\ t.igen = slot.igen
                 /\ t.prov = slot.prov /\ t.made = slot.made /\ t.item = slot.item
                 /\ t.path = slot.path
      <4>1. t \in Slots
        BY <1>1, <2>1, <2>2, <3>1 DEF Slots, Stage
      <4>2. t.pc = p /\ t.state = st
        BY <1>1, <3>1 DEF Slots
      <4>3. /\ t.task = slot.task /\ t.key = slot.key /\ t.stat = slot.stat
            /\ t.blocks = slot.blocks /\ t.known = slot.known /\ t.gen = slot.gen
            /\ t.igen = slot.igen /\ t.prov = slot.prov /\ t.made = slot.made
            /\ t.item = slot.item /\ t.path = slot.path
        BY <1>1, <3>1 DEF Slots
      <4> QED
        BY <4>1, <4>2, <4>3
    <3> QED
      BY <2>3, <3>1
  <2>6. Loaded'
    BY <1>6, NoneAssumption DEF Loaded
  <2> QED
    BY <1>1, <1>5, <1>6, <2>1, <2>4, <2>5, <2>6 DEF Adopted
<1>7. CASE /\ room' = placed /\ sync' = sync /\ wiped' = wiped
           /\ slot' = [slot EXCEPT !.pc = "store", !.state = StateOf(placed, prov, FALSE)]
  <2> DEFINE items == room.items \cup {slot.item}
  <2> HIDE DEF n, items
  <2>1. placed = [r EXCEPT !.items = items]
    BY DEF items
  <2> HIDE DEF placed
  <2>2. placed \in Rooms
    BY <1>2, <1>5, <2>1 DEF Rooms, items
  <2>3. /\ placed.items = items /\ placed.gone = r.gone /\ placed.intent = r.intent
        /\ placed.saved = r.saved
    BY <1>5, <2>1 DEF Rooms
  <2>4. /\ placed.key = r.key /\ placed.hold = r.hold /\ placed.clients = r.clients
        /\ placed.gen = r.gen /\ placed.igen = r.igen /\ placed.base = r.base
        /\ placed.hash = r.hash /\ placed.seen = r.seen
    BY <1>5, <2>1 DEF Rooms
  <2>5. Adopted /\ slot'.pc = "store" /\ slot'.state \in States
        /\ slot'.state = StateOf(room', prov, FALSE)
    BY <1>3, <1>6, <1>7, <2>2, <2>4
  <2> QED
    BY <1>1, <1>3, <1>5, <1>7, <2>3, <2>5 DEF items
<1>8. CASE /\ room' = whole /\ sync' = sync
           /\ wiped' = wiped \cup ((room.items \ slot.blocks) \cap Edit)
           /\ slot' = [slot EXCEPT !.pc = IF prov.items = slot.blocks THEN "store" ELSE "release",
                                   !.state = StateOf(whole, prov, TRUE)]
  <2> HIDE DEF n
  <2>1. taken = [r EXCEPT !.items = slot.blocks, !.saved = n, !.gone = gone]
    OBVIOUS
  <2> HIDE DEF taken
  <2>2. taken \in Rooms
    BY <1>1, <1>2, <1>5, <2>1 DEF Rooms
  <2>3. /\ taken.items = slot.blocks /\ taken.saved = n /\ taken.gone = gone
        /\ taken.intent = r.intent
    BY <1>5, <2>1 DEF Rooms
  <2>4. /\ taken.key = r.key /\ taken.hold = r.hold /\ taken.clients = r.clients
        /\ taken.gen = r.gen /\ taken.igen = r.igen /\ taken.base = r.base
        /\ taken.hash = r.hash /\ taken.seen = r.seen
    BY <1>5, <2>1 DEF Rooms
  <2>5. /\ whole \in Rooms /\ Same(whole, taken) /\ whole.saved = taken.saved
        /\ whole.base = taken.base /\ whole.hash = taken.hash /\ whole.seen = taken.seen
    BY <2>2, SpentForm
  <2>6. ~whole.intent
    <3>1. Spendable(taken, room.intent, room.igen) <=> room.intent
      BY <1>5, <2>4 DEF Spendable
    <3>2. room.intent => ~whole.intent
      BY <2>2, <3>1 DEF Spent, Rooms
    <3>3. ~room.intent => whole = taken
      BY <3>1 DEF Spent
    <3> QED
      BY <1>5, <2>3, <3>2, <3>3
  <2>7. PICK p \in {"store", "release"} :
          /\ p = IF prov.items = slot.blocks THEN "store" ELSE "release"
    OBVIOUS
  <2> HIDE DEF whole
  <2>8. Adopted /\ slot'.pc = p /\ slot'.state \in States
        /\ slot'.state = StateOf(room', prov, TRUE)
    BY <1>3, <1>6, <1>8, <2>4, <2>5, <2>7 DEF Same
  <2>9. /\ room'.items = slot.blocks /\ room'.gone = gone /\ ~room'.intent
        /\ room'.saved = room'.gen
    BY <1>3, <1>8, <2>3, <2>4, <2>5, <2>6 DEF Same
  <2> QED
    BY <1>1, <1>8, <2>7, <2>8, <2>9 DEF gone
<1>9. CASE /\ room' = room /\ wiped' = wiped
           /\ sync' = [sync EXCEPT !["slot"] = SyncOf(room, None)]
           /\ slot' = [slot EXCEPT !.pc = "sync", !.task = "follow"]
  <2>1. "follow" \in Task
    BY Stages DEF Task
  <2>2. Resyncs(room, "follow")
    BY <1>1, <1>9, <2>1, ResyncForm
  <2> QED
    BY <1>1, <1>9, <2>2
<1> QED
  BY <1>4, <1>7, <1>8, <1>9

-----------------------------------------------------------------------------
(* Loading                                                                 *)

LEMMA ImportForm ==
    ASSUME Sound, LoadImport
    PROVE  /\ ~Loaded /\ Loaded' /\ room' \in Rooms /\ told' = {}
           /\ slot.pc = "idle" /\ slot' = slot /\ sync' = sync
           /\ room'.key = file.path /\ room'.gen = 1 /\ room'.saved \in {0, 1}
           /\ ~room'.intent /\ room'.igen = 0 /\ room'.base = load.stamp
           /\ room'.hash = load.items /\ room'.hold = FALSE /\ room'.clients = {}
           /\ room'.seen \in Glimpses /\ room'.seen.items = load.items
           /\ \/ /\ cache # None /\ cache' = cache
                 /\ cache.head = prov /\ prov.items = load.items
                 /\ room'.items = cache.items /\ room'.gone = cache.gone
                 /\ room'.saved = 1 => cache.matches
              \/ /\ room'.items = load.items /\ room'.gone = {}
                 /\ \/ cache' = None
                    \/ /\ cache' \in States /\ prov.items = load.items
                       /\ cache' = StateOf(room', prov, TRUE)
<1>1. /\ ~Loaded /\ slot.pc = "idle" /\ slot' = slot /\ sync' = sync /\ told' = {}
      /\ load \in [pc : {"idle", "read", "import"}, items : Content, stamp : Nat]
      /\ file.path \in Place /\ prov \in Versions /\ cache \in States \cup {None}
  BY SlotTask DEF LoadImport, Sound, Shape, TypeOK, DocTypes, RoomTypes, RoomFits, Busy
<1> DEFINE described == prov.items = load.items
           admitted == described /\ cache # None /\ cache.head = prov
           ahead == admitted /\ ~cache.matches
           items == IF admitted THEN cache.items ELSE load.items
           gone == IF admitted THEN cache.gone ELSE {}
           saved == IF ahead THEN 0 ELSE 1
           restored == IF ahead THEN 1 ELSE None
           glimpse == [stamp |-> load.stamp, items |-> load.items]
           shield == described /\ prov.agent
           idle == \A c \in Client : conn[c] # "pending"
<1>2. /\ items \in Content /\ gone \in Content /\ load.items \in Content
      /\ load.stamp \in Nat
  BY <1>1 DEF States, Content
<1>3. saved \in {0, 1} /\ restored \in {1, None}
  OBVIOUS
<1>4. glimpse \in Glimpses /\ glimpse.items = load.items
  BY <1>1 DEF Glimpses
<1>5. shield \in BOOLEAN /\ idle \in BOOLEAN /\ ahead \in BOOLEAN
  OBVIOUS
<1>6. /\ room' = [key |-> file.path, items |-> items, gone |-> gone,
                  gen |-> 1, saved |-> saved, restored |-> restored,
                  required |-> None, intent |-> FALSE, igen |-> 0,
                  base |-> load.stamp, hash |-> load.items, seen |-> glimpse,
                  shield |-> shield, timer |-> ahead, again |-> FALSE, hold |-> FALSE,
                  clients |-> {}, idle |-> idle]
      /\ cache' = IF admitted THEN cache
                  ELSE IF described THEN StateOf(room', prov, TRUE) ELSE None
  BY DEF LoadImport
<1>7. CASE admitted
  <2>1. /\ cache # None /\ cache' = cache /\ cache.head = prov /\ prov.items = load.items
        /\ items = cache.items /\ gone = cache.gone /\ (saved = 1 => cache.matches)
    BY <1>6, <1>7
  <2> HIDE DEF items, gone, saved, restored, glimpse, shield, idle, ahead
  <2>2. room' \in Rooms
    BY <1>1, <1>2, <1>3, <1>4, <1>5, <1>6 DEF Rooms
  <2>3. Loaded'
    BY <2>2, NoneAssumption DEF Loaded
  <2>4. /\ room'.key = file.path /\ room'.gen = 1 /\ room'.saved = saved
        /\ ~room'.intent /\ room'.igen = 0 /\ room'.base = load.stamp
        /\ room'.hash = load.items /\ room'.hold = FALSE /\ room'.clients = {}
        /\ room'.seen = glimpse /\ room'.items = items /\ room'.gone = gone
    BY <1>6
  <2> QED
    BY <1>1, <1>3, <1>4, <2>1, <2>2, <2>3, <2>4
<1>8. CASE ~admitted
  <2>1. /\ items = load.items /\ gone = {}
        /\ cache' = None \/ (cache' = StateOf(room', prov, TRUE) /\ prov.items = load.items)
    BY <1>6, <1>8
  <2> HIDE DEF items, gone, saved, restored, glimpse, shield, idle, ahead
  <2>2. room' \in Rooms
    BY <1>1, <1>2, <1>3, <1>4, <1>5, <1>6 DEF Rooms
  <2>3. Loaded'
    BY <2>2, NoneAssumption DEF Loaded
  <2>4. /\ room'.key = file.path /\ room'.gen = 1 /\ room'.saved = saved
        /\ ~room'.intent /\ room'.igen = 0 /\ room'.base = load.stamp
        /\ room'.hash = load.items /\ room'.hold = FALSE /\ room'.clients = {}
        /\ room'.seen = glimpse /\ room'.items = items /\ room'.gone = gone
    BY <1>6
  <2>5. StateOf(room', prov, TRUE) \in States
    BY <1>1, <2>2 DEF StateOf, States, Rooms
  <2> QED
    BY <1>1, <1>3, <1>4, <2>1, <2>2, <2>3, <2>4, <2>5
<1> QED
  BY <1>7, <1>8

\* What is stored is the new state, or what was stored.
LEMMA StoredForm ==
    ASSUME NEW key, NEW state
    PROVE  Stored(key, state) \in {state, cache}
  BY DEF Stored
=============================================================================
