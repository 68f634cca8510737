----------------------- MODULE CollaborationRoomsTypes -----------------------
(***************************************************************************)
(* What each step of CollaborationRooms leaves of the types of its         *)
(* variables, and of how a room fits its slot and its clients.             *)
(***************************************************************************)
EXTENDS CollaborationRoomsSteps

-----------------------------------------------------------------------------
(* The types of what the browsers and the sockets hold                     *)

LEMMA AcksTyped ==
    ASSUME ClientTypes, NEW r, NEW had, NEW igen
    PROVE  AcksFor(r, had, igen) \in [Client -> BOOLEAN]
  BY DEF AcksFor, Acked, ClientTypes

\* What a disk sync or an agent's write takes out of the clients' documents.
LEMMA LocalTyped ==
    ASSUME ClientTypes, NEW clients, NEW lost,
           local' = [c \in Client |-> IF c \in clients THEN local[c] \ lost ELSE local[c]]
    PROVE  /\ local' \in [Client -> SUBSET Edit]
           /\ \A c \in Client : local'[c] \subseteq {e \in Edit : Author[e] = c}
<1>1. \A c \in Client : local'[c] \subseteq local[c]
  OBVIOUS
<1> QED
  BY <1>1 DEF ClientTypes

\* Frames that are marked.
LEMMA MarkTyped ==
    ASSUME NEW fs \in Seq(Frames)
    PROVE  /\ \A q : q = [i \in DOMAIN fs |-> [fs[i] EXCEPT !.early = TRUE]]
                => q \in Seq(Frames) /\ Len(q) = Len(fs)
           /\ \A q : q = [i \in DOMAIN fs |-> [fs[i] EXCEPT !.before = TRUE]]
                => q \in Seq(Frames) /\ Len(q) = Len(fs)
<1>1. DOMAIN fs = 1 .. Len(fs) /\ Len(fs) \in Nat /\ \A i \in DOMAIN fs : fs[i] \in Frames
  OBVIOUS
<1>2. \A f \in Frames : [f EXCEPT !.early = TRUE] \in Frames
                        /\ [f EXCEPT !.before = TRUE] \in Frames
  BY DEF Frames
<1>3. ASSUME NEW q, q = [i \in DOMAIN fs |-> [fs[i] EXCEPT !.early = TRUE]]
      PROVE  q \in Seq(Frames) /\ Len(q) = Len(fs)
  <2>1. q \in [1 .. Len(fs) -> Frames]
    BY <1>1, <1>2, <1>3
  <2> QED
    BY <1>1, <2>1
<1>4. ASSUME NEW q, q = [i \in DOMAIN fs |-> [fs[i] EXCEPT !.before = TRUE]]
      PROVE  q \in Seq(Frames) /\ Len(q) = Len(fs)
  <2>1. q \in [1 .. Len(fs) -> Frames]
    BY <1>1, <1>2, <1>4
  <2> QED
    BY <1>1, <2>1
<1> QED
  BY <1>3, <1>4

Queues == [Client -> {q \in Seq(Frames) : Len(q) <= MAX_PENDING_CONNECTION_FRAMES}]

LEMMA QueuesTyped ==
    ClientTypes => queue \in Queues
  BY DEF ClientTypes, Queues

LEMMA NoFrames == <<>> \in {q \in Seq(Frames) : Len(q) <= MAX_PENDING_CONNECTION_FRAMES}
  BY CollaborationAssumption

LEMMA WaitingTyped ==
    ASSUME ClientTypes, NEW r \in Rooms, NEW paused \in BOOLEAN, NEW c \in Client
    PROVE  Waiting(r, paused, queue[c])
             \in {q \in Seq(Frames) : Len(q) <= MAX_PENDING_CONNECTION_FRAMES}
<1>1. queue[c] \in Seq(Frames) /\ Len(queue[c]) <= MAX_PENDING_CONNECTION_FRAMES
  BY DEF ClientTypes
<1>2. /\ Waiting(r, paused, queue[c]) \in Seq(Frames)
      /\ Len(Waiting(r, paused, queue[c])) <= Len(queue[c])
  BY <1>1, QueueForm
<1>3. Len(Waiting(r, paused, queue[c])) \in Nat /\ Len(queue[c]) \in Nat
  BY <1>1, <1>2
<1> QED
  BY <1>1, <1>2, <1>3, CollaborationAssumption

LEMMA StillTyped ==
    ASSUME ClientTypes, NEW r \in Rooms, NEW paused \in BOOLEAN
    PROVE  StillQueued(r, paused) \in Queues
<1>1. \A c \in Client : queue[c] \in {q \in Seq(Frames) : Len(q) <= MAX_PENDING_CONNECTION_FRAMES}
  BY DEF ClientTypes
<1>2. \A c \in Client : Waiting(r, paused, queue[c])
        \in {q \in Seq(Frames) : Len(q) <= MAX_PENDING_CONNECTION_FRAMES}
  BY WaitingTyped
<1> QED
  BY <1>1, <1>2 DEF StillQueued, Queues

Conns  == [Client -> {"off", "upgrade", "pending", "joining", "on", "orphan"}]
Locals == [Client -> SUBSET Edit]
Outs   == [Client -> Seq(SUBSET Edit)]
Owned(f) == \A c \in Client : f[c] \subseteq {e \in Edit : Author[e] = c}

LEMMA ClientParts ==
    /\ ClientTypes => /\ conn \in Conns /\ local \in Locals /\ Owned(local)
                      /\ marker \in [Client -> BOOLEAN] /\ out \in Outs /\ queue \in Queues
    /\ conn' \in Conns /\ local' \in Locals /\ Owned(local') /\ marker' \in [Client -> BOOLEAN]
         /\ out' \in Outs /\ queue' \in Queues => ClientTypes'
<1>1. queue' \in Queues =>
        queue' \in [Client -> Seq(Frames)]
        /\ \A c \in Client : Len(queue'[c]) <= MAX_PENDING_CONNECTION_FRAMES
  BY DEF Queues
<1>2. /\ conn' \in Conns /\ local' \in Locals /\ Owned(local')
         /\ marker' \in [Client -> BOOLEAN] /\ out' \in Outs /\ queue' \in Queues => ClientTypes'
  BY <1>1 DEF Conns, Locals, Owned, Outs, ClientTypes
<1>3. ClientTypes => /\ conn \in Conns /\ local \in Locals /\ Owned(local)
                     /\ marker \in [Client -> BOOLEAN] /\ out \in Outs /\ queue \in Queues
  BY QueuesTyped DEF Conns, Locals, Owned, Outs, ClientTypes
<1> QED
  BY <1>2, <1>3

LEMMA DetachedTyped ==
    ASSUME ClientTypes, NEW c \in Client, NEW r, Detached(c, r)
    PROVE  conn' \in Conns /\ out' \in Outs /\ queue' \in Queues
<1>1. conn \in Conns /\ out \in Outs /\ queue \in Queues
  BY ClientParts
<1>2. conn' \in Conns
  BY <1>1 DEF Detached, Conns
<1>3. out' \in Outs
  BY <1>1 DEF Detached, Outs
<1>4. queue' \in Queues
  BY <1>1, NoFrames DEF Detached, Queues
<1> QED
  BY <1>2, <1>3, <1>4

LEMMA ReceiveTyped ==
    ASSUME ClientTypes, NEW c \in Client, Receive(c)
    PROVE  conn' \in Conns /\ out' \in Outs /\ queue' \in Queues
<1> DEFINE f == [body |-> Head(out[c]), early |-> FALSE, before |-> FALSE]
<1>1. conn \in Conns /\ out \in Outs /\ queue \in Queues
  BY ClientParts
<1>2. out[c] \in Seq(SUBSET Edit) /\ out[c] # <<>>
      /\ queue[c] \in Seq(Frames) /\ Len(queue[c]) \in Nat
  BY <1>1 DEF Receive, Outs, Queues
<1>3. Tail(out[c]) \in Seq(SUBSET Edit) /\ Head(out[c]) \in SUBSET Edit
  BY <1>2
<1>4. f \in Frames
  BY <1>3 DEF Frames
<1>5. [out EXCEPT ![c] = Tail(@)] \in Outs
  BY <1>1, <1>3 DEF Outs
<1> HIDE DEF f
<1>6. Len(queue[c]) < MAX_PENDING_CONNECTION_FRAMES
        => [queue EXCEPT ![c] = Append(@, f)] \in Queues
  <2>1. Append(queue[c], f) \in Seq(Frames) /\ Len(Append(queue[c], f)) = Len(queue[c]) + 1
    BY <1>2, <1>4
  <2>2. Len(queue[c]) < MAX_PENDING_CONNECTION_FRAMES
          => Len(Append(queue[c], f)) <= MAX_PENDING_CONNECTION_FRAMES
    BY <1>2, <2>1, CollaborationAssumption
  <2> QED
    BY <1>1, <2>1, <2>2 DEF Queues
<1>7. \/ conn' = conn /\ queue' = queue /\ out' = [out EXCEPT ![c] = Tail(@)]
      \/ /\ Len(queue[c]) < MAX_PENDING_CONNECTION_FRAMES
         /\ conn' = conn /\ queue' = [queue EXCEPT ![c] = Append(@, f)]
         /\ out' = [out EXCEPT ![c] = Tail(@)]
      \/ Detached(c, room)
  BY DEF Receive, f
<1> QED
  BY <1>1, <1>5, <1>6, <1>7, DetachedTyped

LEMMA AttachTyped ==
    ASSUME Sound, NEW c \in Client, Attach(c)
    PROVE  conn' \in Conns /\ out' \in Outs /\ queue' \in Queues
           /\ local' \in Locals /\ Owned(local')
<1>1. ClientTypes /\ conn \in Conns /\ out \in Outs /\ queue \in Queues
      /\ local \in Locals /\ Owned(local) /\ conn[c] = "joining" /\ Paused \in BOOLEAN
  BY ClientParts DEF Sound, TypeOK, Attach, Paused
<1>2. Loaded /\ room \in Rooms
  BY <1>1, BusyLoaded DEF Sound, Shape
<1> DEFINE r == [room EXCEPT !.clients = @ \cup {c}, !.idle = FALSE]
           missing == (local[c] \ r.items) \ r.gone
<1>3. r \in Rooms
  BY <1>2 DEF Rooms
<1>4. missing \in SUBSET Edit
  BY <1>1 DEF Locals
<1>5. /\ queue' = [queue EXCEPT ![c] = Waiting(r, Paused, @)]
      /\ local' = [local EXCEPT ![c] = @ \ r.gone]
      /\ out' = IF missing = {} THEN out ELSE [out EXCEPT ![c] = Append(@, missing)]
      /\ conn' = [conn EXCEPT ![c] = "on"]
  BY DEF Attach
<1> HIDE DEF r, missing
<1>6. queue' \in Queues
  <2>1. Waiting(r, Paused, queue[c])
          \in {q \in Seq(Frames) : Len(q) <= MAX_PENDING_CONNECTION_FRAMES}
    BY <1>1, <1>3, WaitingTyped
  <2> QED
    BY <1>1, <1>5, <2>1 DEF Queues
<1>7. local' \in Locals
  BY <1>1, <1>5 DEF Locals
<1>8. Owned(local')
  BY <1>1, <1>5 DEF Locals, Owned
<1>9. out' \in Outs
  BY <1>1, <1>4, <1>5 DEF Outs
<1>10. conn' \in Conns
  BY <1>1, <1>5 DEF Conns
<1> QED
  BY <1>6, <1>7, <1>8, <1>9, <1>10

\* The steps in which no client takes part.
Apart ==
    \/ LoadRead \/ PersistTimer \/ PersistStat \/ PersistExport \/ PersistCompare
    \/ PersistWrite \/ PersistState \/ PersistLand \/ PersistFails
    \/ (\E w \in Syncer : SyncRead(w) \/ SyncCache(w) \/ SyncFails(w))
    \/ (\E x \in External : ExternalWrite(x)) \/ Echo \/ WatcherEvent
    \/ (\E a \in Agent : AgentCold(a) \/ AgentBegin(a))
    \/ AgentCheck \/ AgentTyped \/ AgentCommit \/ AgentFails \/ AgentStore
    \/ UnloadBegin \/ BarrierDrain \/ BarrierDrained \/ Captured \/ MoveFile \/ Rekey

LEMMA ApartForm ==
    ASSUME Apart
    PROVE  UNCHANGED clientVars /\ wiped' = wiped
<1>1. CASE LoadRead \/ PersistTimer \/ PersistStat \/ PersistExport \/ PersistCompare
  BY <1>1 DEF LoadRead, PersistTimer, PersistStat, PersistExport, PersistCompare,
              clientVars, ghostVars
<1>2. CASE PersistWrite \/ PersistState \/ PersistLand \/ PersistFails
  BY <1>2 DEF PersistWrite, PersistState, PersistLand, PersistFails, clientVars, ghostVars
<1>3. CASE \E w \in Syncer : SyncRead(w) \/ SyncCache(w) \/ SyncFails(w)
  BY <1>3 DEF SyncRead, SyncCache, SyncFails, clientVars, ghostVars
<1>4. CASE (\E x \in External : ExternalWrite(x)) \/ Echo \/ WatcherEvent
             \/ (\E a \in Agent : AgentCold(a) \/ AgentBegin(a))
  BY <1>4 DEF ExternalWrite, Echo, WatcherEvent, AgentCold, AgentBegin, clientVars, ghostVars
<1>5. CASE AgentCheck \/ AgentTyped \/ AgentCommit \/ AgentFails \/ AgentStore
  BY <1>5 DEF AgentCheck, AgentTyped, AgentCommit, AgentFails, AgentStore, clientVars,
              ghostVars
<1>6. CASE UnloadBegin \/ BarrierDrain \/ BarrierDrained \/ Captured \/ MoveFile \/ Rekey
  BY <1>6 DEF UnloadBegin, BarrierDrain, BarrierDrained, Captured, MoveFile, Rekey,
              clientVars, ghostVars
<1> QED
  BY <1>1, <1>2, <1>3, <1>4, <1>5, <1>6 DEF Apart

\* Every step is one of these.
LEMMA Steps ==
    ASSUME Next
    PROVE  \/ Apart
           \/ \E c \in Client : \/ Attach(c) \/ Receive(c) \/ Upgrade(c) \/ Connect(c)
                                \/ Drop(c) \/ \E e \in Edit : LocalEdit(c, e)
           \/ LoadImport \/ PersistSettle \/ PersistRecord
           \/ (\E w \in Syncer : SyncApply(w))
           \/ AgentHold \/ AgentAdopt \/ AgentRelease
           \/ (\E kind \in Barriers : BarrierBegin(kind)) \/ BarrierEnd
           \/ UnloadEnd \/ Crash
  BY DEF Next, System, Environment, Save, AgentStep, BarrierStep, Apart

LEMMA EditTyped ==
    ASSUME ClientTypes, NEW c \in Client, NEW e \in Edit, LocalEdit(c, e)
    PROVE  ClientTypes'
<1>1. conn \in Conns /\ local \in Locals /\ Owned(local) /\ marker \in [Client -> BOOLEAN]
      /\ out \in Outs /\ queue \in Queues
  BY ClientParts
<1>2. /\ local' = [local EXCEPT ![c] = @ \cup {e}] /\ Author[e] = c
      /\ marker' = [marker EXCEPT ![c] = TRUE]
      /\ out' \in {out, [out EXCEPT ![c] = @ \o <<{e}, Intent>>]}
      /\ conn' = conn /\ queue' = queue
  BY DEF LocalEdit
<1>3. local' \in Locals
  BY <1>1, <1>2 DEF Locals
<1>4. Owned(local')
  BY <1>1, <1>2 DEF Locals, Owned
<1>5. out' \in Outs
  <2>1. <<{e}, Intent>> \in Seq(SUBSET Edit) /\ out[c] \in Seq(SUBSET Edit)
    BY <1>1 DEF Intent, Outs
  <2>2. out[c] \o <<{e}, Intent>> \in Seq(SUBSET Edit)
    BY <2>1
  <2> QED
    BY <1>1, <1>2, <2>2 DEF Outs
<1>6. marker' \in [Client -> BOOLEAN]
  BY <1>1, <1>2
<1> QED
  BY <1>1, <1>2, <1>3, <1>4, <1>5, <1>6, ClientParts

LEMMA ConnectTyped ==
    ASSUME ClientTypes, NEW c \in Client, Upgrade(c) \/ Connect(c)
    PROVE  ClientTypes'
<1>1. conn \in Conns /\ local \in Locals /\ Owned(local) /\ marker \in [Client -> BOOLEAN]
      /\ out \in Outs /\ queue \in Queues
  BY ClientParts
<1>2. /\ local' = local /\ marker' = marker /\ queue' = queue
      /\ \E v \in {"off", "upgrade", "pending", "joining"} : conn' = [conn EXCEPT ![c] = v]
      /\ out' = out \/ \E v \in {<<>>, <<Intent>>} : out' = [out EXCEPT ![c] = v]
  BY DEF Upgrade, Connect
<1>3. conn' \in Conns
  BY <1>1, <1>2 DEF Conns
<1>4. out' \in Outs
  <2>1. <<>> \in Seq(SUBSET Edit) /\ <<Intent>> \in Seq(SUBSET Edit)
    BY DEF Intent
  <2> QED
    BY <1>1, <1>2, <2>1 DEF Outs
<1> QED
  BY <1>1, <1>2, <1>3, <1>4, ClientParts

LEMMA MarkedTyped ==
    ASSUME ClientTypes, BarrierBegin("move") \/ BarrierBegin("capture") \/ AgentHold
    PROVE  queue' \in Queues
<1>1. /\ queue \in Queues
      /\ \/ queue' = [c \in Client |-> [i \in DOMAIN queue[c] |-> [queue[c][i] EXCEPT !.early = TRUE]]]
         \/ queue' = [c \in Client |-> [i \in DOMAIN queue[c] |-> [queue[c][i] EXCEPT !.before = TRUE]]]
  BY ClientParts DEF BarrierBegin, AgentHold
<1>2. \A c \in Client : queue'[c] \in Seq(Frames) /\ Len(queue'[c]) = Len(queue[c])
  <2>1. TAKE c \in Client
  <2>2. queue[c] \in Seq(Frames)
    BY <1>1 DEF Queues
  <2>3. \/ queue'[c] = [i \in DOMAIN queue[c] |-> [queue[c][i] EXCEPT !.early = TRUE]]
        \/ queue'[c] = [i \in DOMAIN queue[c] |-> [queue[c][i] EXCEPT !.before = TRUE]]
    BY <1>1
  <2> QED
    BY <2>2, <2>3, MarkTyped
<1>3. queue' = [c \in Client |-> queue'[c]]
  BY <1>1
<1>4. \A c \in Client : queue'[c] \in {q \in Seq(Frames) : Len(q) <= MAX_PENDING_CONNECTION_FRAMES}
  BY <1>1, <1>2 DEF Queues
<1> QED
  BY <1>3, <1>4 DEF Queues

LEMMA ClientStep ==
    ASSUME Sound, Next
    PROVE  ClientTypes'
<1>1. /\ ClientTypes /\ conn \in Conns /\ local \in Locals /\ Owned(local)
      /\ marker \in [Client -> BOOLEAN] /\ out \in Outs /\ queue \in Queues
  BY ClientParts DEF Sound, TypeOK
<1>2. CASE Apart
  <2>1. conn' = conn /\ local' = local /\ marker' = marker /\ out' = out /\ queue' = queue
    BY <1>2, ApartForm DEF clientVars
  <2> QED
    BY <1>1, <2>1, ClientParts
<1>3. ASSUME NEW c \in Client, Attach(c) PROVE ClientTypes'
  <2>1. marker' = marker
    BY <1>3 DEF Attach
  <2> QED
    BY <1>1, <1>3, <2>1, AttachTyped, ClientParts
<1>4. ASSUME NEW c \in Client, Receive(c) PROVE ClientTypes'
  <2>1. marker' = marker /\ local' = local
    BY <1>4 DEF Receive
  <2> QED
    BY <1>1, <1>4, <2>1, ReceiveTyped, ClientParts
<1>5. ASSUME NEW c \in Client, Drop(c) PROVE ClientTypes'
  <2>1. marker' = marker /\ local' = local /\ Detached(c, room)
    BY <1>5 DEF Drop
  <2> QED
    BY <1>1, <2>1, DetachedTyped, ClientParts
<1>6. ASSUME NEW c \in Client, Upgrade(c) \/ Connect(c) PROVE ClientTypes'
  BY <1>1, <1>6, ConnectTyped
<1>7. ASSUME NEW c \in Client, NEW e \in Edit, LocalEdit(c, e) PROVE ClientTypes'
  BY <1>1, <1>7, EditTyped
<1>8. CASE LoadImport
  <2>1. /\ conn' = [c \in Client |-> IF conn[c] = "pending" THEN "joining" ELSE conn[c]]
        /\ local' = local /\ marker' = marker /\ out' = out /\ queue' = queue
    BY <1>8 DEF LoadImport
  <2>2. conn' \in Conns
    BY <1>1, <2>1 DEF Conns
  <2> QED
    BY <1>1, <2>1, <2>2, ClientParts
<1>9. CASE PersistSettle \/ PersistRecord
  <2>1. /\ conn' = conn /\ local' = local /\ out' = out /\ queue' = queue
        /\ \E r, had, igen : marker' = AcksFor(r, had, igen)
    <3>1. CASE PersistSettle
      BY <3>1 DEF PersistSettle
    <3>2. CASE PersistRecord
      BY <3>2 DEF PersistRecord
    <3> QED
      BY <1>9, <3>1, <3>2
  <2> QED
    BY <1>1, <2>1, AcksTyped, ClientParts
<1>10. ASSUME NEW w \in Syncer, SyncApply(w) PROVE ClientTypes'
  <2>1. /\ conn' = conn /\ out' = out /\ queue' = queue
        /\ \/ marker' = marker /\ local' = local
           \/ /\ \E r, had, igen : marker' = AcksFor(r, had, igen)
              /\ \E clients, lost : local' = [c \in Client |->
                    IF c \in clients THEN local[c] \ lost ELSE local[c]]
    BY <1>10 DEF SyncApply
  <2>2. CASE marker' = marker /\ local' = local
    BY <1>1, <2>1, <2>2, ClientParts
  <2>3. ASSUME NEW r, NEW had, NEW igen, marker' = AcksFor(r, had, igen),
               NEW clients, NEW lost, local' = [c \in Client |->
                    IF c \in clients THEN local[c] \ lost ELSE local[c]]
        PROVE  ClientTypes'
    <3>1. marker' \in [Client -> BOOLEAN]
      BY <1>1, <2>3, AcksTyped
    <3>2. local' \in Locals /\ Owned(local')
      BY <1>1, <2>3, LocalTyped DEF Locals, Owned
    <3> QED
      BY <1>1, <2>1, <3>1, <3>2, ClientParts
  <2> QED
    BY <2>1, <2>2, <2>3
<1>11. CASE AgentAdopt
  <2>1. /\ conn' = conn /\ out' = out /\ queue' = queue
        /\ \/ marker' = marker /\ local' = local
           \/ /\ \E r, had, igen : marker' = AcksFor(r, had, igen)
              /\ \E clients, lost : local' = [c \in Client |->
                    IF c \in clients THEN local[c] \ lost ELSE local[c]]
    <3> DEFINE lost == room.items \ slot.blocks
    <3>1. /\ conn' = conn /\ out' = out /\ queue' = queue
          /\ \/ marker' = marker /\ local' = local
             \/ /\ marker' = AcksFor(room, room.intent, room.igen)
                /\ local' = [c \in Client |->
                      IF c \in room.clients THEN local[c] \ lost ELSE local[c]]
      BY <1>11 DEF AgentAdopt
    <3> QED
      BY <3>1
  <2>2. CASE marker' = marker /\ local' = local
    BY <1>1, <2>1, <2>2, ClientParts
  <2>3. ASSUME NEW r, NEW had, NEW igen, marker' = AcksFor(r, had, igen),
               NEW clients, NEW lost, local' = [c \in Client |->
                    IF c \in clients THEN local[c] \ lost ELSE local[c]]
        PROVE  ClientTypes'
    <3>1. marker' \in [Client -> BOOLEAN]
      BY <1>1, <2>3, AcksTyped
    <3>2. local' \in Locals /\ Owned(local')
      BY <1>1, <2>3, LocalTyped DEF Locals, Owned
    <3> QED
      BY <1>1, <2>1, <3>1, <3>2, ClientParts
  <2> QED
    BY <2>1, <2>2, <2>3
<1>12. CASE AgentHold \/ \E kind \in Barriers : BarrierBegin(kind)
  <2>1. BarrierBegin("move") \/ BarrierBegin("capture") \/ AgentHold
    BY <1>12, CollaborationAssumption
  <2>2. conn' = conn /\ local' = local /\ marker' = marker /\ out' = out
    BY <2>1 DEF AgentHold, BarrierBegin
  <2> QED
    BY <1>1, <2>1, <2>2, MarkedTyped, ClientParts
<1>13. CASE AgentRelease \/ BarrierEnd
  <2>1. conn' = conn /\ local' = local /\ marker' = marker /\ out' = out
    BY <1>13 DEF AgentRelease, BarrierEnd
  <2>2. queue' \in Queues
    <3>1. CASE AgentRelease
      <4> DEFINE r == [room EXCEPT !.hold = FALSE]
      <4>1. room \in Rooms /\ Paused \in BOOLEAN
        BY <3>1, BusyLoaded DEF AgentRelease, Busy, Paused
      <4>2. r \in Rooms
        BY <4>1 DEF Rooms
      <4>3. queue' = StillQueued(r, Paused)
        BY <3>1 DEF AgentRelease
      <4> HIDE DEF r
      <4> QED
        BY <1>1, <4>1, <4>2, <4>3, StillTyped
    <3>2. CASE BarrierEnd
      <4>1. CASE Loaded
        BY <1>1, <3>2, <4>1, BusyLoaded, StillTyped DEF BarrierEnd
      <4>2. CASE ~Loaded
        BY <1>1, <3>2, <4>2 DEF BarrierEnd
      <4> QED
        BY <4>1, <4>2
    <3> QED
      BY <1>13, <3>1, <3>2
  <2> QED
    BY <1>1, <2>1, <2>2, ClientParts
<1>14. CASE UnloadEnd
  <2>1. /\ local' = local /\ marker' = marker /\ out' = out
        /\ \/ conn' = conn /\ queue' = queue
           \/ /\ conn' = [c \in Client |-> IF conn[c] = "joining" THEN "orphan" ELSE conn[c]]
              /\ queue' = [c \in Client |-> IF conn[c] = "joining" THEN <<>> ELSE queue[c]]
    BY <1>14 DEF UnloadEnd, Destroyed
  <2>2. conn' \in Conns
    BY <1>1, <2>1 DEF Conns
  <2>3. queue' \in Queues
    BY <1>1, <2>1, NoFrames DEF Queues
  <2> QED
    BY <1>1, <2>1, <2>2, <2>3, ClientParts
<1>15. CASE Crash
  <2>1. /\ local' = local /\ marker' = marker
        /\ conn' = [c \in Client |-> "off"]
        /\ out' = [c \in Client |-> <<>>] /\ queue' = [c \in Client |-> <<>>]
    BY <1>15 DEF Crash
  <2>2. conn' \in Conns /\ out' \in Outs
    BY <2>1 DEF Conns, Outs
  <2>3. queue' \in Queues
    BY <2>1, NoFrames DEF Queues
  <2> QED
    BY <1>1, <2>1, <2>2, <2>3, ClientParts
<1> QED
  BY <1>2, <1>3, <1>4, <1>5, <1>6, <1>7, <1>8, <1>9, <1>10, <1>11, <1>12, <1>13,
     <1>14, <1>15, Steps

-----------------------------------------------------------------------------
(* The types of what is counted and remembered                             *)

LEMMA EventsStep ==
    ASSUME events \in 0 .. MaxEvents, Next
    PROVE  events' \in 0 .. MaxEvents
<1>1. events' = events \/ Bounded
  <2>1. CASE LoadRead \/ PersistTimer \/ PersistStat \/ PersistExport \/ PersistCompare
    BY <2>1 DEF LoadRead, PersistTimer, PersistStat, PersistExport, PersistCompare
  <2>2. CASE PersistWrite \/ PersistState \/ PersistLand \/ PersistFails
    BY <2>2 DEF PersistWrite, PersistState, PersistLand, PersistFails
  <2>3. CASE \E w \in Syncer : SyncRead(w) \/ SyncCache(w) \/ SyncFails(w)
    BY <2>3 DEF SyncRead, SyncCache, SyncFails
  <2>4. CASE (\E x \in External : ExternalWrite(x)) \/ Echo \/ WatcherEvent
               \/ (\E a \in Agent : AgentCold(a) \/ AgentBegin(a))
    BY <2>4 DEF ExternalWrite, Echo, WatcherEvent, AgentCold, AgentBegin
  <2>5. CASE AgentCheck \/ AgentTyped \/ AgentCommit \/ AgentFails \/ AgentStore
    BY <2>5 DEF AgentCheck, AgentTyped, AgentCommit, AgentFails, AgentStore
  <2>6. CASE UnloadBegin \/ BarrierDrain \/ BarrierDrained \/ Captured \/ MoveFile \/ Rekey
    BY <2>6 DEF UnloadBegin, BarrierDrain, BarrierDrained, Captured, MoveFile, Rekey
  <2>7. CASE \E c \in Client : Attach(c) \/ Receive(c) \/ Upgrade(c) \/ Connect(c)
    BY <2>7 DEF Attach, Receive, Upgrade, Connect
  <2>8. CASE \E c \in Client : Drop(c) \/ \E e \in Edit : LocalEdit(c, e)
    BY <2>8 DEF Drop, LocalEdit
  <2>9. CASE LoadImport \/ PersistSettle \/ PersistRecord
    BY <2>9 DEF LoadImport, PersistSettle, PersistRecord
  <2>10. CASE \E w \in Syncer : SyncApply(w)
    BY <2>10 DEF SyncApply
  <2>11. CASE AgentHold \/ AgentAdopt \/ AgentRelease
    BY <2>11 DEF AgentHold, AgentAdopt, AgentRelease
  <2>12. CASE (\E kind \in Barriers : BarrierBegin(kind)) \/ BarrierEnd
    BY <2>12 DEF BarrierBegin, BarrierEnd
  <2>13. CASE UnloadEnd \/ Crash
    BY <2>13 DEF UnloadEnd, Crash
  <2> QED
    BY <2>1, <2>2, <2>3, <2>4, <2>5, <2>6, <2>7, <2>8, <2>9, <2>10, <2>11, <2>12,
       <2>13, Steps DEF Apart
<1>2. CASE Bounded
  <2>1. events < MaxEvents /\ events' = events + 1
    BY <1>2 DEF Bounded
  <2> QED
    BY <2>1, CollaborationAssumption
<1> QED
  BY <1>1, <1>2

\* The steps that nothing outside the room, the slot and the files remembers.
Unnoted ==
    \/ LoadRead \/ PersistTimer \/ PersistExport \/ PersistCompare \/ PersistSettle
    \/ PersistRecord \/ PersistState \/ PersistLand
    \/ (\E w \in Syncer : SyncRead(w) \/ SyncCache(w))
    \/ Echo \/ WatcherEvent \/ (\E a \in Agent : AgentBegin(a))
    \/ AgentCheck \/ AgentTyped \/ AgentHold \/ AgentFails \/ AgentStore
    \/ UnloadBegin \/ BarrierDrain \/ BarrierDrained \/ Captured \/ MoveFile \/ Rekey
    \/ \E c \in Client : Upgrade(c) \/ Connect(c) \/ \E e \in Edit : LocalEdit(c, e)

LEMMA UnnotedForm ==
    ASSUME Unnoted
    PROVE  UNCHANGED ghostVars
<1>1. CASE LoadRead \/ PersistTimer \/ PersistExport \/ PersistCompare
  BY <1>1 DEF LoadRead, PersistTimer, PersistExport, PersistCompare
<1>2. CASE PersistSettle \/ PersistRecord \/ PersistState \/ PersistLand
  BY <1>2 DEF PersistSettle, PersistRecord, PersistState, PersistLand
<1>3. CASE \E w \in Syncer : SyncRead(w) \/ SyncCache(w)
  BY <1>3 DEF SyncRead, SyncCache
<1>4. CASE Echo \/ WatcherEvent \/ (\E a \in Agent : AgentBegin(a))
  BY <1>4 DEF Echo, WatcherEvent, AgentBegin
<1>5. CASE AgentCheck \/ AgentTyped \/ AgentHold \/ AgentFails \/ AgentStore
  BY <1>5 DEF AgentCheck, AgentTyped, AgentHold, AgentFails, AgentStore
<1>6. CASE UnloadBegin \/ BarrierDrain \/ BarrierDrained \/ Captured \/ MoveFile \/ Rekey
  BY <1>6 DEF UnloadBegin, BarrierDrain, BarrierDrained, Captured, MoveFile, Rekey
<1>7. CASE \E c \in Client : Upgrade(c) \/ Connect(c) \/ \E e \in Edit : LocalEdit(c, e)
  BY <1>7 DEF Upgrade, Connect, LocalEdit
<1> QED
  BY <1>1, <1>2, <1>3, <1>4, <1>5, <1>6, <1>7 DEF Unnoted

\* The steps that are remembered.
LEMMA NotedSteps ==
    ASSUME Next
    PROVE  \/ Unnoted
           \/ \E c \in Client : Attach(c) \/ Receive(c) \/ Drop(c)
           \/ LoadImport \/ PersistStat \/ PersistWrite \/ PersistFails
           \/ (\E w \in Syncer : SyncApply(w) \/ SyncFails(w))
           \/ (\E x \in External : ExternalWrite(x)) \/ (\E a \in Agent : AgentCold(a))
           \/ AgentCommit \/ AgentAdopt \/ AgentRelease
           \/ (\E kind \in Barriers : BarrierBegin(kind)) \/ BarrierEnd
           \/ UnloadEnd \/ Crash
  BY DEF Next, System, Environment, Save, AgentStep, BarrierStep, Unnoted

LEMMA QueuedEdits ==
    ASSUME ClientTypes
    PROVE  (\A c \in Client : QueuedBy(c) \in SUBSET Edit) /\ Queued \in SUBSET Edit
<1>1. ASSUME NEW c \in Client PROVE QueuedBy(c) \in SUBSET Edit
  <2> DEFINE fs == queue[c]
  <2>1. fs \in Seq(Frames)
    BY DEF ClientTypes
  <2> HIDE DEF fs
  <2>2. \A i \in DOMAIN fs : fs[i] \in Frames
    BY <2>1
  <2>3. \A f \in Frames : f.body \in SUBSET Edit
    BY DEF Frames
  <2> QED
    BY <2>2, <2>3 DEF QueuedBy, fs
<1> QED
  BY <1>1 DEF Queued

\* What the room was told, by each step.
LEMMA ToldStep ==
    ASSUME Sound, Next
    PROVE  told' \in SUBSET Edit
<1>1. told \in SUBSET Edit
  BY DEF Sound, TypeOK, GhostTypes
<1>2. CASE Unnoted
  BY <1>1, <1>2, UnnotedForm DEF ghostVars
<1>3. CASE \/ PersistStat \/ PersistWrite \/ PersistFails
           \/ (\E w \in Syncer : SyncApply(w) \/ SyncFails(w))
           \/ (\E x \in External : ExternalWrite(x)) \/ (\E a \in Agent : AgentCold(a))
           \/ AgentCommit \/ AgentAdopt
           \/ (\E c \in Client : Drop(c)) \/ \E kind \in Barriers : BarrierBegin(kind)
  <2>1. told' = told
    <3>1. CASE PersistStat \/ PersistWrite \/ PersistFails
      BY <3>1 DEF PersistStat, PersistWrite, PersistFails
    <3>2. CASE \E w \in Syncer : SyncApply(w) \/ SyncFails(w)
      BY <3>2 DEF SyncApply, SyncFails
    <3>3. CASE (\E x \in External : ExternalWrite(x)) \/ (\E a \in Agent : AgentCold(a))
      BY <3>3 DEF ExternalWrite, AgentCold
    <3>4. CASE AgentCommit \/ AgentAdopt
      BY <3>4 DEF AgentCommit, AgentAdopt
    <3>5. CASE (\E c \in Client : Drop(c)) \/ \E kind \in Barriers : BarrierBegin(kind)
      BY <3>5 DEF Drop, BarrierBegin
    <3> QED
      BY <1>3, <3>1, <3>2, <3>3, <3>4, <3>5
  <2> QED
    BY <1>1, <2>1
<1>4. ASSUME NEW c \in Client, Attach(c) PROVE told' \in SUBSET Edit
  BY <1>4, AttachForm DEF Follows, Grows
<1>5. ASSUME NEW c \in Client, Receive(c) PROVE told' \in SUBSET Edit
  BY <1>1, <1>5, ReceiveForm DEF Follows, Grows
<1>6. CASE AgentRelease
  BY <1>6, AgentReleaseForm DEF Grows
<1>7. CASE BarrierEnd
  BY <1>1, <1>7, BarrierEndForm DEF Follows, Grows
<1>8. CASE LoadImport \/ UnloadEnd \/ Crash
  BY <1>1, <1>8 DEF LoadImport, UnloadEnd, Destroyed, Crash
<1> QED
  BY <1>2, <1>3, <1>4, <1>5, <1>6, <1>7, <1>8, NotedSteps

LEMMA InRoomEdits ==
    ASSUME Sound PROVE InRoom \in SUBSET Edit
  BY DEF InRoom

\* The rest of what is remembered.
Memory == /\ wiped \in SUBSET Edit /\ kept \in Content /\ forgotten \in SUBSET Edit
          /\ collided \in BOOLEAN /\ crossed \in BOOLEAN /\ faulted \in BOOLEAN
          /\ shot \in [due : SUBSET Edit, allowed : Content]

LEMMA DetachedShot ==
    ASSUME Memory, NEW c \in Client, NEW r, Detached(c, r)
    PROVE  shot' \in [due : SUBSET Edit, allowed : Content]
<1> DEFINE lost == QueuedBy(c) \ InRoom
<1>1. shot' = [shot EXCEPT !.due = @ \ lost]
  BY DEF Detached
<1> HIDE DEF lost
<1> QED
  BY <1>1 DEF Memory

LEMMA AcceptedTyped ==
    ASSUME Sound
    PROVE  Accepted \in Content
<1>1. /\ slot \in Slots /\ sync \in [Syncer -> Syncs] /\ cache \in States \cup {None}
      /\ kept \in Content /\ ClientTypes
  BY BusyLoaded DEF Sound, TypeOK, DocTypes, GhostTypes
<1>2. InRoom \in SUBSET Edit /\ Queued \in SUBSET Edit
  BY <1>1, InRoomEdits, QueuedEdits
<1>3. ASSUME NEW st \in States \cup {None}
      PROVE  ShownBy(st) \in Content
  BY <1>3 DEF ShownBy, States, Content
<1>4. ShownBy(cache) \in Content /\ ShownBy(slot.state) \in Content
  BY <1>1, <1>3 DEF Slots
<1>5. \A w \in Syncer : ShownBy(sync[w].state) \in Content
  BY <1>1, <1>3 DEF Syncs
<1>6. UNION {ShownBy(sync[w].state) : w \in Syncer} \in Content
  BY <1>5 DEF Content
<1>7. slot.blocks \in Content
  BY <1>1 DEF Slots
<1> QED
  BY <1>1, <1>2, <1>4, <1>6, <1>7 DEF Accepted, Content

LEMMA MemoryStep ==
    ASSUME Sound, Next
    PROVE  Memory'
<1>1. /\ Memory /\ slot.blocks \in Content /\ slot.item \in Agent \cup {None}
      /\ file.items \in Content /\ ClientTypes
  BY SlotTask, BusyLoaded DEF Sound, TypeOK, GhostTypes, Memory, Slots
<1>2. CASE Unnoted
  BY <1>1, <1>2, UnnotedForm DEF Memory, ghostVars
<1>3. ASSUME NEW c \in Client, Attach(c) \/ Receive(c) \/ Drop(c)
      PROVE  Memory'
  <2>1. /\ wiped' = wiped /\ kept' = kept /\ forgotten' = forgotten
        /\ collided' = collided /\ crossed' = crossed /\ faulted' = faulted
    BY <1>3 DEF Attach, Receive, Drop
  <2>2. shot' = shot \/ \E r : Detached(c, r)
    BY <1>3 DEF Attach, Receive, Drop
  <2>3. shot' \in [due : SUBSET Edit, allowed : Content]
    BY <1>1, <2>2, DetachedShot DEF Memory
  <2> QED
    BY <1>1, <2>1, <2>3 DEF Memory
<1>4. CASE LoadImport \/ AgentRelease
  BY <1>1, <1>4 DEF LoadImport, AgentRelease, Memory
<1>5. CASE PersistStat
  <2>1. /\ wiped' = wiped /\ kept' = kept /\ forgotten' = forgotten
        /\ crossed' = crossed /\ faulted' = faulted /\ shot' = shot
        /\ collided' \in BOOLEAN
    BY <1>1, <1>5 DEF PersistStat, Memory
  <2> QED
    BY <1>1, <2>1 DEF Memory
<1>6. CASE PersistWrite
  BY <1>1, <1>6 DEF PersistWrite, Memory, Content
<1>7. CASE PersistFails \/ \E w \in Syncer : SyncFails(w)
  BY <1>1, <1>7 DEF PersistFails, SyncFails, Memory
<1>8. ASSUME NEW w \in Syncer, SyncApply(w) PROVE Memory'
  <2>1. /\ kept' = kept /\ forgotten' = forgotten
        /\ collided' = collided /\ faulted' = faulted /\ shot' = shot
        /\ crossed' \in BOOLEAN
        /\ wiped' = wiped \/ \E lost : wiped' = wiped \cup (lost \cap Edit)
    BY <1>1, <1>8 DEF SyncApply, Memory
  <2> QED
    BY <1>1, <2>1 DEF Memory
<1>9. CASE AgentAdopt
  <2> DEFINE lost == room.items \ slot.blocks
  <2>1. /\ kept' = kept /\ forgotten' = forgotten
        /\ collided' = collided /\ faulted' = faulted /\ shot' = shot
        /\ crossed' = crossed
        /\ wiped' = wiped \/ wiped' = wiped \cup (lost \cap Edit)
    BY <1>9 DEF AgentAdopt
  <2> QED
    BY <1>1, <2>1 DEF Memory
<1>10. ASSUME NEW x \in External, ExternalWrite(x) PROVE Memory'
  <2>1. /\ wiped' = wiped /\ forgotten' = forgotten /\ crossed' = crossed
        /\ faulted' = faulted /\ shot' = shot /\ kept' = kept \cup {x}
        /\ collided' \in BOOLEAN
    BY <1>1, <1>10 DEF ExternalWrite, Memory
  <2> QED
    BY <1>1, <2>1 DEF Memory, Content
<1>11. ASSUME NEW a \in Agent, AgentCold(a) PROVE Memory'
  <2>1. /\ wiped' = wiped /\ forgotten' = forgotten /\ crossed' = crossed
        /\ faulted' = faulted /\ shot' = shot /\ kept' = kept \cup {a}
        /\ collided' \in BOOLEAN
    BY <1>1, <1>11 DEF AgentCold, Memory
  <2> QED
    BY <1>1, <2>1 DEF Memory, Content
<1>12. CASE AgentCommit
  <2>1. /\ wiped' = wiped /\ forgotten' = forgotten /\ crossed' = crossed
        /\ faulted' = faulted /\ shot' = shot /\ collided' = collided
    BY <1>12 DEF AgentCommit
  <2>2. kept' \in Content
    BY <1>1, <1>12, CommitForm DEF Memory, Content
  <2> QED
    BY <1>1, <2>1, <2>2 DEF Memory
<1>13. ASSUME NEW kind \in Barriers, BarrierBegin(kind) PROVE Memory'
  <2>1. InRoom \in SUBSET Edit /\ Queued \in SUBSET Edit
    BY <1>1, InRoomEdits, QueuedEdits
  <2>2. InRoom \cup Queued \in SUBSET Edit /\ Accepted \in Content
    BY <2>1, AcceptedTyped
  <2>3. shot' = NoShot \/ shot' = [due |-> InRoom \cup Queued, allowed |-> Accepted]
    BY <1>13 DEF BarrierBegin
  <2>4. shot' \in [due : SUBSET Edit, allowed : Content]
    BY <2>2, <2>3 DEF NoShot, Content
  <2>5. /\ wiped' = wiped /\ kept' = kept /\ forgotten' = forgotten
        /\ collided' = collided /\ crossed' = crossed /\ faulted' = faulted
    BY <1>13 DEF BarrierBegin
  <2> QED
    BY <1>1, <2>4, <2>5 DEF Memory
<1>14. CASE BarrierEnd \/ Crash
  <2>1. NoShot \in [due : SUBSET Edit, allowed : Content]
    BY DEF NoShot, Content
  <2>2. /\ wiped' = wiped /\ kept' = kept /\ forgotten' = forgotten
        /\ collided' = collided /\ crossed' = crossed /\ faulted' \in {faulted, TRUE}
        /\ shot' = NoShot
    BY <1>14 DEF BarrierEnd, Crash
  <2> QED
    BY <1>1, <2>1, <2>2 DEF Memory
<1>15. CASE UnloadEnd
  <2>1. /\ wiped' = wiped /\ kept' = kept /\ shot' = shot
        /\ collided' = collided /\ crossed' = crossed /\ faulted' = faulted
        /\ \/ forgotten' = forgotten
           \/ forgotten' = forgotten \cup (InRoom \ file.items)
                \cup UNION {QueuedBy(c) : c \in {d \in Client : conn[d] = "joining"}}
    BY <1>15 DEF UnloadEnd, Destroyed
  <2>2. UNION {QueuedBy(c) : c \in {d \in Client : conn[d] = "joining"}} \in SUBSET Edit
    BY <1>1, QueuedEdits
  <2>3. forgotten' \in SUBSET Edit
    BY <1>1, <2>1, <2>2, InRoomEdits DEF Memory
  <2> QED
    BY <1>1, <2>1, <2>3 DEF Memory
<1> QED
  BY <1>2, <1>3, <1>4, <1>5, <1>6, <1>7, <1>8, <1>9, <1>10, <1>11, <1>12, <1>13,
     <1>14, <1>15, NotedSteps

LEMMA GhostStep ==
    ASSUME Sound, Next
    PROVE  GhostTypes'
<1>1. events' \in 0 .. MaxEvents
  BY EventsStep DEF Sound, TypeOK, GhostTypes
<1>2. told' \in SUBSET Edit
  BY ToldStep
<1>3. Memory'
  BY MemoryStep
<1> QED
  BY <1>1, <1>2, <1>3 DEF GhostTypes, Memory

-----------------------------------------------------------------------------
(* The types of what is loaded, watched and barred                         *)

\* The steps that load nothing, unload nothing and leave the barrier.
Inner ==
    \/ \E c \in Client : \/ Attach(c) \/ Receive(c) \/ Drop(c) \/ Upgrade(c)
                         \/ \E e \in Edit : LocalEdit(c, e)
    \/ PersistTimer \/ Save \/ PersistFails
    \/ (\E w \in Syncer : SyncRead(w) \/ SyncApply(w) \/ SyncCache(w) \/ SyncFails(w))
    \/ (\E x \in External : ExternalWrite(x)) \/ Echo \/ WatcherEvent
    \/ (\E a \in Agent : AgentCold(a) \/ AgentBegin(a)) \/ AgentStep \/ AgentFails

LEMMA InnerForm ==
    ASSUME Inner
    PROVE  UNCHANGED <<load, unloading, barrier>>
<1>1. CASE \E c \in Client : \/ Attach(c) \/ Receive(c) \/ Drop(c) \/ Upgrade(c)
                             \/ \E e \in Edit : LocalEdit(c, e)
  BY <1>1 DEF Attach, Receive, Drop, Upgrade, LocalEdit, roomVars
<1>2. CASE PersistTimer \/ PersistStat \/ PersistExport \/ PersistCompare \/ PersistSettle
  BY <1>2 DEF PersistTimer, PersistStat, PersistExport, PersistCompare, PersistSettle
<1>3. CASE PersistWrite \/ PersistRecord \/ PersistState \/ PersistLand \/ PersistFails
  BY <1>3 DEF PersistWrite, PersistRecord, PersistState, PersistLand, PersistFails
<1>4. CASE \E w \in Syncer : SyncRead(w) \/ SyncApply(w) \/ SyncCache(w) \/ SyncFails(w)
  BY <1>4 DEF SyncRead, SyncApply, SyncCache, SyncFails
<1>5. CASE (\E x \in External : ExternalWrite(x)) \/ Echo \/ WatcherEvent
  BY <1>5 DEF ExternalWrite, Echo, WatcherEvent, roomVars
<1>6. CASE (\E a \in Agent : AgentCold(a) \/ AgentBegin(a)) \/ AgentCheck \/ AgentTyped
             \/ AgentHold
  BY <1>6 DEF AgentCold, AgentBegin, AgentCheck, AgentTyped, AgentHold, roomVars
<1>7. CASE AgentCommit \/ AgentFails \/ AgentAdopt \/ AgentStore \/ AgentRelease
  BY <1>7 DEF AgentCommit, AgentFails, AgentAdopt, AgentStore, AgentRelease
<1> QED
  BY <1>1, <1>2, <1>3, <1>4, <1>5, <1>6, <1>7 DEF Inner, Save, AgentStep

LEMMA OuterSteps ==
    ASSUME Next
    PROVE  \/ Inner \/ (\E c \in Client : Connect(c)) \/ LoadRead \/ LoadImport
           \/ UnloadBegin \/ UnloadEnd \/ Crash
           \/ (\E kind \in Barriers : BarrierBegin(kind)) \/ BarrierDrain \/ BarrierDrained
           \/ Captured \/ MoveFile \/ Rekey \/ BarrierEnd
  BY DEF Next, System, Environment, BarrierStep, Inner

Loading == /\ load \in [pc : {"idle", "read", "import"}, items : Content, stamp : Nat]
           /\ unloading \in Place \cup {None}
           /\ barrier \in [pc : {"idle", "settle", "drain", "hold", "rekey", "end"},
                           kind : {"none", "move", "capture"}]

LEMMA LoadingStep ==
    ASSUME Sound, Next
    PROVE  Loading'
<1>1. Loading
  BY DEF Sound, TypeOK, RoomTypes, WatchTypes, Loading
<1>2. CASE Inner
  BY <1>1, <1>2, InnerForm DEF Loading
<1>3. ASSUME NEW c \in Client, Connect(c) PROVE Loading'
  <2>1. /\ unloading' = unloading /\ barrier' = barrier
        /\ load' \in {load, [load EXCEPT !.pc = "read"]}
    BY <1>3 DEF Connect
  <2> QED
    BY <1>1, <2>1 DEF Loading
<1>4. CASE LoadRead
  BY <1>1, <1>4, SlotTask DEF LoadRead, Loading
<1>5. CASE LoadImport
  BY <1>1, <1>5 DEF LoadImport, Loading, IdleLoad, Content
<1>6. CASE UnloadBegin
  <2>1. room.key \in Place
    BY <1>6, BusyLoaded DEF UnloadBegin, Rooms
  <2> QED
    BY <1>1, <1>6, <2>1 DEF UnloadBegin, Loading
<1>7. CASE UnloadEnd
  BY <1>1, <1>7 DEF UnloadEnd, Loading
<1>8. CASE Crash
  BY <1>1, <1>8 DEF Crash, Loading, IdleLoad, IdleBarrier, Content
<1>9. ASSUME NEW kind \in Barriers, BarrierBegin(kind) PROVE Loading'
  BY <1>1, <1>9, CollaborationAssumption DEF BarrierBegin, Loading, roomVars
<1>10. CASE BarrierDrain \/ BarrierDrained \/ Captured
  <2>1. /\ load' = load /\ unloading' = unloading
        /\ \E p \in {"drain", "end", "hold"} : barrier' = [barrier EXCEPT !.pc = p]
    BY <1>10 DEF BarrierDrain, BarrierDrained, Captured, roomVars
  <2> QED
    BY <1>1, <2>1 DEF Loading
<1>11. CASE MoveFile \/ Rekey
  BY <1>1, <1>11 DEF MoveFile, Rekey, Loading, roomVars
<1>12. CASE BarrierEnd
  BY <1>1, <1>12 DEF BarrierEnd, Loading, IdleBarrier
<1> QED
  BY <1>2, <1>3, <1>4, <1>5, <1>6, <1>7, <1>8, <1>9, <1>10, <1>11, <1>12, OuterSteps

-----------------------------------------------------------------------------
(* The slot and the syncs                                                  *)

Holding(s) == s.pc \in Handing \/ (s.pc = "sync" /\ s.task = "follow")

\* What Shape and the types say of the slot and the syncs.
Slotted ==
  /\ slot \in Slots /\ sync \in [Syncer -> Syncs]
  /\ slot.pc = "idle" => slot.task \in {"none", "failed"} /\ Clear(slot)
  /\ slot.pc \in Saving => slot.task \in {"persist", "replay", "typed"} /\ slot.key \in Place
  /\ slot.pc = "sync" => slot.task \in {"persist", "replay"} \cup DOMAIN NextStage
  /\ slot.pc \in {"check", "typed", "hold"} \cup Handing => slot.task \in DOMAIN NextStage
  /\ slot.task \in DOMAIN NextStage => slot.item \in Agent /\ slot.path \in Place
  /\ slot.pc \in {"compare", "settle", "write", "state"} => slot.prov \in Versions
  /\ slot.pc \in {"settle", "land", "store"} => slot.state \in States
  /\ slot.pc = "commit" => slot.key = slot.path
  /\ \A w \in Syncer : sync[w].pc = "cache" => sync[w].state \in States
  /\ (sync["slot"].pc # "idle") = (slot.pc = "sync")

\* What they say of the room ...
Roomed ==
  /\ room \in Rooms \cup {None}
  /\ Loaded => /\ room.items \cap room.gone = {} /\ room.saved <= room.gen
               /\ room.hold = Holding(slot)
               /\ slot.gen <= room.gen /\ slot.igen <= room.igen
  /\ ~Loaded => ~Busy

\* ... and of its clients.
Joined ==
  /\ Loaded => room.clients = {c \in Client : conn[c] = "on"} /\ load.pc = "idle"
  /\ ~Loaded => unloading = None /\ \A c \in Client : conn[c] \notin {"joining", "on"}

Noticed == event \in BOOLEAN /\ pending \in [items : Content, gen : Nat] \cup {None}

LEMMA SoundParts ==
    Sound <=> DocTypes /\ Noticed /\ ClientTypes /\ GhostTypes /\ Loading
                /\ Slotted /\ Roomed /\ Joined
  BY DEF Sound, TypeOK, Shape, RoomTypes, WatchTypes, RoomFits, Noticed, Loading,
     Slotted, Roomed, Joined, Holding

\* A slot that turned, by what its task was.
LEMMA TurnedSlotted ==
    ASSUME Sound, slot' \in Slots, sync' \in [Syncer -> Syncs],
           Clear(slot'), Turned(slot, slot'),
           (sync'["slot"].pc # "idle") = (slot'.pc = "sync"),
           \A w \in Syncer : sync'[w].pc = "cache" => sync'[w].state \in States
    PROVE  Slotted'
<1>1. /\ slot'.pc = "idle" => slot'.task \in {"none", "failed"} /\ Clear(slot')
      /\ slot'.pc \in Saving => slot'.task \in {"persist", "replay", "typed"} /\ slot'.key \in Place
      /\ slot'.pc = "sync" => slot'.task \in {"persist", "replay"} \cup DOMAIN NextStage
  BY Stages DEF Turned, Saving
<1>2. /\ slot'.pc \in {"check", "typed", "hold"} \cup Handing => slot'.task \in DOMAIN NextStage
      /\ slot'.pc \notin {"compare", "settle", "write", "state", "land", "store", "commit"}
  BY Stages DEF Turned, Handing
<1>3. slot'.task \in DOMAIN NextStage => slot'.item \in Agent /\ slot'.path \in Place
  BY Stages DEF Turned, Sound, Shape
<1> QED
  BY <1>1, <1>2, <1>3 DEF Slotted

\* A slot at another stage of the same work.
LEMMA WorkedSlotted ==
    ASSUME Sound, slot' \in Slots, sync' = sync, slot.pc # "sync",
           slot'.pc \in Working \cup {"typed", "hold", "release"},
           slot'.task = slot.task, slot'.item = slot.item, slot'.path = slot.path,
           slot'.pc \in Saving => slot.pc \in Saving /\ slot'.key = slot.key,
           slot'.pc \notin Saving => slot.pc \notin Saving \cup {"idle"},
           slot'.pc \in {"compare", "settle", "write", "state"} => slot'.prov \in Versions,
           slot'.pc \in {"settle", "land", "store"} => slot'.state \in States,
           slot'.pc = "commit" => slot'.key = slot.path
    PROVE  Slotted'
<1>1. Slotted
  BY SoundParts
<1>2. slot.pc \in Stage
  BY SlotTask
<1>3. /\ slot'.pc \in Saving => slot'.task \in {"persist", "replay", "typed"} /\ slot'.key \in Place
      /\ slot'.pc \notin {"idle", "sync"}
  BY <1>1 DEF Slotted, Working
<1>4. slot'.pc \in {"check", "typed", "hold"} \cup Handing => slot'.task \in DOMAIN NextStage
  BY <1>1, <1>2, Stages DEF Slotted, Saving, Handing, Stage
<1> QED
  BY <1>1, <1>3, <1>4 DEF Slotted

LEMMA TurnsSlotted ==
    ASSUME Sound, slot.pc # "sync", Turns(sync)
    PROVE  Slotted'
<1>1. Slotted
  BY SoundParts
<1>2. \A w \in Syncer : sync'[w] = sync[w] \/ sync'[w].pc = "read"
  BY <1>1 DEF Turns, Syncer, Slotted
<1>3. (sync'["slot"].pc # "idle") = (slot'.pc = "sync")
  BY <1>1 DEF Turns, Slotted
<1>4. \A w \in Syncer : sync'[w].pc = "cache" => sync'[w].state \in States
  BY <1>1, <1>2 DEF Slotted
<1> QED
  BY <1>3, <1>4, TurnedSlotted DEF Turns

\* What becomes of a room's pause when the slot turns.
LEMMA TurnedHolding ==
    ASSUME Sound, Turned(slot, slot'), Comes, slot.pc \in Saving \cup {"sync"}
    PROVE  Holding(slot') = Holding(slot)
<1>1. slot.pc \in Saving => slot.task \in {"persist", "replay", "typed"}
  BY DEF Sound, Shape
<1>2. CASE slot.task = "follow"
  BY <1>1, <1>2 DEF Comes, Holding, Handing
<1>3. CASE slot.task # "follow"
  <2>1. ~Holding(slot)
    BY <1>3 DEF Holding, Saving, Handing
  <2>2. slot'.task # "follow" /\ slot'.pc \notin Handing
    BY <1>3, Stages DEF Turned, Handing
  <2> QED
    BY <2>1, <2>2 DEF Holding
<1> QED
  BY <1>2, <1>3

LEMMA RunsSlotted ==
    ASSUME Sound, Runs
    PROVE  Slotted' /\ Holding(slot') = Holding(slot)
<1>1. CASE slot' = slot /\ sync' = sync
  BY <1>1, SoundParts DEF Slotted, Holding, Clear
<1>2. CASE ~Busy /\ Turns(sync) /\ slot'.task = "persist" /\ slot'.pc \in {"stat", "sync"}
  <2>1. slot.pc = "idle"
    BY <1>2 DEF Busy
  <2> QED
    BY <1>2, <2>1, TurnsSlotted DEF Holding, Handing
<1> QED
  BY <1>1, <1>2 DEF Runs

LEMMA ReturnsSlotted ==
    ASSUME Sound, slot.pc \in Saving, Returns
    PROVE  Slotted' /\ Holding(slot') = Holding(slot)
  BY TurnsSlotted, TurnedHolding DEF Returns, Turns, Saving

LEMMA EndedSlotted ==
    ASSUME Sound, NEW w \in Syncer, sync[w].pc # "idle", Ended(w)
    PROVE  Slotted' /\ Holding(slot') = Holding(slot)
<1>1. Slotted
  BY SoundParts
<1>2. CASE w = "slot"
  <2>1. \A v \in Syncer : sync'[v].pc = "cache" => sync'[v] = sync[v]
    BY <1>2 DEF Ended, Syncer
  <2>2. (sync'["slot"].pc # "idle") = (slot'.pc = "sync")
    BY <1>2 DEF Ended
  <2>3. \A v \in Syncer : sync'[v].pc = "cache" => sync'[v].state \in States
    BY <1>1, <2>1 DEF Slotted
  <2> QED
    BY <1>2, <2>2, <2>3, TurnedSlotted, TurnedHolding DEF Ended
<1>3. CASE w = "watcher"
  <2>1. \A v \in Syncer : sync'[v].pc = "cache" => sync'[v] = sync[v]
    BY <1>3 DEF Ended, Syncer
  <2>2. sync' \in [Syncer -> Syncs] /\ slot' = slot /\ sync'["slot"] = sync["slot"]
    BY <1>3 DEF Ended
  <2> QED
    BY <1>1, <2>1, <2>2 DEF Slotted, Holding, Clear
<1> QED
  BY <1>2, <1>3 DEF Syncer

LEMMA ResyncsSlotted ==
    ASSUME Sound, NEW r, NEW task, Resyncs(r, task), slot.pc # "sync",
           task \in {"persist", "replay"} \cup DOMAIN NextStage,
           task \in DOMAIN NextStage => slot.task \in DOMAIN NextStage
    PROVE  Slotted' /\ Holding(slot') = (task = "follow")
<1>1. Slotted
  BY SoundParts
<1>2. \A w \in Syncer : sync'[w] = sync[w] \/ sync'[w].pc = "read"
  BY DEF Resyncs, Syncer
<1>3. \A w \in Syncer : sync'[w].pc = "cache" => sync'[w].state \in States
  BY <1>1, <1>2 DEF Slotted
<1>4. /\ slot' \in Slots /\ slot'.pc = "sync" /\ slot'.task = task
      /\ slot'.item = slot.item /\ slot'.path = slot.path
  BY DEF Resyncs, Carries
<1>5. Holding(slot') = (task = "follow")
  BY <1>4 DEF Holding, Handing
<1> QED
  BY <1>1, <1>3, <1>4, <1>5 DEF Slotted, Resyncs, Saving, Handing

-----------------------------------------------------------------------------
(* The room                                                                *)

\* What a step leaves of the counters that the slot took from the room.
Counters == /\ slot'.gen \in {0, slot.gen} \/ (Loaded /\ slot'.gen = room.gen)
            /\ slot'.igen \in {0, slot.igen} \/ (Loaded /\ slot'.igen = room.igen)

LEMMA Counting ==
    ASSUME Sound, Loaded, Counters
    PROVE  slot'.gen <= room.gen /\ slot'.igen <= room.igen
<1>1. slot.gen <= room.gen /\ slot.igen <= room.igen /\ room \in Rooms
  BY BusyLoaded DEF Sound, Shape
<1>2. room.gen \in Nat /\ room.igen \in Nat
  BY <1>1 DEF Rooms
<1> QED
  BY <1>1, <1>2 DEF Counters

LEMMA GrowsRoomed ==
    ASSUME Sound, Grows, room'.saved = room.saved, room'.hold = Holding(slot'), Counters
    PROVE  Roomed'
<1>1. /\ room \in Rooms /\ room' \in Rooms /\ room.items \cap room.gone = {}
      /\ room.saved <= room.gen
  BY BusyLoaded DEF Grows, Sound, TypeOK, RoomFits
<1>2. /\ room.gen \in Nat /\ room'.gen \in Nat /\ room.saved \in Nat
      /\ room.igen \in Nat /\ room'.igen \in Nat
  BY <1>1 DEF Rooms
<1>3. /\ slot'.gen <= room.gen /\ slot'.igen <= room.igen
      /\ slot'.gen \in Nat /\ slot'.igen \in Nat
  BY <1>2, Counting, SlotTask DEF Grows, Counters
<1>4. room'.items \cap room'.gone = {}
  BY <1>1 DEF Grows
<1>5. room'.saved <= room'.gen
  BY <1>1, <1>2 DEF Grows
<1>6. slot'.gen <= room'.gen
  BY <1>2, <1>3 DEF Grows
<1>7. room.igen <= room'.igen
  BY <1>2 DEF Grows
<1>8. slot'.igen <= room'.igen
  BY <1>2, <1>3, <1>7
<1>9. Loaded'
  BY DEF Grows
<1> QED
  BY <1>1, <1>4, <1>5, <1>6, <1>8, <1>9 DEF Roomed

LEMMA SameRoomed ==
    ASSUME Sound, Loaded, Loaded', room' \in Rooms, Same(room', room),
           room'.saved <= room'.gen, Holding(slot') = Holding(slot), Counters
    PROVE  Roomed'
<1>1. room.items \cap room.gone = {} /\ room.hold = Holding(slot)
  BY SoundParts DEF Roomed
<1> QED
  BY <1>1, Counting DEF Same, Roomed

LEMMA StaysRoomed ==
    ASSUME Sound, Loaded, Stays, Holding(slot') = Holding(slot), Counters
    PROVE  Roomed'
<1>1. room' \in Rooms /\ Same(room', room) /\ room'.saved = room.saved /\ room'.gen = room.gen
  BY DEF Stays, Alike, Same
<1>2. room.saved <= room.gen
  BY SoundParts DEF Roomed
<1>3. Loaded'
  BY <1>1, NoneAssumption DEF Loaded
<1> QED
  BY <1>1, <1>2, <1>3, SameRoomed

LEMMA HeldRoom ==
    ASSUME Sound, Loaded
    PROVE  room.hold = Holding(slot) /\ room.saved <= room.gen
  BY SoundParts DEF Roomed

\* Nothing that concerns the slot happens.
LEMMA SlotSame ==
    ASSUME Sound, slot' = slot
    PROVE  Counters /\ Holding(slot') = Holding(slot) /\ (sync' = sync => Slotted')
  BY SoundParts DEF Counters, Slotted, Holding, Clear

LEMMA RoomSame ==
    ASSUME Sound, slot' = slot, sync' = sync, room' = room
    PROVE  Slotted' /\ Roomed'
<1>1. Slotted'
  BY SlotSame
<1>2. Roomed /\ Holding(slot') = Holding(slot)
  BY SoundParts, SlotSame
<1>3. Roomed'
  BY <1>2 DEF Roomed, Loaded, Busy
<1> QED
  BY <1>1, <1>3

LEMMA TurnsCounters ==
    ASSUME Clear(slot')
    PROVE  Counters
  BY DEF Clear, Counters

Fits == Slotted /\ Roomed

LEMMA FollowsFits ==
    ASSUME Sound, Follows, slot' = slot, sync' = sync
    PROVE  Fits'
<1>1. room.hold = Holding(slot) /\ Loaded
  BY HeldRoom DEF Follows, Grows
<1> QED
  BY <1>1, SlotSame, GrowsRoomed DEF Fits, Follows

LEMMA BrowsersFit ==
    ASSUME Sound, NEW c \in Client, Attach(c) \/ Receive(c) \/ Drop(c)
    PROVE  Fits'
<1>1. slot' = slot /\ sync' = sync
  BY DEF Attach, Receive, Drop
<1>2. CASE Attach(c)
  BY <1>1, <1>2, AttachForm, FollowsFits
<1>3. ASSUME Detached(c, room), told' = told PROVE Fits'
  <2>1. IF Loaded THEN Follows ELSE room' = None
    BY <1>3, DetachedForm
  <2> QED
    BY <1>1, <2>1, FollowsFits, RoomSame DEF Fits, Loaded
<1>4. CASE Receive(c)
  BY <1>1, <1>3, <1>4, ReceiveForm, FollowsFits, RoomSame DEF Fits
<1>5. CASE Drop(c)
  BY <1>3, <1>5 DEF Drop
<1> QED
  BY <1>2, <1>4, <1>5

\* The steps that leave the room, its slot and the syncs as they are.
Beside ==
    \/ \E c \in Client : Upgrade(c) \/ Connect(c) \/ \E e \in Edit : LocalEdit(c, e)
    \/ LoadRead \/ Echo \/ (\E x \in External : ExternalWrite(x))
    \/ (\E a \in Agent : AgentCold(a)) \/ (\E kind \in Barriers : BarrierBegin(kind))
    \/ BarrierDrained \/ Captured \/ MoveFile

LEMMA BesideForm ==
    ASSUME Beside
    PROVE  room' = room /\ slot' = slot /\ sync' = sync
<1>1. CASE \E c \in Client : Upgrade(c) \/ Connect(c) \/ \E e \in Edit : LocalEdit(c, e)
  BY <1>1 DEF Upgrade, Connect, LocalEdit, roomVars
<1>2. CASE LoadRead \/ Echo \/ (\E x \in External : ExternalWrite(x))
             \/ (\E a \in Agent : AgentCold(a))
  BY <1>2 DEF LoadRead, Echo, ExternalWrite, AgentCold, roomVars
<1>3. CASE (\E kind \in Barriers : BarrierBegin(kind)) \/ BarrierDrained \/ Captured
             \/ MoveFile
  BY <1>3 DEF BarrierBegin, BarrierDrained, Captured, MoveFile, roomVars
<1> QED
  BY <1>1, <1>2, <1>3 DEF Beside

LEMMA BarriersFit ==
    ASSUME Sound, PersistTimer \/ UnloadBegin \/ BarrierDrain \/ BarrierEnd \/ Rekey
    PROVE  Fits'
<1>1. CASE PersistTimer \/ UnloadBegin \/ BarrierDrain
  <2>1. CASE Loaded
    <3>1. Follows /\ Runs
      BY <1>1, <2>1, RunSteps
    <3>2. Slotted' /\ Holding(slot') = Holding(slot)
      BY <3>1, RunsSlotted
    <3>3. Counters
      BY <3>1, SlotSame, TurnsCounters DEF Runs, Turns
    <3> QED
      BY <2>1, <3>1, <3>2, <3>3, HeldRoom, GrowsRoomed DEF Follows, Fits
  <2>2. CASE ~Loaded
    BY <1>1, <2>2, RunSteps, RoomSame DEF Loaded, Fits
  <2> QED
    BY <2>1, <2>2
<1>2. CASE BarrierEnd
  <2>1. slot' = slot /\ sync' = sync
    BY <1>2 DEF BarrierEnd
  <2> QED
    BY <1>2, <2>1, BarrierEndForm, FollowsFits, RoomSame DEF Fits, Loaded
<1>3. CASE Rekey
  <2>1. slot' = slot /\ sync' = sync
    BY <1>3 DEF Rekey
  <2>2. CASE Loaded
    <3>1. room' = [room EXCEPT !.key = "new", !.timer = TRUE] /\ room \in Rooms
      BY <1>3, <2>2, BusyLoaded DEF Rekey
    <3>2. room' \in Rooms
      BY <3>1 DEF Rooms, Place
    <3>3. /\ room'.items = room.items /\ room'.gone = room.gone /\ room'.gen = room.gen
          /\ room'.igen = room.igen /\ room'.saved = room.saved /\ room'.hold = room.hold
      BY <3>1 DEF Rooms
    <3>4. Roomed'
      BY <2>1, <2>2, <3>2, <3>3, SoundParts, SlotSame, NoneAssumption DEF Roomed, Loaded
    <3> QED
      BY <2>1, <3>4, SlotSame DEF Fits
  <2>3. CASE ~Loaded
    BY <1>3, <2>1, <2>3, RoomSame DEF Rekey, Loaded, Fits
  <2> QED
    BY <2>2, <2>3
<1> QED
  BY <1>1, <1>2, <1>3

LEMMA EndsFit ==
    ASSUME Sound, UnloadEnd \/ Crash
    PROVE  Fits'
<1>1. CASE UnloadEnd
  <2>1. slot' = slot /\ slot.pc = "idle" /\ Slotted /\ Loaded
    BY <1>1, SoundParts DEF UnloadEnd, Busy, Joined
  <2>2. CASE UNCHANGED <<room, sync>>
    BY <2>1, <2>2, RoomSame DEF Fits
  <2>3. CASE Destroyed
    <3>1. room' = None /\ sync' = [sync EXCEPT !["watcher"].key = None]
      BY <2>3 DEF Destroyed
    <3>2. sync \in [Syncer -> Syncs] /\ sync["watcher"] \in Syncs
      BY <2>1 DEF Slotted, Syncer
    <3>3. [sync["watcher"] EXCEPT !.key = None] \in Syncs
      BY <3>2 DEF Syncs
    <3>4. /\ sync' \in [Syncer -> Syncs] /\ sync'["slot"] = sync["slot"]
          /\ sync'["watcher"].pc = sync["watcher"].pc
          /\ sync'["watcher"].state = sync["watcher"].state
      BY <3>1, <3>2, <3>3 DEF Syncer, Syncs
    <3>5. \A w \in Syncer : sync'[w].pc = "cache" => sync'[w].state \in States
      BY <2>1, <3>4 DEF Slotted, Syncer
    <3>6. Slotted'
      BY <2>1, <3>4, <3>5 DEF Slotted, Clear
    <3>7. Roomed'
      BY <2>1, <3>1 DEF Roomed, Loaded, Busy
    <3> QED
      BY <3>6, <3>7 DEF Fits
  <2> QED
    BY <1>1, <2>2, <2>3 DEF UnloadEnd
<1>2. CASE Crash
  <2>1. room' = None /\ slot' = IdleSlot /\ sync' = [w \in Syncer |-> IdleSync]
    BY <1>2 DEF Crash
  <2>2. Slotted'
    BY <2>1, Blanks, Stages DEF Slotted, Saving, Handing, Syncer
  <2>3. Roomed'
    BY <2>1, Blanks DEF Roomed, Loaded, Busy
  <2> QED
    BY <2>2, <2>3 DEF Fits
<1> QED
  BY <1>1, <1>2

LEMMA SavesFit ==
    ASSUME Sound, Save \/ PersistFails
    PROVE  Fits'
<1>1. Slotted
  BY SoundParts
<1>2. slot.pc \in Saving => Holding(slot) = FALSE /\ slot.pc # "sync"
  BY <1>1 DEF Slotted, Holding, Saving, Handing
<1>3. slot.pc \in Saving => slot.task \in {"persist", "replay", "typed"} /\ slot.pc # "sync"
  BY <1>1 DEF Slotted, Saving
<1>4. ASSUME Returns, slot.pc \in Saving
      PROVE  Slotted' /\ Holding(slot') = Holding(slot) /\ Counters
  BY <1>4, ReturnsSlotted, TurnsCounters DEF Returns, Turns
<1>5. ASSUME Resyncs(room, slot.task), slot.pc \in Saving
      PROVE  Slotted' /\ Holding(slot') = Holding(slot) /\ Counters
  <2>1. Slotted' /\ Holding(slot') = FALSE
    BY <1>3, <1>5, ResyncsSlotted, Stages
  <2>2. Counters
    BY <1>5 DEF Resyncs, Carries, Counters
  <2> QED
    BY <1>2, <1>5, <2>1, <2>2
<1>6. ASSUME slot.pc \in Saving, slot'.pc \in Saving \ {"stat"}, sync' = sync,
             slot' \in Slots, slot'.task = slot.task, slot'.key = slot.key,
             slot'.item = slot.item, slot'.path = slot.path,
             slot'.pc \in {"compare", "settle", "write", "state"} => slot'.prov \in Versions,
             slot'.pc \in {"settle", "land"} => slot'.state \in States
      PROVE  Slotted' /\ Holding(slot') = Holding(slot)
  <2>1. Slotted'
    BY <1>3, <1>6, WorkedSlotted DEF Working, Saving
  <2> QED
    BY <1>2, <1>6, <2>1 DEF Holding, Saving, Handing
<1>7. CASE PersistStat
  <2>1. slot.pc \in Saving /\ slot.pc = "stat"
    BY <1>7 DEF PersistStat, Saving
  <2>2. Follows
    BY <1>7, StatForm
  <2>3. ASSUME slot'.pc = "export", sync' = sync, slot' \in Slots, slot'.task = slot.task,
               slot'.key = slot.key, slot'.item = slot.item, slot'.path = slot.path,
               slot'.gen = slot.gen, slot'.igen = slot.igen
        PROVE  Slotted' /\ Holding(slot') = Holding(slot) /\ Counters
    BY <1>6, <2>1, <2>3 DEF Counters, Saving
  <2>4. Slotted' /\ Holding(slot') = Holding(slot) /\ Counters
    BY <1>4, <1>5, <1>7, <2>1, <2>3, StatForm
  <2> QED
    BY <2>2, <2>4, HeldRoom, GrowsRoomed DEF Follows, Grows, Fits
<1>8. CASE PersistExport
  <2>1. slot.pc \in Saving /\ prov \in Versions
    BY <1>8 DEF PersistExport, Saving, Sound, TypeOK, DocTypes
  <2>2. Slotted' /\ Holding(slot') = Holding(slot)
    BY <1>6, <1>8, <2>1, ExportForm DEF Saving
  <2>3. Counters /\ Follows
    BY <1>8, ExportForm DEF Counters, Follows, Grows
  <2> QED
    BY <2>2, <2>3, HeldRoom, GrowsRoomed DEF Follows, Grows, Fits
<1>9. CASE PersistCompare
  <2>1. slot.pc \in Saving /\ slot.pc = "compare" /\ slot.prov \in Versions
    BY <1>9, <1>1 DEF PersistCompare, Saving, Slotted
  <2>2. Keeps /\ room'.saved = room.saved
    BY <1>9, CompareForm
  <2>3. ASSUME slot'.pc = "write", Carries(slot, slot'), sync' = sync,
               slot' \in Slots, slot'.task = slot.task
        PROVE  Slotted' /\ Holding(slot') = Holding(slot) /\ Counters
    <3>1. slot'.prov = slot.prov /\ slot'.key = slot.key /\ slot'.item = slot.item
          /\ slot'.path = slot.path /\ slot'.gen = slot.gen /\ slot'.igen = slot.igen
      BY <2>3 DEF Carries
    <3> QED
      BY <1>6, <2>1, <2>3, <3>1 DEF Counters, Saving
  <2>4. ASSUME slot'.pc = "settle", sync' = sync, slot' \in Slots,
               slot'.task = slot.task, slot'.key = slot.key,
               slot'.gen = slot.gen, slot'.igen = slot.igen,
               slot'.prov = slot.prov, slot'.item = slot.item,
               slot'.path = slot.path, slot'.state \in States
        PROVE  Slotted' /\ Holding(slot') = Holding(slot) /\ Counters
    BY <1>6, <2>1, <2>4 DEF Counters, Saving
  <2>5. Slotted' /\ Holding(slot') = Holding(slot) /\ Counters
    BY <1>4, <1>5, <1>9, <2>1, <2>3, <2>4, CompareForm
  <2> QED
    BY <2>2, <2>5, HeldRoom, SameRoomed DEF Keeps, Same, Fits
<1>10. CASE PersistSettle \/ PersistLand
  <2>1. Keeps /\ Returns /\ room'.saved <= room'.gen
    BY <1>10, SettleForm, LandForm
  <2>2. slot.pc \in Saving
    BY <1>10 DEF PersistSettle, PersistLand, Saving
  <2> QED
    BY <1>4, <2>1, <2>2, SameRoomed DEF Keeps, Fits
<1>11. CASE PersistWrite
  <2>1. slot.pc \in Saving /\ Loaded /\ room' = room /\ Counters
    BY <1>11, WriteForm DEF PersistWrite, Saving, Counters
  <2>2. Slotted' /\ Holding(slot') = Holding(slot)
    BY <1>6, <1>11, <2>1, WriteForm DEF Saving
  <2> QED
    BY <2>1, <2>2, HeldRoom, BusyLoaded, SameRoomed DEF Same, Fits, Loaded
<1>12. CASE PersistRecord
  <2>1. slot.pc \in Saving /\ Keeps /\ room'.saved = room.saved
    BY <1>12, RecordForm DEF PersistRecord, Saving
  <2>2. Slotted' /\ Holding(slot') = Holding(slot)
    BY <1>6, <1>12, <2>1, RecordForm DEF Saving
  <2>3. Counters
    BY <1>12, RecordForm DEF Counters
  <2> QED
    BY <2>1, <2>2, <2>3, HeldRoom, SameRoomed DEF Keeps, Same, Fits
<1>13. CASE PersistState
  <2>1. slot.pc \in Saving /\ Loaded /\ room' = room /\ Counters
    BY <1>13, StateForm DEF PersistState, Saving, Counters
  <2>2. Slotted' /\ Holding(slot') = Holding(slot)
    BY <1>6, <1>13, <2>1, StateForm DEF Saving
  <2> QED
    BY <2>1, <2>2, HeldRoom, BusyLoaded, SameRoomed DEF Same, Fits, Loaded
<1>14. CASE PersistFails
  <2>1. slot.pc \in Saving /\ Follows /\ Returns
    BY <1>14, FailsForm DEF PersistFails, Saving
  <2> QED
    BY <1>4, <2>1, HeldRoom, GrowsRoomed DEF Follows, Grows, Fits
<1> QED
  BY <1>7, <1>8, <1>9, <1>10, <1>11, <1>12, <1>13, <1>14 DEF Save

LEMMA EndedFits ==
    ASSUME Sound, NEW w \in Syncer, sync[w].pc # "idle", Ended(w), Stays
    PROVE  Fits'
<1>1. Slotted' /\ Holding(slot') = Holding(slot)
  BY EndedSlotted
<1>2. Counters
  BY SlotSame, TurnsCounters DEF Ended, Syncer
<1>3. CASE Loaded
  BY <1>1, <1>2, <1>3, StaysRoomed DEF Fits
<1>4. CASE ~Loaded
  <2>1. slot' = slot /\ room' = room
    BY <1>4 DEF Ended, Stays, Loaded, Syncer
  <2>2. Roomed'
    BY <1>4, <2>1, SoundParts DEF Roomed, Loaded, Busy
  <2> QED
    BY <1>1, <2>2 DEF Fits
<1> QED
  BY <1>3, <1>4

\* A sync that goes on: the slot still waits for the one it waited for.
LEMMA GoesSlotted ==
    ASSUME Sound, NEW w \in Syncer, sync[w].pc # "idle", sync'[w].pc # "idle",
           slot' = slot, sync' \in [Syncer -> Syncs],
           \A v \in Syncer : v # w => sync'[v] = sync[v],
           sync'[w].pc = "cache" => sync'[w].state \in States
    PROVE  Slotted'
<1>1. Slotted
  BY SoundParts
<1>2. (sync'["slot"].pc # "idle") = (slot'.pc = "sync")
  BY <1>1 DEF Slotted, Syncer
<1>3. \A v \in Syncer : sync'[v].pc = "cache" => sync'[v].state \in States
  BY <1>1 DEF Slotted
<1> QED
  BY <1>1, <1>2, <1>3 DEF Slotted, Clear

LEMMA ReplacesRoomed ==
    ASSUME Sound, NEW w \in Syncer, Replaces(w), Holding(slot') = Holding(slot), Counters
    PROVE  Roomed'
<1>1. room \in Rooms /\ room' \in Rooms /\ room.hold = Holding(slot) /\ Loaded'
  BY BusyLoaded, HeldRoom DEF Replaces
<1>2. room.gen \in Nat /\ room'.gen = room.gen + 1 /\ room'.saved = room'.gen
      /\ room'.igen = room.igen
  BY <1>1 DEF Rooms, Replaces
<1>3. slot'.gen <= room.gen /\ slot'.igen <= room.igen /\ slot'.gen \in Nat
  BY <1>2, Counting, SlotTask DEF Replaces, Counters
<1>4. slot'.gen <= room'.gen /\ slot'.igen <= room'.igen /\ room'.saved <= room'.gen
  BY <1>2, <1>3
<1>5. room'.items \cap room'.gone = {} /\ room'.hold = Holding(slot')
  BY <1>1 DEF Replaces
<1> QED
  BY <1>1, <1>4, <1>5 DEF Roomed

LEMMA SyncsFit ==
    ASSUME Sound, NEW w \in Syncer,
           SyncRead(w) \/ SyncApply(w) \/ SyncCache(w) \/ SyncFails(w)
    PROVE  Fits'
<1>1. sync[w].pc # "idle"
  BY DEF SyncRead, SyncApply, SyncCache, SyncFails
<1>2. CASE SyncRead(w)
  <2>1. ASSUME room' = room, slot' = slot, sync' \in [Syncer -> Syncs],
               sync'[w].pc = "apply", \A v \in Syncer : v # w => sync'[v] = sync[v]
        PROVE  Fits'
    <3>1. Slotted'
      BY <1>1, <2>1, GoesSlotted
    <3>2. Roomed'
      BY <2>1, SoundParts DEF Roomed, Loaded, Busy, Holding
    <3> QED
      BY <3>1, <3>2 DEF Fits
  <2> QED
    BY <1>1, <1>2, <2>1, ReadForm, EndedFits
<1>3. CASE SyncApply(w)
  <2>1. ASSUME Replaces(w), Ended(w) PROVE Fits'
    <3>1. Slotted' /\ Holding(slot') = Holding(slot)
      BY <1>1, <2>1, EndedSlotted
    <3>2. Counters
      BY <2>1, SlotSame, TurnsCounters DEF Ended, Syncer
    <3> QED
      BY <2>1, <3>1, <3>2, ReplacesRoomed DEF Fits
  <2>2. ASSUME Replaces(w), slot' = slot, sync' \in [Syncer -> Syncs],
               sync'[w].pc = "cache", sync'[w].state \in States,
               \A v \in Syncer : v # w => sync'[v] = sync[v]
        PROVE  Fits'
    <3>1. Slotted'
      BY <1>1, <2>2, GoesSlotted
    <3>2. Counters /\ Holding(slot') = Holding(slot)
      BY <2>2, SlotSame
    <3> QED
      BY <2>2, <3>1, <3>2, ReplacesRoomed DEF Fits
  <2> QED
    BY <1>1, <1>3, <2>1, <2>2, ApplyForm, EndedFits
<1>4. CASE SyncCache(w) \/ SyncFails(w)
  BY <1>1, <1>4, CacheForm, EndedFits
<1> QED
  BY <1>2, <1>3, <1>4

LEMMA WatcherFits ==
    ASSUME Sound, WatcherEvent
    PROVE  Fits'
<1>1. slot' = slot /\ Stays /\ sync' \in [Syncer -> Syncs] /\ sync'["slot"] = sync["slot"]
      /\ (sync'["watcher"] = sync["watcher"] \/ sync'["watcher"].pc = "read")
  BY WatcherForm
<1>2. Slotted /\ Counters /\ Holding(slot') = Holding(slot)
  BY <1>1, SoundParts, SlotSame
<1>3. \A v \in Syncer : sync'[v].pc = "cache" => sync'[v].state \in States
  BY <1>1, <1>2 DEF Slotted, Syncer
<1>4. Slotted'
  BY <1>1, <1>2, <1>3 DEF Slotted, Clear
<1>5. Roomed'
  <2>1. CASE Loaded
    BY <1>1, <1>2, <2>1, StaysRoomed
  <2>2. CASE ~Loaded
    <3>1. room' = room
      BY <1>1, <2>2 DEF Stays, Loaded
    <3> QED
      BY <1>1, <2>2, <3>1, SoundParts DEF Roomed, Loaded, Busy
  <2> QED
    BY <2>1, <2>2
<1> QED
  BY <1>4, <1>5 DEF Fits

\* An agent's step that leaves the room as it is.
LEMMA AdvancesFit ==
    ASSUME Sound, Loaded, room' = room, NEW p, Advances(p),
           \/ p = "typed" /\ slot.pc = "check"
           \/ p = "hold" /\ slot.pc = "typed"
           \/ p = "release" /\ slot.pc \in {"commit", "store"}
    PROVE  Fits'
<1>1. /\ slot' \in Slots /\ slot'.pc = p /\ slot'.task = slot.task /\ sync' = sync
      /\ slot'.item = slot.item /\ slot'.path = slot.path /\ Counters
  BY DEF Advances, Carries, Counters
<1>2. slot.pc \notin Saving \cup {"sync", "idle"} /\ slot'.pc \notin Saving
  BY <1>1 DEF Saving
<1>3. Slotted'
  BY <1>1, <1>2, WorkedSlotted DEF Working
<1>4. Holding(slot') = Holding(slot)
  BY <1>1 DEF Holding, Handing
<1> QED
  BY <1>1, <1>3, <1>4, HeldRoom, BusyLoaded, SameRoomed DEF Same, Fits, Loaded

LEMMA AgentsFit ==
    ASSUME Sound, (\E a \in Agent : AgentBegin(a)) \/ AgentCheck \/ AgentTyped \/ AgentHold
    PROVE  Fits'
<1>1. CASE \E a \in Agent : AgentBegin(a)
  <2>1. PICK a \in Agent : AgentBegin(a)
    BY <1>1
  <2>2. /\ Loaded /\ Stays /\ slot.pc = "idle" /\ slot' \in Slots /\ Clear(slot')
        /\ slot'.pc \in {"sync", "check"} /\ slot'.task = "required" /\ slot'.item = a
        /\ slot'.path = room.key
        /\ sync' \in [Syncer -> Syncs] /\ sync'["watcher"] = sync["watcher"]
        /\ slot'.pc = "sync" => sync'["slot"].pc = "read"
        /\ slot'.pc # "sync" => sync'["slot"] = sync["slot"]
    BY <2>1, BeginForm
  <2>3. Slotted /\ room.key \in Place
    BY <2>2, SoundParts, BusyLoaded DEF Rooms
  <2>4. (sync'["slot"].pc # "idle") = (slot'.pc = "sync")
    BY <2>2, <2>3 DEF Slotted
  <2>5. \A v \in Syncer : sync'[v].pc = "cache" => sync'[v].state \in States
    BY <2>2, <2>3, <2>4 DEF Slotted, Syncer
  <2>6. Slotted'
    BY <2>2, <2>3, <2>4, <2>5, Stages DEF Slotted, Saving, Handing
  <2>7. Holding(slot') = FALSE /\ Holding(slot) = FALSE
    BY <2>2 DEF Holding, Handing
  <2> QED
    BY <2>2, <2>6, <2>7, TurnsCounters, StaysRoomed DEF Fits
<1>2. CASE AgentCheck
  <2>1. slot.pc = "check" /\ Loaded /\ room' = room /\ slot.task \in DOMAIN NextStage
    BY <1>2, CheckForm, SoundParts DEF AgentCheck, Slotted
  <2>2. CASE Resyncs(room, "disk")
    <3>1. Slotted' /\ Holding(slot') = FALSE
      BY <2>1, <2>2, ResyncsSlotted, Stages
    <3>2. Holding(slot) = FALSE /\ Counters
      BY <2>1, <2>2 DEF Holding, Handing, Counters, Resyncs, Carries
    <3> QED
      BY <2>1, <3>1, <3>2, HeldRoom, BusyLoaded, SameRoomed DEF Same, Fits, Loaded
  <2> QED
    BY <1>2, <2>1, <2>2, CheckForm, AdvancesFit
<1>3. CASE AgentTyped
  <2>1. slot.pc = "typed" /\ Loaded /\ Stays
    BY <1>3, TypedForm DEF AgentTyped
  <2>2. ASSUME Turns(sync), slot'.task = "typed", slot'.pc \in {"stat", "sync"}
        PROVE  Fits'
    <3>1. Slotted' /\ Counters
      BY <2>1, <2>2, TurnsSlotted, TurnsCounters DEF Turns
    <3>2. Holding(slot') = FALSE /\ Holding(slot) = FALSE
      BY <2>1, <2>2 DEF Holding, Handing
    <3> QED
      BY <2>1, <3>1, <3>2, StaysRoomed DEF Fits
  <2>3. CASE Advances("hold")
    <3>1. /\ slot' \in Slots /\ slot'.pc = "hold" /\ slot'.task = slot.task /\ sync' = sync
          /\ slot'.item = slot.item /\ slot'.path = slot.path /\ Counters
      BY <2>3 DEF Advances, Carries, Counters
    <3>2. Slotted'
      BY <2>1, <3>1, WorkedSlotted DEF Working, Saving
    <3>3. Holding(slot') = Holding(slot)
      BY <2>1, <3>1 DEF Holding, Handing
    <3> QED
      BY <2>1, <3>1, <3>2, <3>3, StaysRoomed DEF Fits
  <2> QED
    BY <1>3, <2>2, <2>3, TypedForm
<1>4. CASE AgentHold
  <2>1. /\ slot.pc = "hold" /\ Loaded /\ Loaded' /\ room' \in Rooms /\ Copy(room', room)
        /\ room'.hold = TRUE /\ sync' = sync
        /\ slot' \in Slots /\ slot'.pc = "commit" /\ slot'.task = slot.task
        /\ slot'.key = slot.path /\ slot'.path = slot.path /\ slot'.item = slot.item
        /\ slot'.gen = slot.gen /\ slot'.igen = slot.igen
    BY <1>4, HoldForm DEF AgentHold
  <2>2. Slotted'
    BY <2>1, WorkedSlotted DEF Working, Saving
  <2>3. Holding(slot') = TRUE /\ Counters
    BY <2>1 DEF Holding, Handing, Counters
  <2>4. Roomed'
    BY <2>1, <2>3, SoundParts, Counting DEF Roomed, Copy
  <2> QED
    BY <2>2, <2>4 DEF Fits
<1> QED
  BY <1>1, <1>2, <1>3, <1>4

LEMMA CommitsFit ==
    ASSUME Sound, AgentCommit \/ AgentFails \/ AgentStore \/ AgentRelease
    PROVE  Fits'
<1>1. CASE AgentCommit
  <2>1. slot.pc = "commit" /\ Loaded /\ room' = room /\ sync' = sync
    BY <1>1, CommitForm DEF AgentCommit
  <2>2. ASSUME slot' \in Slots, slot'.pc = "adopt", slot'.task = slot.task,
               slot'.gen = slot.gen, slot'.igen = slot.igen,
               slot'.item = slot.item, slot'.path = slot.path
        PROVE  Fits'
    <3>1. Slotted'
      BY <2>1, <2>2, WorkedSlotted DEF Working, Saving
    <3>2. Holding(slot') = Holding(slot) /\ Counters
      BY <2>1, <2>2 DEF Holding, Handing, Counters
    <3> QED
      BY <2>1, <3>1, <3>2, HeldRoom, BusyLoaded, SameRoomed DEF Same, Fits, Loaded
  <2> QED
    BY <1>1, <2>1, <2>2, CommitForm, AdvancesFit
<1>2. CASE AgentFails \/ AgentStore
  BY <1>2, GiveUpForm, AdvancesFit DEF AgentFails, AgentStore
<1>3. CASE AgentRelease
  <2>1. /\ Grows /\ room'.saved = room.saved /\ room'.hold = FALSE
        /\ Turns(sync) /\ slot'.task \in {"none", "persist", "replay"}
        /\ slot'.pc \in {"idle", "stat", "sync"} /\ slot.pc = "release"
    BY <1>3, AgentReleaseForm DEF AgentRelease
  <2>2. Slotted' /\ Counters
    BY <2>1, TurnsSlotted, TurnsCounters DEF Turns
  <2>3. Holding(slot') = FALSE
    BY <2>1 DEF Holding, Handing
  <2> QED
    BY <2>1, <2>2, <2>3, GrowsRoomed DEF Fits
<1> QED
  BY <1>1, <1>2, <1>3

LEMMA AdoptedRoomed ==
    ASSUME Sound, Adopted, slot.pc = "adopt", slot'.pc \in {"store", "release"},
           room'.items \cap room'.gone = {},
           room'.saved \in {room.saved, room'.gen}
    PROVE  Roomed'
<1>1. room \in Rooms /\ room' \in Rooms /\ room.hold = Holding(slot) /\ room.saved <= room.gen
  BY BusyLoaded, HeldRoom DEF Adopted
<1>2. room.gen \in Nat /\ room'.gen = room.gen + 1 /\ room'.igen = room.igen
      /\ room.saved \in Nat
  BY <1>1 DEF Rooms, Adopted
<1>3. slot'.gen <= room.gen /\ slot'.igen <= room.igen /\ slot'.gen \in Nat
  BY <1>2, Counting, SlotTask DEF Adopted, Counters
<1>4. slot'.gen <= room'.gen /\ slot'.igen <= room'.igen /\ room'.saved <= room'.gen
  BY <1>1, <1>2, <1>3
<1>5. room'.hold = Holding(slot')
  BY <1>1 DEF Adopted, Holding, Handing
<1> QED
  BY <1>1, <1>4, <1>5 DEF Roomed, Adopted

LEMMA AdoptFits ==
    ASSUME Sound, AgentAdopt, slot.item \notin room.gone
    PROVE  Fits'
<1>1. slot.pc = "adopt"
  BY AdoptForm
<1>2. ASSUME Adopted, slot'.pc \in {"store", "release"}, slot'.state \in States
      PROVE  Slotted'
  <2>1. /\ slot' \in Slots /\ slot'.task = slot.task /\ sync' = sync
        /\ slot'.item = slot.item /\ slot'.path = slot.path
    BY <1>2 DEF Adopted
  <2> QED
    BY <1>1, <1>2, <2>1, WorkedSlotted DEF Working, Saving
<1>3. ASSUME Adopted, slot'.pc = "store", slot'.state \in States,
             room'.items = room.items \cup {slot.item}, room'.gone = room.gone,
             room'.saved = room.saved
      PROVE  Fits'
  <2>1. room.items \cap room.gone = {}
    BY <1>3, SoundParts DEF Roomed, Adopted
  <2>2. room'.items \cap room'.gone = {}
    BY <1>3, <2>1
  <2> QED
    BY <1>1, <1>2, <1>3, <2>2, AdoptedRoomed DEF Fits
<1>4. ASSUME Adopted, slot'.pc \in {"store", "release"}, slot'.state \in States,
             room'.items = slot.blocks,
             room'.gone = (room.gone \cup room.items) \ slot.blocks,
             room'.saved = room'.gen
      PROVE  Fits'
  BY <1>1, <1>2, <1>4, AdoptedRoomed DEF Fits
<1>5. ASSUME Loaded, room' = room, Resyncs(room, "follow") PROVE Fits'
  <2>1. slot.task \in DOMAIN NextStage /\ Holding(slot)
    BY <1>1, SoundParts DEF Slotted, Holding, Handing
  <2>2. Slotted' /\ Holding(slot')
    BY <1>1, <1>5, <2>1, ResyncsSlotted, Stages
  <2>3. Counters
    BY <1>5 DEF Counters, Resyncs, Carries
  <2>4. Holding(slot) = TRUE /\ Holding(slot') = TRUE
    BY <2>1, <2>2 DEF Holding
  <2> QED
    BY <1>5, <2>2, <2>3, <2>4, HeldRoom, BusyLoaded, SameRoomed DEF Same, Fits, Loaded
<1> QED
  BY <1>3, <1>4, <1>5, AdoptForm

LEMMA ImportFits ==
    ASSUME Sound, LoadImport, cache # None => cache.items \cap cache.gone = {}
    PROVE  Fits'
<1>1. /\ Loaded' /\ room' \in Rooms /\ slot.pc = "idle" /\ slot' = slot /\ sync' = sync
      /\ room'.gen = 1 /\ room'.saved \in {0, 1} /\ room'.igen = 0 /\ room'.hold = FALSE
      /\ \/ cache # None /\ room'.items = cache.items /\ room'.gone = cache.gone
         \/ room'.gone = {}
  BY ImportForm
<1>2. Slotted' /\ slot.gen = 0 /\ slot.igen = 0
  BY <1>1, SoundParts, SlotSame DEF Slotted, Clear
<1>3. room'.items \cap room'.gone = {} /\ room'.saved <= room'.gen
      /\ slot'.gen <= room'.gen /\ slot'.igen <= room'.igen
  BY <1>1, <1>2
<1>4. Holding(slot') = FALSE
  BY <1>1 DEF Holding, Handing
<1> QED
  BY <1>1, <1>2, <1>3, <1>4 DEF Roomed, Fits

LEMMA FitsStep ==
    ASSUME Sound, Next, slot.pc = "adopt" => slot.item \notin room.gone,
           cache # None => cache.items \cap cache.gone = {}
    PROVE  Fits'
<1>1. CASE \E c \in Client : Attach(c) \/ Receive(c) \/ Drop(c)
  BY <1>1, BrowsersFit
<1>2. CASE Beside
  BY <1>2, BesideForm, RoomSame DEF Fits
<1>3. CASE PersistTimer \/ UnloadBegin \/ BarrierDrain \/ BarrierEnd \/ Rekey \/ UnloadEnd
             \/ Crash
  BY <1>3, BarriersFit, EndsFit
<1>4. CASE Save \/ PersistFails
  BY <1>4, SavesFit
<1>5. CASE WatcherEvent \/ \E w \in Syncer : SyncRead(w) \/ SyncApply(w) \/ SyncCache(w)
                                               \/ SyncFails(w)
  BY <1>5, SyncsFit, WatcherFits
<1>6. CASE (\E a \in Agent : AgentBegin(a)) \/ AgentCheck \/ AgentTyped \/ AgentHold
  BY <1>6, AgentsFit
<1>7. CASE AgentCommit \/ AgentFails \/ AgentStore \/ AgentRelease
  BY <1>7, CommitsFit
<1>8. CASE AgentAdopt
  BY <1>8, AdoptFits, AdoptForm
<1>9. CASE LoadImport
  BY <1>9, ImportFits
<1> QED
  BY <1>1, <1>2, <1>3, <1>4, <1>5, <1>6, <1>7, <1>8, <1>9
     DEF Next, System, Environment, BarrierStep, AgentStep, Beside

-----------------------------------------------------------------------------
(* The clients of the room                                                 *)

\* The room stays what it is, and so do its clients.
Stable == (Loaded' <=> Loaded) /\ (Loaded => room'.clients = room.clients)

LEMMA StableStep ==
    ASSUME Sound,
           \/ Beside \/ PersistTimer \/ UnloadBegin \/ BarrierDrain \/ BarrierEnd \/ Rekey
           \/ Save \/ PersistFails \/ WatcherEvent
           \/ (\E w \in Syncer : SyncRead(w) \/ SyncApply(w) \/ SyncCache(w) \/ SyncFails(w))
           \/ (\E a \in Agent : AgentBegin(a)) \/ AgentStep \/ AgentFails
    PROVE  Stable
<1>1. ASSUME room' = room PROVE Stable
  BY <1>1 DEF Stable, Loaded
<1>2. ASSUME Follows, room'.clients = room.clients PROVE Stable
  BY <1>2 DEF Stable, Follows, Grows
<1>3. ASSUME Keeps PROVE Stable
  BY <1>3 DEF Stable, Keeps, Same
<1>4. ASSUME Stays PROVE Stable
  BY <1>4, NoneAssumption DEF Stable, Stays, Alike, Loaded
<1>5. CASE Beside
  BY <1>1, <1>5, BesideForm
<1>6. CASE PersistTimer \/ UnloadBegin \/ BarrierDrain \/ BarrierEnd
  BY <1>1, <1>2, <1>6, RunSteps, BarrierEndForm DEF Loaded
<1>7. CASE Rekey
  <2>1. CASE Loaded
    <3>1. room \in Rooms /\ room' = [room EXCEPT !.key = "new", !.timer = TRUE]
      BY <1>7, <2>1, BusyLoaded DEF Rekey
    <3>2. room' \in Rooms /\ room'.clients = room.clients
      BY <3>1 DEF Rooms, Place
    <3> QED
      BY <2>1, <3>2, NoneAssumption DEF Stable, Loaded
  <2> QED
    BY <1>1, <1>7, <2>1 DEF Rekey
<1>8. CASE PersistStat \/ PersistExport \/ PersistFails
  BY <1>2, <1>8, StatForm, ExportForm, FailsForm
<1>9. CASE PersistCompare \/ PersistSettle \/ PersistRecord \/ PersistLand
  BY <1>3, <1>9, CompareForm, SettleForm, RecordForm, LandForm
<1>10. CASE PersistWrite \/ PersistState
  BY <1>1, <1>10, WriteForm, StateForm
<1>11. CASE WatcherEvent
  BY <1>4, <1>11, WatcherForm
<1>12. ASSUME NEW w \in Syncer, SyncRead(w) \/ SyncApply(w) \/ SyncCache(w) \/ SyncFails(w)
       PROVE  Stable
  <2>1. ASSUME Replaces(w) PROVE Stable
    BY <2>1 DEF Stable, Replaces
  <2> QED
    BY <1>1, <1>4, <1>12, <2>1, ReadForm, ApplyForm, CacheForm
<1>13. CASE (\E a \in Agent : AgentBegin(a)) \/ AgentCheck \/ AgentTyped
  BY <1>1, <1>4, <1>13, BeginForm, CheckForm, TypedForm
<1>14. CASE AgentHold
  BY <1>14, HoldForm DEF Stable
<1>15. CASE AgentCommit \/ AgentFails \/ AgentStore
  BY <1>1, <1>15, CommitForm, GiveUpForm
<1>16. CASE AgentAdopt
  <2>1. ASSUME Adopted PROVE Stable
    BY <2>1 DEF Stable, Adopted
  <2> QED
    BY <1>1, <1>16, <2>1, AdoptForm
<1>17. CASE AgentRelease
  BY <1>17, AgentReleaseForm DEF Stable, Grows
<1> QED
  BY <1>5, <1>6, <1>7, <1>8, <1>9, <1>10, <1>11, <1>12, <1>13, <1>14, <1>15, <1>16, <1>17
     DEF Save, AgentStep

\* Who is connected does not change.
LEMMA ConnForm ==
    ASSUME \/ Apart \/ PersistSettle \/ PersistRecord \/ (\E w \in Syncer : SyncApply(w))
           \/ AgentHold \/ AgentAdopt \/ AgentRelease
           \/ (\E kind \in Barriers : BarrierBegin(kind)) \/ BarrierEnd
           \/ (\E c \in Client, e \in Edit : LocalEdit(c, e))
    PROVE  conn' = conn
<1>1. CASE Apart
  BY <1>1, ApartForm DEF clientVars
<1>2. CASE PersistSettle \/ PersistRecord \/ (\E w \in Syncer : SyncApply(w))
  BY <1>2 DEF PersistSettle, PersistRecord, SyncApply
<1>3. CASE AgentHold \/ AgentAdopt \/ AgentRelease
  BY <1>3 DEF AgentHold, AgentAdopt, AgentRelease
<1>4. CASE (\E kind \in Barriers : BarrierBegin(kind)) \/ BarrierEnd
            \/ (\E c \in Client, e \in Edit : LocalEdit(c, e))
  BY <1>4 DEF BarrierBegin, BarrierEnd, LocalEdit
<1> QED
  BY <1>1, <1>2, <1>3, <1>4

\* Joined under a step that leaves the room and the sockets as they are.
LEMMA StableJoined ==
    ASSUME Joined, Stable, conn' = conn,
           Loaded => load'.pc = load.pc, ~Loaded => unloading' = unloading
    PROVE  Joined'
  BY DEF Joined, Stable
=============================================================================
