------------------------- MODULE CollaborationRooms -------------------------
(***************************************************************************)
(* YjsDocManager (yjs-manager.ts): the live room of one rich document, the *)
(* browsers attached to it, its debounced saves, the disk syncs that       *)
(* follow outside edits, agent writes, and the two barriers that drain it  *)
(* (a path move and a workspace capture).                                  *)
(*                                                                         *)
(* A document's content is the set of edits it shows.  Every await of the  *)
(* code ends an action: a save is seven actions, a disk sync three, a cold *)
(* load two.  A file's mtime and fingerprint, and a version's id, are its  *)
(* stamp.  A room's generation counters start again with each room.  The   *)
(* 15 s protection window may have closed whenever a save looks at it.     *)
(***************************************************************************)
EXTENDS Naturals, Sequences, FiniteSets

CONSTANTS
  Client,         \* browser tabs
  Edit,           \* what people type, numbered in the order they type it
  Author,         \* [Edit -> Client]
  External,       \* writes of other programs to the file
  Agent,          \* agent writes (commitAgentWrite)
  Barriers,       \* which barriers may run: a subset of {"move", "capture"}
  None,
  MAX_PENDING_CONNECTION_FRAMES,
  MaxEvents     \* bound on edits, outside and agent writes,
                  \* barriers, drops, faults and crashes

ASSUME CollaborationAssumption ==
  /\ Edit \subseteq Nat /\ Author \in [Edit -> Client]
  /\ Barriers \subseteq {"move", "capture"}
  /\ MAX_PENDING_CONNECTION_FRAMES \in Nat \ {0}
  /\ MaxEvents \in Nat
  /\ Edit \cap External = {} /\ Edit \cap Agent = {} /\ External \cap Agent = {}

VARIABLES
  file,       \* the portable document: its path, content, stamp
  prov,       \* provenance: the content and stamp of the latest version
  cache,      \* the machine-local Yjs state file, or None
  room,       \* the live room, or None
  slot,       \* the room's persist slot (persistPromise) and who holds it
  sync,       \* the disk sync of the slot and the one of the watcher
  load,       \* a cold room being loaded
  unloading,  \* unloadDoc has started its final persist
  barrier,    \* the move or the capture in progress
  event,      \* the watcher has an outside change to deliver
  pending,    \* pendingDiskSyncs: a recorded change whose sync has not ended
  conn,       \* each client's socket: off, upgrade, pending, joining, on, orphan
  local,      \* each client's own edits that its local document shows
  marker,     \* pendingIntentRef of each client
  out,        \* frames on their way to the server, per client
  queue,      \* frames the server has accepted and not applied, per client
  events,   \* how many of the bounded events happened
  told,       \* edits the room was told a person made
  wiped,      \* edits a disk sync took out of the room before they were saved
  kept,       \* everything the file was given
  collided,   \* an outside write landed where the code cannot see it
  crossed,    \* a disk sync applied content the file no longer held,
              \* or came between the export of a save, or of an agent's
              \* write, and the write itself
  forgotten,  \* accepted edits that went with a destroyed room
  faulted,    \* a save or a sync failed, or the server stopped
  shot        \* what the capture in progress must and may hold

docVars    == <<file, prov, cache>>
roomVars   == <<room, slot, sync, load, unloading>>
watchVars  == <<event, pending>>
clientVars == <<conn, local, marker, out, queue>>
ghostVars  == <<told, wiped, kept, collided, crossed, forgotten, faulted, shot>>
vars == <<docVars, roomVars, barrier, watchVars, clientVars, events, ghostVars>>

-----------------------------------------------------------------------------
(* Frames, rooms and threads                                               *)

\* MESSAGE_INTENT; an update frame is the set of edits it carries.
Intent == {}

IdleSlot == [pc |-> "idle", task |-> "none", key |-> None, stat |-> 0, blocks |-> {},
             known |-> None, gen |-> 0, had |-> FALSE, igen |-> 0, prov |-> None,
             made |-> None, hash |-> {}, state |-> None, item |-> None, path |-> None]
IdleSync == [pc |-> "idle", key |-> None, token |-> None, had |-> FALSE,
             igen |-> 0, items |-> {}, state |-> None]
IdleLoad == [pc |-> "idle", items |-> {}, stamp |-> 0]
NoShot == [due |-> {}, allowed |-> {}]
IdleBarrier == [pc |-> "idle", kind |-> "none"]

Syncer == {"slot", "watcher"}
Loaded == room # None
Busy   == slot.pc # "idle"
Frozen == barrier.pc # "idle" /\ barrier.kind = "move"
Capturing == barrier.pc # "idle" /\ barrier.kind = "capture"

\* A path move fences the document, a capture every document: frames accepted
\* after the barrier's cutoff wait, and so do frames during an agent's commit.
Paused == barrier.pc # "idle"
Held(r, paused, f) == (paused /\ ~f.early) \/ (r.hold /\ ~f.before)

\* Promise continuations run before timers and sockets: no save starts and no
\* client comes or goes between the end of a save and what the barrier or the
\* unload that awaited it does next.
Awaited == ~Busy /\ (barrier.pc = "drain" \/ unloading # None)

\* What frames do to a room (processMessage and the update listener): edits the
\* room has or has removed change nothing, new ones schedule a save.  The
\* signals are counted only to be compared: those of one step count as one.
Merged(r, edits, signalled) ==
  LET new == edits \ (r.items \cup r.gone)
  IN [r EXCEPT !.items = @ \cup new,
               !.gen = @ + (IF new = {} THEN 0 ELSE 1),
               !.timer = @ \/ new # {},
               !.intent = @ \/ signalled,
               !.igen = @ + (IF signalled THEN 1 ELSE 0)]
Signalled(bodies) == \E i \in DOMAIN bodies : bodies[i] = Intent
Edits(bodies) == UNION {bodies[i] : i \in DOMAIN bodies}
Applied(r, bodies) == Merged(r, Edits(bodies), Signalled(bodies))

\* The edits of the room that precede a signal among the frames.
Announced(r, bodies) ==
  LET upTo(i) == r.items \cup UNION {bodies[j] : j \in 1 .. i}
  IN (UNION {upTo(i) : i \in {k \in DOMAIN bodies : bodies[k] = Intent}}) \cap Edit

\* A client that is sent the intent acknowledgement drops its replay marker.
Acked(r) == [c \in Client |-> marker[c] /\ c \notin r.clients]

\* Slip: a newer signal does not count.
Spendable_Any(r, had, igen) == had

\* An edit signal is spent only when no newer one arrived since it was read.
Spendable(r, had, igen) == had /\ r.igen = igen
Spent(r, had, igen) ==
  IF Spendable(r, had, igen) THEN [r EXCEPT !.intent = FALSE] ELSE r
AcksFor(r, had, igen) ==
  IF Spendable(r, had, igen) THEN Acked(r) ELSE marker

StateOf(r, version, matches) ==
  [items |-> r.items, gone |-> r.gone, head |-> version, matches |-> matches]

\* writeYjsStateFile: what is stored beside a path the document has left is
\* not read again.  The stored state follows the document in the Rekey step.
Stored(key, state) ==
  IF key = (IF barrier.pc = "rekey" THEN "old" ELSE file.path) THEN state ELSE cache

Version(items, stamp, agent) == [items |-> items, stamp |-> stamp, agent |-> agent]

QueuedBy(c) == UNION {queue[c][i].body : i \in DOMAIN queue[c]}
Queued == UNION {QueuedBy(c) : c \in Client}
InRoom == IF Loaded THEN room.items \cap Edit ELSE {}

\* What the server has accepted so far: what the document was ever given, what
\* its room, queues and saves hold, and what is stored of its rooms or about to be.
ShownBy(state) == IF state = None THEN {} ELSE state.items
Accepted == InRoom \cup Queued \cup kept \cup slot.blocks \cup ShownBy(cache)
              \cup ShownBy(slot.state) \cup UNION {ShownBy(sync[w].state) : w \in Syncer}

Bounded == events < MaxEvents /\ events' = events + 1

Init ==
  /\ file = [path |-> "old", items |-> {}, stamp |-> 1]
  /\ prov = Version({}, 1, FALSE)
  /\ cache = None
  /\ room = None /\ slot = IdleSlot /\ load = IdleLoad /\ unloading = None
  /\ sync = [w \in Syncer |-> IdleSync]
  /\ barrier = IdleBarrier
  /\ event = FALSE /\ pending = None
  /\ conn = [c \in Client |-> "off"]
  /\ local = [c \in Client |-> {}]
  /\ marker = [c \in Client |-> FALSE]
  /\ out = [c \in Client |-> <<>>]
  /\ queue = [c \in Client |-> <<>>]
  /\ events = 0
  /\ told = {} /\ wiped = {} /\ kept = {}
  /\ collided = FALSE /\ crossed = FALSE /\ forgotten = {} /\ faulted = FALSE
  /\ shot = NoShot

-----------------------------------------------------------------------------
(* Browsers (the client's side of the socket: doc-document.tsx)            *)

\* dispatchOrQueueMessage over a client's frames, in order: the frames no
\* pause covers are applied at once, the others wait.  The cutoffs are sequence
\* numbers, so the frames that a pause holds are the last of the queue.
Passing(r, paused, fs) == Cardinality({i \in DOMAIN fs : ~Held(r, paused, fs[i])})
Ready(r, paused, fs) == [i \in 1 .. Passing(r, paused, fs) |-> fs[i].body]
Waiting(r, paused, fs) == SubSeq(fs, Passing(r, paused, fs) + 1, Len(fs))

Typed == (UNION {local[c] : c \in Client}) \cup wiped \cup kept

\* handleLocalEdit: the update goes out first, the signal right after it.
LocalEdit(c, e) ==
  /\ Author[e] = c
  /\ e \notin Typed /\ \A d \in Edit : d < e => d \in Typed
  /\ Bounded
  /\ local' = [local EXCEPT ![c] = @ \cup {e}]
  /\ marker' = [marker EXCEPT ![c] = TRUE]
  /\ out' = IF conn[c] \in {"off", "upgrade"} THEN out
            ELSE [out EXCEPT ![c] = @ \o <<{e}, Intent>>]
  /\ UNCHANGED <<docVars, roomVars, barrier, watchVars, conn, queue, ghostVars>>

\* The /yjs upgrade is let in while no capture holds the workspace; several
\* awaits lie between that check and the open socket.
Upgrade(c) ==
  /\ conn[c] = "off" /\ ~Capturing
  /\ conn' = [conn EXCEPT ![c] = "upgrade"]
  /\ UNCHANGED <<docVars, roomVars, barrier, watchVars, local, marker, out, queue,
                 events, ghostVars>>

\* handleConnection: a document that is being moved refuses, a cold one is
\* loaded once.  The browser repeats an unacknowledged signal as soon as its
\* socket opens.
Connect(c) ==
  /\ conn[c] = "upgrade"
  /\ IF Frozen
     THEN conn' = [conn EXCEPT ![c] = "off"] /\ UNCHANGED <<load, out>>
     ELSE /\ conn' = [conn EXCEPT ![c] = IF Loaded THEN "joining" ELSE "pending"]
          /\ load' = IF Loaded \/ load.pc # "idle" THEN load
                     ELSE [load EXCEPT !.pc = "read"]
          /\ out' = [out EXCEPT ![c] = IF marker[c] THEN <<Intent>> ELSE <<>>]
  /\ UNCHANGED <<docVars, room, slot, sync, unloading, barrier, watchVars, local,
                 marker, queue, events, ghostVars>>

\* initializeConnection after its last await: the client joins the room,
\* learns what the room has taken out, answers with what the room lacks, and
\* the frames it sent meanwhile are dispatched.
Attach(c) ==
  /\ conn[c] = "joining" /\ ~Awaited
  /\ LET r == [room EXCEPT !.clients = @ \cup {c}, !.idle = FALSE]
         bodies == Ready(r, Paused, queue[c])
         missing == (local[c] \ r.items) \ r.gone
     IN /\ room' = Applied(r, bodies)
        /\ told' = told \cup Announced(r, bodies)
        /\ queue' = [queue EXCEPT ![c] = Waiting(r, Paused, @)]
        /\ local' = [local EXCEPT ![c] = @ \ r.gone]
        /\ out' = IF missing = {} THEN out
                  ELSE [out EXCEPT ![c] = Append(@, missing)]
  /\ conn' = [conn EXCEPT ![c] = "on"]
  /\ UNCHANGED <<docVars, slot, sync, load, unloading, barrier, watchVars, marker,
                 events, wiped, kept, collided, crossed, forgotten, faulted, shot>>

\* Slip: the room keeps the client.
Detached_Kept(c, r) ==
  /\ conn' = [conn EXCEPT ![c] = "off"]
  /\ out' = [out EXCEPT ![c] = <<>>]
  /\ queue' = [queue EXCEPT ![c] = <<>>]
  /\ room' = IF r = None THEN r
             ELSE [r EXCEPT !.idle = @ \/ r.clients \subseteq {c}]
  /\ shot' = [shot EXCEPT !.due = @ \ (QueuedBy(c) \ InRoom)]

\* detachClient: what the server queued for the client is dropped, what was
\* on its way is lost; the browser still holds its own edits and its marker.
Detached(c, r) ==
  /\ conn' = [conn EXCEPT ![c] = "off"]
  /\ out' = [out EXCEPT ![c] = <<>>]
  /\ queue' = [queue EXCEPT ![c] = <<>>]
  /\ room' = IF r = None THEN r
             ELSE [r EXCEPT !.clients = @ \ {c}, !.idle = @ \/ r.clients \subseteq {c}]
  /\ shot' = [shot EXCEPT !.due = @ \ (QueuedBy(c) \ InRoom)]

Drop(c) ==
  /\ conn[c] # "off" /\ ~Awaited /\ Bounded
  /\ Detached(c, room)
  /\ UNCHANGED <<docVars, slot, sync, load, unloading, barrier, watchVars, local,
                 marker, told, wiped, kept, collided, crossed, forgotten, faulted>>

\* handleMessage: the next frame of a client is accepted.  It is applied, or
\* it waits for the room, the barrier or the agent, in a bounded queue whose
\* overflow closes the socket; a destroyed room swallows it.
Receive(c) ==
  /\ out[c] # <<>>
  /\ LET f == [body |-> Head(out[c]), early |-> FALSE, before |-> FALSE]
         applies == conn[c] = "on" /\ ~Held(room, Paused, f)
     IN \/ /\ applies
           /\ room' = Applied(room, <<f.body>>)
           /\ told' = told \cup Announced(room, <<f.body>>)
           /\ out' = [out EXCEPT ![c] = Tail(@)]
           /\ UNCHANGED <<conn, queue, shot>>
        \/ /\ ~applies /\ conn[c] # "orphan"
           /\ Len(queue[c]) < MAX_PENDING_CONNECTION_FRAMES
           /\ queue' = [queue EXCEPT ![c] = Append(@, f)]
           /\ out' = [out EXCEPT ![c] = Tail(@)]
           /\ UNCHANGED <<conn, room, told, shot>>
        \/ /\ ~applies /\ conn[c] # "orphan"
           /\ Len(queue[c]) >= MAX_PENDING_CONNECTION_FRAMES
           /\ Detached(c, room)
           /\ UNCHANGED told
        \/ /\ conn[c] = "orphan"
           /\ out' = [out EXCEPT ![c] = Tail(@)]
           /\ UNCHANGED <<conn, queue, room, told, shot>>
  /\ UNCHANGED <<docVars, slot, sync, load, unloading, barrier, watchVars, local,
                 marker, events, wiped, kept, collided, crossed, forgotten, faulted>>

-----------------------------------------------------------------------------
(* Loading and unloading                                                   *)

\* loadLiveDoc: the file is read first ...
LoadRead ==
  /\ load.pc = "read"
  /\ load' = [pc |-> "import", items |-> file.items, stamp |-> file.stamp]
  /\ UNCHANGED <<docVars, room, slot, sync, unloading, barrier, watchVars, clientVars,
                 events, ghostVars>>

\* ... then its provenance and the stored state, which is admitted only under
\* the version that describes the bytes read.  State stored ahead of the
\* document makes a room that is saved soon; an import stores its own state.
LoadImport ==
  /\ load.pc = "import"
  /\ LET described == prov.items = load.items
         admitted == described /\ cache # None /\ cache.head = prov
         ahead == admitted /\ ~cache.matches
         r == [key |-> file.path,
               items |-> IF admitted THEN cache.items ELSE load.items,
               gone |-> IF admitted THEN cache.gone ELSE {},
               gen |-> 1, saved |-> IF ahead THEN 0 ELSE 1,
               restored |-> IF ahead THEN 1 ELSE None,
               required |-> None, intent |-> FALSE, igen |-> 0,
               base |-> load.stamp, hash |-> load.items,
               seen |-> [stamp |-> load.stamp, items |-> load.items],
               shield |-> described /\ prov.agent,
               timer |-> ahead, again |-> FALSE, hold |-> FALSE, clients |-> {},
               idle |-> \A c \in Client : conn[c] # "pending"]
     IN /\ room' = r
        /\ cache' = IF admitted THEN cache
                    ELSE IF described THEN StateOf(r, prov, TRUE) ELSE None
  /\ load' = IdleLoad
  /\ told' = {}
  /\ conn' = [c \in Client |-> IF conn[c] = "pending" THEN "joining" ELSE conn[c]]
  /\ UNCHANGED <<file, prov, slot, sync, unloading, barrier, watchVars, local, marker,
                 out, queue, events, wiped, kept, collided, crossed, forgotten, faulted, shot>>

-----------------------------------------------------------------------------
(* The persist slot                                                        *)

SyncOf(r, token) ==
  [IdleSync EXCEPT !.pc = "read", !.key = r.key, !.token = token,
                   !.had = r.intent, !.igen = r.igen]

\* The beginning of persistDoc, up to its first await: a disk sync that failed
\* is made up for unless the room has changed since.
StartPersist(r, sy, s) ==
  LET owed == r.required # None /\ r.required = r.gen
      r1 == IF owed THEN r ELSE [r EXCEPT !.required = None]
  IN /\ room' = r1
     /\ sync' = IF owed THEN [sy EXCEPT !["slot"] = SyncOf(r1, r1.required)] ELSE sy
     /\ slot' = [s EXCEPT !.pc = IF owed THEN "sync" ELSE "stat", !.key = r1.key]

\* runPersist: one save at a time, a request meanwhile asks for another.
RunPersist(r) ==
  IF Busy
  THEN room' = [r EXCEPT !.again = TRUE] /\ UNCHANGED <<slot, sync>>
  ELSE StartPersist([r EXCEPT !.again = FALSE], sync, [IdleSlot EXCEPT !.task = "persist"])

\* The holder of the slot is done: replay the saves requested meanwhile.
SlotFree(r, sy, task) ==
  IF r # None /\ r.again
  THEN StartPersist([r EXCEPT !.again = FALSE], sy, [IdleSlot EXCEPT !.task = task])
  ELSE room' = r /\ sync' = sy /\ slot' = IdleSlot

\* A save or a sync inside the slot returns to whoever asked for it.  A failed
\* save rejects the callers of runPersist; one replayed for withPersistSlot is
\* scheduled again instead; an agent's write gives up.
NextStage == [required |-> "check", disk |-> "typed", typed |-> "hold", follow |-> "release"]
Handed(task) == [IdleSlot EXCEPT !.task = task, !.item = slot.item, !.path = slot.path]
SlotReturn(r, sy, ok) ==
  \/ slot.task \in {"persist", "replay"} /\ ok /\ SlotFree(r, sy, slot.task)
  \/ /\ slot.task = "persist" /\ ~ok
     /\ room' = r /\ sync' = sy /\ slot' = [IdleSlot EXCEPT !.task = "failed"]
  \/ /\ slot.task = "replay" /\ ~ok
     /\ room' = [r EXCEPT !.timer = TRUE] /\ sync' = sy /\ slot' = IdleSlot
  \/ /\ slot.task \in DOMAIN NextStage /\ (ok \/ slot.task = "follow")
     /\ room' = r /\ sync' = sy
     /\ slot' = [Handed(slot.task) EXCEPT !.pc = NextStage[slot.task]]
  \/ slot.task \in DOMAIN NextStage \ {"follow"} /\ ~ok /\ SlotFree(r, sy, "replay")

\* The debounce timer, which never waits past the deadline.
PersistTimer ==
  /\ Loaded /\ room.timer /\ ~Awaited
  /\ RunPersist([room EXCEPT !.timer = FALSE])
  /\ UNCHANGED <<docVars, load, unloading, barrier, watchVars, clientVars, events, ghostVars>>

\* Slip: the mtime guard is left out.
PersistStat_Unguarded ==
  /\ slot.pc = "stat"
  /\ LET found == file.path = slot.key
         later == FALSE
         idle  == room.gen = room.saved /\ ~room.intent
     IN \/ /\ later
           /\ sync' = [sync EXCEPT !["slot"] = SyncOf(room, None)]
           /\ slot' = [slot EXCEPT !.pc = "sync"]
           /\ UNCHANGED <<room, collided>>
        \/ /\ idle
           /\ SlotReturn(room, sync, TRUE)
           /\ UNCHANGED collided
        \/ /\ ~idle
           /\ slot' = [slot EXCEPT !.pc = "export",
                                   !.stat = IF found THEN file.stamp ELSE 0,
                                   !.known = IF found /\ room.seen # None /\ room.seen.stamp = file.stamp
                                             THEN room.seen.items ELSE None]
           /\ collided' = (collided \/ later)
           /\ UNCHANGED <<room, sync>>
  /\ UNCHANGED <<docVars, load, unloading, barrier, watchVars, clientVars, events, told,
                 wiped, kept, crossed, forgotten, faulted, shot>>

\* persistDoc after its stat: a file newer than the room's base is synced into
\* the room, but one written within half a second of the base passes for the
\* room's own; a room that has not changed has nothing to save.
PersistStat ==
  /\ slot.pc = "stat"
  /\ LET found == file.path = slot.key
         later == found /\ file.stamp > room.base
         idle  == room.gen = room.saved /\ ~room.intent
     IN \/ /\ later
           /\ sync' = [sync EXCEPT !["slot"] = SyncOf(room, None)]
           /\ slot' = [slot EXCEPT !.pc = "sync"]
           /\ UNCHANGED <<room, collided>>
        \/ /\ idle
           /\ SlotReturn(room, sync, TRUE)
           /\ UNCHANGED collided
        \/ /\ ~idle
           /\ slot' = [slot EXCEPT !.pc = "export",
                                   !.stat = IF found THEN file.stamp ELSE 0,
                                   !.known = IF found /\ room.seen # None /\ room.seen.stamp = file.stamp
                                             THEN room.seen.items ELSE None]
           /\ collided' = (collided \/ later)
           /\ UNCHANGED <<room, sync>>
  /\ UNCHANGED <<docVars, load, unloading, barrier, watchVars, clientVars, events, told,
                 wiped, kept, crossed, forgotten, faulted, shot>>

\* The export: the content together with the edit signal that describes it.
PersistExport ==
  /\ slot.pc = "export"
  /\ slot' = [slot EXCEPT !.pc = "compare", !.blocks = room.items, !.gen = room.gen,
                          !.had = room.intent, !.igen = room.igen, !.prov = prov]
  /\ UNCHANGED <<docVars, room, sync, load, unloading, barrier, watchVars, clientVars,
                 events, ghostVars>>

\* The stale-cache guard: a change no person signalled does not replace a
\* fresh agent or outside version, unless it is this server's restored state or
\* the 15 s of protection are over.
StaleCache == slot.prov.agent /\ ~slot.had /\ room.shield /\ slot.gen # room.restored

\* After the file is read: a moved room asks for another save, a missing file
\* is left alone, an unchanged one only refreshes the stored state.
PersistCompare ==
  /\ slot.pc = "compare"
  /\ LET moved == room.key # slot.key
         missing == slot.stat = 0 \/ file.path # slot.key
         current == IF slot.known = None THEN file.items ELSE slot.known
         same == current = slot.blocks
         r == [room EXCEPT !.seen = [stamp |-> slot.stat, items |-> current]]
     IN \/ /\ moved
           /\ SlotReturn([room EXCEPT !.again = TRUE], sync, TRUE)
        \/ /\ ~moved /\ missing
           /\ SlotReturn(room, sync, TRUE)
        \/ /\ ~moved /\ ~missing /\ same
           /\ room' = r
           /\ slot' = [slot EXCEPT !.pc = "settle", !.state =
                         StateOf(room, slot.prov, room.gen = slot.gen /\ slot.prov.items = current)]
           /\ UNCHANGED sync
        \/ /\ ~moved /\ ~missing /\ ~same /\ StaleCache
           /\ room' = r
           /\ sync' = [sync EXCEPT !["slot"] = SyncOf(r, None)]
           /\ slot' = [slot EXCEPT !.pc = "sync"]
        \/ /\ ~moved /\ ~missing /\ ~same
           /\ room' = [r EXCEPT !.shield = @ /\ ~StaleCache]
           /\ slot' = [slot EXCEPT !.pc = "write"]
           /\ UNCHANGED sync
  /\ UNCHANGED <<docVars, load, unloading, barrier, watchVars, clientVars, events, ghostVars>>

Saved(r, gen) == [r EXCEPT !.saved = IF @ < gen THEN gen ELSE @]

\* The unchanged document's state is stored and the signal spent.
PersistSettle ==
  /\ slot.pc = "settle"
  /\ cache' = Stored(slot.key, slot.state)
  /\ LET r == Saved([room EXCEPT !.base = slot.stat, !.hash = slot.blocks,
                                 !.shield = @ \/ slot.prov.agent], slot.gen)
     IN /\ marker' = AcksFor(r, slot.had, slot.igen)
        /\ SlotReturn(Spent(r, slot.had, slot.igen), sync, TRUE)
  /\ UNCHANGED <<file, prov, load, unloading, barrier, watchVars, conn, local, out,
                 queue, events, ghostVars>>

\* writeDoc publishes the file; a path the document has left is refused, and
\* bytes the file already holds are not written again.
PersistWrite ==
  /\ slot.pc = "write"
  /\ file.path = slot.key
  /\ LET same == file.items = slot.blocks
     IN /\ file' = IF same THEN file
                   ELSE [file EXCEPT !.items = slot.blocks, !.stamp = @ + 1]
        /\ slot' = [slot EXCEPT !.pc = "record",
                      !.made = IF same THEN None
                               ELSE Version(slot.blocks, file.stamp + 1, FALSE)]
  /\ kept' = kept \cup slot.blocks
  /\ UNCHANGED <<prov, cache, room, sync, load, unloading, barrier, watchVars, clientVars,
                 events, told, wiped, collided, crossed, forgotten, faulted, shot>>

\* ... records its version, and the signal it was attributed to is spent.
PersistRecord ==
  /\ slot.pc = "record"
  /\ LET version == IF slot.made = None THEN prov ELSE slot.made
         r == [room EXCEPT !.hash = slot.blocks]
     IN /\ prov' = version
        /\ room' = Spent(r, slot.had, slot.igen)
        /\ marker' = AcksFor(r, slot.had, slot.igen)
        /\ slot' = [IdleSlot EXCEPT !.pc = "state", !.prov = version, !.task = slot.task,
                     !.key = slot.key, !.blocks = slot.blocks, !.gen = slot.gen,
                     !.item = slot.item, !.path = slot.path]
  /\ UNCHANGED <<file, cache, sync, load, unloading, barrier, watchVars, conn, local, out,
                 queue, events, ghostVars>>

\* Slip: what arrived since the export is forgotten.
PersistState_Matches ==
  /\ slot.pc = "state"
  /\ slot' = [slot EXCEPT !.pc = "land", !.stat = file.stamp,
                !.state = StateOf(room, slot.prov, slot.prov.items = slot.blocks)]
  /\ UNCHANGED <<docVars, room, sync, load, unloading, barrier, watchVars, clientVars,
                 events, ghostVars>>

\* The state is encoded with what has arrived since, after a second stat ...
PersistState ==
  /\ slot.pc = "state"
  /\ slot' = [slot EXCEPT !.pc = "land", !.stat = file.stamp,
                !.state = StateOf(room, slot.prov,
                            room.gen = slot.gen /\ slot.prov.items = slot.blocks)]
  /\ UNCHANGED <<docVars, room, sync, load, unloading, barrier, watchVars, clientVars,
                 events, ghostVars>>

\* ... and stored; the room now stands on what that stat saw.
PersistLand ==
  /\ slot.pc = "land"
  /\ cache' = Stored(slot.key, slot.state)
  /\ SlotReturn(Saved([room EXCEPT !.base = slot.stat,
                                !.seen = [stamp |-> slot.stat, items |-> slot.blocks]],
                   slot.gen), sync, TRUE)
  /\ UNCHANGED <<file, prov, load, unloading, barrier, watchVars, clientVars, events, ghostVars>>

\* A write, or the record of its version, fails: nothing saves again until the
\* next edit, drain or unload.
PersistFails ==
  /\ \/ slot.pc \in {"write", "record"} /\ Bounded /\ faulted' = TRUE
     \/ slot.pc = "write" /\ file.path # slot.key /\ UNCHANGED <<events, faulted>>
  /\ SlotReturn(room, sync, FALSE)
  /\ UNCHANGED <<docVars, load, unloading, barrier, watchVars, clientVars, told, wiped,
                 kept, collided, crossed, forgotten, shot>>

-----------------------------------------------------------------------------
(* Disk syncs (syncFromDisk, applyDiskContent) and the watcher             *)

SyncDone(w, r, sy, ok) ==
  IF w = "slot"
  THEN SlotReturn(r, sy, ok) /\ UNCHANGED pending
  ELSE /\ room' = r /\ sync' = sy /\ UNCHANGED slot
       /\ pending' = IF ok THEN None ELSE pending

\* The room moved, was destroyed, or changed since the token was taken.
Superseded(s) ==
  ~(Loaded /\ room.key = s.key /\ (s.token # None => room.gen = s.token))
NotOwed(r) == IF r = None THEN r ELSE [r EXCEPT !.required = None]

\* The document is read; one that is not there settles the sync.
SyncRead(w) ==
  /\ sync[w].pc = "read"
  /\ IF file.path = sync[w].key
     THEN /\ sync' = [sync EXCEPT ![w].pc = "apply", ![w].items = file.items]
          /\ UNCHANGED <<room, slot, pending>>
     ELSE SyncDone(w, NotOwed(room), [sync EXCEPT ![w] = IdleSync], TRUE)
  /\ UNCHANGED <<docVars, load, unloading, barrier, event, clientVars, events, ghostVars>>

\* The room is replaced by what was read, in one step with all of its guards.
SyncApply(w) ==
  /\ sync[w].pc = "apply"
  /\ LET s == sync[w]
         superseded == Superseded(s)
         lost == room.items \ s.items
         r == [room EXCEPT !.items = s.items, !.gone = (@ \cup room.items) \ s.items,
                 !.gen = @ + 1, !.saved = room.gen + 1, !.base = file.stamp,
                 !.hash = s.items, !.seen = None, !.shield = prov.agent,
                 !.required = None]
         r1 == Spent(r, s.had, s.igen)
     IN \/ /\ superseded
           /\ SyncDone(w, NotOwed(room), [sync EXCEPT ![w] = IdleSync], TRUE)
           /\ UNCHANGED <<local, marker, wiped, crossed>>
        \/ /\ ~superseded
           /\ marker' = AcksFor(r, s.had, s.igen)
           /\ crossed' = (crossed \/ s.items # file.items \/ slot.pc \in {"compare", "write", "commit"})
           /\ wiped' = wiped \cup (lost \cap Edit)
           /\ local' = [c \in Client |-> IF c \in room.clients THEN local[c] \ lost
                                                               ELSE local[c]]
           /\ IF prov.items = s.items
              THEN /\ room' = r1
                   /\ sync' = [sync EXCEPT ![w] =
                        [IdleSync EXCEPT !.pc = "cache", !.key = s.key, !.state = StateOf(r1, prov, TRUE)]]
                   /\ UNCHANGED <<slot, pending>>
              ELSE SyncDone(w, r1, [sync EXCEPT ![w] = IdleSync], TRUE)
  /\ UNCHANGED <<docVars, load, unloading, barrier, event, conn, out, queue, events,
                 told, kept, collided, forgotten, faulted, shot>>

\* The room's new state is stored beside the document it was read from.
SyncCache(w) ==
  /\ sync[w].pc = "cache"
  /\ cache' = Stored(sync[w].key, sync[w].state)
  /\ SyncDone(w, room, [sync EXCEPT ![w] = IdleSync], TRUE)
  /\ UNCHANGED <<file, prov, load, unloading, barrier, event, clientVars, events, ghostVars>>

\* A read fails.  A sync with a token stays owed by the room.
SyncFails(w) ==
  /\ sync[w].pc \in {"read", "apply"} /\ Bounded /\ faulted' = TRUE
  /\ SyncDone(w, IF Superseded(sync[w]) THEN NotOwed(room) ELSE room,
              [sync EXCEPT ![w] = IdleSync], FALSE)
  /\ UNCHANGED <<docVars, load, unloading, barrier, event, clientVars, told, wiped,
                 kept, collided, crossed, forgotten, shot>>

\* Another program edits the file.
ExternalWrite(x) ==
  /\ x \notin kept /\ Bounded
  /\ file' = [file EXCEPT !.items = @ \cup {x}, !.stamp = @ + 1]
  /\ collided' = (collided \/ Busy \/ load.pc = "import" \/ sync["watcher"].pc # "idle")
  /\ kept' = kept \cup {x}
  /\ event' = TRUE
  /\ UNCHANGED <<prov, cache, roomVars, barrier, pending, clientVars, told, wiped,
                 crossed, forgotten, faulted, shot>>

\* The watcher reports the file again, with nothing changed; a report that finds
\* its content recorded and applied does nothing and is left out.
Echo ==
  /\ ~event /\ (pending # None \/ prov.items # file.items) /\ Bounded
  /\ event' = TRUE
  /\ UNCHANGED <<docVars, roomVars, barrier, pending, clientVars, ghostVars>>

\* Suppressed while the server itself writes the file.
Suppressed == slot.pc \in {"write", "record", "commit"}

\* syncExternalDocChange: an event whose content no version describes is
\* recorded first, then applied to the room as it is now; an echo is ignored
\* unless it repeats a change whose sync failed.
WatcherEvent ==
  /\ event /\ ~Suppressed /\ sync["watcher"].pc = "idle"
  /\ event' = FALSE
  /\ LET changed == prov.items # file.items
         again == ~changed /\ pending # None /\ pending.items = prov.items
         token == IF changed THEN room.gen ELSE pending.gen
     IN /\ prov' = IF changed THEN Version(file.items, file.stamp, TRUE) ELSE prov
        /\ IF (changed \/ again) /\ Loaded
           THEN IF room.gen = token
                THEN /\ pending' = [items |-> file.items, gen |-> token]
                     /\ room' = [room EXCEPT !.required = token]
                     /\ sync' = [sync EXCEPT !["watcher"] = SyncOf(room, token)]
                ELSE /\ pending' = None
                     /\ room' = NotOwed(room)
                     /\ UNCHANGED sync
           ELSE pending' = None /\ UNCHANGED <<room, sync>>
  /\ UNCHANGED <<file, cache, slot, load, unloading, barrier, clientVars, events, ghostVars>>

-----------------------------------------------------------------------------
(* Agent writes (commitAgentWrite)                                         *)

\* A document that is not open is written as it is; a room that is only now
\* being loaded hears nothing of it.
AgentCold(a) ==
  /\ ~Loaded /\ a \notin kept /\ barrier.pc = "idle" /\ Bounded
  /\ file' = [file EXCEPT !.items = @ \cup {a}, !.stamp = @ + 1]
  /\ prov' = Version(file.items \cup {a}, file.stamp + 1, TRUE)
  /\ kept' = kept \cup {a}
  /\ collided' = (collided \/ load.pc = "import")
  /\ UNCHANGED <<cache, roomVars, barrier, watchVars, clientVars, told, wiped, crossed, forgotten, faulted, shot>>

\* withPersistSlot: an open document's write takes the slot, and first makes
\* up for a disk sync that failed.
AgentBegin(a) ==
  /\ Loaded /\ ~Busy /\ ~Awaited /\ ~Capturing /\ a \notin kept /\ Bounded
  /\ LET owed == room.required # None /\ room.required = room.gen
         s == [IdleSlot EXCEPT !.task = "required", !.item = a, !.path = room.key]
     IN IF owed
        THEN /\ sync' = [sync EXCEPT !["slot"] = SyncOf(room, room.required)]
             /\ slot' = [s EXCEPT !.pc = "sync"]
             /\ UNCHANGED room
        ELSE /\ room' = NotOwed(room)
             /\ slot' = [s EXCEPT !.pc = "check"]
             /\ UNCHANGED sync
  /\ UNCHANGED <<docVars, load, unloading, barrier, watchVars, clientVars, ghostVars>>

\* refreshRoomForAgentWrite: what the room has not seen of the disk is synced ...
AgentCheck ==
  /\ slot.pc = "check"
  /\ IF file.path = slot.path /\ file.items # room.hash
     THEN /\ sync' = [sync EXCEPT !["slot"] = SyncOf(room, None)]
          /\ slot' = [slot EXCEPT !.pc = "sync", !.task = "disk"]
     ELSE /\ slot' = [slot EXCEPT !.pc = "typed"]
          /\ UNCHANGED sync
  /\ UNCHANGED <<docVars, room, load, unloading, barrier, watchVars, clientVars, events, ghostVars>>

\* ... and what people typed is saved as their own version.
AgentTyped ==
  /\ slot.pc = "typed"
  /\ IF room.timer
     THEN StartPersist([room EXCEPT !.timer = FALSE], sync, Handed("typed"))
     ELSE /\ slot' = [slot EXCEPT !.pc = "hold"]
          /\ UNCHANGED <<room, sync>>
  /\ UNCHANGED <<docVars, load, unloading, barrier, watchVars, clientVars, events, ghostVars>>

\* Frames wait from here on; the commit is made against these blocks.
AgentHold ==
  /\ slot.pc = "hold"
  /\ room' = [room EXCEPT !.hold = TRUE]
  /\ queue' = [c \in Client |-> [i \in DOMAIN queue[c] |-> [queue[c][i] EXCEPT !.before = TRUE]]]
  /\ slot' = [slot EXCEPT !.pc = "commit", !.key = slot.path, !.blocks = room.items,
                          !.hash = room.hash]
  /\ UNCHANGED <<docVars, sync, load, unloading, barrier, watchVars, conn, local, marker,
                 out, events, ghostVars>>

\* Slip: the write waits for the whole move.
AgentCommit_Fenced ==
  /\ slot.pc = "commit" /\ ~Frozen
  /\ IF file.path = slot.key
     THEN LET items == slot.blocks \cup {slot.item} IN
          /\ file' = [file EXCEPT !.items = items, !.stamp = @ + 1]
          /\ prov' = Version(items, file.stamp + 1, TRUE)
          /\ kept' = kept \cup items
          /\ slot' = [slot EXCEPT !.pc = "adopt", !.blocks = items]
     ELSE /\ slot' = [slot EXCEPT !.pc = "release"]
          /\ UNCHANGED <<file, prov, kept>>
  /\ UNCHANGED <<cache, room, sync, load, unloading, barrier, watchVars, clientVars, events,
                 told, wiped, collided, crossed, forgotten, faulted, shot>>

\* commitAgentBlocks writes the live blocks with the change; it waits for a
\* move that holds the namespace, and fails where the document is no longer.
AgentCommit ==
  /\ slot.pc = "commit" /\ ~(Frozen /\ barrier.pc \in {"hold", "rekey"})
  /\ IF file.path = slot.key
     THEN LET items == slot.blocks \cup {slot.item} IN
          /\ file' = [file EXCEPT !.items = items, !.stamp = @ + 1]
          /\ prov' = Version(items, file.stamp + 1, TRUE)
          /\ kept' = kept \cup items
          /\ slot' = [slot EXCEPT !.pc = "adopt", !.blocks = items]
     ELSE /\ slot' = [slot EXCEPT !.pc = "release"]
          /\ UNCHANGED <<file, prov, kept>>
  /\ UNCHANGED <<cache, room, sync, load, unloading, barrier, watchVars, clientVars, events,
                 told, wiped, collided, crossed, forgotten, faulted, shot>>

\* The change conflicts with what people wrote, or the write fails.
AgentFails ==
  /\ slot.pc = "commit" /\ Bounded
  /\ slot' = [slot EXCEPT !.pc = "release"]
  /\ UNCHANGED <<docVars, room, sync, load, unloading, barrier, watchVars, clientVars, ghostVars>>

\* applyAgentWrite: the room takes the change (or, where its blocks cannot be
\* placed, everything that was written), or it follows the disk when other disk
\* content replaced it meanwhile.
AgentAdopt ==
  /\ slot.pc = "adopt"
  /\ LET r == [room EXCEPT !.gen = @ + 1, !.base = file.stamp, !.hash = slot.blocks,
                           !.seen = None, !.shield = prov.agent]
         placed == [r EXCEPT !.items = @ \cup {slot.item}]
         whole == Spent([r EXCEPT !.items = slot.blocks, !.saved = r.gen,
                           !.gone = (@ \cup room.items) \ slot.blocks],
                        room.intent, room.igen)
         lost == room.items \ slot.blocks
     IN \/ /\ room.hash = slot.hash
           /\ room' = placed
           /\ slot' = [slot EXCEPT !.pc = "store", !.state = StateOf(placed, prov, FALSE)]
           /\ UNCHANGED <<sync, local, marker, wiped>>
        \/ /\ room.hash = slot.hash
           /\ room' = whole
           /\ slot' = [slot EXCEPT !.pc = IF prov.items = slot.blocks THEN "store" ELSE "release",
                                   !.state = StateOf(whole, prov, TRUE)]
           /\ marker' = AcksFor(room, room.intent, room.igen)
           /\ wiped' = wiped \cup (lost \cap Edit)
           /\ local' = [c \in Client |-> IF c \in room.clients THEN local[c] \ lost
                                                               ELSE local[c]]
           /\ UNCHANGED sync
        \/ /\ room.hash # slot.hash
           /\ sync' = [sync EXCEPT !["slot"] = SyncOf(room, None)]
           /\ slot' = [slot EXCEPT !.pc = "sync", !.task = "follow"]
           /\ UNCHANGED <<room, local, marker, wiped>>
  /\ UNCHANGED <<docVars, load, unloading, barrier, watchVars, conn, out, queue, events,
                 told, kept, collided, crossed, forgotten, faulted, shot>>

AgentStore ==
  /\ slot.pc = "store"
  /\ cache' = Stored(slot.key, slot.state)
  /\ slot' = [slot EXCEPT !.pc = "release"]
  /\ UNCHANGED <<file, prov, room, sync, load, unloading, barrier, watchVars, clientVars,
                 events, ghostVars>>

\* Every client's waiting frames are dispatched again (releaseClientFrames,
\* replayPausedFrames): r is the room with one of its pauses lifted.
AllReady(r, paused) ==
  [c \in {d \in Client : conn[d] = "on"} |-> Ready(r, paused, queue[c])]
Replayed(r, paused) ==
  LET ready == AllReady(r, paused)
  IN Merged(r, UNION {Edits(ready[c]) : c \in DOMAIN ready},
            \E c \in DOMAIN ready : Signalled(ready[c]))
ToldBy(r, paused) ==
  UNION {Announced(r, AllReady(r, paused)[c]) : c \in DOMAIN AllReady(r, paused)}
StillQueued(r, paused) ==
  [c \in Client |-> IF conn[c] = "on" THEN Waiting(r, paused, queue[c]) ELSE queue[c]]

\* The slot is released, and the saves requested meanwhile are made first.
AgentRelease ==
  /\ slot.pc = "release"
  /\ LET r == [room EXCEPT !.hold = FALSE]
     IN /\ SlotFree(Replayed(r, Paused), sync, "replay")
        /\ told' = told \cup ToldBy(r, Paused)
        /\ queue' = StillQueued(r, Paused)
  /\ UNCHANGED <<docVars, load, unloading, barrier, watchVars, conn, local, marker, out,
                 events, wiped, kept, collided, crossed, forgotten, faulted, shot>>

-----------------------------------------------------------------------------
(* Unloading, barriers and crashes                                         *)

\* An empty room outlives its limit: a final save, and the room is destroyed
\* unless a client has attached meanwhile.  One that was still joining is left
\* attached to nothing.
UnloadBegin ==
  /\ Loaded /\ room.idle /\ room.clients = {} /\ unloading = None /\ ~Awaited
  /\ unloading' = room.key
  /\ RunPersist([room EXCEPT !.idle = FALSE])
  /\ UNCHANGED <<docVars, load, barrier, watchVars, clientVars, events, ghostVars>>

Destroyed ==
  /\ room' = None
  /\ sync' = [sync EXCEPT !["watcher"].key = None]
  /\ pending' = IF pending = None THEN None ELSE [pending EXCEPT !.gen = 0]
  /\ conn' = [c \in Client |-> IF conn[c] = "joining" THEN "orphan" ELSE conn[c]]
  /\ queue' = [c \in Client |-> IF conn[c] = "joining" THEN <<>> ELSE queue[c]]
  /\ told' = {}
  /\ forgotten' = forgotten \cup (InRoom \ file.items)
                     \cup UNION {QueuedBy(c) : c \in {d \in Client : conn[d] = "joining"}}

UnloadEnd ==
  /\ unloading # None /\ ~Busy
  /\ unloading' = None
  /\ IF room.clients = {} /\ room.key = unloading THEN Destroyed
     ELSE UNCHANGED <<room, sync, pending, conn, queue, told, forgotten>>
  /\ UNCHANGED <<docVars, slot, load, barrier, event, local, marker, out, events, wiped,
                 kept, collided, crossed, faulted, shot>>

\* pauseWorkspaceMutations, or the fence of withDocPathMoveTransitions: the
\* frames accepted so far stay inside the barrier.
BarrierBegin(kind) ==
  /\ barrier.pc = "idle" /\ Bounded
  /\ kind = "move" => file.path = "old"
  /\ kind = "capture" => slot.task \in {"none", "persist", "failed"}
  /\ barrier' = [pc |-> "settle", kind |-> kind]
  /\ queue' = [c \in Client |-> [i \in DOMAIN queue[c] |-> [queue[c][i] EXCEPT !.early = TRUE]]]
  /\ shot' = IF kind = "move" THEN NoShot
             ELSE [due |-> InRoom \cup Queued, allowed |-> Accepted]
  /\ UNCHANGED <<docVars, roomVars, watchVars, conn, local, marker, out, told, wiped, kept,
                 collided, crossed, forgotten, faulted>>

\* Slip: connections under way are not waited for.
BarrierDrain_Early ==
  /\ barrier.pc = "settle"
  /\ barrier.kind = "capture" => ~event /\ sync["watcher"].pc = "idle"
  /\ barrier' = [barrier EXCEPT !.pc = "drain"]
  /\ IF Loaded THEN RunPersist([room EXCEPT !.timer = FALSE])
               ELSE UNCHANGED <<room, slot, sync>>
  /\ UNCHANGED <<docVars, load, unloading, watchVars, clientVars, events, ghostVars>>

\* Connections under way settle, and for a capture the watcher's changes;
\* then the room is saved.
BarrierDrain ==
  /\ barrier.pc = "settle"
  /\ load.pc = "idle" /\ \A c \in Client : conn[c] \notin {"pending", "joining"}
  /\ barrier.kind = "capture" => ~event /\ sync["watcher"].pc = "idle"
  /\ barrier' = [barrier EXCEPT !.pc = "drain"]
  /\ IF Loaded THEN RunPersist([room EXCEPT !.timer = FALSE])
               ELSE UNCHANGED <<room, slot, sync>>
  /\ UNCHANGED <<docVars, load, unloading, watchVars, clientVars, events, ghostVars>>

\* A save that failed ends the barrier before anything is captured or moved.
BarrierDrained ==
  /\ barrier.pc = "drain" /\ ~Busy
  /\ barrier' = [barrier EXCEPT !.pc = IF slot.task = "failed" THEN "end" ELSE "hold"]
  /\ UNCHANGED <<docVars, roomVars, watchVars, clientVars, events, ghostVars>>

\* The capture has been taken.
Captured ==
  /\ barrier.pc = "hold" /\ barrier.kind = "capture"
  /\ barrier' = [barrier EXCEPT !.pc = "end"]
  /\ UNCHANGED <<docVars, roomVars, watchVars, clientVars, events, ghostVars>>

\* The document is moved (DocumentLifecycle) with its provenance ...
MoveFile ==
  /\ barrier.pc = "hold" /\ barrier.kind = "move"
  /\ file' = [file EXCEPT !.path = "new"]
  /\ barrier' = [barrier EXCEPT !.pc = "rekey"]
  /\ UNCHANGED <<prov, cache, roomVars, watchVars, clientVars, events, ghostVars>>

\* ... and the room follows it: renameState keeps the stored state,
\* renameStatesBatch discards it.
Rekey ==
  /\ barrier.pc = "rekey"
  /\ room' = IF Loaded THEN [room EXCEPT !.key = "new", !.timer = TRUE] ELSE room
  /\ cache' \in {cache, None}
  /\ barrier' = [barrier EXCEPT !.pc = "end"]
  /\ UNCHANGED <<file, prov, slot, sync, load, unloading, watchVars, clientVars, events,
                 ghostVars>>

\* Slip: the waiting frames are not replayed.
BarrierEnd_Forgets ==
  /\ barrier.pc = "end"
  /\ barrier' = IdleBarrier /\ shot' = NoShot
  /\ UNCHANGED <<room, told, queue>>
  /\ UNCHANGED <<docVars, slot, sync, load, unloading, watchVars, conn, local, marker, out,
                 events, wiped, kept, collided, crossed, forgotten, faulted>>

\* The barrier is lifted and the waiting frames are replayed in order.
BarrierEnd ==
  /\ barrier.pc = "end"
  /\ barrier' = IdleBarrier /\ shot' = NoShot
  /\ IF Loaded
     THEN /\ room' = Replayed(room, FALSE)
          /\ told' = told \cup ToldBy(room, FALSE)
          /\ queue' = StillQueued(room, FALSE)
     ELSE UNCHANGED <<room, told, queue>>
  /\ UNCHANGED <<docVars, slot, sync, load, unloading, watchVars, conn, local, marker, out,
                 events, wiped, kept, collided, crossed, forgotten, faulted>>

\* The server dies and starts again: the file, its versions, the stored state
\* and what the browsers hold are left.
Crash ==
  /\ Bounded
  /\ room' = None /\ slot' = IdleSlot /\ load' = IdleLoad /\ unloading' = None
  /\ sync' = [w \in Syncer |-> IdleSync]
  /\ barrier' = IdleBarrier /\ shot' = NoShot
  /\ cache' = IF barrier.pc = "rekey" THEN None ELSE cache
  /\ event' = FALSE /\ pending' = None
  /\ conn' = [c \in Client |-> "off"]
  /\ out' = [c \in Client |-> <<>>]
  /\ queue' = [c \in Client |-> <<>>]
  /\ told' = {} /\ faulted' = TRUE
  /\ UNCHANGED <<file, prov, local, marker, wiped, kept, collided, crossed, forgotten>>

-----------------------------------------------------------------------------
Save == PersistStat \/ PersistExport \/ PersistCompare \/ PersistSettle \/ PersistWrite
          \/ PersistRecord \/ PersistState \/ PersistLand
AgentStep == AgentCheck \/ AgentTyped \/ AgentHold \/ AgentCommit \/ AgentAdopt
               \/ AgentStore \/ AgentRelease
BarrierStep == BarrierDrain \/ BarrierDrained \/ Captured \/ MoveFile \/ Rekey \/ BarrierEnd

\* What the event loop does by itself once it has been started.
System ==
  \/ Save \/ (\E w \in Syncer : SyncRead(w) \/ SyncApply(w) \/ SyncCache(w))
  \/ AgentStep \/ PersistTimer \/ BarrierStep \/ WatcherEvent
  \/ LoadRead \/ LoadImport \/ UnloadEnd
  \/ \E c \in Client : Attach(c) \/ Receive(c)

Environment ==
  \/ \E c \in Client : Upgrade(c) \/ Connect(c) \/ Drop(c) \/ \E e \in Edit : LocalEdit(c, e)
  \/ \E x \in External : ExternalWrite(x)
  \/ \E a \in Agent : AgentCold(a) \/ AgentBegin(a)
  \/ \E kind \in Barriers : BarrierBegin(kind)
  \/ \E w \in Syncer : SyncFails(w)
  \/ PersistFails \/ AgentFails \/ Echo \/ UnloadBegin \/ Crash

Next == System \/ Environment
Spec == Init /\ [][Next]_vars
FairSpec == Spec /\ WF_vars(System) /\ \A c \in Client : WF_vars(Connect(c))

-----------------------------------------------------------------------------
(* Properties                                                              *)

Content == SUBSET (Edit \cup External \cup Agent)
Place == {"old", "new"}
Versions == [items : Content, stamp : Nat, agent : BOOLEAN]
States == [items : Content, gone : Content, head : Versions, matches : BOOLEAN]
Frames == [body : SUBSET Edit, early : BOOLEAN, before : BOOLEAN]
Glimpses == [stamp : Nat, items : Content]
Rooms == [key : Place, items : Content, gone : Content, gen : Nat, saved : Nat,
          restored : {1, None}, required : Nat \cup {None}, intent : BOOLEAN,
          igen : Nat, base : Nat, hash : Content, seen : Glimpses \cup {None},
          shield : BOOLEAN, timer : BOOLEAN, again : BOOLEAN, hold : BOOLEAN,
          clients : SUBSET Client, idle : BOOLEAN]
Saving  == {"stat", "export", "compare", "settle", "write", "record", "state", "land"}
Handing == {"commit", "adopt", "store", "release"}
Slots == [pc : {"idle", "sync", "check", "typed", "hold"} \cup Saving \cup Handing,
          task : {"none", "failed", "persist", "replay"} \cup DOMAIN NextStage,
          key : Place \cup {None}, stat : Nat, blocks : Content,
          known : Content \cup {None}, gen : Nat, had : BOOLEAN, igen : Nat,
          prov : Versions \cup {None}, made : Versions \cup {None}, hash : Content,
          state : States \cup {None}, item : Agent \cup {None},
          path : Place \cup {None}]
Syncs == [pc : {"idle", "read", "apply", "cache"}, key : Place \cup {None},
          token : Nat \cup {None}, had : BOOLEAN, igen : Nat, items : Content,
          state : States \cup {None}]

\* None is no room, no version and no stored state.
ASSUME NoneAssumption == None \notin Rooms /\ None \notin Versions /\ None \notin States

DocTypes ==
  /\ file \in [path : Place, items : Content, stamp : Nat]
  /\ prov \in Versions /\ cache \in States \cup {None}
RoomTypes ==
  /\ room \in Rooms \cup {None} /\ slot \in Slots /\ sync \in [Syncer -> Syncs]
  /\ load \in [pc : {"idle", "read", "import"}, items : Content, stamp : Nat]
  /\ unloading \in Place \cup {None}
WatchTypes ==
  /\ event \in BOOLEAN /\ pending \in [items : Content, gen : Nat] \cup {None}
  /\ barrier \in [pc : {"idle", "settle", "drain", "hold", "rekey", "end"},
                  kind : {"none", "move", "capture"}]
ClientTypes ==
  /\ conn \in [Client -> {"off", "upgrade", "pending", "joining", "on", "orphan"}]
  /\ local \in [Client -> SUBSET Edit]
  /\ \A c \in Client : local[c] \subseteq {e \in Edit : Author[e] = c}
  /\ marker \in [Client -> BOOLEAN]
  /\ out \in [Client -> Seq(SUBSET Edit)]
  /\ queue \in [Client -> Seq(Frames)]
  /\ \A c \in Client : Len(queue[c]) <= MAX_PENDING_CONNECTION_FRAMES
GhostTypes ==
  /\ events \in 0 .. MaxEvents
  /\ told \in SUBSET Edit /\ wiped \in SUBSET Edit /\ kept \in Content
  /\ forgotten \in SUBSET Edit
  /\ collided \in BOOLEAN /\ crossed \in BOOLEAN /\ faulted \in BOOLEAN
  /\ shot \in [due : SUBSET Edit, allowed : Content]

\* How a room fits its clients and its slot.
RoomFits ==
  /\ Loaded =>
       /\ room.items \cap room.gone = {}
       /\ room.saved <= room.gen
       /\ room.clients = {c \in Client : conn[c] = "on"}
       /\ room.hold = (slot.pc \in Handing \/ (slot.pc = "sync" /\ slot.task = "follow"))
  /\ ~Loaded => ~Busy /\ unloading = None
  /\ (sync["slot"].pc # "idle") = (slot.pc = "sync")

\* The type invariant of the manager's maps, of a room and of the sockets.
TypeOK ==
  DocTypes /\ RoomTypes /\ WatchTypes /\ ClientTypes /\ GhostTypes /\ RoomFits

\* The stored Yjs state names the version it was stored under and whether it
\* equals the document of that version.  A cold load trusts both: state stored
\* as equal never shows other content than the document whose version it names.
CacheIsTrue ==
  cache # None /\ cache.head = prov /\ prov.items = file.items /\ cache.matches
    => cache.items = file.items

\* Nothing that reached the document is overwritten by a later save or agent
\* write, whatever they raced, unless another program wrote the file where no
\* guard of the code can see it, or a disk sync crossed a save.
WrittenStays == ~collided /\ ~crossed => kept \subseteq file.items

\* persistDoc's spendIntent: when a room has no signal left to attribute, every
\* edit it was told a person made has been written to the document, or a disk
\* sync took it out of the room; none is still waiting for its attribution.
AckMeansKept == Loaded /\ ~room.intent => told \subseteq kept \cup wiped

\* Frames that a barrier or an agent's commit held back are replayed when it is
\* over: no accepted frame of an attached client waits for nothing.
NothingStranded ==
  barrier.pc = "idle" /\ Loaded /\ ~room.hold
    => \A c \in Client : conn[c] = "on" => queue[c] = <<>>

\* While a capture reads the workspace, the document holds every edit the
\* server had accepted when the capture began (unless a disk sync or an agent's
\* write took it out of the room, or an unload forgot it), and no edit it
\* accepted later.
CaptureHoldsAccepted ==
  Capturing /\ barrier.pc = "hold"
    => /\ shot.due \ (wiped \cup forgotten) \subseteq file.items
       /\ file.items \cap Edit \subseteq shot.allowed

\* An edit the room shows does not stay in memory alone, unless a save failed,
\* and a move or a capture always ends: it waits for connections, saves and
\* agents, and none of them waits for it.
EverythingSettles ==
  []<>((InRoom \subseteq file.items \/ faulted) /\ barrier.pc = "idle")

\* unloadDoc: "never destroy an active or rekeyed room".  A room is destroyed
\* only when no accepted edit goes with it, neither one that arrived during its
\* final save nor one of a client that is still joining it.
UnloadForgetsNothing == ~faulted => forgotten = {}
=============================================================================
