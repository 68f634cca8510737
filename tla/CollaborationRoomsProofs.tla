---------------------- MODULE CollaborationRoomsProofs ----------------------
(***************************************************************************)
(* The safety of CollaborationRooms, for any number of clients, edits,     *)
(* agents and outside writes, any queue limit and any number of events.    *)
(***************************************************************************)
EXTENDS CollaborationRoomsTypes

-----------------------------------------------------------------------------
(* The invariant                                                           *)

\* The states that are stored, and those that the slot or a sync is to store.
StoredSet ==
  {st \in {cache} : cache # None}
  \cup {st \in {slot.state} : slot.pc \in {"settle", "land", "store"}}
  \cup {sync[w].state : w \in {v \in Syncer : sync[v].pc = "cache"}}

\* Everything but people's edits comes from the file.
Origin ==
  /\ file.items \subseteq kept /\ prov.items \subseteq kept
  /\ load.items \subseteq kept
  /\ \A w \in Syncer : sync[w].items \subseteq kept
  /\ slot.prov # None => slot.prov.items \subseteq kept
  /\ slot.made # None => slot.made.items \subseteq kept
  /\ slot.known # None => slot.known \subseteq kept
  /\ slot.pc \in {"settle", "record", "state", "land", "adopt"} => slot.blocks \subseteq kept
  /\ slot.blocks \ Edit \subseteq kept
  /\ \A st \in StoredSet : (st.items \cup st.gone) \ Edit \subseteq kept
  /\ Loaded => /\ (room.items \cup room.gone) \ Edit \subseteq kept
               /\ room.seen # None => room.seen.items \subseteq kept
               /\ room.hash \subseteq kept

\* The slot works for an agent whose write is not in the file yet.
Asking(s) ==
  /\ s.task \in DOMAIN NextStage
  /\ \/ s.pc \in Saving \cup {"check", "typed", "hold", "commit"}
     \/ s.pc = "sync" /\ s.task # "follow"

\* An agent's item is new until it is committed, and then it is in the file.
Item ==
  /\ Asking(slot) => slot.item \notin kept
  /\ slot.pc = "adopt" =>
       /\ slot.item \in file.items /\ slot.item \notin room.gone
       /\ slot.item \in room.items /\ sync["watcher"].pc = "apply"
            => slot.item \in sync["watcher"].items
  /\ \A st \in StoredSet : st.items \cap st.gone = {}

\* What the room was told is in it, was wiped, or is in the file.
Told ==
  /\ \A st \in StoredSet : st.gone \cap Edit \subseteq wiped
  /\ Loaded =>
      /\ room.gone \cap Edit \subseteq wiped
      /\ told \subseteq room.items \cup wiped \cup kept
      /\ ~room.intent => told \subseteq wiped \cup kept
      /\ slot.pc \in {"compare", "write", "record", "settle"} /\ slot.igen = room.igen
           => told \subseteq slot.blocks \cup wiped \cup kept

\* State stored as equal to the document of its version.
Matched ==
  /\ \A st \in StoredSet : st.matches => st.items = st.head.items
  /\ slot.pc \in {"compare", "write", "record", "state"} /\ Loaded /\ slot.gen = room.gen
      => room.items = slot.blocks

\* The room has seen the disk for the agent's write.
Refreshed(s) == \/ s.task = "typed" /\ s.pc \notin Handing
                \/ s.pc \in {"typed", "hold"}
Seen == Loaded /\ Refreshed(slot) /\ file.path = slot.path => file.items \subseteq room.items

\* What was read of the file for a cold room is still in the file.
Fresh == load.pc = "import" => load.items = file.items /\ load.stamp = file.stamp

\* What the slot has read, is to write, or is to make of the room covers the file.
Covered(s, items, f) ==
  /\ s.pc \in {"export", "compare", "settle", "write"} /\ s.stat # 0
       => f.items \subseteq items
  /\ s.pc \in {"record", "state", "land"} => f.items \subseteq items
  /\ s.pc \in {"compare", "write", "commit"} => s.blocks \subseteq items
  /\ s.pc \in {"compare", "write"} /\ s.stat # 0 => f.items \subseteq s.blocks
  /\ s.pc \in {"compare", "state"} => s.prov.items \subseteq f.items
  /\ s.pc = "commit" /\ f.path = s.path => f.items \subseteq s.blocks
  /\ s.pc = "adopt" => /\ s.blocks \subseteq items \cup {s.item}
                       /\ f.items \subseteq s.blocks

\* What the file was given is in it, and the room that has seen it covers it.
Standing ==
  /\ kept \subseteq file.items
  /\ \A st \in StoredSet : st.head.items \subseteq st.items
  /\ sync["slot"].pc = "cache" => file.items \subseteq room.items
  /\ Loaded => /\ room.hash \subseteq room.items
               /\ file.stamp <= room.base => file.items \subseteq room.items
               /\ Covered(slot, room.items, file)

\* While no outside write landed unseen and no disk sync crossed a save.
Written == ~collided /\ ~crossed => Standing /\ Seen /\ Fresh

\* Nothing claims to have seen a later file.
Times ==
  /\ slot.stat <= file.stamp /\ load.stamp <= file.stamp
  /\ Loaded => room.base <= file.stamp
  /\ slot.pc \in {"settle", "write"} => slot.stat # 0

\* The room has the document's path unless a move is under way, and an agent's
\* write the path that the room had when it began.
Paths ==
  /\ Loaded /\ room.key # file.path => barrier.pc = "rekey"
  /\ barrier.pc = "rekey" => file.path = "new"
  /\ Loaded /\ slot.task \in DOMAIN NextStage /\ room.key = "old" => slot.path = "old"
  /\ slot.task \in DOMAIN NextStage /\ slot.path = "new" => file.path = "new"
  /\ slot.pc = "sync" /\ slot.task = "disk"
       => /\ sync["slot"].key = slot.path \/ file.path # slot.path
          /\ sync["slot"].pc \in {"read", "apply"} => sync["slot"].token = None

-----------------------------------------------------------------------------
(* The rest of the types                                                   *)

LEMMA DetachedJoined ==
    ASSUME Sound, NEW c \in Client, Detached(c, room), told' = told,
           load' = load, unloading' = unloading
    PROVE  Joined'
<1>1. Joined /\ conn \in Conns
  BY SoundParts, ClientParts
<1>2. conn' = [conn EXCEPT ![c] = "off"]
  BY DEF Detached
<1>3. CASE Loaded
  <2>1. Loaded' /\ room'.clients = room.clients \ {c}
    BY <1>3, DetachedForm DEF Follows, Grows
  <2> QED
    BY <1>1, <1>2, <1>3, <2>1 DEF Joined, Conns
<1>4. CASE ~Loaded
  <2>1. ~Loaded'
    BY <1>4, DetachedForm DEF Loaded
  <2> QED
    BY <1>1, <1>2, <1>4, <2>1 DEF Joined, Conns
<1> QED
  BY <1>3, <1>4

LEMMA SocketsJoined ==
    ASSUME Sound, NEW c \in Client,
           Attach(c) \/ Receive(c) \/ Drop(c) \/ Upgrade(c) \/ Connect(c)
    PROVE  Joined'
<1>1. Joined /\ conn \in Conns /\ (Loaded => room \in Rooms)
  BY SoundParts, ClientParts, BusyLoaded
<1>2. CASE Attach(c)
  <2>1. /\ Loaded /\ Loaded' /\ room'.clients = room.clients \cup {c}
        /\ conn' = [conn EXCEPT ![c] = "on"] /\ load' = load /\ unloading' = unloading
    BY <1>2, AttachForm DEF Attach, Follows, Grows
  <2> QED
    BY <1>1, <2>1 DEF Joined, Conns
<1>3. CASE Receive(c)
  <2>1. load' = load /\ unloading' = unloading
    BY <1>3 DEF Receive
  <2>2. ASSUME Follows, room'.clients = room.clients, conn' = conn PROVE Joined'
    BY <1>1, <2>1, <2>2, StableJoined DEF Stable, Follows, Grows
  <2>3. ASSUME room' = room, conn' = conn PROVE Joined'
    BY <1>1, <2>1, <2>3, StableJoined DEF Stable, Loaded
  <2> QED
    BY <1>3, <2>1, <2>2, <2>3, ReceiveForm, DetachedJoined
<1>4. CASE Drop(c)
  BY <1>4, DetachedJoined DEF Drop
<1>5. CASE Upgrade(c)
  <2>1. /\ room' = room /\ load' = load /\ unloading' = unloading
        /\ conn[c] = "off" /\ conn' = [conn EXCEPT ![c] = "upgrade"]
    BY <1>5 DEF Upgrade, roomVars
  <2> QED
    BY <1>1, <2>1 DEF Joined, Conns, Loaded
<1>6. CASE Connect(c)
  <2>1. /\ room' = room /\ unloading' = unloading /\ conn[c] = "upgrade"
        /\ Loaded => load' = load
        /\ \/ conn' = [conn EXCEPT ![c] = "off"]
           \/ conn' = [conn EXCEPT ![c] = "joining"] /\ Loaded
           \/ conn' = [conn EXCEPT ![c] = "pending"]
    BY <1>6 DEF Connect
  <2>2. CASE Loaded
    BY <1>1, <2>1, <2>2 DEF Joined, Conns, Loaded
  <2>3. CASE ~Loaded
    BY <1>1, <2>1, <2>3 DEF Joined, Conns, Loaded
  <2> QED
    BY <2>2, <2>3
<1> QED
  BY <1>2, <1>3, <1>4, <1>5, <1>6

LEMMA RoomsJoined ==
    ASSUME Sound, LoadImport \/ UnloadEnd \/ Crash
    PROVE  Joined'
<1>1. Joined /\ conn \in Conns
  BY SoundParts, ClientParts
<1>2. CASE LoadImport
  <2>1. /\ ~Loaded /\ Loaded' /\ room'.clients = {} /\ load' = IdleLoad
        /\ conn' = [c \in Client |-> IF conn[c] = "pending" THEN "joining" ELSE conn[c]]
    BY <1>2, ImportForm DEF LoadImport
  <2> QED
    BY <1>1, <2>1 DEF Joined, Conns, IdleLoad
<1>3. CASE UnloadEnd
  <2>1. unloading' = None /\ load' = load /\ Loaded
    BY <1>1, <1>3 DEF UnloadEnd, Joined
  <2>2. CASE room' = room /\ conn' = conn
    BY <1>1, <2>1, <2>2 DEF Joined, Loaded
  <2>3. CASE Destroyed /\ room.clients = {}
    <3>1. ~Loaded' /\ conn' = [c \in Client |-> IF conn[c] = "joining" THEN "orphan" ELSE conn[c]]
      BY <2>3 DEF Destroyed, Loaded
    <3>2. \A c \in Client : conn[c] # "on"
      BY <1>1, <2>1, <2>3 DEF Joined
    <3> QED
      BY <2>1, <3>1, <3>2 DEF Joined
  <2> QED
    BY <1>3, <2>2, <2>3 DEF UnloadEnd
<1>4. CASE Crash
  <2>1. room' = None /\ unloading' = None /\ conn' = [c \in Client |-> "off"]
    BY <1>4 DEF Crash
  <2> QED
    BY <2>1 DEF Joined, Loaded
<1> QED
  BY <1>2, <1>3, <1>4

LEMMA JoinedStep ==
    ASSUME Sound, Next
    PROVE  Joined'
<1>1. Joined
  BY SoundParts
<1>2. ASSUME Stable, conn' = conn, load' = load, unloading' = unloading PROVE Joined'
  BY <1>1, <1>2, StableJoined
<1>3. CASE \E c \in Client : Attach(c) \/ Receive(c) \/ Drop(c) \/ Upgrade(c) \/ Connect(c)
  BY <1>3, SocketsJoined
<1>4. CASE LoadImport \/ UnloadEnd \/ Crash
  BY <1>4, RoomsJoined
<1>5. CASE LoadRead
  <2>1. Stable /\ conn' = conn /\ unloading' = unloading
    BY <1>5, StableStep, ConnForm DEF Beside, Apart, LoadRead
  <2>2. ~Loaded
    BY <1>1, <1>5 DEF LoadRead, Joined
  <2> QED
    BY <1>1, <2>1, <2>2, StableJoined
<1>6. CASE UnloadBegin
  <2>1. Stable /\ conn' = conn /\ load' = load /\ Loaded
    BY <1>6, StableStep, ConnForm DEF Apart, UnloadBegin
  <2> QED
    BY <1>1, <2>1, StableJoined
<1>7. CASE BarrierDrain \/ BarrierDrained \/ Captured \/ MoveFile \/ Rekey
  <2>1. Stable /\ conn' = conn
    BY <1>7, StableStep, ConnForm DEF Beside, Apart
  <2>2. load' = load /\ unloading' = unloading
    BY <1>7 DEF BarrierDrain, BarrierDrained, Captured, MoveFile, Rekey, roomVars
  <2> QED
    BY <1>2, <2>1, <2>2
<1>8. CASE BarrierEnd \/ \E kind \in Barriers : BarrierBegin(kind)
  <2>1. Stable /\ conn' = conn
    BY <1>8, StableStep, ConnForm DEF Beside
  <2>2. load' = load /\ unloading' = unloading
    BY <1>8 DEF BarrierEnd, BarrierBegin, roomVars
  <2> QED
    BY <1>2, <2>1, <2>2
<1>9. CASE PersistTimer \/ Save \/ PersistFails \/ Echo \/ WatcherEvent \/ AgentStep
             \/ AgentFails
             \/ (\E w \in Syncer : SyncRead(w) \/ SyncApply(w) \/ SyncCache(w) \/ SyncFails(w))
             \/ (\E x \in External : ExternalWrite(x))
             \/ (\E a \in Agent : AgentCold(a) \/ AgentBegin(a))
             \/ (\E c \in Client, e \in Edit : LocalEdit(c, e))
  <2>1. Stable
    BY <1>9, StableStep DEF Beside
  <2>2. conn' = conn
    BY <1>9, ConnForm DEF Apart, Save, AgentStep
  <2>3. load' = load /\ unloading' = unloading
    BY <1>9, InnerForm DEF Inner
  <2> QED
    BY <1>2, <2>1, <2>2, <2>3
<1> QED
  BY <1>3, <1>4, <1>5, <1>6, <1>7, <1>8, <1>9 DEF Next, System, Environment, BarrierStep

LEMMA NoticedStep ==
    ASSUME Sound, Next
    PROVE  Noticed'
<1>1. Noticed
  BY SoundParts
<1>2. CASE WatcherEvent
  BY <1>2, WatcherForm DEF WatcherEvent, Noticed
<1>3. ASSUME NEW w \in Syncer,
             SyncRead(w) \/ SyncApply(w) \/ SyncCache(w) \/ SyncFails(w)
      PROVE  Noticed'
  <2>1. event' = event
    BY <1>3 DEF SyncRead, SyncApply, SyncCache, SyncFails
  <2>2. pending' \in {None, pending}
    BY <1>3, ReadForm, ApplyForm, CacheForm DEF Ended
  <2> QED
    BY <1>1, <2>1, <2>2 DEF Noticed
<1>4. CASE (\E x \in External : ExternalWrite(x)) \/ Echo \/ Crash
  BY <1>1, <1>4 DEF ExternalWrite, Echo, Crash, Noticed
<1>5. CASE UnloadEnd
  <2>1. event' = event /\ (pending' = pending \/ pending' = None
                             \/ (pending # None /\ pending' = [pending EXCEPT !.gen = 0]))
    BY <1>5 DEF UnloadEnd, Destroyed
  <2> QED
    BY <1>1, <2>1 DEF Noticed
<1>6. CASE LoadRead \/ LoadImport \/ PersistTimer \/ Save \/ PersistFails
  BY <1>1, <1>6 DEF LoadRead, LoadImport, PersistTimer, Save, PersistStat, PersistExport,
     PersistCompare, PersistSettle, PersistWrite, PersistRecord, PersistState, PersistLand,
     PersistFails, watchVars, Noticed
<1>7. CASE (\E a \in Agent : AgentCold(a) \/ AgentBegin(a)) \/ AgentStep \/ AgentFails
  BY <1>1, <1>7 DEF AgentCold, AgentBegin, AgentStep, AgentCheck, AgentTyped, AgentHold,
     AgentCommit, AgentAdopt, AgentStore, AgentRelease, AgentFails, watchVars, Noticed
<1>8. CASE UnloadBegin \/ BarrierStep \/ \E kind \in Barriers : BarrierBegin(kind)
  BY <1>1, <1>8 DEF UnloadBegin, BarrierStep, BarrierBegin, BarrierDrain, BarrierDrained,
     Captured, MoveFile, Rekey, BarrierEnd, watchVars, Noticed
<1>9. CASE \E c \in Client : \/ Attach(c) \/ Receive(c) \/ Upgrade(c) \/ Connect(c)
                             \/ Drop(c) \/ \E e \in Edit : LocalEdit(c, e)
  BY <1>1, <1>9 DEF Attach, Receive, Upgrade, Connect, Drop, LocalEdit, watchVars, Noticed
<1> QED
  BY <1>2, <1>3, <1>4, <1>5, <1>6, <1>7, <1>8, <1>9 DEF Next, System, Environment

-----------------------------------------------------------------------------
(* The document                                                            *)

\* The steps that leave the document, its provenance and its stored state.
Undocumented ==
    \/ \E c \in Client : \/ Attach(c) \/ Receive(c) \/ Upgrade(c) \/ Connect(c)
                         \/ Drop(c) \/ \E e \in Edit : LocalEdit(c, e)
    \/ LoadRead \/ PersistTimer \/ PersistStat \/ PersistExport \/ PersistCompare
    \/ PersistState \/ PersistFails
    \/ (\E w \in Syncer : SyncRead(w) \/ SyncApply(w) \/ SyncFails(w)) \/ Echo
    \/ (\E a \in Agent : AgentBegin(a)) \/ AgentCheck \/ AgentTyped \/ AgentHold
    \/ AgentFails \/ AgentAdopt \/ AgentRelease
    \/ UnloadBegin \/ UnloadEnd \/ (\E kind \in Barriers : BarrierBegin(kind))
    \/ BarrierDrain \/ BarrierDrained \/ Captured \/ BarrierEnd

LEMMA UndocumentedForm ==
    ASSUME Undocumented
    PROVE  file' = file /\ prov' = prov /\ cache' = cache /\ kept' = kept
<1>1. CASE \E c \in Client : \/ Attach(c) \/ Receive(c) \/ Upgrade(c) \/ Connect(c)
                             \/ Drop(c) \/ \E e \in Edit : LocalEdit(c, e)
  BY <1>1 DEF Attach, Receive, Upgrade, Connect, Drop, LocalEdit, docVars, ghostVars
<1>2. CASE LoadRead \/ PersistTimer \/ PersistStat \/ PersistExport \/ PersistCompare
            \/ PersistState \/ PersistFails
  BY <1>2 DEF LoadRead, PersistTimer, PersistStat, PersistExport, PersistCompare,
     PersistState, PersistFails, docVars, ghostVars
<1>3. CASE (\E w \in Syncer : SyncRead(w) \/ SyncApply(w) \/ SyncFails(w)) \/ Echo
  BY <1>3 DEF SyncRead, SyncApply, SyncFails, Echo, docVars, ghostVars
<1>4. CASE (\E a \in Agent : AgentBegin(a)) \/ AgentCheck \/ AgentTyped \/ AgentHold
            \/ AgentFails \/ AgentAdopt \/ AgentRelease
  BY <1>4 DEF AgentBegin, AgentCheck, AgentTyped, AgentHold, AgentFails, AgentAdopt,
     AgentRelease, docVars, ghostVars
<1>5. CASE UnloadBegin \/ UnloadEnd \/ (\E kind \in Barriers : BarrierBegin(kind))
            \/ BarrierDrain \/ BarrierDrained \/ Captured \/ BarrierEnd
  BY <1>5 DEF UnloadBegin, UnloadEnd, BarrierBegin, BarrierDrain, BarrierDrained, Captured,
     BarrierEnd, docVars, ghostVars
<1> QED
  BY <1>1, <1>2, <1>3, <1>4, <1>5 DEF Undocumented

\* The steps that change one of them.
LEMMA DocSteps ==
    ASSUME Next
    PROVE  \/ Undocumented
           \/ LoadImport \/ PersistSettle \/ PersistWrite \/ PersistRecord \/ PersistLand
           \/ (\E w \in Syncer : SyncCache(w)) \/ (\E x \in External : ExternalWrite(x))
           \/ WatcherEvent \/ (\E a \in Agent : AgentCold(a)) \/ AgentCommit \/ AgentStore
           \/ MoveFile \/ Rekey \/ Crash
  BY DEF Next, System, Environment, Save, AgentStep, BarrierStep, Undocumented

\* What a program or an agent adds to the document.
LEMMA AddForm ==
    ASSUME DocTypes, NEW x \in External \cup Agent,
           file' = [file EXCEPT !.items = @ \cup {x}, !.stamp = @ + 1]
    PROVE  /\ file' \in [path : Place, items : Content, stamp : Nat]
           /\ file'.path = file.path /\ file'.items = file.items \cup {x}
           /\ file'.stamp = file.stamp + 1
<1>1. file \in [path : Place, items : Content, stamp : Nat]
  BY DEF DocTypes
<1>2. file.items \cup {x} \in Content /\ file.stamp + 1 \in Nat
  BY <1>1 DEF Content
<1> DEFINE items == file.items \cup {x}
           stamp == file.stamp + 1
<1>3. file' = [file EXCEPT !.items = items, !.stamp = stamp]
  BY <1>1
<1>4. items \in Content /\ stamp \in Nat
  BY <1>2
<1>5. file'.path = file.path /\ file'.items = items /\ file'.stamp = stamp
  <2> HIDE DEF items, stamp
  <2> QED
    BY <1>1, <1>3
<1>6. file' \in [path : Place, items : Content, stamp : Nat]
  <2> HIDE DEF items, stamp
  <2> QED
    BY <1>1, <1>3, <1>4, FileForm
<1> QED
  BY <1>5, <1>6

LEMMA StoredStates ==
    ASSUME Sound
    PROVE  \A st \in StoredSet : st \in States
<1>1. Slotted /\ cache \in States \cup {None}
  BY SoundParts DEF DocTypes
<1> QED
  BY <1>1 DEF StoredSet, Slotted

\* The stored state is one that was to be stored, or is gone.
LEMMA RestoresForm ==
    ASSUME Sound,
           \/ PersistSettle \/ PersistLand \/ AgentStore \/ (\E w \in Syncer : SyncCache(w))
           \/ Rekey \/ Crash
    PROVE  cache' = None \/ cache' \in StoredSet
<1>1. ASSUME NEW key, NEW st \in StoredSet, cache' = Stored(key, st)
      PROVE  cache' = None \/ cache' \in StoredSet
  BY <1>1, StoredForm DEF StoredSet
<1>2. CASE PersistSettle
  <2>1. slot.state \in StoredSet /\ cache' = Stored(slot.key, slot.state)
    BY <1>2 DEF PersistSettle, StoredSet
  <2> QED
    BY <1>1, <2>1
<1>3. CASE PersistLand
  <2>1. slot.state \in StoredSet /\ cache' = Stored(slot.key, slot.state)
    BY <1>3 DEF PersistLand, StoredSet
  <2> QED
    BY <1>1, <2>1
<1>4. CASE AgentStore
  <2>1. slot.state \in StoredSet /\ cache' = Stored(slot.key, slot.state)
    BY <1>4 DEF AgentStore, StoredSet
  <2> QED
    BY <1>1, <2>1
<1>5. ASSUME NEW w \in Syncer, SyncCache(w) PROVE cache' = None \/ cache' \in StoredSet
  <2>1. sync[w].state \in StoredSet /\ cache' = Stored(sync[w].key, sync[w].state)
    BY <1>5 DEF SyncCache, StoredSet
  <2> QED
    BY <1>1, <2>1
<1>6. CASE Rekey \/ Crash
  BY <1>6 DEF Rekey, Crash, StoredSet
<1> QED
  BY <1>2, <1>3, <1>4, <1>5, <1>6

LEMMA ColdForm ==
    ASSUME Sound, NEW a \in Agent, AgentCold(a)
    PROVE  /\ ~Loaded /\ room' = room /\ slot' = slot /\ sync' = sync /\ load' = load
           /\ cache' = cache /\ a \notin kept /\ kept' = kept \cup {a}
           /\ file' \in [path : Place, items : Content, stamp : Nat]
           /\ file'.path = file.path /\ file'.items = file.items \cup {a}
           /\ file'.stamp = file.stamp + 1
           /\ prov' \in Versions /\ prov'.items = file.items \cup {a}
<1>1. DocTypes
  BY SoundParts
<1>2. /\ file' \in [path : Place, items : Content, stamp : Nat]
      /\ file'.path = file.path /\ file'.items = file.items \cup {a}
      /\ file'.stamp = file.stamp + 1
  BY <1>1, AddForm DEF AgentCold
<1>3. prov' = [items |-> file.items \cup {a}, stamp |-> file.stamp + 1, agent |-> TRUE]
  BY DEF AgentCold, Version
<1>4. prov'.items \in Content /\ prov'.stamp \in Nat
  BY <1>2, <1>3
<1>5. prov' \in Versions /\ prov'.items = file.items \cup {a}
  BY <1>3, <1>4 DEF Versions
<1> QED
  BY <1>2, <1>5 DEF AgentCold, roomVars

LEMMA OutsideForm ==
    ASSUME Sound, NEW x \in External, ExternalWrite(x)
    PROVE  /\ room' = room /\ slot' = slot /\ sync' = sync /\ load' = load
           /\ cache' = cache /\ prov' = prov /\ kept' = kept \cup {x}
           /\ file' \in [path : Place, items : Content, stamp : Nat]
           /\ file'.path = file.path /\ file'.items = file.items \cup {x}
           /\ file'.stamp = file.stamp + 1
<1>1. DocTypes
  BY SoundParts
<1> QED
  BY <1>1, AddForm DEF ExternalWrite, roomVars

LEMMA MoveForm ==
    ASSUME Sound, MoveFile
    PROVE  /\ room' = room /\ slot' = slot /\ sync' = sync /\ load' = load
           /\ cache' = cache /\ prov' = prov /\ kept' = kept
           /\ file' \in [path : Place, items : Content, stamp : Nat]
           /\ file'.path = "new" /\ file'.items = file.items /\ file'.stamp = file.stamp
<1>1. file \in [path : Place, items : Content, stamp : Nat]
  BY SoundParts DEF DocTypes
<1>2. file' = [file EXCEPT !.path = "new"]
  BY DEF MoveFile
<1>3. /\ file' \in [path : Place, items : Content, stamp : Nat]
      /\ file'.path = "new" /\ file'.items = file.items /\ file'.stamp = file.stamp
  BY <1>1, <1>2 DEF Place
<1> QED
  BY <1>3 DEF MoveFile, roomVars, ghostVars

LEMMA DocStep ==
    ASSUME Sound, Next
    PROVE  DocTypes'
<1>1. DocTypes
  BY SoundParts
<1>2. CASE Undocumented
  BY <1>1, <1>2, UndocumentedForm DEF DocTypes
<1>3. CASE LoadImport
  BY <1>1, <1>3, ImportForm DEF LoadImport, DocTypes
<1>4. CASE PersistSettle \/ PersistLand \/ AgentStore \/ (\E w \in Syncer : SyncCache(w))
            \/ Rekey \/ Crash
  <2>1. cache' \in States \cup {None}
    BY <1>4, RestoresForm, StoredStates
  <2>2. file' = file /\ prov' = prov
    BY <1>4 DEF PersistSettle, PersistLand, AgentStore, SyncCache, Rekey, Crash
  <2> QED
    BY <1>1, <2>1, <2>2 DEF DocTypes
<1>5. CASE PersistWrite
  BY <1>1, <1>5, WriteForm DEF PersistWrite, DocTypes
<1>6. CASE PersistRecord
  BY <1>1, <1>6, RecordForm DEF PersistRecord, DocTypes
<1>7. CASE WatcherEvent
  BY <1>1, <1>7, WatcherForm DEF WatcherEvent, DocTypes
<1>8. CASE AgentCommit
  <2>1. cache' = cache
    BY <1>8 DEF AgentCommit
  <2> QED
    BY <1>1, <1>8, <2>1, CommitForm DEF DocTypes
<1>9. CASE \E x \in External : ExternalWrite(x)
  BY <1>1, <1>9, OutsideForm DEF DocTypes
<1>10. CASE \E a \in Agent : AgentCold(a)
  BY <1>1, <1>10, ColdForm DEF DocTypes
<1>11. CASE MoveFile
  BY <1>1, <1>11, MoveForm DEF DocTypes
<1> QED
  BY <1>2, <1>3, <1>4, <1>5, <1>6, <1>7, <1>8, <1>9, <1>10, <1>11, DocSteps

LEMMA SoundStep ==
    ASSUME Sound, Next, slot.pc = "adopt" => slot.item \notin room.gone,
           cache # None => cache.items \cap cache.gone = {}
    PROVE  Sound'
<1>1. DocTypes' /\ Noticed' /\ ClientTypes' /\ GhostTypes' /\ Loading'
  BY DocStep, NoticedStep, ClientStep, GhostStep, LoadingStep
<1>2. Slotted' /\ Roomed' /\ Joined'
  BY FitsStep, JoinedStep DEF Fits
<1> QED
  BY <1>1, <1>2, SoundParts DEF Sound, TypeOK, Shape, RoomTypes, WatchTypes, RoomFits,
     Noticed, Loading, Slotted, Roomed, Joined, Holding

-----------------------------------------------------------------------------
(* The steps that bring nothing new                                        *)

\* The document and what is stored of it: nothing new is written, read or stored.
Undisturbed ==
    /\ file'.items = file.items /\ file'.stamp = file.stamp /\ prov' = prov
    /\ kept' = kept /\ load'.items \in {{}, load.items}
    /\ cache' = None \/ cache' \in StoredSet

\* The syncs: each goes on as it is, ends, or starts.
Unread ==
    \A w \in Syncer :
      \/ sync'[w].pc \in {"idle", "read"} /\ sync'[w].items \in {{}, sync[w].items}
      \/ /\ sync'[w].pc = sync[w].pc /\ sync'[w].state = sync[w].state
         /\ sync'[w].items = sync[w].items

Asks == Asking(slot') => \/ slot'.item \notin kept
                         \/ Asking(slot) /\ slot'.item = slot.item

Quiet == /\ Undisturbed /\ Unread /\ wiped' = wiped
         /\ slot' = slot \/ Lays
         /\ Asks
         /\ ~Loaded' \/ (Grows /\ Rests)

\* No new state is to be stored.
LEMMA LaysStored ==
    ASSUME Unread, slot' = slot \/ Lays, cache' = None \/ cache' \in StoredSet
    PROVE  StoredSet' \subseteq StoredSet
<1>1. slot'.pc \in {"settle", "land", "store"} => slot' = slot
  BY DEF Lays, Working
<1>2. \A w \in Syncer : sync'[w].pc = "cache"
                          => sync[w].pc = "cache" /\ sync'[w].state = sync[w].state
  BY DEF Unread
<1> QED
  BY <1>1, <1>2 DEF StoredSet

LEMMA QuietStored ==
    ASSUME Quiet
    PROVE  StoredSet' \subseteq StoredSet
  BY LaysStored DEF Quiet, Undisturbed

LEMMA QuietBase ==
    ASSUME Sound, Sound', Origin, Item, Quiet
    PROVE  Origin' /\ Item'
<1>1. StoredSet' \subseteq StoredSet
  BY QuietStored
<1>2. file'.items = file.items /\ prov' = prov /\ kept' = kept
      /\ load'.items \in {{}, load.items} /\ (slot' = slot \/ Lays)
      /\ (~Loaded' \/ (Grows /\ Rests))
  BY DEF Quiet, Undisturbed
<1>3. /\ file'.items \subseteq kept' /\ prov'.items \subseteq kept'
      /\ load'.items \subseteq kept'
  BY <1>2 DEF Origin
<1>4. \A w \in Syncer : sync'[w].items \subseteq kept'
  BY <1>2 DEF Origin, Quiet, Unread
<1>5. /\ slot'.prov # None => slot'.prov.items \subseteq kept'
      /\ slot'.made # None => slot'.made.items \subseteq kept'
      /\ slot'.known # None => slot'.known \subseteq kept'
      /\ slot'.blocks \ Edit \subseteq kept'
  BY <1>2 DEF Origin, Lays
<1>6. slot'.pc \in {"settle", "record", "state", "land", "adopt"} => slot'.blocks \subseteq kept'
  BY <1>2 DEF Origin, Lays, Working
<1>7. \A st \in StoredSet' : (st.items \cup st.gone) \ Edit \subseteq kept'
  BY <1>1, <1>2 DEF Origin
<1>8. Loaded' => /\ (room'.items \cup room'.gone) \ Edit \subseteq kept'
                 /\ room'.seen # None => room'.seen.items \subseteq kept'
                 /\ room'.hash \subseteq kept'
  BY <1>2 DEF Origin, Grows, Rests
<1>9. Origin'
  BY <1>3, <1>4, <1>5, <1>6, <1>7, <1>8 DEF Origin
<1>10. Asking(slot') => slot'.item \notin kept'
  BY <1>2 DEF Item, Quiet, Asks
<1>11. ASSUME slot'.pc = "adopt"
       PROVE  /\ slot'.item \in file'.items /\ slot'.item \notin room'.gone
              /\ slot'.item \in room'.items /\ sync'["watcher"].pc = "apply"
                   => slot'.item \in sync'["watcher"].items
  <2>1. slot' = slot
    BY <1>2, <1>11 DEF Lays, Working
  <2>2. Grows
    <3>1. Roomed'
      BY SoundParts DEF Sound, TypeOK, Shape, RoomTypes, RoomFits, Roomed, Holding
    <3> QED
      BY <1>2, <1>11, <3>1 DEF Roomed, Busy
  <2>3. slot.item \notin Edit
    <3>1. slot.item \in Agent
      BY <1>11, <2>1 DEF Sound, Shape, Handing
    <3> QED
      BY <3>1, CollaborationAssumption
  <2>4. /\ slot.item \in file.items /\ slot.item \notin room.gone
        /\ slot.item \in room.items /\ sync["watcher"].pc = "apply"
             => slot.item \in sync["watcher"].items
    BY <1>11, <2>1 DEF Item
  <2>5. slot'.item \in room'.items => slot.item \in room.items
    BY <2>1, <2>2, <2>3 DEF Grows
  <2>6. sync'["watcher"].pc = "apply"
          => sync["watcher"].pc = "apply" /\ sync'["watcher"].items = sync["watcher"].items
    BY DEF Quiet, Unread, Syncer
  <2> QED
    BY <1>2, <2>1, <2>2, <2>4, <2>5, <2>6 DEF Grows
<1>12. \A st \in StoredSet' : st.items \cap st.gone = {}
  BY <1>1 DEF Item
<1>13. Item'
  BY <1>10, <1>11, <1>12 DEF Item, Asking
<1> QED
  BY <1>9, <1>13

LEMMA SameUnread ==
    ASSUME sync' = sync
    PROVE  Unread
  BY DEF Unread

LEMMA TurnsUnread ==
    ASSUME Turns(sync)
    PROVE  Unread
  BY DEF Turns, Unread, Syncer

LEMMA EndedUnread ==
    ASSUME NEW w \in Syncer, Ended(w)
    PROVE  Unread
<1>1. CASE w = "slot"
  BY <1>1 DEF Ended, Unread, Syncer
<1>2. CASE w = "watcher"
  BY <1>2 DEF Ended, Unread, Syncer
<1> QED
  BY <1>1, <1>2 DEF Syncer

LEMMA ResyncsUnread ==
    ASSUME NEW r, NEW task, Resyncs(r, task)
    PROVE  Unread /\ Lays
<1>1. /\ sync'["watcher"] = sync["watcher"]
      /\ sync'["slot"].pc = "read" /\ sync'["slot"].items = {}
      /\ slot' \in Slots /\ slot'.pc = "sync" /\ Carries(slot, slot')
  BY DEF Resyncs
<1>2. Unread
  BY <1>1 DEF Unread, Syncer
<1> QED
  BY <1>1, <1>2, CarriesLays DEF Working

LEMMA SameAsks ==
    ASSUME slot' = slot
    PROVE  Asks
  BY DEF Asks, Asking

\* A slot that turns asks for the agent it asked for.
LEMMA TurnedAsks ==
    ASSUME Sound, Turned(slot, slot'), Comes, slot.pc \in Saving \cup {"sync"}
    PROVE  Asks
<1>1. slot'.task = "typed" => slot'.pc = "hold"
  BY DEF Comes
<1>2. CASE slot'.task = slot.task /\ slot.task \in DOMAIN NextStage
             /\ slot'.pc = NextStage[slot.task] /\ slot'.item = slot.item
  <2>1. slot.task # "follow" => Asking(slot)
    BY <1>2 DEF Asking
  <2>2. slot.task = "follow" => ~Asking(slot')
    BY <1>2, Stages DEF Asking, Saving
  <2> QED
    BY <1>2, <2>1, <2>2 DEF Asks
<1>3. CASE slot'.task \notin DOMAIN NextStage
  BY <1>3 DEF Asks, Asking
<1> QED
  BY <1>1, <1>2, <1>3, Stages DEF Turned

LEMMA TurnedLays ==
    ASSUME Clear(slot'), slot' \in Slots, Turned(slot, slot')
    PROVE  Lays
<1>1. slot'.pc \notin Working
  BY Stages DEF Turned, Working
<1> QED
  BY <1>1 DEF Lays, Clear

LEMMA ReturnsQuiet ==
    ASSUME Sound, Returns, slot.pc \in Saving
    PROVE  Lays /\ Unread /\ Asks
  BY TurnedAsks, TurnedLays, TurnsUnread DEF Returns, Turns

LEMMA EndedQuiet ==
    ASSUME Sound, NEW w \in Syncer, Ended(w)
    PROVE  (slot' = slot \/ Lays) /\ Unread /\ Asks
<1>1. CASE w = "slot"
  BY <1>1, TurnedAsks, TurnedLays, EndedUnread DEF Ended
<1>2. CASE w = "watcher"
  BY <1>2, SameAsks, EndedUnread DEF Ended
<1> QED
  BY <1>1, <1>2 DEF Syncer

LEMMA ResyncsQuiet ==
    ASSUME Sound, NEW r, Resyncs(r, slot.task), slot.pc \in Saving
    PROVE  Lays /\ Unread /\ Asks
<1>1. Asks
  <2>1. slot'.task = slot.task /\ slot'.item = slot.item /\ slot'.pc = "sync"
    BY DEF Resyncs, Carries
  <2> QED
    BY <2>1 DEF Asks, Asking
<1> QED
  BY <1>1, ResyncsUnread

LEMMA RunsQuiet ==
    ASSUME Sound, Runs
    PROVE  (slot' = slot \/ Lays) /\ Unread /\ Asks
<1>1. CASE slot' = slot /\ sync' = sync
  BY <1>1, SameAsks, SameUnread
<1>2. CASE Turns(sync) /\ slot'.task = "persist"
  <2>1. slot'.task \notin DOMAIN NextStage
    BY <1>2, Stages
  <2>2. Asks
    BY <2>1 DEF Asks, Asking
  <2> QED
    BY <1>2, <2>2, TurnedLays, TurnsUnread DEF Turns
<1> QED
  BY <1>1, <1>2 DEF Runs

LEMMA StaysQuiet ==
    ASSUME Sound, Stays, told' = told
    PROVE  ~Loaded' \/ (Grows /\ Rests)
<1>1. CASE Loaded
  BY <1>1, AlikeGrows DEF Stays
<1>2. CASE ~Loaded
  BY <1>2 DEF Stays, Loaded
<1> QED
  BY <1>1, <1>2

LEMMA RoomQuiet ==
    ASSUME Sound, room' = room, told' = told
    PROVE  ~Loaded' \/ (Grows /\ Rests)
<1>1. CASE Loaded
  BY <1>1, SameRoom DEF Follows
<1>2. CASE ~Loaded
  BY <1>2 DEF Loaded
<1> QED
  BY <1>1, <1>2

\* A step that leaves the document as it is, and what is being loaded.
LEMMA UndocumentedQuiet ==
    ASSUME Undocumented, load'.items \in {{}, load.items}
    PROVE  Undisturbed
  BY UndocumentedForm DEF Undisturbed, StoredSet

LEMMA BrowsersQuiet ==
    ASSUME Sound, NEW c \in Client,
           \/ Attach(c) \/ Receive(c) \/ Upgrade(c) \/ Connect(c) \/ Drop(c)
           \/ \E e \in Edit : LocalEdit(c, e)
    PROVE  Quiet
<1>1. /\ slot' = slot /\ sync' = sync /\ wiped' = wiped /\ load'.items = load.items
  BY SoundParts DEF Attach, Receive, Upgrade, Connect, Drop, LocalEdit, roomVars, ghostVars,
     Loading
<1>2. Undisturbed
  BY <1>1, UndocumentedQuiet DEF Undocumented
<1>3. ~Loaded' \/ (Grows /\ Rests)
  <2>1. CASE Attach(c)
    BY <2>1, AttachForm DEF Follows
  <2>2. ASSUME Detached(c, room), told' = told PROVE ~Loaded' \/ (Grows /\ Rests)
    BY <2>2, DetachedForm DEF Follows, Loaded
  <2>3. CASE Receive(c)
    BY <2>2, <2>3, ReceiveForm, RoomQuiet DEF Follows
  <2>4. CASE Drop(c)
    BY <2>2, <2>4 DEF Drop
  <2>5. CASE Upgrade(c) \/ Connect(c) \/ \E e \in Edit : LocalEdit(c, e)
    <3>1. room' = room /\ told' = told
      BY <2>5 DEF Upgrade, Connect, LocalEdit, roomVars, ghostVars
    <3> QED
      BY <3>1, RoomQuiet
  <2> QED
    BY <2>1, <2>3, <2>4, <2>5
<1> QED
  BY <1>1, <1>2, <1>3, SameAsks, SameUnread DEF Quiet

LEMMA RunsAreQuiet ==
    ASSUME Sound, PersistTimer \/ UnloadBegin \/ BarrierDrain
    PROVE  Quiet
<1>1. wiped' = wiped /\ load'.items = load.items
  BY DEF PersistTimer, UnloadBegin, BarrierDrain, ghostVars
<1>2. Undisturbed
  BY <1>1, UndocumentedQuiet DEF Undocumented
<1>3. CASE Loaded
  <2>1. Follows /\ Runs
    BY <1>3, RunSteps
  <2> QED
    BY <1>1, <1>2, <2>1, RunsQuiet DEF Quiet, Follows
<1>4. CASE ~Loaded
  <2>1. room' = None /\ slot' = slot /\ sync' = sync
    BY <1>4, RunSteps
  <2> QED
    BY <1>1, <1>2, <2>1, SameAsks, SameUnread DEF Quiet, Loaded
<1> QED
  BY <1>3, <1>4

LEMMA BarriersQuiet ==
    ASSUME Sound,
           \/ (\E kind \in Barriers : BarrierBegin(kind)) \/ BarrierDrained \/ Captured
           \/ BarrierEnd \/ MoveFile \/ Echo
    PROVE  Quiet
<1>1. /\ slot' = slot /\ sync' = sync /\ wiped' = wiped /\ load' = load
  BY DEF BarrierBegin, BarrierDrained, Captured, BarrierEnd, MoveFile, Echo, roomVars, ghostVars
<1>2. Undisturbed
  <2>1. CASE MoveFile
    BY <2>1, MoveForm DEF Undisturbed, StoredSet
  <2>2. CASE ~MoveFile
    BY <1>1, <2>2, UndocumentedQuiet DEF Undocumented
  <2> QED
    BY <2>1, <2>2
<1>3. ~Loaded' \/ (Grows /\ Rests)
  <2>1. CASE BarrierEnd
    BY <2>1, BarrierEndForm DEF Follows, Loaded
  <2>2. CASE ~BarrierEnd
    <3>1. room' = room /\ told' = told
      BY <2>2 DEF BarrierBegin, BarrierDrained, Captured, MoveFile, Echo, roomVars, ghostVars
    <3> QED
      BY <3>1, RoomQuiet
  <2> QED
    BY <2>1, <2>2
<1> QED
  BY <1>1, <1>2, <1>3, SameAsks, SameUnread DEF Quiet

LEMMA RekeyForm ==
    ASSUME Sound, Rekey, Loaded
    PROVE  /\ Grows /\ Rests /\ room'.key = "new" /\ room'.saved = room.saved
           /\ room'.hold = room.hold /\ room'.clients = room.clients
<1>1. room \in Rooms /\ room' = [room EXCEPT !.key = "new", !.timer = TRUE] /\ told' = told
  BY BusyLoaded DEF Rekey, ghostVars
<1>2. room' \in Rooms
  BY <1>1 DEF Rooms, Place
<1>3. /\ room'.items = room.items /\ room'.gone = room.gone /\ room'.gen = room.gen
      /\ room'.igen = room.igen /\ room'.saved = room.saved /\ room'.hold = room.hold
      /\ room'.clients = room.clients /\ room'.intent = room.intent /\ room'.key = "new"
      /\ room'.base = room.base /\ room'.hash = room.hash /\ room'.seen = room.seen
  BY <1>1 DEF Rooms
<1>4. Loaded' /\ room.gen <= room'.gen
  <2>1. room.gen \in Nat
    BY <1>1 DEF Rooms
  <2> QED
    BY <1>2, <1>3, <2>1, NoneAssumption DEF Loaded
<1>5. told \in SUBSET Edit /\ told \subseteq told \cup room.items \cup room.gone
  BY DEF Sound, TypeOK, GhostTypes
<1> QED
  BY <1>1, <1>2, <1>3, <1>4, <1>5 DEF Grows, Rests

LEMMA EndsQuiet ==
    ASSUME Sound, Rekey \/ UnloadEnd \/ Crash
    PROVE  Quiet
<1>1. CASE Rekey
  <2>1. slot' = slot /\ sync' = sync /\ wiped' = wiped /\ load' = load
        /\ file' = file /\ prov' = prov /\ kept' = kept
    BY <1>1 DEF Rekey, ghostVars
  <2>2. Undisturbed
    BY <1>1, <2>1, RestoresForm DEF Undisturbed
  <2>3. ~Loaded => ~Loaded'
    BY <1>1 DEF Rekey, Loaded
  <2> QED
    BY <1>1, <2>1, <2>2, <2>3, RekeyForm, SameAsks, SameUnread DEF Quiet
<1>2. CASE UnloadEnd
  <2>1. slot' = slot /\ wiped' = wiped /\ load' = load
    BY <1>2 DEF UnloadEnd
  <2>2. Undisturbed
    BY <1>2, <2>1, UndocumentedQuiet DEF Undocumented
  <2>3. CASE UNCHANGED <<room, sync, told>>
    BY <2>1, <2>2, <2>3, RoomQuiet, SameAsks, SameUnread DEF Quiet
  <2>4. CASE Destroyed
    <3>1. ~Loaded' /\ sync' = [sync EXCEPT !["watcher"].key = None]
      BY <2>4 DEF Destroyed, Loaded
    <3>2. sync \in [Syncer -> Syncs] /\ sync["watcher"] \in Syncs
      BY BusyLoaded DEF Syncer
    <3>3. /\ sync'["slot"] = sync["slot"]
          /\ sync'["watcher"].pc = sync["watcher"].pc
          /\ sync'["watcher"].state = sync["watcher"].state
          /\ sync'["watcher"].items = sync["watcher"].items
      BY <3>1, <3>2 DEF Syncer, Syncs
    <3>4. Unread
      BY <3>3 DEF Unread, Syncer
    <3> QED
      BY <2>1, <2>2, <3>1, <3>4, SameAsks DEF Quiet
  <2> QED
    BY <1>2, <2>3, <2>4 DEF UnloadEnd
<1>3. CASE Crash
  <2>1. /\ ~Loaded' /\ slot' = IdleSlot /\ sync' = [w \in Syncer |-> IdleSync]
        /\ load' = IdleLoad /\ wiped' = wiped /\ file' = file /\ prov' = prov /\ kept' = kept
    BY <1>3 DEF Crash, Loaded
  <2>2. Undisturbed
    BY <1>3, <2>1, RestoresForm DEF Undisturbed, IdleLoad
  <2>3. Unread
    BY <2>1, Blanks DEF Unread
  <2>4. Lays
    BY <2>1, Blanks DEF Lays, Clear, Working
  <2>5. Asks
    BY <2>1, Blanks, Stages DEF Asks, Asking
  <2> QED
    BY <2>1, <2>2, <2>3, <2>4, <2>5 DEF Quiet
<1> QED
  BY <1>1, <1>2, <1>3

LEMMA SyncsQuiet ==
    ASSUME Sound, NEW w \in Syncer, wiped' = wiped, Ended(w), Stays, told' = told,
           SyncRead(w) \/ SyncApply(w) \/ SyncCache(w) \/ SyncFails(w)
    PROVE  Quiet
<1>1. load' = load
  BY DEF SyncRead, SyncApply, SyncCache, SyncFails
<1>2. Undisturbed
  <2>1. CASE SyncCache(w)
    <3>1. file' = file /\ prov' = prov /\ kept' = kept
      BY <2>1 DEF SyncCache, ghostVars
    <3> QED
      BY <1>1, <2>1, <3>1, RestoresForm DEF Undisturbed
  <2>2. CASE ~SyncCache(w)
    BY <1>1, <2>2, UndocumentedQuiet DEF Undocumented
  <2> QED
    BY <2>1, <2>2
<1> QED
  BY <1>2, EndedQuiet, StaysQuiet DEF Quiet

LEMMA FailsQuiet ==
    ASSUME Sound, PersistFails
    PROVE  Quiet
<1>1. wiped' = wiped /\ load' = load /\ slot.pc \in Saving
  BY DEF PersistFails, Saving
<1>2. Undisturbed
  BY <1>1, UndocumentedQuiet DEF Undocumented
<1> QED
  BY <1>1, <1>2, FailsForm, ReturnsQuiet DEF Quiet, Follows

LEMMA AdvancesQuiet ==
    ASSUME Sound, NEW p, Advances(p), slot.task \in DOMAIN NextStage,
           p \in {"typed", "hold", "release"},
           p # "release" => slot.pc \in {"check", "typed"}
    PROVE  Lays /\ Unread /\ Asks
<1>1. /\ slot' \in Slots /\ slot'.pc = p /\ slot'.task = slot.task
      /\ Carries(slot, slot') /\ sync' = sync /\ slot'.item = slot.item
  BY DEF Advances, Carries
<1>2. Lays
  BY <1>1, CarriesLays DEF Working
<1>3. Asks
  BY <1>1 DEF Asks, Asking, Saving
<1> QED
  BY <1>1, <1>2, <1>3, SameUnread

LEMMA AgentsQuiet ==
    ASSUME Sound,
           (\E a \in Agent : AgentBegin(a)) \/ AgentCheck \/ AgentTyped \/ AgentFails
           \/ AgentStore \/ AgentRelease
    PROVE  Quiet
<1>1. wiped' = wiped /\ load' = load
  BY DEF AgentBegin, AgentCheck, AgentTyped, AgentFails, AgentStore, AgentRelease, ghostVars
<1>2. Undisturbed
  <2>1. CASE AgentStore
    <3>1. file' = file /\ prov' = prov /\ kept' = kept
      BY <2>1 DEF AgentStore, ghostVars
    <3> QED
      BY <1>1, <2>1, <3>1, RestoresForm DEF Undisturbed
  <2>2. CASE ~AgentStore
    BY <1>1, <2>2, UndocumentedQuiet DEF Undocumented
  <2> QED
    BY <2>1, <2>2
<1>3. CASE \E a \in Agent : AgentBegin(a)
  <2>1. PICK a \in Agent : AgentBegin(a)
    BY <1>3
  <2>2. /\ Loaded /\ Stays /\ told' = told /\ a \notin kept
        /\ slot' \in Slots /\ Clear(slot') /\ slot'.pc \in {"sync", "check"}
        /\ slot'.item = a /\ sync'["watcher"] = sync["watcher"]
        /\ slot'.pc = "sync" => sync'["slot"].pc = "read" /\ sync'["slot"].items = {}
        /\ slot'.pc # "sync" => sync'["slot"] = sync["slot"]
    BY <2>1, BeginForm
  <2>3. Unread
    BY <2>2 DEF Unread, Syncer
  <2>4. Lays
    BY <2>2 DEF Lays, Clear, Working
  <2>5. Asks
    BY <2>2 DEF Asks
  <2> QED
    BY <1>1, <1>2, <2>2, <2>3, <2>4, <2>5, StaysQuiet DEF Quiet
<1>4. CASE AgentCheck
  <2>1. slot.pc = "check" /\ slot.task \in DOMAIN NextStage
    BY <1>4, SoundParts DEF AgentCheck, Slotted
  <2>2. CASE Resyncs(room, "disk")
    <3>1. slot'.item = slot.item
      BY <2>2 DEF Resyncs, Carries
    <3>2. Asks
      BY <2>1, <3>1 DEF Asks, Asking
    <3> QED
      BY <1>1, <1>2, <1>4, <2>2, <3>2, CheckForm, ResyncsUnread, RoomQuiet DEF Quiet
  <2>3. CASE Advances("typed")
    BY <1>1, <1>2, <1>4, <2>1, <2>3, CheckForm, AdvancesQuiet, RoomQuiet DEF Quiet
  <2> QED
    BY <1>4, <2>2, <2>3, CheckForm
<1>5. CASE AgentTyped
  <2>1. slot.pc = "typed" /\ slot.task \in DOMAIN NextStage
    BY <1>5, SoundParts DEF AgentTyped, Slotted
  <2>2. CASE Turns(sync) /\ slot'.task = "typed" /\ slot'.pc \in {"stat", "sync"}
    <3>1. slot'.item = slot.item
      BY <2>2, Stages DEF Turns, Turned
    <3>2. Asks
      BY <2>1, <3>1 DEF Asks, Asking
    <3>3. Lays /\ Unread
      BY <2>2, TurnedLays, TurnsUnread DEF Turns
    <3> QED
      BY <1>1, <1>2, <1>5, <3>2, <3>3, TypedForm, StaysQuiet DEF Quiet
  <2>3. CASE Advances("hold")
    BY <1>1, <1>2, <1>5, <2>1, <2>3, TypedForm, AdvancesQuiet, StaysQuiet DEF Quiet
  <2> QED
    BY <1>5, <2>2, <2>3, TypedForm
<1>6. CASE AgentFails \/ AgentStore
  <2>1. slot.task \in DOMAIN NextStage
    BY <1>6, SoundParts DEF AgentFails, AgentStore, Slotted, Handing
  <2> QED
    BY <1>1, <1>2, <1>6, <2>1, GiveUpForm, AdvancesQuiet, RoomQuiet DEF Quiet
<1>7. CASE AgentRelease
  <2>1. Turns(sync) /\ Grows /\ Rests /\ slot'.task \in {"none", "persist", "replay"}
    BY <1>7, AgentReleaseForm
  <2>2. Lays /\ Unread
    BY <2>1, TurnedLays, TurnsUnread DEF Turns
  <2>3. Asks
    BY <2>1, Stages DEF Asks, Asking
  <2> QED
    BY <1>1, <1>2, <2>1, <2>2, <2>3 DEF Quiet
<1> QED
  BY <1>3, <1>4, <1>5, <1>6, <1>7

\* The saves, the syncs and the agents' writes that bring nothing new.
LEMMA SavesQuiet ==
    ASSUME Sound,
           \/ PersistStat /\ slot'.pc # "export"
           \/ AgentCommit /\ Advances("release")
           \/ AgentAdopt /\ Resyncs(room, "follow")
    PROVE  Quiet
<1>1. CASE PersistStat /\ slot'.pc # "export"
  <2>1. wiped' = wiped /\ load' = load /\ slot.pc \in Saving
    BY <1>1 DEF PersistStat, Saving
  <2>2. Undisturbed
    BY <1>1, <2>1, UndocumentedQuiet DEF Undocumented
  <2> QED
    BY <1>1, <2>1, <2>2, StatForm, ReturnsQuiet, ResyncsQuiet DEF Quiet, Follows
<1>2. CASE AgentCommit /\ Advances("release")
  <2>1. wiped' = wiped /\ load' = load /\ cache' = cache
    BY <1>2 DEF AgentCommit
  <2>2. slot'.pc = "release" /\ slot.task \in DOMAIN NextStage
    BY <1>2, SoundParts DEF AgentCommit, Slotted, Advances, Handing
  <2>3. file' = file /\ prov' = prov /\ kept' = kept /\ room' = room /\ told' = told
    BY <1>2, <2>2, CommitForm
  <2>4. Undisturbed
    BY <2>1, <2>3 DEF Undisturbed, StoredSet
  <2> QED
    BY <1>2, <2>1, <2>2, <2>3, <2>4, AdvancesQuiet, RoomQuiet DEF Quiet
<1>3. CASE AgentAdopt /\ Resyncs(room, "follow")
  <2>1. load' = load /\ slot.pc = "adopt" /\ slot'.pc = "sync" /\ slot'.task = "follow"
    BY <1>3 DEF AgentAdopt, Resyncs
  <2>2. Undisturbed
    BY <1>3, <2>1, UndocumentedQuiet DEF Undocumented
  <2>3. room' = room /\ told' = told /\ wiped' = wiped
    BY <1>3, <2>1, AdoptForm
  <2>4. Asks
    BY <2>1 DEF Asks, Asking, Saving
  <2> QED
    BY <1>3, <2>2, <2>3, <2>4, ResyncsUnread, RoomQuiet DEF Quiet
<1> QED
  BY <1>1, <1>2, <1>3

\* Every other step brings something new.
LEMMA QuietStep ==
    ASSUME Sound, Next
    PROVE  \/ Quiet
           \/ LoadRead \/ LoadImport
           \/ PersistStat /\ slot'.pc = "export"
           \/ PersistExport \/ PersistCompare \/ PersistSettle \/ PersistWrite
           \/ PersistRecord \/ PersistState \/ PersistLand
           \/ \E w \in Syncer : SyncRead(w) /\ sync'[w].pc = "apply"
           \/ \E w \in Syncer : SyncApply(w) /\ Replaces(w)
           \/ (\E x \in External : ExternalWrite(x)) \/ WatcherEvent
           \/ (\E a \in Agent : AgentCold(a)) \/ AgentHold
           \/ AgentCommit /\ slot'.pc = "adopt"
           \/ AgentAdopt /\ Adopted
<1>1. ASSUME NEW w \in Syncer, SyncRead(w), sync'[w].pc # "apply" PROVE Quiet
  BY <1>1, ReadForm, SyncsQuiet DEF SyncRead, ghostVars
<1>2. ASSUME NEW w \in Syncer, SyncApply(w), ~Replaces(w) PROVE Quiet
  BY <1>2, ApplyForm, SyncsQuiet
<1>3. ASSUME NEW w \in Syncer, SyncCache(w) \/ SyncFails(w) PROVE Quiet
  BY <1>3, CacheForm, SyncsQuiet DEF SyncCache, SyncFails, ghostVars
<1>4. ASSUME AgentCommit, slot'.pc # "adopt" PROVE Quiet
  BY <1>4, CommitForm, SavesQuiet
<1>5. ASSUME AgentAdopt, ~Adopted PROVE Quiet
  BY <1>5, AdoptForm, SavesQuiet
<1>6. CASE PersistStat /\ slot'.pc # "export"
  BY <1>6, SavesQuiet
<1> QED
  BY <1>1, <1>2, <1>3, <1>4, <1>5, <1>6, BrowsersQuiet, RunsAreQuiet, BarriersQuiet,
     EndsQuiet, FailsQuiet, AgentsQuiet
     DEF Next, System, Environment, Save, AgentStep, BarrierStep

-----------------------------------------------------------------------------
(* Where the content comes from                                            *)

\* What a step leaves of it.
LEMMA OriginKeeps ==
    ASSUME Origin, kept \subseteq kept'
    PROVE  /\ file'.items = file.items => file'.items \subseteq kept'
           /\ prov' = prov => prov'.items \subseteq kept'
           /\ load' = load => load'.items \subseteq kept'
           /\ sync' = sync => \A w \in Syncer : sync'[w].items \subseteq kept'
           /\ slot'.prov = slot.prov => (slot'.prov # None => slot'.prov.items \subseteq kept')
           /\ slot'.made = slot.made => (slot'.made # None => slot'.made.items \subseteq kept')
           /\ slot'.known = slot.known => (slot'.known # None => slot'.known \subseteq kept')
           /\ slot'.blocks = slot.blocks => slot'.blocks \ Edit \subseteq kept'
           /\ StoredSet' \subseteq StoredSet
                => \A st \in StoredSet' : (st.items \cup st.gone) \ Edit \subseteq kept'
           /\ Loaded => /\ (room.items \cup room.gone) \ Edit \subseteq kept'
                        /\ room.seen # None => room.seen.items \subseteq kept'
                        /\ room.hash \subseteq kept'
  BY DEF Origin

\* The states to be stored: those there were, and what the slot or a sync made.
LEMMA StoredBy ==
    ASSUME cache' = None \/ cache' = cache \/ cache' \in StoredSet,
           NEW w \in Syncer,
           \A v \in Syncer : v # w =>
             \/ sync'[v].pc \in {"idle", "read", "apply"}
             \/ sync'[v].pc = sync[v].pc /\ sync'[v].state = sync[v].state,
           \/ slot'.pc \notin {"settle", "land", "store"} \/ slot' = slot
    PROVE  \A st \in StoredSet' : st \in StoredSet \/ (sync'[w].pc = "cache" /\ st = sync'[w].state)
  BY DEF StoredSet

LEMMA StoredSame ==
    ASSUME cache' = None \/ cache' = cache \/ cache' \in StoredSet, sync' = sync
    PROVE  /\ \A st \in StoredSet' :
                \/ st \in StoredSet
                \/ slot'.pc \in {"settle", "land", "store"} /\ st = slot'.state
           /\ \/ slot'.pc \notin {"settle", "land", "store"}
              \/ slot' = slot
              => StoredSet' \subseteq StoredSet
  BY DEF StoredSet

Origins == Origin /\ Item

\* The slot's agent is new or is the one it was.
LEMMA AsksNew ==
    ASSUME Item, Asks, kept' = kept
    PROVE  Asking(slot') => slot'.item \notin kept'
  BY DEF Asks, Item

\* A save goes on for the agent it works for.
LEMMA SavesAsk ==
    ASSUME slot'.task = slot.task, slot'.item = slot.item, slot.pc \in Saving \cup {"hold"}
    PROVE  Asks
  BY DEF Asks, Asking

LEMMA AgentsItem ==
    ASSUME Sound, slot.task \in DOMAIN NextStage
    PROVE  slot.item \in Agent /\ slot.item \notin Edit /\ slot.item \notin External
  BY CollaborationAssumption DEF Sound, Shape

LEMMA LoadsOrigin ==
    ASSUME Sound, Sound', Origins, LoadRead \/ LoadImport
    PROVE  Origins'
<1>1. CASE LoadRead
  <2>1. /\ file' = file /\ prov' = prov /\ cache' = cache /\ kept' = kept
        /\ room' = room /\ slot' = slot /\ sync' = sync /\ load'.items = file.items
    BY <1>1 DEF LoadRead, docVars, ghostVars
  <2>2. Origin'
    BY <2>1 DEF Origins, Origin, StoredSet, Loaded
  <2>3. Item'
    BY <2>1 DEF Origins, Item, StoredSet, Asking
  <2> QED
    BY <2>2, <2>3 DEF Origins
<1>2. CASE LoadImport
  <2>1. /\ file' = file /\ prov' = prov /\ kept' = kept /\ load'.items = {}
        /\ slot' = slot /\ sync' = sync /\ slot.pc = "idle"
    BY <1>2, ImportForm DEF LoadImport, IdleLoad
  <2>2. /\ load.items \subseteq kept
        /\ cache # None => /\ (cache.items \cup cache.gone) \ Edit \subseteq kept
                           /\ cache.items \cap cache.gone = {}
    BY DEF Origins, Origin, Item, StoredSet
  <2>3. /\ Loaded' /\ room' \in Rooms /\ room'.hash = load.items
        /\ room'.seen.items = load.items
        /\ \/ cache # None /\ cache' = cache /\ room'.items = cache.items
              /\ room'.gone = cache.gone
           \/ /\ room'.items = load.items /\ room'.gone = {}
              /\ cache' = None \/ cache' = StateOf(room', prov, TRUE)
    BY <1>2, ImportForm
  <2>4. /\ (room'.items \cup room'.gone) \ Edit \subseteq kept
        /\ room'.items \cap room'.gone = {}
        /\ cache' # None /\ cache' # cache
             => cache'.items = room'.items /\ cache'.gone = room'.gone
    <3>1. cache' = StateOf(room', prov, TRUE)
            => cache'.items = room'.items /\ cache'.gone = room'.gone
      BY DEF StateOf
    <3> QED
      BY <2>2, <2>3, <3>1
  <2>5. \A st \in StoredSet' : /\ (st.items \cup st.gone) \ Edit \subseteq kept
                               /\ st.items \cap st.gone = {}
    <3>1. \A st \in StoredSet' : st \in StoredSet \/ (st = cache' /\ cache' # None /\ cache' # cache)
      BY <2>1 DEF StoredSet
    <3> QED
      BY <2>4, <3>1 DEF Origins, Origin, Item
  <2>6. Origin'
    BY <2>1, <2>2, <2>3, <2>4, <2>5 DEF Origins, Origin
  <2>7. Item'
    BY <2>1, <2>5 DEF Origins, Item, Asking
  <2> QED
    BY <2>6, <2>7 DEF Origins
<1> QED
  BY <1>1, <1>2

\* The part of Origin and Item that a save leaves to show, when it writes nothing.
LEMMA SaveOrigin ==
    ASSUME Sound, Sound', Origins, Loaded, Loaded', sync' = sync, file' = file, kept' = kept,
           load' = load, prov'.items \subseteq kept, cache' = cache, Asks, slot'.pc # "adopt",
           slot'.prov # None => slot'.prov.items \subseteq kept,
           slot'.made # None => slot'.made.items \subseteq kept,
           slot'.known # None => slot'.known \subseteq kept,
           slot'.pc \in {"settle", "record", "state", "land", "adopt"}
             => slot'.blocks \subseteq kept,
           slot'.blocks \ Edit \subseteq kept,
           slot'.pc \in {"settle", "land", "store"}
             => slot'.state.items = room.items /\ slot'.state.gone = room.gone,
           (room'.items \cup room'.gone) \ Edit \subseteq kept,
           room'.seen = room.seen \/ room'.seen.items \subseteq kept,
           room'.hash = room.hash \/ room'.hash \subseteq kept
    PROVE  Origins'
<1>1. /\ (room.items \cup room.gone) \ Edit \subseteq kept
      /\ room.seen # None => room.seen.items \subseteq kept
      /\ room.hash \subseteq kept
  BY DEF Origins, Origin
<1>2. room.items \cap room.gone = {}
  BY SoundParts DEF Roomed
<1>3. \A st \in StoredSet' : /\ (st.items \cup st.gone) \ Edit \subseteq kept
                             /\ st.items \cap st.gone = {}
  <2>1. \A st \in StoredSet' : \/ st \in StoredSet
                               \/ st.items = room.items /\ st.gone = room.gone
    BY StoredSame
  <2> QED
    BY <1>1, <1>2, <2>1 DEF Origins, Origin, Item
<1>4. Origin'
  BY <1>1, <1>3 DEF Origins, Origin
<1>5. Item'
  BY <1>3, AsksNew DEF Origins, Item
<1> QED
  BY <1>4, <1>5 DEF Origins

\* A save that is over, whatever the room has learnt of the file.
LEMMA LaysOrigin ==
    ASSUME Sound, Sound', Origins, Loaded, Loaded', Undisturbed, Unread, Lays, Asks,
           (room'.items \cup room'.gone) \ Edit \subseteq kept,
           room'.seen = room.seen \/ room'.seen.items \subseteq kept,
           room'.hash = room.hash \/ room'.hash \subseteq kept
    PROVE  Origins'
<1>1. slot'.pc \notin Working
  BY DEF Lays
<1>2. StoredSet' \subseteq StoredSet
  <2>1. slot'.pc \notin {"settle", "land", "store"}
    BY <1>1 DEF Working
  <2> QED
    BY <2>1 DEF StoredSet, Undisturbed, Unread
<1>3. /\ file'.items \subseteq kept' /\ prov'.items \subseteq kept' /\ kept' = kept
      /\ load'.items \subseteq kept' /\ \A w \in Syncer : sync'[w].items \subseteq kept'
  BY DEF Origins, Origin, Undisturbed, Unread
<1>4. /\ slot'.prov # None => slot'.prov.items \subseteq kept'
      /\ slot'.made # None => slot'.made.items \subseteq kept'
      /\ slot'.known # None => slot'.known \subseteq kept'
      /\ slot'.blocks \ Edit \subseteq kept'
  BY <1>3 DEF Origins, Origin, Lays
<1>5. Loaded' => /\ (room'.items \cup room'.gone) \ Edit \subseteq kept'
                 /\ room'.seen # None => room'.seen.items \subseteq kept'
                 /\ room'.hash \subseteq kept'
  BY <1>3 DEF Origins, Origin
<1>6. Origin'
  BY <1>1, <1>2, <1>3, <1>4, <1>5 DEF Origins, Origin, Working
<1>7. Item'
  BY <1>1, <1>2, <1>3, AsksNew DEF Origins, Item, Working
<1> QED
  BY <1>6, <1>7 DEF Origins

LEMMA SavesOrigin ==
    ASSUME Sound, Sound', Origins,
           \/ PersistStat /\ slot'.pc = "export"
           \/ PersistExport \/ PersistCompare \/ PersistSettle \/ PersistRecord
           \/ PersistState \/ PersistLand
    PROVE  Origins'
<1>1. slot.pc \in Saving /\ Loaded
  BY BusyLoaded DEF PersistStat, PersistExport, PersistCompare, PersistSettle, PersistRecord,
     PersistState, PersistLand, Saving, Busy
<1>2. /\ file.items \subseteq kept /\ prov.items \subseteq kept
      /\ slot.prov # None => slot.prov.items \subseteq kept
      /\ slot.made # None => slot.made.items \subseteq kept
      /\ slot.known # None => slot.known \subseteq kept
      /\ slot.pc \in {"settle", "record", "state", "land", "adopt"} => slot.blocks \subseteq kept
      /\ slot.blocks \ Edit \subseteq kept
      /\ (room.items \cup room.gone) \ Edit \subseteq kept
      /\ room.seen # None => room.seen.items \subseteq kept
      /\ room.hash \subseteq kept
  BY <1>1 DEF Origins, Origin
<1>3. ASSUME Keeps
      PROVE  Loaded' /\ (room'.items \cup room'.gone) \ Edit \subseteq kept
  BY <1>2, <1>3 DEF Keeps, Same
<1>4. load' = load /\ kept' = kept
  BY DEF PersistStat, PersistExport, PersistCompare, PersistSettle, PersistRecord,
     PersistState, PersistLand, ghostVars
<1>5. CASE PersistStat /\ slot'.pc = "export"
  <2>1. file' = file /\ prov' = prov /\ cache' = cache
    BY <1>5 DEF PersistStat, docVars
  <2>2. /\ Follows /\ sync' = sync /\ slot'.task = slot.task /\ slot'.item = slot.item
        /\ slot'.blocks = slot.blocks /\ slot'.prov = slot.prov /\ slot'.made = slot.made
        /\ slot'.known = None \/ (room.seen # None /\ slot'.known = room.seen.items)
    BY <1>5, StatForm, Stages DEF Returns, Turns, Turned, Resyncs
  <2> QED
    BY <1>1, <1>2, <1>4, <1>5, <2>1, <2>2, SavesAsk, SaveOrigin DEF Follows, Grows, Rests
<1>6. CASE PersistExport
  <2>1. file' = file /\ prov' = prov /\ cache' = cache
    BY <1>6 DEF PersistExport, docVars
  <2>2. /\ room' = room /\ sync' = sync /\ slot'.task = slot.task /\ slot'.item = slot.item
        /\ slot'.pc = "compare" /\ slot'.blocks = room.items /\ slot'.prov = prov
        /\ slot'.made = slot.made /\ slot'.known = slot.known
    BY <1>6, ExportForm
  <2> QED
    BY <1>1, <1>2, <1>4, <2>1, <2>2, SavesAsk, SaveOrigin DEF Loaded
<1>7. CASE PersistRecord
  <2>1. file' = file /\ cache' = cache
    BY <1>7 DEF PersistRecord
  <2>2. /\ Keeps /\ sync' = sync /\ room'.hash = slot.blocks /\ room'.seen = room.seen
        /\ prov' \in Versions /\ prov' \in {prov, slot.made}
        /\ slot'.pc = "state" /\ slot'.task = slot.task /\ slot'.item = slot.item
        /\ slot'.blocks = slot.blocks /\ slot'.known = None /\ slot'.prov = prov'
        /\ slot'.made = None
    BY <1>7, RecordForm
  <2>3. slot.pc = "record"
    BY <1>7 DEF PersistRecord
  <2>4. prov'.items \subseteq kept
    <3>1. CASE prov' = prov
      BY <1>2, <3>1
    <3>2. CASE prov' = slot.made
      <4>1. None \notin Versions \/ slot.made # None \/ prov' = prov
        BY <1>7, <2>3 DEF PersistRecord
      <4> QED
        BY <1>2, <2>2, <3>2, <4>1
    <3> QED
      BY <2>2, <3>1, <3>2
  <2> QED
    BY <1>1, <1>2, <1>3, <1>4, <2>1, <2>2, <2>3, <2>4, SavesAsk, SaveOrigin
<1>8. CASE PersistState
  <2>1. file' = file /\ prov' = prov /\ cache' = cache /\ slot.pc = "state"
    BY <1>8 DEF PersistState, docVars
  <2>2. /\ room' = room /\ sync' = sync /\ slot'.task = slot.task /\ slot'.item = slot.item
        /\ slot'.pc = "land" /\ slot'.blocks = slot.blocks /\ slot'.prov = slot.prov
        /\ slot'.made = slot.made /\ slot'.known = slot.known
        /\ slot'.state = StateOf(room, slot.prov,
             room.gen = slot.gen /\ slot.prov.items = slot.blocks)
    BY <1>8, StateForm
  <2>3. slot'.state.items = room.items /\ slot'.state.gone = room.gone
    BY <2>2 DEF StateOf
  <2> QED
    BY <1>1, <1>2, <1>4, <2>1, <2>2, <2>3, SavesAsk, SaveOrigin DEF Loaded
<1>9. ASSUME Lays, Unread, Asks, Keeps, Undisturbed,
             room'.seen = room.seen \/ room'.seen.items \subseteq kept,
             room'.hash = room.hash \/ room'.hash \subseteq kept
      PROVE  Origins'
  BY <1>1, <1>3, <1>9, LaysOrigin
<1>10. CASE PersistCompare
  <2>1. /\ file' = file /\ prov' = prov /\ cache' = cache /\ slot.pc = "compare" /\ Undisturbed
    BY <1>4, <1>10, UndocumentedQuiet DEF PersistCompare, docVars, Undocumented
  <2>2. /\ Keeps /\ room'.hash = room.hash
        /\ room'.seen = room.seen \/ room'.seen.items \subseteq kept
    <3>1. Current \subseteq kept
      BY <1>2 DEF Current
    <3> QED
      BY <1>10, <3>1, CompareForm
  <2>3. CASE Returns \/ Resyncs(room, slot.task)
    BY <1>1, <1>9, <2>1, <2>2, <2>3, ReturnsQuiet, ResyncsQuiet
  <2>4. CASE /\ sync' = sync /\ slot'.pc = "write" /\ slot'.task = slot.task
             /\ Carries(slot, slot')
    <3>1. /\ slot'.item = slot.item /\ slot'.blocks = slot.blocks /\ slot'.prov = slot.prov
          /\ slot'.made = slot.made /\ slot'.known = slot.known
      BY <2>4 DEF Carries
    <3> QED
      BY <1>1, <1>2, <1>3, <1>4, <2>1, <2>2, <2>4, <3>1, SavesAsk, SaveOrigin
  <2>5. CASE /\ sync' = sync /\ slot'.pc = "settle" /\ slot'.task = slot.task
             /\ slot'.blocks = slot.blocks /\ slot'.known = slot.known
             /\ slot'.prov = slot.prov /\ slot'.made = slot.made
             /\ slot'.item = slot.item
             /\ slot.blocks = Current
             /\ slot'.state = StateOf(room, slot.prov,
                  room.gen = slot.gen /\ slot.prov.items = slot.blocks)
    <3>1. slot'.state.items = room.items /\ slot'.state.gone = room.gone
      BY <2>5 DEF StateOf
    <3>2. slot.blocks \subseteq kept
      BY <1>2, <2>5 DEF Current
    <3> QED
      BY <1>1, <1>2, <1>3, <1>4, <2>1, <2>2, <2>5, <3>1, <3>2, SavesAsk, SaveOrigin
  <2> QED
    BY <1>10, <2>3, <2>4, <2>5, CompareForm
<1>11. CASE PersistSettle \/ PersistLand
  <2>1. /\ Keeps /\ Returns /\ slot.pc \in {"settle", "land"}
        /\ room'.hash \in {room.hash, slot.blocks}
        /\ room'.seen = room.seen \/ room'.seen.items = slot.blocks
    BY <1>11, SettleForm, LandForm DEF PersistSettle, PersistLand
  <2>2. Undisturbed
    BY <1>4, <1>11, RestoresForm DEF Undisturbed, PersistSettle, PersistLand
  <2> QED
    BY <1>1, <1>2, <1>9, <2>1, <2>2, ReturnsQuiet
<1> QED
  BY <1>5, <1>6, <1>7, <1>8, <1>10, <1>11

LEMMA WriteOrigin ==
    ASSUME Sound, Origins, PersistWrite
    PROVE  Origins'
<1>1. /\ Loaded /\ room' = room /\ sync' = sync /\ slot.pc = "write"
      /\ slot'.pc = "record" /\ slot'.task = slot.task /\ slot'.item = slot.item
      /\ slot'.blocks = slot.blocks /\ slot'.known = slot.known /\ slot'.prov = slot.prov
      /\ slot'.made = None \/ slot'.made.items = slot.blocks
      /\ kept' = kept \cup slot.blocks /\ file'.items = slot.blocks
      /\ prov' = prov /\ cache' = cache /\ load' = load
  BY WriteForm DEF PersistWrite
<1>2. StoredSet' \subseteq StoredSet
  BY <1>1 DEF StoredSet
<1>3. Origin'
  BY <1>1, <1>2 DEF Origins, Origin, Loaded
<1>4. Asking(slot') => slot'.item \notin kept'
  <2>1. ASSUME Asking(slot') PROVE slot'.item \notin kept'
    <3>1. slot.task \in DOMAIN NextStage
      BY <1>1, <2>1 DEF Asking
    <3>2. Asking(slot)
      BY <1>1, <3>1 DEF Asking, Saving
    <3>3. slot.item \notin kept /\ slot.item \notin Edit
      BY <3>1, <3>2, AgentsItem DEF Origins, Item
    <3>4. slot.blocks \ Edit \subseteq kept
      BY DEF Origins, Origin
    <3> QED
      BY <1>1, <3>3, <3>4
  <2> QED
    BY <2>1
<1>5. Item'
  BY <1>1, <1>2, <1>4 DEF Origins, Item
<1> QED
  BY <1>3, <1>5 DEF Origins

\* An outside write: what it adds is no agent's.
LEMMA OutsideOrigin ==
    ASSUME Sound, Origins, NEW x \in External, ExternalWrite(x)
    PROVE  Origins'
<1>1. /\ room' = room /\ slot' = slot /\ sync' = sync /\ load' = load
      /\ cache' = cache /\ prov' = prov /\ kept' = kept \cup {x}
      /\ file'.items = file.items \cup {x}
  BY OutsideForm
<1>2. StoredSet' \subseteq StoredSet
  BY <1>1 DEF StoredSet
<1>3. Origin'
  BY <1>1, <1>2 DEF Origins, Origin, Loaded
<1>4. Asking(slot') => slot'.item \notin kept'
  BY <1>1, AgentsItem DEF Origins, Item, Asking
<1>5. Item'
  BY <1>1, <1>2, <1>4 DEF Origins, Item
<1> QED
  BY <1>3, <1>5 DEF Origins

LEMMA ColdOrigin ==
    ASSUME Sound, Origins, NEW a \in Agent, AgentCold(a)
    PROVE  Origins'
<1>1. /\ ~Loaded /\ room' = room /\ slot' = slot /\ sync' = sync /\ load' = load
      /\ cache' = cache /\ kept' = kept \cup {a}
      /\ file'.items = file.items \cup {a} /\ prov'.items = file.items \cup {a}
  BY ColdForm
<1>2. StoredSet' \subseteq StoredSet
  BY <1>1 DEF StoredSet
<1>3. Origin'
  BY <1>1, <1>2 DEF Origins, Origin, Loaded
<1>4. slot.pc = "idle"
  BY <1>1, BusyLoaded DEF Busy
<1>5. Item'
  BY <1>1, <1>2, <1>4 DEF Origins, Item, Asking, Saving
<1> QED
  BY <1>3, <1>5 DEF Origins

LEMMA ReadOrigin ==
    ASSUME Sound, Origins, NEW w \in Syncer, SyncRead(w), sync'[w].pc = "apply"
    PROVE  Origins'
<1>1. /\ room' = room /\ slot' = slot
      /\ sync'[w].pc = "apply" /\ sync'[w].items = file.items
      /\ \A v \in Syncer : v # w => sync'[v] = sync[v]
  BY ReadForm DEF Ended, Syncer
<1>2. /\ file' = file /\ prov' = prov /\ cache' = cache /\ kept' = kept /\ load' = load
  BY DEF SyncRead, docVars, ghostVars
<1>3. StoredSet' \subseteq StoredSet
  BY <1>1, <1>2 DEF StoredSet
<1>4. \A v \in Syncer : sync'[v].items \subseteq kept
  BY <1>1 DEF Origins, Origin
<1>5. Origin'
  BY <1>1, <1>2, <1>3, <1>4 DEF Origins, Origin, Loaded
<1>6. Item'
  BY <1>1, <1>2, <1>3 DEF Origins, Item, Asking, Syncer
<1> QED
  BY <1>5, <1>6 DEF Origins

LEMMA WatcherOrigin ==
    ASSUME Sound, Sound', Origins, WatcherEvent
    PROVE  Origins'
<1>1. /\ slot' = slot /\ Stays /\ told' = told
      /\ prov' = prov \/ prov'.items = file.items
      /\ sync'["slot"] = sync["slot"]
      /\ sync' = sync \/ (sync'["watcher"].pc = "read" /\ sync'["watcher"].items = {})
  BY WatcherForm
<1>2. /\ file' = file /\ cache' = cache /\ kept' = kept /\ load' = load
  BY DEF WatcherEvent, ghostVars
<1>3. StoredSet' \subseteq StoredSet
  BY <1>1, <1>2 DEF StoredSet, Syncer
<1>4. \A v \in Syncer : sync'[v].items \subseteq kept
  BY <1>1 DEF Origins, Origin, Syncer
<1>5. ~Loaded' \/ (Grows /\ Rests /\ Loaded)
  BY <1>1, StaysQuiet DEF Grows
<1>6. Loaded' => /\ (room'.items \cup room'.gone) \ Edit \subseteq kept
                 /\ room'.seen # None => room'.seen.items \subseteq kept
                 /\ room'.hash \subseteq kept
  BY <1>5 DEF Origins, Origin, Grows, Rests
<1>7. Origin'
  BY <1>1, <1>2, <1>3, <1>4, <1>6 DEF Origins, Origin
<1>8. slot.pc = "adopt" => Loaded /\ Loaded' /\ room'.items = room.items /\ room'.gone = room.gone
  <2>1. slot.pc = "adopt" => Loaded
    BY BusyLoaded DEF Busy
  <2> QED
    BY <1>1, <2>1, NoneAssumption DEF Stays, Alike, Loaded
<1>9. Item'
  BY <1>1, <1>2, <1>3, <1>8 DEF Origins, Item, Asking
<1> QED
  BY <1>7, <1>9 DEF Origins

\* A state that a sync or the slot made of the room as it is now.
LEMMA OwnStored ==
    ASSUME Sound', Loaded', (room'.items \cup room'.gone) \ Edit \subseteq kept', Origins,
           kept \subseteq kept',
           \A st \in StoredSet' : \/ st \in StoredSet
                                  \/ st.items = room'.items /\ st.gone = room'.gone
    PROVE  \A st \in StoredSet' : /\ (st.items \cup st.gone) \ Edit \subseteq kept'
                                  /\ st.items \cap st.gone = {}
<1>1. room'.items \cap room'.gone = {}
  BY DEF Sound, TypeOK, RoomFits, Loaded
<1> QED
  BY <1>1 DEF Origins, Origin, Item

\* Where a stored state comes from.
LEMMA StoredFrom ==
    ASSUME NEW st, st \in StoredSet'
    PROVE  \/ cache' # None /\ st = cache'
           \/ slot'.pc \in {"settle", "land", "store"} /\ st = slot'.state
           \/ \E v \in Syncer : sync'[v].pc = "cache" /\ st = sync'[v].state
  BY DEF StoredSet

LEMMA ReplaceOrigin ==
    ASSUME Sound, Sound', Origins, NEW w \in Syncer, SyncApply(w), Replaces(w)
    PROVE  Origins'
<1>1. /\ Loaded /\ Loaded' /\ sync[w].pc = "apply" /\ file' = file /\ prov' = prov
      /\ cache' = cache /\ kept' = kept /\ load' = load
  BY DEF Replaces, SyncApply, docVars
<1>2. /\ room'.items = sync[w].items
      /\ room'.gone = (room.gone \cup room.items) \ sync[w].items
      /\ room'.hash = sync[w].items /\ room'.seen = None
  BY DEF Replaces
<1>3. /\ \/ Ended(w)
         \/ /\ slot' = slot /\ sync'[w].pc = "cache" /\ sync'[w].items = {}
            /\ sync'[w].state = StateOf(room', prov, TRUE)
            /\ \A v \in Syncer : v # w => sync'[v] = sync[v]
  BY ApplyForm, NoneAssumption DEF Stays, Alike, Replaces, Ended
<1>4. (slot' = slot \/ Lays) /\ Asks /\ \A v \in Syncer : sync'[v].items \subseteq kept
  <2>1. CASE Ended(w)
    <3>1. (slot' = slot \/ Lays) /\ Asks /\ Unread
      BY <2>1, EndedQuiet
    <3>2. \A v \in Syncer : sync'[v].items \subseteq kept
      BY <3>1 DEF Unread, Origins, Origin
    <3> QED
      BY <3>1, <3>2
  <2>2. CASE ~Ended(w)
    <3>1. \A v \in Syncer : sync'[v].items \subseteq kept
      BY <1>3, <2>2 DEF Origins, Origin
    <3> QED
      BY <1>3, <2>2, <3>1, SameAsks
  <2> QED
    BY <2>1, <2>2
<1>5. (room'.items \cup room'.gone) \ Edit \subseteq kept'
  BY <1>1, <1>2 DEF Origins, Origin
<1>6. \A st \in StoredSet' : \/ st \in StoredSet
                             \/ st.items = room'.items /\ st.gone = room'.gone
  <2>1. CASE Ended(w)
    <3>1. (slot' = slot \/ Lays) /\ Unread
      BY <2>1, EndedQuiet
    <3>2. slot'.pc \in {"settle", "land", "store"} => slot' = slot
      BY <3>1 DEF Lays, Working
    <3>3. \A v \in Syncer : sync'[v].pc = "cache"
                               => sync[v].pc = "cache" /\ sync'[v].state = sync[v].state
      BY <3>1 DEF Unread
    <3>4. \A st \in StoredSet' : st \in StoredSet
      BY <1>1, <3>2, <3>3, StoredFrom DEF StoredSet
    <3> QED
      BY <3>4
  <2>2. CASE ~Ended(w)
    <3>1. sync'[w].state.items = room'.items /\ sync'[w].state.gone = room'.gone
      BY <1>3, <2>2 DEF StateOf
    <3>2. /\ slot' = slot /\ \A v \in Syncer : v # w => sync'[v] = sync[v]
      BY <1>3, <2>2
    <3>3. ASSUME NEW st, st \in StoredSet'
          PROVE  \/ st \in StoredSet
                 \/ st.items = room'.items /\ st.gone = room'.gone
      <4>1. CASE \E v \in Syncer : sync'[v].pc = "cache" /\ st = sync'[v].state
        BY <3>1, <3>2, <4>1 DEF StoredSet
      <4>2. CASE ~\E v \in Syncer : sync'[v].pc = "cache" /\ st = sync'[v].state
        BY <1>1, <3>2, <3>3, <4>2, StoredFrom DEF StoredSet
      <4> QED
        BY <4>1, <4>2
    <3> QED
      BY <3>3
  <2> QED
    BY <2>1, <2>2
<1>7. \A st \in StoredSet' : /\ (st.items \cup st.gone) \ Edit \subseteq kept'
                             /\ st.items \cap st.gone = {}
  BY <1>1, <1>5, <1>6, OwnStored
<1>8. Origin'
  <2>1. /\ file'.items \subseteq kept' /\ prov'.items \subseteq kept'
        /\ load'.items \subseteq kept'
    BY <1>1 DEF Origins, Origin
  <2>2. /\ slot'.prov # None => slot'.prov.items \subseteq kept'
        /\ slot'.made # None => slot'.made.items \subseteq kept'
        /\ slot'.known # None => slot'.known \subseteq kept'
        /\ slot'.blocks \ Edit \subseteq kept'
    BY <1>1, <1>4 DEF Origins, Origin, Lays
  <2>3. slot'.pc \in {"settle", "record", "state", "land", "adopt"} => slot'.blocks \subseteq kept'
    BY <1>1, <1>4 DEF Origins, Origin, Lays, Working
  <2>4. Loaded' => /\ (room'.items \cup room'.gone) \ Edit \subseteq kept'
                   /\ room'.seen # None => room'.seen.items \subseteq kept'
                   /\ room'.hash \subseteq kept'
    BY <1>1, <1>2, <1>5 DEF Origins, Origin
  <2> QED
    BY <1>1, <1>4, <1>7, <2>1, <2>2, <2>3, <2>4 DEF Origin
<1>9. ASSUME slot'.pc = "adopt"
      PROVE  /\ slot'.item \in file'.items /\ slot'.item \notin room'.gone
             /\ sync'["watcher"].pc # "apply"
  <2>1. slot' = slot
    BY <1>4, <1>9 DEF Lays, Working
  <2>2. w = "watcher"
    <3>1. slot.pc # "sync"
      BY <1>9, <2>1
    <3> QED
      BY <1>1, <3>1, BusyLoaded DEF Syncer
  <2>3. sync'["watcher"].pc # "apply"
    BY <1>3, <2>2 DEF Ended
  <2>4. /\ slot.item \in file.items /\ slot.item \notin room.gone
        /\ slot.item \in room.items => slot.item \in sync[w].items
    BY <1>1, <1>9, <2>1, <2>2 DEF Origins, Item
  <2> QED
    BY <1>1, <1>2, <2>1, <2>3, <2>4
<1>10. Item'
  BY <1>1, <1>4, <1>7, <1>9, AsksNew DEF Origins, Item
<1> QED
  BY <1>8, <1>10 DEF Origins

LEMMA HoldOrigin ==
    ASSUME Sound, Origins, AgentHold
    PROVE  Origins'
<1>1. /\ Loaded /\ Loaded' /\ Copy(room', room) /\ sync' = sync /\ slot.pc = "hold"
      /\ slot'.pc = "commit" /\ slot'.task = slot.task /\ slot'.item = slot.item
      /\ slot'.blocks = room.items /\ slot'.known = slot.known
      /\ slot'.prov = slot.prov /\ slot'.made = slot.made
  BY HoldForm DEF AgentHold
<1>2. /\ file' = file /\ prov' = prov /\ cache' = cache /\ kept' = kept /\ load' = load
  BY DEF AgentHold, docVars, ghostVars
<1>3. StoredSet' \subseteq StoredSet
  BY <1>1, <1>2 DEF StoredSet
<1>4. Origin'
  BY <1>1, <1>2, <1>3 DEF Origins, Origin, Copy
<1>5. Item'
  BY <1>1, <1>2, <1>3, SavesAsk, AsksNew DEF Origins, Item
<1> QED
  BY <1>4, <1>5 DEF Origins

LEMMA CommitOrigin ==
    ASSUME Sound, Origins, AgentCommit, slot'.pc = "adopt"
    PROVE  Origins'
<1>1. /\ Loaded /\ room' = room /\ sync' = sync /\ slot.pc = "commit"
      /\ slot.item \in Agent /\ slot'.task = slot.task /\ slot'.item = slot.item
      /\ slot'.blocks = slot.blocks \cup {slot.item} /\ slot'.known = slot.known
      /\ slot'.prov = slot.prov /\ slot'.made = slot.made
      /\ kept' = kept \cup slot.blocks \cup {slot.item}
      /\ file'.items = slot.blocks \cup {slot.item}
      /\ prov'.items = slot.blocks \cup {slot.item}
  BY CommitForm DEF AgentCommit, Advances
<1>2. cache' = cache /\ load' = load
  BY DEF AgentCommit
<1>3. StoredSet' \subseteq StoredSet
  BY <1>1, <1>2 DEF StoredSet
<1>4. Origin'
  BY <1>1, <1>2, <1>3 DEF Origins, Origin, Loaded
<1>5. Asking(slot)
  BY <1>1, SoundParts DEF Asking, Slotted, Handing
<1>6. slot.item \notin kept /\ slot.item \notin Edit
  BY <1>1, <1>5, CollaborationAssumption DEF Origins, Item
<1>7. slot.item \notin room.gone /\ slot.item \notin room.items
  BY <1>1, <1>6 DEF Origins, Origin
<1>8. ~Asking(slot')
  BY DEF Asking, Saving
<1>9. Item'
  BY <1>1, <1>3, <1>7, <1>8 DEF Origins, Item
<1> QED
  BY <1>4, <1>9 DEF Origins

LEMMA AdoptOrigin ==
    ASSUME Sound, Sound', Origins, AgentAdopt, Adopted
    PROVE  Origins'
<1>1. /\ Loaded /\ Loaded' /\ sync' = sync /\ room'.hash = slot.blocks /\ room'.seen = None
      /\ slot'.task = slot.task /\ slot'.item = slot.item
      /\ slot'.blocks = slot.blocks /\ slot'.known = slot.known
      /\ slot'.prov = slot.prov /\ slot'.made = slot.made
  BY DEF Adopted
<1>2. /\ file' = file /\ prov' = prov /\ cache' = cache /\ kept' = kept /\ load' = load
  BY DEF AgentAdopt, docVars
<1>3. /\ slot.pc = "adopt" /\ slot.blocks \subseteq kept
      /\ slot.item \in kept /\ (room.items \cup room.gone) \ Edit \subseteq kept
  <2>1. slot.pc = "adopt"
    BY AdoptForm
  <2> QED
    BY <1>1, <2>1 DEF Origins, Origin, Item
<1>4. /\ slot'.pc \in {"store", "release"}
      /\ (room'.items \cup room'.gone) \ Edit \subseteq kept
      /\ slot'.state.items = room'.items /\ slot'.state.gone = room'.gone
  <2>1. StateOf(room', prov, FALSE).items = room'.items
        /\ StateOf(room', prov, TRUE).items = room'.items
        /\ StateOf(room', prov, FALSE).gone = room'.gone
        /\ StateOf(room', prov, TRUE).gone = room'.gone
    BY DEF StateOf
  <2>2. room.gen \in Nat
    BY <1>1, BusyLoaded DEF Rooms
  <2>3. room' # room
    BY <2>2 DEF Adopted
  <2> QED
    BY <1>3, <2>1, <2>3, AdoptForm
<1>5. \A st \in StoredSet' : \/ st \in StoredSet
                             \/ st.items = room'.items /\ st.gone = room'.gone
  BY <1>1, <1>2, <1>4, StoredSame
<1>6. \A st \in StoredSet' : /\ (st.items \cup st.gone) \ Edit \subseteq kept'
                             /\ st.items \cap st.gone = {}
  BY <1>1, <1>2, <1>4, <1>5, OwnStored
<1>7. Origin'
  BY <1>1, <1>2, <1>3, <1>4, <1>6 DEF Origins, Origin
<1>8. ~Asking(slot') /\ slot'.pc # "adopt"
  BY <1>4 DEF Asking, Saving
<1>9. Item'
  BY <1>6, <1>8 DEF Item
<1> QED
  BY <1>7, <1>9 DEF Origins

\* Every step keeps where things come from.
LEMMA OriginStep ==
    ASSUME Sound, Sound', Origins, Next
    PROVE  Origins'
<1>1. Origin /\ Item
  BY DEF Origins
<1>2. CASE Quiet
  BY <1>1, <1>2, QuietBase DEF Origins
<1>3. CASE LoadRead \/ LoadImport
  BY <1>3, LoadsOrigin
<1>4. CASE \/ PersistStat /\ slot'.pc = "export"
           \/ PersistExport \/ PersistCompare \/ PersistSettle \/ PersistRecord
           \/ PersistState \/ PersistLand
  BY <1>4, SavesOrigin
<1>5. CASE PersistWrite
  BY <1>5, WriteOrigin
<1>6. CASE \E w \in Syncer : SyncRead(w) /\ sync'[w].pc = "apply"
  BY <1>6, ReadOrigin
<1>7. CASE \E w \in Syncer : SyncApply(w) /\ Replaces(w)
  BY <1>7, ReplaceOrigin
<1>8. CASE \E x \in External : ExternalWrite(x)
  BY <1>8, OutsideOrigin
<1>9. CASE WatcherEvent
  BY <1>9, WatcherOrigin
<1>10. CASE \E a \in Agent : AgentCold(a)
  BY <1>10, ColdOrigin
<1>11. CASE AgentHold
  BY <1>11, HoldOrigin
<1>12. CASE AgentCommit /\ slot'.pc = "adopt"
  BY <1>12, CommitOrigin
<1>13. CASE AgentAdopt /\ Adopted
  BY <1>13, AdoptOrigin
<1> QED
  BY <1>2, <1>3, <1>4, <1>5, <1>6, <1>7, <1>8, <1>9, <1>10, <1>11, <1>12, <1>13, QuietStep

-----------------------------------------------------------------------------
(* The types and the origins together                                      *)

Base == Sound /\ Origins

LEMMA InitSound == Init => Sound
<1> SUFFICES ASSUME Init PROVE Sound
  OBVIOUS
<1>1. /\ IdleSlot \in Slots /\ IdleSync \in Syncs /\ Clear(IdleSlot)
      /\ IdleSlot.pc = "idle" /\ IdleSlot.task = "none" /\ IdleSync.pc = "idle"
  BY Blanks
<1>2. DOMAIN NextStage = {"required", "disk", "typed", "follow"}
  BY Stages
<1>3. ~Loaded /\ ~Busy
  BY <1>1 DEF Init, Loaded, Busy
<1>4. DocTypes
  BY DEF Init, DocTypes, Version, Versions, Content, Place
<1>5. RoomTypes
  BY <1>1 DEF Init, RoomTypes, IdleLoad, Content
<1>6. WatchTypes
  BY DEF Init, WatchTypes, IdleBarrier
<1>7. ClientTypes
  BY CollaborationAssumption DEF Init, ClientTypes
<1>8. GhostTypes
  <2>1. events \in 0 .. MaxEvents
    BY CollaborationAssumption DEF Init
  <2>2. shot \in [due : SUBSET Edit, allowed : Content]
    BY DEF Init, NoShot, Content
  <2>3. kept \in Content /\ told \in SUBSET Edit /\ wiped \in SUBSET Edit
        /\ forgotten \in SUBSET Edit
    BY DEF Init, Content
  <2>4. collided \in BOOLEAN /\ crossed \in BOOLEAN /\ faulted \in BOOLEAN
    BY DEF Init
  <2> QED
    BY <2>1, <2>2, <2>3, <2>4 DEF GhostTypes
<1>9. RoomFits
  BY <1>1, <1>3 DEF Init, RoomFits, Syncer
<1>10. Shape
  BY <1>1, <1>2, <1>3 DEF Init, Shape, Saving, Handing, Syncer
<1> QED
  BY <1>4, <1>5, <1>6, <1>7, <1>8, <1>9, <1>10 DEF Sound, TypeOK

LEMMA InitOrigins == Init => Origins
<1> SUFFICES ASSUME Init PROVE Origins
  OBVIOUS
<1>1. /\ IdleSlot.pc = "idle" /\ IdleSlot.task = "none" /\ IdleSync.pc = "idle"
      /\ IdleSync.items = {} /\ IdleSlot.prov = None /\ IdleSlot.made = None
      /\ IdleSlot.known = None /\ IdleSlot.blocks = {}
  BY Blanks DEF IdleSlot
<1>2. ~Loaded /\ StoredSet = {}
  BY <1>1 DEF Init, Loaded, StoredSet
<1>3. Origin
  BY <1>1, <1>2 DEF Init, Origin, Version, IdleLoad
<1>4. Item
  BY <1>1, <1>2 DEF Init, Item, Asking, Saving
<1> QED
  BY <1>3, <1>4 DEF Origins

LEMMA BaseStep ==
    ASSUME Base, [Next]_vars
    PROVE  Base'
<1>1. CASE Next
  <2>1. slot.pc = "adopt" => slot.item \notin room.gone
    BY DEF Base, Origins, Item
  <2>2. cache # None => cache.items \cap cache.gone = {}
    BY DEF Base, Origins, Item, StoredSet
  <2>3. Sound'
    BY <1>1, <2>1, <2>2, SoundStep DEF Base
  <2> QED
    BY <1>1, <2>3, OriginStep DEF Base
<1>2. CASE UNCHANGED vars
  <2>1. UNCHANGED vars
    BY <1>2
  <2> USE <2>1 DEF vars, docVars, roomVars, watchVars, clientVars, ghostVars
  <2>2. StoredSet' = StoredSet /\ (Loaded' <=> Loaded) /\ (Busy' <=> Busy)
        /\ (Asking(slot') <=> Asking(slot))
    BY DEF StoredSet, Loaded, Busy
  <2>3. TypeOK'
    BY <2>2 DEF Base, Sound, TypeOK, DocTypes, RoomTypes, WatchTypes, ClientTypes,
                GhostTypes, RoomFits
  <2>4. Shape'
    BY <2>2 DEF Base, Sound, Shape, Clear
  <2>5. Origins'
    BY <2>2 DEF Base, Origins, Origin, Item
  <2> QED
    BY <2>3, <2>4, <2>5 DEF Base, Sound
<1> QED
  BY <1>1, <1>2

\* In every state of the manager the types hold and what the file, its versions,
\* the stored states and the slot show can be traced to the file or to people.
THEOREM RoomsBase == Spec => []Base
<1>1. Init => Base
  BY InitSound, InitOrigins DEF Base
<1>2. Base /\ [Next]_vars => Base'
  BY BaseStep
<1> QED
  BY <1>1, <1>2, PTL DEF Spec

\* The maps of the manager, its rooms, the slot and the sockets keep their types
\* and stay consistent with each other, through crashes, moves and captures.
THEOREM RoomsTypeCorrect == Spec => []TypeOK
<1>1. Base => TypeOK
  BY DEF Base, Sound
<1> QED
  BY <1>1, RoomsBase, PTL

-----------------------------------------------------------------------------
(* What the room was told, and what the stored states say                   *)

Truth == Told /\ Matched
Exported == {"compare", "settle", "write", "record", "state"}

\* A step that leaves the room, what is stored and what was told alone.
LEMMA SameTruth ==
    ASSUME Truth, StoredSet' \subseteq StoredSet, wiped' = wiped, kept \subseteq kept',
           told' = told, slot' = slot \/ slot'.pc \notin Exported,
           \/ ~Loaded'
           \/ /\ Loaded /\ room'.items = room.items /\ room'.gone = room.gone
              /\ room'.intent = room.intent /\ room'.igen = room.igen
              /\ room'.gen = room.gen
    PROVE  Truth'
<1>1. Told'
  BY DEF Truth, Told, Exported
<1>2. Matched'
  BY DEF Truth, Matched, Exported
<1> QED
  BY <1>1, <1>2 DEF Truth

\* A step of the slot or of a sync on a room that is told nothing.
LEMMA NewTruth ==
    ASSUME Truth, Loaded, told' = told, wiped \subseteq wiped', kept \subseteq kept',
           room'.gone \cap Edit \subseteq wiped',
           told \subseteq room'.items \cup wiped' \cup kept',
           ~room'.intent => told \subseteq wiped' \cup kept',
           slot'.pc \in {"compare", "write", "record", "settle"} /\ slot'.igen = room'.igen
             => told \subseteq slot'.blocks \cup wiped' \cup kept',
           slot'.pc \in {"compare", "write", "record", "state"} /\ slot'.gen = room'.gen
             => room'.items = slot'.blocks,
           \A st \in StoredSet' : \/ st \in StoredSet
                                  \/ /\ st.gone \cap Edit \subseteq wiped'
                                     /\ st.matches => st.items = st.head.items
    PROVE  Truth'
<1>1. Told'
  BY DEF Truth, Told
<1>2. Matched'
  BY DEF Truth, Matched
<1> QED
  BY <1>1, <1>2 DEF Truth

\* A room that grows is told what it shows, or a new signal.
LEMMA GrowsTruth ==
    ASSUME Sound, Truth, Grows, StoredSet' \subseteq StoredSet, wiped' = wiped,
           kept' = kept, slot' = slot \/ slot'.pc \notin Exported
    PROVE  Truth'
<1>1. /\ Loaded /\ room'.gone = room.gone /\ room.items \subseteq room'.items
      /\ told' \in SUBSET Edit /\ told' \subseteq told \cup room'.items \cup room.gone
  BY DEF Grows
<1>2. told' \subseteq room'.items \cup wiped \cup kept
  BY <1>1 DEF Truth, Told
<1>3. slot.igen \in Nat /\ room.igen \in Nat /\ slot.gen \in Nat /\ room.gen \in Nat
      /\ room'.gen \in Nat /\ slot.igen <= room.igen /\ slot.gen <= room.gen
      /\ room.gen <= room'.gen
  BY <1>1, BusyLoaded, SlotTask DEF Sound, Shape, Grows, Rooms
<1>4. \/ room'.intent /\ room'.igen = room.igen + 1
      \/ room'.intent = room.intent /\ room'.igen = room.igen /\ told' = told
  BY DEF Grows
<1>5. ~room'.intent => told' \subseteq wiped \cup kept
  BY <1>1, <1>4 DEF Truth, Told
<1>6. slot.igen = room'.igen => slot.igen = room.igen /\ told' = told
  BY <1>3, <1>4
<1>7. Told'
  <2>1. slot'.pc \in {"compare", "write", "record", "settle"} => slot' = slot
    BY DEF Exported
  <2> QED
    BY <1>1, <1>2, <1>5, <1>6, <2>1 DEF Truth, Told
<1>8. slot.gen = room'.gen => slot.gen = room.gen /\ room'.items = room.items
  <2>1. slot.gen = room'.gen => room'.gen = room.gen
    BY <1>3
  <2> QED
    BY <1>3, <2>1 DEF Grows
<1>9. Matched'
  BY <1>1, <1>8 DEF Truth, Matched, Exported
<1> QED
  BY <1>7, <1>9 DEF Truth

LEMMA QuietTruth ==
    ASSUME Sound, Truth, Quiet
    PROVE  Truth'
<1>1. StoredSet' \subseteq StoredSet /\ wiped' = wiped /\ kept' = kept
  BY QuietStored DEF Quiet, Undisturbed
<1>2. slot' = slot \/ slot'.pc \notin Exported
  BY DEF Quiet, Lays, Working, Exported
<1>3. CASE ~Loaded'
  BY <1>1, <1>3 DEF Truth, Told, Matched
<1>4. CASE Grows
  BY <1>1, <1>2, <1>4, GrowsTruth
<1> QED
  BY <1>3, <1>4 DEF Quiet

LEMMA LoadTruth ==
    ASSUME Sound, Truth, LoadImport
    PROVE  Truth'
<1>1. /\ Loaded' /\ told' = {} /\ slot.pc = "idle" /\ slot' = slot /\ sync' = sync
      /\ \/ /\ cache # None /\ cache' = cache /\ room'.gone = cache.gone
         \/ /\ room'.items = load.items /\ room'.gone = {}
            /\ \/ cache' = None
               \/ cache' = StateOf(room', prov, TRUE) /\ prov.items = load.items
  BY ImportForm
<1>2. wiped' = wiped /\ kept' = kept
  BY DEF LoadImport
<1>3. \A st \in StoredSet' :
        \/ st \in StoredSet
        \/ st.gone = {} /\ (st.matches => st.items = st.head.items)
  <2>1. StateOf(room', prov, TRUE).gone = room'.gone
        /\ StateOf(room', prov, TRUE).items = room'.items
        /\ StateOf(room', prov, TRUE).head = prov
    BY DEF StateOf
  <2>2. \A st \in StoredSet' : st \in StoredSet \/ (st = cache' /\ cache' # None)
    BY <1>1, StoredFrom DEF StoredSet
  <2>3. cache' # None => \/ cache' \in StoredSet
                         \/ cache' = StateOf(room', prov, TRUE) /\ prov.items = load.items
                            /\ room'.items = load.items /\ room'.gone = {}
    BY <1>1 DEF StoredSet
  <2> QED
    BY <2>1, <2>2, <2>3
<1>4. room'.gone \cap Edit \subseteq wiped
  BY <1>1 DEF Truth, Told, StoredSet
<1>5. Told'
  BY <1>1, <1>2, <1>3, <1>4 DEF Truth, Told
<1>6. Matched'
  BY <1>1, <1>3 DEF Truth, Matched
<1> QED
  BY <1>5, <1>6 DEF Truth

LEMMA OutsideTruth ==
    ASSUME Sound, Truth,
           \/ LoadRead \/ (\E x \in External : ExternalWrite(x)) \/ WatcherEvent
           \/ (\E a \in Agent : AgentCold(a)) \/ AgentHold
           \/ AgentCommit /\ slot'.pc = "adopt"
           \/ (\E w \in Syncer : SyncRead(w) /\ sync'[w].pc = "apply")
    PROVE  Truth'
<1>1. ASSUME room' = room \/ Stays
      PROVE  \/ ~Loaded'
             \/ /\ Loaded /\ room'.items = room.items /\ room'.gone = room.gone
                /\ room'.intent = room.intent /\ room'.igen = room.igen
                /\ room'.gen = room.gen
  BY <1>1 DEF Stays, Alike, Loaded
<1>2. CASE LoadRead
  <2>1. StoredSet' \subseteq StoredSet
    BY <1>2 DEF LoadRead, docVars, StoredSet
  <2> QED
    BY <1>1, <1>2, <2>1, SameTruth DEF LoadRead, docVars, ghostVars
<1>3. CASE \E x \in External : ExternalWrite(x)
  <2>1. /\ room' = room /\ slot' = slot /\ sync' = sync /\ cache' = cache
        /\ kept \subseteq kept'
    BY <1>3, OutsideForm
  <2>2. wiped' = wiped /\ told' = told
    BY <1>3 DEF ExternalWrite
  <2>3. StoredSet' \subseteq StoredSet
    BY <2>1 DEF StoredSet
  <2> QED
    BY <1>1, <2>1, <2>2, <2>3, SameTruth
<1>4. CASE WatcherEvent
  <2>1. /\ Stays /\ slot' = slot /\ sync'["slot"] = sync["slot"] /\ told' = told
        /\ sync' = sync \/ sync'["watcher"].pc = "read"
    BY <1>4, WatcherForm
  <2>2. cache' = cache /\ wiped' = wiped /\ kept' = kept
    BY <1>4 DEF WatcherEvent, ghostVars
  <2>3. StoredSet' \subseteq StoredSet
    BY <2>1, <2>2 DEF StoredSet, Syncer
  <2> QED
    BY <1>1, <2>1, <2>2, <2>3, SameTruth
<1>5. CASE \E a \in Agent : AgentCold(a)
  <2>1. /\ room' = room /\ slot' = slot /\ sync' = sync /\ cache' = cache
        /\ kept \subseteq kept'
    BY <1>5, ColdForm
  <2>2. wiped' = wiped /\ told' = told
    BY <1>5 DEF AgentCold
  <2>3. StoredSet' \subseteq StoredSet
    BY <2>1 DEF StoredSet
  <2> QED
    BY <1>1, <2>1, <2>2, <2>3, SameTruth
<1>6. CASE AgentHold
  <2>1. /\ Loaded /\ Copy(room', room) /\ sync' = sync /\ slot'.pc = "commit"
    BY <1>6, HoldForm
  <2>2. cache' = cache /\ wiped' = wiped /\ kept' = kept /\ told' = told
    BY <1>6 DEF AgentHold, docVars, ghostVars
  <2>3. StoredSet' \subseteq StoredSet
    BY <2>1, <2>2 DEF StoredSet
  <2> QED
    BY <2>1, <2>2, <2>3, SameTruth DEF Copy, Exported
<1>7. CASE AgentCommit /\ slot'.pc = "adopt"
  <2>1. /\ room' = room /\ sync' = sync /\ kept \subseteq kept'
    BY <1>7, CommitForm
  <2>2. cache' = cache /\ wiped' = wiped /\ told' = told
    BY <1>7 DEF AgentCommit
  <2>3. StoredSet' \subseteq StoredSet
    BY <1>7, <2>1, <2>2 DEF StoredSet
  <2> QED
    BY <1>1, <1>7, <2>1, <2>2, <2>3, SameTruth DEF Exported
<1>8. CASE \E w \in Syncer : SyncRead(w) /\ sync'[w].pc = "apply"
  <2>1. PICK w \in Syncer : SyncRead(w) /\ sync'[w].pc = "apply"
    BY <1>8
  <2>2. /\ room' = room /\ slot' = slot /\ \A v \in Syncer : v # w => sync'[v] = sync[v]
    BY <2>1, ReadForm DEF Ended, Syncer
  <2>3. cache' = cache /\ wiped' = wiped /\ kept' = kept /\ told' = told
    BY <2>1 DEF SyncRead, docVars, ghostVars
  <2>4. StoredSet' \subseteq StoredSet
    BY <2>1, <2>2, <2>3 DEF StoredSet
  <2> QED
    BY <1>1, <2>2, <2>3, <2>4, SameTruth
<1> QED
  BY <1>2, <1>3, <1>4, <1>5, <1>6, <1>7, <1>8

\* A step of the slot that changes nothing a room shows.
LEMMA KeepsTruth ==
    ASSUME Truth, Keeps, wiped' = wiped, kept \subseteq kept',
           room'.intent = room.intent \/ told \subseteq wiped \cup kept,
           \/ slot'.pc \notin {"compare", "write", "record", "settle"}
           \/ slot'.blocks = room.items
           \/ /\ slot'.blocks = slot.blocks /\ slot'.igen = slot.igen
              /\ slot.pc \in {"compare", "write", "record", "settle"},
           \/ slot'.pc \notin {"compare", "write", "record", "state"}
           \/ slot'.blocks = room.items
           \/ /\ slot'.blocks = slot.blocks /\ slot'.gen = slot.gen
              /\ slot.pc \in {"compare", "write", "record", "state"},
           \A st \in StoredSet' : \/ st \in StoredSet
                                  \/ /\ st.gone = room.gone
                                     /\ st.matches => st.items = st.head.items
    PROVE  Truth'
<1>1. /\ Loaded /\ told' = told /\ room'.items = room.items /\ room'.gone = room.gone
      /\ room'.igen = room.igen /\ room'.gen = room.gen
  BY DEF Keeps, Same
<1>2. /\ room.gone \cap Edit \subseteq wiped /\ told \subseteq room.items \cup wiped \cup kept
      /\ ~room.intent => told \subseteq wiped \cup kept
      /\ slot.pc \in {"compare", "write", "record", "settle"} /\ slot.igen = room.igen
           => told \subseteq slot.blocks \cup wiped \cup kept
  BY <1>1 DEF Truth, Told
<1>3. slot.pc \in {"compare", "write", "record", "state"} /\ slot.gen = room.gen
        => room.items = slot.blocks
  BY <1>1 DEF Truth, Matched
<1>4. slot'.pc \in {"compare", "write", "record", "settle"} /\ slot'.igen = room'.igen
        => told \subseteq slot'.blocks \cup wiped' \cup kept'
  BY <1>1, <1>2
<1>5. slot'.pc \in {"compare", "write", "record", "state"} /\ slot'.gen = room'.gen
        => room'.items = slot'.blocks
  BY <1>1, <1>3
<1>6. \A st \in StoredSet' : \/ st \in StoredSet
                             \/ /\ st.gone \cap Edit \subseteq wiped'
                                /\ st.matches => st.items = st.head.items
  BY <1>2
<1> QED
  BY <1>1, <1>2, <1>4, <1>5, <1>6, NewTruth

LEMMA SavesTruth ==
    ASSUME Sound, Origins, Truth,
           \/ PersistStat /\ slot'.pc = "export"
           \/ PersistExport \/ PersistCompare \/ PersistSettle \/ PersistWrite
           \/ PersistRecord \/ PersistState \/ PersistLand
    PROVE  Truth'
<1>1. slot.pc \in Saving /\ Loaded /\ room \in Rooms
  BY BusyLoaded DEF PersistStat, PersistExport, PersistCompare, PersistSettle, PersistRecord,
     PersistState, PersistLand, PersistWrite, Saving, Busy
<1>2. ASSUME room' = room, told' = told PROVE Keeps
  BY <1>1, <1>2 DEF Keeps, Same, Loaded
<1>3. ASSUME room.gen = slot.gen => room.items = slot.blocks,
             NEW st, st = StateOf(room, slot.prov, room.gen = slot.gen /\ slot.prov.items = slot.blocks)
      PROVE  st.gone = room.gone /\ (st.matches => st.items = st.head.items)
  <2>1. st.gone = room.gone /\ st.items = room.items /\ st.head = slot.prov
        /\ (st.matches => room.gen = slot.gen /\ slot.prov.items = slot.blocks)
    BY <1>3 DEF StateOf
  <2> QED
    BY <1>3, <2>1
<1>4. CASE PersistStat /\ slot'.pc = "export"
  <2>1. wiped' = wiped /\ kept' = kept /\ cache' = cache
    BY <1>4 DEF PersistStat, docVars
  <2>2. Grows /\ sync' = sync
    BY <1>4, StatForm, Stages DEF Returns, Turns, Turned, Resyncs, Follows
  <2>3. StoredSet' \subseteq StoredSet
    BY <1>4, <2>1, <2>2, StoredSame
  <2> QED
    BY <1>4, <2>1, <2>2, <2>3, GrowsTruth DEF Exported
<1>5. CASE PersistExport
  <2>1. wiped' = wiped /\ kept' = kept /\ cache' = cache /\ told' = told
    BY <1>5 DEF PersistExport, docVars, ghostVars
  <2>2. room' = room /\ sync' = sync /\ slot'.pc = "compare" /\ slot'.blocks = room.items
    BY <1>5, ExportForm
  <2>3. StoredSet' \subseteq StoredSet
    BY <2>1, <2>2, StoredSame
  <2> QED
    BY <1>2, <2>1, <2>2, <2>3, KeepsTruth
<1>6. CASE PersistCompare
  <2>1. /\ wiped' = wiped /\ kept' = kept /\ cache' = cache /\ slot.pc = "compare"
        /\ Keeps /\ room'.intent = room.intent
    BY <1>6, CompareForm DEF PersistCompare, docVars, ghostVars
  <2>2. cache' = None \/ cache' \in StoredSet
    BY <2>1 DEF StoredSet
  <2>3. CASE Returns \/ Resyncs(room, slot.task)
    <3>1. Lays /\ Unread
      BY <1>1, <2>3, ReturnsQuiet, ResyncsQuiet
    <3>2. StoredSet' \subseteq StoredSet /\ slot'.pc \notin Exported
      BY <2>2, <3>1, LaysStored DEF Lays, Working, Exported
    <3> QED
      BY <2>1, <3>2, KeepsTruth DEF Exported
  <2>4. CASE /\ sync' = sync /\ slot'.pc = "write" /\ Carries(slot, slot')
    <3>1. StoredSet' \subseteq StoredSet
      BY <2>1, <2>4, StoredSame
    <3> QED
      BY <2>1, <2>4, <3>1, KeepsTruth DEF Carries
  <2>5. CASE /\ sync' = sync /\ slot'.pc = "settle" /\ slot'.blocks = slot.blocks
             /\ slot'.igen = slot.igen
             /\ slot'.state = StateOf(room, slot.prov,
                  room.gen = slot.gen /\ slot.prov.items = slot.blocks)
    <3>1. slot'.state.gone = room.gone /\ (slot'.state.matches => slot'.state.items = slot'.state.head.items)
      BY <1>1, <1>3, <2>1, <2>5 DEF Truth, Matched
    <3>2. \A st \in StoredSet' : st \in StoredSet \/ st = slot'.state
      BY <2>1, <2>5, StoredSame
    <3> QED
      BY <2>1, <2>5, <3>1, <3>2, KeepsTruth
  <2> QED
    BY <1>6, <2>3, <2>4, <2>5, CompareForm
<1>7. CASE PersistSettle \/ PersistLand
  <2>1. /\ wiped' = wiped /\ kept' = kept /\ Keeps /\ Returns
        /\ \/ slot.pc = "settle" /\ (room'.intent = room.intent \/ slot.igen = room.igen)
           \/ room'.intent = room.intent
    BY <1>7, SettleForm, LandForm DEF PersistSettle, PersistLand, ghostVars
  <2>2. cache' = None \/ cache' \in StoredSet
    BY <1>7, RestoresForm
  <2>3. Lays /\ Unread
    BY <1>1, <2>1, ReturnsQuiet
  <2>4. StoredSet' \subseteq StoredSet /\ slot'.pc \notin Exported
    BY <2>2, <2>3, LaysStored DEF Lays, Working, Exported
  <2>5. slot.pc = "settle" /\ slot.igen = room.igen => told \subseteq wiped \cup kept
    BY <1>1 DEF Origins, Origin, Truth, Told
  <2> QED
    BY <2>1, <2>4, <2>5, KeepsTruth DEF Exported
<1>8. CASE PersistWrite
  <2>1. wiped' = wiped /\ cache' = cache /\ told' = told /\ slot.pc = "write"
    BY <1>8 DEF PersistWrite
  <2>2. /\ room' = room /\ sync' = sync /\ slot'.pc = "record" /\ slot'.blocks = slot.blocks
        /\ slot'.igen = slot.igen /\ slot'.gen = slot.gen /\ kept \subseteq kept'
    BY <1>8, WriteForm
  <2>3. StoredSet' \subseteq StoredSet
    BY <2>1, <2>2, StoredSame
  <2> QED
    BY <1>2, <2>1, <2>2, <2>3, KeepsTruth
<1>9. CASE PersistRecord
  <2>1. wiped' = wiped /\ kept' = kept /\ cache' = cache /\ slot.pc = "record"
    BY <1>9 DEF PersistRecord, ghostVars
  <2>2. /\ Keeps /\ sync' = sync /\ slot'.pc = "state" /\ slot'.blocks = slot.blocks
        /\ slot'.gen = slot.gen
        /\ room'.intent = room.intent \/ slot.igen = room.igen
    BY <1>9, RecordForm
  <2>3. StoredSet' \subseteq StoredSet
    BY <2>1, <2>2, StoredSame
  <2>4. slot.igen = room.igen => told \subseteq wiped \cup kept
    BY <1>1, <2>1 DEF Origins, Origin, Truth, Told
  <2> QED
    BY <2>1, <2>2, <2>3, <2>4, KeepsTruth
<1>10. CASE PersistState
  <2>1. wiped' = wiped /\ kept' = kept /\ cache' = cache /\ slot.pc = "state" /\ told' = told
    BY <1>10 DEF PersistState, docVars, ghostVars
  <2>2. /\ room' = room /\ sync' = sync /\ slot'.pc = "land"
        /\ slot'.state = StateOf(room, slot.prov,
             room.gen = slot.gen /\ slot.prov.items = slot.blocks)
    BY <1>10, StateForm
  <2>3. slot'.state.gone = room.gone /\ (slot'.state.matches => slot'.state.items = slot'.state.head.items)
    BY <1>1, <1>3, <2>1, <2>2 DEF Truth, Matched
  <2>4. \A st \in StoredSet' : st \in StoredSet \/ st = slot'.state
    BY <2>1, <2>2, StoredSame
  <2> QED
    BY <1>2, <2>1, <2>2, <2>3, <2>4, KeepsTruth
<1> QED
  BY <1>4, <1>5, <1>6, <1>7, <1>8, <1>9, <1>10

\* A room that is replaced: what it showed and is not saved is wiped.
LEMMA ReplaceTruth ==
    ASSUME Sound, Origins, Truth, NEW w \in Syncer, SyncApply(w), Replaces(w)
    PROVE  Truth'
<1>1. /\ Loaded /\ cache' = cache /\ kept' = kept /\ told' = told
      /\ told \in SUBSET Edit
  BY DEF Replaces, SyncApply, docVars, Sound, TypeOK, GhostTypes
<1>2. /\ room'.items = sync[w].items /\ sync[w].items \subseteq kept
      /\ room'.gone = (room.gone \cup room.items) \ sync[w].items
      /\ room'.gen = room.gen + 1 /\ room'.igen = room.igen
      /\ wiped' = wiped \cup ((room.items \ sync[w].items) \cap Edit)
  BY DEF Replaces, Origins, Origin
<1>3. /\ \/ Ended(w)
         \/ /\ slot' = slot /\ sync'[w].pc = "cache" /\ prov.items = sync[w].items
            /\ sync'[w].state = StateOf(room', prov, TRUE)
            /\ \A v \in Syncer : v # w => sync'[v] = sync[v]
  BY ApplyForm, NoneAssumption DEF Stays, Alike, Replaces, Ended
<1>4. slot' = slot \/ Lays
  BY <1>3, EndedQuiet
<1>5. /\ room.gone \cap Edit \subseteq wiped /\ told \subseteq room.items \cup wiped \cup kept
      /\ slot.pc \in {"compare", "write", "record", "settle"} /\ slot.igen = room.igen
           => told \subseteq slot.blocks \cup wiped \cup kept
  BY <1>1 DEF Truth, Told
<1>6. /\ room'.gone \cap Edit \subseteq wiped' /\ told \subseteq wiped' \cup kept
  BY <1>1, <1>2, <1>5
<1>7. slot'.pc \in Exported => slot' = slot
  BY <1>4 DEF Lays, Working, Exported
<1>8. room'.gen # slot.gen
  <2>1. slot.gen \in Nat /\ room.gen \in Nat /\ slot.gen <= room.gen
    BY <1>1, BusyLoaded, SlotTask DEF Sound, Shape, Rooms
  <2> QED
    BY <1>2, <2>1
<1>9. \A st \in StoredSet' : \/ st \in StoredSet
                             \/ /\ st.gone \cap Edit \subseteq wiped'
                                /\ st.matches => st.items = st.head.items
  <2>1. cache' = None \/ cache' \in StoredSet
    BY <1>1 DEF StoredSet
  <2>2. CASE Ended(w)
    <3>1. StoredSet' \subseteq StoredSet
      BY <2>1, <2>2, EndedQuiet, LaysStored
    <3> QED
      BY <3>1
  <2>3. CASE ~Ended(w)
    <3>1. /\ sync'[w].state.items = room'.items /\ sync'[w].state.gone = room'.gone
          /\ sync'[w].state.head = prov /\ prov.items = sync[w].items
      BY <1>3, <2>3 DEF StateOf
    <3>2. /\ slot' = slot /\ \A v \in Syncer : v # w => sync'[v] = sync[v]
      BY <1>3, <2>3
    <3>3. ASSUME NEW st, st \in StoredSet' PROVE st \in StoredSet \/ st = sync'[w].state
      <4>1. CASE \E v \in Syncer : sync'[v].pc = "cache" /\ st = sync'[v].state
        BY <3>2, <4>1 DEF StoredSet
      <4>2. CASE ~\E v \in Syncer : sync'[v].pc = "cache" /\ st = sync'[v].state
        BY <1>1, <3>2, <3>3, <4>2, StoredFrom DEF StoredSet
      <4> QED
        BY <4>1, <4>2
    <3> QED
      BY <1>2, <1>6, <3>1, <3>3
  <2> QED
    BY <2>2, <2>3
<1>10. /\ wiped \subseteq wiped' /\ told \subseteq room'.items \cup wiped' \cup kept'
       /\ ~room'.intent => told \subseteq wiped' \cup kept'
  BY <1>1, <1>2, <1>6
<1>11. /\ slot'.pc \in {"compare", "write", "record", "settle"} /\ slot'.igen = room'.igen
           => told \subseteq slot'.blocks \cup wiped' \cup kept'
       /\ slot'.pc \in {"compare", "write", "record", "state"} /\ slot'.gen = room'.gen
           => room'.items = slot'.blocks
  BY <1>1, <1>6, <1>7, <1>8 DEF Exported
<1> QED
  BY <1>1, <1>6, <1>9, <1>10, <1>11, NewTruth

LEMMA AdoptTruth ==
    ASSUME Sound, Origins, Truth, AgentAdopt, Adopted
    PROVE  Truth'
<1>1. /\ Loaded /\ sync' = sync /\ cache' = cache /\ kept' = kept /\ told' = told
      /\ told \in SUBSET Edit /\ room.gen \in Nat
  BY BusyLoaded DEF Adopted, AgentAdopt, docVars, Sound, TypeOK, GhostTypes, Rooms
<1>2. slot.pc = "adopt" /\ slot.blocks \subseteq kept
  <2>1. slot.pc = "adopt"
    BY DEF AgentAdopt
  <2> QED
    BY <2>1 DEF Origins, Origin
<1>3. room' # room
  BY <1>1 DEF Adopted
<1>4. /\ room.gone \cap Edit \subseteq wiped /\ told \subseteq room.items \cup wiped \cup kept
      /\ ~room.intent => told \subseteq wiped \cup kept
  BY <1>1 DEF Truth, Told
<1>5. CASE /\ slot'.pc = "store" /\ wiped' = wiped
           /\ room'.items = room.items \cup {slot.item}
           /\ room'.gone = room.gone /\ room'.intent = room.intent
           /\ slot'.state = StateOf(room', prov, FALSE)
  <2>1. slot'.state.gone = room'.gone /\ ~slot'.state.matches
    BY <1>5 DEF StateOf
  <2>2. \A st \in StoredSet' : st \in StoredSet \/ st = slot'.state
    BY <1>1, StoredSame
  <2>3. \A st \in StoredSet' : \/ st \in StoredSet
                               \/ /\ st.gone \cap Edit \subseteq wiped'
                                  /\ st.matches => st.items = st.head.items
    BY <1>4, <1>5, <2>1, <2>2
  <2> QED
    BY <1>1, <1>4, <1>5, <2>3, NewTruth
<1>6. CASE /\ room'.items = slot.blocks
           /\ room'.gone = (room.gone \cup room.items) \ slot.blocks
           /\ wiped' = wiped \cup ((room.items \ slot.blocks) \cap Edit)
           /\ \/ slot'.pc = "store" /\ prov.items = slot.blocks
              \/ slot'.pc = "release"
           /\ slot'.state = StateOf(room', prov, TRUE)
  <2>1. /\ slot'.state.gone = room'.gone /\ slot'.state.items = room'.items
        /\ slot'.state.head = prov
    BY <1>6 DEF StateOf
  <2>2. \A st \in StoredSet' : st \in StoredSet \/ (slot'.pc = "store" /\ st = slot'.state)
    BY <1>1, <1>6, StoredSame
  <2>3. room'.gone \cap Edit \subseteq wiped' /\ wiped \subseteq wiped'
        /\ told \subseteq wiped' \cup kept
    BY <1>1, <1>2, <1>4, <1>6
  <2>4. \A st \in StoredSet' : \/ st \in StoredSet
                               \/ /\ st.gone \cap Edit \subseteq wiped'
                                  /\ st.matches => st.items = st.head.items
    BY <1>6, <2>1, <2>2, <2>3
  <2> QED
    BY <1>1, <1>6, <2>3, <2>4, NewTruth
<1> QED
  BY <1>3, <1>5, <1>6, AdoptForm

LEMMA TruthStep ==
    ASSUME Sound, Origins, Truth, Next
    PROVE  Truth'
<1>1. CASE Quiet
  BY <1>1, QuietTruth
<1>2. CASE LoadImport
  BY <1>2, LoadTruth
<1>3. CASE \/ PersistStat /\ slot'.pc = "export"
           \/ PersistExport \/ PersistCompare \/ PersistSettle \/ PersistWrite
           \/ PersistRecord \/ PersistState \/ PersistLand
  BY <1>3, SavesTruth
<1>4. CASE \E w \in Syncer : SyncApply(w) /\ Replaces(w)
  BY <1>4, ReplaceTruth
<1>5. CASE \/ LoadRead \/ (\E x \in External : ExternalWrite(x)) \/ WatcherEvent
           \/ (\E a \in Agent : AgentCold(a)) \/ AgentHold
           \/ AgentCommit /\ slot'.pc = "adopt"
           \/ (\E w \in Syncer : SyncRead(w) /\ sync'[w].pc = "apply")
  BY <1>5, OutsideTruth
<1>6. CASE AgentAdopt /\ Adopted
  BY <1>6, AdoptTruth
<1> QED
  BY <1>1, <1>2, <1>3, <1>4, <1>5, <1>6, QuietStep

\* What clients signalled is in the room, taken out of it or in the document, and
\* a state stored as equal to the document is.
THEOREM RoomsTruth == Spec => []Truth
<1>1. Init => Truth
  <2> SUFFICES ASSUME Init PROVE Truth
    OBVIOUS
  <2>1. IdleSlot.pc = "idle" /\ IdleSync.pc = "idle"
    BY Blanks
  <2>2. ~Loaded /\ StoredSet = {}
    BY <2>1 DEF Init, Loaded, StoredSet
  <2> QED
    BY <2>2 DEF Truth, Told, Matched
<1>2. Truth /\ Base /\ [Next]_vars => Truth'
  <2> SUFFICES ASSUME Truth, Base, [Next]_vars PROVE Truth'
    OBVIOUS
  <2>1. CASE Next
    BY <2>1, TruthStep DEF Base
  <2>2. CASE UNCHANGED vars
    <3>1. StoredSet' = StoredSet /\ (Loaded' <=> Loaded)
      BY <2>2 DEF vars, docVars, roomVars, StoredSet, Loaded
    <3> QED
      BY <2>2, <3>1 DEF vars, roomVars, ghostVars, Truth, Told, Matched
  <2> QED
    BY <2>1, <2>2
<1> QED
  BY <1>1, <1>2, RoomsBase, PTL DEF Spec

\* persistDoc acknowledges an edit signal only when what it was told is in the
\* document, or was taken out of the room by a disk sync or an agent's write:
\* for every interleaving of saves, syncs, agent writes, moves and crashes.
THEOREM RoomsAcknowledgeKept == Spec => []AckMeansKept
<1>1. Truth => AckMeansKept
  BY DEF Truth, Told, AckMeansKept
<1> QED
  BY <1>1, RoomsTruth, PTL

\* A stored state that a cold load would take for the document's own content
\* shows exactly that content.
THEOREM RoomsCacheTrue == Spec => []CacheIsTrue
<1>1. Truth => CacheIsTrue
  BY DEF Truth, Matched, CacheIsTrue, StoredSet
<1> QED
  BY <1>1, RoomsTruth, PTL

-----------------------------------------------------------------------------
(* Waiting frames                                                          *)

\* What leaves the queues alone, and does not lift a pause.
Aside ==
    \/ LoadRead \/ Echo \/ (\E x \in External : ExternalWrite(x))
    \/ (\E a \in Agent : AgentCold(a) \/ AgentBegin(a))
    \/ PersistTimer \/ UnloadBegin \/ Save \/ PersistFails \/ WatcherEvent
    \/ (\E w \in Syncer : SyncRead(w) \/ SyncApply(w) \/ SyncCache(w) \/ SyncFails(w))
    \/ AgentCheck \/ AgentTyped \/ AgentCommit \/ AgentAdopt \/ AgentStore \/ AgentFails

Still == Loaded' => Loaded /\ room'.hold = room.hold /\ room'.key = room.key

LEMMA AsideStill ==
    ASSUME Sound, Aside
    PROVE  Still
<1>1. ASSUME room' = room PROVE Still
  BY <1>1 DEF Still, Loaded
<1>2. ASSUME Follows PROVE Still
  BY <1>2 DEF Still, Follows, Grows
<1>3. ASSUME Keeps PROVE Still
  BY <1>3 DEF Still, Keeps, Same
<1>4. ASSUME Stays PROVE Still
  BY <1>4 DEF Still, Stays, Alike, Loaded
<1>5. CASE LoadRead \/ Echo \/ (\E x \in External : ExternalWrite(x))
             \/ (\E a \in Agent : AgentCold(a))
  BY <1>1, <1>5, BesideForm DEF Beside
<1>6. CASE PersistTimer \/ UnloadBegin
  BY <1>1, <1>2, <1>6, RunSteps DEF Loaded
<1>7. CASE PersistStat \/ PersistExport \/ PersistFails
  BY <1>2, <1>7, StatForm, ExportForm, FailsForm
<1>8. CASE PersistCompare \/ PersistSettle \/ PersistRecord \/ PersistLand
  BY <1>3, <1>8, CompareForm, SettleForm, RecordForm, LandForm
<1>9. CASE PersistWrite \/ PersistState
  BY <1>1, <1>9, WriteForm, StateForm
<1>10. CASE WatcherEvent
  BY <1>4, <1>10, WatcherForm
<1>11. ASSUME NEW w \in Syncer, SyncRead(w) \/ SyncApply(w) \/ SyncCache(w) \/ SyncFails(w)
       PROVE  Still
  <2>1. ASSUME Replaces(w) PROVE Still
    BY <2>1 DEF Still, Replaces
  <2> QED
    BY <1>1, <1>4, <1>11, <2>1, ReadForm, ApplyForm, CacheForm
<1>12. CASE (\E a \in Agent : AgentBegin(a)) \/ AgentCheck \/ AgentTyped
  BY <1>1, <1>4, <1>12, BeginForm, CheckForm, TypedForm
<1>13. CASE AgentCommit \/ AgentFails \/ AgentStore
  BY <1>1, <1>13, CommitForm, GiveUpForm
<1>14. CASE AgentAdopt
  <2>1. ASSUME Adopted PROVE Still
    BY <2>1 DEF Still, Adopted
  <2> QED
    BY <1>1, <1>14, <2>1, AdoptForm
<1> QED
  BY <1>5, <1>6, <1>7, <1>8, <1>9, <1>10, <1>11, <1>12, <1>13, <1>14 DEF Aside, Save

LEMMA AsideForm ==
    ASSUME Aside
    PROVE  conn' = conn /\ queue' = queue /\ barrier' = barrier
<1>1. CASE LoadRead \/ Echo \/ (\E x \in External : ExternalWrite(x))
             \/ (\E a \in Agent : AgentCold(a) \/ AgentBegin(a)) \/ PersistTimer \/ UnloadBegin
  BY <1>1 DEF LoadRead, Echo, ExternalWrite, AgentCold, AgentBegin, PersistTimer, UnloadBegin,
     clientVars
<1>2. CASE Save \/ PersistFails \/ WatcherEvent
  BY <1>2 DEF Save, PersistStat, PersistExport, PersistCompare, PersistSettle, PersistWrite,
     PersistRecord, PersistState, PersistLand, PersistFails, WatcherEvent, clientVars
<1>3. CASE \E w \in Syncer : SyncRead(w) \/ SyncApply(w) \/ SyncCache(w) \/ SyncFails(w)
  BY <1>3 DEF SyncRead, SyncApply, SyncCache, SyncFails, clientVars
<1>4. CASE AgentCheck \/ AgentTyped \/ AgentCommit \/ AgentAdopt \/ AgentStore \/ AgentFails
  BY <1>4 DEF AgentCheck, AgentTyped, AgentCommit, AgentAdopt, AgentStore, AgentFails,
     clientVars
<1> QED
  BY <1>1, <1>2, <1>3, <1>4 DEF Aside

\* The sockets: frames wait only under a pause.
LEMMA SocketsStranded ==
    ASSUME Sound, NothingStranded, NEW c \in Client,
           \/ Attach(c) \/ Receive(c) \/ Drop(c) \/ Upgrade(c) \/ Connect(c)
           \/ \E e \in Edit : LocalEdit(c, e)
    PROVE  NothingStranded'
<1>1. /\ conn \in [Client -> {"off", "upgrade", "pending", "joining", "on", "orphan"}]
      /\ queue \in [Client -> Seq(Frames)] /\ (Loaded => room \in Rooms)
  BY BusyLoaded DEF Sound, TypeOK, ClientTypes
<1>2. ASSUME Detached(c, room), barrier' = barrier PROVE NothingStranded'
  <2>1. conn' = [conn EXCEPT ![c] = "off"] /\ queue' = [queue EXCEPT ![c] = <<>>]
    BY <1>2 DEF Detached
  <2>2. Loaded' => Loaded /\ room'.hold = room.hold
    <3>1. CASE Loaded
      <4>1. room' = [room EXCEPT !.clients = @ \ {c}, !.idle = @ \/ room.clients \subseteq {c}]
        BY <1>2, <3>1 DEF Detached, Loaded
      <4> QED
        BY <1>1, <3>1, <4>1 DEF Rooms
    <3>2. CASE ~Loaded
      BY <1>2, <3>2 DEF Detached, Loaded
    <3> QED
      BY <3>1, <3>2
  <2> QED
    BY <1>1, <1>2, <2>1, <2>2 DEF NothingStranded
<1>3. CASE Attach(c)
  <2>1. /\ Loaded /\ barrier' = barrier /\ conn' = [conn EXCEPT ![c] = "on"]
        /\ room'.hold = room.hold
    BY <1>3, AttachForm DEF Attach, Follows, Grows
  <2>2. ~Paused /\ ~room.hold => queue' = [queue EXCEPT ![c] = <<>>]
    <3> DEFINE r == [room EXCEPT !.clients = @ \cup {c}, !.idle = FALSE]
    <3>1. r \in Rooms /\ r.hold = room.hold
      BY <1>1, <2>1 DEF Rooms
    <3>2. queue' = [queue EXCEPT ![c] = Waiting(r, Paused, queue[c])]
      BY <1>3 DEF Attach
    <3>3. Paused \in BOOLEAN
      BY DEF Paused
    <3> HIDE DEF r
    <3>4. ~Paused /\ ~room.hold => Waiting(r, Paused, queue[c]) = <<>>
      BY <1>1, <3>1, <3>3, QueueForm
    <3> QED
      BY <3>2, <3>4
  <2> QED
    BY <1>1, <2>1, <2>2 DEF NothingStranded, Paused
<1>4. CASE Receive(c)
  <2>1. barrier' = barrier
    BY <1>4 DEF Receive
  <2>2. CASE conn' = conn /\ queue' = queue /\ ~Detached(c, room)
    <3>1. Loaded' => Loaded /\ room'.hold = room.hold
      BY <1>4, <2>2, ReceiveForm DEF Follows, Grows, Loaded
    <3> QED
      BY <2>1, <2>2, <3>1 DEF NothingStranded
  <2>3. CASE Detached(c, room)
    BY <1>2, <2>1, <2>3
  <2>4. ASSUME NEW f, f.early = FALSE, f.before = FALSE,
               ~(conn[c] = "on" /\ ~Held(room, Paused, f)),
               room' = room, conn' = conn, queue' = [queue EXCEPT ![c] = Append(@, f)]
        PROVE  NothingStranded'
    <3>1. conn[c] = "on" => Paused \/ room.hold
      BY <2>4 DEF Held
    <3> QED
      BY <1>1, <2>1, <2>4, <3>1 DEF NothingStranded, Paused, Loaded
  <2> DEFINE f == [body |-> Head(out[c]), early |-> FALSE, before |-> FALSE]
  <2>5. \/ conn' = conn /\ queue' = queue
        \/ Detached(c, room)
        \/ /\ ~(conn[c] = "on" /\ ~Held(room, Paused, f))
           /\ room' = room /\ conn' = conn /\ queue' = [queue EXCEPT ![c] = Append(@, f)]
    BY <1>4 DEF Receive
  <2>6. f.early = FALSE /\ f.before = FALSE
    OBVIOUS
  <2> HIDE DEF f
  <2> QED
    BY <2>2, <2>3, <2>4, <2>5, <2>6
<1>5. CASE Drop(c)
  BY <1>2, <1>5 DEF Drop
<1>6. CASE Upgrade(c) \/ Connect(c) \/ \E e \in Edit : LocalEdit(c, e)
  <2>1. room' = room /\ barrier' = barrier /\ queue' = queue
    BY <1>6 DEF Upgrade, Connect, LocalEdit, roomVars
  <2>2. \A d \in Client : conn'[d] = "on" => conn[d] = "on"
    BY <1>1, <1>6 DEF Upgrade, Connect, LocalEdit
  <2> QED
    BY <2>1, <2>2 DEF NothingStranded, Loaded
<1> QED
  BY <1>3, <1>4, <1>5, <1>6

LEMMA StrandedStep ==
    ASSUME Sound, NothingStranded, Next
    PROVE  NothingStranded'
<1>1. /\ conn \in [Client -> {"off", "upgrade", "pending", "joining", "on", "orphan"}]
      /\ queue \in [Client -> Seq(Frames)] /\ (Loaded => room \in Rooms)
  BY BusyLoaded DEF Sound, TypeOK, ClientTypes
<1>2. CASE \E c \in Client :
             \/ Attach(c) \/ Receive(c) \/ Drop(c) \/ Upgrade(c) \/ Connect(c)
             \/ \E e \in Edit : LocalEdit(c, e)
  BY <1>2, SocketsStranded
<1>3. CASE Aside
  BY <1>3, AsideStill, AsideForm DEF Still, NothingStranded
<1>4. CASE \/ (\E kind \in Barriers : BarrierBegin(kind)) \/ BarrierDrain \/ BarrierDrained
           \/ Captured \/ MoveFile \/ Rekey
  <2>1. barrier'.pc # "idle"
    <3>1. barrier \in [pc : {"idle", "settle", "drain", "hold", "rekey", "end"},
                       kind : {"none", "move", "capture"}]
      BY DEF Sound, TypeOK, WatchTypes
    <3> QED
      BY <1>4, <3>1 DEF BarrierBegin, BarrierDrain, BarrierDrained, Captured, MoveFile, Rekey
  <2> QED
    BY <2>1 DEF NothingStranded
<1>5. CASE LoadImport
  <2>1. ~Loaded
    BY <1>5, ImportForm
  <2>2. \A c \in Client : conn[c] # "on"
    BY <2>1 DEF Sound, Shape
  <2>3. \A c \in Client : conn'[c] # "on"
    BY <1>1, <1>5, <2>2 DEF LoadImport
  <2> QED
    BY <2>3 DEF NothingStranded
<1>6. CASE UnloadEnd
  <2>1. ~Loaded' \/ UNCHANGED <<room, conn, queue, barrier>>
    BY <1>6 DEF UnloadEnd, Destroyed, Loaded
  <2> QED
    BY <2>1 DEF NothingStranded, Loaded
<1>7. CASE BarrierEnd
  <2>1. CASE ~Loaded
    BY <1>7, <2>1 DEF BarrierEnd, NothingStranded, Loaded
  <2>2. CASE Loaded
    <3>1. room'.hold = room.hold
      BY <1>7, <2>2, BarrierEndForm DEF Follows
    <3>2. conn' = conn /\ queue' = StillQueued(room, FALSE)
      BY <1>7, <2>2 DEF BarrierEnd
    <3>3. ~room.hold => \A c \in Client : Waiting(room, FALSE, queue[c]) = <<>>
      BY <1>1, <2>2, QueueForm
    <3> QED
      BY <3>1, <3>2, <3>3 DEF StillQueued, NothingStranded
  <2> QED
    BY <2>1, <2>2
<1>8. CASE AgentHold
  BY <1>8, HoldForm DEF NothingStranded
<1>9. CASE AgentRelease
  <2> DEFINE r == [room EXCEPT !.hold = FALSE]
  <2>1. Loaded
    BY <1>9, BusyLoaded DEF AgentRelease, Busy
  <2>2. r \in Rooms /\ ~r.hold
    BY <1>1, <2>1 DEF Rooms
  <2>3. conn' = conn /\ queue' = StillQueued(r, Paused) /\ barrier' = barrier
    BY <1>9 DEF AgentRelease
  <2>4. Paused \in BOOLEAN
    BY DEF Paused
  <2> HIDE DEF r
  <2>5. ~Paused => \A c \in Client : Waiting(r, Paused, queue[c]) = <<>>
    BY <1>1, <2>2, <2>4, QueueForm
  <2> QED
    BY <2>3, <2>5 DEF StillQueued, NothingStranded, Paused
<1>10. CASE Crash
  BY <1>10 DEF Crash, NothingStranded, Loaded
<1> QED
  BY <1>2, <1>3, <1>4, <1>5, <1>6, <1>7, <1>8, <1>9, <1>10
     DEF Next, System, Environment, Aside, AgentStep, BarrierStep

\* Whatever was held back is replayed: when no barrier and no agent's commit is
\* under way, no frame of an attached client waits.
THEOREM RoomsStrandNothing == Spec => []NothingStranded
<1>1. Init => NothingStranded
  BY DEF Init, NothingStranded, Loaded
<1>2. NothingStranded /\ Base /\ [Next]_vars => NothingStranded'
  <2> SUFFICES ASSUME NothingStranded, Base, [Next]_vars PROVE NothingStranded'
    OBVIOUS
  <2>1. CASE Next
    BY <2>1, StrandedStep DEF Base
  <2>2. CASE UNCHANGED vars
    BY <2>2 DEF vars, roomVars, clientVars, NothingStranded, Loaded
  <2> QED
    BY <2>1, <2>2
<1> QED
  BY <1>1, <1>2, RoomsBase, PTL DEF Spec

-----------------------------------------------------------------------------
(* Paths, and what an agent's write has seen                               *)

\* The slot keeps the path of its agent's write, and has seen no more than before.
Tracks ==
  /\ slot'.task \in DOMAIN NextStage => slot.task \in DOMAIN NextStage /\ slot'.path = slot.path
  /\ slot'.pc = "sync" /\ slot'.task = "disk" =>
       /\ slot.pc = "sync" /\ slot.task = "disk" /\ sync'["slot"].key = sync["slot"].key
       /\ sync'["slot"].pc \in {"read", "apply"}
            => sync["slot"].pc \in {"read", "apply"} /\ sync'["slot"].token = sync["slot"].token
  /\ Refreshed(slot') => Refreshed(slot) \/ (slot.pc = "sync" /\ slot.task = "disk")

LEMMA SameTracks ==
    ASSUME slot' = slot, sync'["slot"] = sync["slot"]
    PROVE  Tracks
  BY DEF Tracks

LEMMA StageTracks ==
    ASSUME slot.pc \in Saving, slot'.pc \in Saving, slot'.task = slot.task,
           slot'.path = slot.path
    PROVE  Tracks
  BY DEF Tracks, Refreshed, Saving, Handing

LEMMA TurnedTracks ==
    ASSUME Sound, Turned(slot, slot'), Comes, slot.pc \in Saving \cup {"sync"}
    PROVE  Tracks
<1>1. /\ slot.pc \in Saving => slot.task \in {"persist", "replay", "typed"}
      /\ slot.pc = "sync" => slot.task \in {"persist", "replay"} \cup DOMAIN NextStage
  BY DEF Sound, Shape
<1>2. slot'.task \in DOMAIN NextStage => slot.task \in DOMAIN NextStage /\ slot'.path = slot.path
  BY Stages DEF Turned
<1>3. ~(slot'.pc = "sync" /\ slot'.task = "disk")
  BY Stages DEF Turned
<1>4. Refreshed(slot') => Refreshed(slot) \/ (slot.pc = "sync" /\ slot.task = "disk")
  <2>1. slot'.task = "typed" => slot.task = "typed"
    BY DEF Comes
  <2>2. slot'.pc \in {"typed", "hold"} => slot'.task = slot.task /\ slot.task \in {"disk", "typed"}
    BY Stages DEF Turned
  <2>3. slot'.pc \in {"typed", "hold"} /\ slot.task = "disk" => slot.pc = "sync"
    BY <1>1
  <2>4. slot.pc \notin Handing
    BY DEF Saving, Handing
  <2> QED
    BY <2>1, <2>2, <2>3, <2>4 DEF Refreshed
<1> QED
  BY <1>2, <1>3, <1>4 DEF Tracks

LEMMA RunsTracks ==
    ASSUME Runs
    PROVE  Tracks
<1>1. CASE slot' = slot /\ sync' = sync
  BY <1>1, SameTracks
<1>2. CASE slot'.task = "persist" /\ slot'.pc \in {"stat", "sync"}
  BY <1>2, Stages DEF Tracks, Refreshed
<1> QED
  BY <1>1, <1>2 DEF Runs

LEMMA SavesTracks ==
    ASSUME Sound, Save \/ PersistFails
    PROVE  Tracks
<1>1. slot.pc \in Saving
  BY DEF Save, PersistStat, PersistExport, PersistCompare, PersistSettle, PersistRecord,
     PersistState, PersistLand, PersistWrite, PersistFails, Saving
<1>2. ASSUME Returns PROVE Tracks
  BY <1>1, <1>2, TurnedTracks DEF Returns, Turns
<1>3. ASSUME Resyncs(room, slot.task) PROVE Tracks
  <2>1. slot.task \in {"persist", "replay", "typed"}
    BY <1>1 DEF Sound, Shape
  <2>2. slot'.pc = "sync" /\ slot'.task = slot.task /\ slot'.path = slot.path
    BY <1>3 DEF Resyncs, Carries
  <2> QED
    BY <1>1, <2>1, <2>2 DEF Tracks, Refreshed, Saving, Handing
<1>4. CASE PersistStat
  <2>1. \/ Returns \/ Resyncs(room, slot.task)
        \/ slot'.pc = "export" /\ slot'.task = slot.task /\ slot'.path = slot.path
    BY <1>4, StatForm
  <2> QED
    BY <1>1, <1>2, <1>3, <2>1, StageTracks DEF Saving
<1>5. CASE PersistExport
  BY <1>1, <1>5, ExportForm, StageTracks DEF Saving
<1>6. CASE PersistCompare
  <2>1. \/ Returns \/ Resyncs(room, slot.task)
        \/ /\ slot'.pc \in {"write", "settle"} /\ slot'.task = slot.task
           /\ slot'.path = slot.path
    BY <1>6, CompareForm DEF Carries
  <2> QED
    BY <1>1, <1>2, <1>3, <2>1, StageTracks DEF Saving
<1>7. CASE PersistSettle \/ PersistLand \/ PersistFails
  BY <1>2, <1>7, SettleForm, LandForm, FailsForm
<1>8. CASE PersistWrite \/ PersistRecord \/ PersistState
  BY <1>1, <1>8, WriteForm, RecordForm, StateForm, StageTracks DEF Saving
<1> QED
  BY <1>4, <1>5, <1>6, <1>7, <1>8 DEF Save

LEMMA EndedTracks ==
    ASSUME Sound, NEW w \in Syncer, sync[w].pc # "idle", Ended(w)
    PROVE  Tracks
<1>1. CASE w = "slot"
  BY <1>1, TurnedTracks DEF Ended
<1>2. CASE w = "watcher"
  BY <1>2, SameTracks DEF Ended
<1> QED
  BY <1>1, <1>2 DEF Syncer

LEMMA SyncsTracks ==
    ASSUME Sound, NEW w \in Syncer,
           SyncRead(w) \/ SyncApply(w) \/ SyncCache(w) \/ SyncFails(w)
    PROVE  Tracks
<1>1. sync[w].pc # "idle"
  BY DEF SyncRead, SyncApply, SyncCache, SyncFails
<1>2. CASE Ended(w)
  BY <1>1, <1>2, EndedTracks
<1>3. ASSUME slot' = slot, sync'[w].key = sync[w].key,
             sync'[w].pc \in {"read", "apply"}
               => sync[w].pc \in {"read", "apply"} /\ sync'[w].token = sync[w].token,
             \A v \in Syncer : v # w => sync'[v] = sync[v]
      PROVE  Tracks
  <2>1. CASE w = "slot"
    BY <1>3, <2>1 DEF Tracks
  <2>2. CASE w = "watcher"
    BY <1>3, <2>2, SameTracks DEF Syncer
  <2> QED
    BY <2>1, <2>2 DEF Syncer
<1>4. CASE SyncRead(w)
  BY <1>2, <1>3, <1>4, ReadForm DEF SyncRead
<1>5. CASE SyncApply(w)
  BY <1>2, <1>3, <1>5, ApplyForm
<1>6. CASE SyncCache(w) \/ SyncFails(w)
  BY <1>2, <1>6, CacheForm
<1> QED
  BY <1>4, <1>5, <1>6

LEMMA AgentsTracks ==
    ASSUME Sound, AgentTyped \/ AgentHold \/ AgentCommit \/ AgentFails \/ AgentAdopt
                    \/ AgentStore \/ AgentRelease
    PROVE  Tracks
<1>1. slot.task \in DOMAIN NextStage
  BY DEF AgentTyped, AgentHold, AgentCommit, AgentFails, AgentAdopt, AgentStore, AgentRelease,
     Sound, Shape, Handing
<1>2. ASSUME slot'.task = slot.task, slot'.path = slot.path, slot'.pc \in Handing
      PROVE  Tracks
  BY <1>1, <1>2 DEF Tracks, Refreshed, Handing
<1>3. CASE AgentTyped
  <2>1. slot.pc = "typed"
    BY <1>3 DEF AgentTyped
  <2>2. Refreshed(slot)
    BY <2>1 DEF Refreshed
  <2>3. CASE Turns(sync) /\ slot'.task = "typed" /\ slot'.pc \in {"stat", "sync"}
    BY <1>1, <2>2, <2>3, Stages DEF Tracks, Turns, Turned
  <2>4. CASE Advances("hold")
    BY <1>1, <2>2, <2>4 DEF Tracks, Advances, Carries
  <2> QED
    BY <1>3, <2>3, <2>4, TypedForm
<1>4. CASE AgentHold
  BY <1>2, <1>4, HoldForm DEF Handing
<1>5. CASE AgentCommit \/ AgentFails \/ AgentStore
  BY <1>2, <1>5, CommitForm, GiveUpForm DEF Handing, Advances, Carries
<1>6. CASE AgentAdopt
  <2>1. \/ slot'.pc \in {"store", "release"} /\ slot'.task = slot.task /\ slot'.path = slot.path
        \/ slot'.pc = "sync" /\ slot'.task = "follow" /\ slot'.path = slot.path
    BY <1>6, AdoptForm DEF Adopted, Resyncs, Carries
  <2> QED
    BY <1>1, <1>2, <2>1 DEF Tracks, Refreshed, Handing
<1>7. CASE AgentRelease
  BY <1>7, AgentReleaseForm, Stages DEF Tracks, Refreshed
<1> QED
  BY <1>3, <1>4, <1>5, <1>6, <1>7

LEMMA TracksStep ==
    ASSUME Sound, Next
    PROVE  Tracks \/ (\E a \in Agent : AgentBegin(a)) \/ AgentCheck
<1>1. CASE \/ Beside \/ LoadImport \/ BarrierEnd \/ Rekey \/ UnloadEnd
           \/ \E c \in Client : Attach(c) \/ Receive(c) \/ Drop(c)
  <2>1. ASSUME Beside PROVE slot' = slot /\ sync' = sync
    BY <2>1, BesideForm
  <2>2. ASSUME LoadImport \/ BarrierEnd \/ Rekey PROVE slot' = slot /\ sync' = sync
    BY <2>2 DEF LoadImport, BarrierEnd, Rekey
  <2>3. ASSUME \E c \in Client : Attach(c) \/ Receive(c) \/ Drop(c)
        PROVE  slot' = slot /\ sync' = sync
    BY <2>3 DEF Attach, Receive, Drop
  <2>4. ASSUME UnloadEnd PROVE slot' = slot /\ sync'["slot"] = sync["slot"]
    BY <2>4, BusyLoaded DEF UnloadEnd, Destroyed, Syncer
  <2> QED
    BY <1>1, <2>1, <2>2, <2>3, <2>4, SameTracks
<1>2. CASE PersistTimer \/ UnloadBegin \/ BarrierDrain
  <2>1. Runs
    BY <1>2, RunSteps DEF Runs
  <2> QED
    BY <2>1, RunsTracks
<1>3. CASE Crash
  BY <1>3, Blanks, Stages DEF Crash, Tracks, Refreshed
<1>4. CASE WatcherEvent
  BY <1>4, WatcherForm, SameTracks
<1> QED
  BY <1>1, <1>2, <1>3, <1>4, SavesTracks, SyncsTracks, AgentsTracks
     DEF Next, System, Environment, AgentStep, BarrierStep, Beside

\* A room keeps its key, but for the step that follows a move.
LEMMA KeyStep ==
    ASSUME Sound, Next, Loaded'
    PROVE  (Loaded /\ room'.key = room.key) \/ LoadImport \/ Rekey
<1>1. CASE Aside
  BY <1>1, AsideStill DEF Still
<1>2. ASSUME room' = room PROVE Loaded /\ room'.key = room.key
  BY <1>2 DEF Loaded
<1>3. ASSUME Follows PROVE Loaded /\ room'.key = room.key
  BY <1>3 DEF Follows, Grows
<1>4. CASE Beside
  BY <1>2, <1>4, BesideForm
<1>5. ASSUME NEW c \in Client, Attach(c) \/ Receive(c) \/ Drop(c)
      PROVE  Loaded /\ room'.key = room.key
  <2>1. CASE Attach(c)
    BY <1>3, <2>1, AttachForm
  <2>2. ASSUME Detached(c, room), told' = told PROVE Loaded /\ room'.key = room.key
    BY <1>2, <1>3, <2>2, DetachedForm DEF Loaded
  <2>3. CASE Receive(c)
    BY <1>2, <1>3, <2>2, <2>3, ReceiveForm
  <2>4. CASE Drop(c)
    BY <2>2, <2>4 DEF Drop
  <2> QED
    BY <1>5, <2>1, <2>3, <2>4
<1>6. CASE BarrierDrain \/ BarrierEnd
  BY <1>3, <1>6, RunSteps, BarrierEndForm DEF Loaded
<1>7. CASE UnloadEnd
  BY <1>2, <1>7 DEF UnloadEnd, Destroyed, Loaded
<1>8. CASE AgentHold
  BY <1>8, HoldForm DEF Copy
<1>9. CASE AgentRelease
  BY <1>9, AgentReleaseForm DEF Grows
<1>10. CASE Crash
  BY <1>10 DEF Crash, Loaded
<1> QED
  BY <1>1, <1>4, <1>5, <1>6, <1>7, <1>8, <1>9, <1>10
     DEF Next, System, Environment, AgentStep, BarrierStep, Beside, Aside

\* A document moves once the barrier holds, and the room follows.
LEMMA MoveSteps ==
    ASSUME Sound, Next
    PROVE  /\ file'.path = file.path \/ (MoveFile /\ file'.path = "new" /\ barrier'.pc = "rekey")
           /\ barrier.pc = "rekey" => barrier'.pc = "rekey" \/ Rekey \/ Crash
           /\ barrier'.pc = "rekey" => barrier.pc = "rekey" \/ MoveFile
<1>1. /\ barrier \in [pc : {"idle", "settle", "drain", "hold", "rekey", "end"},
                      kind : {"none", "move", "capture"}]
      /\ file \in [path : Place, items : Content, stamp : Nat]
  BY DEF Sound, TypeOK, WatchTypes, DocTypes
<1>2. CASE Aside
  <2>1. barrier' = barrier
    BY <1>2, AsideForm
  <2>2. file'.path = file.path
    <3>1. CASE PersistWrite \/ AgentCommit
      BY <3>1, WriteForm, CommitForm
    <3>2. CASE \E x \in External : ExternalWrite(x)
      BY <3>2, OutsideForm
    <3>3. CASE \E a \in Agent : AgentCold(a)
      BY <3>3, ColdForm
    <3>4. CASE PersistSettle \/ PersistRecord \/ PersistLand \/ AgentStore \/ WatcherEvent
                 \/ (\E w \in Syncer : SyncCache(w))
      BY <3>4 DEF PersistSettle, PersistRecord, PersistLand, AgentStore, WatcherEvent, SyncCache
    <3>5. CASE Undocumented
      BY <3>5, UndocumentedForm
    <3> QED
      BY <1>2, <3>1, <3>2, <3>3, <3>4, <3>5 DEF Aside, Undocumented, Save
  <2> QED
    BY <2>1, <2>2
<1>3. CASE MoveFile
  BY <1>1, <1>3, MoveForm DEF MoveFile
<1>4. CASE \/ LoadImport \/ UnloadEnd \/ AgentHold \/ AgentRelease
           \/ \E c \in Client : \/ Attach(c) \/ Receive(c) \/ Drop(c) \/ Upgrade(c) \/ Connect(c)
                                \/ \E e \in Edit : LocalEdit(c, e)
  <2>1. CASE LoadImport \/ UnloadEnd \/ AgentHold \/ AgentRelease
    BY <2>1 DEF LoadImport, UnloadEnd, AgentHold, AgentRelease, docVars
  <2>2. CASE \E c \in Client : \/ Attach(c) \/ Receive(c) \/ Drop(c) \/ Upgrade(c) \/ Connect(c)
                               \/ \E e \in Edit : LocalEdit(c, e)
    BY <2>2 DEF Attach, Receive, Drop, Upgrade, Connect, LocalEdit, docVars
  <2> QED
    BY <1>4, <2>1, <2>2
<1>5. CASE \/ (\E kind \in Barriers : BarrierBegin(kind)) \/ BarrierDrain \/ BarrierDrained
           \/ Captured \/ Rekey \/ BarrierEnd \/ Crash
  <2>1. file' = file
    BY <1>5 DEF BarrierBegin, BarrierDrain, BarrierDrained, Captured, Rekey, BarrierEnd, Crash,
       docVars
  <2>2. barrier'.pc # "rekey"
    <3>1. CASE \E kind \in Barriers : BarrierBegin(kind)
      BY <3>1 DEF BarrierBegin
    <3>2. CASE BarrierDrain \/ BarrierDrained \/ Captured \/ Rekey
      BY <1>1, <3>2 DEF BarrierDrain, BarrierDrained, Captured, Rekey
    <3>3. CASE BarrierEnd \/ Crash
      <4>1. barrier' = IdleBarrier
        BY <3>3 DEF BarrierEnd, Crash
      <4> QED
        BY <4>1 DEF IdleBarrier
    <3> QED
      BY <1>5, <3>1, <3>2, <3>3
  <2>3. barrier.pc = "rekey" => Rekey \/ Crash
    BY <1>5 DEF BarrierBegin, BarrierDrain, BarrierDrained, Captured, BarrierEnd
  <2> QED
    BY <2>1, <2>2, <2>3
<1> QED
  BY <1>2, <1>3, <1>4, <1>5 DEF Next, System, Environment, AgentStep, BarrierStep, Aside

LEMMA PathsStep ==
    ASSUME Sound, Paths, Next
    PROVE  Paths'
<1> USE DEF Paths
<1>1. /\ file.path \in Place /\ (Loaded => room.key \in Place)
      /\ slot.task \in DOMAIN NextStage => slot.path \in Place
  BY SlotTask, BusyLoaded DEF Rooms, Sound, Shape
<1>2. ASSUME LoadImport
      PROVE  /\ Loaded' /\ room'.key = file.path /\ file'.path = file.path
             /\ slot.task \notin DOMAIN NextStage
  <2>1. slot.pc = "idle"
    BY <1>2, ImportForm
  <2>2. slot.task \in {"none", "failed"}
    BY <2>1 DEF Sound, Shape
  <2> QED
    BY <1>2, <2>2, ImportForm, Stages DEF LoadImport
<1>3. ASSUME Rekey PROVE barrier.pc = "rekey" /\ file' = file /\ (Loaded' => room'.key = "new")
  BY <1>3, RekeyForm DEF Rekey, Loaded
<1>4. Loaded' /\ room'.key # file'.path => barrier'.pc = "rekey"
  <2>1. CASE LoadImport
    BY <1>2, <2>1
  <2>2. CASE Rekey
    BY <1>3, <2>2
  <2>3. ASSUME Loaded', Loaded, room'.key = room.key, room'.key # file'.path, ~Rekey
        PROVE  barrier'.pc = "rekey"
    <3>1. ~Crash
      BY <2>3 DEF Crash, Loaded
    <3> QED
      BY <2>3, <3>1, MoveSteps
  <2> QED
    BY <2>1, <2>2, <2>3, KeyStep
<1>5. barrier'.pc = "rekey" => file'.path = "new"
  BY MoveSteps, MoveForm
<1>6. ASSUME NEW a \in Agent, AgentBegin(a)
      PROVE  /\ Loaded /\ slot'.task = "required" /\ slot'.path = room.key
             /\ file'.path = file.path /\ (Loaded' => room'.key = room.key)
    BY <1>6, BeginForm DEF AgentBegin, docVars, Stays, Alike, Loaded
<1>7. ASSUME AgentCheck
      PROVE  /\ Loaded /\ room' = room /\ file' = file
             /\ slot.task \in DOMAIN NextStage /\ slot'.path = slot.path
             /\ slot'.pc = "sync" => /\ sync'["slot"].key = room.key
                                     /\ sync'["slot"].token = None
                                     /\ file.path = slot.path
  <2>1. slot.task \in DOMAIN NextStage
    BY <1>7 DEF AgentCheck, Sound, Shape
  <2> QED
    BY <1>7, <2>1, CheckForm DEF AgentCheck, docVars, Resyncs, Advances, Carries
<1>8. Loaded' /\ slot'.task \in DOMAIN NextStage /\ room'.key = "old" => slot'.path = "old"
  <2>1. CASE Tracks
    <3>1. ASSUME Loaded', slot'.task \in DOMAIN NextStage, room'.key = "old"
          PROVE  slot'.path = "old"
      <4>1. slot.task \in DOMAIN NextStage /\ slot'.path = slot.path
        BY <2>1, <3>1 DEF Tracks
      <4>2. Loaded /\ room'.key = room.key
        BY <1>2, <1>3, <3>1, <4>1, KeyStep
      <4> QED
        BY <3>1, <4>1, <4>2
    <3> QED
      BY <3>1
  <2>2. CASE \E a \in Agent : AgentBegin(a)
    BY <1>6, <2>2
  <2>3. CASE AgentCheck
    BY <1>7, <2>3
  <2> QED
    BY <2>1, <2>2, <2>3, TracksStep
<1>9. slot'.task \in DOMAIN NextStage /\ slot'.path = "new" => file'.path = "new"
  <2>1. CASE Tracks
    BY <2>1, MoveSteps DEF Tracks
  <2>2. CASE \E a \in Agent : AgentBegin(a)
    BY <1>6, <2>2
  <2>3. CASE AgentCheck
    BY <1>7, <2>3
  <2> QED
    BY <2>1, <2>2, <2>3, TracksStep
<1>10. slot'.pc = "sync" /\ slot'.task = "disk"
         => /\ sync'["slot"].key = slot'.path \/ file'.path # slot'.path
            /\ sync'["slot"].pc \in {"read", "apply"} => sync'["slot"].token = None
  <2>1. CASE Tracks
    <3>1. ASSUME slot'.pc = "sync", slot'.task = "disk"
          PROVE  /\ sync'["slot"].key = slot'.path \/ file'.path # slot'.path
                 /\ sync'["slot"].pc \in {"read", "apply"} => sync'["slot"].token = None
      <4>1. /\ slot.pc = "sync" /\ slot.task = "disk" /\ sync'["slot"].key = sync["slot"].key
            /\ sync'["slot"].pc \in {"read", "apply"}
                 => sync["slot"].pc \in {"read", "apply"}
                    /\ sync'["slot"].token = sync["slot"].token
            /\ slot'.path = slot.path /\ slot.task \in DOMAIN NextStage
        BY <2>1, <3>1, Stages DEF Tracks
      <4>2. CASE sync["slot"].key = slot.path
        BY <4>1, <4>2
      <4>3. CASE file.path # slot.path
        <5>1. file'.path # slot.path
          BY <1>1, <4>1, <4>3, MoveSteps DEF Place
        <5> QED
          BY <4>1, <5>1
      <4> QED
        BY <4>1, <4>2, <4>3
    <3> QED
      BY <3>1
  <2>2. CASE \E a \in Agent : AgentBegin(a)
    BY <1>6, <2>2
  <2>3. CASE AgentCheck
    BY <1>1, <1>7, <2>3 DEF Place
  <2> QED
    BY <2>1, <2>2, <2>3, TracksStep
<1> QED
  BY <1>4, <1>5, <1>8, <1>9, <1>10

-----------------------------------------------------------------------------
(* Times                                                                   *)

\* A stamp of the file only grows.
LEMMA StampGrows ==
    ASSUME Sound, Next
    PROVE  file.stamp \in Nat /\ file'.stamp \in Nat /\ file.stamp <= file'.stamp
<1>1. file.stamp \in Nat
  BY SlotTask
<1>2. CASE file' = file
  BY <1>1, <1>2
<1>3. CASE PersistWrite \/ AgentCommit
  <2>1. CASE PersistWrite
    BY <1>1, <2>1, WriteForm
  <2>2. CASE AgentCommit
    BY <1>1, <2>2, CommitForm
  <2> QED
    BY <1>3, <2>1, <2>2
<1>4. CASE \E x \in External : ExternalWrite(x)
  BY <1>1, <1>4, OutsideForm
<1>5. CASE \E a \in Agent : AgentCold(a)
  BY <1>1, <1>5, ColdForm
<1>6. CASE MoveFile
  BY <1>1, <1>6, MoveForm
<1>7. CASE \/ LoadImport \/ PersistSettle \/ PersistRecord \/ PersistLand
           \/ (\E w \in Syncer : SyncCache(w)) \/ WatcherEvent \/ AgentStore \/ Rekey \/ Crash
  BY <1>2, <1>7 DEF LoadImport, PersistSettle, PersistRecord, PersistLand, SyncCache,
     WatcherEvent, AgentStore, Rekey, Crash
<1> QED
  BY <1>2, <1>3, <1>4, <1>5, <1>6, <1>7, DocSteps, UndocumentedForm

\* A load reads the file in one step, and keeps what it read.
LEMMA LoadSteps ==
    ASSUME Sound, Next
    PROVE  /\ load'.pc = "import" => load' = load \/ LoadRead
           /\ load'.stamp \in {0, load.stamp, file.stamp}
<1>1. load \in [pc : {"idle", "read", "import"}, items : Content, stamp : Nat]
  BY DEF Sound, TypeOK, RoomTypes
<1>2. IdleLoad.pc = "idle" /\ IdleLoad.stamp = 0
  BY DEF IdleLoad
<1>3. CASE Aside \/ AgentHold \/ AgentRelease \/ BarrierEnd \/ BarrierDrain \/ UnloadEnd
  <2>1. ASSUME load' = load PROVE load'.stamp \in {0, load.stamp, file.stamp}
    BY <2>1
  <2>2. ASSUME LoadRead PROVE load'.stamp \in {0, load.stamp, file.stamp}
    BY <2>2 DEF LoadRead
  <2>3. load' = load \/ LoadRead
    <3>1. CASE LoadRead \/ Echo \/ (\E x \in External : ExternalWrite(x))
                 \/ (\E a \in Agent : AgentCold(a) \/ AgentBegin(a))
                 \/ PersistTimer \/ UnloadBegin
      BY <3>1 DEF Echo, ExternalWrite, AgentCold, AgentBegin, PersistTimer, UnloadBegin, roomVars
    <3>2. CASE Save \/ PersistFails \/ WatcherEvent
      BY <3>2 DEF Save, PersistStat, PersistExport, PersistCompare, PersistSettle, PersistWrite,
         PersistRecord, PersistState, PersistLand, PersistFails, WatcherEvent
    <3>3. CASE \E w \in Syncer : SyncRead(w) \/ SyncApply(w) \/ SyncCache(w) \/ SyncFails(w)
      BY <3>3 DEF SyncRead, SyncApply, SyncCache, SyncFails
    <3>4. CASE AgentCheck \/ AgentTyped \/ AgentCommit \/ AgentAdopt \/ AgentStore \/ AgentFails
      BY <3>4 DEF AgentCheck, AgentTyped, AgentCommit, AgentAdopt, AgentStore, AgentFails
    <3>5. CASE AgentHold \/ AgentRelease \/ BarrierEnd \/ BarrierDrain \/ UnloadEnd
      BY <3>5 DEF AgentHold, AgentRelease, BarrierEnd, BarrierDrain, UnloadEnd
    <3> QED
      BY <1>3, <3>1, <3>2, <3>3, <3>4, <3>5 DEF Aside
  <2> QED
    BY <2>1, <2>2, <2>3
<1>4. CASE \/ (\E kind \in Barriers : BarrierBegin(kind)) \/ BarrierDrained \/ Captured
           \/ MoveFile \/ Rekey
           \/ \E c \in Client : \/ Attach(c) \/ Receive(c) \/ Drop(c) \/ Upgrade(c)
                                \/ \E e \in Edit : LocalEdit(c, e)
  <2>1. CASE (\E kind \in Barriers : BarrierBegin(kind)) \/ BarrierDrained \/ Captured
               \/ MoveFile \/ Rekey
    BY <2>1 DEF BarrierBegin, BarrierDrained, Captured, MoveFile, Rekey, roomVars
  <2>2. CASE \E c \in Client : \/ Attach(c) \/ Receive(c) \/ Drop(c) \/ Upgrade(c)
                               \/ \E e \in Edit : LocalEdit(c, e)
    BY <2>2 DEF Attach, Receive, Drop, Upgrade, LocalEdit, roomVars
  <2> QED
    BY <1>4, <2>1, <2>2
<1>5. CASE \E c \in Client : Connect(c)
  <2>1. load' = load \/ load' = [load EXCEPT !.pc = "read"]
    BY <1>5 DEF Connect
  <2> QED
    BY <1>1, <2>1
<1>6. CASE LoadImport \/ Crash
  BY <1>2, <1>6 DEF LoadImport, Crash
<1> QED
  BY <1>3, <1>4, <1>5, <1>6 DEF Next, System, Environment, AgentStep, BarrierStep, Aside

LEMMA TimesBy ==
    ASSUME Sound, Next, Times, slot'.stat \in {0, slot.stat, file.stamp},
           Loaded' => \/ Loaded /\ room'.base = room.base
                      \/ room'.base \in {file.stamp, load.stamp, slot.stat},
           slot'.pc \in {"settle", "write"} => slot'.stat # 0
    PROVE  Times'
<1>1. file.stamp \in Nat /\ file'.stamp \in Nat /\ file.stamp <= file'.stamp
  BY StampGrows
<1>2. /\ slot.stat \in Nat /\ load.stamp \in Nat /\ (Loaded => room.base \in Nat)
  BY SlotTask, BusyLoaded DEF Rooms, Sound, TypeOK, RoomTypes
<1>3. /\ slot.stat <= file.stamp /\ load.stamp <= file.stamp
      /\ Loaded => room.base <= file.stamp
  BY DEF Times
<1>4. slot'.stat <= file'.stamp
  BY <1>1, <1>2, <1>3
<1>5. load'.stamp <= file'.stamp
  BY <1>1, <1>2, <1>3, LoadSteps
<1>6. Loaded' => room'.base <= file'.stamp
  <2>1. ASSUME Loaded', Loaded, room'.base = room.base PROVE room'.base <= file'.stamp
    BY <1>1, <1>2, <1>3, <2>1
  <2>2. ASSUME room'.base \in {file.stamp, load.stamp, slot.stat} PROVE room'.base <= file'.stamp
    BY <1>1, <1>2, <1>3, <2>2
  <2> QED
    BY <2>1, <2>2
<1> QED
  BY <1>4, <1>5, <1>6 DEF Times

LEMMA TimesStep ==
    ASSUME Sound, Times, Next
    PROVE  Times'
<1>1. ASSUME slot' = slot \/ Lays
      PROVE  /\ slot'.stat \in {0, slot.stat, file.stamp}
             /\ slot'.pc \in {"settle", "write"} => slot'.stat # 0
  BY <1>1 DEF Lays, Working, Times
<1>2. CASE Quiet
  <2>1. Loaded' => Loaded /\ room'.base = room.base
    BY <1>2 DEF Quiet, Grows, Rests
  <2> QED
    BY <1>1, <1>2, <2>1, TimesBy DEF Quiet
<1>3. CASE \/ LoadRead \/ LoadImport \/ (\E x \in External : ExternalWrite(x)) \/ WatcherEvent
           \/ (\E a \in Agent : AgentCold(a))
           \/ (\E w \in Syncer : SyncRead(w) /\ sync'[w].pc = "apply")
  <2>1. slot' = slot
    BY <1>3, ImportForm, OutsideForm, WatcherForm, ColdForm, ReadForm
       DEF LoadRead, Ended, Syncer
  <2>2. \/ room' = room \/ Stays
        \/ room'.base = load.stamp
    BY <1>3, ImportForm, OutsideForm, WatcherForm, ColdForm, ReadForm DEF LoadRead
  <2>3. Loaded' => \/ Loaded /\ room'.base = room.base
                   \/ room'.base \in {file.stamp, load.stamp, slot.stat}
    BY <2>2 DEF Stays, Alike, Loaded
  <2> QED
    BY <1>1, <2>1, <2>3, TimesBy
<1>4. ASSUME Save
      PROVE  /\ slot'.stat \in {0, slot.stat, file.stamp}
             /\ slot'.pc \in {"settle", "write"} => slot'.stat # 0
             /\ Loaded /\ room'.base \in {room.base, slot.stat}
  <2>1. slot.pc \in Saving /\ Loaded
    BY <1>4, BusyLoaded DEF Save, PersistStat, PersistExport, PersistCompare, PersistSettle,
       PersistRecord, PersistState, PersistLand, PersistWrite, Saving, Busy
  <2>2. ASSUME Returns \/ Resyncs(room, slot.task)
        PROVE  /\ slot'.stat \in {0, slot.stat, file.stamp}
               /\ slot'.pc \in {"settle", "write"} => slot'.stat # 0
    BY <1>1, <2>1, <2>2, ReturnsQuiet, ResyncsQuiet
  <2>3. CASE PersistStat
    BY <2>1, <2>2, <2>3, StatForm DEF Follows, Rests
  <2>4. CASE PersistExport
    BY <2>1, <2>4, ExportForm
  <2>5. CASE PersistCompare
    BY <2>1, <2>2, <2>5, CompareForm DEF Carries
  <2>6. CASE PersistSettle \/ PersistLand
    BY <2>1, <2>2, <2>6, SettleForm, LandForm
  <2>7. CASE PersistWrite \/ PersistRecord \/ PersistState
    BY <2>1, <2>7, WriteForm, RecordForm, StateForm
  <2> QED
    BY <1>4, <2>3, <2>4, <2>5, <2>6, <2>7 DEF Save
<1>5. CASE Save
  BY <1>4, <1>5, TimesBy
<1>6. ASSUME NEW w \in Syncer, SyncApply(w), Replaces(w) PROVE Times'
  <2>1. Ended(w) \/ slot' = slot
    BY <1>6, ApplyForm
  <2>2. slot' = slot \/ Lays
    BY <1>6, <2>1, EndedQuiet
  <2>3. room'.base = file.stamp
    BY <1>6 DEF Replaces
  <2> QED
    BY <1>1, <2>2, <2>3, TimesBy
<1>7. CASE AgentHold \/ (AgentCommit /\ slot'.pc = "adopt")
  <2>1. /\ slot'.stat = slot.stat /\ slot'.pc \in {"commit", "adopt"}
        /\ Loaded /\ room'.base = room.base
    BY <1>7, HoldForm, CommitForm DEF Copy, Advances
  <2> QED
    BY <2>1, TimesBy
<1>8. CASE AgentAdopt /\ Adopted
  <2>1. /\ slot'.stat = slot.stat /\ room'.base = file.stamp
        /\ slot'.pc \in {"store", "release", "sync"}
    BY <1>8, AdoptForm DEF Adopted, Resyncs
  <2> QED
    BY <2>1, TimesBy
<1> QED
  BY <1>2, <1>3, <1>5, <1>6, <1>7, <1>8, QuietStep DEF Save

-----------------------------------------------------------------------------
(* Reads that are still true                                               *)

LEMMA FreshStep ==
    ASSUME Sound, Fresh, Next, ~collided'
    PROVE  Fresh'
<1>1. CASE LoadRead
  BY <1>1 DEF LoadRead, docVars, Fresh
<1>2. ASSUME load' = load, load.pc = "import"
      PROVE  file'.items = file.items /\ file'.stamp = file.stamp
  <2>1. ~Loaded
    BY <1>2 DEF Sound, Shape
  <2>2. ~PersistWrite /\ ~AgentCommit
    BY <2>1, WriteForm, CommitForm
  <2>3. /\ \A x \in External : ~ExternalWrite(x)
        /\ \A a \in Agent : ~AgentCold(a)
    BY <1>2 DEF ExternalWrite, AgentCold
  <2>4. CASE MoveFile
    BY <2>4, MoveForm
  <2>5. CASE \/ LoadImport \/ PersistSettle \/ PersistRecord \/ PersistLand
             \/ (\E w \in Syncer : SyncCache(w)) \/ WatcherEvent \/ AgentStore \/ Rekey \/ Crash
    BY <2>5 DEF LoadImport, PersistSettle, PersistRecord, PersistLand, SyncCache,
       WatcherEvent, AgentStore, Rekey, Crash
  <2> QED
    BY <2>2, <2>3, <2>4, <2>5, DocSteps, UndocumentedForm
<1> QED
  BY <1>1, <1>2, LoadSteps DEF Fresh

\* An agent's sync of the disk ends with the room that it read, or was for nothing.
LEMMA DiskEnds ==
    ASSUME Sound, Next, slot.pc = "sync", slot.task = "disk", Refreshed(slot')
    PROVE  SyncRead("slot") \/ SyncApply("slot") \/ SyncCache("slot")
<1>1. ~Refreshed(slot) /\ slot.pc # "idle" /\ Busy
  BY DEF Refreshed, Busy
<1>2. ASSUME slot' = slot PROVE FALSE
  BY <1>1, <1>2
<1>3. CASE \/ Beside \/ LoadImport \/ BarrierEnd \/ Rekey \/ UnloadEnd
           \/ \E c \in Client : Attach(c) \/ Receive(c) \/ Drop(c)
  <2>1. ASSUME LoadImport \/ BarrierEnd \/ Rekey \/ UnloadEnd PROVE slot' = slot
    BY <2>1 DEF LoadImport, BarrierEnd, Rekey, UnloadEnd
  <2>2. ASSUME \E c \in Client : Attach(c) \/ Receive(c) \/ Drop(c) PROVE slot' = slot
    BY <2>2 DEF Attach, Receive, Drop
  <2> QED
    BY <1>2, <1>3, <2>1, <2>2, BesideForm
<1>4. CASE PersistTimer \/ UnloadBegin \/ BarrierDrain
  <2>1. slot' = slot
    BY <1>1, <1>4, RunSteps DEF Runs
  <2> QED
    BY <1>2, <2>1
<1>5. CASE Crash
  BY <1>5, Blanks DEF Crash, Refreshed
<1>6. CASE WatcherEvent
  BY <1>2, <1>6, WatcherForm
<1>7. CASE Save \/ PersistFails \/ AgentStep \/ AgentFails \/ (\E a \in Agent : AgentBegin(a))
  BY <1>1, <1>7 DEF Save, PersistStat, PersistExport, PersistCompare, PersistSettle,
     PersistRecord, PersistState, PersistLand, PersistWrite, PersistFails, AgentStep,
     AgentCheck, AgentTyped, AgentHold, AgentCommit, AgentFails, AgentAdopt, AgentStore,
     AgentRelease, AgentBegin
<1>8. ASSUME NEW w \in Syncer, SyncRead(w) \/ SyncApply(w) \/ SyncCache(w) \/ SyncFails(w)
      PROVE  SyncRead("slot") \/ SyncApply("slot") \/ SyncCache("slot")
  <2>1. CASE w = "watcher"
    <3>1. slot' = slot
      BY <1>8, <2>1, ReadForm, ApplyForm, CacheForm DEF Ended
    <3> QED
      BY <1>2, <3>1
  <2>2. CASE SyncFails("slot")
    <3>1. Fails
      BY <2>2, CacheForm DEF SyncFails, Syncer
    <3>2. Turned(slot, slot') /\ "disk" # "follow"
      BY <2>2, CacheForm DEF Ended, Syncer
    <3>3. slot'.task \notin DOMAIN NextStage
      BY <3>1, <3>2 DEF Fails
    <3>4. slot'.pc \in {"idle", "stat", "sync"} /\ slot'.task # "typed"
      BY <3>2, <3>3, Stages DEF Turned
    <3> QED
      BY <3>4 DEF Refreshed
  <2> QED
    BY <1>8, <2>1, <2>2 DEF Syncer
<1> QED
  BY <1>3, <1>4, <1>5, <1>6, <1>7, <1>8 DEF Next, System, Environment, BarrierStep, Beside

LEMMA DiskSeen ==
    ASSUME Sound, Paths, Standing, ~crossed', slot.pc = "sync", slot.task = "disk",
           file.path = slot.path, Loaded', slot' # slot,
           SyncRead("slot") \/ SyncApply("slot") \/ SyncCache("slot")
    PROVE  file'.items \subseteq room'.items
<1>1. /\ Loaded /\ file.path \in Place /\ room.key \in Place /\ "slot" \in Syncer
      /\ slot.task \in DOMAIN NextStage
  BY BusyLoaded, SlotTask, Stages DEF Busy, Rooms, Syncer
<1>2. sync["slot"].key = slot.path
  BY DEF Paths
<1>3. room.key = file.path
  BY <1>1 DEF Paths, Place
<1>4. file' = file
  BY DEF SyncRead, SyncApply, SyncCache, docVars
<1>5. CASE SyncRead("slot")
  BY <1>1, <1>2, <1>5, ReadForm
<1>6. CASE SyncApply("slot")
  <2>1. sync["slot"].token = None
    BY <1>6 DEF Paths, SyncApply
  <2>2. Replaces("slot")
    BY <1>1, <1>2, <1>3, <1>6, <2>1, ApplyForm
  <2> QED
    BY <1>4, <2>2 DEF Replaces
<1>7. CASE SyncCache("slot")
  <2>1. Stays
    BY <1>1, <1>7, CacheForm
  <2>2. file.items \subseteq room.items
    BY <1>7 DEF Standing, SyncCache
  <2> QED
    BY <1>1, <1>4, <2>1, <2>2 DEF Stays, Alike
<1> QED
  BY <1>5, <1>6, <1>7

\* What an agent's write has seen of the file stays in the room until it holds.
LEMMA SeenKept ==
    ASSUME Sound, Standing, Next, ~collided', ~crossed', Loaded, Loaded', Refreshed(slot),
           Refreshed(slot'), file.items \subseteq room.items
    PROVE  file'.items \subseteq room'.items
<1>1. Busy /\ slot.pc # "idle"
  <2>1. slot.pc # "idle"
    BY DEF Refreshed, Sound, Shape
  <2> QED
    BY <2>1 DEF Busy
<1>2. slot'.pc \notin Handing
  BY DEF Refreshed, Handing
<1>3. ASSUME file'.items = file.items, room.items \subseteq room'.items
      PROVE  file'.items \subseteq room'.items
  BY <1>3
<1>4. CASE Quiet
  BY <1>3, <1>4 DEF Quiet, Undisturbed, Grows
<1>5. CASE LoadRead \/ (\E w \in Syncer : SyncRead(w) /\ sync'[w].pc = "apply")
  <2>1. file' = file
    BY <1>5 DEF LoadRead, SyncRead, docVars
  <2>2. CASE LoadRead
    BY <1>3, <2>1, <2>2 DEF LoadRead
  <2>3. ASSUME NEW w \in Syncer, SyncRead(w), sync'[w].pc = "apply" PROVE room' = room
    BY <2>3, ReadForm DEF Ended, Syncer
  <2> QED
    BY <1>3, <1>5, <2>1, <2>2, <2>3
<1>6. CASE LoadImport
  BY <1>6, ImportForm
<1>7. CASE PersistWrite
  <2>1. slot.blocks \subseteq room.items
    BY <1>7 DEF Standing, Covered, PersistWrite
  <2> QED
    BY <1>7, <2>1, WriteForm
<1>8. CASE PersistStat \/ PersistExport \/ PersistState
  <2>1. file' = file
    BY <1>8 DEF PersistStat, PersistExport, PersistState, docVars
  <2>2. room.items \subseteq room'.items
    BY <1>8, StatForm, ExportForm, StateForm DEF Follows, Grows
  <2> QED
    BY <1>3, <2>1, <2>2
<1>9. CASE PersistCompare \/ PersistSettle \/ PersistRecord \/ PersistLand
  <2>1. file' = file
    BY <1>9 DEF PersistCompare, PersistSettle, PersistRecord, PersistLand, docVars
  <2>2. room'.items = room.items
    BY <1>9, CompareForm, SettleForm, RecordForm, LandForm DEF Keeps, Same
  <2> QED
    BY <1>3, <2>1, <2>2
<1>10. CASE \E w \in Syncer : SyncApply(w) /\ Replaces(w)
  BY <1>10 DEF SyncApply, Replaces, docVars
<1>11. CASE \E x \in External : ExternalWrite(x)
  BY <1>1, <1>11 DEF ExternalWrite
<1>12. CASE WatcherEvent
  <2>1. file' = file
    BY <1>12 DEF WatcherEvent
  <2>2. room'.items = room.items
    BY <1>12, WatcherForm DEF Stays, Alike
  <2> QED
    BY <1>3, <2>1, <2>2
<1>13. CASE \E a \in Agent : AgentCold(a)
  BY <1>13, ColdForm
<1>14. CASE AgentHold \/ (AgentCommit /\ slot'.pc = "adopt") \/ (AgentAdopt /\ Adopted)
  <2>1. slot'.pc \in Handing \/ slot'.task = "follow"
    BY <1>14, HoldForm, AdoptForm DEF Handing, Resyncs
  <2>2. slot'.pc \in {"commit", "adopt", "store", "release", "sync"}
    BY <1>14, HoldForm, AdoptForm DEF Resyncs
  <2> QED
    BY <1>2, <2>1, <2>2 DEF Refreshed
<1> QED
  BY <1>4, <1>5, <1>6, <1>7, <1>8, <1>9, <1>10, <1>11, <1>12, <1>13, <1>14, QuietStep

LEMMA SeenStep ==
    ASSUME Sound, Sound', Paths, Standing, Seen, Next, ~collided', ~crossed'
    PROVE  Seen'
<1> SUFFICES ASSUME Loaded', Refreshed(slot'), file'.path = slot'.path
             PROVE  file'.items \subseteq room'.items
  BY DEF Seen
<1>1. CASE \E a \in Agent : AgentBegin(a)
  BY <1>1, BeginForm DEF Refreshed
<1>2. CASE AgentCheck
  <2>1. /\ Loaded /\ room' = room /\ file' = file
    BY <1>2, CheckForm DEF AgentCheck, docVars
  <2>2. slot'.path = slot.path /\ file.items = room.hash
    BY <1>2, <2>1, CheckForm DEF Resyncs, Advances, Carries, Refreshed
  <2> QED
    BY <2>1, <2>2 DEF Standing
<1>3. CASE Tracks
  <2>1. slot'.task \in DOMAIN NextStage
    BY Stages DEF Refreshed, Sound, Shape
  <2>2. slot.task \in DOMAIN NextStage /\ slot'.path = slot.path
    BY <1>3, <2>1 DEF Tracks
  <2>3. file.path = slot.path
    BY <2>2, MoveSteps DEF Paths
  <2>4. slot.pc # "idle"
    BY <2>2, Stages DEF Sound, Shape
  <2>5. Loaded
    BY <2>4, BusyLoaded DEF Busy
  <2>6. CASE Refreshed(slot)
    BY <2>3, <2>5, <2>6, SeenKept DEF Seen
  <2>7. CASE ~Refreshed(slot)
    <3>1. slot.pc = "sync" /\ slot.task = "disk"
      BY <1>3, <2>7 DEF Tracks
    <3>2. slot' # slot
      BY <2>7
    <3> QED
      BY <2>3, <3>1, <3>2, DiskEnds, DiskSeen
  <2> QED
    BY <2>6, <2>7
<1> QED
  BY <1>1, <1>2, <1>3, TracksStep

-----------------------------------------------------------------------------
(* What the file was given stays                                           *)

\* A collision or a crossing is not forgotten.
LEMMA Marks ==
    ASSUME Next
    PROVE  (collided => collided') /\ (crossed => crossed')
<1>1. CASE Unnoted
  BY <1>1, UnnotedForm DEF ghostVars
<1>2. ASSUME NEW c \in Client, Attach(c) \/ Receive(c) \/ Drop(c)
      PROVE  collided' = collided /\ crossed' = crossed
  BY <1>2 DEF Attach, Receive, Drop
<1>3. CASE LoadImport \/ PersistWrite \/ PersistFails \/ AgentCommit \/ AgentAdopt \/ AgentRelease
  <2>1. ASSUME LoadImport PROVE collided' = collided /\ crossed' = crossed
    BY <2>1 DEF LoadImport
  <2>2. ASSUME PersistWrite PROVE collided' = collided /\ crossed' = crossed
    BY <2>2 DEF PersistWrite
  <2>3. ASSUME PersistFails PROVE collided' = collided /\ crossed' = crossed
    BY <2>3 DEF PersistFails
  <2>4. ASSUME AgentCommit PROVE collided' = collided /\ crossed' = crossed
    BY <2>4 DEF AgentCommit
  <2>5. ASSUME AgentAdopt PROVE collided' = collided /\ crossed' = crossed
    BY <2>5 DEF AgentAdopt
  <2>6. ASSUME AgentRelease PROVE collided' = collided /\ crossed' = crossed
    BY <2>6 DEF AgentRelease
  <2> QED
    BY <1>3, <2>1, <2>2, <2>3, <2>4, <2>5, <2>6
<1>4. CASE PersistStat
  <2>1. crossed' = crossed
    BY <1>4 DEF PersistStat
  <2>2. collided => collided'
    BY <1>4, Zenon DEF PersistStat
  <2> QED
    BY <2>1, <2>2
<1>5. ASSUME NEW w \in Syncer, SyncApply(w) \/ SyncFails(w)
      PROVE  (collided => collided') /\ (crossed => crossed')
  <2>1. collided' = collided
    BY <1>5 DEF SyncApply, SyncFails
  <2>2. ASSUME SyncFails(w) PROVE crossed' = crossed
    BY <2>2 DEF SyncFails
  <2>3. ASSUME SyncApply(w) PROVE crossed => crossed'
    BY <2>3, Zenon DEF SyncApply
  <2> QED
    BY <1>5, <2>1, <2>2, <2>3
<1>6. CASE (\E x \in External : ExternalWrite(x)) \/ (\E a \in Agent : AgentCold(a))
  <2>1. ASSUME NEW x \in External, ExternalWrite(x)
        PROVE  (collided => collided') /\ crossed' = crossed
    BY <2>1, Zenon DEF ExternalWrite
  <2>2. ASSUME NEW a \in Agent, AgentCold(a)
        PROVE  (collided => collided') /\ crossed' = crossed
    BY <2>2, Zenon DEF AgentCold
  <2> QED
    BY <1>6, <2>1, <2>2, Zenon
<1>7. CASE (\E kind \in Barriers : BarrierBegin(kind)) \/ BarrierEnd \/ UnloadEnd \/ Crash
  <2>1. ASSUME NEW kind \in Barriers, BarrierBegin(kind)
        PROVE  collided' = collided /\ crossed' = crossed
    BY <2>1 DEF BarrierBegin
  <2>2. ASSUME BarrierEnd PROVE collided' = collided /\ crossed' = crossed
    BY <2>2 DEF BarrierEnd
  <2>3. ASSUME UnloadEnd PROVE collided' = collided /\ crossed' = crossed
    BY <2>3 DEF UnloadEnd
  <2>4. ASSUME Crash PROVE collided' = collided /\ crossed' = crossed
    BY <2>4 DEF Crash
  <2> QED
    BY <1>7, <2>1, <2>2, <2>3, <2>4
<1> QED
  BY <1>1, <1>2, <1>3, <1>4, <1>5, <1>6, <1>7, NotedSteps

LEMMA CoveredSame ==
    ASSUME NEW s, NEW i, NEW f, NEW j, NEW g, Covered(s, i, f), i \subseteq j,
           g.items = f.items, s.pc = "commit" /\ g.path = s.path => f.path = s.path
    PROVE  Covered(s, j, g)
  BY DEF Covered

LEMMA CoveredIdle ==
    ASSUME NEW s, NEW i, NEW f,
           s.pc \notin {"export", "compare", "settle", "write", "record", "state", "land",
                        "commit", "adopt"}
    PROVE  Covered(s, i, f)
  BY DEF Covered

\* A step on a file that stays as it is.
LEMMA StandingBy ==
    ASSUME Sound', Standing, kept' = kept, file'.items = file.items,
           file'.stamp = file.stamp,
           \A st \in StoredSet' : st \in StoredSet \/ st.head.items \subseteq st.items,
           sync'["slot"].pc = "cache" /\ Loaded'
             => sync["slot"].pc = "cache" \/ file.items \subseteq room'.items,
           Loaded' => /\ Loaded
                      /\ room.items \subseteq room'.items \/ file.items \subseteq room'.items
                      /\ room'.hash \subseteq room'.items
                      /\ \/ room'.base = room.base
                         \/ file.items \subseteq room'.items
                      /\ Covered(slot', room'.items, file')
    PROVE  Standing'
<1>1. \A st \in StoredSet' : st.head.items \subseteq st.items
  BY DEF Standing
<1>2. sync'["slot"].pc = "cache" => Loaded'
  BY DEF Sound, TypeOK, RoomFits, Busy
<1>3. sync'["slot"].pc = "cache" => file'.items \subseteq room'.items
  BY <1>2 DEF Standing
<1>4. Loaded' /\ file'.stamp <= room'.base => file'.items \subseteq room'.items
  BY DEF Standing
<1> QED
  BY <1>1, <1>3, <1>4 DEF Standing

LEMMA QuietStanding ==
    ASSUME Sound, Sound', Paths, Standing, Next, Quiet
    PROVE  Standing'
<1>1. /\ kept' = kept /\ file'.items = file.items /\ file'.stamp = file.stamp
  BY DEF Quiet, Undisturbed
<1>2. StoredSet' \subseteq StoredSet
  BY QuietStored
<1>3. sync'["slot"].pc = "cache" => sync["slot"].pc = "cache"
  BY DEF Quiet, Unread, Syncer
<1>4. ASSUME Loaded'
      PROVE  Loaded /\ room.items \subseteq room'.items /\ room'.base = room.base
             /\ room'.hash = room.hash
  BY <1>4 DEF Quiet, Grows, Rests
<1>5. ASSUME Loaded' PROVE Covered(slot', room'.items, file')
  <2>1. CASE slot' = slot
    <3>1. slot.pc = "commit" /\ file'.path = slot.path => file.path = slot.path
      <4>1. slot.pc = "commit" => slot.task \in DOMAIN NextStage
        BY DEF Sound, Shape, Handing
      <4> QED
        BY <4>1, MoveSteps DEF Paths
    <3>2. Covered(slot, room.items, file)
      BY <1>4, <1>5 DEF Standing
    <3> QED
      BY <1>1, <1>4, <1>5, <2>1, <3>1, <3>2, CoveredSame
  <2>2. CASE Lays
    BY <2>2, CoveredIdle DEF Lays, Working
  <2> QED
    BY <2>1, <2>2 DEF Quiet
<1>6. Loaded' => room'.hash \subseteq room'.items
  BY <1>4 DEF Standing
<1> QED
  BY <1>1, <1>2, <1>3, <1>4, <1>5, <1>6, StandingBy

LEMMA LoadsStanding ==
    ASSUME Sound, Sound', Standing, Fresh, LoadRead \/ LoadImport
    PROVE  Standing'
<1>1. kept' = kept /\ file' = file /\ sync' = sync /\ slot' = slot
  BY DEF LoadRead, LoadImport, docVars, ghostVars
<1>2. ~Loaded
  BY ImportForm DEF LoadRead, Sound, Shape
<1>3. slot.pc = "idle" /\ sync["slot"].pc = "idle"
  BY <1>2, BusyLoaded DEF Busy
<1>4. CASE LoadRead
  <2>1. StoredSet' \subseteq StoredSet
    BY <1>1, <1>4 DEF LoadRead, docVars, StoredSet
  <2>2. ~Loaded'
    BY <1>2, <1>4 DEF LoadRead, Loaded
  <2> QED
    BY <1>1, <1>3, <2>1, <2>2, StandingBy
<1>5. CASE LoadImport
  <2>1. load.items = file.items
    BY <1>5 DEF Fresh, LoadImport
  <2>2. /\ room'.hash = file.items
        /\ \/ /\ cache # None /\ cache' = cache /\ cache.head.items = file.items
              /\ room'.items = cache.items
           \/ /\ room'.items = file.items
              /\ cache' = None \/ (cache'.items = file.items /\ cache'.head.items = file.items)
    BY <1>5, <2>1, ImportForm DEF StateOf
  <2>3. cache # None => cache.head.items \subseteq cache.items
    BY DEF Standing, StoredSet
  <2>4. file.items \subseteq room'.items
    BY <2>2, <2>3
  <2>5. ASSUME NEW st \in StoredSet' PROVE st \in StoredSet \/ (st = cache' /\ cache' # None)
    <3>1. ASSUME NEW v \in Syncer, sync[v].pc = "cache", st = sync[v].state
          PROVE  st \in StoredSet
      BY <3>1 DEF StoredSet
    <3> QED
      BY <1>1, <1>3, <3>1, StoredFrom DEF Syncer
  <2>6. \A st \in StoredSet' : st.head.items \subseteq st.items
    <3> SUFFICES ASSUME NEW st \in StoredSet' PROVE st.head.items \subseteq st.items
      OBVIOUS
    <3>1. CASE st \in StoredSet
      BY <3>1 DEF Standing
    <3>2. CASE st = cache' /\ cache' # None
      BY <2>2, <2>3, <3>2
    <3> QED
      BY <2>5, <3>1, <3>2
  <2>7. Covered(slot', room'.items, file')
    BY <1>1, <1>3, CoveredIdle
  <2> QED
    BY <1>1, <1>3, <2>2, <2>4, <2>6, <2>7 DEF Standing
<1> QED
  BY <1>4, <1>5

\* A save that goes on, or ends, without writing.
LEMMA SaveStanding ==
    ASSUME Sound, Sound', Standing, Loaded, slot.pc \in Saving, kept' = kept, file' = file,
           sync' = sync \/ Unread,
           \A st \in StoredSet' : st \in StoredSet \/ st.head.items \subseteq st.items,
           room.items \subseteq room'.items, room'.hash \subseteq room'.items,
           room'.base = room.base \/ file.items \subseteq room'.items,
           slot'.pc \notin Working \/ Covered(slot', room'.items, file')
    PROVE  Standing'
<1>1. sync'["slot"].pc = "cache" => sync["slot"].pc = "cache"
  BY DEF Unread, Syncer
<1>2. Covered(slot', room'.items, file')
  BY CoveredIdle DEF Working
<1> QED
  BY <1>1, <1>2, StandingBy

LEMMA StatStanding ==
    ASSUME Sound, Sound', Standing, ~collided', PersistStat, slot'.pc = "export"
    PROVE  Standing'
<1>1. /\ Follows /\ sync' = sync
      /\ slot'.stat # 0 => file.stamp <= room.base
  BY StatForm DEF Resyncs, Returns, Turns, Turned, NextStage
<1>2. /\ Loaded /\ room.items \subseteq room'.items /\ room'.hash = room.hash
      /\ room'.base = room.base
  BY <1>1 DEF Follows, Grows, Rests
<1>3. /\ kept' = kept /\ file' = file /\ cache' = cache /\ slot.pc \in Saving
  BY DEF PersistStat, docVars, Saving
<1>4. StoredSet' \subseteq StoredSet
  BY <1>1, <1>3, StoredSame
<1>5. Covered(slot', room'.items, file')
  BY <1>1, <1>2, <1>3 DEF Covered, Standing
<1>6. room'.hash \subseteq room'.items
  BY <1>2 DEF Standing
<1> QED
  BY <1>1, <1>2, <1>3, <1>4, <1>5, <1>6, SaveStanding

LEMMA ExportStanding ==
    ASSUME Sound, Sound', Origins, Standing, PersistExport
    PROVE  Standing'
<1>1. /\ Loaded /\ sync' = sync /\ room' = room /\ slot'.pc = "compare"
      /\ slot'.blocks = room.items /\ slot'.prov = prov /\ slot'.stat = slot.stat
  BY ExportForm DEF Follows, Grows
<1>2. /\ kept' = kept /\ file' = file /\ cache' = cache /\ slot.pc = "export"
  BY DEF PersistExport, docVars, ghostVars
<1>3. StoredSet' \subseteq StoredSet
  BY <1>1, <1>2, StoredSame
<1>4. Covered(slot, room.items, file) /\ room.hash \subseteq room.items
  BY <1>1 DEF Standing
<1>5. prov.items \subseteq file.items
  BY DEF Origins, Origin, Standing
<1>6. Covered(slot', room'.items, file')
  BY <1>1, <1>2, <1>4, <1>5 DEF Covered
<1> QED
  BY <1>1, <1>2, <1>3, <1>4, <1>6, SaveStanding DEF Saving

LEMMA CompareStanding ==
    ASSUME Sound, Sound', Standing, PersistCompare
    PROVE  Standing'
<1>1. /\ Keeps /\ room'.base = room.base /\ room'.hash = room.hash
  BY CompareForm
<1>2. /\ Loaded /\ room'.items = room.items
  BY <1>1 DEF Keeps, Same
<1>3. /\ kept' = kept /\ file' = file /\ cache' = cache /\ slot.pc = "compare"
      /\ slot.pc \in Saving
  BY DEF PersistCompare, docVars, ghostVars, Saving
<1>4. Covered(slot, room.items, file) /\ room.hash \subseteq room.items
  BY <1>2 DEF Standing
<1>5. CASE Returns \/ Resyncs(room, slot.task)
  <2>1. Lays /\ Unread
    BY <1>3, <1>5, ReturnsQuiet, ResyncsQuiet
  <2>2. StoredSet' \subseteq StoredSet
    BY <1>3, <2>1, LaysStored DEF StoredSet
  <2>3. slot'.pc \notin Working
    BY <2>1 DEF Lays
  <2> QED
    BY <1>1, <1>2, <1>3, <1>4, <2>1, <2>2, <2>3, SaveStanding
<1>6. CASE sync' = sync /\ slot'.pc = "write" /\ Carries(slot, slot')
  <2>1. StoredSet' \subseteq StoredSet
    BY <1>3, <1>6, StoredSame
  <2>2. slot'.blocks = slot.blocks /\ slot'.stat = slot.stat
    BY <1>6 DEF Carries
  <2>3. Covered(slot', room'.items, file')
    BY <1>2, <1>3, <1>4, <1>6, <2>2 DEF Covered
  <2> QED
    BY <1>1, <1>2, <1>3, <1>4, <1>6, <2>1, <2>3, SaveStanding
<1>7. CASE /\ sync' = sync /\ slot'.pc = "settle" /\ slot'.stat = slot.stat
           /\ slot.stat # 0
           /\ slot'.state = StateOf(room, slot.prov,
                room.gen = slot.gen /\ slot.prov.items = slot.blocks)
  <2>1. file.items \subseteq room.items /\ slot.prov.items \subseteq file.items
    BY <1>3, <1>4, <1>7 DEF Covered
  <2>2. slot'.state.items = room.items /\ slot'.state.head = slot.prov
    BY <1>7 DEF StateOf
  <2>3. slot'.state.head.items \subseteq slot'.state.items
    BY <2>1, <2>2
  <2>4. \A st \in StoredSet' : st \in StoredSet \/ st.head.items \subseteq st.items
    BY <1>3, <1>7, <2>3, StoredSame
  <2>5. Covered(slot', room'.items, file')
    BY <1>2, <1>3, <1>7, <2>1 DEF Covered
  <2> QED
    BY <1>1, <1>2, <1>3, <1>4, <1>7, <2>4, <2>5, SaveStanding
<1> QED
  BY <1>5, <1>6, <1>7, CompareForm

LEMMA EndsStanding ==
    ASSUME Sound, Sound', Origins, Times, Standing, PersistSettle \/ PersistLand
    PROVE  Standing'
<1>1. Keeps /\ Returns
  BY SettleForm, LandForm
<1>2. /\ Loaded /\ room'.items = room.items
  BY <1>1 DEF Keeps, Same
<1>3. /\ kept' = kept /\ file' = file /\ slot.pc \in {"settle", "land"}
      /\ slot.pc \in Saving
  BY DEF PersistSettle, PersistLand, docVars, ghostVars, Saving
<1>4. Covered(slot, room.items, file) /\ room.hash \subseteq room.items
  BY <1>2 DEF Standing
<1>5. file.items \subseteq room.items
  BY <1>3, <1>4 DEF Covered, Times
<1>6. room'.hash \subseteq room'.items
  <2>1. CASE PersistSettle
    <3>1. slot.blocks \subseteq kept
      BY <2>1 DEF PersistSettle, Origins, Origin
    <3> QED
      BY <1>2, <1>5, <2>1, <3>1, SettleForm DEF Standing
  <2>2. CASE PersistLand
    BY <1>2, <1>4, <2>2, LandForm
  <2> QED
    BY <2>1, <2>2
<1>7. Lays /\ Unread /\ (cache' = None \/ cache' \in StoredSet)
  BY <1>1, <1>3, ReturnsQuiet, RestoresForm
<1>8. StoredSet' \subseteq StoredSet
  BY <1>7, LaysStored
<1>9. slot'.pc \notin Working
  BY <1>7 DEF Lays
<1> QED
  BY <1>2, <1>3, <1>5, <1>6, <1>7, <1>8, <1>9, SaveStanding

LEMMA WriteStanding ==
    ASSUME Sound, Sound', Times, Standing, PersistWrite
    PROVE  Standing'
<1>1. /\ Loaded /\ room' = room /\ sync' = sync /\ slot'.pc = "record"
      /\ kept' = kept \cup slot.blocks /\ file'.items = slot.blocks
  BY WriteForm
<1>2. cache' = cache /\ slot.pc = "write" /\ sync["slot"].pc = "idle"
  BY BusyLoaded DEF PersistWrite
<1>3. Covered(slot, room.items, file) /\ room.hash \subseteq room.items /\ kept \subseteq file.items
  BY <1>1 DEF Standing
<1>4. file.items \subseteq slot.blocks /\ slot.blocks \subseteq room.items
  BY <1>2, <1>3 DEF Covered, Times
<1>5. kept' \subseteq file'.items
  BY <1>1, <1>3, <1>4
<1>6. StoredSet' \subseteq StoredSet
  BY <1>1, <1>2, StoredSame
<1>7. Covered(slot', room'.items, file')
  BY <1>1, <1>4 DEF Covered
<1> QED
  BY <1>1, <1>2, <1>3, <1>4, <1>5, <1>6, <1>7 DEF Standing

LEMMA RecordStanding ==
    ASSUME Sound, Sound', Origins, Origins', Standing, PersistRecord
    PROVE  Standing'
<1>1. /\ Keeps /\ sync' = sync /\ room'.base = room.base /\ room'.hash = slot.blocks
      /\ slot'.pc = "state" /\ slot'.prov = prov'
  BY RecordForm
<1>2. Loaded /\ room'.items = room.items
  BY <1>1 DEF Keeps, Same
<1>3. /\ kept' = kept /\ file' = file /\ cache' = cache /\ slot.pc = "record"
  BY DEF PersistRecord, ghostVars
<1>4. file.items \subseteq room.items
  BY <1>2, <1>3 DEF Standing, Covered
<1>5. slot.blocks \subseteq kept /\ kept \subseteq file.items /\ prov'.items \subseteq kept'
  BY <1>3 DEF Origins, Origin, Standing
<1>6. room'.hash \subseteq room'.items
  BY <1>1, <1>2, <1>4, <1>5
<1>7. StoredSet' \subseteq StoredSet
  BY <1>1, <1>3, StoredSame
<1>8. slot'.prov.items \subseteq file'.items
  BY <1>1, <1>3, <1>5
<1>9. Covered(slot', room'.items, file')
  BY <1>1, <1>2, <1>3, <1>4, <1>8 DEF Covered
<1> QED
  BY <1>1, <1>2, <1>3, <1>6, <1>7, <1>9, SaveStanding DEF Saving

LEMMA StateStanding ==
    ASSUME Sound, Sound', Standing, PersistState
    PROVE  Standing'
<1>1. /\ Loaded /\ room' = room /\ sync' = sync /\ slot'.pc = "land"
      /\ slot'.state = StateOf(room, slot.prov,
           room.gen = slot.gen /\ slot.prov.items = slot.blocks)
  BY StateForm
<1>2. /\ kept' = kept /\ file' = file /\ cache' = cache /\ slot.pc = "state"
  BY DEF PersistState, docVars, ghostVars
<1>3. /\ file.items \subseteq room.items /\ slot.prov.items \subseteq file.items
      /\ room.hash \subseteq room.items
  BY <1>1, <1>2 DEF Standing, Covered
<1>4. slot'.state.items = room.items /\ slot'.state.head = slot.prov
  BY <1>1 DEF StateOf
<1>5. slot'.state.head.items \subseteq slot'.state.items
  BY <1>3, <1>4
<1>6. \A st \in StoredSet' : st \in StoredSet \/ st.head.items \subseteq st.items
  BY <1>1, <1>2, <1>5, StoredSame
<1>7. Covered(slot', room'.items, file')
  BY <1>1, <1>2, <1>3 DEF Covered
<1> QED
  BY <1>1, <1>2, <1>3, <1>6, <1>7, SaveStanding DEF Saving

\* The syncs, the watcher and the load of a room that is not there yet.
LEMMA ReadStanding ==
    ASSUME Sound, Sound', Standing, NEW w \in Syncer, SyncRead(w), sync'[w].pc = "apply"
    PROVE  Standing'
<1>1. /\ room' = room /\ slot' = slot /\ \A v \in Syncer : v # w => sync'[v] = sync[v]
  BY ReadForm DEF Ended, Syncer
<1>2. kept' = kept /\ file' = file /\ cache' = cache
  BY DEF SyncRead, docVars, ghostVars
<1>3. StoredSet' \subseteq StoredSet
  BY <1>1, <1>2, StoredBy
<1>4. sync'["slot"].pc = "cache" => sync["slot"].pc = "cache"
  BY <1>1 DEF Syncer
<1>5. Loaded' => /\ Loaded /\ room.hash \subseteq room.items
                 /\ Covered(slot, room.items, file)
  BY <1>1 DEF Loaded, Standing
<1> QED
  BY <1>1, <1>2, <1>3, <1>4, <1>5, StandingBy

LEMMA WatcherStanding ==
    ASSUME Sound, Sound', Standing, WatcherEvent
    PROVE  Standing'
<1>1. /\ Stays /\ slot' = slot /\ sync'["slot"] = sync["slot"]
      /\ sync' = sync \/ sync'["watcher"].pc = "read"
  BY WatcherForm
<1>2. kept' = kept /\ file' = file /\ cache' = cache
  BY DEF WatcherEvent, ghostVars
<1>3. "watcher" \in Syncer /\ \A v \in Syncer : v # "watcher" => sync'[v] = sync[v]
  BY <1>1 DEF Syncer
<1>4. StoredSet' \subseteq StoredSet
  <2>1. CASE sync' = sync
    BY <1>1, <1>2, <2>1, StoredSame
  <2>2. CASE sync'["watcher"].pc = "read"
    BY <1>1, <1>2, <1>3, <2>2, StoredBy
  <2> QED
    BY <1>1, <2>1, <2>2
<1>5. Loaded' => /\ Loaded /\ room'.items = room.items /\ room'.hash = room.hash
                 /\ room'.base = room.base
  BY <1>1 DEF Stays, Alike, Loaded
<1>6. Loaded' => Covered(slot, room.items, file) /\ room.hash \subseteq room.items
  BY <1>5 DEF Standing
<1> QED
  BY <1>1, <1>2, <1>4, <1>5, <1>6, StandingBy

LEMMA OutsideStanding ==
    ASSUME Sound, Times, Standing, ~collided', NEW x \in External, ExternalWrite(x)
    PROVE  Standing'
<1>1. /\ room' = room /\ slot' = slot /\ sync' = sync /\ cache' = cache
      /\ kept' = kept \cup {x} /\ file'.items = file.items \cup {x}
      /\ file'.stamp = file.stamp + 1
  BY OutsideForm
<1>2. ~Busy
  BY DEF ExternalWrite
<1>3. slot.pc = "idle" /\ sync["slot"].pc # "cache"
  BY <1>2, BusyLoaded DEF Busy
<1>4. StoredSet' \subseteq StoredSet
  BY <1>1, StoredSame
<1>5. Loaded => ~(file'.stamp <= room.base)
  BY <1>1, SlotTask, BusyLoaded DEF Times, Rooms
<1>6. Covered(slot', room'.items, file')
  BY <1>1, <1>3, CoveredIdle
<1> QED
  BY <1>1, <1>3, <1>4, <1>5, <1>6 DEF Standing, Loaded

LEMMA ColdStanding ==
    ASSUME Sound, Standing, NEW a \in Agent, AgentCold(a)
    PROVE  Standing'
<1>1. /\ ~Loaded /\ room' = room /\ slot' = slot /\ sync' = sync /\ cache' = cache
      /\ kept' = kept \cup {a} /\ file'.items = file.items \cup {a}
  BY ColdForm
<1>2. sync["slot"].pc # "cache" /\ ~Loaded'
  BY <1>1, BusyLoaded DEF Loaded
<1>3. StoredSet' \subseteq StoredSet
  BY <1>1, StoredSame
<1> QED
  BY <1>1, <1>2, <1>3 DEF Standing

LEMMA ReplaceStanding ==
    ASSUME Sound, Sound', Origins, Standing, ~crossed',
           NEW w \in Syncer, SyncApply(w), Replaces(w)
    PROVE  Standing'
<1>1. /\ Loaded /\ Loaded' /\ room'.items = file.items /\ room'.hash = file.items
      /\ sync[w].items = file.items /\ slot.pc \notin {"compare", "write", "commit"}
  BY DEF Replaces
<1>2. kept' = kept /\ file' = file /\ cache' = cache /\ prov' = prov
  BY DEF SyncApply, docVars
<1>3. Covered(slot, room.items, file) /\ kept \subseteq file.items
  BY <1>1 DEF Standing
<1>4. Covered(slot, file.items, file)
  <2>1. slot.pc = "adopt" => slot.blocks \subseteq file.items
    BY <1>3 DEF Origins, Origin
  <2> QED
    BY <1>1, <1>3, <2>1 DEF Covered
<1>5. CASE Ended(w)
  <2>1. (slot' = slot \/ Lays) /\ Unread
    BY <1>5, EndedQuiet
  <2>2. StoredSet' \subseteq StoredSet
    BY <1>2, <2>1, LaysStored DEF StoredSet
  <2>3. Lays => Covered(slot', file.items, file)
    BY CoveredIdle DEF Lays, Working
  <2>4. Covered(slot', room'.items, file')
    BY <1>1, <1>2, <1>4, <2>1, <2>3
  <2> QED
    BY <1>1, <1>2, <2>2, <2>4, StandingBy
<1>6. CASE /\ slot' = slot /\ prov.items = sync[w].items
           /\ sync'[w].state = StateOf(room', prov, TRUE)
           /\ \A v \in Syncer : v # w => sync'[v] = sync[v]
  <2>1. sync'[w].state.items = file.items /\ sync'[w].state.head.items = file.items
    BY <1>1, <1>6 DEF StateOf
  <2>2. \A st \in StoredSet' : st \in StoredSet \/ st = sync'[w].state
    BY <1>2, <1>6, StoredBy
  <2>3. \A st \in StoredSet' : st \in StoredSet \/ st.head.items \subseteq st.items
    BY <2>1, <2>2
  <2>4. Covered(slot', room'.items, file')
    BY <1>1, <1>2, <1>4, <1>6
  <2> QED
    BY <1>1, <1>2, <2>3, <2>4, StandingBy
<1>7. ~Ended(w) => /\ slot' = slot /\ prov.items = sync[w].items
                   /\ sync'[w].state = StateOf(room', prov, TRUE)
                   /\ \A v \in Syncer : v # w => sync'[v] = sync[v]
  BY ApplyForm
<1> QED
  BY <1>5, <1>6, <1>7

LEMMA HoldStanding ==
    ASSUME Sound, Sound', Standing, Seen, AgentHold
    PROVE  Standing'
<1>1. /\ Loaded /\ Copy(room', room) /\ sync' = sync /\ slot'.pc = "commit"
      /\ slot'.path = slot.path /\ slot'.blocks = room.items
  BY HoldForm
<1>2. /\ room'.items = room.items /\ room'.hash = room.hash /\ room'.base = room.base
  BY <1>1 DEF Copy
<1>3. kept' = kept /\ file' = file /\ cache' = cache /\ slot.pc = "hold"
  BY DEF AgentHold, docVars, ghostVars
<1>4. file.path = slot.path => file.items \subseteq room.items
  BY <1>1, <1>3 DEF Seen, Refreshed
<1>5. room.hash \subseteq room.items
  BY <1>1 DEF Standing
<1>6. StoredSet' \subseteq StoredSet
  BY <1>1, <1>3, StoredSame
<1>7. Covered(slot', room'.items, file')
  BY <1>1, <1>2, <1>3, <1>4 DEF Covered
<1> QED
  BY <1>1, <1>2, <1>3, <1>5, <1>6, <1>7, StandingBy

LEMMA CommitStanding ==
    ASSUME Sound, Times, Standing, AgentCommit, slot'.pc = "adopt"
    PROVE  Standing'
<1>1. /\ Loaded /\ room' = room /\ sync' = sync /\ file.path = slot.key
      /\ slot'.blocks = slot.blocks \cup {slot.item} /\ slot'.item = slot.item
      /\ kept' = kept \cup slot.blocks \cup {slot.item}
      /\ file'.items = slot.blocks \cup {slot.item} /\ file'.stamp = file.stamp + 1
  BY CommitForm DEF Advances
<1>2. cache' = cache /\ slot.pc = "commit"
  BY DEF AgentCommit
<1>3. sync["slot"].pc # "cache" /\ slot.key = slot.path
  BY <1>2, BusyLoaded DEF Sound, Shape
<1>4. /\ Covered(slot, room.items, file) /\ room.hash \subseteq room.items
      /\ kept \subseteq file.items
  BY <1>1 DEF Standing
<1>5. file.items \subseteq slot.blocks /\ slot.blocks \subseteq room.items
  BY <1>1, <1>2, <1>3, <1>4 DEF Covered
<1>6. StoredSet' \subseteq StoredSet
  BY <1>1, <1>2, StoredSame
<1>7. ~(file'.stamp <= room.base)
  BY <1>1, SlotTask, BusyLoaded DEF Times, Rooms
<1>8. Covered(slot', room'.items, file')
  <2>1. slot'.blocks \subseteq room'.items \cup {slot'.item} /\ file'.items \subseteq slot'.blocks
    BY <1>1, <1>5
  <2> QED
    BY <2>1 DEF Covered
<1>9. kept' \subseteq file'.items
  BY <1>1, <1>4, <1>5
<1> QED
  BY <1>1, <1>3, <1>4, <1>6, <1>7, <1>8, <1>9 DEF Standing

LEMMA AdoptStanding ==
    ASSUME Sound, Sound', Origins, Standing, AgentAdopt, Adopted
    PROVE  Standing'
<1> ~Resyncs(room, "follow")
  <2>1. slot.pc = "adopt" /\ sync' = sync
    BY AdoptForm DEF Adopted
  <2> QED
    BY <2>1, BusyLoaded DEF Resyncs
<1>1. /\ Loaded /\ Loaded' /\ room'.hash = slot.blocks /\ sync' = sync
      /\ slot'.pc \in {"store", "release"}
  BY AdoptForm DEF Adopted
<1>2. /\ kept' = kept /\ file' = file /\ cache' = cache /\ prov' = prov
      /\ slot.pc = "adopt"
  BY DEF AgentAdopt, docVars
<1>3. /\ Covered(slot, room.items, file) /\ prov.items \subseteq file.items
  BY <1>1 DEF Standing, Origins, Origin
<1>4. file.items \subseteq slot.blocks /\ slot.blocks \subseteq room.items \cup {slot.item}
  BY <1>2, <1>3 DEF Covered
<1>5. /\ \/ room'.items = room.items \cup {slot.item}
         \/ room'.items = slot.blocks
      /\ slot'.pc = "store" => /\ slot'.state.items = room'.items
                               /\ slot'.state.head = prov
  BY <1>1, AdoptForm DEF StateOf
<1>6. slot.blocks \subseteq room'.items
  BY <1>4, <1>5
<1>7. slot'.pc = "store" => slot'.state.head.items \subseteq slot'.state.items
  BY <1>3, <1>4, <1>5, <1>6
<1>8. \A st \in StoredSet' : st \in StoredSet \/ st.head.items \subseteq st.items
  <2>1. \A st \in StoredSet' :
          st \in StoredSet \/ (slot'.pc \in {"settle", "land", "store"} /\ st = slot'.state)
    BY <1>1, <1>2, StoredSame
  <2> QED
    BY <1>1, <1>7, <2>1
<1>9. Covered(slot', room'.items, file')
  BY <1>1, CoveredIdle
<1>10. file.items \subseteq room'.items
  BY <1>4, <1>6
<1> QED
  BY <1>1, <1>2, <1>6, <1>8, <1>9, <1>10, StandingBy

LEMMA StandingStep ==
    ASSUME Sound, Sound', Origins, Origins', Times, Paths, Standing, Seen, Fresh, Next,
           ~collided', ~crossed'
    PROVE  Standing'
<1>1. CASE Quiet
  BY <1>1, QuietStanding
<1>2. CASE LoadRead \/ LoadImport
  BY <1>2, LoadsStanding
<1>3. CASE \/ PersistStat /\ slot'.pc = "export"
           \/ PersistExport \/ PersistCompare \/ PersistSettle \/ PersistWrite
           \/ PersistRecord \/ PersistState \/ PersistLand
  BY <1>3, StatStanding, ExportStanding, CompareStanding, EndsStanding, WriteStanding,
     RecordStanding, StateStanding
<1>4. CASE \E w \in Syncer : SyncRead(w) /\ sync'[w].pc = "apply"
  BY <1>4, ReadStanding
<1>5. CASE \E w \in Syncer : SyncApply(w) /\ Replaces(w)
  BY <1>5, ReplaceStanding
<1>6. CASE (\E x \in External : ExternalWrite(x)) \/ WatcherEvent
           \/ (\E a \in Agent : AgentCold(a))
  BY <1>6, OutsideStanding, WatcherStanding, ColdStanding
<1>7. CASE AgentHold \/ (AgentCommit /\ slot'.pc = "adopt") \/ (AgentAdopt /\ Adopted)
  BY <1>7, HoldStanding, CommitStanding, AdoptStanding
<1> QED
  BY <1>1, <1>2, <1>3, <1>4, <1>5, <1>6, <1>7, QuietStep

\* The strengthening that makes WrittenStays inductive.
Kept == Times /\ Paths /\ Written

LEMMA InitKept == Init => Kept
<1> SUFFICES ASSUME Init PROVE Kept
  OBVIOUS
<1>1. /\ file.items = {} /\ file.stamp = 1 /\ file.path = "old" /\ cache = None
      /\ slot.pc = "idle" /\ slot.task = "none" /\ slot.stat = 0
      /\ load.pc = "idle" /\ load.stamp = 0 /\ ~Loaded /\ barrier.pc = "idle" /\ kept = {}
      /\ \A w \in Syncer : sync[w].pc = "idle"
  BY DEF Init, IdleSlot, IdleSync, IdleLoad, IdleBarrier, Loaded
<1>2. StoredSet = {} /\ sync["slot"].pc = "idle"
  BY <1>1 DEF StoredSet, Syncer
<1>3. Standing
  BY <1>1, <1>2 DEF Standing
<1> QED
  BY <1>1, <1>3, Stages DEF Kept, Times, Paths, Written, Seen, Fresh

LEMMA KeptStep ==
    ASSUME Base, Kept, [Next]_vars
    PROVE  Kept'
<1>1. Base'
  BY BaseStep
<1>2. CASE Next
  <2>1. Times' /\ Paths'
    BY <1>2, TimesStep, PathsStep DEF Base, Kept
  <2>2. ASSUME ~collided', ~crossed' PROVE Standing' /\ Seen' /\ Fresh'
    <3>1. ~collided /\ ~crossed
      BY <1>2, <2>2, Marks
    <3>2. Standing /\ Seen /\ Fresh
      BY <3>1 DEF Kept, Written
    <3> QED
      BY <1>1, <1>2, <2>2, <3>2, StandingStep, SeenStep, FreshStep DEF Base, Kept
  <2> QED
    BY <2>1, <2>2 DEF Kept, Written
<1>3. CASE UNCHANGED vars
  <2>1. /\ file' = file /\ cache' = cache /\ room' = room /\ slot' = slot /\ sync' = sync
        /\ load' = load /\ barrier' = barrier /\ kept' = kept
        /\ collided' = collided /\ crossed' = crossed
    BY <1>3 DEF vars, docVars, roomVars, ghostVars
  <2>2. Times' /\ Paths'
    BY <2>1 DEF Kept, Times, Paths, Loaded
  <2>3. StoredSet' = StoredSet
    BY <2>1 DEF StoredSet
  <2>4. /\ Standing => Standing'
        /\ Seen => Seen'
        /\ Fresh => Fresh'
    BY <2>1, <2>3 DEF Standing, Seen, Fresh, Loaded
  <2> QED
    BY <2>1, <2>2, <2>4 DEF Kept, Written
<1> QED
  BY <1>2, <1>3

\* Until an outside write or a disk sync comes where the code has no guard, what
\* a save or an agent's write is about to publish covers the file.
THEOREM RoomsKept == Spec => []Kept
<1>1. Init => Kept
  BY InitKept
<1>2. Base /\ Kept /\ [Next]_vars => Kept'
  BY KeptStep
<1> QED
  BY <1>1, <1>2, RoomsBase, PTL DEF Spec

\* No save, agent write or restart takes back what another save, agent or
\* program has written to the file, unless an outside write landed where no
\* guard of the code looks or a disk sync crossed a save.
THEOREM RoomsWrittenStays == Spec => []WrittenStays
<1>1. Kept => WrittenStays
  BY DEF Kept, Written, Standing, WrittenStays
<1> QED
  BY <1>1, RoomsKept, PTL

-----------------------------------------------------------------------------
(* What people wrote is not taken out of the document                      *)

\* Edits that a disk sync took out or that went with their room.
Lost == wiped \cup forgotten

\* Whatever of people's edits the document was given is in it, in its room, in
\* what is about to be written or loaded, and in state stored for it, or is lost.
Preserved ==
  /\ file.stamp # 0 /\ kept \cap Edit \subseteq file.items \cup Lost
  /\ load.pc = "import" => kept \cap Edit \subseteq load.items \cup Lost
  /\ \A st \in StoredSet : st.head.items \cap Edit \subseteq st.items \cup Lost
  /\ Loaded =>
       /\ kept \cap Edit \subseteq room.items \cup Lost
       /\ slot.pc \in {"compare", "write", "commit"} =>
            /\ kept \cap Edit \subseteq slot.blocks \cup Lost
            /\ slot.blocks \cap Edit \subseteq room.items \cup Lost

\* What is lost stays lost.
LEMMA LostGrows ==
    ASSUME Sound, Next
    PROVE  wiped \subseteq wiped' /\ forgotten \subseteq forgotten'
<1>1. CASE Unnoted
  BY <1>1, UnnotedForm DEF ghostVars
<1>2. ASSUME NEW c \in Client, Attach(c) \/ Receive(c) \/ Drop(c)
      PROVE  wiped' = wiped /\ forgotten' = forgotten
  BY <1>2 DEF Attach, Receive, Drop
<1>3. CASE LoadImport \/ AgentRelease \/ PersistStat \/ PersistWrite \/ PersistFails
           \/ (\E w \in Syncer : SyncFails(w)) \/ (\E x \in External : ExternalWrite(x))
  BY <1>3 DEF LoadImport, AgentRelease, PersistStat, PersistWrite, PersistFails, SyncFails,
     ExternalWrite
<1>4. CASE (\E w \in Syncer : SyncApply(w)) \/ AgentAdopt
  BY <1>4 DEF SyncApply, AgentAdopt
<1>5. CASE (\E a \in Agent : AgentCold(a)) \/ AgentCommit
           \/ (\E kind \in Barriers : BarrierBegin(kind)) \/ BarrierEnd \/ Crash
  BY <1>5 DEF AgentCold, AgentCommit, BarrierBegin, BarrierEnd, Crash
<1>6. CASE UnloadEnd
  BY <1>6 DEF UnloadEnd, Destroyed
<1> QED
  BY <1>1, <1>2, <1>3, <1>4, <1>5, <1>6, NotedSteps

LEMMA PreservedBy ==
    ASSUME Sound, Next, Preserved, kept' \cap Edit \subseteq kept,
           file.items \subseteq file'.items,
           load'.pc = "import" => load' = load \/ load'.items = file.items,
           \A st \in StoredSet' :
             \/ st \in StoredSet
             \/ st.head.items \cap Edit \subseteq st.items \cup wiped' \cup forgotten',
           Loaded' => kept \cap Edit \subseteq room'.items \cup wiped' \cup forgotten',
           slot'.pc \in {"compare", "write", "commit"} =>
             /\ kept \cap Edit \subseteq slot'.blocks \cup wiped' \cup forgotten'
             /\ slot'.blocks \cap Edit \subseteq room'.items \cup wiped' \cup forgotten'
    PROVE  Preserved'
<1>1. /\ file'.stamp # 0
  BY StampGrows DEF Preserved
<1>2. Lost' = wiped' \cup forgotten' /\ Lost \subseteq wiped' \cup forgotten'
  BY LostGrows DEF Lost
<1>3. kept' \cap Edit \subseteq file'.items \cup Lost'
  BY <1>2 DEF Preserved
<1>4. load'.pc = "import" => kept' \cap Edit \subseteq load'.items \cup Lost'
  BY <1>2 DEF Preserved
<1>5. \A st \in StoredSet' : st.head.items \cap Edit \subseteq st.items \cup Lost'
  BY <1>2 DEF Preserved
<1>6. Loaded' => kept' \cap Edit \subseteq room'.items \cup Lost'
  BY <1>2
<1>7. slot'.pc \in {"compare", "write", "commit"} =>
        /\ kept' \cap Edit \subseteq slot'.blocks \cup Lost'
        /\ slot'.blocks \cap Edit \subseteq room'.items \cup Lost'
  BY <1>2
<1> QED
  BY <1>1, <1>3, <1>4, <1>5, <1>6, <1>7 DEF Preserved

\* The steps that read, write and store nothing.
LEMMA QuietPreserved ==
    ASSUME Sound, Sound', Preserved, Next, Quiet
    PROVE  Preserved'
<1>1. StoredSet' \subseteq StoredSet /\ kept' = kept /\ file'.items = file.items
  BY QuietStored DEF Quiet, Undisturbed
<1>2. load'.pc = "import" => load' = load \/ load'.items = file.items
  BY LoadSteps DEF LoadRead
<1>3. Lost \subseteq wiped' \cup forgotten'
  BY LostGrows DEF Lost
<1>4. Loaded' => Loaded /\ room.items \subseteq room'.items
  BY DEF Quiet, Grows
<1>5. slot'.pc \in {"compare", "write", "commit"} => slot' = slot
  BY DEF Quiet, Lays, Working
<1>6. Loaded' => kept \cap Edit \subseteq room'.items \cup wiped' \cup forgotten'
  BY <1>3, <1>4 DEF Preserved
<1>7. CASE Loaded'
  <2>1. slot'.pc \in {"compare", "write", "commit"} =>
             /\ kept \cap Edit \subseteq slot'.blocks \cup wiped' \cup forgotten'
             /\ slot'.blocks \cap Edit \subseteq room'.items \cup wiped' \cup forgotten'
    BY <1>3, <1>4, <1>5, <1>7 DEF Preserved
  <2> QED
    BY <1>1, <1>2, <1>6, <2>1, PreservedBy
<1>8. CASE ~Loaded'
  <2>1. slot'.pc = "idle"
    BY <1>8 DEF Sound, TypeOK, RoomFits, Busy
  <2> QED
    BY <1>1, <1>2, <1>6, <2>1, PreservedBy
<1> QED
  BY <1>7, <1>8
\* A cold load: what was read, or state stored for the version that was read.
LEMMA LoadPreserved ==
    ASSUME Sound, Origins, Preserved, Next, LoadRead \/ LoadImport
    PROVE  Preserved'
<1>1. CASE LoadRead
  <2>1. /\ file' = file /\ room' = room /\ slot' = slot /\ kept' = kept /\ cache' = cache
        /\ sync' = sync /\ wiped' = wiped /\ forgotten' = forgotten
        /\ load'.items = file.items
    BY <1>1 DEF LoadRead, docVars, ghostVars
  <2>2. StoredSet' = StoredSet
    BY <2>1 DEF StoredSet
  <2>3. slot.pc \in {"compare", "write", "commit"} => Loaded
    BY BusyLoaded DEF Busy
  <2> QED
    BY <2>1, <2>2, <2>3, PreservedBy DEF Preserved, Lost, Loaded
<1>2. CASE LoadImport
  <2>1. /\ file' = file /\ kept' = kept /\ wiped' = wiped /\ forgotten' = forgotten
        /\ load' = IdleLoad /\ load.pc = "import"
    BY <1>2 DEF LoadImport
  <2>2. slot' = slot /\ sync' = sync /\ slot.pc = "idle"
    BY <1>2, ImportForm
  <2>3. kept \cap Edit \subseteq load.items \cup Lost
    BY <2>1 DEF Preserved
  <2>4. CASE /\ cache # None /\ cache' = cache /\ cache.head = prov /\ prov.items = load.items
             /\ room'.items = cache.items
    <3>1. StoredSet' = StoredSet /\ cache \in StoredSet
      BY <2>2, <2>4 DEF StoredSet
    <3>2. load.items \cap Edit \subseteq cache.items \cup Lost
      BY <2>4, <3>1 DEF Preserved
    <3>3. kept \cap Edit \subseteq room'.items \cup wiped' \cup forgotten'
      BY <2>1, <2>3, <2>4, <3>2 DEF Lost
    <3> QED
      BY <2>1, <2>2, <3>1, <3>3, PreservedBy DEF IdleLoad
  <2>5. CASE /\ room'.items = load.items
             /\ \/ cache' = None
                \/ prov.items = load.items /\ cache' = StateOf(room', prov, TRUE)
    <3>1. kept \cap Edit \subseteq room'.items \cup wiped' \cup forgotten'
      BY <2>1, <2>3, <2>5 DEF Lost
    <3>2. \A st \in StoredSet' : st \in StoredSet \/ st = cache'
      BY <2>2, StoredFrom DEF StoredSet
    <3>3. cache' # None => cache'.head.items = cache'.items
      BY <2>5 DEF StateOf
    <3>4. \A st \in StoredSet' :
             \/ st \in StoredSet
             \/ st.head.items \cap Edit \subseteq st.items \cup wiped' \cup forgotten'
      <4>1. ASSUME NEW st \in StoredSet', st \notin StoredSet
            PROVE  st = cache' /\ cache' # None
        <5>1. st = cache'
          BY <3>2, <4>1
        <5>2. \/ cache' # None
              \/ slot'.pc \in {"settle", "land", "store"} /\ st = slot'.state
              \/ \E v \in Syncer : sync'[v].pc = "cache" /\ st = sync'[v].state
          BY <4>1, StoredFrom
        <5>3. (slot'.pc \in {"settle", "land", "store"} /\ st = slot'.state)
              \/ (\E v \in Syncer : sync'[v].pc = "cache" /\ st = sync'[v].state)
              => st \in StoredSet
          BY <2>2 DEF StoredSet
        <5> QED
          BY <4>1, <5>1, <5>2, <5>3
      <4> QED
        BY <3>3, <4>1
    <3> QED
      BY <2>1, <2>2, <3>1, <3>4, PreservedBy DEF IdleLoad
  <2> QED
    BY <1>2, <2>4, <2>5, ImportForm
<1> QED
  BY <1>1, <1>2

\* A save compares with, and is recorded under, a version.
LEMMA BusyVersion ==
    ASSUME Sound, slot.pc \in {"compare", "settle", "write", "state"}
    PROVE  slot.prov # None
<1>1. slot.prov \in Versions
  BY DEF Sound, Shape
<1> QED
  BY <1>1, NoneAssumption

\* A save that goes on without writing.
LEMMA SavePreserved ==
    ASSUME Sound, Sound', Preserved, Next, Loaded, kept' = kept, file' = file, load' = load,
           room.items \subseteq room'.items,
           \A st \in StoredSet' :
       st \in StoredSet \/ (st.head.items \subseteq kept /\ st.items = room.items),
           \/ slot'.pc \notin {"compare", "write", "commit"}
           \/ slot'.blocks = room.items
           \/ slot'.blocks = slot.blocks /\ slot.pc \in {"compare", "write", "commit"}
    PROVE  Preserved'
<1>1. /\ kept \cap Edit \subseteq room.items \cup wiped' \cup forgotten'
      /\ Lost \subseteq wiped' \cup forgotten'
  BY LostGrows DEF Lost, Preserved
<1>2. \A st \in StoredSet' :
        \/ st \in StoredSet
        \/ st.head.items \cap Edit \subseteq st.items \cup wiped' \cup forgotten'
  BY <1>1
<1>3. slot'.pc \in {"compare", "write", "commit"} =>
        /\ kept \cap Edit \subseteq slot'.blocks \cup wiped' \cup forgotten'
        /\ slot'.blocks \cap Edit \subseteq room'.items \cup wiped' \cup forgotten'
  BY <1>1 DEF Preserved
<1> QED
  BY <1>1, <1>2, <1>3, PreservedBy

LEMMA SavesPreserved ==
    ASSUME Sound, Sound', Origins, Preserved, Next,
           \/ PersistStat /\ slot'.pc = "export"
           \/ PersistExport \/ PersistCompare \/ PersistSettle
           \/ PersistRecord \/ PersistState \/ PersistLand
    PROVE  Preserved'
<1>1. file' = file /\ kept' = kept /\ load' = load /\ slot.pc \in Saving
  BY DEF PersistStat, PersistExport, PersistCompare, PersistSettle, PersistRecord,
         PersistState, PersistLand, docVars, ghostVars, Saving
<1>2. Loaded
  BY <1>1, BusyLoaded DEF Busy, Saving
<1>3. CASE PersistStat /\ slot'.pc = "export"
  <2>1. /\ Follows /\ sync' = sync
    BY <1>3, StatForm DEF Resyncs, Returns, Turns, Turned, NextStage
  <2>2. cache' = cache
    BY <1>3 DEF PersistStat, docVars
  <2>3. StoredSet' \subseteq StoredSet
    BY <1>3, <2>1, <2>2, StoredSame
  <2>4. room.items \subseteq room'.items
    BY <2>1 DEF Follows, Grows
  <2> QED
    BY <1>1, <1>2, <1>3, <2>3, <2>4, SavePreserved
<1>4. CASE PersistExport
  <2>1. room' = room /\ sync' = sync /\ slot'.pc = "compare" /\ slot'.blocks = room.items
    BY <1>4, ExportForm
  <2>2. cache' = cache
    BY <1>4 DEF PersistExport, docVars
  <2>3. StoredSet' \subseteq StoredSet
    BY <2>1, <2>2, StoredSame
  <2> QED
    BY <1>1, <1>2, <2>1, <2>3, SavePreserved
<1>5. CASE PersistCompare
  <2>1. slot.pc = "compare" /\ cache' = cache /\ room'.items = room.items
    BY <1>5, CompareForm DEF PersistCompare, docVars, Keeps, Same
  <2>2. CASE Returns \/ Resyncs(room, slot.task)
    <3>1. Lays /\ Unread
      BY <1>1, <2>2, ReturnsQuiet, ResyncsQuiet
    <3>2. StoredSet' \subseteq StoredSet
      BY <2>1, <3>1, LaysStored DEF StoredSet
    <3>3. slot'.pc \notin {"compare", "write", "commit"}
      BY <3>1 DEF Lays, Working
    <3> QED
      BY <1>1, <1>2, <2>1, <3>2, <3>3, SavePreserved
  <2>3. CASE sync' = sync /\ slot'.pc = "write" /\ Carries(slot, slot')
    <3>1. StoredSet' \subseteq StoredSet
      BY <2>1, <2>3, StoredSame
    <3>2. slot'.blocks = slot.blocks
      BY <2>3 DEF Carries
    <3> QED
      BY <1>1, <1>2, <2>1, <3>1, <3>2, SavePreserved
  <2>4. CASE /\ sync' = sync /\ slot'.pc = "settle"
             /\ slot'.state = StateOf(room, slot.prov,
                  room.gen = slot.gen /\ slot.prov.items = slot.blocks)
    <3>1. slot.prov.items \subseteq kept
      BY <2>1, BusyVersion DEF Origins, Origin
    <3>2. slot'.state.items = room.items /\ slot'.state.head = slot.prov
      BY <2>4 DEF StateOf
    <3>3. \A st \in StoredSet' :
       st \in StoredSet \/ (st.head.items \subseteq kept /\ st.items = room.items)
      BY <2>1, <2>4, <3>1, <3>2, StoredSame
    <3> QED
      BY <1>1, <1>2, <2>1, <2>4, <3>3, SavePreserved
  <2> QED
    BY <1>5, <2>2, <2>3, <2>4, CompareForm
<1>6. CASE PersistSettle \/ PersistLand
  <2>1. Keeps /\ Returns
    BY <1>6, SettleForm, LandForm
  <2>2. Lays /\ Unread
    BY <1>1, <2>1, ReturnsQuiet
  <2>3. cache' = None \/ cache' \in StoredSet
    BY <1>6, RestoresForm
  <2>4. StoredSet' \subseteq StoredSet
    BY <2>2, <2>3, LaysStored
  <2>5. slot'.pc \notin {"compare", "write", "commit"} /\ room'.items = room.items
    BY <2>1, <2>2 DEF Lays, Working, Keeps, Same
  <2> QED
    BY <1>1, <1>2, <2>4, <2>5, SavePreserved
<1>7. CASE PersistRecord
  <2>1. /\ sync' = sync /\ slot'.pc = "state" /\ room'.items = room.items
    BY <1>7, RecordForm DEF Keeps, Same
  <2>2. cache' = cache
    BY <1>7 DEF PersistRecord
  <2>3. StoredSet' \subseteq StoredSet
    BY <2>1, <2>2, StoredSame
  <2> QED
    BY <1>1, <1>2, <2>1, <2>3, SavePreserved
<1>8. CASE PersistState
  <2>1. /\ room' = room /\ sync' = sync /\ slot'.pc = "land" /\ slot.pc = "state"
        /\ cache' = cache
        /\ slot'.state = StateOf(room, slot.prov,
             room.gen = slot.gen /\ slot.prov.items = slot.blocks)
    BY <1>8, StateForm DEF PersistState, docVars
  <2>2. slot.prov.items \subseteq kept
    BY <2>1, BusyVersion DEF Origins, Origin
  <2>3. slot'.state.items = room.items /\ slot'.state.head = slot.prov
    BY <2>1 DEF StateOf
  <2>4. \A st \in StoredSet' :
       st \in StoredSet \/ (st.head.items \subseteq kept /\ st.items = room.items)
    BY <2>1, <2>2, <2>3, StoredSame
  <2> QED
    BY <1>1, <1>2, <2>1, <2>4, SavePreserved
<1> QED
  BY <1>3, <1>4, <1>5, <1>6, <1>7, <1>8

\* What is written holds all of it: the document takes what the save exported.
LEMMA WritePreserved ==
    ASSUME Sound, Sound', Preserved, Next, PersistWrite
    PROVE  Preserved'
<1>1. /\ Loaded /\ room' = room /\ sync' = sync /\ slot.pc = "write" /\ slot'.pc = "record"
      /\ kept' = kept \cup slot.blocks /\ file'.items = slot.blocks
      /\ cache' = cache /\ load' = load
  BY WriteForm DEF PersistWrite
<1>2. Lost \subseteq Lost'
  BY LostGrows DEF Lost
<1>3. StoredSet' \subseteq StoredSet
  BY <1>1, StoredSame
<1>4. file'.stamp # 0
  BY StampGrows DEF Preserved
<1>5. load.pc # "import"
  BY <1>1 DEF Sound, Shape
<1>6. kept' \cap Edit \subseteq file'.items \cup Lost'
  BY <1>1, <1>2 DEF Preserved
<1>7. kept' \cap Edit \subseteq room'.items \cup Lost'
  BY <1>1, <1>2 DEF Preserved
<1>8. \A st \in StoredSet' : st.head.items \cap Edit \subseteq st.items \cup Lost'
  BY <1>2, <1>3 DEF Preserved
<1> QED
  BY <1>1, <1>4, <1>5, <1>6, <1>7, <1>8 DEF Preserved

\* The watcher stores nothing.
LEMMA WatcherStored ==
    ASSUME Sound, WatcherEvent
    PROVE  StoredSet' \subseteq StoredSet
<1>1. /\ slot' = slot /\ sync'["slot"] = sync["slot"]
      /\ sync' = sync \/ sync'["watcher"].pc = "read"
  BY WatcherForm
<1>2. cache' = cache
  BY DEF WatcherEvent
<1>3. "watcher" \in Syncer /\ \A v \in Syncer : v # "watcher" => sync'[v] = sync[v]
  BY <1>1 DEF Syncer
<1>4. CASE sync' = sync
  BY <1>1, <1>2, <1>4, StoredSame
<1>5. CASE sync'["watcher"].pc = "read"
  BY <1>1, <1>2, <1>3, <1>5, StoredBy
<1> QED
  BY <1>1, <1>4, <1>5

\* Others' writes, and the reads of disk syncs and of the watcher.
LEMMA OutsidePreserved ==
    ASSUME Sound, Sound', Preserved, Next,
           \/ (\E x \in External : ExternalWrite(x)) \/ (\E a \in Agent : AgentCold(a))
           \/ WatcherEvent \/ AgentHold
           \/ (\E w \in Syncer : SyncRead(w) /\ sync'[w].pc = "apply")
    PROVE  Preserved'
<1>0. Lost \subseteq wiped' \cup forgotten'
  BY LostGrows DEF Lost
<1>a. Loaded => kept \cap Edit \subseteq room.items \cup wiped' \cup forgotten'
  BY <1>0 DEF Preserved
<1>b. slot.pc \in {"compare", "write", "commit"} =>
        /\ kept \cap Edit \subseteq slot.blocks \cup wiped' \cup forgotten'
        /\ slot.blocks \cap Edit \subseteq room.items \cup wiped' \cup forgotten'
  BY <1>0, BusyLoaded DEF Preserved, Busy
<1>1. ASSUME NEW x \in External, ExternalWrite(x)
      PROVE  Preserved'
  <2>1. /\ room' = room /\ slot' = slot /\ sync' = sync /\ load' = load /\ cache' = cache
        /\ kept' = kept \cup {x} /\ file'.items = file.items \cup {x}
    BY <1>1, OutsideForm
  <2>2. kept' \cap Edit \subseteq kept
    BY <2>1, CollaborationAssumption
  <2>3. StoredSet' \subseteq StoredSet
    BY <2>1, StoredSame
  <2>4. Loaded' <=> Loaded
    BY <2>1 DEF Loaded
  <2> QED
    BY <1>a, <1>b, <2>1, <2>2, <2>3, <2>4, PreservedBy
<1>2. ASSUME NEW a \in Agent, AgentCold(a)
      PROVE  Preserved'
  <2>1. /\ room' = room /\ slot' = slot /\ sync' = sync /\ load' = load /\ cache' = cache
        /\ kept' = kept \cup {a} /\ file'.items = file.items \cup {a}
    BY <1>2, ColdForm
  <2>2. kept' \cap Edit \subseteq kept
    BY <2>1, CollaborationAssumption
  <2>3. StoredSet' \subseteq StoredSet
    BY <2>1, StoredSame
  <2>4. Loaded' <=> Loaded
    BY <2>1 DEF Loaded
  <2> QED
    BY <1>a, <1>b, <2>1, <2>2, <2>3, <2>4, PreservedBy
<1>3. CASE WatcherEvent
  <2>1. /\ slot' = slot /\ Stays /\ load' = load /\ cache' = cache /\ kept' = kept
        /\ file' = file
    BY <1>3, WatcherForm DEF WatcherEvent, ghostVars
  <2>2. StoredSet' \subseteq StoredSet
    BY <1>3, WatcherStored
  <2>3. Loaded' => Loaded /\ room'.items = room.items
    BY <2>1, NoneAssumption DEF Stays, Alike, Loaded
  <2>4. Loaded => Loaded'
    BY <2>1, NoneAssumption DEF Stays, Loaded
  <2>5. slot.pc \in {"compare", "write", "commit"} => Loaded
    BY BusyLoaded DEF Busy
  <2> QED
    BY <1>a, <1>b, <2>1, <2>2, <2>3, <2>4, <2>5, PreservedBy
<1>4. CASE AgentHold
  <2>1. /\ room'.items = room.items /\ sync' = sync /\ slot'.pc = "commit" /\ Loaded
        /\ slot'.blocks = room.items /\ load' = load /\ cache' = cache /\ kept' = kept
        /\ file' = file
    BY <1>4, HoldForm DEF AgentHold, Copy, docVars, ghostVars
  <2>2. StoredSet' \subseteq StoredSet
    BY <2>1, StoredSame
  <2> QED
    BY <2>1, <2>2, SavePreserved
<1>5. ASSUME NEW w \in Syncer, SyncRead(w), sync'[w].pc = "apply"
      PROVE  Preserved'
  <2>1. /\ room' = room /\ slot' = slot
        /\ \A v \in Syncer : v # w => sync'[v] = sync[v]
    BY <1>5, ReadForm DEF Ended, Syncer
  <2>2. /\ load' = load /\ cache' = cache /\ kept' = kept /\ file' = file
    BY <1>5 DEF SyncRead, docVars, ghostVars
  <2>3. StoredSet' \subseteq StoredSet
    BY <1>5, <2>1, <2>2, StoredBy
  <2>4. Loaded' <=> Loaded
    BY <2>1 DEF Loaded
  <2> QED
    BY <1>a, <1>b, <2>1, <2>2, <2>3, <2>4, PreservedBy
<1> QED
  BY <1>1, <1>2, <1>3, <1>4, <1>5

\* A disk sync takes out of the room what the document does not show: what it
\* takes is lost, what was kept is in what it read or lost.
LEMMA ReplacePreserved ==
    ASSUME Sound, Sound', Origins, Preserved, Next, NEW w \in Syncer, SyncApply(w), Replaces(w)
    PROVE  Preserved'
<1>1. /\ Loaded /\ Loaded' /\ room'.items = sync[w].items
      /\ wiped' = wiped \cup ((room.items \ sync[w].items) \cap Edit)
  BY DEF Replaces
<1>2. kept' = kept /\ file' = file /\ load' = load /\ cache' = cache /\ prov' = prov
  BY DEF SyncApply, docVars
<1>3. Lost \subseteq wiped' \cup forgotten'
  BY LostGrows DEF Lost
<1>4. room.items \cap Edit \subseteq room'.items \cup wiped' \cup forgotten'
  BY <1>1
<1>5. kept \cap Edit \subseteq room'.items \cup wiped' \cup forgotten'
  BY <1>1, <1>3, <1>4 DEF Preserved
<1>6. slot.pc \in {"compare", "write", "commit"} =>
        /\ kept \cap Edit \subseteq slot.blocks \cup wiped' \cup forgotten'
        /\ slot.blocks \cap Edit \subseteq room'.items \cup wiped' \cup forgotten'
  BY <1>1, <1>3, <1>4 DEF Preserved
<1>7. CASE Ended(w)
  <2>1. (slot' = slot \/ Lays) /\ Unread
    BY <1>7, EndedQuiet
  <2>2. StoredSet' \subseteq StoredSet
    BY <1>2, <2>1, LaysStored DEF StoredSet
  <2>3. slot'.pc \in {"compare", "write", "commit"} => slot' = slot
    BY <2>1 DEF Lays, Working
  <2> QED
    BY <1>1, <1>2, <1>5, <1>6, <2>2, <2>3, PreservedBy
<1>8. CASE /\ slot' = slot /\ prov.items = sync[w].items
           /\ sync'[w].state = StateOf(room', prov, TRUE)
           /\ \A v \in Syncer : v # w => sync'[v] = sync[v]
  <2>1. sync'[w].state.items = sync[w].items /\ sync'[w].state.head.items = sync[w].items
    BY <1>1, <1>8 DEF StateOf
  <2>2. \A st \in StoredSet' : st \in StoredSet \/ st = sync'[w].state
    BY <1>2, <1>8, StoredBy
  <2>3. \A st \in StoredSet' :
          \/ st \in StoredSet
          \/ st.head.items \cap Edit \subseteq st.items \cup wiped' \cup forgotten'
    BY <2>1, <2>2
  <2> QED
    BY <1>1, <1>2, <1>5, <1>6, <1>8, <2>3, PreservedBy
<1>9. ~Ended(w) => /\ slot' = slot /\ prov.items = sync[w].items
                   /\ sync'[w].state = StateOf(room', prov, TRUE)
                   /\ \A v \in Syncer : v # w => sync'[v] = sync[v]
  BY ApplyForm
<1> QED
  BY <1>7, <1>8, <1>9

\* An agent's write takes the room's edits with it into the document.
LEMMA CommitPreserved ==
    ASSUME Sound, Sound', Preserved, Next, AgentCommit, slot'.pc = "adopt"
    PROVE  Preserved'
<1>1. /\ Loaded /\ room' = room /\ sync' = sync /\ slot.pc = "commit" /\ slot.item \in Agent
      /\ kept' = kept \cup slot.blocks \cup {slot.item}
      /\ file'.items = slot.blocks \cup {slot.item} /\ cache' = cache /\ load' = load
  BY CommitForm DEF Advances, AgentCommit
<1>2. Lost \subseteq Lost'
  BY LostGrows DEF Lost
<1>3. StoredSet' \subseteq StoredSet
  BY <1>1, StoredSame
<1>4. file'.stamp # 0
  BY StampGrows DEF Preserved
<1>5. load.pc # "import" /\ slot.item \notin Edit
  BY <1>1, CollaborationAssumption DEF Sound, Shape
<1>6. kept' \cap Edit \subseteq file'.items \cup Lost'
  BY <1>1, <1>2 DEF Preserved
<1>7. kept' \cap Edit \subseteq room'.items \cup Lost'
  BY <1>1, <1>2, <1>5 DEF Preserved
<1>8. \A st \in StoredSet' : st.head.items \cap Edit \subseteq st.items \cup Lost'
  BY <1>2, <1>3 DEF Preserved
<1> QED
  BY <1>1, <1>4, <1>5, <1>6, <1>7, <1>8 DEF Preserved

LEMMA AdoptPreserved ==
    ASSUME Sound, Sound', Origins, Preserved, Next, AgentAdopt, Adopted
    PROVE  Preserved'
<1>1. /\ Loaded /\ Loaded' /\ sync' = sync
      /\ kept' = kept /\ file' = file /\ load' = load /\ cache' = cache
  BY DEF Adopted, AgentAdopt, docVars
<1>2. Lost \subseteq wiped' \cup forgotten' /\ prov.items \subseteq kept
  BY LostGrows DEF Lost, Origins, Origin
<1>3. /\ slot'.pc \in {"store", "release"}
      /\ slot'.state.items = room'.items /\ slot'.state.head = prov
      /\ room.items \cap Edit \subseteq room'.items \cup wiped' \cup forgotten'
  <2>1. \/ /\ slot'.pc \in {"store", "release"} /\ room.items \subseteq room'.items
           /\ \E b \in BOOLEAN : slot'.state = StateOf(room', prov, b)
        \/ /\ slot'.pc \in {"store", "release"} /\ room'.items = slot.blocks
           /\ wiped' = wiped \cup ((room.items \ slot.blocks) \cap Edit)
           /\ \E b \in BOOLEAN : slot'.state = StateOf(room', prov, b)
        \/ Resyncs(room, "follow")
    BY AdoptForm
  <2>2. ~Resyncs(room, "follow")
    BY <1>1, BusyLoaded DEF Resyncs, AgentAdopt
  <2>3. slot'.pc \in {"store", "release"} /\ \E b \in BOOLEAN : slot'.state = StateOf(room', prov, b)
    BY <2>1, <2>2
  <2>4. slot'.state.items = room'.items /\ slot'.state.head = prov
    BY <2>3 DEF StateOf
  <2>5. room.items \cap Edit \subseteq room'.items \cup wiped'
    BY <2>1, <2>2
  <2> QED
    BY <2>3, <2>4, <2>5
<1>4. kept \cap Edit \subseteq room'.items \cup wiped' \cup forgotten'
  BY <1>1, <1>2, <1>3 DEF Preserved
<1>5. \A st \in StoredSet' : st \in StoredSet \/ st = slot'.state
  BY <1>1, StoredSame
<1>6. \A st \in StoredSet' :
        \/ st \in StoredSet
        \/ st.head.items \cap Edit \subseteq st.items \cup wiped' \cup forgotten'
  BY <1>2, <1>3, <1>4, <1>5
<1>7. slot'.pc \notin {"compare", "write", "commit"}
  BY <1>3
<1> QED
  BY <1>1, <1>4, <1>6, <1>7, PreservedBy

LEMMA PreservedStep ==
    ASSUME Sound, Sound', Origins, Preserved, Next
    PROVE  Preserved'
<1>1. CASE Quiet
  BY <1>1, QuietPreserved
<1>2. CASE LoadRead \/ LoadImport
  BY <1>2, LoadPreserved
<1>3. CASE \/ PersistStat /\ slot'.pc = "export"
           \/ PersistExport \/ PersistCompare \/ PersistSettle
           \/ PersistRecord \/ PersistState \/ PersistLand
  BY <1>3, SavesPreserved
<1>4. CASE PersistWrite
  BY <1>4, WritePreserved
<1>5. CASE \/ (\E x \in External : ExternalWrite(x)) \/ (\E a \in Agent : AgentCold(a))
           \/ WatcherEvent \/ AgentHold
           \/ (\E w \in Syncer : SyncRead(w) /\ sync'[w].pc = "apply")
  BY <1>5, OutsidePreserved
<1>6. CASE \E w \in Syncer : SyncApply(w) /\ Replaces(w)
  BY <1>6, ReplacePreserved
<1>7. CASE AgentCommit /\ slot'.pc = "adopt"
  BY <1>7, CommitPreserved
<1>8. CASE AgentAdopt /\ Adopted
  BY <1>8, AdoptPreserved
<1> QED
  BY <1>1, <1>2, <1>3, <1>4, <1>5, <1>6, <1>7, <1>8, QuietStep

\* What the document was given is not taken back.
LEMMA KeptGrows ==
    ASSUME Sound, Next
    PROVE  kept \subseteq kept'
<1>1. CASE Undocumented
  BY <1>1, UndocumentedForm
<1>2. CASE LoadImport \/ PersistSettle \/ PersistWrite \/ PersistRecord \/ PersistLand
  BY <1>2 DEF LoadImport, PersistSettle, PersistWrite, PersistRecord, PersistLand, ghostVars
<1>3. CASE (\E w \in Syncer : SyncCache(w)) \/ (\E x \in External : ExternalWrite(x))
             \/ WatcherEvent \/ (\E a \in Agent : AgentCold(a))
  BY <1>3 DEF SyncCache, ExternalWrite, WatcherEvent, AgentCold, ghostVars
<1>4. CASE AgentCommit \/ AgentStore \/ MoveFile \/ Rekey \/ Crash
  BY <1>4 DEF AgentCommit, AgentStore, MoveFile, Rekey, Crash, ghostVars
<1> QED
  BY <1>1, <1>2, <1>3, <1>4, DocSteps

\* Which steps change the saved generation of a room.
LEMMA SavedStep ==
    ASSUME Sound, Next, Loaded'
    PROVE  \/ Loaded /\ room'.saved = room.saved
           \/ LoadImport \/ PersistSettle \/ PersistLand
           \/ (\E w \in Syncer : SyncApply(w) /\ Replaces(w))
           \/ (AgentAdopt /\ Adopted)
<1>1. ASSUME room' = room PROVE Loaded /\ room'.saved = room.saved
  BY <1>1 DEF Loaded
<1>2. ASSUME Follows PROVE Loaded /\ room'.saved = room.saved
  BY <1>2 DEF Follows, Grows
<1>3. ASSUME Stays PROVE Loaded /\ room'.saved = room.saved
  BY <1>3, NoneAssumption DEF Stays, Alike, Loaded
<1>4. CASE Beside
  BY <1>1, <1>4, BesideForm
<1>5. ASSUME NEW c \in Client, Attach(c) \/ Receive(c) \/ Drop(c)
      PROVE  Loaded /\ room'.saved = room.saved
  <2>1. CASE Attach(c)
    BY <1>2, <2>1, AttachForm
  <2>2. ASSUME Detached(c, room), told' = told PROVE Loaded /\ room'.saved = room.saved
    BY <1>1, <1>2, <2>2, DetachedForm DEF Loaded
  <2>3. CASE Receive(c)
    BY <1>1, <1>2, <2>2, <2>3, ReceiveForm
  <2>4. CASE Drop(c)
    BY <2>2, <2>4 DEF Drop
  <2> QED
    BY <1>5, <2>1, <2>3, <2>4
<1>6. CASE PersistTimer \/ UnloadBegin \/ BarrierDrain \/ BarrierEnd
  BY <1>1, <1>2, <1>6, RunSteps, BarrierEndForm DEF Loaded
<1>7. CASE PersistStat \/ PersistExport \/ PersistFails
  BY <1>2, <1>7, StatForm, ExportForm, FailsForm
<1>8. CASE PersistCompare \/ PersistRecord
  BY <1>8, CompareForm, RecordForm DEF Keeps
<1>9. CASE PersistWrite \/ PersistState
  BY <1>1, <1>9, WriteForm, StateForm
<1>10. CASE WatcherEvent
  BY <1>3, <1>10, WatcherForm
<1>11. ASSUME NEW w \in Syncer, SyncRead(w) \/ SyncApply(w) \/ SyncCache(w) \/ SyncFails(w)
       PROVE  \/ Loaded /\ room'.saved = room.saved
              \/ SyncApply(w) /\ Replaces(w)
  BY <1>1, <1>3, <1>11, ReadForm, ApplyForm, CacheForm
<1>12. CASE (\E a \in Agent : AgentBegin(a)) \/ AgentCheck \/ AgentTyped
  BY <1>1, <1>3, <1>12, BeginForm, CheckForm, TypedForm
<1>13. CASE AgentCommit \/ AgentFails \/ AgentStore
  BY <1>1, <1>13, CommitForm, GiveUpForm
<1>14. CASE AgentHold \/ AgentRelease
  BY <1>14, HoldForm, AgentReleaseForm DEF Copy, Grows
<1>15. CASE Rekey
  BY <1>1, <1>15, RekeyForm DEF Rekey
<1>16. CASE UnloadEnd
  BY <1>1, <1>16 DEF UnloadEnd, Destroyed, Loaded
<1>17. CASE Crash
  BY <1>17 DEF Crash, Loaded
<1>18. CASE AgentAdopt
  BY <1>1, <1>18, AdoptForm
<1>19. CASE Save
  BY <1>7, <1>8, <1>9, <1>19 DEF Save
<1>20. CASE AgentStep
  BY <1>12, <1>13, <1>14, <1>18, <1>20 DEF AgentStep
<1>21. CASE BarrierStep
  BY <1>4, <1>6, <1>15, <1>21 DEF BarrierStep, Beside
<1>22. CASE System
  BY <1>4, <1>5, <1>6, <1>10, <1>11, <1>16, <1>19, <1>20, <1>21, <1>22 DEF System, Beside
<1>23. CASE Environment
  BY <1>4, <1>5, <1>6, <1>7, <1>11, <1>12, <1>13, <1>17, <1>23 DEF Environment, Beside
<1> QED
  BY <1>22, <1>23 DEF Next

\* A room that counts as saved shows nothing the document was not given, and a
\* save about to end has exported what the room still shows.
Clean ==
  Loaded =>
    /\ room.gen = room.saved => room.items \subseteq kept
    /\ slot.pc \in {"settle", "land"} /\ slot.gen = room.gen => room.items = slot.blocks

\* Whatever changes what a room shows counts as a change.
LEMMA GenStep ==
    ASSUME Sound, Next, Loaded'
    PROVE  \/ /\ Loaded /\ room.gen <= room'.gen
              /\ room'.gen = room.gen => room'.items = room.items
           \/ LoadImport
<1>1. Loaded => room.gen \in Nat
  BY DEF Sound, TypeOK, RoomTypes, Rooms, Loaded
<1> DEFINE Goes == /\ Loaded /\ room.gen <= room'.gen
                   /\ room'.gen = room.gen => room'.items = room.items
<1>2. ASSUME room' = room PROVE Goes
  BY <1>1, <1>2 DEF Loaded
<1>3. ASSUME Grows PROVE Goes
  BY <1>3 DEF Grows
<1>4. ASSUME Keeps PROVE Goes
  BY <1>1, <1>4 DEF Keeps, Same
<1>5. ASSUME Loaded, room'.gen = room.gen + 1 PROVE Goes
  BY <1>1, <1>5
<1> SUFFICES Goes \/ LoadImport
  OBVIOUS
<1> HIDE DEF Goes
<1>6. CASE Quiet
  BY <1>3, <1>6 DEF Quiet
<1>7. CASE LoadRead \/ (\E x \in External : ExternalWrite(x)) \/ (\E a \in Agent : AgentCold(a))
  BY <1>2, <1>7, BesideForm DEF Beside
<1>8. CASE PersistStat \/ PersistExport \/ PersistWrite \/ PersistState
  BY <1>2, <1>3, <1>8, StatForm, ExportForm, WriteForm, StateForm DEF Follows
<1>9. CASE PersistCompare \/ PersistSettle \/ PersistRecord \/ PersistLand
  BY <1>4, <1>9, CompareForm, SettleForm, RecordForm, LandForm
<1>10. CASE \E w \in Syncer : SyncRead(w) /\ sync'[w].pc = "apply"
  BY <1>2, <1>10, ReadForm DEF Ended, Syncer
<1>11. CASE \E w \in Syncer : SyncApply(w) /\ Replaces(w)
  BY <1>5, <1>11 DEF Replaces
<1>12. CASE WatcherEvent
  <2>1. Stays
    BY <1>12, WatcherForm
  <2> QED
    BY <1>1, <2>1, NoneAssumption DEF Stays, Alike, Loaded, Goes
<1>13. CASE AgentHold
  <2>1. Loaded /\ Copy(room', room)
    BY <1>13, HoldForm
  <2> QED
    BY <1>1, <2>1 DEF Copy, Goes
<1>14. CASE AgentCommit
  BY <1>2, <1>14, CommitForm
<1>15. CASE AgentAdopt /\ Adopted
  BY <1>5, <1>15 DEF Adopted
<1> QED
  BY <1>6, <1>7, <1>8, <1>9, <1>10, <1>11, <1>12, <1>13, <1>14, <1>15, QuietStep

\* A save is about to end only once it has compared or written.
LEMMA EndingStep ==
    ASSUME Sound, Next, slot'.pc \in {"settle", "land"}
    PROVE  slot' = slot \/ PersistCompare \/ PersistState
<1>1. CASE Quiet
  BY <1>1 DEF Quiet, Lays, Working
<1>2. CASE LoadRead \/ (\E x \in External : ExternalWrite(x)) \/ (\E a \in Agent : AgentCold(a))
  BY <1>2, BesideForm DEF Beside
<1>3. CASE LoadImport \/ WatcherEvent \/ AgentHold
  BY <1>3, ImportForm, WatcherForm, HoldForm
<1>4. CASE PersistExport \/ PersistWrite \/ PersistRecord
  BY <1>4, ExportForm, WriteForm, RecordForm
<1>5. CASE PersistSettle \/ PersistLand
  <2>1. Returns /\ slot.pc \in Saving
    BY <1>5, SettleForm, LandForm DEF PersistSettle, PersistLand, Saving
  <2>2. Lays
    BY <2>1, ReturnsQuiet
  <2> QED
    BY <2>2 DEF Lays, Working
<1>6. CASE \E w \in Syncer : SyncRead(w) /\ sync'[w].pc = "apply"
  BY <1>6, ReadForm DEF Ended, Syncer
<1>7. CASE \E w \in Syncer : SyncApply(w)
  BY <1>7, ApplyForm, EndedQuiet DEF Lays, Working
<1>8. CASE AgentAdopt /\ Adopted
  BY <1>8, AdoptForm DEF Resyncs
<1> QED
  BY <1>1, <1>2, <1>3, <1>4, <1>5, <1>6, <1>7, <1>8, QuietStep

LEMMA CleanStep ==
    ASSUME Sound, Sound', Origins, Origins', Truth, Clean, Next
    PROVE  Clean'
<1>0. kept \subseteq kept'
  BY KeptGrows
<1>1. Loaded => /\ room.saved \in Nat /\ room.gen \in Nat /\ room.saved <= room.gen
                /\ slot.gen \in Nat /\ slot.gen <= room.gen
  BY SlotTask DEF Sound, Shape, TypeOK, RoomTypes, RoomFits, Rooms, Loaded
<1>2. SUFFICES ASSUME Loaded' PROVE Clean'
  BY DEF Clean
<1>3. room'.gen \in Nat /\ room'.saved \in Nat /\ slot'.gen \in Nat
  BY <1>2 DEF Sound, TypeOK, RoomTypes, Rooms, Slots, Loaded
<1>4. CASE LoadImport
  <2>1. slot'.pc = "idle"
    BY <1>4, ImportForm
  <2>2. /\ room'.gen = 1
        /\ \/ room'.items = load.items
           \/ /\ cache # None /\ cache.head = prov /\ room'.items = cache.items
              /\ room'.saved = 1 => cache.matches
    BY <1>4, ImportForm
  <2>3. cache # None => cache \in StoredSet
    BY DEF StoredSet
  <2>4. load.items \subseteq kept /\ prov.items \subseteq kept
    BY DEF Origins, Origin
  <2>5. room'.saved = 1 => room'.items \subseteq kept
    BY <2>2, <2>3, <2>4 DEF Truth, Matched
  <2> QED
    BY <1>0, <2>1, <2>2, <2>5 DEF Clean
<1>5. CASE ~LoadImport
  <2>1. /\ Loaded /\ room.gen <= room'.gen
        /\ room'.gen = room.gen => room'.items = room.items
    BY <1>2, <1>5, GenStep
  <2>2. room'.gen = room'.saved => room'.items \subseteq kept'
    <3>1. CASE room'.saved = room.saved
      <4>1. room'.gen = room'.saved => room'.gen = room.gen /\ room.gen = room.saved
        BY <1>1, <1>3, <2>1, <3>1
      <4> QED
        BY <1>0, <2>1, <4>1 DEF Clean
    <3>2. CASE PersistSettle \/ PersistLand
      <4>1. /\ room'.saved \in {room.saved, slot.gen} /\ Keeps /\ slot.pc \in {"settle", "land"}
        BY <3>2, SettleForm, LandForm DEF PersistSettle, PersistLand
      <4>2. room'.gen = room.gen
        BY <4>1 DEF Keeps, Same
      <4>3. slot.blocks \subseteq kept
        BY <4>1 DEF Origins, Origin
      <4>4. CASE room'.saved = slot.gen
        BY <1>0, <2>1, <4>1, <4>2, <4>3, <4>4 DEF Clean
      <4> QED
        BY <3>1, <4>1, <4>4
    <3>3. CASE \E w \in Syncer : SyncApply(w) /\ Replaces(w)
      BY <1>0, <3>3 DEF Replaces, Origins, Origin
    <3>4. CASE AgentAdopt /\ Adopted
      <4>1. slot.blocks \subseteq kept /\ room'.gen = room.gen + 1
        BY <3>4, AdoptForm DEF Origins, Origin, Adopted
      <4>2. room'.saved = room.saved \/ room'.items = slot.blocks
        <5>1. \/ room'.saved = room.saved \/ room'.items = slot.blocks
              \/ Resyncs(room, "follow")
          BY <3>4, AdoptForm
        <5>2. ~Resyncs(room, "follow")
          BY <3>4, AdoptForm, BusyLoaded DEF Resyncs, Adopted
        <5> QED
          BY <5>1, <5>2
      <4>3. room'.saved = room.saved => room'.gen # room'.saved
        BY <1>1, <2>1, <4>1
      <4> QED
        BY <1>0, <4>1, <4>2, <4>3
    <3> QED
      BY <1>2, <1>5, <3>1, <3>2, <3>3, <3>4, SavedStep
  <2>3. slot'.pc \in {"settle", "land"} /\ slot'.gen = room'.gen => room'.items = slot'.blocks
    <3>1. CASE slot' = slot
      <4>1. slot.gen = room'.gen => slot.gen = room.gen /\ room'.gen = room.gen
        BY <1>1, <1>3, <2>1
      <4> QED
        BY <2>1, <3>1, <4>1 DEF Clean
    <3>2. CASE PersistCompare \/ PersistState
      <4>1. /\ slot.pc \in {"compare", "state"} /\ room'.gen = room.gen /\ room'.items = room.items
        BY <3>2, CompareForm, StateForm DEF PersistCompare, PersistState, Keeps, Same
      <4>2. slot.gen = room.gen => room.items = slot.blocks
        BY <2>1, <4>1 DEF Truth, Matched
      <4>3. slot'.pc \in {"settle", "land"} => slot'.gen = slot.gen /\ slot'.blocks = slot.blocks
        <5>1. CASE PersistState
          BY <5>1, StateForm
        <5>2. CASE PersistCompare
          <6>1. Returns => slot'.pc \notin {"settle", "land"}
            BY <5>2, ReturnsQuiet DEF Lays, Working, PersistCompare, Saving
          <6> QED
            BY <5>2, <6>1, CompareForm DEF Resyncs
        <5> QED
          BY <3>2, <5>1, <5>2
      <4> QED
        BY <4>1, <4>2, <4>3
    <3> QED
      BY <3>1, <3>2, EndingStep
  <2> QED
    BY <2>2, <2>3 DEF Clean
<1> QED
  BY <1>4, <1>5

\* While a capture is in progress no agent's write has the slot, and no save is
\* one made for an agent.
Alone == Capturing => slot.task \in {"none", "persist", "failed"}

\* What a capture that begins while a move is under way would be.
Moving == barrier.pc = "rekey" => barrier.kind = "move"

\* A save that starts for whoever waits for it, and knows the room it is of.
Starts ==
  /\ Loaded' /\ slot'.task = "persist" /\ slot'.pc \in {"stat", "sync"}
  /\ slot'.key = room'.key
  /\ slot'.pc = "sync" => /\ sync'["slot"].pc = "read" /\ sync'["slot"].key = room'.key
                          /\ sync'["slot"].token = room'.gen

LEMMA StartsForm ==
    ASSUME NEW r \in Rooms, NEW sy \in [Syncer -> Syncs],
           StartPersist(r, sy, [IdleSlot EXCEPT !.task = "persist"])
    PROVE  Starts /\ room'.items = r.items /\ room'.gen = r.gen
<1> DEFINE owed == r.required # None /\ r.required = r.gen
           r1 == IF owed THEN r ELSE [r EXCEPT !.required = None]
<1>1. r1 \in Rooms /\ Alike(r1, r)
  BY AlikeRooms
<1>2. /\ room' = r1
      /\ slot' = [IdleSlot EXCEPT !.task = "persist", !.pc = IF owed THEN "sync" ELSE "stat",
                                  !.key = r1.key]
      /\ owed => sync' = [sy EXCEPT !["slot"] = SyncOf(r1, r1.required)]
  BY DEF StartPersist, IdleSlot
<1>3. /\ slot'.task = "persist" /\ slot'.pc \in {"stat", "sync"} /\ slot'.key = r1.key
      /\ slot'.pc = "sync" => owed
  BY <1>2 DEF IdleSlot
<1>4. owed => r1 = r /\ r1.required = r1.gen /\ r1.required \in Nat
  BY DEF Rooms
<1> HIDE DEF r1, owed
<1>5. owed => /\ sync'["slot"].pc = "read" /\ sync'["slot"].key = r1.key
              /\ sync'["slot"].token = r1.gen
  BY <1>1, <1>2, <1>4, SyncOfForm DEF Syncer
<1>6. Loaded'
  BY <1>1, <1>2, NoneAssumption DEF Loaded
<1> QED
  BY <1>1, <1>2, <1>3, <1>5, <1>6 DEF Starts, Alike

\* How the save of whoever waits for it ends.
LEMMA PersistReturn ==
    ASSUME NEW r \in Rooms, NEW sy \in [Syncer -> Syncs], slot.task = "persist",
           SlotReturn(r, sy, TRUE)
    PROVE  \/ ~r.again /\ slot' = IdleSlot /\ room' = r
           \/ Starts /\ room'.items = r.items /\ room'.gen = r.gen
<1>1. SlotFree(r, sy, "persist")
  BY Stages DEF SlotReturn
<1>2. r # None
  BY NoneAssumption
<1>3. CASE r.again
  <2>1. StartPersist([r EXCEPT !.again = FALSE], sy, [IdleSlot EXCEPT !.task = "persist"])
    BY <1>1, <1>2, <1>3 DEF SlotFree
  <2>2. [r EXCEPT !.again = FALSE] \in Rooms /\ Alike([r EXCEPT !.again = FALSE], r)
    BY AlikeRooms
  <2> QED
    BY <2>1, <2>2, StartsForm DEF Alike
<1>4. CASE ~r.again
  BY <1>1, <1>2, <1>4 DEF SlotFree
<1> QED
  BY <1>3, <1>4

LEMMA PersistGivesUp ==
    ASSUME NEW r, NEW sy, slot.task = "persist", SlotReturn(r, sy, FALSE)
    PROVE  slot'.pc = "idle" /\ slot'.task = "failed" /\ room' = r
<1>1. room' = r /\ slot' = [IdleSlot EXCEPT !.task = "failed"]
  BY Stages DEF SlotReturn
<1> QED
  BY <1>1 DEF IdleSlot

\* How a barrier goes on.
LEMMA BarrierSteps ==
    ASSUME Sound, Next
    PROVE  \/ barrier' = barrier
           \/ \E kind \in Barriers : BarrierBegin(kind)
           \/ barrier' = IdleBarrier
           \/ /\ barrier.pc # "idle" /\ barrier'.pc # "idle" /\ barrier'.kind = barrier.kind
              /\ BarrierDrain \/ BarrierDrained \/ Captured \/ MoveFile \/ Rekey
<1>1. barrier \in [pc : {"idle", "settle", "drain", "hold", "rekey", "end"},
                   kind : {"none", "move", "capture"}]
  BY DEF Sound, TypeOK, WatchTypes
<1>2. CASE Inner
  BY <1>2, InnerForm
<1>3. CASE (\E c \in Client : Connect(c)) \/ LoadRead \/ LoadImport \/ UnloadBegin \/ UnloadEnd
  BY <1>3 DEF Connect, LoadRead, LoadImport, UnloadBegin, UnloadEnd
<1>4. CASE Crash \/ BarrierEnd
  BY <1>4 DEF Crash, BarrierEnd
<1>5. ASSUME NEW p \in {"drain", "hold", "rekey", "end"}, barrier' = [barrier EXCEPT !.pc = p],
             barrier.pc # "idle"
      PROVE  barrier.pc # "idle" /\ barrier'.pc # "idle" /\ barrier'.kind = barrier.kind
  BY <1>1, <1>5
<1>6. CASE BarrierDrain \/ BarrierDrained \/ Captured \/ MoveFile \/ Rekey
  BY <1>5, <1>6 DEF BarrierDrain, BarrierDrained, Captured, MoveFile, Rekey
<1> QED
  BY <1>2, <1>3, <1>4, <1>6, OuterSteps

\* A capture in progress began as one.
LEMMA CaptureBegins ==
    ASSUME Sound, Next, Capturing'
    PROVE  Capturing \/ BarrierBegin("capture")
<1>1. ASSUME NEW kind \in Barriers, BarrierBegin(kind)
      PROVE  BarrierBegin("capture")
  <2>1. barrier'.kind = kind
    BY <1>1 DEF BarrierBegin
  <2> QED
    BY <1>1, <2>1 DEF Capturing
<1> QED
  BY <1>1, BarrierSteps DEF Capturing, IdleBarrier

LEMMA MovingStep ==
    ASSUME Sound, Moving, Next
    PROVE  Moving'
<1>1. CASE \E kind \in Barriers : BarrierBegin(kind)
  BY <1>1 DEF BarrierBegin, Moving
<1>2. CASE BarrierDrain \/ BarrierDrained \/ Captured \/ Rekey
  <2>1. barrier \in [pc : {"idle", "settle", "drain", "hold", "rekey", "end"},
                     kind : {"none", "move", "capture"}]
    BY DEF Sound, TypeOK, WatchTypes
  <2>2. barrier'.pc # "rekey"
    BY <1>2, <2>1 DEF BarrierDrain, BarrierDrained, Captured, Rekey
  <2> QED
    BY <2>2 DEF Moving
<1>3. CASE MoveFile
  BY <1>3, BarrierSteps DEF MoveFile, Moving, BarrierBegin, IdleBarrier
<1> QED
  BY <1>1, <1>2, <1>3, BarrierSteps DEF Moving, IdleBarrier

\* A capture leaves the slot to saves that are waited for: no agent's write begins.
LEMMA SlotTasks ==
    ASSUME Sound, slot.task \in {"none", "persist", "failed"}
    PROVE  /\ slot.pc \in Saving \cup {"sync"} => slot.task = "persist"
           /\ slot.pc \notin {"check", "typed", "hold"} \cup Handing
  BY Stages DEF Sound, Shape

LEMMA PersistTasks ==
    ASSUME NEW r, NEW sy, NEW ok, slot.task = "persist", SlotReturn(r, sy, ok)
    PROVE  slot'.task \in {"none", "persist", "failed"}
<1>1. SlotFree(r, sy, "persist") \/ slot' = [IdleSlot EXCEPT !.task = "failed"]
  BY Stages DEF SlotReturn
<1>2. CASE SlotFree(r, sy, "persist")
  <2>1. \/ slot' = IdleSlot
        \/ \E q : StartPersist(q, sy, [IdleSlot EXCEPT !.task = "persist"])
    BY <1>2 DEF SlotFree
  <2>2. ASSUME NEW q, StartPersist(q, sy, [IdleSlot EXCEPT !.task = "persist"])
        PROVE  slot'.task = "persist"
    <3>1. \E p, k : slot' = [[IdleSlot EXCEPT !.task = "persist"] EXCEPT !.pc = p, !.key = k]
      BY <2>2 DEF StartPersist
    <3> QED
      BY <3>1 DEF IdleSlot
  <2>3. slot' = IdleSlot => slot'.task = "none"
    BY DEF IdleSlot
  <2>4. slot'.task \in {"none", "persist"}
    BY <2>1, <2>2, <2>3, Zenon
  <2> QED
    BY <2>4
<1>3. CASE slot' = [IdleSlot EXCEPT !.task = "failed"]
  BY <1>3 DEF IdleSlot
<1> QED
  BY <1>1, <1>2, <1>3

LEMMA DoneTasks ==
    ASSUME slot.task = "persist", NEW w, NEW r, NEW sy, NEW ok, SyncDone(w, r, sy, ok)
    PROVE  slot'.task \in {"none", "persist", "failed"}
  BY PersistTasks DEF SyncDone

LEMMA AloneStep ==
    ASSUME Sound, Alone, Next
    PROVE  Alone'
<1> SUFFICES ASSUME Capturing' PROVE slot'.task \in {"none", "persist", "failed"}
  BY DEF Alone
<1>1. CASE BarrierBegin("capture")
  BY <1>1 DEF BarrierBegin, roomVars
<1> SUFFICES ASSUME Capturing PROVE slot'.task \in {"none", "persist", "failed"}
  BY <1>1, CaptureBegins
<1>2. /\ slot.task \in {"none", "persist", "failed"}
      /\ slot.pc \in Saving \cup {"sync"} => slot.task = "persist"
      /\ slot.pc \notin {"check", "typed", "hold"} \cup Handing
      /\ sync \in [Syncer -> Syncs] /\ slot \in Slots /\ (Busy => room \in Rooms)
  BY SlotTasks, BusyLoaded DEF Alone
<1>3. CASE Beside \/ Rekey \/ BarrierEnd
  BY <1>2, <1>3, BesideForm DEF Rekey, BarrierEnd
<1>4. CASE PersistTimer \/ UnloadBegin \/ BarrierDrain
  BY <1>2, <1>4, RunSteps DEF Runs
<1>5. CASE PersistStat
  <2>1. slot.task = "persist"
    BY <1>2, <1>5 DEF PersistStat, Saving
  <2>2. SlotReturn(room, sync, TRUE) \/ slot'.task = slot.task
    BY <1>2, <1>5 DEF PersistStat, Slots
  <2> QED
    BY <1>2, <2>1, <2>2, PersistTasks
<1>6. CASE PersistExport \/ PersistWrite \/ PersistRecord \/ PersistState
  BY <1>2, <1>6, ExportForm, WriteForm, RecordForm, StateForm
<1>7. CASE PersistCompare
  <2>1. slot.task = "persist"
    BY <1>2, <1>7 DEF PersistCompare, Saving
  <2>2. (\E r : SlotReturn(r, sync, TRUE)) \/ slot'.task = slot.task
    BY <1>2, <1>7 DEF PersistCompare, Slots
  <2> QED
    BY <1>2, <2>1, <2>2, PersistTasks
<1>8. CASE PersistSettle \/ PersistLand
  <2>1. slot.task = "persist"
    BY <1>2, <1>8 DEF PersistSettle, PersistLand, Saving
  <2>2. \E r : SlotReturn(r, sync, TRUE)
    BY <1>8 DEF PersistSettle, PersistLand
  <2> QED
    BY <2>1, <2>2, PersistTasks
<1>9. CASE PersistFails
  <2>1. slot.task = "persist"
    BY <1>2, <1>9 DEF PersistFails, Saving
  <2>2. SlotReturn(room, sync, FALSE)
    BY <1>9 DEF PersistFails
  <2> QED
    BY <2>1, <2>2, PersistTasks
<1>10. ASSUME NEW w \in Syncer, SyncRead(w) \/ SyncApply(w) \/ SyncCache(w) \/ SyncFails(w)
       PROVE  slot'.task \in {"none", "persist", "failed"}
  <2>1. sync[w].pc # "idle"
    BY <1>10 DEF SyncRead, SyncApply, SyncCache, SyncFails
  <2>2. w = "slot" => slot.task = "persist"
    BY <1>2, <2>1, BusyLoaded
  <2>3. slot' = slot \/ \E r, sy, ok : w = "slot" /\ SyncDone(w, r, sy, ok)
    <3>1. CASE SyncRead(w)
      BY <3>1 DEF SyncRead, SyncDone, Syncer
    <3>2. CASE SyncApply(w)
      BY <3>2 DEF SyncApply, SyncDone, Syncer
    <3>3. CASE SyncCache(w)
      BY <3>3 DEF SyncCache, SyncDone, Syncer
    <3>4. CASE SyncFails(w)
      BY <3>4 DEF SyncFails, SyncDone, Syncer
    <3> QED
      BY <1>10, <3>1, <3>2, <3>3, <3>4
  <2> QED
    BY <1>2, <2>2, <2>3, DoneTasks
<1>11. CASE WatcherEvent
  BY <1>2, <1>11, WatcherForm
<1>12. ASSUME NEW a \in Agent, AgentBegin(a)
       PROVE  FALSE
  BY <1>12 DEF AgentBegin
<1>13. ~AgentStep /\ ~AgentFails
  BY <1>2 DEF AgentStep, AgentCheck, AgentTyped, AgentHold, AgentCommit, AgentAdopt, AgentStore,
     AgentRelease, AgentFails, Handing
<1>14. CASE LoadImport \/ UnloadEnd \/ Crash
  <2>1. CASE LoadImport
    BY <1>2, <2>1, ImportForm
  <2>2. CASE UnloadEnd \/ Crash
    BY <1>2, <2>2 DEF UnloadEnd, Crash, IdleSlot
  <2> QED
    BY <1>14, <2>1, <2>2
<1>15. ASSUME NEW c \in Client, Attach(c) \/ Receive(c) \/ Drop(c)
       PROVE  slot' = slot
  BY <1>15 DEF Attach, Receive, Drop
<1>16. CASE Save
  BY <1>5, <1>6, <1>7, <1>8, <1>16 DEF Save
<1>17. CASE System
  BY <1>2, <1>3, <1>4, <1>10, <1>11, <1>13, <1>14, <1>15, <1>16, <1>17
     DEF System, BarrierStep, Beside
<1>18. CASE Environment
  BY <1>2, <1>3, <1>4, <1>9, <1>10, <1>12, <1>13, <1>14, <1>15, <1>18 DEF Environment, Beside
<1> QED
  BY <1>17, <1>18 DEF Next

-----------------------------------------------------------------------------
(* The frames that wait during a capture                                   *)

\* The frames accepted before the capture's cutoff come first.
Fronted(q) == \E k \in 0 .. Len(q) : \A i \in 1 .. Len(q) : q[i].early <=> i <= k
Unmarked(q) == \A i \in 1 .. Len(q) : ~q[i].early
EarlyBy(q) == UNION {q[i].body : i \in {j \in 1 .. Len(q) : q[j].early}}
Early == UNION {EarlyBy(queue[c]) : c \in Client}

\* A socket that is not open has no frames, and an attached client none that
\* the capture waits for.
Lines ==
  \A c \in Client :
    /\ conn[c] \in {"off", "upgrade", "orphan"} => queue[c] = <<>>
    /\ conn[c] \in {"off", "upgrade"} => out[c] = <<>>
    /\ Capturing => Fronted(queue[c])
    /\ Capturing /\ (conn[c] = "on" \/ barrier.pc # "settle") => Unmarked(queue[c])

LEMMA NoFront == Fronted(<<>>) /\ Unmarked(<<>>)
  BY DEF Fronted, Unmarked

LEMMA MarkedFront ==
    ASSUME NEW fs \in Seq(Frames)
    PROVE  \A q : q = [i \in DOMAIN fs |-> [fs[i] EXCEPT !.early = TRUE]]
             => Fronted(q) /\ EarlyBy(q) = UNION {fs[i].body : i \in DOMAIN fs}
<1>1. TAKE q
<1>2. HAVE q = [i \in DOMAIN fs |-> [fs[i] EXCEPT !.early = TRUE]]
<1>3. Len(fs) \in Nat /\ DOMAIN fs = 1 .. Len(fs) /\ \A i \in 1 .. Len(fs) : fs[i] \in Frames
  OBVIOUS
<1>4. Len(q) = Len(fs)
  BY <1>2, MarkTyped
<1>5. \A i \in 1 .. Len(q) : q[i].early /\ q[i].body = fs[i].body
  BY <1>2, <1>3, <1>4 DEF Frames
<1>6. Fronted(q)
  <2>1. Len(q) \in 0 .. Len(q) /\ \A i \in 1 .. Len(q) : q[i].early <=> i <= Len(q)
    BY <1>3, <1>4, <1>5
  <2> QED
    BY <2>1 DEF Fronted
<1>7. {j \in 1 .. Len(q) : q[j].early} = DOMAIN fs
  BY <1>3, <1>4, <1>5
<1> QED
  BY <1>3, <1>4, <1>5, <1>6, <1>7 DEF EarlyBy

LEMMA AppendFront ==
    ASSUME NEW q \in Seq(Frames), NEW f \in Frames, ~f.early
    PROVE  /\ Fronted(q) => Fronted(Append(q, f))
           /\ Unmarked(q) => Unmarked(Append(q, f))
           /\ EarlyBy(Append(q, f)) = EarlyBy(q)
<1> DEFINE p == Append(q, f)
<1>1. /\ Len(q) \in Nat /\ Len(p) = Len(q) + 1 /\ p[Len(q) + 1] = f
      /\ \A i \in 1 .. Len(q) : p[i] = q[i]
  OBVIOUS
<1> HIDE DEF p
<1>2. Fronted(q) => Fronted(p)
  <2> SUFFICES ASSUME Fronted(q) PROVE Fronted(p)
    OBVIOUS
  <2>1. PICK k \in 0 .. Len(q) : \A i \in 1 .. Len(q) : q[i].early <=> i <= k
    BY DEF Fronted
  <2>2. k \in 0 .. Len(p)
    BY <1>1, <2>1
  <2>3. ASSUME NEW i \in 1 .. Len(p) PROVE p[i].early <=> i <= k
    <3>1. CASE i = Len(q) + 1
      BY <1>1, <2>1, <3>1
    <3>2. CASE i \in 1 .. Len(q)
      BY <1>1, <2>1, <3>2
    <3> QED
      BY <1>1, <2>3, <3>1, <3>2
  <2> QED
    BY <2>2, <2>3 DEF Fronted
<1>3. Unmarked(q) => Unmarked(p)
  <2> SUFFICES ASSUME Unmarked(q), NEW i \in 1 .. Len(p) PROVE ~p[i].early
    BY DEF Unmarked
  <2>1. i = Len(q) + 1 \/ i \in 1 .. Len(q)
    BY <1>1
  <2> QED
    BY <1>1, <2>1 DEF Unmarked
<1>4. {j \in 1 .. Len(p) : p[j].early} = {j \in 1 .. Len(q) : q[j].early}
  <2>1. \A j : j \in 1 .. Len(p) <=> j \in 1 .. Len(q) \/ j = Len(q) + 1
    BY <1>1
  <2> QED
    BY <1>1, <2>1
<1>5. EarlyBy(p) = EarlyBy(q)
  BY <1>1, <1>4 DEF EarlyBy
<1> QED
  BY <1>2, <1>3, <1>5 DEF p

\* Under a pause, without an agent's commit, the frames before the cutoff pass.
LEMMA FrontPassing ==
    ASSUME NEW r \in Rooms, ~r.hold, NEW q \in Seq(Frames), Fronted(q)
    PROVE  /\ Unmarked(Waiting(r, TRUE, q))
           /\ EarlyBy(Waiting(r, TRUE, q)) = {}
           /\ Edits(Ready(r, TRUE, q)) = EarlyBy(q)
           /\ Unmarked(q) => EarlyBy(q) = {}
<1>1. PICK k \in 0 .. Len(q) : \A i \in 1 .. Len(q) : q[i].early <=> i <= k
  BY DEF Fronted
<1>2. Len(q) \in Nat /\ DOMAIN q = 1 .. Len(q)
  OBVIOUS
<1>3. {i \in DOMAIN q : ~Held(r, TRUE, q[i])} = 1 .. k
  BY <1>1, <1>2 DEF Held
<1>4. Passing(r, TRUE, q) = k
  <2>1. k \in Nat /\ 1 .. k \in SUBSET (1 .. k)
    BY <1>1, <1>2
  <2>2. Cardinality(1 .. k) = k
    BY <2>1, Counted
  <2> QED
    BY <1>3, <2>2 DEF Passing
<1>5. /\ Waiting(r, TRUE, q) = SubSeq(q, k + 1, Len(q))
      /\ Ready(r, TRUE, q) = [i \in 1 .. k |-> q[i].body]
  BY <1>4 DEF Waiting, Ready
<1> DEFINE w == SubSeq(q, k + 1, Len(q))
<1>6. Len(w) = Len(q) - k /\ \A i \in 1 .. Len(w) : w[i] = q[i + k]
  <2>1. /\ Len(w) = (IF k + 1 <= Len(q) THEN Len(q) - (k + 1) + 1 ELSE 0)
        /\ \A i \in 1 .. Len(w) : w[i] = q[(k + 1) + i - 1]
    BY <1>1, <1>2
  <2> HIDE DEF w
  <2>2. Len(w) = Len(q) - k
    <3>1. k \in Nat /\ k <= Len(q)
      BY <1>1, <1>2
    <3>2. \A a, b \in Nat : a <= b => (IF a + 1 <= b THEN b - (a + 1) + 1 ELSE 0) = b - a
      OBVIOUS
    <3> QED
      BY <1>2, <2>1, <3>1, <3>2
  <2>3. \A i \in 1 .. Len(w) : (k + 1) + i - 1 = i + k
    BY <1>1
  <2> QED
    BY <2>1, <2>2, <2>3
<1> HIDE DEF w
<1>7. Unmarked(w)
  <2> SUFFICES ASSUME NEW i \in 1 .. Len(w) PROVE ~w[i].early
    BY DEF Unmarked
  <2>1. i + k \in 1 .. Len(q) /\ ~(i + k <= k)
    BY <1>1, <1>2, <1>6
  <2> QED
    BY <1>1, <1>6, <2>1
<1>8. {j \in 1 .. Len(q) : q[j].early} = 1 .. k
  BY <1>1, <1>2
<1>9. Edits(Ready(r, TRUE, q)) = EarlyBy(q)
  <2> DEFINE b == [i \in 1 .. k |-> q[i].body]
  <2>1. DOMAIN b = 1 .. k /\ \A i \in 1 .. k : b[i] = q[i].body
    OBVIOUS
  <2> HIDE DEF b
  <2>2. UNION {b[i] : i \in DOMAIN b} = UNION {q[i].body : i \in 1 .. k}
    BY <2>1
  <2>3. Edits(b) = UNION {b[i] : i \in DOMAIN b}
    BY DEF Edits
  <2>4. EarlyBy(q) = UNION {q[i].body : i \in 1 .. k}
    BY <1>8 DEF EarlyBy
  <2>5. Ready(r, TRUE, q) = b
    BY <1>5 DEF b
  <2> QED
    BY <2>2, <2>3, <2>4, <2>5
<1>10. ASSUME NEW s, Unmarked(s) PROVE EarlyBy(s) = {}
  BY <1>10 DEF Unmarked, EarlyBy
<1> QED
  BY <1>5, <1>7, <1>9, <1>10 DEF w

\* What neither touches the queues nor lets a capture begin.
LEMMA LinesSame ==
    ASSUME Lines, conn' = conn, queue' = queue, out' = out, Capturing' => Capturing,
           Capturing' /\ barrier'.pc # "settle"
             => barrier.pc # "settle" \/ \A c \in Client : Unmarked(queue[c])
    PROVE  Lines'
  BY DEF Lines

\* One client's socket changes.
LEMMA LinesBy ==
    ASSUME Sound, Sound', Lines, NEW c \in Client, barrier' = barrier,
           \A d \in Client : d # c => conn'[d] = conn[d] /\ queue'[d] = queue[d] /\ out'[d] = out[d],
           conn'[c] \in {"off", "upgrade", "orphan"} => queue'[c] = <<>>,
           conn'[c] \in {"off", "upgrade"} => out'[c] = <<>>,
           Capturing => Fronted(queue'[c]),
           Capturing /\ (conn'[c] = "on" \/ barrier.pc # "settle") => Unmarked(queue'[c])
    PROVE  Lines'
<1>1. Capturing' = Capturing
  BY DEF Capturing
<1> SUFFICES ASSUME NEW d \in Client
             PROVE  /\ conn'[d] \in {"off", "upgrade", "orphan"} => queue'[d] = <<>>
                    /\ conn'[d] \in {"off", "upgrade"} => out'[d] = <<>>
                    /\ Capturing => Fronted(queue'[d])
                    /\ Capturing /\ (conn'[d] = "on" \/ barrier.pc # "settle") => Unmarked(queue'[d])
  BY <1>1 DEF Lines
<1>2. CASE d = c
  BY <1>2
<1>3. CASE d # c
  <2>1. conn'[d] = conn[d] /\ queue'[d] = queue[d] /\ out'[d] = out[d]
    BY <1>3
  <2> QED
    BY <2>1 DEF Lines
<1> QED
  BY <1>2, <1>3

LEMMA DetachedLines ==
    ASSUME Sound, Sound', Lines, NEW c \in Client, Detached(c, room), barrier' = barrier
    PROVE  Lines'
<1>1. /\ conn \in [Client -> {"off", "upgrade", "pending", "joining", "on", "orphan"}]
      /\ queue \in [Client -> Seq(Frames)] /\ out \in [Client -> Seq(SUBSET Edit)]
  BY DEF Sound, TypeOK, ClientTypes
<1>2. /\ conn' = [conn EXCEPT ![c] = "off"] /\ queue' = [queue EXCEPT ![c] = <<>>]
      /\ out' = [out EXCEPT ![c] = <<>>]
  BY DEF Detached
<1>3. conn'[c] = "off" /\ queue'[c] = <<>> /\ out'[c] = <<>>
  BY <1>1, <1>2
<1>4. \A d \in Client : d # c => conn'[d] = conn[d] /\ queue'[d] = queue[d] /\ out'[d] = out[d]
  BY <1>1, <1>2
<1> QED
  BY <1>3, <1>4, NoFront, LinesBy

\* No agent's commit is under way during a capture.
LEMMA CaptureUnheld ==
    ASSUME Sound, Alone, Capturing
    PROVE  /\ slot.pc \notin {"check", "typed", "hold"} \cup Handing
           /\ slot.pc \in Saving \cup {"sync"} => slot.task = "persist"
           /\ Loaded => ~room.hold
<1>1. /\ slot.pc \in Saving \cup {"sync"} => slot.task = "persist"
      /\ slot.pc \notin {"check", "typed", "hold"} \cup Handing
  BY SlotTasks DEF Alone
<1>2. Loaded => room.hold = (slot.pc \in Handing \/ (slot.pc = "sync" /\ slot.task = "follow"))
  BY DEF Sound, TypeOK, RoomFits
<1> QED
  BY <1>1, <1>2

\* The frames of a client that attaches during a capture: those before the
\* cutoff are applied.
LEMMA AttachPasses ==
    ASSUME Sound, Alone, Lines, Capturing, NEW c \in Client, Attach(c)
    PROVE  /\ Unmarked(queue'[c]) /\ Fronted(queue'[c]) /\ EarlyBy(queue'[c]) = {}
           /\ room'.key = room.key /\ (room.again => room'.again)
           /\ room'.items \subseteq room.items \cup EarlyBy(queue[c])
           /\ EarlyBy(queue[c]) \subseteq room'.items \cup room.gone
           /\ Unmarked(queue[c]) => room'.gen = room.gen
<1>1. /\ queue \in [Client -> Seq(Frames)] /\ (Loaded => room \in Rooms)
      /\ Loaded /\ ~room.hold
  BY CaptureUnheld, BusyLoaded DEF Sound, TypeOK, ClientTypes, Attach, Shape
<1> DEFINE r == [room EXCEPT !.clients = @ \cup {c}, !.idle = FALSE]
           bodies == Ready(r, TRUE, queue[c])
<1>2. /\ r \in Rooms /\ r.hold = room.hold /\ r.items = room.items /\ r.gone = room.gone
      /\ r.gen = room.gen /\ r.key = room.key /\ r.again = room.again
  <2>1. conn \in [Client -> {"off", "upgrade", "pending", "joining", "on", "orphan"}]
    BY DEF Sound, TypeOK, ClientTypes
  <2> QED
    BY <1>1 DEF Rooms
<1>3. Paused
  BY DEF Paused, Capturing
<1>4. /\ room' = Applied(r, bodies)
      /\ queue' = [queue EXCEPT ![c] = Waiting(r, TRUE, queue[c])]
  BY <1>3 DEF Attach
<1>5. Edits(bodies) \in SUBSET Edit /\ Signalled(bodies) \in BOOLEAN
  <2>1. \A i \in DOMAIN bodies : bodies[i] \in SUBSET Edit
    <3> HIDE DEF r
    <3> QED
      BY <1>1, <1>2, QueueForm
  <2> QED
    BY <2>1 DEF Edits, Signalled
<1> HIDE DEF r
<1>6. /\ Unmarked(Waiting(r, TRUE, queue[c])) /\ EarlyBy(Waiting(r, TRUE, queue[c])) = {}
      /\ Edits(bodies) = EarlyBy(queue[c])
      /\ Unmarked(queue[c]) => EarlyBy(queue[c]) = {}
  BY <1>1, <1>2, FrontPassing DEF Lines
<1>7. queue'[c] = Waiting(r, TRUE, queue[c])
  BY <1>1, <1>4
<1>8. Unmarked(queue'[c]) => Fronted(queue'[c])
  <2>1. Waiting(r, TRUE, queue[c]) \in Seq(Frames)
    BY <1>1, <1>2, QueueForm
  <2>2. \A w \in Seq(Frames) : Unmarked(w) => Fronted(w)
    <3> SUFFICES ASSUME NEW w \in Seq(Frames), Unmarked(w) PROVE Fronted(w)
      OBVIOUS
    <3>1. Len(w) \in Nat
      OBVIOUS
    <3>2. 0 \in 0 .. Len(w) /\ \A i \in 1 .. Len(w) : ~(i <= 0)
      BY <3>1
    <3> QED
      BY <3>2 DEF Unmarked, Fronted
  <2> QED
    BY <1>7, <2>1, <2>2
<1>9. Grown(r, room', Edits(bodies), Signalled(bodies))
  BY <1>2, <1>4, <1>5, MergedForm DEF Applied
<1> HIDE DEF bodies
<1>10. /\ room' = [r EXCEPT !.items = r.items \cup (Edits(bodies) \ (r.items \cup r.gone)),
               !.gen = r.gen + (IF Edits(bodies) \ (r.items \cup r.gone) = {} THEN 0 ELSE 1),
               !.timer = r.timer \/ Edits(bodies) \ (r.items \cup r.gone) # {},
               !.intent = r.intent \/ Signalled(bodies),
               !.igen = r.igen + (IF Signalled(bodies) THEN 1 ELSE 0)]
  BY <1>4 DEF Applied, Merged, bodies
<1>11. room'.items = r.items \cup (Edits(bodies) \ (r.items \cup r.gone))
       /\ room'.again = r.again
       /\ room'.gen = r.gen + (IF Edits(bodies) \ (r.items \cup r.gone) = {} THEN 0 ELSE 1)
  BY <1>2, <1>10 DEF Rooms
<1>12. r.gen + 0 = r.gen
  BY <1>2 DEF Rooms
<1>13. Unmarked(queue[c]) => room'.gen = room.gen
  BY <1>2, <1>6, <1>11, <1>12
<1> QED
  BY <1>2, <1>6, <1>7, <1>8, <1>9, <1>11, <1>13 DEF Grown

\* A frame that arrives during a capture waits, or its client is cut off.
LEMMA ReceiveWaits ==
    ASSUME Sound, Lines, NEW c \in Client, Receive(c), Paused
    PROVE  \/ Detached(c, room) /\ told' = told
           \/ /\ conn' = conn /\ room' = room /\ queue' = queue /\ shot' = shot
              /\ conn[c] = "orphan" /\ out' = [out EXCEPT ![c] = Tail(@)]
           \/ /\ conn' = conn /\ room' = room /\ shot' = shot
              /\ conn[c] \in {"pending", "joining", "on"}
              /\ out' = [out EXCEPT ![c] = Tail(@)]
              /\ \E f \in Frames : ~f.early /\ queue' = [queue EXCEPT ![c] = Append(@, f)]
<1> DEFINE f == [body |-> Head(out[c]), early |-> FALSE, before |-> FALSE]
<1>1. /\ conn \in [Client -> {"off", "upgrade", "pending", "joining", "on", "orphan"}]
      /\ out \in [Client -> Seq(SUBSET Edit)] /\ out[c] # <<>>
  BY DEF Sound, TypeOK, ClientTypes, Receive
<1>2. f \in Frames /\ ~f.early
  <2>1. Head(out[c]) \in SUBSET Edit
    BY <1>1
  <2> QED
    BY <2>1 DEF Frames
<1>3. Held(room, Paused, f)
  BY <1>2 DEF Held
<1>4. conn[c] \notin {"off", "upgrade"}
  BY <1>1 DEF Lines
<1>5. \/ Detached(c, room) /\ told' = told
      \/ /\ conn[c] = "orphan" /\ out' = [out EXCEPT ![c] = Tail(@)]
         /\ UNCHANGED <<conn, queue, room, told, shot>>
      \/ /\ conn[c] # "orphan" /\ out' = [out EXCEPT ![c] = Tail(@)]
         /\ queue' = [queue EXCEPT ![c] = Append(@, f)]
         /\ UNCHANGED <<conn, room, told, shot>>
  <2> HIDE DEF f
  <2>1. /\ \/ /\ conn[c] = "on" /\ ~Held(room, Paused, f)
              /\ room' = Applied(room, <<f.body>>)
              /\ told' = told \cup Announced(room, <<f.body>>)
              /\ out' = [out EXCEPT ![c] = Tail(@)]
              /\ UNCHANGED <<conn, queue, shot>>
           \/ /\ conn[c] # "orphan" /\ out' = [out EXCEPT ![c] = Tail(@)]
              /\ queue' = [queue EXCEPT ![c] = Append(@, f)]
              /\ UNCHANGED <<conn, room, told, shot>>
           \/ Detached(c, room) /\ told' = told
           \/ /\ conn[c] = "orphan" /\ out' = [out EXCEPT ![c] = Tail(@)]
              /\ UNCHANGED <<conn, queue, room, told, shot>>
    BY DEF Receive, f
  <2> QED
    BY <1>3, <2>1
<1> HIDE DEF f
<1> QED
  BY <1>1, <1>2, <1>4, <1>5

LEMMA SocketsLines ==
    ASSUME Sound, Sound', Alone, Lines, NEW c \in Client,
           \/ Attach(c) \/ Receive(c) \/ Drop(c) \/ Upgrade(c) \/ Connect(c)
           \/ \E e \in Edit : LocalEdit(c, e)
    PROVE  Lines'
<1>1. /\ conn \in [Client -> {"off", "upgrade", "pending", "joining", "on", "orphan"}]
      /\ queue \in [Client -> Seq(Frames)] /\ out \in [Client -> Seq(SUBSET Edit)]
  BY DEF Sound, TypeOK, ClientTypes
<1>2. Capturing => Paused
  BY DEF Capturing, Paused
<1>3. CASE Attach(c)
  <2>1. /\ barrier' = barrier /\ conn' = [conn EXCEPT ![c] = "on"]
        /\ \A d \in Client : d # c => queue'[d] = queue[d] /\ out'[d] = out[d]
    BY <1>1, <1>3 DEF Attach
  <2>2. conn'[c] = "on" /\ \A d \in Client : d # c => conn'[d] = conn[d]
    BY <1>1, <2>1
  <2> QED
    BY <1>3, <2>1, <2>2, AttachPasses, LinesBy
<1>4. CASE Receive(c)
  <2>1. barrier' = barrier
    BY <1>4 DEF Receive
  <2>2. CASE Detached(c, room)
    BY <2>1, <2>2, DetachedLines
  <2>3. CASE ~Detached(c, room)
    <3>1. /\ conn' = conn /\ out' = [out EXCEPT ![c] = Tail(@)] /\ out[c] # <<>>
          /\ queue' = queue \/ (conn[c] # "orphan" /\ \E f : queue' = [queue EXCEPT ![c] = Append(@, f)])
      BY <1>4, <2>3 DEF Receive
    <3>2. /\ conn[c] \notin {"off", "upgrade"}
          /\ \A d \in Client : d # c => conn'[d] = conn[d] /\ queue'[d] = queue[d] /\ out'[d] = out[d]
      BY <1>1, <3>1 DEF Lines
    <3>3. conn[c] = "orphan" => queue' = queue
      BY <3>1
    <3>4. CASE Capturing
      <4>1. queue' = queue \/ \E f \in Frames : ~f.early /\ queue' = [queue EXCEPT ![c] = Append(@, f)]
        BY <1>2, <1>4, <2>3, <3>4, ReceiveWaits
      <4>2. \/ queue'[c] = queue[c]
            \/ \E f \in Frames : ~f.early /\ queue'[c] = Append(queue[c], f)
        BY <1>1, <4>1
      <4>3. /\ Fronted(queue'[c])
            /\ Unmarked(queue[c]) => Unmarked(queue'[c])
        BY <1>1, <3>4, <4>2, AppendFront DEF Lines
      <4>4. /\ conn'[c] \in {"off", "upgrade", "orphan"} => queue'[c] = <<>>
            /\ conn'[c] \in {"off", "upgrade"} => out'[c] = <<>>
            /\ conn'[c] = "on" \/ barrier.pc # "settle" => Unmarked(queue'[c])
        BY <3>1, <3>2, <3>3, <3>4, <4>3 DEF Lines
      <4> QED
        BY <2>1, <3>2, <4>3, <4>4, LinesBy
    <3>5. CASE ~Capturing
      <4>1. /\ conn'[c] \in {"off", "upgrade", "orphan"} => queue'[c] = <<>>
            /\ conn'[c] \in {"off", "upgrade"} => out'[c] = <<>>
        BY <3>1, <3>2, <3>3 DEF Lines
      <4> QED
        BY <2>1, <3>2, <3>5, <4>1, LinesBy
    <3> QED
      BY <3>4, <3>5
  <2> QED
    BY <2>2, <2>3
<1>5. CASE Drop(c)
  BY <1>5, DetachedLines DEF Drop
<1>6. CASE Upgrade(c) \/ Connect(c)
  <2>1. /\ barrier' = barrier /\ queue' = queue
        /\ \A d \in Client : d # c => conn'[d] = conn[d] /\ out'[d] = out[d]
    BY <1>1, <1>6 DEF Upgrade, Connect
  <2>2. /\ conn[c] \in {"off", "upgrade"}
        /\ \/ conn'[c] \in {"off", "upgrade"} /\ out'[c] = out[c]
           \/ conn'[c] \in {"pending", "joining"}
    BY <1>1, <1>6 DEF Upgrade, Connect
  <2>3. queue[c] = <<>> /\ out[c] = <<>> /\ Unmarked(queue[c]) /\ Fronted(queue[c])
    BY <2>2, NoFront DEF Lines
  <2>4. queue'[c] = <<>> /\ Unmarked(queue'[c]) /\ Fronted(queue'[c])
        /\ \A d \in Client : queue'[d] = queue[d]
    BY <2>1, <2>3
  <2>5. conn'[c] \in {"off", "upgrade"} => out'[c] = <<>>
    BY <2>2, <2>3
  <2> QED
    BY <2>1, <2>4, <2>5, LinesBy
<1>7. CASE \E e \in Edit : LocalEdit(c, e)
  <2>1. /\ barrier' = barrier /\ queue' = queue /\ conn' = conn
        /\ \A d \in Client : d # c => out'[d] = out[d]
        /\ conn[c] \in {"off", "upgrade"} => out'[c] = out[c]
    BY <1>1, <1>7 DEF LocalEdit
  <2>2. /\ conn'[c] \in {"off", "upgrade", "orphan"} => queue'[c] = <<>>
        /\ conn'[c] \in {"off", "upgrade"} => out'[c] = <<>>
        /\ Capturing => Fronted(queue'[c])
        /\ Capturing /\ (conn'[c] = "on" \/ barrier.pc # "settle") => Unmarked(queue'[c])
    BY <2>1 DEF Lines
  <2> QED
    BY <2>1, <2>2, LinesBy
<1> QED
  BY <1>3, <1>4, <1>5, <1>6, <1>7

LEMMA BeginLines ==
    ASSUME Sound, Lines, NothingStranded, BarrierBegin("capture")
    PROVE  Lines' /\ Early' = Queued
<1>1. /\ conn \in [Client -> {"off", "upgrade", "pending", "joining", "on", "orphan"}]
      /\ queue \in [Client -> Seq(Frames)]
  BY DEF Sound, TypeOK, ClientTypes
<1>2. /\ conn' = conn /\ out' = out /\ barrier'.pc = "settle"
      /\ queue' = [c \in Client |-> [i \in DOMAIN queue[c] |-> [queue[c][i] EXCEPT !.early = TRUE]]]
  BY DEF BarrierBegin
<1>3. ASSUME NEW c \in Client
      PROVE  /\ Fronted(queue'[c]) /\ EarlyBy(queue'[c]) = QueuedBy(c)
             /\ queue[c] = <<>> => queue'[c] = <<>>
  <2>1. queue'[c] = [i \in DOMAIN queue[c] |-> [queue[c][i] EXCEPT !.early = TRUE]]
    BY <1>2
  <2>2. queue[c] \in Seq(Frames)
    BY <1>1
  <2>3. queue'[c] \in Seq(Frames) /\ Len(queue'[c]) = Len(queue[c])
    BY <2>1, <2>2, MarkTyped
  <2> QED
    BY <2>1, <2>2, <2>3, MarkedFront DEF QueuedBy
<1>4. \A c \in Client : conn[c] = "on" => queue[c] = <<>>
  <2>1. /\ ~Loaded => \A c \in Client : conn[c] # "on"
        /\ slot.pc = "idle" => slot.task \in {"none", "failed"}
    BY DEF Sound, Shape
  <2>2. slot.task \in {"none", "persist", "failed"} /\ barrier.pc = "idle"
    BY DEF BarrierBegin
  <2>3. Loaded => ~room.hold
    <3>1. slot.pc \notin {"check", "typed", "hold"} \cup Handing
          /\ (slot.pc \in Saving \cup {"sync"} => slot.task = "persist")
      BY <2>2, SlotTasks
    <3>2. Loaded => room.hold = (slot.pc \in Handing \/ (slot.pc = "sync" /\ slot.task = "follow"))
      BY DEF Sound, TypeOK, RoomFits
    <3> QED
      BY <3>1, <3>2
  <2> QED
    BY <2>1, <2>2, <2>3 DEF NothingStranded
<1>5. Lines'
  <2> SUFFICES ASSUME NEW c \in Client
               PROVE  /\ conn'[c] \in {"off", "upgrade", "orphan"} => queue'[c] = <<>>
                      /\ conn'[c] \in {"off", "upgrade"} => out'[c] = <<>>
                      /\ Fronted(queue'[c])
                      /\ conn'[c] = "on" \/ barrier'.pc # "settle" => Unmarked(queue'[c])
    BY DEF Lines
  <2>1. conn[c] = "on" => queue'[c] = <<>>
    BY <1>3, <1>4
  <2> QED
    BY <1>2, <1>3, <2>1, NoFront DEF Lines
<1>6. Early' = UNION {EarlyBy(queue'[c]) : c \in Client}
  BY DEF Early
<1>7. UNION {EarlyBy(queue'[c]) : c \in Client} = UNION {QueuedBy(c) : c \in Client}
  BY <1>3
<1> QED
  BY <1>5, <1>6, <1>7 DEF Queued

\* When the capture drains, no frame before its cutoff is left.
LEMMA DrainLines ==
    ASSUME Sound, Lines, Capturing, BarrierDrain
    PROVE  \A c \in Client : Unmarked(queue[c])
<1>1. conn \in [Client -> {"off", "upgrade", "pending", "joining", "on", "orphan"}]
  BY DEF Sound, TypeOK, ClientTypes
<1> SUFFICES ASSUME NEW c \in Client PROVE Unmarked(queue[c])
  OBVIOUS
<1>2. conn[c] \in {"off", "upgrade", "orphan"} \/ conn[c] = "on"
  BY <1>1 DEF BarrierDrain
<1> QED
  BY <1>2, NoFront DEF Lines

LEMMA UnmarkedEarly ==
    ASSUME \A c \in Client : Unmarked(queue[c])
    PROVE  Early = {}
  BY DEF Unmarked, Early, EarlyBy

LEMMA LinesStep ==
    ASSUME Sound, Sound', Alone, NothingStranded, Lines, Next
    PROVE  Lines'
<1>1. CASE \E c \in Client : \/ Attach(c) \/ Receive(c) \/ Upgrade(c) \/ Connect(c)
                             \/ Drop(c) \/ \E e \in Edit : LocalEdit(c, e)
  BY <1>1, SocketsLines
<1>2. CASE BarrierBegin("capture")
  BY <1>2, BeginLines
<1>3. CASE ~BarrierBegin("capture") /\ conn' = conn /\ queue' = queue /\ out' = out
  <2>1. Capturing' => Capturing
    BY <1>3, CaptureBegins
  <2>2. Capturing' /\ barrier'.pc # "settle" /\ barrier.pc = "settle" => BarrierDrain
    <3>1. CASE barrier' = barrier \/ barrier' = IdleBarrier
      BY <3>1 DEF Capturing, IdleBarrier
    <3>2. CASE \E kind \in Barriers : BarrierBegin(kind)
      BY <3>2 DEF BarrierBegin
    <3>3. CASE BarrierDrain \/ BarrierDrained \/ Captured \/ MoveFile \/ Rekey
      BY <3>3 DEF BarrierDrained, Captured, MoveFile, Rekey
    <3> QED
      BY <3>1, <3>2, <3>3, BarrierSteps
  <2>3. Capturing' /\ barrier'.pc # "settle"
          => barrier.pc # "settle" \/ \A c \in Client : Unmarked(queue[c])
    BY <2>1, <2>2, DrainLines
  <2> QED
    BY <1>3, <2>1, <2>3, LinesSame
<1>4. CASE Apart
  <2>1. ~BarrierBegin("capture") \/ BarrierBegin("capture")
    OBVIOUS
  <2> QED
    BY <1>2, <1>3, <1>4, ApartForm DEF clientVars
<1>5. CASE PersistSettle \/ PersistRecord \/ (\E w \in Syncer : SyncApply(w)) \/ AgentAdopt
  <2>1. conn' = conn /\ queue' = queue /\ out' = out
    BY <1>5 DEF PersistSettle, PersistRecord, SyncApply, AgentAdopt
  <2> QED
    BY <1>2, <1>3, <2>1
<1>6. ASSUME ~Capturing',
             \A c \in Client :
               /\ conn'[c] \in {"off", "upgrade", "orphan"} => queue'[c] = <<>>
               /\ conn'[c] \in {"off", "upgrade"} => out'[c] = <<>>
      PROVE  Lines'
  BY <1>6 DEF Lines
<1>7. ASSUME NEW c \in Client, NEW fs \in Seq(Frames), fs = <<>>
      PROVE  /\ [i \in DOMAIN fs |-> [fs[i] EXCEPT !.before = TRUE]] = <<>>
             /\ [i \in DOMAIN fs |-> [fs[i] EXCEPT !.early = TRUE]] = <<>>
  BY <1>7
<1>8. queue \in [Client -> Seq(Frames)]
      /\ conn \in [Client -> {"off", "upgrade", "pending", "joining", "on", "orphan"}]
  BY DEF Sound, TypeOK, ClientTypes
<1>9. CASE AgentHold \/ ((\E kind \in Barriers : BarrierBegin(kind)) /\ ~BarrierBegin("capture"))
  <2>1. ~Capturing'
    <3>1. CASE AgentHold
      <4>1. ~Capturing /\ barrier' = barrier
        BY <3>1, CaptureUnheld DEF AgentHold
      <4> QED
        BY <4>1 DEF Capturing
    <3>2. CASE (\E kind \in Barriers : BarrierBegin(kind)) /\ ~BarrierBegin("capture")
      <4>1. ~Capturing
        BY <3>2 DEF BarrierBegin, Capturing
      <4> QED
        BY <3>2, <4>1, CaptureBegins
    <3> QED
      BY <1>9, <3>1, <3>2
  <2>2. conn' = conn /\ out' = out
    BY <1>9 DEF AgentHold, BarrierBegin
  <2>3. ASSUME NEW c \in Client, queue[c] = <<>> PROVE queue'[c] = <<>>
    <3>1. CASE AgentHold
      <4>1. queue'[c] = [i \in DOMAIN queue[c] |-> [queue[c][i] EXCEPT !.before = TRUE]]
        BY <3>1 DEF AgentHold
      <4> QED
        BY <1>7, <1>8, <2>3, <4>1
    <3>2. CASE \E kind \in Barriers : BarrierBegin(kind)
      <4>1. queue'[c] = [i \in DOMAIN queue[c] |-> [queue[c][i] EXCEPT !.early = TRUE]]
        BY <3>2 DEF BarrierBegin
      <4> QED
        BY <1>7, <1>8, <2>3, <4>1
    <3> QED
      BY <1>9, <3>1, <3>2
  <2> QED
    BY <1>6, <2>1, <2>2, <2>3 DEF Lines
<1>10. CASE AgentRelease \/ BarrierEnd
  <2>1. ~Capturing'
    <3>1. CASE AgentRelease
      <4>1. ~Capturing /\ barrier' = barrier
        BY <3>1, CaptureUnheld DEF AgentRelease, Handing
      <4> QED
        BY <4>1 DEF Capturing
    <3>2. CASE BarrierEnd
      BY <3>2 DEF BarrierEnd, Capturing, IdleBarrier
    <3> QED
      BY <1>10, <3>1, <3>2
  <2>2. conn' = conn /\ out' = out
    BY <1>10 DEF AgentRelease, BarrierEnd
  <2>3. ASSUME NEW c \in Client, conn[c] # "on" PROVE queue'[c] = queue[c]
    BY <1>10, <2>3 DEF AgentRelease, BarrierEnd, StillQueued
  <2> QED
    BY <1>6, <2>1, <2>2, <2>3 DEF Lines
<1>11. CASE LoadImport
  <2>1. /\ barrier' = barrier /\ queue' = queue /\ out' = out
        /\ \A c \in Client : conn'[c] = IF conn[c] = "pending" THEN "joining" ELSE conn[c]
    BY <1>8, <1>11 DEF LoadImport
  <2>2. Capturing' = Capturing
    BY <2>1 DEF Capturing
  <2> SUFFICES ASSUME NEW c \in Client
               PROVE  /\ conn'[c] \in {"off", "upgrade", "orphan"} => queue'[c] = <<>>
                      /\ conn'[c] \in {"off", "upgrade"} => out'[c] = <<>>
                      /\ Capturing => Fronted(queue'[c])
                      /\ Capturing /\ (conn'[c] = "on" \/ barrier'.pc # "settle")
                           => Unmarked(queue'[c])
    BY <2>2 DEF Lines
  <2> QED
    BY <2>1 DEF Lines
<1>12. CASE UnloadEnd
  <2>1. barrier' = barrier /\ out' = out
    BY <1>12 DEF UnloadEnd
  <2>2. Capturing' = Capturing
    BY <2>1 DEF Capturing
  <2> SUFFICES ASSUME NEW c \in Client
               PROVE  /\ conn'[c] \in {"off", "upgrade", "orphan"} => queue'[c] = <<>>
                      /\ conn'[c] \in {"off", "upgrade"} => out'[c] = <<>>
                      /\ Capturing => Fronted(queue'[c])
                      /\ Capturing /\ (conn'[c] = "on" \/ barrier'.pc # "settle")
                           => Unmarked(queue'[c])
    BY <2>2 DEF Lines
  <2>3. \/ conn'[c] = conn[c] /\ queue'[c] = queue[c]
        \/ conn[c] = "joining" /\ conn'[c] = "orphan" /\ queue'[c] = <<>>
    BY <1>12 DEF UnloadEnd, Destroyed
  <2> QED
    BY <2>1, <2>3, NoFront DEF Lines
<1>13. CASE Crash
  BY <1>6, <1>13 DEF Crash, Capturing, IdleBarrier
<1> QED
  BY <1>1, <1>2, <1>4, <1>5, <1>9, <1>10, <1>11, <1>12, <1>13, Steps

-----------------------------------------------------------------------------
(* What leaves the room                                                    *)

\* A room is destroyed by the end of its unloading, or by a crash.
LEMMA Destroys ==
    ASSUME Sound, Next, Loaded, ~Loaded'
    PROVE  UnloadEnd \/ Crash
<1> SUFFICES ASSUME ~UnloadEnd, ~Crash PROVE FALSE
  OBVIOUS
<1>1. room' # room
  BY DEF Loaded
<1>2. ~Follows
  BY DEF Follows, Grows
<1>3. ~Keeps
  BY DEF Keeps
<1>4. ~Stays
  BY NoneAssumption DEF Stays, Loaded
<1>5. CASE Beside
  BY <1>1, <1>5, BesideForm
<1>6. CASE PersistTimer \/ UnloadBegin \/ BarrierDrain \/ BarrierEnd
  BY <1>2, <1>6, RunSteps, BarrierEndForm
<1>7. CASE Save \/ PersistFails
  BY <1>1, <1>2, <1>3, <1>7, StatForm, ExportForm, FailsForm, CompareForm, SettleForm,
     RecordForm, LandForm, WriteForm, StateForm DEF Save
<1>8. CASE WatcherEvent
  BY <1>4, <1>8, WatcherForm
<1>9. ASSUME NEW w \in Syncer, SyncRead(w) \/ SyncApply(w) \/ SyncCache(w) \/ SyncFails(w)
       PROVE  FALSE
  <2>1. ~Replaces(w)
    BY DEF Replaces
  <2> QED
    BY <1>1, <1>4, <1>9, <2>1, ReadForm, ApplyForm, CacheForm
<1>10. CASE (\E a \in Agent : AgentBegin(a)) \/ AgentFails
  BY <1>1, <1>4, <1>10, BeginForm, GiveUpForm
<1>11. CASE AgentStep
  <2>1. ~Adopted
    BY DEF Adopted
  <2>2. CASE AgentCheck \/ AgentTyped \/ AgentCommit \/ AgentStore
    BY <1>1, <1>4, <2>2, CheckForm, TypedForm, CommitForm, GiveUpForm
  <2>3. CASE AgentAdopt
    BY <1>1, <2>1, <2>3, AdoptForm
  <2>4. CASE AgentHold
    BY <2>4, HoldForm
  <2>5. CASE AgentRelease
    BY <2>5, AgentReleaseForm DEF Grows
  <2> QED
    BY <1>11, <2>2, <2>3, <2>4, <2>5 DEF AgentStep
<1>12. CASE LoadImport
  BY <1>12, ImportForm
<1>13. CASE Rekey
  BY <1>13, RekeyForm DEF Grows
<1>14. ASSUME NEW c \in Client, Attach(c) \/ Receive(c) \/ Drop(c)
       PROVE  FALSE
  <2>1. CASE Attach(c)
    BY <1>2, <2>1, AttachForm
  <2>2. ASSUME Detached(c, room), told' = told PROVE FALSE
    BY <1>2, <2>2, DetachedForm
  <2>3. CASE Receive(c)
    BY <1>1, <1>2, <2>2, <2>3, ReceiveForm
  <2>4. CASE Drop(c)
    BY <2>2, <2>4 DEF Drop
  <2> QED
    BY <1>14, <2>1, <2>3, <2>4
<1>15. CASE System
  BY <1>5, <1>6, <1>7, <1>8, <1>9, <1>11, <1>12, <1>13, <1>14, <1>15 DEF System, BarrierStep, Beside
<1>16. CASE Environment
  BY <1>5, <1>6, <1>7, <1>9, <1>10, <1>14, <1>16 DEF Environment, Beside
<1> QED
  BY <1>15, <1>16 DEF Next

\* An edit leaves the room for the file, or with what is noted as lost.
LEMMA RoomLeaves ==
    ASSUME Sound, Sound', Origins, Next, ~Crash
    PROVE  InRoom \subseteq InRoom' \cup kept' \cup wiped' \cup forgotten'
<1> SUFFICES ASSUME Loaded, room.items \cap Edit \subseteq InRoom' \cup kept' \cup wiped' \cup forgotten'
                      => FALSE
             PROVE  FALSE
  BY DEF InRoom
<1>1. wiped \subseteq wiped' /\ forgotten \subseteq forgotten' /\ kept \subseteq kept'
  BY LostGrows, KeptGrows
<1>2. ASSUME Loaded', room.items \cap Edit \subseteq room'.items \cup wiped' PROVE FALSE
  BY <1>2 DEF InRoom
<1>3. CASE UnloadEnd
  <2>1. CASE Loaded'
    <3>1. room' = room
      BY <1>3, <2>1 DEF UnloadEnd, Destroyed, Loaded
    <3> QED
      BY <1>2, <2>1, <3>1
  <2>2. CASE ~Loaded'
    <3>1. forgotten' = forgotten \cup (InRoom \ file.items)
            \cup UNION {QueuedBy(c) : c \in {d \in Client : conn[d] = "joining"}}
      BY <1>3, <2>2 DEF UnloadEnd, Destroyed, Loaded
    <3>2. file.items \subseteq kept
      BY DEF Origins, Origin
    <3> QED
      BY <1>1, <3>1, <3>2 DEF InRoom
  <2> QED
    BY <2>1, <2>2
<1> SUFFICES ASSUME Loaded' PROVE FALSE
  BY <1>3, Destroys
<1>4. ASSUME room.items \subseteq room'.items PROVE FALSE
  BY <1>2, <1>4
<1>5. CASE Quiet
  BY <1>4, <1>5 DEF Quiet, Grows
<1>6. CASE LoadRead \/ LoadImport
  <2>1. load.pc # "idle"
    BY <1>6 DEF LoadRead, LoadImport
  <2> QED
    BY <2>1 DEF Sound, Shape
<1>7. CASE Save
  BY <1>4, <1>7, StatForm, ExportForm, CompareForm, SettleForm, WriteForm,
     RecordForm, StateForm, LandForm DEF Save, Follows, Grows, Keeps, Same
<1>8. ASSUME NEW w \in Syncer, SyncRead(w), sync'[w].pc = "apply" PROVE FALSE
  <2>1. Stays \/ room' = room
    BY <1>8, ReadForm
  <2> QED
    BY <1>4, <2>1 DEF Stays, Alike
<1>9. ASSUME NEW w \in Syncer, Replaces(w) PROVE FALSE
  BY <1>2, <1>9 DEF Replaces
<1>10. CASE WatcherEvent
  BY <1>4, <1>10, WatcherForm DEF Stays, Alike
<1>11. CASE (\E x \in External : ExternalWrite(x)) \/ (\E a \in Agent : AgentCold(a))
  BY <1>4, <1>11, BesideForm DEF Beside
<1>12. CASE AgentHold \/ AgentCommit
  BY <1>4, <1>12, HoldForm, CommitForm DEF Copy
<1>13. CASE AgentAdopt
  BY <1>2, <1>4, <1>13, AdoptForm
<1> QED
  BY <1>5, <1>6, <1>7, <1>8, <1>9, <1>10, <1>11, <1>12, <1>13, QuietStep DEF Save

-----------------------------------------------------------------------------
(* What a capture owes                                                     *)

\* While a capture goes on it owes no more, and allows what it allowed.
LEMMA ShotShrinks ==
    ASSUME Sound, Next, Capturing, Capturing'
    PROVE  shot'.allowed = shot.allowed /\ shot'.due \subseteq shot.due
<1>1. shot \in [due : SUBSET Edit, allowed : Content]
  BY DEF Sound, TypeOK, GhostTypes
<1>2. ASSUME NEW S, shot' = [shot EXCEPT !.due = @ \ S]
      PROVE  shot'.allowed = shot.allowed /\ shot'.due \subseteq shot.due
  BY <1>1, <1>2
<1> SUFFICES ASSUME shot' # shot, \A S : shot' # [shot EXCEPT !.due = @ \ S] PROVE FALSE
  BY <1>2
<1>3. CASE Unnoted
  BY <1>3, UnnotedForm DEF ghostVars
<1>4. ASSUME NEW c \in Client, Attach(c) \/ Receive(c) \/ Drop(c)
      PROVE  FALSE
  <2>1. ~Detached(c, room)
    BY DEF Detached
  <2> QED
    BY <1>4, <2>1 DEF Attach, Receive, Drop
<1>5. CASE LoadImport \/ PersistStat \/ PersistWrite \/ PersistFails
             \/ (\E w \in Syncer : SyncApply(w) \/ SyncFails(w))
  BY <1>5 DEF LoadImport, PersistStat, PersistWrite, PersistFails, SyncApply, SyncFails
<1>6. CASE (\E x \in External : ExternalWrite(x)) \/ (\E a \in Agent : AgentCold(a))
             \/ AgentCommit \/ AgentAdopt \/ AgentRelease
  BY <1>6 DEF ExternalWrite, AgentCold, AgentCommit, AgentAdopt, AgentRelease
<1>7. CASE \E kind \in Barriers : BarrierBegin(kind)
  BY <1>7 DEF BarrierBegin, Capturing
<1>8. CASE BarrierEnd \/ Crash
  <2>1. barrier' = IdleBarrier
    BY <1>8 DEF BarrierEnd, Crash
  <2> QED
    BY <2>1 DEF Capturing, IdleBarrier
<1>9. CASE UnloadEnd
  BY <1>9 DEF UnloadEnd, Destroyed
<1> QED
  BY <1>3, <1>4, <1>5, <1>6, <1>7, <1>8, <1>9, NotedSteps

LEMMA EarlyEdits ==
    ASSUME NEW q \in Seq(Frames)
    PROVE  EarlyBy(q) \subseteq Edit /\ EarlyBy(q) \subseteq UNION {q[i].body : i \in DOMAIN q}
<1>1. DOMAIN q = 1 .. Len(q) /\ \A i \in 1 .. Len(q) : q[i] \in Frames
  OBVIOUS
<1>2. \A i \in 1 .. Len(q) : q[i].body \in SUBSET Edit
  BY <1>1 DEF Frames
<1> QED
  BY <1>1, <1>2 DEF EarlyBy

LEMMA EarlyAt ==
    ASSUME NEW c \in Client, \A d \in Client : d # c => queue'[d] = queue[d]
    PROVE  /\ Early' \subseteq Early \cup EarlyBy(queue'[c])
           /\ Early \subseteq Early' \cup EarlyBy(queue[c])
<1>1. Early' = UNION {EarlyBy(queue'[d]) : d \in Client}
  BY DEF Early
<1>2. Early = UNION {EarlyBy(queue[d]) : d \in Client}
  BY DEF Early
<1>3. \A d \in Client : d # c => EarlyBy(queue'[d]) = EarlyBy(queue[d])
  OBVIOUS
<1> QED
  BY <1>1, <1>2, <1>3

\* The frames before the cutoff become no more; those that are applied are in
\* the room or were wiped, and what is dropped is no longer owed.
LEMMA EarlyStep ==
    ASSUME Sound, Alone, Lines, Truth, Next, Capturing, Capturing'
    PROVE  /\ Early' \subseteq Early
           /\ Early \cap shot'.due \subseteq Early' \cup InRoom' \cup InRoom
                                               \cup wiped' \cup forgotten'
<1>1. /\ conn \in [Client -> {"off", "upgrade", "pending", "joining", "on", "orphan"}]
      /\ queue \in [Client -> Seq(Frames)] /\ Paused
      /\ shot \in [due : SUBSET Edit, allowed : Content]
      /\ wiped \subseteq wiped'
  BY LostGrows DEF Sound, TypeOK, ClientTypes, GhostTypes, Paused, Capturing
<1>2. ASSUME queue' = queue
      PROVE  Early' = Early
  BY <1>2 DEF Early
<1>3. ASSUME NEW c \in Client, Detached(c, room)
      PROVE  /\ Early' \subseteq Early
             /\ Early \cap shot'.due \subseteq Early' \cup InRoom
  <2>1. queue'[c] = <<>> /\ \A d \in Client : d # c => queue'[d] = queue[d]
    BY <1>1, <1>3 DEF Detached
  <2>2. EarlyBy(queue'[c]) = {}
    BY <2>1 DEF EarlyBy
  <2>3. shot'.due = shot.due \ (QueuedBy(c) \ InRoom)
    BY <1>1, <1>3 DEF Detached
  <2>4. EarlyBy(queue[c]) \subseteq QueuedBy(c)
    BY <1>1, EarlyEdits DEF QueuedBy
  <2> QED
    BY <2>1, <2>2, <2>3, <2>4, EarlyAt
<1>4. ASSUME NEW c \in Client, Attach(c)
      PROVE  Early' \subseteq Early /\ Early \subseteq Early' \cup InRoom' \cup wiped'
  <2>1. \A d \in Client : d # c => queue'[d] = queue[d]
    BY <1>1, <1>4 DEF Attach
  <2>2. /\ EarlyBy(queue'[c]) = {}
        /\ EarlyBy(queue[c]) \subseteq room'.items \cup room.gone
    BY <1>4, AttachPasses
  <2>3. Loaded /\ Loaded'
    BY <1>4, AttachForm DEF Follows, Grows
  <2>4. room.gone \cap Edit \subseteq wiped
    BY <2>3 DEF Truth, Told
  <2>5. EarlyBy(queue[c]) \subseteq Edit
    BY <1>1, EarlyEdits
  <2>6. EarlyBy(queue[c]) \subseteq InRoom' \cup wiped'
    BY <1>1, <2>2, <2>3, <2>4, <2>5 DEF InRoom
  <2> QED
    BY <2>1, <2>2, <2>6, EarlyAt
<1>5. ASSUME NEW c \in Client, NEW f \in Frames, ~f.early,
             queue' = [queue EXCEPT ![c] = Append(@, f)]
      PROVE  Early' = Early
  <2>1. /\ queue'[c] = Append(queue[c], f) /\ \A d \in Client : d # c => queue'[d] = queue[d]
        /\ queue[c] \in Seq(Frames)
    BY <1>1, <1>5
  <2>2. EarlyBy(queue'[c]) = EarlyBy(queue[c])
    BY <1>5, <2>1, AppendFront
  <2>3. \A d \in Client : EarlyBy(queue'[d]) = EarlyBy(queue[d])
    BY <2>1, <2>2
  <2> QED
    BY <2>3 DEF Early
<1>6. ASSUME NEW c \in Client,
             \/ Attach(c) \/ Receive(c) \/ Upgrade(c) \/ Connect(c)
             \/ Drop(c) \/ \E e \in Edit : LocalEdit(c, e)
      PROVE  /\ Early' \subseteq Early
             /\ Early \cap shot'.due \subseteq Early' \cup InRoom' \cup InRoom \cup wiped'
  <2>1. CASE Attach(c)
    BY <1>4, <2>1
  <2>2. CASE Receive(c)
    BY <1>1, <1>2, <1>3, <1>5, <2>2, ReceiveWaits
  <2>3. CASE Drop(c)
    BY <1>3, <2>3 DEF Drop
  <2>4. CASE Upgrade(c) \/ Connect(c) \/ \E e \in Edit : LocalEdit(c, e)
    BY <1>2, <2>4 DEF Upgrade, Connect, LocalEdit
  <2> QED
    BY <1>6, <2>1, <2>2, <2>3, <2>4
<1>7. CASE Apart
  BY <1>2, <1>7, ApartForm DEF clientVars
<1>8. CASE LoadImport \/ PersistSettle \/ PersistRecord \/ (\E w \in Syncer : SyncApply(w))
             \/ AgentAdopt
  BY <1>2, <1>8 DEF LoadImport, PersistSettle, PersistRecord, SyncApply, AgentAdopt
<1>9. ~AgentHold /\ ~AgentRelease
  BY CaptureUnheld DEF AgentHold, AgentRelease, Handing
<1>10. ~BarrierEnd /\ ~Crash /\ ~(\E kind \in Barriers : BarrierBegin(kind))
  <2>1. barrier' # IdleBarrier /\ barrier.pc # "idle"
    BY DEF Capturing, IdleBarrier
  <2> QED
    BY <2>1 DEF BarrierEnd, Crash, BarrierBegin
<1>11. CASE UnloadEnd
  <2>1. CASE queue' = queue
    BY <1>2, <2>1
  <2>2. CASE queue' # queue
    <3>1. /\ \A c \in Client : queue'[c] = IF conn[c] = "joining" THEN <<>> ELSE queue[c]
          /\ forgotten' = forgotten \cup (InRoom \ file.items)
               \cup UNION {QueuedBy(c) : c \in {d \in Client : conn[d] = "joining"}}
      BY <1>11, <2>2 DEF UnloadEnd, Destroyed
    <3>2. ASSUME NEW c \in Client
          PROVE  /\ EarlyBy(queue'[c]) \subseteq EarlyBy(queue[c])
                 /\ EarlyBy(queue[c]) \subseteq EarlyBy(queue'[c]) \cup forgotten'
      <4>1. EarlyBy(<<>>) = {}
        BY DEF EarlyBy
      <4>2. EarlyBy(queue[c]) \subseteq QueuedBy(c)
        BY <1>1, EarlyEdits DEF QueuedBy
      <4> QED
        BY <3>1, <4>1, <4>2
    <3>3. Early' = UNION {EarlyBy(queue'[d]) : d \in Client}
      BY DEF Early
    <3>4. Early = UNION {EarlyBy(queue[d]) : d \in Client}
      BY DEF Early
    <3> QED
      BY <3>2, <3>3, <3>4
  <2> QED
    BY <2>1, <2>2
<1> QED
  BY <1>6, <1>7, <1>8, <1>9, <1>10, <1>11, Steps

\* What the capture still owes.
Owed == shot.due \ Lost

\* A save is under way that writes whatever the room shows of it.
Coming ==
  /\ slot.task = "persist" /\ slot.key = room.key
  /\ \/ slot.pc = "stat"
     \/ slot.pc = "export" /\ slot.stat # 0
     \/ /\ slot.pc = "sync" /\ sync["slot"].pc \in {"read", "apply"}
        /\ sync["slot"].key = room.key /\ sync["slot"].token \in {None, room.gen}
     \/ slot.pc \in {"compare", "write"} /\ slot.stat # 0 /\ Owed \subseteq kept \cup slot.blocks

\* The drain has what it owes in the file, or its save failed, or one is under
\* way or asked for.
Hand ==
  \/ Owed \subseteq kept
  \/ ~Busy /\ slot.task = "failed"
  \/ Busy /\ room.again
  \/ Coming

Due ==
  Capturing =>
    /\ barrier.pc = "settle" => Owed \subseteq kept \cup InRoom \cup Early
    /\ barrier.pc = "drain" => Owed \subseteq kept \cup InRoom /\ Hand
    /\ barrier.pc = "hold" => Owed \subseteq kept

LEMMA OwedStep ==
    ASSUME Sound, Sound', Origins, Alone, Lines, Truth, Next, Capturing, Capturing'
    PROVE  /\ Owed' \subseteq Owed
           /\ Owed \subseteq kept => Owed' \subseteq kept'
           /\ Owed \subseteq kept \cup InRoom => Owed' \subseteq kept' \cup InRoom'
           /\ Owed \subseteq kept \cup InRoom \cup Early
                => Owed' \subseteq kept' \cup InRoom' \cup Early'
<1>1. Owed' = shot'.due \ (wiped' \cup forgotten') /\ Owed = shot.due \ (wiped \cup forgotten)
  BY DEF Owed, Lost
<1>2. /\ shot'.due \subseteq shot.due /\ kept \subseteq kept'
      /\ wiped \subseteq wiped' /\ forgotten \subseteq forgotten'
  BY ShotShrinks, KeptGrows, LostGrows
<1>3. ~Crash
  BY DEF Crash, Capturing, IdleBarrier
<1>4. InRoom \subseteq InRoom' \cup kept' \cup wiped' \cup forgotten'
  BY <1>3, RoomLeaves
<1>5. Early \cap shot'.due \subseteq Early' \cup InRoom' \cup InRoom \cup wiped' \cup forgotten'
  BY EarlyStep
<1> QED
  BY <1>1, <1>2, <1>4, <1>5

LEMMA StartsComing ==
    ASSUME Starts
    PROVE  Hand'
  BY DEF Starts, Hand, Coming

\* Another save was asked for, and begins when this one returns.
LEMMA AgainComing ==
    ASSUME NEW r \in Rooms, NEW sy \in [Syncer -> Syncs], slot.task = "persist",
           SlotReturn(r, sy, TRUE), r.again
    PROVE  Hand'
  BY PersistReturn, StartsComing

LEMMA GivesUpHand ==
    ASSUME NEW r, NEW sy, slot.task = "persist", SlotReturn(r, sy, FALSE)
    PROVE  Hand'
<1>1. slot'.pc = "idle" /\ slot'.task = "failed"
  BY PersistGivesUp
<1> QED
  BY <1>1 DEF Hand, Busy

LEMMA SpentAgain ==
    ASSUME NEW r \in Rooms, NEW had, NEW igen, NEW gen
    PROVE  Spent(r, had, igen).again = r.again /\ Saved(r, gen).again = r.again
  BY DEF Spent, Saved, Rooms

\* What every step of the slot finds: the capture's save, at the document's path.
Draining == /\ Sound /\ Origins /\ Paths /\ Moving /\ Preserved /\ Clean /\ Alone
            /\ Capturing /\ barrier.pc = "drain"
            /\ Hand /\ Owed \subseteq kept \cup InRoom
            /\ Owed' \subseteq Owed /\ (Owed \subseteq kept => Owed' \subseteq kept')

LEMMA DrainFinds ==
    ASSUME Draining, slot.pc \in Saving \cup {"sync"}
    PROVE  /\ slot.task = "persist" /\ Loaded /\ room \in Rooms /\ slot \in Slots
           /\ sync \in [Syncer -> Syncs] /\ room.key = file.path /\ file.stamp # 0
           /\ InRoom = room.items \cap Edit
           /\ Owed' \subseteq kept' \/ (~(Owed \subseteq kept) /\ (room.again \/ Coming))
<1>1. slot.task = "persist"
  BY CaptureUnheld DEF Draining
<1>2. Busy
  BY DEF Busy, Saving
<1>3. Loaded /\ room \in Rooms /\ slot \in Slots /\ sync \in [Syncer -> Syncs]
  BY <1>2, BusyLoaded DEF Draining
<1>4. room.key = file.path /\ file.stamp # 0
  BY <1>3 DEF Draining, Paths, Preserved
<1>5. InRoom = room.items \cap Edit
  BY <1>3 DEF InRoom
<1>6. Owed' \subseteq kept' \/ (~(Owed \subseteq kept) /\ (room.again \/ Coming))
  BY <1>2 DEF Draining, Hand
<1> QED
  BY <1>1, <1>3, <1>4, <1>5, <1>6

LEMMA StatHands ==
    ASSUME Draining, PersistStat
    PROVE  Hand'
<1>1. /\ slot.task = "persist" /\ Loaded /\ room \in Rooms /\ slot \in Slots
      /\ sync \in [Syncer -> Syncs] /\ room.key = file.path /\ file.stamp # 0
      /\ InRoom = room.items \cap Edit
      /\ Owed' \subseteq kept' \/ (~(Owed \subseteq kept) /\ (room.again \/ Coming))
  BY DrainFinds DEF PersistStat, Saving
<1> SUFFICES ASSUME ~(Owed \subseteq kept), room.again \/ Coming PROVE Hand'
  BY <1>1 DEF Hand
<1>2. room.gen # room.saved
  BY <1>1 DEF Draining, Clean
<1>3. CASE slot'.pc = "sync" /\ room' = room /\ sync' = [sync EXCEPT !["slot"] = SyncOf(room, None)]
             /\ slot' = [slot EXCEPT !.pc = "sync"]
  <2>1. SyncOf(room, None).pc = "read" /\ SyncOf(room, None).key = room.key
        /\ SyncOf(room, None).token = None
    BY DEF SyncOf, IdleSync
  <2>2. sync'["slot"] = SyncOf(room, None)
    BY <1>1, <1>3 DEF Syncer
  <2>3. slot'.pc = "sync" /\ slot'.task = slot.task /\ slot'.key = slot.key
    BY <1>1, <1>3 DEF Slots
  <2>4. Busy'
    BY <2>3 DEF Busy
  <2> QED
    BY <1>1, <1>3, <2>1, <2>2, <2>3, <2>4 DEF Hand, Coming
<1>4. CASE room' = room /\ slot' = [slot EXCEPT !.pc = "export",
                                   !.stat = IF file.path = slot.key THEN file.stamp ELSE 0,
                                   !.known = slot'.known]
  <2>1. /\ slot'.pc = "export" /\ slot'.task = slot.task /\ slot'.key = slot.key
        /\ slot'.stat = IF file.path = slot.key THEN file.stamp ELSE 0
    BY <1>1, <1>4 DEF Slots
  <2>2. Busy'
    BY <2>1 DEF Busy
  <2> QED
    BY <1>1, <1>4, <2>1, <2>2 DEF Hand, Coming
<1>5. slot.pc = "stat"
  BY DEF PersistStat
<1>6. \/ room' = room /\ sync' = [sync EXCEPT !["slot"] = SyncOf(room, None)]
         /\ slot' = [slot EXCEPT !.pc = "sync"]
      \/ \E k : room' = room /\ slot' = [slot EXCEPT !.pc = "export",
                                   !.stat = IF file.path = slot.key THEN file.stamp ELSE 0,
                                   !.known = k]
  BY <1>2 DEF PersistStat
<1>7. ASSUME NEW k, slot' = [slot EXCEPT !.pc = "export",
                                   !.stat = IF file.path = slot.key THEN file.stamp ELSE 0,
                                   !.known = k]
      PROVE  slot'.known = k
  BY <1>1, <1>7 DEF Slots
<1>8. slot' = [slot EXCEPT !.pc = "sync"] => slot'.pc = "sync"
  BY <1>1 DEF Slots
<1> QED
  BY <1>3, <1>4, <1>6, <1>7, <1>8

LEMMA ExportHands ==
    ASSUME Draining, PersistExport
    PROVE  Hand'
<1>1. /\ slot.task = "persist" /\ Loaded /\ room \in Rooms /\ slot \in Slots
      /\ sync \in [Syncer -> Syncs] /\ room.key = file.path /\ file.stamp # 0
      /\ InRoom = room.items \cap Edit
      /\ Owed' \subseteq kept' \/ (~(Owed \subseteq kept) /\ (room.again \/ Coming))
  BY DrainFinds DEF PersistExport, Saving
<1> SUFFICES ASSUME ~(Owed \subseteq kept), room.again \/ Coming PROVE Hand'
  BY <1>1 DEF Hand
<1>2. /\ room' = room /\ slot.pc = "export" /\ slot'.pc = "compare" /\ slot'.task = slot.task
      /\ slot'.key = slot.key /\ slot'.blocks = room.items /\ slot'.stat = slot.stat
  BY ExportForm DEF PersistExport, Draining
<1>3. Owed' \subseteq kept' \cup slot'.blocks
  <2>1. kept' = kept
    BY DEF PersistExport, ghostVars
  <2> QED
    BY <1>1, <1>2, <2>1 DEF Draining
<1>4. Busy'
  BY <1>2 DEF Busy
<1> QED
  BY <1>1, <1>2, <1>3, <1>4 DEF Hand, Coming

LEMMA CompareHands ==
    ASSUME Draining, PersistCompare
    PROVE  Hand'
<1>1. /\ slot.task = "persist" /\ Loaded /\ room \in Rooms /\ slot \in Slots
      /\ sync \in [Syncer -> Syncs] /\ room.key = file.path /\ file.stamp # 0
      /\ InRoom = room.items \cap Edit
      /\ Owed' \subseteq kept' \/ (~(Owed \subseteq kept) /\ (room.again \/ Coming))
  BY DrainFinds DEF PersistCompare, Saving
<1> SUFFICES ASSUME ~(Owed \subseteq kept), room.again \/ Coming PROVE Hand'
  BY <1>1 DEF Hand
<1> DEFINE current == IF slot.known = None THEN file.items ELSE slot.known
           r == [room EXCEPT !.seen = [stamp |-> slot.stat, items |-> current]]
<1>2. slot.pc = "compare" /\ kept' = kept
  BY DEF PersistCompare, ghostVars
<1>3. current \subseteq kept
  BY DEF Draining, Origins, Origin
<1>4. Coming => /\ room.key = slot.key /\ slot.stat # 0 /\ Owed \subseteq kept \cup slot.blocks
                /\ current # slot.blocks
  BY <1>2, <1>3 DEF Coming
<1>5. r.again = room.again /\ r.key = room.key
  BY <1>1 DEF Rooms
<1>6. CASE room.key # slot.key /\ SlotReturn([room EXCEPT !.again = TRUE], sync, TRUE)
  <2>1. [room EXCEPT !.again = TRUE] \in Rooms /\ [room EXCEPT !.again = TRUE].again
    BY <1>1 DEF Rooms
  <2> QED
    BY <1>1, <1>6, <2>1, AgainComing
<1>7. CASE (slot.stat = 0 \/ file.path # slot.key) /\ SlotReturn(room, sync, TRUE)
  BY <1>1, <1>4, <1>7, AgainComing
<1>8. CASE current = slot.blocks /\ room' = r /\ \E st : slot' = [slot EXCEPT !.pc = "settle", !.state = st]
  <2>1. slot'.pc = "settle"
    BY <1>1, <1>8 DEF Slots
  <2>2. Busy'
    BY <2>1 DEF Busy
  <2> QED
    BY <1>4, <1>5, <1>8, <2>2 DEF Hand
<1>9. CASE room' = r /\ sync' = [sync EXCEPT !["slot"] = SyncOf(r, None)]
             /\ slot' = [slot EXCEPT !.pc = "sync"]
  <2>1. SyncOf(r, None).pc = "read" /\ SyncOf(r, None).key = r.key /\ SyncOf(r, None).token = None
    BY DEF SyncOf, IdleSync
  <2>2. sync'["slot"] = SyncOf(r, None)
    BY <1>1, <1>9 DEF Syncer
  <2>3. slot'.pc = "sync" /\ slot'.task = slot.task /\ slot'.key = slot.key
    BY <1>1, <1>9 DEF Slots
  <2>4. Busy'
    BY <2>3 DEF Busy
  <2> HIDE DEF r
  <2>5. /\ sync'["slot"].pc = "read" /\ sync'["slot"].key = room'.key /\ sync'["slot"].token = None
        /\ room'.key = room.key /\ room'.again = room.again
    BY <1>5, <1>9, <2>1, <2>2
  <2> QED
    BY <1>1, <1>4, <2>3, <2>4, <2>5 DEF Hand, Coming
<1>10. CASE /\ ~(slot.stat = 0 \/ file.path # slot.key)
            /\ \E b : room' = [r EXCEPT !.shield = b]
            /\ slot' = [slot EXCEPT !.pc = "write"]
  <2>1. room'.key = room.key /\ room'.again = room.again
    BY <1>1, <1>10 DEF Rooms
  <2>2. /\ slot'.pc = "write" /\ slot'.task = slot.task /\ slot'.key = slot.key
        /\ slot'.stat = slot.stat /\ slot'.blocks = slot.blocks
    BY <1>1, <1>10 DEF Slots
  <2>3. Busy'
    BY <2>2 DEF Busy
  <2>4. Coming => Owed' \subseteq kept' \cup slot'.blocks
    BY <1>2, <1>4, <2>2 DEF Draining
  <2> QED
    BY <1>1, <1>4, <2>1, <2>2, <2>3, <2>4 DEF Hand, Coming
<1>11. PersistCompare
  OBVIOUS
<1> HIDE DEF r
<1> USE DEF r
<1> QED
  BY <1>6, <1>7, <1>8, <1>9, <1>10, <1>11 DEF PersistCompare

LEMMA EndHands ==
    ASSUME Draining, PersistSettle \/ PersistLand
    PROVE  Hand'
<1>1. /\ slot.task = "persist" /\ Loaded /\ room \in Rooms /\ slot \in Slots
      /\ sync \in [Syncer -> Syncs] /\ room.key = file.path /\ file.stamp # 0
      /\ InRoom = room.items \cap Edit
      /\ Owed' \subseteq kept' \/ (~(Owed \subseteq kept) /\ (room.again \/ Coming))
  BY DrainFinds DEF PersistSettle, PersistLand, Saving
<1>2. slot.pc \in {"settle", "land"} /\ ~Coming
  BY DEF PersistSettle, PersistLand, Coming
<1> SUFFICES ASSUME room.again PROVE Hand'
  BY <1>1, <1>2 DEF Hand
<1>3. /\ slot.gen \in Nat /\ slot.stat \in Nat /\ slot.blocks \in Content
      /\ slot.prov.agent \in BOOLEAN \/ slot.pc = "land"
      /\ slot.gen <= room.gen /\ room.saved <= room.gen
  BY <1>1, <1>2, SlotTask DEF Draining, Sound, Shape, TypeOK, RoomFits, Versions
<1>4. CASE PersistSettle
  <2> DEFINE r0 == [room EXCEPT !.base = slot.stat, !.hash = slot.blocks,
                                !.shield = @ \/ slot.prov.agent]
             r1 == Saved(r0, slot.gen)
             r2 == Spent(r1, slot.had, slot.igen)
  <2>1. r0 \in Rooms /\ r0.saved <= r0.gen /\ slot.gen <= r0.gen /\ r0.again = room.again
    BY <1>1, <1>3 DEF Rooms
  <2>2. SlotReturn(r2, sync, TRUE)
    BY <1>4 DEF PersistSettle
  <2> HIDE DEF r0
  <2>3. r1 \in Rooms /\ r1.again = r0.again
    BY <1>3, <2>1, SavedForm, SpentAgain
  <2> HIDE DEF r1
  <2>4. r2 \in Rooms /\ r2.again = r1.again
    BY <2>3, SpentForm, SpentAgain
  <2> HIDE DEF r2
  <2> QED
    BY <1>1, <2>1, <2>2, <2>3, <2>4, AgainComing
<1>5. CASE PersistLand
  <2> DEFINE r0 == [room EXCEPT !.base = slot.stat,
                                !.seen = [stamp |-> slot.stat, items |-> slot.blocks]]
             r1 == Saved(r0, slot.gen)
  <2>1. r0 \in Rooms /\ r0.saved <= r0.gen /\ slot.gen <= r0.gen /\ r0.again = room.again
    BY <1>1, <1>3 DEF Rooms, Glimpses
  <2>2. SlotReturn(r1, sync, TRUE)
    BY <1>5 DEF PersistLand
  <2> HIDE DEF r0
  <2>3. r1 \in Rooms /\ r1.again = r0.again
    BY <1>3, <2>1, SavedForm, SpentAgain
  <2> HIDE DEF r1
  <2> QED
    BY <1>1, <2>1, <2>2, <2>3, AgainComing
<1> QED
  BY <1>4, <1>5

LEMMA WriteHands ==
    ASSUME Draining, PersistWrite \/ PersistRecord \/ PersistState \/ PersistFails
    PROVE  Hand'
<1>1. /\ slot.task = "persist" /\ Loaded /\ room \in Rooms /\ slot \in Slots
      /\ sync \in [Syncer -> Syncs] /\ room.key = file.path /\ file.stamp # 0
      /\ InRoom = room.items \cap Edit
      /\ Owed' \subseteq kept' \/ (~(Owed \subseteq kept) /\ (room.again \/ Coming))
  BY DrainFinds DEF PersistWrite, PersistRecord, PersistState, PersistFails, Saving
<1>2. CASE PersistFails
  <2>1. SlotReturn(room, sync, FALSE)
    BY <1>2 DEF PersistFails
  <2> QED
    BY <1>1, <2>1, GivesUpHand
<1> SUFFICES ASSUME ~(Owed \subseteq kept), room.again \/ Coming, ~PersistFails PROVE Hand'
  BY <1>1, <1>2 DEF Hand
<1>3. Busy'
  BY WriteForm, RecordForm, StateForm DEF Busy, Draining
<1>4. CASE room.again
  <2>1. room'.again = room.again
    <3>1. CASE PersistWrite \/ PersistState
      BY <3>1, WriteForm, StateForm DEF Draining
    <3>2. CASE PersistRecord
      <4> DEFINE r == [room EXCEPT !.hash = slot.blocks]
      <4>1. r \in Rooms /\ r.again = room.again
        BY <1>1 DEF Rooms, Slots
      <4>2. room' = Spent(r, slot.had, slot.igen)
        BY <3>2 DEF PersistRecord
      <4> HIDE DEF r
      <4> QED
        BY <4>1, <4>2, SpentAgain
    <3> QED
      BY <3>1, <3>2
  <2> QED
    BY <1>3, <1>4, <2>1 DEF Hand
<1>5. CASE Coming
  <2>1. slot.pc = "write" /\ PersistWrite
    BY <1>5 DEF Coming, PersistWrite, PersistRecord, PersistState
  <2>2. kept' = kept \cup slot.blocks
    BY <2>1 DEF PersistWrite
  <2> QED
    BY <1>5, <2>1, <2>2 DEF Hand, Coming, Draining
<1> QED
  BY <1>4, <1>5

LEMMA SyncHands ==
    ASSUME Draining, Owed' \subseteq kept' \cup InRoom',
           \/ SyncRead("slot") \/ SyncApply("slot") \/ SyncCache("slot") \/ SyncFails("slot")
    PROVE  Hand'
<1>1. "slot" \in Syncer /\ sync["slot"].pc # "idle" /\ Sound
  BY DEF Syncer, SyncRead, SyncApply, SyncCache, SyncFails, Draining
<1>2. slot.pc = "sync"
  BY <1>1, BusyLoaded
<1>3. /\ slot.task = "persist" /\ Loaded /\ room \in Rooms /\ slot \in Slots
      /\ sync \in [Syncer -> Syncs] /\ room.key = file.path
      /\ Owed' \subseteq kept' \/ (~(Owed \subseteq kept) /\ (room.again \/ Coming))
  BY <1>2, DrainFinds DEF Saving
<1>4. CASE SyncFails("slot")
  <2>1. \E r, sy : SlotReturn(r, sy, FALSE)
    BY <1>4 DEF SyncFails, SyncDone
  <2> QED
    BY <1>3, <2>1, GivesUpHand
<1> SUFFICES ASSUME ~SyncFails("slot"), ~(Owed' \subseteq kept'),
                    room.again \/ Coming
             PROVE  Hand'
  BY <1>3, <1>4 DEF Hand
<1> DEFINE sy == [sync EXCEPT !["slot"] = IdleSync]
<1>5. sy \in [Syncer -> Syncs]
  BY <1>3, Blanks
<1>6. NotOwed(room) \in Rooms /\ NotOwed(room).again = room.again
  BY <1>3, NoneAssumption DEF NotOwed, Rooms
<1>7. Coming => /\ sync["slot"].pc \in {"read", "apply"} /\ sync["slot"].key = room.key
                /\ sync["slot"].token \in {None, room.gen}
  BY <1>2 DEF Coming
<1> HIDE DEF sy
<1>8. CASE room.again /\ (SlotReturn(room, sy, TRUE) \/ SlotReturn(NotOwed(room), sy, TRUE))
  BY <1>3, <1>5, <1>6, <1>8, AgainComing
<1>9. CASE SyncRead("slot")
  <2>1. CASE file.path = sync["slot"].key
    <3>1. /\ room' = room /\ slot' = slot
          /\ sync' = [sync EXCEPT !["slot"].pc = "apply", !["slot"].items = file.items]
      BY <1>9, <2>1 DEF SyncRead
    <3>2. /\ sync'["slot"].pc = "apply" /\ sync'["slot"].key = sync["slot"].key
          /\ sync'["slot"].token = sync["slot"].token
      BY <1>3, <3>1 DEF Syncs, Syncer
    <3>3. Busy'
      BY <1>2, <3>1 DEF Busy
    <3> QED
      BY <1>2, <1>3, <1>7, <3>1, <3>2, <3>3 DEF Hand, Coming
  <2>2. CASE file.path # sync["slot"].key
    <3>1. SlotReturn(NotOwed(room), sy, TRUE)
      BY <1>9, <2>2 DEF SyncRead, SyncDone, sy
    <3> QED
      BY <1>3, <1>7, <1>8, <2>2, <3>1
  <2> QED
    BY <2>1, <2>2
<1>10. CASE SyncCache("slot")
  <2>1. SlotReturn(room, sy, TRUE) /\ sync["slot"].pc = "cache"
    BY <1>10 DEF SyncCache, SyncDone, sy
  <2> QED
    BY <1>7, <1>8, <2>1
<1>11. CASE SyncApply("slot")
  <2>1. CASE Superseded(sync["slot"])
    <3>1. SlotReturn(NotOwed(room), sy, TRUE)
      BY <1>11, <2>1 DEF SyncApply, SyncDone, sy
    <3>2. ~Coming
      BY <1>3, <1>7, <2>1 DEF Superseded
    <3> QED
      BY <1>8, <3>1, <3>2
  <2>2. CASE ~Superseded(sync["slot"])
    <3>1. Loaded' /\ room'.items = sync["slot"].items /\ kept' = kept
      BY <1>1, <1>11, <2>2, ApplyForm DEF Replaces, SyncApply
    <3>2. sync["slot"].items \subseteq kept
      BY <1>1 DEF Draining, Origins, Origin
    <3>3. InRoom' \subseteq kept'
      BY <3>1, <3>2 DEF InRoom
    <3> QED
      BY <3>3
  <2> QED
    BY <2>1, <2>2
<1> QED
  BY <1>9, <1>10, <1>11

\* Steps that leave the slot alone leave its save the room it works for.
LEMMA HandBy ==
    ASSUME Hand, slot' = slot, sync'["slot"] = sync["slot"], kept \subseteq kept',
           Owed' \subseteq Owed, Owed \subseteq kept => Owed' \subseteq kept',
           Owed' \subseteq kept' \cup InRoom',
           Busy => /\ Loaded' /\ room'.key = room.key /\ (room.again => room'.again)
                   /\ room'.gen = room.gen \/ room'.items \subseteq kept'
    PROVE  Hand'
<1>1. CASE Owed \subseteq kept \/ (~Busy /\ slot.task = "failed")
  BY <1>1 DEF Hand, Busy
<1>2. CASE Busy /\ room.again
  BY <1>2 DEF Hand, Busy
<1>3. CASE Coming
  <2>1. Busy
    BY <1>3 DEF Coming, Busy
  <2>2. CASE room'.items \subseteq kept'
    <3>1. InRoom' \subseteq kept'
      BY <2>2 DEF InRoom
    <3> QED
      BY <3>1 DEF Hand
  <2>3. CASE room'.gen = room.gen
    <3>1. room'.key = room.key
      BY <2>1
    <3>2. Owed \subseteq kept \cup slot.blocks => Owed' \subseteq kept' \cup slot'.blocks
      OBVIOUS
    <3> QED
      BY <1>3, <2>3, <3>1, <3>2 DEF Hand, Coming
  <2> QED
    BY <2>1, <2>2, <2>3
<1> QED
  BY <1>1, <1>2, <1>3 DEF Hand

\* What a step does to the room that another step of the drain is saving.
Leaves == /\ Loaded' /\ room'.key = room.key /\ (room.again => room'.again)
          /\ room'.gen = room.gen \/ room'.items \subseteq kept'

LEMMA SocketsLeave ==
    ASSUME Sound, Alone, Lines, Capturing, barrier.pc = "drain", Loaded, NEW c \in Client,
           Attach(c) \/ Receive(c) \/ Drop(c)
    PROVE  Leaves
<1>1. room \in Rooms /\ Paused
  BY BusyLoaded DEF Paused
<1>2. CASE room' = room
  BY <1>2 DEF Leaves, Loaded
<1>3. CASE Attach(c)
  <2>1. Unmarked(queue[c])
    BY DEF Lines
  <2>2. Loaded'
    BY <1>3, AttachForm DEF Follows, Grows
  <2> QED
    BY <1>3, <2>1, <2>2, AttachPasses DEF Leaves
<1>4. CASE Detached(c, room) /\ told' = told
  <2>1. Loaded'
    BY <1>4, DetachedForm DEF Follows, Grows
  <2>2. room' = [room EXCEPT !.clients = @ \ {c}, !.idle = @ \/ room.clients \subseteq {c}]
    BY <1>4 DEF Detached, Loaded
  <2>3. room'.key = room.key /\ room'.again = room.again /\ room'.gen = room.gen
    BY <1>1, <2>2 DEF Rooms
  <2> QED
    BY <2>1, <2>3 DEF Leaves
<1>5. CASE Receive(c)
  BY <1>1, <1>2, <1>4, <1>5, ReceiveWaits
<1>6. CASE Drop(c)
  BY <1>4, <1>6 DEF Drop
<1> QED
  BY <1>3, <1>5, <1>6

LEMMA WatchersLeave ==
    ASSUME Sound, Origins, Loaded,
           \/ SyncRead("watcher") \/ SyncApply("watcher") \/ SyncCache("watcher")
           \/ SyncFails("watcher") \/ WatcherEvent
    PROVE  Leaves /\ slot' = slot /\ sync'["slot"] = sync["slot"]
<1>1. room \in Rooms /\ sync \in [Syncer -> Syncs]
  BY BusyLoaded
<1>2. "watcher" \in Syncer /\ "slot" \in Syncer
  BY DEF Syncer
<1>3. slot' = slot /\ sync'["slot"] = sync["slot"]
  <2>1. CASE WatcherEvent
    BY <2>1, WatcherForm
  <2>2. CASE SyncRead("watcher")
    BY <1>2, <2>2, ReadForm DEF Ended
  <2>3. CASE SyncApply("watcher")
    BY <1>2, <2>3, ApplyForm DEF Ended
  <2>4. CASE SyncCache("watcher") \/ SyncFails("watcher")
    BY <1>2, <2>4, CacheForm DEF Ended
  <2> QED
    BY <2>1, <2>2, <2>3, <2>4
<1>4. ASSUME Stays, room.again => room'.again PROVE Leaves
  <2>1. Loaded'
    BY <1>4, NoneAssumption DEF Stays, Loaded
  <2> QED
    BY <1>4, <2>1 DEF Leaves, Stays, Alike
<1>5. NotOwed(room).again = room.again
  BY <1>1 DEF NotOwed, Rooms
<1>6. CASE WatcherEvent
  <2>1. room.again => room'.again
    <3>1. room' \in {room, NotOwed(room)} \/ \E n : room' = [room EXCEPT !.required = n]
      BY <1>6 DEF WatcherEvent
    <3>2. ASSUME NEW n, room' = [room EXCEPT !.required = n] PROVE room'.again = room.again
      BY <1>1, <3>2 DEF Rooms
    <3> QED
      BY <1>5, <3>1, <3>2
  <2> QED
    BY <1>4, <1>6, <2>1, WatcherForm
<1>7. CASE SyncRead("watcher") \/ SyncCache("watcher") \/ SyncFails("watcher")
  <2>1. Stays
    <3>1. CASE SyncRead("watcher")
      <4>1. room' = room => Stays
        BY <1>1 DEF Stays, Alike
      <4> QED
        BY <1>1, <1>2, <3>1, <4>1, ReadForm DEF Stays, Alike
    <3>2. CASE SyncCache("watcher") \/ SyncFails("watcher")
      BY <1>2, <3>2, CacheForm
    <3> QED
      BY <1>7, <3>1, <3>2
  <2>2. room' \in {room, NotOwed(room)}
    BY <1>7 DEF SyncRead, SyncCache, SyncFails, SyncDone
  <2>3. room.again => room'.again
    BY <1>5, <2>2
  <2> QED
    BY <1>3, <1>4, <2>1, <2>3
<1>8. CASE SyncApply("watcher")
  <2>1. room.again => room'.again
    <3>1. CASE Superseded(sync["watcher"])
      <4>1. room' = NotOwed(room)
        BY <1>8, <3>1 DEF SyncApply, SyncDone
      <4> QED
        BY <1>5, <4>1
    <3>2. CASE ~Superseded(sync["watcher"])
      <4> DEFINE s == sync["watcher"]
                 r == [room EXCEPT !.items = s.items, !.gone = (@ \cup room.items) \ s.items,
                 !.gen = @ + 1, !.saved = room.gen + 1, !.base = file.stamp,
                 !.hash = s.items, !.seen = None, !.shield = prov.agent,
                 !.required = None]
      <4>1. room' = Spent(r, s.had, s.igen)
        BY <1>8, <3>2 DEF SyncApply, SyncDone
      <4>2. r.again = room.again /\ \A b : [r EXCEPT !.intent = b].again = room.again
        BY <1>1 DEF Rooms
      <4> HIDE DEF r
      <4> QED
        BY <4>1, <4>2 DEF Spent
    <3> QED
      BY <3>1, <3>2
  <2>2. kept' = kept /\ sync["watcher"].items \subseteq kept
    BY <1>2, <1>8 DEF SyncApply, Origins, Origin
  <2>3. Replaces("watcher") => Leaves
    BY <2>1, <2>2 DEF Replaces, Leaves
  <2> QED
    <3>1. Stays \/ Replaces("watcher")
      BY <1>2, <1>8, ApplyForm
    <3> QED
      BY <1>3, <1>4, <2>1, <2>3, <3>1
<1> QED
  BY <1>3, <1>6, <1>7, <1>8

\* While it drains, a capture does not lose the save it waits for.
LEMMA HandStep ==
    ASSUME Draining, Lines, Next, barrier' = barrier, Owed' \subseteq kept' \cup InRoom'
    PROVE  Hand'
<1>1. /\ Sound /\ Origins /\ Alone /\ Capturing /\ barrier.pc = "drain" /\ Hand
      /\ Owed' \subseteq Owed /\ (Owed \subseteq kept => Owed' \subseteq kept')
  BY DEF Draining
<1>2. kept \subseteq kept'
  BY <1>1, KeptGrows
<1>3. Busy => Loaded
  BY <1>1, BusyLoaded
<1>4. ASSUME slot' = slot, sync'["slot"] = sync["slot"], Busy => Leaves PROVE Hand'
  BY <1>1, <1>2, <1>4, HandBy DEF Leaves
<1>5. ASSUME room' = room, slot' = slot, sync' = sync PROVE Hand'
  BY <1>3, <1>4, <1>5 DEF Leaves, Loaded
<1>6. CASE Beside
  BY <1>5, <1>6, BesideForm
<1>7. CASE \E c \in Client : Attach(c) \/ Receive(c) \/ Drop(c)
  <2>1. slot' = slot /\ sync' = sync
    BY <1>7 DEF Attach, Receive, Drop
  <2>2. Loaded => Leaves
    BY <1>1, <1>7, SocketsLeave DEF Draining
  <2> QED
    BY <1>3, <1>4, <2>1, <2>2
<1>8. CASE \/ SyncRead("watcher") \/ SyncApply("watcher") \/ SyncCache("watcher")
           \/ SyncFails("watcher") \/ WatcherEvent
  <2>1. Loaded => Leaves /\ slot' = slot /\ sync'["slot"] = sync["slot"]
    BY <1>1, <1>8, WatchersLeave
  <2>2. slot' = slot /\ sync'["slot"] = sync["slot"]
    <3>1. "watcher" \in Syncer
      BY DEF Syncer
    <3>2. CASE WatcherEvent
      BY <1>1, <3>2, WatcherForm
    <3>3. CASE SyncRead("watcher")
      BY <1>1, <3>1, <3>3, ReadForm DEF Ended, Syncer
    <3>4. CASE SyncApply("watcher")
      BY <1>1, <3>1, <3>4, ApplyForm DEF Ended, Syncer
    <3>5. CASE SyncCache("watcher") \/ SyncFails("watcher")
      BY <1>1, <3>1, <3>5, CacheForm DEF Ended
    <3> QED
      BY <1>8, <3>2, <3>3, <3>4, <3>5
  <2> QED
    BY <1>3, <1>4, <2>1, <2>2
<1>9. CASE LoadImport
  <2>1. ~Loaded /\ slot' = slot /\ sync' = sync
    BY <1>1, <1>9, ImportForm DEF LoadImport
  <2> QED
    BY <1>3, <1>4, <2>1
<1>10. CASE UnloadEnd
  <2>1. ~Busy /\ slot' = slot /\ sync'["slot"] = sync["slot"]
    BY <1>1, <1>10, BusyLoaded DEF UnloadEnd, Destroyed, Syncer
  <2> QED
    BY <1>4, <2>1
<1>11. CASE PersistTimer \/ UnloadBegin
  <2>1. Busy
    BY <1>1, <1>11 DEF PersistTimer, UnloadBegin, Awaited
  <2>2. \E r \in Rooms : room' = [r EXCEPT !.again = TRUE] /\ slot' = slot
    <3>1. room \in Rooms
      BY <1>1, <1>3, <2>1, BusyLoaded
    <3>2. [room EXCEPT !.timer = FALSE] \in Rooms /\ [room EXCEPT !.idle = FALSE] \in Rooms
      BY <3>1, AlikeRooms
    <3> QED
      BY <1>11, <2>1, <3>2 DEF PersistTimer, UnloadBegin, RunPersist
  <2>3. room'.again
    BY <2>2 DEF Rooms
  <2> QED
    BY <2>1, <2>2, <2>3 DEF Hand, Busy
<1>12. CASE Save \/ PersistFails
  BY <1>12, StatHands, ExportHands, CompareHands, EndHands, WriteHands DEF Save
<1>13. CASE SyncRead("slot") \/ SyncApply("slot") \/ SyncCache("slot") \/ SyncFails("slot")
  BY <1>13, SyncHands
<1>14. ~(BarrierDrain \/ Rekey \/ BarrierEnd \/ Crash)
  <2>1. barrier.pc = "drain" /\ barrier' = barrier
    BY <1>1
  <2> QED
    BY <2>1 DEF BarrierDrain, Rekey, BarrierEnd, Crash, IdleBarrier
<1>15. ~(AgentStep \/ AgentFails \/ \E a \in Agent : AgentBegin(a))
  <2>1. slot.pc \notin {"check", "typed", "hold", "commit", "adopt", "store", "release"}
    BY <1>1, CaptureUnheld DEF Handing
  <2> QED
    BY <1>1, <2>1 DEF AgentStep, AgentCheck, AgentTyped, AgentHold, AgentCommit, AgentAdopt,
                      AgentStore, AgentRelease, AgentFails, AgentBegin
<1>16. ASSUME NEW w \in Syncer, SyncRead(w) \/ SyncApply(w) \/ SyncCache(w) \/ SyncFails(w)
       PROVE  Hand'
  <2>1. w = "slot" \/ w = "watcher"
    BY DEF Syncer
  <2> QED
    BY <1>8, <1>13, <1>16, <2>1
<1> QED
  BY <1>6, <1>7, <1>8, <1>9, <1>10, <1>11, <1>12, <1>14, <1>15, <1>16
     DEF Next, System, Environment, BarrierStep, Beside

LEMMA DrainDue ==
    ASSUME Sound, Sound', Lines, Capturing, Due, BarrierDrain,
           Owed \subseteq kept => Owed' \subseteq kept',
           Owed \subseteq kept \cup InRoom => Owed' \subseteq kept' \cup InRoom'
    PROVE  Due'
<1>1. barrier.pc = "settle" /\ barrier'.pc = "drain"
  BY DEF BarrierDrain, Sound, TypeOK, WatchTypes
<1>2. Early = {}
  BY DrainLines, UnmarkedEarly
<1>3. Owed \subseteq kept \cup InRoom
  BY <1>1, <1>2 DEF Due
<1>4. CASE ~Loaded
  <2>1. Owed \subseteq kept
    BY <1>3, <1>4 DEF InRoom
  <2> QED
    BY <1>1, <2>1 DEF Due, Hand
<1>5. CASE Loaded
  <2>1. /\ room \in Rooms /\ sync \in [Syncer -> Syncs]
        /\ \A q : q = [[room EXCEPT !.timer = FALSE] EXCEPT !.again = FALSE] => q \in Rooms
        /\ [room EXCEPT !.timer = FALSE] \in Rooms
    BY <1>5, BusyLoaded DEF Rooms
  <2>2. RunPersist([room EXCEPT !.timer = FALSE])
    BY <1>5 DEF BarrierDrain
  <2>3. CASE Busy
    <3>1. /\ \E r \in Rooms : room' = [r EXCEPT !.again = TRUE]
          /\ slot' = slot
      BY <2>1, <2>2, <2>3 DEF RunPersist
    <3>2. room'.again
      BY <3>1 DEF Rooms
    <3>3. Hand'
      BY <2>3, <3>1, <3>2 DEF Hand, Busy
    <3> QED
      BY <1>1, <1>3, <3>3 DEF Due
  <2>4. CASE ~Busy
    <3>1. \E q \in Rooms : StartPersist(q, sync, [IdleSlot EXCEPT !.task = "persist"])
      BY <2>1, <2>2, <2>4 DEF RunPersist
    <3>2. Hand'
      BY <2>1, <3>1, StartsForm, StartsComing
    <3> QED
      BY <1>1, <1>3, <3>2 DEF Due
  <2> QED
    BY <2>3, <2>4
<1> QED
  BY <1>4, <1>5

LEMMA DueStep ==
    ASSUME Sound, Sound', Origins, Paths, Moving, Preserved, Clean, Alone, Lines, Truth,
           NothingStranded, Due, Next
    PROVE  Due'
<1> SUFFICES ASSUME Capturing' PROVE Due'
  BY DEF Due
<1>1. CASE BarrierBegin("capture")
  <2>1. Early' = Queued
    BY <1>1, BeginLines
  <2>2. barrier'.pc = "settle" /\ room' = room /\ shot'.due = InRoom \cup Queued
    BY <1>1 DEF BarrierBegin, roomVars
  <2>3. InRoom' = InRoom
    BY <2>2 DEF InRoom, Loaded
  <2>4. Owed' \subseteq shot'.due
    BY DEF Owed
  <2> QED
    BY <2>1, <2>2, <2>3, <2>4 DEF Due
<1> SUFFICES ASSUME Capturing, ~BarrierBegin("capture") PROVE Due'
  BY <1>1, CaptureBegins
<1>2. /\ Owed' \subseteq Owed
      /\ Owed \subseteq kept => Owed' \subseteq kept'
      /\ Owed \subseteq kept \cup InRoom => Owed' \subseteq kept' \cup InRoom'
      /\ Owed \subseteq kept \cup InRoom \cup Early
           => Owed' \subseteq kept' \cup InRoom' \cup Early'
  BY OwedStep
<1>3. CASE barrier' = barrier
  <2>1. CASE barrier.pc = "drain"
    <3>1. Owed \subseteq kept \cup InRoom /\ Hand
      BY <2>1 DEF Due
    <3>2. Draining
      BY <1>2, <2>1, <3>1 DEF Draining
    <3>3. Hand'
      BY <1>2, <1>3, <3>1, <3>2, HandStep
    <3> QED
      BY <1>2, <1>3, <2>1, <3>1, <3>3 DEF Due
  <2> QED
    BY <1>2, <1>3, <2>1 DEF Due
<1>4. CASE BarrierDrain
  BY <1>2, <1>4, DrainDue
<1>5. CASE BarrierDrained
  <2>1. /\ barrier.pc = "drain" /\ ~Busy
        /\ barrier'.pc = IF slot.task = "failed" THEN "end" ELSE "hold"
    BY <1>5 DEF BarrierDrained, Sound, TypeOK, WatchTypes
  <2>2. ~Coming
    BY <2>1 DEF Coming, Busy
  <2>3. slot.task # "failed" => Owed \subseteq kept
    BY <2>1, <2>2 DEF Due, Hand
  <2> QED
    BY <1>2, <2>1, <2>3 DEF Due
<1>6. CASE Captured \/ MoveFile \/ Rekey
  <2>1. barrier'.pc \in {"end", "rekey"}
    BY <1>6 DEF Captured, MoveFile, Rekey, Sound, TypeOK, WatchTypes
  <2> QED
    BY <2>1 DEF Due
<1>7. ~(\E kind \in Barriers : BarrierBegin(kind)) /\ barrier' # IdleBarrier
  BY DEF BarrierBegin, Capturing, IdleBarrier
<1> QED
  BY <1>3, <1>4, <1>5, <1>6, <1>7, BarrierSteps

-----------------------------------------------------------------------------
(* What a capture may hold                                                 *)

\* Nothing but what the server had accepted is anywhere it could reach the
\* document from while the capture waits for the file.
Allowed ==
  Capturing =>
    /\ (kept \cup slot.blocks \cup Early) \cap Edit \subseteq shot.allowed
    /\ InRoom \subseteq shot.allowed
    /\ \A st \in StoredSet : st.items \cap Edit \subseteq shot.allowed

\* No agent works during a capture.
LEMMA CaptureQuiet ==
    ASSUME Sound, Alone, Capturing
    PROVE  ~(AgentStep \/ AgentFails \/ \E a \in Agent : AgentBegin(a) \/ AgentCold(a))
<1>1. slot.pc \notin {"check", "typed", "hold", "commit", "adopt", "store", "release"}
  BY CaptureUnheld DEF Handing
<1> QED
  BY <1>1 DEF AgentStep, AgentCheck, AgentTyped, AgentHold, AgentCommit, AgentAdopt,
              AgentStore, AgentRelease, AgentFails, AgentBegin, AgentCold, Capturing

\* What a step of a save gives to the stored states, the slot and the file.
Reuses ==
  /\ \A st \in StoredSet' : st \in StoredSet \/ (Loaded' /\ st.items = room'.items)
  /\ slot'.blocks \cap Edit \subseteq slot.blocks \cup InRoom
  /\ kept' \cap Edit \subseteq kept \cup slot.blocks

LEMMA SavesReuse ==
    ASSUME Sound, Sound',
           \/ PersistStat /\ slot'.pc = "export"
           \/ PersistExport \/ PersistCompare \/ PersistSettle \/ PersistWrite
           \/ PersistRecord \/ PersistState \/ PersistLand
    PROVE  Reuses
<1>1. slot.pc \in Saving /\ slot.blocks \in Content
  BY SlotTask DEF PersistStat, PersistExport, PersistCompare, PersistSettle, PersistRecord,
         PersistState, PersistLand, PersistWrite, Saving
<1>2. Loaded
  BY <1>1, BusyLoaded DEF Busy, Saving
<1>3. CASE PersistStat /\ slot'.pc = "export"
  <2>1. sync' = sync /\ slot'.blocks = slot.blocks
    BY <1>3, StatForm DEF Resyncs, Returns, Turns, Turned, NextStage
  <2>2. cache' = cache /\ kept' = kept
    BY <1>3 DEF PersistStat, docVars
  <2>3. StoredSet' \subseteq StoredSet
    BY <1>3, <2>1, <2>2, StoredSame
  <2> QED
    BY <2>1, <2>2, <2>3 DEF Reuses
<1>4. CASE PersistExport
  <2>1. sync' = sync /\ slot'.pc = "compare" /\ slot'.blocks = room.items
    BY <1>4, ExportForm
  <2>2. cache' = cache /\ kept' = kept
    BY <1>4 DEF PersistExport, docVars, ghostVars
  <2>3. StoredSet' \subseteq StoredSet
    BY <2>1, <2>2, StoredSame
  <2>4. slot'.blocks \cap Edit \subseteq InRoom
    BY <1>2, <2>1 DEF InRoom
  <2> QED
    BY <2>2, <2>3, <2>4 DEF Reuses
<1>5. CASE PersistCompare
  <2>1. /\ slot.pc = "compare" /\ cache' = cache /\ room'.items = room.items /\ Loaded'
        /\ kept' = kept
    BY <1>5, CompareForm DEF PersistCompare, docVars, ghostVars, Keeps, Same
  <2>2. CASE Returns \/ Resyncs(room, slot.task)
    <3>1. Lays /\ Unread
      BY <1>1, <2>2, ReturnsQuiet, ResyncsQuiet
    <3>2. StoredSet' \subseteq StoredSet
      BY <2>1, <3>1, LaysStored DEF StoredSet
    <3>3. slot'.blocks \in {{}, slot.blocks}
      BY <3>1 DEF Lays
    <3> QED
      BY <2>1, <3>2, <3>3 DEF Reuses
  <2>3. CASE sync' = sync /\ slot'.pc = "write" /\ Carries(slot, slot')
    <3>1. StoredSet' \subseteq StoredSet
      BY <2>1, <2>3, StoredSame
    <3>2. slot'.blocks = slot.blocks
      BY <2>3 DEF Carries
    <3> QED
      BY <2>1, <3>1, <3>2 DEF Reuses
  <2>4. CASE /\ sync' = sync /\ slot'.pc = "settle" /\ slot'.blocks = slot.blocks
             /\ slot'.state = StateOf(room, slot.prov,
                  room.gen = slot.gen /\ slot.prov.items = slot.blocks)
    <3>1. slot'.state.items = room'.items
      BY <2>1, <2>4 DEF StateOf
    <3>2. \A st \in StoredSet' : st \in StoredSet \/ st = slot'.state
      BY <2>1, <2>4, StoredSame
    <3> QED
      BY <2>1, <2>4, <3>1, <3>2 DEF Reuses
  <2> QED
    BY <1>5, <2>2, <2>3, <2>4, CompareForm
<1>6. CASE PersistSettle \/ PersistLand
  <2>1. Lays /\ Unread
    BY <1>1, <1>6, SettleForm, LandForm, ReturnsQuiet
  <2>2. cache' = None \/ cache' \in StoredSet
    BY <1>6, RestoresForm
  <2>3. StoredSet' \subseteq StoredSet
    BY <2>1, <2>2, LaysStored
  <2>4. slot'.blocks \in {{}, slot.blocks} /\ kept' = kept
    BY <1>6, <2>1 DEF Lays, PersistSettle, PersistLand, ghostVars
  <2> QED
    BY <2>3, <2>4 DEF Reuses
<1>7. CASE PersistRecord \/ PersistWrite
  <2>1. /\ sync' = sync /\ slot'.pc \in {"state", "record"} /\ slot'.blocks = slot.blocks
    BY <1>7, RecordForm, WriteForm
  <2>2. cache' = cache /\ kept' \in {kept, kept \cup slot.blocks}
    BY <1>7 DEF PersistRecord, PersistWrite, ghostVars
  <2>3. StoredSet' \subseteq StoredSet
    BY <2>1, <2>2, StoredSame
  <2> QED
    BY <2>1, <2>2, <2>3 DEF Reuses
<1>8. CASE PersistState
  <2>1. /\ room' = room /\ sync' = sync /\ slot'.pc = "land" /\ cache' = cache
        /\ kept' = kept /\ slot'.blocks = slot.blocks
        /\ slot'.state = StateOf(room, slot.prov,
             room.gen = slot.gen /\ slot.prov.items = slot.blocks)
    BY <1>8, StateForm DEF PersistState, docVars, ghostVars
  <2>2. slot'.state.items = room'.items /\ Loaded'
    BY <1>2, <2>1 DEF StateOf, Loaded
  <2>3. \A st \in StoredSet' : st \in StoredSet \/ st = slot'.state
    BY <2>1, StoredSame
  <2> QED
    BY <2>1, <2>2, <2>3 DEF Reuses
<1> QED
  BY <1>3, <1>4, <1>5, <1>6, <1>7, <1>8

LEMMA StepsReuse ==
    ASSUME Sound, Sound', Alone, Capturing, Next
    PROVE  Reuses
<1>1. CASE Quiet
  <2>1. StoredSet' \subseteq StoredSet /\ kept' = kept
    BY <1>1, QuietStored DEF Quiet, Undisturbed
  <2>2. slot'.blocks \in {{}, slot.blocks}
    BY <1>1 DEF Quiet, Lays
  <2> QED
    BY <2>1, <2>2 DEF Reuses
<1>2. ASSUME StoredSet' \subseteq StoredSet, slot' = slot, kept' \cap Edit \subseteq kept
      PROVE  Reuses
  BY <1>2 DEF Reuses
<1>3. CASE LoadRead
  <2>1. slot' = slot /\ kept' = kept /\ cache' = cache /\ sync' = sync
    BY <1>3 DEF LoadRead, docVars, ghostVars
  <2> QED
    BY <1>2, <2>1, StoredSame
<1>4. CASE LoadImport
  <2>1. slot' = slot /\ sync' = sync /\ kept' = kept /\ Loaded'
    BY <1>4, ImportForm DEF LoadImport
  <2>2. \/ cache' = cache
        \/ cache' = None
        \/ cache' = StateOf(room', prov, TRUE)
    BY <1>4, ImportForm
  <2>3. CASE cache' = cache \/ cache' = None
    <3>1. StoredSet' \subseteq StoredSet
      BY <2>1, <2>3, StoredSame
    <3> QED
      BY <1>2, <2>1, <3>1
  <2>4. CASE cache' = StateOf(room', prov, TRUE)
    <3>1. cache'.items = room'.items
      BY <2>4 DEF StateOf
    <3>2. ASSUME NEW st \in StoredSet' PROVE st \in StoredSet \/ st = cache'
      <4>1. \/ st = cache'
            \/ slot'.pc \in {"settle", "land", "store"} /\ st = slot'.state
            \/ \E v \in Syncer : sync'[v].pc = "cache" /\ st = sync'[v].state
        BY <3>2, StoredFrom
      <4> QED
        BY <2>1, <4>1 DEF StoredSet
    <3> QED
      BY <2>1, <3>1, <3>2 DEF Reuses
  <2> QED
    BY <2>2, <2>3, <2>4
<1>5. ASSUME NEW w \in Syncer, SyncRead(w), sync'[w].pc = "apply"
      PROVE  Reuses
  <2>1. slot' = slot /\ \A v \in Syncer : v # w => sync'[v] = sync[v]
    BY <1>5, ReadForm DEF Ended, Syncer
  <2>2. cache' = cache /\ kept' = kept
    BY <1>5 DEF SyncRead, docVars, ghostVars
  <2>3. StoredSet' \subseteq StoredSet
    BY <1>5, <2>1, <2>2, StoredBy
  <2> QED
    BY <1>2, <2>1, <2>2, <2>3
<1>6. ASSUME NEW w \in Syncer, SyncApply(w), Replaces(w)
      PROVE  Reuses
  <2>1. cache' = cache /\ kept' = kept /\ Loaded' /\ room'.items = sync[w].items
    BY <1>6 DEF SyncApply, docVars, Replaces
  <2>2. CASE Ended(w)
    <3>1. (slot' = slot \/ Lays) /\ Unread
      BY <1>6, <2>2, EndedQuiet
    <3>2. StoredSet' \subseteq StoredSet
      BY <2>1, <3>1, LaysStored DEF StoredSet
    <3>3. slot'.blocks \in {{}, slot.blocks}
      BY <3>1 DEF Lays
    <3> QED
      BY <2>1, <3>2, <3>3 DEF Reuses
  <2>3. CASE /\ slot' = slot /\ sync'[w].state = StateOf(room', prov, TRUE)
             /\ \A v \in Syncer : v # w => sync'[v] = sync[v]
    <3>1. sync'[w].state.items = room'.items
      BY <2>3 DEF StateOf
    <3>2. \A st \in StoredSet' : st \in StoredSet \/ st = sync'[w].state
      BY <2>1, <2>3, StoredBy
    <3> QED
      BY <2>1, <2>3, <3>1, <3>2 DEF Reuses
  <2> QED
    BY <1>6, <2>2, <2>3, ApplyForm
<1>7. ASSUME NEW x \in External, ExternalWrite(x)
      PROVE  Reuses
  <2>1. slot' = slot /\ sync' = sync /\ cache' = cache /\ kept' = kept \cup {x}
    BY <1>7, OutsideForm
  <2>2. StoredSet' \subseteq StoredSet
    BY <2>1, StoredSame
  <2>3. x \notin Edit
    BY CollaborationAssumption
  <2> QED
    BY <1>2, <2>1, <2>2, <2>3
<1>8. CASE WatcherEvent
  <2>1. slot' = slot /\ kept' = kept
    BY <1>8 DEF WatcherEvent, ghostVars
  <2> QED
    BY <1>2, <1>8, <2>1, WatcherStored
<1> QED
  BY <1>1, <1>3, <1>4, <1>5, <1>6, <1>7, <1>8, SavesReuse, QuietStep, CaptureQuiet DEF AgentStep

\* What a room takes in during a capture comes from the file, from what is
\* stored of it, or was accepted before.
LEMMA RoomTakes ==
    ASSUME Sound, Origins, Alone, Lines, Capturing, Capturing', Next, Loaded'
    PROVE  room'.items \cap Edit \subseteq
             InRoom \cup Early \cup kept \cup UNION {st.items : st \in StoredSet}
<1> DEFINE Takes == room'.items \cap Edit \subseteq
                      InRoom \cup Early \cup kept \cup UNION {st.items : st \in StoredSet}
<1>1. ASSUME Loaded, room'.items = room.items PROVE Takes
  BY <1>1 DEF InRoom
<1>2. ASSUME room' = room PROVE Takes
  BY <1>1, <1>2 DEF Loaded
<1>3. ASSUME room'.items \subseteq kept PROVE Takes
  BY <1>3
<1>4. ASSUME Stays PROVE Takes
  BY <1>1, <1>4 DEF Stays, Alike, Loaded
<1>5. CASE LoadImport
  <2>1. room'.items = load.items \/ (cache # None /\ room'.items = cache.items)
    BY <1>5, ImportForm
  <2>2. load.items \subseteq kept
    BY DEF Origins, Origin
  <2>3. cache # None => cache \in StoredSet
    BY DEF StoredSet
  <2> QED
    BY <2>1, <2>2, <2>3
<1>6. CASE UnloadEnd
  <2>1. room' = room
    BY <1>6 DEF UnloadEnd, Destroyed, Loaded
  <2> QED
    BY <1>2, <2>1
<1>7. ASSUME NEW c \in Client, Attach(c) \/ Receive(c) \/ Drop(c) PROVE Takes
  <2>1. CASE Attach(c)
    <3>1. Loaded
      BY <2>1, AttachForm DEF Follows, Grows
    <3>2. room'.items \subseteq room.items \cup EarlyBy(queue[c])
      BY <2>1, AttachPasses
    <3>3. EarlyBy(queue[c]) \subseteq Early
      BY DEF Early
    <3> QED
      BY <3>1, <3>2, <3>3 DEF InRoom
  <2>2. CASE Detached(c, room)
    <3>1. Loaded /\ room \in Rooms
      BY <2>2, BusyLoaded DEF Detached, Loaded
    <3>2. room'.items = room.items
      BY <2>2, <3>1 DEF Detached, Loaded, Rooms
    <3> QED
      BY <1>1, <3>1, <3>2
  <2>3. CASE Receive(c)
    <3>1. Paused
      BY DEF Paused, Capturing
    <3>2. Detached(c, room) \/ room' = room
      BY <2>3, <3>1, ReceiveWaits
    <3> QED
      BY <1>2, <2>2, <3>2
  <2>4. CASE Drop(c)
    BY <2>2, <2>4 DEF Drop
  <2> QED
    BY <1>7, <2>1, <2>3, <2>4
<1>8. ASSUME NEW r \in Rooms, Loaded, r.items = room.items, RunPersist(r) PROVE Takes
  <2>1. sync \in [Syncer -> Syncs] /\ slot \in Slots
    BY BusyLoaded
  <2>2. Alike(room', r)
    BY <1>8, <2>1, RunForm DEF Passes
  <2> QED
    BY <1>1, <1>8, <2>2 DEF Alike
<1>9. CASE PersistTimer \/ UnloadBegin \/ BarrierDrain
  <2>1. CASE Loaded
    <3>1. room \in Rooms
      BY <2>1, BusyLoaded
    <3>2. /\ [room EXCEPT !.timer = FALSE] \in Rooms
          /\ [room EXCEPT !.timer = FALSE].items = room.items
          /\ [room EXCEPT !.idle = FALSE] \in Rooms
          /\ [room EXCEPT !.idle = FALSE].items = room.items
      BY <3>1 DEF Rooms
    <3> QED
      BY <1>8, <1>9, <2>1, <3>2 DEF PersistTimer, UnloadBegin, BarrierDrain
  <2>2. CASE ~Loaded
    <3>1. room' = room
      BY <1>9, <2>2 DEF PersistTimer, UnloadBegin, BarrierDrain
    <3> QED
      BY <1>2, <3>1
  <2> QED
    BY <2>1, <2>2
<1>10. ASSUME NEW ok \in BOOLEAN, Loaded, SlotReturn(room, sync, ok) PROVE Takes
  <2>1. room \in Rooms /\ sync \in [Syncer -> Syncs] /\ slot \in Slots
    BY <1>10, BusyLoaded
  <2>2. Alike(room', room)
    BY <1>10, <2>1, ReturnForm DEF Passes
  <2> QED
    BY <1>1, <1>10, <2>2 DEF Alike
<1>11. CASE PersistStat \/ PersistFails
  <2>1. Loaded
    BY <1>11, StatForm, FailsForm DEF Follows, Grows
  <2>2. room' = room \/ \E ok \in BOOLEAN : SlotReturn(room, sync, ok)
    BY <1>11 DEF PersistStat, PersistFails
  <2> QED
    BY <1>2, <1>10, <2>1, <2>2
<1>12. CASE PersistCompare \/ PersistSettle \/ PersistRecord \/ PersistLand
  <2>1. Keeps
    BY <1>12, CompareForm, SettleForm, RecordForm, LandForm
  <2> QED
    BY <1>1, <2>1 DEF Keeps, Same
<1>13. CASE PersistExport \/ PersistWrite \/ PersistState
  BY <1>2, <1>13, ExportForm, WriteForm, StateForm
<1>14. ASSUME NEW w \in Syncer, SyncRead(w) \/ SyncApply(w) \/ SyncCache(w) \/ SyncFails(w)
       PROVE  Takes
  <2>1. Stays \/ room' = room \/ Replaces(w)
    BY <1>14, ReadForm, ApplyForm, CacheForm
  <2>2. sync[w].items \subseteq kept
    BY DEF Origins, Origin
  <2> QED
    BY <1>2, <1>3, <1>4, <2>1, <2>2 DEF Replaces
<1>15. CASE WatcherEvent
  BY <1>4, <1>15, WatcherForm
<1>16. CASE Beside
  BY <1>2, <1>16, BesideForm
<1>17. CASE Rekey
  <2>1. CASE Loaded
    <3>1. room'.items = room.items
      BY <1>17, <2>1, BusyLoaded DEF Rekey, Rooms
    <3> QED
      BY <1>1, <2>1, <3>1
  <2>2. CASE ~Loaded
    BY <1>2, <1>17, <2>2 DEF Rekey
  <2> QED
    BY <2>1, <2>2
<1>18. ~(BarrierEnd \/ Crash)
  <2>1. BarrierEnd \/ Crash => barrier' = IdleBarrier
    BY DEF BarrierEnd, Crash
  <2> QED
    BY <2>1 DEF Capturing, IdleBarrier
<1> QED
  BY <1>5, <1>6, <1>7, <1>9, <1>11, <1>12, <1>13, <1>14, <1>15, <1>16, <1>17, <1>18, CaptureQuiet
     DEF Next, System, Environment, Save, BarrierStep, Beside

LEMMA AllowedBegins ==
    ASSUME Sound, Lines, NothingStranded, BarrierBegin("capture")
    PROVE  Allowed'
<1>1. /\ kept' = kept /\ slot' = slot /\ room' = room /\ cache' = cache /\ sync' = sync
      /\ shot'.allowed = Accepted
  BY DEF BarrierBegin, docVars, roomVars
<1>2. Early' = Queued
  BY BeginLines
<1>3. InRoom' = InRoom
  BY <1>1 DEF InRoom, Loaded
<1>4. ASSUME NEW st \in States PROVE ShownBy(st) = st.items
  BY NoneAssumption DEF ShownBy
<1>5. StoredSet' = StoredSet
  BY <1>1 DEF StoredSet
<1>6. ASSUME NEW st \in StoredSet PROVE st.items \subseteq Accepted
  <2>1. st \in States
    BY StoredStates
  <2>2. \/ st = cache \/ st = slot.state
        \/ \E w \in Syncer : st = sync[w].state
    BY DEF StoredSet
  <2>3. ShownBy(st) \subseteq Accepted
    BY <2>2 DEF Accepted
  <2> QED
    BY <1>4, <2>1, <2>3
<1>7. InRoom \cup Queued \cup kept \cup slot.blocks \subseteq Accepted
  BY DEF Accepted
<1> QED
  BY <1>1, <1>2, <1>3, <1>5, <1>6, <1>7 DEF Allowed

LEMMA AllowedStep ==
    ASSUME Sound, Sound', Origins, Alone, Lines, Truth, NothingStranded, Allowed, Next
    PROVE  Allowed'
<1> SUFFICES ASSUME Capturing' PROVE Allowed'
  BY DEF Allowed
<1>1. CASE BarrierBegin("capture")
  BY <1>1, AllowedBegins
<1> SUFFICES ASSUME Capturing PROVE Allowed'
  BY <1>1, CaptureBegins
<1>2. shot'.allowed = shot.allowed
  BY ShotShrinks
<1>3. Early' \subseteq Early
  BY EarlyStep
<1>4. Reuses
  BY StepsReuse
<1>5. /\ (kept \cup slot.blocks \cup Early) \cap Edit \subseteq shot.allowed
      /\ InRoom \subseteq shot.allowed
      /\ \A st \in StoredSet : st.items \cap Edit \subseteq shot.allowed
  BY DEF Allowed
<1>6. Loaded' => room'.items \cap Edit \subseteq shot.allowed
  <2>1. (UNION {st.items : st \in StoredSet}) \cap Edit \subseteq shot.allowed
    BY <1>5
  <2>2. Loaded' => room'.items \cap Edit \subseteq
             InRoom \cup Early \cup kept \cup UNION {st.items : st \in StoredSet}
    BY RoomTakes
  <2> QED
    BY <1>5, <2>1, <2>2
<1>7. InRoom' \subseteq shot.allowed
  BY <1>6 DEF InRoom
<1>8. (kept' \cup slot'.blocks \cup Early') \cap Edit \subseteq shot.allowed
  BY <1>3, <1>4, <1>5 DEF Reuses
<1>9. \A st \in StoredSet' : st.items \cap Edit \subseteq shot.allowed
  BY <1>4, <1>5, <1>6 DEF Reuses
<1> QED
  BY <1>2, <1>7, <1>8, <1>9 DEF Allowed

-----------------------------------------------------------------------------
(* The capture                                                             *)

Caught == Preserved /\ Clean /\ Alone /\ Moving /\ Lines /\ Due /\ Allowed

LEMMA InitCaught == Init => Caught
<1> SUFFICES ASSUME Init PROVE Caught
  OBVIOUS
<1>1. /\ file.stamp = 1 /\ kept = {} /\ load.pc = "idle" /\ cache = None /\ ~Loaded
      /\ slot.pc = "idle" /\ barrier.pc = "idle" /\ ~Capturing
      /\ \A w \in Syncer : sync[w].pc = "idle"
      /\ \A c \in Client : queue[c] = <<>> /\ out[c] = <<>>
  BY DEF Init, IdleSlot, IdleSync, IdleLoad, IdleBarrier, Loaded, Capturing
<1>2. StoredSet = {}
  BY <1>1 DEF StoredSet
<1> QED
  BY <1>1, <1>2 DEF Caught, Preserved, Clean, Alone, Moving, Lines, Due, Allowed

LEMMA CaughtStep ==
    ASSUME Base, Truth, Kept, NothingStranded, Caught, [Next]_vars
    PROVE  Caught'
<1>1. Base' /\ Sound /\ Sound' /\ Origins /\ Origins' /\ Paths
  BY BaseStep DEF Base, Kept
<1>2. /\ Preserved /\ Clean /\ Alone /\ Moving /\ Lines /\ Due /\ Allowed
  BY DEF Caught
<1>3. CASE Next
  BY <1>1, <1>2, <1>3, PreservedStep, CleanStep, AloneStep, MovingStep, LinesStep, DueStep,
     AllowedStep DEF Caught
<1>4. CASE UNCHANGED vars
  <2>1. /\ file' = file /\ cache' = cache /\ room' = room /\ slot' = slot /\ sync' = sync
        /\ load' = load /\ barrier' = barrier /\ kept' = kept /\ wiped' = wiped
        /\ forgotten' = forgotten /\ shot' = shot /\ conn' = conn /\ queue' = queue
        /\ out' = out
    BY <1>4 DEF vars, docVars, roomVars, clientVars, ghostVars
  <2>2. StoredSet' = StoredSet /\ Early' = Early /\ InRoom' = InRoom /\ Owed' = Owed
    BY <2>1 DEF StoredSet, Early, InRoom, Loaded, Owed, Lost
  <2>3. Preserved' /\ Clean' /\ Alone' /\ Moving'
    BY <1>2, <2>1, <2>2 DEF Preserved, Clean, Alone, Moving, Loaded, Lost, Capturing
  <2>4. Lines'
    BY <1>2, <2>1 DEF Lines, Capturing
  <2>5. Hand => Hand'
    BY <2>1, <2>2 DEF Hand, Coming, Busy
  <2>6. Due' /\ Allowed'
    BY <1>2, <2>1, <2>2, <2>5 DEF Due, Allowed, Capturing
  <2> QED
    BY <2>3, <2>4, <2>6 DEF Caught
<1> QED
  BY <1>3, <1>4

\* While a capture waits for the document's save and until it is lifted, every
\* edit it owes is in the file, in the room that is being saved, or in the queue
\* of a client that is being connected, and nothing accepted later can be saved.
THEOREM RoomsCaught == Spec => []Caught
<1>1. Init => Caught
  BY InitCaught
<1>2. Base /\ Truth /\ Kept /\ NothingStranded /\ Caught /\ [Next]_vars => Caught'
  BY CaughtStep
<1> QED
  BY <1>1, <1>2, RoomsBase, RoomsTruth, RoomsKept, RoomsStrandNothing, PTL DEF Spec

\* What people wrote and a save has put into the document stays in it, whatever
\* writes, syncs, moves and restarts come later, unless a disk sync took it out
\* of the room or it went with a destroyed room: nothing is dropped by accident.
THEOREM RoomsLoseNothing == Spec => [](kept \cap Edit \subseteq file.items \cup wiped \cup forgotten)
<1>1. Caught => kept \cap Edit \subseteq file.items \cup wiped \cup forgotten
  BY DEF Caught, Preserved, Lost
<1> QED
  BY <1>1, RoomsCaught, PTL

\* flushAllPersists saves every live document before the workspace is read:
\* what is captured holds every edit accepted when the capture began, unless a
\* disk sync or an unload took it, and none that was accepted later.
THEOREM RoomsCaptureHolds == Spec => []CaptureHoldsAccepted
<1>1. Base /\ Caught => CaptureHoldsAccepted
  <2> SUFFICES ASSUME Base, Caught, Capturing, barrier.pc = "hold"
               PROVE  /\ shot.due \ (wiped \cup forgotten) \subseteq file.items
                      /\ file.items \cap Edit \subseteq shot.allowed
    BY DEF CaptureHoldsAccepted
  <2>1. Owed \subseteq kept /\ Owed \subseteq Edit
    BY DEF Caught, Due, Owed, Base, Sound, TypeOK, GhostTypes
  <2>2. kept \cap Edit \subseteq file.items \cup Lost /\ file.items \subseteq kept
    BY DEF Caught, Preserved, Base, Origins, Origin
  <2>3. kept \cap Edit \subseteq shot.allowed
    BY DEF Caught, Allowed
  <2> QED
    BY <2>1, <2>2, <2>3 DEF Owed, Lost
<1> QED
  BY <1>1, RoomsBase, RoomsCaught, PTL
=============================================================================
