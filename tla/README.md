# ArcheCore in TLA+

Specifications of the ArcheCore MMO server (C++: a login server, a world server
with a stream server, and the network code they share), the TLC runs that check
them on small instances, and proofs, checked by TLAPS, that hold for every value
of the constants.

## The system

Three programs share `ArcheCore.Shared`. Each server object (`LoginServer`,
`WorldServer`, `StreamServer`) owns an `io_context` with **one io thread**, an
in-queue `m_qMessagesIn`, and a container of sessions. **The main thread** of a
program takes packets out of the in-queue in `Update` and runs their handlers to
the end, one after the other.

    socket --io thread: read loop--> m_qMessagesIn --main thread: Update--> handler
    socket <-io thread: write loop-- m_qMessagesOut <--asio::post-- Send <---'

| component | state | operations | correct if |
|---|---|---|---|
| session (`session.h`) | socket, `m_msgTemporaryIn`, `m_qMessagesOut` | `ReadHeader`, `ReadBody`, `Send`/`SendPacket`, `PushPacket` | packets arrive whole and in order; sends are written once and in order, one write at a time |
| queue (`net_tsqueue.h`, `server_base.h`) | `deqQueue`, two mutexes, a condition variable | `push_back`, `pop_front`, `empty`, `wait`, `Update` | first in, first out; no deadlock; nothing is left in the queue |
| accepting (`WorldServer.h`, `server_base.h`) | `nIDCounter`, `m_deqConnections`, `WorldManager::Connections` | accept callback, `OnClientConnected` | an id finds its session; callbacks never outlive it; accepting goes on |
| world handlers (`WorldSession.cpp`) | `entityCharacter`, `characterIds`, `inGame` | the 17 `CS...` and proxy handlers | players see one world; no handler touches what is not there |
| world manager (`WorldManager.cpp`) | `Worlds`, `Entities`, `Connections`, `NextObjectId` | create, look up, spawn, nearby connections | an object id resolves to its entity |
| character creation (`CharacterManager.cpp`) | templates, ability items, `m_NextCharacterId` | `Load`, `Create`, name validation | a created character has what later handlers read |
| inventory, items, action slots | slot arrays, item entities | default items, fragmented packets | every item in one slot, every slot sent once, every component read is there |
| movement (`Movement.cpp`) | `Transform`, `Velocity` | read, write, `HandleUnitMovement` | what is written is what was read |
| codec (`packet.h`, `common_utils.h`) | body, read and write cursor | `<<`, `>>`, `ReadBc`, strings, positions | what is read is what was written |
| opcode table (`OpCodeManager.cpp`) | map from opcode to handler | `BuildOpCodeMap`, `GetHandle` | a packet reaches its own handler |
| game loop (`WorldServer.cpp`) | accumulator, clock reading | the fixed time step | game time keeps up with real time, without bursts |
| login, stream handlers | none beyond the session's id | answer one packet | a client gets through to the world |
| factions, skills, zones, localization | maps read from the database | loaders, run once before the servers start | later code finds what it looks for |

What is hard: two threads share the in-queue, the out-queue (through posted
closures) and the connection table; the main thread infers from a queue whether
a write is running; one temporary packet is reused for all frames; handlers of
several sessions interleave over one registry, and a client may call any of them
at any time and vanish between any two; nothing is removed when it does. A packet
is taken apart by one handler and put together by another, with cursors that
survive both. The loaders leave keys out, doubled and half filled, which `operator[]`
and uninitialised members turn into values. `PROJECT.json` lists these hazards at
their lines, with the properties that catch them.

## The modules

**The world.** `WorldServer` has one action per packet handler, atomic as the main
thread runs them, in the order of their effects: `registry` is the entt registry
of the default world (an entity either does not exist or has what
`CharacterManager::Create` gives it; `visual` and `velocity` are the two components
that come later), `objects` is `WorldManager::Entities`, `character`, `characterIds`
and `inGame` are the session's members, `connections` is `WorldManager::Connections`.
`sent` is what the last handler sent to each session, and `seen` accumulates from it
what a client knows: the position it was last told for each object it was shown.
Positions are compared as packets carry them, since `SCUnitState` and
`SCOneUnitMovement` send a stored `Transform` through the same encoding. Packets
keep their type and the object or state they name. An access to a missing or
duplicate component, undefined in entt, goes on or ends the process, and is recorded
in `faults`. Any session may call any handler with any argument.
`WorldGame` adds the clients: the order in which the handlers expect their requests,
each waiting for the reply of the last, a small amount of chatter at any time, names
that the server refuses, and clients that vanish. `SharedWorld` is the README's
promise ("run around in the world with everyone else that has connected to the
server") as an abstract specification: one place per player, everyone sees
everyone at it, entering and moving are single steps.

**The three servers together.** `Journey` extends `WorldGame` with what comes before
and beside it: a client dials the login server, authorises, lists the worlds, takes
the cookie, and only then connects to the world server; between two steps there it
joins the stream server at the port that `X2EnterWorldResponsePacket` announces, or
goes on without it if `Server.cfg` has put that server elsewhere.
`requests` is the login server's in-queue, each request with the id of the session
it came through, so that answers to a session the client has since left are lost.
`missed` is what `TsQueue` shows of `wait()`: a packet that finds the queue empty may
be slept over until the next one. Tickets parse or do not.

**The queue.** `TsQueue` has one action per critical section of `push_back`, `wait`
and the loop of `Update`, so the two mutexes and the condition variable interleave
as they may; a spurious wake-up is an action. `WaitArguments` are the values of
`bWait` that the loop passes: TRUE for the login server, FALSE for the other two; the
run takes both and so contains either loop. `missed` is an auxiliary variable: since
the last test of `empty()` a notification came before the consumer had
`muxBlocking`. Several producers are allowed, as the class promises; each server has
one. `FifoQueue` is the abstract queue, which `Session` implements too.

**The session.** `Session` has one action per asio callback (atomic: one thread runs
the `io_context`), the posted closures of `SendPacket`, the handler that sends, and
the remote end. A read or write started on an open socket completes or fails; one
started on a closed socket fails. Bodies are numbers of frames, so that a packet
shows from which frame its body and its opcode came.

**The connections.** `Connections` has all sessions of the world server at once and
asks who owns them. The accept callback is cut into three actions, where the main
thread can see the difference: the session exists (`Accept`), it is in
`WorldManager::Connections` (`OnClientConnected`), it has its id, is in
`m_deqConnections` and reads (`ConnectToClient`). Reads, writes and posted closures
keep a raw `this`; containers, queued messages and the main thread's locals keep a
shared pointer. Handlers answer and return, or broadcast: `CSNotifyInGame` a newcomer's
`"state"`, for which its own id is left out of the table (`ExcludeId`), `CSMoveUnit` a
`"movement"`, for which none is. The main thread's walk through `Connections` is two
steps, its start and `GetNearbyConnections`, and an insertion in between (`torn`) lets it
end with any part of the table or with the process. A session's reads and writes are coarser than in `Session`: one write stands
for the queue's packets up to the last.

**The packets.** `PacketCodec` is `packet.h`: a body of bytes, a read and a write
cursor, and what each operator does to them, short reads included. A value is the
sequence of its little-endian bytes; a format is the sequence of fields that a handler
reads or writes, some of them only if an earlier flag byte says so. `Canonical` is what
converting a position to floats and back leaves of its nine bytes: all but the sign of
a zero; the signed overflow in its second coordinate (`common_utils.h:176`) is taken to
wrap. `Dispatch` follows one packet after another: `Receive` puts a client's body,
perhaps cut short, before the server, `ProcessPacket` finds the handler by level and
16-bit key (or by the switch of the login or the stream server), and the handler
reads, stores and writes. Handlers that only answer share `HandleRequest`; the three
that store or relay what they read have their own actions. `out` holds the bytes that
were sent beside those that should have been.

**Start-up and new characters.** `Loaders` has one action per manager in the order in
which `main` fills them; a table is a sequence of rows, a row the columns that something
depends on. `insert` keeps the first row of a key, assignment the last, a loop that
breaks at NULL drops the rest, uninitialised members hold any of the `Junk...`
constants. The tables of `ItemManager` and `CharacterManager` that nothing reads yet are
kept by their keys (`itemTables`, `characterTables`). A body part is assumed to have one
of the seven slots of `CharacterTemplate::Items`, beside which the code would write another.
A faction keeps what its packet says of it: `m_Id`, which a faction added by `operator[]`
does not have, name and mother. `NewCharacter` continues with
`CreateCharacter` (items are numbered in the order in which they are made; `equipped`,
`bag` and `bar` are the arrays of the components) and `SelectCharacter`, which records in
`told` how the inventory, the factions and the relations are cut into packets. Two
default skills for one slot are settled by the order of a hash map, here by choice.

**The loop.** `GameLoop` is `main` of the world server from the start of the servers on,
in hundredths of a second: reading the clock, clamping, updating and sleeping are
actions, packets arrive at any time and take time to handle. `debt` and `cost` are
auxiliary variables.

`MCWorldServer`, `MCWorldGame`, `MCTsQueue`, `MCSession`, `MCDispatch` and `MCStartup`
instantiate them for TLC; the other modules get their constants from the `.cfg` alone.
Definitions such as `CreateNextFreeSlot` or `WakeKeepingLock`, next to the one they
vary, are faulty versions with which the properties were seen to fail.

## The runs

| run | bounds | what it shows |
|---|---|---|
| `MCWorldServer` | 2 sessions, 2 objects, 2 positions, a template with and one without a fragmentable bag | whatever clients send: `ObjectsResolve`, `SelectedIsHeld` |
| `WorldGame_players` | 3 clients, 3 characters, up to 2 of one client, 2 positions | `ViewsAgree`, `MovementAfterState`, `InGameHasCharacter`, and the refinement `SharedWorldSpec` |
| `Journey` | 2 clients, one character each, 3 logins, the announced stream port and another, fair | `EveryoneMeets`, `LoginLeadsToWorld`, `CookieNamesAccount` |
| `TsQueue_threads` | 2 producers with 3 items each, polling or waiting | order, no deadlock, `SleepsOnlyByWindow`, `HandledUnlessMissed` |
| `Session_loops` | 3 frames of 0, 1, 2 or 7 bytes, 3 sends | both loops, in any interleaving with failures |
| `Connections_accepting` | 2 peers, 2 messages each, 1 posted closure per session, fair | callbacks find their session, ids agree, broadcasts go to exactly whom they are meant for, accepting goes on |
| `Dispatch` | about 190 packets: every handler, the combinations of the optional fields of movements, looks and options, movements and pings cut at every byte, strings at the readers' limits | replies are well formed, handlers are the right ones, movements and looks reach the others |
| `Startup` | 62 databases, 4 requests, 2 characters, packet sizes scaled down | what a new character wears, carries and is told |
| `GameLoop` | steps of 10, starts of 0 to 40, packets of 0 to 17, oversleeping of 0 to 30, 2 arrivals per pass, fair | real time, bursts, lateness, drained queues |
| `WorldGame_readable` | 2 clients, 3 characters | violated: entering while another character is not spawned reads options that are not there |
| `WorldGame_refusal` | as above | violated: a refused name is followed by a response about no character |
| `TsQueue_wakeup` | 2 producers with 2 items each, waiting | violated: the lost wake-up of `wait()` |

*Why the bounds are enough.* Two players can disagree about one another and a third
can enter, move or vanish in between: three clients cover every pair with a
bystander. A third object lets a client own a character it no longer holds while
others play. Two positions tell a stale position from a fresh one. Three logins for
two clients let one dial twice while requests of its first session are queued. For
the queue, two producers can hold and await the lock at once and three items keep the
queue non-empty across a pop. For the session, sizes 0, 1, 2 and 7 are the cases that
the code tells apart, three frames follow a good one by a bad one and a good one again,
and three sends queue one packet behind a write and one in the `io_context`. For the
connections, the second peer is accepted while the first is served, written to or
dead, and with two messages a session enters the game with one and broadcasts with
the other. In `Dispatch` every field of a packet has bytes of its own, so that a
field written in the place of another shows, and packets follow one another, so that
what one leaves in a stored character meets the next. In `Startup` each table is
varied on its own around one well-formed database, and supplies against default
skills; an action bar of 13 slots and faction packets of 1 and 2 entries stand for 85,
20 and 200, since the loops over them are the same. In `GameLoop` a start of 40 and a
sleep that lasts 30 too long exceed the clamp of 25, and 17 exceeds a step. What is
proved needs no bound.

*Deadlock.* `TsQueue_threads` checks it. In the other runs the system may stop: every
client gone or the process ended (`WorldGame`, `WorldServer`, `Journey`), the connection
closed or the peers and bounded sends used up (`Session`, `Connections`), a handler that
ends the process (`Dispatch`), `main` returned (`Startup`, `GameLoop`) or all characters
made (`Startup`).

*Fairness.* `Journey`: a client that stays takes its next step of login, stream and
handshake, and the servers' loops handle what is queued; nobody has to dial, chat,
move, vanish, hang up or make a second character. `TsQueue`: a thread inside
`push_back` or `Update` goes on (a mutex that is free again and again is obtained);
nobody has to push, a spurious wake-up need never come. `Session`: the io thread runs
what was posted, and a write completes or fails; nobody has to send and the connection
need not end. `Connections`: the io thread finishes the accept callback it is in, takes
what the backlog holds (strongly fair, since the acceptor is primed again and again) and
completes reads and writes; no peer has to dial, send or leave. `GameLoop`: the main
thread goes on; no packet has to arrive.

## What the code does otherwise

Three runs show a disagreement with a line of the repository:

- `CSNotifyInGame` shows the newcomer every entity that has a `Transform`, characters
  between creation and spawning included, and `SCUnitStatePacket` reads their
  `CharacterVisualOptions`, which only `CSSpawnCharacter` adds.
- A refused name is answered with a failure and then with a response written from
  `entityCharacter`, which is `entt::null` for a client without a character.
- `tsqueue::wait` can miss a notification between its test and its lock; the item
  stays until the next push. Only the login server waits.

The models contain, without a run of their own:

- An account has four character slots, but each creation overwrites the first
  (`CharacterManager.cpp:396`, `WorldSession.h:114`).
- A frame of size 0 is queued with the body and opcode of the frame before it
  (`session.h:153`).
- A session without a character may select id 0, and a second spawn emplaces a
  component twice.
- Closed sessions are never removed; `CallbacksFindTheirSession` holds because of it,
  and its mutant, which removes them when a read fails, breaks it.
- A peer that resets before it is accepted makes `remote_endpoint()` throw
  (`WorldServer.h:26`), and the process ends.
- The decals of a face are read into copies (`UnitCustomModelData.h:44`), as relations
  are inserted into a copy of the faction (`FactionManager.cpp:119`): nobody sees either.
  `GetRelationState`, which would read the relations of a faction, has no caller and is
  not modelled; clients judge by the relations they are sent.
- An ability with supplies loses its pack and keeps one supply and an uninitialised pack
  (`CharacterManager.cpp:128`, `:195`); ability 0 gets its supplies twice (`:463`).
- A template of a race that the json does not name has uninitialised inventory sizes
  (`CharacterManager.cpp:47`); a json race above 15 takes the keys of another race's
  females (`:334`).
- An item's count is always 1 (`ItemManager.cpp:53`), and the item is made even if the
  bag is full. A bank of 260 slots makes a loop endless (`Inventory.cpp:11`).
- The counts of the faction packets are right for exactly 82 factions, the relations
  are read within bounds from 1174 on (`WorldSession.cpp:1230`, `:1298`).
- The announced stream port is 60002 whatever `Server.cfg` says (`WorldSession.cpp:77`),
  although the repository's README (line 72) lets one configure the ports there: with
  another port no client reaches the stream server. `Journey` has both ports, and
  `EveryoneMeets` shows that a client gets into the world without the stream.
- `GetNearbyConnections` walks through `Connections` without a lock while the io thread
  inserts into it (`WorldManager.cpp:97`, `:117`), so that a broadcast may miss anyone or
  end the process. `SentToAddressees` is about walks that no insertion meets.
- A zero byte in a string, or a login ticket above 255 bytes, shifts what is read
  after it (`packet.h:509`, `:484`).

## The proofs

*World* (`WorldProofs`). From `ConstantsOK` alone (any number
of sessions, handles, positions and objects). `TypeOK` and the two properties are not
inductive. `ServerInv` adds `IdsFresh` (ids still to be given out are unused, existing
entities have distinct character ids below the counter) and `Holding` (a session's
first slot holds the id of its entity, the others none, and no two sessions hold
one entity). `ServerInvariant` follows action by action; handlers
that only answer share one lemma. `GameInv` adds `ClientStages`, which ties a client's stage
to what its session has on the server (which is why a client that follows the
protocol never replaces a spawned character), `InGameHasCharacter`, `ViewsAgree`, and
`MovementsShown`. `ViewsAgree` needs the others: the moved object is the mover's own,
its entity is spawned, and a newcomer's two loops cover every pair.
`GameImplementsSharedWorld` maps `place` and `view` to the registry and `seen`:
`CSNotifyInGame` is `Enter`, a movement of a spawned entity is `Move`, every other
step stutters.

*Journey* (`WorldProofs`). Every step of the journey is a step of `WorldGame` or
leaves it alone, so `JourneySpec` implements `GameSpec` and through
`GameImplementsSharedWorld` the shared world. `CookieNamesAccount` needs `LoginInv`: ids
lie below the counter and differ between clients, a client has at most one request of
its present session in the queue, and what it was told came from that session.

*Queue* (`TsQueueProofs`). From `ThreadsDiffer`. The invariant adds to
`TypeOK` that the consumer holds `muxBlocking` exactly between `LockBlocking` and
`Sleep`, that the queue is not empty between test and pop, and `SleepsInv`, which
extends `SleepsOnlyByWindow` to the places before sleeping. `QueueFifoOrder`
is the refinement of `FifoQueue`: `Emplace` gives, `PopFront` takes.

*Session* (`SessionProofs`). From `BoundsOK`. The invariant comes in two halves, one
for each loop: `ReadInv` says that frames arrive in consecutive numbers, that the
frame being read is at the front, and that what was queued has smaller numbers;
`WriteInv` holds the types, that at most one write is outstanding, and
`WriterIsRunning`. `SessionWrittenInOrder` refines `FifoQueue` with everything
between `Send` and the socket as one sequence.

*Connections* (`ConnectionsProofs`). From `PeersOK`: any finite number of peers. None of
the properties is inductive. `NewcomerInv` says that the acceptor makes one new
session at a time, `IdsInv` that the counter is the number of registered sessions
(a cardinality argument, which keeps it within the ids) and that the two containers
agree below it, `TableInv` that every entry of the table is a registered session under
its own id, and `PointersInv` that whatever points to a session, queued messages and
the session being handled included, points to a stored one.

*Game loop* (`GameLoopProofs`). From `TimesOK`: any step, clamp, costs and overruns.
`LoopInv` adds to the types how far the accumulator may exceed a step at each place
(`AccumulatorFits`), that the updates made and the rest of the accumulator stem from one
clamped frame (`UpdatesFit`), and where the time since the last reading went
(`TimeAccounted`), from which `LatenessExplained` follows at the next reading.

*Start-up and characters* (`StartupProofs`). From `DatabasesHaveTables` (tables are
sequences of rows, their numbers unsigned, as the structures they are read into) and
`PacketsAndBar` (requests are the bytes of a creation, the bar and the packets have
sizes): tables of any length, any number of characters. Each property needs to know
what a loader left behind, for as long as the program runs: `FactionsLoaded` (finitely
many factions, of which those of the table are kept under their own id), `SkillsLoaded` (the start skills of an
ability are a sequence), `TemplatesLoaded` (the templates are those of some value
of the uninitialised sizes) and `GearLoaded` (an ability has at most one kind of
supplies, and its pack only without any); `InOrder` says that no handler runs before the
managers are loaded. `CharactersFit` says of every character that its bag has a size of
eight bits and its slots refer to items that are there, and of every item that it can be
written. What a creation makes is described once (`CreateAdds` and the lemmas it
combines), and every property of characters is shown to survive it: the items that were
there stay as they were, the new ones lie behind them. `ToldOfLast` ties `told` to the
last character. The loops over rows, slots and supplies are recursive functions, and
what holds after each of their steps is shown with `SetInduction`: the numbers up to
which it holds are a set with 0 and with every successor. `FactionsAnnounced` is a
counting argument: factions are numbered without gaps by how many come before them. `RelationsUnderstood` adds that
the table's factions went out under the ids by which relations name them.

*Packets* (`DispatchProofs`). From `PacketsOfBytes`: clients send what the handler they
mean reads, in bytes, with zeros for the optional fields that a flag says are not there,
and nothing longer than two bytes of size can say. `Kept` says that between two actions
the packet's write cursor is behind the size (what every answer relies on, and `Send`
restores) and that what is stored of a character is bytes: with it
`AnswersAlwaysWellFormed` follows from one lemma on writing a format at the end of a
body. `Routed` says that what arrived is the frame that was sent, and that the handler
finds the cursor behind the header: level and opcode were read back as they were
written, and `FoundAsMeant` inverts the table. `FormatReadsBack` is the codec's lemma: a
format whose flags come before the fields they decide reads back, field by field, what
its encoding wrote, from any position in any body. It needs every kind of field to read
its own bytes back (`StringReadsBack`, `VectorReadsBack`, `CanonicalKeeps` for positions)
and the flags of the long formats of the handlers to be in order (`MovementFlagged`,
`ModelFlagged`, `OptionsFlagged`). `MovementsRelayedAsSent` is a reading and a writing of
one format. `PlayersShownAsChosen` spans requests: `AsCreated` says that the looks
stored are those chosen at the last creation, and the decals those of a new character;
movements and spawning store beside them.

`CommonLemmas` has the facts about sequences, induction over a set of numbers, and least
and greatest elements that the other modules share.

Only model-checked: the liveness properties `EveryoneMeets`, `LoginLeadsToWorld`,
`HandledUnlessMissed`, `EverythingWritten`, `KeepsAccepting` and
`QueuesDrained` (TLAPS has no fairness), and the violations. Every invariant, every
action property and every refinement that a passing run checks is proved.

## Not modelled, and the plan

Left out for good: constants and unread columns in packets and tables (the
contents of the world list, zone coordinates, the scalar
`item_configs`, common skills, buffs, tick numbers); formatting and logging;
`ByteBuffer`, `Singleton`, `base64`, `WriteHeader`, `WriteBody`, `Disconnect`,
`CreateWorld`, `OnObjectDeleted` and the client's side of `session`, which nothing that
runs calls; the wrap of the 32-bit id counters; the game client beyond the order and
the contents of its requests.

Left for later:

1. Packets cut short: how far a handler's cursor may run beyond the body, and which
   fields are then zeros.
2. `Session` as a refinement of what `Connections` says about one session's reads and
   writes.
