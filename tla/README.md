# PeerLinks in TLA+

TLA+ models of the PeerLinks protocol library (`src/lib`), the TLC
configurations that check them, and TLAPS proofs about the channel, its
synchronization, the spread of messages, the connections, who is trusted to read and write it, the
requests of a connection, and what a crash leaves in the storage.

A PeerLinks *channel* is a chat room without a server: every peer stores a
directed acyclic graph (DAG) of signed messages and pulls what it lacks from
the peers it happens to be connected to. The questions asked here are the ones
the tests of the repository cannot ask: what happens when async calls overlap
at their awaits, when both stores change under a running synchronization, when
connections open twice, drop and come back, chains of trust expire, answers come
late, and the process stops between two writes.

## 1. The system

| Part | State | Operations |
|---|---|---|
| **Channel** `lib/protocol/channel.js` | id, name, wait list, its StorageCache | `post`, `receive`, `query`, `bulk`, `sync`, `getMessageCount`, leaf and message reads |
| **StorageCache** `lib/protocol/cache.js` | LRU of messages, `leaves`, `lastCount` | `addMessage` (write through, then reset), `getLeaves`, `getMessageCount`, `hasMessage`, `getMessages` |
| **Memory storage** `lib/storage/memory.js` | per channel: messages sorted by height and hash, map by hash, leaf set; entities | `addMessage`, `query`, `getLeafHashes`, entity store and load |
| **SyncAgent** `lib/sync-agent.js` | `idle/active/pending`, `pendingRequests`, `seq` | `synchronize`, `query`, `bulk`, `sendAndWait`, `receiveResponse` |
| **Peer** `lib/peer.js` | `remoteId`, `destroyed`, one agent per channel, ping, wait list | `ready` (handshake), `loop`, `pingLoop`, `synchronize`, `onNotification`, `destroy` |
| **Protocol** `lib/protocol.js` | identities, channels, `peers`, `globalPeerIds`, chain map, wait list, storage | `load`, `connect`, `close`, `addChannel`, `removeChannel`, `createIdentityPair`, `channelFromInvite`, `onNewMessage`, `computeChainMap` |
| **Identity, Chain, Link, Message** `lib/protocol/*.js` | keys, chains, bytes | `addChain`, `getChain`, `issueInvite`, `verify`, `signMessageBody` |
| **utils** `lib/utils.js` | none | `compareDistance`, `now`, `EphemeralBox`, `isSameChainMap` |
| protobuf `lib/messages.js`, example `src/examples` | | generated code, a REPL user interface |

How they interact. A user calls `Channel.post`, which reads the current leaves
through the cache, signs a message on top of them, stores it and resolves the
wait list entry `outgoing`. `Protocol`'s `waitLoop` of that channel turns this
into a notification to all peers. A `Peer` that reads a notification calls
`synchronize` on the channel's `SyncAgent`, which runs `Channel.sync`: it
queries pages of abbreviated messages from the remote, decides with
`computePartialDAG` which are safe to request, fetches those in bulk and hands
each one to `Channel.receive`. A sync that stored something resolves the wait
list entry `sync`, for which `Protocol`'s `syncLoop` waits in order to notify
all the *other* peers. `Protocol.connect` makes a `Peer` for a socket, runs the
handshake and then its loops.

JavaScript is single-threaded: code between two awaits is atomic, everything
else interleaves. The hard behaviours are therefore:

- calls on one Channel overlapping at their awaits (caches filled late,
  checks made early);
- a sync paging through a list that grows at both ends of the connection;
- `synchronize` called while one is running, and one-shot waiters that are
  not there when their event fires, or not there yet: `addChannel` lists a channel
  before it awaits its save, and waits for posts only after that;
- several sockets between the same two protocols in their handshake at once,
  and every way a connection can fail;
- answers that come late, to a request that timed out or to a channel that was
  removed and added again, on a connection that may go silent;
- chains that expire while they are on their way, between clocks that differ;
- values that are decoded and encoded again on every hop, under signatures that
  cover the bytes;
- channels and identities that are stored in several steps, by calls that overlap and
  in a process that may stop at any of them.

What makes each part correct: *Channel* stays closed under parents, maintains
leaves exactly, orders posts after what the author had, and never refuses an
honest message. *StorageCache* equals the backend. *sync* ends, and returns
only with everything the remote had; it does not ban an honest remote. The
*notifications* make connected peers agree once the system is quiet. The
*connections* leave one peer per remote, never block both ends and never lock
a remote out. *Requests* get the answer to this very request or fail, and a silent
remote is noticed. *Chains* lead from the owner to whom they were given, honest
members are accepted for as long as the leeway says, and waiting users hear of every change. *Encoding*
is the same on every hop. The *storage* can be loaded after any stop and
agrees with the memory when nothing is in progress. `PROJECT.json` lists every hazard with its source line and
the properties that cover it.

## 2. Modules

| Module | Models | Refers to |
|---|---|---|
| `DagReplicas` | abstract: replicas of a growing DAG | |
| `Channel` | `channel.js`, `cache.js`, `memory.js`: post, receive, query by height, count, cut at every await | INSTANCE `DagReplicas` |
| `ChannelProofs` | theorems about `Channel` | EXTENDS `Channel`, `TLAPS` |
| `ChannelSync` | `sync`, `receiveBulk`, `computePartialDAG`, `query`, `bulk`, `Memory.query` | |
| `SyncProofs` | theorems about `ChannelSync` | EXTENDS `ChannelSync`, `TLAPS` |
| `Gossip` | `onNewMessage`, `waitLoop`, `syncLoop`, `onNotification`, `synchronize` of SyncAgent and Peer, `addChannel` | one sync of `ChannelSync` is three steps here |
| `GossipProofs` | theorems about `Gossip` | EXTENDS `Gossip`, `TLAPS` |
| `Connections` | `ready`, `destroy`, `connect`, `close`, `compareDistance` | |
| `ConnectionsProofs` | theorems about `Connections` | EXTENDS `Connections`, `TLAPS` |
| `Wire` | `messages.js`, and how the classes of `lib` build values for it and rebuild them from it | |
| `WireProofs` | theorems about `Wire` | EXTENDS `Wire`, `TLAPS` |
| `Trust` | `link.js`, `chain.js`, `identity.js`, `Channel.fromInvite` | |
| `Presence` | `onSyncRequest`, `getSyncRequestKey`, `findIdentityAndChain`, `computeChainMap`, `waitForChainMapUpdate` | EXTENDS `Trust` |
| `PresenceProofs` | theorems about `Presence` and `Trust` | EXTENDS `Presence`, `TLAPS` |
| `Rpc` | abstract: requests that are answered or fail | |
| `Requests` | `sendAndWait`, the `receive` methods of SyncAgent, dispatch, pings and `destroy` of Peer | INSTANCE `Rpc` WITH its table and history |
| `RequestsProofs` | theorems about `Requests` | EXTENDS `Requests`, `TLAPS` |
| `Registry` | channels and identities of `protocol.js`, their storage, `load`, crashes | |
| `RegistryProofs` | theorems about `Registry` | EXTENDS `Registry`, `TLAPS` |
| `MCChannel`, `MCChannelSync`, `MCGossip`, `MCConnections`, `MCWire`, `MCPresence`, `MCRequests`, `MCRegistry` | instances for TLC | |

Definitions marked "Mutant" are not part of the specification. Each stands
before the definition it spoils, and putting it in that definition's place
makes TLC report the property `PROJECT.json` names for it.

### Channel

One action is the code between two awaits of one call, or one backend
operation. `call[c].pc` names the await call `c` is suspended at; `Home[c]` is
the replica it is made on. `PostStart` is `post()` up to the first await of
`cache.getLeaves()`: with a cached set the call goes on with that, otherwise
through `ReadLeafHashes` and `FillLeaves`, which assigns `this.leaves`.
`PostBuild` is the synchronous rest of `post()` up to `backend.addMessage()`
(`Store`), and `Invalidate` is what follows it: the caches are reset and the
call returns. `ReceiveStart` and `ReceiveCheck` are the two halves of
`receive()` around its await. `created`, `parents`, `height` and `time` describe
the signed messages. `settled` and `announced` are history: which adds have
returned, and how often a message was reported as new.

Abstractions. Every author is honest, so signatures, chains, JSON and sizes
are left out. The LRU is left out: it holds only messages the backend has, and
the backend deletes none while a channel is open. `leaves.slice(0, 128)` keeps
any `MaxLeaves` of the leaves, because the backend decides their order. Clocks
are `clock + Skew[r]`.

### ChannelSync

Messages are numbered in the channel's linear order (height, then hash), which
loses nothing and makes the sorted array of `memory.js` a set of numbers. The
graph is chosen in `Init` from *all* graphs of the given size that `post()` can
make; both stores start as any sets closed under parents. A page
is one step on the remote; `Classify` is one turn of the loop of
`computePartialDAG`, so that the local store may change between two turns, as
it may at the awaits in it. The lookups of the parents of one message are one
step, and so is `receive()`: `Channel` is the module that splits it. The
fallback to full sync, a nested call in the code, is a restart with
`isFull`. `MinLeafHeight` reads leaves fresh; stale leaves are the subject of
`Channel`. `RemoteInsert` and `LocalInsert` stand for posts and for syncs with
third peers, of the messages in `RemoteNew` and `LocalNew`; `RemoteForget` stands for
`removeChannel` and `Timeout` for a failed `sendAndWait`, where `Env` has them.
`overtaken` is history: the remote gained a message that sorts before where a full sync is to read on.

### Gossip

`agent[n][p][c]` is the SyncAgent state, `syncs[n][p][c]` the calls of
`Channel.sync` in flight. There may be several: `synchronize` called in state
`active` sets `pending` *and starts a second sync at once*
(`sync-agent.js:72-83`). `fired[n][p]` is the one-shot waiter of `syncLoop`; a
sync that ends while the loop has not come back to waiting is not remembered
(`peer.js:589`, `protocol.js:461-470`). `Drop` cuts both ends of a connection at
once and forgets everything in flight on it; a sync that fails is one. Messages are elements of a set
here: their DAG does not matter for who is told about them.

`addChannel` is two steps. `AddChannel` is what comes before the await of `saveChannel`
(`protocol.js:197`): users and peers find the channel from then on. `ChannelSaved` is the rest, which syncs the channel
with every peer and lets `waitLoop` wait for posts. Between them (`saving`) a post finds no waiter. A save that
fails is one that never returns. `untold[n][p]` is history: the messages that `n` gained and did not notify `p` of. There are
three ways into it: a post to a channel that is being saved, a sync that stored something before it failed, and a sync that ends when the
waiter has fired for another channel. A later notification of `p` about the channel takes its messages out of it, because `p` then asks for everything.

### Connections

Two packets make up the handshake, `Hello` both ways and `Shake` from the end
whose id compares lower. `pc[e]` is what `connect()` of an end waits for. `Destroy`
is `Peer.destroy` with its effect on `globalPeerIds`, which all connections of a
protocol share. A send on a broken socket is either lost or throws
(`ReadyFails`). The error packet some paths send before closing is part of the
broken socket. `destroy()` on a destroyed peer throws, which is why `LoopEnds`
has two outcomes. A time-out of the handshake closes the socket, so it is a `Cut`
followed by `ReadyFails`; it is not fair, so that `HandshakeEnds` does not rest on it. `Cuts`, `Faults` and `Closes` say where
the network may cut a socket, whose syncs may fail, and which protocols may be closed. `lost` is history: the ends that run or are accepted
although their id is not registered any more, because another end for the same remote was destroyed with that id (`Rob`).

### Wire

Signatures and hashes cover encoded bytes, but no receiver keeps the bytes it got: it decodes,
builds its own objects, and encodes those again to verify, hash, store or pass on. `Encode` and
`Decode` are the generated functions, driven by one table per message type (field numbers in the
order of writing, repeated fields, `oneof`s); the rows differ where the generated code differs. The
code recurses into embedded messages; the model has one definition for a level (`EncodeBy`, `DecodeBy`, given what happens to
the messages within) and applies it six times, which is as deep as any value of the library is: a response,
the bulk response in it, a message, its signed part, a link of its chain and the signed part of that. `Encode0`, below the innermost, is never reached, which the proofs show (`Exact`). An
object is a function on its own properties, because the generated `encode` asks
`hasOwnProperty`: a default that is present is written, one that is absent is not, and that is the
difference a signature would notice. `All` reads every field of a decoded message, and `LinkAgain`,
`MessageAgain`, `IdentityAgain` are the constructors and
`serialize` methods of `Link`, `Chain`, `Message` and the requests; `Onward` is what the
library passes on. `Extend` adds a field that a later version may know. Values are leaves, the leaf
`""` is a default, and a nested sequence stands for a length prefix. Varints and UTF-8 are left to the library.

### Trust and Presence

There is one channel, not a feed, with one owner; a key is the identity that has its secret half,
and an identity lives on one node with its own clock (`time + Skew[n]`). `GetChain` is
`getChain`, with the leeway, and `LeafKey` is `getLeafKey`, which checks
signatures and validity link by link. `IssueInvite` and `AcceptInvite` are the two ends
of an invite. `AddChain` keeps only the owner's empty chain (`isBetterThan`). The decryption of an invite
and the 32 bytes of its request id are left out: it reaches the identity that asked.

`Presence` adds connections and sync requests. `<<n, p>>` is the Peer that `n` has for `p`; a handshake
is one step and a socket a pair of them, since `Connections` has the details. `SendRequest` chooses an identity as
`findIdentityAndChain` does. The three outcomes at the receiver are `Refuse` (the ban),
`Stumble` (the `TypeError` of `peer.js:399`, when the remembered chain has expired) and `OnSyncRequest`. `Throw`
is what `connect()` does with an error of `loop()`, `SyncFails` and `LoopEnds` the other ways a Peer
ends. `Wait`, `Wake` and `Tell` are `waitForChainMapUpdate`. History: `refused`
has the ages of refused requests, `before` the chain map when a wait began, `silent` the users
who were waiting when a Peer left without `peer leave`.

### Requests

One side of one connection. `status[r]` is the table `pendingRequests`
of an agent together with the outcome; a request is named `<<agent, number>>`, and so is the
`EphemeralBox` its response is encrypted for. A channel that is removed and added again is a new
object, hence a new agent whose numbers start at 0 while packets of the old one travel.
`Send`, `Continue`, `Finish`, `Unable`, `Timeout` are the calls of
`Channel.sync` as far as they use the table; `Reply` is the remote's `loop`. `SendPing`, `OnPong` and `PingTimeout` are
`pingLoop`. `Destroy` is `destroy()` up to its first await, `Close` the rest. The events of
`Env` (channel removed here, removed at the remote, own chain expired, network silent)
happen at most `MaxEvents` at a time. `Rpc` is the abstract view: every request is answered with what the
remote said to this request, or it fails.

### Registry

One step is what a call does between two awaits: `call[s]` has the call, `awaits` the storage
operation it waits for, and `queue` the order in which these operations were issued. They take effect in
this order; the storage fixture of the tests that delays operations does not promise even that,
so the model is the kinder one. Memory and disk are separate (`channels`, `identities`, `chains` against `chanDisk`, `idDisk`,
`messages`), `Crash` loses the memory, and `Load` is `load()`.
The loop of `removeChannel` walks the live list of identities by position, as `for ... of` does.
`excused`, `overlapped` and `usedGone` are history, with which the properties say exactly when the storage may be left untidy.

## 3. Runs

Twelve runs, one for each question. Deadlock checking is off in all of them:
bounded messages, sockets, calls or times make every model stop in the end.

| Run | Question | Instance | Outcome |
|---|---|---|---|
| `channel_serial` | Are caches, posts and queries right with one call at a time per channel? | 2 replicas, clocks one apart, 4 messages, 2 leaves at most | holds |
| `channel_overlap` | What survives two calls at once on one channel? | 3 calls, 2 replicas, posts and receives, `ParentDelta` 0 so that old leaves are left behind | closed, exact leaves, no honest message refused, implements `DagReplicas` |
| `stale_post` | Does a third post come after two overlapping ones? | 3 calls, posts only | **violated** |
| `sync_paging` | Does a paged sync fetch all the remote had? | every graph of 5 messages, all pairs of closed stores, pages of 2, both sides grow, time-outs | complete, no gap, pages classified right, no ban |
| `sync_ends` | Does the walk backward and forward end, and when does a full sync ban? | two branched graphs of 8, pages of 2, two unresolved parents trigger full sync, growth of both sides, `removeChannel` | ends; a ban only after `removeChannel`, or when the remote gained a message the full sync had passed |
| `gossip_line` | Does a message cross a peer in the middle, and do peers agree once nothing is in flight? | 3 nodes in a line, one adds the channel, 1 message, up to 3 concurrent syncs per agent, 1 drop | converges; only what was never announced is lacking |
| `unannounced_post` | Is every message that is posted or received announced? | 2 connected nodes, one adds the channel, no drop | **violated** |
| `conn_lifecycle` | One peer per remote, no id left registered, no end left waiting? | 3 sockets; one may be cut, one have failing syncs, the deciding protocol close, at any time | holds, next to peers that lost their registration |
| `wire` | Do values, bytes and signatures survive being passed on? | every message type with its optional fields present or absent, lists of up to 2, 3 hops | hold |
| `presence` | Do chains fit, are honest members accepted, do waiting users hear of changes? | 2 nodes, the owner on one, two members on the other, clocks one apart, 2 invites, times 0 to 3 | hold |
| `requests` | Does every request get its own answer, who is banned, is silence noticed? | 2 agents, 2 concurrent syncs each, 1-bit numbers, 2 pings without pong, 2 events | implements `Rpc`; bans explained; silence noticed |
| `registry` | Is the storage loadable, unique, complete and tidy? | 2 own keys, 1 foreign, names {1, 2} and {2, 3}, 2 calls at once, 6 in all, 1 crash | hold, untidiness explained |

Why these bounds are enough to be interesting. Four messages are a root, two
concurrent branches and a merge. Five messages with pages of two make three
pages, with a cursor that falls between two branches, and let a page start
above a missing parent. Eight messages make branches long enough for a second
backward page, for a missing parent *inside* a page, and for the remote to gain a message behind a full sync
that a later page names as a parent: no graph of seven with these bounds gets that far. The messages that either side may gain
are one of each branch on which this depends (`RemoteNew`, `LocalNew`); that all of them may come in was checked once for
`HonestRemoteNotBanned` (3.6 million states). In `gossip_line` the drop may cut a sync that has stored the message in the
middle of the line, and the save may be outstanding when the message is posted. Three sockets
are what it takes for a duplicate that fails while it is refused to let in another peer. That run
has one end each to cut and to fail, and one protocol to close, so that `HandshakeEnds` can be checked; three sockets that may all be
cut (5 million states), and two with everything at every end, were checked once for `OnePeerPerRemote`. Two
protocols with ids 0 and 2 of width 2 sit exactly at the threshold of
`compareDistance`, the one distance at which `<` and `<=` differ. `MaxSyncs`
bounds the concurrent syncs of an agent, `MaxDrops` the drops, `MaxClock` the
clock, `Hash` and `Msg` the messages. `HashSymmetry` swaps message hashes other
than the root's; it is used only with invariants and the safety property
`ImplementsDag`, and no hash is compared with another.

`wire`: the first hop can lose what the sender had set, the second what the first had
rebuilt, and the third shows that nothing changes any more; lists of none, one and two elements tell
repeated fields from single ones. `presence`: with `Leeway` 1, clocks one apart is as far as
they may be, `Delta` 2 is longer than the leeway, and time 3 lets a chain expire and a request be
older than the leeway; two invites let a chain be renewed, or have two links. `requests`: one-bit numbers
come round for pings; two numbers per agent are two requests of concurrent syncs, or a query and its bulk;
two pings without a pong are the limit and one retry before it. The events come two at a time because the
explanations in `BanExplained` need at most two. `registry`: six calls are enough for removing and joining again
around a creation; one name may come from both sides. `Symmetric` swaps own keys, which are
compared by nothing but equality; the run has invariants only.

`SyncComplete` was also checked once on every graph of six messages (18 million
states, with pages of two and both sides growing), too long for a run to keep.

### Fairness

`ChannelSync`: weak fairness of `SyncStep` — every await of a sync settles,
because the remote answers or `sendAndWait` times out. Insertions, removal and
time-outs are not fair. `Gossip`: weak fairness of announcing, connecting,
reading a notification, the steps of a sync and redistribution; each is a
callback of a live socket or promise. Connecting is fair because the swarm keeps
offering sockets for known peers. Posting, adding channels, dropping and the end of a save, which may fail, are
not fair. `Connections`: weak fairness of `Proceed(e)` for each end: packets that were
sent arrive or the socket breaks, and promises settle. Opening, cutting and
closing are not fair. `Requests`: weak fairness of `SendPing`, `PingTimeout` and `Close`:
timers fire and a local socket closes; nothing need ever come from the network, and no
sync need time out. There is no fairness in `Channel`, `Wire`, `Presence` and `Registry`: only safety is
asked.

## 4. What the violated runs show

Each is a finding in `PROJECT.json`, with the line of `protocol.md` it contradicts.

- **`stale_post`.** Two posts read the leaves. The first stores its message, resets the
  cache and returns. Now the second one's read, made before that, fills
  `this.leaves` with the old set. A third post that starts before the second has
  stored its own message takes the old leaves as parents and ignores the first message.
- **`unannounced_post`.** `addChannel` lists the channel and awaits `saveChannel`. A post made
  meanwhile through `getChannel()` resolves `outgoing` for nobody, because `waitLoop` has not begun to wait. The
  channel is saved and synced with the peers, which brings *their* messages; this one is announced with the next post only.
  The other side gets it earlier only if the connection is made anew, because it then asks by itself.

### Variations seen while modelling

These have no run. Most follow from small changes of an instance; the others are what
the history variables of a passing run excuse.

Channel and sync:

- `IncomingOnce` and `NoInternalError` hold in `channel_serial` and fail with
  `Home <- TwoReceiversHome`: `receive()` checks for a duplicate
  (`channel.js:224`) and stores after an await (`channel.js:293`), so that two
  overlapping receives both report the message as new; a `post()` that overlaps the
  receipt of the root reports `Internal error: no leaves`.
- `QueryCoversLeaves` fails with `OverlapHome` when `Kind` has `query` too, by the
  same late filling of the leaf cache as `stale_post`; here it stays stale until the next add.
- `SyncComplete` fails with `MaxLeaves = 1`: with more leaves than
  `MAX_LEAVES_COUNT`, the minimum is taken over some of them.
- `NoSilentGap` and `SyncComplete` fail with `"forget"` in `Env` of `sync_paging`: a remote that removes the channel answers a
  query with an empty page, and `sync()` returns as if it were done, with parents still to be found (`channel.js:437`).
- In a full sync any missing parent is a `BanError` (`channel.js:427-430`). If the remote receives a message that sorts before the
  cursor between two pages, a later page may name it as a parent, and an honest remote is banned. `sync_ends` reaches this:
  `HonestRemoteNotBanned` excuses it as `overtaken`, and nothing else but `removeChannel`.
- A remote without the channel answers with an empty response, which `bulk` reads as forward index 0:
  "Failed to make progress", a ban. This is the second disjunct that `BanExplained` and
  `HonestRemoteNotBanned` allow.

Gossip and connections:

- Messages that a sync stored before it failed are announced to nobody: only a sync that succeeds is redistributed, and the
  one after the reconnection has nothing new. With `Loaded <- AllLoaded` in `gossip_line`, `AllNotified` fails by this alone;
  `QuietAgreement` and `Converges` excuse it as `untold`.
- The syncs of two channels that end together leave the second unannounced, because `syncLoop` is not waiting. With
  `ChannelOf <- TwoChannels`, `Loaded <- AllLoaded` and no drop, `AllNotified` fails by this alone; it is `untold`, too. With `AllLoaded`, one channel
  and no drop, `AllNotified` holds.
- A duplicate that fails while it is being refused still carries
  `remoteId` (`peer.js:138-143`, `protocol.js:503`), so its `destroy()` removes the registration of the live connection, and a third socket
  is accepted beside the first. `conn_lifecycle` reaches this; `OnePeerPerRemote` leaves out the first connection, which is in `lost`.
- `connect()` skips `peer leave` for a peer that a failed sync has destroyed:
  the second `destroy()` throws (`protocol.js:503`, `peer.js:286`). `Presence` has it as `silent`.
- A connection in its handshake during `close()` joins `peers` of the closed
  protocol afterwards (`protocol.js:617`).

Trust and requests:

- When the remembered chain of a remote has expired, the next sync request with a new one reads the old
  one's leaf key, which is not there (`peer.js:399`): a `TypeError`, and the connection ends. It is the action `Stumble`.
- `addChain` replaces a chain by any later one, also by one that expires sooner
  (`identity.js:123-128`); only the owner's empty chain is protected.
- A user hears of one change per call of `waitForChainMapUpdate`. A change between two calls shows up
  only with the next event, and of two calls that wait at once the second may see no difference
  (`protocol.js:549-550`).
- A response under way while the user removes the channel and adds it again meets an agent that
  knows no such number, or one with another box: the honest remote is banned. The same happens when
  the own chain expires between a query and its bulk, because `sendAndWait` then returns `false`.

Registry:

- A message being received while its channel is removed is stored afterwards, without its parents, for a
  channel that does not exist; joining again finds it there (`overlapped`).
- `createIdentityPair` with the name of an identity, and no channel of that name, saves the channel and then fails with a duplicate
  identity; so does a crash between the two saves. Either leaves a channel nobody can post to (`excused`).
- The identity that waits for an invite may be removed meanwhile. `channelFromInvite` stores it
  again, and after a restart two identities may have one name (`usedGone`).
- While `removeChannel` awaits a save, `removeIdentity` shortens the list it walks; the walk skips an
  identity, which keeps its chain.
- `Memory.clear()` uses `this.channels`, which no constructor sets (`memory.js:249`).

## 5. Proofs

### The channel

`ChannelProofs` proves for every set of replicas, calls and hashes, any clocks within
the leeway and any limits:

| Theorem | States |
|---|---|
| `Invariance` | `Spec => []IInv` |
| `TypeCorrect` | `Spec => []TypeOK` |
| `AlwaysClosed` | `Spec => []DagClosed` |
| `LeavesAlwaysExact` | `Spec => []LeavesExact` |
| `HonestNeverBanned` | `Spec => []HonestNotBanned` |
| `Refinement` | `Spec => ImplementsDag` |
| `SerialInvariance` | `Serial` implies `Spec => []SerialInv` |
| `SerialCaches` | `Serial` implies `Spec => []CacheCoherent` |
| `SerialIncoming` | `Serial` implies `Spec => []IncomingOnce` |
| `SerialNoError` | `Serial` implies `Spec => []NoInternalError` |
| `SerialPosts` | `Serial` implies `Spec /\ []FewLeaves => []SequentialPosts` |
| `SerialQueries` | `Serial` implies `Spec /\ []FewLeaves => []QueryCoversLeaves` |

Assumptions: `ConstantsAssumption` (types of the constants; `Hash` is finite)
and `SkewAssumption` (clocks are pairwise within `Future`). Both are evaluated by TLC in
the `channel_*` runs.

The inductive invariant `IInv` is the conjunction of the three safety
properties with what they need:

- `TypeOK`, including that heights stay below the number of hashes;
- `RootCreated`: the root message exists from the start, so no post takes its hash;
- `Signed`: every signed message satisfies the checks `receive()` will make of it,
  on every replica and at any later time; its parents were signed before it, and
  its height is below the number of signed messages. This is the heart of `HonestNotBanned`:
  author and receiver compute the same functions of the same parents, and a
  timestamp is at most some author's clock, which no receiver finds too far ahead;
- `Known`: a replica stores and caches only signed messages, and caches only stored ones;
- `Tasks`: a call in flight names only messages its replica has, and a call that is
  past its checks (`store`, `invalidate`) still has the parents of its message
  in the store. A store never shrinks, so this survives every await, and with it
  `Store` keeps `DagClosed`;
- `DagClosed`, `LeavesExact`, `HonestNotBanned`.

`LeavesExact` needs `DagClosed` and that the stored message is new: then no
stored message names it as a parent, so it is a leaf, and only its parents
cease to be leaves. The steps are proved in groups of actions (`LeafSteps`, `CountSteps`,
`PostSteps`, `BuildStep`, `QuerySteps`, `ReceiveSteps`, `StoreStep`, `ReturnSteps`,
`TickStep`), which share lemmas on what a change of one call does to the
invariant. That a finite set of integers has a maximum (`MaximumExists`) is
proved by taking a smallest set without one, because the library's induction
theorem on finite sets takes an operator; `MaxOverProperty` and its like then
characterise heights and timestamps. `Refinement` maps `PostBuild` to `Create`, a `Store` of a
message new to the replica to `Deliver`, and every other step to a stutter; it
uses `Tasks` and `Known` to discharge the guards of the abstract actions.

The `Serial...` theorems are about a caller that awaits each call on a channel before it makes the next:
`Serial` says that no two calls have one home, as in `channel_serial`. Without it they fail, as section 4
tells. `SerialInv` says that what a call has read stays true until it returns
(`SerialFits`: the leaves or the count it holds are the backend's, the message it receives is still new, there is a leaf when there
is a message), and that a replica's caches are what the backend would answer, but between an add and the reset that follows (`Coherent`).
`AboveInv` adds, for a post or a query under way, that all it must come after or start below is at most as high as one of the
leaves it read. That rests on `LeafAbove`: above every stored message there is a leaf which is as high and as late. The proof takes the
greatest height among the stored messages that are so, which exists because there are finitely many. `FewLeaves`, that no replica has
more leaves than `MAX_LEAVES_COUNT`, is a hypothesis because `slice` drops the leaves beyond: then a post need not come after them. It
holds throughout `channel_serial`.

### Synchronization

`SyncProofs` proves for every graph of messages, all page sizes and limits:

| Theorem | States |
|---|---|
| `SyncInvariant` | `Spec => []SyncInv` |
| `SyncTyped` | `Spec => []TypeOK` |
| `LocalAlwaysClosed` | `Spec => []Closed(local)` |
| `HonestNeverBannedInSync` | `Spec => []HonestRemoteNotBanned` |
| `PagesClassified` | `Spec => []PageClassified` |
| `NothingUnresolved` | `Spec => [](~gone => NoSilentGap)` |
| `SyncFetchesAll` | `Spec /\ []AllLeavesSeen => [](~gone => SyncComplete)` |

Assumptions: `SyncAssumption` (types of the constants) and `GraphsAssumption` (parents have lower numbers than
their children, and heights never drop as numbers rise, which is the order by height and then hash). TLC evaluates
both in the `sync_*` runs.

`SyncInv` says that a page is looked through before anything is requested (`Stages`); what `computePartialDAG`
has looked at is known to miss a parent, is to be requested, or is stored (`Partial`); the remote still has what it
offered (`Offered`); and the messages requested or received have each parent in the store or before them in the same order
(`Ready`, `InOrder`). From this `receive()` never misses a parent. The other ban is that of a full sync with an
unknown parent, for which `FullInv` adds `Full`: as long as the remote is neither `gone` nor `overtaken`, the walk starts at the remote's first
message, each page is all the remote has between its ends (`ForwardPage`), and so everything before the cursor is stored. A message the remote gains
either comes after the cursor, where the walk will meet it, or sets `overtaken`. The parents of a page's messages are
in the page or stored from the moment the page is read; what the remote gains within the range of the last page, which nothing follows, is no parent of these.

`PagesClassified` rests on `Looked`: while a page is looked through, what is to be requested has every parent stored or to be
requested, and what is kept back has a parent that is external or kept back itself. That this then holds of all ancestors
is shown for the least message of which it does not. Heights and ancestors are recursive functions; that they
have the values their definitions say (`HeightsEquation`, `AncestorsEquation`) is proved by induction over the
set of numbers up to which such a function exists (`SetInduction`, a consequence of every nonempty set of numbers having a least one).

`NothingUnresolved` rests on `Resolvable`: what a backward page is to resolve is on the remote and before the cursor; a page
has all the remote has between its ends, so each parent of its messages is in it or before it, and when anything is left to
look for, the page has a predecessor. `SyncFetchesAll` adds `Walked`: the walk starts at or below the heads (leaves) of what the remote had, at
a height at which it has a message (`EveryHeight`: a closed store has a message at every height up to its highest); the heads before the cursor are
stored, also while it goes back; and those of a page with no external hash are stored once it is received (`KeptBack`). A closed store that has the heads has
everything (`HeadsCover`). The leaf height of the syncing side is not needed for this: it only makes the walk shorter. `AllLeavesSeen`, that the remote
has no more than `MAX_LEAVES_COUNT` leaves, is needed: section 4 tells of `MaxLeaves = 1`. A remote that removes the channel (`gone`)
answers with an empty page, which ends the walk as if it were done.

### Gossip

`GossipProofs` proves for any protocols, links, channels and messages and any bounds on concurrent syncs and dropped connections:

| Theorem | States |
|---|---|
| `GossipInvariant` | `Spec => []GossipInv` |
| `GossipTyped` | `Spec => []TypeOK` |
| `SpreadInvariant` | `Spec => []Spread` |
| `QuietMeansAgreement` | `Spec => []QuietAgreement` |

The assumption is `GossipAssumption`, evaluated by the `gossip_line` run. No theorem assumes that a message is announced: what is not is in `untold`,
whose three causes are in the actions `Post`, `Drop` and `Finish`.

`GossipInv` says that syncs and fired waiters belong to a connection and a channel that is there (`Peered`), that they
carry only what the remote has (`Owned`, `Carried`), that a `pending` agent has a sync running, which will repeat
(`PendingRuns`), and that with a remote that is not yet in its loop there is a sync of every saved channel, which still waits to be answered (`OneEnd`). `Spread` says of every message
that a connected peer lacks that it is `untold`, or why it will come: the channel is to be announced or a notification is unread; or a sync of the peer
has not asked yet, holds the message, or will be repeated; or it came from a third protocol by a sync whose end will announce it
(`UnderWay`). Steps that only call `synchronize()` share `CallsKeep` and `StaysExplained`; steps of one sync share `SyncMoves`. In a quiet state
nothing is under way, hence nothing is lacking but what is `untold`.

### Connections

`ConnectionsProofs` proves for any number of protocols and sockets and ids of any width:

| Theorem | States |
|---|---|
| `CompareAntisymmetric` | of two different ids exactly one sends the `Shake`, also at the threshold |
| `ConnInvariant` | `Spec => []ConnInv` |
| `ConnectionsTyped` | `Spec => []TypeOK` |
| `NobodyWaits` | `Spec => []NeverBothWait` |
| `AlwaysReconnectable` | `Spec => []Reconnectable` |
| `NeverTwoPeers` | `Spec => []OnePeerPerRemote` |

The assumptions are those on the constants in `Connections`, evaluated in `conn_lifecycle`. `ConnInv` has the types,
`HelloFits` (an end that has read the Hello knows the id of the other end's protocol), `Waits` (an end waits for a
Shake only from the side that `compareDistance` elects) and `Registered` (an id in `globalPeerIds` is that of a
connection that is still there). The last one makes ids free again when the connections are gone.

`NeverTwoPeers` needs `MateInv`: `RemoteFits` (an end that goes on past its Hello has the id of its remote's protocol), `RemoteRead` (before, it has none),
`OneActive` (on the side that `compareDistance` elects to decide, of two ends for one remote that are accepted or run, one is in `lost`) and
`Guarded` (the remote of such an active end is in `globalPeerIds`, or the end is in `lost`). `Guarded` is what makes `OneActive` inductive: the next end finds the
id registered and stops, unless those before it are all in `lost`. An id leaves `globalPeerIds` with an end that is destroyed; if that
end was the one active holder, no other needs it, and if it was refused or in `lost` itself, `Rob` puts the holders into `lost`.

### Trust and presence

`PresenceProofs` proves for every set of nodes, identities and watching users, any clocks within the
leeway, and any lengths and times:

| Theorem | States |
|---|---|
| `PresenceTrust` | `Spec => TrustSpec`: connections change nothing about who is trusted |
| `PeerInvariant` | `Spec => []PeerInv` |
| `TrustCorrect` | `Spec => []TrustInv`: types of the trust part, sound chains |
| `PresenceTyped` | `Spec => []TypeOK` |
| `ChainsAlwaysFit` | `Spec => []ChainsFit` |
| `LinksNeverTooEarly` | `Spec => []NeverTooEarly` |
| `OwnerAlwaysStays` | `Spec => OwnerStays` |
| `HonestAlwaysAccepted` | `Spec => []HonestAccepted` |
| `ChangesAlwaysTold` | `Spec => []ChangesAreTold` |

Assumptions: `TrustAssumption` and `PresenceAssumption` (types of the constants) and `ClockAssumption` (clocks
differ by no more than the leeway of a link). TLC evaluates them in `presence`.

The inductive invariant `PeerInv` has these parts:

- `TrustInv`: the types, `ChainsFit` and `NeverTooEarly`; that is, every chain that is held or on its way in an invite is
  *sound*: it leads from the owner, and its links began before now by anybody's clock (`AllSound` in the lemmas). `AppendSound` shows that an issued link keeps this,
  because it starts `Leeway` before the issuer's clock; `SoundLater` that time does;
- `InFlight`: a request on its way carries a sound chain of the identity that made it, and the chain was valid at least
  until `Leeway` after the request was made. With it, a receiver that refuses it must be looking at it later than that:
  `HonestAccepted`;
- `Sockets`: a connection is open at both of its ends or at none, and requests are only on open ones. It is
  needed because an end that is deleted must not leave a request that a later connection of the same two would read;
- `Remembers`: what a Peer remembers is a chain of the owner's, and belongs to a Peer that is still there. `Delete` makes
  the second half true, and without it a chain map could change with no event;
- `Watching` and `ChangesAreTold`: the chain map when the wait began is the one now, unless the user is
  woken, a Peer is about to wake it, or a Peer left in silence.

One lemma per action shows that it keeps each part.

### Requests

`RequestsProofs` proves for any agents, concurrent syncs, unanswered pings and widths of numbers:

| Theorem | States |
|---|---|
| `ReqInvHolds` | `Spec => []ReqInv` |
| `TypesHold` | `Spec => []TypeOK` |
| `BansExplained` | `Spec => []BanExplained` |
| `Refines` | `Spec => ImplementsRpc` |

The assumption is `RequestsAssumption`: among the types, that no more pings may be without an answer than there
are numbers. TLC evaluates it in `requests`.

Numbers wrap, so the question is whether a late answer can meet a newer request with the same number. For an agent it cannot,
because a number in the table is not given out again (`Asking`: what is pending has a call that waits for it). For pings the
table helps only against the current one, and the proof is by age. `Age(now, n)` is how long ago the number `n` was
given out, counted modulo the width. Sockets keep the order, so ages do not rise along the packets on their
way (`Ordered`, which spans both directions: what the remote has answered is older than what it has yet to read), and none is older than the
`Unanswered` last pings (`Travelling`), no more than there are numbers. Hence a pong that bears the number of the pending ping is the pong to it.
The order and the bound are invariants only together: an answer that arrives removes one from the bound, and what is still under
way must then be younger than it.

`Incoming` and `Outgoing` tie every packet to the box of its request and to what the remote said, which is the refinement mapping of `Rpc`.
`Calls` and the second part of `Travelling` say that, as long as the channel is in its first life, an answer finds its request
pending and a call of the same kind waiting. So the only ways to a ban are those `BanExplained` names.

### Registry

`RegistryProofs` proves for any keys, names, concurrent calls and crashes:

| Theorem | States |
|---|---|
| `RegInvHolds` | `Spec => [](RegInv /\ MessageInv)` |
| `TypesHold` | `Spec => []TypeOK` |
| `AlwaysRestartable` | `Spec => []Restartable` |
| `NamesAreUnique` | `Spec => []NamesUnique` |
| `DiskAgreesHolds` | `Spec => []DiskAgrees` |
| `StoreStaysClosed` | `Spec => []StoreClosed` |
| `LeftInvHolds` | `Spec => [](LeftInv /\ OwnInv)` |
| `LeftoversHold` | `Spec => []LeftoversExplained` |
| `OrphansHold` | `Spec => []OrphansExplained` |

The assumption is `RegistryAssumption`: types, a finite set of own keys, and that `undefined` is neither a key nor a name nor a stored identity.
TLC evaluates it in `registry`.

A crash may fall between any two operations, so an invariant on the storage as it is now is not enough. `Ops` is the
sequence of the operations that calls await, in the order in which they take effect, and `ChanAt(k, n, v)` and `IdAt(i, n, v)` say that `v` is stored
for a channel or an identity after the first `n` of them. The invariant `RegInv` is about all these storages to come:

- `ChanLine`, `IdLine`: after the last of them, the storage holds what memory holds (for a removed identity that was used again,
  anything). With an empty queue this is `DiskAgrees`;
- `NameLine`, `IdNames`: after any number of them, no name is stored twice; for none at all this is `Restartable`. A new name cannot be stored while an old
  bearer is still to be erased, because operations that were called earlier take effect earlier;
- `MemNames`, `IdMem`: the same for memory;
- `Listing`, `Born`: identities are sorted, have names, and one that is being created is not listed before `addIdentity()`;
- `Types`: among them `Fits`, what each call awaits at each of its steps, and that the queue holds each waiting call once.

A step takes the first operation off `Ops` and adds at most one at its end. The lemmas treat the two moves alone (`Turn`), and what the new operation
is to a key (`ChanKept`, `ChanWritten`, `IdKept`, `IdWritten`), so that one lemma per action remains. `MessageInv` adds `NoClash` and
`Closed`: a channel whose removal met no other call about it has closed messages at every moment.

What is left behind is explained at every moment, not only at rest. `LeftInv` is about a channel that does not exist and that no failed
or overlapping call excuses (`Fine`):

- `MessagesPass`: its messages are those of a channel that is being made, or of one whose removal has not yet erased them;
- `ChainsPass`: an identity in memory has a chain for it only while the channel is about to be added, while its removal has just begun, or
  while the loop of `removeChannel()` is still to come to that identity (`Ahead`). The loop goes by position over a list that other calls change
  meanwhile: an identity that is inserted moves others away from the start of the list (`MovedUp`), so none is skipped; a removal of an
  identity could make the loop skip one, and therefore counts as an overlap;
- `RecordsPass`: the same for every identity that the storage will hold after any number of the operations under way. This is what lets
  `ChainsPass` survive a crash: `load()` takes the chains from there;
- `Making`: an identity that is being created is unknown to other calls, and its channel stays until the call ends.

`OwnInv` is about channels made here. `Owned`: in memory the channel's identity has its chain, and so has the storage after any number of
the operations under way, or the operation that stores it comes later in the queue (`Owns`). The last case is why a crash has to be excused: until
`createIdentityPair()` ends, the storage may hold the channel alone. `Once`: a channel made here does not exist before it is added nor after its
removal, so that a removal never takes the chain of a channel that comes back. Both rest on `RegInv` and `MessageInv`, and their
steps on `CallDoes`, which says of each step what it does to the call, the lists and the chains, and on `Shifted`, which says how the queue moves.

### Wire

`WireProofs` proves for any number of hops and lists of any length:

| Theorem | States |
|---|---|
| `WireInvariant` | `Spec => []Inv` |
| `WireTyped` | `Spec => []TypeOK` |
| `ReadIsSent` | `Spec => []Faithful` |
| `EncodedAgain` | `Spec => []BytesStable` |
| `SignaturesHold` | `Spec => []SignaturesSurvive` |

The assumption is `WireAssumption` (both bounds are numbers), evaluated in `wire`.

The heart of it is `DecodeInverse6`: `decode()` undoes `encode()` for an *exact* object, one that has just the properties of its type, all of its
repeated fields, and exact messages within. Such facts are induction over nested values, which the prover cannot do; but no type contains
itself, so they are stated and proved once for each level, the lemma of one level citing that of the level within (`Laid1` to `Laid6`, `DecodeInverse1` to
`DecodeInverse6`, `EncodeAlike1` to `EncodeAlike6`). One level is an argument about lists: the fields under one number, taken from all that `encode()` wrote, are those of the one field that
has it (`UnderFlatten`, from the fact that the numbers of a type differ, `Numbered`), and a field under any other number changes nothing wherever it
stands (`UnderInsert`). The lemmas on `FlattenSeq` are proved by `SetInduction`.

Not everything that the library encodes is exact. A query carries a channel id and a number that its type does not have, a bulk response
the id of its channel, and the request to a feed has no chain where `decode()` makes an empty one. Therefore an object has a *twin* (`Twin`): exact, encoded
to the same bytes (`Alike`), covered by the same signatures. `SentTwin` gives each object of the library its twin; messages, identities, channels
and invites are their own. The invariant `Inv` has these parts:

- `Typed`: what is sent is of the library's making (`Out`);
- `Known`: the bytes that its signatures cover, as the code computes them, are those that the makers signed;
- `Carried`: the bytes under way have, under every number of the type, what `encode()` wrote there. It is not said that they are what `encode()` wrote,
  since a field of a later version may have been put anywhere;
- `Understood`: what was read is a twin of what was sent.

`Faithful`, `BytesStable` and `SignaturesSurvive` follow at once. That `PassOn` keeps `Known` is `OnwardSound`, one lemma for each kind of value: what is
rebuilt from what was read is again of the library's making, and it is covered by no signatures but those that covered what was sent, unless it is a request, which is signed anew. For
a message this needs that every field and link comes back as it was (`MessageAgainIs`); with the time of the rebuilding in place of the
message's timestamp (the mutant) it fails.

### Only model-checked

Liveness, which the prover cannot reason about (fairness, `ENABLED`): `SyncEnds`, `Converges`, `DeadNoticed` and `HandshakeEnds`.
Every invariant and action property of the passing runs is a theorem, as are the two refinements; where a theorem needs a
hypothesis (`Serial`, `FewLeaves`, `AllLeavesSeen`, or that the remote keeps the channel), its section says why.

## 6. Not modelled, and why

- Signatures, encryption, varints and JSON: calls into libraries. Keys stand for signatures; whoever has a box can open it.
- Behaviour of dishonest peers, malformed packets and limits on their sizes (`checkId`, `checkHash`, `checkJSON`).
- `Identity.metadata`, `clear()`, `Protocol.waitForPeer`: nothing else depends on them.
- The crypto of `encryptData` and of invites; the swarm, which is not in this repository.
- Feeds in `Presence`: their requests need no chain, and leave nothing behind.
- The example chat, but for its waiting for an invite: a user interface.
- Reads by offset, `waitForIncomingMessage` and the like: plain reads.
- `Channel.query` by hash and `bulk` do not look at leaves or change state; they are
  in `ChannelSync` only.
- The overflow checks of `sync` and `receiveBulk` on response sizes: only a dishonest
  remote reaches them. (The one for queries reports through `response.messages`, which does not
  exist, so it throws a `TypeError`; `channel.js:406-408`.)

## 7. Reading order

`DagReplicas`, `Channel`, `ChannelProofs`; then `ChannelSync`, `SyncProofs`; then `Gossip`, `GossipProofs`,
`Connections`, `ConnectionsProofs`; `Trust`, `Presence`, `PresenceProofs`; `Rpc`, `Requests`, `RequestsProofs`; `Registry`, `RegistryProofs`; `Wire`, `WireProofs`. From `Gossip` on, the
groups are independent of each other.

## 8. Plan

Order of work, the most important behaviour first. Done: all of it; every safety invariant and action property
that a passing run checks is proved.

1. `Channel` with caches at await granularity, `DagReplicas`, refinement, proofs.
2. `ChannelSync`.
3. `Gossip`.
4. `Connections`.
5. `Trust` and `Presence`: chains, clocks, the chain map and its events, proofs.
6. `Rpc` and `Requests`: numbers, boxes, pings, late answers, refinement.
7. `Registry`: persistence and crashes.
8. `Wire`: the encoding, level by level, and its proofs.
9. Out of the prover's reach: liveness.
