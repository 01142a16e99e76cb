# OpsView: TLA+ specifications, model checking and proofs

OpsView lets operators watch the screen of a remote machine and the CCTV
recorders beside it. An **agent** next to the cameras publishes to a **relay**;
**viewers** and the relay's web **dashboard** watch through the relay, which
also records the cameras. This directory holds TLA+ models of the stateful and
concurrent parts of the three programs, the TLC runs that check them on small
instances, and TLAPS proofs.

## 1. Inventory

| Component (source) | State | Operations | How it meets the others |
|---|---|---|---|
| Publisher side of the hub (`relay/hub.go`, `relay/agent_session.go`) | sessions by agent id; per session the publisher connection, its PIN, a write mutex | `HandlePublish` (handshake, PIN check, claim, READY, serve, release), `sessionByPIN`, `getOrCreateSession`, `sendToPublisher`, `Hub.Stop` | one goroutine per agent connection; watchers and the dashboard write to the publisher; the default session shares the test pattern |
| Test pattern (`relay/testpattern.go`) | `running`, two channels in fields | `Start`, `Stop`, the generator goroutine | started and stopped by `HandlePublish` of the default agent, `Hub.Run`, `Hub.Stop` |
| Watcher fan-out (`relay/agent_session.go`, `/watch` in `relay/hub.go`, `relay/framebuf.go`) | watchers, count, bounded send channels, cached config and frame | `run`, `removeWatcher`, `HandleWatch`, `watcherWritePump`, `routeSnapshotResponse` | read loop → broadcast channel → per-watcher channel → socket |
| PIN limiter (`relay/limiter.go`) | attempts per address | `allowed`, `recordFailure`, `recordSuccess`, `pruneLocked` | called by `HandleWatch` before and after the handshake |
| fMP4 fan-out (`relay/surv_ws.go`) | init segment, GOP cache, clients and their channels | `writeAU`, `setInit`, `broadcast`, `add`, `remove`, `ServeWS` | fed by an RTSP reader or by ffmpeg; read by `ServeWS` and the live grid |
| Surveillance proxy (`relay/surv_proxy.go`, `relay/surv_transcode.go`) | streams by id, `configMu` | `HandleSurvConfig`, `StartChannel`, `StartTranscodeChannel`, `StopChannel`, `StopAll`, `monitorAndReconnect` | a goroutine per config from the publisher's read loop; a monitor per RTSP stream |
| Live walls (`relay/surv_mosaic.go`, `relay/surv_router.go`, `relay/wallorder.go`) | `mosaics` beside `streams`, layout preferences | `EnsureMosaic`, `stopMosaicID`, `reapMosaicWhenIdle`, `ServeWallOrder` | viewers, operators and configs call it; a reaper per wall |
| Live grid (`relay/live_grid_ws.go`, `relay/dashboard_assets/wsplayer.js`) | subscriptions, byte counters | reader and writer goroutine; the browser's socket factory | takes clients of the fMP4 hubs |
| Recorder (`relay/recorder.go`) | a supervisor and an ffmpeg per channel | `Run`, `reconcile`, `startLocked`, `supervise`, `stopAll` | follows the proxy's live streams |
| Janitor and segment index (`relay/recorder.go`, `relay/recordings.go`, `relay/rectimeline.go`) | the segment files, a cache of directory listings | `runJanitor`, `janitorDeleteOrder`, `indexedSegments`, `segmentsForExport`, `timelineFor` | asks the event store which footage shows an event |
| Event store (`relay/events.go`) | open intervals, a file and a cached copy per day | `add`, `closeInterval`, `fileInterval`, `updateOpenPlate`, `overlaps`, `clusterEventItems` | fed by the publisher's read loop |
| Event thumbnails (`relay/recthumb.go`, `relay/thumb_variants.go`) | snapshot files, a byte-bounded cache, a queue of cards | `storeEventThumb`, the handler, `queueCardThumb` and its workers, pruning | agents send, dashboards ask, the janitor prunes |
| Settings, registry, sessions of the dashboard (`relay/dashboard*.go`, `relay/hub.go`, `relay/agent_registry.go`, `relay/wallorder.go`, `relay/store.go`) | password, hidden agents, labels, alert settings, agents, wall layouts, in memory and in SQLite; signed cookies | login, logout, password change and the setters | HTTP handlers of several operators at once |
| Alerts (`relay/alerts.go`) | who was reported down | `alertMonitor` | reads the sessions while handlers change them |
| Agent connection loop (`agent/agent.go`, `agent/tray.go`) | the agent in the tray, its connection, the backoff index | `startAgent`, `stopAgent`, `restartAgent`, `Run`, `connect`, `captureLoop`, `Stop` | tray menu and web UI call it; the relay's peer |
| Agent surveillance manager (`agent/surveillance.go`, `agent/web_ui.go`, `agent/agent.go`) | recorders, stable keys, channels in SQLite | `AddDVR`, `UpdateDVR`, `DeleteDVR`, `DiscoverChannels`, `ReorderChannels`, self-heal, `sendSurvConfig`, … | web UI, edits from the relay and self-heal at once; the relay gets the result |
| Viewer streams (`viewer/cctv_rtsp.go`) | a map of streams, an RTSP client each | `StartChannelStream`, `StopDVRStreams`, `StopAllStreams`, `rtspReconnectLoop` | called by the frontend |
| ISAPI and ONVIF clients, snapshots, capturers, updaters, sprites, export, request screening, plates, wire encoding, Android, site | – | – | not modelled, section 8 |

What is hard here: almost every object is shared by goroutines that take a
mutex several times in one operation, so what was read under one critical
section is stale in the next (PIN check and claim, start and insert of a
stream, a wall's channels and its build, a listing and its cache entry, memory
and database); channels of bounded capacity that drop rather than block;
goroutines that must end when their peer does; streams and connections that
break and are retried while something else is being changed; intervals and
windows that cross midnight. Section 7 and `hazards` in `PROJECT.json` list
where each of these bites.

Correct means, in one line per component: a session has at most one publisher
and no slot or PIN leaks; a watcher's channel is never used after it was closed
and a joining watcher misses nothing; a client of a stream always starts with an
init segment and a keyframe and sees no silent gap; a blocked address stays
blocked for its time and an innocent one is not; the streams that run are those
of the configuration; one encoder per wall, stopped when idle; a grid's flow
control neither overruns its window nor stalls; every channel has one recorder,
on its main stream; events are filed where they are looked for, and the janitor
deletes what it must and no more; a thumbnail is never one that was replaced
before it was asked for; a restart loads what was set; a recorder keeps its key
for life and the relay ends up with what the agent has; alerts alternate; an
agent gets its slot again, and one that was stopped ends.

## 2. Modules

| Module | Models | Remarks |
|---|---|---|
| `TestPattern` | the generator | a channel pair is named by the number of the `Start` that made it; the goroutine's unlocked field reads are separate actions; closing a channel twice sets `crashed` |
| `HubPublish` | publisher side, EXTENDS `TestPattern` | a step at every unlock of `HandlePublish`; `handler[c]` holds the goroutine's locals |
| `PublisherSlot` | what `/publish` promises | the abstract specification: slots with one tenant at a time; `HubPublish` instantiates it |
| `AgentSession` | watcher fan-out | `run` holds the read lock during a whole fan-out, so joins and removals exclude it and snapshot responses do not; what is cached and sent is an item with a version |
| `SurvWSHub` | fMP4 fan-out | fragments are numbered, `gen` numbers the muxers; `first`, `gapped` and `crossed` are history |
| `LiveGrid` | both goroutines and the browser | of a hub it uses only what `SurvWSHub` shows |
| `SurvProxy` | streams and reconnection | `StartChannel` is two steps (drop the old entry; insert the new one) around an unlocked dial |
| `SurvMosaic` | one wall | `EnsureMosaic` is two steps around its unlock; a reaper's decision and its stop are two steps |
| `EventStore` | events of one stream | edges in milliseconds, intervals in seconds; the lengths of a second and a day are constants; an append to a day's file may fail, and its line is lost (`unwritten` is history) |
| `Archive` | segment files, janitor and index of one channel, EXTENDS `EventStore` | the janitor's scan is a step and so is each removal, a listing is three (stat, list, store); an export is put together from listings, cached or not; a restart forgets what is in memory |
| `Recorder` | `Run` and the supervisors | ffmpeg is external and ends at any time |
| `Thumbs` | event thumbnails of one stream | a request is a step per file operation, cache look-up and wait; a file's identity is a number |
| `Settings` | settings in memory and SQLite | a handler is a list of steps (`Steps`); any statement may fail, the relay may restart between any two; `WallChannelIDs` is what a wall makes of its stored order |
| `PinLimiter` | limiter and its callers | time in ticks; `failures` is history |
| `DeviceStore` | the agent's recorders, keys and channels | a statement is a step; the look-ups of a key may fail, which the code takes for a miss; `sendSurvConfig` reads table by table and sends; `dvBlind` is history |
| `Alerts` | `alertMonitor` | a sweep is a step per session and two for one that is offline |
| `AgentLoop` | agents of one process against the relay's slot | the slot is the one of `HubPublish`, seen from outside |
| `ViewerStreams` | the viewer's stream of one channel | |
| `*Proofs` | TLAPS proofs about the modules they EXTEND | section 6 says which is about what |
| `Listing` | nothing of its own: lists in order, for `Settings` and `DeviceStore` | `Sorted` (`sort.SliceStable` by a total order) and `Picked` (a loop that appends what passes a test), stated by places and not by recursion, so that the proofs can use them |
| `DataLemmas` | nothing: lemmas the proof modules cite | sequences, least and greatest elements, sums over finite sets, lists in order |
| `MC*` | instances for TLC | `MCFanOut`, `MCRecorders`, `MCUpkeep`, `MCStores` and `MCSupervision` put components side by side that share no state: `part` says which of them a behaviour is about |

Real composition is by EXTENDS: `HubPublish` with the pattern it starts and
stops, `Archive` with the event store its janitor asks.

`map` in `PROJECT.json` gives the source lines of every definition. Operators
whose name ends in `_Something` and whose comment starts with "Mutant" are
plausible bugs; each is used to show that the property it belongs to would
notice (`mutants` in `PROJECT.json`), and none is part of a specification.

Abstractions: payloads (pixels, fragments, JSON) are identities or versions;
RTSP, HLS and ffmpeg are sources that start, fail or end at any time; a WebSocket
write is atomic unless a property is about concurrent writers; SQLite is a
function from keys to rows, a statement is atomic and may fail; logging and
counters shown on the dashboard are left out, except the watcher count.

## 3. Runs

| Run | Checks | Shows |
|---|---|---|
| `MCHubPublish` | TypeOK, SinglePublisher, OnlineIffOwned, PatternNotLost, SendersExclude, ImplementsSlot | slots, PINs and the pattern are consistent whatever connections, reloads and shutdown do; the handler implements the abstract slot |
| `MCHubPublishServed` (violation) | ClaimedIsServed | section 5, 1 |
| `MCHubPublishReady` (violation) | ReadyIsWrittenAlone | section 5, 4 |
| `MCFanOut` | RemovedOnce, SnapshotToRequester, StreamIsPlayable, FlowControlled, NoHubLeak | safety of the three fan-outs: two watchers, two stream clients, two grid slots |
| `MCFanOutLive` | WatcherUpToDate, ClosedIsCollected, QueuedIsSent, BothEnd | order and completeness with more messages; dead watchers are collected, the grid does not stall and both its goroutines end |
| `MCFanOutInit` (violation) | KeyFitsInit | section 5, 5 |
| `MCRecorders` | MapIsExact, StreamsMatchConfig, IdentityHasOneKey | configurations and reconnects on two DVRs; two devices that move, are swapped and tell who they are or do not, with look-ups that fail |
| `MCSurvProxyRetries` (violation) | RetriesUsedUp | section 5, 2 |
| `MCSurvMosaicStream` (violation) | WallHasStream | section 5, 3 |
| `MCUpkeep` | EventsAreFound, DeletesWhatItMust, ListingsAreRight, OpenIsFiled, OverCapIsCleared; EncoderIsListed, IdleIsReaped | events, plates, segments, janitor, index and restarts; a wall under a viewer, an operator, a config and reapers |
| `MCStores` | TypeOK, ThumbIsCurrent, WithinBounds, WallShowsItsCameras, LastChangerStaysIn, RestartKeepsSettings, BlocksAreDeserved, RelayShowsIt | four stores that several actors change at once |
| `MCSupervision` | TypeOK, NoSessionLost, RecordersFollow, AlertsFollow, AgentsAccounted, RunsOn, DroppedIsHandled | four supervising loops with failures and retries |

`CHECK_DEADLOCK FALSE` everywhere: the counters that bound a behaviour run out,
and a relay nobody talks to rests. "Everyone waits on everyone" is checked as
liveness instead (ClaimedIsServed, ClosedIsCollected, QueuedIsSent, BothEnd, and
the part NeverHeld of WithinBounds). A property that is a conjunction names its
parts in its module; each part has a comment, and nearly each a mutant, of its own.

### Bounds

Every bound is a constant that a guard names. They are chosen so that the
interesting cases happen:

* `HubPublish`: two connections at once and three in all, so that a second one
  claims while the first one's deferred function still runs and a third meets
  both; four generators are enough for three restarts. Two PINs and two agents
  are needed for a collision and for a rejected one.
* `AgentSession`: channels of capacity 1 or 2 (4 in production) are full after
  that many messages, so eviction, the second failure and the kick happen; two
  watchers join and, in the second run, one object is reused, so that a late
  snapshot response meets another watcher.
* `SurvWSHub`: a GOP cache of 2, a channel of 3 and 4 fragments: the cache
  overflows, the seed fits or not, a channel fills up, the muxer restarts once.
* `LiveGrid`: a keyframe is larger than the window's remainder; three packets
  per slot with two slots; the liveness run has room for one subscription and
  two slots, so the limit is met.
* `SurvProxy`: two configurations and one broken connection on two DVRs, each
  with a camera whose live stream is transcoded when it is recorded in high
  resolution; four entries, enough for both streams of both (an entry is never
  reused, a fifth start is cut off by the bound).
* `SurvMosaic`: one viewer, one post, one configuration, two encoders.
* `Archive`: a day has three seconds and a second two milliseconds; segments of
  two seconds and events of at most two cross midnight, and the last event and
  segment reach into the third day. The cap is one full segment, one second is
  kept in any case and two if they show an event, so each class of the deletion
  order is met; the index has room for one day, so that it evicts. Four of the
  edges, files, listings, failures and restarts happen in one behaviour
  (`Budget`). One line of an interval may be lost (`MaxUnwritten`), of the only
  day or of one of two.
* `Thumbs`: two seconds, two pictures of which one is wide, two requests, one
  worker, a queue and a pool of ffmpeg slots of one, a cache for two entries or
  three bytes, two changes of the disk: the queue fills up, entries are evicted,
  a snapshot is replaced while it is read and converted.
* `Settings`: four requests of two operators (so that both log in and change
  the password at once), two passwords, two agents, two
  alert fields, layouts with a duplicate and with a camera that is gone.
* `PinLimiter`: two of four failures block, window 1, block 3, four ticks, one
  entry before pruning: expiry, a new window, a second block and pruning happen.
* `DeviceStore`, in `MCStores`: two threads, three operations and one device at
  one address, which tells its serial number or is known by its address only;
  discovery misses one of two channels and finds a third, and the order that is
  set swaps the two and names one of them twice. In `MCRecorders`: one thread and four
  operations, which are enough to add two devices at two addresses and swap them
  or to remove one and add it again elsewhere, with two serial numbers, one of
  them told with a MAC address, or nothing but the address known; no channels
  and no order, which do not touch the keys. Two AddDVR at once, which one
  thread cannot run, are what IdentityHasOneKey excepts.
* `Recorder`: three recorders of one channel, two failures of ffmpeg, three
  changes of the live streams: sub, main and nothing in any order.
* `Alerts`: two sites, a grace period of two ticks; time is unbounded (an age
  stops at the grace period).
* `AgentLoop`: two agents, two connections, two calls and two faults, a backoff
  table of two: the successor meets the slot its predecessor still holds.
* `ViewerStreams`: two starts, a stop, two drops and two attempts.

### Fairness

Only the goroutines of the modelled program are fair, with these exceptions: in
`LiveGrid` a browser whose connection is open handles what arrives; in
`AgentLoop` the relay answers a handshake and notices a dead connection (TCP
keep-alive of Go's listener), and the screen goes on changing, so that a capture
loop without a connection notices; network calls of `ViewerStreams` return (they
have time limits). Agents, viewers and operators may stop at any moment, and
nothing makes ffmpeg, a stream or a connection fail. Weak fairness stands for
the Go scheduler running what can run, and for tickers. Strong fairness is used
for what a goroutine finds possible again and again: a `select` that is
repeatedly offered a channel or a tick (Go chooses at random among the ready
cases; the janitor's scan in `Archive`), and a writer waiting for a
`sync.RWMutex` that readers release again and again (the lock does not starve
writers).

## 4. What the properties say

* *SinglePublisher / OnlineIffOwned*: the check-and-claim under `sess.mu` and
  the guarded deferred release are enough, although the goroutines of one agent
  overlap and the registry is reloaded between the two lookups. *ImplementsSlot*
  says the same as a refinement: the goroutines between claim and release are
  the tenants of `PublisherSlot`, one after the other.
* *PatternNotLost*: the `Start` of a leaving publisher and the `Stop` of the
  next one may come in either order; whenever the pattern is off, somebody still
  has to start it.
* *SendersExclude*: `pubWriteMu` belongs to the session while the connection
  was read earlier; still no two routed messages are written to one connection
  at once. READY is not a routed message and is not covered (section 5, 4).
* *RemovedOnce* (NoSendOnClosed, CountIsExact): a kick and the handler's own
  removal both run.
* *WatcherUpToDate* (InOrder, JoinMissesNothing): a watcher is in the map before
  it reads the caches; what it ends up with is the newest of everything but what
  its full channel dropped.
* *StreamIsPlayable* (GopDecodable, InitThenKey, InitOfItsMuxer, NoGap): cache,
  seed and fan-out are one critical section each and fit together. The init
  segment and the keyframe a client starts with come from one muxer unless the
  client is in `crossed`: seeded when the group of pictures was still that of an
  earlier one (section 5, 5).
* *FlowControlled* (WindowBound, PlayerInOrder), *NoHubLeak*, *QueuedIsSent*,
  *BothEnd*: the grid.
* *BlocksAreDeserved* (NoUndeservedBlock, BlockRunsItsTime): the second part is
  an action property; see the comments in the module.
* *MapIsExact* (MappedIsAlive, NoOrphan): the first part holds through every
  reconnect; NoOrphan and *StreamsMatchConfig* hold until a connection breaks
  (section 5).
* *EncoderIsListed* (OneEncoder, MapsAgree), *IdleIsReaped*: although the
  reaper's decision is stale.
* *EventsAreFound* (OverlapsIsExact, TimelineFaithful): the janitor's overlap
  test and the timeline look at one or two day files and still see every event
  that any file holds, exactly once, unless one of its two lines could not be
  written. An event of motion is shown, or its stretch of motion is beside a mark
  of another kind.
* *OpenIsFiled*: an open event leaves the map only into the files of its days,
  with its plate; where the append fails, that line and nothing else is lost.
  *DeletesWhatItMust*, *OverCapIsCleared*: the order of deletion against its
  definition, and that the disk gets under its cap although removals fail.
  *ListingsAreRight* (IndexFresh, ExportIsComplete): a cached listing that the
  mtime vouches for is right, and the narrowed search of an export finds, in
  listings cached per day, what a search of everything would.
* *ThumbIsCurrent*, *WithinBounds* (CacheAccounts, OneJobPerCard, NeverHeld):
  no answer was replaced before its request arrived; cache, card queue and waits
  are bounded. NeverHeld uses ENABLED and is an invariant: every step of a
  request leads forward, so "can go on by itself" is what its termination needs.
* *LastChangerStaysIn*, *RestartKeepsSettings*, *WallShowsItsCameras*: operators at
  once, failing statements and restarts. The second compares what is in memory
  with what a restart would load (`AfterRestart`, seeding from the environment
  included). It excepts settings in `stMixed`, two changes of one setting that
  met, or one that broke off, which the code does not exclude (section 5), and
  what comes back from the environment: a cleared alert setting and the last
  named agent removed (section 5). The third is about both branches of
  `wallChannelIDs`: the wall of a site shows every camera once, a group wall each
  place of its order.
* *IdentityHasOneKey*, *RelayShowsIt* (RelayHasIt, ReorderSticks): the first
  says that a serial number on record is on one key (OneKeyEach), that a device
  added with that number gets this key and no other (OwnKey), and that a key
  keeps its number for ever (SerialsStay). The first two except what follows two
  AddDVR at once or a failed look-up of a serial number on record, both in
  `dvBlind` (section 5). The second excepts a configuration read while another
  thread wrote.
* *RecordersFollow*, *AlertsFollow*, *AgentsAccounted*, *RunsOn*: each joins the
  safety and the liveness of one loop; BackoffInRange excepts two loops of one
  process that advance the index at once (section 5).
* *NoSessionLost*, *DroppedIsHandled*: the first excepts starts and stops that
  met a start or a reconnect (section 5).

## 5. Where the code and its comments disagree

Five disagreements have a run with a TLC counterexample:

1. `testpattern.go:52` "Stop … Blocks until stopped". The generator evaluates
   `close(tp.stopped)` from the field when it is first scheduled. A Stop and a
   Start before that make it close the *new* pair's channel; the Stop that waits
   for the old one never returns, and the default publisher is never served.
2. `surv_proxy.go:692` "then retries with backoff". The first attempt calls
   `StartChannel`, which finds the broken entry in the map and stops it: the
   context that the loop selects on is cancelled and `e.stopped` set, so a
   failed first attempt is also the last.
3. `surv_proxy.go:226` "Keep every running wall matched". A configuration stops
   every stream that is no channel, a wall's included, and leaves `mosaics`; the
   `EnsureMosaic` that follows sees an unchanged signature and returns.
4. `surv_ws.go:330` "gorilla allows only one concurrent writer", `agent.go:145`
   of the same. READY (`hub.go:337`) is written without `pubWriteMu` when the
   connection is `sess.publisher` already, so that a routed message may be
   written at the same time. It may also arrive before READY, and `connect` takes
   it for READY (`agent.go:155`).
5. `surv_ws.go:227` "so MSE always gets init then a decodable keyframe". A restart
   of ffmpeg makes a new muxer for the same hub; between its init segment and its
   first keyframe `add` seeds a client with the new segment and the old group of
   pictures.

Others show in the models, where the corresponding steps are, and have no run of
their own.

Relay:

* `hub.go:314` "globally-unique PIN among online agents": `CheckPIN` and
  `ClaimSession` are two critical sections, so two agents may go online with one
  PIN.
* `hub.go:44` sessions "keyed by agentID": the second lookup's `ok` is dropped,
  so an agent removed in between gets a session with the empty id
  (`LookupSession`).
* `limiter.go:10` "The map is bounded to maxIPs": an entry is inserted even when
  pruning freed nothing. `limiter.go:51` "sliding window": the window is fixed.
* `surv_proxy.go:96` "so start/stop logic stays coherent": a monitor calls
  `StartChannel` outside `configMu` and may overwrite, or bring back, a stream.
  Stopping an entry does not close its WebSocket hub (`surv_proxy.go:361`), and
  a changed URL or password does not restart a running stream
  (`surv_proxy.go:157`).
* `hub.go:385`: configurations are applied by a goroutine each, in any order. A
  slow watcher's queue may drop the only copy of a new one
  (`agent_session.go:71`).
* `surv_router.go:155` "rebuild in the new order/quality": the signature has no
  quality, so a quality-only post changes nothing on a running wall.
* `events.go:74` "force-closing any stale open one past maxEventMs": a repeated
  start closes any open interval, however young, with an end at its start +
  maxEventMs, which may lie in the future.
* `events.go:160`: errors of making the directory, opening the file and writing
  the line are dropped after the interval has left the map, and the line is lost.
  `updateOpenPlate` on an event that has ended edits only the cached copy. An
  event shorter than a second that ends on a segment's boundary is tagged to no
  segment. A restart loses the open intervals.
* `recorder.go:58` "segments with startSec >= this are never deleted": when what
  is older does not free enough, `janitorDeleteOrder` goes on with the keep-all
  window (its last class; the comment in its body says so).
* `recordings.go:163`: the cached size of the segment being written is stale,
  since writing does not change the directory's mtime. `recorder.go:356`: tags
  are read before the deletions, so an event filed in between does not count.
* `recorder.go:164`: on a flip between sub and main the old ffmpeg may still be
  ending when the new one starts.
* A sprite strip with cells that failed is cached as immutable (`recsprite.go`).
* `agent_registry.go:163` "deletes a named agent and persists the change": a
  table that is empty is seeded from `RELAY_AGENTS` at the next start
  (`agent_registry.go:72`), so the last named agent comes back.
* `agent_registry.go:92`: a reload lists outside the lock, so that an older list
  may be swapped in last. Two overlapping changes of one setting may leave memory and
  database differing; the four alert settings are written one by one; a cleared
  alert setting comes back from the environment with a restart; the error of
  saving a wall layout is dropped (`wallorder.go:140`).
* `alerts.go`: the grace period counts from the last message, not from the loss
  of the connection; an agent that connected and never published is never
  reported; after a restart of the relay a recovery is not reported.

Agent and viewer:

* `surveillance.go:151` "the same physical device always maps to the same key":
  two AddDVR at once may give one serial number two keys, and so may one whose
  look-up by serial number fails, since any error is taken for a miss
  (`surveillance.go:160`); a match by address does not look at the serial number of
  the key it finds, so a device that replaces another gets the key, and the
  recordings, of the other, against "different serials → different keys" in
  `docs/superpowers/specs/2026-06-11-dvr-stable-identity-design.md:80`; with the
  protocol "auto" neither
  serial number nor MAC is read; after partial readings one MAC may be on two
  keys. The foreign keys' cascade is not enabled, so channels of a removed
  recorder reappear when its key is used again.
* `agent.go:353`: two `sendSurvConfig` may be written in the other order than
  they were read. A protocol that a failed discovery changed is not sent.
* `agent.go:676`: `backoffIdx` is one variable for all loops of the process; two
  that advance it at once pass the end of the table, and the next use panics.
* `tray.go:170`: `restartAgentIfRunning` checks and then acts. `tray.go:139`:
  the callback uses the global agent, nil after `stopAgent`. Errors of the
  heartbeat are ignored (`agent.go:656`). Event readers are started only for
  recorders that exist when the agent starts (`agent.go:437`), and their HTTP
  client has a time limit of ten seconds, which ends an alert stream too.
* `cctv_rtsp.go:176`: of two overlapping starts the second overwrites the
  first's entry; `cctv_rtsp.go:243`: a reconnect that finishes after a stop
  installs a client nobody closes; `cctv_rtsp.go:165`: a failed peer connection
  cancels the stream and leaves it in the map.

## 6. Proofs

The theorems hold for every value of the constants that the named `ASSUME` of
the module allows (`PublishAssumption`, `HubAssumption`, `SessionAssumption`,
`GridAssumption`, `ProxyAssumption`, `MosaicAssumption`, `ArchiveAssumption` and
so on: nil values are outside their sets, bounds and lengths are numbers). TLC
evaluates each of them in a run. Every proof has the same layout: an inductive
invariant, a lemma or a step per action, and a last step that combines them.

| Module | About | Theorems |
|---|---|---|
| `HubPublishProofs` | `HubPublish` | TypeCorrect, SinglePublisherHolds, OnlineIffOwnedHolds, PatternNotLostHolds, SendersExcludeHolds; PublishImplementsSlot (refinement) |
| `FanOutProofs` | `AgentSession`, `SurvWSHub` | RemovedOnceHolds, SnapshotToRequesterHolds, WatcherUpToDateHolds; StreamIsPlayableHolds |
| `WallProofs` | `LiveGrid`, `SurvMosaic` | FlowControlledHolds, NoHubLeakHolds; EncoderIsListedHolds, ListedRunsHolds |
| `SurvProxyProofs` | `SurvProxy` | MapIsExactHolds, StreamsMatchConfigHolds |
| `StoresProofs` | `Settings`, `DeviceStore`, `PinLimiter`, `Thumbs` | RestartKeepsSettingsHolds, LastChangerStaysInHolds; WallShowsItsCamerasHolds; IdentityHasOneKeyHolds, RelayShowsItHolds; BlocksAreDeservedHolds; ThumbIsCurrentHolds, CacheAccountsHolds, OneJobPerCardHolds; TypesHold for all four |
| `ArchiveProofs` | `Archive`, `EventStore` | EventsAreFoundHolds, ListingsAreRightHolds, DeletesWhatItMustHolds, OpenIsFiledHolds |
| `SupervisionProofs` | `Recorder`, `Alerts`, `AgentLoop`, `ViewerStreams` | OneRecorderHolds; AlertsAlternateHolds; OneAgentRunsHolds, NoForgottenLinkHolds, and BackoffInRangeHolds, a lemma on the part of RunsOn that is safety; NoSessionLostHolds; TypesHold for all four |
| `DataLemmas` | no component | a sum over a finite set exists, and what one element more or less does to it (`SumExists`, `SumOfStep`), and that it does not depend on what its summands are counted by (`SumOfRenamed`); a finite set has one list by a total order, and `Sorted` is it (`OneList`, `SortedLists`); what is picked from a sequence (`PickedFacts`); what appending and taking the tail do to a sequence; the least and the greatest of a set of numbers are in it |

### Publishing (`HubPublish`)

`IInv` is the four properties and

* `PairsExist`: the channel pair in the fields exists, and so does the pair a
  generator past its `defer` will close. Without it `stopClosed` and
  `stoppedClosed` could not be shown to hold pairs only;
* `PatternIsDefaults`: only goroutines of the default session are in the steps
  that stop or start the pattern. Without it a goroutine could stop the pattern
  and not count as one that still has to start it.

SinglePublisher and OnlineIffOwned need each other: that nobody owns a free slot
makes a claim safe, and that the owner is the one the slot names makes a release
complete. `SlotsUntouched` covers the steps that move a goroutine without
touching a slot; `GotoFacts`, `ReturnFacts` and `PatternSteps` are about the
building blocks.

SendersExclude, of the routed messages, has an invariant of its own, `SendersInv`: `pubWriteMu` is a
mutex (`MutexHeldOnce`), but of a session and not of a connection. That is enough
because the connection a sender holds is still served under the session it was
read from, or its goroutine has returned (`HeldIsOfSession`), so that two senders
with one connection wait for one mutex (`OneMutexPerConn`).

The refinement maps the tenants of a slot to the goroutines between claim and
release, and the advertised PIN to `sess.pin`. On top of `IInv` it needs
`HasPIN`: a goroutine past authentication holds a PIN, never the empty string,
so that a claim advertises one. `ClaimEnters` shows that a successful claim is an
entry, `ReleaseLeaves` that a release is a departure, and `OwnersUntouched` that
any other step is a stutter.

### Fan-out (`AgentSession`, `SurvWSHub`, `LiveGrid`)

*AgentSession.* RemovedOnce and SnapshotToRequester follow from the life cycle
of a watcher (`Lifecycle`, `Counted`), from what the fan-out goes over
(`FanOverWatchers`) and from request ids never being used twice (`IdsApart`).
WatcherUpToDate, a watcher whose queue is empty shows the newest state, needs
the order of everything on its way: versions on their way to `run` have no gap
(`Numbered`), `run` alone replaces what is cached (`CacheOwns`), a queue holds
what was offered, in order (`QueuesOffered`, `InOrder`), and the newest version
is still to be offered, in the channel, or shown (`NothingMissed`).

*SurvWSHub.* No fragment is broadcast before there is an init segment
(`InitPublished`); a started client got init segment and keyframe together and
one that was not started has nothing queued (`StartedWithKey`); the cached group
of pictures starts with a keyframe (`GopDecodable`); what a client got after it
has no gap it was not restarted for (`NoGap`). For InitOfItsMuxer the invariant
follows the muxers: while a group of pictures is of the muxer in use, so is the
init segment beside it. `ClientsApart` (a client is new,
in the hub or closed) is what makes adding and removing one safe.

*LiveGrid.* The window is a matter of bookkeeping across four queues: packets,
acknowledgements, the relay's counter and the browser's. `Carries(d, R, from,
to)` says that the packets of stream `d` in a queue take a counter from `from`
to `to`, and `InFlight`, `AcksReceived`, `WindowKept` add the stretches up.
`QueueRun`, `PlayerInOrder` and `DownInTurn` keep the order; `SubsOnce` and
`WriterSlots` give NoHubLeak: a subscription is in a hub exactly while the
session has a slot for it.

### Surveillance (`SurvProxy`, `SurvMosaic`)

*SurvProxy.* The map is exact because it is converging: each wanted stream runs,
is to be started by the goroutine that applies the configuration, or failed
(`Converging`); nobody else's stream is left over (`NoOrphan`, `MappedIsAlive`,
`MappedIsUsed`, `WatchedIsUsed`); a worker works on the version it was started
for (`WorkersOfCur`, `VersionsKnown`). StreamsMatchConfig assumes that no
connection broke, so `NothingBroken` says what follows from that: a connection
that is down was stopped, and monitors start nothing.

*SurvMosaic.* `OneEncoder`, `MapsAgree` and `Numbered` (no encoder number is
used twice); ListedRuns is the converse of EncoderIsListed, which without it
could be kept by listing nothing.

### Stores

*Settings.* Memory and database differ only while a handler is between its
statements (`Settled`; an alert field Unset in the database may also be the
environment's in memory), which gives what a restart would load; what a lone
handler has done is known from where it is (`DoneSoFar`); and who changed the
password last has a cookie that counts, or none, or is about to get one
(`ChangerGetsCookie`).

WallShowsItsCameras needs of the invariant only that the order in memory is one
that was stored. For the wall of a site the rest is about `reorderByPreference`:
what it puts first are the cameras at the first places they have in the
preference, each of which picks another camera, and what it puts last are the
others, so that the result is as long as the list of streams, has the same
cameras (`ReorderedFacts`), and, being as long as their number, has none twice
(`OnceEach`). That no stream id is there twice to begin with is an assumption on
`Streaming`: the ids are the keys of the proxy's map. For a group wall it is what
`Picked` says of the places it picks.

*DeviceStore.* IdentityHasOneKey holds until `dvBlind`: while no two AddDVR met
and no look-up missed a serial number, one of them is at work (`OneAdder`), what
it found out is still true when it writes (`FindingsHold`), and the key it found
is the one of its serial number, if any is (`FoundHolds`). SerialsStay needs no
exception: a key's empty facets are filled and nothing else (`SerialsKept`).
For RelayHasIt the invariant follows the
configuration from the tables to the relay: a thread that is putting it together
has what is in the tables of the recorders it is through with, unless it knows
that they changed under it (`GathersRight`), every change of a table leaves its
thread with a send still to do, and while nobody is to send, the relay has what
there is (`RelayIsRight`). Every recorder having a key (`RowsHaveKeys`) is what
lets a table be read recorder by recorder.

ReorderSticks, the other half of RelayShowsIt, follows the operator's order in
the agent's table: the channels of the order set last are still there, with
strictly growing places (`WantedInPlace`; it is checked with TLC before it is
proved). `ReorderChannels` makes it so although its list may name a channel
twice (`ReorderInPlace`, `PlaceGiven`); a round of discovery keeps it because a
channel that is there keeps its place, and a new one has no claim on any
(`OrdersKept`). `orderStreams` sorts by a total order, the place and then the
number (`StreamsAreOrdered`), so that of the channels shown the ordered ones are
a list of them by their places, of which there is one (`ShownInPlace`).

*PinLimiter.* BlocksAreDeserved is an action property over the history of
failures, and its invariant says what the map remembers of it: a block ends at
most `Block` after now, which is what makes a new block end no earlier than the
one it replaces (`BlocksEnd`); the failures of an address that its entry counts
all lie within the entry's window, and there were `MaxFails` of them within one
window when its block began (`EntriesDeserved`).

*Thumbs.* Files are triples of path, identity and image, and all that are known
(on disk, in the cache, being read or being made) agree on the image of an
identity (`OneImage`). `ReqHolds` says of a request, step by step, what it can
rely on (`ReqGood`, `SeesDisk`, `FindsImage`). For OneJobPerCard the jobs of a
path are counted in both places where they can be, the queue and the workers
(`OneJobOf`, `CardsApart`): a worker that takes the head of the queue moves one
from the first to the second, and only `QueueCardThumb`, which looks at
`thPending`, adds one. For CacheAccounts the list of the cache is seen as a set:
with one entry per key (`OneEach`) its bytes are the sum over that set and its
length is the set's size (`CacheAsSet`), so that `get`, which reorders or
removes, makes neither larger (`GetFits`), and `put`, which removes the old entry
of the key first, adds just the new one (`PutFits`). That an image alone fits the
budget, as `maxEventThumbBytes` sees to, is the assumption that `put` needs when
it has emptied the cache.

TypesHold is about the specification `MCStores` composes of the four, as in
Supervision. Some of a type needs the invariants above: an image that is put
into the cache has a key because its request looks for the right path
(`RightPath`), and an identity because only an opened file is put
(`ReqStepPcs`).

### Archive (`Archive`, `EventStore`)

The invariant has a part per place where state is kept:

* events, `EvInv`: an open interval started in the past (`OpenKept`); a closed
  one is, but for a line that was lost, in the files of the day it starts and of
  the day it ends, which is the same or the next (`FilesKept`); the cached day, while it is
  valid, agrees with the file but for the plates (`CacheKept`);
* disk, `DiskKept`: one file per name, finitely many;
* index, `IndexKept`: the mtime a listing is stored under was read before the
  directory was, so the listing is right for as long as the directory still has
  that mtime. `DirStep` shows that a step on the directory gives it a new mtime or
  leaves its names alone; `ReaderKept` is the same for a listing being taken.

DeletesWhatItMust compares the janitor's selection with what the cap, the tiers
and the events demand. Its lemmas are about sums over finite sets (`Total`),
day arithmetic (quotients) and least and greatest elements. The library's
induction on finite sets takes an operator as a parameter, so sums are handled
by a smallest counterexample in the subsets' cardinalities.
`janitorDeleteOrder` and `clusterEventItems`, loops in the code, are stated on
sets for the same reason: what is deleted is what precedes the point where the
total falls under the cap, and a cluster is a maximal run of items that touch.
TLC compared both with the loops written as folds, in every state of the
archive's run, before they were replaced.

### Supervision (`Recorder`, `Alerts`, `AgentLoop`, `ViewerStreams`)

`MCSupervision` runs one of the four loops per behaviour; the theorems are about
the specification of each loop (`RecSpec` and so on), and TypesHold is about the
composed one, whose steps are steps of one part that leave the others alone
(`EachPartSteps`).

*Recorder.* OneRecorder is inductive with the types: `Reconcile` may start a
recorder for a channel only when it cancels the one in `recs`, or there is none.

*Alerts.* What is counted is what the map says: an alert is open exactly for the
sites in `down` (`DownIsOpen`).

*AgentLoop.* Agents are numbered in the order of their start, so that a loop
that is started was off (`AgNumbered`). An open connection is held by `a.conn` or
by a connect that waits for its answer, and `a.conn` is empty while the loop is
not capturing, so that `Accepted` overwrites nothing (`AgHeld`). BackoffInRange
is about a comparison and an increment that are two steps: until two loops
overlapped, at most one is between them, and the index it is about to increment
is below the last one (`AgWaits`).

*ViewerStreams.* NoSessionLost follows from who may hold a client (`VsHands`)
and from the order of a start without interference: one start at a time, with no
stream in the map, and a stream that plays or reconnects is in the map or about
to be (`VsOrdered`). The property's exception `vsMet` is exactly
what breaks `VsOrdered`.

### Only model-checked

Fairness and `ENABLED` are outside the prover's reach, so these stay with TLC:

* the properties that are liveness only: ClosedIsCollected, QueuedIsSent,
  BothEnd, IdleIsReaped, OverCapIsCleared, DroppedIsHandled;
* the liveness halves of RecordersFollow, AlertsFollow, AgentsAccounted and
  RunsOn, whose safety halves are theorems;
* NeverHeld, the part of WithinBounds that says `ENABLED`; its other two parts,
  CacheAccounts and OneJobPerCard, are theorems.

Every other property of a passing run is stated by a theorem.

## 7. Hazards

`hazards` in `PROJECT.json` lists, with the line, what a test would hardly
reach in this code and which property would notice it going wrong. Exposures for
which the code makes no promise, and which therefore have no property, are the
second half of section 5.

## 8. Not modelled, and the plan

Not modelled for good, since there is no shared state to go wrong, only parsing,
image processing, the operating system or third-party code: licence plate
recognition, ONVIF and ISAPI parsing, snapshot fetching, RTSP codec setup and
HLS muxing, sprites and export beyond the selection of segments, request
screening, the wire encoding, screen capturers, updaters, HTML and rendering,
the Android web view, the site and the evaluation tools. The viewer's device
table repeats the agent's (`DeviceStore`) with fewer operations.

Left out of modelled components: several channels under the janitor's one cap
and the list of days; paging of the event list; WebRTC negotiation of the
viewer; the agent's answers to snapshot requests; read errors of the database in
`sendSurvConfig` and of the files of events.

Worth doing next: an abstract FIFO with loss for `AgentSession` as a refinement.
What is left to prove needs liveness or `ENABLED` (section 6).
