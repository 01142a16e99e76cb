---------------------------- MODULE AgentSession ----------------------------
(***************************************************************************)
(* relay/agent_session.go and the /watch side of relay/hub.go: how one     *)
(* session fans what its publisher sends out to its watchers.              *)
(*                                                                         *)
(* Processes: the publisher's read loop (cache, then broadcast), the       *)
(* session's run loop (broadcast channel to the watchers' bounded send     *)
(* channels, evicting the oldest message of a full one), per watcher a     *)
(* HandleWatch goroutine and a write pump, and the removeWatcher           *)
(* goroutines spawned for slow watchers.                                   *)
(*                                                                         *)
(* What is cached and sent is an item (the surveillance configuration or a *)
(* screen tile) with a version, the number of the publisher message that   *)
(* carried it.  run holds s.mu for reading during a whole fan-out, so no   *)
(* watcher is added or removed meanwhile; a snapshot response, which takes *)
(* s.mu for reading too, does interleave with it.                          *)
(***************************************************************************)
EXTENDS Integers, Sequences, FiniteSets

CONSTANTS
    Watchers,      \* Watcher objects that may exist at the same time
    Config,        \* the item "surveillance configuration"
    Tiles,         \* the items "screen tile"
    Other,         \* what a message that is not cached carries
    QueueCap,      \* Config.MaxWatcherQueue
    BroadcastCap,  \* capacity of s.broadcast
    MaxMessages,   \* publisher messages
    MaxJoins,      \* watchers that may join
    MaxRequests    \* snapshot requests

Items == Tiles \cup {Config}
Contents == Items \cup {Other}

ASSUME SessionAssumption ==
    /\ Config \notin Tiles /\ Other \notin Items
    /\ QueueCap \in Nat \ {0} /\ BroadcastCap \in Nat \ {0}
    /\ MaxMessages \in Nat /\ MaxJoins \in Nat /\ MaxRequests \in Nat

VARIABLES
    cache,      \* sess.survConfig and sess.frameBuf: version of each item
    pubSeq,     \* messages the publisher has sent
    pubSend,    \* message the read loop is blocked on sending, <<>> if none
    broadcast,  \* s.broadcast
    fan,        \* the run loop
    watchers,   \* s.watchers
    watcherCount,
    wid,        \* w.id
    idSeq,      \* h.watcherIDSeq
    wpc,        \* where the HandleWatch goroutine of w is
    pump,       \* watcherWritePump of w
    send,       \* w.send
    closed,     \* the watchers whose send channel is closed
    open,       \* the watchers whose connection is open
    kicked,     \* go s.removeWatcher(w) spawned by run, not yet executed
    requests,   \* snapshot requests at the publisher: the ids in their reqID
    asked,      \* snapshot requests so far
    view,       \* what the peer of w has received: version of each item
    lost        \* items whose newest message for w was evicted (history)

pubVars == <<cache, pubSeq, pubSend>>
asVars == <<pubVars, broadcast, fan, watchers, watcherCount, wid, idSeq, wpc, pump, send, closed,
          open, kicked, requests, asked, view, lost>>

Update == [kind : {"update"}, item : Contents, ver : 1 .. MaxMessages]
Snapshot == [kind : {"snapshot"}, id : 0 .. MaxJoins]
Message == Update \cup Snapshot

(* The run loop between messages, or inside the range over s.watchers. *)
FanIdle == [phase |-> "idle"]
FanBusy == [phase : {"range"}, msg : Update, todo : SUBSET Watchers]
           \cup [phase : {"evict", "resend"}, msg : Update, todo : SUBSET Watchers, w : Watchers]
Versions == [Items -> 0 .. MaxMessages]

AsTypeOK ==
    /\ cache \in Versions
    /\ pubSeq \in 0 .. MaxMessages
    /\ pubSend \in {<<>>} \cup {<<m>> : m \in Update}
    /\ broadcast \in Seq(Update) /\ Len(broadcast) <= BroadcastCap
    /\ fan \in {FanIdle} \cup FanBusy
    /\ watchers \subseteq Watchers
    /\ watcherCount \in Int
    /\ wid \in [Watchers -> 0 .. MaxJoins]
    /\ idSeq \in 0 .. MaxJoins
    /\ wpc \in [Watchers -> {"none", "config", "frame", "start", "reading", "leaving", "left"}]
    /\ pump \in [Watchers -> {"none", "running", "ended"}]
    /\ send \in [Watchers -> Seq(Message)]
    /\ \A w \in Watchers : Len(send[w]) <= QueueCap
    /\ closed \subseteq Watchers /\ open \subseteq Watchers /\ kicked \subseteq Watchers
    /\ requests \subseteq 0 .. MaxJoins
    /\ asked \in 0 .. MaxRequests
    /\ view \in [Watchers -> Versions]
    /\ lost \in [Watchers -> SUBSET Contents]

AsInit ==
    /\ cache = [i \in Items |-> 0]
    /\ pubSeq = 0 /\ pubSend = <<>>
    /\ broadcast = <<>> /\ fan = FanIdle
    /\ watchers = {} /\ watcherCount = 0
    /\ wid = [w \in Watchers |-> 0] /\ idSeq = 0
    /\ wpc = [w \in Watchers |-> "none"]
    /\ pump = [w \in Watchers |-> "none"]
    /\ send = [w \in Watchers |-> <<>>]
    /\ closed = {} /\ open = {} /\ kicked = {}
    /\ requests = {} /\ asked = 0
    /\ view = [w \in Watchers |-> [i \in Items |-> 0]]
    /\ lost = [w \in Watchers |-> {}]

-----------------------------------------------------------------------------
(* The publisher's read loop: SurvConfig and FrameDelta are cached first and
   then sent on the broadcast channel, which may block; messages of other
   types, and frames that do not decode, are only sent on. *)
PublishItem(i) ==
    /\ pubSend = <<>>
    /\ pubSeq < MaxMessages
    /\ pubSeq' = pubSeq + 1
    /\ cache' = IF i = Other THEN cache ELSE [cache EXCEPT ![i] = pubSeq + 1]
    /\ pubSend' = <<[kind |-> "update", item |-> i, ver |-> pubSeq + 1]>>
    /\ UNCHANGED <<broadcast, fan, watchers, watcherCount, wid, idSeq, wpc, pump, send, closed,
                   open, kicked, requests, asked, view, lost>>

PublishBroadcast ==
    /\ pubSend # <<>>
    /\ Len(broadcast) < BroadcastCap
    /\ broadcast' = broadcast \o pubSend
    /\ pubSend' = <<>>
    /\ UNCHANGED <<cache, pubSeq, fan, watchers, watcherCount, wid, idSeq, wpc, pump, send, closed,
                   open, kicked, requests, asked, view, lost>>

(* Mutant: the response goes to any watcher with room. *)
RouteSnapshotResponse_ToAnyone(id) ==
    /\ pubSend = <<>>
    /\ id \in requests
    /\ requests' = requests \ {id}
    /\ \E w \in watchers :
          /\ Len(send[w]) < QueueCap
          /\ send' = [send EXCEPT ![w] = Append(@, [kind |-> "snapshot", id |-> id])]
    /\ UNCHANGED <<pubVars, broadcast, fan, watchers, watcherCount, wid, idSeq, wpc, pump, closed,
                   open, kicked, asked, view, lost>>

(* A snapshot response carries the requester's id in its reqID; it goes to
   the watcher of this session that has the id, if there is one and its
   channel has room.  The id is stripped again on the way. *)
RouteSnapshotResponse(id) ==
    /\ pubSend = <<>>
    /\ id \in requests
    /\ requests' = requests \ {id}
    /\ \/ \E w \in watchers :
             /\ wid[w] = id
             /\ Len(send[w]) < QueueCap
             /\ send' = [send EXCEPT ![w] = Append(@, [kind |-> "snapshot", id |-> id])]
       \/ /\ \A w \in watchers : wid[w] = id => Len(send[w]) >= QueueCap
          /\ UNCHANGED send
    /\ UNCHANGED <<pubVars, broadcast, fan, watchers, watcherCount, wid, idSeq, wpc, pump, closed,
                   open, kicked, asked, view, lost>>

-----------------------------------------------------------------------------
(* Mutant: only watchers that have been sent the cache are served. *)
FanStart_OnlyPumped ==
    /\ fan = FanIdle
    /\ broadcast # <<>>
    /\ fan' = [phase |-> "range", msg |-> Head(broadcast),
               todo |-> {w \in watchers : pump[w] = "running"}]
    /\ broadcast' = Tail(broadcast)
    /\ UNCHANGED <<pubVars, watchers, watcherCount, wid, idSeq, wpc, pump, send, closed,
                   open, kicked, requests, asked, view, lost>>

(* run: take a message, then offer it to every watcher in turn. *)
FanStart ==
    /\ fan = FanIdle
    /\ broadcast # <<>>
    /\ fan' = [phase |-> "range", msg |-> Head(broadcast), todo |-> watchers]
    /\ broadcast' = Tail(broadcast)
    /\ UNCHANGED <<pubVars, watchers, watcherCount, wid, idSeq, wpc, pump, send, closed,
                   open, kicked, requests, asked, view, lost>>

(* Mutant: the message overtakes what is queued. *)
Offer_InFront(w) ==
    /\ send' = [send EXCEPT ![w] = <<fan.msg>> \o @]
    /\ lost' = [lost EXCEPT ![w] = @ \ {fan.msg.item}]

(* Enqueue fan.msg for w: its item is up to date for w again. *)
Offer(w) ==
    /\ send' = [send EXCEPT ![w] = Append(@, fan.msg)]
    /\ lost' = [lost EXCEPT ![w] = @ \ {fan.msg.item}]

FanOffer(w) ==
    /\ fan.phase = "range"
    /\ w \in fan.todo
    /\ \/ /\ Len(send[w]) < QueueCap
          /\ Offer(w)
          /\ fan' = [fan EXCEPT !.todo = @ \ {w}]
       \/ /\ Len(send[w]) >= QueueCap
          /\ fan' = [phase |-> "evict", msg |-> fan.msg, todo |-> fan.todo \ {w}, w |-> w]
          /\ UNCHANGED <<send, lost>>
    /\ UNCHANGED <<pubVars, broadcast, watchers, watcherCount, wid, idSeq, wpc, pump, closed,
                   open, kicked, requests, asked, view>>

(* The channel was full: drop its oldest message, if the pump has left one. *)
EvictedItem(w) == IF Head(send[w]).kind = "update" THEN {Head(send[w]).item} ELSE {}

FanEvict ==
    /\ fan.phase = "evict"
    /\ IF send[fan.w] = <<>>
       THEN UNCHANGED <<send, lost>>
       ELSE LET w == fan.w
                newer == {m \in Contents : \E k \in 2 .. Len(send[w]) :
                             send[w][k].kind = "update" /\ send[w][k].item = m}
            IN  /\ send' = [send EXCEPT ![w] = Tail(@)]
                /\ lost' = [lost EXCEPT ![w] = @ \cup (EvictedItem(w) \ newer)]
    /\ fan' = [fan EXCEPT !.phase = "resend"]
    /\ UNCHANGED <<pubVars, broadcast, watchers, watcherCount, wid, idSeq, wpc, pump, closed,
                   open, kicked, requests, asked, view>>

(* Offer again; a watcher that still has no room is disconnected. *)
FanResend ==
    /\ fan.phase = "resend"
    /\ \/ /\ Len(send[fan.w]) < QueueCap
          /\ Offer(fan.w)
          /\ UNCHANGED kicked
       \/ /\ Len(send[fan.w]) >= QueueCap
          /\ kicked' = kicked \cup {fan.w}
          /\ UNCHANGED <<send, lost>>
    /\ fan' = [phase |-> "range", msg |-> fan.msg, todo |-> fan.todo]
    /\ UNCHANGED <<pubVars, broadcast, watchers, watcherCount, wid, idSeq, wpc, pump, closed,
                   open, requests, asked, view>>

FanEnd ==
    /\ fan.phase = "range"
    /\ fan.todo = {}
    /\ fan' = FanIdle
    /\ UNCHANGED <<pubVars, broadcast, watchers, watcherCount, wid, idSeq, wpc, pump, send, closed,
                   open, kicked, requests, asked, view, lost>>

FanStep == FanStart \/ (\E w \in Watchers : FanOffer(w)) \/ FanEvict \/ FanResend \/ FanEnd

-----------------------------------------------------------------------------
(* HandleWatch, after the PIN selected this session: a new Watcher object is
   registered (under s.mu) before anything is sent to it. *)
JoinWatcher(w) ==
    /\ wpc[w] = "none"
    /\ idSeq < MaxJoins
    /\ fan = FanIdle
    /\ idSeq' = idSeq + 1
    /\ wid' = [wid EXCEPT ![w] = idSeq + 1]
    /\ watchers' = watchers \cup {w}
    /\ watcherCount' = watcherCount + 1
    /\ open' = open \cup {w}
    /\ wpc' = [wpc EXCEPT ![w] = "config"]
    /\ UNCHANGED <<pubVars, broadcast, fan, pump, send, closed, kicked, requests, asked, view, lost>>

(* What the peer of w holds after it was sent the cached versions of S. *)
ReceiveCached(w, S) ==
    view' = IF w \in open
            THEN [view EXCEPT ![w] = [i \in Items |-> IF i \in S THEN cache[i] ELSE @[i]]]
            ELSE view

(* READY and the cached configuration, written straight to the connection. *)
SendCachedConfig(w) ==
    /\ wpc[w] = "config"
    /\ ReceiveCached(w, {Config})
    /\ wpc' = [wpc EXCEPT ![w] = "frame"]
    /\ UNCHANGED <<pubVars, broadcast, fan, watchers, watcherCount, wid, idSeq, pump, send, closed,
                   open, kicked, requests, asked, lost>>

(* The cached full frame, likewise. *)
SendFullFrame(w) ==
    /\ wpc[w] = "frame"
    /\ ReceiveCached(w, Tiles)
    /\ wpc' = [wpc EXCEPT ![w] = "start"]
    /\ UNCHANGED <<pubVars, broadcast, fan, watchers, watcherCount, wid, idSeq, pump, send, closed,
                   open, kicked, requests, asked, lost>>

StartPump(w) ==
    /\ wpc[w] = "start"
    /\ wpc' = [wpc EXCEPT ![w] = "reading"]
    /\ pump' = [pump EXCEPT ![w] = "running"]
    /\ UNCHANGED <<pubVars, broadcast, fan, watchers, watcherCount, wid, idSeq, send, closed,
                   open, kicked, requests, asked, view, lost>>

(* The read loop forwards a snapshot request under the watcher's id. *)
RequestSnapshot(w) ==
    /\ wpc[w] = "reading"
    /\ w \in open
    /\ asked < MaxRequests
    /\ asked' = asked + 1
    /\ requests' = requests \cup {wid[w]}
    /\ UNCHANGED <<pubVars, broadcast, fan, watchers, watcherCount, wid, idSeq, wpc, pump, send,
                   closed, open, kicked, view, lost>>

(* The peer goes away. *)
PeerClose(w) ==
    /\ w \in open
    /\ open' = open \ {w}
    /\ UNCHANGED <<pubVars, broadcast, fan, watchers, watcherCount, wid, idSeq, wpc, pump, send,
                   closed, kicked, requests, asked, view, lost>>

(* conn.ReadMessage fails once the connection is closed, by either side. *)
ReadError(w) ==
    /\ wpc[w] = "reading"
    /\ w \notin open
    /\ wpc' = [wpc EXCEPT ![w] = "leaving"]
    /\ UNCHANGED <<pubVars, broadcast, fan, watchers, watcherCount, wid, idSeq, pump, send, closed,
                   open, kicked, requests, asked, view, lost>>

(* Mutant: the channel is closed without the session's lock. *)
RemoveWatcher_Unlocked(w) ==
    /\ IF w \in watchers
       THEN /\ watchers' = watchers \ {w}
            /\ watcherCount' = watcherCount - 1
            /\ closed' = closed \cup {w}
       ELSE UNCHANGED <<watchers, watcherCount, closed>>
    /\ open' = open \ {w}

(* Mutant: the counter drops at every call. *)
RemoveWatcher_CountsTwice(w) ==
    /\ fan = FanIdle
    /\ watchers' = watchers \ {w}
    /\ watcherCount' = watcherCount - 1
    /\ closed' = closed \cup {w}
    /\ open' = open \ {w}

(* Mutant: the send channel is never closed. *)
RemoveWatcher_NoClose(w) ==
    /\ fan = FanIdle
    /\ watchers' = watchers \ {w}
    /\ watcherCount' = IF w \in watchers THEN watcherCount - 1 ELSE watcherCount
    /\ open' = open \ {w}
    /\ UNCHANGED closed

(* removeWatcher(w): the map, the counter and the channel change only if w
   is still registered; the connection is closed in any case. *)
RemoveWatcher(w) ==
    /\ fan = FanIdle
    /\ IF w \in watchers
       THEN /\ watchers' = watchers \ {w}
            /\ watcherCount' = watcherCount - 1
            /\ closed' = closed \cup {w}
       ELSE UNCHANGED <<watchers, watcherCount, closed>>
    /\ open' = open \ {w}

(* ... deferred by HandleWatch, ... *)
LeaveWatcher(w) ==
    /\ wpc[w] = "leaving"
    /\ RemoveWatcher(w)
    /\ wpc' = [wpc EXCEPT ![w] = "left"]
    /\ UNCHANGED <<pubVars, broadcast, fan, wid, idSeq, pump, send, kicked, requests, asked, view, lost>>

(* ... or in the goroutine that run spawned for a slow watcher. *)
KickWatcher(w) ==
    /\ w \in kicked
    /\ RemoveWatcher(w)
    /\ kicked' = kicked \ {w}
    /\ UNCHANGED <<pubVars, broadcast, fan, wid, idSeq, wpc, pump, send, requests, asked, view, lost>>

-----------------------------------------------------------------------------
(* watcherWritePump: a message reaches the peer ... *)
PumpWrite(w) ==
    /\ pump[w] = "running"
    /\ send[w] # <<>>
    /\ w \in open
    /\ LET m == Head(send[w])
       IN  view' = IF m.kind = "update" /\ m.item # Other THEN [view EXCEPT ![w][m.item] = m.ver] ELSE view
    /\ send' = [send EXCEPT ![w] = Tail(@)]
    /\ UNCHANGED <<pubVars, broadcast, fan, watchers, watcherCount, wid, idSeq, wpc, pump, closed,
                   open, kicked, requests, asked, lost>>

(* ... or the write fails, which ends the pump and closes the connection;
   the range over a closed and drained channel ends it too. *)
PumpEnd(w) ==
    /\ pump[w] = "running"
    /\ \/ /\ send[w] # <<>> /\ w \notin open
          /\ send' = [send EXCEPT ![w] = Tail(@)]
       \/ /\ send[w] = <<>> /\ w \in closed
          /\ UNCHANGED send
    /\ pump' = [pump EXCEPT ![w] = "ended"]
    /\ open' = open \ {w}
    /\ UNCHANGED <<pubVars, broadcast, fan, watchers, watcherCount, wid, idSeq, wpc, closed,
                   kicked, requests, asked, view, lost>>

(* Nothing refers to the Watcher object any more: its slot is free. *)
Collect(w) ==
    /\ wpc[w] = "left" /\ pump[w] = "ended" /\ w \notin kicked
    /\ wpc' = [wpc EXCEPT ![w] = "none"]
    /\ pump' = [pump EXCEPT ![w] = "none"]
    /\ wid' = [wid EXCEPT ![w] = 0]
    /\ send' = [send EXCEPT ![w] = <<>>]
    /\ closed' = closed \ {w}
    /\ view' = [view EXCEPT ![w] = [i \in Items |-> 0]]
    /\ lost' = [lost EXCEPT ![w] = {}]
    /\ UNCHANGED <<pubVars, broadcast, fan, watchers, watcherCount, idSeq, open, kicked, requests, asked>>

-----------------------------------------------------------------------------
HandlerStep(w) ==
    \/ SendCachedConfig(w) \/ SendFullFrame(w) \/ StartPump(w)
    \/ ReadError(w) \/ LeaveWatcher(w)

AsNext ==
    \/ \E i \in Contents : PublishItem(i)
    \/ PublishBroadcast
    \/ \E id \in requests : RouteSnapshotResponse(id)
    \/ FanStep
    \/ \E w \in Watchers :
          \/ JoinWatcher(w) \/ HandlerStep(w) \/ RequestSnapshot(w) \/ PeerClose(w)
          \/ KickWatcher(w) \/ PumpWrite(w) \/ PumpEnd(w) \/ Collect(w)

(* The relay's goroutines run; the run loop releases s.mu and a goroutine
   waiting for it is served (sync.RWMutex does not starve writers), hence SF
   for the removals.  A peer need not read, ask or hang up. *)
AsFairness ==
    /\ WF_asVars(PublishBroadcast)
    /\ WF_asVars(FanStep)
    /\ \A w \in Watchers :
          /\ WF_asVars(HandlerStep(w)) /\ WF_asVars(PumpEnd(w))
          /\ SF_asVars(LeaveWatcher(w)) /\ SF_asVars(KickWatcher(w))

AsSpec == AsInit /\ [][AsNext]_asVars

-----------------------------------------------------------------------------
(* run and routeSnapshotResponse never send on a closed channel (which would
   panic the relay): a watcher they can reach has an open channel. *)
NoSendOnClosed ==
    /\ watchers \cap closed = {}
    /\ fan.phase # "idle" => fan.todo \cap closed = {}
    /\ fan.phase \in {"evict", "resend"} => fan.w \notin closed

(* watcherCount, which the dashboard shows, is the number of watchers even
   when a kick and the handler's own removal both run. *)
CountIsExact == watcherCount = Cardinality(watchers)

(* A channel holds updates in the order they were published, whatever the
   evictions, the snapshot responses and the pump do meanwhile. *)
InOrder ==
    \A w \in Watchers : \A j, k \in DOMAIN send[w] :
        j < k /\ send[w][j].kind = "update" /\ send[w][k].kind = "update"
            => send[w][j].ver < send[w][k].ver

(* A snapshot response is only ever queued for the watcher that asked. *)
SnapshotToRequester ==
    \A w \in Watchers : \A k \in DOMAIN send[w] :
        send[w][k].kind = "snapshot" => send[w][k].id = wid[w]

(* A watcher joining at any moment misses nothing: when nothing is on its
   way to a watcher any more, it holds the newest version of every item,
   except those whose newest message was evicted from its full channel. *)
Settled(w) ==
    /\ pump[w] = "running" /\ w \in open /\ w \notin kicked
    /\ send[w] = <<>> /\ broadcast = <<>> /\ pubSend = <<>> /\ fan = FanIdle

JoinMissesNothing ==
    \A w \in Watchers : Settled(w) =>
        \A i \in Items \ lost[w] : view[w][i] = cache[i]

(* Once a watcher's connection is gone, it is removed from the session and
   both of its goroutines end: nothing is leaked. *)
ClosedIsCollected ==
    \A w \in Watchers :
        (wpc[w] # "none" /\ w \notin open) ~> (w \notin watchers /\ pump[w] \in {"none", "ended"})

(* A watcher is removed exactly once: the variables keep their types, no
   message is sent to a queue that removeWatcher has closed, and the counter
   it decrements is the number of watchers (agent_session.go). *)
RemovedOnce == AsTypeOK /\ NoSendOnClosed /\ CountIsExact

(* What a watcher is sent, from the snapshot of its join to the last
   broadcast, is in the publisher's order and without a hole at the join
   (agent_session.go, run; hub.go, HandleWatch). *)
WatcherUpToDate == InOrder /\ JoinMissesNothing
=============================================================================
