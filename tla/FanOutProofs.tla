---------------------------- MODULE FanOutProofs ----------------------------
(***************************************************************************)
(* Theorems about how frames and fragments reach those who watch, for      *)
(* every number of watchers and clients and every size of their channels:  *)
(* the watcher fan-out of a session (agent_session.go, HandleWatch in      *)
(* hub.go) and the fMP4 fan-out over WebSocket (surv_ws.go).               *)
(***************************************************************************)
EXTENDS AgentSession, SurvWSHub, DataLemmas

-----------------------------------------------------------------------------
(* AgentSession.                                                           *)

(* The number of messages that run has taken from s.broadcast, which is the
   version of the last of them. *)
Taken == pubSeq - Len(pubSend) - Len(broadcast)

(* run has yet to offer its message to w. *)
Pending(w) ==
    \/ fan.phase # "idle" /\ w \in fan.todo
    \/ fan.phase \in {"evict", "resend"} /\ w = fan.w

(* The newest message that run has offered to w, or would have. *)
Offered(w) == IF Pending(w) THEN Taken - 1 ELSE Taken

(* A counted set is finite: it grows one watcher at a time. *)
Counted == IsFiniteSet(watchers) /\ CountIsExact

(* The life of a Watcher object: registered before its pump runs, closed
   only after it left the map, and reused only when nothing refers to it. *)
LifeOf(w) ==
    /\ wpc[w] = "none" => /\ pump[w] = "none" /\ send[w] = <<>> /\ wid[w] = 0
                          /\ w \notin closed /\ w \notin kicked
    /\ wpc[w] \in {"none", "left"} => w \notin watchers
    /\ pump[w] # "none" => wpc[w] \in {"reading", "leaving", "left"}
    /\ w \in watchers => w \notin closed
    /\ w \in open => w \in watchers

Lifecycle == \A w \in Watchers : LifeOf(w)

(* run holds s.mu for reading, so what it ranges over stays registered. *)
FanOverWatchers ==
    /\ fan.phase # "idle" => fan.todo \subseteq watchers
    /\ fan.phase \in {"evict", "resend"} => fan.w \in watchers /\ fan.w \notin fan.todo

(* h.watcherIDSeq never hands out an id twice: an id names one watcher, so
   that a snapshot response can only be meant for one. *)
IdsApart ==
    /\ \A w \in Watchers : wid[w] <= idSeq
    /\ \A v, w \in Watchers : wid[v] = wid[w] /\ wid[v] # 0 => v = w
    /\ \A w \in Watchers : wpc[w] # "none" => wid[w] # 0

(* What is on its way to run is numbered without a gap. *)
Numbered ==
    /\ pubSend # <<>> => pubSend[1].ver = pubSeq
    /\ \A k \in DOMAIN broadcast : broadcast[k].ver = Taken + k
    /\ fan.phase # "idle" => fan.msg.ver = Taken

(* A message is about the item it says: no older than the cache of that item
   and never of the age of another item's. *)
Owned(c, m) ==
    \A i \in Items :
        /\ m.item = i => m.ver <= c[i]
        /\ m.ver = c[i] => m.item = i

CacheOwns ==
    /\ \A i \in Items : cache[i] <= pubSeq
    /\ pubSend # <<>> => Owned(cache, pubSend[1])
    /\ \A k \in DOMAIN broadcast : Owned(cache, broadcast[k])
    /\ fan.phase # "idle" => Owned(cache, fan.msg)
    /\ \A w \in Watchers : \A k \in DOMAIN send[w] :
           send[w][k].kind = "update" => Owned(cache, send[w][k])

(* A channel holds nothing that was not offered yet. *)
QueuesOffered ==
    \A w \in Watchers : \A k \in DOMAIN send[w] :
        send[w][k].kind = "update" => send[w][k].ver <= Offered(w)

(* HandleWatch has sent w the cached version of i. *)
Cached(w, i) ==
    /\ wpc[w] \notin {"none", "config"}
    /\ i # Config => wpc[w] # "frame"

(* The newest version of i is still to be offered to w, or it is in the
   channel of w, or no version of i is and the peer has the newest. *)
OnItsWay(w, i) ==
    \/ cache[i] > Offered(w)
    \/ \E k \in DOMAIN send[w] : send[w][k].kind = "update" /\ send[w][k].ver = cache[i]
    \/ /\ \A k \in DOMAIN send[w] : send[w][k].kind = "update" => send[w][k].item # i
       /\ Cached(w, i) => view[w][i] = cache[i]

(* ... for each item whose newest message was not evicted, as long as run has
   not given w up. *)
NothingMissed ==
    \A w \in watchers : w \in open /\ w \notin kicked =>
        \A i \in Items \ lost[w] : OnItsWay(w, i)

(* The inductive invariant. *)
AsIInv ==
    /\ AsTypeOK
    /\ Counted
    /\ Lifecycle
    /\ FanOverWatchers
    /\ SnapshotToRequester
    /\ IdsApart
    /\ Numbered
    /\ CacheOwns
    /\ QueuesOffered
    /\ InOrder
    /\ NothingMissed
-----------------------------------------------------------------------------
LEMMA InitAsIInv == AsInit => AsIInv
  <1> SUFFICES ASSUME AsInit PROVE AsIInv
    OBVIOUS
  <1>1. AsTypeOK
    <2>1. <<>> \in Seq(Update) /\ <<>> \in Seq(Message) /\ Len(<<>>) = 0
      BY EmptySeq
    <2>2. /\ cache \in Versions
          /\ view \in [Watchers -> Versions]
      BY SessionAssumption DEF AsInit, Versions
    <2>3. broadcast \in Seq(Update) /\ Len(broadcast) <= BroadcastCap
      BY <2>1, SessionAssumption DEF AsInit
    <2>4. send \in [Watchers -> Seq(Message)] /\ \A w \in Watchers : Len(send[w]) <= QueueCap
      BY <2>1, SessionAssumption DEF AsInit
    <2>5. watcherCount \in Int /\ requests \subseteq 0 .. MaxJoins /\ asked \in 0 .. MaxRequests
          /\ pubSeq \in 0 .. MaxMessages /\ idSeq \in 0 .. MaxJoins /\ wid \in [Watchers -> 0 .. MaxJoins]
      BY SessionAssumption DEF AsInit
    <2>6. /\ wpc \in [Watchers -> {"none", "config", "frame", "start", "reading", "leaving", "left"}]
          /\ pump \in [Watchers -> {"none", "running", "ended"}]
          /\ lost \in [Watchers -> SUBSET Contents]
      BY DEF AsInit
    <2>7. QED
      BY <2>2, <2>3, <2>4, <2>5, <2>6 DEF AsInit, AsTypeOK
  <1>2. Counted
    BY FS_EmptySet DEF AsInit, Counted, CountIsExact
  <1>3. DOMAIN <<>> = {} /\ Len(<<>>) = 0
    OBVIOUS
  <1>4. fan.phase = "idle" /\ Taken = 0
    <2>1. fan.phase = "idle"
      BY DEF AsInit, FanIdle
    <2>2. Taken = 0
      <3>1. pubSeq = 0 /\ Len(pubSend) = 0 /\ Len(broadcast) = 0
        BY <1>3 DEF AsInit
      <3>2. QED
        BY <3>1 DEF Taken
    <2>3. QED
      BY <2>1, <2>2
  <1>5. /\ Lifecycle /\ FanOverWatchers /\ SnapshotToRequester
        /\ IdsApart /\ QueuesOffered /\ InOrder
    BY <1>3, <1>4 DEF AsInit, Lifecycle, LifeOf, FanOverWatchers, SnapshotToRequester, IdsApart,
                      QueuesOffered, InOrder
  <1>6. Numbered /\ CacheOwns /\ NothingMissed
    BY <1>3, <1>4 DEF AsInit, Numbered, CacheOwns, NothingMissed
  <1>7. QED
    BY <1>1, <1>2, <1>5, <1>6 DEF AsIInv
-----------------------------------------------------------------------------
(* The states of the run loop. *)
LEMMA FanCases ==
  ASSUME AsTypeOK
  PROVE  /\ fan.phase \in {"idle", "range", "evict", "resend"}
         /\ fan.phase = "idle" <=> fan = FanIdle
         /\ fan.phase # "idle" => fan.msg \in Update /\ fan.todo \subseteq Watchers
         /\ fan.phase \in {"evict", "resend"} => fan.w \in Watchers
         /\ fan.phase = "range" => fan \in [phase : {"range"}, msg : Update, todo : SUBSET Watchers]
         /\ fan.phase \in {"evict", "resend"} =>
               fan \in [phase : {"evict", "resend"}, msg : Update, todo : SUBSET Watchers, w : Watchers]
  BY DEF AsTypeOK, FanIdle, FanBusy

(* A message is an update or a snapshot response. *)
LEMMA MessageKinds ==
  ASSUME NEW m \in Message
  PROVE  /\ m.kind \in {"update", "snapshot"}
         /\ m.kind = "update" => m \in Update /\ m.item \in Contents /\ m.ver \in 1 .. MaxMessages
         /\ m.kind = "snapshot" => m \in Snapshot /\ m.id \in 0 .. MaxJoins
  BY DEF Message, Update, Snapshot

(* The types of the channels after a send and after a receive. *)
SendType ==
    /\ send \in [Watchers -> Seq(Message)]
    /\ \A w \in Watchers : Len(send[w]) <= QueueCap

LEMMA SendAppend ==
  ASSUME AsTypeOK, NEW w \in Watchers, NEW e \in Message, Len(send[w]) < QueueCap,
         send' = [send EXCEPT ![w] = Append(@, e)]
  PROVE  /\ SendType'
         /\ send'[w] = Append(send[w], e)
         /\ \A v \in Watchers \ {w} : send'[v] = send[v]
  <1>1. send \in [Watchers -> Seq(Message)] /\ send[w] \in Seq(Message)
        /\ \A v \in Watchers : Len(send[v]) <= QueueCap
    BY DEF AsTypeOK
  <1>2. /\ send'[w] = Append(send[w], e)
        /\ \A v \in Watchers \ {w} : send'[v] = send[v]
    BY <1>1
  <1>3. Append(send[w], e) \in Seq(Message) /\ Len(send[w]) \in Nat
        /\ Len(Append(send[w], e)) = Len(send[w]) + 1
    BY <1>1, AppendFacts
  <1>4. send' \in [Watchers -> Seq(Message)]
    BY <1>1, <1>3
  <1>5. ASSUME NEW v \in Watchers PROVE Len(send'[v]) <= QueueCap
    BY <1>1, <1>2, <1>3, SessionAssumption
  <1>6. QED
    BY <1>2, <1>4, <1>5 DEF SendType

LEMMA SendTail ==
  ASSUME AsTypeOK, NEW w \in Watchers, send[w] # <<>>,
         send' = [send EXCEPT ![w] = Tail(@)]
  PROVE  /\ SendType'
         /\ send'[w] = Tail(send[w])
         /\ \A v \in Watchers \ {w} : send'[v] = send[v]
  <1>1. send \in [Watchers -> Seq(Message)] /\ send[w] \in Seq(Message)
        /\ \A v \in Watchers : Len(send[v]) <= QueueCap
    BY DEF AsTypeOK
  <1>2. /\ send'[w] = Tail(send[w])
        /\ \A v \in Watchers \ {w} : send'[v] = send[v]
    BY <1>1
  <1>3. Tail(send[w]) \in Seq(Message) /\ Len(send[w]) \in Nat
        /\ Len(Tail(send[w])) = Len(send[w]) - 1
    BY <1>1, TailFacts
  <1>4. send' \in [Watchers -> Seq(Message)]
    BY <1>1, <1>3
  <1>5. ASSUME NEW v \in Watchers PROVE Len(send'[v]) <= QueueCap
    BY <1>1, <1>2, <1>3, SessionAssumption
  <1>6. QED
    BY <1>2, <1>4, <1>5 DEF SendType

(* The read loop's steps keep the types. *)
LEMMA PublisherType ==
  ASSUME AsTypeOK,
         \/ \E i \in Contents : PublishItem(i)
         \/ PublishBroadcast
         \/ \E id \in requests : RouteSnapshotResponse(id)
  PROVE  AsTypeOK'
  <1>1. ASSUME NEW i \in Contents, PublishItem(i) PROVE AsTypeOK'
    <2>1. pubSeq + 1 \in 1 .. MaxMessages /\ pubSeq' \in 0 .. MaxMessages
      BY <1>1, SessionAssumption DEF AsTypeOK, PublishItem
    <2>2. cache' \in Versions
      BY <1>1, <2>1 DEF AsTypeOK, PublishItem, Versions, Contents
    <2>3. [kind |-> "update", item |-> i, ver |-> pubSeq + 1] \in Update
      BY <2>1 DEF Update
    <2>4. pubSend' \in {<<>>} \cup {<<m>> : m \in Update}
      BY <1>1, <2>3 DEF PublishItem
    <2>5. QED
      BY <1>1, <2>1, <2>2, <2>4 DEF AsTypeOK, PublishItem
  <1>2. ASSUME PublishBroadcast PROVE AsTypeOK'
    <2>1. PICK m \in Update : pubSend = <<m>>
      BY <1>2 DEF AsTypeOK, PublishBroadcast
    <2>2. broadcast' = Append(broadcast, m)
      <3>1. broadcast \in Seq(Update) /\ broadcast' = broadcast \o <<m>>
        BY <1>2, <2>1 DEF AsTypeOK, PublishBroadcast
      <3>2. QED
        BY <3>1, AppendIsConcat
    <2>3. broadcast' \in Seq(Update) /\ Len(broadcast') <= BroadcastCap
      BY <1>2, <2>2, AppendFacts, SessionAssumption DEF AsTypeOK, PublishBroadcast
    <2>4. pubSend' = <<>>
      BY <1>2 DEF PublishBroadcast
    <2>5. QED
      BY <1>2, <2>3, <2>4 DEF AsTypeOK, PublishBroadcast, pubVars
  <1>3. ASSUME NEW id \in requests, RouteSnapshotResponse(id) PROVE AsTypeOK'
    <2>1. SendType'
      <3>1. CASE UNCHANGED send
        BY <3>1 DEF AsTypeOK, SendType
      <3>2. ASSUME NEW w \in watchers, Len(send[w]) < QueueCap,
                   send' = [send EXCEPT ![w] = Append(@, [kind |-> "snapshot", id |-> id])]
            PROVE  SendType'
        <4>1. w \in Watchers /\ [kind |-> "snapshot", id |-> id] \in Message
          BY DEF AsTypeOK, Message, Snapshot
        <4>2. QED
          BY <3>2, <4>1, SendAppend
      <3>3. QED
        BY <1>3, <3>1, <3>2 DEF RouteSnapshotResponse
    <2>2. requests' \subseteq 0 .. MaxJoins
      BY <1>3 DEF AsTypeOK, RouteSnapshotResponse
    <2>3. QED
      BY <1>3, <2>1, <2>2 DEF AsTypeOK, SendType, RouteSnapshotResponse, pubVars
  <1>4. QED
    BY <1>1, <1>2, <1>3

(* So do those of the run loop. *)
LEMMA FanType ==
  ASSUME AsTypeOK, FanStep
  PROVE  AsTypeOK'
  <1>1. CASE FanStart
    <2>1. /\ Head(broadcast) \in Update /\ Tail(broadcast) \in Seq(Update)
          /\ Len(Tail(broadcast)) <= BroadcastCap
      BY <1>1, TailFacts, SessionAssumption DEF AsTypeOK, FanStart
    <2>2. fan' \in FanBusy
      BY <1>1, <2>1 DEF AsTypeOK, FanStart, FanBusy
    <2>3. QED
      BY <1>1, <2>1, <2>2 DEF AsTypeOK, FanStart, pubVars
  <1>2. ASSUME NEW w \in Watchers, FanOffer(w) PROVE AsTypeOK'
    <2>1. /\ fan \in [phase : {"range"}, msg : Update, todo : SUBSET Watchers]
          /\ fan.msg \in Update /\ fan.msg \in Message
      BY <1>2, FanCases DEF FanOffer, Message
    <2>2. CASE Len(send[w]) < QueueCap /\ Offer(w) /\ fan' = [fan EXCEPT !.todo = @ \ {w}]
      <3>1. SendType'
        BY <2>1, <2>2, SendAppend DEF Offer
      <3>2. fan' \in FanBusy
        BY <2>1, <2>2 DEF FanBusy
      <3>3. lost' \in [Watchers -> SUBSET Contents]
        BY <2>2 DEF AsTypeOK, Offer
      <3>4. QED
        BY <1>2, <3>1, <3>2, <3>3 DEF AsTypeOK, SendType, FanOffer, pubVars
    <2>3. CASE /\ fan' = [phase |-> "evict", msg |-> fan.msg, todo |-> fan.todo \ {w}, w |-> w]
               /\ UNCHANGED <<send, lost>>
      <3>1. fan' \in FanBusy
        BY <2>1, <2>3 DEF FanBusy
      <3>2. QED
        BY <1>2, <2>3, <3>1 DEF AsTypeOK, FanOffer, pubVars
    <2>4. QED
      BY <1>2, <2>2, <2>3 DEF FanOffer
  <1>3. CASE FanEvict
    <2>1. /\ fan \in [phase : {"evict", "resend"}, msg : Update, todo : SUBSET Watchers, w : Watchers]
          /\ fan.w \in Watchers
      BY <1>3, FanCases DEF FanEvict
    <2>2. fan' \in FanBusy
      BY <1>3, <2>1 DEF FanEvict, FanBusy
    <2>3. SendType' /\ lost' \in [Watchers -> SUBSET Contents]
      <3>1. CASE send[fan.w] = <<>>
        BY <1>3, <3>1 DEF FanEvict, AsTypeOK, SendType
      <3>2. CASE send[fan.w] # <<>>
        <4>1. SendType'
          BY <1>3, <2>1, <3>2, SendTail DEF FanEvict
        <4>2. Head(send[fan.w]) \in Message
          BY <2>1, <3>2, TailFacts DEF AsTypeOK
        <4>3. EvictedItem(fan.w) \subseteq Contents
          BY <4>2, MessageKinds DEF EvictedItem
        <4>4. lost' \in [Watchers -> SUBSET Contents]
          <5>1. PICK newer : lost' = [lost EXCEPT ![fan.w] = @ \cup (EvictedItem(fan.w) \ newer)]
            BY <1>3, <3>2, Zenon DEF FanEvict
          <5>2. lost \in [Watchers -> SUBSET Contents]
            BY DEF AsTypeOK
          <5>3. QED
            BY <2>1, <4>3, <5>1, <5>2
        <4>5. QED
          BY <4>1, <4>4
      <3>3. QED
        BY <3>1, <3>2
    <2>4. QED
      BY <1>3, <2>2, <2>3 DEF AsTypeOK, SendType, FanEvict, pubVars
  <1>4. CASE FanResend
    <2>1. /\ fan.w \in Watchers /\ fan.todo \subseteq Watchers
          /\ fan.msg \in Update /\ fan.msg \in Message
      BY <1>4, FanCases DEF FanResend, Message
    <2>2. fan' \in FanBusy
      BY <1>4, <2>1 DEF FanResend, FanBusy
    <2>3. SendType' /\ lost' \in [Watchers -> SUBSET Contents] /\ kicked' \subseteq Watchers
      <3>1. CASE Len(send[fan.w]) < QueueCap /\ Offer(fan.w) /\ UNCHANGED kicked
        <4>1. SendType'
          BY <2>1, <3>1, SendAppend DEF Offer
        <4>2. QED
          BY <2>1, <3>1, <4>1 DEF AsTypeOK, Offer
      <3>2. CASE kicked' = kicked \cup {fan.w} /\ UNCHANGED <<send, lost>>
        BY <2>1, <3>2 DEF AsTypeOK, SendType
      <3>3. QED
        BY <1>4, <3>1, <3>2 DEF FanResend
    <2>4. QED
      BY <1>4, <2>2, <2>3 DEF AsTypeOK, SendType, FanResend, pubVars
  <1>5. CASE FanEnd
    BY <1>5 DEF AsTypeOK, FanEnd, pubVars
  <1>6. QED
    BY <1>1, <1>2, <1>3, <1>4, <1>5 DEF FanStep

(* What the peer of w is shown when it is sent cached items. *)
LEMMA ReceiveCachedFacts ==
  ASSUME AsTypeOK, NEW w \in Watchers, NEW S, ReceiveCached(w, S)
  PROVE  /\ view' \in [Watchers -> Versions]
         /\ w \in open => \A i \in Items : view'[w][i] = IF i \in S THEN cache[i] ELSE view[w][i]
         /\ \A v \in Watchers \ {w} : view'[v] = view[v]
  <1>1. cache \in Versions /\ view \in [Watchers -> Versions]
    BY DEF AsTypeOK
  <1>2. [i \in Items |-> IF i \in S THEN cache[i] ELSE view[w][i]] \in Versions
    BY <1>1 DEF Versions
  <1>3. QED
    BY <1>1, <1>2 DEF ReceiveCached

(* And those of the goroutines of one watcher. *)
LEMMA HandlerType ==
  ASSUME AsTypeOK, NEW w \in Watchers,
         JoinWatcher(w) \/ HandlerStep(w) \/ RequestSnapshot(w) \/ PeerClose(w) \/ KickWatcher(w)
  PROVE  AsTypeOK'
  <1>1. CASE JoinWatcher(w)
    <2>1. idSeq + 1 \in 0 .. MaxJoins /\ watcherCount + 1 \in Int
      BY <1>1, SessionAssumption DEF AsTypeOK, JoinWatcher
    <2>2. wid' \in [Watchers -> 0 .. MaxJoins] /\ idSeq' \in 0 .. MaxJoins
      BY <1>1, <2>1 DEF AsTypeOK, JoinWatcher
    <2>3. wpc' \in [Watchers -> {"none", "config", "frame", "start", "reading", "leaving", "left"}]
      BY <1>1 DEF AsTypeOK, JoinWatcher
    <2>4. QED
      BY <1>1, <2>1, <2>2, <2>3 DEF AsTypeOK, JoinWatcher, pubVars
  <1>2. CASE SendCachedConfig(w) \/ SendFullFrame(w)
    <2>1. view' \in [Watchers -> Versions]
      BY <1>2, ReceiveCachedFacts DEF SendCachedConfig, SendFullFrame
    <2>2. wpc' \in [Watchers -> {"none", "config", "frame", "start", "reading", "leaving", "left"}]
      BY <1>2 DEF AsTypeOK, SendCachedConfig, SendFullFrame
    <2>3. QED
      BY <1>2, <2>1, <2>2 DEF AsTypeOK, SendCachedConfig, SendFullFrame, pubVars
  <1>3. CASE StartPump(w)
    BY <1>3 DEF AsTypeOK, StartPump, pubVars
  <1>4. CASE ReadError(w)
    BY <1>4 DEF AsTypeOK, ReadError, pubVars
  <1>5. CASE LeaveWatcher(w)
    <2>1. /\ watchers' \subseteq Watchers /\ watcherCount' \in Int
          /\ closed' \subseteq Watchers /\ open' \subseteq Watchers
      BY <1>5 DEF AsTypeOK, LeaveWatcher, RemoveWatcher
    <2>2. QED
      BY <1>5, <2>1 DEF AsTypeOK, LeaveWatcher, RemoveWatcher, pubVars
  <1>6. CASE KickWatcher(w)
    <2>1. /\ watchers' \subseteq Watchers /\ watcherCount' \in Int
          /\ closed' \subseteq Watchers /\ open' \subseteq Watchers
      BY <1>6 DEF AsTypeOK, KickWatcher, RemoveWatcher
    <2>2. QED
      BY <1>6, <2>1 DEF AsTypeOK, KickWatcher, RemoveWatcher, pubVars
  <1>7. CASE RequestSnapshot(w)
    <2>1. asked' \in 0 .. MaxRequests
      BY <1>7, SessionAssumption DEF AsTypeOK, RequestSnapshot
    <2>2. requests' \subseteq 0 .. MaxJoins
      BY <1>7 DEF AsTypeOK, RequestSnapshot
    <2>3. QED
      BY <1>7, <2>1, <2>2 DEF AsTypeOK, RequestSnapshot, pubVars
  <1>8. CASE PeerClose(w)
    BY <1>8 DEF AsTypeOK, PeerClose, pubVars
  <1>9. QED
    BY <1>1, <1>2, <1>3, <1>4, <1>5, <1>6, <1>7, <1>8 DEF HandlerStep

LEMMA PumpType ==
  ASSUME AsTypeOK, NEW w \in Watchers, PumpWrite(w) \/ PumpEnd(w) \/ Collect(w)
  PROVE  AsTypeOK'
  <1>1. CASE PumpWrite(w)
    <2>1. SendType'
      BY <1>1, SendTail DEF PumpWrite
    <2>2. Head(send[w]) \in Message
      BY <1>1, TailFacts DEF AsTypeOK, PumpWrite
    <2>3. view' \in [Watchers -> Versions]
      <3>1. CASE Head(send[w]).kind = "update" /\ Head(send[w]).item # Other
        <4>1. Head(send[w]).item \in Items /\ Head(send[w]).ver \in 0 .. MaxMessages
          BY <2>2, <3>1, MessageKinds, SessionAssumption DEF Contents
        <4>2. view' = [view EXCEPT ![w] = [view[w] EXCEPT ![Head(send[w]).item] = Head(send[w]).ver]]
          BY <1>1, <3>1 DEF PumpWrite
        <4>3. QED
          BY <4>1, <4>2 DEF AsTypeOK, Versions
      <3>2. CASE ~(Head(send[w]).kind = "update" /\ Head(send[w]).item # Other)
        BY <1>1, <3>2 DEF PumpWrite, AsTypeOK
      <3>3. QED
        BY <3>1, <3>2
    <2>4. QED
      BY <1>1, <2>1, <2>3 DEF AsTypeOK, SendType, PumpWrite, pubVars
  <1>2. CASE PumpEnd(w)
    <2>1. SendType'
      BY <1>2, SendTail DEF PumpEnd, AsTypeOK, SendType
    <2>2. pump' \in [Watchers -> {"none", "running", "ended"}] /\ open' \subseteq Watchers
      BY <1>2 DEF AsTypeOK, PumpEnd
    <2>3. QED
      BY <1>2, <2>1, <2>2 DEF AsTypeOK, SendType, PumpEnd, pubVars
  <1>3. CASE Collect(w)
    <2>1. <<>> \in Seq(Message) /\ Len(<<>>) = 0
      BY EmptySeq
    <2>2. SendType'
      BY <1>3, <2>1, SessionAssumption DEF AsTypeOK, SendType, Collect
    <2>3. [i \in Items |-> 0] \in Versions
      BY SessionAssumption DEF Versions
    <2>4. view' \in [Watchers -> Versions] /\ lost' \in [Watchers -> SUBSET Contents]
      BY <1>3, <2>3 DEF AsTypeOK, Collect
    <2>5. /\ wpc' \in [Watchers -> {"none", "config", "frame", "start", "reading", "leaving", "left"}]
          /\ pump' \in [Watchers -> {"none", "running", "ended"}]
          /\ wid' \in [Watchers -> 0 .. MaxJoins] /\ closed' \subseteq Watchers
      BY <1>3, SessionAssumption DEF AsTypeOK, Collect
    <2>6. QED
      BY <1>3, <2>2, <2>4, <2>5 DEF AsTypeOK, SendType, Collect, pubVars
  <1>4. QED
    BY <1>1, <1>2, <1>3

LEMMA NextType == AsTypeOK /\ [AsNext]_asVars => AsTypeOK'
  <1> SUFFICES ASSUME AsTypeOK, [AsNext]_asVars PROVE AsTypeOK'
    OBVIOUS
  <1>1. CASE UNCHANGED asVars
    BY <1>1 DEF AsTypeOK, asVars, pubVars
  <1>2. CASE AsNext
    BY <1>2, PublisherType, FanType, HandlerType, PumpType DEF AsNext
  <1>3. QED
    BY <1>1, <1>2

-----------------------------------------------------------------------------
(* s.watchers grows by a join and shrinks by a removal, nothing else. *)
LEMMA WatchersStep ==
  ASSUME [AsNext]_asVars
  PROVE  \/ UNCHANGED <<watchers, watcherCount>>
         \/ \E w \in Watchers : JoinWatcher(w)
         \/ \E w \in watchers : RemoveWatcher(w)
  <1>1. CASE UNCHANGED asVars
    BY <1>1 DEF asVars
  <1>2. CASE \/ \E i \in Contents : PublishItem(i)
             \/ PublishBroadcast
             \/ \E id \in requests : RouteSnapshotResponse(id)
    BY <1>2 DEF PublishItem, PublishBroadcast, RouteSnapshotResponse
  <1>3. CASE FanStep
    BY <1>3 DEF FanStep, FanStart, FanOffer, FanEvict, FanResend, FanEnd
  <1>4. ASSUME NEW w \in Watchers, LeaveWatcher(w) \/ KickWatcher(w)
        PROVE  (w \in watchers /\ RemoveWatcher(w)) \/ UNCHANGED <<watchers, watcherCount>>
    BY <1>4 DEF LeaveWatcher, KickWatcher, RemoveWatcher
  <1>5. ASSUME NEW w \in Watchers,
               \/ SendCachedConfig(w) \/ SendFullFrame(w) \/ StartPump(w) \/ ReadError(w)
               \/ RequestSnapshot(w) \/ PeerClose(w) \/ PumpWrite(w) \/ PumpEnd(w) \/ Collect(w)
        PROVE  UNCHANGED <<watchers, watcherCount>>
    BY <1>5 DEF SendCachedConfig, SendFullFrame, StartPump, ReadError, RequestSnapshot, PeerClose,
                PumpWrite, PumpEnd, Collect
  <1>6. QED
    BY <1>1, <1>2, <1>3, <1>4, <1>5 DEF AsNext, HandlerStep

LEMMA NextCounted ==
  ASSUME AsIInv, [AsNext]_asVars
  PROVE  Counted'
  <1>1. IsFiniteSet(watchers) /\ watcherCount = Cardinality(watchers) /\ Cardinality(watchers) \in Nat
    BY FS_CardinalityType DEF AsIInv, Counted, CountIsExact
  <1>2. CASE UNCHANGED <<watchers, watcherCount>>
    BY <1>1, <1>2 DEF Counted, CountIsExact
  <1>3. ASSUME NEW w \in Watchers, JoinWatcher(w) PROVE Counted'
    <2>1. w \notin watchers /\ watchers' = watchers \cup {w} /\ watcherCount' = watcherCount + 1
      BY <1>3 DEF AsIInv, Lifecycle, LifeOf, JoinWatcher
    <2>2. IsFiniteSet(watchers') /\ Cardinality(watchers') = Cardinality(watchers) + 1
      BY <1>1, <2>1, FS_AddElement
    <2>3. QED
      BY <1>1, <2>1, <2>2 DEF Counted, CountIsExact
  <1>4. ASSUME NEW w \in watchers, RemoveWatcher(w) PROVE Counted'
    <2>1. watchers' = watchers \ {w} /\ watcherCount' = watcherCount - 1
      BY <1>4 DEF RemoveWatcher
    <2>2. IsFiniteSet(watchers') /\ Cardinality(watchers') = Cardinality(watchers) - 1
      BY <1>1, <2>1, FS_RemoveElement
    <2>3. QED
      BY <1>1, <2>1, <2>2 DEF Counted, CountIsExact
  <1>5. QED
    BY <1>2, <1>3, <1>4, WatchersStep

(* The life of a Watcher, and the run loop's hold of s.mu. *)
LEMMA NextLifecycle ==
  ASSUME AsIInv, [AsNext]_asVars
  PROVE  Lifecycle'
  <1> SUFFICES ASSUME NEW v \in Watchers PROVE LifeOf(v)'
    BY DEF Lifecycle
  <1>1. AsTypeOK /\ FanOverWatchers /\ LifeOf(v)
    BY DEF AsIInv, Lifecycle
  <1>2. CASE UNCHANGED asVars
    BY <1>1, <1>2 DEF asVars, LifeOf
  <1>3. CASE (\E i \in Contents : PublishItem(i)) \/ PublishBroadcast \/ FanStart \/ FanEnd
    BY <1>1, <1>3 DEF PublishItem, PublishBroadcast, FanStart, FanEnd, LifeOf
  <1>4. ASSUME NEW id \in requests, RouteSnapshotResponse(id) PROVE LifeOf(v)'
    <2>1. v \notin watchers => send'[v] = send[v]
      BY <1>1, <1>4 DEF RouteSnapshotResponse, AsTypeOK
    <2>2. QED
      BY <1>1, <1>4, <2>1 DEF RouteSnapshotResponse, LifeOf
  <1>5. ASSUME NEW w \in Watchers, FanOffer(w) PROVE LifeOf(v)'
    <2>1. w \in watchers
      BY <1>1, <1>5 DEF FanOffer, FanOverWatchers
    <2>2. v \notin watchers => send'[v] = send[v]
      BY <1>1, <1>5, <2>1 DEF FanOffer, Offer, AsTypeOK
    <2>3. QED
      BY <1>1, <1>5, <2>2 DEF FanOffer, LifeOf
  <1>6. CASE FanEvict
    <2>1. fan.w \in watchers
      BY <1>1, <1>6 DEF FanEvict, FanOverWatchers
    <2>2. v \notin watchers => send'[v] = send[v]
      BY <1>1, <1>6, <2>1 DEF FanEvict, AsTypeOK
    <2>3. UNCHANGED <<watchers, wid, wpc, pump, closed, open, kicked>>
      BY <1>6 DEF FanEvict
    <2>4. QED
      BY <1>1, <2>2, <2>3 DEF LifeOf
  <1>7. CASE FanResend
    <2>1. fan.w \in watchers
      BY <1>1, <1>7 DEF FanResend, FanOverWatchers
    <2>2. v \notin watchers => send'[v] = send[v] /\ (v \in kicked' <=> v \in kicked)
      BY <1>1, <1>7, <2>1 DEF FanResend, Offer, AsTypeOK
    <2>3. UNCHANGED <<watchers, wid, wpc, pump, closed, open>>
      BY <1>7 DEF FanResend
    <2>4. QED
      BY <1>1, <2>2, <2>3 DEF LifeOf
  <1>8. ASSUME NEW w \in Watchers,
               \/ SendCachedConfig(w) \/ SendFullFrame(w) \/ StartPump(w) \/ ReadError(w)
               \/ RequestSnapshot(w) \/ PeerClose(w)
        PROVE  LifeOf(v)'
    BY <1>1, <1>8 DEF SendCachedConfig, SendFullFrame, StartPump, ReadError, RequestSnapshot,
                      PeerClose, LifeOf, AsTypeOK
  <1>9. ASSUME NEW w \in Watchers, JoinWatcher(w) PROVE LifeOf(v)'
    <2>1. v # w => UNCHANGED <<wpc[v], wid[v]>> /\ (v \in watchers' <=> v \in watchers) /\ (v \in open' <=> v \in open)
      BY <1>1, <1>9 DEF JoinWatcher, AsTypeOK
    <2>2. v = w => wpc[v] = "none" /\ wpc'[v] = "config" /\ v \in watchers'
      BY <1>1, <1>9 DEF JoinWatcher, AsTypeOK
    <2>3. UNCHANGED <<pump, send, closed, kicked>>
      BY <1>9 DEF JoinWatcher
    <2>4. QED
      BY <1>1, <2>1, <2>2, <2>3 DEF LifeOf
  <1>10. ASSUME NEW w \in Watchers, LeaveWatcher(w) \/ KickWatcher(w) PROVE LifeOf(v)'
    <2>1. /\ v = w => v \notin watchers' /\ v \notin open'
          /\ v # w => /\ (v \in watchers' <=> v \in watchers) /\ (v \in open' <=> v \in open)
                      /\ (v \in closed' <=> v \in closed)
          /\ v \in closed' => v \in closed \/ v \in watchers
      BY <1>10 DEF LeaveWatcher, KickWatcher, RemoveWatcher
    <2>2. /\ v \in kicked' => v \in kicked
          /\ wpc'[v] = wpc[v] \/ (wpc[v] = "leaving" /\ wpc'[v] = "left" /\ v = w)
          /\ UNCHANGED <<wid, pump, send>>
      BY <1>1, <1>10 DEF LeaveWatcher, KickWatcher, AsTypeOK
    <2>3. QED
      BY <1>1, <2>1, <2>2 DEF LifeOf
  <1>11. ASSUME NEW w \in Watchers, PumpWrite(w) \/ PumpEnd(w) PROVE LifeOf(v)'
    <2>1. /\ UNCHANGED <<watchers, wid, wpc, closed, kicked>>
          /\ pump'[v] = pump[v] \/ pump[v] = "running"
          /\ v \in open' => v \in open
          /\ pump[v] = "none" => send'[v] = send[v]
      BY <1>1, <1>11 DEF PumpWrite, PumpEnd, AsTypeOK
    <2>2. QED
      BY <1>1, <2>1 DEF LifeOf
  <1>12. ASSUME NEW w \in Watchers, Collect(w) PROVE LifeOf(v)'
    <2>1. UNCHANGED <<watchers, open, kicked>> /\ w \notin kicked
      BY <1>12 DEF Collect
    <2>2. /\ v # w => UNCHANGED <<wpc[v], wid[v], pump[v], send[v]>> /\ (v \in closed' <=> v \in closed)
          /\ v = w => /\ wpc[v] = "left" /\ wpc'[v] = "none" /\ wid'[v] = 0 /\ pump'[v] = "none"
                      /\ send'[v] = <<>> /\ v \notin closed'
      BY <1>1, <1>12 DEF Collect, AsTypeOK
    <2>3. QED
      BY <1>1, <2>1, <2>2 DEF LifeOf
  <1>13. QED
    BY <1>2, <1>3, <1>4, <1>5, <1>6, <1>7, <1>8, <1>9, <1>10, <1>11, <1>12 DEF AsNext, FanStep, HandlerStep

LEMMA NextFanOverWatchers ==
  ASSUME AsIInv, [AsNext]_asVars
  PROVE  FanOverWatchers'
  <1>1. AsTypeOK /\ FanOverWatchers
    BY DEF AsIInv
  <1>2. CASE UNCHANGED <<fan, watchers>>
    BY <1>1, <1>2 DEF FanOverWatchers
  <1>3. CASE FanStep
    <2>1. UNCHANGED watchers
      BY <1>3 DEF FanStep, FanStart, FanOffer, FanEvict, FanResend, FanEnd
    <2>2. CASE FanStart
      BY <2>1, <2>2 DEF FanStart, FanOverWatchers
    <2>3. ASSUME NEW w \in Watchers, FanOffer(w) PROVE FanOverWatchers'
      <3>1. fan \in [phase : {"range"}, msg : Update, todo : SUBSET Watchers] /\ w \in fan.todo
            /\ fan.todo \subseteq watchers
        BY <1>1, <2>3, FanCases DEF FanOffer, FanOverWatchers
      <3>2. \/ fan'.phase = "range" /\ fan'.todo = fan.todo \ {w}
            \/ fan'.phase = "evict" /\ fan'.todo = fan.todo \ {w} /\ fan'.w = w
        BY <2>3, <3>1 DEF FanOffer
      <3>3. QED
        BY <2>1, <3>1, <3>2 DEF FanOverWatchers
    <2>4. CASE FanEvict
      <3>1. fan \in [phase : {"evict", "resend"}, msg : Update, todo : SUBSET Watchers, w : Watchers]
        BY <1>1, <2>4, FanCases DEF FanEvict
      <3>2. fan.phase = "evict" /\ fan'.phase = "resend" /\ fan'.todo = fan.todo /\ fan'.w = fan.w
        BY <2>4, <3>1 DEF FanEvict
      <3>3. QED
        BY <1>1, <2>1, <3>2 DEF FanOverWatchers
    <2>5. CASE FanResend
      <3>1. fan.phase = "resend" /\ fan'.phase = "range" /\ fan'.todo = fan.todo
        BY <2>5 DEF FanResend
      <3>2. QED
        BY <1>1, <2>1, <3>1 DEF FanOverWatchers
    <2>6. CASE FanEnd
      BY <2>6 DEF FanEnd, FanIdle, FanOverWatchers
    <2>7. QED
      BY <1>3, <2>2, <2>3, <2>4, <2>5, <2>6 DEF FanStep
  <1>4. ASSUME fan = FanIdle, UNCHANGED fan PROVE FanOverWatchers'
    BY <1>4 DEF FanIdle, FanOverWatchers
  <1>5. CASE AsNext /\ ~FanStep
    <2>1. UNCHANGED fan
      BY <1>5 DEF AsNext, HandlerStep, PublishItem, PublishBroadcast, RouteSnapshotResponse,
                  JoinWatcher, SendCachedConfig, SendFullFrame, StartPump, ReadError, LeaveWatcher,
                  KickWatcher, RequestSnapshot, PeerClose, PumpWrite, PumpEnd, Collect
    <2>2. UNCHANGED watchers \/ fan = FanIdle
      BY WatchersStep DEF JoinWatcher, RemoveWatcher
    <2>3. QED
      BY <1>2, <1>4, <2>1, <2>2
  <1>6. CASE UNCHANGED asVars
    BY <1>2, <1>6 DEF asVars
  <1>7. QED
    BY <1>3, <1>5, <1>6

(* Ids are handed out once. *)
LEMMA NextIdsApart ==
  ASSUME AsIInv, [AsNext]_asVars
  PROVE  IdsApart'
  <1>1. AsTypeOK /\ IdsApart /\ Lifecycle /\ idSeq \in Nat
        /\ \A w \in Watchers : wid[w] \in Nat
    BY SessionAssumption DEF AsIInv, AsTypeOK
  <1>2. ASSUME NEW w \in Watchers, JoinWatcher(w) PROVE IdsApart'
    <2>1. /\ idSeq' = idSeq + 1 /\ wid'[w] = idSeq + 1
          /\ \A v \in Watchers \ {w} : wid'[v] = wid[v] /\ wpc'[v] = wpc[v]
      BY <1>1, <1>2 DEF JoinWatcher, AsTypeOK
    <2>2. QED
      BY <1>1, <2>1 DEF IdsApart
  <1>3. ASSUME NEW w \in Watchers, Collect(w) PROVE IdsApart'
    <2>1. /\ idSeq' = idSeq /\ wid'[w] = 0 /\ wpc'[w] = "none"
          /\ \A v \in Watchers \ {w} : wid'[v] = wid[v] /\ wpc'[v] = wpc[v]
      BY <1>1, <1>3 DEF Collect, AsTypeOK
    <2>2. QED
      BY <1>1, <2>1 DEF IdsApart
  <1>4. ASSUME NEW w \in Watchers,
               \/ SendCachedConfig(w) \/ SendFullFrame(w) \/ StartPump(w) \/ ReadError(w) \/ LeaveWatcher(w)
        PROVE  IdsApart'
    <2>1. /\ UNCHANGED <<wid, idSeq>> /\ wpc[w] # "none"
          /\ \A v \in Watchers \ {w} : wpc'[v] = wpc[v]
      BY <1>1, <1>4 DEF SendCachedConfig, SendFullFrame, StartPump, ReadError, LeaveWatcher, AsTypeOK
    <2>2. QED
      BY <1>1, <2>1 DEF IdsApart
  <1>5. CASE UNCHANGED <<wid, idSeq, wpc>>
    BY <1>1, <1>5 DEF IdsApart
  <1>6. CASE \/ UNCHANGED asVars
             \/ \E i \in Contents : PublishItem(i)
             \/ PublishBroadcast
             \/ \E id \in requests : RouteSnapshotResponse(id)
             \/ FanStep
    BY <1>5, <1>6 DEF asVars, PublishItem, PublishBroadcast, RouteSnapshotResponse, FanStep, FanStart,
                      FanOffer, FanEvict, FanResend, FanEnd
  <1>7. ASSUME NEW w \in Watchers,
               RequestSnapshot(w) \/ PeerClose(w) \/ KickWatcher(w) \/ PumpWrite(w) \/ PumpEnd(w)
        PROVE  IdsApart'
    BY <1>5, <1>7 DEF RequestSnapshot, PeerClose, KickWatcher, PumpWrite, PumpEnd
  <1>8. QED
    BY <1>2, <1>3, <1>4, <1>6, <1>7 DEF AsNext, HandlerStep
-----------------------------------------------------------------------------
(* The way from the publisher to the run loop. *)
LEMMA PipeTypes ==
  ASSUME AsTypeOK
  PROVE  /\ Len(pubSend) \in {0, 1} /\ (pubSend = <<>> <=> Len(pubSend) = 0)
         /\ pubSend # <<>> => pubSend[1] \in Update /\ pubSend = <<pubSend[1]>>
         /\ broadcast \in Seq(Update) /\ Len(broadcast) \in Nat /\ DOMAIN broadcast = 1 .. Len(broadcast)
         /\ broadcast = <<>> <=> Len(broadcast) = 0
         /\ pubSeq \in Nat /\ Taken \in Int /\ Taken <= pubSeq
         /\ \A w : Offered(w) \in Int /\ Offered(w) <= Taken
  <1>1. /\ Len(pubSend) \in {0, 1} /\ (pubSend = <<>> <=> Len(pubSend) = 0)
        /\ pubSend # <<>> => pubSend[1] \in Update /\ pubSend = <<pubSend[1]>>
    BY DEF AsTypeOK
  <1>2. /\ broadcast \in Seq(Update) /\ Len(broadcast) \in Nat /\ DOMAIN broadcast = 1 .. Len(broadcast)
        /\ broadcast = <<>> <=> Len(broadcast) = 0
    BY LenProperties, EmptySeq DEF AsTypeOK
  <1>3. pubSeq \in Nat
    BY SessionAssumption DEF AsTypeOK
  <1>4. Taken \in Int /\ Taken <= pubSeq
    BY <1>1, <1>2, <1>3 DEF Taken
  <1>5. ASSUME NEW w PROVE Offered(w) \in Int /\ Offered(w) <= Taken
    BY <1>4 DEF Offered
  <1>6. QED
    BY <1>1, <1>2, <1>3, <1>4, <1>5

(* What a step does to that way: nothing, or it lengthens or advances it;
   a watcher that run ranges over has been offered no less than before. *)
Numbering == <<pubSeq, pubSend, broadcast>>

LEMMA PublishPipe ==
  ASSUME AsIInv, (\E i \in Contents : PublishItem(i)) \/ PublishBroadcast
  PROVE  /\ Numbered' /\ Taken' = Taken /\ UNCHANGED fan
         /\ \A w : Offered(w)' = Offered(w)
  <1>1. AsTypeOK /\ Numbered
    BY DEF AsIInv
  <1>2. ASSUME NEW i \in Contents, PublishItem(i)
        PROVE  Numbered' /\ Taken' = Taken /\ UNCHANGED fan
    <2>1. /\ pubSend = <<>> /\ pubSeq' = pubSeq + 1
          /\ pubSend' = <<[kind |-> "update", item |-> i, ver |-> pubSeq + 1]>>
          /\ UNCHANGED <<broadcast, fan>>
      BY <1>2 DEF PublishItem
    <2>2. Len(pubSend) = 0 /\ Len(pubSend') = 1 /\ pubSend'[1].ver = pubSeq'
      BY <2>1
    <2>3. Taken' = Taken
      BY <1>1, <2>1, <2>2, PipeTypes DEF Taken
    <2>4. QED
      BY <1>1, <2>1, <2>2, <2>3 DEF Numbered
  <1>3. ASSUME PublishBroadcast PROVE Numbered' /\ Taken' = Taken /\ UNCHANGED fan
    <2>1. /\ pubSend # <<>> /\ broadcast' = broadcast \o pubSend /\ pubSend' = <<>>
          /\ UNCHANGED <<pubSeq, fan>>
      BY <1>3 DEF PublishBroadcast
    <2>2. Len(pubSend) = 1 /\ Len(pubSend') = 0 /\ pubSend[1] \in Update /\ pubSend = <<pubSend[1]>>
          /\ pubSend[1].ver = pubSeq /\ Len(broadcast) \in Nat /\ pubSeq \in Nat
      BY <1>1, <2>1, PipeTypes DEF Numbered
    <2>3. broadcast' = Append(broadcast, pubSend[1])
      BY <1>1, <2>1, <2>2, PipeTypes, AppendIsConcat
    <2>4. /\ Len(broadcast') = Len(broadcast) + 1
          /\ \A k \in DOMAIN broadcast : broadcast'[k] = broadcast[k]
          /\ broadcast'[Len(broadcast) + 1] = pubSend[1]
          /\ \A k \in DOMAIN broadcast' : k = Len(broadcast) + 1 \/ k \in DOMAIN broadcast
      BY <1>1, <2>2, <2>3, PipeTypes, AppendFacts
    <2>5. Taken' = Taken /\ Taken = pubSeq - 1 - Len(broadcast)
      BY <2>1, <2>2, <2>4 DEF Taken
    <2>6. \A k \in DOMAIN broadcast' : broadcast'[k].ver = Taken + k
      BY <1>1, <2>2, <2>4, <2>5 DEF Numbered
    <2>7. QED
      BY <1>1, <2>1, <2>5, <2>6 DEF Numbered
  <1>4. Numbered' /\ Taken' = Taken /\ UNCHANGED fan
    BY <1>2, <1>3
  <1>5. QED
    BY <1>4 DEF Offered, Pending

LEMMA FanPipe ==
  ASSUME AsIInv, FanStep
  PROVE  /\ Numbered'
         /\ \A w \in Watchers : Offered(w)' >= Offered(w)
         /\ FanStart => \A w \in watchers : Offered(w)' = Offered(w)
         /\ \A w \in Watchers : FanOffer(w) => \A v \in Watchers \ {w} : Offered(v)' = Offered(v)
         /\ FanEvict \/ FanEnd => \A w \in Watchers : Offered(w)' = Offered(w)
         /\ FanResend => \A w \in Watchers \ {fan.w} : Offered(w)' = Offered(w)
         /\ ~FanStart => UNCHANGED Numbering /\ Taken' = Taken
  <1>1. AsTypeOK /\ Numbered /\ FanOverWatchers /\ Taken \in Int
        /\ \A w : Offered(w) \in Int /\ Offered(w) <= Taken
    BY PipeTypes DEF AsIInv
  <1>2. ASSUME FanStart
        PROVE  /\ Numbered' /\ Taken' = Taken + 1
               /\ \A w \in Watchers : Offered(w)' >= Offered(w)
               /\ \A w \in watchers : Offered(w)' = Offered(w)
    <2>1. /\ fan = FanIdle /\ broadcast # <<>> /\ UNCHANGED <<pubSeq, pubSend>>
          /\ fan' = [phase |-> "range", msg |-> Head(broadcast), todo |-> watchers]
          /\ broadcast' = Tail(broadcast)
      BY <1>2 DEF FanStart, pubVars
    <2>2. /\ Len(broadcast) \in Nat \ {0} /\ Len(broadcast') = Len(broadcast) - 1
          /\ Head(broadcast) = broadcast[1] /\ 1 \in DOMAIN broadcast
          /\ \A k \in DOMAIN broadcast' : k + 1 \in DOMAIN broadcast /\ broadcast'[k] = broadcast[k + 1]
          /\ DOMAIN broadcast' = 1 .. Len(broadcast) - 1
      BY <1>1, <2>1, PipeTypes, TailFacts
    <2>3. Taken' = Taken + 1
      BY <1>1, <2>1, <2>2, PipeTypes DEF Taken
    <2>4. fan'.phase = "range" /\ fan'.todo = watchers /\ fan'.msg.ver = Taken + 1
      BY <1>1, <2>1, <2>2 DEF Numbered
    <2>5. \A k \in DOMAIN broadcast' : broadcast'[k].ver = Taken + 1 + k
      BY <1>1, <2>2 DEF Numbered
    <2>6. Numbered'
      BY <1>1, <2>1, <2>3, <2>4, <2>5 DEF Numbered
    <2>7. \A w : Pending(w)' <=> w \in watchers
      BY <2>4 DEF Pending
    <2>8. \A w : ~Pending(w)
      BY <2>1 DEF Pending, FanIdle
    <2>9. \A w : Offered(w) = Taken /\ Offered(w)' = IF w \in watchers THEN Taken' - 1 ELSE Taken'
      BY <2>7, <2>8 DEF Offered
    <2>10. QED
      BY <1>1, <2>3, <2>6, <2>9
  <1>3. ASSUME UNCHANGED Numbering,
               fan'.phase # "idle" => fan'.msg = fan.msg /\ fan.phase # "idle"
        PROVE  /\ Numbered' /\ Taken' = Taken
               /\ \A w : (Pending(w)' => Pending(w)) => Offered(w)' >= Offered(w)
               /\ \A w : (Pending(w)' <=> Pending(w)) => Offered(w)' = Offered(w)
    <2>1. Taken' = Taken
      BY <1>3 DEF Taken, Numbering
    <2>2. Numbered'
      BY <1>1, <1>3, <2>1 DEF Numbered, Numbering
    <2>3. QED
      BY <1>1, <2>1, <2>2 DEF Offered
  <1>4. ASSUME NEW w \in Watchers, FanOffer(w)
        PROVE  /\ UNCHANGED Numbering
               /\ fan'.phase # "idle" => fan'.msg = fan.msg /\ fan.phase # "idle"
               /\ \A v : Pending(v)' => Pending(v)
               /\ \A v : v # w => (Pending(v)' <=> Pending(v))
    <2>1. /\ fan \in [phase : {"range"}, msg : Update, todo : SUBSET Watchers] /\ w \in fan.todo
          /\ UNCHANGED Numbering
      BY <1>1, <1>4, FanCases DEF FanOffer, pubVars, Numbering
    <2>2. /\ fan'.msg = fan.msg /\ fan'.todo = fan.todo \ {w}
          /\ fan'.phase = "range" \/ (fan'.phase = "evict" /\ fan'.w = w)
      BY <1>4, <2>1 DEF FanOffer
    <2>3. fan.phase = "range"
      BY <2>1
    <2>4. QED
      BY <2>1, <2>2, <2>3 DEF Pending
  <1>5. ASSUME FanEvict
        PROVE  /\ UNCHANGED Numbering
               /\ fan'.phase # "idle" => fan'.msg = fan.msg /\ fan.phase # "idle"
               /\ \A v : Pending(v)' <=> Pending(v)
    <2>1. /\ fan \in [phase : {"evict", "resend"}, msg : Update, todo : SUBSET Watchers, w : Watchers]
          /\ UNCHANGED Numbering /\ fan.phase = "evict" /\ fan' = [fan EXCEPT !.phase = "resend"]
      BY <1>1, <1>5, FanCases DEF FanEvict, pubVars, Numbering
    <2>2. fan'.msg = fan.msg /\ fan'.todo = fan.todo /\ fan'.phase = "resend" /\ fan'.w = fan.w
      BY <2>1
    <2>3. QED
      BY <2>1, <2>2 DEF Pending
  <1>6. ASSUME FanResend
        PROVE  /\ UNCHANGED Numbering
               /\ fan'.phase # "idle" => fan'.msg = fan.msg /\ fan.phase # "idle"
               /\ \A v : Pending(v)' => Pending(v)
               /\ \A v : v # fan.w => (Pending(v)' <=> Pending(v))
    <2>1. /\ UNCHANGED Numbering /\ fan.phase = "resend"
          /\ fan'.phase = "range" /\ fan'.todo = fan.todo /\ fan'.msg = fan.msg
      BY <1>6 DEF FanResend, pubVars, Numbering
    <2>2. QED
      BY <2>1 DEF Pending
  <1>7. ASSUME FanEnd
        PROVE  /\ UNCHANGED Numbering
               /\ fan'.phase # "idle" => fan'.msg = fan.msg /\ fan.phase # "idle"
               /\ \A v : Pending(v)' <=> Pending(v)
    BY <1>7 DEF FanEnd, FanIdle, pubVars, Numbering, Pending
  <1>8. CASE FanStart
    <2>1. ~FanEvict /\ ~FanEnd /\ ~FanResend /\ \A w \in Watchers : ~FanOffer(w)
      BY <1>8 DEF FanStart, FanEvict, FanEnd, FanResend, FanOffer, FanIdle
    <2>2. QED
      BY <1>2, <1>8, <2>1
  <1>9. CASE ~FanStart
    <2>1. UNCHANGED Numbering /\ (fan'.phase # "idle" => fan'.msg = fan.msg /\ fan.phase # "idle")
          /\ \A v : Pending(v)' => Pending(v)
      BY <1>4, <1>5, <1>6, <1>7, <1>9 DEF FanStep
    <2>2. /\ Numbered' /\ Taken' = Taken
          /\ \A w : Offered(w)' >= Offered(w)
          /\ \A w : (Pending(w)' <=> Pending(w)) => Offered(w)' = Offered(w)
      BY <1>3, <2>1
    <2>3. QED
      BY <1>4, <1>5, <1>6, <1>7, <1>9, <2>1, <2>2
  <1>10. QED
    BY <1>8, <1>9

(* All other steps leave the way to the run loop alone. *)
OtherSteps ==
    \/ UNCHANGED asVars
    \/ \E id \in requests : RouteSnapshotResponse(id)
    \/ \E w \in Watchers :
          \/ JoinWatcher(w) \/ HandlerStep(w) \/ RequestSnapshot(w) \/ PeerClose(w)
          \/ KickWatcher(w) \/ PumpWrite(w) \/ PumpEnd(w) \/ Collect(w)

LEMMA OtherPipe ==
  ASSUME OtherSteps
  PROVE  /\ UNCHANGED <<cache, pubSeq, pubSend, broadcast, fan>>
         /\ \A w : Offered(w)' = Offered(w)
         /\ Taken' = Taken
  <1>1. CASE \/ UNCHANGED asVars
             \/ \E id \in requests : RouteSnapshotResponse(id)
    BY <1>1 DEF asVars, pubVars, RouteSnapshotResponse, Offered, Pending, Taken
  <1>2. ASSUME NEW w \in Watchers,
               \/ JoinWatcher(w) \/ HandlerStep(w) \/ RequestSnapshot(w) \/ PeerClose(w)
               \/ KickWatcher(w) \/ PumpWrite(w) \/ PumpEnd(w) \/ Collect(w)
        PROVE  UNCHANGED <<cache, pubSeq, pubSend, broadcast, fan>>
    BY <1>2 DEF HandlerStep, JoinWatcher, SendCachedConfig, SendFullFrame, StartPump, ReadError,
                LeaveWatcher, KickWatcher, RequestSnapshot, PeerClose, PumpWrite, PumpEnd, Collect, pubVars
  <1>3. UNCHANGED <<cache, pubSeq, pubSend, broadcast, fan>>
    BY <1>1, <1>2 DEF OtherSteps
  <1>4. QED
    BY <1>3 DEF Offered, Pending, Taken

LEMMA NextCases ==
  ASSUME [AsNext]_asVars
  PROVE  \/ (\E i \in Contents : PublishItem(i)) \/ PublishBroadcast
         \/ FanStep
         \/ OtherSteps
  BY DEF AsNext, OtherSteps

LEMMA NextNumbered ==
  ASSUME AsIInv, [AsNext]_asVars
  PROVE  Numbered' /\ \A w \in Watchers : Offered(w)' >= Offered(w)
  <1>1. Numbered /\ \A w \in Watchers : Offered(w) \in Int
    BY PipeTypes DEF AsIInv
  <1>2. CASE OtherSteps
    BY <1>1, <1>2, OtherPipe DEF Numbered
  <1>3. CASE (\E i \in Contents : PublishItem(i)) \/ PublishBroadcast
    BY <1>1, <1>3, PublishPipe
  <1>4. CASE FanStep
    BY <1>4, FanPipe
  <1>5. QED
    BY <1>2, <1>3, <1>4, NextCases

-----------------------------------------------------------------------------
(* What a step may do to the channel of w: append the response that w asked
   for, append the message that run owes it, take its head, or clear it. *)
Responds(w) ==
    \E e \in Snapshot : e.id = wid[w] /\ send'[w] = Append(send[w], e)

Offers(w) ==
    /\ fan.phase # "idle" /\ fan.msg \in Update
    /\ send'[w] = Append(send[w], fan.msg)
    /\ Offered(w) = Taken - 1 /\ Offered(w)' = Taken
    /\ UNCHANGED cache

Takes(w) == send[w] # <<>> /\ send'[w] = Tail(send[w])

(* Which of its disjuncts offers to whom. *)
LEMMA OfferFacts ==
  ASSUME AsIInv, NEW w \in Watchers,
         \/ FanOffer(w) /\ Len(send[w]) < QueueCap
         \/ FanResend /\ w = fan.w /\ Len(send[w]) < QueueCap
  PROVE  /\ Offers(w) /\ w \in watchers
         /\ lost'[w] = lost[w] \ {fan.msg.item}
         /\ \A v \in Watchers \ {w} : send'[v] = send[v] /\ lost'[v] = lost[v]
         /\ Taken' = Taken /\ fan.msg.ver = Taken /\ Owned(cache, fan.msg)
  <1>1. AsTypeOK /\ Numbered /\ FanOverWatchers /\ CacheOwns /\ lost \in [Watchers -> SUBSET Contents]
    BY DEF AsIInv, AsTypeOK
  <1>2. Offer(w) /\ fan.phase # "idle" /\ Pending(w) /\ ~FanStart /\ UNCHANGED cache /\ w \in watchers
    <2>1. Len(send[w]) \in Nat /\ QueueCap \in Nat
      BY <1>1, LenProperties, SessionAssumption DEF AsTypeOK
    <2>2. CASE FanOffer(w) /\ Len(send[w]) < QueueCap
      <3>1. fan.phase = "range" /\ w \in fan.todo /\ ~(Len(send[w]) >= QueueCap)
        BY <2>1, <2>2 DEF FanOffer
      <3>2. Offer(w) /\ UNCHANGED cache
        BY <2>2, <3>1 DEF FanOffer, pubVars
      <3>3. QED
        BY <1>1, <3>1, <3>2 DEF Pending, FanStart, FanIdle, FanOverWatchers
    <2>3. CASE FanResend /\ w = fan.w /\ Len(send[w]) < QueueCap
      <3>1. fan.phase = "resend" /\ ~(Len(send[fan.w]) >= QueueCap)
        BY <2>1, <2>3 DEF FanResend
      <3>2. Offer(w) /\ UNCHANGED cache
        BY <2>3, <3>1 DEF FanResend, pubVars
      <3>3. QED
        BY <1>1, <2>3, <3>1, <3>2 DEF Pending, FanStart, FanIdle, FanOverWatchers
    <2>4. QED
      BY <2>2, <2>3
  <1>3. fan.msg \in Update /\ fan.msg \in Message /\ fan.msg.ver = Taken /\ Owned(cache, fan.msg)
    BY <1>1, <1>2, FanCases DEF Numbered, CacheOwns, Message
  <1>4. Len(send[w]) < QueueCap
    OBVIOUS
  <1>5. send'[w] = Append(send[w], fan.msg) /\ \A v \in Watchers \ {w} : send'[v] = send[v]
    BY <1>1, <1>2, <1>3, <1>4, SendAppend DEF Offer
  <1>6. lost'[w] = lost[w] \ {fan.msg.item} /\ \A v \in Watchers \ {w} : lost'[v] = lost[v]
    BY <1>1, <1>2 DEF Offer
  <1>7. Taken' = Taken
    BY <1>2, FanPipe DEF FanStep
  <1>8. ~Pending(w)'
    <2>1. CASE FanOffer(w)
      <3>1. fan \in [phase : {"range"}, msg : Update, todo : SUBSET Watchers]
        BY <1>1, <2>1, FanCases DEF FanOffer
      <3>2. Len(send[w]) \in Nat
        BY LenProperties, <1>1 DEF AsTypeOK
      <3>3. fan' = [fan EXCEPT !.todo = @ \ {w}]
        BY <1>4, <2>1, <3>2, SessionAssumption DEF FanOffer
      <3>4. fan'.phase = "range" /\ fan'.todo = fan.todo \ {w}
        BY <3>1, <3>3
      <3>5. QED
        BY <3>4 DEF Pending
    <2>2. CASE FanResend /\ w = fan.w
      <3>1. fan.phase = "resend" /\ fan'.phase = "range" /\ fan'.todo = fan.todo /\ fan.w \notin fan.todo
        BY <1>1, <2>2 DEF FanResend, FanOverWatchers
      <3>2. QED
        BY <2>2, <3>1 DEF Pending
    <2>3. QED
      BY <2>1, <2>2
  <1>9. Offers(w)
    BY <1>2, <1>3, <1>5, <1>7, <1>8 DEF Offers, Offered
  <1>10. QED
    BY <1>2, <1>3, <1>5, <1>6, <1>7, <1>9

LEMMA SendStep ==
  ASSUME AsIInv, [AsNext]_asVars, NEW v \in Watchers
  PROVE  \/ send'[v] = send[v] \/ send'[v] = <<>>
         \/ Takes(v) \/ Responds(v) \/ Offers(v)
  <1>1. AsTypeOK /\ send \in [Watchers -> Seq(Message)]
        /\ \A w \in Watchers : Len(send[w]) \in Nat
    BY LenProperties DEF AsIInv, AsTypeOK
  <1>2. CASE UNCHANGED send
    BY <1>2
  <1>3. ASSUME NEW id \in requests, RouteSnapshotResponse(id)
        PROVE  send'[v] = send[v] \/ Responds(v)
    <2>1. ASSUME NEW w \in watchers, wid[w] = id, Len(send[w]) < QueueCap,
                 send' = [send EXCEPT ![w] = Append(@, [kind |-> "snapshot", id |-> id])]
          PROVE  send'[v] = send[v] \/ Responds(v)
      <3>1. w \in Watchers /\ [kind |-> "snapshot", id |-> id] \in Snapshot
            /\ [kind |-> "snapshot", id |-> id] \in Message
        BY <1>1 DEF AsTypeOK, Message, Snapshot
      <3>2. /\ send'[w] = Append(send[w], [kind |-> "snapshot", id |-> id])
            /\ \A u \in Watchers \ {w} : send'[u] = send[u]
        BY <1>1, <2>1, <3>1, SendAppend
      <3>3. QED
        BY <2>1, <3>1, <3>2 DEF Responds
    <2>2. QED
      BY <1>3, <2>1 DEF RouteSnapshotResponse
  <1>4. ASSUME NEW w \in Watchers, FanOffer(w) PROVE send'[v] = send[v] \/ Offers(v)
    <2>1. CASE Len(send[w]) < QueueCap
      BY <1>4, <2>1, OfferFacts
    <2>2. CASE ~(Len(send[w]) < QueueCap)
      BY <1>4, <2>2 DEF FanOffer
    <2>3. QED
      BY <2>1, <2>2
  <1>5. CASE FanResend
    <2>1. fan.w \in Watchers
      BY <1>1, <1>5, FanCases DEF FanResend
    <2>2. CASE Len(send[fan.w]) < QueueCap
      BY <1>5, <2>1, <2>2, OfferFacts
    <2>3. CASE ~(Len(send[fan.w]) < QueueCap)
      BY <1>5, <2>3 DEF FanResend
    <2>4. QED
      BY <2>2, <2>3
  <1>6. CASE FanEvict
    <2>1. fan.w \in Watchers
      BY <1>1, <1>6, FanCases DEF FanEvict
    <2>2. CASE send[fan.w] = <<>>
      BY <1>6, <2>2 DEF FanEvict
    <2>3. CASE send[fan.w] # <<>>
      <3>1. send' = [send EXCEPT ![fan.w] = Tail(@)]
        BY <1>6, <2>3 DEF FanEvict
      <3>2. QED
        BY <1>1, <2>1, <2>3, <3>1 DEF Takes
    <2>4. QED
      BY <2>2, <2>3
  <1>7. ASSUME NEW w \in Watchers, PumpWrite(w) \/ PumpEnd(w)
        PROVE  send'[v] = send[v] \/ Takes(v)
    BY <1>1, <1>7 DEF PumpWrite, PumpEnd, Takes
  <1>8. ASSUME NEW w \in Watchers, Collect(w)
        PROVE  send'[v] = send[v] \/ send'[v] = <<>>
    BY <1>1, <1>8 DEF Collect
  <1>9. CASE (\E i \in Contents : PublishItem(i)) \/ PublishBroadcast \/ FanStart \/ FanEnd \/ UNCHANGED asVars
    BY <1>9 DEF PublishItem, PublishBroadcast, FanStart, FanEnd, asVars
  <1>10. ASSUME NEW w \in Watchers,
               \/ JoinWatcher(w) \/ SendCachedConfig(w) \/ SendFullFrame(w) \/ StartPump(w) \/ ReadError(w)
               \/ LeaveWatcher(w) \/ KickWatcher(w) \/ RequestSnapshot(w) \/ PeerClose(w)
        PROVE  UNCHANGED send
    BY <1>10 DEF JoinWatcher, SendCachedConfig, SendFullFrame, StartPump, ReadError, LeaveWatcher,
                 KickWatcher, RequestSnapshot, PeerClose
  <1>11. QED
    BY <1>3, <1>4, <1>5, <1>6, <1>7, <1>8, <1>9, <1>10 DEF AsNext, FanStep, HandlerStep

(* The id of a Watcher object changes only while its channel is empty. *)
LEMMA WidStep ==
  ASSUME AsIInv, [AsNext]_asVars, NEW v \in Watchers
  PROVE  wid'[v] = wid[v] \/ send'[v] = <<>>
  <1>1. AsTypeOK /\ LifeOf(v)
    BY DEF AsIInv, Lifecycle
  <1>2. CASE OtherSteps
    <2>1. CASE UNCHANGED asVars \/ \E id \in requests : RouteSnapshotResponse(id)
      BY <2>1 DEF asVars, RouteSnapshotResponse
    <2>2. ASSUME NEW w \in Watchers, JoinWatcher(w) \/ Collect(w)
          PROVE  wid'[v] = wid[v] \/ send'[v] = <<>>
      BY <1>1, <2>2 DEF JoinWatcher, Collect, AsTypeOK, LifeOf
    <2>3. ASSUME NEW w \in Watchers,
                 \/ HandlerStep(w) \/ RequestSnapshot(w) \/ PeerClose(w)
                 \/ KickWatcher(w) \/ PumpWrite(w) \/ PumpEnd(w)
          PROVE  UNCHANGED wid
      BY <2>3 DEF HandlerStep, SendCachedConfig, SendFullFrame, StartPump, ReadError, LeaveWatcher,
                  KickWatcher, RequestSnapshot, PeerClose, PumpWrite, PumpEnd
    <2>4. QED
      BY <1>2, <2>1, <2>2, <2>3 DEF OtherSteps
  <1>3. CASE (\E i \in Contents : PublishItem(i)) \/ PublishBroadcast \/ FanStep
    BY <1>3 DEF PublishItem, PublishBroadcast, FanStep, FanStart, FanOffer, FanEvict, FanResend, FanEnd
  <1>4. QED
    BY <1>2, <1>3, NextCases

(* What is in a channel after a step was in it before, further back if at
   all, or it was appended. *)
LEMMA SendElements ==
  ASSUME AsIInv, [AsNext]_asVars, NEW v \in Watchers
  PROVE  /\ DOMAIN send'[v] \subseteq Nat /\ DOMAIN send[v] \subseteq Nat
         /\ \A k \in DOMAIN send[v] : send[v][k] \in Message
         /\ \/ \E d \in {0, 1} : \A k \in DOMAIN send'[v] :
                   k + d \in DOMAIN send[v] /\ send'[v][k] = send[v][k + d]
            \/ \E len \in Nat, e \in Message :
                  /\ len \in DOMAIN send'[v] /\ send'[v][len] = e
                  /\ \A k \in DOMAIN send'[v] : k = len \/ (k < len /\ k \in DOMAIN send[v] /\ send'[v][k] = send[v][k])
                  /\ \A k \in DOMAIN send[v] : k < len /\ k \in DOMAIN send'[v] /\ send'[v][k] = send[v][k]
                  /\ \/ e \in Snapshot /\ e.id = wid[v]
                     \/ e = fan.msg /\ Offers(v)
  <1>1. send[v] \in Seq(Message) /\ Len(send[v]) \in Nat /\ DOMAIN send[v] = 1 .. Len(send[v])
    BY LenProperties DEF AsIInv, AsTypeOK
  <1>2. \A k \in DOMAIN send[v] : send[v][k] \in Message /\ k \in Nat
    BY <1>1, ElementOfSeq
  <1>3. CASE send'[v] = send[v]
    <2>1. \A k \in DOMAIN send'[v] : k + 0 \in DOMAIN send[v] /\ send'[v][k] = send[v][k + 0]
      BY <1>2, <1>3
    <2>2. QED
      BY <1>2, <1>3, <2>1
  <1>4. CASE send'[v] = <<>>
    <2>1. DOMAIN send'[v] = {}
      BY <1>4
    <2>2. QED
      BY <1>2, <2>1
  <1>5. CASE Takes(v)
    <2>1. /\ DOMAIN send'[v] = 1 .. Len(send[v]) - 1
          /\ \A k \in DOMAIN send'[v] : k + 1 \in DOMAIN send[v] /\ send'[v][k] = send[v][k + 1]
      BY <1>1, <1>5, TailFacts DEF Takes
    <2>2. DOMAIN send'[v] \subseteq Nat
      BY <1>1, <2>1
    <2>3. QED
      BY <1>2, <2>1, <2>2
  <1>6. ASSUME NEW e \in Message, send'[v] = Append(send[v], e), (e \in Snapshot /\ e.id = wid[v]) \/ (e = fan.msg /\ Offers(v))
        PROVE  /\ DOMAIN send'[v] \subseteq Nat
               /\ \E len \in Nat :
                  /\ len \in DOMAIN send'[v] /\ send'[v][len] = e
                  /\ \A k \in DOMAIN send'[v] : k = len \/ (k < len /\ k \in DOMAIN send[v] /\ send'[v][k] = send[v][k])
                  /\ \A k \in DOMAIN send[v] : k < len /\ k \in DOMAIN send'[v] /\ send'[v][k] = send[v][k]
    <2>1. /\ DOMAIN send'[v] = 1 .. Len(send[v]) + 1
          /\ \A k \in DOMAIN send[v] : k \in DOMAIN send'[v] /\ send'[v][k] = send[v][k]
          /\ send'[v][Len(send[v]) + 1] = e
          /\ \A k \in DOMAIN send'[v] : k = Len(send[v]) + 1 \/ k \in DOMAIN send[v]
      BY <1>1, <1>6, AppendFacts
    <2>2. \A k \in DOMAIN send[v] : k < Len(send[v]) + 1
      BY <1>1
    <2>3. Len(send[v]) + 1 \in Nat /\ Len(send[v]) + 1 \in DOMAIN send'[v] /\ DOMAIN send'[v] \subseteq Nat
      BY <1>1, <2>1
    <2>4. QED
      BY <2>1, <2>2, <2>3
  <1>7. CASE Responds(v)
    <2>1. PICK e \in Snapshot : e.id = wid[v] /\ send'[v] = Append(send[v], e)
      BY <1>7 DEF Responds
    <2>2. e \in Message
      BY DEF Message
    <2>3. QED
      BY <1>2, <1>6, <2>1, <2>2
  <1>8. CASE Offers(v)
    <2>1. fan.msg \in Message /\ send'[v] = Append(send[v], fan.msg)
      BY <1>8 DEF Offers, Message
    <2>2. QED
      BY <1>2, <1>6, <1>8, <2>1
  <1>9. QED
    BY <1>3, <1>4, <1>5, <1>7, <1>8, SendStep

LEMMA NextSnapshotToRequester ==
  ASSUME AsIInv, [AsNext]_asVars
  PROVE  SnapshotToRequester'
  <1> SUFFICES ASSUME NEW v \in Watchers, NEW k \in DOMAIN send'[v], send'[v][k].kind = "snapshot"
               PROVE  send'[v][k].id = wid'[v]
    BY DEF SnapshotToRequester
  <1>1. SnapshotToRequester
    BY DEF AsIInv
  <1>2. wid'[v] = wid[v]
    <2>1. send'[v] # <<>>
      OBVIOUS
    <2>2. QED
      BY <2>1, WidStep
  <1>3. ASSUME NEW d \in {0, 1}, \A j \in DOMAIN send'[v] : j + d \in DOMAIN send[v] /\ send'[v][j] = send[v][j + d]
        PROVE  send'[v][k].id = wid[v]
    BY <1>1, <1>3 DEF SnapshotToRequester
  <1>4. ASSUME NEW len \in Nat, NEW e \in Message, send'[v][len] = e,
               \A j \in DOMAIN send'[v] : j = len \/ (j < len /\ j \in DOMAIN send[v] /\ send'[v][j] = send[v][j]),
               (e \in Snapshot /\ e.id = wid[v]) \/ (e = fan.msg /\ Offers(v))
        PROVE  send'[v][k].id = wid[v]
    <2>1. e = fan.msg /\ Offers(v) => e.kind = "update"
      BY DEF Offers, Update
    <2>2. QED
      BY <1>1, <1>4, <2>1 DEF SnapshotToRequester
  <1>5. QED
    BY <1>2, <1>3, <1>4, SendElements

(* The channels stay in order: what is appended is newer than all there is. *)
LEMMA NextQueues ==
  ASSUME AsIInv, [AsNext]_asVars
  PROVE  QueuesOffered' /\ InOrder'
  <1> SUFFICES ASSUME NEW v \in Watchers
               PROVE  /\ \A k \in DOMAIN send'[v] : send'[v][k].kind = "update" => send'[v][k].ver <= Offered(v)'
                      /\ \A j, k \in DOMAIN send'[v] :
                            j < k /\ send'[v][j].kind = "update" /\ send'[v][k].kind = "update"
                                => send'[v][j].ver < send'[v][k].ver
    BY DEF QueuesOffered, InOrder
  <1>1. /\ AsTypeOK /\ AsTypeOK'
        /\ \A k \in DOMAIN send[v] : send[v][k].kind = "update" => send[v][k].ver <= Offered(v)
        /\ \A j, k \in DOMAIN send[v] :
              j < k /\ send[v][j].kind = "update" /\ send[v][k].kind = "update"
                  => send[v][j].ver < send[v][k].ver
    BY NextType DEF AsIInv, QueuesOffered, InOrder
  <1>2. Offered(v) \in Int /\ Offered(v)' \in Int /\ Offered(v)' >= Offered(v) /\ Taken \in Int
    <2>1. Taken' \in Int
      <3>1. /\ Len(pubSend') \in Nat /\ Len(broadcast') \in Nat /\ pubSeq' \in Nat
        BY <1>1, LenProperties, SessionAssumption DEF AsTypeOK
      <3>2. QED
        BY <3>1 DEF Taken
    <2>2. Offered(v)' \in Int
      BY <2>1 DEF Offered
    <2>3. QED
      BY <1>1, <2>2, PipeTypes, NextNumbered
  <1>3. \A k \in DOMAIN send[v] : send[v][k].kind = "update" => send[v][k].ver \in Nat
    BY SendElements, MessageKinds, SessionAssumption
  <1>4. ASSUME NEW d \in {0, 1}, \A k \in DOMAIN send'[v] : k + d \in DOMAIN send[v] /\ send'[v][k] = send[v][k + d],
               DOMAIN send'[v] \subseteq Nat
        PROVE  /\ \A k \in DOMAIN send'[v] : send'[v][k].kind = "update" => send'[v][k].ver <= Offered(v)'
               /\ \A j, k \in DOMAIN send'[v] :
                     j < k /\ send'[v][j].kind = "update" /\ send'[v][k].kind = "update"
                         => send'[v][j].ver < send'[v][k].ver
    <2>1. \A j, k \in DOMAIN send'[v] : j < k => j + d < k + d
      BY <1>4
    <2>2. ASSUME NEW k \in DOMAIN send'[v], send'[v][k].kind = "update"
          PROVE  send'[v][k].ver <= Offered(v)'
      BY <1>1, <1>2, <1>3, <1>4, <2>2
    <2>3. ASSUME NEW j \in DOMAIN send'[v], NEW k \in DOMAIN send'[v],
                 j < k, send'[v][j].kind = "update", send'[v][k].kind = "update"
          PROVE  send'[v][j].ver < send'[v][k].ver
      BY <1>1, <1>4, <2>1, <2>3
    <2>4. QED
      BY <2>2, <2>3
  <1>5. ASSUME NEW len \in Nat, NEW e \in Message, send'[v][len] = e, DOMAIN send'[v] \subseteq Nat,
               \A j \in DOMAIN send'[v] : j = len \/ (j < len /\ j \in DOMAIN send[v] /\ send'[v][j] = send[v][j]),
               (e \in Snapshot /\ e.id = wid[v]) \/ (e = fan.msg /\ Offers(v))
        PROVE  /\ \A k \in DOMAIN send'[v] : send'[v][k].kind = "update" => send'[v][k].ver <= Offered(v)'
               /\ \A j, k \in DOMAIN send'[v] :
                     j < k /\ send'[v][j].kind = "update" /\ send'[v][k].kind = "update"
                         => send'[v][j].ver < send'[v][k].ver
    <2>1. e.kind = "update" => e.ver = Taken /\ Offered(v) = Taken - 1 /\ Offered(v)' = Taken
      BY <1>5 DEF Snapshot, Offers, AsIInv, Numbered
    <2>2. ASSUME NEW k \in DOMAIN send'[v], send'[v][k].kind = "update"
          PROVE  send'[v][k].ver <= Offered(v)'
      <3>1. CASE k = len
        BY <1>2, <1>5, <2>1, <2>2, <3>1
      <3>2. CASE k < len /\ k \in DOMAIN send[v] /\ send'[v][k] = send[v][k]
        BY <1>1, <1>2, <1>3, <2>2, <3>2
      <3>3. QED
        BY <1>5, <3>1, <3>2
    <2>3. ASSUME NEW j \in DOMAIN send'[v], NEW k \in DOMAIN send'[v],
                 j < k, send'[v][j].kind = "update", send'[v][k].kind = "update"
          PROVE  send'[v][j].ver < send'[v][k].ver
      <3>1. j \in Nat /\ k \in Nat /\ (k = len \/ k < len)
        BY <1>5
      <3>2. j \in DOMAIN send[v] /\ send'[v][j] = send[v][j]
        BY <1>5, <2>3, <3>1
      <3>3. CASE k = len
        <4>1. send[v][j].ver <= Offered(v) /\ send[v][j].ver \in Nat
          BY <1>1, <1>3, <2>3, <3>2
        <4>2. QED
          BY <1>2, <1>5, <2>1, <2>3, <3>2, <3>3, <4>1
      <3>4. CASE k # len
        BY <1>1, <1>5, <2>3, <3>2, <3>4
      <3>5. QED
        BY <3>3, <3>4
    <2>4. QED
      BY <2>2, <2>3
  <1>6. DOMAIN send'[v] \subseteq Nat
    BY SendElements
  <1>7. QED
    BY <1>4, <1>5, <1>6, SendElements
-----------------------------------------------------------------------------
(* What a message says about its item stays true: the publisher stamps every
   message with a number of its own before it caches the item. *)
LEMMA OwnedStep ==
  ASSUME AsIInv, [AsNext]_asVars, NEW m \in Update, m.ver <= pubSeq, Owned(cache, m)
  PROVE  Owned(cache', m)
  <1>1. AsTypeOK /\ pubSeq \in Nat /\ m.ver \in Nat
        /\ \A i \in Items : cache[i] \in Nat /\ cache[i] <= pubSeq
    <2>1. AsTypeOK /\ CacheOwns
      BY DEF AsIInv
    <2>2. pubSeq \in Nat
      BY <2>1, PipeTypes
    <2>3. m.ver \in Nat
      BY SessionAssumption DEF Update
    <2>4. \A i \in Items : cache[i] \in Nat
      BY <2>1, SessionAssumption DEF AsTypeOK, Versions
    <2>5. \A i \in Items : cache[i] <= pubSeq
      BY <2>1 DEF CacheOwns
    <2>6. QED
      BY <2>1, <2>2, <2>3, <2>4, <2>5
  <1>2. CASE UNCHANGED cache
    BY <1>2 DEF Owned
  <1>3. ASSUME NEW i \in Contents, PublishItem(i) PROVE Owned(cache', m)
    <2>1. CASE i = Other
      BY <1>2, <1>3, <2>1 DEF PublishItem
    <2>2. CASE i # Other
      <3>1. i \in Items /\ cache' = [cache EXCEPT ![i] = pubSeq + 1]
        BY <1>3, <2>2 DEF PublishItem, Contents
      <3>2. cache'[i] = pubSeq + 1 /\ \A j \in Items \ {i} : cache'[j] = cache[j]
        BY <1>1, <3>1 DEF AsTypeOK, Versions
      <3>3. QED
        BY <1>1, <3>1, <3>2 DEF Owned
    <2>3. QED
      BY <2>1, <2>2
  <1>4. CASE OtherSteps
    BY <1>2, <1>4, OtherPipe
  <1>5. CASE PublishBroadcast \/ FanStep
    BY <1>2, <1>5 DEF PublishBroadcast, FanStep, FanStart, FanOffer, FanEvict, FanResend, FanEnd, pubVars
  <1>6. QED
    BY <1>3, <1>4, <1>5, NextCases

LEMMA NextCacheOwns ==
  ASSUME AsIInv, [AsNext]_asVars
  PROVE  CacheOwns'
  <1>1. /\ AsTypeOK /\ Numbered /\ CacheOwns /\ QueuesOffered
        /\ pubSeq \in Nat /\ Taken \in Int /\ Taken <= pubSeq
        /\ \A i \in Items : cache[i] \in Nat
    <2>1. AsTypeOK /\ Numbered /\ CacheOwns /\ QueuesOffered
      BY DEF AsIInv
    <2>2. pubSeq \in Nat /\ Taken \in Int /\ Taken <= pubSeq
      BY <2>1, PipeTypes
    <2>3. \A i \in Items : cache[i] \in Nat
      BY <2>1, SessionAssumption DEF AsTypeOK, Versions
    <2>4. QED
      BY <2>1, <2>2, <2>3
  (* Every message on its way is old enough to stay owned. *)
  <1>2. pubSend # <<>> => pubSend[1] \in Update /\ Owned(cache', pubSend[1])
    <2>1. pubSend # <<>> => pubSend[1] \in Update /\ pubSend[1].ver <= pubSeq /\ Owned(cache, pubSend[1])
      BY <1>1, PipeTypes DEF Numbered, CacheOwns
    <2>2. \A m \in Update : m.ver <= pubSeq /\ Owned(cache, m) => Owned(cache', m)
      BY OwnedStep
    <2>3. QED
      BY <2>1, <2>2
  <1>3. \A k \in DOMAIN broadcast : broadcast[k] \in Update /\ Owned(cache', broadcast[k])
    <2> SUFFICES ASSUME NEW k \in DOMAIN broadcast PROVE broadcast[k] \in Update /\ Owned(cache', broadcast[k])
      OBVIOUS
    <2>1. k \in 1 .. Len(broadcast) /\ Len(broadcast) \in Nat /\ broadcast[k] \in Update
      BY <1>1, PipeTypes, ElementOfSeq
    <2>2. broadcast[k].ver <= pubSeq
      <3>1. Len(pubSend) \in {0, 1} /\ broadcast[k].ver = pubSeq - Len(pubSend) - Len(broadcast) + k
        BY <1>1, PipeTypes DEF Numbered, Taken
      <3>2. QED
        BY <1>1, <2>1, <3>1
    <2>3. Owned(cache, broadcast[k])
      BY <1>1 DEF CacheOwns
    <2>4. QED
      BY <2>1, <2>2, <2>3, OwnedStep
  <1>4. fan.phase # "idle" => fan.msg \in Update /\ Owned(cache', fan.msg)
    <2>1. fan.phase # "idle" => fan.msg \in Update /\ fan.msg.ver <= pubSeq /\ Owned(cache, fan.msg)
      BY <1>1, FanCases DEF Numbered, CacheOwns
    <2>2. \A m \in Update : m.ver <= pubSeq /\ Owned(cache, m) => Owned(cache', m)
      BY OwnedStep
    <2>3. QED
      BY <2>1, <2>2
  <1>5. ASSUME NEW w \in Watchers, NEW k \in DOMAIN send[w], send[w][k].kind = "update"
        PROVE  Owned(cache', send[w][k])
    <2>1. send[w][k] \in Update /\ send[w][k].ver \in Nat
      BY <1>1, <1>5, SendElements, MessageKinds, SessionAssumption
    <2>2. send[w][k].ver <= pubSeq /\ Owned(cache, send[w][k])
      <3>1. send[w][k].ver <= Offered(w) /\ Offered(w) \in Int /\ Offered(w) <= Taken
        BY <1>1, <1>5, PipeTypes DEF QueuesOffered
      <3>2. QED
        BY <1>1, <1>5, <2>1, <3>1 DEF CacheOwns
    <2>3. QED
      BY <2>1, <2>2, OwnedStep
  <1>6. \A i \in Items : cache'[i] <= pubSeq'
    <2>1. ASSUME NEW j \in Contents, PublishItem(j) PROVE \A i \in Items : cache'[i] <= pubSeq'
      <3>1. pubSeq' = pubSeq + 1 /\ \A i \in Items : cache'[i] = cache[i] \/ cache'[i] = pubSeq + 1
        BY <1>1, <2>1 DEF PublishItem, AsTypeOK, Versions
      <3>2. \A i \in Items : cache[i] <= pubSeq
        BY <1>1 DEF CacheOwns
      <3>3. QED
        BY <1>1, <3>1, <3>2
    <2>2. CASE UNCHANGED <<cache, pubSeq>>
      BY <1>1, <2>2 DEF CacheOwns
    <2>3. CASE PublishBroadcast \/ FanStep \/ OtherSteps
      BY <2>2, <2>3, OtherPipe DEF PublishBroadcast, FanStep, FanStart, FanOffer, FanEvict, FanResend, FanEnd, pubVars
    <2>4. QED
      BY <2>1, <2>3, NextCases
  <1>7. pubSend' # <<>> => Owned(cache', pubSend'[1])
    <2>1. ASSUME NEW j \in Contents, PublishItem(j) PROVE Owned(cache', pubSend'[1])
      <3>1. pubSend'[1].item = j /\ pubSend'[1].ver = pubSeq + 1
        BY <2>1 DEF PublishItem
      <3>2. \A i \in Items : /\ i = j => cache'[i] = pubSeq + 1
                             /\ i # j => cache'[i] = cache[i]
        BY <1>1, <2>1, SessionAssumption DEF PublishItem, AsTypeOK, Versions, Contents
      <3>3. \A i \in Items : cache[i] # pubSeq + 1
        BY <1>1 DEF CacheOwns
      <3>4. QED
        BY <1>1, <3>1, <3>2, <3>3 DEF Owned
    <2>2. CASE PublishBroadcast \/ FanStep \/ OtherSteps
      <3>1. pubSend' = <<>> \/ pubSend' = pubSend
        BY <2>2, OtherPipe DEF PublishBroadcast, FanStep, FanStart, FanOffer, FanEvict, FanResend, FanEnd, pubVars
      <3>2. QED
        BY <1>2, <3>1
    <2>3. CASE \E j \in Contents : PublishItem(j)
      BY <2>1, <2>3
    <2>4. QED
      BY <2>2, <2>3, NextCases
  <1>8. \A k \in DOMAIN broadcast' : Owned(cache', broadcast'[k])
    <2>1. CASE UNCHANGED broadcast
      BY <1>3, <2>1
    <2>2. CASE PublishBroadcast
      <3>1. broadcast' = broadcast \o pubSend /\ pubSend # <<>>
        BY <2>2 DEF PublishBroadcast
      <3>2. broadcast' = Append(broadcast, pubSend[1]) /\ pubSend[1] \in Update /\ broadcast \in Seq(Update)
        BY <1>1, <3>1, PipeTypes, AppendIsConcat
      <3>3. \A k \in DOMAIN broadcast' : broadcast'[k] = pubSend[1] \/ (k \in DOMAIN broadcast /\ broadcast'[k] = broadcast[k])
        BY <3>2, AppendFacts
      <3>4. QED
        BY <1>2, <1>3, <3>1, <3>3
    <2>3. CASE FanStart
      <3>1. \A k \in DOMAIN broadcast' : k + 1 \in DOMAIN broadcast /\ broadcast'[k] = broadcast[k + 1]
        BY <1>1, <2>3, PipeTypes, TailFacts DEF FanStart
      <3>2. QED
        BY <1>3, <3>1
    <2>4. CASE (\E j \in Contents : PublishItem(j)) \/ (FanStep /\ ~FanStart) \/ OtherSteps
      <3>1. UNCHANGED broadcast
        BY <2>4, OtherPipe DEF PublishItem, FanStep, FanOffer, FanEvict, FanResend, FanEnd
      <3>2. QED
        BY <2>1, <3>1
    <2>5. QED
      BY <2>2, <2>3, <2>4, NextCases
  <1>9. fan'.phase # "idle" => Owned(cache', fan'.msg)
    <2>1. CASE FanStart
      <3>1. fan'.msg = broadcast[1] /\ 1 \in DOMAIN broadcast
        BY <1>1, <2>1, PipeTypes, TailFacts DEF FanStart
      <3>2. QED
        BY <1>3, <3>1
    <2>2. CASE ~FanStart
      <3>1. fan'.phase # "idle" => fan'.msg = fan.msg /\ fan.phase # "idle"
        <4>1. CASE FanStep
          <5>1. ASSUME NEW w \in Watchers, FanOffer(w) PROVE fan'.msg = fan.msg /\ fan.phase # "idle"
            <6>1. fan \in [phase : {"range"}, msg : Update, todo : SUBSET Watchers]
              BY <1>1, <5>1, FanCases DEF FanOffer
            <6>2. QED
              BY <5>1, <6>1 DEF FanOffer
          <5>2. CASE FanEvict
            <6>1. fan \in [phase : {"evict", "resend"}, msg : Update, todo : SUBSET Watchers, w : Watchers]
              BY <1>1, <5>2, FanCases DEF FanEvict
            <6>2. QED
              BY <5>2, <6>1 DEF FanEvict
          <5>3. CASE FanResend \/ FanEnd
            BY <5>3 DEF FanResend, FanEnd, FanIdle
          <5>4. QED
            BY <2>2, <4>1, <5>1, <5>2, <5>3 DEF FanStep
        <4>2. CASE (\E j \in Contents : PublishItem(j)) \/ PublishBroadcast \/ OtherSteps
          BY <4>2, OtherPipe DEF PublishItem, PublishBroadcast
        <4>3. QED
          BY <4>1, <4>2, NextCases
      <3>2. QED
        BY <1>4, <3>1
    <2>3. QED
      BY <2>1, <2>2
  <1>10. ASSUME NEW w \in Watchers, NEW k \in DOMAIN send'[w], send'[w][k].kind = "update"
         PROVE  Owned(cache', send'[w][k])
    <2>1. \/ \E j \in DOMAIN send[w] : send'[w][k] = send[w][j]
          \/ send'[w][k] = fan.msg /\ fan.phase # "idle"
      <3>1. ASSUME NEW len \in Nat, NEW e \in Message, send'[w][len] = e,
                   \A j \in DOMAIN send'[w] : j = len \/ (j < len /\ j \in DOMAIN send[w] /\ send'[w][j] = send[w][j]),
                   (e \in Snapshot /\ e.id = wid[w]) \/ (e = fan.msg /\ Offers(w))
            PROVE  \/ \E j \in DOMAIN send[w] : send'[w][k] = send[w][j]
                   \/ send'[w][k] = fan.msg /\ fan.phase # "idle"
        BY <1>10, <3>1 DEF Snapshot, Offers
      <3>2. QED
        BY <3>1, SendElements
    <2>2. CASE send'[w][k] = fan.msg /\ fan.phase # "idle"
      BY <1>4, <2>2
    <2>3. ASSUME NEW j \in DOMAIN send[w], send'[w][k] = send[w][j] PROVE Owned(cache', send'[w][k])
      BY <1>5, <1>10, <2>3
    <2>4. QED
      BY <2>1, <2>2, <2>3
  <1>11. QED
    BY <1>6, <1>7, <1>8, <1>9, <1>10 DEF CacheOwns

-----------------------------------------------------------------------------
(* The newest version of i reaches w: nothing changes for w ... *)
LEMMA StaysOnItsWay ==
  ASSUME NEW v \in Watchers, NEW i \in Items, OnItsWay(v, i),
         cache'[i] = cache[i], Offered(v)' = Offered(v), send'[v] = send[v],
         Cached(v, i)' /\ (Cached(v, i) => view[v][i] = cache[i]) => view'[v][i] = cache[i]
  PROVE  OnItsWay(v, i)'
  BY DEF OnItsWay

(* ... or a snapshot response is queued behind it ... *)
LEMMA RespondsOnItsWay ==
  ASSUME AsIInv, NEW v \in Watchers, NEW i \in Items, OnItsWay(v, i), Responds(v),
         cache' = cache, Offered(v)' = Offered(v), view' = view, wpc' = wpc
  PROVE  OnItsWay(v, i)'
  <1>1. PICK e \in Snapshot : send'[v] = Append(send[v], e)
    BY DEF Responds
  <1>2. e \in Message /\ e.kind = "snapshot" /\ send[v] \in Seq(Message)
    BY DEF Message, Snapshot, AsIInv, AsTypeOK
  <1>3. /\ \A k \in DOMAIN send[v] : k \in DOMAIN send'[v] /\ send'[v][k] = send[v][k]
        /\ \A k \in DOMAIN send'[v] : send'[v][k].kind = "update" =>
              k \in DOMAIN send[v] /\ send'[v][k] = send[v][k]
    BY <1>1, <1>2, AppendFacts
  <1>4. Cached(v, i)' <=> Cached(v, i)
    BY DEF Cached
  <1>5. CASE cache[i] > Offered(v)
    BY <1>5 DEF OnItsWay
  <1>6. ASSUME NEW k \in DOMAIN send[v], send[v][k].kind = "update", send[v][k].ver = cache[i]
        PROVE  OnItsWay(v, i)'
    BY <1>3, <1>6 DEF OnItsWay
  <1>7. CASE /\ \A k \in DOMAIN send[v] : send[v][k].kind = "update" => send[v][k].item # i
             /\ Cached(v, i) => view[v][i] = cache[i]
    <2>1. \A k \in DOMAIN send'[v] : send'[v][k].kind = "update" => send'[v][k].item # i
      BY <1>3, <1>7
    <2>2. Cached(v, i)' => view'[v][i] = cache'[i]
      BY <1>4, <1>7
    <2>3. QED
      BY <2>1, <2>2 DEF OnItsWay
  <1>8. QED
    BY <1>5, <1>6, <1>7 DEF OnItsWay

(* ... or the message that run owes w is: when it is about i it is the newest
   or a newer one is still to come ... *)
LEMMA OffersOnItsWay ==
  ASSUME AsIInv, NEW v \in Watchers, NEW i \in Items, Offers(v),
         i \in lost[v] => i = fan.msg.item, i \notin lost[v] => OnItsWay(v, i),
         fan.msg.ver = Taken, Owned(cache, fan.msg), view' = view, wpc' = wpc
  PROVE  OnItsWay(v, i)'
  <1>1. /\ send'[v] = Append(send[v], fan.msg) /\ fan.msg \in Message /\ fan.msg.kind = "update"
        /\ cache' = cache /\ Offered(v) = Taken - 1 /\ Offered(v)' = Taken
        /\ send[v] \in Seq(Message) /\ Taken \in Int /\ cache[i] \in Int
    <2>1. AsTypeOK
      BY DEF AsIInv
    <2>2. send[v] \in Seq(Message) /\ cache[i] \in Int
      BY <2>1 DEF AsTypeOK, Versions
    <2>3. fan.msg \in Message /\ fan.msg.kind = "update"
      BY DEF Offers, Message, Update
    <2>4. /\ send'[v] = Append(send[v], fan.msg) /\ cache' = cache
          /\ Offered(v) = Taken - 1 /\ Offered(v)' = Taken
      BY DEF Offers
    <2>5. Taken \in Int
      BY <2>1, PipeTypes
    <2>6. QED
      BY <2>2, <2>3, <2>4, <2>5
  <1>2. /\ \A k \in DOMAIN send[v] : k \in DOMAIN send'[v] /\ send'[v][k] = send[v][k]
        /\ send'[v][Len(send[v]) + 1] = fan.msg /\ Len(send[v]) + 1 \in DOMAIN send'[v]
        /\ \A k \in DOMAIN send'[v] : k = Len(send[v]) + 1 \/ k \in DOMAIN send[v]
    BY <1>1, AppendFacts
  <1>3. /\ fan.msg.item = i => Taken <= cache[i]
        /\ Taken = cache[i] => fan.msg.item = i
    BY DEF Owned
  <1>4. CASE Taken = cache[i]
    BY <1>1, <1>2, <1>4 DEF OnItsWay
  <1>5. CASE cache[i] > Taken
    BY <1>1, <1>5 DEF OnItsWay
  <1>6. CASE cache[i] < Taken
    <2>1. fan.msg.item # i /\ OnItsWay(v, i) /\ ~(cache[i] > Offered(v))
      BY <1>1, <1>3, <1>6
    <2>2. ASSUME NEW k \in DOMAIN send[v], send[v][k].kind = "update", send[v][k].ver = cache[i]
          PROVE  OnItsWay(v, i)'
      BY <1>1, <1>2, <2>2 DEF OnItsWay
    <2>3. CASE /\ \A k \in DOMAIN send[v] : send[v][k].kind = "update" => send[v][k].item # i
               /\ Cached(v, i) => view[v][i] = cache[i]
      <3>1. \A k \in DOMAIN send'[v] : send'[v][k].kind = "update" => send'[v][k].item # i
        BY <1>2, <2>1, <2>3
      <3>2. Cached(v, i)' => view'[v][i] = cache'[i]
        BY <1>1, <2>3 DEF Cached
      <3>3. QED
        BY <3>1, <3>2 DEF OnItsWay
    <2>4. QED
      BY <2>1, <2>2, <2>3 DEF OnItsWay
  <1>7. QED
    BY <1>1, <1>4, <1>5, <1>6

(* ... or the head of its channel goes: evicted, then the item is lost unless
   a newer message about it follows; or written, then the peer has it. *)
LEMMA TakesOnItsWay ==
  ASSUME AsIInv, NEW v \in Watchers, NEW i \in Items, OnItsWay(v, i), Takes(v),
         cache' = cache, Offered(v)' = Offered(v), wpc' = wpc,
         LET m == send[v][1]
         IN  \/ /\ view'[v][i] = view[v][i]
                /\ \/ m.kind # "update" \/ m.item # i
                   \/ \E k \in DOMAIN send[v] : k # 1 /\ send[v][k].kind = "update" /\ send[v][k].item = i
             \/ m.kind = "update" /\ m.item = i /\ view'[v][i] = m.ver
  PROVE  OnItsWay(v, i)'
  <1> DEFINE m == send[v][1]
  <1>1. /\ send'[v] = Tail(send[v]) /\ send[v] # <<>> /\ send[v] \in Seq(Message)
        /\ cache[i] \in Nat
    BY SessionAssumption DEF Takes, AsIInv, AsTypeOK, Versions
  <1>2. /\ 1 \in DOMAIN send[v]
        /\ \A k \in DOMAIN send'[v] : k + 1 \in DOMAIN send[v] /\ send'[v][k] = send[v][k + 1]
        /\ \A k \in DOMAIN send[v] : k = 1 \/ (k - 1 \in DOMAIN send'[v] /\ send'[v][k - 1] = send[v][k])
        /\ DOMAIN send[v] = 1 .. Len(send[v]) /\ Len(send[v]) \in Nat /\ DOMAIN send'[v] = 1 .. Len(send[v]) - 1
    BY <1>1, TailFacts
  <1>3. \A k \in DOMAIN send'[v] : \E len \in DOMAIN send[v] : len # 1 /\ send'[v][k] = send[v][len]
    <2> SUFFICES ASSUME NEW k \in DOMAIN send'[v] PROVE \E len \in DOMAIN send[v] : len # 1 /\ send'[v][k] = send[v][len]
      OBVIOUS
    <2>1. k + 1 \in DOMAIN send[v] /\ send'[v][k] = send[v][k + 1] /\ k + 1 # 1
      BY <1>2
    <2>2. QED
      BY <2>1
  <1>4. \A k \in DOMAIN send[v] : k # 1 => 1 < k
    BY <1>2
  <1>5. \A k \in DOMAIN send[v] : send[v][k].kind = "update" =>
            /\ send[v][k].ver \in Nat
            /\ send[v][k].item = i => send[v][k].ver <= cache[i]
            /\ send[v][k].ver = cache[i] => send[v][k].item = i
    <2>1. ASSUME NEW k \in DOMAIN send[v], send[v][k].kind = "update"
          PROVE  /\ send[v][k].ver \in Nat
                 /\ send[v][k].item = i => send[v][k].ver <= cache[i]
                 /\ send[v][k].ver = cache[i] => send[v][k].item = i
      <3>1. send[v][k] \in Message
        BY <1>1, <1>2, <2>1, ElementOfSeq
      <3>2. send[v][k].ver \in Nat
        BY <2>1, <3>1, MessageKinds, SessionAssumption
      <3>3. Owned(cache, send[v][k])
        BY <2>1 DEF AsIInv, CacheOwns
      <3>4. QED
        BY <3>2, <3>3 DEF Owned
    <2>2. QED
      BY <2>1
  <1>6. \A k \in DOMAIN send[v] : k # 1 /\ m.kind = "update" /\ send[v][k].kind = "update" => m.ver < send[v][k].ver
    BY <1>2, <1>4 DEF AsIInv, InOrder
  <1>7. Cached(v, i)' <=> Cached(v, i)
    BY DEF Cached
  <1>8. CASE cache[i] > Offered(v)
    BY <1>8 DEF OnItsWay
  <1>9. ASSUME NEW k \in DOMAIN send[v], k # 1, send[v][k].kind = "update", send[v][k].ver = cache[i]
        PROVE  OnItsWay(v, i)'
    BY <1>2, <1>9 DEF OnItsWay
  (* The head was the newest. *)
  <1>10. CASE m.kind = "update" /\ m.ver = cache[i]
    <2>1. m.item = i
      BY <1>2, <1>5, <1>10
    <2>2. \A k \in DOMAIN send[v] : k # 1 /\ send[v][k].kind = "update" => send[v][k].item # i
      BY <1>1, <1>5, <1>6, <1>10
    <2>3. view'[v][i] = m.ver
      BY <1>10, <2>1, <2>2
    <2>4. \A k \in DOMAIN send'[v] : send'[v][k].kind = "update" => send'[v][k].item # i
      BY <1>3, <2>2
    <2>5. QED
      BY <1>10, <2>3, <2>4 DEF OnItsWay
  <1>11. CASE /\ \A k \in DOMAIN send[v] : send[v][k].kind = "update" => send[v][k].item # i
              /\ Cached(v, i) => view[v][i] = cache[i]
    <2>1. view'[v][i] = view[v][i]
      BY <1>2, <1>11
    <2>2. \A k \in DOMAIN send'[v] : send'[v][k].kind = "update" => send'[v][k].item # i
      BY <1>3, <1>11
    <2>3. Cached(v, i)' => view'[v][i] = cache'[i]
      BY <1>7, <1>11, <2>1
    <2>4. QED
      BY <2>2, <2>3 DEF OnItsWay
  <1>12. QED
    BY <1>8, <1>9, <1>10, <1>11 DEF OnItsWay

(* The steps of the publisher and of the run loop. *)
LEMMA PublishMissesNothing ==
  ASSUME AsIInv, (\E i \in Contents : PublishItem(i)) \/ PublishBroadcast
  PROVE  NothingMissed'
  <1>1. UNCHANGED <<watchers, open, kicked, lost, send, view, wpc>>
    BY DEF PublishItem, PublishBroadcast
  <1> SUFFICES ASSUME NEW v \in watchers, v \in open, v \notin kicked, NEW i \in Items \ lost[v]
               PROVE  OnItsWay(v, i)'
    BY <1>1 DEF NothingMissed
  <1>2. v \in Watchers /\ i \in Items /\ OnItsWay(v, i) /\ AsTypeOK /\ pubSeq \in Nat
        /\ Offered(v) \in Int /\ Offered(v) <= pubSeq
    <2>1. AsTypeOK /\ NothingMissed
      BY DEF AsIInv
    <2>2. v \in Watchers /\ OnItsWay(v, i)
      BY <2>1 DEF AsTypeOK, NothingMissed
    <2>3. pubSeq \in Nat /\ Taken \in Int /\ Taken <= pubSeq /\ Offered(v) \in Int /\ Offered(v) <= Taken
      BY <2>1, PipeTypes
    <2>4. QED
      BY <2>1, <2>2, <2>3
  <1>3. Offered(v)' = Offered(v)
    BY PublishPipe
  <1>4. CASE cache'[i] = cache[i]
    BY <1>1, <1>2, <1>3, <1>4, StaysOnItsWay DEF Cached
  <1>5. CASE cache'[i] # cache[i]
    <2>1. cache'[i] = pubSeq + 1
      BY <1>2, <1>5 DEF PublishItem, PublishBroadcast, AsTypeOK, Versions
    <2>2. QED
      BY <1>2, <1>3, <2>1 DEF OnItsWay
  <1>6. QED
    BY <1>4, <1>5

LEMMA FanMissesNothing ==
  ASSUME AsIInv, FanStep
  PROVE  NothingMissed'
  <1>1. AsTypeOK /\ NothingMissed /\ watchers \subseteq Watchers /\ lost \in [Watchers -> SUBSET Contents]
        /\ send \in [Watchers -> Seq(Message)]
    BY DEF AsIInv, AsTypeOK
  <1>2. UNCHANGED <<cache, watchers, open, view, wpc>>
    BY DEF FanStep, FanStart, FanOffer, FanEvict, FanResend, FanEnd, pubVars
  <1> SUFFICES ASSUME NEW v \in watchers, v \in open, v \notin kicked', NEW i \in Items \ lost'[v]
               PROVE  OnItsWay(v, i)'
    BY <1>2 DEF NothingMissed
  <1>3. v \in Watchers /\ v \notin kicked
    BY <1>1 DEF FanStep, FanStart, FanOffer, FanEvict, FanResend, FanEnd
  <1>4. i \notin lost[v] => OnItsWay(v, i)
    BY <1>1, <1>3 DEF NothingMissed
  <1>5. ASSUME send'[v] = send[v], lost'[v] = lost[v], Offered(v)' = Offered(v)
        PROVE  OnItsWay(v, i)'
    BY <1>2, <1>3, <1>4, <1>5, StaysOnItsWay DEF Cached
  <1>6. ASSUME Offers(v), lost'[v] = lost[v] \ {fan.msg.item}, fan.msg.ver = Taken, Owned(cache, fan.msg)
        PROVE  OnItsWay(v, i)'
    <2>1. i \in lost[v] => i = fan.msg.item
      BY <1>6
    <2>2. QED
      BY <1>2, <1>3, <1>4, <1>6, <2>1, OffersOnItsWay
  <1>7. CASE FanStart \/ FanEnd
    <2>1. send' = send /\ lost' = lost /\ Offered(v)' = Offered(v)
      BY <1>3, <1>7, FanPipe DEF FanStart, FanEnd
    <2>2. QED
      BY <1>5, <2>1
  <1>8. ASSUME NEW w \in Watchers, FanOffer(w) PROVE OnItsWay(v, i)'
    <2>1. CASE Len(send[w]) < QueueCap
      <3>1. CASE v = w
        BY <1>6, <1>8, <2>1, <3>1, OfferFacts
      <3>2. CASE v # w
        BY <1>3, <1>5, <1>8, <2>1, <3>2, OfferFacts, FanPipe
      <3>3. QED
        BY <3>1, <3>2
    <2>2. CASE ~(Len(send[w]) < QueueCap)
      <3>1. UNCHANGED <<send, lost>> /\ fan' = [phase |-> "evict", msg |-> fan.msg, todo |-> fan.todo \ {w}, w |-> w]
            /\ w \in fan.todo /\ fan.phase = "range"
        BY <1>8, <2>2 DEF FanOffer
      <3>2. \A u : Pending(u)' <=> Pending(u)
        BY <3>1 DEF Pending
      <3>3. Taken' = Taken
        BY <1>8 DEF FanOffer, pubVars, Taken
      <3>4. Offered(v)' = Offered(v)
        BY <3>2, <3>3 DEF Offered
      <3>5. QED
        BY <1>5, <3>1, <3>4
    <2>3. QED
      BY <2>1, <2>2
  <1>9. CASE FanResend
    <2>1. fan.w \in Watchers
      BY <1>1, <1>9, FanCases DEF FanResend
    <2>2. CASE Len(send[fan.w]) < QueueCap
      <3>1. CASE v = fan.w
        BY <1>6, <1>9, <2>1, <2>2, <3>1, OfferFacts
      <3>2. CASE v # fan.w
        BY <1>3, <1>5, <1>9, <2>1, <2>2, <3>2, OfferFacts, FanPipe
      <3>3. QED
        BY <3>1, <3>2
    <2>3. CASE ~(Len(send[fan.w]) < QueueCap)
      <3>1. kicked' = kicked \cup {fan.w} /\ UNCHANGED <<send, lost>>
        BY <1>9, <2>3 DEF FanResend
      <3>2. v # fan.w
        BY <3>1
      <3>3. QED
        BY <1>3, <1>5, <1>9, <2>1, <3>1, <3>2, FanPipe
    <2>4. QED
      BY <2>2, <2>3
  <1>10. CASE FanEvict
    <2>1. fan.w \in Watchers /\ Offered(v)' = Offered(v)
      BY <1>1, <1>3, <1>10, FanCases, FanPipe DEF FanEvict
    <2>2. CASE send[fan.w] = <<>>
      BY <1>5, <1>10, <2>1, <2>2 DEF FanEvict
    <2>3. CASE send[fan.w] # <<>>
      <3>1. /\ send' = [send EXCEPT ![fan.w] = Tail(@)]
            /\ lost' = [lost EXCEPT ![fan.w] = @ \cup (EvictedItem(fan.w) \ {m \in Contents : \E k \in 2 .. Len(send[fan.w]) :
                             send[fan.w][k].kind = "update" /\ send[fan.w][k].item = m})]
        BY <1>10, <2>3, Zenon DEF FanEvict
      <3>2. CASE v # fan.w
        <4>1. send'[v] = send[v] /\ lost'[v] = lost[v]
          BY <1>1, <1>3, <2>1, <3>1, <3>2
        <4>2. QED
          BY <1>5, <2>1, <4>1
      <3>3. CASE v = fan.w
        <4>1. /\ send'[v] = Tail(send[v])
              /\ i \notin lost[v]
              /\ i \in EvictedItem(v) => \E k \in 2 .. Len(send[v]) : send[v][k].kind = "update" /\ send[v][k].item = i
          BY <1>1, <1>3, <3>1, <3>3 DEF Contents
        <4>2. send[v][1] = Head(send[v]) /\ DOMAIN send[v] = 1 .. Len(send[v]) /\ Len(send[v]) \in Nat
          BY <1>1, <1>3, <2>3, <3>3, TailFacts
        <4>3. \/ send[v][1].kind # "update" \/ send[v][1].item # i
              \/ \E k \in DOMAIN send[v] : k # 1 /\ send[v][k].kind = "update" /\ send[v][k].item = i
          <5>1. send[v][1].kind = "update" /\ send[v][1].item = i => i \in EvictedItem(v)
            BY <4>2 DEF EvictedItem
          <5>2. \A k \in 2 .. Len(send[v]) : k \in DOMAIN send[v] /\ k # 1
            BY <4>2
          <5>3. QED
            BY <4>1, <5>1, <5>2
        <4>4. Takes(v)
          BY <2>3, <3>3, <4>1 DEF Takes
        <4>5. view'[v][i] = view[v][i] /\ OnItsWay(v, i)
          BY <1>2, <1>4, <4>1
        <4>6. QED
          BY <1>2, <1>3, <2>1, <4>3, <4>4, <4>5, TakesOnItsWay
      <3>4. QED
        BY <3>2, <3>3
    <2>4. QED
      BY <2>2, <2>3
  <1>11. QED
    BY <1>7, <1>8, <1>9, <1>10 DEF FanStep

(* The steps of the watchers' goroutines. *)
LEMMA WatcherMissesNothing ==
  ASSUME AsIInv, OtherSteps
  PROVE  NothingMissed'
  <1>1. AsTypeOK /\ NothingMissed /\ Lifecycle /\ watchers \subseteq Watchers
        /\ lost \in [Watchers -> SUBSET Contents] /\ send \in [Watchers -> Seq(Message)]
    BY DEF AsIInv, AsTypeOK
  <1>2. UNCHANGED cache /\ \A v : Offered(v)' = Offered(v)
    BY OtherPipe
  <1> SUFFICES ASSUME NEW v \in watchers', v \in open', v \notin kicked', NEW i \in Items \ lost'[v]
               PROVE  OnItsWay(v, i)'
    BY DEF NothingMissed
  <1>3. ASSUME v \in watchers, v \in open, v \notin kicked, i \notin lost[v]
        PROVE  v \in Watchers /\ i \in Items /\ OnItsWay(v, i)
    BY <1>1, <1>3 DEF NothingMissed
  <1>4. ASSUME v \in watchers, v \in open, v \notin kicked, lost'[v] = lost[v], send'[v] = send[v],
               Cached(v, i)' /\ (Cached(v, i) => view[v][i] = cache[i]) => view'[v][i] = cache[i]
        PROVE  OnItsWay(v, i)'
    BY <1>2, <1>3, <1>4, StaysOnItsWay
  <1>5. CASE UNCHANGED asVars
    BY <1>4, <1>5 DEF asVars, Cached
  <1>6. ASSUME NEW id \in requests, RouteSnapshotResponse(id) PROVE OnItsWay(v, i)'
    <2>1. UNCHANGED <<watchers, open, kicked, lost, view, wpc>>
      BY <1>6 DEF RouteSnapshotResponse
    <2>2. CASE send'[v] = send[v]
      BY <1>4, <2>1, <2>2 DEF Cached
    <2>3. CASE Responds(v)
      BY <1>2, <1>3, <2>1, <2>3, RespondsOnItsWay
    <2>4. send'[v] = send[v] \/ Responds(v)
      <3>1. ASSUME NEW w \in watchers, wid[w] = id,
                   send' = [send EXCEPT ![w] = Append(@, [kind |-> "snapshot", id |-> id])]
            PROVE  send'[v] = send[v] \/ Responds(v)
        <4>1. w \in Watchers /\ v \in Watchers /\ [kind |-> "snapshot", id |-> id] \in Snapshot
          BY <1>1, <2>1 DEF AsTypeOK, Snapshot
        <4>2. QED
          BY <1>1, <3>1, <4>1 DEF Responds
      <3>2. QED
        BY <1>6, <3>1 DEF RouteSnapshotResponse
    <2>5. QED
      BY <2>2, <2>3, <2>4
  <1>7. ASSUME NEW w \in Watchers, JoinWatcher(w) PROVE OnItsWay(v, i)'
    <2>1. UNCHANGED <<send, kicked, lost, view>>
      BY <1>7 DEF JoinWatcher
    <2>2. CASE v = w
      <3>1. send'[v] = <<>>
        BY <1>1, <1>7, <2>1, <2>2 DEF JoinWatcher, Lifecycle, LifeOf
      <3>2. wpc'[v] = "config"
        BY <1>1, <1>7, <2>2 DEF JoinWatcher, AsTypeOK
      <3>3. QED
        BY <3>1, <3>2 DEF OnItsWay, Cached
    <2>3. CASE v # w
      <3>1. v \in watchers /\ v \in open /\ v \in Watchers /\ wpc'[v] = wpc[v]
        BY <1>1, <1>7, <2>3 DEF JoinWatcher, AsTypeOK
      <3>2. QED
        BY <1>2, <1>4, <2>1, <3>1 DEF Cached
    <2>4. QED
      BY <2>2, <2>3
  <1>8. ASSUME NEW w \in Watchers, SendCachedConfig(w) \/ SendFullFrame(w) PROVE OnItsWay(v, i)'
    <2>1. UNCHANGED <<send, kicked, lost, watchers, open>> /\ v \in Watchers
      BY <1>1, <1>8 DEF SendCachedConfig, SendFullFrame
    <2>2. Cached(v, i)' /\ (Cached(v, i) => view[v][i] = cache[i]) => view'[v][i] = cache[i]
      <3>1. CASE v # w
        BY <1>1, <1>8, <2>1, <3>1, ReceiveCachedFacts DEF SendCachedConfig, SendFullFrame, AsTypeOK, Cached
      <3>2. CASE v = w /\ SendCachedConfig(w)
        <4>1. wpc'[v] = "frame" /\ view'[v][i] = IF i \in {Config} THEN cache[i] ELSE view[v][i]
          BY <1>1, <2>1, <3>2, ReceiveCachedFacts DEF SendCachedConfig, AsTypeOK
        <4>2. QED
          BY <4>1 DEF Cached
      <3>3. CASE v = w /\ SendFullFrame(w)
        <4>1. wpc[v] = "frame" /\ view'[v][i] = IF i \in Tiles THEN cache[i] ELSE view[v][i]
          BY <1>1, <2>1, <3>3, ReceiveCachedFacts DEF SendFullFrame
        <4>2. i \in Tiles \/ i = Config
          BY DEF Items
        <4>3. QED
          BY <4>1, <4>2 DEF Cached
      <3>4. QED
        BY <1>8, <3>1, <3>2, <3>3
    <2>3. QED
      BY <1>4, <2>1, <2>2
  <1>9. ASSUME NEW w \in Watchers, StartPump(w) \/ ReadError(w) \/ RequestSnapshot(w) \/ PeerClose(w)
        PROVE  OnItsWay(v, i)'
    <2>1. UNCHANGED <<send, kicked, lost, watchers, view>> /\ v \in open /\ v \in Watchers
      BY <1>1, <1>9 DEF StartPump, ReadError, RequestSnapshot, PeerClose
    <2>2. Cached(v, i)' <=> Cached(v, i)
      <3>1. wpc'[v] = wpc[v] \/ (wpc[v] \in {"start", "reading"} /\ wpc'[v] \in {"reading", "leaving"})
        BY <1>1, <1>9, <2>1 DEF StartPump, ReadError, RequestSnapshot, PeerClose, AsTypeOK
      <3>2. QED
        BY <3>1 DEF Cached
    <2>3. QED
      BY <1>2, <1>4, <2>1, <2>2
  <1>10. ASSUME NEW w \in Watchers, LeaveWatcher(w) \/ KickWatcher(w) PROVE OnItsWay(v, i)'
    <2>1. UNCHANGED <<send, lost, view>> /\ v # w /\ v \in watchers /\ v \in open
      BY <1>10 DEF LeaveWatcher, KickWatcher, RemoveWatcher
    <2>2. v \notin kicked /\ wpc'[v] = wpc[v]
      BY <1>1, <1>10, <2>1 DEF LeaveWatcher, KickWatcher, AsTypeOK
    <2>3. QED
      BY <1>2, <1>4, <2>1, <2>2 DEF Cached
  <1>11. ASSUME NEW w \in Watchers, PumpWrite(w) PROVE OnItsWay(v, i)'
    <2>1. UNCHANGED <<watchers, open, kicked, lost, wpc>> /\ v \in Watchers
      BY <1>1, <1>11 DEF PumpWrite
    <2>2. CASE v # w
      <3>1. send'[v] = send[v] /\ view'[v] = view[v]
        BY <1>1, <1>11, <2>1, <2>2 DEF PumpWrite, AsTypeOK
      <3>2. QED
        BY <1>2, <1>4, <2>1, <3>1 DEF Cached
    <2>3. CASE v = w
      <3>1. Takes(v) /\ Head(send[v]) = send[v][1] /\ send[v][1] \in Message
        <4>1. send[v] # <<>> /\ send' = [send EXCEPT ![v] = Tail(@)]
          BY <1>11, <2>3 DEF PumpWrite
        <4>2. send'[v] = Tail(send[v])
          BY <1>1, <2>1, <4>1
        <4>3. QED
          BY <1>1, <2>1, <4>1, <4>2, TailFacts DEF Takes
      <3>2. \/ view' = view /\ ~(send[v][1].kind = "update" /\ send[v][1].item # Other)
            \/ /\ send[v][1].kind = "update" /\ send[v][1].item # Other
               /\ view' = [view EXCEPT ![v] = [view[v] EXCEPT ![send[v][1].item] = send[v][1].ver]]
        BY <1>11, <2>3, <3>1 DEF PumpWrite
      <3>3. i # Other /\ i \in Items /\ view[v] \in Versions
        BY <1>1, <2>1, SessionAssumption DEF AsTypeOK
      <3>4. \/ /\ view'[v][i] = view[v][i]
               /\ send[v][1].kind # "update" \/ send[v][1].item # i
            \/ send[v][1].kind = "update" /\ send[v][1].item = i /\ view'[v][i] = send[v][1].ver
        <4>1. CASE view' = view /\ ~(send[v][1].kind = "update" /\ send[v][1].item # Other)
          BY <3>3, <4>1
        <4>2. ASSUME NEW j, NEW x, send[v][1].kind = "update", send[v][1].item = j, send[v][1].ver = x,
                     view' = [view EXCEPT ![v] = [view[v] EXCEPT ![j] = x]]
              PROVE  \/ view'[v][i] = view[v][i] /\ send[v][1].item # i
                     \/ send[v][1].item = i /\ view'[v][i] = x
          <5>1. view'[v] = [view[v] EXCEPT ![j] = x]
            BY <1>1, <2>1, <4>2 DEF AsTypeOK
          <5>2. view'[v][i] = IF i = j THEN x ELSE view[v][i]
            BY <3>3, <5>1 DEF Versions
          <5>3. QED
            BY <4>2, <5>2
        <4>3. QED
          BY <3>2, <4>1, <4>2
      <3>5. OnItsWay(v, i)
        BY <1>3, <2>1
      <3>6. QED
        BY <1>2, <2>1, <3>1, <3>3, <3>4, <3>5, TakesOnItsWay
    <2>4. QED
      BY <2>2, <2>3
  <1>12. ASSUME NEW w \in Watchers, PumpEnd(w) \/ Collect(w) PROVE OnItsWay(v, i)'
    <2>1. UNCHANGED <<watchers, kicked>> /\ v # w /\ v \in open /\ v \in Watchers
      BY <1>1, <1>12 DEF PumpEnd, Collect, Lifecycle, LifeOf
    <2>2. send'[v] = send[v] /\ lost'[v] = lost[v] /\ view'[v] = view[v] /\ wpc'[v] = wpc[v]
      BY <1>1, <1>12, <2>1 DEF PumpEnd, Collect, AsTypeOK
    <2>3. QED
      BY <1>2, <1>4, <2>1, <2>2 DEF Cached
  <1>13. QED
    BY <1>5, <1>6, <1>7, <1>8, <1>9, <1>10, <1>11, <1>12 DEF OtherSteps, HandlerStep
-----------------------------------------------------------------------------
LEMMA NextAsIInv == AsIInv /\ [AsNext]_asVars => AsIInv'
  <1> SUFFICES ASSUME AsIInv, [AsNext]_asVars PROVE AsIInv'
    OBVIOUS
  <1>1. AsTypeOK'
    BY NextType DEF AsIInv
  <1>2. Counted' /\ Lifecycle' /\ FanOverWatchers' /\ IdsApart'
    BY NextCounted, NextLifecycle, NextFanOverWatchers, NextIdsApart
  <1>3. SnapshotToRequester' /\ QueuesOffered' /\ InOrder' /\ Numbered' /\ CacheOwns'
    BY NextSnapshotToRequester, NextQueues, NextNumbered, NextCacheOwns
  <1>4. NothingMissed'
    BY PublishMissesNothing, FanMissesNothing, WatcherMissesNothing, NextCases
  <1>5. QED
    BY <1>1, <1>2, <1>3, <1>4 DEF AsIInv

LEMMA AsInvariance == AsSpec => []AsIInv
  BY InitAsIInv, NextAsIInv, PTL DEF AsSpec

(* run and routeSnapshotResponse never send on a channel that removeWatcher
   has closed, and watcherCount is the number of watchers although a kick and
   the handler's own removal both run (agent_session.go). *)
THEOREM RemovedOnceHolds == AsSpec => []RemovedOnce
  <1>1. AsIInv => RemovedOnce
    <2> SUFFICES ASSUME AsIInv PROVE RemovedOnce
      OBVIOUS
    <2>1. AsTypeOK /\ CountIsExact /\ Lifecycle /\ FanOverWatchers /\ watchers \subseteq Watchers
      BY DEF AsIInv, Counted, AsTypeOK
    <2>2. \A w \in watchers : w \notin closed
      BY <2>1 DEF Lifecycle, LifeOf
    <2>3. NoSendOnClosed
      BY <2>1, <2>2 DEF NoSendOnClosed, FanOverWatchers
    <2>4. QED
      BY <2>1, <2>3 DEF RemovedOnce
  <1>2. QED
    BY <1>1, AsInvariance, PTL

(* A snapshot response is queued for the watcher that asked for it only, the
   reuse of Watcher objects notwithstanding (agent_session.go,
   routeSnapshotResponse). *)
THEOREM SnapshotToRequesterHolds == AsSpec => []SnapshotToRequester
  <1>1. AsIInv => SnapshotToRequester
    BY DEF AsIInv
  <1>2. QED
    BY <1>1, AsInvariance, PTL

(* Every channel is in the publisher's order, and a watcher that joins while
   messages are on their way ends up with the newest version of everything
   that was not evicted from its channel (agent_session.go, run; hub.go,
   HandleWatch). *)
THEOREM WatcherUpToDateHolds == AsSpec => []WatcherUpToDate
  <1>1. AsIInv => JoinMissesNothing
    <2> SUFFICES ASSUME AsIInv, NEW w \in Watchers, Settled(w), NEW i \in Items \ lost[w]
                 PROVE  view[w][i] = cache[i]
      BY DEF JoinMissesNothing
    <2>1. /\ pump[w] = "running" /\ w \in open /\ w \notin kicked
          /\ send[w] = <<>> /\ broadcast = <<>> /\ pubSend = <<>> /\ fan = FanIdle
      BY DEF Settled
    <2>2. w \in watchers /\ wpc[w] \in {"reading", "leaving", "left"}
      BY <2>1 DEF AsIInv, Lifecycle, LifeOf
    <2>3. OnItsWay(w, i) /\ Cached(w, i)
      BY <2>1, <2>2 DEF AsIInv, NothingMissed, Cached
    <2>4. ~(cache[i] > Offered(w))
      <3>1. Offered(w) = Taken
        BY <2>1 DEF Offered, Pending, FanIdle
      <3>2. Taken = pubSeq /\ pubSeq \in Nat
        BY <2>1, PipeTypes DEF Taken, AsIInv
      <3>3. cache[i] <= pubSeq /\ cache[i] \in Nat
        BY SessionAssumption DEF AsIInv, CacheOwns, AsTypeOK, Versions
      <3>4. QED
        BY <3>1, <3>2, <3>3
    <2>5. DOMAIN send[w] = {}
      BY <2>1
    <2>6. QED
      BY <2>3, <2>4, <2>5 DEF OnItsWay
  <1>2. AsIInv => WatcherUpToDate
    BY <1>1 DEF AsIInv, WatcherUpToDate
  <1>3. QED
    BY <1>2, AsInvariance, PTL

-----------------------------------------------------------------------------
(* SurvWSHub.                                                              *)

(* No fragment is broadcast before its muxer's init segment was published,
   and none is cached that a later muxer made. *)
InitPublished ==
    /\ feed.pc = "read" /\ muxInit => initSeg = gen
    /\ feed.pc = "broadcast" => initSeg = gen
    /\ feed.pc # "read" => n < MaxFrags
    /\ gop # <<>> => gop[1].gen <= gen

(* A client that was not started has nothing queued; one that was got its
   init segment and its keyframe together. *)
StartedWithKey ==
    \A c \in Clients :
        IF c \in started
        THEN /\ Len(first[c]) = 2
             /\ first[c][1].kind = "init"
             /\ first[c][2].kind = "frag" /\ first[c][2].key
        ELSE first[c] = <<>> /\ wsSend[c] = <<>>

(* A client object is new, in the hub, or closed. *)
ClientsApart ==
    /\ clients \cap wsClosed = {}
    /\ started \subseteq clients \cup wsClosed

(* The inductive invariant. *)
WsIInv ==
    /\ WsTypeOK
    /\ InitPublished
    /\ StartedWithKey
    /\ ClientsApart
    /\ GopDecodable
    /\ InitOfItsMuxer
    /\ NoGap
-----------------------------------------------------------------------------
LEMMA InitWsIInv == WsInit => WsIInv
  <1> SUFFICES ASSUME WsInit PROVE WsIInv
    OBVIOUS
  <1>1. WsTypeOK
    <2>1. <<>> \in Seq(Frag) /\ <<>> \in Seq(WsPacket) /\ Len(<<>>) = 0
      BY EmptySeq
    <2>2. gop \in Seq(Frag) /\ Len(gop) <= GopMaxFrags
      BY <2>1, HubAssumption DEF WsInit
    <2>3. /\ wsSend \in [Clients -> Seq(WsPacket)] /\ first \in [Clients -> Seq(WsPacket)]
          /\ \A c \in Clients : Len(wsSend[c]) <= SendBuf
      BY <2>1, HubAssumption DEF WsInit
    <2>4. feed \in FeedStates
      BY DEF WsInit, FeedStates
    <2>5. gen = 1 /\ n = 0 /\ initSeg = 0 /\ clients = {} /\ started = {} /\ wsClosed = {} /\ gapped = {} /\ crossed = {}
      BY DEF WsInit
    <2>6. muxInit \in BOOLEAN
      BY DEF WsInit
    <2>7. QED
      BY <2>2, <2>3, <2>4, <2>5, <2>6, HubAssumption DEF WsTypeOK
  <1>2. InitOfItsMuxer
    <2>1. gop = <<>> /\ \A c \in Clients : first[c] = <<>> /\ Len(first[c]) = 0
      BY DEF WsInit
    <2>2. QED
      BY <2>1 DEF InitOfItsMuxer
  <1>3. QED
    BY <1>1, <1>2 DEF WsInit, WsIInv, InitPublished, StartedWithKey, ClientsApart, GopDecodable, NoGap

(* The history variable `first' keeps the two packets it is named for. *)
LEMMA FirstTwoFacts ==
  ASSUME NEW S, NEW s \in Seq(S)
  PROVE  /\ FirstTwo(s) \in Seq(S)
         /\ Len(FirstTwo(s)) = IF Len(s) < 2 THEN Len(s) ELSE 2
         /\ \A i \in 1 .. Len(FirstTwo(s)) : FirstTwo(s)[i] = s[i]
  <1> DEFINE m == IF Len(s) < 2 THEN Len(s) ELSE 2
  <1>1. Len(s) \in Nat /\ m \in Nat /\ m <= Len(s)
    BY LenProperties
  <1>2. \A i \in 1 .. m : s[i] \in S
    BY <1>1, ElementOfSeq
  <1>3. /\ SubSeq(s, 1, m) \in Seq(S)
        /\ Len(SubSeq(s, 1, m)) = IF 1 <= m THEN m - 1 + 1 ELSE 0
        /\ \A i \in 1 .. m - 1 + 1 : SubSeq(s, 1, m)[i] = s[1 + i - 1]
    <2> HIDE DEF m
    <2>1. QED
      BY <1>1, <1>2, SubSeqProperties
  <1>4. FirstTwo(s) = SubSeq(s, 1, m)
    BY DEF FirstTwo
  <1>5. QED
    <2>1. Len(SubSeq(s, 1, m)) = m
      BY <1>1, <1>3
    <2>2. \A i \in 1 .. m : SubSeq(s, 1, m)[i] = s[i]
      BY <1>1, <1>3
    <2>3. QED
      BY <1>3, <1>4, <2>1, <2>2

(* What broadcast queues: the fragment alone, or nothing, for a client that
   was started; the init segment and the keyframe for one that was not. *)
LEMMA QueuedFacts ==
  ASSUME WsIInv, feed.pc = "broadcast", NEW frag \in Frag, NEW c \in Served(frag)
  PROVE  /\ c \in Clients
         /\ c \in started => Queued(c, frag) = IF FragFits(c) THEN <<frag>> ELSE <<>>
         /\ c \in started => (FragFits(c) <=> Len(wsSend[c]) < SendBuf)
         /\ c \notin started => frag.key /\ FragFits(c) /\ Queued(c, frag) = <<InitPacket, frag>>
         /\ InitPacket \in WsPacket /\ InitPacket.kind = "init"
  <1>1. c \in Clients /\ wsSend[c] \in Seq(WsPacket) /\ Len(wsSend[c]) \in Nat
    BY LenProperties DEF Served, WsIInv, WsTypeOK
  <1>2. InitPacket \in WsPacket /\ initSeg # 0
    BY HubAssumption DEF WsIInv, InitPublished, WsTypeOK, InitPacket, WsPacket, InitSegment
  <1>3. CASE c \in started
    <2>1. Preamble(c) = <<>> /\ Len(Preamble(c)) = 0
      BY <1>3 DEF Preamble
    <2>2. <<frag>> \in Seq(Frag) /\ <<>> \o <<frag>> = <<frag>>
      BY ConcatEmptySeq
    <2>3. FragFits(c) <=> Len(wsSend[c]) < SendBuf
      BY <1>1, <2>1 DEF FragFits
    <2>4. QED
      BY <1>1, <1>2, <1>3, <2>1, <2>2, <2>3 DEF Queued, InitPacket
  <1>4. CASE c \notin started
    <2>1. Preamble(c) = <<InitPacket>> /\ Len(Preamble(c)) = 1
      BY <1>2, <1>4 DEF Preamble
    <2>2. Len(wsSend[c]) = 0
      BY <1>1, <1>4 DEF WsIInv, StartedWithKey
    <2>3. FragFits(c)
      BY <2>1, <2>2, HubAssumption DEF FragFits
    <2>4. <<InitPacket>> \o <<frag>> = <<InitPacket, frag>>
      <3>1. frag \in WsPacket /\ InitPacket \in WsPacket
        BY <1>2 DEF WsPacket
      <3>2. <<InitPacket>> \in Seq(WsPacket) /\ <<frag>> \in Seq(WsPacket) /\ <<InitPacket, frag>> \in Seq(WsPacket)
        BY <3>1
      <3>3. /\ <<InitPacket>> \o <<frag>> \in Seq(WsPacket)
            /\ Len(<<InitPacket>> \o <<frag>>) = 2
            /\ (<<InitPacket>> \o <<frag>>)[1] = InitPacket
            /\ (<<InitPacket>> \o <<frag>>)[2] = frag
        BY <3>2, ConcatProperties
      <3>4. \A i \in 1 .. 2 : (<<InitPacket>> \o <<frag>>)[i] = <<InitPacket, frag>>[i]
        BY <3>3
      <3>5. QED
        BY <3>2, <3>3, <3>4, SeqEqual
    <2>5. frag.key
      BY <1>4 DEF Served, Waits
    <2>6. QED
      BY <1>1, <1>2, <1>4, <2>1, <2>3, <2>4, <2>5 DEF Queued, InitPacket
  <1>5. QED
    BY <1>3, <1>4

(* The queue of a client whose packets are contiguous stays so when the next
   fragment is appended, and when one is taken. *)
RunsTo(s, k) ==
    \A i \in 1 .. Len(s) :
        /\ i < Len(s) /\ s[i].kind = "frag" => s[i + 1].kind = "frag" /\ s[i + 1].n = s[i].n + 1
        /\ i = Len(s) => s[i].kind = "frag" /\ s[i].n = k

LEMMA ContiguousAppend ==
  ASSUME NEW s \in Seq(WsPacket), NEW k \in Nat, NEW frag \in Frag, frag.n = k + 1, RunsTo(s, k),
         NEW t, t = Append(s, frag)
  PROVE  RunsTo(t, k + 1)
  <1>0. \A i \in 1 .. Len(s) :
            /\ i < Len(s) /\ s[i].kind = "frag" => s[i + 1].kind = "frag" /\ s[i + 1].n = s[i].n + 1
            /\ i = Len(s) => s[i].kind = "frag" /\ s[i].n = k
    BY DEF RunsTo
  <1>1. frag \in WsPacket /\ frag.kind = "frag"
    BY DEF WsPacket, Frag
  <1>2. /\ Len(s) \in Nat /\ Len(t) = Len(s) + 1 /\ t[Len(s) + 1] = frag
        /\ \A i \in 1 .. Len(s) : t[i] = s[i]
    BY <1>1, LenProperties, AppendProperties
  <1>3. ASSUME NEW i \in 1 .. Len(t)
        PROVE  /\ i < Len(t) /\ t[i].kind = "frag" => t[i + 1].kind = "frag" /\ t[i + 1].n = t[i].n + 1
               /\ i = Len(t) => t[i].kind = "frag" /\ t[i].n = k + 1
    <2>1. CASE i < Len(s)
      <3>1. t[i] = s[i] /\ t[i + 1] = s[i + 1] /\ i \in 1 .. Len(s) /\ i # Len(t)
        BY <1>2, <2>1
      <3>2. QED
        BY <1>0, <2>1, <3>1
    <2>2. CASE i = Len(s)
      <3>1. t[i] = s[i] /\ t[i + 1] = frag /\ i \in 1 .. Len(s) /\ i # Len(t)
        BY <1>2, <2>2
      <3>2. QED
        BY <1>0, <1>1, <2>2, <3>1
    <2>3. CASE i = Len(s) + 1
      BY <1>1, <1>2, <2>3
    <2>4. QED
      BY <1>2, <2>1, <2>2, <2>3
  <1>4. QED
    BY <1>3 DEF RunsTo

LEMMA ContiguousTail ==
  ASSUME NEW s \in Seq(WsPacket), s # <<>>, Contiguous(s), n \in Nat
  PROVE  Contiguous(Tail(s))
  <1>1. /\ Tail(s) \in Seq(WsPacket) /\ Len(Tail(s)) = Len(s) - 1 /\ Len(s) \in Nat
        /\ \A i \in 1 .. Len(Tail(s)) : Tail(s)[i] = s[i + 1]
        /\ DOMAIN s = 1 .. Len(s) /\ DOMAIN Tail(s) = 1 .. Len(Tail(s))
    BY HeadTailProperties, LenProperties
  <1> SUFFICES ASSUME NEW i \in 1 .. Len(Tail(s))
               PROVE  /\ i < Len(Tail(s)) /\ Tail(s)[i].kind = "frag"
                           => Tail(s)[i + 1].kind = "frag" /\ Tail(s)[i + 1].n = Tail(s)[i].n + 1
                      /\ i = Len(Tail(s)) => Tail(s)[i].kind = "frag" /\ Tail(s)[i].n = n
    BY <1>1 DEF Contiguous
  <1>2. i + 1 \in DOMAIN s /\ Tail(s)[i] = s[i + 1]
    BY <1>1
  <1>3. PICK k : k = i + 1
    OBVIOUS
  <1>4. /\ k < Len(s) /\ s[k].kind = "frag" => s[k + 1].kind = "frag" /\ s[k + 1].n = s[k].n + 1
        /\ k = Len(s) => s[k].kind = "frag" /\ s[k].n = n
    BY <1>2, <1>3 DEF Contiguous
  <1>5. CASE i < Len(Tail(s))
    <2>1. i + 1 \in 1 .. Len(Tail(s)) /\ i # Len(Tail(s)) /\ k < Len(s) /\ k \in Nat
      <3>1. PICK m : m = Len(Tail(s))
        OBVIOUS
      <3>2. m \in Nat /\ m = Len(s) - 1 /\ Len(s) \in Nat /\ i \in Nat /\ 1 <= i /\ i < m
        BY <1>1, <1>5, <3>1
      <3>3. i + 1 \in 1 .. m /\ i # m /\ i + 1 < Len(s) /\ i + 1 \in Nat
        BY <3>2
      <3>4. QED
        BY <1>3, <3>1, <3>3
    <2>2. Tail(s)[i] = s[k] /\ Tail(s)[i + 1] = s[k + 1]
      BY <1>1, <1>3, <2>1
    <2>3. QED
      BY <1>4, <2>1, <2>2
  <1>6. CASE i = Len(Tail(s))
    <2>1. k = Len(s) /\ Tail(s)[i] = s[k]
      BY <1>1, <1>2, <1>3, <1>6
    <2>2. ~ (i < Len(Tail(s)))
      BY <1>1, <1>6
    <2>3. QED
      BY <1>4, <2>1, <2>2
  <1>7. QED
    BY <1>1, <1>5, <1>6

-----------------------------------------------------------------------------
(* The cache stays decodable: a fragment is appended right after the last. *)
LEMMA NextGopFacts ==
  ASSUME WsTypeOK, GopDecodable, NEW frag \in Frag, frag.n = n + 1
  PROVE  LET g == NextGop(frag)
         IN  /\ g \in Seq(Frag) /\ Len(g) <= GopMaxFrags
             /\ g # <<>> =>
                   /\ g[1].key
                   /\ \A k \in DOMAIN g : k > 1 => ~g[k].key
                   /\ \A k \in DOMAIN g : g[k].n = n + 1 - Len(g) + k
  <1>1. CASE frag.key
    <2>1. NextGop(frag) = <<frag>>
      BY <1>1 DEF NextGop
    <2>2. <<frag>> \in Seq(Frag) /\ Len(<<frag>>) = 1 /\ <<frag>>[1] = frag /\ DOMAIN <<frag>> = 1 .. 1
      OBVIOUS
    <2>3. n \in Nat
      BY HubAssumption DEF WsTypeOK
    <2>4. QED
      BY <1>1, <2>1, <2>2, <2>3, HubAssumption
  <1>2. CASE ~frag.key /\ (gop = <<>> \/ Len(gop) >= GopMaxFrags)
    BY <1>2, EmptySeq, HubAssumption DEF NextGop
  <1>3. CASE ~frag.key /\ gop # <<>> /\ ~(Len(gop) >= GopMaxFrags)
    <2> DEFINE g == Append(gop, frag)
    <2>1. NextGop(frag) = g
      BY <1>3 DEF NextGop
    <2>2. /\ gop \in Seq(Frag) /\ Len(gop) \in Nat /\ Len(gop) > 0 /\ n \in Nat
          /\ DOMAIN gop = 1 .. Len(gop)
      BY <1>3, LenProperties, EmptySeq, HubAssumption DEF WsTypeOK
    <2>3. /\ g \in Seq(Frag) /\ Len(g) = Len(gop) + 1
          /\ g[Len(gop) + 1] = frag /\ \A k \in 1 .. Len(gop) : g[k] = gop[k]
      BY <2>2, AppendProperties
    <2>4. DOMAIN g = 1 .. Len(gop) + 1
      BY <2>3, LenProperties
    <2> HIDE DEF g
    <2>5. g[1].key
      BY <1>3, <2>2, <2>3 DEF GopDecodable
    <2>6. ASSUME NEW k \in 1 .. Len(gop) + 1
          PROVE  (k > 1 => ~g[k].key) /\ g[k].n = n + 1 - Len(g) + k
      <3>1. CASE k \in 1 .. Len(gop)
        <4>1. g[k] = gop[k] /\ gop[k].n = n - Len(gop) + k /\ (k > 1 => ~gop[k].key)
          BY <1>3, <2>2, <2>3, <3>1 DEF GopDecodable
        <4>2. QED
          BY <2>2, <2>3, <4>1
      <3>2. CASE k = Len(gop) + 1
        BY <1>3, <2>2, <2>3, <3>2
      <3>3. QED
        BY <2>2, <3>1, <3>2
    <2>7. Len(g) <= GopMaxFrags
      BY <1>3, <2>2, <2>3, HubAssumption
    <2>8. QED
      BY <2>1, <2>3, <2>4, <2>5, <2>6, <2>7
  <1>4. QED
    BY <1>1, <1>2, <1>3

(* The fragment broadcast next. *)
NextFrag == [kind |-> "frag", gen |-> gen, n |-> n + 1, key |-> feed.key]

(* A broadcast preserves the invariant. *)
LEMMA BroadcastWsIInv == WsIInv /\ Broadcast => WsIInv'
  <1> SUFFICES ASSUME WsIInv, Broadcast PROVE WsIInv'
    OBVIOUS
  <1> DEFINE frag == NextFrag
  <1>1. /\ feed.pc = "broadcast" /\ n' = n + 1 /\ gop' = NextGop(frag)
        /\ started' = started \cup Served(frag)
        /\ wsSend' = [c \in Clients |->
                          IF c \in Served(frag) THEN wsSend[c] \o Queued(c, frag) ELSE wsSend[c]]
        /\ first' = [c \in Clients |->
                          IF c \in Served(frag) THEN FirstTwo(first[c] \o Queued(c, frag)) ELSE first[c]]
        /\ gapped' = gapped \cup {c \in Served(frag) : ~FragFits(c)}
        /\ feed' = [pc |-> "read"]
        /\ UNCHANGED <<gen, muxInit, initSeg, clients, wsClosed, crossed>>
    BY DEF Broadcast, NextFrag
  <1>2. n \in Nat /\ n < MaxFrags /\ initSeg # 0 /\ initSeg = gen /\ gen \in Nat
    BY <1>1, HubAssumption DEF WsIInv, InitPublished, WsTypeOK
  <1>3. frag \in Frag /\ frag.n = n + 1 /\ frag.kind = "frag"
    <2>1. feed \in [pc : {"setInit", "broadcast"}, key : BOOLEAN]
      BY <1>1 DEF WsIInv, WsTypeOK, FeedStates
    <2>2. n + 1 \in 1 .. MaxFrags /\ gen \in 1 .. MaxGen
      BY <1>2, HubAssumption DEF WsIInv, WsTypeOK
    <2>3. QED
      BY <2>1, <2>2 DEF Frag, NextFrag
  <1> HIDE DEF frag
  <1>4. \A c \in Served(frag) :
           /\ c \in Clients /\ c \in clients
           /\ c \in started => Queued(c, frag) = IF FragFits(c) THEN <<frag>> ELSE <<>>
           /\ c \in started => (FragFits(c) <=> Len(wsSend[c]) < SendBuf)
           /\ c \notin started => frag.key /\ FragFits(c) /\ Queued(c, frag) = <<InitPacket, frag>>
           /\ InitPacket \in WsPacket /\ InitPacket.kind = "init"
    BY <1>1, <1>3, QueuedFacts DEF Served
  <1>5. frag \in WsPacket
    BY <1>3 DEF WsPacket
  <1>6. \A c \in Clients : /\ wsSend[c] \in Seq(WsPacket) /\ Len(wsSend[c]) \in Nat /\ Len(wsSend[c]) <= SendBuf
                           /\ first[c] \in Seq(WsPacket) /\ Len(first[c]) \in Nat
    BY LenProperties DEF WsIInv, WsTypeOK
  <1>7. ASSUME NEW c \in Clients, c \in Served(frag), c \in started
        PROVE  /\ wsSend'[c] = IF FragFits(c) THEN Append(wsSend[c], frag) ELSE wsSend[c]
               /\ wsSend'[c] \in Seq(WsPacket) /\ Len(wsSend'[c]) <= SendBuf
               /\ first'[c] \in Seq(WsPacket)
               /\ Len(first'[c]) = 2 /\ first'[c][1] = first[c][1] /\ first'[c][2] = first[c][2]
    <2>1. wsSend'[c] = wsSend[c] \o Queued(c, frag) /\ first'[c] = FirstTwo(first[c] \o Queued(c, frag))
      BY <1>1, <1>7
    <2>2. Queued(c, frag) \in Seq(WsPacket)
      <3>1. <<frag>> \in Seq(WsPacket) /\ <<>> \in Seq(WsPacket)
        BY <1>5
      <3>2. Queued(c, frag) = <<frag>> \/ Queued(c, frag) = <<>>
        BY <1>4, <1>7
      <3>3. QED
        BY <3>1, <3>2
    <2>3. wsSend'[c] = IF FragFits(c) THEN Append(wsSend[c], frag) ELSE wsSend[c]
      <3>1. CASE FragFits(c)
        BY <1>4, <1>5, <1>6, <1>7, <2>1, <3>1, AppendIsConcat
      <3>2. CASE ~FragFits(c)
        BY <1>4, <1>6, <1>7, <2>1, <3>2, ConcatEmptySeq
      <3>3. QED
        BY <3>1, <3>2
    <2>4. wsSend'[c] \in Seq(WsPacket) /\ Len(wsSend'[c]) <= SendBuf
      <3>1. CASE FragFits(c)
        <4>1. Append(wsSend[c], frag) \in Seq(WsPacket) /\ Len(Append(wsSend[c], frag)) = Len(wsSend[c]) + 1
          BY <1>5, <1>6, AppendProperties
        <4>2. Len(wsSend[c]) < SendBuf
          BY <1>4, <1>7, <3>1
        <4>3. QED
          BY <1>6, <2>3, <3>1, <4>1, <4>2, HubAssumption
      <3>2. CASE ~FragFits(c)
        BY <1>6, <2>3, <3>2
      <3>3. QED
        BY <3>1, <3>2
    <2> DEFINE t == first[c] \o Queued(c, frag)
    <2>5. Len(first[c]) = 2
      BY <1>7 DEF WsIInv, StartedWithKey
    <2>6. /\ t \in Seq(WsPacket) /\ Len(t) = 2 + Len(Queued(c, frag))
          /\ t[1] = first[c][1] /\ t[2] = first[c][2]
          /\ Len(Queued(c, frag)) \in Nat
      <3>1. Len(Queued(c, frag)) \in Nat
        BY <2>2, LenProperties
      <3>2. first[c] \in Seq(WsPacket)
        BY <1>6
      <3>3. /\ t \in Seq(WsPacket) /\ Len(t) = Len(first[c]) + Len(Queued(c, frag))
            /\ \A i \in 1 .. Len(first[c]) + Len(Queued(c, frag)) :
                  t[i] = IF i <= Len(first[c]) THEN first[c][i] ELSE Queued(c, frag)[i - Len(first[c])]
        BY <2>2, <3>2, ConcatProperties
      <3> HIDE DEF t
      <3>4. QED
        BY <2>5, <3>1, <3>3
    <2> HIDE DEF t
    <2>7. FirstTwo(t) \in Seq(WsPacket) /\ Len(FirstTwo(t)) = 2 /\ \A i \in 1 .. 2 : FirstTwo(t)[i] = t[i]
      BY <2>6, FirstTwoFacts
    <2>8. QED
      BY <2>1, <2>3, <2>4, <2>6, <2>7 DEF t
  <1>8. ASSUME NEW c \in Clients, c \in Served(frag), c \notin started
        PROVE  /\ wsSend'[c] = <<InitPacket, frag>>
               /\ wsSend'[c] \in Seq(WsPacket) /\ Len(wsSend'[c]) <= SendBuf
               /\ first'[c] \in Seq(WsPacket)
               /\ Len(first'[c]) = 2 /\ first'[c][1] = InitPacket /\ first'[c][2] = frag
    <2>1. first[c] = <<>> /\ wsSend[c] = <<>>
      BY <1>8 DEF WsIInv, StartedWithKey
    <2>2. Queued(c, frag) = <<InitPacket, frag>> /\ <<InitPacket, frag>> \in Seq(WsPacket)
      BY <1>4, <1>5, <1>8
    <2>3. <<>> \o <<InitPacket, frag>> = <<InitPacket, frag>>
      BY <2>2, ConcatEmptySeq
    <2>4. wsSend'[c] = <<InitPacket, frag>> /\ first'[c] = FirstTwo(<<InitPacket, frag>>)
      BY <1>1, <1>8, <2>1, <2>2, <2>3
    <2> DEFINE t == <<InitPacket, frag>>
    <2>5. Len(t) = 2 /\ t[1] = InitPacket /\ t[2] = frag /\ t \in Seq(WsPacket)
      BY <2>2
    <2> HIDE DEF t
    <2>6. FirstTwo(t) \in Seq(WsPacket) /\ Len(FirstTwo(t)) = 2 /\ \A i \in 1 .. 2 : FirstTwo(t)[i] = t[i]
      BY <2>5, FirstTwoFacts
    <2>7. QED
      BY <2>4, <2>5, <2>6, HubAssumption DEF t
  <1>9. \A c \in Clients \ Served(frag) : wsSend'[c] = wsSend[c] /\ first'[c] = first[c]
    BY <1>1
  <1>10. gop' \in Seq(Frag) /\ Len(gop') <= GopMaxFrags /\ GopDecodable'
    <2>1. /\ gop' \in Seq(Frag) /\ Len(gop') <= GopMaxFrags
          /\ gop' # <<>> =>
                /\ gop'[1].key
                /\ \A k \in DOMAIN gop' : k > 1 => ~gop'[k].key
                /\ \A k \in DOMAIN gop' : gop'[k].n = n + 1 - Len(gop') + k
      <3>1. WsTypeOK /\ GopDecodable
        BY DEF WsIInv
      <3>2. QED
        BY <1>1, <1>3, <3>1, NextGopFacts
    <2>2. QED
      <3>1. gop' # <<>> =>
                /\ gop'[1].key
                /\ \A k \in DOMAIN gop' : k > 1 => ~gop'[k].key
                /\ \A k \in DOMAIN gop' : gop'[k].n = n' - Len(gop') + k
        <4>1. n' = n + 1
          BY <1>1
        <4>2. ASSUME gop' # <<>>, NEW k \in DOMAIN gop'
              PROVE  gop'[k].n = n' - Len(gop') + k /\ (k > 1 => ~gop'[k].key)
          <5>1. gop'[k].n = n + 1 - Len(gop') + k
            BY <2>1, <4>2, Zenon
          <5>2. k > 1 => ~gop'[k].key
            BY <2>1, <4>2, Zenon
          <5>3. n' = n + 1 /\ n \in Nat /\ Len(gop') \in Nat /\ k \in Nat
            BY <1>2, <2>1, <4>1, LenProperties
          <5>4. QED
            BY <5>1, <5>2, <5>3
        <4>3. gop' # <<>> => gop'[1].key
          BY <2>1
        <4>4. QED
          BY <4>2, <4>3
      <3>2. QED
        BY <2>1, <3>1, Zenon DEF GopDecodable
  <1>11. WsTypeOK'
    <2>1. /\ wsSend' \in [Clients -> Seq(WsPacket)] /\ first' \in [Clients -> Seq(WsPacket)]
          /\ \A c \in Clients : Len(wsSend'[c]) <= SendBuf
      <3>1. \A c \in Clients : wsSend'[c] \in Seq(WsPacket) /\ Len(wsSend'[c]) <= SendBuf /\ first'[c] \in Seq(WsPacket)
        BY <1>6, <1>7, <1>8, <1>9
      <3>2. QED
        BY <1>1, <3>1
    <2>2. feed' \in FeedStates /\ n' \in 0 .. MaxFrags
      BY <1>1, <1>2, HubAssumption DEF FeedStates
    <2>3. started' \subseteq Clients /\ gapped' \subseteq Clients /\ crossed' \subseteq Clients
      BY <1>1, <1>4 DEF WsIInv, WsTypeOK
    <2>4. QED
      BY <1>1, <1>10, <2>1, <2>2, <2>3 DEF WsIInv, WsTypeOK
  <1>13. StartedWithKey'
    <2> SUFFICES ASSUME NEW c \in Clients
                 PROVE  IF c \in started'
                        THEN /\ Len(first'[c]) = 2 /\ first'[c][1].kind = "init"
                             /\ first'[c][2].kind = "frag" /\ first'[c][2].key
                        ELSE first'[c] = <<>> /\ wsSend'[c] = <<>>
      BY DEF StartedWithKey
    <2>1. CASE c \in Served(frag) /\ c \in started
      BY <1>1, <1>7, <2>1 DEF WsIInv, StartedWithKey
    <2>2. CASE c \in Served(frag) /\ c \notin started
      BY <1>1, <1>3, <1>4, <1>8, <2>2
    <2>3. CASE c \notin Served(frag)
      BY <1>1, <1>9, <2>3 DEF WsIInv, StartedWithKey
    <2>4. QED
      BY <2>1, <2>2, <2>3
  <1>14. ClientsApart'
    BY <1>1, <1>4 DEF WsIInv, ClientsApart
  <1>g. frag.gen = gen /\ InitPacket.gen = initSeg
    BY DEF frag, NextFrag, InitPacket
  <1>h. NextGop(frag) # <<>> =>
           /\ NextGop(frag)[1].gen <= gen
           /\ NextGop(frag)[1].gen = gen => \A k \in DOMAIN NextGop(frag) : NextGop(frag)[k].gen = gen
    <2>1. CASE frag.key
      <3>1. NextGop(frag) = <<frag>>
        BY <2>1 DEF NextGop
      <3>2. QED
        BY <1>2, <1>g, <3>1
    <2>2. CASE ~frag.key /\ (gop = <<>> \/ Len(gop) >= GopMaxFrags)
      BY <2>2 DEF NextGop
    <2>3. CASE ~frag.key /\ gop # <<>> /\ ~(Len(gop) >= GopMaxFrags)
      <3>1. NextGop(frag) = Append(gop, frag)
        BY <2>3 DEF NextGop
      <3>2. gop \in Seq(Frag) /\ Len(gop) \in Nat /\ Len(gop) > 0 /\ DOMAIN gop = 1 .. Len(gop)
        BY <2>3, LenProperties, EmptySeq DEF WsIInv, WsTypeOK
      <3> DEFINE g == Append(gop, frag)
      <3>3. /\ DOMAIN g = 1 .. Len(gop) + 1
            /\ g[Len(gop) + 1] = frag /\ \A k \in 1 .. Len(gop) : g[k] = gop[k]
        <4>1. g \in Seq(Frag) /\ Len(g) = Len(gop) + 1
              /\ g[Len(gop) + 1] = frag /\ \A k \in 1 .. Len(gop) : g[k] = gop[k]
          BY <1>3, <3>2, AppendProperties
        <4>2. QED
          BY <4>1, LenProperties
      <3> HIDE DEF g
      <3>4. g[1] = gop[1] /\ gop[1].gen <= gen
        BY <2>3, <3>2, <3>3 DEF WsIInv, InitPublished
      <3>5. ASSUME g[1].gen = gen, NEW k \in 1 .. Len(gop) + 1 PROVE g[k].gen = gen
        <4>1. CASE k \in 1 .. Len(gop)
          BY <2>3, <3>2, <3>3, <3>4, <3>5, <4>1 DEF WsIInv, InitOfItsMuxer
        <4>2. CASE k = Len(gop) + 1
          BY <1>g, <3>3, <4>2
        <4>3. QED
          BY <3>2, <4>1, <4>2
      <3>6. QED
        BY <3>1, <3>3, <3>4, <3>5 DEF g
    <2>4. QED
      BY <2>1, <2>2, <2>3
  <1>i. InitOfItsMuxer'
    <2>1. ASSUME NEW c \in Clients, c \notin crossed, Len(first'[c]) >= 2
          PROVE  first'[c][1].gen = first'[c][2].gen
      <3>1. CASE c \in Served(frag) /\ c \in started
        <4>1. Len(first[c]) = 2
          BY <3>1 DEF WsIInv, StartedWithKey
        <4>2. first[c][1].gen = first[c][2].gen
          BY <2>1, <4>1 DEF WsIInv, InitOfItsMuxer
        <4>3. QED
          BY <1>7, <3>1, <4>2
      <3>2. CASE c \in Served(frag) /\ c \notin started
        BY <1>2, <1>8, <1>g, <3>2
      <3>3. CASE c \notin Served(frag)
        BY <1>9, <2>1, <3>3 DEF WsIInv, InitOfItsMuxer
      <3>4. QED
        BY <3>1, <3>2, <3>3
    <2>2. QED
      BY <1>1, <1>2, <1>h, <2>1 DEF InitOfItsMuxer
  <1>15. NoGap'
    <2> SUFFICES ASSUME NEW c \in clients, c \notin gapped' PROVE Contiguous(wsSend[c])'
      BY <1>1 DEF NoGap
    <2>0. c \in Clients /\ c \notin gapped
      BY <1>1 DEF WsIInv, WsTypeOK
    <2>1. CASE c \in Served(frag) /\ c \in started
      <3>1. wsSend'[c] = Append(wsSend[c], frag)
        BY <1>1, <1>7, <2>0, <2>1
      <3>2. wsSend[c] \in Seq(WsPacket) /\ DOMAIN wsSend[c] = 1 .. Len(wsSend[c]) /\ Contiguous(wsSend[c])
        BY <1>6, <2>0, LenProperties DEF WsIInv, NoGap
      <3>3. DOMAIN wsSend'[c] = 1 .. Len(wsSend'[c])
        BY <1>7, <2>0, <2>1, LenProperties
      <3>4. RunsTo(wsSend[c], n)
        BY <3>2 DEF Contiguous, RunsTo
      <3>5. n \in Nat /\ frag \in Frag /\ frag.n = n + 1
        BY <1>2, <1>3
      <3>6. RunsTo(wsSend'[c], n + 1)
        BY <3>1, <3>2, <3>4, <3>5, ContiguousAppend
      <3>7. QED
        BY <1>1, <3>3, <3>6 DEF Contiguous, RunsTo
    <2>2. CASE c \in Served(frag) /\ c \notin started
      <3> DEFINE t == <<InitPacket, frag>>
      <3>1. Len(t) = 2 /\ t[1] = InitPacket /\ t[2] = frag /\ DOMAIN t = 1 .. 2
        OBVIOUS
      <3>2. wsSend'[c] = t /\ InitPacket.kind = "init" /\ frag.n = n' /\ n' \in Nat
        BY <1>1, <1>2, <1>3, <1>4, <1>8, <2>0, <2>2
      <3> HIDE DEF t
      <3>3. t[1].kind # "frag" /\ t[2].kind = "frag" /\ t[2].n = n'
        BY <1>3, <3>1, <3>2
      <3>4. \A i \in DOMAIN t :
               /\ i < Len(t) /\ t[i].kind = "frag" => t[i + 1].kind = "frag" /\ t[i + 1].n = t[i].n + 1
               /\ i = Len(t) => t[i].kind = "frag" /\ t[i].n = n'
        BY <3>1, <3>3
      <3>5. QED
        BY <3>2, <3>4 DEF Contiguous
    <2>3. CASE c \notin Served(frag)
      <3>1. c \notin started
        <4> SUFFICES ASSUME c \in started PROVE FALSE
          OBVIOUS
        <4>1. Len(Preamble(c)) = 0
          BY DEF Preamble
        <4>2. InitFits(c)
          BY <1>6, <2>0, <4>1, HubAssumption DEF InitFits
        <4>3. QED
          BY <2>3, <4>2 DEF Served, Waits
      <3>2. wsSend'[c] = <<>>
        BY <1>9, <2>0, <2>3, <3>1 DEF WsIInv, StartedWithKey
      <3>3. QED
        BY <3>2 DEF Contiguous
    <2>4. QED
      BY <2>1, <2>2, <2>3
  <1>12. InitPublished'
    BY <1>1, <1>2, <1>h DEF InitPublished
  <1>16. QED
    BY <1>10, <1>11, <1>12, <1>13, <1>14, <1>15, <1>i DEF WsIInv

-----------------------------------------------------------------------------
(* Every step of the feed and of the clients preserves the invariant. *)
LEMMA NextWsIInv == WsIInv /\ [WsNext]_wsVars => WsIInv'
  <1> SUFFICES ASSUME WsIInv, [WsNext]_wsVars PROVE WsIInv'
    OBVIOUS
  <1>t. /\ wsSend \in [Clients -> Seq(WsPacket)] /\ first \in [Clients -> Seq(WsPacket)]
        /\ \A c \in Clients : Len(wsSend[c]) \in Nat /\ Len(wsSend[c]) <= SendBuf
        /\ clients \subseteq Clients /\ n \in Nat /\ gop \in Seq(Frag) /\ Len(gop) \in Nat
    BY HubAssumption, LenProperties DEF WsIInv, WsTypeOK
  <1>1. ASSUME NEW key \in BOOLEAN, WriteAU(key) PROVE WsIInv'
    <2>1. /\ feed.pc = "read" /\ n < MaxFrags
          /\ \/ feed' = [pc |-> "broadcast", key |-> key] /\ muxInit /\ muxInit' = muxInit
             \/ feed' = [pc |-> "setInit", key |-> key] /\ ~muxInit /\ muxInit' = TRUE
          /\ UNCHANGED <<gen, n, initSeg, gop, clients, started, wsSend, wsClosed, first, gapped, crossed>>
      BY <1>1 DEF WriteAU
    <2>2. feed' \in FeedStates /\ feed'.pc \in {"setInit", "broadcast"} /\ muxInit' \in BOOLEAN
      <3>1. muxInit \in BOOLEAN
        BY DEF WsIInv, WsTypeOK
      <3>2. CASE muxInit
        BY <2>1, <3>1, <3>2 DEF FeedStates
      <3>3. CASE ~muxInit
        <4>1. feed' = [pc |-> "setInit", key |-> key] /\ muxInit' = TRUE
          BY <2>1, <3>3
        <4>2. feed' \in FeedStates /\ feed'.pc \in {"setInit", "broadcast"}
          BY <4>1 DEF FeedStates
        <4>3. muxInit' \in BOOLEAN
          BY <4>1
        <4>4. QED
          BY <4>2, <4>3
      <3>4. QED
        BY <3>2, <3>3
    <2>3. WsTypeOK'
      BY <2>1, <2>2 DEF WsIInv, WsTypeOK
    <2>4. InitPublished'
      BY <2>1, <2>2 DEF WsIInv, InitPublished
    <2>5. QED
      BY <2>1, <2>3, <2>4 DEF WsIInv, StartedWithKey, ClientsApart, GopDecodable, InitOfItsMuxer, NoGap, Contiguous
  <1>2. CASE SetInit
    <2>1. /\ feed.pc = "setInit" /\ initSeg' = gen
          /\ feed' \in {[feed EXCEPT !.pc = "broadcast"], [pc |-> "read"]}
          /\ UNCHANGED <<gen, muxInit, n, gop, clients, started, wsSend, wsClosed, first, gapped, crossed>>
      BY <1>2 DEF SetInit
    <2>2. gen \in 1 .. MaxGen /\ MaxGen \in Nat /\ feed \in [pc : {"setInit", "broadcast"}, key : BOOLEAN]
      BY <2>1, HubAssumption DEF WsIInv, WsTypeOK, FeedStates
    <2>3. feed' \in FeedStates /\ initSeg' \in 0 .. MaxGen /\ initSeg' # 0
      BY <2>1, <2>2 DEF FeedStates
    <2>4. WsTypeOK'
      BY <2>1, <2>3 DEF WsIInv, WsTypeOK
    <2>5. InitPublished'
      BY <2>1, <2>3 DEF WsIInv, InitPublished
    <2>6. QED
      BY <2>1, <2>4, <2>5 DEF WsIInv, StartedWithKey, ClientsApart, GopDecodable, InitOfItsMuxer, NoGap, Contiguous
  <1>3. CASE RestartMuxer
    <2>1. /\ feed.pc = "read" /\ gen < MaxGen /\ gen' = gen + 1 /\ muxInit' = FALSE
          /\ UNCHANGED <<feed, n, initSeg, gop, clients, started, wsSend, wsClosed, first, gapped, crossed>>
      BY <1>3 DEF RestartMuxer
    <2>2. gen' \in 1 .. MaxGen
      <3>1. gen \in 1 .. MaxGen /\ MaxGen \in Nat
        BY HubAssumption DEF WsIInv, WsTypeOK
      <3>2. QED
        BY <2>1, <3>1
    <2>3. WsTypeOK'
      BY <2>1, <2>2 DEF WsIInv, WsTypeOK
    <2>4. gop # <<>> => gop'[1].gen <= gen' /\ gop'[1].gen # gen'
      <3>1. ASSUME gop # <<>> PROVE gop[1].gen \in Nat /\ gop[1].gen <= gen /\ gen \in Nat
        <4>1. gop[1] \in Frag
          BY <1>t, <3>1, ElementOfSeq, EmptySeq
        <4>2. gop[1].gen \in 1 .. MaxGen
          BY <4>1 DEF Frag
        <4>3. QED
          BY <3>1, <4>2, HubAssumption DEF WsIInv, WsTypeOK, InitPublished
      <3>2. QED
        BY <2>1, <3>1
    <2>5. InitPublished'
      BY <2>1, <2>4 DEF WsIInv, InitPublished
    <2>6. InitOfItsMuxer'
      BY <2>1, <2>4 DEF WsIInv, InitOfItsMuxer
    <2>7. QED
      BY <2>1, <2>3, <2>5, <2>6 DEF WsIInv, StartedWithKey, ClientsApart, GopDecodable, NoGap, Contiguous
  <1>4. CASE Broadcast
    BY <1>4, BroadcastWsIInv
  <1>5. ASSUME NEW c \in Clients, AddClient(c) PROVE WsIInv'
    <2>1. /\ c \notin clients /\ c \notin wsClosed /\ clients' = clients \cup {c}
          /\ UNCHANGED <<gen, muxInit, feed, n, initSeg, gop, wsClosed, gapped>>
      BY <1>5 DEF AddClient
    <2>2. CASE ~CanSeed
      <3>1. UNCHANGED <<wsSend, first, started, crossed>>
        BY <1>5, <2>2 DEF AddClient
      <3>2. WsTypeOK'
        BY <2>1, <3>1 DEF WsIInv, WsTypeOK
      <3>3. wsSend[c] = <<>>
        BY <2>1 DEF WsIInv, ClientsApart, StartedWithKey
      <3>4. NoGap'
        <4> SUFFICES ASSUME NEW d \in clients', d \notin gapped PROVE Contiguous(wsSend[d])'
          BY <2>1 DEF NoGap
        <4>1. CASE d = c
          BY <3>1, <3>3, <4>1 DEF Contiguous
        <4>2. CASE d # c
          BY <2>1, <3>1, <4>2 DEF WsIInv, NoGap, Contiguous
        <4>3. QED
          BY <4>1, <4>2
      <3>5. QED
        BY <2>1, <3>1, <3>2, <3>4 DEF WsIInv, InitPublished, StartedWithKey, ClientsApart, GopDecodable, InitOfItsMuxer
    <2>3. CASE CanSeed
      <3>1. /\ wsSend' = [wsSend EXCEPT ![c] = Seed]
            /\ first' = [first EXCEPT ![c] = FirstTwo(Seed)]
            /\ started' = started \cup {c}
            /\ crossed' = crossed \cup {d \in {c} : gop[1].gen # gen}
        BY <1>5, <2>3 DEF AddClient
      <3>2. /\ InitPacket \in WsPacket /\ InitPacket.kind = "init"
            /\ gop \in Seq(WsPacket) /\ Len(gop) > 0 /\ 1 + Len(gop) <= SendBuf
            /\ DOMAIN gop = 1 .. Len(gop) /\ \A i \in 1 .. Len(gop) : gop[i] \in Frag
        <4>1. InitPacket \in WsPacket /\ InitPacket.kind = "init"
          BY <2>3, HubAssumption DEF CanSeed, WsIInv, WsTypeOK, InitPacket, WsPacket, InitSegment
        <4>2. gop \in Seq(WsPacket)
          BY <1>t, SeqMonotonic DEF WsPacket
        <4>3. DOMAIN gop = 1 .. Len(gop) /\ \A i \in 1 .. Len(gop) : gop[i] \in Frag
          BY <1>t, LenProperties, ElementOfSeq
        <4>4. QED
          BY <2>3, <4>1, <4>2, <4>3 DEF CanSeed
      <3>3. /\ gop[1].key /\ \A k \in 1 .. Len(gop) : gop[k].n = n - Len(gop) + k
        <4>1. gop # <<>>
          BY <3>2
        <4>2. gop[1].key /\ \A k \in DOMAIN gop : gop[k].n = n - Len(gop) + k
          BY <4>1, Zenon DEF WsIInv, GopDecodable
        <4>3. QED
          BY <3>2, <4>2
      <3>4. /\ Seed \in Seq(WsPacket) /\ Len(Seed) = 1 + Len(gop)
            /\ Seed[1] = InitPacket /\ \A i \in 1 .. Len(gop) : Seed[i + 1] = gop[i]
        <4>1. <<InitPacket>> \in Seq(WsPacket) /\ Len(<<InitPacket>>) = 1 /\ <<InitPacket>>[1] = InitPacket
          BY <3>2
        <4>2. /\ Seed \in Seq(WsPacket) /\ Len(Seed) = Len(<<InitPacket>>) + Len(gop)
              /\ \A i \in 1 .. Len(<<InitPacket>>) + Len(gop) :
                    Seed[i] = IF i <= Len(<<InitPacket>>) THEN <<InitPacket>>[i] ELSE gop[i - Len(<<InitPacket>>)]
          BY <3>2, <4>1, ConcatProperties DEF Seed
        <4>3. \A i \in 1 .. 1 + Len(gop) :
                    Seed[i] = IF i <= 1 THEN <<InitPacket>>[i] ELSE gop[i - 1]
          BY <4>1, <4>2
        <4>4. Len(gop) \in Nat /\ Len(Seed) = 1 + Len(gop)
          BY <1>t, <4>1, <4>2
        <4>5. Seed[1] = InitPacket
          <5>1. 1 \in 1 .. 1 + Len(gop)
            BY <4>4
          <5>2. QED
            BY <4>1, <4>3, <5>1
        <4>6. ASSUME NEW i \in 1 .. Len(gop)
              PROVE  Seed[i + 1] = gop[i]
          <5>1. i + 1 \in 1 .. 1 + Len(gop) /\ ~ (i + 1 <= 1) /\ (i + 1) - 1 = i
            BY <4>4
          <5>2. QED
            BY <4>3, <5>1
        <4>7. QED
          BY <4>2, <4>4, <4>5, <4>6
      <3>5. /\ FirstTwo(Seed) \in Seq(WsPacket) /\ Len(FirstTwo(Seed)) = 2
            /\ FirstTwo(Seed)[1] = InitPacket /\ FirstTwo(Seed)[2] = gop[1]
        <4>1. Len(Seed) \in Nat /\ Len(Seed) >= 2
          BY <1>t, <3>2, <3>4
        <4>2. FirstTwo(Seed) \in Seq(WsPacket) /\ Len(FirstTwo(Seed)) = 2 /\ \A i \in 1 .. 2 : FirstTwo(Seed)[i] = Seed[i]
          BY <3>4, <4>1, FirstTwoFacts
        <4>3. Seed[2] = gop[1]
          BY <1>t, <3>2, <3>4
        <4>4. QED
          BY <3>4, <4>2, <4>3
      <3>6. /\ wsSend'[c] = Seed /\ first'[c] = FirstTwo(Seed)
            /\ \A d \in Clients \ {c} : wsSend'[d] = wsSend[d] /\ first'[d] = first[d]
        BY <1>t, <3>1
      <3>7. WsTypeOK'
        <4>1. wsSend' \in [Clients -> Seq(WsPacket)] /\ first' \in [Clients -> Seq(WsPacket)]
          BY <1>t, <3>1, <3>4, <3>5
        <4>2. \A d \in Clients : Len(wsSend'[d]) <= SendBuf
          BY <1>t, <3>2, <3>4, <3>6
        <4>3. QED
          BY <2>1, <3>1, <4>1, <4>2 DEF WsIInv, WsTypeOK
      <3>8. StartedWithKey'
        <4> SUFFICES ASSUME NEW d \in Clients
                     PROVE  IF d \in started'
                            THEN /\ Len(first'[d]) = 2 /\ first'[d][1].kind = "init"
                                 /\ first'[d][2].kind = "frag" /\ first'[d][2].key
                            ELSE first'[d] = <<>> /\ wsSend'[d] = <<>>
          BY DEF StartedWithKey
        <4>1. CASE d = c
          <5>1. gop[1].kind = "frag"
            <6>1. Len(gop) \in Nat /\ 1 \in 1 .. Len(gop)
              BY <1>t, <3>2, LenProperties
            <6>2. gop[1] \in Frag
              BY <3>2, <6>1
            <6>3. QED
              BY <6>2 DEF Frag
          <5>2. QED
            BY <3>1, <3>2, <3>3, <3>5, <3>6, <4>1, <5>1
        <4>2. CASE d # c
          BY <3>1, <3>6, <4>2 DEF WsIInv, StartedWithKey
        <4>3. QED
          BY <4>1, <4>2
      <3>9. NoGap'
        <4> SUFFICES ASSUME NEW d \in clients', d \notin gapped PROVE Contiguous(wsSend[d])'
          BY <2>1 DEF NoGap
        <4>1. CASE d = c
          <5>1. DOMAIN Seed = 1 .. Len(Seed)
            BY <3>4, LenProperties
          <5>2. ASSUME NEW i \in 1 .. Len(Seed)
                PROVE  /\ i < Len(Seed) /\ Seed[i].kind = "frag"
                             => Seed[i + 1].kind = "frag" /\ Seed[i + 1].n = Seed[i].n + 1
                       /\ i = Len(Seed) => Seed[i].kind = "frag" /\ Seed[i].n = n
            <6>1. CASE i = 1
              BY <1>t, <3>2, <3>4, <6>1
            <6>2. CASE i > 1
              <7>0. i \in Nat /\ i - 1 \in 1 .. Len(gop)
                BY <1>t, <3>4, <6>2
              <7>1. i - 1 \in 1 .. Len(gop) /\ Seed[i] = gop[i - 1]
                <8>1. Seed[(i - 1) + 1] = gop[i - 1]
                  BY <3>4, <7>0
                <8>2. (i - 1) + 1 = i
                  BY <7>0
                <8>3. QED
                  BY <7>0, <8>1, <8>2
              <7>2. gop[i - 1].kind = "frag" /\ gop[i - 1].n = n - Len(gop) + (i - 1)
                BY <3>2, <3>3, <7>1 DEF Frag
              <7>3. i < Len(Seed) =>
                       Seed[i + 1] = gop[i] /\ gop[i].kind = "frag" /\ gop[i].n = n - Len(gop) + i
                <8>1. i < Len(Seed) => i \in 1 .. Len(gop)
                  BY <1>t, <3>4, <7>0, <6>2
                <8>2. i \in 1 .. Len(gop) => gop[i] \in Frag /\ Seed[i + 1] = gop[i] /\ gop[i].n = n - Len(gop) + i
                  BY <3>2, <3>3, <3>4
                <8>3. QED
                  BY <8>1, <8>2 DEF Frag
              <7>4. i < Len(Seed) => Seed[i + 1].kind = "frag" /\ Seed[i + 1].n = Seed[i].n + 1
                <8>1. n - Len(gop) + i = n - Len(gop) + (i - 1) + 1
                  BY <1>t, <7>0
                <8>2. QED
                  BY <7>1, <7>2, <7>3, <8>1
              <7>5. i = Len(Seed) => Seed[i].kind = "frag" /\ Seed[i].n = n
                BY <1>t, <3>4, <7>0, <7>1, <7>2
              <7>6. QED
                BY <7>4, <7>5
            <6>3. QED
              BY <1>t, <3>4, <6>1, <6>2
          <5>3. n' = n /\ wsSend'[d] = Seed
            BY <2>1, <3>6, <4>1
          <5>4. QED
            BY <5>1, <5>2, <5>3, Zenon DEF Contiguous
        <4>2. CASE d # c
          <5>1. d \in clients /\ d \in Clients
            BY <1>t, <2>1, <4>2
          <5>2. QED
            BY <2>1, <3>6, <4>2, <5>1 DEF WsIInv, NoGap, Contiguous
        <4>3. QED
          BY <4>1, <4>2
      <3>10. ClientsApart'
        BY <2>1, <3>1 DEF WsIInv, ClientsApart
      <3>11. InitOfItsMuxer'
        <4>1. ASSUME NEW d \in Clients, d \notin crossed', Len(first'[d]) >= 2
              PROVE  first'[d][1].gen = first'[d][2].gen
          <5>1. CASE d = c
            <6>1. gop[1].gen = gen /\ gop # <<>>
              BY <3>1, <3>2, <4>1, <5>1
            <6>2. initSeg = gen
              BY <6>1 DEF WsIInv, InitOfItsMuxer
            <6>3. InitPacket.gen = initSeg
              BY DEF InitPacket
            <6>4. QED
              BY <3>5, <3>6, <5>1, <6>1, <6>2, <6>3
          <5>2. CASE d # c
            BY <3>1, <3>6, <4>1, <5>2 DEF WsIInv, InitOfItsMuxer
          <5>3. QED
            BY <5>1, <5>2
        <4>2. QED
          BY <2>1, <4>1 DEF WsIInv, InitOfItsMuxer
      <3>12. QED
        BY <2>1, <3>7, <3>8, <3>9, <3>10, <3>11 DEF WsIInv, InitPublished, GopDecodable
    <2>4. QED
      BY <2>2, <2>3
  <1>6. ASSUME NEW c \in Clients, TakePacket(c) PROVE WsIInv'
    <2>1. /\ wsSend[c] # <<>> /\ wsSend' = [wsSend EXCEPT ![c] = Tail(wsSend[c])]
          /\ UNCHANGED <<gen, muxInit, feed, n, initSeg, gop, clients, started, wsClosed, first, gapped, crossed>>
      BY <1>6 DEF TakePacket
    <2>2. Tail(wsSend[c]) \in Seq(WsPacket) /\ Len(Tail(wsSend[c])) <= SendBuf
      <3>1. Tail(wsSend[c]) \in Seq(WsPacket) /\ Len(Tail(wsSend[c])) = Len(wsSend[c]) - 1
        BY <1>t, <2>1, HeadTailProperties
      <3>2. QED
        BY <1>t, <3>1, HubAssumption
    <2>3. /\ wsSend' \in [Clients -> Seq(WsPacket)] /\ wsSend'[c] = Tail(wsSend[c])
          /\ \A d \in Clients \ {c} : wsSend'[d] = wsSend[d]
      BY <1>t, <2>1, <2>2
    <2>4. WsTypeOK'
      BY <1>t, <2>1, <2>2, <2>3 DEF WsIInv, WsTypeOK
    <2>5. StartedWithKey'
      BY <2>1, <2>3 DEF WsIInv, StartedWithKey
    <2>6. NoGap'
      <3> SUFFICES ASSUME NEW d \in clients, d \notin gapped PROVE Contiguous(wsSend[d])'
        BY <2>1 DEF NoGap
      <3>1. d \in Clients /\ Contiguous(wsSend[d])
        BY <1>t DEF WsIInv, NoGap
      <3>2. CASE d = c
        <4>1. Contiguous(Tail(wsSend[c]))
          BY <1>t, <2>1, <3>1, <3>2, ContiguousTail
        <4>2. QED
          BY <2>1, <2>3, <3>2, <4>1 DEF Contiguous
      <3>3. CASE d # c
        BY <2>1, <2>3, <3>1, <3>3 DEF Contiguous
      <3>4. QED
        BY <3>2, <3>3
    <2>7. QED
      BY <2>1, <2>4, <2>5, <2>6 DEF WsIInv, InitPublished, ClientsApart, GopDecodable, InitOfItsMuxer
  <1>7. ASSUME NEW c \in Clients, RemoveClient(c) PROVE WsIInv'
    <2>1. /\ c \in clients /\ clients' = clients \ {c} /\ wsClosed' = wsClosed \cup {c}
          /\ UNCHANGED <<gen, muxInit, feed, n, initSeg, gop, started, wsSend, first, gapped, crossed>>
      BY <1>7 DEF RemoveClient
    <2>2. WsTypeOK'
      BY <2>1 DEF WsIInv, WsTypeOK
    <2>3. ClientsApart'
      BY <2>1 DEF WsIInv, ClientsApart
    <2>4. NoGap'
      BY <2>1 DEF WsIInv, NoGap, Contiguous
    <2>5. QED
      BY <2>1, <2>2, <2>3, <2>4 DEF WsIInv, InitPublished, StartedWithKey, GopDecodable, InitOfItsMuxer
  <1>8. ASSUME NEW c \in Clients, CollectClient(c) PROVE WsIInv'
    <2>1. /\ c \in wsClosed /\ wsClosed' = wsClosed \ {c} /\ started' = started \ {c}
          /\ wsSend' = [wsSend EXCEPT ![c] = <<>>] /\ first' = [first EXCEPT ![c] = <<>>]
          /\ gapped' = gapped \ {c} /\ crossed' = crossed \ {c}
          /\ UNCHANGED <<gen, muxInit, feed, n, initSeg, gop, clients>>
      BY <1>8 DEF CollectClient
    <2>2. /\ wsSend' \in [Clients -> Seq(WsPacket)] /\ first' \in [Clients -> Seq(WsPacket)]
          /\ wsSend'[c] = <<>> /\ first'[c] = <<>>
          /\ \A d \in Clients \ {c} : wsSend'[d] = wsSend[d] /\ first'[d] = first[d]
      BY <1>t, <2>1, EmptySeq
    <2>3. Len(<<>>) <= SendBuf
      BY HubAssumption
    <2>4. WsTypeOK'
      BY <1>t, <2>1, <2>2, <2>3 DEF WsIInv, WsTypeOK
    <2>5. StartedWithKey'
      BY <2>1, <2>2 DEF WsIInv, StartedWithKey
    <2>6. ClientsApart'
      BY <2>1 DEF WsIInv, ClientsApart
    <2>7. NoGap'
      <3> SUFFICES ASSUME NEW d \in clients, d \notin gapped' PROVE Contiguous(wsSend[d])'
        BY <2>1 DEF NoGap
      <3>1. d # c /\ d \in Clients /\ d \notin gapped
        BY <1>t, <2>1 DEF WsIInv, ClientsApart
      <3>2. QED
        BY <2>1, <2>2, <3>1 DEF WsIInv, NoGap, Contiguous
    <2>8. InitOfItsMuxer'
      <3>1. ASSUME NEW d \in Clients, d \notin crossed', Len(first'[d]) >= 2
            PROVE  first'[d][1].gen = first'[d][2].gen
        <4>1. d # c
          BY <2>2, <3>1
        <4>2. QED
          BY <2>1, <2>2, <3>1, <4>1 DEF WsIInv, InitOfItsMuxer
      <3>2. QED
        BY <2>1, <3>1 DEF WsIInv, InitOfItsMuxer
    <2>9. QED
      BY <2>1, <2>4, <2>5, <2>6, <2>7, <2>8 DEF WsIInv, InitPublished, GopDecodable
  <1>9. CASE UNCHANGED wsVars
    BY <1>9 DEF wsVars, WsIInv, WsTypeOK, InitPublished, StartedWithKey, ClientsApart, GopDecodable, InitOfItsMuxer, NoGap,
       Contiguous
  <1>10. QED
    BY <1>1, <1>2, <1>3, <1>4, <1>5, <1>6, <1>7, <1>8, <1>9 DEF WsNext

-----------------------------------------------------------------------------
(* However many clients come and go, whatever their channels drop and
   wherever the feed is restarted: what survWSHub keeps for newcomers is one
   GOP from its keyframe on, every client starts with an init segment and a
   keyframe, the two are of one muxer unless add seeded the client with the
   GOP of a muxer that was replaced, and a client whose channel was never
   full misses nothing. *)
THEOREM StreamIsPlayableHolds == WsSpec => []StreamIsPlayable
  <1>1. WsIInv => StreamIsPlayable
    <2> SUFFICES ASSUME WsIInv PROVE StreamIsPlayable
      OBVIOUS
    <2>1. InitThenKey
      <3> SUFFICES ASSUME NEW c \in Clients
                   PROVE  /\ Len(first[c]) >= 1 => first[c][1].kind = "init"
                          /\ Len(first[c]) >= 2 => first[c][2].kind = "frag" /\ first[c][2].key
        BY DEF InitThenKey
      <3>1. Len(<<>>) = 0
        OBVIOUS
      <3>2. QED
        BY <3>1 DEF WsIInv, StartedWithKey
    <2>2. QED
      BY <2>1 DEF WsIInv, StreamIsPlayable
  <1>2. QED
    BY InitWsIInv, NextWsIInv, <1>1, PTL DEF WsSpec
=============================================================================
