------------------------------ MODULE SurvWSHub ------------------------------
(***************************************************************************)
(* relay/surv_ws.go: the fan-out of one channel's fMP4 fragments to its    *)
(* WebSocket clients, with the cache of the current group of pictures that *)
(* lets a client start at once.                                            *)
(*                                                                         *)
(* The feeding goroutine (an RTSP reader, or the ffmpeg reader of          *)
(* surv_transcode.go) muxes access units into fragments: the init segment  *)
(* is built from the first parameter sets it meets, published with setInit *)
(* and then the fragment is broadcast, each under h.mu.  The ffmpeg reader *)
(* starts over with a fresh muxer when ffmpeg is restarted, keeping the    *)
(* hub; `gen' numbers the muxers.  Fragments are numbered by n.            *)
(***************************************************************************)
EXTENDS Naturals, Sequences, FiniteSets

CONSTANTS
    Clients,      \* survWSClient objects that may exist at the same time
    SendBuf,      \* survWSSendBuf
    GopMaxFrags,  \* gopMaxFrags
    MaxGen,       \* muxers the feed may go through
    MaxFrags      \* fragments the feed may broadcast

ASSUME HubAssumption ==
    /\ SendBuf \in Nat /\ SendBuf >= 2
    /\ GopMaxFrags \in Nat \ {0}
    /\ MaxGen \in Nat \ {0} /\ MaxFrags \in Nat

VARIABLES
    gen,       \* the muxer in use
    muxInit,   \* m.initSeg # nil
    feed,      \* what the feeding goroutine does next
    n,         \* fragments broadcast so far
    initSeg,   \* h.initSeg: generation of its muxer, 0 = nil
    gop,       \* h.gop
    clients,   \* h.clients
    started,   \* clients with c.started
    wsSend,    \* c.send
    wsClosed,  \* clients whose send channel is closed
    first,     \* the first two packets ever queued for a client (history)
    gapped,    \* clients that a fragment was dropped for (history)
    crossed    \* clients seeded with the GOP of an earlier muxer (history)

wsVars == <<gen, muxInit, feed, n, initSeg, gop, clients, started, wsSend, wsClosed, first, gapped, crossed>>

Frag == [kind : {"frag"}, gen : 1 .. MaxGen, n : 1 .. MaxFrags, key : BOOLEAN]
InitSegment == [kind : {"init"}, gen : 1 .. MaxGen]
WsPacket == Frag \cup InitSegment

FeedStates == [pc : {"read"}] \cup [pc : {"setInit", "broadcast"}, key : BOOLEAN]

WsTypeOK ==
    /\ gen \in 1 .. MaxGen
    /\ muxInit \in BOOLEAN
    /\ feed \in FeedStates
    /\ n \in 0 .. MaxFrags
    /\ initSeg \in 0 .. MaxGen
    /\ gop \in Seq(Frag) /\ Len(gop) <= GopMaxFrags
    /\ clients \subseteq Clients
    /\ started \subseteq Clients
    /\ wsSend \in [Clients -> Seq(WsPacket)]
    /\ \A c \in Clients : Len(wsSend[c]) <= SendBuf
    /\ wsClosed \subseteq Clients
    /\ first \in [Clients -> Seq(WsPacket)]
    /\ gapped \subseteq Clients
    /\ crossed \subseteq Clients

WsInit ==
    /\ gen = 1 /\ muxInit = FALSE
    /\ feed = [pc |-> "read"]
    /\ n = 0
    /\ initSeg = 0
    /\ gop = <<>>
    /\ clients = {} /\ started = {}
    /\ wsSend = [c \in Clients |-> <<>>]
    /\ wsClosed = {}
    /\ first = [c \in Clients |-> <<>>]
    /\ gapped = {} /\ crossed = {}

-----------------------------------------------------------------------------
(* writeAU on the next access unit: no fragment until the parameter sets
   were seen; the init segment is returned once, when it is built. *)
WriteAU(key) ==
    /\ feed.pc = "read"
    /\ n < MaxFrags
    /\ \/ /\ muxInit
          /\ feed' = [pc |-> "broadcast", key |-> key]
          /\ UNCHANGED muxInit
       \/ /\ ~muxInit
          /\ muxInit' = TRUE
          /\ feed' = [pc |-> "setInit", key |-> key]
    /\ UNCHANGED <<gen, n, initSeg, gop, clients, started, wsSend, wsClosed, first, gapped, crossed>>

(* Mutant: the init segment is published once for a hub. *)
SetInit_Once ==
    /\ feed.pc = "setInit"
    /\ initSeg' = IF initSeg = 0 THEN gen ELSE initSeg
    /\ feed' \in {[feed EXCEPT !.pc = "broadcast"], [pc |-> "read"]}
    /\ UNCHANGED <<gen, muxInit, n, gop, clients, started, wsSend, wsClosed, first, gapped, crossed>>

(* setInit; the fragment itself may have failed to marshal. *)
SetInit ==
    /\ feed.pc = "setInit"
    /\ initSeg' = gen
    /\ feed' \in {[feed EXCEPT !.pc = "broadcast"], [pc |-> "read"]}
    /\ UNCHANGED <<gen, muxInit, n, gop, clients, started, wsSend, wsClosed, first, gapped, crossed>>

(* ffmpeg is restarted: ingestAnnexB makes a new muxer for the same hub. *)
RestartMuxer ==
    /\ feed.pc = "read"
    /\ gen < MaxGen
    /\ gen' = gen + 1
    /\ muxInit' = FALSE
    /\ UNCHANGED <<feed, n, initSeg, gop, clients, started, wsSend, wsClosed, first, gapped, crossed>>

(* Mutant: the length is tested after the append. *)
NextGop_OffByOne(frag) ==
    IF frag.key THEN <<frag>>
    ELSE IF gop = <<>> \/ Len(gop) > GopMaxFrags THEN <<>>
    ELSE Append(gop, frag)

(* Mutant: a full cache keeps its tail instead of being disabled. *)
NextGop_Slides(frag) ==
    IF frag.key THEN <<frag>>
    ELSE IF gop = <<>> THEN <<>>
    ELSE IF Len(gop) >= GopMaxFrags THEN Append(Tail(gop), frag)
    ELSE Append(gop, frag)

(* The GOP cache after a fragment: a keyframe begins a new one, a GOP that
   outgrows the cache disables it until the next keyframe. *)
NextGop(frag) ==
    IF frag.key THEN <<frag>>
    ELSE IF gop = <<>> \/ Len(gop) >= GopMaxFrags THEN <<>>
    ELSE Append(gop, frag)

(* Mutant: a client is started by any fragment. *)
Waits_ForNothing(c, frag) == c \notin started /\ frag.n = 0

(* What a client is sent for a fragment: nothing before its first keyframe,
   at which it starts with the init segment. *)
Waits(c, frag) == c \notin started /\ ~frag.key
InitPacket == [kind |-> "init", gen |-> initSeg]
Preamble(c) == IF c \in started \/ initSeg = 0 THEN <<>> ELSE <<InitPacket>>

(* The non-blocking sends: the init segment must fit or the client stays
   unstarted; a fragment that does not fit after it is dropped. *)
InitFits(c) == Len(wsSend[c]) + Len(Preamble(c)) <= SendBuf
FragFits(c) == Len(wsSend[c]) + Len(Preamble(c)) < SendBuf
Served(frag) == {c \in clients : ~Waits(c, frag) /\ InitFits(c)}

Queued(c, frag) == IF FragFits(c) THEN Preamble(c) \o <<frag>> ELSE Preamble(c)

FirstTwo(s) == SubSeq(s, 1, IF Len(s) < 2 THEN Len(s) ELSE 2)

Broadcast ==
    /\ feed.pc = "broadcast"
    /\ LET frag == [kind |-> "frag", gen |-> gen, n |-> n + 1, key |-> feed.key]
       IN  /\ n' = n + 1
           /\ gop' = NextGop(frag)
           /\ started' = started \cup Served(frag)
           /\ wsSend' = [c \in Clients |->
                          IF c \in Served(frag) THEN wsSend[c] \o Queued(c, frag) ELSE wsSend[c]]
           /\ first' = [c \in Clients |->
                          IF c \in Served(frag) THEN FirstTwo(first[c] \o Queued(c, frag)) ELSE first[c]]
           /\ gapped' = gapped \cup {c \in Served(frag) : ~FragFits(c)}
    /\ feed' = [pc |-> "read"]
    /\ UNCHANGED <<gen, muxInit, initSeg, clients, wsClosed, crossed>>

-----------------------------------------------------------------------------
(* add: a new client, seeded with init and GOP if the whole burst fits. *)
CanSeed == initSeg # 0 /\ Len(gop) > 0 /\ 1 + Len(gop) <= SendBuf
Seed == <<InitPacket>> \o gop

(* Mutant: the seed is queued but the client is not marked as started. *)
AddClient_NotStarted(c) ==
    /\ c \notin clients /\ c \notin wsClosed
    /\ clients' = clients \cup {c}
    /\ IF CanSeed
       THEN /\ wsSend' = [wsSend EXCEPT ![c] = Seed]
            /\ first' = [first EXCEPT ![c] = FirstTwo(Seed)]
       ELSE UNCHANGED <<wsSend, first>>
    /\ UNCHANGED <<gen, muxInit, feed, n, initSeg, gop, started, wsClosed, gapped, crossed>>

AddClient(c) ==
    /\ c \notin clients /\ c \notin wsClosed
    /\ clients' = clients \cup {c}
    /\ IF CanSeed
       THEN /\ wsSend' = [wsSend EXCEPT ![c] = Seed]
            /\ first' = [first EXCEPT ![c] = FirstTwo(Seed)]
            /\ started' = started \cup {c}
            /\ crossed' = crossed \cup {d \in {c} : gop[1].gen # gen}
       ELSE UNCHANGED <<wsSend, first, started, crossed>>
    /\ UNCHANGED <<gen, muxInit, feed, n, initSeg, gop, wsClosed, gapped>>

(* The writer goroutine of ServeWS (or of the live grid) takes a packet. *)
TakePacket(c) ==
    /\ wsSend[c] # <<>>
    /\ wsSend' = [wsSend EXCEPT ![c] = Tail(@)]
    /\ UNCHANGED <<gen, muxInit, feed, n, initSeg, gop, clients, started, wsClosed, first, gapped, crossed>>

(* remove: the deferred call of ServeWS, or an unsubscription. *)
RemoveClient(c) ==
    /\ c \in clients
    /\ clients' = clients \ {c}
    /\ wsClosed' = wsClosed \cup {c}
    /\ UNCHANGED <<gen, muxInit, feed, n, initSeg, gop, started, wsSend, first, gapped, crossed>>

(* The removed client object is garbage: its slot is a new object. *)
CollectClient(c) ==
    /\ c \in wsClosed
    /\ wsClosed' = wsClosed \ {c}
    /\ started' = started \ {c}
    /\ wsSend' = [wsSend EXCEPT ![c] = <<>>]
    /\ first' = [first EXCEPT ![c] = <<>>]
    /\ gapped' = gapped \ {c}
    /\ crossed' = crossed \ {c}
    /\ UNCHANGED <<gen, muxInit, feed, n, initSeg, gop, clients>>

WsNext ==
    \/ \E key \in BOOLEAN : WriteAU(key)
    \/ SetInit
    \/ RestartMuxer
    \/ Broadcast
    \/ \E c \in Clients : AddClient(c) \/ TakePacket(c) \/ RemoveClient(c) \/ CollectClient(c)

WsSpec == WsInit /\ [][WsNext]_wsVars

-----------------------------------------------------------------------------
(* The GOP cache, when not disabled, is what a decoder needs to show the
   current picture: a keyframe, every fragment since, none skipped, up to
   the last one broadcast. *)
GopDecodable ==
    gop # <<>> =>
        /\ gop[1].key
        /\ \A k \in DOMAIN gop : k > 1 => ~gop[k].key
        /\ \A k \in DOMAIN gop : gop[k].n = n - Len(gop) + k

(* A client always gets the init segment first and a keyframe next, whether
   add seeded it or broadcast started it, and in spite of full channels:
   the comments of broadcast and of the live grid ("init/keyframe FIFO"). *)
InitThenKey ==
    \A c \in Clients :
        /\ Len(first[c]) >= 1 => first[c][1].kind = "init"
        /\ Len(first[c]) >= 2 => first[c][2].kind = "frag" /\ first[c][2].key

(* That init segment is the one of the muxer the keyframe came from: always
   for a client that broadcast starts, and for one that add seeds unless the
   feed went on to another muxer after the keyframe of the GOP.  A GOP that
   the muxer in use began is its own, and so is the init segment beside it. *)
InitOfItsMuxer ==
    /\ gop # <<>> /\ gop[1].gen = gen =>
          initSeg = gen /\ \A k \in DOMAIN gop : gop[k].gen = gen
    /\ \A c \in Clients \ crossed :
          Len(first[c]) >= 2 => first[c][1].gen = first[c][2].gen

(* A seeded client continues exactly where the seed ended: unless its
   channel was full, what is queued for a client has no fragment missing or
   repeated, and ends with the last fragment broadcast. *)
Contiguous(s) ==
    \A k \in DOMAIN s :
        /\ k < Len(s) /\ s[k].kind = "frag" => s[k + 1].kind = "frag" /\ s[k + 1].n = s[k].n + 1
        /\ k = Len(s) => s[k].kind = "frag" /\ s[k].n = n

NoGap == \A c \in clients \ gapped : Contiguous(wsSend[c])

(* Any client of survWSHub can play what it gets from one muxer: the GOP kept
   for newcomers is decodable, a client starts with an init segment and a
   keyframe that belong together, seeds across a restart of ffmpeg excepted,
   and a client that lost nothing to a full buffer has no gap (surv_ws.go). *)
StreamIsPlayable == WsTypeOK /\ GopDecodable /\ InitThenKey /\ InitOfItsMuxer /\ NoGap

(* The comment of broadcast, "MSE always gets init then a decodable
   keyframe", of every client: false for one that add seeds after the new
   muxer published its init segment and before its first keyframe. *)
KeyFitsInit ==
    \A c \in Clients : Len(first[c]) >= 2 => first[c][1].gen = first[c][2].gen
=============================================================================
