----------------------------- MODULE SurvMosaic -----------------------------
(***************************************************************************)
(* relay/surv_mosaic.go: one live wall, the composite of a session's       *)
(* channels that ffmpeg encodes while somebody watches it.                 *)
(*                                                                         *)
(* The wall lives in two maps of SurvProxy, both under sp.mu: sp.streams   *)
(* (its streamEntry, where ServeWS finds the hub to join) and sp.mosaics   *)
(* (what it is composed of).  EnsureMosaic is called by viewers that       *)
(* connect, by the operator's layout requests and by HandleSurvConfig; it  *)
(* looks at the running channels first and builds later, under another     *)
(* hold of sp.mu.  One reaper goroutine per entry stops an idle wall.      *)
(***************************************************************************)
EXTENDS Naturals, FiniteSets

CONSTANTS
    Channels,
    Viewers,     \* WebSocket connections to the wall
    Operator,    \* the goroutine of a /surv/wallorder request
    Configurer,  \* the HandleSurvConfig that holds configMu
    Orders,      \* tile orders that can be posted
    Qualities,   \* column counts, widths and frame rates that can be posted
    MaxWalls,    \* wall entries that may be built
    MaxPosts,    \* layout requests
    MaxConfigs,  \* configurations
    Grace        \* idle ticks after which the reaper stops the wall

ASSUME MosaicAssumption ==
    /\ MaxWalls \in Nat /\ MaxPosts \in Nat /\ MaxConfigs \in Nat
    /\ Grace \in Nat \ {0}
    /\ Operator \notin Viewers /\ Configurer \notin Viewers /\ Operator # Configurer

VARIABLES
    active,      \* channels with a running stream
    order,       \* wallOrders of this wall
    quality,     \* its columns, width and frame rate
    wall,        \* sp.streams[wallID]: number of the entry, 0 if none
    mosaic,      \* sp.mosaics[wallID]
    built,       \* entries built so far
    cancelled,   \* entries whose encoder was cancelled
    watching,    \* the entry whose hub each viewer has joined, 0 if none
    proc,        \* goroutines inside EnsureMosaic or on their way to or from it
    reaper,      \* reapMosaicWhenIdle of each entry
    posts, applies

moVars == <<active, order, quality, wall, mosaic, built, cancelled, watching, proc, reaper, posts, applies>>

Procs == Viewers \cup {Operator, Configurer}
Walls == 1 .. MaxWalls

(* mosaicSig: which channels, in which order. *)
Sigs == [ids : SUBSET Channels, order : Orders]
NoMosaic == [entry |-> 0]
Mosaics == {NoMosaic} \cup [entry : Walls, sig : Sigs, quality : Qualities]

(* Where a goroutine is: about to call EnsureMosaic, or between its look at
   the channels and its lock, with what it saw; a viewer then joins, a
   configuration first stops the streams it does not name. *)
ProcStates == [pc : {"idle", "ensure", "join", "stopWall", "walls"}] \cup [pc : {"build"}, sig : Sigs]
ReaperStates == [pc : {"none", "tick", "stop", "ended"}, idle : 0 .. Grace]
AtPC(label) == [pc |-> label]

MoTypeOK ==
    /\ active \subseteq Channels
    /\ order \in Orders /\ quality \in Qualities
    /\ wall \in 0 .. MaxWalls
    /\ mosaic \in Mosaics
    /\ built \in 0 .. MaxWalls
    /\ cancelled \subseteq Walls
    /\ watching \in [Viewers -> 0 .. MaxWalls]
    /\ proc \in [Procs -> ProcStates]
    /\ reaper \in [Walls -> ReaperStates]
    /\ posts \in 0 .. MaxPosts /\ applies \in 0 .. MaxConfigs

MoInit ==
    /\ active = Channels
    /\ order \in Orders /\ quality \in Qualities
    /\ wall = 0 /\ mosaic = NoMosaic /\ built = 0 /\ cancelled = {}
    /\ watching = [v \in Viewers |-> 0]
    /\ proc = [p \in Procs |-> AtPC("idle")]
    /\ reaper = [w \in Walls |-> [pc |-> "none", idle |-> 0]]
    /\ posts = 0 /\ applies = 0

Goto(p, label) == proc' = [proc EXCEPT ![p] = AtPC(label)]

(* stopEntryLocked and the mosaic's own cancel, of the entries in S. *)
Cancel(S) == cancelled' = cancelled \cup (S \ {0})

-----------------------------------------------------------------------------
(* ServeSurvWS of a wall, ServeWallOrder and HandleSurvConfig begin. *)
ViewerConnects(v) ==
    /\ proc[v].pc = "idle" /\ watching[v] = 0
    /\ Goto(v, "ensure")
    /\ UNCHANGED <<active, order, quality, wall, mosaic, built, cancelled, watching, reaper, posts, applies>>

PostLayout ==
    /\ proc[Operator].pc = "idle"
    /\ posts < MaxPosts
    /\ posts' = posts + 1
    /\ \/ order' \in Orders /\ UNCHANGED quality
       \/ quality' \in Qualities /\ UNCHANGED order
    /\ Goto(Operator, "ensure")
    /\ UNCHANGED <<active, wall, mosaic, built, cancelled, watching, reaper, applies>>

(* Its channels have been started; now it stops every stream it does not
   name.  The wall's id is no channel's, so the wall is among them. *)
ApplyConfig ==
    /\ proc[Configurer].pc = "idle"
    /\ applies < MaxConfigs
    /\ applies' = applies + 1
    /\ active' \in SUBSET Channels
    /\ Goto(Configurer, IF wall # 0 THEN "stopWall" ELSE "walls")
    /\ UNCHANGED <<order, quality, wall, mosaic, built, cancelled, watching, reaper, posts>>

ConfigStopsWall ==
    /\ proc[Configurer].pc = "stopWall"
    /\ Cancel({wall})
    /\ wall' = 0
    /\ Goto(Configurer, "walls")
    /\ UNCHANGED <<active, order, quality, mosaic, built, watching, reaper, posts, applies>>

(* runningWalls: EnsureMosaic is called for a wall in sp.mosaics only. *)
RunningWalls ==
    /\ proc[Configurer].pc = "walls"
    /\ Goto(Configurer, IF mosaic # NoMosaic THEN "ensure" ELSE "idle")
    /\ UNCHANGED <<active, order, quality, wall, mosaic, built, cancelled, watching, reaper, posts, applies>>

-----------------------------------------------------------------------------
(* Where a goroutine goes after EnsureMosaic. *)
Leave(p) == Goto(p, IF p \in Viewers THEN "join" ELSE "idle")

(* Mutant: the entry stays in sp.streams. *)
StopMosaic_KeepsEntry ==
    /\ Cancel({mosaic.entry, wall})
    /\ mosaic' = NoMosaic
    /\ UNCHANGED wall

(* stopMosaicID *)
StopMosaic ==
    /\ Cancel({mosaic.entry, wall})
    /\ mosaic' = NoMosaic
    /\ wall' = 0

(* EnsureMosaic up to its lock: StreamStats and wallChannelIDs.  With no
   channel to show, the wall is stopped. *)
EnsureLooks(p) ==
    /\ proc[p].pc = "ensure"
    /\ IF active = {}
       THEN StopMosaic /\ Leave(p)
       ELSE /\ proc' = [proc EXCEPT ![p] = [pc |-> "build", sig |-> [ids |-> active, order |-> order]]]
            /\ UNCHANGED <<wall, mosaic, cancelled>>
    /\ UNCHANGED <<active, order, quality, built, watching, reaper, posts, applies>>

UpToDate(sig) == mosaic # NoMosaic /\ mosaic.sig = sig

(* Mutant: a rebuild does not cancel the previous encoder. *)
EnsureBuilds_NoCancel(p) ==
    /\ proc[p].pc = "build"
    /\ \/ /\ UpToDate(proc[p].sig)
          /\ UNCHANGED <<wall, mosaic, built, reaper>>
       \/ /\ ~UpToDate(proc[p].sig)
          /\ built < MaxWalls
          /\ built' = built + 1
          /\ wall' = built + 1
          /\ mosaic' = [entry |-> built + 1, sig |-> proc[p].sig, quality |-> quality]
          /\ reaper' = [reaper EXCEPT ![built + 1].pc = "tick"]
    /\ Leave(p)
    /\ UNCHANGED <<active, order, quality, cancelled, watching, posts, applies>>

(* EnsureMosaic under its lock: nothing when the mosaic has this signature,
   otherwise drop what is there and build it, with the quality of now. *)
EnsureBuilds(p) ==
    /\ proc[p].pc = "build"
    /\ \/ /\ UpToDate(proc[p].sig)
          /\ UNCHANGED <<wall, mosaic, built, cancelled, reaper>>
       \/ /\ ~UpToDate(proc[p].sig)
          /\ built < MaxWalls
          /\ Cancel({mosaic.entry, wall})
          /\ built' = built + 1
          /\ wall' = built + 1
          /\ mosaic' = [entry |-> built + 1, sig |-> proc[p].sig, quality |-> quality]
          /\ reaper' = [reaper EXCEPT ![built + 1].pc = "tick"]
    /\ Leave(p)
    /\ UNCHANGED <<active, order, quality, watching, posts, applies>>

(* ServeWS: 404 without an entry, otherwise the viewer joins its hub. *)
ViewerJoins(v) ==
    /\ proc[v].pc = "join"
    /\ watching' = [watching EXCEPT ![v] = wall]
    /\ Goto(v, "idle")
    /\ UNCHANGED <<active, order, quality, wall, mosaic, built, cancelled, reaper, posts, applies>>

ViewerLeaves(v) ==
    /\ watching[v] # 0
    /\ watching' = [watching EXCEPT ![v] = 0]
    /\ UNCHANGED <<active, order, quality, wall, mosaic, built, cancelled, proc, reaper, posts, applies>>

-----------------------------------------------------------------------------
(* The number of watchers of an entry's hub, ClientCount. *)
Watched(w) == \E v \in Viewers : watching[v] = w

(* Mutant: the grace period is one tick longer. *)
ReaperTick_OffByOne(w) ==
    /\ reaper[w].pc = "tick"
    /\ reaper' = [reaper EXCEPT ![w] =
          IF wall # w THEN [pc |-> "ended", idle |-> 0]
          ELSE IF Watched(w) THEN [pc |-> "tick", idle |-> 0]
          ELSE IF @.idle <= Grace THEN [pc |-> "tick", idle |-> @.idle + 1]
          ELSE [pc |-> "stop", idle |-> 0]]
    /\ UNCHANGED <<active, order, quality, wall, mosaic, built, cancelled, watching, proc, posts, applies>>

(* Mutant: the idle time starts over at every tick. *)
ReaperTick_Restarts(w) ==
    /\ reaper[w].pc = "tick"
    /\ reaper' = [reaper EXCEPT ![w] =
          IF wall # w THEN [pc |-> "ended", idle |-> 0] ELSE [pc |-> "tick", idle |-> 0]]
    /\ UNCHANGED <<active, order, quality, wall, mosaic, built, cancelled, watching, proc, posts, applies>>

(* A tick of the reaper: gone if it is not its entry that is in the map. *)
ReaperTick(w) ==
    /\ reaper[w].pc = "tick"
    /\ reaper' = [reaper EXCEPT ![w] =
          IF wall # w THEN [pc |-> "ended", idle |-> 0]
          ELSE IF Watched(w) THEN [pc |-> "tick", idle |-> 0]
          ELSE IF @.idle < Grace THEN [pc |-> "tick", idle |-> @.idle + 1]
          ELSE [pc |-> "stop", idle |-> 0]]
    /\ UNCHANGED <<active, order, quality, wall, mosaic, built, cancelled, watching, proc, posts, applies>>

(* ... and its stopMosaicID(self.id), by id and under a new lock. *)
ReaperStops(w) ==
    /\ reaper[w].pc = "stop"
    /\ StopMosaic
    /\ reaper' = [reaper EXCEPT ![w].pc = "ended"]
    /\ UNCHANGED <<active, order, quality, built, watching, proc, posts, applies>>

-----------------------------------------------------------------------------
(* What happens without anybody's doing. *)
RelayStep ==
    \/ ConfigStopsWall
    \/ RunningWalls
    \/ \E p \in Procs : EnsureLooks(p) \/ EnsureBuilds(p)
    \/ \E v \in Viewers : ViewerJoins(v)

MoNext ==
    \/ RelayStep
    \/ PostLayout
    \/ ApplyConfig
    \/ \E v \in Viewers : ViewerConnects(v) \/ ViewerLeaves(v)
    \/ \E w \in Walls : ReaperTick(w) \/ ReaperStops(w)

(* Goroutines run and tickers tick; viewers and operators owe nothing. *)
MoFairness ==
    /\ WF_moVars(RelayStep)
    /\ \A w \in Walls : WF_moVars(ReaperTick(w)) /\ WF_moVars(ReaperStops(w))

MoSpec == MoInit /\ [][MoNext]_moVars
MoFairSpec == MoSpec /\ MoFairness

-----------------------------------------------------------------------------
(* At most one encoder runs for the wall, and it is the one that viewers are
   sent to: whatever rebuilds, stops and reaps race, no entry is dropped
   from the map with its ffmpeg still running. *)
OneEncoder == \A w \in 1 .. built : w \notin cancelled => wall = w

(* sp.streams and sp.mosaics do not speak of different entries. *)
MapsAgree == wall # 0 => mosaic.entry = wall

(* A wall that nobody watches is stopped, so that the GPU is idle. *)
IdleIsReaped ==
    \A w \in Walls : (wall = w) ~> (wall # w \/ Watched(w))

(* EnsureMosaic "(re)builds the live wall to match its current channel set":
   when no goroutine is on its way to it, a wall in sp.mosaics has its
   stream. *)
WallHasStream ==
    (\A p \in Procs : proc[p].pc = "idle") /\ mosaic # NoMosaic => wall # 0

(* There is at most one encoder of a wall, it is the one of the wall map, and
   the stream map names the same one (surv_mosaic.go, EnsureMosaic). *)
EncoderIsListed == MoTypeOK /\ OneEncoder /\ MapsAgree
=============================================================================
