--------------------------- MODULE ViewerStreams ---------------------------
(***************************************************************************)
(* viewer/cctv_rtsp.go: the viewer's stream of one channel.  The frontend  *)
(* calls StartChannelStream, StopDVRStreams and StopAllStreams; a loop per *)
(* stream waits for its RTSP client to drop and connects a new one.  A     *)
(* stream is numbered by the call that makes it; an RTSP client (external) *)
(* is a name used again once it is closed.                                 *)
(***************************************************************************)
EXTENDS Integers, FiniteSets

CONSTANTS
    MaxStreams,   \* calls of StartChannelStream
    Clients,      \* RTSP clients
    MaxAttempts,  \* maxAttempts
    MaxDrops,     \* times a client drops
    MaxStops      \* calls of StopDVRStreams and StopAllStreams

ASSUME ViewerStreamsAssumption ==
    /\ MaxStreams \in Nat \ {0} /\ MaxAttempts \in Nat \ {0} /\ MaxDrops \in Nat /\ MaxStops \in Nat
    /\ "none" \notin Clients

VARIABLES
    vsMapped,   \* m.streams[key]: the number of a stream, 0 for none
    vsCall,     \* StartChannelStream of each number: where it is, its client
    vsStream,   \* the streams: client, and whether ctx is cancelled
    vsLoop,     \* rtspReconnectLoop of each
    vsClient,   \* the clients: "unused", "up" or "dropped"
    vsDrops, vsStops,
    vsMet       \* a start or a stop met a start or a reconnect (history)

vsVars == <<vsMapped, vsCall, vsStream, vsLoop, vsClient, vsDrops, vsStops, vsMet>>

StreamNos == 1 .. MaxStreams
NoClient == "none"

VsTypeOK ==
    /\ vsMapped \in 0 .. MaxStreams
    /\ vsCall \in [StreamNos -> [pc : {"off", "connect", "setup", "insert", "done"},
                                 client : Clients \cup {NoClient}]]
    /\ vsStream \in [StreamNos -> [client : Clients \cup {NoClient}, cancelled : BOOLEAN]]
    /\ vsLoop \in [StreamNos -> [pc : {"off", "wait", "attempt", "setup", "ended"},
                                 client : Clients \cup {NoClient}, attempt : 1 .. MaxAttempts]]
    /\ vsClient \in [Clients -> {"unused", "up", "dropped"}]
    /\ vsDrops \in 0 .. MaxDrops /\ vsStops \in 0 .. MaxStops
    /\ vsMet \in BOOLEAN

VsInit ==
    /\ vsMapped = 0
    /\ vsCall = [n \in StreamNos |-> [pc |-> "off", client |-> NoClient]]
    /\ vsStream = [n \in StreamNos |-> [client |-> NoClient, cancelled |-> FALSE]]
    /\ vsLoop = [n \in StreamNos |-> [pc |-> "off", client |-> NoClient, attempt |-> 1]]
    /\ vsClient = [c \in Clients |-> "unused"]
    /\ vsDrops = 0 /\ vsStops = 0 /\ vsMet = FALSE

Starting == {n \in StreamNos : vsCall[n].pc \in {"connect", "setup", "insert"}}
Reconnecting(n) == n # 0 /\ vsLoop[n].pc \in {"attempt", "setup"}

(* connectH264: the sub stream, then the main one; every client it opened  *)
(* and does not return it has closed.                                      *)
ConnectH264(c) ==
    /\ vsClient[c] = "unused"
    /\ c = CHOOSE x \in Clients : vsClient[x] = "unused"
    /\ vsClient' = [vsClient EXCEPT ![c] = "up"]

Close(cs) == [c \in Clients |-> IF c \in cs THEN "unused" ELSE vsClient[c]]

(* channelStream.stop, of the stream in the map, and its removal.          *)
StopMapped ==
    LET n == vsMapped
    IN  /\ vsMapped' = 0
        /\ vsMet' = (vsMet \/ Starting # {} \/ Reconnecting(n))
        /\ IF n = 0 THEN UNCHANGED <<vsStream, vsClient>>
           ELSE /\ vsStream' = [vsStream EXCEPT ![n] = [client |-> NoClient, cancelled |-> TRUE]]
                /\ vsClient' = Close({vsStream[n].client})

-----------------------------------------------------------------------------
(* StartChannelStream: the old stream is stopped and taken out.            *)
StartChannelStream(n) ==
    /\ vsCall[n].pc = "off" /\ \A m \in 1 .. n - 1 : vsCall[m].pc # "off"
    /\ vsCall' = [vsCall EXCEPT ![n].pc = "connect"]
    /\ StopMapped
    /\ UNCHANGED <<vsLoop, vsDrops, vsStops>>

(* The recorder is reached, or not.                                        *)
StartConnects(n) ==
    /\ vsCall[n].pc = "connect"
    /\ \/ \E c \in Clients : ConnectH264(c) /\ vsCall' = [vsCall EXCEPT ![n] = [pc |-> "setup", client |-> c]]
       \/ vsCall' = [vsCall EXCEPT ![n].pc = "done"] /\ UNCHANGED vsClient
    /\ UNCHANGED <<vsMapped, vsStream, vsLoop, vsDrops, vsStops, vsMet>>

(* Mutant: the client stays open. *)
StartFails_Open(n) ==
    /\ vsCall[n].pc = "setup"
    /\ vsCall' = [vsCall EXCEPT ![n] = [pc |-> "done", client |-> NoClient]]
    /\ UNCHANGED <<vsClient, vsMapped, vsStream, vsLoop, vsDrops, vsStops, vsMet>>

(* Setup, the WebRTC side or Play fails: everything is closed.             *)
StartFails(n) ==
    /\ vsCall[n].pc = "setup"
    /\ vsClient' = Close({vsCall[n].client})
    /\ vsCall' = [vsCall EXCEPT ![n] = [pc |-> "done", client |-> NoClient]]
    /\ UNCHANGED <<vsMapped, vsStream, vsLoop, vsDrops, vsStops, vsMet>>

(* It plays, and its loop starts before it is in the map.                  *)
StartPlays(n) ==
    /\ vsCall[n].pc = "setup"
    /\ vsStream' = [vsStream EXCEPT ![n].client = vsCall[n].client]
    /\ vsCall' = [vsCall EXCEPT ![n] = [pc |-> "insert", client |-> NoClient]]
    /\ vsLoop' = [vsLoop EXCEPT ![n].pc = "wait"]
    /\ UNCHANGED <<vsMapped, vsClient, vsDrops, vsStops, vsMet>>

StartInserts(n) ==
    /\ vsCall[n].pc = "insert"
    /\ vsMapped' = n
    /\ vsCall' = [vsCall EXCEPT ![n].pc = "done"]
    /\ UNCHANGED <<vsStream, vsLoop, vsClient, vsDrops, vsStops, vsMet>>

(* StopDVRStreams, StopAllStreams.                                         *)
StopStreams ==
    /\ vsStops < MaxStops /\ vsStops' = vsStops + 1
    /\ StopMapped
    /\ UNCHANGED <<vsCall, vsLoop, vsDrops>>

(* The PeerConnection fails, and its callback cancels.                     *)
PeerFails(n) ==
    /\ vsLoop[n].pc \notin {"off", "ended"} /\ ~ vsStream[n].cancelled
    /\ vsDrops < MaxDrops /\ vsDrops' = vsDrops + 1
    /\ vsStream' = [vsStream EXCEPT ![n].cancelled = TRUE]
    /\ UNCHANGED <<vsMapped, vsCall, vsLoop, vsClient, vsStops, vsMet>>

(* The recorder or the network ends the RTSP session.                      *)
ClientDrops(c) ==
    /\ vsClient[c] = "up"
    /\ vsDrops < MaxDrops /\ vsDrops' = vsDrops + 1
    /\ vsClient' = [vsClient EXCEPT ![c] = "dropped"]
    /\ UNCHANGED <<vsMapped, vsCall, vsStream, vsLoop, vsStops, vsMet>>

-----------------------------------------------------------------------------
(* rtspReconnectLoop.                                                      *)
LoopTo(n, pc, c, a) == vsLoop' = [vsLoop EXCEPT ![n] = [pc |-> pc, client |-> c, attempt |-> a]]

(* client.Wait returns: it dropped, or stop closed it.                     *)
LoopWoken(n) ==
    LET s == vsStream[n]
        ends == s.client = NoClient \/ (s.client # NoClient /\ s.cancelled)
    IN  /\ vsLoop[n].pc = "wait"
        /\ s.client # NoClient => vsClient[s.client] = "dropped"
        /\ LoopTo(n, IF ends THEN "ended" ELSE "attempt", NoClient, 1)
        /\ vsStream' = [vsStream EXCEPT ![n].cancelled = @ \/ s.client = NoClient]
        /\ UNCHANGED <<vsMapped, vsCall, vsClient, vsDrops, vsStops, vsMet>>

(* Mutant: the loop ends without a word after its last attempt. *)
LoopNext_Silent(n) ==
    IF vsLoop[n].attempt < MaxAttempts
    THEN LoopTo(n, "attempt", NoClient, vsLoop[n].attempt + 1) /\ UNCHANGED vsStream
    ELSE LoopTo(n, "ended", NoClient, 1) /\ UNCHANGED vsStream

(* Mutant: one attempt too many. *)
LoopNext_OneMore(n) ==
    IF vsLoop[n].attempt <= MaxAttempts
    THEN LoopTo(n, "attempt", NoClient, vsLoop[n].attempt + 1) /\ UNCHANGED vsStream
    ELSE LoopTo(n, "ended", NoClient, 1) /\ vsStream' = [vsStream EXCEPT ![n].cancelled = TRUE]

(* After a failed attempt: the next one, or the stream is given up.        *)
LoopNext(n) ==
    IF vsLoop[n].attempt < MaxAttempts
    THEN LoopTo(n, "attempt", NoClient, vsLoop[n].attempt + 1) /\ UNCHANGED vsStream
    ELSE LoopTo(n, "ended", NoClient, 1) /\ vsStream' = [vsStream EXCEPT ![n].cancelled = TRUE]

(* The select: cancelled, or two seconds are over and it connects.         *)
LoopConnects(n) ==
    /\ vsLoop[n].pc = "attempt"
    /\ \/ /\ vsStream[n].cancelled
          /\ LoopTo(n, "ended", NoClient, 1)
          /\ UNCHANGED <<vsStream, vsClient>>
       \/ /\ \E c \in Clients : ConnectH264(c) /\ LoopTo(n, "setup", c, vsLoop[n].attempt)
          /\ UNCHANGED vsStream
       \/ LoopNext(n) /\ UNCHANGED vsClient
    /\ UNCHANGED <<vsMapped, vsCall, vsDrops, vsStops, vsMet>>

(* Setup or Play fails, or the new client takes the place of the old one,  *)
(* whether the stream was stopped meanwhile or not.                        *)
LoopFails(n) ==
    /\ vsLoop[n].pc = "setup"
    /\ vsClient' = Close({vsLoop[n].client})
    /\ LoopNext(n)
    /\ UNCHANGED <<vsMapped, vsCall, vsDrops, vsStops, vsMet>>

LoopReplaces(n) ==
    /\ vsLoop[n].pc = "setup"
    /\ vsClient' = Close({vsStream[n].client})
    /\ vsStream' = [vsStream EXCEPT ![n].client = vsLoop[n].client]
    /\ LoopTo(n, "wait", NoClient, 1)
    /\ UNCHANGED <<vsMapped, vsCall, vsDrops, vsStops, vsMet>>

VsStep(n) ==
    \/ StartConnects(n) \/ StartFails(n) \/ StartPlays(n) \/ StartInserts(n)
    \/ LoopWoken(n) \/ LoopConnects(n) \/ LoopFails(n) \/ LoopReplaces(n)

VsNext ==
    \/ StopStreams
    \/ \E c \in Clients : ClientDrops(c)
    \/ \E n \in StreamNos : StartChannelStream(n) \/ PeerFails(n) \/ VsStep(n)

VsSpec == VsInit /\ [][VsNext]_vsVars

(* Calls and loops go on; every network call has a time limit.             *)
VsFairness == \A n \in StreamNos : WF_vsVars(VsStep(n))

-----------------------------------------------------------------------------
(* Every RTSP session that is open belongs to the stream in the map, to    *)
(* one whose loop still has it, or to a call that is under way, whatever   *)
(* failed half way, unless a start or a stop met another start or a        *)
(* reconnect: then a session may be left that nobody will close            *)
(* (cctv_rtsp.go:174 and 243).                                             *)
NoSessionLost ==
    vsMet \/ \A c \in Clients :
        vsClient[c] # "unused" =>
            \/ vsMapped # 0 /\ vsStream[vsMapped].client = c
            \/ \E n \in StreamNos :
                  \/ vsCall[n].client = c \/ vsLoop[n].client = c
                  \/ vsCall[n].pc = "insert" /\ vsStream[n].client = c

Session(n) == IF vsStream[n].client = NoClient THEN "unused" ELSE vsClient[vsStream[n].client]

(* The stream in the map does not stay with a dead session: it plays       *)
(* again, or is given up or replaced (rtspReconnectLoop).                  *)
DroppedIsHandled ==
    \A n \in StreamNos :
        (vsMapped = n /\ Session(n) = "dropped")
            ~> (vsMapped # n \/ vsStream[n].cancelled \/ Session(n) = "up")
=============================================================================
