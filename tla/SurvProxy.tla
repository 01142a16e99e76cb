------------------------------ MODULE SurvProxy ------------------------------
(***************************************************************************)
(* relay/surv_proxy.go: the RTSP streams a session runs for the channels of *)
(* the surveillance configuration its agent sends.                         *)
(*                                                                         *)
(* Each configuration is applied by a goroutine of its own                 *)
(* (HandleSurvConfig), one at a time under configMu; it starts what is     *)
(* missing, one worker per DVR, and stops what is no longer wanted.  Each  *)
(* RTSP stream has a goroutine that waits for the connection to end and    *)
(* starts the stream again (monitorAndReconnect).  StartChannel drops the  *)
(* old entry under sp.mu, dials without any lock, and puts the new entry   *)
(* into the map under sp.mu again.                                         *)
(*                                                                         *)
(* The wall composites that HandleSurvConfig also looks after are in       *)
(* SurvMosaic.                                                             *)
(***************************************************************************)
EXTENDS Naturals, Sequences, FiniteSets

CONSTANTS
    Channels,
    Dvr,         \* the DVR of each channel
    Transcoded,  \* channels for which transcodeEnabledFor holds
    MaxEntries,  \* streamEntry objects that may be created
    MaxConfigs,  \* configurations the agent may send
    MaxDrops,    \* connections that may break
    MaxRetries   \* reconnectMaxRetries

ASSUME ProxyAssumption ==
    /\ Dvr \in [Channels -> Nat] /\ Transcoded \subseteq Channels
    /\ MaxEntries \in Nat /\ MaxConfigs \in Nat /\ MaxDrops \in Nat
    /\ MaxRetries \in Nat \ {0}

VARIABLES
    configs,   \* configurations received, oldest first
    waiting,   \* those whose goroutine has not got configMu yet
    cur,       \* the HandleSurvConfig that holds configMu
    applied,   \* the configuration last applied, 0 if none
    dialing,   \* streams a worker of cur is inside StartChannel for
    failed,    \* streams whose last start failed (history)
    streams,   \* sp.streams: the entry of each stream id, 0 if none
    entry,     \* streamEntry objects
    monitor,   \* monitorAndReconnect of each entry
    drops,     \* connections broken so far
    stopped    \* StopAll was called

vars == <<configs, waiting, cur, applied, dialing, failed, streams, entry, monitor, drops, stopped>>

(* The live (sub) stream of a channel and its "@main" recording stream. *)
Base(c) == <<c, "base">>
Main(c) == <<c, "main">>
StreamIDs == Channels \X {"base", "main"}

(* An enabled channel is viewed, or viewed and recorded in high resolution. *)
Config == [Channels -> {"off", "live", "hd"}]

(* desiredStreamIDs, and those of them fed by transcoding the main stream. *)
DesiredStreamIDs(cfg) ==
    {Base(c) : c \in {d \in Channels : cfg[d] # "off"}} \cup
    {Main(c) : c \in {d \in Channels : cfg[d] = "hd"}}
TranscodeLive(cfg) == {Base(c) : c \in {d \in Transcoded : cfg[d] = "hd"}}

Versions == 1 .. MaxConfigs
Entries == 1 .. MaxEntries

Idle == [pc |-> "idle", ver |-> 0, start |-> {}, transcode |-> {}, stop |-> {}]
Applying == [pc : {"idle", "start", "stop"}, ver : 0 .. MaxConfigs,
             start : SUBSET StreamIDs, transcode : SUBSET StreamIDs, stop : SUBSET StreamIDs]

(* entry[e].stopped tells who stopped it: nobody, the reconnecting goroutine
   of the entry itself (through StartChannel), or somebody else. *)
FreeEntry == [kind |-> "free", id |-> <<>>, stopped |-> "no", up |-> FALSE]
EntryStates == {FreeEntry} \cup
    [kind : {"rtsp", "encode"}, id : StreamIDs, stopped : {"no", "self", "other"}, up : BOOLEAN]
MonitorStates == [pc : {"none", "wait", "delay", "call", "dial", "gone", "gaveUp"},
                  tries : 0 .. MaxRetries]

TypeOK ==
    /\ configs \in Seq(Config) /\ Len(configs) <= MaxConfigs
    /\ waiting \subseteq Versions
    /\ cur \in Applying
    /\ applied \in 0 .. MaxConfigs
    /\ dialing \subseteq StreamIDs /\ failed \subseteq StreamIDs
    /\ streams \in [StreamIDs -> 0 .. MaxEntries]
    /\ entry \in [Entries -> EntryStates]
    /\ monitor \in [Entries -> MonitorStates]
    /\ drops \in 0 .. MaxDrops
    /\ stopped \in BOOLEAN

Init ==
    /\ configs = <<>> /\ waiting = {} /\ cur = Idle /\ applied = 0
    /\ dialing = {} /\ failed = {}
    /\ streams = [i \in StreamIDs |-> 0]
    /\ entry = [e \in Entries |-> FreeEntry]
    /\ monitor = [e \in Entries |-> [pc |-> "none", tries |-> 0]]
    /\ drops = 0
    /\ stopped = FALSE

-----------------------------------------------------------------------------
(* stopEntryLocked of the entry in the map under id, if any, by `who'. *)
StoppedBy(id, who) ==
    IF streams[id] = 0 THEN entry ELSE [entry EXCEPT ![streams[id]].stopped = who]

(* A new entry takes the place of id in the map; what is there is not
   looked at. *)
Unused == {e \in Entries : entry[e].kind = "free"}
Insert(id, kind, entries) ==
    /\ Unused # {}
    /\ LET e == CHOOSE x \in Unused : \A y \in Unused : x <= y
       IN  /\ entry' = [entries EXCEPT ![e] =
                           [kind |-> kind, id |-> id, stopped |-> "no", up |-> TRUE]]
           /\ streams' = [streams EXCEPT ![id] = e]

(* Where the monitor of the entry that Insert makes starts. *)
Watched(mon) ==
    [mon EXCEPT ![CHOOSE x \in Unused : \A y \in Unused : x <= y].pc = "wait"]

(* Mutant: the entry is stopped but stays in the map. *)
RemoveEntry_KeepsEntry(id, who) ==
    /\ entry' = StoppedBy(id, who)
    /\ UNCHANGED streams

(* Mutant: the entry leaves the map but is not stopped. *)
RemoveEntry_NoStop(id, who) ==
    /\ streams' = [streams EXCEPT ![id] = 0]
    /\ UNCHANGED entry

(* The entry of id is stopped and leaves the map: StopChannel, and the first
   critical section of StartChannel. *)
RemoveEntry(id, who) ==
    /\ entry' = StoppedBy(id, who)
    /\ streams' = [streams EXCEPT ![id] = 0]

-----------------------------------------------------------------------------
(* The publisher's read loop: go sess.survProxy.HandleSurvConfig(...). *)
ReceiveConfig(cfg) ==
    /\ Len(configs) < MaxConfigs
    /\ ~stopped
    /\ configs' = Append(configs, cfg)
    /\ waiting' = waiting \cup {Len(configs) + 1}
    /\ UNCHANGED <<cur, applied, dialing, failed, streams, entry, monitor, drops, stopped>>

(* A goroutine gets configMu and finds out which streams are missing.  (The
   code looks up one id at a time; what happens to one id between its lookup
   and another's commutes with the other lookup.) *)
BeginConfig(v) ==
    /\ cur.pc = "idle"
    /\ v \in waiting
    /\ waiting' = waiting \ {v}
    /\ LET missing == {i \in DesiredStreamIDs(configs[v]) : streams[i] = 0}
       IN  cur' = [pc |-> "start", ver |-> v, stop |-> {},
                   start |-> missing \ TranscodeLive(configs[v]),
                   transcode |-> missing \cap TranscodeLive(configs[v])]
    /\ UNCHANGED <<configs, applied, dialing, failed, streams, entry, monitor, drops, stopped>>

(* A DVR's worker enters StartChannel for its next stream. *)
BeginStart(id) ==
    /\ cur.pc = "start"
    /\ id \in cur.start
    /\ \A d \in dialing : Dvr[d[1]] # Dvr[id[1]]
    /\ cur' = [cur EXCEPT !.start = @ \ {id}]
    /\ dialing' = dialing \cup {id}
    /\ RemoveEntry(id, "other")
    /\ UNCHANGED <<configs, waiting, applied, failed, monitor, drops, stopped>>

(* StartChannel returns an error, or has the connection playing. *)
EndStart(id) ==
    /\ id \in dialing
    /\ dialing' = dialing \ {id}
    /\ \/ /\ failed' = failed \cup {id}
          /\ UNCHANGED <<streams, entry, monitor>>
       \/ /\ failed' = failed \ {id}
          /\ Insert(id, "rtsp", entry)
          /\ monitor' = Watched(monitor)
    /\ UNCHANGED <<configs, waiting, cur, applied, drops, stopped>>

(* wg.Wait, then StartTranscodeChannel for each queued channel. *)
StartTranscodeChannel(id) ==
    /\ cur.pc = "start" /\ cur.start = {} /\ dialing = {}
    /\ id \in cur.transcode
    /\ cur' = [cur EXCEPT !.transcode = @ \ {id}]
    /\ Insert(id, "encode", StoppedBy(id, "other"))
    /\ failed' = failed \ {id}
    /\ UNCHANGED <<configs, waiting, applied, dialing, monitor, drops, stopped>>

(* Mutant: the main stream of a wanted channel counts as wanted. *)
CollectStops_ByChannel ==
    /\ cur.pc = "start" /\ cur.start = {} /\ dialing = {} /\ cur.transcode = {}
    /\ cur' = [cur EXCEPT !.pc = "stop",
                          !.stop = {i \in StreamIDs : streams[i] # 0 /\ configs[cur.ver][i[1]] = "off"}]
    /\ UNCHANGED <<configs, waiting, applied, dialing, failed, streams, entry, monitor, drops, stopped>>

(* The streams that are running and no longer wanted, ... *)
CollectStops ==
    /\ cur.pc = "start" /\ cur.start = {} /\ dialing = {} /\ cur.transcode = {}
    /\ cur' = [cur EXCEPT !.pc = "stop",
                          !.stop = {i \in StreamIDs : streams[i] # 0}
                                       \ DesiredStreamIDs(configs[cur.ver])]
    /\ UNCHANGED <<configs, waiting, applied, dialing, failed, streams, entry, monitor, drops, stopped>>

(* ... stopped one at a time, ... *)
StopChannel(id) ==
    /\ cur.pc = "stop"
    /\ id \in cur.stop
    /\ cur' = [cur EXCEPT !.stop = @ \ {id}]
    /\ RemoveEntry(id, "other")
    /\ UNCHANGED <<configs, waiting, applied, dialing, failed, monitor, drops, stopped>>

(* Mutant: the version is counted one too far. *)
EndConfig_OffByOne ==
    /\ cur.pc = "stop" /\ cur.stop = {}
    /\ applied' = cur.ver + 1
    /\ cur' = Idle
    /\ UNCHANGED <<configs, waiting, dialing, failed, streams, entry, monitor, drops, stopped>>

(* ... and configMu released (after the walls, see SurvMosaic). *)
EndConfig ==
    /\ cur.pc = "stop" /\ cur.stop = {}
    /\ applied' = cur.ver
    /\ cur' = Idle
    /\ UNCHANGED <<configs, waiting, dialing, failed, streams, entry, monitor, drops, stopped>>

(* StopAll, called when the relay shuts down. *)
StopAll ==
    /\ ~stopped
    /\ stopped' = TRUE
    /\ entry' = [e \in Entries |-> IF \E i \in StreamIDs : streams[i] = e
                                   THEN [entry[e] EXCEPT !.stopped = "other"] ELSE entry[e]]
    /\ streams' = [i \in StreamIDs |-> 0]
    /\ UNCHANGED <<configs, waiting, cur, applied, dialing, failed, monitor, drops>>

-----------------------------------------------------------------------------
(* The connection of an entry ends: it breaks, or the context goroutine
   closes it because the entry was stopped. *)
ConnectionEnds(e) ==
    /\ entry[e].up /\ entry[e].kind = "rtsp"
    /\ \/ entry[e].stopped = "no" /\ drops < MaxDrops /\ drops' = drops + 1
       \/ entry[e].stopped # "no" /\ UNCHANGED drops
    /\ entry' = [entry EXCEPT ![e].up = FALSE]
    /\ UNCHANGED <<configs, waiting, cur, applied, dialing, failed, streams, monitor, stopped>>

MonitorGoto(e, label) == monitor' = [monitor EXCEPT ![e].pc = label]

(* client.Wait returns: no reconnect for a stopped entry. *)
MonitorWakes(e) ==
    /\ monitor[e].pc = "wait"
    /\ ~entry[e].up
    /\ MonitorGoto(e, IF entry[e].stopped = "no" THEN "delay" ELSE "gone")
    /\ UNCHANGED <<configs, waiting, cur, applied, dialing, failed, streams, entry, drops, stopped>>

(* The delay passes, or the context is cancelled; then e.stopped is read. *)
MonitorRetries(e) ==
    /\ monitor[e].pc = "delay"
    /\ IF entry[e].stopped = "no"
       THEN monitor' = [monitor EXCEPT ![e] = [pc |-> "call", tries |-> @.tries + 1]]
       ELSE MonitorGoto(e, IF entry[e].stopped = "self" THEN "gaveUp" ELSE "gone")
    /\ UNCHANGED <<configs, waiting, cur, applied, dialing, failed, streams, entry, drops, stopped>>

(* StartChannel of the entry's own id: it may well be the entry itself that
   is found in the map and stopped. *)
MonitorCalls(e) ==
    /\ monitor[e].pc = "call"
    /\ LET id == entry[e].id
       IN  RemoveEntry(id, IF streams[id] = e THEN "self" ELSE "other")
    /\ MonitorGoto(e, "dial")
    /\ UNCHANGED <<configs, waiting, cur, applied, dialing, failed, drops, stopped>>

(* It succeeds, fails for good (not found on the DVR) or is to be retried. *)
MonitorReturns(e) ==
    /\ monitor[e].pc = "dial"
    /\ LET id == entry[e].id
       IN  \/ /\ Insert(id, "rtsp", entry)
              /\ monitor' = [Watched(monitor) EXCEPT ![e].pc = "gone"]
              /\ failed' = failed \ {id}
           \/ /\ MonitorGoto(e, "gone")
              /\ failed' = failed \cup {id}
              /\ UNCHANGED <<entry, streams>>
           \/ /\ MonitorGoto(e, IF monitor[e].tries < MaxRetries THEN "delay" ELSE "gaveUp")
              /\ failed' = failed \cup {id}
              /\ UNCHANGED <<entry, streams>>
    /\ UNCHANGED <<configs, waiting, cur, applied, dialing, drops, stopped>>

-----------------------------------------------------------------------------
Next ==
    \/ \E cfg \in Config : ReceiveConfig(cfg)
    \/ \E v \in Versions : BeginConfig(v)
    \/ \E id \in StreamIDs :
          BeginStart(id) \/ EndStart(id) \/ StartTranscodeChannel(id) \/ StopChannel(id)
    \/ CollectStops
    \/ EndConfig
    \/ StopAll
    \/ \E e \in Entries :
          \/ ConnectionEnds(e) \/ MonitorWakes(e) \/ MonitorRetries(e)
          \/ MonitorCalls(e) \/ MonitorReturns(e)

Spec == Init /\ [][Next]_vars

-----------------------------------------------------------------------------
(* What the map holds is alive: an entry that was stopped, by anyone and on
   whichever path, can no longer be found (ServeHLS and ServeWS would hand
   out a closed muxer and a silent hub). *)
MappedIsAlive ==
    \A i \in StreamIDs : streams[i] # 0 =>
        entry[streams[i]].stopped = "no" /\ entry[streams[i]].id = i

(* Every entry that was not stopped is in the map, where the next
   configuration or StopAll can find it: no RTSP connection is left running
   that nothing can stop.  configMu sees to it as long as no connection has
   broken: only configurations start streams then. *)
NoOrphan ==
    drops = 0 => \A e \in Entries :
        entry[e].kind # "free" /\ entry[e].stopped = "no" => streams[entry[e].id] = e

(* Between configurations the running streams are those of the one applied
   last, except those that could not be started ("starts/stops channels
   accordingly"), as long as no connection has broken. *)
StreamsMatchConfig ==
    cur.pc = "idle" /\ applied # 0 /\ ~stopped /\ drops = 0 =>
        LET running == {i \in StreamIDs : streams[i] # 0}
            desired == DesiredStreamIDs(configs[applied])
        IN  running \subseteq desired /\ desired \ running \subseteq failed

(* monitorAndReconnect "retries with backoff": it gives up on a stream that
   nobody stopped only after reconnectMaxRetries attempts. *)
RetriesUsedUp ==
    \A e \in Entries : monitor[e].pc = "gaveUp" => monitor[e].tries = MaxRetries

(* The proxy's map and what runs agree, in both directions: an entry in the
   map has not been stopped, and nothing runs that the map has lost
   (surv_proxy.go, removal by StopChannel and HandleSurvConfig). *)
MapIsExact == TypeOK /\ MappedIsAlive /\ NoOrphan
=============================================================================
