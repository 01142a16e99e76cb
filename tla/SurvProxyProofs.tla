-------------------------- MODULE SurvProxyProofs --------------------------
(***************************************************************************)
(* Proofs about surv_proxy.go, for every number of channels, DVRs,         *)
(* configurations and broken connections.                                  *)
(***************************************************************************)
EXTENDS SurvProxy, SequenceTheorems, WellFoundedInduction, TLAPS

(* A goroutine works on a configuration the agent has sent. *)
VersionsKnown ==
    /\ applied \in 0 .. Len(configs)
    /\ waiting \subseteq 1 .. Len(configs)
    /\ cur.pc # "idle" => cur.ver \in 1 .. Len(configs)

(* Only the workers of the configuration being applied dial for it. *)
WorkersOfCur == cur.pc # "start" => dialing = {}

(* The map holds objects that were created, and only these are watched. *)
MappedIsUsed == \A i \in StreamIDs : streams[i] # 0 => entry[streams[i]].kind # "free"
WatchedIsUsed == \A e \in Entries : entry[e].kind = "free" => monitor[e].pc = "none"

(* What a monitor may still count up to reconnectMaxRetries. *)
RetriesLeft ==
    \A e \in Entries :
        /\ monitor[e].pc \in {"none", "wait"} => monitor[e].tries = 0
        /\ monitor[e].pc = "delay" => monitor[e].tries < MaxRetries

(* As long as no connection has broken, a connection that is down was
   stopped, no monitor starts anything, and what a worker dials for has left
   the map. *)
NothingBroken ==
    drops = 0 =>
        /\ \A e \in Entries : monitor[e].pc \in {"none", "wait", "gone"}
        /\ \A e \in Entries : entry[e].kind # "free" /\ ~entry[e].up => entry[e].stopped # "no"
        /\ \A id \in dialing : streams[id] = 0

(* Half way through a configuration, what is wanted runs, is still to be
   started or has failed; after the starts, only what is to be stopped runs
   besides. *)
Wanted == DesiredStreamIDs(configs[cur.ver])
Running == {i \in StreamIDs : streams[i] # 0}

Converging ==
    ~stopped /\ drops = 0 =>
        /\ cur.pc = "start" => Wanted \subseteq Running \cup cur.start \cup cur.transcode \cup dialing \cup failed
        /\ cur.pc = "stop" =>
              /\ Wanted \subseteq Running \cup failed
              /\ Running \subseteq Wanted \cup cur.stop
              /\ Wanted \cap cur.stop = {}

(* The inductive invariant. *)
IInv ==
    /\ TypeOK
    /\ VersionsKnown /\ WorkersOfCur
    /\ MappedIsUsed /\ WatchedIsUsed /\ RetriesLeft
    /\ NothingBroken
    /\ MappedIsAlive /\ NoOrphan
    /\ Converging /\ StreamsMatchConfig

-----------------------------------------------------------------------------
(* The map of streams and the entry objects, and nothing else. *)
MapInv ==
    /\ streams \in [StreamIDs -> 0 .. MaxEntries]
    /\ entry \in [Entries -> EntryStates]
    /\ MappedIsUsed /\ MappedIsAlive /\ NoOrphan

LEMMA SmallestOfSet ==
  ASSUME NEW S, S \subseteq Nat, S # {}
  PROVE  \E x \in S : \A y \in S : x <= y
  <1>1. PICK x \in S : \A y \in S : <<y, x>> \notin OpToRel(<, Nat)
    BY NatLessThanWellFounded, WFMin
  <1>2. \A y \in S : ~(y < x)
    BY <1>1 DEF OpToRel
  <1>3. QED
    BY <1>2

(* The entry that Insert makes. *)
Fresh == CHOOSE x \in Unused : \A y \in Unused : x <= y

LEMMA FreshIsUnused ==
  ASSUME Unused # {}
  PROVE  Fresh \in Entries /\ entry[Fresh].kind = "free"
  <1>1. Unused \subseteq Nat
    BY ProxyAssumption DEF Unused, Entries
  <1>2. \E x \in Unused : \A y \in Unused : x <= y
    BY <1>1, SmallestOfSet
  <1>3. Fresh \in Unused
    BY <1>2, Zenon DEF Fresh
  <1>4. QED
    BY <1>3 DEF Unused

(* What stopping the entry of a stream does. *)
LEMMA StoppedByFacts ==
  ASSUME MapInv, NEW id \in StreamIDs, NEW who \in {"self", "other"}
  PROVE  /\ StoppedBy(id, who) \in [Entries -> EntryStates]
         /\ \A e \in Entries :
               IF e = streams[id]
               THEN StoppedBy(id, who)[e].stopped = who /\ StoppedBy(id, who)[e].kind = entry[e].kind
                    /\ StoppedBy(id, who)[e].id = entry[e].id /\ StoppedBy(id, who)[e].up = entry[e].up
               ELSE StoppedBy(id, who)[e] = entry[e]
  <1> DEFINE k == streams[id]
  <1>1. k \in 0 .. MaxEntries /\ MaxEntries \in Nat
    BY ProxyAssumption DEF MapInv
  <1>2. CASE k = 0
    BY <1>1, <1>2 DEF MapInv, StoppedBy, Entries
  <1>3. CASE k # 0
    <2>1. k \in Entries
      BY <1>1, <1>3 DEF Entries
    <2>2. entry[k] \in [kind : {"rtsp", "encode"}, id : StreamIDs, stopped : {"no", "self", "other"}, up : BOOLEAN]
      BY <1>3, <2>1 DEF MapInv, EntryStates, MappedIsUsed, FreeEntry
    <2>3. StoppedBy(id, who) = [entry EXCEPT ![k] = [entry[k] EXCEPT !.stopped = who]]
      BY <1>3 DEF StoppedBy
    <2>4. [entry[k] EXCEPT !.stopped = who] \in EntryStates
      BY <2>2 DEF EntryStates
    <2>5. /\ [entry[k] EXCEPT !.stopped = who].stopped = who
          /\ [entry[k] EXCEPT !.stopped = who].kind = entry[k].kind
          /\ [entry[k] EXCEPT !.stopped = who].id = entry[k].id
          /\ [entry[k] EXCEPT !.stopped = who].up = entry[k].up
      BY <2>2
    <2>6. QED
      BY <2>1, <2>3, <2>4, <2>5 DEF MapInv
  <1>4. QED
    BY <1>2, <1>3

(* Removing a stream from the map stops its entry and keeps the rest. *)
LEMMA RemoveKeepsMap ==
  ASSUME MapInv, NEW id \in StreamIDs, NEW who \in {"self", "other"}, RemoveEntry(id, who), UNCHANGED drops
  PROVE  /\ MapInv'
         /\ streams'[id] = 0 /\ \A i \in StreamIDs \ {id} : streams'[i] = streams[i]
         /\ \A e \in Entries : /\ entry'[e].kind = entry[e].kind
                               /\ entry'[e].id = entry[e].id
                               /\ entry'[e].up = entry[e].up
                               /\ entry'[e].stopped = IF e = streams[id] THEN who ELSE entry[e].stopped
  <1>1. /\ entry' \in [Entries -> EntryStates]
        /\ \A e \in Entries :
               IF e = streams[id]
               THEN entry'[e].stopped = who /\ entry'[e].kind = entry[e].kind
                    /\ entry'[e].id = entry[e].id /\ entry'[e].up = entry[e].up
               ELSE entry'[e] = entry[e]
    BY StoppedByFacts DEF RemoveEntry
  <1>2. streams' = [streams EXCEPT ![id] = 0] /\ 0 \in 0 .. MaxEntries
    BY ProxyAssumption DEF RemoveEntry
  <1>3. streams'[id] = 0 /\ \A i \in StreamIDs \ {id} : streams'[i] = streams[i]
    BY <1>2 DEF MapInv
  <1>4. streams' \in [StreamIDs -> 0 .. MaxEntries]
    BY <1>2 DEF MapInv
  <1>5. \A i \in StreamIDs : streams[i] # 0 => streams[i] \in Entries
    BY ProxyAssumption DEF MapInv, Entries
  <1>6. \A i \in StreamIDs \ {id} : streams[i] # 0 => streams[i] # streams[id]
    BY <1>5 DEF MapInv, MappedIsAlive
  <1>7. MappedIsUsed' /\ MappedIsAlive'
    BY <1>1, <1>3, <1>5, <1>6 DEF MapInv, MappedIsUsed, MappedIsAlive
  <1>8. NoOrphan'
    <2> SUFFICES ASSUME drops = 0, NEW e \in Entries, entry'[e].kind # "free", entry'[e].stopped = "no"
                 PROVE  streams'[entry'[e].id] = e
      BY DEF NoOrphan
    <2>1. e # streams[id] /\ entry'[e] = entry[e]
      BY <1>1
    <2>2. streams[entry[e].id] = e /\ entry[e].id \in StreamIDs
      BY <2>1 DEF MapInv, NoOrphan, EntryStates, FreeEntry
    <2>3. QED
      BY <1>3, <2>1, <2>2
  <1>9. QED
    BY <1>1, <1>3, <1>4, <1>7, <1>8 DEF MapInv

(* A new entry in the map keeps the rest too, if nothing alive is lost. *)
LEMMA InsertKeepsMap ==
  ASSUME MapInv, NEW id \in StreamIDs, NEW kind \in {"rtsp", "encode"}, NEW entries, UNCHANGED drops,
         Insert(id, kind, entries),
         \/ entries = StoppedBy(id, "other")
         \/ entries = entry /\ (drops = 0 => streams[id] = 0)
  PROVE  /\ MapInv'
         /\ Fresh \in Entries /\ entry[Fresh].kind = "free"
         /\ streams'[id] # 0 /\ \A i \in StreamIDs \ {id} : streams'[i] = streams[i]
         /\ entry'[Fresh] = [kind |-> kind, id |-> id, stopped |-> "no", up |-> TRUE]
         /\ \A e \in Entries \ {Fresh} :
               /\ entry'[e].kind = entry[e].kind /\ entry'[e].up = entry[e].up
               /\ entry'[e].stopped = "no" => entry[e].stopped = "no"
  <1> DEFINE new == [kind |-> kind, id |-> id, stopped |-> "no", up |-> TRUE]
  <1>1. Fresh \in Entries /\ entry[Fresh].kind = "free" /\ Fresh # 0 /\ Fresh \in 0 .. MaxEntries
    BY FreshIsUnused, ProxyAssumption DEF Insert, Entries
  <1>2. entry' = [entries EXCEPT ![Fresh] = new] /\ streams' = [streams EXCEPT ![id] = Fresh]
    BY DEF Insert, Fresh
  <1>3. /\ entries \in [Entries -> EntryStates]
        /\ \A e \in Entries :
               /\ entries[e].kind = entry[e].kind /\ entries[e].id = entry[e].id /\ entries[e].up = entry[e].up
               /\ entries[e].stopped = "no" => entry[e].stopped = "no"
               /\ e # streams[id] => entries[e] = entry[e]
    <2>1. CASE entries = entry
      BY <2>1 DEF MapInv
    <2>2. CASE entries = StoppedBy(id, "other")
      BY <2>2, StoppedByFacts
    <2>3. QED
      BY <2>1, <2>2
  <1>4. new \in EntryStates /\ new.kind # "free" /\ new.stopped = "no" /\ new.id = id
    BY DEF EntryStates
  <1>5. /\ entry' \in [Entries -> EntryStates] /\ entry'[Fresh] = new
        /\ \A e \in Entries \ {Fresh} : entry'[e] = entries[e]
    <2> HIDE DEF new
    <2>1. QED
      BY <1>1, <1>2, <1>3, <1>4
  <1>6. /\ streams' \in [StreamIDs -> 0 .. MaxEntries] /\ streams'[id] = Fresh
        /\ \A i \in StreamIDs \ {id} : streams'[i] = streams[i]
    BY <1>1, <1>2 DEF MapInv
  <1>7. \A i \in StreamIDs \ {id} :
           streams[i] # 0 => streams[i] \in Entries /\ streams[i] # streams[id] /\ streams[i] # Fresh
    <2> SUFFICES ASSUME NEW i \in StreamIDs, i # id, streams[i] # 0
                 PROVE  streams[i] \in Entries /\ streams[i] # streams[id] /\ streams[i] # Fresh
      OBVIOUS
    <2>1. streams[i] \in Entries
      BY ProxyAssumption DEF MapInv, Entries
    <2>2. streams[i] # Fresh
      BY <1>1 DEF MapInv, MappedIsUsed
    <2>3. streams[i] # streams[id]
      BY DEF MapInv, MappedIsAlive
    <2>4. QED
      BY <2>1, <2>2, <2>3
  <1>8. MappedIsUsed' /\ MappedIsAlive'
    <2> SUFFICES ASSUME NEW i \in StreamIDs, streams'[i] # 0
                 PROVE  /\ entry'[streams'[i]].kind # "free"
                        /\ entry'[streams'[i]].stopped = "no" /\ entry'[streams'[i]].id = i
      BY DEF MappedIsUsed, MappedIsAlive
    <2>1. CASE i = id
      <3> HIDE DEF new
      <3>1. QED
        BY <1>4, <1>5, <1>6, <2>1
    <2>2. CASE i # id
      <3>1. entry'[streams'[i]] = entry[streams[i]]
        BY <1>3, <1>5, <1>6, <1>7, <2>2
      <3>2. QED
        BY <1>6, <2>2, <3>1 DEF MapInv, MappedIsUsed, MappedIsAlive
    <2>3. QED
      BY <2>1, <2>2
  <1>9. NoOrphan'
    <2> SUFFICES ASSUME drops = 0, NEW e \in Entries, entry'[e].kind # "free", entry'[e].stopped = "no"
                 PROVE  streams'[entry'[e].id] = e
      BY DEF NoOrphan
    <2>1. CASE e = Fresh
      <3> HIDE DEF new
      <3>1. QED
        BY <1>4, <1>5, <1>6, <2>1
    <2>2. CASE e # Fresh
      <3>1. entry'[e] = entries[e] /\ entry[e].kind # "free" /\ entry[e].stopped = "no"
        BY <1>3, <1>5, <2>2
      <3>2. streams[entry[e].id] = e /\ entry[e].id \in StreamIDs /\ e # 0
        BY <3>1, ProxyAssumption DEF MapInv, NoOrphan, EntryStates, FreeEntry, Entries
      <3>3. entry[e].id # id
        <4>1. CASE entries = entry /\ (drops = 0 => streams[id] = 0)
          BY <3>2, <4>1
        <4>2. CASE entries = StoppedBy(id, "other")
          BY <3>1, <3>2, <4>2, StoppedByFacts
        <4>3. QED
          BY <4>1, <4>2
      <3>4. QED
        BY <1>3, <1>6, <3>1, <3>2, <3>3
    <2>3. QED
      BY <2>1, <2>2
  <1>10. QED
    BY <1>1, <1>3, <1>5, <1>6, <1>8, <1>9 DEF MapInv

-----------------------------------------------------------------------------
LEMMA InitIInv == Init => IInv
  <1> SUFFICES ASSUME Init PROVE IInv
    OBVIOUS
  <1> USE ProxyAssumption
  <1>1. TypeOK
    <2>1. configs \in Seq(Config) /\ Len(configs) <= MaxConfigs
      BY DEF Init
    <2>2. cur \in Applying
      BY DEF Init, Idle, Applying
    <2>3. entry \in [Entries -> EntryStates] /\ streams \in [StreamIDs -> 0 .. MaxEntries]
      BY DEF Init, EntryStates
    <2>4. monitor \in [Entries -> MonitorStates]
      BY DEF Init, MonitorStates
    <2>5. waiting = {} /\ applied = 0 /\ dialing = {} /\ failed = {} /\ drops = 0
      BY DEF Init
    <2>6. stopped \in BOOLEAN
      BY DEF Init
    <2>7. QED
      BY <2>1, <2>2, <2>3, <2>4, <2>5, <2>6 DEF TypeOK
  <1>2. VersionsKnown /\ WorkersOfCur
    BY DEF Init, VersionsKnown, WorkersOfCur, Idle
  <1>3. MappedIsUsed /\ WatchedIsUsed /\ MappedIsAlive /\ NoOrphan
    BY DEF Init, MappedIsUsed, WatchedIsUsed, MappedIsAlive, NoOrphan, FreeEntry
  <1>4. RetriesLeft /\ NothingBroken
    BY DEF Init, RetriesLeft, NothingBroken, FreeEntry
  <1>5. Converging /\ StreamsMatchConfig
    BY DEF Init, Converging, StreamsMatchConfig, Idle
  <1>6. QED
    BY <1>1, <1>2, <1>3, <1>4, <1>5 DEF IInv

(* What a step that leaves the map alone preserves. *)
LEMMA MapUntouched ==
  ASSUME IInv, UNCHANGED <<streams, entry>>, drops' = drops
  PROVE  MapInv'
  BY DEF IInv, TypeOK, MapInv, MappedIsUsed, MappedIsAlive, NoOrphan

(* The streams HandleSurvConfig wants do not depend on what was sent later. *)
LEMMA AppendKeepsConfigs ==
  ASSUME IInv, NEW cfg \in Config, configs' = Append(configs, cfg), UNCHANGED <<applied, cur>>
  PROVE  /\ configs' \in Seq(Config) /\ Len(configs') = Len(configs) + 1 /\ Len(configs) \in Nat
         /\ applied # 0 => configs'[applied] = configs[applied]
         /\ cur.pc # "idle" => Wanted' = Wanted
  <1>1. /\ configs' \in Seq(Config) /\ Len(configs') = Len(configs) + 1 /\ Len(configs) \in Nat
        /\ \A i \in 1 .. Len(configs) : configs'[i] = configs[i]
    BY AppendProperties, LenProperties DEF IInv, TypeOK
  <1>2. applied # 0 => configs'[applied] = configs[applied]
    BY <1>1 DEF IInv, VersionsKnown
  <1>3. cur.pc # "idle" => configs'[cur.ver] = configs[cur.ver]
    BY <1>1 DEF IInv, VersionsKnown
  <1>4. QED
    BY <1>1, <1>2, <1>3 DEF Wanted, DesiredStreamIDs

(* The type of everything but the map. *)
ControlOK ==
    /\ configs \in Seq(Config) /\ Len(configs) <= MaxConfigs
    /\ waiting \subseteq Versions /\ cur \in Applying /\ applied \in 0 .. MaxConfigs
    /\ dialing \subseteq StreamIDs /\ failed \subseteq StreamIDs
    /\ monitor \in [Entries -> MonitorStates]
    /\ drops \in 0 .. MaxDrops /\ stopped \in BOOLEAN

LEMMA InParts ==
    /\ IInv => ControlOK /\ MapInv /\ VersionsKnown /\ WorkersOfCur /\ WatchedIsUsed /\ RetriesLeft
               /\ NothingBroken /\ Converging /\ StreamsMatchConfig
    /\ ControlOK /\ MapInv => TypeOK /\ MappedIsUsed /\ MappedIsAlive /\ NoOrphan
  BY DEF IInv, TypeOK, ControlOK, MapInv

(* Only after a connection broke does a monitor get as far as a reconnect. *)
LEMMA ReconnectsAfterDrop ==
  ASSUME IInv, NEW e \in Entries, monitor[e].pc \in {"delay", "call", "dial", "gaveUp"}
  PROVE  drops # 0 /\ entry[e].kind # "free" /\ entry[e].id \in StreamIDs
  <1>1. drops # 0
    BY DEF IInv, NothingBroken
  <1>2. entry[e].kind # "free"
    BY DEF IInv, WatchedIsUsed
  <1>3. QED
    BY <1>1, <1>2 DEF IInv, TypeOK, EntryStates, FreeEntry

(* A monitor that moves on by itself. *)
LEMMA MonitorMoves ==
  ASSUME IInv, NEW e \in Entries, monitor[e].pc # "none",
         NEW l \in {"delay", "call", "dial", "gone", "gaveUp"}, MonitorGoto(e, l),
         l = "delay" => monitor[e].tries < MaxRetries,
         \A f \in Entries : entry'[f].kind = entry[f].kind
  PROVE  /\ monitor' \in [Entries -> MonitorStates]
         /\ monitor'[e].pc = l /\ \A f \in Entries \ {e} : monitor'[f] = monitor[f]
         /\ WatchedIsUsed' /\ RetriesLeft'
  <1>1. monitor \in [Entries -> MonitorStates] /\ monitor[e] \in MonitorStates
    BY DEF IInv, TypeOK
  <1>2. monitor' = [monitor EXCEPT ![e] = [monitor[e] EXCEPT !.pc = l]]
    BY DEF MonitorGoto
  <1>3. [monitor[e] EXCEPT !.pc = l] \in MonitorStates
    BY <1>1 DEF MonitorStates
  <1>4. /\ [monitor[e] EXCEPT !.pc = l].pc = l
        /\ [monitor[e] EXCEPT !.pc = l].tries = monitor[e].tries
    BY <1>1 DEF MonitorStates
  <1>5. /\ monitor' \in [Entries -> MonitorStates]
        /\ monitor'[e].pc = l /\ monitor'[e].tries = monitor[e].tries
        /\ \A f \in Entries \ {e} : monitor'[f] = monitor[f]
    BY <1>1, <1>2, <1>3, <1>4
  <1>6. WatchedIsUsed'
    BY <1>5 DEF IInv, WatchedIsUsed
  <1>7. RetriesLeft'
    BY <1>5 DEF IInv, RetriesLeft
  <1>8. QED
    BY <1>5, <1>6, <1>7

(* The monitor of a new entry begins. *)
LEMMA MonitorBegins ==
  ASSUME IInv, NEW mon \in [Entries -> MonitorStates], monitor' = Watched(mon),
         Fresh \in Entries, mon[Fresh] = monitor[Fresh], entry[Fresh].kind = "free"
  PROVE  /\ monitor' \in [Entries -> MonitorStates]
         /\ monitor'[Fresh].pc = "wait" /\ monitor'[Fresh].tries = 0
         /\ \A f \in Entries \ {Fresh} : monitor'[f] = mon[f]
  <1>1. monitor' = [mon EXCEPT ![Fresh] = [mon[Fresh] EXCEPT !.pc = "wait"]]
    BY DEF Watched, Fresh
  <1>2. mon[Fresh] \in MonitorStates /\ mon[Fresh].tries = 0
    BY DEF IInv, WatchedIsUsed, RetriesLeft
  <1>3. /\ [mon[Fresh] EXCEPT !.pc = "wait"] \in MonitorStates
        /\ [mon[Fresh] EXCEPT !.pc = "wait"].pc = "wait"
        /\ [mon[Fresh] EXCEPT !.pc = "wait"].tries = 0
    BY <1>2 DEF MonitorStates
  <1>4. QED
    BY <1>1, <1>3

-----------------------------------------------------------------------------
(* The steps of HandleSurvConfig. *)
LEMMA ConfigStep ==
  ASSUME IInv,
         \/ \E cfg \in Config : ReceiveConfig(cfg)
         \/ \E v \in Versions : BeginConfig(v)
         \/ CollectStops
         \/ EndConfig
  PROVE  IInv'
  <1>t. ControlOK /\ MapInv
    BY InParts
  <1>1. ASSUME NEW cfg \in Config, ReceiveConfig(cfg) PROVE IInv'
    <2>1. /\ Len(configs) < MaxConfigs /\ configs' = Append(configs, cfg)
          /\ waiting' = waiting \cup {Len(configs) + 1}
          /\ UNCHANGED <<cur, applied, dialing, failed, streams, entry, monitor, drops, stopped>>
      BY <1>1 DEF ReceiveConfig
    <2>2. /\ configs' \in Seq(Config) /\ Len(configs') = Len(configs) + 1 /\ Len(configs) \in Nat
          /\ applied # 0 => configs'[applied] = configs[applied]
          /\ cur.pc # "idle" => Wanted' = Wanted
      BY <2>1, AppendKeepsConfigs
    <2>3. ControlOK'
      <3>1. Len(configs) + 1 \in Versions /\ Len(configs') <= MaxConfigs
        BY <2>1, <2>2, ProxyAssumption DEF Versions
      <3>2. waiting' \subseteq Versions
        BY <1>t, <2>1, <3>1 DEF ControlOK
      <3>3. QED
        BY <1>t, <2>1, <2>2, <3>1, <3>2 DEF ControlOK
    <2>4. VersionsKnown'
      <3> DEFINE k == Len(configs)
      <3>1. k \in Nat /\ Len(configs') = k + 1
        BY <2>2
      <3>2. applied \in 0 .. k /\ waiting \subseteq 1 .. k /\ (cur.pc # "idle" => cur.ver \in 1 .. k)
        BY DEF IInv, VersionsKnown
      <3>3. waiting' = waiting \cup {k + 1} /\ applied' = applied /\ cur' = cur
        BY <2>1
      <3> HIDE DEF k
      <3>4. applied' \in 0 .. k + 1 /\ waiting' \subseteq 1 .. k + 1
        BY <3>1, <3>2, <3>3
      <3>5. cur'.pc # "idle" => cur'.ver \in 1 .. k + 1
        BY <3>1, <3>2, <3>3
      <3>6. QED
        BY <3>1, <3>4, <3>5 DEF VersionsKnown
    <2>5. MapInv'
      BY <2>1, MapUntouched
    <2>6. Converging'
      BY <2>1, <2>2 DEF IInv, Converging, Running
    <2>7. StreamsMatchConfig'
      BY <2>1, <2>2 DEF IInv, StreamsMatchConfig, DesiredStreamIDs
    <2>8. WorkersOfCur' /\ WatchedIsUsed' /\ RetriesLeft' /\ NothingBroken'
      BY <2>1 DEF IInv, WorkersOfCur, WatchedIsUsed, RetriesLeft, NothingBroken
    <2>9. QED
      BY <2>3, <2>4, <2>5, <2>6, <2>7, <2>8, Zenon DEF IInv, TypeOK, ControlOK, MapInv
  <1>2. ASSUME NEW v \in Versions, BeginConfig(v) PROVE IInv'
    <2> DEFINE wanted == DesiredStreamIDs(configs[v])
               missing == {i \in wanted : streams[i] = 0}
    <2>1. /\ cur.pc = "idle" /\ v \in waiting /\ waiting' = waiting \ {v}
          /\ cur' = [pc |-> "start", ver |-> v, stop |-> {},
                     start |-> missing \ TranscodeLive(configs[v]),
                     transcode |-> missing \cap TranscodeLive(configs[v])]
          /\ UNCHANGED <<configs, applied, dialing, failed, streams, entry, monitor, drops, stopped>>
      BY <1>2 DEF BeginConfig
    <2>2. wanted \subseteq StreamIDs
      BY DEF DesiredStreamIDs, StreamIDs, Base, Main
    <2>3. cur' \in Applying
      <3>1. v \in 0 .. MaxConfigs
        BY ProxyAssumption DEF Versions
      <3>2. missing \subseteq StreamIDs
        BY <2>2
      <3> HIDE DEF missing
      <3>3. QED
        BY <2>1, <3>1, <3>2 DEF Applying
    <2>4. ControlOK'
      BY <1>t, <2>1, <2>3 DEF ControlOK
    <2>5. VersionsKnown'
      BY <2>1 DEF IInv, VersionsKnown
    <2>6. MapInv'
      BY <2>1, MapUntouched
    <2>7. Wanted' = wanted
      BY <2>1 DEF Wanted
    <2>8. Converging'
      <3>1. wanted \subseteq Running' \cup cur'.start \cup cur'.transcode
        <4> SUFFICES ASSUME NEW i \in wanted, streams[i] = 0
                     PROVE  i \in cur'.start \cup cur'.transcode
          BY <2>1, <2>2 DEF Running
        <4>1. i \in missing
          OBVIOUS
        <4> HIDE DEF missing, wanted
        <4>2. QED
          BY <2>1, <4>1
      <3>2. cur'.pc = "start"
        BY <2>1
      <3> HIDE DEF missing, wanted
      <3>3. QED
        BY <2>7, <3>1, <3>2 DEF Converging
    <2>9. WorkersOfCur' /\ WatchedIsUsed' /\ RetriesLeft' /\ NothingBroken' /\ StreamsMatchConfig'
      <3> HIDE DEF missing, wanted
      <3>1. QED
        BY <2>1 DEF IInv, WorkersOfCur, WatchedIsUsed, RetriesLeft, NothingBroken, StreamsMatchConfig
    <2>10. QED
      BY <2>4, <2>5, <2>6, <2>8, <2>9, Zenon DEF IInv, TypeOK, ControlOK, MapInv
  <1>3. CASE CollectStops
    <2> DEFINE stops == {i \in StreamIDs : streams[i] # 0} \ DesiredStreamIDs(configs[cur.ver])
    <2>1. /\ cur.pc = "start" /\ cur.start = {} /\ dialing = {} /\ cur.transcode = {}
          /\ cur' = [cur EXCEPT !.pc = "stop", !.stop = stops]
          /\ UNCHANGED <<configs, waiting, applied, dialing, failed, streams, entry, monitor, drops, stopped>>
      BY <1>3 DEF CollectStops
    <2>2. cur \in Applying /\ stops \subseteq StreamIDs
      BY <1>t DEF ControlOK
    <2>3. stops = Running \ Wanted
      BY DEF Running, Wanted
    <2> HIDE DEF stops
    <2>4. /\ cur' \in Applying /\ cur'.pc = "stop" /\ cur'.ver = cur.ver /\ cur'.stop = stops
      BY <2>1, <2>2 DEF Applying
    <2>5. ControlOK'
      BY <1>t, <2>1, <2>4 DEF ControlOK
    <2>6. Wanted' = Wanted /\ Running' = Running
      BY <2>1, <2>4 DEF Wanted, Running
    <2>7. Converging'
      BY <2>1, <2>3, <2>4, <2>6 DEF IInv, Converging
    <2>8. MapInv'
      BY <2>1, MapUntouched
    <2>9. VersionsKnown' /\ WorkersOfCur' /\ WatchedIsUsed' /\ RetriesLeft' /\ NothingBroken'
          /\ StreamsMatchConfig'
      BY <2>1, <2>4 DEF IInv, VersionsKnown, WorkersOfCur, WatchedIsUsed, RetriesLeft, NothingBroken,
         StreamsMatchConfig
    <2>10. QED
      BY <2>5, <2>7, <2>8, <2>9, Zenon DEF IInv, TypeOK, ControlOK, MapInv
  <1>4. CASE EndConfig
    <2>1. /\ cur.pc = "stop" /\ cur.stop = {} /\ applied' = cur.ver /\ cur' = Idle
          /\ UNCHANGED <<configs, waiting, dialing, failed, streams, entry, monitor, drops, stopped>>
      BY <1>4 DEF EndConfig
    <2>2. cur' \in Applying /\ cur'.pc = "idle" /\ applied' \in 0 .. MaxConfigs
      BY <1>t, <2>1, ProxyAssumption DEF ControlOK, Idle, Applying
    <2>3. ControlOK'
      BY <1>t, <2>1, <2>2 DEF ControlOK
    <2>4. VersionsKnown'
      BY <2>1, <2>2, LenProperties, <1>t DEF IInv, VersionsKnown, ControlOK
    <2>5. StreamsMatchConfig'
      BY <2>1 DEF IInv, Converging, StreamsMatchConfig, Wanted, Running
    <2>6. MapInv'
      BY <2>1, MapUntouched
    <2>7. WorkersOfCur' /\ WatchedIsUsed' /\ RetriesLeft' /\ NothingBroken' /\ Converging'
      BY <2>1, <2>2 DEF IInv, WorkersOfCur, WatchedIsUsed, RetriesLeft, NothingBroken, Converging
    <2>8. QED
      BY <2>3, <2>4, <2>5, <2>6, <2>7, Zenon DEF IInv, TypeOK, ControlOK, MapInv
  <1>5. QED
    BY <1>1, <1>2, <1>3, <1>4

(* The starts and stops of single streams, and StopAll. *)
LEMMA StreamStep ==
  ASSUME IInv,
         \/ \E id \in StreamIDs : BeginStart(id) \/ EndStart(id) \/ StartTranscodeChannel(id) \/ StopChannel(id)
         \/ StopAll
  PROVE  IInv'
  <1>t. ControlOK /\ MapInv
    BY InParts
  <1>1. ASSUME NEW id \in StreamIDs, BeginStart(id) PROVE IInv'
    <2>1. /\ cur.pc = "start" /\ id \in cur.start
          /\ cur' = [cur EXCEPT !.start = cur.start \ {id}]
          /\ dialing' = dialing \cup {id} /\ RemoveEntry(id, "other")
          /\ UNCHANGED <<configs, waiting, applied, failed, monitor, drops, stopped>>
      BY <1>1 DEF BeginStart
    <2>2. /\ cur' \in Applying /\ cur'.pc = "start" /\ cur'.ver = cur.ver
          /\ cur'.start = cur.start \ {id} /\ cur'.transcode = cur.transcode
      BY <1>t, <2>1 DEF ControlOK, Applying
    <2>3. /\ MapInv'
          /\ streams'[id] = 0 /\ \A i \in StreamIDs \ {id} : streams'[i] = streams[i]
          /\ \A e \in Entries : /\ entry'[e].kind = entry[e].kind
                                /\ entry'[e].id = entry[e].id
                                /\ entry'[e].up = entry[e].up
                                /\ entry'[e].stopped = IF e = streams[id] THEN "other" ELSE entry[e].stopped
      BY <1>t, <2>1, RemoveKeepsMap
    <2>4. ControlOK'
      BY <1>t, <2>1, <2>2 DEF ControlOK
    <2>5. NothingBroken'
      BY <1>t, <2>1, <2>3 DEF IInv, NothingBroken, ControlOK
    <2>6. Wanted' = Wanted
      BY <2>1, <2>2 DEF Wanted
    <2>7. \A i \in Running : i = id \/ i \in Running'
      BY <2>3 DEF Running
    <2>8. Converging'
      BY <2>1, <2>2, <2>6, <2>7 DEF IInv, Converging
    <2>9. VersionsKnown' /\ WorkersOfCur' /\ WatchedIsUsed' /\ RetriesLeft' /\ StreamsMatchConfig'
      BY <2>1, <2>2, <2>3 DEF IInv, VersionsKnown, WorkersOfCur, WatchedIsUsed, RetriesLeft, StreamsMatchConfig
    <2>10. QED
      BY <2>3, <2>4, <2>5, <2>8, <2>9, Zenon DEF IInv, TypeOK, ControlOK, MapInv
  <1>2. ASSUME NEW id \in StreamIDs, EndStart(id) PROVE IInv'
    <2>1. /\ id \in dialing /\ dialing' = dialing \ {id}
          /\ UNCHANGED <<configs, waiting, cur, applied, drops, stopped>>
      BY <1>2 DEF EndStart
    <2>2. cur.pc = "start" /\ (drops = 0 => streams[id] = 0)
      BY <2>1 DEF IInv, WorkersOfCur, NothingBroken
    <2>3. VersionsKnown' /\ WorkersOfCur' /\ StreamsMatchConfig' /\ Wanted' = Wanted
      BY <2>1, <2>2 DEF IInv, VersionsKnown, WorkersOfCur, StreamsMatchConfig, Wanted
    <2>4. CASE failed' = failed \cup {id} /\ UNCHANGED <<streams, entry, monitor>>
      <3>1. ControlOK'
        BY <1>t, <2>1, <2>4 DEF ControlOK
      <3>2. MapInv'
        BY <2>1, <2>4, MapUntouched
      <3>3. NothingBroken' /\ WatchedIsUsed' /\ RetriesLeft'
        BY <2>1, <2>4 DEF IInv, NothingBroken, WatchedIsUsed, RetriesLeft
      <3>4. Converging'
        BY <2>1, <2>2, <2>3, <2>4 DEF IInv, Converging, Running
      <3>5. QED
        BY <2>3, <3>1, <3>2, <3>3, <3>4, Zenon DEF IInv, TypeOK, ControlOK, MapInv
    <2>5. CASE failed' = failed \ {id} /\ Insert(id, "rtsp", entry) /\ monitor' = Watched(monitor)
      <3>1. /\ MapInv'
            /\ Fresh \in Entries /\ entry[Fresh].kind = "free"
            /\ streams'[id] # 0 /\ \A i \in StreamIDs \ {id} : streams'[i] = streams[i]
            /\ entry'[Fresh] = [kind |-> "rtsp", id |-> id, stopped |-> "no", up |-> TRUE]
            /\ \A e \in Entries \ {Fresh} :
                  /\ entry'[e].kind = entry[e].kind /\ entry'[e].up = entry[e].up
                  /\ entry'[e].stopped = "no" => entry[e].stopped = "no"
        BY <1>t, <2>1, <2>2, <2>5, InsertKeepsMap
      <3>2. /\ monitor' \in [Entries -> MonitorStates]
            /\ monitor'[Fresh].pc = "wait" /\ monitor'[Fresh].tries = 0
            /\ \A f \in Entries \ {Fresh} : monitor'[f] = monitor[f]
        BY <1>t, <2>5, <3>1, MonitorBegins DEF ControlOK
      <3>3. ControlOK'
        BY <1>t, <2>1, <2>5, <3>2 DEF ControlOK
      <3>4. WatchedIsUsed' /\ RetriesLeft'
        BY <3>1, <3>2 DEF IInv, WatchedIsUsed, RetriesLeft
      <3>5. NothingBroken'
        <4> SUFFICES ASSUME drops = 0
                     PROVE  /\ \A e \in Entries : monitor'[e].pc \in {"none", "wait", "gone"}
                            /\ \A e \in Entries : entry'[e].kind # "free" /\ ~entry'[e].up => entry'[e].stopped # "no"
                            /\ \A i \in dialing' : streams'[i] = 0
          BY <2>1 DEF NothingBroken
        <4>1. \A e \in Entries : monitor'[e].pc \in {"none", "wait", "gone"}
          BY <3>2 DEF IInv, NothingBroken
        <4>2. entry'[Fresh].up
          BY <3>1
        <4>3. \A e \in Entries : entry'[e].kind # "free" /\ ~entry'[e].up => entry'[e].stopped # "no"
          BY <3>1, <4>2 DEF IInv, NothingBroken
        <4>4. \A i \in dialing' : streams'[i] = 0
          BY <1>t, <2>1, <3>1 DEF IInv, NothingBroken, ControlOK
        <4>5. QED
          BY <4>1, <4>3, <4>4
      <3>6. Running' = Running \cup {id}
        BY <3>1 DEF Running
      <3>7. Converging'
        BY <2>1, <2>2, <2>3, <2>5, <3>6 DEF IInv, Converging
      <3>8. QED
        BY <2>3, <3>1, <3>3, <3>4, <3>5, <3>7, Zenon DEF IInv, TypeOK, ControlOK, MapInv
    <2>6. QED
      BY <1>2, <2>4, <2>5 DEF EndStart
  <1>3. ASSUME NEW id \in StreamIDs, StartTranscodeChannel(id) PROVE IInv'
    <2>1. /\ cur.pc = "start" /\ cur.start = {} /\ dialing = {} /\ id \in cur.transcode
          /\ cur' = [cur EXCEPT !.transcode = cur.transcode \ {id}]
          /\ Insert(id, "encode", StoppedBy(id, "other"))
          /\ failed' = failed \ {id}
          /\ UNCHANGED <<configs, waiting, applied, dialing, monitor, drops, stopped>>
      BY <1>3 DEF StartTranscodeChannel
    <2>2. /\ cur' \in Applying /\ cur'.pc = "start" /\ cur'.ver = cur.ver
          /\ cur'.start = cur.start /\ cur'.transcode = cur.transcode \ {id}
      BY <1>t, <2>1 DEF ControlOK, Applying
    <2>3. /\ MapInv'
          /\ Fresh \in Entries /\ entry[Fresh].kind = "free"
          /\ streams'[id] # 0 /\ \A i \in StreamIDs \ {id} : streams'[i] = streams[i]
          /\ entry'[Fresh] = [kind |-> "encode", id |-> id, stopped |-> "no", up |-> TRUE]
          /\ \A e \in Entries \ {Fresh} :
                /\ entry'[e].kind = entry[e].kind /\ entry'[e].up = entry[e].up
                /\ entry'[e].stopped = "no" => entry[e].stopped = "no"
      BY <1>t, <2>1, InsertKeepsMap
    <2>4. ControlOK'
      BY <1>t, <2>1, <2>2 DEF ControlOK
    <2>5. WatchedIsUsed' /\ RetriesLeft'
      BY <2>1, <2>3 DEF IInv, WatchedIsUsed, RetriesLeft
    <2>6. NothingBroken'
      <3>1. entry'[Fresh].up
        BY <2>3
      <3>2. QED
        BY <2>1, <2>3, <3>1 DEF IInv, NothingBroken
    <2>7. Running' = Running \cup {id} /\ Wanted' = Wanted
      BY <2>1, <2>2, <2>3 DEF Running, Wanted
    <2>8. Converging'
      BY <2>1, <2>2, <2>7 DEF IInv, Converging
    <2>9. VersionsKnown' /\ WorkersOfCur' /\ StreamsMatchConfig'
      BY <2>1, <2>2 DEF IInv, VersionsKnown, WorkersOfCur, StreamsMatchConfig
    <2>10. QED
      BY <2>3, <2>4, <2>5, <2>6, <2>8, <2>9, Zenon DEF IInv, TypeOK, ControlOK, MapInv
  <1>4. ASSUME NEW id \in StreamIDs, StopChannel(id) PROVE IInv'
    <2>1. /\ cur.pc = "stop" /\ id \in cur.stop
          /\ cur' = [cur EXCEPT !.stop = cur.stop \ {id}] /\ RemoveEntry(id, "other")
          /\ UNCHANGED <<configs, waiting, applied, dialing, failed, monitor, drops, stopped>>
      BY <1>4 DEF StopChannel
    <2>2. cur' \in Applying /\ cur'.pc = "stop" /\ cur'.ver = cur.ver /\ cur'.stop = cur.stop \ {id}
      BY <1>t, <2>1 DEF ControlOK, Applying
    <2>3. /\ MapInv'
          /\ streams'[id] = 0 /\ \A i \in StreamIDs \ {id} : streams'[i] = streams[i]
          /\ \A e \in Entries : /\ entry'[e].kind = entry[e].kind
                                /\ entry'[e].id = entry[e].id
                                /\ entry'[e].up = entry[e].up
                                /\ entry'[e].stopped = IF e = streams[id] THEN "other" ELSE entry[e].stopped
      BY <1>t, <2>1, RemoveKeepsMap
    <2>4. ControlOK'
      BY <1>t, <2>1, <2>2 DEF ControlOK
    <2>5. NothingBroken'
      BY <1>t, <2>1, <2>3 DEF IInv, NothingBroken, ControlOK
    <2>6. Running' = Running \ {id} /\ Wanted' = Wanted
      BY <2>1, <2>2, <2>3 DEF Running, Wanted
    <2>7. Converging'
      BY <2>1, <2>2, <2>6 DEF IInv, Converging
    <2>8. VersionsKnown' /\ WorkersOfCur' /\ WatchedIsUsed' /\ RetriesLeft' /\ StreamsMatchConfig'
      BY <2>1, <2>2, <2>3 DEF IInv, VersionsKnown, WorkersOfCur, WatchedIsUsed, RetriesLeft, StreamsMatchConfig
    <2>9. QED
      BY <2>3, <2>4, <2>5, <2>7, <2>8, Zenon DEF IInv, TypeOK, ControlOK, MapInv
  <1>5. CASE StopAll
    <2> DEFINE inMap(e) == \E i \in StreamIDs : streams[i] = e
    <2>1. /\ stopped' = TRUE
          /\ entry' = [e \in Entries |-> IF inMap(e) THEN [entry[e] EXCEPT !.stopped = "other"] ELSE entry[e]]
          /\ streams' = [i \in StreamIDs |-> 0]
          /\ UNCHANGED <<configs, waiting, cur, applied, dialing, failed, monitor, drops>>
      BY <1>5 DEF StopAll
    <2>2. ASSUME NEW e \in Entries
          PROVE  /\ entry'[e] \in EntryStates
                 /\ entry'[e].kind = entry[e].kind /\ entry'[e].up = entry[e].up /\ entry'[e].id = entry[e].id
                 /\ entry'[e].stopped = IF inMap(e) THEN "other" ELSE entry[e].stopped
      <3>1. entry'[e] = IF inMap(e) THEN [entry[e] EXCEPT !.stopped = "other"] ELSE entry[e]
        BY <2>1
      <3>2. CASE inMap(e)
        <4>1. e # 0
          BY ProxyAssumption DEF Entries
        <4>2. entry[e] \in [kind : {"rtsp", "encode"}, id : StreamIDs, stopped : {"no", "self", "other"}, up : BOOLEAN]
          BY <1>t, <3>2, <4>1 DEF MapInv, MappedIsUsed, EntryStates, FreeEntry
        <4>3. QED
          BY <3>1, <3>2, <4>2 DEF EntryStates
      <3>3. CASE ~inMap(e)
        BY <1>t, <3>1, <3>3 DEF MapInv
      <3>4. QED
        BY <3>2, <3>3
    <2>3. MapInv'
      <3>1. streams' \in [StreamIDs -> 0 .. MaxEntries] /\ \A i \in StreamIDs : streams'[i] = 0
        BY <2>1, ProxyAssumption
      <3>2. entry' \in [Entries -> EntryStates]
        <4>1. \A e \in Entries : entry'[e] \in EntryStates
          BY <2>2
        <4> HIDE DEF inMap
        <4>2. QED
          BY <2>1, <4>1
      <3>3. NoOrphan'
        <4> SUFFICES ASSUME drops = 0, NEW e \in Entries, entry'[e].kind # "free", entry'[e].stopped = "no"
                     PROVE  FALSE
          BY <2>1 DEF NoOrphan
        <4>1. ~inMap(e) /\ entry[e].kind # "free" /\ entry[e].stopped = "no"
          BY <2>2
        <4>2. streams[entry[e].id] = e /\ entry[e].id \in StreamIDs
          BY <1>t, <4>1 DEF MapInv, NoOrphan, EntryStates, FreeEntry
        <4>3. QED
          BY <4>1, <4>2
      <3>4. QED
        BY <3>1, <3>2, <3>3 DEF MapInv, MappedIsUsed, MappedIsAlive
    <2> HIDE DEF inMap
    <2>4. stopped' \in BOOLEAN
      BY <2>1
    <2>5. ControlOK'
      BY <1>t, <2>1, <2>4 DEF ControlOK
    <2>6. NothingBroken'
      <3>1. \A id \in dialing' : streams'[id] = 0
        BY <1>t, <2>1 DEF ControlOK
      <3>2. QED
        BY <2>1, <2>2, <3>1 DEF IInv, NothingBroken
    <2>7. /\ VersionsKnown' /\ WorkersOfCur' /\ WatchedIsUsed' /\ RetriesLeft'
      BY <2>1, <2>2 DEF IInv, VersionsKnown, WorkersOfCur, WatchedIsUsed, RetriesLeft
    <2>8. Converging' /\ StreamsMatchConfig'
      BY <2>1 DEF Converging, StreamsMatchConfig
    <2>9. QED
      BY <2>3, <2>5, <2>6, <2>7, <2>8, Zenon DEF IInv, TypeOK, ControlOK, MapInv
  <1>6. QED
    BY <1>1, <1>2, <1>3, <1>4, <1>5

(* The goroutines of single connections. *)
LEMMA ConnectionStep ==
  ASSUME IInv, NEW e \in Entries,
         \/ ConnectionEnds(e) \/ MonitorWakes(e) \/ MonitorRetries(e)
         \/ MonitorCalls(e) \/ MonitorReturns(e)
  PROVE  IInv'
  <1>t. ControlOK /\ MapInv
    BY InParts
  <1>1. CASE ConnectionEnds(e)
    <2>1. /\ entry[e].up /\ entry[e].kind = "rtsp" /\ entry' = [entry EXCEPT ![e].up = FALSE]
          /\ \/ entry[e].stopped = "no" /\ drops < MaxDrops /\ drops' = drops + 1
             \/ entry[e].stopped # "no" /\ drops' = drops
          /\ UNCHANGED <<configs, waiting, cur, applied, dialing, failed, streams, monitor, stopped>>
      BY <1>1 DEF ConnectionEnds
    <2>2. entry[e] \in [kind : {"rtsp", "encode"}, id : StreamIDs, stopped : {"no", "self", "other"}, up : BOOLEAN]
      BY <1>t, <2>1 DEF MapInv, EntryStates, FreeEntry
    <2>3. /\ entry' = [entry EXCEPT ![e] = [entry[e] EXCEPT !.up = FALSE]]
          /\ [entry[e] EXCEPT !.up = FALSE] \in EntryStates
      BY <2>1, <2>2 DEF EntryStates
    <2>4. /\ entry' \in [Entries -> EntryStates]
          /\ \A f \in Entries : /\ entry'[f].kind = entry[f].kind /\ entry'[f].id = entry[f].id
                                /\ entry'[f].stopped = entry[f].stopped
                                /\ f # e => entry'[f].up = entry[f].up
      BY <1>t, <2>2, <2>3 DEF MapInv
    <2>5. drops' \in 0 .. MaxDrops /\ (drops' = 0 => drops = 0 /\ entry[e].stopped # "no")
      BY <1>t, <2>1, ProxyAssumption DEF ControlOK
    <2>6. ControlOK'
      BY <1>t, <2>1, <2>5 DEF ControlOK
    <2>7. MapInv'
      <3>1. \A i \in StreamIDs : streams[i] # 0 => streams[i] \in Entries
        BY <1>t, ProxyAssumption DEF MapInv, Entries
      <3>2. MappedIsUsed' /\ MappedIsAlive'
        BY <1>t, <2>1, <2>4, <3>1 DEF MapInv, MappedIsUsed, MappedIsAlive
      <3>3. NoOrphan'
        BY <1>t, <2>1, <2>4, <2>5 DEF MapInv, NoOrphan
      <3>4. QED
        BY <1>t, <2>1, <2>4, <3>2, <3>3 DEF MapInv
    <2>8. NothingBroken'
      BY <2>1, <2>4, <2>5 DEF IInv, NothingBroken
    <2>9. Wanted' = Wanted /\ Running' = Running
      BY <2>1 DEF Wanted, Running
    <2>10. Converging' /\ StreamsMatchConfig'
      BY <2>1, <2>5, <2>9 DEF IInv, Converging, StreamsMatchConfig
    <2>11. VersionsKnown' /\ WorkersOfCur' /\ WatchedIsUsed' /\ RetriesLeft'
      BY <2>1, <2>4 DEF IInv, VersionsKnown, WorkersOfCur, WatchedIsUsed, RetriesLeft
    <2>12. QED
      BY <2>6, <2>7, <2>8, <2>10, <2>11, Zenon DEF IInv, TypeOK, ControlOK, MapInv
  <1>2. CASE MonitorWakes(e)
    <2> DEFINE l == IF entry[e].stopped = "no" THEN "delay" ELSE "gone"
    <2>1. /\ monitor[e].pc = "wait" /\ ~entry[e].up /\ MonitorGoto(e, l)
          /\ UNCHANGED <<configs, waiting, cur, applied, dialing, failed, streams, entry, drops, stopped>>
      BY <1>2 DEF MonitorWakes
    <2>2. monitor[e].tries < MaxRetries
      BY <2>1, ProxyAssumption DEF IInv, RetriesLeft
    <2>3. drops = 0 => l = "gone"
      BY <2>1 DEF IInv, NothingBroken, WatchedIsUsed
    <2>4. l \in {"delay", "call", "dial", "gone", "gaveUp"}
      OBVIOUS
    <2> HIDE DEF l
    <2>5. /\ monitor' \in [Entries -> MonitorStates]
          /\ monitor'[e].pc = l /\ \A f \in Entries \ {e} : monitor'[f] = monitor[f]
          /\ WatchedIsUsed' /\ RetriesLeft'
      BY <2>1, <2>2, <2>4, MonitorMoves
    <2>6. ControlOK' /\ MapInv'
      BY <1>t, <2>1, <2>5, MapUntouched DEF ControlOK
    <2>7. NothingBroken'
      BY <2>1, <2>3, <2>5 DEF IInv, NothingBroken
    <2>8. VersionsKnown' /\ WorkersOfCur' /\ Converging' /\ StreamsMatchConfig'
      BY <2>1 DEF IInv, VersionsKnown, WorkersOfCur, Converging, Wanted, Running, StreamsMatchConfig
    <2>9. QED
      BY <2>5, <2>6, <2>7, <2>8, Zenon DEF IInv, TypeOK, ControlOK, MapInv
  <1>3. ASSUME drops # 0, UNCHANGED <<configs, waiting, cur, applied, dialing, drops, stopped>>,
               failed' \subseteq StreamIDs, monitor' \in [Entries -> MonitorStates],
               MapInv', WatchedIsUsed', RetriesLeft'
        PROVE  IInv'
    <2>1. ControlOK'
      BY <1>t, <1>3 DEF ControlOK
    <2>2. NothingBroken' /\ Converging' /\ StreamsMatchConfig'
      BY <1>3 DEF NothingBroken, Converging, StreamsMatchConfig
    <2>3. VersionsKnown' /\ WorkersOfCur'
      BY <1>3 DEF IInv, VersionsKnown, WorkersOfCur
    <2>4. QED
      BY <1>3, <2>1, <2>2, <2>3, Zenon DEF IInv, TypeOK, ControlOK, MapInv
  <1>4. CASE MonitorRetries(e)
    <2>1. /\ monitor[e].pc = "delay"
          /\ UNCHANGED <<configs, waiting, cur, applied, dialing, failed, streams, entry, drops, stopped>>
      BY <1>4 DEF MonitorRetries
    <2>2. drops # 0 /\ MapInv' /\ entry[e].kind # "free"
      BY <2>1, ReconnectsAfterDrop, MapUntouched
    <2>3. monitor' \in [Entries -> MonitorStates] /\ WatchedIsUsed' /\ RetriesLeft'
      <3>1. CASE entry[e].stopped = "no"
        <4> DEFINE next == [pc |-> "call", tries |-> monitor[e].tries + 1]
        <4>1. monitor' = [monitor EXCEPT ![e] = next]
          BY <1>4, <3>1 DEF MonitorRetries
        <4>2. next \in MonitorStates
          <5>1. monitor[e].tries \in 0 .. MaxRetries /\ monitor[e].tries < MaxRetries
            BY <1>t, <2>1 DEF IInv, RetriesLeft, ControlOK, MonitorStates
          <5>2. QED
            BY <5>1, ProxyAssumption DEF MonitorStates
        <4>3. next.pc = "call"
          OBVIOUS
        <4> HIDE DEF next
        <4>4. /\ monitor' \in [Entries -> MonitorStates] /\ monitor'[e].pc = "call"
              /\ \A f \in Entries \ {e} : monitor'[f] = monitor[f]
          BY <1>t, <4>1, <4>2, <4>3 DEF ControlOK
        <4>5. QED
          BY <2>1, <2>2, <4>4 DEF IInv, WatchedIsUsed, RetriesLeft
      <3>2. CASE entry[e].stopped # "no"
        <4>1. PICK l \in {"gaveUp", "gone"} : MonitorGoto(e, l)
          BY <1>4, <3>2 DEF MonitorRetries
        <4>2. QED
          BY <2>1, <4>1, MonitorMoves
      <3>3. QED
        BY <3>1, <3>2
    <2>4. failed' \subseteq StreamIDs
      BY <1>t, <2>1 DEF ControlOK
    <2>5. QED
      BY <1>3, <2>1, <2>2, <2>3, <2>4
  <1>5. CASE MonitorCalls(e)
    <2>1. /\ monitor[e].pc = "call" /\ MonitorGoto(e, "dial")
          /\ UNCHANGED <<configs, waiting, cur, applied, dialing, failed, drops, stopped>>
      BY <1>5 DEF MonitorCalls
    <2>2. drops # 0 /\ entry[e].id \in StreamIDs
      BY <2>1, ReconnectsAfterDrop
    <2>3. PICK who \in {"self", "other"} : RemoveEntry(entry[e].id, who)
      BY <1>5 DEF MonitorCalls
    <2>4. MapInv' /\ \A f \in Entries : entry'[f].kind = entry[f].kind
      BY <1>t, <2>1, <2>2, <2>3, RemoveKeepsMap
    <2>5. monitor' \in [Entries -> MonitorStates] /\ WatchedIsUsed' /\ RetriesLeft'
      BY <2>1, <2>4, MonitorMoves
    <2>6. failed' \subseteq StreamIDs
      BY <1>t, <2>1 DEF ControlOK
    <2>7. QED
      BY <1>3, <2>1, <2>2, <2>4, <2>5, <2>6
  <1>6. CASE MonitorReturns(e)
    <2> DEFINE id == entry[e].id
    <2>1. /\ monitor[e].pc = "dial"
          /\ UNCHANGED <<configs, waiting, cur, applied, dialing, drops, stopped>>
      BY <1>6 DEF MonitorReturns
    <2>2. drops # 0 /\ id \in StreamIDs /\ entry[e].kind # "free"
      BY <2>1, ReconnectsAfterDrop
    <2>3. failed' \subseteq StreamIDs
      BY <1>6, <1>t, <2>2 DEF MonitorReturns, ControlOK
    <2>4. CASE UNCHANGED <<entry, streams>>
      <3>1. MapInv'
        BY <2>1, <2>4, MapUntouched
      <3>2. CASE MonitorGoto(e, "gone")
        BY <1>3, <2>1, <2>2, <2>3, <2>4, <3>1, <3>2, MonitorMoves
      <3>3. CASE MonitorGoto(e, IF monitor[e].tries < MaxRetries THEN "delay" ELSE "gaveUp")
        <4>1. PICK l \in {"delay", "gaveUp"} :
                 MonitorGoto(e, l) /\ (l = "delay" => monitor[e].tries < MaxRetries)
          BY <3>3
        <4>2. monitor' \in [Entries -> MonitorStates] /\ WatchedIsUsed' /\ RetriesLeft'
          BY <2>1, <2>4, <4>1, MonitorMoves
        <4>3. QED
          BY <1>3, <2>1, <2>2, <2>3, <3>1, <4>2
      <3>4. CASE Insert(id, "rtsp", entry)
        <4>1. /\ entry[Fresh].kind = "free"
              /\ entry'[Fresh] = [kind |-> "rtsp", id |-> id, stopped |-> "no", up |-> TRUE]
          BY <1>t, <2>1, <2>2, <3>4, InsertKeepsMap
        <4>2. QED
          BY <2>4, <4>1
      <3>5. QED
        BY <1>6, <3>2, <3>3, <3>4 DEF MonitorReturns
    <2>5. CASE Insert(id, "rtsp", entry) /\ monitor' = [Watched(monitor) EXCEPT ![e].pc = "gone"]
      <3>1. /\ MapInv'
            /\ Fresh \in Entries /\ entry[Fresh].kind = "free"
            /\ entry'[Fresh] = [kind |-> "rtsp", id |-> id, stopped |-> "no", up |-> TRUE]
            /\ \A f \in Entries \ {Fresh} : entry'[f].kind = entry[f].kind
        BY <1>t, <2>1, <2>2, <2>5, InsertKeepsMap
      <3>2. e # Fresh
        BY <2>2, <3>1
      <3> DEFINE begun == [monitor EXCEPT ![Fresh] = [monitor[Fresh] EXCEPT !.pc = "wait"]]
      <3>3. begun = Watched(monitor)
        BY DEF Watched, Fresh
      <3>4. monitor[Fresh] \in MonitorStates /\ monitor[Fresh].tries = 0 /\ monitor[e] \in MonitorStates
        BY <1>t, <3>1 DEF IInv, WatchedIsUsed, RetriesLeft, ControlOK
      <3>5. [monitor[Fresh] EXCEPT !.pc = "wait"] \in MonitorStates
        BY <3>4 DEF MonitorStates
      <3>6. /\ begun \in [Entries -> MonitorStates]
            /\ begun[Fresh].pc = "wait" /\ begun[Fresh].tries = 0
            /\ \A f \in Entries \ {Fresh} : begun[f] = monitor[f]
        BY <1>t, <3>1, <3>4, <3>5 DEF ControlOK, MonitorStates
      <3>7. begun[e] = monitor[e] /\ monitor' = [begun EXCEPT ![e] = [monitor[e] EXCEPT !.pc = "gone"]]
        <4> HIDE DEF begun
        <4>1. begun[e] = monitor[e]
          BY <3>2, <3>6
        <4>2. monitor' = [begun EXCEPT ![e].pc = "gone"]
          BY <2>5, <3>3
        <4>3. QED
          BY <4>1, <4>2
      <3> HIDE DEF begun
      <3>8. [monitor[e] EXCEPT !.pc = "gone"] \in MonitorStates /\ [monitor[e] EXCEPT !.pc = "gone"].pc = "gone"
        BY <3>4 DEF MonitorStates
      <3>9. /\ monitor' \in [Entries -> MonitorStates] /\ monitor'[e].pc = "gone"
            /\ monitor'[Fresh].pc = "wait" /\ monitor'[Fresh].tries = 0
            /\ \A f \in Entries \ {Fresh, e} : monitor'[f] = monitor[f]
        BY <3>1, <3>2, <3>6, <3>7, <3>8
      <3>10. WatchedIsUsed' /\ RetriesLeft'
        BY <2>2, <3>1, <3>9 DEF IInv, WatchedIsUsed, RetriesLeft
      <3>11. QED
        BY <1>3, <2>1, <2>2, <2>3, <3>1, <3>9, <3>10
    <2>6. QED
      BY <1>6, <2>4, <2>5 DEF MonitorReturns
  <1>7. QED
    BY <1>1, <1>2, <1>4, <1>5, <1>6

LEMMA NextIInv == IInv /\ [Next]_vars => IInv'
  <1> SUFFICES ASSUME IInv, [Next]_vars PROVE IInv'
    OBVIOUS
  <1>1. CASE Next
    BY <1>1, ConfigStep, StreamStep, ConnectionStep DEF Next
  <1>2. CASE UNCHANGED vars
    BY <1>2 DEF vars, IInv, TypeOK, VersionsKnown, WorkersOfCur, MappedIsUsed, WatchedIsUsed, RetriesLeft,
       NothingBroken, MappedIsAlive, NoOrphan, Converging, Wanted, Running, StreamsMatchConfig
  <1>3. QED
    BY <1>1, <1>2

-----------------------------------------------------------------------------
(* Whatever overlaps of configurations, reconnects and StopAll surv_proxy.go
   lets happen between its critical sections, sp.streams never names a
   stopped stream; and until a connection breaks it names every stream that
   was not stopped. *)
THEOREM MapIsExactHolds == Spec => []MapIsExact
  <1>1. IInv => MapIsExact
    BY DEF IInv, MapIsExact
  <1>2. QED
    BY InitIInv, NextIInv, <1>1, PTL DEF Spec

(* HandleSurvConfig "starts/stops channels accordingly": between two
   configurations, and until a connection breaks or StopAll, the streams that
   run are the wanted ones of the configuration applied last, but for those
   whose last start failed. *)
THEOREM StreamsMatchConfigHolds == Spec => []StreamsMatchConfig
  <1>1. IInv => StreamsMatchConfig
    BY DEF IInv
  <1>2. QED
    BY InitIInv, NextIInv, <1>1, PTL DEF Spec
=============================================================================
