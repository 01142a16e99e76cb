---------------------------- MODULE DeviceStore ----------------------------
(***************************************************************************)
(* agent/surveillance.go with its callers in web_ui.go and agent.go: the   *)
(* recorders (DVRs) of a site, the key each one keeps for life, and their  *)
(* channels, in SQLite.  The web UI, the relay's edits and the self-heal   *)
(* loop change them at the same time; every change ends with the whole     *)
(* configuration being read table by table and sent to the relay           *)
(* (onChange, sendSurvConfig).  A statement of the database is one step.   *)
(***************************************************************************)
EXTENDS Integers, Sequences, FiniteSets, SequencesExt, FiniteSetsExt, Listing

CONSTANTS
    Serials,     \* the serial numbers of the devices at the site
    Macs,        \* and their MAC addresses
    Addrs,
    Readings,    \* what fetchDeviceIdentity may return: [serial, mac]
    SeedAddr,    \* the recorder there is at the start, and its channels
    SeedRound,
    Rounds,      \* channel numbers a round of discovery may find
    NewOrders,   \* orders of channel numbers an operator may set
    Protocols,   \* what probeDVRProtocol may return
    Selectable,  \* protocols an operator may choose, "auto" among them
    Threads,     \* web UI handlers, readPump, self-heal
    MaxDvOps  \* operations begun

NoFacet == ""    \* an empty facet

ASSUME DeviceStoreAssumption ==
    /\ Readings \subseteq [serial : Serials \cup {NoFacet}, mac : Macs \cup {NoFacet}]
    /\ Rounds \subseteq SUBSET Nat /\ {} \notin Rounds    \* a round with nothing is FindsNone
    /\ SeedAddr \in Addrs /\ SeedRound \subseteq Nat /\ IsFiniteSet(SeedRound)
    /\ NewOrders \subseteq Seq(Nat) /\ "auto" \in Selectable
    /\ MaxDvOps \in Nat

VARIABLES
    dvKeys,     \* device_keys: key to its facets
    dvDvrs,     \* dvrs: id to address and protocol
    dvChans,    \* channels: <<id, number>> to metadata (name, resolution) and order
    dvOp,       \* what each thread is doing
    dvBegun,
    dvConn,     \* a.conn is set and works
    dvRelay,    \* the configuration the relay has
    dvStale,    \* it was put together while a table changed (history)
    dvBlind,    \* an AddDVR may have missed a serial number: another ran at
                \* once, or its look-up of the serial failed (history)
    dvWanted    \* the order an operator set last for each id (history)

dvVars == <<dvKeys, dvDvrs, dvChans, dvOp, dvBegun, dvConn, dvRelay, dvStale, dvBlind, dvWanted>>

DvStore == <<dvKeys, dvDvrs, dvChans>>

Ids == DOMAIN dvDvrs
DvIdle == [pc |-> "idle"]
Connector == "connector"    \* the thread in connect()
AllThreads == Threads \cup {Connector}

(* What ListDVRs and ListChannels return for the whole store. *)
ChansOf(id) == {c \in DOMAIN dvChans : c[1] = id}
DvConfig == [dvrs |-> dvDvrs,
           chans |-> [c \in {x \in DOMAIN dvChans : x[1] \in Ids} |-> dvChans[c]]]

Protocolless(cfg) == [dvrs |-> [id \in DOMAIN cfg.dvrs |-> cfg.dvrs[id].addr], chans |-> cfg.chans]

DvTypeOK ==
    /\ \A k \in DOMAIN dvKeys : dvKeys[k] \in [serial : Serials \cup {NoFacet}, mac : Macs \cup {NoFacet},
                                               addr : Addrs]
    /\ \A id \in Ids : id \in DOMAIN dvKeys
                       /\ dvDvrs[id] \in [addr : Addrs, protocol : Protocols \cup Selectable]
    /\ \A c \in DOMAIN dvChans : dvChans[c] \in [meta : {"found", "edited"}, order : Nat]
    /\ DOMAIN dvOp = AllThreads
    /\ dvConn \in BOOLEAN /\ dvStale \in BOOLEAN /\ dvBlind \in BOOLEAN

(* normalizeChannelDiscovery: sorted and numbered from 0.                  *)
Place(n, found) == Cardinality({m \in found : m < n})

(* A site with one recorder, from before there were keys: seedDeviceKeys   *)
(* gave it its id and its address.                                         *)
DvInit ==
    /\ dvKeys = [k \in {1} |-> [serial |-> NoFacet, mac |-> NoFacet, addr |-> SeedAddr]]
    /\ dvDvrs = [id \in {1} |-> [addr |-> SeedAddr, protocol |-> "auto"]]
    /\ dvChans = [c \in {<<1, n>> : n \in SeedRound} |->
                     [meta |-> "found", order |-> Place(c[2], SeedRound)]]
    /\ dvOp = [t \in AllThreads |-> DvIdle]
    /\ dvBegun = 0
    /\ dvConn = TRUE
    /\ dvRelay = DvConfig
    /\ dvStale = FALSE /\ dvBlind = FALSE
    /\ dvWanted = [id \in {1} |-> << >>]

-----------------------------------------------------------------------------
OpTo(t, op) == dvOp' = [dvOp EXCEPT ![t] = op]
DvRest == <<dvBegun, dvConn, dvRelay, dvStale, dvBlind>>

MayBegin(t) ==
    /\ dvOp[t] = DvIdle
    /\ dvBegun < MaxDvOps
    /\ dvBegun' = dvBegun + 1

(* Threads that are reading the tables for a configuration find it mixed   *)
(* when another one writes to them.                                        *)
Marked(t, op) ==
    [u \in AllThreads |->
        IF u = t THEN op
        ELSE IF dvOp[u].pc = "chans" THEN [dvOp[u] EXCEPT !.mixed = TRUE]
        ELSE dvOp[u]]

(* onChange: sendSurvConfig begins; reconnectAllDVRs sends once more when  *)
(* it is through.                                                          *)
SendThen(again) == [pc |-> "dvrs", again |-> again]
DvSend == SendThen(FALSE)

(* A statement that changes a table, after which the thread goes on as op. *)
Changed(t, op) == dvOp' = Marked(t, op)

-----------------------------------------------------------------------------
(* sendSurvConfig: the recorders, then the channels of each, then the      *)
(* message, which is lost while there is no connection.                    *)
SendLists(t) ==
    /\ dvOp[t].pc = "dvrs"
    /\ OpTo(t, [pc |-> "chans", again |-> dvOp[t].again, dvrs |-> dvDvrs, left |-> Ids,
                chans |-> [c \in {} |-> 0], mixed |-> FALSE])
    /\ UNCHANGED <<DvStore, DvRest, dvWanted>>

SendReads(t) ==
    LET op == dvOp[t]
    IN  /\ op.pc = "chans" /\ op.left # {}
        /\ LET id == Min(op.left)
           IN  OpTo(t, [op EXCEPT !.left = @ \ {id},
                                  !.chans = [c \in DOMAIN @ \cup ChansOf(id) |->
                                                IF c[1] = id THEN dvChans[c] ELSE @[c]]])
        /\ UNCHANGED <<DvStore, DvRest, dvWanted>>

SendWrites(t) ==
    LET op == dvOp[t]
    IN  /\ op.pc = "chans" /\ op.left = {}
        /\ OpTo(t, IF op.again THEN DvSend ELSE DvIdle)
        /\ IF dvConn
           THEN dvRelay' = [dvrs |-> op.dvrs, chans |-> op.chans] /\ dvStale' = op.mixed
           ELSE UNCHANGED <<dvRelay, dvStale>>
        /\ UNCHANGED <<DvStore, dvBegun, dvConn, dvBlind, dvWanted>>

ConnLost ==
    /\ dvConn
    /\ dvBegun < MaxDvOps /\ dvBegun' = dvBegun + 1
    /\ dvConn' = FALSE
    /\ UNCHANGED <<DvStore, dvOp, dvRelay, dvStale, dvBlind, dvWanted>>

(* connect ends with a sendSurvConfig of its own.                          *)
Connects ==
    /\ ~ dvConn /\ dvOp[Connector] = DvIdle
    /\ dvConn' = TRUE
    /\ OpTo(Connector, DvSend)
    /\ UNCHANGED <<DvStore, dvBegun, dvRelay, dvStale, dvBlind, dvWanted>>

-----------------------------------------------------------------------------
(* AddDVR and resolveStableKey.  A device that is to speak ISAPI is asked  *)
(* who it is first; it may tell its serial number, its MAC address, both   *)
(* or nothing, and any other is only known by its address.                 *)
FetchDeviceIdentity(protocol) ==
    IF protocol = "isapi" THEN Readings ELSE {[serial |-> NoFacet, mac |-> NoFacet]}

AddDVR(t, who, addr, protocol) ==
    /\ MayBegin(t)
    /\ OpTo(t, [pc |-> "match", serial |-> who.serial, mac |-> who.mac, addr |-> addr, protocol |-> protocol,
                key |-> 0])
    /\ dvBlind' = (dvBlind \/ \E u \in Threads : u # t /\ "addr" \in DOMAIN dvOp[u])
    /\ UNCHANGED <<DvStore, dvConn, dvRelay, dvStale, dvWanted>>

(* Keys whose facet is the one looked for.                                 *)
Having(facet, val) == IF val = NoFacet THEN {} ELSE {k \in DOMAIN dvKeys : dvKeys[k][facet] = val}

(* Mutant: the address is looked for first. *)
Matches_AddrFirst(op, failing) ==
    LET hits(facet) == IF facet \in failing THEN {} ELSE Having(facet, op[facet])
    IN  IF hits("addr") # {} THEN hits("addr")
        ELSE IF hits("serial") # {} THEN hits("serial") ELSE hits("mac")

(* The first facet that hits: serial, then mac, then address.  A query     *)
(* that fails is taken for one that finds nothing.                         *)
Matches(op, failing) ==
    LET hits(facet) == IF facet \in failing THEN {} ELSE Having(facet, op[facet])
    IN  IF hits("serial") # {} THEN hits("serial")
        ELSE IF hits("mac") # {} THEN hits("mac") ELSE hits("addr")

MissesSerial(op, failing) == "serial" \in failing /\ Having("serial", op.serial) # {}

GoOnWith(t, op, found) ==
    IF found # {} THEN \E k \in found : OpTo(t, [op EXCEPT !.pc = "enrich", !.key = k])
    ELSE OpTo(t, [op EXCEPT !.pc = "max"])

KeyMatch(t) ==
    LET op == dvOp[t]
    IN  /\ op.pc = "match"
        /\ \E failing \in SUBSET {"serial", "mac", "addr"} :
              /\ GoOnWith(t, op, Matches(op, failing))
              /\ dvBlind' = (dvBlind \/ MissesSerial(op, failing))
        /\ UNCHANGED <<DvStore, dvBegun, dvConn, dvRelay, dvStale, dvWanted>>

(* Mutant: what the device says now is taken. *)
Enriched_Overwrites(row, op) ==
    [serial |-> IF op.serial # NoFacet THEN op.serial ELSE row.serial,
     mac |-> IF op.mac # NoFacet THEN op.mac ELSE row.mac,
     addr |-> op.addr]

(* enrichDeviceKey: only empty facets are filled.                          *)
Enriched(row, op) ==
    [serial |-> IF row.serial = NoFacet THEN op.serial ELSE row.serial,
     mac |-> IF row.mac = NoFacet THEN op.mac ELSE row.mac,
     addr |-> IF row.addr = NoFacet THEN op.addr ELSE row.addr]

EnrichDeviceKey(t) ==
    LET op == dvOp[t]
    IN  /\ op.pc = "enrich"
        /\ dvKeys' = [dvKeys EXCEPT ![op.key] = Enriched(@, op)]
        /\ OpTo(t, [op EXCEPT !.pc = "row"])
        /\ UNCHANGED <<dvDvrs, dvChans, DvRest, dvWanted>>

(* When this query fails, the key is 1.                                    *)
KeyMax(t) ==
    LET op == dvOp[t]
    IN  /\ op.pc = "max"
        /\ \E max \in {0, Max(DOMAIN dvKeys \cup {0})} : OpTo(t, [op EXCEPT !.pc = "key", !.key = max + 1])
        /\ UNCHANGED <<DvStore, DvRest, dvWanted>>

(* The insert fails when another thread has taken the key.                 *)
KeyInsert(t) ==
    LET op == dvOp[t]
    IN  /\ op.pc = "key"
        /\ IF op.key \in DOMAIN dvKeys THEN OpTo(t, DvIdle) /\ UNCHANGED dvKeys
           ELSE /\ dvKeys' = [k \in DOMAIN dvKeys \cup {op.key} |->
                                 IF k = op.key
                                 THEN [serial |-> op.serial, mac |-> op.mac, addr |-> op.addr]
                                 ELSE dvKeys[k]]
                /\ OpTo(t, [op EXCEPT !.pc = "row"])
        /\ UNCHANGED <<dvDvrs, dvChans, DvRest, dvWanted>>

AddRow(t) ==
    LET op == dvOp[t]
        row == [addr |-> op.addr, protocol |-> op.protocol]
    IN  /\ op.pc = "row"
        /\ dvDvrs' = [id \in Ids \cup {op.key} |-> IF id = op.key THEN row ELSE dvDvrs[id]]
        /\ dvWanted' = [id \in DOMAIN dvWanted \cup {op.key} |->
                         IF id \in DOMAIN dvWanted THEN dvWanted[id] ELSE << >>]
        /\ Changed(t, DvSend)
        /\ UNCHANGED <<dvKeys, dvChans, DvRest>>

-----------------------------------------------------------------------------
(* One-statement operations, each followed by a send.                      *)
UpdateDVR(t, id, addr, protocol) ==
    /\ MayBegin(t) /\ id \in Ids
    /\ dvDvrs' = [dvDvrs EXCEPT ![id] = [addr |-> addr, protocol |-> protocol]]
    /\ Changed(t, DvSend)
    /\ UNCHANGED <<dvKeys, dvChans, dvConn, dvRelay, dvStale, dvBlind, dvWanted>>

(* The channels stay: SQLite only cascades with foreign_keys on, and       *)
(* nothing turns it on.                                                    *)
DeleteDVR(t, id) ==
    /\ MayBegin(t) /\ id \in Ids
    /\ dvDvrs' = [i \in Ids \ {id} |-> dvDvrs[i]]
    /\ Changed(t, DvSend)
    /\ UNCHANGED <<dvKeys, dvChans, dvConn, dvRelay, dvStale, dvBlind, dvWanted>>

(* Mutant: the relay is not told. *)
ClearDVRChannels_Silent(t, id) ==
    /\ MayBegin(t) /\ id \in Ids
    /\ dvChans' = [c \in DOMAIN dvChans \ ChansOf(id) |-> dvChans[c]]
    /\ dvWanted' = [dvWanted EXCEPT ![id] = << >>]
    /\ Changed(t, DvIdle)
    /\ UNCHANGED <<dvKeys, dvDvrs, dvConn, dvRelay, dvStale, dvBlind>>

ClearDVRChannels(t, id) ==
    /\ MayBegin(t) /\ id \in Ids
    /\ dvChans' = [c \in DOMAIN dvChans \ ChansOf(id) |-> dvChans[c]]
    /\ dvWanted' = [dvWanted EXCEPT ![id] = << >>]
    /\ Changed(t, DvSend)
    /\ UNCHANGED <<dvKeys, dvDvrs, dvConn, dvRelay, dvStale, dvBlind>>

ResetDB(t) ==
    /\ MayBegin(t)
    /\ dvDvrs' = [i \in {} |-> 0]
    /\ dvChans' = [c \in {} |-> 0]
    /\ dvWanted' = [id \in DOMAIN dvWanted |-> << >>]
    /\ Changed(t, DvSend)
    /\ UNCHANGED <<dvKeys, dvConn, dvRelay, dvStale, dvBlind>>

(* RenameChannel and SetChannelHiRes; a channel that is not there is left. *)
EditChannel(t, c) ==
    /\ MayBegin(t) /\ c \in DOMAIN dvChans
    /\ dvChans' = [dvChans EXCEPT ![c].meta = "edited"]
    /\ Changed(t, DvSend)
    /\ UNCHANGED <<dvKeys, dvDvrs, dvConn, dvRelay, dvStale, dvBlind, dvWanted>>

(* ReorderChannels, in a transaction: each number of the list in turn, so  *)
(* that of one that is there twice the later place counts.                 *)
LastPlaces(order) == {i \in DOMAIN order : \A j \in DOMAIN order : order[j] = order[i] => j <= i}

ReorderChannels(t, id, order) ==
    /\ MayBegin(t) /\ id \in Ids
    /\ dvChans' = [c \in DOMAIN dvChans |->
                      IF c[1] = id /\ c[2] \in ToSet(order)
                      THEN [dvChans[c] EXCEPT !.order = (CHOOSE i \in LastPlaces(order) : order[i] = c[2]) - 1]
                      ELSE dvChans[c]]
    /\ dvWanted' = [dvWanted EXCEPT ![id] =
                       Picked(order, {i \in LastPlaces(order) : <<id, order[i]>> \in DOMAIN dvChans})]
    /\ Changed(t, DvSend)
    /\ UNCHANGED <<dvKeys, dvDvrs, dvConn, dvRelay, dvStale, dvBlind>>

-----------------------------------------------------------------------------
(* DiscoverChannels, begun by the web UI, by the relay or by healDVRs.     *)
Discovery(t, id, again) ==
    /\ MayBegin(t) /\ id \in Ids
    /\ OpTo(t, [pc |-> "probe", again |-> again, id |-> id, protocol |-> dvDvrs[id].protocol])
    /\ UNCHANGED <<DvStore, dvConn, dvRelay, dvStale, dvBlind, dvWanted>>

DiscoverChannels(t, id) == Discovery(t, id, FALSE)

(* reconnectAllDVRs, at the last of the recorders it listed; for the ones  *)
(* before it is a DiscoverChannels like any other.                         *)
ReconnectAllDVRs(t, id) == Discovery(t, id, TRUE)

(* healDVRs, at a recorder that has no channels.                           *)
HealDVRs(t, id) == ChansOf(id) = {} /\ Discovery(t, id, FALSE)

(* A protocol is probed for and kept when it is not known or did not work. *)
ProbeDVRProtocol(t) ==
    LET op == dvOp[t]
    IN  /\ op.pc = "probe"
        /\ \E p \in Protocols :
              /\ OpTo(t, [pc |-> "found", again |-> op.again, id |-> op.id])
              /\ dvDvrs' = [i \in Ids |-> IF i = op.id THEN [dvDvrs[i] EXCEPT !.protocol = p] ELSE dvDvrs[i]]
        /\ UNCHANGED <<dvKeys, dvChans, DvRest, dvWanted>>

ProbeNotNeeded(t) ==
    LET op == dvOp[t]
    IN  /\ op.pc = "probe" /\ op.protocol # "auto"
        /\ OpTo(t, [pc |-> "found", again |-> op.again, id |-> op.id])
        /\ UNCHANGED <<DvStore, DvRest, dvWanted>>

(* Nothing found: an error and no onChange, or (of ONVIF) an empty list.   *)
FindsNone(t) ==
    LET again == dvOp[t].again
    IN  /\ dvOp[t].pc = "found"
        /\ OpTo(t, IF again THEN DvSend ELSE DvIdle) \/ OpTo(t, SendThen(again))
        /\ UNCHANGED <<DvStore, DvRest, dvWanted>>

Finds(t) ==
    LET op == dvOp[t]
    IN  /\ op.pc = "found"
        /\ \E found \in Rounds :
              OpTo(t, [pc |-> "upsert", again |-> op.again, id |-> op.id, found |-> found, left |-> found])
        /\ UNCHANGED <<DvStore, DvRest, dvWanted>>

(* Mutant: the order is taken from the round too. *)
Upserted_Order(row, place) == [row EXCEPT !.order = place]

(* ON CONFLICT: the name, the order and the resolution stay.               *)
Upserted(row, place) == row

UpsertChannel(t) ==
    LET op == dvOp[t]
        n == Min(op.left)
        c == <<op.id, n>>
        place == Place(n, op.found)
        row == IF c \in DOMAIN dvChans THEN Upserted(dvChans[c], place)
               ELSE [meta |-> "found", order |-> place]
    IN  /\ op.pc = "upsert"
        /\ dvChans' = [d \in DOMAIN dvChans \cup {c} |-> IF d = c THEN row ELSE dvChans[d]]
        /\ Changed(t, IF op.left = {n} THEN SendThen(op.again) ELSE [op EXCEPT !.left = @ \ {n}])
        /\ UNCHANGED <<dvKeys, dvDvrs, DvRest, dvWanted>>

ThreadStep(t) ==
    \/ SendLists(t) \/ SendReads(t) \/ SendWrites(t)
    \/ KeyMatch(t) \/ EnrichDeviceKey(t) \/ KeyMax(t) \/ KeyInsert(t) \/ AddRow(t)
    \/ ProbeDVRProtocol(t) \/ ProbeNotNeeded(t) \/ FindsNone(t) \/ Finds(t) \/ UpsertChannel(t)

-----------------------------------------------------------------------------
(* Who begins what.  The web UI: handleSurvDVRs, handleSurvDVR.            *)
HandleSurvDVRs(t) ==
    \E a \in Addrs, p \in Selectable : \E who \in FetchDeviceIdentity(p) : AddDVR(t, who, a, p)

HandleSurvDVR(t, id) ==
    \/ DiscoverChannels(t, id) \/ ClearDVRChannels(t, id) \/ DeleteDVR(t, id)
    \/ \E a \in Addrs, p \in Selectable : UpdateDVR(t, id, a, p)

(* An edit the relay passes on, or the web UI's own of the same kind.      *)
ApplySurvMeta(t) ==
    \/ \E c \in DOMAIN dvChans : EditChannel(t, c)
    \/ \E id \in Ids, order \in NewOrders : ReorderChannels(t, id, order)

DvNext ==
    \/ ConnLost \/ Connects
    \/ \E t \in AllThreads : ThreadStep(t)
    \/ \E t \in Threads :
          \/ HandleSurvDVRs(t) \/ ApplySurvMeta(t) \/ ResetDB(t)
          \/ \E id \in Ids : HandleSurvDVR(t, id) \/ ReconnectAllDVRs(t, id) \/ HealDVRs(t, id)

DvSpec == DvInit /\ [][DvNext]_dvVars

-----------------------------------------------------------------------------
(* No two keys have the same serial number, ...                            *)
OneKeyEach ==
    \A j, k \in DOMAIN dvKeys :
        dvKeys[j].serial = dvKeys[k].serial /\ dvKeys[j].serial # NoFacet => j = k

(* ... a recorder whose serial number is on record is added under the key  *)
(* that has it, whatever address it is at now and whosever that was, ...   *)
Keyed(t) == dvOp[t].pc = "row" /\ "serial" \in DOMAIN dvOp[t]

OwnKey == \A t \in AllThreads : Keyed(t) => Having("serial", dvOp[t].serial) \subseteq {dvOp[t].key}

(* ... and a key keeps its serial number.                                  *)
SerialsStay ==
    \A k \in DOMAIN dvKeys : dvKeys[k].serial # NoFacet =>
        k \in DOMAIN dvKeys' /\ dvKeys'[k].serial = dvKeys[k].serial

(* A serial number that is on record belongs to one key for ever, whatever *)
(* addresses the devices had, were re-added at or swapped, in whatever     *)
(* order their facets became known and however often the store was reset   *)
(* (surveillance.go, resolveStableKey), unless two AddDVR ran at once or   *)
(* the look-up of a serial number that is there failed.  It is the numbers *)
(* that have one key: a device whose number is new gets the key of the one *)
(* it replaces at an address.                                              *)
IdentityHasOneKey == [](dvBlind \/ (OneKeyEach /\ OwnKey)) /\ [][SerialsStay]_dvVars

(* orderStreams: the relay shows a recorder's channels by their order and  *)
(* then by their number, whatever the order they come in.                  *)
OrderStreams(id, cfg) ==
    LET mine == {c \in DOMAIN cfg.chans : c[1] = id}
    IN  Sorted(mine, {p \in mine \X mine :
                         \/ cfg.chans[p[1]].order < cfg.chans[p[2]].order
                         \/ cfg.chans[p[1]].order = cfg.chans[p[2]].order /\ p[1][2] < p[2][2]})

Shown(id, cfg) == LET streams == OrderStreams(id, cfg) IN [i \in DOMAIN streams |-> streams[i][2]]

(* Once everything is sent, the channels an operator put in an order are   *)
(* shown in it, also after rounds of discovery that missed some of them or *)
(* brought new ones between them ("so reorder edits never 'stuck'",        *)
(* dashboard_state.go:96).                                                 *)
AllSent == dvConn /\ ~ dvStale /\ \A t \in AllThreads : dvOp[t] = DvIdle

ReorderSticks ==
    AllSent => \A id \in DOMAIN dvRelay.dvrs :
        LET shown == Shown(id, dvRelay)
        IN  Picked(shown, {i \in DOMAIN shown : shown[i] \in ToSet(dvWanted[id])}) = dvWanted[id]

(* When every thread is through, the relay has what the tables have, also  *)
(* after a lost connection, unless the last configuration was read while   *)
(* another thread wrote, and then the next one puts it right (agent.go,    *)
(* sendSurvConfig).  Protocols are left out: a discovery that fails keeps  *)
(* the one it probed and tells nobody.                                     *)
RelayHasIt == AllSent => Protocolless(dvRelay) = Protocolless(DvConfig)

(* What the operator arranged stays and arrives: discovery leaves his order
   alone, and once everything is sent the relay has the agent's devices
   (surveillance.go, DiscoverChannels; agent.go, sendSurvConfig). *)
RelayShowsIt == RelayHasIt /\ ReorderSticks
=============================================================================
