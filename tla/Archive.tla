------------------------------ MODULE Archive ------------------------------
(***************************************************************************)
(* The recordings of one channel: ffmpeg (see Recorder) writes segment     *)
(* files, the janitor (relay/recorder.go) keeps the disk under its cap and *)
(* asks EventStore which footage shows an event, and the index             *)
(* (relay/recordings.go) lists the files for the dashboard's timeline,     *)
(* export and thumbnails through a cache keyed by the directory's mtime.   *)
(* A change of the directory gives it an mtime it never had.               *)
(***************************************************************************)
EXTENDS EventStore, FiniteSetsExt

CONSTANTS
    SegSecs,        \* r.segSecs
    SegSize,        \* what a file grows to
    MaxSegs,        \* files ffmpeg opens
    Cap,            \* r.capBytes
    KeepAllSecs,    \* RELAY_REC_KEEP_ALL_HOURS
    KeepEventSecs,  \* RELAY_REC_KEEP_EVENT_DAYS
    IdxCap,         \* recSegIdxCap
    Gap,            \* recTimelineMergeGapSec
    MaxFailures,    \* os.Remove that fail
    MaxCrashes,     \* restarts of the relay
    MaxReads,       \* requests that read the disk, and plates found
    Budget          \* edges, files, listings, failures and restarts together

ASSUME ArchiveAssumption ==
    /\ SegSecs \in Nat \ {0} /\ SegSize \in Nat \ {0} /\ MaxSegs \in Nat
    /\ SegSecs * MsPerSec < DayMs
    /\ Cap \in Nat /\ KeepAllSecs \in Nat /\ KeepEventSecs \in Nat
    /\ IdxCap \in Nat \ {0} /\ Gap \in Nat /\ MaxFailures \in Nat /\ MaxCrashes \in Nat /\ Budget \in Nat
    /\ MaxReads \in Nat

VARIABLES
    disk,      \* the segment files: the second in the name, and the size
    opened,    \* files opened so far
    mtime,     \* of the channel's directory, 0 while there is none
    jan,       \* where runJanitor is: "idle" or "scanned"
    toDelete,  \* what the janitor is about to delete
    failures,
    crashes,
    reader,    \* a request that lists a day
    reads,
    segCache   \* r.segCache: per day [mtime, segs]; mtime 0 for no entry

diskVars == <<disk, opened, mtime, jan, toDelete, failures, crashes>>
idxVars == <<reader, reads, segCache>>
vars == <<clock, evVars, diskVars, idxVars>>

Secs == 0 .. SecOf(MaxTime)
Seg == [start : Secs, size : 1 .. SegSize]
Total(segs) == MapThenSumSet(LAMBDA s : s.size, segs)
NoEntry == [mtime |-> 0, segs |-> {}]
Idle == [pc |-> "idle", day |-> 0, mtime |-> 0, segs |-> {}]

TypeOK ==
    /\ clock \in 0 .. MaxTime
    /\ \A k \in Kinds : open[k].startMs \in 0 .. MaxTime
    /\ \A d \in Days : \A i \in DOMAIN filed[d] : filed[d][i] \in Interval
    /\ disk \subseteq Seg
    /\ jan \in {"idle", "scanned"} /\ toDelete \subseteq Secs
    /\ reader.pc \in {"idle", "list", "store"}

Spent == edges + opened + reads + failures + crashes
Affords == Spent < Budget

Init ==
    /\ EvInit
    /\ clock = 0
    /\ disk = {} /\ opened = 0 /\ mtime = 0
    /\ jan = "idle" /\ toDelete = {} /\ failures = 0 /\ crashes = 0
    /\ reader = Idle /\ reads = 0
    /\ segCache = [d \in Days |-> NoEntry]

Tick ==
    /\ clock < MaxTime
    /\ clock' = clock + 1
    /\ UNCHANGED <<evVars, diskVars, idxVars>>

-----------------------------------------------------------------------------
Edges ==
    /\ Affords
    /\ \E k \in Kinds : AddEdge(k)
    /\ UNCHANGED <<clock, diskVars, idxVars>>

(* The result of plate recognition for a snapshot taken at ts. *)
PlateFound ==
    /\ reads < MaxReads /\ Affords
    /\ reads' = reads + 1
    /\ \E ts \in 1 .. clock : \E p \in Plates : UpdateOpenPlate(ts, p)
    /\ UNCHANGED <<clock, diskVars, reader, segCache>>

EventsRead ==
    /\ reads < MaxReads /\ Affords
    /\ reads' = reads + 1
    /\ \E d \in Days : LoadDay(d)
    /\ UNCHANGED <<clock, diskVars, reader, segCache>>

(* ffmpeg opens the file named after this second; a file of that name is   *)
(* overwritten.                                                            *)
SegmentOpens ==
    /\ opened < MaxSegs /\ Affords
    /\ opened' = opened + 1
    /\ disk' = {s \in disk : s.start # SecOf(clock)} \cup {[start |-> SecOf(clock), size |-> 1]}
    /\ mtime' = IF \E s \in disk : s.start = SecOf(clock) THEN mtime ELSE mtime + 1
    /\ UNCHANGED <<clock, evVars, jan, toDelete, failures, crashes, idxVars>>

(* Mutant: a file grows past its length. *)
SegmentGrows_On ==
    /\ \E s \in disk :
        /\ \A t \in disk : t.start <= s.start
        /\ disk' = (disk \ {s}) \cup {[s EXCEPT !.size = @ + 1]}
    /\ UNCHANGED <<clock, evVars, opened, mtime, jan, toDelete, failures, crashes, idxVars>>

(* ffmpeg appends to the newest file. *)
SegmentGrows ==
    /\ \E s \in disk :
        /\ \A t \in disk : t.start <= s.start
        /\ s.size < SegSize
        /\ disk' = (disk \ {s}) \cup {[s EXCEPT !.size = @ + 1]}
    /\ UNCHANGED <<clock, evVars, opened, mtime, jan, toDelete, failures, crashes, idxVars>>

(* The relay is restarted: files and directories are what it finds. *)
Restart ==
    /\ crashes < MaxCrashes /\ Affords
    /\ crashes' = crashes + 1
    /\ EvRestart
    /\ reader' = Idle /\ segCache' = [d \in Days |-> NoEntry]
    /\ jan' = "idle" /\ toDelete' = {}
    /\ UNCHANGED <<clock, disk, opened, mtime, failures, reads>>

-----------------------------------------------------------------------------
(* The janitor.                                                            *)

Tagged == {[start |-> s.start, size |-> s.size,
            event |-> Overlaps(s.start, s.start + SegSecs)] : s \in disk}

(* Mutant: footage with an event goes like any other. *)
Tier_NoEvents(s, now) == IF s.start >= now - KeepAllSecs THEN 4 ELSE 1

(* The tiers of janitorDeleteOrder, in the order they are sacrificed. *)
Tier(s, now) ==
    IF s.start >= now - KeepAllSecs THEN 4
    ELSE IF ~ s.event THEN 1
    ELSE IF s.start < now - KeepEventSecs THEN 2
    ELSE 3

(* Tier by tier, and in a tier the oldest first. *)
Before(a, b, now) ==
    \/ Tier(a, now) < Tier(b, now)
    \/ Tier(a, now) = Tier(b, now) /\ a.start < b.start

(* janitorDeleteOrder: the names that go.  A file goes when the disk is    *)
(* still over its cap without those before it.                             *)
JanitorDeleteOrder(segs, now) ==
    {s.start : s \in {x \in segs :
        Total(segs) - Total({y \in segs : Before(y, x, now)}) > Cap}}

(* Mutant: the janitor gives up after a file that could not be removed. *)
JanitorScans_GiveUp ==
    /\ jan = "idle" /\ failures = 0
    /\ Cap > 0 /\ Total(disk) > Cap
    /\ toDelete' = JanitorDeleteOrder(Tagged, SecOf(clock))
    /\ jan' = "scanned"
    /\ UNCHANGED <<clock, evVars, disk, opened, mtime, failures, crashes, idxVars>>

(* runJanitor: walk the directory and decide ... *)
JanitorScans ==
    /\ jan = "idle"
    /\ Cap > 0 /\ Total(disk) > Cap
    /\ toDelete' = JanitorDeleteOrder(Tagged, SecOf(clock))
    /\ jan' = "scanned"
    /\ UNCHANGED <<clock, evVars, disk, opened, mtime, failures, crashes, idxVars>>

(* ... and delete one file after the other, here in any order; one that    *)
(* cannot be removed is skipped.                                           *)
JanitorDeletes ==
    /\ jan = "scanned"
    /\ \E name \in toDelete :
        /\ \/ /\ disk' = {s \in disk : s.start # name}
              /\ mtime' = mtime + 1
              /\ UNCHANGED failures
           \/ /\ failures < MaxFailures
              /\ failures' = failures + 1
              /\ UNCHANGED <<disk, mtime>>
        /\ toDelete' = toDelete \ {name}
    /\ jan' = IF toDelete' = {} THEN "idle" ELSE "scanned"
    /\ UNCHANGED <<clock, evVars, opened, crashes, idxVars>>

-----------------------------------------------------------------------------
(* indexedSegments, with steps of its own: stat, list, store.              *)

IndexStat(d) ==
    /\ reader.pc = "idle"
    /\ mtime # 0
    /\ segCache[d].mtime # mtime
    /\ reads < MaxReads /\ Affords
    /\ reads' = reads + 1
    /\ reader' = [pc |-> "list", day |-> d, mtime |-> mtime, segs |-> {}]
    /\ UNCHANGED <<clock, evVars, diskVars, segCache>>

OnDay(d) == {s \in disk : DayOf(s.start) = d}

(* Mutant: the directory's mtime is taken after it was listed. *)
IndexList_StatLate ==
    /\ reader.pc = "list"
    /\ \/ reader' = [reader EXCEPT !.pc = "store", !.segs = OnDay(reader.day), !.mtime = mtime + 1]
       \/ reader' = [reader EXCEPT !.pc = "store", !.segs = OnDay(reader.day)]
    /\ UNCHANGED <<clock, evVars, diskVars, reads, segCache>>

IndexList ==
    /\ reader.pc = "list"
    /\ reader' = [reader EXCEPT !.pc = "store", !.segs = OnDay(reader.day)]
    /\ UNCHANGED <<clock, evVars, diskVars, reads, segCache>>

IndexStore ==
    LET kept == IF Cardinality({d \in Days : segCache[d] # NoEntry}) >= IdxCap
                THEN [d \in Days |-> NoEntry] ELSE segCache
    IN  /\ reader.pc = "store"
        /\ segCache' = [kept EXCEPT ![reader.day] = [mtime |-> reader.mtime, segs |-> reader.segs]]
        /\ reader' = Idle
        /\ UNCHANGED <<clock, evVars, diskVars, reads>>

(* Durations: the gap to the next name, at most a segment. *)
Dur(s, segs) ==
    LET gaps == {t.start - s.start : t \in {x \in segs : x.start > s.start}}
    IN  Min(gaps \cup {SegSecs})

(* Mutant: only the days of the window itself are read. *)
ExportBand_Window(start, end) == start .. end

(* The seconds whose names segmentsForExport looks at. *)
ExportBand(start, end) == (start - SegSecs) .. (end + SegSecs)

(* A day as indexedSegments answers it at once: the listing it has cached  *)
(* if the directory's mtime is still the same, or else the directory.      *)
ListedDay(d) ==
    IF segCache[d] # NoEntry /\ segCache[d].mtime = mtime THEN segCache[d].segs ELSE OnDay(d)

(* segmentsForExport, which export, timeline, thumbnails and sprites use:  *)
(* the days of the widened window are joined and what is outside of it, or *)
(* no file any more, is dropped before durations are computed.             *)
SegmentsForExport(start, end) ==
    LET days == DaysInRange(start - SegSecs, end + SegSecs) \cap Days
        band == {s \in UNION {ListedDay(d) : d \in days} :
                    /\ s.start \in ExportBand(start, end)
                    /\ \E f \in disk : f.start = s.start}
    IN  {s.start : s \in {x \in band : x.start < end /\ x.start + Dur(x, band) > start}}

Next ==
    \/ Tick \/ Edges \/ PlateFound \/ EventsRead \/ Restart
    \/ SegmentOpens \/ SegmentGrows
    \/ JanitorScans \/ JanitorDeletes
    \/ \E d \in Days : IndexStat(d)
    \/ IndexList \/ IndexStore

(* The janitor's ticker fires again and again, and Run takes every case    *)
(* that is ready again and again.                                          *)
Fairness == SF_vars(JanitorScans) /\ WF_vars(JanitorDeletes)

Spec == Init /\ [][Next]_vars /\ Fairness

-----------------------------------------------------------------------------
(* A line of this interval could not be written: it may be in the file of  *)
(* one of its two days only.                                               *)
LostALine(iv) == \E d \in Days : <<d, iv>> \in unwritten

(* overlaps, which looks at one or two day files, finds every interval any *)
(* file holds that overlaps a segment, around midnight too, unless a line  *)
(* of it was lost: the janitor never takes a segment with an event for one *)
(* without (events.go, closeInterval and overlaps).                        *)
OverlapsIsExact ==
    \A s \in Secs :
        LET Meets(iv) == iv.start < s + SegSecs /\ iv.end > s
        IN  /\ Overlaps(s, s + SegSecs) => \E d \in Days : \E iv \in ToSet(filed[d]) : Meets(iv)
            /\ \A d \in Days : \A iv \in ToSet(filed[d]) :
                Meets(iv) /\ ~ LostALine(iv) => Overlaps(s, s + SegSecs)

(* The timeline of any window shows every filed event it overlaps exactly  *)
(* once, unless a line of it was lost: each lies within a mark of its      *)
(* kind, or is motion and the stretch of motion it belongs to is left out  *)
(* for a mark of a more specific kind within Gap of it.  Marks of one kind *)
(* are further apart than Gap, although an event across midnight is in two *)
(* files (rectimeline.go, timelineFor; events.go, clusterEventItems).      *)
TimelineFaithful ==
    \A a, b \in Secs : a < b =>
        LET marks == TimelineEvents(a, b, Gap)
            Beside(m) == \E k \in Kinds \ {"motion"} : \E n \in marks[k] :
                            m[1] <= n[2] + Gap /\ n[1] <= m[2] + Gap
            Shown(iv, m) == m[1] <= iv.start /\ iv.end <= m[2]
        IN  /\ \A d \in Days : \A iv \in ToSet(filed[d]) :
                iv.start < b /\ iv.end > a /\ ~ LostALine(iv) =>
                    \/ \E m \in marks[iv.kind] : Shown(iv, m)
                    \/ /\ iv.kind = "motion"
                       /\ \E m \in MergeItems(Items(a, b), "motion", Gap) : Shown(iv, m) /\ Beside(m)
            /\ \A k \in Kinds : \A m, n \in marks[k] : m = n \/ n[1] - m[2] > Gap \/ m[1] - n[2] > Gap

(* An interval that is open is not forgotten while the relay runs: when    *)
(* its end, or another start, takes it from the map, it is, not longer     *)
(* than MaxEventMs and with the plate it had, the last line of the file of *)
(* every day it touches and of what a read of that day answers; but for    *)
(* days whose file could not be written, of which nothing else is lost     *)
(* (events.go, add, closeInterval, fileInterval and updateOpenPlate).      *)
OpenIsFiled ==
    [][\A k \in Kinds :
        open[k] # NotOpen /\ open'[k].startMs # open[k].startMs /\ crashes' = crashes =>
            \E end \in SecOf(open[k].startMs) .. SecOf(open[k].startMs + MaxEventMs) :
                LET iv == [start |-> SecOf(open[k].startMs), end |-> end,
                           kind |-> k, plate |-> open[k].plate]
                IN  \A d \in {DayOf(iv.start), DayOf(iv.end)} :
                        /\ \/ filed'[d] = Append(filed[d], iv)
                           \/ filed'[d] = filed[d] /\ <<d, iv>> \in unwritten'
                        /\ EventsForDay(d)' = filed'[d]]_vars

(* What the janitor would delete now brings the disk under its cap and no  *)
(* further, and it takes nothing of the keep-all window while anything     *)
(* older is left, and nothing older with an event while anything older     *)
(* without one is left (recorder.go, janitorDeleteOrder).                  *)
DeletesWhatItMust ==
    LET now  == SecOf(clock)
        gone == {s \in Tagged : s.start \in JanitorDeleteOrder(Tagged, now)}
        left == Tagged \ gone
        Recent(s) == s.start >= now - KeepAllSecs
    IN  /\ Total(left) <= Cap
        /\ gone # {} => \E s \in gone : Total(left \cup {s}) > Cap
        /\ \A s \in gone : \A t \in left :
            /\ Recent(s) => Recent(t)
            /\ s.event /\ ~ t.event => Recent(t)

(* A cached listing that the directory's mtime still vouches for is what   *)
(* the directory holds, however recorder, janitor and request interleave   *)
(* (recordings.go, indexedSegments).                                       *)
IndexFresh ==
    \A d \in Days : segCache[d] # NoEntry /\ segCache[d].mtime = mtime =>
        {s.start : s \in segCache[d].segs} = {s.start : s \in OnDay(d)}

(* A window's export holds every file with footage of the window, by the   *)
(* durations the whole directory gives, and no other (recordings.go,       *)
(* segmentsForExport).                                                     *)
ExportIsComplete ==
    \A a, b \in Secs : a < b =>
        SegmentsForExport(a, b) =
            {s.start : s \in {x \in disk : x.start < b /\ x.start + Dur(x, disk) > a}}

(* A disk over its cap gets under it again, although files fail to be      *)
(* removed, ffmpeg goes on writing and the relay restarts (recorder.go,    *)
(* runJanitor).                                                            *)
OverCapIsCleared ==
    Total(disk) > Cap ~> Total(disk) <= Cap

(* What was filed is found again: by the overlap test the janitor tags
   segments with, and by the marks of the timeline (events.go, overlaps;
   rectimeline.go, timelineFor). *)
EventsAreFound == OverlapsIsExact /\ TimelineFaithful

(* What the index tells its callers: a cached listing in use is what the
   directory holds, and an export has every file with footage of its window
   (recordings.go, indexedSegments and segmentsForExport). *)
ListingsAreRight == TypeOK /\ IndexFresh /\ ExportIsComplete
=============================================================================
