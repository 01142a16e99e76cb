----------------------------- MODULE EventStore -----------------------------
(***************************************************************************)
(* relay/events.go: the edges of a channel's camera events are paired into *)
(* intervals, which are appended to one file per day and read back through *)
(* a cache.  One stream: streams share nothing but lock stripes.  Edges    *)
(* carry milliseconds, intervals seconds; MsPerSec and DayMs give the      *)
(* lengths, and the stream lock makes add, a read and an update of a plate *)
(* one step each.  The edges of a stream come in order over one            *)
(* connection; an end may be missing, and a start may be repeated.         *)
(* Writing a line may fail, as a whole; reading a file does not.           *)
(***************************************************************************)
EXTENDS Integers, Sequences, SequencesExt, FiniteSets

CONSTANTS
    Kinds,
    Plates,
    MsPerSec, DayMs,
    MaxEventMs,   \* e.maxEventMs
    MaxTime,      \* last instant of a behaviour, in ms
    MaxEdges,     \* edges that arrive
    MaxUnwritten  \* lines that cannot be written

ASSUME EventAssumption ==
    /\ MsPerSec \in Nat \ {0} /\ DayMs \in Nat \ {0} /\ DayMs % MsPerSec = 0
    /\ MaxEventMs \in Nat \ {0} /\ MaxEventMs < DayMs
    /\ MaxTime \in Nat /\ MaxEdges \in Nat /\ MaxUnwritten \in Nat

VARIABLES
    clock,     \* the present, in ms
    open,      \* e.open: per kind, when the open interval began (0: none)
    filed,     \* per day, the lines of its file
    dayCache,  \* e.cache: per day, the lines read and the file's length then
    unwritten, \* history: the lines, with their days, that were lost
    edges      \* edges so far

evVars == <<open, filed, dayCache, unwritten, edges>>

NoPlate == "none"

SecOf(ms) == ms \div MsPerSec
DayOfMs(ms) == ms \div DayMs
DayOf(sec) == (sec * MsPerSec) \div DayMs
Days == 0 .. DayOfMs(MaxTime + MaxEventMs)

NotOpen == [startMs |-> 0, plate |-> NoPlate]
NotCached == [len |-> 0, ivals |-> <<>>]

Interval == [start : Nat, end : Nat, kind : Kinds, plate : Plates \cup {NoPlate}]

EvInit ==
    /\ open = [k \in Kinds |-> NotOpen]
    /\ filed = [d \in Days |-> <<>>]
    /\ dayCache = [d \in Days |-> NotCached]
    /\ unwritten = {}
    /\ edges = 0

(* fileInterval, for each of some days: append to its file, then forget    *)
(* the day.  An error of MkdirAll, OpenFile or Write is dropped, and the   *)
(* line with it: the interval has left e.open by then.                     *)
FileInterval(on, iv) ==
    \E lost \in SUBSET on :
        /\ unwritten' = unwritten \cup (lost \X {iv})
        /\ Cardinality(unwritten') <= MaxUnwritten
        /\ filed' = [d \in Days |-> IF d \in on \ lost THEN Append(filed[d], iv) ELSE filed[d]]
        /\ dayCache' = [d \in Days |-> IF d \in on THEN NotCached ELSE dayCache[d]]

Closed(k, cur, endMs) ==
    [start |-> SecOf(cur.startMs), end |-> SecOf(endMs), kind |-> k, plate |-> cur.plate]

(* Mutant: an interval is filed on the day it starts only. *)
CloseInterval_StartDay(k, cur, endMs) ==
    FileInterval({DayOfMs(cur.startMs)}, Closed(k, cur, endMs))

(* closeInterval: filed on the day it starts and on the day it ends. *)
CloseInterval(k, cur, endMs) ==
    FileInterval({DayOfMs(cur.startMs), DayOfMs(endMs)}, Closed(k, cur, endMs))

(* Mutant: a repeated start replaces the open interval without filing it. *)
StartEdge_Overwrite(k) ==
    /\ open' = [open EXCEPT ![k] = [startMs |-> clock, plate |-> NoPlate]]
    /\ UNCHANGED <<filed, dayCache, unwritten>>

(* add with Active: an interval that is open already is force-closed. *)
StartEdge(k) ==
    /\ open' = [open EXCEPT ![k] = [startMs |-> clock, plate |-> NoPlate]]
    /\ IF open[k] # NotOpen
       THEN CloseInterval(k, open[k], open[k].startMs + MaxEventMs)
       ELSE UNCHANGED <<filed, dayCache, unwritten>>

(* add without Active: an end nobody waits for is ignored. *)
EndEdge(k) ==
    /\ IF open[k] # NotOpen
       THEN LET latest == open[k].startMs + MaxEventMs
            IN  CloseInterval(k, open[k], IF clock > latest THEN latest ELSE clock)
       ELSE UNCHANGED <<filed, dayCache, unwritten>>
    /\ open' = [open EXCEPT ![k] = NotOpen]

AddEdge(k) ==
    /\ clock > 0 /\ edges < MaxEdges
    /\ edges' = edges + 1
    /\ StartEdge(k) \/ EndEdge(k)

(* updateOpenPlate: the open interval that began at ts, or else the last   *)
(* cached one of that second; the file is not rewritten.                   *)
UpdateOpenPlate(ts, plate) ==
    LET begun == {k \in Kinds : open[k].startMs = ts}
        d     == DayOfMs(ts)
        at    == SelectLastInSeq(dayCache[d].ivals, LAMBDA iv : iv.start = SecOf(ts))
    IN  \/ /\ \E k \in begun : open' = [open EXCEPT ![k].plate = plate]
           /\ UNCHANGED <<filed, dayCache, unwritten, edges>>
        \/ /\ begun = {} /\ at # 0
           /\ dayCache' = [dayCache EXCEPT ![d].ivals[at].plate = plate]
           /\ UNCHANGED <<open, filed, unwritten, edges>>

(* eventsForDay: the cached lines if the file has not changed since. *)
EventsForDay(d) ==
    IF dayCache[d].len = Len(filed[d]) THEN dayCache[d].ivals ELSE filed[d]

(* ... which otherwise reads the file and caches it. *)
LoadDay(d) ==
    /\ dayCache[d].len # Len(filed[d])
    /\ dayCache' = [dayCache EXCEPT ![d] = [len |-> Len(filed[d]), ivals |-> filed[d]]]
    /\ UNCHANGED <<open, filed, unwritten, edges>>

(* A restart of the relay: only the files survive. *)
EvRestart ==
    /\ open' = [k \in Kinds |-> NotOpen]
    /\ dayCache' = [d \in Days |-> NotCached]
    /\ UNCHANGED <<filed, unwritten, edges>>

-----------------------------------------------------------------------------
(* What the store answers.                                                 *)

(* daysSpanned *)
DaysSpanned(startSec, endSec) == {DayOf(startSec), DayOf(endSec)}

(* overlaps *)
Overlaps(startSec, endSec) ==
    \E d \in DaysSpanned(startSec, endSec) \cap Days :
        \E iv \in ToSet(EventsForDay(d)) : iv.start < endSec /\ iv.end > startSec

(* The first half of clusterEventItems: in the order of their starts, the  *)
(* items of one kind are joined while the next one starts at most gap      *)
(* after the latest end so far.  A mark begins, then, where every item     *)
(* before has ended for longer than gap ...                                *)
Begins(own, gap) ==
    {it.start : it \in {x \in own :
        \A y \in own : y.start < x.start => x.start - y.end > gap}}

(* ... and joins the items up to where the next one begins. *)
Joined(own, gap, s) ==
    {it \in own : it.start >= s /\ \A t \in Begins(own, gap) : t > s => it.start < t}

(* Mutant: the joined end is the last item's, not the latest one. *)
MergeItems_LastEnd(items, kind, gap) ==
    LET own       == {it \in items : it.kind = kind}
        LastOf(S) == {x \in S : \A y \in S : y.start <= x.start}
    IN  {<<s, Min({it.end : it \in LastOf(Joined(own, gap, s))})>> : s \in Begins(own, gap)}

MergeItems(items, kind, gap) ==
    LET own == {it \in items : it.kind = kind}
    IN  {<<s, Max({it.end : it \in Joined(own, gap, s)})>> : s \in Begins(own, gap)}

(* clusterEventItems: then a motion mark near a mark of a more specific    *)
(* kind is dropped.                                                        *)
ClusterEventItems(items, gap) ==
    LET marks(k) == MergeItems(items, k, gap)
        others   == UNION {marks(k) : k \in Kinds \ {"motion"}}
        Near(m)  == \E sp \in others : m[1] <= sp[2] + gap /\ sp[1] <= m[2] + gap
    IN  [k \in Kinds |-> IF k = "motion" THEN {m \in marks(k) : ~ Near(m)} ELSE marks(k)]

(* daysInRange *)
DaysInRange(start, end) == DayOf(start) .. DayOf(end)

(* timelineFor: what the day files say of [start, end); an event across    *)
(* midnight is met twice ...                                               *)
Items(start, end) ==
    {iv \in UNION {ToSet(EventsForDay(d)) : d \in DaysInRange(start, end) \cap Days} :
        iv.start < end /\ iv.end > start}

(* ... and its event marks.                                                *)
TimelineEvents(start, end, gap) == ClusterEventItems(Items(start, end), gap)
=============================================================================
