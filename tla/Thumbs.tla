------------------------------- MODULE Thumbs -------------------------------
(***************************************************************************)
(* relay/recthumb.go and relay/thumb_variants.go: the snapshots an agent   *)
(* sends with its events are files, one per second, that a later snapshot  *)
(* of the same second replaces; the dashboard's requests for them go       *)
(* through a cache bounded in bytes and entries; a small copy (a card) of  *)
(* a wide snapshot is made by a bounded pool of workers.  One stream.  A   *)
(* file's identity (os.FileInfo) is a number that no other file has.       *)
(***************************************************************************)
EXTENDS Integers, Sequences, FiniteSets, SequencesExt, FiniteSetsExt

CONSTANTS
    Secs,        \* seconds a snapshot may have
    Pics,        \* the snapshots
    WidePics,    \* those wider than a card
    Near,        \* evThumbNearWindowSec
    ThBudget,    \* thumbCacheBytes
    ThCap,       \* thumbCacheCap
    Snapshots,   \* the snapshots an agent may send: [sec, pic]
    OnDisk,      \* the one that is on disk when the relay starts
    Asks,        \* what each request may ask for: sets of [sec, exact, card]
    Requests,
    Workers,     \* the pool of queueCardThumb
    QueueCap,    \* cap(q.jobs)
    Slots,       \* cap(thumbExtractSlots)
    MaxDisk      \* files replaced, made or removed

ASSUME ThumbsAssumption ==
    /\ Secs \subseteq Nat /\ WidePics \subseteq Pics
    /\ ThBudget \in Nat /\ ThBudget >= 2    \* an image fits: maxEventThumbBytes
    /\ ThCap \in Nat \ {0}
    /\ QueueCap \in Nat /\ Slots \in Nat /\ MaxDisk \in Nat /\ Near \in Nat
    /\ Snapshots \subseteq [sec : Secs, pic : Pics] /\ OnDisk \in Snapshots
    /\ Asks \in [Requests -> SUBSET [sec : Secs, exact : BOOLEAN, card : BOOLEAN]]

VARIABLES
    thFile,     \* the files: path to [ino, pic]
    thIno,      \* files written so far
    thPruned,   \* files removed so far
    thLru,      \* the cache, most recent first
    thReq,      \* the requests
    thPub,      \* storeEventThumb of the publisher: the card it has to queue
    thJobs,     \* q.jobs
    thPending,  \* q.pending: path to the job's number
    thJobNo,    \* jobs made
    thWork,     \* the workers
    thClosed,   \* jobs whose done channel is closed
    thStopped,  \* h.done is closed
    thSeen      \* per request, the snapshots that were on disk since it
                \* arrived (history)

thVars == <<thFile, thIno, thPruned, thLru, thReq, thPub, thJobs, thPending, thJobNo,
            thWork, thClosed, thStopped, thSeen>>

(* Paths and cache keys: the snapshot of a second (evThumbPath), a card,   *)
(* whose name holds the snapshot's hash (cardThumbPath), and the frame of  *)
(* a second cut from the recording, which has no file.                     *)
Original(s) == [kind |-> "orig", sec |-> s]
CardThumbPath(s, pic) == [kind |-> "card", sec |-> s, pic |-> pic]
FrameKey(s, exact) == [kind |-> "frame", sec |-> s, exact |-> exact]

Paths == [kind : {"orig"}, sec : Secs] \cup [kind : {"card"}, sec : Secs, pic : Pics]
Keys == Paths \cup [kind : {"frame"}, sec : Secs, exact : BOOLEAN]

(* What a file or an entry shows: a snapshot or a frame, in full or small. *)
Full(pic) == [of |-> pic, small |-> FALSE]
Small(pic) == [of |-> pic, small |-> TRUE]
FrameOf(s) == [of |-> s, small |-> TRUE]
Images == [of : Pics \cup Secs, small : BOOLEAN]
Bytes(img) == IF img.small THEN 1 ELSE 2

Inos == 1 .. MaxDisk + 1
NoInfo == 0      \* a nil os.FileInfo
NoCard == [kind |-> "none"]
NotAsked == [pc |-> "idle"]
Free == [pc |-> "free"]

Exists(p) == p \in DOMAIN thFile

ThTypeOK ==
    /\ DOMAIN thFile \subseteq Paths
    /\ \A p \in DOMAIN thFile : thFile[p] \in [ino : Inos, img : Images]
    /\ thIno \in Inos /\ thPruned \in 0 .. MaxDisk
    /\ thLru \in Seq([key : Keys, img : Images, info : Inos \cup {NoInfo}])
    /\ DOMAIN thReq = Requests
    /\ thPub \in Paths \cup {NoCard}
    /\ Len(thJobs) <= QueueCap
    /\ DOMAIN thPending \subseteq Paths
    /\ DOMAIN thWork = Workers
    /\ thClosed \subseteq 1 .. thJobNo
    /\ thStopped \in BOOLEAN

ThInit ==
    /\ thFile = [p \in {Original(OnDisk.sec)} |-> [ino |-> 1, img |-> Full(OnDisk.pic)]]
    /\ thIno = 1 /\ thPruned = 0
    /\ thLru = << >>
    /\ thReq = [r \in Requests |-> NotAsked]
    /\ thPub = NoCard
    /\ thJobs = << >> /\ thPending = [p \in {} |-> 0] /\ thJobNo = 0
    /\ thWork = [w \in Workers |-> Free]
    /\ thClosed = {}
    /\ thStopped = FALSE
    /\ thSeen = [r \in Requests |-> {}]

-----------------------------------------------------------------------------
(* The cache (thumbnailCache).                                             *)
BytesOf(c) == SumFunction([i \in DOMAIN c |-> Bytes(c[i].img)])
Entries(c, key) == {e \in ToSet(c) : e.key = key}

(* remove: the element that the map has for the key.                       *)
Without(c, key) ==
    IF Entries(c, key) = {} THEN c ELSE RemoveAt(c, CHOOSE i \in DOMAIN c : c[i].key = key)

(* get: an entry for the very file that was stat'ed, or nothing.           *)
Hits(c, key, info) == {e \in Entries(c, key) : e.info = info}
AfterGet(c, key, info) ==
    LET hit == Hits(c, key, info)
    IN  IF hit = {} THEN Without(c, key)
        ELSE <<CHOOSE e \in hit : TRUE>> \o Without(c, key)

(* Mutant: the entry with the same key is not removed first. *)
AfterPut_Twice(c, e) ==
    LET keeps == {n \in 0 .. Len(c) :
                     /\ BytesOf(SubSeq(c, 1, n)) + Bytes(e.img) <= ThBudget
                     /\ n < ThCap}
    IN  <<e>> \o SubSeq(c, 1, Max(keeps \cup {0}))

(* put: entries leave from the back until the new one fits.                *)
AfterPut(c, e) ==
    LET rest == Without(c, e.key)
        keeps == {n \in 0 .. Len(rest) :
                     /\ BytesOf(SubSeq(rest, 1, n)) + Bytes(e.img) <= ThBudget
                     /\ n < ThCap}
    IN  <<e>> \o SubSeq(rest, 1, Max(keeps \cup {0}))

-----------------------------------------------------------------------------
(* queueCardThumb: the path and snapshot of a job, and what becomes of it. *)
Queues(card) == card.pic \in WidePics /\ ~ thStopped

(* Mutant: a card that is pending is queued again. *)
IsPending_Never(card) == FALSE

IsPending(card) == card \in DOMAIN thPending

QueueFull(card) == Len(thJobs) >= QueueCap

QueueCardThumb(card) ==
    IF Queues(card) /\ ~ IsPending(card) /\ ~ QueueFull(card)
    THEN /\ thJobNo' = thJobNo + 1
         /\ thJobs' = Append(thJobs, [path |-> card, no |-> thJobNo + 1])
         /\ thPending' = [p \in DOMAIN thPending \cup {card} |->
                             IF p = card THEN thJobNo + 1 ELSE thPending[p]]
    ELSE UNCHANGED <<thJobs, thPending, thJobNo>>

(* The job a caller may wait for, 0 for a nil channel.                     *)
JobFor(card) ==
    CASE ~ Queues(card)  -> 0
      [] IsPending(card) -> thPending[card]
      [] QueueFull(card)     -> 0
      [] OTHER           -> thJobNo + 1

-----------------------------------------------------------------------------
DiskMayChange == thIno + thPruned <= MaxDisk

(* os.Rename of a temporary file over path.                                *)
Rename(path, img) ==
    /\ DiskMayChange
    /\ thIno' = thIno + 1
    /\ thFile' = [p \in DOMAIN thFile \cup {path} |->
                     IF p = path THEN [ino |-> thIno + 1, img |-> img] ELSE thFile[p]]

(* storeEventThumb, called by the publisher's read loop: the file first.   *)
StoreEventThumb(snap) ==
    /\ thPub = NoCard
    /\ Rename(Original(snap.sec), Full(snap.pic))
    /\ thPub' = CardThumbPath(snap.sec, snap.pic)
    /\ thSeen' = [r \in Requests |->
                     IF thReq[r].pc \in {"idle", "answered", "refused"} THEN thSeen[r] ELSE thSeen[r] \cup {snap}]
    /\ UNCHANGED <<thPruned, thLru, thReq, thJobs, thPending, thJobNo, thWork, thClosed, thStopped>>

StoreQueuesCard ==
    /\ thPub # NoCard
    /\ QueueCardThumb(thPub)
    /\ thPub' = NoCard
    /\ UNCHANGED <<thFile, thIno, thPruned, thLru, thReq, thWork, thClosed, thStopped, thSeen>>

(* pruneEventThumbs: the janitor removes an old file.                      *)
PruneEventThumb(p) ==
    /\ Exists(p)
    /\ DiskMayChange
    /\ thPruned' = thPruned + 1
    /\ thFile' = [q \in DOMAIN thFile \ {p} |-> thFile[q]]
    /\ UNCHANGED <<thIno, thLru, thReq, thPub, thJobs, thPending, thJobNo, thWork, thClosed,
                   thStopped, thSeen>>

ThStop ==
    /\ ~ thStopped
    /\ thStopped' = TRUE
    /\ UNCHANGED <<thFile, thIno, thPruned, thLru, thReq, thPub, thJobs, thPending, thJobNo, thWork,
                   thClosed, thSeen>>

-----------------------------------------------------------------------------
(* The workers.                                                            *)
WorkerTakes(w) ==
    /\ thWork[w] = Free
    /\ thJobs # << >>
    /\ thWork' = [thWork EXCEPT ![w] = [pc |-> "convert", job |-> Head(thJobs)]]
    /\ thJobs' = Tail(thJobs)
    /\ UNCHANGED <<thFile, thIno, thPruned, thLru, thReq, thPub, thPending, thJobNo, thClosed, thStopped,
                   thSeen>>

(* makeCardThumb, CreateTemp, Write and Rename: any of them may fail.      *)
WorkerConverts(w) ==
    /\ thWork[w].pc = "convert"
    /\ \/ /\ Rename(thWork[w].job.path, Small(thWork[w].job.path.pic))
          /\ thWork' = [thWork EXCEPT ![w].pc = "stat"]
       \/ /\ thWork' = [thWork EXCEPT ![w].pc = "finish"]
          /\ UNCHANGED <<thFile, thIno>>
    /\ UNCHANGED <<thPruned, thLru, thReq, thPub, thJobs, thPending, thJobNo, thClosed, thStopped, thSeen>>

(* os.Stat of the path, and the put with what it found.                    *)
WorkerStats(w) ==
    LET path == thWork[w].job.path
    IN  /\ thWork[w].pc = "stat"
        /\ thWork' = [thWork EXCEPT ![w] =
               IF Exists(path)
               THEN [pc |-> "put", job |-> thWork[w].job, info |-> thFile[path].ino]
               ELSE [pc |-> "finish", job |-> thWork[w].job]]
        /\ UNCHANGED <<thFile, thIno, thPruned, thLru, thReq, thPub, thJobs, thPending, thJobNo, thClosed,
                       thStopped, thSeen>>

WorkerPuts(w) ==
    LET path == thWork[w].job.path
    IN  /\ thWork[w].pc = "put"
        /\ thLru' = AfterPut(thLru, [key |-> path, img |-> Small(path.pic),
                                     info |-> thWork[w].info])
        /\ thWork' = [thWork EXCEPT ![w] = [pc |-> "finish", job |-> thWork[w].job]]
        /\ UNCHANGED <<thFile, thIno, thPruned, thReq, thPub, thJobs, thPending, thJobNo, thClosed,
                       thStopped, thSeen>>

WorkerFinishes(w) ==
    /\ thWork[w].pc = "finish"
    /\ thPending' = [p \in DOMAIN thPending \ {thWork[w].job.path} |-> thPending[p]]
    /\ thClosed' = thClosed \cup {thWork[w].job.no}
    /\ thWork' = [thWork EXCEPT ![w] = Free]
    /\ UNCHANGED <<thFile, thIno, thPruned, thLru, thReq, thPub, thJobs, thJobNo, thStopped, thSeen>>

WorkerEnds(w) ==
    /\ thWork[w] = Free /\ thStopped
    /\ thWork' = [thWork EXCEPT ![w] = [pc |-> "ended"]]
    /\ UNCHANGED <<thFile, thIno, thPruned, thLru, thReq, thPub, thJobs, thPending, thJobNo, thClosed,
                   thStopped, thSeen>>

WorkerStep(w) ==
    WorkerTakes(w) \/ WorkerConverts(w) \/ WorkerStats(w) \/ WorkerPuts(w) \/ WorkerFinishes(w)
        \/ WorkerEnds(w)

-----------------------------------------------------------------------------
(* HandleDashboardRecThumb.  A request that is looking for a stored file   *)
(* (storedThumb) knows what for: the snapshot, its card, the card again    *)
(* after a worker is done, or the nearest other snapshot.                  *)
ThRest == <<thFile, thIno, thPruned, thPub, thWork, thClosed, thStopped>>

ReqTo(r, q) == thReq' = [thReq EXCEPT ![r] = q]

Answer(q, img, path) ==
    [pc |-> "answered", sec |-> q.sec, for |-> q.for, img |-> img, path |-> path]
Refused == [pc |-> "refused"]
LookUp(q, for, path) == [q EXCEPT !.pc = "stat", !.for = for, !.path = path]

RecThumb(r, ask) ==
    /\ thReq[r] = NotAsked
    /\ LET s == ask.sec
           q == [pc |-> "frame", sec |-> s, exact |-> ask.exact, card |-> ask.card,
                 for |-> "orig", path |-> Original(s), info |-> NoInfo, img |-> FrameOf(s),
                 job |-> 0]
       IN  ReqTo(r, IF ask.exact THEN q ELSE LookUp(q, "orig", Original(s)))
    /\ thSeen' = [thSeen EXCEPT ![r] =
           {[sec |-> p.sec, pic |-> thFile[p].img.of] : p \in {x \in DOMAIN thFile : x.kind = "orig"}}]
    /\ UNCHANGED <<ThRest, thLru, thJobs, thPending, thJobNo>>

(* storedThumb returned an image, or nothing.                              *)
Returned(q, img) ==
    IF q.for = "orig" /\ q.card
    THEN LookUp([q EXCEPT !.img = img], "card", CardThumbPath(q.sec, img.of))
    ELSE Answer(q, img, q.path)

NotStored(q) ==
    CASE q.for = "orig"  -> [q EXCEPT !.pc = "frame"]
      [] q.for = "card"  -> [q EXCEPT !.pc = "queue"]
      [] q.for = "again" -> Answer(q, q.img, Original(q.sec))
      [] q.for = "near"  -> Refused

ThStat(r) ==
    LET q == thReq[r]
    IN  /\ q.pc = "stat"
        /\ ReqTo(r, IF Exists(q.path) THEN [q EXCEPT !.pc = "get", !.info = thFile[q.path].ino]
                    ELSE NotStored(q))
        /\ UNCHANGED <<ThRest, thLru, thJobs, thPending, thJobNo, thSeen>>

ThGet(r) ==
    LET q == thReq[r]
        hit == Hits(thLru, q.path, q.info)
    IN  /\ q.pc = "get"
        /\ thLru' = AfterGet(thLru, q.path, q.info)
        /\ ReqTo(r, IF hit = {} THEN [q EXCEPT !.pc = "open"]
                    ELSE Returned(q, (CHOOSE e \in hit : TRUE).img))
        /\ UNCHANGED <<ThRest, thJobs, thPending, thJobNo, thSeen>>

(* Open, f.Stat and ReadAll: the file that was opened, whatever its name   *)
(* is given to afterwards.                                                 *)
ThOpen(r) ==
    LET q == thReq[r]
    IN  /\ q.pc = "open"
        /\ ReqTo(r, IF Exists(q.path)
                    THEN [pc |-> "put", q |-> q, img |-> thFile[q.path].img,
                          info |-> thFile[q.path].ino]
                    ELSE NotStored(q))
        /\ UNCHANGED <<ThRest, thLru, thJobs, thPending, thJobNo, thSeen>>

(* Mutant: the file is identified by its name after it was read. *)
InfoOf_Name(p) == IF Exists(p.q.path) THEN thFile[p.q.path].ino ELSE p.info

InfoOf(p) == p.info

ThPut(r) ==
    LET p == thReq[r]
    IN  /\ p.pc = "put"
        /\ thLru' = AfterPut(thLru, [key |-> p.q.path, img |-> p.img, info |-> InfoOf(p)])
        /\ ReqTo(r, Returned(p.q, p.img))
        /\ UNCHANGED <<ThRest, thJobs, thPending, thJobNo, thSeen>>

(* No card yet: ask for one.                                               *)
ThAsksCard(r) ==
    LET q == thReq[r]
        card == q.path
    IN  /\ q.pc = "queue"
        /\ QueueCardThumb(card)
        /\ ReqTo(r, IF JobFor(card) = 0 THEN Answer(q, q.img, Original(q.sec))
                    ELSE [q EXCEPT !.pc = "wait", !.job = JobFor(card)])
        /\ UNCHANGED <<ThRest, thLru, thSeen>>

(* Mutant: nothing but the job's end ends the wait. *)
ThWaited_NoTimer(r) ==
    LET q == thReq[r]
    IN  /\ q.pc = "wait" /\ q.job \in thClosed
        /\ ReqTo(r, LookUp(q, "again", q.path))
        /\ UNCHANGED <<ThRest, thLru, thJobs, thPending, thJobNo, thSeen>>

(* The select: the worker is done, 100 ms are over, or the client left.    *)
ThWaited(r) ==
    LET q == thReq[r]
    IN  /\ q.pc = "wait"
        /\ \/ q.job \in thClosed /\ ReqTo(r, LookUp(q, "again", q.path))
           \/ ReqTo(r, Answer(q, q.img, Original(q.sec)))
           \/ ReqTo(r, Refused)
        /\ UNCHANGED <<ThRest, thLru, thJobs, thPending, thJobNo, thSeen>>

Abs(n) == IF n < 0 THEN 0 - n ELSE n

(* nearestEvThumb: the paths it may return (a tie goes to the first listed) *)
NearestEvThumb(t) ==
    LET ss == {s \in Secs : Exists(Original(s)) /\ Abs(s - t) <= Near}
    IN  {Original(s) : s \in {x \in ss : \A y \in ss : Abs(x - t) <= Abs(y - t)}}

(* No snapshot of that second: its frame, if it is cached; else from the   *)
(* segment that holds it, if one does (the archive's matter); else the     *)
(* nearest snapshot, unless the very frame was asked for.                  *)
ThFrame(r) ==
    LET q == thReq[r]
        key == FrameKey(q.sec, q.exact)
        hit == Hits(thLru, key, NoInfo)
    IN  /\ q.pc = "frame"
        /\ thLru' = AfterGet(thLru, key, NoInfo)
        /\ IF hit # {} THEN ReqTo(r, Answer(q, (CHOOSE e \in hit : TRUE).img, key))
           ELSE \/ ReqTo(r, [q EXCEPT !.pc = "slot"])
                \/ /\ ~ q.exact
                   /\ \E p \in NearestEvThumb(q.sec) : ReqTo(r, LookUp(q, "near", p))
                \/ /\ q.exact \/ NearestEvThumb(q.sec) = {}
                   /\ ReqTo(r, Refused)
        /\ UNCHANGED <<ThRest, thJobs, thPending, thJobNo, thSeen>>

InSlot == {r \in Requests : thReq[r].pc = "cut"}

(* A slot, or the end of the request's time.                               *)
ThSlot(r) ==
    LET q == thReq[r]
    IN  /\ q.pc = "slot"
        /\ \/ Cardinality(InSlot) < Slots /\ ReqTo(r, [q EXCEPT !.pc = "cut"])
           \/ ReqTo(r, Refused)
        /\ UNCHANGED <<ThRest, thLru, thJobs, thPending, thJobNo, thSeen>>

(* ffmpeg gives a frame, or fails or is killed at the end of the time.     *)
ThCut(r) ==
    LET q == thReq[r]
        key == FrameKey(q.sec, q.exact)
    IN  /\ q.pc = "cut"
        /\ \/ /\ thLru' = AfterPut(thLru, [key |-> key, img |-> FrameOf(q.sec), info |-> NoInfo])
              /\ ReqTo(r, Answer(q, FrameOf(q.sec), key))
           \/ ReqTo(r, Refused) /\ UNCHANGED thLru
        /\ UNCHANGED <<ThRest, thJobs, thPending, thJobNo, thSeen>>

ReqStep(r) ==
    ThStat(r) \/ ThGet(r) \/ ThOpen(r) \/ ThPut(r) \/ ThAsksCard(r) \/ ThWaited(r) \/ ThFrame(r)
        \/ ThSlot(r) \/ ThCut(r)

ThNext ==
    \/ \E snap \in Snapshots : StoreEventThumb(snap)
    \/ StoreQueuesCard \/ ThStop
    \/ \E p \in Paths : PruneEventThumb(p)
    \/ \E w \in Workers : WorkerStep(w)
    \/ \E r \in Requests :
          \/ \E ask \in Asks[r] : RecThumb(r, ask)
          \/ ReqStep(r)

ThSpec == ThInit /\ [][ThNext]_thVars

-----------------------------------------------------------------------------
(* No request is answered with a snapshot that was replaced before it      *)
(* arrived, nor with the card of one, or with another second's snapshot or *)
(* frame, whatever the cache held and however reads, replacements,         *)
(* removals and conversions interleave ("a late snapshot replacing the     *)
(* same second is visible", recthumb.go:265).                              *)
ThumbIsCurrent ==
    \A r \in Requests :
        thReq[r].pc = "answered" =>
            LET q == thReq[r]
            IN  IF q.path.kind = "frame" THEN q.img.of = q.sec
                ELSE /\ [sec |-> q.path.sec, pic |-> q.img.of] \in thSeen[r]
                     /\ q.path.sec = q.sec \/ (q.for = "near" /\ Abs(q.path.sec - q.sec) <= Near)

(* The cache stays within its budget and its number of entries, with one   *)
(* entry per key, so that the map and the list agree (thumbnailCache.put). *)
CacheAccounts ==
    /\ BytesOf(thLru) <= ThBudget /\ Len(thLru) <= ThCap
    /\ \A i, j \in 1 .. Len(thLru) : thLru[i].key = thLru[j].key => i = j

(* A card is pending exactly while one job for it is queued or worked on:  *)
(* two requests never convert the same snapshot twice at once, and a card  *)
(* that failed can be asked for again (queueCardThumb).                    *)
OneJobPerCard ==
    LET working == {w \in Workers : "job" \in DOMAIN thWork[w]}
        unfinished(p) == Cardinality({i \in 1 .. Len(thJobs) : thJobs[i].path = p})
                         + Cardinality({w \in working : thWork[w].job.path = p})
    IN  \A p \in Paths : unfinished(p) = IF p \in DOMAIN thPending THEN 1 ELSE 0

(* No request is ever held up by others: one that is not finished can go   *)
(* on by itself, also when the relay stops while it waits for a card and   *)
(* when all slots are taken ("Requests never wait on an unbounded          *)
(* decoder/process queue", thumb_variants.go:29).  Its steps only lead     *)
(* forward, so it ends.                                                    *)
NeverHeld ==
    \A r \in Requests :
        thReq[r].pc \notin {"idle", "answered", "refused"} => ENABLED ReqStep(r)

(* The thumbnail server's resources: the cache accounts for its bytes, a card
   is converted by one job at a time, and no request holds on for ever
   (recthumb.go, thumb_variants.go). *)
WithinBounds == CacheAccounts /\ OneJobPerCard /\ NeverHeld
=============================================================================
