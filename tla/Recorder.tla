------------------------------ MODULE Recorder ------------------------------
(***************************************************************************)
(* relay/recorder.go, the half that records: Run compares the streams that *)
(* are live with the recorders that run, and a supervisor per recorder     *)
(* keeps an ffmpeg alive that writes segment files into the channel's      *)
(* directory.  A supervisor is named by its channel and a number.  ffmpeg  *)
(* is external: it opens files, and it ends at any time.                   *)
(***************************************************************************)
EXTENDS Integers, FiniteSets

CONSTANTS
    Channels,
    MaxStarts,    \* recorders started per channel
    MaxRestarts,  \* times ffmpeg ends by itself
    MaxChanges    \* changes of the set of live streams

ASSUME RecorderAssumption ==
    MaxStarts \in Nat /\ MaxRestarts \in Nat /\ MaxChanges \in Nat

VARIABLES
    live,      \* the ids of active streams (StreamStats)
    changes,
    run,       \* where Run is: "select", "ended"
    recs,      \* r.recs: per channel the number of its recorder, 0 for none
    sup,       \* per channel and number, the supervisor
    starts,    \* recorders started so far, per channel
    restarts,
    hubDone    \* h.done is closed

recVars == <<live, changes, run, recs, sup, starts, restarts, hubDone>>

(* A stream id is a channel's sub or main stream, or a composed wall. *)
StreamIDs == [ch : Channels, what : {"sub", "main", "wall"}]

SupStates == {"none", "check", "running", "backoff", "ended"}
Backoffs == {3, 6, 12, 24, 48}

RecTypeOK ==
    /\ live \in SUBSET StreamIDs
    /\ changes \in 0 .. MaxChanges
    /\ run \in {"select", "ended"}
    /\ recs \in [Channels -> 0 .. MaxStarts]
    /\ sup \in [Channels -> [1 .. MaxStarts ->
                   [pc : SupStates, src : {"sub", "main"}, cancelled : BOOLEAN, backoff : Backoffs]]]
    /\ starts \in [Channels -> 0 .. MaxStarts]
    /\ restarts \in 0 .. MaxRestarts
    /\ hubDone \in BOOLEAN

NoSup == [pc |-> "none", src |-> "sub", cancelled |-> FALSE, backoff |-> 3]

RecInit ==
    /\ live = {} /\ changes = 0
    /\ run = "select"
    /\ recs = [c \in Channels |-> 0]
    /\ sup = [c \in Channels |-> [n \in 1 .. MaxStarts |-> NoSup]]
    /\ starts = [c \in Channels |-> 0]
    /\ restarts = 0
    /\ hubDone = FALSE

(* External: a stream comes or goes. *)
StreamsChange ==
    /\ changes < MaxChanges
    /\ changes' = changes + 1
    /\ \E id \in StreamIDs : live' = IF id \in live THEN live \ {id} ELSE live \cup {id}
    /\ UNCHANGED <<run, recs, sup, starts, restarts, hubDone>>

(* Mutant: the sub stream wins when both are live. *)
RecordTargets_SubWins(active) ==
    LET cams == {id \in active : id.what # "wall"}
    IN  [c \in {id.ch : id \in cams} |->
            IF [ch |-> c, what |-> "sub"] \in cams THEN "sub" ELSE "main"]

(* recordTargets: per channel with a live stream, the stream to record. *)
RecordTargets(active) ==
    LET cams == {id \in active : id.what # "wall"}
    IN  [c \in {id.ch : id \in cams} |->
            IF [ch |-> c, what |-> "main"] \in cams THEN "main" ELSE "sub"]

(* What the channel's recorder records; what reconcile does to it. *)
Source(c) == IF recs[c] = 0 THEN "none" ELSE sup[c][recs[c]].src

Starts(c, want) == IF c \in DOMAIN want THEN want[c] # Source(c) ELSE FALSE

(* Mutant: a recorder whose source flipped is replaced and not cancelled. *)
Cancels_Gone(c, want) ==
    recs[c] # 0 /\ c \notin DOMAIN want

Cancels(c, want) ==
    recs[c] # 0 /\ (c \in DOMAIN want => want[c] # Source(c))

(* startLocked *)
Started(src) == [pc |-> "check", src |-> src, cancelled |-> FALSE, backoff |-> 3]

Reconcile ==
    LET want == RecordTargets(live)
        next(c) == starts[c] + 1
    IN  /\ run = "select"
        /\ \E c \in Channels : Starts(c, want) \/ Cancels(c, want)
        /\ \A c \in Channels : Starts(c, want) => next(c) <= MaxStarts
        /\ starts' = [c \in Channels |-> IF Starts(c, want) THEN next(c) ELSE starts[c]]
        /\ recs' = [c \in Channels |-> IF Starts(c, want) THEN next(c)
                                       ELSE IF Cancels(c, want) THEN 0 ELSE recs[c]]
        /\ sup' = [c \in Channels |-> [n \in 1 .. MaxStarts |->
                      IF Starts(c, want) /\ n = next(c) THEN Started(want[c])
                      ELSE IF Cancels(c, want) /\ n = recs[c]
                           THEN [sup[c][n] EXCEPT !.cancelled = TRUE]
                      ELSE sup[c][n]]]
        /\ UNCHANGED <<live, changes, run, restarts, hubDone>>

(* Hub.Stop closes h.done. *)
HubStop ==
    /\ ~ hubDone
    /\ hubDone' = TRUE
    /\ UNCHANGED <<live, changes, run, recs, sup, starts, restarts>>

(* Run returns: stopAll cancels what is in the map. *)
RunEnds ==
    /\ run = "select" /\ hubDone
    /\ run' = "ended"
    /\ recs' = [c \in Channels |-> 0]
    /\ sup' = [c \in Channels |-> [n \in 1 .. MaxStarts |->
                  IF n = recs[c] THEN [sup[c][n] EXCEPT !.cancelled = TRUE] ELSE sup[c][n]]]
    /\ UNCHANGED <<live, changes, starts, restarts, hubDone>>

SupTo(c, n, s) ==
    /\ sup' = [sup EXCEPT ![c][n] = s]
    /\ UNCHANGED <<live, changes, run, recs, starts, hubDone>>

(* supervise: look at ctx, then run ffmpeg. *)
SupLaunch(c, n) ==
    LET s == sup[c][n]
    IN  /\ s.pc = "check"
        /\ SupTo(c, n, [s EXCEPT !.pc = IF s.cancelled THEN "ended" ELSE "running"])
        /\ UNCHANGED restarts

(* cmd.Run returns because the context was cancelled. *)
SupKilled(c, n) ==
    /\ sup[c][n].pc = "running" /\ sup[c][n].cancelled
    /\ SupTo(c, n, [sup[c][n] EXCEPT !.pc = "ended"])
    /\ UNCHANGED restarts

(* cmd.Run returns because ffmpeg failed. *)
FfmpegExits(c, n) ==
    /\ sup[c][n].pc = "running" /\ ~ sup[c][n].cancelled
    /\ restarts < MaxRestarts
    /\ restarts' = restarts + 1
    /\ SupTo(c, n, [sup[c][n] EXCEPT !.pc = "backoff"])

(* Mutant: the wait ends with the timer only. *)
SupWaited_NoDone(c, n) ==
    LET s == sup[c][n]
    IN  /\ s.pc = "backoff" /\ ~ s.cancelled
        /\ SupTo(c, n, [s EXCEPT !.pc = "check",
                                 !.backoff = IF @ < 30 THEN 2 * @ ELSE @])
        /\ UNCHANGED restarts

(* The select after a failure: ctx.Done, or the timer and a longer wait. *)
SupWaited(c, n) ==
    LET s == sup[c][n]
    IN  /\ s.pc = "backoff"
        /\ \/ s.cancelled /\ SupTo(c, n, [s EXCEPT !.pc = "ended"])
           \/ SupTo(c, n, [s EXCEPT !.pc = "check",
                                    !.backoff = IF @ < 30 THEN 2 * @ ELSE @])
        /\ UNCHANGED restarts

SupStep(c, n) ==
    SupLaunch(c, n) \/ SupKilled(c, n) \/ SupWaited(c, n)

RecNext ==
    \/ StreamsChange \/ Reconcile \/ HubStop \/ RunEnds
    \/ \E c \in Channels, n \in 1 .. MaxStarts : SupStep(c, n) \/ FfmpegExits(c, n)

RecSpec == RecInit /\ [][RecNext]_recVars

(* The tickers of Run and the goroutines of the supervisors keep going;    *)
(* nothing makes a stream change, ffmpeg fail or the hub stop.             *)
RecFairness ==
    /\ WF_recVars(Reconcile)
    /\ WF_recVars(RunEnds)
    /\ \A c \in Channels, n \in 1 .. MaxStarts : WF_recVars(SupStep(c, n))

-----------------------------------------------------------------------------
(* A channel has at most one recorder that nobody cancelled, the one in    *)
(* r.recs: a flip between sub and main, a stream that goes and comes back  *)
(* and a failing ffmpeg never leave a second recorder behind that no later *)
(* reconcile could stop (recorder.go, reconcile).                          *)
OneRecorder ==
    \A c \in Channels : \A n \in 1 .. MaxStarts :
        sup[c][n].pc \notin {"none", "ended"} /\ ~ sup[c][n].cancelled => recs[c] = n

(* A cancelled supervisor ends, a waiting or relaunching one included, so  *)
(* that no ffmpeg goes on writing beside its successor or after Stop       *)
(* (recorder.go, supervise and stopAll).                                   *)
CancelledEnds ==
    \A c \in Channels : \A n \in 1 .. MaxStarts :
        sup[c][n].cancelled ~> sup[c][n].pc = "ended"

(* While a channel's main stream stays live the recorder ends up on it and *)
(* stays there, however often the sub stream comes and goes and ffmpeg     *)
(* fails (recorder.go, recordTargets: a channel with a main stream records *)
(* the main stream).                                                       *)
FollowsMain ==
    \A c \in Channels :
        <>[](run = "select" /\ ~ hubDone /\ [ch |-> c, what |-> "main"] \in live)
            => <>[](Source(c) = "main")

(* The recorder as a whole: one recorder of a channel that nobody cancelled,
   a cancelled one ends, and a channel whose main stream stays live is
   recorded from it in the end (recorder.go, reconcile and supervise). *)
RecordersFollow == []OneRecorder /\ CancelledEnds /\ FollowsMain
=============================================================================
