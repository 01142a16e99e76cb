----------------------------- MODULE TestPattern -----------------------------
(***************************************************************************)
(* relay/testpattern.go: the generator that feeds the default session with *)
(* synthetic frames while no agent publishes to it.                        *)
(*                                                                         *)
(* The Go object holds two channels in fields (stopCh, stopped) that Start *)
(* replaces together under tp.mu; a channel pair is named here by the      *)
(* number of the Start that made it.  The generator goroutine reads both   *)
(* fields WITHOUT the mutex, and at different times: `defer                *)
(* close(tp.stopped)` reads one when the goroutine is first scheduled, the *)
(* select reads the other at every turn of the loop.  Each of these reads  *)
(* is an action of its own.                                                *)
(***************************************************************************)
EXTENDS Naturals, FiniteSets

CONSTANT MaxStarts          \* how many times Start may create a generator
ASSUME MaxStartsAssumption == MaxStarts \in Nat \ {0}

VARIABLES
    tpRunning,      \* tp.running
    tpGen,          \* which channel pair tp.stopCh and tp.stopped hold now
    stopClosed,     \* the pairs whose stopCh is closed
    stoppedClosed,  \* the pairs whose stopped is closed
    loop,           \* the generator goroutine that each Start spawned
    crashed         \* a channel was closed twice: the process panicked

tpVars == <<tpRunning, tpGen, stopClosed, stoppedClosed, loop, crashed>>

Gens == 1 .. MaxStarts

(* loop[g].pc: where goroutine g is; `closes' is the pair whose stopped it
   will close on return, `selects' the pair whose stopCh its select reads. *)
LoopPCs == {"none", "spawned", "top", "select", "generate", "ended"}
LoopStates == [pc : LoopPCs, closes : 0 .. MaxStarts, selects : 0 .. MaxStarts]

NoLoop == [pc |-> "none", closes |-> 0, selects |-> 0]

TPTypeOK ==
    /\ tpRunning \in BOOLEAN
    /\ tpGen \in 0 .. MaxStarts
    /\ stopClosed \in SUBSET Gens
    /\ stoppedClosed \in SUBSET Gens
    /\ loop \in [Gens -> LoopStates]
    /\ crashed \in BOOLEAN

(* Hub.Run has called Start once; the goroutine need not have run yet. *)
TPInit ==
    /\ tpRunning = TRUE
    /\ tpGen = 1
    /\ stopClosed = {}
    /\ stoppedClosed = {}
    /\ loop = [g \in Gens |-> IF g = 1 THEN [NoLoop EXCEPT !.pc = "spawned"] ELSE NoLoop]
    /\ crashed = FALSE

-----------------------------------------------------------------------------
(* Start: nothing when already running, else a fresh pair and goroutine. *)
TPStart ==
    /\ UNCHANGED <<stopClosed, stoppedClosed, crashed>>
    /\ \/ /\ tpRunning
          /\ UNCHANGED <<tpRunning, tpGen, loop>>
       \/ /\ ~tpRunning
          /\ tpGen < MaxStarts
          /\ tpRunning' = TRUE
          /\ tpGen' = tpGen + 1
          /\ loop' = [loop EXCEPT ![tpGen + 1].pc = "spawned"]

(* Stop, the part under tp.mu when the generator runs: the caller then
   blocks on the `stopped' of pair tpGen, which it remembered. *)
TPStopRunning ==
    /\ tpRunning
    /\ tpRunning' = FALSE
    /\ stopClosed' = stopClosed \cup {tpGen}
    /\ UNCHANGED <<tpGen, stoppedClosed, loop, crashed>>

(* Stop's early return. *)
TPStopIdle ==
    /\ ~tpRunning
    /\ UNCHANGED tpVars

(* Mutant: the goroutine starts without having read tp.stopped. *)
LoopEnter_NilChannel(g) ==
    /\ loop[g].pc = "spawned"
    /\ loop' = [loop EXCEPT ![g].pc = "top"]
    /\ UNCHANGED <<tpRunning, tpGen, stopClosed, stoppedClosed, crashed>>

(* The goroutine is scheduled: its defer statement evaluates tp.stopped. *)
LoopEnter(g) ==
    /\ loop[g].pc = "spawned"
    /\ loop' = [loop EXCEPT ![g].pc = "top", ![g].closes = tpGen]
    /\ UNCHANGED <<tpRunning, tpGen, stopClosed, stoppedClosed, crashed>>

(* The select statement evaluates tp.stopCh and blocks. *)
LoopSelect(g) ==
    /\ loop[g].pc = "top"
    /\ loop' = [loop EXCEPT ![g].pc = "select", ![g].selects = tpGen]
    /\ UNCHANGED <<tpRunning, tpGen, stopClosed, stoppedClosed, crashed>>

(* case <-ticker.C: generateFrame is under way until LoopBroadcast. *)
LoopTick(g) ==
    /\ loop[g].pc = "select"
    /\ loop' = [loop EXCEPT ![g].pc = "generate", ![g].selects = 0]
    /\ UNCHANGED <<tpRunning, tpGen, stopClosed, stoppedClosed, crashed>>

LoopBroadcast(g) ==
    /\ loop[g].pc = "generate"
    /\ loop' = [loop EXCEPT ![g].pc = "top"]
    /\ UNCHANGED <<tpRunning, tpGen, stopClosed, stoppedClosed, crashed>>

(* case <-tp.stopCh: return, running the deferred close. *)
LoopExit(g) ==
    /\ loop[g].pc = "select"
    /\ loop[g].selects \in stopClosed
    /\ loop' = [loop EXCEPT ![g] = [NoLoop EXCEPT !.pc = "ended"]]
    /\ stoppedClosed' = stoppedClosed \cup {loop[g].closes}
    /\ crashed' = (loop[g].closes \in stoppedClosed)
    /\ UNCHANGED <<tpRunning, tpGen, stopClosed>>

LoopStep(g) ==
    \/ LoopEnter(g)
    \/ LoopSelect(g)
    \/ LoopTick(g)
    \/ LoopBroadcast(g)
    \/ LoopExit(g)
=============================================================================
