------------------------------ MODULE LiveGrid ------------------------------
(***************************************************************************)
(* relay/live_grid_ws.go and its client in dashboard_assets/wsplayer.js:   *)
(* one WebSocket that carries the live streams of a whole dashboard grid.  *)
(*                                                                         *)
(* The browser subscribes and unsubscribes numbered slots and acknowledges *)
(* the bytes it has received.  On the relay a reader goroutine passes      *)
(* these controls through a bounded channel to a writer goroutine, which   *)
(* owns the subscriptions, takes packets from their hub queues and keeps   *)
(* the bytes in flight below a window.                                     *)
(*                                                                         *)
(* Of a hub (module SurvWSHub) only its promise is used: a client's queue  *)
(* gets the init segment, then a keyframe, then media.                     *)
(***************************************************************************)
EXTENDS Naturals, Sequences, FiniteSets, FiniteSetsExt

CONSTANTS
    MaxSlots,    \* slots the browser may open
    MaxFeeds,    \* packets a hub queues for one subscription
    Size,        \* bytes of a packet of each kind, slot prefix included
    Window,      \* liveGridMaxInflight
    MaxSubs,     \* liveGridMaxSubscriptions
    ControlCap   \* capacity of the controls channel

Kinds == {"init", "key", "delta"}

ASSUME GridAssumption ==
    /\ MaxSlots \in Nat /\ MaxFeeds \in Nat
    /\ Size \in [Kinds -> Nat \ {0}]
    /\ Window \in Nat \ {0} /\ MaxSubs \in Nat \ {0} /\ ControlCap \in Nat \ {0}

VARIABLES
    lgOpen,    \* the connection is open
    hubDone,   \* h.done is closed: the relay shuts down
    up, down,  \* controls and packets on their way
    \* the browser
    nextSlot, subscribers, received,
    seen,      \* packets given to the player of each slot (history)
    \* the relay
    reader,    \* the handler goroutine
    controls,  \* the controls channel
    writer,    \* the writer goroutine
    subs,      \* its subscriptions
    queue,     \* c.send of each hub client, a client per subscribed slot
    fed,       \* packets the hub has queued for each slot
    sent, acknowledged

clientVars == <<nextSlot, subscribers, received, seen>>
lgHubVars == <<queue, fed>>
lgVars == <<lgOpen, hubDone, up, down, clientVars, reader, controls, writer, subs, lgHubVars, sent, acknowledged>>

Slots == 1 .. MaxSlots

(* The k-th packet of a subscription. *)
Kind(k) == CASE k = 1 -> "init" [] k = 2 -> "key" [] OTHER -> "delta"
LgPacket == [slot : Slots, n : 1 .. MaxFeeds]
Control == [op : {"sub", "unsub"}, slot : Slots] \cup [op : {"ack"}, bytes : Nat]

(* The writer: applying controls ("top"), in its pass over the slots that
   are starting up, or in its blocking select. *)
WriterStates ==
    [pc : {"top", "ended"}]
    \cup [pc : {"startup"}, phase : 1 .. 2, todo : SUBSET Slots, did : BOOLEAN]
    \cup [pc : {"select"}, slots : SUBSET Slots]

LgTypeOK ==
    /\ lgOpen \in BOOLEAN /\ hubDone \in BOOLEAN
    /\ up \in Seq(Control) /\ down \in Seq(LgPacket)
    /\ nextSlot \in 1 .. MaxSlots + 1
    /\ subscribers \subseteq Slots
    /\ received \in Nat
    /\ seen \in [Slots -> Seq(1 .. MaxFeeds)]
    /\ reader \in {<<"read">>, <<"ended">>} \cup ({"offer"} \X Control)
    /\ controls \in Seq(Control) /\ Len(controls) <= ControlCap
    /\ writer \in WriterStates
    /\ DOMAIN subs \subseteq Slots
    /\ \A s \in DOMAIN subs : subs[s] \in 0 .. 2
    /\ Cardinality(DOMAIN subs) <= MaxSubs
    /\ DOMAIN queue \subseteq Slots
    /\ \A s \in DOMAIN queue : queue[s] \in Seq(1 .. MaxFeeds)
    /\ fed \in [Slots -> 0 .. MaxFeeds]
    /\ sent \in Nat /\ acknowledged \in Nat

Nobody == [s \in {} |-> 0]
NoQueue == [s \in {} |-> <<>>]

LgInit ==
    /\ lgOpen = TRUE /\ hubDone = FALSE
    /\ up = <<>> /\ down = <<>>
    /\ nextSlot = 1 /\ subscribers = {} /\ received = 0
    /\ seen = [s \in Slots |-> <<>>]
    /\ reader = <<"read">> /\ controls = <<>>
    /\ writer = [pc |-> "top"]
    /\ subs = Nobody
    /\ queue = NoQueue /\ fed = [s \in Slots |-> 0]
    /\ sent = 0 /\ acknowledged = 0

Without(f, S) == [s \in DOMAIN f \ S |-> f[s]]

-----------------------------------------------------------------------------
(* The browser: socket(url) takes a fresh slot; close() gives it back. *)
Subscribe ==
    /\ lgOpen /\ nextSlot <= MaxSlots
    /\ nextSlot' = nextSlot + 1
    /\ subscribers' = subscribers \cup {nextSlot}
    /\ up' = Append(up, [op |-> "sub", slot |-> nextSlot])
    /\ UNCHANGED <<lgOpen, hubDone, down, received, seen, reader, controls, writer, subs, lgHubVars, sent, acknowledged>>

Unsubscribe(s) ==
    /\ lgOpen /\ s \in subscribers
    /\ subscribers' = subscribers \ {s}
    /\ up' = Append(up, [op |-> "unsub", slot |-> s])
    /\ UNCHANGED <<lgOpen, hubDone, down, nextSlot, received, seen, reader, controls, writer, subs, lgHubVars, sent, acknowledged>>

(* onmessage: credit for the bytes, whoever they are for, then delivery. *)
Receive ==
    /\ lgOpen /\ down # <<>>
    /\ LET p == Head(down)
           bytes == received + Size[Kind(p.n)]
       IN  /\ received' = bytes
           /\ up' = Append(up, [op |-> "ack", bytes |-> bytes])
           /\ seen' = IF p.slot \in subscribers
                      THEN [seen EXCEPT ![p.slot] = Append(@, p.n)] ELSE seen
    /\ down' = Tail(down)
    /\ UNCHANGED <<lgOpen, hubDone, nextSlot, subscribers, reader, controls, writer, subs, lgHubVars, sent, acknowledged>>

(* disconnect: every player is closed. *)
Hangup ==
    /\ lgOpen
    /\ lgOpen' = FALSE
    /\ subscribers' = {}
    /\ UNCHANGED <<hubDone, up, down, nextSlot, received, seen, reader, controls, writer, subs, lgHubVars, sent, acknowledged>>

(* Hub.Stop closes h.done. *)
HubStop ==
    /\ ~hubDone
    /\ hubDone' = TRUE
    /\ UNCHANGED <<lgOpen, up, down, clientVars, reader, controls, writer, subs, lgHubVars, sent, acknowledged>>

(* A channel's hub queues the next packet for a subscription. *)
HubFeeds(s) ==
    /\ s \in DOMAIN queue
    /\ fed[s] < MaxFeeds
    /\ fed' = [fed EXCEPT ![s] = @ + 1]
    /\ queue' = [queue EXCEPT ![s] = Append(@, fed[s] + 1)]
    /\ UNCHANGED <<lgOpen, hubDone, up, down, clientVars, reader, controls, writer, subs, sent, acknowledged>>

-----------------------------------------------------------------------------
(* The handler goroutine reads a control (those of this client are all
   valid), or finds the connection closed, which makes it close `done'. *)
ReadControl ==
    /\ reader = <<"read">>
    /\ \/ /\ lgOpen /\ up # <<>>
          /\ reader' = <<"offer", Head(up)>>
          /\ up' = Tail(up)
       \/ /\ ~lgOpen
          /\ reader' = <<"ended">>
          /\ UNCHANGED up
    /\ UNCHANGED <<lgOpen, hubDone, down, clientVars, controls, writer, subs, lgHubVars, sent, acknowledged>>

(* Mutant: the handler does not notice that the writer is gone. *)
OfferControl_Blind ==
    /\ reader[1] = "offer"
    /\ \/ /\ Len(controls) < ControlCap
          /\ controls' = Append(controls, reader[2])
          /\ reader' = <<"read">>
          /\ UNCHANGED lgOpen
       \/ /\ hubDone
          /\ reader' = <<"ended">>
          /\ lgOpen' = FALSE
          /\ UNCHANGED controls
    /\ UNCHANGED <<hubDone, up, down, clientVars, writer, subs, lgHubVars, sent, acknowledged>>

(* It passes the control on, unless the writer or the hub is done. *)
OfferControl ==
    /\ reader[1] = "offer"
    /\ \/ /\ Len(controls) < ControlCap
          /\ controls' = Append(controls, reader[2])
          /\ reader' = <<"read">>
          /\ UNCHANGED lgOpen
       \/ /\ writer.pc = "ended" \/ hubDone
          /\ reader' = <<"ended">>
          /\ lgOpen' = FALSE
          /\ UNCHANGED controls
    /\ UNCHANGED <<hubDone, up, down, clientVars, writer, subs, lgHubVars, sent, acknowledged>>

-----------------------------------------------------------------------------
(* Mutant: an acknowledgement of everything sent is refused. *)
ApplyAck_Strict(bytes) ==
    /\ acknowledged' = IF bytes > acknowledged /\ bytes < sent THEN bytes ELSE acknowledged
    /\ UNCHANGED <<subs, lgHubVars>>

(* apply: the effect of a control on the writer's state. *)
ApplyAck(bytes) ==
    /\ acknowledged' = IF bytes > acknowledged /\ bytes <= sent THEN bytes ELSE acknowledged
    /\ UNCHANGED <<subs, lgHubVars>>

(* Mutant: the hub is not told. *)
ApplyUnsub_StaysInHub(s) ==
    /\ subs' = Without(subs, {s})
    /\ UNCHANGED <<lgHubVars, acknowledged>>

ApplyUnsub(s) ==
    /\ subs' = Without(subs, {s})
    /\ queue' = Without(queue, {s})
    /\ UNCHANGED <<fed, acknowledged>>

(* A subscription beyond the limit is ignored; one to a channel without a
   stream only ends the one the slot had. *)
ApplySub(s) ==
    /\ \/ /\ s \notin DOMAIN subs /\ Cardinality(DOMAIN subs) >= MaxSubs
          /\ UNCHANGED <<subs, queue>>
       \/ /\ s \in DOMAIN subs \/ Cardinality(DOMAIN subs) < MaxSubs
          /\ \/ /\ subs' = [t \in DOMAIN subs \cup {s} |-> IF t = s THEN 2 ELSE subs[t]]
                /\ queue' = [t \in DOMAIN queue \cup {s} |-> IF t = s THEN <<>> ELSE queue[t]]
             \/ /\ subs' = Without(subs, {s})
                /\ queue' = Without(queue, {s})
    /\ UNCHANGED <<fed, acknowledged>>

Apply ==
    LET c == Head(controls)
    IN  /\ controls' = Tail(controls)
        /\ CASE c.op = "ack" -> ApplyAck(c.bytes)
             [] c.op = "unsub" -> ApplyUnsub(c.slot)
             [] c.op = "sub" -> ApplySub(c.slot)

(* Pending controls come first; then the pass over the starting slots. *)
WriterTop ==
    /\ writer.pc = "top"
    /\ \/ /\ controls # <<>>
          /\ Apply
          /\ UNCHANGED writer
       \/ /\ controls = <<>>
          /\ writer' = [pc |-> "startup", phase |-> 2, todo |-> DOMAIN subs, did |-> FALSE]
          /\ UNCHANGED <<controls, subs, lgHubVars, acknowledged>>
    /\ UNCHANGED <<lgOpen, hubDone, up, down, clientVars, reader, sent>>

(* Mutant: off by one. *)
CanSend_Inclusive == sent - acknowledged <= Window

CanSend == sent - acknowledged < Window

(* The writer goroutine returns: its subscriptions leave their hubs and the
   connection is closed. *)
WriterEnds ==
    /\ writer' = [pc |-> "ended"]
    /\ subs' = Nobody
    /\ queue' = NoQueue
    /\ lgOpen' = FALSE
    /\ UNCHANGED <<down, sent>>

(* Take the next packet of s and write it, as the writer goes on to `next';
   a write on a closed connection ends the writer. *)
Send(s, next) ==
    LET n == Head(queue[s])
    IN  \/ /\ lgOpen
           /\ queue' = [queue EXCEPT ![s] = Tail(@)]
           /\ subs' = [subs EXCEPT ![s] = IF @ > 0 THEN @ - 1 ELSE 0]
           /\ down' = Append(down, [slot |-> s, n |-> n])
           /\ sent' = sent + Size[Kind(n)]
           /\ writer' = next
           /\ UNCHANGED lgOpen
        \/ ~lgOpen /\ WriterEnds

(* Mutant: the window is looked at after the packet was taken. *)
StartupSlot_TakesFirst(s) ==
    /\ writer.pc = "startup"
    /\ s \in writer.todo
    /\ LET visited == [writer EXCEPT !.todo = @ \ {s}]
       IN  IF subs[s] = writer.phase /\ queue[s] # <<>>
           THEN IF CanSend THEN Send(s, [visited EXCEPT !.did = TRUE])
                ELSE /\ queue' = [queue EXCEPT ![s] = Tail(@)]
                     /\ writer' = visited
                     /\ UNCHANGED <<lgOpen, down, subs, sent>>
           ELSE writer' = visited /\ UNCHANGED <<lgOpen, down, subs, queue, sent>>
    /\ UNCHANGED <<hubDone, up, clientVars, reader, controls, fed, acknowledged>>

(* A slot whose next startup packet is due in this phase gets it. *)
StartupSlot(s) ==
    /\ writer.pc = "startup"
    /\ s \in writer.todo
    /\ LET visited == [writer EXCEPT !.todo = @ \ {s}]
       IN  IF subs[s] = writer.phase /\ CanSend /\ queue[s] # <<>>
           THEN Send(s, [visited EXCEPT !.did = TRUE])
           ELSE writer' = visited /\ UNCHANGED <<lgOpen, down, subs, queue, sent>>
    /\ UNCHANGED <<hubDone, up, clientVars, reader, controls, fed, acknowledged>>

(* After a phase: again from the top if something was sent, else the next
   phase, else the select, over the queues only if the window is open. *)
StartupEnd ==
    /\ writer.pc = "startup"
    /\ writer.todo = {}
    /\ writer' = IF writer.did THEN [pc |-> "top"]
                 ELSE IF writer.phase = 2 THEN [writer EXCEPT !.phase = 1, !.todo = DOMAIN subs]
                 ELSE [pc |-> "select", slots |-> IF CanSend THEN DOMAIN subs ELSE {}]
    /\ UNCHANGED <<lgOpen, hubDone, up, down, clientVars, reader, controls, subs, lgHubVars, sent, acknowledged>>

SelectControl ==
    /\ writer.pc = "select"
    /\ controls # <<>>
    /\ Apply
    /\ writer' = [pc |-> "top"]
    /\ UNCHANGED <<lgOpen, hubDone, up, down, clientVars, reader, sent>>

SelectMedia(s) ==
    /\ writer.pc = "select"
    /\ s \in writer.slots
    /\ queue[s] # <<>>
    /\ Send(s, [pc |-> "top"])
    /\ UNCHANGED <<hubDone, up, clientVars, reader, controls, fed, acknowledged>>

(* done, h.done, or a ping that cannot be written. *)
SelectDone ==
    /\ writer.pc = "select"
    /\ reader = <<"ended">> \/ hubDone \/ ~lgOpen
    /\ WriterEnds
    /\ UNCHANGED <<hubDone, up, clientVars, reader, controls, fed, acknowledged>>

-----------------------------------------------------------------------------
ReaderStep == ReadControl \/ OfferControl

WriterStep ==
    \/ WriterTop
    \/ \E s \in Slots : StartupSlot(s)
    \/ StartupEnd
    \/ SelectControl
    \/ \E s \in Slots : SelectMedia(s)
    \/ SelectDone

LgNext ==
    \/ Subscribe
    \/ \E s \in Slots : Unsubscribe(s) \/ HubFeeds(s)
    \/ Receive
    \/ Hangup
    \/ HubStop
    \/ ReaderStep
    \/ WriterStep

(* The relay's goroutines run; a select that is offered a queue again and
   again takes from it (reflect.Select chooses at random); a browser whose
   connection is open handles what arrives. *)
LgFairness ==
    /\ WF_lgVars(ReaderStep) /\ WF_lgVars(WriterStep) /\ WF_lgVars(Receive)
    /\ \A s \in Slots : SF_lgVars(SelectMedia(s))
    /\ SF_lgVars(SelectDone)

LgSpec == LgInit /\ [][LgNext]_lgVars

-----------------------------------------------------------------------------
(* Bytes in flight are bounded by the window and one packet, and the
   acknowledged count never runs ahead of what was received or sent (the
   unsigned difference would wrap around). *)
WindowBound ==
    /\ acknowledged <= received /\ received <= sent
    /\ sent - acknowledged < Window + Max({Size[k] : k \in Kinds})

(* A player gets the packets of its own subscription in order, from the init
   segment on, none missing, through window stalls, startup priority and
   other slots coming and going. *)
PlayerInOrder == \A s \in Slots : \A k \in DOMAIN seen[s] : seen[s][k] = k

(* A subscription stands for a client in a hub and the other way round, and
   the writer leaves none behind, however it ends. *)
NoHubLeak ==
    /\ DOMAIN queue = DOMAIN subs
    /\ writer.pc = "ended" => DOMAIN queue = {}

(* Flow control does not stall: what is queued for a slot is sent, or the
   slot or the connection goes away. *)
QueuedIsSent ==
    \A s \in Slots :
        (s \in DOMAIN queue /\ queue[s] # <<>>)
            ~> (s \notin DOMAIN queue \/ queue[s] = <<>> \/ ~lgOpen)

(* When the connection or the relay goes down, both goroutines end: neither
   waits for the other through the controls channel, done or writerDone. *)
BothEnd == (~lgOpen \/ hubDone) ~> (reader = <<"ended">> /\ writer.pc = "ended")

(* The grid's flow control: the window of unacknowledged bytes is kept, and
   what reaches the player of a slot is in order (live_grid_ws.go). *)
FlowControlled == LgTypeOK /\ WindowBound /\ PlayerInOrder
=============================================================================
