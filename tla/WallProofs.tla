----------------------------- MODULE WallProofs -----------------------------
(***************************************************************************)
(* Theorems about the two ways to see many channels at once: the live grid *)
(* with its window (live_grid_ws.go and wsplayer.js), for every number of  *)
(* slots, every window, packet size, subscription limit and capacity of    *)
(* the controls channel; and the live wall that ffmpeg composes            *)
(* (surv_mosaic.go), for every number of viewers, rebuilds and             *)
(* configurations and every grace period.                                  *)
(***************************************************************************)
EXTENDS LiveGrid, SurvMosaic, DataLemmas

-----------------------------------------------------------------------------
(* LiveGrid.                                                               *)

(* The packets of d, one after the other, take a counter from `from' to `to':
   each takes it from at[k - 1] to at[k] as R says. *)
Carries(d, R, from, to) ==
    \E at \in [0 .. Len(d) -> Nat] :
        /\ at[0] = from /\ at[Len(d)] = to
        /\ \A k \in 0 .. Len(d) : at[k] <= to
        /\ \A k \in 1 .. Len(d) : <<at[k - 1], d[k], at[k]>> \in R

Moves == Nat \X LgPacket \X Nat

(* The counter of bytes: c.received on one side, sent on the other. *)
Weight == {m \in Moves : m[3] = m[1] + Size[Kind(m[2].n)]}

(* The counter of the packets of slot s: each is the one after the last. *)
InTurn(s) ==
    {m \in Moves : IF m[2].slot = s THEN m[3] = m[1] + 1 /\ m[2].n = m[3]
                                    ELSE m[3] = m[1]}

(* The slot a control subscribes, and those a queue of controls does. *)
SubOf(c) == IF c.op = "sub" THEN {c.slot} ELSE {}
Waiting(q) == UNION {SubOf(q[k]) : k \in DOMAIN q}
Held(r) == IF r[1] = "offer" THEN SubOf(r[2]) ELSE {}

Once(q) == \A j, k \in DOMAIN q : SubOf(q[j]) \cap SubOf(q[k]) # {} => j = k

(* Nothing was ever done for slot s. *)
Fresh(s) ==
    /\ s \notin DOMAIN queue
    /\ fed[s] = 0
    /\ seen[s] = <<>>
    /\ \A k \in DOMAIN down : down[k].slot # s

-----------------------------------------------------------------------------
(* What the writer goes through or selects on is subscribed, and it selects
   on queues only with the window open. *)
WriterSlots ==
    /\ writer.pc = "startup" => writer.todo \subseteq DOMAIN subs
    /\ writer.pc = "select" => /\ writer.slots \subseteq DOMAIN subs
                               /\ writer.slots # {} => CanSend

(* The bytes on their way are those sent and not received. *)
InFlight == Carries(down, Weight, received, sent)

(* An acknowledgement is of bytes that were received. *)
AckOk(c) == c.op = "ack" => c.bytes <= received

AcksReceived ==
    /\ \A k \in DOMAIN up : AckOk(up[k])
    /\ reader[1] = "offer" => AckOk(reader[2])
    /\ \A k \in DOMAIN controls : AckOk(controls[k])
    /\ acknowledged <= received

WindowKept == \E k \in Kinds : sent < acknowledged + Window + Size[k]

(* A slot is subscribed once: the control that does is the first to touch it. *)
SubsOnce ==
    /\ Once(up) /\ Once(controls)
    /\ Waiting(controls) \cap Waiting(up) = {}
    /\ Held(reader) \cap (Waiting(controls) \cup Waiting(up)) = {}
    /\ \A s \in Waiting(controls) \cup Held(reader) \cup Waiting(up) : s < nextSlot /\ Fresh(s)
    /\ \A s \in Slots : s >= nextSlot => s \notin subscribers /\ Fresh(s)

(* The queue of a subscription ends with the packet its hub queued last. *)
QueueRun ==
    \A s \in DOMAIN queue :
        /\ Len(queue[s]) <= fed[s]
        /\ \A k \in DOMAIN queue[s] : queue[s][k] = fed[s] - Len(queue[s]) + k

(* What is on its way to a player continues what it has, up to what its
   queue continues. *)
DownInTurn ==
    \A s \in subscribers : \E to \in Nat :
        /\ Carries(down, InTurn(s), Len(seen[s]), to)
        /\ s \in DOMAIN queue => to = fed[s] - Len(queue[s])

(* The inductive invariant. *)
LgIInv ==
    /\ LgTypeOK
    /\ WriterSlots
    /\ NoHubLeak
    /\ InFlight
    /\ AcksReceived
    /\ WindowKept
    /\ SubsOnce
    /\ QueueRun
    /\ PlayerInOrder
    /\ DownInTurn
-----------------------------------------------------------------------------
(* What a sequence of packets carries. *)

LEMMA CarriesNothing ==
  ASSUME NEW R, NEW n \in Nat
  PROVE  Carries(<<>>, R, n, n)
  <1> DEFINE at == [k \in 0 .. 0 |-> n]
  <1>1. Len(<<>>) = 0
    OBVIOUS
  <1>2. at \in [0 .. 0 -> Nat] /\ at[0] = n /\ \A k \in 0 .. 0 : at[k] <= n
    OBVIOUS
  <1>3. 1 .. 0 = {}
    OBVIOUS
  <1>4. QED
    BY <1>1, <1>2, <1>3 DEF Carries

LEMMA CarriesUp ==
  ASSUME NEW d, NEW R, NEW a \in Nat, NEW b \in Nat, Len(d) \in Nat, Carries(d, R, a, b)
  PROVE  a <= b
  BY DEF Carries

(* Packets that leave the counter alone. *)
LEMMA CarriesIdle ==
  ASSUME NEW d, NEW R, NEW n \in Nat, Len(d) \in Nat,
         \A k \in 1 .. Len(d) : <<n, d[k], n>> \in R
  PROVE  Carries(d, R, n, n)
  <1> DEFINE at == [k \in 0 .. Len(d) |-> n]
  <1>1. at \in [0 .. Len(d) -> Nat]
    OBVIOUS
  <1>2. at[0] = n /\ at[Len(d)] = n /\ \A k \in 0 .. Len(d) : at[k] <= n
    OBVIOUS
  <1>3. ASSUME NEW k \in 1 .. Len(d) PROVE <<at[k - 1], d[k], at[k]>> \in R
    <2>1. at[k - 1] = n /\ at[k] = n
      OBVIOUS
    <2>2. QED
      BY <2>1
  <1>4. QED
    BY <1>1, <1>2, <1>3 DEF Carries

LEMMA CarriesAppend ==
  ASSUME NEW d \in Seq(LgPacket), NEW p \in LgPacket, NEW R,
         NEW a \in Nat, NEW b \in Nat, NEW c \in Nat,
         Carries(d, R, a, b), <<b, p, c>> \in R, b <= c
  PROVE  Carries(Append(d, p), R, a, c)
  <1> DEFINE e == Append(d, p)
             n == Len(d)
  <1>1. /\ n \in Nat /\ Len(e) = n + 1
        /\ \A k \in 1 .. n : e[k] = d[k]
        /\ e[n + 1] = p
    BY AppendFacts
  <1>2. PICK at \in [0 .. n -> Nat] :
           /\ at[0] = a /\ at[n] = b
           /\ \A k \in 0 .. n : at[k] <= b
           /\ \A k \in 1 .. n : <<at[k - 1], d[k], at[k]>> \in R
    BY DEF Carries
  <1> DEFINE to == [k \in 0 .. n + 1 |-> IF k = n + 1 THEN c ELSE at[k]]
  <1> HIDE DEF n
  <1>3. to \in [0 .. n + 1 -> Nat]
    <2>1. \A k \in 0 .. n + 1 : k = n + 1 \/ k \in 0 .. n
      BY <1>1
    <2>2. QED
      BY <1>2, <2>1
  <1>4. to[0] = a /\ to[n + 1] = c
    BY <1>1, <1>2
  <1>5. ASSUME NEW k \in 0 .. n + 1 PROVE to[k] <= c
    <2>1. k = n + 1 \/ k \in 0 .. n
      BY <1>1
    <2>2. CASE k = n + 1
      BY <2>2
    <2>3. CASE k \in 0 .. n
      <3>1. to[k] = at[k] /\ at[k] \in Nat /\ at[k] <= b
        BY <1>1, <1>2, <2>3
      <3>2. QED
        BY <3>1
    <2>4. QED
      BY <2>1, <2>2, <2>3
  <1>6. ASSUME NEW k \in 1 .. n + 1 PROVE <<to[k - 1], e[k], to[k]>> \in R
    <2>1. CASE k = n + 1
      <3>1. to[k - 1] = b /\ to[k] = c /\ e[k] = p
        BY <1>1, <1>2, <2>1
      <3>2. QED
        BY <3>1
    <2>2. CASE k # n + 1
      <3>1. k \in 1 .. n /\ to[k - 1] = at[k - 1] /\ to[k] = at[k]
        BY <1>1, <1>2, <2>2
      <3>2. e[k] = d[k]
        BY <1>1, <3>1
      <3>3. QED
        BY <1>2, <3>1, <3>2
    <2>3. QED
      BY <2>1, <2>2
  <1> HIDE DEF to, e
  <1>7. Len(e) = n + 1
    BY <1>1
  <1>8. Carries(e, R, a, c)
    BY <1>3, <1>4, <1>5, <1>6, <1>7 DEF Carries
  <1>9. QED
    BY <1>8 DEF e

LEMMA CarriesTail ==
  ASSUME NEW d \in Seq(LgPacket), d # <<>>, NEW R, NEW a \in Nat, NEW b \in Nat,
         Carries(d, R, a, b)
  PROVE  \E c \in Nat : <<a, Head(d), c>> \in R /\ Carries(Tail(d), R, c, b)
  <1> DEFINE e == Tail(d)
             n == Len(e)
  <1>1. /\ n \in Nat /\ Len(d) = n + 1
        /\ \A k \in 1 .. n : e[k] = d[k + 1]
        /\ Head(d) = d[1]
    BY TailFacts
  <1> HIDE DEF n, e
  <1>2. PICK at \in [0 .. n + 1 -> Nat] :
           /\ at[0] = a /\ at[n + 1] = b
           /\ \A k \in 0 .. n + 1 : at[k] <= b
           /\ \A k \in 1 .. n + 1 : <<at[k - 1], d[k], at[k]>> \in R
    BY <1>1 DEF Carries
  <1> DEFINE to == [k \in 0 .. n |-> at[k + 1]]
  <1>3. to \in [0 .. n -> Nat]
    <2>1. \A k \in 0 .. n : k + 1 \in 0 .. n + 1
      BY <1>1
    <2>2. QED
      BY <1>2, <2>1
  <1>4. to[0] = at[1] /\ to[n] = b
    BY <1>1, <1>2
  <1>5. ASSUME NEW k \in 0 .. n PROVE to[k] <= b
    <2>1. k + 1 \in 0 .. n + 1 /\ to[k] = at[k + 1]
      BY <1>1
    <2>2. QED
      BY <1>2, <2>1
  <1>6. ASSUME NEW k \in 1 .. n PROVE <<to[k - 1], e[k], to[k]>> \in R
    <2>1. k + 1 \in 1 .. n + 1 /\ to[k] = at[k + 1] /\ (k + 1) - 1 = k /\ to[k - 1] = at[k]
      BY <1>1
    <2>2. <<at[(k + 1) - 1], d[k + 1], at[k + 1]>> \in R
      BY <1>2, <2>1
    <2>3. QED
      BY <1>1, <2>1, <2>2
  <1>7. <<a, Head(d), at[1]>> \in R /\ at[1] \in Nat
    <2>1. 1 \in 1 .. n + 1 /\ 1 \in 0 .. n + 1 /\ 1 - 1 = 0
      BY <1>1
    <2>2. <<at[1 - 1], d[1], at[1]>> \in R /\ at[1] \in Nat
      BY <1>2, <2>1
    <2>3. QED
      BY <1>1, <1>2, <2>1, <2>2
  <1> HIDE DEF to
  <1>8. Carries(e, R, at[1], b)
    BY <1>3, <1>4, <1>5, <1>6 DEF Carries, n
  <1>9. QED
    BY <1>7, <1>8 DEF e

(* Controls that are appended or taken. *)
LEMMA WaitingAppend ==
  ASSUME NEW q \in Seq(Control), NEW c \in Control
  PROVE  /\ Waiting(Append(q, c)) = Waiting(q) \cup SubOf(c)
         /\ Once(q) /\ SubOf(c) \cap Waiting(q) = {} => Once(Append(q, c))
  <1> DEFINE e == Append(q, c)
  <1>1. /\ DOMAIN q \subseteq DOMAIN e
        /\ \A k \in DOMAIN q : e[k] = q[k]
        /\ Len(q) + 1 \in DOMAIN e /\ e[Len(q) + 1] = c
        /\ \A k \in DOMAIN e : k = Len(q) + 1 \/ k \in DOMAIN q
    BY AppendFacts
  <1> HIDE DEF e
  <1>2. ASSUME NEW s \in Waiting(e) PROVE s \in Waiting(q) \cup SubOf(c)
    BY <1>1 DEF Waiting
  <1>3. ASSUME NEW s \in Waiting(q) \cup SubOf(c) PROVE s \in Waiting(e)
    BY <1>1 DEF Waiting
  <1>4. ASSUME Once(q), SubOf(c) \cap Waiting(q) = {} PROVE Once(e)
    <2> SUFFICES ASSUME NEW j \in DOMAIN e, NEW k \in DOMAIN e,
                        SubOf(e[j]) \cap SubOf(e[k]) # {}
                 PROVE  j = k
      BY DEF Once
    <2>1. \A i \in DOMAIN q : SubOf(q[i]) \subseteq Waiting(q)
      BY DEF Waiting
    <2>2. j \in DOMAIN q /\ k \in DOMAIN q => j = k
      BY <1>1, <1>4 DEF Once
    <2>3. QED
      BY <1>1, <1>4, <2>1, <2>2
  <1>5. QED
    BY <1>2, <1>3, <1>4 DEF e

LEMMA WaitingTail ==
  ASSUME NEW q \in Seq(Control), q # <<>>
  PROVE  /\ Waiting(q) = SubOf(Head(q)) \cup Waiting(Tail(q))
         /\ Once(q) => Once(Tail(q)) /\ SubOf(Head(q)) \cap Waiting(Tail(q)) = {}
  <1> DEFINE e == Tail(q)
  <1>1. /\ 1 \in DOMAIN q /\ Head(q) = q[1]
        /\ \A k \in DOMAIN e : k \in Nat \ {0} /\ k + 1 \in DOMAIN q /\ e[k] = q[k + 1]
        /\ \A k \in DOMAIN q : k = 1 \/ (k - 1 \in DOMAIN e /\ e[k - 1] = q[k])
    BY TailFacts
  <1> HIDE DEF e
  <1>2. ASSUME NEW s \in Waiting(q) PROVE s \in SubOf(Head(q)) \cup Waiting(e)
    <2>1. PICK k \in DOMAIN q : s \in SubOf(q[k])
      BY DEF Waiting
    <2>2. CASE k = 1
      BY <1>1, <2>1, <2>2
    <2>3. CASE k - 1 \in DOMAIN e /\ e[k - 1] = q[k]
      BY <2>1, <2>3 DEF Waiting
    <2>4. QED
      BY <1>1, <2>2, <2>3
  <1>3. ASSUME NEW s \in SubOf(Head(q)) \cup Waiting(e) PROVE s \in Waiting(q)
    BY <1>1 DEF Waiting
  <1>4. ASSUME Once(q) PROVE Once(e)
    <2> SUFFICES ASSUME NEW j \in DOMAIN e, NEW k \in DOMAIN e,
                        SubOf(e[j]) \cap SubOf(e[k]) # {}
                 PROVE  j = k
      BY DEF Once
    <2>1. j + 1 = k + 1
      BY <1>1, <1>4 DEF Once
    <2>2. QED
      BY <1>1, <2>1
  <1>5. ASSUME Once(q) PROVE SubOf(Head(q)) \cap Waiting(e) = {}
    <2> SUFFICES ASSUME NEW s \in SubOf(Head(q)), s \in Waiting(e) PROVE FALSE
      OBVIOUS
    <2>1. PICK k \in DOMAIN e : s \in SubOf(e[k])
      BY DEF Waiting
    <2>2. k + 1 = 1
      BY <1>1, <1>5, <2>1 DEF Once
    <2>3. QED
      BY <1>1, <2>1, <2>2
  <1>6. QED
    BY <1>2, <1>3, <1>4, <1>5 DEF e
-----------------------------------------------------------------------------
(* The steps of the writer, by what they do to the rest. *)
Applies ==
    /\ controls # <<>> /\ Apply
    /\ UNCHANGED <<lgOpen, hubDone, up, down, clientVars, reader, sent>>

Delivers(s) ==
    /\ CanSend
    /\ s \in DOMAIN subs /\ queue[s] # <<>>
    /\ queue' = [queue EXCEPT ![s] = Tail(queue[s])]
    /\ subs' = [subs EXCEPT ![s] = IF subs[s] > 0 THEN subs[s] - 1 ELSE 0]
    /\ down' = Append(down, [slot |-> s, n |-> Head(queue[s])])
    /\ sent' = sent + Size[Kind(Head(queue[s]))]
    /\ UNCHANGED <<lgOpen, hubDone, up, clientVars, reader, controls, fed, acknowledged>>

Quits ==
    /\ WriterEnds
    /\ UNCHANGED <<hubDone, up, clientVars, reader, controls, fed, acknowledged>>

Turns == UNCHANGED <<lgOpen, hubDone, up, down, clientVars, reader, controls, subs, lgHubVars, sent, acknowledged>>

LEMMA StartupDid ==
  ASSUME NEW ph, NEW td, NEW di,
         NEW v, v = [pc |-> "startup", phase |-> ph, todo |-> td, did |-> di],
         NEW w, w = [v EXCEPT !.did = TRUE]
  PROVE  w = [pc |-> "startup", phase |-> ph, todo |-> td, did |-> TRUE]
  OBVIOUS

LEMMA WriterMoves ==
  ASSUME LgIInv, WriterStep
  PROVE  /\ writer' \in WriterStates
         /\ WriterSlots'
         /\ \/ writer'.pc # "ended" /\ (Applies \/ (\E s \in Slots : Delivers(s)) \/ Turns)
            \/ Quits
  <1> USE DEF LgIInv
  <1>1. /\ writer \in WriterStates /\ DOMAIN subs \subseteq Slots
        /\ writer.pc = "startup" =>
              /\ writer.phase \in 1 .. 2 /\ writer.todo \subseteq DOMAIN subs /\ writer.did \in BOOLEAN
              /\ writer = [pc |-> "startup", phase |-> writer.phase, todo |-> writer.todo, did |-> writer.did]
        /\ writer.pc = "select" => /\ writer.slots \subseteq DOMAIN subs
                                   /\ writer.slots # {} => CanSend
    <2>1. /\ writer \in WriterStates /\ DOMAIN subs \subseteq Slots /\ WriterSlots
      BY DEF LgTypeOK
    <2>2. writer.pc = "startup" => writer \in [pc : {"startup"}, phase : 1 .. 2, todo : SUBSET Slots, did : BOOLEAN]
      BY <2>1 DEF WriterStates
    <2>3. QED
      BY <2>1, <2>2 DEF WriterSlots
  <1>2. ASSUME writer' = [pc |-> "ended"]
        PROVE  writer' \in WriterStates /\ WriterSlots'
    BY <1>2 DEF WriterStates, WriterSlots
  <1>3. ASSUME writer' = [pc |-> "top"]
        PROVE  writer' \in WriterStates /\ WriterSlots' /\ writer'.pc # "ended"
    BY <1>3 DEF WriterStates, WriterSlots
  <1>4. ASSUME NEW ph \in 1 .. 2, NEW td, td \subseteq DOMAIN subs, NEW di \in BOOLEAN,
               writer' = [pc |-> "startup", phase |-> ph, todo |-> td, did |-> di],
               DOMAIN subs' = DOMAIN subs
        PROVE  writer' \in WriterStates /\ WriterSlots' /\ writer'.pc # "ended"
    <2>1. td \in SUBSET Slots
      BY <1>1, <1>4
    <2>2. writer' \in [pc : {"startup"}, phase : 1 .. 2, todo : SUBSET Slots, did : BOOLEAN]
      BY <1>4, <2>1
    <2>3. writer'.pc = "startup" /\ writer'.todo = td
      BY <1>4
    <2>4. QED
      BY <1>4, <2>2, <2>3 DEF WriterStates, WriterSlots
  <1>5. ASSUME NEW s \in Slots, NEW next, Send(s, next), CanSend, s \in DOMAIN subs, queue[s] # <<>>,
               UNCHANGED <<hubDone, up, clientVars, reader, controls, fed, acknowledged>>
        PROVE  \/ writer' = next /\ DOMAIN subs' = DOMAIN subs /\ Delivers(s)
               \/ writer' = [pc |-> "ended"] /\ Quits
    <2>1. CASE lgOpen /\ writer' = next
      BY <1>5, <2>1 DEF Send, Delivers, WriterEnds
    <2>2. CASE ~lgOpen /\ WriterEnds
      BY <1>5, <2>2 DEF Quits, WriterEnds
    <2>3. QED
      BY <1>5, <2>1, <2>2 DEF Send
  <1>6. CASE WriterTop
    <2>1. CASE controls # <<>> /\ Apply /\ UNCHANGED writer
      <3>1. Applies
        BY <1>6, <2>1 DEF WriterTop, Applies
      <3>2. writer.pc = "top" /\ writer' = writer
        BY <1>6, <2>1 DEF WriterTop
      <3>3. writer' \in WriterStates /\ WriterSlots' /\ writer'.pc # "ended"
        BY <1>1, <3>2 DEF WriterSlots
      <3>4. QED
        BY <3>1, <3>3
    <2>2. CASE ~(controls # <<>> /\ Apply /\ UNCHANGED writer)
      <3>1. /\ writer' = [pc |-> "startup", phase |-> 2, todo |-> DOMAIN subs, did |-> FALSE]
            /\ UNCHANGED <<controls, subs, lgHubVars, acknowledged>>
        BY <1>6, <2>2 DEF WriterTop
      <3>2. Turns
        BY <1>6, <3>1 DEF WriterTop, Turns
      <3>3. 2 \in 1 .. 2 /\ FALSE \in BOOLEAN /\ DOMAIN subs' = DOMAIN subs
        BY <3>1
      <3>4. writer' \in WriterStates /\ WriterSlots' /\ writer'.pc # "ended"
        BY <1>4, <3>1, <3>3
      <3>5. QED
        BY <3>2, <3>4
    <2>3. QED
      BY <2>1, <2>2
  <1>7. ASSUME NEW s \in Slots, StartupSlot(s)
        PROVE  /\ writer' \in WriterStates /\ WriterSlots'
               /\ \/ writer'.pc # "ended" /\ (Delivers(s) \/ Turns)
                  \/ Quits
    <2>1. writer.pc = "startup" /\ s \in writer.todo /\ s \in DOMAIN subs
      BY <1>1, <1>7 DEF StartupSlot
    <2>2. [writer EXCEPT !.todo = writer.todo \ {s}]
            = [pc |-> "startup", phase |-> writer.phase, todo |-> writer.todo \ {s}, did |-> writer.did]
      BY <1>1, <2>1
    <2>3. CASE subs[s] = writer.phase /\ CanSend /\ queue[s] # <<>>
      <3> DEFINE next == [pc |-> "startup", phase |-> writer.phase, todo |-> writer.todo \ {s}, did |-> TRUE]
      <3>1. PICK v : v = [writer EXCEPT !.todo = writer.todo \ {s}]
        OBVIOUS
      <3>2. Send(s, next)
        <4>1. v = [pc |-> "startup", phase |-> writer.phase, todo |-> writer.todo \ {s}, did |-> writer.did]
          BY <2>2, <3>1
        <4>2. PICK w : w = [v EXCEPT !.did = TRUE]
          OBVIOUS
        <4>3. w = next
          BY <4>1, <4>2, StartupDid
        <4>4. Send(s, w)
          BY <1>7, <2>3, <3>1, <4>2, Zenon DEF StartupSlot
        <4>5. QED
          BY <4>3, <4>4, Zenon
      <3>3. UNCHANGED <<hubDone, up, clientVars, reader, controls, fed, acknowledged>>
        BY <1>7 DEF StartupSlot
      <3>4. \/ writer' = next /\ DOMAIN subs' = DOMAIN subs /\ Delivers(s)
            \/ writer' = [pc |-> "ended"] /\ Quits
        <4> HIDE DEF next
        <4>1. QED
          BY <1>5, <2>1, <2>3, <3>2, <3>3
      <3>5. ASSUME writer' = next, DOMAIN subs' = DOMAIN subs
            PROVE  writer' \in WriterStates /\ WriterSlots' /\ writer'.pc # "ended"
        BY <1>1, <1>4, <2>1, <3>5
      <3>6. QED
        BY <1>2, <3>4, <3>5
    <2>4. CASE ~(subs[s] = writer.phase /\ CanSend /\ queue[s] # <<>>)
      <3>1. /\ writer' = [pc |-> "startup", phase |-> writer.phase, todo |-> writer.todo \ {s}, did |-> writer.did]
            /\ UNCHANGED <<lgOpen, down, subs, queue, sent>>
        BY <1>7, <2>2, <2>4 DEF StartupSlot
      <3>2. Turns
        BY <1>7, <3>1 DEF StartupSlot, Turns, lgHubVars
      <3>3. writer' \in WriterStates /\ WriterSlots' /\ writer'.pc # "ended"
        BY <1>1, <1>4, <2>1, <3>1
      <3>4. QED
        BY <3>2, <3>3
    <2>5. QED
      BY <2>3, <2>4
  <1>8. CASE StartupEnd
    <2>1. Turns /\ writer.pc = "startup"
      BY <1>8 DEF StartupEnd, Turns
    <2>2. subs' = subs /\ (CanSend' <=> CanSend)
      BY <2>1 DEF Turns, CanSend
    <2>3. CASE writer.did
      BY <1>3, <1>8, <2>1, <2>3 DEF StartupEnd
    <2>4. CASE ~writer.did /\ writer.phase = 2
      <3>1. writer' = [pc |-> "startup", phase |-> 1, todo |-> DOMAIN subs, did |-> writer.did]
        BY <1>1, <1>8, <2>1, <2>4 DEF StartupEnd
      <3>2. QED
        BY <1>1, <1>4, <2>1, <2>2, <3>1
    <2>5. CASE ~writer.did /\ writer.phase # 2
      <3>1. writer' = [pc |-> "select", slots |-> IF CanSend THEN DOMAIN subs ELSE {}]
        BY <1>8, <2>5 DEF StartupEnd
      <3>2. writer'.pc = "select" /\ writer'.slots \subseteq DOMAIN subs /\ (writer'.slots # {} => CanSend)
        BY <3>1
      <3>3. (IF CanSend THEN DOMAIN subs ELSE {}) \in SUBSET Slots
        BY <1>1
      <3>4. writer' \in [pc : {"select"}, slots : SUBSET Slots]
        BY <3>1, <3>3
      <3>5. WriterSlots'
        BY <2>2, <3>2 DEF WriterSlots
      <3>6. QED
        BY <2>1, <3>2, <3>4, <3>5 DEF WriterStates
    <2>6. QED
      BY <2>3, <2>4, <2>5
  <1>9. CASE SelectControl
    <2>1. Applies /\ writer' = [pc |-> "top"]
      BY <1>9 DEF SelectControl, Applies
    <2>2. QED
      BY <1>3, <2>1
  <1>10. ASSUME NEW s \in Slots, SelectMedia(s)
         PROVE  /\ writer' \in WriterStates /\ WriterSlots'
                /\ \/ writer'.pc # "ended" /\ Delivers(s)
                   \/ Quits
    <2>1. s \in DOMAIN subs /\ CanSend /\ queue[s] # <<>> /\ Send(s, [pc |-> "top"])
      BY <1>1, <1>10 DEF SelectMedia
    <2>2. UNCHANGED <<hubDone, up, clientVars, reader, controls, fed, acknowledged>>
      BY <1>10 DEF SelectMedia
    <2>3. \/ writer' = [pc |-> "top"] /\ DOMAIN subs' = DOMAIN subs /\ Delivers(s)
          \/ writer' = [pc |-> "ended"] /\ Quits
      BY <1>5, <2>1, <2>2
    <2>4. QED
      BY <1>2, <1>3, <2>3
  <1>11. CASE SelectDone
    <2>1. Quits /\ writer' = [pc |-> "ended"]
      BY <1>11 DEF SelectDone, Quits, WriterEnds
    <2>2. QED
      BY <1>2, <2>1
  <1>12. QED
    BY <1>6, <1>7, <1>8, <1>9, <1>10, <1>11 DEF WriterStep

(* What applying a control does. *)
Drops(s) ==
    /\ subs' = Without(subs, {s}) /\ queue' = Without(queue, {s})
    /\ acknowledged' = acknowledged

Adds(s) ==
    /\ s \in DOMAIN subs \/ Cardinality(DOMAIN subs) < MaxSubs
    /\ subs' = [t \in DOMAIN subs \cup {s} |-> IF t = s THEN 2 ELSE subs[t]]
    /\ queue' = [t \in DOMAIN queue \cup {s} |-> IF t = s THEN <<>> ELSE queue[t]]
    /\ acknowledged' = acknowledged

LEMMA ApplyCases ==
  ASSUME LgTypeOK, Applies
  PROVE  /\ controls' = Tail(controls) /\ fed' = fed
         /\ controls # <<>> /\ Head(controls) \in Control
         /\ UNCHANGED <<lgOpen, hubDone, up, down, clientVars, reader, sent>>
         /\ \/ UNCHANGED <<subs, queue, acknowledged>>
            \/ /\ Head(controls).op = "ack" /\ Head(controls).bytes \in Nat
               /\ Head(controls).bytes <= sent
               /\ acknowledged' = Head(controls).bytes /\ acknowledged' >= acknowledged
               /\ UNCHANGED <<subs, queue>>
            \/ \E s \in Slots : Drops(s)
            \/ \E s \in Slots : s \in SubOf(Head(controls)) /\ Adds(s)
  <1>1. controls # <<>> /\ Head(controls) \in Control
    BY HeadTailProperties DEF LgTypeOK, Applies
  <1> DEFINE c == Head(controls)
  <1>2. /\ controls' = Tail(controls)
        /\ c.op = "ack" => ApplyAck(c.bytes)
        /\ c.op = "unsub" => ApplyUnsub(c.slot)
        /\ c.op = "sub" => ApplySub(c.slot)
    BY DEF Applies, Apply
  <1>3. UNCHANGED <<lgOpen, hubDone, up, down, clientVars, reader, sent>>
    BY DEF Applies
  <1> HIDE DEF c
  <1>4. CASE c.op = "ack" /\ c.bytes \in Nat
    <2>1. fed' = fed /\ UNCHANGED <<subs, queue>>
          /\ acknowledged' = IF c.bytes > acknowledged /\ c.bytes <= sent THEN c.bytes ELSE acknowledged
      BY <1>2, <1>4 DEF ApplyAck, lgHubVars
    <2>2. acknowledged \in Nat
      BY DEF LgTypeOK
    <2>3. CASE c.bytes > acknowledged /\ c.bytes <= sent
      BY <1>1, <1>2, <1>3, <1>4, <2>1, <2>2, <2>3 DEF c
    <2>4. CASE ~(c.bytes > acknowledged /\ c.bytes <= sent)
      BY <1>1, <1>2, <1>3, <2>1, <2>4
    <2>5. QED
      BY <2>3, <2>4
  <1>5. CASE c.op = "unsub" /\ c.slot \in Slots
    <2>1. fed' = fed /\ Drops(c.slot)
      BY <1>2, <1>5 DEF ApplyUnsub, Drops
    <2>2. QED
      BY <1>1, <1>2, <1>3, <1>5, <2>1
  <1>6. CASE c.op = "sub" /\ c.slot \in Slots
    <2>1. fed' = fed /\ acknowledged' = acknowledged
      BY <1>2, <1>6 DEF ApplySub
    <2>2. UNCHANGED <<subs, queue>> \/ Drops(c.slot) \/ Adds(c.slot)
      BY <1>2, <1>6, <2>1 DEF ApplySub, Drops, Adds
    <2>3. c.slot \in SubOf(c)
      BY <1>6 DEF SubOf
    <2>4. QED
      BY <1>1, <1>2, <1>3, <1>6, <2>1, <2>2, <2>3 DEF c
  <1>7. \/ c.op = "ack" /\ c.bytes \in Nat
        \/ c.op \in {"unsub", "sub"} /\ c.slot \in Slots
    BY <1>1 DEF Control, c
  <1>8. QED
    BY <1>4, <1>5, <1>6, <1>7

NextCases ==
    \/ Subscribe
    \/ \E s \in Slots : Unsubscribe(s)
    \/ \E s \in Slots : HubFeeds(s)
    \/ Receive
    \/ Hangup
    \/ HubStop
    \/ ReadControl
    \/ OfferControl
    \/ Applies
    \/ \E s \in Slots : Delivers(s)
    \/ Turns
    \/ Quits

LEMMA NextIsCases ==
  ASSUME LgIInv, LgNext
  PROVE  NextCases
  BY WriterMoves DEF LgNext, ReaderStep, NextCases
-----------------------------------------------------------------------------
(* The packet at the head of a subscription's queue. *)
LEMMA HeadOfQueue ==
  ASSUME LgTypeOK, NEW s \in DOMAIN queue, queue[s] # <<>>
  PROVE  /\ s \in Slots /\ queue[s] \in Seq(1 .. MaxFeeds)
         /\ Head(queue[s]) \in 1 .. MaxFeeds
         /\ [slot |-> s, n |-> Head(queue[s])] \in LgPacket
         /\ Size[Kind(Head(queue[s]))] \in Nat \ {0}
  <1>1. s \in Slots /\ queue[s] \in Seq(1 .. MaxFeeds)
    BY DEF LgTypeOK
  <1>2. Head(queue[s]) \in 1 .. MaxFeeds
    BY <1>1, HeadTailProperties
  <1>3. Size \in [Kinds -> Nat \ {0}]
    BY GridAssumption
  <1>4. \A k : Kind(k) \in Kinds
    BY DEF Kind, Kinds
  <1>5. QED
    BY <1>1, <1>2, <1>3, <1>4 DEF LgPacket

LEMMA HeadOfDown ==
  ASSUME LgTypeOK, down # <<>>
  PROVE  /\ Head(down) \in LgPacket /\ Tail(down) \in Seq(LgPacket)
         /\ Head(down).slot \in Slots /\ Head(down).n \in 1 .. MaxFeeds
         /\ Size[Kind(Head(down).n)] \in Nat \ {0}
  <1>1. down \in Seq(LgPacket)
    BY DEF LgTypeOK
  <1>2. Head(down) \in LgPacket /\ Tail(down) \in Seq(LgPacket)
    BY <1>1, HeadTailProperties
  <1>3. Size \in [Kinds -> Nat \ {0}]
    BY GridAssumption
  <1>4. \A k : Kind(k) \in Kinds
    BY DEF Kind, Kinds
  <1>5. QED
    BY <1>2, <1>3, <1>4 DEF LgPacket

LEMMA SlotsFinite ==
  ASSUME NEW S, S \subseteq Slots
  PROVE  IsFiniteSet(S) /\ Cardinality(S) \in Nat
  <1>1. IsFiniteSet(Slots)
    BY GridAssumption, FS_Interval DEF Slots
  <1>2. QED
    BY <1>1, FS_Subset, FS_CardinalityType

(* What is typed about the subscriptions. *)
SubsType ==
    /\ DOMAIN subs \subseteq Slots
    /\ \A s \in DOMAIN subs : subs[s] \in 0 .. 2
    /\ Cardinality(DOMAIN subs) <= MaxSubs
    /\ DOMAIN queue \subseteq Slots
    /\ \A s \in DOMAIN queue : queue[s] \in Seq(1 .. MaxFeeds)

LEMMA SubsDrop ==
  ASSUME SubsType, NEW s \in Slots, Drops(s)
  PROVE  /\ DOMAIN subs' = DOMAIN subs \ {s} /\ DOMAIN queue' = DOMAIN queue \ {s}
         /\ \A t \in DOMAIN queue' : queue'[t] = queue[t]
         /\ SubsType' /\ acknowledged' = acknowledged
  <1>1. /\ DOMAIN subs' = DOMAIN subs \ {s} /\ DOMAIN queue' = DOMAIN queue \ {s}
        /\ \A t \in DOMAIN subs' : subs'[t] = subs[t]
        /\ \A t \in DOMAIN queue' : queue'[t] = queue[t]
        /\ acknowledged' = acknowledged
    BY DEF Drops, Without
  <1>2. IsFiniteSet(DOMAIN subs) /\ Cardinality(DOMAIN subs) \in Nat
    BY SlotsFinite DEF SubsType
  <1>3. Cardinality(DOMAIN subs') <= Cardinality(DOMAIN subs) /\ Cardinality(DOMAIN subs') \in Nat
    <2>1. DOMAIN subs' \subseteq DOMAIN subs
      BY <1>1
    <2>2. QED
      BY <1>2, <2>1, FS_Subset, FS_CardinalityType
  <1>4. Cardinality(DOMAIN subs') <= MaxSubs
    BY <1>2, <1>3, GridAssumption DEF SubsType
  <1>5. QED
    BY <1>1, <1>4 DEF SubsType

LEMMA SubsAdd ==
  ASSUME SubsType, NEW s \in Slots, Adds(s)
  PROVE  /\ DOMAIN subs' = DOMAIN subs \cup {s} /\ DOMAIN queue' = DOMAIN queue \cup {s}
         /\ queue'[s] = <<>> /\ \A t \in DOMAIN queue \ {s} : queue'[t] = queue[t]
         /\ SubsType' /\ acknowledged' = acknowledged
  <1>1. /\ DOMAIN subs' = DOMAIN subs \cup {s} /\ DOMAIN queue' = DOMAIN queue \cup {s}
        /\ subs'[s] = 2 /\ \A t \in DOMAIN subs \ {s} : subs'[t] = subs[t]
        /\ queue'[s] = <<>> /\ \A t \in DOMAIN queue \ {s} : queue'[t] = queue[t]
        /\ acknowledged' = acknowledged
    BY DEF Adds
  <1>2. IsFiniteSet(DOMAIN subs) /\ Cardinality(DOMAIN subs) \in Nat
    BY SlotsFinite DEF SubsType
  <1>3. Cardinality(DOMAIN subs') <= MaxSubs
    <2>1. CASE s \in DOMAIN subs
      <3>1. DOMAIN subs' = DOMAIN subs
        BY <1>1, <2>1
      <3>2. QED
        BY <3>1 DEF SubsType
    <2>2. CASE s \notin DOMAIN subs
      <3>1. Cardinality(DOMAIN subs') = Cardinality(DOMAIN subs) + 1
        BY <1>1, <1>2, <2>2, FS_AddElement
      <3>2. Cardinality(DOMAIN subs) < MaxSubs
        BY <2>2 DEF Adds
      <3>3. QED
        BY <1>2, <3>1, <3>2, GridAssumption
    <2>3. QED
      BY <2>1, <2>2
  <1>4. <<>> \in Seq(1 .. MaxFeeds)
    BY EmptySeq
  <1>5. /\ \A t \in DOMAIN subs' : subs'[t] \in 0 .. 2
        /\ \A t \in DOMAIN queue' : queue'[t] \in Seq(1 .. MaxFeeds)
    <2>1. ASSUME NEW t \in DOMAIN subs' PROVE subs'[t] \in 0 .. 2
      BY <1>1, <2>1 DEF SubsType
    <2>2. ASSUME NEW t \in DOMAIN queue' PROVE queue'[t] \in Seq(1 .. MaxFeeds)
      BY <1>1, <1>4, <2>2 DEF SubsType
    <2>3. QED
      BY <2>1, <2>2
  <1>6. QED
    BY <1>1, <1>3, <1>5 DEF SubsType

LEMMA TypeStep ==
  ASSUME LgIInv, LgNext
  PROVE  LgTypeOK'
  <1>1. LgTypeOK /\ NoHubLeak
    BY DEF LgIInv
  <1>2. CASE Subscribe
    <2>1. nextSlot \in Slots /\ nextSlot' \in 1 .. MaxSlots + 1
      BY <1>1, <1>2, GridAssumption DEF LgTypeOK, Subscribe, Slots
    <2>2. [op |-> "sub", slot |-> nextSlot] \in Control
      BY <2>1 DEF Control
    <2>3. up' \in Seq(Control)
      BY <1>1, <1>2, <2>2, AppendFacts DEF LgTypeOK, Subscribe
    <2>4. subscribers' \subseteq Slots
      BY <1>1, <1>2, <2>1 DEF LgTypeOK, Subscribe
    <2>5. QED
      BY <1>1, <1>2, <2>1, <2>3, <2>4 DEF LgTypeOK, Subscribe, lgHubVars
  <1>3. ASSUME NEW s \in Slots, Unsubscribe(s) PROVE LgTypeOK'
    <2>1. [op |-> "unsub", slot |-> s] \in Control
      BY DEF Control
    <2>2. up' \in Seq(Control) /\ subscribers' \subseteq Slots
      BY <1>1, <1>3, <2>1, AppendFacts DEF LgTypeOK, Unsubscribe
    <2>3. QED
      BY <1>1, <1>3, <2>2 DEF LgTypeOK, Unsubscribe, lgHubVars
  <1>4. ASSUME NEW s \in Slots, HubFeeds(s) PROVE LgTypeOK'
    <2>1. fed' \in [Slots -> 0 .. MaxFeeds] /\ fed[s] + 1 \in 1 .. MaxFeeds
      <3>1. fed \in [Slots -> 0 .. MaxFeeds] /\ fed[s] < MaxFeeds /\ MaxFeeds \in Nat
        BY <1>1, <1>4, GridAssumption DEF LgTypeOK, HubFeeds
      <3>2. fed[s] \in 0 .. MaxFeeds /\ fed' = [fed EXCEPT ![s] = fed[s] + 1]
        BY <1>4, <3>1 DEF HubFeeds
      <3>3. fed[s] + 1 \in 0 .. MaxFeeds /\ fed[s] + 1 \in 1 .. MaxFeeds
        BY <3>1, <3>2
      <3>4. QED
        BY <3>1, <3>2, <3>3
    <2>2. queue[s] \in Seq(1 .. MaxFeeds) /\ DOMAIN queue' = DOMAIN queue
      BY <1>1, <1>4 DEF LgTypeOK, HubFeeds
    <2>3. Append(queue[s], fed[s] + 1) \in Seq(1 .. MaxFeeds)
      BY <2>1, <2>2, AppendFacts
    <2>4. \A t \in DOMAIN queue' : queue'[t] \in Seq(1 .. MaxFeeds)
      BY <1>1, <1>4, <2>2, <2>3 DEF LgTypeOK, HubFeeds
    <2>5. QED
      BY <1>1, <1>4, <2>1, <2>2, <2>4 DEF LgTypeOK, HubFeeds, clientVars
  <1>5. CASE Receive
    <2> DEFINE p == Head(down)
    <2>1. /\ p.slot \in Slots /\ p.n \in 1 .. MaxFeeds
          /\ Size[Kind(p.n)] \in Nat /\ Tail(down) \in Seq(LgPacket)
      BY <1>1, <1>5, HeadOfDown DEF Receive
    <2>2. /\ received' = received + Size[Kind(p.n)]
          /\ up' = Append(up, [op |-> "ack", bytes |-> received'])
          /\ seen' = IF p.slot \in subscribers THEN [seen EXCEPT ![p.slot] = Append(@, p.n)] ELSE seen
          /\ down' = Tail(down)
      BY <1>5 DEF Receive
    <2> HIDE DEF p
    <2>3. received' \in Nat
      <3>1. received \in Nat
        BY <1>1 DEF LgTypeOK
      <3>2. QED
        BY <2>1, <2>2, <3>1
    <2>4. [op |-> "ack", bytes |-> received'] \in Control
      BY <2>3 DEF Control
    <2>5. up' \in Seq(Control)
      BY <1>1, <2>2, <2>4, AppendFacts DEF LgTypeOK
    <2>6. Append(seen[p.slot], p.n) \in Seq(1 .. MaxFeeds)
      BY <1>1, <2>1, AppendFacts DEF LgTypeOK
    <2>7. seen' \in [Slots -> Seq(1 .. MaxFeeds)]
      BY <1>1, <2>1, <2>2, <2>6 DEF LgTypeOK
    <2>8. down' \in Seq(LgPacket)
      BY <2>1, <2>2
    <2>9. QED
      BY <1>1, <1>5, <2>3, <2>5, <2>7, <2>8 DEF LgTypeOK, Receive, lgHubVars
  <1>6. CASE Hangup
    BY <1>1, <1>6 DEF LgTypeOK, Hangup, lgHubVars
  <1>7. CASE HubStop
    BY <1>1, <1>7 DEF LgTypeOK, HubStop, lgHubVars, clientVars
  <1>8. CASE ReadControl
    <2>1. /\ up' \in Seq(Control)
          /\ reader' \in {<<"read">>, <<"ended">>} \cup ({"offer"} \X Control)
      <3>1. CASE lgOpen /\ up # <<>> /\ reader' = <<"offer", Head(up)>> /\ up' = Tail(up)
        <4>1. Head(up) \in Control /\ Tail(up) \in Seq(Control)
          BY <1>1, <3>1, HeadTailProperties DEF LgTypeOK
        <4>2. QED
          BY <3>1, <4>1
      <3>2. CASE reader' = <<"ended">> /\ up' = up
        BY <1>1, <3>2 DEF LgTypeOK
      <3>3. QED
        BY <1>8, <3>1, <3>2 DEF ReadControl
    <2>2. QED
      BY <1>1, <1>8, <2>1 DEF LgTypeOK, ReadControl, lgHubVars, clientVars
  <1>9. CASE OfferControl
    <2>1. reader[2] \in Control
      BY <1>1, <1>9 DEF LgTypeOK, OfferControl
    <2>2. CASE Len(controls) < ControlCap /\ controls' = Append(controls, reader[2])
               /\ reader' = <<"read">> /\ lgOpen' = lgOpen
      <3>1. controls' \in Seq(Control) /\ Len(controls') = Len(controls) + 1 /\ Len(controls) \in Nat
        BY <1>1, <2>1, <2>2, AppendFacts DEF LgTypeOK
      <3>2. Len(controls') <= ControlCap
        BY <2>2, <3>1, GridAssumption
      <3>3. QED
        BY <1>1, <1>9, <2>2, <3>1, <3>2 DEF LgTypeOK, OfferControl, lgHubVars, clientVars
    <2>3. CASE reader' = <<"ended">> /\ lgOpen' = FALSE /\ controls' = controls
      BY <1>1, <1>9, <2>3 DEF LgTypeOK, OfferControl, lgHubVars, clientVars
    <2>4. QED
      BY <1>9, <2>2, <2>3 DEF OfferControl
  <1>10. CASE WriterStep
    <2>1. writer' \in WriterStates
      BY <1>10, WriterMoves
    <2>2. ASSUME Applies PROVE LgTypeOK'
      <3>1. /\ controls' = Tail(controls) /\ fed' = fed /\ controls # <<>>
            /\ UNCHANGED <<lgOpen, hubDone, up, down, clientVars, reader, sent>>
        BY <1>1, <2>2, ApplyCases
      <3>2. controls' \in Seq(Control) /\ Len(controls') <= ControlCap
        <4>1. controls' \in Seq(Control) /\ Len(controls') = Len(controls) - 1 /\ Len(controls) \in Nat
          BY <1>1, <3>1, TailFacts DEF LgTypeOK
        <4>2. QED
          BY <1>1, <4>1, GridAssumption DEF LgTypeOK
      <3>3. SubsType' /\ acknowledged' \in Nat
        <4>1. SubsType /\ acknowledged \in Nat
          BY <1>1 DEF LgTypeOK, SubsType
        <4>2. CASE UNCHANGED <<subs, queue>> /\ acknowledged' \in Nat
          BY <4>1, <4>2 DEF SubsType
        <4>3. ASSUME NEW s \in Slots, Drops(s) PROVE SubsType' /\ acknowledged' \in Nat
          BY <4>1, <4>3, SubsDrop
        <4>4. ASSUME NEW s \in Slots, Adds(s) PROVE SubsType' /\ acknowledged' \in Nat
          BY <4>1, <4>4, SubsAdd
        <4>5. QED
          BY <1>1, <2>2, <4>1, <4>2, <4>3, <4>4, ApplyCases
      <3>4. QED
        BY <1>1, <2>1, <3>1, <3>2, <3>3 DEF LgTypeOK, SubsType, clientVars
    <2>3. ASSUME NEW s \in Slots, Delivers(s) PROVE LgTypeOK'
      <3>1. s \in DOMAIN queue /\ queue[s] # <<>>
        BY <1>1, <2>3 DEF Delivers, NoHubLeak
      <3>2. /\ queue[s] \in Seq(1 .. MaxFeeds)
            /\ [slot |-> s, n |-> Head(queue[s])] \in LgPacket
            /\ Size[Kind(Head(queue[s]))] \in Nat
        BY <1>1, <3>1, HeadOfQueue
      <3>3. down' \in Seq(LgPacket) /\ sent' \in Nat
        <4>1. down \in Seq(LgPacket) /\ sent \in Nat
          BY <1>1 DEF LgTypeOK
        <4>2. /\ down' = Append(down, [slot |-> s, n |-> Head(queue[s])])
              /\ sent' = sent + Size[Kind(Head(queue[s]))]
          BY <2>3 DEF Delivers
        <4>3. down' \in Seq(LgPacket)
          BY <3>2, <4>1, <4>2, AppendFacts
        <4>4. QED
          BY <3>2, <4>1, <4>2, <4>3
      <3>4. Tail(queue[s]) \in Seq(1 .. MaxFeeds)
        BY <3>1, <3>2, TailFacts
      <3>5. DOMAIN queue' = DOMAIN queue /\ \A t \in DOMAIN queue' : queue'[t] \in Seq(1 .. MaxFeeds)
        BY <1>1, <2>3, <3>4 DEF LgTypeOK, Delivers
      <3>6. subs[s] \in 0 .. 2 /\ (IF subs[s] > 0 THEN subs[s] - 1 ELSE 0) \in 0 .. 2
        BY <1>1, <2>3 DEF LgTypeOK, Delivers
      <3>7. DOMAIN subs' = DOMAIN subs /\ \A t \in DOMAIN subs' : subs'[t] \in 0 .. 2
        BY <1>1, <2>3, <3>6 DEF LgTypeOK, Delivers
      <3>8. QED
        BY <1>1, <2>1, <2>3, <3>3, <3>5, <3>7 DEF LgTypeOK, Delivers, clientVars
    <2>4. ASSUME Turns PROVE LgTypeOK'
      BY <1>1, <2>1, <2>4 DEF LgTypeOK, Turns, lgHubVars, clientVars
    <2>5. ASSUME Quits PROVE LgTypeOK'
      <3>1. DOMAIN subs' = {} /\ DOMAIN queue' = {} /\ lgOpen' = FALSE /\ down' = down /\ sent' = sent
        BY <2>5 DEF Quits, WriterEnds, Nobody, NoQueue
      <3>2. Cardinality(DOMAIN subs') <= MaxSubs
        BY <3>1, FS_EmptySet, GridAssumption
      <3>3. QED
        BY <1>1, <2>1, <2>5, <3>1, <3>2 DEF LgTypeOK, Quits, clientVars
    <2>6. QED
      BY <1>10, <2>2, <2>3, <2>4, <2>5, WriterMoves
  <1>11. QED
    BY <1>2, <1>3, <1>4, <1>5, <1>6, <1>7, <1>8, <1>9, <1>10 DEF LgNext, ReaderStep

(* A step of the writer keeps a client in a hub for each subscription. *)
LEMMA NoHubLeakStep ==
  ASSUME LgIInv, LgNext
  PROVE  NoHubLeak'
  <1>1. LgTypeOK /\ NoHubLeak
    BY DEF LgIInv
  <1>2. SubsType
    BY <1>1 DEF LgTypeOK, SubsType
  <1>3. ASSUME UNCHANGED <<subs, queue, writer>> PROVE NoHubLeak'
    BY <1>1, <1>3 DEF NoHubLeak
  <1>4. ASSUME NEW s \in Slots, HubFeeds(s) PROVE NoHubLeak'
    <2>1. DOMAIN queue' = DOMAIN queue /\ subs' = subs /\ writer' = writer
      BY <1>4 DEF HubFeeds
    <2>2. QED
      BY <1>1, <2>1 DEF NoHubLeak
  <1>5. CASE WriterStep
    <2>1. CASE Quits
      <3>1. DOMAIN subs' = {} /\ DOMAIN queue' = {}
        BY <2>1 DEF Quits, WriterEnds, Nobody, NoQueue
      <3>2. QED
        BY <3>1 DEF NoHubLeak
    <2>2. CASE writer'.pc # "ended" /\ Applies
      <3>1. DOMAIN queue' = DOMAIN subs'
        <4>1. ASSUME NEW s \in Slots, Drops(s) PROVE DOMAIN queue' = DOMAIN subs'
          BY <1>1, <1>2, <4>1, SubsDrop DEF NoHubLeak
        <4>2. ASSUME NEW s \in Slots, Adds(s) PROVE DOMAIN queue' = DOMAIN subs'
          BY <1>1, <1>2, <4>2, SubsAdd DEF NoHubLeak
        <4>3. QED
          BY <1>1, <2>2, <4>1, <4>2, ApplyCases DEF NoHubLeak
      <3>2. QED
        BY <2>2, <3>1 DEF NoHubLeak
    <2>3. ASSUME writer'.pc # "ended", NEW s \in Slots, Delivers(s) PROVE NoHubLeak'
      BY <1>1, <2>3 DEF NoHubLeak, Delivers
    <2>4. CASE writer'.pc # "ended" /\ Turns
      BY <1>1, <2>4 DEF NoHubLeak, Turns, lgHubVars
    <2>5. QED
      BY <1>5, <2>1, <2>2, <2>3, <2>4, WriterMoves
  <1>6. CASE Subscribe \/ Receive \/ Hangup \/ HubStop \/ ReadControl \/ OfferControl
    BY <1>3, <1>6 DEF Subscribe, Receive, Hangup, HubStop, ReadControl, OfferControl, lgHubVars
  <1>7. ASSUME NEW s \in Slots, Unsubscribe(s) PROVE NoHubLeak'
    BY <1>3, <1>7 DEF Unsubscribe, lgHubVars
  <1>8. QED
    BY <1>4, <1>5, <1>6, <1>7 DEF LgNext, ReaderStep

LEMMA WriterSlotsStep ==
  ASSUME LgIInv, LgNext
  PROVE  WriterSlots'
  <1>1. WriterSlots
    BY DEF LgIInv
  <1>2. ASSUME UNCHANGED <<subs, writer, sent, acknowledged>> PROVE WriterSlots'
    BY <1>1, <1>2 DEF WriterSlots, CanSend
  <1>3. CASE Subscribe \/ Receive \/ Hangup \/ HubStop \/ ReadControl \/ OfferControl
    BY <1>2, <1>3 DEF Subscribe, Receive, Hangup, HubStop, ReadControl, OfferControl
  <1>4. ASSUME NEW s \in Slots, Unsubscribe(s) \/ HubFeeds(s) PROVE WriterSlots'
    BY <1>2, <1>4 DEF Unsubscribe, HubFeeds
  <1>5. QED
    BY <1>3, <1>4, WriterMoves DEF LgNext, ReaderStep

(* The bytes sent and not received are those on their way. *)
LEMMA InFlightStep ==
  ASSUME LgIInv, LgNext
  PROVE  InFlight'
  <1>1. /\ LgTypeOK /\ NoHubLeak /\ InFlight
        /\ down \in Seq(LgPacket) /\ sent \in Nat /\ received \in Nat
    BY DEF LgIInv, LgTypeOK
  <1>2. ASSUME UNCHANGED <<down, sent, received>> PROVE InFlight'
    BY <1>1, <1>2 DEF InFlight
  <1>3. CASE Receive
    <2>1. Head(down) \in LgPacket /\ Size[Kind(Head(down).n)] \in Nat /\ down # <<>>
      BY <1>1, <1>3, HeadOfDown DEF Receive
    <2>2. PICK c \in Nat : /\ <<received, Head(down), c>> \in Weight
                           /\ Carries(Tail(down), Weight, c, sent)
      BY <1>1, <2>1, CarriesTail DEF InFlight
    <2>3. c = received + Size[Kind(Head(down).n)]
      BY <2>2 DEF Weight
    <2>4. received' = c /\ down' = Tail(down) /\ sent' = sent
      BY <1>3, <2>3 DEF Receive
    <2>5. QED
      BY <2>2, <2>4 DEF InFlight
  <1>4. ASSUME NEW s \in Slots, Delivers(s) PROVE InFlight'
    <2> DEFINE p == [slot |-> s, n |-> Head(queue[s])]
    <2>1. s \in DOMAIN queue /\ queue[s] # <<>>
      BY <1>1, <1>4 DEF Delivers, NoHubLeak
    <2>2. p \in LgPacket /\ Size[Kind(p.n)] \in Nat /\ p.n = Head(queue[s])
      BY <1>1, <2>1, HeadOfQueue
    <2>3. sent' = sent + Size[Kind(p.n)] /\ down' = Append(down, p) /\ received' = received
      BY <1>4, <2>2 DEF Delivers, clientVars
    <2> HIDE DEF p
    <2>4. sent' \in Nat /\ sent <= sent'
      BY <1>1, <2>2, <2>3
    <2>5. <<sent, p, sent'>> \in Weight
      BY <1>1, <2>2, <2>3, <2>4 DEF Weight, Moves
    <2>6. Carries(Append(down, p), Weight, received, sent')
      BY <1>1, <2>2, <2>4, <2>5, CarriesAppend DEF InFlight
    <2>7. QED
      BY <2>3, <2>6 DEF InFlight
  <1>5. CASE Subscribe \/ Hangup \/ HubStop \/ ReadControl \/ OfferControl \/ Turns
    BY <1>2, <1>5 DEF Subscribe, Hangup, HubStop, ReadControl, OfferControl, Turns, clientVars
  <1>6. CASE Quits \/ Applies
    BY <1>2, <1>6 DEF Quits, WriterEnds, Applies, clientVars
  <1>7. ASSUME NEW s \in Slots, Unsubscribe(s) \/ HubFeeds(s) PROVE InFlight'
    BY <1>2, <1>7 DEF Unsubscribe, HubFeeds, clientVars
  <1>8. QED
    BY <1>3, <1>4, <1>5, <1>6, <1>7, NextIsCases DEF NextCases

(* What is acknowledged was received. *)
LEMMA AckMore ==
  ASSUME NEW c, AckOk(c), received \in Nat, received' \in Nat, received <= received',
         c \in Control
  PROVE  c.op = "ack" => c.bytes <= received'
  <1>1. CASE c.op = "ack"
    <2>1. c.bytes \in Nat
      BY <1>1 DEF Control
    <2>2. QED
      BY <1>1, <2>1 DEF AckOk
  <1>2. QED
    BY <1>1

LEMMA AcksReceivedStep ==
  ASSUME LgIInv, LgNext
  PROVE  AcksReceived'
  <1>1. /\ LgTypeOK /\ AcksReceived
        /\ up \in Seq(Control) /\ controls \in Seq(Control)
        /\ received \in Nat /\ acknowledged \in Nat
        /\ reader[1] = "offer" => reader[2] \in Control
    BY DEF LgIInv, LgTypeOK
  <1>2. /\ \A k \in DOMAIN up : up[k] \in Control /\ AckOk(up[k])
        /\ \A k \in DOMAIN controls : controls[k] \in Control /\ AckOk(controls[k])
    <2>1. /\ DOMAIN up = 1 .. Len(up) /\ \A k \in 1 .. Len(up) : up[k] \in Control
          /\ DOMAIN controls = 1 .. Len(controls) /\ \A k \in 1 .. Len(controls) : controls[k] \in Control
      BY <1>1, ElementOfSeq, LenProperties
    <2>2. QED
      BY <1>1, <2>1 DEF AcksReceived
  <1>3. ASSUME NEW c \in Control, up' = Append(up, c), c.op = "ack" => c.bytes <= received',
               received' \in Nat, received <= received',
               UNCHANGED <<controls, reader, acknowledged>>
        PROVE  AcksReceived'
    <2>1. /\ \A k \in DOMAIN up : up'[k] = up[k]
          /\ \A k \in DOMAIN up' : k \in DOMAIN up \/ up'[k] = c
      BY <1>1, <1>3, AppendFacts
    <2>2. ASSUME NEW k \in DOMAIN up' PROVE up'[k].op = "ack" => up'[k].bytes <= received'
      BY <1>1, <1>2, <1>3, <2>1, AckMore
    <2>3. ASSUME NEW k \in DOMAIN controls' PROVE controls'[k].op = "ack" => controls'[k].bytes <= received'
      BY <1>1, <1>2, <1>3, AckMore
    <2>4. ASSUME reader'[1] = "offer" PROVE reader'[2].op = "ack" => reader'[2].bytes <= received'
      BY <1>1, <1>3, <2>4, AckMore DEF AcksReceived
    <2>5. acknowledged' <= received'
      BY <1>1, <1>3 DEF AcksReceived
    <2>6. QED
      BY <2>2, <2>3, <2>4, <2>5 DEF AcksReceived, AckOk
  <1>4. CASE Subscribe
    <2>1. nextSlot \in Slots
      BY <1>1, <1>4, GridAssumption DEF LgTypeOK, Subscribe, Slots
    <2> DEFINE c == [op |-> "sub", slot |-> nextSlot]
    <2>2. c \in Control /\ c.op # "ack"
      BY <2>1 DEF Control
    <2>3. up' = Append(up, c) /\ UNCHANGED <<controls, reader, acknowledged, received>>
      BY <1>4 DEF Subscribe
    <2> HIDE DEF c
    <2>4. QED
      BY <1>1, <1>3, <2>2, <2>3
  <1>5. ASSUME NEW s \in Slots, Unsubscribe(s) PROVE AcksReceived'
    <2> DEFINE c == [op |-> "unsub", slot |-> s]
    <2>2. c \in Control /\ c.op # "ack"
      BY DEF Control
    <2>3. up' = Append(up, c) /\ UNCHANGED <<controls, reader, acknowledged, received>>
      BY <1>5 DEF Unsubscribe
    <2> HIDE DEF c
    <2>4. QED
      BY <1>1, <1>3, <2>2, <2>3
  <1>6. CASE Receive
    <2>1. Size[Kind(Head(down).n)] \in Nat /\ received' = received + Size[Kind(Head(down).n)]
      BY <1>1, <1>6, HeadOfDown DEF Receive
    <2>2. received' \in Nat /\ received <= received'
      BY <1>1, <2>1
    <2> DEFINE c == [op |-> "ack", bytes |-> received']
    <2>3. c \in Control /\ c.bytes <= received'
      BY <2>2 DEF Control
    <2>4. up' = Append(up, c) /\ UNCHANGED <<controls, reader, acknowledged>>
      BY <1>6 DEF Receive
    <2> HIDE DEF c
    <2>5. QED
      BY <1>3, <2>2, <2>3, <2>4
  <1>7. CASE ReadControl
    <2>1. UNCHANGED <<controls, acknowledged, received>>
      BY <1>7 DEF ReadControl, clientVars
    <2>2. CASE up # <<>> /\ reader' = <<"offer", Head(up)>> /\ up' = Tail(up)
      <3>1. /\ 1 \in DOMAIN up /\ Head(up) = up[1]
            /\ \A k \in DOMAIN up' : k + 1 \in DOMAIN up /\ up'[k] = up[k + 1]
        BY <1>1, <2>2, TailFacts
      <3>2. AckOk(reader'[2]) /\ \A k \in DOMAIN up' : AckOk(up'[k])
        BY <1>2, <2>2, <3>1
      <3>3. QED
        BY <1>1, <2>1, <3>2 DEF AcksReceived, AckOk
    <2>3. CASE reader' = <<"ended">> /\ up' = up
      BY <1>1, <2>1, <2>3 DEF AcksReceived, AckOk
    <2>4. QED
      BY <1>7, <2>2, <2>3 DEF ReadControl
  <1>8. CASE OfferControl
    <2>1. UNCHANGED <<up, acknowledged, received>> /\ reader[1] = "offer"
      BY <1>8 DEF OfferControl, clientVars
    <2>2. CASE controls' = Append(controls, reader[2]) /\ reader' = <<"read">>
      <3>1. /\ \A k \in DOMAIN controls : controls'[k] = controls[k]
            /\ \A k \in DOMAIN controls' : k \in DOMAIN controls \/ controls'[k] = reader[2]
        BY <1>1, <2>1, <2>2, AppendFacts
      <3>2. \A k \in DOMAIN controls' : AckOk(controls'[k])
        BY <1>1, <1>2, <2>1, <3>1 DEF AcksReceived
      <3>3. QED
        BY <1>1, <2>1, <2>2, <3>2 DEF AcksReceived, AckOk
    <2>3. CASE reader' = <<"ended">> /\ controls' = controls
      BY <1>1, <2>1, <2>3 DEF AcksReceived, AckOk
    <2>4. QED
      BY <1>8, <2>2, <2>3 DEF OfferControl
  <1>9. CASE Applies
    <2>1. controls # <<>> /\ controls' = Tail(controls) /\ UNCHANGED <<up, reader, received>>
      BY <1>1, <1>9, ApplyCases DEF clientVars
    <2>2. /\ 1 \in DOMAIN controls /\ Head(controls) = controls[1]
          /\ \A k \in DOMAIN controls' : k + 1 \in DOMAIN controls /\ controls'[k] = controls[k + 1]
      BY <1>1, <2>1, TailFacts
    <2>3. AckOk(Head(controls)) /\ \A k \in DOMAIN controls' : AckOk(controls'[k])
      BY <1>2, <2>2
    <2>4. acknowledged' <= received
      <3>1. \/ acknowledged' = acknowledged
            \/ Head(controls).op = "ack" /\ acknowledged' = Head(controls).bytes
        BY <1>1, <1>9, ApplyCases DEF Drops, Adds
      <3>2. QED
        BY <1>1, <2>3, <3>1 DEF AcksReceived, AckOk
    <2>5. QED
      BY <1>1, <2>1, <2>3, <2>4 DEF AcksReceived, AckOk
  <1>10. ASSUME UNCHANGED <<up, reader, controls, received, acknowledged>> PROVE AcksReceived'
    BY <1>1, <1>10 DEF AcksReceived, AckOk
  <1>11. CASE Hangup \/ HubStop \/ Turns \/ Quits
    BY <1>10, <1>11 DEF Hangup, HubStop, Turns, Quits, clientVars
  <1>12. ASSUME NEW s \in Slots, HubFeeds(s) \/ Delivers(s) PROVE AcksReceived'
    BY <1>10, <1>12 DEF HubFeeds, Delivers, clientVars
  <1>13. QED
    BY <1>4, <1>5, <1>6, <1>7, <1>8, <1>9, <1>11, <1>12, NextIsCases DEF NextCases

(* The window is looked at before a packet is sent, and credit only grows. *)
LEMMA WindowKeptStep ==
  ASSUME LgIInv, LgNext
  PROVE  WindowKept'
  <1>1. /\ LgTypeOK /\ NoHubLeak /\ WindowKept
        /\ sent \in Nat /\ acknowledged \in Nat /\ Window \in Nat
        /\ \A k \in Kinds : Size[k] \in Nat
    BY GridAssumption DEF LgIInv, LgTypeOK
  <1>2. ASSUME acknowledged' \in Nat, acknowledged <= acknowledged', sent' = sent PROVE WindowKept'
    <2>1. PICK k \in Kinds : sent < acknowledged + Window + Size[k]
      BY <1>1 DEF WindowKept
    <2>2. sent' < acknowledged' + Window + Size[k]
      BY <1>1, <1>2, <2>1
    <2>3. QED
      BY <2>2 DEF WindowKept
  <1>3. ASSUME NEW s \in Slots, Delivers(s) PROVE WindowKept'
    <2>1. s \in DOMAIN queue /\ queue[s] # <<>>
      BY <1>1, <1>3 DEF Delivers, NoHubLeak
    <2> DEFINE k == Kind(Head(queue[s]))
    <2>2. k \in Kinds
      BY DEF Kind, Kinds
    <2>3. sent' = sent + Size[k] /\ acknowledged' = acknowledged /\ sent - acknowledged < Window
      BY <1>3 DEF Delivers, CanSend
    <2> HIDE DEF k
    <2>4. sent' < acknowledged' + Window + Size[k]
      BY <1>1, <2>2, <2>3
    <2>5. QED
      BY <2>2, <2>4 DEF WindowKept
  <1>4. CASE Applies
    <2>1. sent' = sent
      BY <1>4 DEF Applies
    <2>2. acknowledged' \in Nat /\ acknowledged <= acknowledged'
      <3>1. \/ acknowledged' = acknowledged
            \/ /\ Head(controls).bytes \in Nat /\ acknowledged' = Head(controls).bytes
               /\ acknowledged' >= acknowledged
        BY <1>1, <1>4, ApplyCases DEF Drops, Adds
      <3>2. QED
        BY <1>1, <3>1
    <2>3. QED
      BY <1>2, <2>1, <2>2
  <1>5. CASE Subscribe \/ Receive \/ Hangup \/ HubStop \/ ReadControl \/ OfferControl \/ Turns
    BY <1>1, <1>2, <1>5 DEF Subscribe, Receive, Hangup, HubStop, ReadControl, OfferControl, Turns
  <1>6. CASE Quits
    BY <1>1, <1>2, <1>6 DEF Quits, WriterEnds
  <1>7. ASSUME NEW s \in Slots, Unsubscribe(s) \/ HubFeeds(s) PROVE WindowKept'
    BY <1>1, <1>2, <1>7 DEF Unsubscribe, HubFeeds
  <1>8. QED
    BY <1>3, <1>4, <1>5, <1>6, <1>7, NextIsCases DEF NextCases

LEMMA WaitingSlots ==
  ASSUME NEW q \in Seq(Control)
  PROVE  Waiting(q) \subseteq Slots
  <1>1. \A k \in DOMAIN q : q[k] \in Control
    BY ElementOfSeq, LenProperties
  <1>2. \A c \in Control : SubOf(c) \subseteq Slots
    BY DEF Control, SubOf
  <1>3. QED
    BY <1>1, <1>2 DEF Waiting

(* Only a control that subscribes s touches it. *)
LEMMA FreshKept ==
  ASSUME LgIInv, LgNext, NEW s \in Slots, Fresh(s),
         Applies => s \notin SubOf(Head(controls))
  PROVE  Fresh(s)'
  <1>1. /\ LgTypeOK /\ NoHubLeak /\ SubsType
        /\ down \in Seq(LgPacket) /\ DOMAIN fed = Slots /\ DOMAIN seen = Slots
    BY DEF LgIInv, LgTypeOK, SubsType
  <1>2. /\ s \notin DOMAIN queue /\ fed[s] = 0 /\ seen[s] = <<>>
        /\ \A k \in DOMAIN down : down[k].slot # s
    BY DEF Fresh
  <1>3. ASSUME s \notin DOMAIN queue', fed'[s] = fed[s], UNCHANGED <<seen, down>>
        PROVE  Fresh(s)'
    BY <1>2, <1>3 DEF Fresh
  <1>4. CASE Subscribe \/ Hangup \/ HubStop \/ ReadControl \/ OfferControl \/ Turns
    BY <1>2, <1>3, <1>4 DEF Subscribe, Hangup, HubStop, ReadControl, OfferControl, Turns, lgHubVars, clientVars
  <1>5. ASSUME NEW t \in Slots, Unsubscribe(t) PROVE Fresh(s)'
    BY <1>2, <1>3, <1>5 DEF Unsubscribe, lgHubVars
  <1>6. ASSUME NEW t \in Slots, HubFeeds(t) PROVE Fresh(s)'
    <2>1. t # s /\ fed' = [fed EXCEPT ![t] = @ + 1] /\ DOMAIN queue' = DOMAIN queue
          /\ UNCHANGED <<seen, down>>
      BY <1>2, <1>6 DEF HubFeeds, clientVars
    <2>2. QED
      BY <1>1, <1>2, <1>3, <2>1
  <1>7. CASE Receive
    <2>1. /\ down # <<>> /\ down' = Tail(down) /\ UNCHANGED <<queue, fed>>
          /\ seen' = IF Head(down).slot \in subscribers
                     THEN [seen EXCEPT ![Head(down).slot] = Append(@, Head(down).n)] ELSE seen
      BY <1>7 DEF Receive, lgHubVars
    <2>2. /\ 1 \in DOMAIN down /\ Head(down) = down[1]
          /\ \A k \in DOMAIN down' : k + 1 \in DOMAIN down /\ down'[k] = down[k + 1]
      BY <1>1, <2>1, TailFacts
    <2>3. seen'[s] = seen[s]
      BY <1>1, <1>2, <2>1, <2>2
    <2>4. QED
      BY <1>2, <2>1, <2>2, <2>3 DEF Fresh
  <1>8. ASSUME NEW t \in Slots, Delivers(t) PROVE Fresh(s)'
    <2> DEFINE p == [slot |-> t, n |-> Head(queue[t])]
    <2>1. t \in DOMAIN queue /\ queue[t] # <<>> /\ t # s
      BY <1>1, <1>2, <1>8 DEF Delivers, NoHubLeak
    <2>2. p \in LgPacket /\ p.slot # s
      BY <1>1, <2>1, HeadOfQueue
    <2>3. down' = Append(down, p) /\ DOMAIN queue' = DOMAIN queue /\ UNCHANGED <<fed, seen>>
      BY <1>8 DEF Delivers, clientVars
    <2> HIDE DEF p
    <2>4. /\ \A k \in DOMAIN down : down'[k] = down[k]
          /\ \A k \in DOMAIN down' : k \in DOMAIN down \/ down'[k] = p
      BY <1>1, <2>2, <2>3, AppendFacts
    <2>5. QED
      BY <1>2, <2>2, <2>3, <2>4 DEF Fresh
  <1>9. CASE Applies
    <2>1. UNCHANGED <<seen, down, fed>>
      BY <1>1, <1>9, ApplyCases DEF clientVars
    <2>2. s \notin DOMAIN queue'
      <3>1. ASSUME NEW t \in Slots, Drops(t) PROVE s \notin DOMAIN queue'
        BY <1>1, <1>2, <3>1, SubsDrop
      <3>2. ASSUME NEW t \in Slots, t \in SubOf(Head(controls)), Adds(t) PROVE s \notin DOMAIN queue'
        BY <1>1, <1>2, <1>9, <3>2, SubsAdd
      <3>3. QED
        BY <1>1, <1>2, <1>9, <3>1, <3>2, ApplyCases
    <2>3. QED
      BY <1>2, <1>3, <2>1, <2>2
  <1>10. CASE Quits
    BY <1>2, <1>3, <1>10 DEF Quits, WriterEnds, NoQueue, clientVars
  <1>11. QED
    BY <1>4, <1>5, <1>6, <1>7, <1>8, <1>9, <1>10, NextIsCases DEF NextCases

(* The part of SubsOnce that is about the controls alone. *)
Apart(ctl, rd, u) ==
    /\ Once(u) /\ Once(ctl)
    /\ Waiting(ctl) \cap Waiting(u) = {}
    /\ Held(rd) \cap (Waiting(ctl) \cup Waiting(u)) = {}

AllWaiting(ctl, rd, u) == Waiting(ctl) \cup Held(rd) \cup Waiting(u)

LEMMA WaitingStep ==
  ASSUME LgIInv, LgNext
  PROVE  /\ Apart(controls', reader', up')
         /\ \/ Subscribe /\ AllWaiting(controls', reader', up') = AllWaiting(controls, reader, up) \cup {nextSlot}
            \/ nextSlot' = nextSlot /\ AllWaiting(controls', reader', up') \subseteq AllWaiting(controls, reader, up)
         /\ Applies => AllWaiting(controls', reader', up') \cap SubOf(Head(controls)) = {}
  <1>1. /\ LgTypeOK /\ Apart(controls, reader, up)
        /\ up \in Seq(Control) /\ controls \in Seq(Control)
        /\ nextSlot \in Nat
        /\ reader[1] = "offer" => reader[2] \in Control
    <2>1. LgTypeOK /\ Apart(controls, reader, up)
      BY DEF LgIInv, SubsOnce, Apart
    <2>2. up \in Seq(Control) /\ controls \in Seq(Control)
      BY <2>1 DEF LgTypeOK
    <2>3. nextSlot \in Nat
      BY <2>1, GridAssumption DEF LgTypeOK
    <2>4. reader[1] = "offer" => reader[2] \in Control
      BY <2>1 DEF LgTypeOK
    <2>5. QED
      BY <2>1, <2>2, <2>3, <2>4
  <1>2. /\ \A s \in AllWaiting(controls, reader, up) : s < nextSlot
        /\ AllWaiting(controls, reader, up) \subseteq Nat
    <2>1. \A s \in AllWaiting(controls, reader, up) : s < nextSlot
      BY DEF LgIInv, SubsOnce, AllWaiting
    <2>2. Waiting(controls) \subseteq Slots /\ Waiting(up) \subseteq Slots
      BY <1>1, WaitingSlots
    <2>3. Held(reader) \subseteq Slots
      BY <1>1 DEF Held, SubOf, Control
    <2>4. Slots \subseteq Nat
      BY DEF Slots
    <2>5. QED
      BY <2>1, <2>2, <2>3, <2>4 DEF AllWaiting
  <1>3. ASSUME UNCHANGED <<controls, reader, up, nextSlot>>, ~Applies
        PROVE  /\ Apart(controls', reader', up') /\ nextSlot' = nextSlot
               /\ AllWaiting(controls', reader', up') \subseteq AllWaiting(controls, reader, up)
    BY <1>1, <1>3
  <1>4. ASSUME NEW c \in Control, SubOf(c) \cap AllWaiting(controls, reader, up) = {},
               up' = Append(up, c), UNCHANGED <<controls, reader>>
        PROVE  /\ Apart(controls', reader', up')
               /\ AllWaiting(controls', reader', up') = AllWaiting(controls, reader, up) \cup SubOf(c)
    <2>1. Waiting(up') = Waiting(up) \cup SubOf(c)
      BY <1>1, <1>4, WaitingAppend
    <2>2. Once(up')
      BY <1>1, <1>4, WaitingAppend DEF Apart, AllWaiting
    <2>3. QED
      BY <1>1, <1>4, <2>1, <2>2 DEF Apart, AllWaiting
  <1>5. CASE Applies
    <2>1. controls # <<>> /\ controls' = Tail(controls) /\ UNCHANGED <<reader, up, nextSlot>>
      BY <1>1, <1>5, ApplyCases DEF clientVars
    <2>2. /\ Waiting(controls) = SubOf(Head(controls)) \cup Waiting(controls')
          /\ Once(controls') /\ SubOf(Head(controls)) \cap Waiting(controls') = {}
      BY <1>1, <2>1, WaitingTail DEF Apart
    <2>3. Apart(controls', reader', up')
      BY <1>1, <2>1, <2>2 DEF Apart
    <2>4. AllWaiting(controls', reader', up') \subseteq AllWaiting(controls, reader, up)
      BY <2>1, <2>2 DEF AllWaiting
    <2>5. AllWaiting(controls', reader', up') \cap SubOf(Head(controls)) = {}
      BY <1>1, <2>1, <2>2 DEF Apart, AllWaiting
    <2>6. QED
      BY <2>1, <2>3, <2>4, <2>5
  <1>6. CASE Subscribe /\ ~Applies
    <2> DEFINE c == [op |-> "sub", slot |-> nextSlot]
    <2>1. nextSlot \in Slots
      BY <1>1, <1>6, GridAssumption DEF LgTypeOK, Subscribe, Slots
    <2>2. c \in Control /\ SubOf(c) = {nextSlot}
      BY <2>1 DEF Control, SubOf
    <2>3. up' = Append(up, c) /\ UNCHANGED <<controls, reader>>
      BY <1>6 DEF Subscribe
    <2> HIDE DEF c
    <2>4. nextSlot \notin AllWaiting(controls, reader, up)
      BY <1>1, <1>2
    <2>5. QED
      BY <1>4, <1>6, <2>2, <2>3, <2>4
  <1>7. ASSUME NEW s \in Slots, Unsubscribe(s), ~Applies
        PROVE  /\ Apart(controls', reader', up') /\ nextSlot' = nextSlot
               /\ AllWaiting(controls', reader', up') \subseteq AllWaiting(controls, reader, up)
    <2> DEFINE c == [op |-> "unsub", slot |-> s]
    <2>2. c \in Control /\ SubOf(c) = {}
      BY DEF Control, SubOf
    <2>3. up' = Append(up, c) /\ UNCHANGED <<controls, reader, nextSlot>>
      BY <1>7 DEF Unsubscribe
    <2> HIDE DEF c
    <2>4. QED
      BY <1>4, <2>2, <2>3
  <1>8. CASE Receive /\ ~Applies
    <2> DEFINE c == [op |-> "ack", bytes |-> received']
    <2>1. received' \in Nat
      BY TypeStep DEF LgTypeOK
    <2>2. c \in Control /\ SubOf(c) = {}
      BY <2>1 DEF Control, SubOf
    <2>3. up' = Append(up, c) /\ UNCHANGED <<controls, reader, nextSlot>>
      BY <1>8 DEF Receive
    <2> HIDE DEF c
    <2>4. QED
      BY <1>4, <1>8, <2>2, <2>3
  <1>9. CASE ReadControl /\ ~Applies
    <2>1. UNCHANGED <<controls, nextSlot>> /\ reader = <<"read">>
      BY <1>9 DEF ReadControl, clientVars
    <2>2. Held(reader) = {}
      BY <2>1 DEF Held
    <2>3. CASE up # <<>> /\ reader' = <<"offer", Head(up)>> /\ up' = Tail(up)
      <3>1. /\ Waiting(up) = SubOf(Head(up)) \cup Waiting(up')
            /\ Once(up') /\ SubOf(Head(up)) \cap Waiting(up') = {}
        BY <1>1, <2>3, WaitingTail DEF Apart
      <3>2. Held(reader') = SubOf(Head(up))
        BY <2>3 DEF Held
      <3>3. QED
        BY <1>1, <1>9, <2>1, <2>2, <3>1, <3>2 DEF Apart, AllWaiting
    <2>4. CASE reader' = <<"ended">> /\ up' = up
      <3>1. Held(reader') = {}
        BY <2>4 DEF Held
      <3>2. QED
        BY <1>1, <1>9, <2>1, <2>2, <2>4, <3>1 DEF Apart, AllWaiting
    <2>5. QED
      BY <1>9, <2>3, <2>4 DEF ReadControl
  <1>10. CASE OfferControl /\ ~Applies
    <2>1. UNCHANGED <<up, nextSlot>> /\ reader[1] = "offer" /\ reader[2] \in Control
      BY <1>1, <1>10 DEF OfferControl, clientVars
    <2>2. Held(reader) = SubOf(reader[2])
      BY <2>1 DEF Held
    <2>3. CASE controls' = Append(controls, reader[2]) /\ reader' = <<"read">>
      <3>1. Waiting(controls') = Waiting(controls) \cup SubOf(reader[2])
        BY <1>1, <2>1, <2>3, WaitingAppend
      <3>2. Once(controls')
        BY <1>1, <2>1, <2>2, <2>3, WaitingAppend DEF Apart
      <3>3. Held(reader') = {}
        BY <2>3 DEF Held
      <3>4. QED
        BY <1>1, <1>10, <2>1, <2>2, <3>1, <3>2, <3>3 DEF Apart, AllWaiting
    <2>4. CASE reader' = <<"ended">> /\ controls' = controls
      <3>1. Held(reader') = {}
        BY <2>4 DEF Held
      <3>2. QED
        BY <1>1, <1>10, <2>1, <2>4, <3>1 DEF Apart, AllWaiting
    <2>5. QED
      BY <1>10, <2>3, <2>4 DEF OfferControl
  <1>11. CASE (Hangup \/ HubStop \/ Turns \/ Quits) /\ ~Applies
    BY <1>3, <1>11 DEF Hangup, HubStop, Turns, Quits, clientVars
  <1>12. ASSUME NEW s \in Slots, HubFeeds(s) \/ Delivers(s), ~Applies
         PROVE  /\ Apart(controls', reader', up') /\ nextSlot' = nextSlot
                /\ AllWaiting(controls', reader', up') \subseteq AllWaiting(controls, reader, up)
    BY <1>3, <1>12 DEF HubFeeds, Delivers, clientVars
  <1>13. QED
    BY <1>5, <1>6, <1>7, <1>8, <1>9, <1>10, <1>11, <1>12, NextIsCases DEF NextCases

LEMMA SubsOnceStep ==
  ASSUME LgIInv, LgNext
  PROVE  SubsOnce'
  <1>1. /\ LgTypeOK /\ SubsOnce /\ nextSlot \in Nat
        /\ controls \in Seq(Control) /\ up \in Seq(Control)
    BY GridAssumption DEF LgIInv, LgTypeOK
  <1>2. /\ \A s \in AllWaiting(controls, reader, up) : s < nextSlot /\ Fresh(s)
        /\ \A s \in Slots : s >= nextSlot => s \notin subscribers /\ Fresh(s)
    BY <1>1 DEF SubsOnce, AllWaiting
  <1>3. AllWaiting(controls, reader, up) \subseteq Slots /\ Slots \subseteq Nat
    <2>1. Waiting(controls) \subseteq Slots /\ Waiting(up) \subseteq Slots
      BY <1>1, WaitingSlots
    <2>2. Held(reader) \subseteq Slots
      BY <1>1 DEF LgTypeOK, Held, SubOf, Control
    <2>3. QED
      BY <2>1, <2>2 DEF AllWaiting, Slots
  <1>4. Applies => SubOf(Head(controls)) \subseteq AllWaiting(controls, reader, up)
    BY <1>1, ApplyCases, WaitingTail DEF AllWaiting
  <1>5. /\ nextSlot' \in {nextSlot, nextSlot + 1}
        /\ Subscribe => nextSlot' = nextSlot + 1 /\ subscribers' = subscribers \cup {nextSlot} /\ nextSlot \in Slots
        /\ ~Subscribe => subscribers' \subseteq subscribers /\ nextSlot' = nextSlot
    <2>1. Subscribe => nextSlot' = nextSlot + 1 /\ subscribers' = subscribers \cup {nextSlot} /\ nextSlot \in Slots
      BY <1>1, GridAssumption DEF LgTypeOK, Subscribe, Slots
    <2>2. CASE Receive \/ Hangup \/ HubStop \/ ReadControl \/ OfferControl \/ Turns \/ Quits \/ Applies
      BY <2>1, <2>2 DEF Receive, Hangup, HubStop, ReadControl, OfferControl, Turns, Quits, Applies, clientVars
    <2>3. ASSUME NEW s \in Slots, Unsubscribe(s) \/ HubFeeds(s) \/ Delivers(s)
          PROVE  subscribers' \subseteq subscribers /\ nextSlot' = nextSlot
      BY <2>3 DEF Unsubscribe, HubFeeds, Delivers, clientVars
    <2>4. QED
      BY <2>1, <2>2, <2>3, NextIsCases DEF NextCases
  <1>6. ASSUME NEW s \in AllWaiting(controls', reader', up') PROVE s < nextSlot' /\ Fresh(s)'
    <2>1. s \in AllWaiting(controls, reader, up) \/ (Subscribe /\ s = nextSlot)
      BY <1>6, WaitingStep
    <2>2. s \in Slots /\ s \in Nat /\ Fresh(s) /\ s < nextSlot'
      <3>1. CASE s \in AllWaiting(controls, reader, up)
        <4>1. s \in Slots /\ s \in Nat /\ Fresh(s) /\ s < nextSlot
          BY <1>2, <1>3, <3>1
        <4>2. s < nextSlot'
          BY <1>1, <1>5, <4>1
        <4>3. QED
          BY <4>1, <4>2
      <3>2. CASE Subscribe /\ s = nextSlot
        <4>1. nextSlot \in Slots /\ nextSlot >= nextSlot /\ nextSlot < nextSlot'
          BY <1>1, <1>5, <3>2
        <4>2. Fresh(nextSlot)
          BY <1>2, <4>1
        <4>3. QED
          BY <1>1, <3>2, <4>1, <4>2, Zenon
      <3>3. QED
        BY <2>1, <3>1, <3>2
    <2>3. Applies => s \notin SubOf(Head(controls))
      BY <1>6, WaitingStep
    <2>4. QED
      BY <2>2, <2>3, FreshKept
  <1>7. ASSUME NEW s \in Slots, s >= nextSlot' PROVE s \notin subscribers' /\ Fresh(s)'
    <2>1. s \in Nat /\ s >= nextSlot /\ (Subscribe => s # nextSlot)
      BY <1>1, <1>3, <1>5, <1>7
    <2>2. Fresh(s) /\ s \notin subscribers'
      BY <1>2, <1>5, <2>1
    <2>3. Applies => s \notin SubOf(Head(controls))
      BY <1>1, <1>2, <1>3, <1>4, <2>1
    <2>4. QED
      BY <2>2, <2>3, FreshKept
  <1>8. Apart(controls', reader', up')
    BY WaitingStep
  <1>9. QED
    BY <1>6, <1>7, <1>8 DEF SubsOnce, Apart, AllWaiting

(* A queue ends with the packet its hub queued last. *)
LEMMA QueueRunStep ==
  ASSUME LgIInv, LgNext
  PROVE  QueueRun'
  <1>1. /\ LgTypeOK /\ NoHubLeak /\ QueueRun /\ SubsType
        /\ \A s \in DOMAIN queue : s \in Slots /\ queue[s] \in Seq(1 .. MaxFeeds) /\ fed[s] \in Nat
        /\ DOMAIN fed = Slots /\ \A s \in Slots : fed[s] \in Nat
    BY DEF LgIInv, LgTypeOK, SubsType
  <1>2. ASSUME \A s \in DOMAIN queue' : s \in DOMAIN queue /\ queue'[s] = queue[s], fed' = fed
        PROVE  QueueRun'
    BY <1>1, <1>2 DEF QueueRun
  <1>3. ASSUME NEW s \in Slots, HubFeeds(s) PROVE QueueRun'
    <2>1. /\ s \in DOMAIN queue /\ DOMAIN queue' = DOMAIN queue
          /\ fed' = [fed EXCEPT ![s] = fed[s] + 1]
          /\ queue' = [queue EXCEPT ![s] = Append(queue[s], fed[s] + 1)]
          /\ fed[s] < MaxFeeds
      BY <1>3 DEF HubFeeds
    <2>2. /\ fed'[s] = fed[s] + 1 /\ queue'[s] = Append(queue[s], fed[s] + 1)
          /\ \A t \in DOMAIN queue \ {s} : fed'[t] = fed[t] /\ queue'[t] = queue[t]
      BY <1>1, <2>1
    <2>3. fed[s] + 1 \in 1 .. MaxFeeds
      BY <1>1, <2>1, GridAssumption
    <2>4. /\ Len(queue[s]) \in Nat /\ Len(queue'[s]) = Len(queue[s]) + 1
          /\ DOMAIN queue[s] = 1 .. Len(queue[s]) /\ DOMAIN queue'[s] = 1 .. Len(queue[s]) + 1
          /\ \A k \in DOMAIN queue[s] : queue'[s][k] = queue[s][k]
          /\ queue'[s][Len(queue[s]) + 1] = fed[s] + 1
      BY <1>1, <2>1, <2>2, <2>3, AppendFacts
    <2>5. /\ Len(queue[s]) <= fed[s]
          /\ \A k \in DOMAIN queue[s] : queue[s][k] = fed[s] - Len(queue[s]) + k
      BY <1>1, <2>1 DEF QueueRun
    <2>6. Len(queue'[s]) <= fed'[s]
      BY <1>1, <2>2, <2>4, <2>5
    <2>7. ASSUME NEW k \in DOMAIN queue'[s] PROVE queue'[s][k] = fed'[s] - Len(queue'[s]) + k
      <3>1. k \in 1 .. Len(queue[s]) + 1
        BY <2>4
      <3>2. CASE k = Len(queue[s]) + 1
        BY <1>1, <2>2, <2>4, <2>5, <3>2
      <3>3. CASE k \in 1 .. Len(queue[s])
        <4>1. queue'[s][k] = fed[s] - Len(queue[s]) + k
          BY <2>4, <2>5, <3>3
        <4>2. fed[s] \in Nat /\ k \in Nat /\ fed'[s] = fed[s] + 1 /\ Len(queue'[s]) = Len(queue[s]) + 1
          BY <1>1, <2>2, <2>4, <3>3
        <4>3. \A a, b, c \in Nat : (a + 1) - (b + 1) + c = a - b + c
          OBVIOUS
        <4>4. (fed[s] + 1) - (Len(queue[s]) + 1) + k = fed[s] - Len(queue[s]) + k
          BY <2>4, <4>2, <4>3
        <4>5. QED
          BY <4>1, <4>2, <4>4, Zenon
      <3>4. QED
        BY <2>4, <3>1, <3>2, <3>3
    <2>8. ASSUME NEW t \in DOMAIN queue'
          PROVE  /\ Len(queue'[t]) <= fed'[t]
                 /\ \A k \in DOMAIN queue'[t] : queue'[t][k] = fed'[t] - Len(queue'[t]) + k
      <3>1. CASE t = s
        BY <2>6, <2>7, <3>1
      <3>2. CASE t # s
        <4>1. t \in DOMAIN queue /\ fed'[t] = fed[t] /\ queue'[t] = queue[t]
          BY <2>1, <2>2, <3>2
        <4>2. QED
          BY <1>1, <4>1 DEF QueueRun
      <3>3. QED
        BY <3>1, <3>2
    <2>9. QED
      BY <2>8 DEF QueueRun
  <1>4. ASSUME NEW s \in Slots, Delivers(s) PROVE QueueRun'
    <2>1. /\ s \in DOMAIN queue /\ DOMAIN queue' = DOMAIN queue /\ queue[s] # <<>>
          /\ fed' = fed /\ queue'[s] = Tail(queue[s])
          /\ \A t \in DOMAIN queue \ {s} : queue'[t] = queue[t]
      BY <1>1, <1>4 DEF Delivers, NoHubLeak
    <2>2. /\ Len(queue[s]) \in Nat \ {0} /\ Len(queue'[s]) = Len(queue[s]) - 1
          /\ \A k \in DOMAIN queue'[s] : /\ k \in Nat /\ k + 1 \in DOMAIN queue[s]
                                         /\ queue'[s][k] = queue[s][k + 1]
      BY <1>1, <2>1, TailFacts
    <2>3. /\ Len(queue[s]) <= fed[s]
          /\ \A k \in DOMAIN queue[s] : queue[s][k] = fed[s] - Len(queue[s]) + k
      BY <1>1, <2>1 DEF QueueRun
    <2>4. Len(queue'[s]) <= fed'[s]
      BY <1>1, <2>1, <2>2, <2>3
    <2>5. ASSUME NEW k \in DOMAIN queue'[s] PROVE queue'[s][k] = fed'[s] - Len(queue'[s]) + k
      <3>1. queue'[s][k] = fed[s] - Len(queue[s]) + (k + 1) /\ k \in Nat
        BY <2>2, <2>3
      <3>2. QED
        BY <1>1, <2>1, <2>2, <3>1
    <2>6. ASSUME NEW t \in DOMAIN queue'
          PROVE  /\ Len(queue'[t]) <= fed'[t]
                 /\ \A k \in DOMAIN queue'[t] : queue'[t][k] = fed'[t] - Len(queue'[t]) + k
      <3>1. CASE t = s
        BY <2>4, <2>5, <3>1
      <3>2. CASE t # s
        <4>1. t \in DOMAIN queue /\ fed'[t] = fed[t] /\ queue'[t] = queue[t]
          BY <2>1, <3>2
        <4>2. QED
          BY <1>1, <4>1 DEF QueueRun
      <3>3. QED
        BY <3>1, <3>2
    <2>7. QED
      BY <2>6 DEF QueueRun
  <1>5. CASE Applies
    <2>1. fed' = fed
      BY <1>1, <1>5, ApplyCases
    <2>2. ASSUME NEW s \in Slots, Drops(s) PROVE QueueRun'
      BY <1>1, <1>2, <2>1, <2>2, SubsDrop
    <2>3. ASSUME NEW s \in Slots, Adds(s) PROVE QueueRun'
      <3>1. /\ DOMAIN queue' = DOMAIN queue \cup {s} /\ queue'[s] = <<>>
            /\ \A t \in DOMAIN queue \ {s} : queue'[t] = queue[t]
        BY <1>1, <2>3, SubsAdd
      <3>2. ASSUME NEW t \in DOMAIN queue'
            PROVE  /\ Len(queue'[t]) <= fed'[t]
                   /\ \A k \in DOMAIN queue'[t] : queue'[t][k] = fed'[t] - Len(queue'[t]) + k
        <4>1. CASE t = s
          <5>1. queue'[t] = <<>> /\ Len(<<>>) = 0 /\ DOMAIN <<>> = {} /\ fed'[t] \in Nat
            BY <1>1, <2>1, <3>1, <4>1
          <5>2. QED
            BY <5>1
        <4>2. CASE t # s
          <5>1. t \in DOMAIN queue /\ fed'[t] = fed[t] /\ queue'[t] = queue[t]
            BY <2>1, <3>1, <4>2
          <5>2. QED
            BY <1>1, <5>1 DEF QueueRun
        <4>3. QED
          BY <4>1, <4>2
      <3>3. QED
        BY <3>2 DEF QueueRun
    <2>4. CASE UNCHANGED queue
      BY <1>2, <2>1, <2>4
    <2>5. QED
      BY <1>1, <1>5, <2>2, <2>3, <2>4, ApplyCases
  <1>6. CASE Subscribe \/ Receive \/ Hangup \/ HubStop \/ ReadControl \/ OfferControl \/ Turns
    BY <1>2, <1>6 DEF Subscribe, Receive, Hangup, HubStop, ReadControl, OfferControl, Turns, lgHubVars
  <1>7. CASE Quits
    BY <1>2, <1>7 DEF Quits, WriterEnds, NoQueue
  <1>8. ASSUME NEW s \in Slots, Unsubscribe(s) PROVE QueueRun'
    BY <1>2, <1>8 DEF Unsubscribe, lgHubVars
  <1>9. QED
    BY <1>3, <1>4, <1>5, <1>6, <1>7, <1>8, NextIsCases DEF NextCases

(* What is on its way to the player of s, and from where. *)
OnTheWay(s) ==
    \E to \in Nat :
        /\ Carries(down, InTurn(s), Len(seen[s]), to)
        /\ s \in DOMAIN queue => to = fed[s] - Len(queue[s])

(* The packet received for a subscriber is the next one. *)
LEMMA ReceiveInTurn ==
  ASSUME LgIInv, Receive, NEW s \in subscribers
  PROVE  \E to \in Nat :
            /\ Carries(down', InTurn(s), Len(seen'[s]), to)
            /\ s \in DOMAIN queue => to = fed[s] - Len(queue[s])
            /\ IF Head(down).slot = s
               THEN seen'[s] = Append(seen[s], Head(down).n) /\ Head(down).n = Len(seen[s]) + 1
               ELSE seen'[s] = seen[s]
  <1> DEFINE p == Head(down)
  <1>1. /\ LgTypeOK /\ down \in Seq(LgPacket) /\ down # <<>> /\ down' = Tail(down)
        /\ s \in Slots /\ seen \in [Slots -> Seq(1 .. MaxFeeds)]
        /\ seen' = IF p.slot \in subscribers THEN [seen EXCEPT ![p.slot] = Append(@, p.n)] ELSE seen
    BY DEF LgIInv, LgTypeOK, Receive
  <1>2. p \in LgPacket /\ p.slot \in Slots /\ p.n \in 1 .. MaxFeeds
    BY <1>1, HeadOfDown
  <1> HIDE DEF p
  <1>3. PICK to \in Nat : /\ Carries(down, InTurn(s), Len(seen[s]), to)
                          /\ s \in DOMAIN queue => to = fed[s] - Len(queue[s])
    BY DEF LgIInv, DownInTurn
  <1>4. Len(seen[s]) \in Nat /\ seen[s] \in Seq(1 .. MaxFeeds)
    BY <1>1
  <1>5. PICK c \in Nat : <<Len(seen[s]), p, c>> \in InTurn(s) /\ Carries(down', InTurn(s), c, to)
    BY <1>1, <1>3, <1>4, CarriesTail DEF p
  <1>6. IF p.slot = s THEN c = Len(seen[s]) + 1 /\ p.n = c ELSE c = Len(seen[s])
    BY <1>5 DEF InTurn
  <1>7. CASE p.slot = s
    <2>1. seen'[s] = Append(seen[s], p.n)
      BY <1>1, <1>7
    <2>2. Len(seen'[s]) = c
      BY <1>2, <1>4, <1>6, <1>7, <2>1, AppendFacts
    <2>3. QED
      BY <1>3, <1>5, <1>6, <1>7, <2>1, <2>2 DEF p
  <1>8. CASE p.slot # s
    <2>1. seen'[s] = seen[s]
      BY <1>1, <1>2, <1>8
    <2>2. QED
      BY <1>3, <1>5, <1>6, <1>8, <2>1 DEF p
  <1>9. QED
    BY <1>7, <1>8

LEMMA PlayerInOrderStep ==
  ASSUME LgIInv, LgNext
  PROVE  PlayerInOrder'
  <1>1. /\ LgTypeOK /\ PlayerInOrder
        /\ seen \in [Slots -> Seq(1 .. MaxFeeds)]
    BY DEF LgIInv, LgTypeOK
  <1>2. ASSUME UNCHANGED seen PROVE PlayerInOrder'
    BY <1>1, <1>2 DEF PlayerInOrder
  <1>3. CASE Receive
    <2>1. /\ Head(down).slot \in Slots /\ Head(down).n \in 1 .. MaxFeeds
      BY <1>1, <1>3, HeadOfDown DEF Receive
    <2>2. seen' = IF Head(down).slot \in subscribers
                  THEN [seen EXCEPT ![Head(down).slot] = Append(@, Head(down).n)] ELSE seen
      BY <1>3 DEF Receive
    <2>3. ASSUME NEW s \in Slots, NEW k \in DOMAIN seen'[s] PROVE seen'[s][k] = k
      <3>1. CASE seen'[s] = seen[s]
        BY <1>1, <3>1, <2>3 DEF PlayerInOrder
      <3>2. CASE s \in subscribers /\ Head(down).slot = s
        <4>1. seen'[s] = Append(seen[s], Head(down).n) /\ Head(down).n = Len(seen[s]) + 1
          BY <1>3, <3>2, ReceiveInTurn
        <4>2. /\ \A j \in DOMAIN seen[s] : seen'[s][j] = seen[s][j]
              /\ seen'[s][Len(seen[s]) + 1] = Head(down).n
              /\ \A j \in DOMAIN seen'[s] : j = Len(seen[s]) + 1 \/ j \in DOMAIN seen[s]
          BY <1>1, <2>1, <4>1, AppendFacts
        <4>3. QED
          BY <1>1, <2>3, <4>1, <4>2 DEF PlayerInOrder
      <3>3. QED
        BY <1>1, <2>1, <2>2, <3>1, <3>2
    <2>4. QED
      BY <2>3 DEF PlayerInOrder
  <1>4. CASE Subscribe \/ Hangup \/ HubStop \/ ReadControl \/ OfferControl \/ Turns \/ Quits \/ Applies
    BY <1>2, <1>4 DEF Subscribe, Hangup, HubStop, ReadControl, OfferControl, Turns, Quits, Applies, clientVars
  <1>5. ASSUME NEW s \in Slots, Unsubscribe(s) \/ HubFeeds(s) \/ Delivers(s) PROVE PlayerInOrder'
    BY <1>2, <1>5 DEF Unsubscribe, HubFeeds, Delivers, clientVars
  <1>6. QED
    BY <1>3, <1>4, <1>5, NextIsCases DEF NextCases

(* Nothing is on its way to the player of a slot nobody touched. *)
LEMMA FreshOnTheWay ==
  ASSUME LgTypeOK, NEW s \in Slots, Fresh(s)
  PROVE  Len(seen[s]) = 0 /\ Carries(down, InTurn(s), 0, 0)
  <1>1. down \in Seq(LgPacket) /\ \A k \in DOMAIN down : down[k].slot # s
    BY DEF LgTypeOK, Fresh
  <1>2. Len(down) \in Nat /\ \A k \in 1 .. Len(down) : down[k] \in LgPacket /\ down[k].slot # s
    BY <1>1, ElementOfSeq, LenProperties
  <1>3. \A k \in 1 .. Len(down) : <<0, down[k], 0>> \in InTurn(s)
    BY <1>2 DEF InTurn, Moves
  <1>4. QED
    BY <1>2, <1>3, CarriesIdle DEF Fresh

LEMMA DownInTurnStep ==
  ASSUME LgIInv, LgNext
  PROVE  DownInTurn'
  <1>1. /\ LgTypeOK /\ NoHubLeak /\ SubsType /\ DownInTurn /\ QueueRun
        /\ down \in Seq(LgPacket) /\ subscribers \subseteq Slots
        /\ seen \in [Slots -> Seq(1 .. MaxFeeds)]
        /\ \A s \in DOMAIN queue : s \in Slots /\ queue[s] \in Seq(1 .. MaxFeeds) /\ fed[s] \in Nat
        /\ DOMAIN fed = Slots /\ \A s \in Slots : fed[s] \in Nat
        /\ nextSlot \in Nat
        /\ controls \in Seq(Control)
    BY GridAssumption DEF LgIInv, LgTypeOK, SubsType
  <1>2. ASSUME UNCHANGED <<down, seen, fed>>, subscribers' \subseteq subscribers,
               \A s \in DOMAIN queue' : s \in DOMAIN queue /\ queue'[s] = queue[s]
        PROVE  DownInTurn'
    BY <1>1, <1>2 DEF DownInTurn
  <1>3. CASE Subscribe
    <2>1. /\ subscribers' = subscribers \cup {nextSlot} /\ nextSlot \in Slots
          /\ UNCHANGED <<down, seen, queue, fed>>
      BY <1>1, <1>3, GridAssumption DEF LgTypeOK, Subscribe, Slots, lgHubVars
    <2>2. Fresh(nextSlot)
      BY <1>1, <2>1 DEF LgIInv, SubsOnce
    <2>3. Len(seen[nextSlot]) = 0 /\ Carries(down, InTurn(nextSlot), 0, 0) /\ nextSlot \notin DOMAIN queue
      BY <1>1, <2>1, <2>2, FreshOnTheWay DEF Fresh
    <2>4. ASSUME NEW s \in subscribers'
          PROVE  \E to \in Nat : /\ Carries(down, InTurn(s), Len(seen[s]), to)
                                 /\ s \in DOMAIN queue => to = fed[s] - Len(queue[s])
      <3>1. CASE s \in subscribers
        BY <1>1, <3>1 DEF DownInTurn
      <3>2. CASE s = nextSlot
        BY <2>3, <3>2
      <3>3. QED
        BY <2>1, <3>1, <3>2
    <2>5. QED
      BY <2>1, <2>4 DEF DownInTurn
  <1>4. ASSUME NEW t \in Slots, HubFeeds(t) PROVE DownInTurn'
    <2>1. /\ t \in DOMAIN queue /\ DOMAIN queue' = DOMAIN queue
          /\ fed' = [fed EXCEPT ![t] = fed[t] + 1]
          /\ queue' = [queue EXCEPT ![t] = Append(queue[t], fed[t] + 1)]
          /\ fed[t] < MaxFeeds
          /\ UNCHANGED <<down, seen, subscribers>>
      BY <1>4 DEF HubFeeds, clientVars
    <2>2. /\ fed'[t] = fed[t] + 1 /\ queue'[t] = Append(queue[t], fed[t] + 1)
          /\ \A s \in DOMAIN queue \ {t} : fed'[s] = fed[s] /\ queue'[s] = queue[s]
      BY <1>1, <2>1
    <2>3. fed[t] + 1 \in 1 .. MaxFeeds
      BY <1>1, <2>1, GridAssumption
    <2>4. Len(queue[t]) \in Nat /\ Len(queue'[t]) = Len(queue[t]) + 1
      BY <1>1, <2>1, <2>2, <2>3, AppendFacts
    <2>5. fed'[t] - Len(queue'[t]) = fed[t] - Len(queue[t])
      <3>1. fed[t] \in Nat /\ fed'[t] = fed[t] + 1 /\ Len(queue'[t]) = Len(queue[t]) + 1
        BY <1>1, <2>2, <2>4
      <3>2. QED
        BY <2>4, <3>1
    <2>6. \A s \in DOMAIN queue' : s \in DOMAIN queue /\ fed'[s] - Len(queue'[s]) = fed[s] - Len(queue[s])
      BY <2>1, <2>2, <2>5
    <2>7. QED
      BY <1>1, <2>1, <2>6 DEF DownInTurn
  <1>5. CASE Receive
    <2>1. UNCHANGED <<subscribers, queue, fed>>
      BY <1>5 DEF Receive, lgHubVars
    <2>2. ASSUME NEW s \in subscribers
          PROVE  \E to \in Nat : /\ Carries(down', InTurn(s), Len(seen'[s]), to)
                                 /\ s \in DOMAIN queue => to = fed[s] - Len(queue[s])
      BY <1>5, ReceiveInTurn
    <2>3. QED
      BY <2>1, <2>2 DEF DownInTurn
  <1>6. ASSUME NEW t \in Slots, Delivers(t) PROVE DownInTurn'
    <2> DEFINE p == [slot |-> t, n |-> Head(queue[t])]
    <2>1. /\ t \in DOMAIN queue /\ DOMAIN queue' = DOMAIN queue /\ queue[t] # <<>>
          /\ UNCHANGED <<fed, seen, subscribers>> /\ queue'[t] = Tail(queue[t])
          /\ \A s \in DOMAIN queue \ {t} : queue'[s] = queue[s]
          /\ down' = Append(down, p)
      BY <1>1, <1>6 DEF Delivers, NoHubLeak, clientVars
    <2>2. p \in LgPacket /\ p.slot = t /\ p.n = Head(queue[t])
      BY <1>1, <2>1, HeadOfQueue
    <2> HIDE DEF p
    <2>3. /\ Len(queue[t]) \in Nat \ {0} /\ Len(queue'[t]) = Len(queue[t]) - 1
          /\ Head(queue[t]) = queue[t][1] /\ 1 \in DOMAIN queue[t]
      BY <1>1, <2>1, TailFacts
    <2>4. Head(queue[t]) = fed[t] - Len(queue[t]) + 1 /\ Len(queue[t]) <= fed[t] /\ fed[t] \in Nat
      BY <1>1, <2>1, <2>3 DEF QueueRun
    <2>5. ASSUME NEW s \in subscribers
          PROVE  \E to \in Nat : /\ Carries(down', InTurn(s), Len(seen[s]), to)
                                 /\ s \in DOMAIN queue => to = fed[s] - Len(queue'[s])
      <3>1. PICK to \in Nat : /\ Carries(down, InTurn(s), Len(seen[s]), to)
                              /\ s \in DOMAIN queue => to = fed[s] - Len(queue[s])
        BY <1>1 DEF DownInTurn
      <3>2. Len(seen[s]) \in Nat
        BY <1>1
      <3>3. CASE s = t
        <4>1. to = fed[t] - Len(queue[t]) /\ to + 1 \in Nat /\ to <= to + 1 /\ p.n = to + 1
          BY <2>1, <2>2, <2>4, <3>1, <3>3
        <4>2. <<to, p, to + 1>> \in InTurn(s)
          BY <2>2, <3>3, <4>1 DEF InTurn, Moves
        <4>3. Carries(down', InTurn(s), Len(seen[s]), to + 1)
          BY <1>1, <2>1, <2>2, <3>1, <3>2, <4>1, <4>2, CarriesAppend
        <4>4. to + 1 = fed[s] - Len(queue'[s])
          BY <2>3, <2>4, <3>3, <4>1
        <4>5. QED
          BY <4>1, <4>3, <4>4
      <3>4. CASE s # t
        <4>1. <<to, p, to>> \in InTurn(s) /\ to <= to
          BY <2>2, <3>4 DEF InTurn, Moves
        <4>2. Carries(down', InTurn(s), Len(seen[s]), to)
          BY <1>1, <2>1, <2>2, <3>1, <3>2, <4>1, CarriesAppend
        <4>3. QED
          BY <2>1, <3>1, <3>4, <4>2
      <3>5. QED
        BY <3>3, <3>4
    <2>6. QED
      BY <2>1, <2>5 DEF DownInTurn
  <1>7. CASE Applies
    <2>1. controls # <<>> /\ UNCHANGED <<down, seen, fed, subscribers>>
      BY <1>1, <1>7, ApplyCases DEF clientVars
    <2>2. ASSUME NEW t \in Slots, Drops(t) PROVE DownInTurn'
      BY <1>1, <1>2, <2>1, <2>2, SubsDrop
    <2>3. ASSUME NEW t \in Slots, t \in SubOf(Head(controls)), Adds(t) PROVE DownInTurn'
      <3>1. /\ DOMAIN queue' = DOMAIN queue \cup {t} /\ queue'[t] = <<>>
            /\ \A s \in DOMAIN queue \ {t} : queue'[s] = queue[s]
        BY <1>1, <2>3, SubsAdd
      <3>2. t \in Waiting(controls)
        BY <1>1, <2>1, <2>3, WaitingTail
      <3>3. Fresh(t)
        BY <3>2 DEF LgIInv, SubsOnce
      <3>4. Len(seen[t]) = 0 /\ Carries(down, InTurn(t), 0, 0) /\ fed[t] = 0
        BY <1>1, <3>3, FreshOnTheWay DEF Fresh
      <3>5. ASSUME NEW s \in subscribers
            PROVE  \E to \in Nat : /\ Carries(down, InTurn(s), Len(seen[s]), to)
                                   /\ s \in DOMAIN queue' => to = fed[s] - Len(queue'[s])
        <4>1. CASE s = t
          <5>1. 0 = fed[s] - Len(queue'[s])
            BY <3>1, <3>4, <4>1
          <5>2. QED
            BY <3>4, <4>1, <5>1
        <4>2. CASE s # t
          BY <1>1, <3>1, <4>2 DEF DownInTurn
        <4>3. QED
          BY <4>1, <4>2
      <3>6. QED
        BY <2>1, <3>5 DEF DownInTurn
    <2>4. CASE UNCHANGED queue
      BY <1>2, <2>1, <2>4
    <2>5. QED
      BY <1>1, <1>7, <2>2, <2>3, <2>4, ApplyCases
  <1>8. CASE Hangup \/ HubStop \/ ReadControl \/ OfferControl \/ Turns
    BY <1>2, <1>8 DEF Hangup, HubStop, ReadControl, OfferControl, Turns, lgHubVars, clientVars
  <1>9. CASE Quits
    BY <1>2, <1>9 DEF Quits, WriterEnds, NoQueue, clientVars
  <1>10. ASSUME NEW s \in Slots, Unsubscribe(s) PROVE DownInTurn'
    BY <1>2, <1>10 DEF Unsubscribe, lgHubVars
  <1>11. QED
    BY <1>3, <1>4, <1>5, <1>6, <1>7, <1>8, <1>9, <1>10, NextIsCases DEF NextCases
-----------------------------------------------------------------------------
LEMMA InitLgIInv == LgInit => LgIInv
  <1> SUFFICES ASSUME LgInit PROVE LgIInv
    OBVIOUS
  <1>1. /\ <<>> \in Seq(Control) /\ <<>> \in Seq(LgPacket) /\ <<>> \in Seq(1 .. MaxFeeds)
        /\ Len(<<>>) = 0 /\ DOMAIN <<>> = {}
    BY EmptySeq
  <1>2. DOMAIN subs = {} /\ DOMAIN queue = {}
    BY DEF LgInit, Nobody, NoQueue
  <1>3. LgTypeOK
    <2>1. Cardinality(DOMAIN subs) <= MaxSubs
      BY <1>2, FS_EmptySet, GridAssumption
    <2>2. writer \in WriterStates
      BY DEF LgInit, WriterStates
    <2>3. nextSlot \in 1 .. MaxSlots + 1 /\ fed \in [Slots -> 0 .. MaxFeeds]
      BY GridAssumption DEF LgInit
    <2>4. seen \in [Slots -> Seq(1 .. MaxFeeds)]
      BY <1>1 DEF LgInit
    <2>5. controls \in Seq(Control) /\ Len(controls) <= ControlCap
      BY <1>1, GridAssumption DEF LgInit
    <2>6. QED
      BY <1>1, <1>2, <2>1, <2>2, <2>3, <2>4, <2>5 DEF LgInit, LgTypeOK
  <1>4. WriterSlots /\ NoHubLeak
    BY <1>2 DEF LgInit, WriterSlots, NoHubLeak
  <1>5. InFlight
    <2>1. Carries(<<>>, Weight, 0, 0)
      BY CarriesNothing
    <2>2. QED
      BY <2>1 DEF LgInit, InFlight
  <1>6. AcksReceived
    BY <1>1 DEF LgInit, AcksReceived
  <1>7. WindowKept
    <2>1. "init" \in Kinds /\ Size["init"] \in Nat \ {0} /\ Window \in Nat \ {0}
      BY GridAssumption DEF Kinds
    <2>2. sent < acknowledged + Window + Size["init"]
      BY <2>1 DEF LgInit
    <2>3. QED
      BY <2>1, <2>2 DEF WindowKept
  <1>8. SubsOnce
    <2>1. Waiting(<<>>) = {} /\ Once(<<>>)
      BY <1>1 DEF Waiting, Once
    <2>2. Held(<<"read">>) = {}
      BY DEF Held
    <2>3. \A s \in Slots : Fresh(s)
      BY <1>1, <1>2 DEF LgInit, Fresh
    <2>4. QED
      BY <2>1, <2>2, <2>3 DEF LgInit, SubsOnce
  <1>9. QueueRun /\ DownInTurn
    BY <1>2 DEF LgInit, QueueRun, DownInTurn
  <1>10. PlayerInOrder
    BY <1>1 DEF LgInit, PlayerInOrder
  <1>11. QED
    BY <1>3, <1>4, <1>5, <1>6, <1>7, <1>8, <1>9, <1>10 DEF LgIInv

LEMMA StepLgIInv == LgIInv /\ [LgNext]_lgVars => LgIInv'
  <1> SUFFICES ASSUME LgIInv, [LgNext]_lgVars PROVE LgIInv'
    OBVIOUS
  <1>1. CASE LgNext
    BY <1>1, TypeStep, WriterSlotsStep, NoHubLeakStep, InFlightStep, AcksReceivedStep, WindowKeptStep,
       SubsOnceStep, QueueRunStep, PlayerInOrderStep, DownInTurnStep DEF LgIInv
  <1>2. CASE UNCHANGED lgVars
    <2> USE <1>2 DEF LgIInv, lgVars, clientVars, lgHubVars
    <2>1. LgTypeOK'
      BY DEF LgTypeOK
    <2>2. WriterSlots' /\ NoHubLeak' /\ WindowKept'
      BY DEF WriterSlots, NoHubLeak, WindowKept, CanSend
    <2>3. InFlight' /\ AcksReceived'
      BY DEF InFlight, AcksReceived, AckOk
    <2>4. SubsOnce'
      BY DEF SubsOnce, Fresh
    <2>5. QueueRun' /\ PlayerInOrder' /\ DownInTurn'
      BY DEF QueueRun, PlayerInOrder, DownInTurn
    <2>6. QED
      BY <2>1, <2>2, <2>3, <2>4, <2>5
  <1>3. QED
    BY <1>1, <1>2

LEMMA LgInvariance == LgSpec => []LgIInv
  BY InitLgIInv, StepLgIInv, PTL DEF LgSpec

(* The largest packet bounds every packet. *)
LEMMA LargestPacket ==
  /\ Max({Size[j] : j \in Kinds}) \in Nat
  /\ \A k \in Kinds : Size[k] <= Max({Size[j] : j \in Kinds})
  <1>1. Size \in [Kinds -> Nat \ {0}]
    BY GridAssumption
  <1> DEFINE S == {Size[j] : j \in Kinds}
  <1>2. \E x \in S : \A y \in S : x >= y
    <2>1. /\ Size["init"] \in Nat /\ Size["key"] \in Nat /\ Size["delta"] \in Nat
          /\ S = {Size["init"], Size["key"], Size["delta"]}
      BY <1>1 DEF Kinds
    <2>2. CASE Size["init"] >= Size["key"] /\ Size["init"] >= Size["delta"]
      BY <2>1, <2>2
    <2>3. CASE Size["key"] >= Size["init"] /\ Size["key"] >= Size["delta"]
      BY <2>1, <2>3
    <2>4. CASE Size["delta"] >= Size["init"] /\ Size["delta"] >= Size["key"]
      BY <2>1, <2>4
    <2>5. QED
      BY <2>1, <2>2, <2>3, <2>4
  <1>3. Max(S) \in S /\ \A y \in S : Max(S) >= y
    BY <1>2 DEF Max
  <1>4. ASSUME NEW k \in Kinds PROVE Size[k] <= Max(S)
    <2>1. Size[k] \in S /\ Size[k] \in Nat /\ Max(S) \in Nat
      BY <1>1, <1>3
    <2>2. QED
      BY <1>3, <2>1
  <1>5. Max(S) \in Nat
    BY <1>1, <1>3
  <1>6. QED
    BY <1>4, <1>5

LEMMA LgIInvFlow == LgIInv => FlowControlled
  <1> SUFFICES ASSUME LgIInv PROVE FlowControlled
    OBVIOUS
  <1>1. /\ LgTypeOK /\ PlayerInOrder /\ InFlight /\ AcksReceived /\ WindowKept
        /\ sent \in Nat /\ received \in Nat /\ acknowledged \in Nat /\ down \in Seq(LgPacket)
    BY DEF LgIInv, LgTypeOK
  <1>2. acknowledged <= received
    BY <1>1 DEF AcksReceived
  <1>3. received <= sent
    BY <1>1, CarriesUp DEF InFlight
  <1>4. sent - acknowledged < Window + Max({Size[k] : k \in Kinds})
    <2>1. PICK k \in Kinds : sent < acknowledged + Window + Size[k]
      BY <1>1 DEF WindowKept
    <2>2. Size[k] \in Nat /\ Window \in Nat
      BY GridAssumption
    <2>3. Size[k] <= Max({Size[j] : j \in Kinds}) /\ Max({Size[j] : j \in Kinds}) \in Nat
      BY LargestPacket
    <2>4. QED
      BY <1>1, <2>1, <2>2, <2>3
  <1>5. QED
    BY <1>1, <1>2, <1>3, <1>4 DEF FlowControlled, WindowBound

(* The writer keeps the bytes in flight below the window and one packet, the
   credit never runs ahead, and each player gets the packets of its own
   subscription in order from the init segment on (live_grid_ws.go). *)
THEOREM FlowControlledHolds == LgSpec => []FlowControlled
  BY LgInvariance, LgIInvFlow, PTL

(* A subscription has a client in a hub and the other way round, and the
   writer's deferred clean-up leaves none behind, however it ends. *)
THEOREM NoHubLeakHolds == LgSpec => []NoHubLeak
  <1>1. LgIInv => NoHubLeak
    BY DEF LgIInv
  <1>2. QED
    BY LgInvariance, <1>1, PTL

-----------------------------------------------------------------------------
(* SurvMosaic.                                                             *)

(* The maps and the set of cancelled encoders speak of built entries. *)
Numbered ==
    /\ wall <= built
    /\ mosaic.entry <= built
    /\ cancelled \subseteq 1 .. built

(* The converse of OneEncoder: the entry that sp.streams lists, where
   viewers are sent, still has its encoder. *)
ListedRuns == wall # 0 => wall \notin cancelled

(* The inductive invariant. *)
IInv ==
    /\ MoTypeOK
    /\ Numbered
    /\ OneEncoder
    /\ MapsAgree
    /\ ListedRuns
-----------------------------------------------------------------------------
LEMMA InitIInv == MoInit => IInv
  <1> SUFFICES ASSUME MoInit PROVE IInv
    OBVIOUS
  <1>1. proc \in [Procs -> ProcStates]
    BY DEF MoInit, AtPC, ProcStates
  <1>2. reaper \in [Walls -> ReaperStates]
    BY MosaicAssumption DEF MoInit, ReaperStates
  <1>3. mosaic \in Mosaics /\ mosaic.entry = 0
    BY DEF MoInit, Mosaics, NoMosaic
  <1>4. MoTypeOK
    BY <1>1, <1>2, <1>3, MosaicAssumption DEF MoInit, MoTypeOK
  <1>5. QED
    BY <1>3, <1>4 DEF MoInit, IInv, Numbered, OneEncoder, MapsAgree, ListedRuns

(* What a goroutine may be given as its next place. *)
LEMMA GotoType ==
  ASSUME MoTypeOK, NEW p \in Procs, NEW label \in {"idle", "ensure", "join", "stopWall", "walls"}, Goto(p, label)
  PROVE  proc' \in [Procs -> ProcStates]
  <1>1. AtPC(label) \in ProcStates
    BY DEF AtPC, ProcStates
  <1>2. proc \in [Procs -> ProcStates] /\ proc' = [proc EXCEPT ![p] = AtPC(label)]
    BY DEF MoTypeOK, Goto
  <1>3. QED
    BY <1>1, <1>2

LEMMA LeaveType ==
  ASSUME MoTypeOK, NEW p \in Procs, Leave(p)
  PROVE  proc' \in [Procs -> ProcStates]
  <1>1. CASE p \in Viewers
    BY <1>1, GotoType DEF Leave
  <1>2. CASE p \notin Viewers
    BY <1>2, GotoType DEF Leave
  <1>3. QED
    BY <1>1, <1>2

(* The numbers that a mosaic can hold. *)
LEMMA EntryType ==
  ASSUME MoTypeOK
  PROVE  /\ mosaic.entry \in 0 .. MaxWalls
         /\ wall \in Nat /\ built \in Nat /\ MaxWalls \in Nat
         /\ mosaic # NoMosaic => mosaic.entry \in Walls
  BY MosaicAssumption DEF MoTypeOK, Mosaics, NoMosaic, Walls

(* Dropping both of what the maps name leaves no encoder running: stopping a
   wall by its id never orphans an ffmpeg. *)
LEMMA StopMosaicKeeps ==
  ASSUME IInv, StopMosaic
  PROVE  /\ mosaic' \in Mosaics /\ wall' \in 0 .. MaxWalls /\ cancelled' \subseteq Walls
         /\ wall' = 0 /\ mosaic'.entry = 0
         /\ cancelled' \subseteq 1 .. built
         /\ \A w \in 1 .. built : w \in cancelled'
  <1>1. MoTypeOK /\ Numbered /\ OneEncoder
    BY DEF IInv
  <1>2. mosaic.entry \in 0 .. MaxWalls /\ wall \in Nat /\ built \in Nat /\ MaxWalls \in Nat
    BY <1>1, EntryType
  <1>3. mosaic' = NoMosaic /\ wall' = 0
        /\ cancelled' = cancelled \cup ({mosaic.entry, wall} \ {0})
    BY DEF StopMosaic, Cancel
  <1>4. mosaic' \in Mosaics /\ mosaic'.entry = 0
    BY <1>3 DEF Mosaics, NoMosaic
  <1>5. cancelled' \subseteq 1 .. built
    <2>1. mosaic.entry \in 0 .. built /\ wall \in 0 .. built /\ cancelled \subseteq 1 .. built
      BY <1>1, <1>2 DEF Numbered
    <2>2. \A k \in 0 .. built : k # 0 => k \in 1 .. built
      BY <1>2
    <2>3. QED
      BY <1>3, <2>1, <2>2
  <1>6. cancelled' \subseteq Walls
    BY <1>1, <1>2, <1>5 DEF MoTypeOK, Walls
  <1>7. \A w \in 1 .. built : w \in cancelled'
    BY <1>1, <1>2, <1>3 DEF OneEncoder
  <1>8. QED
    BY <1>2, <1>3, <1>4, <1>5, <1>6, <1>7

(* ... so the invariant survives it. *)
LEMMA StopMosaicIInv ==
  ASSUME IInv, StopMosaic, UNCHANGED built, MoTypeOK'
  PROVE  IInv'
  <1>1. /\ wall' = 0 /\ mosaic'.entry = 0 /\ built' = built /\ built \in Nat
        /\ cancelled' \subseteq 1 .. built
        /\ \A w \in 1 .. built : w \in cancelled'
    BY StopMosaicKeeps, EntryType DEF IInv
  <1>2. Numbered'
    BY <1>1 DEF Numbered
  <1>3. OneEncoder' /\ MapsAgree' /\ ListedRuns'
    BY <1>1 DEF OneEncoder, MapsAgree, ListedRuns
  <1>4. QED
    BY <1>2, <1>3 DEF IInv

(* An action that leaves the maps and the encoders alone keeps the rest. *)
LEMMA WallUnchanged ==
  ASSUME IInv, UNCHANGED <<wall, mosaic, built, cancelled>>, MoTypeOK'
  PROVE  IInv'
  BY DEF IInv, Numbered, OneEncoder, MapsAgree, ListedRuns
-----------------------------------------------------------------------------
(* The walk of one goroutine through EnsureMosaic. *)
LEMMA LooksIInv ==
  ASSUME IInv, NEW p \in Procs, EnsureLooks(p)
  PROVE  IInv'
  <1>1. MoTypeOK
    BY DEF IInv
  <1>2. CASE active = {}
    <2>1. StopMosaic /\ Leave(p) /\ UNCHANGED <<active, order, quality, built, watching, reaper, posts, applies>>
      BY <1>2 DEF EnsureLooks
    <2>2. proc' \in [Procs -> ProcStates]
      BY <1>1, <2>1, LeaveType
    <2>3. MoTypeOK'
      BY <1>1, <2>1, <2>2, StopMosaicKeeps DEF MoTypeOK
    <2>4. QED
      BY <2>1, <2>3, StopMosaicIInv
  <1>3. CASE active # {}
    <2>1. /\ proc' = [proc EXCEPT ![p] = [pc |-> "build", sig |-> [ids |-> active, order |-> order]]]
          /\ UNCHANGED <<wall, mosaic, cancelled, active, order, quality, built, watching, reaper, posts, applies>>
      BY <1>3 DEF EnsureLooks
    <2>2. [pc |-> "build", sig |-> [ids |-> active, order |-> order]] \in ProcStates
      BY <1>1 DEF MoTypeOK, ProcStates, Sigs
    <2>3. proc' \in [Procs -> ProcStates]
      BY <1>1, <2>1, <2>2 DEF MoTypeOK
    <2>4. MoTypeOK'
      BY <1>1, <2>1, <2>3 DEF MoTypeOK
    <2>5. QED
      BY <2>1, <2>4, WallUnchanged
  <1>4. QED
    BY <1>2, <1>3

LEMMA BuildsIInv ==
  ASSUME IInv, NEW p \in Procs, EnsureBuilds(p)
  PROVE  IInv'
  <1>1. MoTypeOK /\ Numbered /\ OneEncoder
    BY DEF IInv
  <1>2. Leave(p) /\ UNCHANGED <<active, order, quality, watching, posts, applies>> /\ proc[p].pc = "build"
    BY DEF EnsureBuilds
  <1>3. proc' \in [Procs -> ProcStates]
    BY <1>1, <1>2, LeaveType
  <1>4. CASE UNCHANGED <<wall, mosaic, built, cancelled, reaper>>
    <2>1. MoTypeOK'
      BY <1>1, <1>2, <1>3, <1>4 DEF MoTypeOK
    <2>2. QED
      BY <1>4, <2>1, WallUnchanged
  <1>5. CASE /\ built < MaxWalls
             /\ Cancel({mosaic.entry, wall})
             /\ built' = built + 1
             /\ wall' = built + 1
             /\ mosaic' = [entry |-> built + 1, sig |-> proc[p].sig, quality |-> quality]
             /\ reaper' = [reaper EXCEPT ![built + 1].pc = "tick"]
    <2>1. mosaic.entry \in 0 .. MaxWalls /\ wall \in Nat /\ built \in Nat /\ MaxWalls \in Nat
      BY <1>1, EntryType
    <2>2. built + 1 \in Walls /\ built + 1 \in 0 .. MaxWalls
      BY <1>5, <2>1 DEF Walls
    <2>3. proc[p].sig \in Sigs
      BY <1>1, <1>2 DEF MoTypeOK, ProcStates
    <2>4. mosaic' \in Mosaics /\ mosaic'.entry = built + 1
      BY <1>1, <1>5, <2>2, <2>3 DEF MoTypeOK, Mosaics
    <2>5. reaper' \in [Walls -> ReaperStates]
      BY <1>1, <1>5, <2>2 DEF MoTypeOK, ReaperStates
    <2>6. cancelled' = cancelled \cup ({mosaic.entry, wall} \ {0})
      BY <1>5 DEF Cancel
    <2>7. cancelled' \subseteq 1 .. built
      <3>1. mosaic.entry \in 0 .. built /\ wall \in 0 .. built /\ cancelled \subseteq 1 .. built
        BY <1>1, <2>1 DEF Numbered
      <3>2. \A k \in 0 .. built : k # 0 => k \in 1 .. built
        BY <2>1
      <3>3. QED
        BY <2>6, <3>1, <3>2
    <2>8. cancelled' \subseteq Walls
      BY <1>1, <2>1, <2>7 DEF MoTypeOK, Walls
    <2>9. MoTypeOK'
      BY <1>1, <1>2, <1>3, <1>5, <2>2, <2>4, <2>5, <2>8 DEF MoTypeOK
    <2>10. Numbered'
      BY <1>5, <2>1, <2>4, <2>7 DEF Numbered
    <2>11. OneEncoder'
      <3> SUFFICES ASSUME NEW w \in 1 .. built + 1, w \notin cancelled' PROVE w = built + 1
        BY <1>5 DEF OneEncoder
      <3>1. w \in 1 .. built => w \notin cancelled /\ w # wall
        BY <2>1, <2>6
      <3>2. QED
        BY <1>1, <2>1, <3>1 DEF OneEncoder
    <2>12. MapsAgree' /\ ListedRuns'
      BY <1>5, <2>1, <2>4, <2>7 DEF MapsAgree, ListedRuns
    <2>13. QED
      BY <2>9, <2>10, <2>11, <2>12 DEF IInv
  <1>6. QED
    BY <1>4, <1>5 DEF EnsureBuilds

(* A configuration stops the wall's stream, but not its mosaic. *)
LEMMA StopsWallIInv ==
  ASSUME IInv, ConfigStopsWall
  PROVE  IInv'
  <1>1. MoTypeOK /\ Numbered /\ OneEncoder /\ wall \in Nat /\ built \in Nat /\ MaxWalls \in Nat
    BY EntryType DEF IInv
  <1>2. /\ cancelled' = cancelled \cup ({wall} \ {0}) /\ wall' = 0
        /\ Goto(Configurer, "walls")
        /\ UNCHANGED <<active, order, quality, mosaic, built, watching, reaper, posts, applies>>
    BY DEF ConfigStopsWall, Cancel
  <1>3. proc' \in [Procs -> ProcStates]
    BY <1>1, <1>2, GotoType DEF Procs
  <1>4. cancelled' \subseteq 1 .. built
    BY <1>1, <1>2 DEF Numbered
  <1>5. MoTypeOK'
    BY <1>1, <1>2, <1>3, <1>4 DEF MoTypeOK, Walls
  <1>6. Numbered'
    BY <1>1, <1>2, <1>4 DEF Numbered
  <1>7. OneEncoder'
    BY <1>1, <1>2 DEF OneEncoder
  <1>8. MapsAgree' /\ ListedRuns'
    BY <1>2 DEF MapsAgree, ListedRuns
  <1>9. QED
    BY <1>5, <1>6, <1>7, <1>8 DEF IInv

LEMMA ReaperIInv ==
  ASSUME IInv, NEW w \in Walls, ReaperTick(w) \/ ReaperStops(w)
  PROVE  IInv'
  <1>1. MoTypeOK
    BY DEF IInv
  <1>2. CASE ReaperTick(w)
    <2>1. reaper' \in [Walls -> ReaperStates]
      <3>1. reaper[w].idle \in Nat /\ Grace \in Nat /\ reaper \in [Walls -> ReaperStates]
        BY <1>1, MosaicAssumption DEF MoTypeOK, ReaperStates
      <3>2. /\ \A label \in {"tick", "stop", "ended"} : [pc |-> label, idle |-> 0] \in ReaperStates
            /\ reaper[w].idle < Grace => [pc |-> "tick", idle |-> reaper[w].idle + 1] \in ReaperStates
        BY <3>1 DEF ReaperStates
      <3>3. \E r \in ReaperStates : reaper' = [reaper EXCEPT ![w] = r]
        BY <1>2, <3>1, <3>2 DEF ReaperTick
      <3>4. QED
        BY <3>1, <3>3
    <2>2. MoTypeOK'
      BY <1>1, <1>2, <2>1 DEF MoTypeOK, ReaperTick
    <2>3. QED
      BY <1>2, <2>2, WallUnchanged DEF ReaperTick
  <1>3. CASE ReaperStops(w)
    <2>1. reaper' \in [Walls -> ReaperStates]
      BY <1>1, <1>3 DEF MoTypeOK, ReaperStops, ReaperStates
    <2>2. MoTypeOK'
      BY <1>1, <1>3, <2>1, StopMosaicKeeps DEF MoTypeOK, ReaperStops
    <2>3. QED
      BY <1>3, <2>2, StopMosaicIInv DEF ReaperStops
  <1>4. QED
    BY <1>2, <1>3

(* Steps that move goroutines, viewers and settings only. *)
LEMMA QuietIInv ==
  ASSUME IInv,
         \/ PostLayout \/ ApplyConfig \/ RunningWalls
         \/ \E v \in Viewers : ViewerConnects(v) \/ ViewerLeaves(v) \/ ViewerJoins(v)
  PROVE  IInv'
  <1>1. MoTypeOK
    BY DEF IInv
  <1>2. CASE PostLayout
    <2>1. proc' \in [Procs -> ProcStates]
      BY <1>1, <1>2, GotoType DEF PostLayout, Procs
    <2>2. posts' \in 0 .. MaxPosts /\ order' \in Orders /\ quality' \in Qualities
      BY <1>1, <1>2, MosaicAssumption DEF PostLayout, MoTypeOK
    <2>3. MoTypeOK'
      BY <1>1, <1>2, <2>1, <2>2 DEF PostLayout, MoTypeOK
    <2>4. QED
      BY <1>2, <2>3, WallUnchanged DEF PostLayout
  <1>3. CASE ApplyConfig
    <2>1. proc' \in [Procs -> ProcStates]
      BY <1>1, <1>3, GotoType DEF ApplyConfig, Procs
    <2>2. applies' \in 0 .. MaxConfigs /\ active' \subseteq Channels
      BY <1>1, <1>3, MosaicAssumption DEF ApplyConfig, MoTypeOK
    <2>3. MoTypeOK'
      BY <1>1, <1>3, <2>1, <2>2 DEF ApplyConfig, MoTypeOK
    <2>4. QED
      BY <1>3, <2>3, WallUnchanged DEF ApplyConfig
  <1>4. CASE RunningWalls
    <2>1. proc' \in [Procs -> ProcStates]
      BY <1>1, <1>4, GotoType DEF RunningWalls, Procs
    <2>2. MoTypeOK'
      BY <1>1, <1>4, <2>1 DEF RunningWalls, MoTypeOK
    <2>3. QED
      BY <1>4, <2>2, WallUnchanged DEF RunningWalls
  <1>5. ASSUME NEW v \in Viewers, ViewerConnects(v) \/ ViewerLeaves(v) \/ ViewerJoins(v)
        PROVE  IInv'
    <2>1. v \in Procs
      BY DEF Procs
    <2>2. proc' \in [Procs -> ProcStates]
      BY <1>1, <1>5, <2>1, GotoType DEF ViewerConnects, ViewerLeaves, ViewerJoins, MoTypeOK
    <2>3. watching' \in [Viewers -> 0 .. MaxWalls]
      BY <1>1, <1>5, MosaicAssumption DEF ViewerConnects, ViewerLeaves, ViewerJoins, MoTypeOK
    <2>4. UNCHANGED <<active, order, quality, wall, mosaic, built, cancelled, reaper, posts, applies>>
      BY <1>5 DEF ViewerConnects, ViewerLeaves, ViewerJoins
    <2>5. MoTypeOK'
      BY <1>1, <2>2, <2>3, <2>4 DEF MoTypeOK
    <2>6. QED
      BY <2>4, <2>5, WallUnchanged
  <1>6. QED
    BY <1>2, <1>3, <1>4, <1>5

LEMMA NextIInv == IInv /\ [MoNext]_moVars => IInv'
  <1> SUFFICES ASSUME IInv, [MoNext]_moVars PROVE IInv'
    OBVIOUS
  <1>1. ASSUME NEW p \in Procs, EnsureLooks(p) \/ EnsureBuilds(p) PROVE IInv'
    BY <1>1, LooksIInv, BuildsIInv
  <1>2. CASE ConfigStopsWall
    BY <1>2, StopsWallIInv
  <1>3. ASSUME NEW w \in Walls, ReaperTick(w) \/ ReaperStops(w) PROVE IInv'
    BY <1>3, ReaperIInv
  <1>4. CASE \/ PostLayout \/ ApplyConfig \/ RunningWalls
             \/ \E v \in Viewers : ViewerConnects(v) \/ ViewerLeaves(v) \/ ViewerJoins(v)
    BY <1>4, QuietIInv
  <1>5. CASE UNCHANGED moVars
    BY <1>5 DEF moVars, IInv, MoTypeOK, Numbered, OneEncoder, MapsAgree, ListedRuns
  <1>6. QED
    BY <1>1, <1>2, <1>3, <1>4, <1>5 DEF MoNext, RelayStep

LEMMA Invariance == MoSpec => []IInv
  BY InitIInv, NextIInv, PTL DEF MoSpec

(* At most one ffmpeg runs for a wall, whatever rebuilds, idle stops,
   configurations and layout requests race, and it is the one both maps of
   SurvProxy name (surv_mosaic.go, EnsureMosaic, stopMosaicID). *)
THEOREM EncoderIsListedHolds == MoSpec => []EncoderIsListed
  <1>1. IInv => EncoderIsListed
    BY DEF IInv, EncoderIsListed
  <1>2. QED
    BY <1>1, Invariance, PTL

(* A viewer is never sent to the hub of an encoder that was cancelled: the
   entry ServeWS finds in sp.streams is running (surv_mosaic.go,
   EnsureMosaic; surv_ws.go, ServeWS). *)
THEOREM ListedRunsHolds == MoSpec => []ListedRuns
  <1>1. IInv => ListedRuns
    BY DEF IInv
  <1>2. QED
    BY <1>1, Invariance, PTL
=============================================================================
