---------------------------- MODULE StoresProofs ----------------------------
(***************************************************************************)
(* Theorems about what is kept and cached, each component on its own:      *)
(*                                                                         *)
(* Settings: a restart loads what was set (RestartKeepsSettings), who      *)
(* changed the password stays logged in (LastChangerStaysIn), and a wall   *)
(* shows its cameras in the operator's order (WallShowsItsCameras).        *)
(* DeviceStore: a recorder's identity has one key (IdentityHasOneKey), and *)
(* the relay is told what the tables have and shows the channels in the    *)
(* operator's order (RelayShowsIt).                                        *)
(* PinLimiter: an address is blocked for its own recent failures only, and *)
(* for the whole of the block's time (BlocksAreDeserved).                  *)
(* Thumbs: no request is answered with a snapshot that was replaced before *)
(* it arrived (ThumbIsCurrent), the cache stays within its bounds          *)
(* (CacheAccounts), and a card is made by one job at a time                *)
(* (OneJobPerCard).                                                        *)
(* All four, composed: every value stays in its type (TypeOK).             *)
(***************************************************************************)
EXTENDS MCStores, DataLemmas

-----------------------------------------------------------------------------
(* Settings.                                                               *)

(* What is left of the steps of an alert change when k of its settings are *)
(* not written yet.                                                        *)
Writes(k) == [i \in 1 .. k |-> "db"] \o <<"mem">>

(* Where a handler may be: what is left of its steps.                      *)
Rests(r) ==
    CASE r.change.of = "password" -> {<<"db", "mem", "issue">>, <<"mem", "issue">>, <<"issue">>}
      [] r.change.of = "hidden"   -> {<<"db", "mem">>, <<"mem">>}
      [] r.change.of = "alert"    -> {Writes(Cardinality(r.left))}
      [] r.change.of = "agents"   -> {<<"db", "list", "swap">>, <<"list", "swap">>, <<"swap">>}
      [] r.change.of = "order"    -> {<<"mem", "cols", "save">>, <<"cols", "save">>, <<"save">>}
      [] r.change.of = "cols"     -> {<<"mem", "order", "cols", "save">>, <<"order", "cols", "save">>,
                                      <<"cols", "save">>, <<"save">>}

Gathered == [order : Orders \cup {<< >>}, cols : 0 .. 1, agents : SUBSET (Agents \cup {Default})]

LoggingIn == [todo |-> <<"issue">>, change |-> [of |-> "login"], alone |-> TRUE]

(* A handler that changes a setting.                                       *)
Changing(r) ==
    /\ r \in [todo : {r.todo}, change : Changes, alone : BOOLEAN, left : SUBSET AlertFields,
              got : Gathered]
    /\ r.todo \in Rests(r)

StShaped ==
    /\ stDB \in Kept /\ stMem \in Kept
    /\ Default \in stMem.agents
    /\ DOMAIN stReq = Operators
    /\ \A o \in Operators : stReq[o] = NoReq \/ stReq[o] = LoggingIn \/ Changing(stReq[o])
    /\ DOMAIN stCookie = Operators
    /\ stMixed \subseteq SettingNames

(* A handler that still counts as alone is alone with its setting.         *)
AloneIsAlone ==
    \A o, p \in Operators :
        /\ o # p /\ Changing(stReq[o]) /\ Changing(stReq[p])
        /\ Setting(stReq[o].change) = Setting(stReq[p].change)
        => ~ stReq[o].alone

(* What a handler that is alone has done so far.                           *)
DoneSoFar(r, db, mem) ==
    LET c == r.change
        g == r.got
    IN  /\ c.of = "password" /\ r.todo # <<"db", "mem", "issue">> => db.password = c.to
        /\ c.of = "password" /\ r.todo = <<"issue">> => mem.password = c.to
        /\ c.of = "hidden" /\ r.todo = <<"mem">> => db.hidden = c.to
        /\ c.of = "alert" => \A f \in AlertFields \ r.left : db.alert[f] = c.to[f]
        /\ c.of = "agents" /\ r.todo = <<"swap">> => g.agents = db.agents
        /\ c.of = "order" /\ r.todo # <<"mem", "cols", "save">> => mem.order = c.to
        /\ c.of = "order" /\ r.todo = <<"save">> => g.order = c.to /\ g.cols = mem.cols
        /\ c.of = "cols" /\ r.todo \in {<<"cols", "save">>, <<"save">>} => g.order = mem.order
        /\ c.of = "cols" /\ r.todo = <<"save">> => g.cols = mem.cols

AloneHasDone ==
    \A o \in Operators :
        Changing(stReq[o]) /\ stReq[o].alone => DoneSoFar(stReq[o], stDB, stMem)

(* A handler has written something.                                        *)
Started(r) == IF r.change.of = "alert" THEN r.left # AlertFields ELSE r.todo # Steps(r.change)

(* Memory and database agree on a setting.  A cleared alert setting is     *)
(* Unset in both, and becomes the environment's only with a restart.       *)
Agree(s) ==
    CASE s = "password" -> stMem.password = stDB.password
      [] s = "hidden" -> stMem.hidden = stDB.hidden
      [] s = "agents" -> stMem.agents = stDB.agents \cup {Default}
      [] s = "order" -> stMem.order = stDB.order /\ stMem.cols = stDB.cols
      [] s = "alert" -> \A f \in AlertFields :
             stMem.alert[f] \in IF stDB.alert[f] = Unset THEN {Unset, EnvAlert[f]}
                                ELSE {stDB.alert[f]}

(* A setting on which memory and database differ is one that was mixed up, *)
(* or a handler that has written to it goes on.                            *)
Settled ==
    \A s \in SettingNames :
        \/ s \in stMixed \/ Agree(s)
        \/ \E o \in Operators :
              Changing(stReq[o]) /\ Setting(stReq[o].change) = s /\ Started(stReq[o])

(* Who changed the password last has a cookie that counts, or none, or is  *)
(* about to get one.                                                       *)
ChangerGetsCookie ==
    \A o \in Operators :
        stChanger = o =>
            \/ stCookie[o] = Unset \/ AuthedDashboard(o)
            \/ Busy(o) /\ stReq[o].todo = <<"issue">>

StIInv == StShaped /\ AloneIsAlone /\ AloneHasDone /\ Settled /\ ChangerGetsCookie

-----------------------------------------------------------------------------
(* What a step of a handler that changes setting s does.                   *)
SameIn(s, k, l) ==
    CASE s = "password" -> k.password = l.password
      [] s = "hidden" -> k.hidden = l.hidden
      [] s = "alert" -> k.alert = l.alert
      [] s = "agents" -> k.agents = l.agents
      [] s = "order" -> k.order = l.order /\ k.cols = l.cols

Untouched(s) == SameIn(s, stDB, stDB') /\ SameIn(s, stMem, stMem')

Becomes(o, q) ==
    /\ DOMAIN stReq' = Operators
    /\ stReq'[o] = q
    /\ \A p \in Operators \ {o} : stReq'[p] = stReq[p]

(* It goes on ...                                                          *)
Advances(o, q) ==
    /\ Becomes(o, q) /\ stMixed' = stMixed
    /\ Changing(q) /\ q.change = stReq[o].change /\ q.alone = stReq[o].alone
    /\ Started(q)
    /\ q.alone => DoneSoFar(q, stDB', stMem')

(* ... or is through ...                                                   *)
Finishes(o, s) ==
    /\ Becomes(o, NoReq)
    /\ \/ stReq[o].alone /\ stMixed' = stMixed \ {s} /\ Agree(s)'
       \/ stMixed' = stMixed \cup {s}

(* ... or breaks off, which mixes s up if it has written anything.         *)
BreaksOff(o, s) ==
    /\ Becomes(o, NoReq)
    /\ UNCHANGED <<stDB, stMem>>
    /\ \/ stMixed' = stMixed \cup {s}
       \/ stMixed' = stMixed /\ ~ Started(stReq[o])

Moves(o, s) ==
    /\ Changing(stReq[o]) /\ Setting(stReq[o].change) = s
    /\ \A x \in SettingNames \ {s} : Untouched(x)
    /\ (\E q : Advances(o, q)) \/ Finishes(o, s) \/ BreaksOff(o, s)

(* What an action of a handler comes to.                                   *)
Steers(o) ==
    /\ \E s \in SettingNames : Moves(o, s)
    /\ stReq'[o] = NoReq \/ Changing(stReq'[o])
    /\ \A p \in Operators \ {o} : stReq'[p] = stReq[p]
    /\ DOMAIN stReq' = Operators
    /\ stDB' \in Kept /\ stMem' \in Kept /\ Default \in stMem'.agents

-----------------------------------------------------------------------------
LEMMA SettingNamed ==
  ASSUME NEW r, Changing(r)
  PROVE  Setting(r.change) \in SettingNames
  BY DEF Changing, Changes, Setting, SettingNames

LEMMA AgreeKept ==
  ASSUME NEW s \in SettingNames, Untouched(s), Agree(s)
  PROVE  Agree(s)'
  BY DEF SettingNames, Untouched, SameIn, Agree

LEMMA DoneKept ==
  ASSUME NEW r, Changing(r), NEW db, NEW mem, DoneSoFar(r, db, mem), NEW k, NEW l,
         SameIn(Setting(r.change), db, k), SameIn(Setting(r.change), mem, l)
  PROVE  DoneSoFar(r, k, l)
  <1>1. PICK s : s = Setting(r.change)
    OBVIOUS
  <1>2. SameIn(s, db, k) /\ SameIn(s, mem, l)
    BY <1>1
  <1>3. CASE r.change.of = "password"
    BY <1>1, <1>2, <1>3 DEF SameIn, DoneSoFar, Setting
  <1>4. CASE r.change.of = "hidden"
    BY <1>1, <1>2, <1>4 DEF SameIn, DoneSoFar, Setting
  <1>5. CASE r.change.of = "alert"
    BY <1>1, <1>2, <1>5 DEF SameIn, DoneSoFar, Setting
  <1>6. CASE r.change.of = "agents"
    BY <1>1, <1>2, <1>6 DEF SameIn, DoneSoFar, Setting
  <1>7. CASE r.change.of = "order"
    BY <1>1, <1>2, <1>7 DEF SameIn, DoneSoFar, Setting
  <1>8. CASE r.change.of = "cols"
    BY <1>1, <1>2, <1>8 DEF SameIn, DoneSoFar, Setting
  <1>9. QED
    BY <1>3, <1>4, <1>5, <1>6, <1>7, <1>8 DEF Changing, Changes

(* A step of one handler keeps what the invariant says of every setting.   *)
LEMMA MovesKeeps ==
  ASSUME StIInv, NEW o \in Operators, NEW s \in SettingNames, Moves(o, s)
  PROVE  AloneIsAlone' /\ AloneHasDone' /\ Settled' /\ stMixed' \subseteq SettingNames
  <1>1. /\ Changing(stReq[o]) /\ Setting(stReq[o].change) = s
        /\ \A x \in SettingNames \ {s} : Untouched(x)
        /\ (\E q : Advances(o, q)) \/ Finishes(o, s) \/ BreaksOff(o, s)
    BY DEF Moves
  <1>2. ~ Changing(NoReq)
    BY DEF Changing, NoReq
  <1>3. /\ \A p \in Operators \ {o} : stReq'[p] = stReq[p]
        /\ \/ ~ Changing(stReq'[o])
           \/ stReq'[o].change = stReq[o].change /\ stReq'[o].alone = stReq[o].alone
    BY <1>1, <1>2 DEF Advances, Finishes, BreaksOff, Becomes
  <1>4. AloneIsAlone'
    BY <1>1, <1>3 DEF StIInv, AloneIsAlone
  <1>5. AloneHasDone'
    <2> SUFFICES ASSUME NEW p \in Operators, Changing(stReq'[p]), stReq'[p].alone
                 PROVE  DoneSoFar(stReq'[p], stDB', stMem')
      BY DEF AloneHasDone, Changing, Rests, Gathered
    <2>1. CASE p = o
      BY <1>1, <1>2, <2>1 DEF Advances, Finishes, BreaksOff, Becomes
    <2>2. CASE p # o
      <3>1. stReq'[p] = stReq[p]
        BY <1>3, <2>2
      <3>2. Setting(stReq[p].change) # s
        BY <1>1, <2>2, <3>1 DEF StIInv, AloneIsAlone
      <3>3. Untouched(Setting(stReq[p].change))
        BY <1>1, <3>1, <3>2, SettingNamed
      <3>4. DoneSoFar(stReq[p], stDB, stMem)
        BY <3>1 DEF StIInv, AloneHasDone
      <3>5. QED
        BY <3>1, <3>3, <3>4, DoneKept DEF Untouched
    <2>3. QED
      BY <2>1, <2>2
  <1>6. Settled'
    <2> SUFFICES ASSUME NEW x \in SettingNames
                 PROVE  \/ x \in stMixed' \/ Agree(x)'
                        \/ \E p \in Operators :
                              Changing(stReq'[p]) /\ Setting(stReq'[p].change) = x /\ Started(stReq'[p])
      BY DEF Settled, Changing, Rests, Gathered
    <2>1. \/ x \in stMixed \/ Agree(x)
          \/ \E p \in Operators :
                Changing(stReq[p]) /\ Setting(stReq[p].change) = x /\ Started(stReq[p])
      BY DEF StIInv, Settled
    <2>2. CASE x # s
      <3>1. Agree(x) => Agree(x)'
        BY <1>1, <2>2, AgreeKept
      <3>2. x \in stMixed => x \in stMixed'
        BY <1>1, <2>2 DEF Advances, Finishes, BreaksOff
      <3>3. ASSUME NEW p \in Operators,
                   Changing(stReq[p]), Setting(stReq[p].change) = x, Started(stReq[p])
            PROVE  stReq'[p] = stReq[p]
        BY <1>1, <1>3, <2>2, <3>3
      <3>4. QED
        BY <2>1, <3>1, <3>2, <3>3
    <2>3. CASE x = s
      <3>1. ASSUME NEW q, Advances(o, q)
            PROVE  Changing(stReq'[o]) /\ Setting(stReq'[o].change) = x /\ Started(stReq'[o])
        BY <1>1, <2>3, <3>1 DEF Advances, Becomes
      <3>2. ASSUME Finishes(o, s)
            PROVE  x \in stMixed' \/ Agree(x)'
        BY <2>3, <3>2 DEF Finishes
      <3>3. ASSUME BreaksOff(o, s), x \notin stMixed'
            PROVE  \/ Agree(x)'
                   \/ \E p \in Operators :
                         Changing(stReq'[p]) /\ Setting(stReq'[p].change) = x /\ Started(stReq'[p])
        <4>1. x \notin stMixed /\ ~ Started(stReq[o]) /\ UNCHANGED <<stDB, stMem>>
          BY <2>3, <3>3 DEF BreaksOff
        <4>2. Agree(x) => Agree(x)'
          BY <4>1 DEF Agree
        <4>3. QED
          BY <1>3, <2>1, <4>1, <4>2
      <3>4. QED
        BY <1>1, <3>1, <3>2, <3>3
    <2>4. QED
      BY <2>2, <2>3
  <1>7. stMixed' \subseteq SettingNames
    BY <1>1 DEF StIInv, StShaped, Advances, Finishes, BreaksOff
  <1>8. QED
    BY <1>4, <1>5, <1>6, <1>7

-----------------------------------------------------------------------------
Handling(t, c, a, l, g) == [todo |-> t, change |-> c, alone |-> a, left |-> l, got |-> g]

LEMMA HandlingFacts ==
  ASSUME NEW r, Changing(r)
  PROVE  /\ r = Handling(r.todo, r.change, r.alone, r.left, r.got)
         /\ r.change \in Changes /\ r.alone \in BOOLEAN /\ r.left \subseteq AlertFields
         /\ r.got \in Gathered /\ r.todo \in Rests(r)
         /\ r # NoReq /\ r # LoggingIn
  BY DEF Changing, Handling, NoReq, LoggingIn

LEMMA IsChanging ==
  ASSUME NEW t, NEW c \in Changes, NEW a \in BOOLEAN, NEW l \in SUBSET AlertFields, NEW g \in Gathered,
         t \in Rests(Handling(t, c, a, l, g))
  PROVE  Changing(Handling(t, c, a, l, g))
  BY DEF Changing, Handling

LEMMA ChangeKinds ==
  ASSUME NEW c \in Changes
  PROVE  /\ c.of \in {"password", "hidden", "alert", "agents", "order", "cols"}
         /\ c.of = "password" => c.to \in Passwords
         /\ c.of = "hidden" => c.to \in BOOLEAN
         /\ c.of = "alert" => c.to \in [AlertFields -> AlertValues \cup {Unset}]
         /\ c.of = "agents" => c.id \in Agents
         /\ c.of = "order" => c.to \in Orders
         /\ c.of = "cols" => c.to \in 0 .. 1
  BY DEF Changes

LEMMA WritesFacts ==
  ASSUME NEW k \in Nat
  PROVE  /\ Writes(k) # << >>
         /\ Head(Writes(k)) = IF k = 0 THEN "mem" ELSE "db"
         /\ Tail(Writes(k)) = IF k = 0 THEN << >> ELSE Writes(k - 1)
  <1>1. PICK w : w = [i \in 1 .. k |-> "db"]
    OBVIOUS
  <1>2. w \in Seq({"db", "mem"}) /\ Len(w) = k /\ \A i \in 1 .. k : w[i] = "db"
    BY <1>1
  <1>3. PICK x : x = Writes(k)
    OBVIOUS
  <1>4. /\ x \in Seq({"db", "mem"}) /\ Len(x) = k + 1
        /\ \A i \in 1 .. k + 1 : x[i] = IF i = k + 1 THEN "mem" ELSE "db"
    <2>1. x = w \o <<"mem">>
      BY <1>1, <1>3 DEF Writes
    <2>2. QED
      BY <1>2, <2>1
  <1>5. x # << >> /\ Head(x) = IF k = 0 THEN "mem" ELSE "db"
    BY <1>4
  <1>6. CASE k = 0
    <2>1. Tail(x) \in Seq({"db", "mem"}) /\ Len(Tail(x)) = 0
      BY <1>4, <1>5, <1>6, HeadTailProperties
    <2>2. Tail(x) = << >>
      BY <2>1, EmptySeq
    <2>3. QED
      BY <1>3, <1>5, <1>6, <2>2
  <1>7. CASE k # 0
    <2>1. PICK v : v = [i \in 1 .. k - 1 |-> "db"]
      OBVIOUS
    <2>2. v \in Seq({"db", "mem"}) /\ Len(v) = k - 1 /\ \A i \in 1 .. k - 1 : v[i] = "db"
      BY <1>7, <2>1
    <2>3. PICK y : y = Writes(k - 1)
      OBVIOUS
    <2>4. y = v \o <<"mem">>
      BY <2>1, <2>3 DEF Writes
    <2>5. /\ y \in Seq({"db", "mem"}) /\ Len(y) = k
          /\ \A i \in 1 .. k : y[i] = IF i = k THEN "mem" ELSE "db"
      BY <1>7, <2>2, <2>4
    <2>6. Tail(x) = y
      BY <1>4, <1>7, <2>5
    <2>7. QED
      BY <1>3, <1>5, <1>7, <2>3, <2>6
  <1>8. QED
    BY <1>6, <1>7

(* Where a handler is, told by its next step.                              *)
LEMMA Points ==
  ASSUME NEW r, Changing(r)
  PROVE  /\ r.change.of = "alert" =>
                /\ r.todo = Writes(Cardinality(r.left))
                /\ Head(r.todo) = IF r.left = {} THEN "mem" ELSE "db"
         /\ Head(r.todo) = "db" =>
                \/ r.change.of = "password" /\ r.todo = <<"db", "mem", "issue">>
                \/ r.change.of = "hidden" /\ r.todo = <<"db", "mem">>
                \/ r.change.of = "agents" /\ r.todo = <<"db", "list", "swap">>
                \/ r.change.of = "alert"
         /\ Head(r.todo) = "mem" =>
                \/ r.change.of = "password" /\ r.todo = <<"mem", "issue">>
                \/ r.change.of = "hidden" /\ r.todo = <<"mem">>
                \/ r.change.of = "alert"
                \/ r.change.of = "order" /\ r.todo = <<"mem", "cols", "save">>
                \/ r.change.of = "cols" /\ r.todo = <<"mem", "order", "cols", "save">>
         /\ Head(r.todo) = "issue" => r.change.of = "password" /\ r.todo = <<"issue">>
         /\ Head(r.todo) = "list" => r.change.of = "agents" /\ r.todo = <<"list", "swap">>
         /\ Head(r.todo) = "swap" => r.change.of = "agents" /\ r.todo = <<"swap">>
         /\ Head(r.todo) = "order" => r.change.of = "cols" /\ r.todo = <<"order", "cols", "save">>
         /\ Head(r.todo) = "cols" => /\ r.change.of \in {"order", "cols"}
                                     /\ r.todo = <<"cols", "save">>
         /\ Head(r.todo) = "save" => /\ r.change.of \in {"order", "cols"}
                                     /\ r.todo = <<"save">>
  <1>1. r.change \in Changes /\ r.todo \in Rests(r) /\ r.left \subseteq AlertFields
    BY HandlingFacts
  <1>2. r.change.of \in {"password", "hidden", "alert", "agents", "order", "cols"}
    BY <1>1, ChangeKinds
  <1>3. CASE r.change.of = "password"
    BY <1>1, <1>3 DEF Rests
  <1>4. CASE r.change.of = "hidden"
    BY <1>1, <1>4 DEF Rests
  <1>5. CASE r.change.of = "alert"
    <2>1. IsFiniteSet(r.left) /\ Cardinality(r.left) \in Nat /\ (Cardinality(r.left) = 0 <=> r.left = {})
      BY <1>1, SettingsAssumption, FS_Subset, FS_CardinalityType, FS_EmptySet
    <2>2. r.todo = Writes(Cardinality(r.left))
      BY <1>1, <1>5 DEF Rests
    <2>3. Head(r.todo) = IF r.left = {} THEN "mem" ELSE "db"
      BY <2>1, <2>2, WritesFacts
    <2>4. QED
      BY <1>5, <2>2, <2>3
  <1>6. CASE r.change.of = "agents"
    BY <1>1, <1>6 DEF Rests
  <1>7. CASE r.change.of = "order"
    BY <1>1, <1>7 DEF Rests
  <1>8. CASE r.change.of = "cols"
    BY <1>1, <1>8 DEF Rests
  <1>9. QED
    BY <1>2, <1>3, <1>4, <1>5, <1>6, <1>7, <1>8

LEMMA GoOnContinues ==
  ASSUME DOMAIN stReq = Operators, NEW o \in Operators, NEW t, NEW c, NEW a, NEW l, NEW g,
         GoOn(o, Handling(t, c, a, l, g)), Tail(t) # << >>
  PROVE  Becomes(o, Handling(Tail(t), c, a, l, g)) /\ stMixed' = stMixed
  <1>1. PICK r : r = Handling(t, c, a, l, g)
    OBVIOUS
  <1>2. r.todo = t
    BY <1>1 DEF Handling
  <1>3. [r EXCEPT !.todo = Tail(t)] = Handling(Tail(t), c, a, l, g)
    <2>1. PICK u : u = Tail(t)
      OBVIOUS
    <2>2. [r EXCEPT !.todo = u] = Handling(u, c, a, l, g)
      BY <1>1 DEF Handling
    <2>3. QED
      BY <2>1, <2>2
  <1>4. GoOn(o, r)
    BY <1>1
  <1>5. stReq' = [stReq EXCEPT ![o] = Handling(Tail(t), c, a, l, g)] /\ stMixed' = stMixed
    BY <1>2, <1>3, <1>4 DEF GoOn
  <1>6. QED
    BY <1>5 DEF Becomes

LEMMA GoOnEnds ==
  ASSUME DOMAIN stReq = Operators, NEW o \in Operators, NEW r, GoOn(o, r), Tail(r.todo) = << >>
  PROVE  /\ Becomes(o, NoReq)
         /\ stMixed' = IF r.alone THEN stMixed \ {Setting(r.change)}
                       ELSE stMixed \cup {Setting(r.change)}
  <1>1. /\ stReq' = [stReq EXCEPT ![o] = NoReq]
        /\ stMixed' = IF r.alone THEN stMixed \ {Setting(r.change)}
                      ELSE stMixed \cup {Setting(r.change)}
    BY DEF GoOn
  <1>2. QED
    BY <1>1 DEF Becomes

LEMMA AppliedFacts ==
  ASSUME NEW c \in Changes, NEW k \in Kept
  PROVE  /\ Applied(c, k) \in Kept
         /\ \A x \in SettingNames \ {Setting(c)} : SameIn(x, k, Applied(c, k))
         /\ c.of = "password" => Applied(c, k).password = c.to
         /\ c.of = "hidden" => Applied(c, k).hidden = c.to
         /\ c.of = "alert" => Applied(c, k).alert = c.to
         /\ c.of = "order" => Applied(c, k).order = c.to /\ Applied(c, k).cols = k.cols
         /\ c.of = "cols" => Applied(c, k).cols = c.to /\ Applied(c, k).order = k.order
         /\ c.of # "agents" => Applied(c, k).agents = k.agents
         /\ c.of # "password" => Applied(c, k).password = k.password
  <1>1. /\ c.of \in {"password", "hidden", "alert", "agents", "order", "cols"}
        /\ c.of = "password" => c.to \in Passwords
        /\ c.of = "hidden" => c.to \in BOOLEAN
        /\ c.of = "alert" => c.to \in [AlertFields -> AlertValues \cup {Unset}]
        /\ c.of = "agents" => c.id \in Agents
        /\ c.of = "order" => c.to \in Orders
        /\ c.of = "cols" => c.to \in 0 .. 1
    BY ChangeKinds
  <1>2. CASE c.of = "password"
    <2>1. Applied(c, k) = [k EXCEPT !.password = c.to]
      BY <1>2 DEF Applied
    <2>2. QED
      BY <1>1, <1>2, <2>1 DEF Kept, SameIn, SettingNames, Setting
  <1>3. CASE c.of = "hidden"
    <2>1. Applied(c, k) = [k EXCEPT !.hidden = c.to]
      BY <1>3 DEF Applied
    <2>2. QED
      BY <1>1, <1>3, <2>1 DEF Kept, SameIn, SettingNames, Setting
  <1>4. CASE c.of = "alert"
    <2>1. Applied(c, k) = [k EXCEPT !.alert = c.to]
      BY <1>4 DEF Applied
    <2>2. QED
      BY <1>1, <1>4, <2>1 DEF Kept, SameIn, SettingNames, Setting
  <1>5. CASE c.of = "agents"
    <2>1. PICK as : as = IF c.add THEN k.agents \cup {c.id} ELSE k.agents \ {c.id}
      OBVIOUS
    <2>2. as \subseteq Agents \cup {Default}
      BY <1>1, <1>5, <2>1 DEF Kept
    <2>3. Applied(c, k) = [k EXCEPT !.agents = as]
      BY <1>5, <2>1 DEF Applied
    <2>4. QED
      BY <1>5, <2>2, <2>3 DEF Kept, SameIn, SettingNames, Setting
  <1>6. CASE c.of = "order"
    <2>1. Applied(c, k) = [k EXCEPT !.order = c.to]
      BY <1>6 DEF Applied
    <2>2. QED
      BY <1>1, <1>6, <2>1 DEF Kept, SameIn, SettingNames, Setting
  <1>7. CASE c.of = "cols"
    <2>1. Applied(c, k) = [k EXCEPT !.cols = c.to]
      BY <1>7 DEF Applied
    <2>2. QED
      BY <1>1, <1>7, <2>1 DEF Kept, SameIn, SettingNames, Setting
  <1>8. QED
    BY <1>1, <1>2, <1>3, <1>4, <1>5, <1>6, <1>7

-----------------------------------------------------------------------------
(* Each action of a handler moves its setting, and nothing else.           *)
LEMMA BreakOffFacts ==
  ASSUME DOMAIN stReq = Operators, NEW o \in Operators, NEW touched, BreakOff(o, touched)
  PROVE  Becomes(o, NoReq) /\ stMixed' = stMixed \cup touched
  BY DEF BreakOff, Becomes

LEMMA WriteMoves ==
  ASSUME StIInv, NEW o \in Operators, Write(o)
  PROVE  Steers(o) /\ UNCHANGED stMem
  <1> DEFINE r == stReq[o]
             c == r.change
             s == Setting(c)
  <1>1. DOMAIN stReq = Operators /\ stDB \in Kept /\ stMem \in Kept /\ Default \in stMem.agents
    BY DEF StIInv, StShaped
  <1>2. Changing(r) /\ Head(r.todo) = "db"
    BY DEF StIInv, StShaped, Write, At, Busy, LoggingIn
  <1>3. /\ r = Handling(r.todo, c, r.alone, r.left, r.got)
        /\ c \in Changes /\ r.alone \in BOOLEAN /\ r.left \subseteq AlertFields /\ r.got \in Gathered
    BY <1>2, HandlingFacts
  <1>4. /\ \/ c.of = "password" /\ r.todo = <<"db", "mem", "issue">>
           \/ c.of = "hidden" /\ r.todo = <<"db", "mem">>
           \/ c.of = "agents" /\ r.todo = <<"db", "list", "swap">>
           \/ c.of = "alert"
        /\ c.of = "alert" => r.todo = Writes(Cardinality(r.left)) /\ r.left # {}
    BY <1>2, Points
  <1>5. s \in SettingNames
    BY <1>2, SettingNamed
  <1>6. r.alone => DoneSoFar(r, stDB, stMem)
    BY <1>2 DEF StIInv, AloneHasDone
  <1>7. UNCHANGED stMem
    BY DEF Write
  <1> HIDE DEF r, c, s
  <1>8. CASE c.of = "alert" /\ \E f \in r.left : /\ stDB' = [stDB EXCEPT !.alert[f] = c.to[f]]
                                                 /\ GoOn(o, [r EXCEPT !.left = @ \ {f}])
    <2>1. PICK f \in r.left : /\ stDB' = [stDB EXCEPT !.alert[f] = c.to[f]]
                              /\ GoOn(o, [r EXCEPT !.left = @ \ {f}])
      BY <1>8
    <2> DEFINE q == Handling(Writes(Cardinality(r.left \ {f})), c, r.alone, r.left \ {f}, r.got)
    <2>2. PICK as : as = [stDB.alert EXCEPT ![f] = c.to[f]]
      OBVIOUS
    <2>3. as \in [AlertFields -> AlertValues \cup {Unset}] /\ as[f] = c.to[f]
          /\ \A g \in AlertFields \ {f} : as[g] = stDB.alert[g]
      BY <1>1, <1>3, <1>8, <2>2, ChangeKinds DEF Kept
    <2>4. stDB' = [stDB EXCEPT !.alert = as]
      BY <2>1, <2>2, Zenon
    <2>5. /\ stDB' \in Kept /\ stDB'.alert = as
          /\ \A x \in SettingNames \ {"alert"} : SameIn(x, stDB, stDB') /\ SameIn(x, stMem, stMem')
      BY <1>1, <1>7, <2>3, <2>4 DEF Kept, SameIn, SettingNames
    <2>6. PICK left : left = r.left \ {f}
      OBVIOUS
    <2>7. [r EXCEPT !.left = left] = Handling(r.todo, c, r.alone, left, r.got)
      BY <1>3 DEF Handling
    <2>8. GoOn(o, Handling(r.todo, c, r.alone, left, r.got))
      BY <2>1, <2>6, <2>7, Zenon
    <2>9. /\ Cardinality(r.left) \in Nat /\ Cardinality(r.left) # 0 /\ Cardinality(left) \in Nat
          /\ Cardinality(left) = Cardinality(r.left) - 1
      <3>1. IsFiniteSet(r.left) /\ IsFiniteSet(left)
        BY <1>3, <2>6, SettingsAssumption, FS_Subset
      <3>2. Cardinality(left) = Cardinality(r.left) - 1
        BY <2>6, <3>1, FS_RemoveElement
      <3>3. QED
        BY <1>4, <1>8, <3>1, <3>2, FS_CardinalityType, FS_EmptySet
    <2>10. Tail(r.todo) = Writes(Cardinality(left)) /\ Tail(r.todo) # << >>
      BY <1>4, <1>8, <2>9, WritesFacts
    <2>11. Becomes(o, q) /\ stMixed' = stMixed
      BY <1>1, <2>6, <2>8, <2>10, GoOnContinues
    <2>12. q.change = c /\ q.alone = r.alone /\ q.left = left /\ q.todo = Writes(Cardinality(left))
      BY <2>6 DEF Handling
    <2>13. Changing(q)
      <3>1. q.todo \in Rests(q)
        BY <1>8, <2>12 DEF Rests
      <3>2. left \in SUBSET AlertFields
        BY <1>3, <2>6
      <3>3. QED
        BY <1>3, <2>6, <2>12, <3>1, <3>2, IsChanging
    <2>14. Started(q)
      BY <1>3, <1>8, <2>6, <2>12 DEF Started
    <2>15. q.alone => DoneSoFar(q, stDB', stMem')
      <3>1. SUFFICES ASSUME r.alone, NEW g \in AlertFields \ left PROVE as[g] = c.to[g]
        BY <1>8, <2>5, <2>12 DEF DoneSoFar
      <3>2. CASE g = f
        BY <2>3, <3>2
      <3>3. CASE g # f
        <4>1. stDB.alert[g] = c.to[g]
          BY <1>6, <1>8, <2>6, <3>1, <3>3 DEF DoneSoFar, c
        <4>2. QED
          BY <2>3, <3>3, <4>1
      <3>4. QED
        BY <3>2, <3>3
    <2>16. Advances(o, q)
      BY <2>11, <2>12, <2>13, <2>14, <2>15 DEF Advances, r, c
    <2>17. s = "alert"
      BY <1>8 DEF s, Setting
    <2>18. Moves(o, s)
      BY <1>2, <2>5, <2>16, <2>17 DEF Moves, Untouched, r, c, s
    <2>19. QED
      BY <1>1, <1>5, <1>7, <2>5, <2>11, <2>13, <2>18 DEF Steers, Becomes
  <1>9. CASE c.of # "alert" /\ stDB' = Applied(c, stDB) /\ GoOn(o, r)
    <2> DEFINE q == Handling(Tail(r.todo), c, r.alone, r.left, r.got)
    <2>1. /\ \/ c.of = "password" /\ Tail(r.todo) = <<"mem", "issue">>
             \/ c.of = "hidden" /\ Tail(r.todo) = <<"mem">>
             \/ c.of = "agents" /\ Tail(r.todo) = <<"list", "swap">>
          /\ Tail(r.todo) # << >>
      <3>1. PICK t : t = r.todo
        OBVIOUS
      <3>2. CASE c.of = "password"
        <4>1. t = <<"db", "mem", "issue">>
          BY <1>4, <3>1, <3>2
        <4>2. Tail(t) = <<"mem", "issue">> /\ Tail(t) # << >>
          BY <4>1
        <4>3. QED
          BY <3>1, <3>2, <4>2
      <3>3. CASE c.of = "hidden"
        <4>1. t = <<"db", "mem">>
          BY <1>4, <3>1, <3>3
        <4>2. Tail(t) = <<"mem">> /\ Tail(t) # << >>
          BY <4>1
        <4>3. QED
          BY <3>1, <3>3, <4>2
      <3>4. CASE c.of = "agents"
        <4>1. t = <<"db", "list", "swap">>
          BY <1>4, <3>1, <3>4
        <4>2. Tail(t) = <<"list", "swap">> /\ Tail(t) # << >>
          BY <4>1
        <4>3. QED
          BY <3>1, <3>4, <4>2
      <3>5. QED
        BY <1>4, <1>9, <3>2, <3>3, <3>4
    <2>2. Becomes(o, q) /\ stMixed' = stMixed
      BY <1>1, <1>3, <1>9, <2>1, GoOnContinues
    <2>3. q.change = c /\ q.alone = r.alone /\ q.todo = Tail(r.todo)
      BY DEF Handling
    <2>4. Changing(q)
      <3>1. q.todo \in Rests(q)
        BY <2>1, <2>3 DEF Rests
      <3>2. QED
        BY <1>3, <2>3, <3>1, IsChanging
    <2>5. Started(q)
      BY <2>1, <2>3 DEF Started, Steps
    <2>6. q.alone => DoneSoFar(q, stDB', stMem')
      BY <1>1, <1>3, <1>9, <2>1, <2>3, AppliedFacts DEF DoneSoFar
    <2>7. stDB' \in Kept /\ \A x \in SettingNames \ {s} : Untouched(x)
      BY <1>1, <1>3, <1>7, <1>9, AppliedFacts DEF Untouched, SameIn, SettingNames, s
    <2>8. Advances(o, q)
      BY <2>2, <2>3, <2>4, <2>5, <2>6 DEF Advances, r, c
    <2>9. Moves(o, s)
      BY <1>2, <2>7, <2>8 DEF Moves, r, c, s
    <2>10. QED
      BY <1>1, <1>5, <1>7, <2>2, <2>4, <2>7, <2>9 DEF Steers, Becomes
  <1>10. CASE BreakOff(o, IF c.of = "alert" THEN {"alert"} ELSE {}) /\ UNCHANGED stDB
    <2>1. Becomes(o, NoReq) /\ stMixed' = stMixed \cup (IF c.of = "alert" THEN {"alert"} ELSE {})
      BY <1>1, <1>10, BreakOffFacts
    <2>2. c.of # "alert" => ~ Started(r)
      BY <1>4 DEF Started, Steps, c
    <2>3. BreaksOff(o, s)
      BY <1>7, <1>10, <2>1, <2>2 DEF BreaksOff, s, Setting, r
    <2>4. \A x \in SettingNames : Untouched(x)
      BY <1>7, <1>10 DEF Untouched, SameIn, SettingNames
    <2>5. Moves(o, s)
      BY <1>2, <2>3, <2>4 DEF Moves, r, c, s
    <2>6. QED
      BY <1>1, <1>5, <1>7, <1>10, <2>1, <2>5 DEF Steers, Becomes
  <1>11. QED
    BY <1>7, <1>8, <1>9, <1>10 DEF Write, r, c

(* What every handler's step starts from.                                  *)
LEMMA HandlerFacts ==
  ASSUME StIInv, NEW o \in Operators, Changing(stReq[o])
  PROVE  /\ DOMAIN stReq = Operators
         /\ stDB \in Kept /\ stMem \in Kept /\ Default \in stMem.agents
         /\ stReq[o] = Handling(stReq[o].todo, stReq[o].change, stReq[o].alone, stReq[o].left, stReq[o].got)
         /\ stReq[o].change \in Changes /\ stReq[o].alone \in BOOLEAN
         /\ stReq[o].left \in SUBSET AlertFields /\ stReq[o].got \in Gathered
         /\ Setting(stReq[o].change) \in SettingNames
         /\ stReq[o].alone => DoneSoFar(stReq[o], stDB, stMem)
  BY HandlingFacts, SettingNamed DEF StIInv, StShaped, AloneHasDone

(* A handler goes on with something gathered.                              *)
LEMMA GoesOn ==
  ASSUME StIInv, NEW o \in Operators, Changing(stReq[o]), NEW g \in Gathered, NEW t,
         NEW q, q = Handling(t, stReq[o].change, stReq[o].alone, stReq[o].left, g),
         Tail(stReq[o].todo) = t, t # << >>, t \in Rests(q), Started(q),
         GoOn(o, Handling(stReq[o].todo, stReq[o].change, stReq[o].alone, stReq[o].left, g)),
         stReq[o].alone => DoneSoFar(q, stDB', stMem'),
         stDB' \in Kept, stMem' \in Kept, Default \in stMem'.agents,
         \A x \in SettingNames \ {Setting(stReq[o].change)} : Untouched(x)
  PROVE  Steers(o)
  <1>1. /\ DOMAIN stReq = Operators /\ Setting(stReq[o].change) \in SettingNames
        /\ stReq[o].change \in Changes /\ stReq[o].alone \in BOOLEAN /\ stReq[o].left \in SUBSET AlertFields
    BY HandlerFacts
  <1>2. Becomes(o, q) /\ stMixed' = stMixed
    BY <1>1, GoOnContinues
  <1>3. q.change = stReq[o].change /\ q.alone = stReq[o].alone
    BY DEF Handling
  <1>4. Changing(q)
    BY <1>1, IsChanging
  <1>5. Advances(o, q)
    BY <1>2, <1>3, <1>4 DEF Advances
  <1>6. Moves(o, Setting(stReq[o].change))
    BY <1>5 DEF Moves
  <1>7. QED
    BY <1>1, <1>2, <1>4, <1>6 DEF Steers, Becomes

(* A handler takes its last step.                                          *)
LEMMA Ends ==
  ASSUME StIInv, NEW o \in Operators, Changing(stReq[o]), GoOn(o, stReq[o]),
         Tail(stReq[o].todo) = << >>,
         NEW s, s = Setting(stReq[o].change), stReq[o].alone => Agree(s)',
         stDB' \in Kept, stMem' \in Kept, Default \in stMem'.agents,
         \A x \in SettingNames \ {s} : Untouched(x)
  PROVE  Steers(o)
  <1>1. DOMAIN stReq = Operators /\ s \in SettingNames
    BY HandlerFacts
  <1>2. /\ Becomes(o, NoReq)
        /\ stMixed' = IF stReq[o].alone THEN stMixed \ {s} ELSE stMixed \cup {s}
    BY <1>1, GoOnEnds
  <1>3. Finishes(o, s)
    BY <1>2 DEF Finishes
  <1>4. Moves(o, s)
    BY <1>3 DEF Moves
  <1>5. QED
    BY <1>1, <1>2, <1>4 DEF Steers, Becomes

(* A handler breaks off, and leaves its setting to be put right.           *)
LEMMA LeavesMixed ==
  ASSUME StIInv, NEW o \in Operators, Changing(stReq[o]), BreakOff(o, {Setting(stReq[o].change)}),
         UNCHANGED <<stDB, stMem>>
  PROVE  Steers(o)
  <1>1. /\ DOMAIN stReq = Operators /\ Setting(stReq[o].change) \in SettingNames
        /\ stDB \in Kept /\ stMem \in Kept /\ Default \in stMem.agents
    BY HandlerFacts
  <1>2. Becomes(o, NoReq) /\ stMixed' = stMixed \cup {Setting(stReq[o].change)}
    BY <1>1, BreakOffFacts
  <1>3. BreaksOff(o, Setting(stReq[o].change))
    BY <1>2 DEF BreaksOff
  <1>4. \A x \in SettingNames : Untouched(x)
    BY DEF Untouched, SameIn, SettingNames
  <1>5. Moves(o, Setting(stReq[o].change))
    BY <1>3, <1>4 DEF Moves
  <1>6. QED
    BY <1>1, <1>2, <1>5 DEF Steers, Becomes

LEMMA RememberMoves ==
  ASSUME StIInv, NEW o \in Operators, Remember(o)
  PROVE  Steers(o)
  <1> DEFINE r == stReq[o]
             c == r.change
  <1>1. Changing(r) /\ Head(r.todo) = "mem"
    BY DEF StIInv, StShaped, Remember, At, Busy, LoggingIn
  <1>2. /\ stDB \in Kept /\ stMem \in Kept /\ Default \in stMem.agents
        /\ r = Handling(r.todo, c, r.alone, r.left, r.got)
        /\ c \in Changes /\ r.alone \in BOOLEAN /\ r.left \in SUBSET AlertFields /\ r.got \in Gathered
        /\ r.alone => DoneSoFar(r, stDB, stMem)
    BY <1>1, HandlerFacts
  <1>3. /\ \/ c.of = "password" /\ r.todo = <<"mem", "issue">>
           \/ c.of = "hidden" /\ r.todo = <<"mem">>
           \/ c.of = "alert" /\ r.todo = Writes(Cardinality(r.left)) /\ r.left = {}
           \/ c.of = "order" /\ r.todo = <<"mem", "cols", "save">>
           \/ c.of = "cols" /\ r.todo = <<"mem", "order", "cols", "save">>
    BY <1>1, Points
  <1>4. stMem' = Applied(c, stMem) /\ UNCHANGED stDB /\ GoOn(o, r)
    BY DEF Remember
  <1>5. /\ stDB' \in Kept /\ stMem' \in Kept /\ Default \in stMem'.agents
        /\ \A x \in SettingNames \ {Setting(c)} : Untouched(x)
    <2>1. stMem' \in Kept /\ stMem'.agents = stMem.agents
      BY <1>2, <1>3, <1>4, AppliedFacts
    <2>2. \A x \in SettingNames \ {Setting(c)} : SameIn(x, stMem, stMem') /\ SameIn(x, stDB, stDB')
      BY <1>2, <1>4, AppliedFacts DEF SameIn, SettingNames
    <2>3. QED
      BY <1>2, <1>4, <2>1, <2>2 DEF Untouched
  <1> HIDE DEF r, c
  <1>6. CASE c.of = "password" /\ r.todo = <<"mem", "issue">>
    <2> DEFINE q == Handling(<<"issue">>, c, r.alone, r.left, r.got)
    <2>1. q.change = c /\ q.todo = <<"issue">>
      BY DEF Handling
    <2>2. q.todo \in Rests(q) /\ Started(q)
      BY <1>6, <2>1 DEF Rests, Started, Steps
    <2>3. stMem'.password = c.to
      BY <1>2, <1>4, <1>6, AppliedFacts
    <2>4. r.alone => DoneSoFar(q, stDB', stMem')
      <3>1. r.alone => stDB.password = c.to
        BY <1>2, <1>6 DEF DoneSoFar, c
      <3>2. QED
        BY <1>4, <1>6, <2>1, <2>3, <3>1 DEF DoneSoFar
    <2>5. Tail(r.todo) = <<"issue">> /\ <<"issue">> # << >>
      <3>1. PICK t : t = r.todo
        OBVIOUS
      <3>2. Tail(t) = <<"issue">>
        BY <1>6, <3>1
      <3>3. QED
        BY <3>1, <3>2
    <2>6. QED
      BY <1>1, <1>2, <1>4, <1>5, <2>1, <2>2, <2>4, <2>5, GoesOn DEF r, c
  <1>7. CASE c.of = "hidden" /\ r.todo = <<"mem">>
    <2>1. r.alone => stDB.hidden = c.to
      BY <1>2, <1>7 DEF DoneSoFar, c
    <2>2. stMem'.hidden = c.to
      BY <1>2, <1>4, <1>7, AppliedFacts
    <2>3. r.alone => Agree("hidden")'
      BY <1>4, <2>1, <2>2 DEF Agree
    <2>4. Tail(r.todo) = << >>
      BY <1>7
    <2>5. Setting(c) = "hidden"
      BY <1>7 DEF Setting
    <2>6. QED
      BY <1>1, <1>4, <1>5, <2>3, <2>4, <2>5, Ends DEF r, c
  <1>8. CASE c.of = "alert" /\ r.todo = Writes(Cardinality(r.left)) /\ r.left = {}
    <2>1. r.alone => \A f \in AlertFields : stDB.alert[f] = c.to[f]
      BY <1>2, <1>8 DEF DoneSoFar, c
    <2>2. stMem'.alert = c.to
      BY <1>2, <1>4, <1>8, AppliedFacts
    <2>3. r.alone => Agree("alert")'
      BY <1>4, <2>1, <2>2 DEF Agree
    <2>4. Tail(r.todo) = << >>
      <3>1. r.todo = Writes(0)
        BY <1>8, FS_EmptySet
      <3>2. Tail(Writes(0)) = << >>
        BY WritesFacts
      <3>3. QED
        BY <3>1, <3>2
    <2>5. Setting(c) = "alert"
      BY <1>8 DEF Setting
    <2>6. QED
      BY <1>1, <1>4, <1>5, <2>3, <2>4, <2>5, Ends DEF r, c
  <1>9. CASE c.of = "order" /\ r.todo = <<"mem", "cols", "save">>
    <2> DEFINE q == Handling(<<"cols", "save">>, c, r.alone, r.left, r.got)
    <2>1. q.change = c /\ q.todo = <<"cols", "save">>
      BY DEF Handling
    <2>2. q.todo \in Rests(q) /\ Started(q)
      BY <1>9, <2>1 DEF Rests, Started, Steps
    <2>3. stMem'.order = c.to
      BY <1>2, <1>4, <1>9, AppliedFacts
    <2>4. DoneSoFar(q, stDB', stMem')
      BY <1>9, <2>1, <2>3 DEF DoneSoFar
    <2>5. Tail(r.todo) = <<"cols", "save">> /\ <<"cols", "save">> # << >>
      <3>1. PICK t : t = r.todo
        OBVIOUS
      <3>2. Tail(t) = <<"cols", "save">>
        BY <1>9, <3>1
      <3>3. QED
        BY <3>1, <3>2
    <2>6. QED
      BY <1>1, <1>2, <1>4, <1>5, <2>1, <2>2, <2>4, <2>5, GoesOn DEF r, c
  <1>10. CASE c.of = "cols" /\ r.todo = <<"mem", "order", "cols", "save">>
    <2> DEFINE q == Handling(<<"order", "cols", "save">>, c, r.alone, r.left, r.got)
    <2>1. q.change = c /\ q.todo = <<"order", "cols", "save">>
      BY DEF Handling
    <2>2. q.todo \in Rests(q) /\ Started(q)
      BY <1>10, <2>1 DEF Rests, Started, Steps
    <2>3. DoneSoFar(q, stDB', stMem')
      BY <1>10, <2>1 DEF DoneSoFar
    <2>4. Tail(r.todo) = <<"order", "cols", "save">> /\ <<"order", "cols", "save">> # << >>
      <3>1. PICK t : t = r.todo
        OBVIOUS
      <3>2. Tail(t) = <<"order", "cols", "save">>
        BY <1>10, <3>1
      <3>3. QED
        BY <3>1, <3>2
    <2>5. QED
      BY <1>1, <1>2, <1>4, <1>5, <2>1, <2>2, <2>3, <2>4, GoesOn DEF r, c
  <1>11. QED
    BY <1>3, <1>6, <1>7, <1>8, <1>9, <1>10 DEF r, c

Got(order, cols, agents) == [order |-> order, cols |-> cols, agents |-> agents]

LEMMA GotAgents ==
  ASSUME NEW r, NEW t, NEW c, NEW a, NEW l, NEW g \in Gathered, r = Handling(t, c, a, l, g), NEW x
  PROVE  [r EXCEPT !.got.agents = x] = Handling(t, c, a, l, Got(g.order, g.cols, x))
  <1>1. PICK h : h = [g EXCEPT !.agents = x]
    OBVIOUS
  <1>2. h = Got(g.order, g.cols, x)
    BY <1>1 DEF Gathered, Got
  <1>3. r.got = g
    BY DEF Handling
  <1>4. [r EXCEPT !.got = h] = Handling(t, c, a, l, h)
    BY DEF Handling
  <1>5. [r EXCEPT !.got.agents = x] = [r EXCEPT !.got = [r.got EXCEPT !.agents = x]]
    OBVIOUS
  <1>6. QED
    BY <1>1, <1>2, <1>3, <1>4, <1>5

LEMMA GotOrder ==
  ASSUME NEW r, NEW t, NEW c, NEW a, NEW l, NEW g \in Gathered, r = Handling(t, c, a, l, g), NEW x
  PROVE  [r EXCEPT !.got.order = x] = Handling(t, c, a, l, Got(x, g.cols, g.agents))
  <1>1. PICK h : h = [g EXCEPT !.order = x]
    OBVIOUS
  <1>2. h = Got(x, g.cols, g.agents)
    BY <1>1 DEF Gathered, Got
  <1>3. r.got = g
    BY DEF Handling
  <1>4. [r EXCEPT !.got = h] = Handling(t, c, a, l, h)
    BY DEF Handling
  <1>5. [r EXCEPT !.got.order = x] = [r EXCEPT !.got = [r.got EXCEPT !.order = x]]
    OBVIOUS
  <1>6. QED
    BY <1>1, <1>2, <1>3, <1>4, <1>5

LEMMA GotCols ==
  ASSUME NEW r, NEW t, NEW c, NEW a, NEW l, NEW g \in Gathered, r = Handling(t, c, a, l, g), NEW x
  PROVE  [r EXCEPT !.got.cols = x] = Handling(t, c, a, l, Got(g.order, x, g.agents))
  <1>1. PICK h : h = [g EXCEPT !.cols = x]
    OBVIOUS
  <1>2. h = Got(g.order, x, g.agents)
    BY <1>1 DEF Gathered, Got
  <1>3. r.got = g
    BY DEF Handling
  <1>4. [r EXCEPT !.got = h] = Handling(t, c, a, l, h)
    BY DEF Handling
  <1>5. [r EXCEPT !.got.cols = x] = [r EXCEPT !.got = [r.got EXCEPT !.cols = x]]
    OBVIOUS
  <1>6. QED
    BY <1>1, <1>2, <1>3, <1>4, <1>5

LEMMA IssueMoves ==
  ASSUME StIInv, NEW o \in Operators, IssueDashCookie(o), stReq[o] # LoggingIn
  PROVE  Steers(o)
  <1> DEFINE r == stReq[o]
             c == r.change
  <1>1. Changing(r) /\ Head(r.todo) = "issue"
    BY DEF StIInv, StShaped, IssueDashCookie, At, Busy, LoggingIn
  <1>2. /\ stDB \in Kept /\ stMem \in Kept /\ Default \in stMem.agents
        /\ r = Handling(r.todo, c, r.alone, r.left, r.got)
        /\ c \in Changes /\ r.alone \in BOOLEAN /\ r.left \in SUBSET AlertFields /\ r.got \in Gathered
        /\ r.alone => DoneSoFar(r, stDB, stMem)
    BY <1>1, HandlerFacts
  <1>3. c.of = "password" /\ r.todo = <<"issue">>
    BY <1>1, Points
  <1>4. GoOn(o, r) /\ UNCHANGED <<stDB, stMem>>
    BY DEF IssueDashCookie
  <1> HIDE DEF r, c
  <1>5. \A x \in SettingNames : Untouched(x)
    BY <1>4 DEF Untouched, SameIn, SettingNames
  <1>6. r.alone => stDB.password = c.to /\ stMem.password = c.to
    BY <1>2, <1>3 DEF DoneSoFar, c
  <1>7. r.alone => Agree("password")'
    BY <1>4, <1>6 DEF Agree
  <1>8. Tail(r.todo) = << >> /\ Setting(c) = "password"
    BY <1>3 DEF Setting
  <1>9. QED
    BY <1>1, <1>2, <1>4, <1>5, <1>7, <1>8, Ends DEF r, c

LEMMA ReloadListsMoves ==
  ASSUME StIInv, NEW o \in Operators, ReloadLists(o)
  PROVE  Steers(o)
  <1> DEFINE r == stReq[o]
             c == r.change
  <1>1. Changing(r) /\ Head(r.todo) = "list"
    BY DEF StIInv, StShaped, ReloadLists, At, Busy, LoggingIn
  <1>2. /\ stDB \in Kept /\ stMem \in Kept /\ Default \in stMem.agents
        /\ r = Handling(r.todo, c, r.alone, r.left, r.got)
        /\ c \in Changes /\ r.alone \in BOOLEAN /\ r.left \in SUBSET AlertFields /\ r.got \in Gathered
        /\ r.alone => DoneSoFar(r, stDB, stMem)
    BY <1>1, HandlerFacts
  <1>3. c.of = "agents" /\ r.todo = <<"list", "swap">>
    BY <1>1, Points
  <1>4. UNCHANGED <<stDB, stMem>>
    BY DEF ReloadLists
  <1>5. \A x \in SettingNames : Untouched(x)
    BY <1>4 DEF Untouched, SameIn, SettingNames
  <1>6. GoOn(o, [r EXCEPT !.got.agents = stDB.agents]) \/ BreakOff(o, {"agents"})
    BY DEF ReloadLists
  <1> HIDE DEF r, c
  <1>7. CASE GoOn(o, [r EXCEPT !.got.agents = stDB.agents])
    <2> DEFINE g == Got(r.got.order, r.got.cols, stDB.agents)
               q == Handling(<<"swap">>, c, r.alone, r.left, g)
    <2>1. g \in Gathered /\ g.agents = stDB.agents
      BY <1>2 DEF Gathered, Got, Kept
    <2>2. GoOn(o, Handling(r.todo, c, r.alone, r.left, g))
      BY <1>2, <1>7, GotAgents
    <2> HIDE DEF g
    <2>3. q.change = c /\ q.todo = <<"swap">> /\ q.got = g
      BY DEF Handling
    <2>4. q.todo \in Rests(q) /\ Started(q)
      BY <1>3, <2>3 DEF Rests, Started, Steps
    <2>5. DoneSoFar(q, stDB', stMem')
      BY <1>3, <1>4, <2>1, <2>3 DEF DoneSoFar
    <2>6. Tail(r.todo) = <<"swap">> /\ <<"swap">> # << >>
      <3>1. PICK t : t = r.todo
        OBVIOUS
      <3>2. Tail(t) = <<"swap">>
        BY <1>3, <3>1
      <3>3. QED
        BY <3>1, <3>2
    <2>7. QED
      BY <1>1, <1>2, <1>4, <1>5, <2>1, <2>2, <2>3, <2>4, <2>5, <2>6, GoesOn DEF r, c
  <1>8. CASE BreakOff(o, {"agents"})
    <2>1. Setting(c) = "agents"
      BY <1>3 DEF Setting
    <2>2. QED
      BY <1>1, <1>4, <1>8, <2>1, LeavesMixed DEF r, c
  <1>9. QED
    BY <1>6, <1>7, <1>8

LEMMA ReloadSwapsMoves ==
  ASSUME StIInv, NEW o \in Operators, ReloadSwaps(o)
  PROVE  Steers(o) /\ stMem'.password = stMem.password
  <1> DEFINE r == stReq[o]
             c == r.change
  <1>1. Changing(r) /\ Head(r.todo) = "swap"
    BY DEF StIInv, StShaped, ReloadSwaps, At, Busy, LoggingIn
  <1>2. /\ stDB \in Kept /\ stMem \in Kept /\ Default \in stMem.agents
        /\ r = Handling(r.todo, c, r.alone, r.left, r.got)
        /\ c \in Changes /\ r.alone \in BOOLEAN /\ r.left \in SUBSET AlertFields /\ r.got \in Gathered
        /\ r.alone => DoneSoFar(r, stDB, stMem)
    BY <1>1, HandlerFacts
  <1>3. c.of = "agents" /\ r.todo = <<"swap">>
    BY <1>1, Points
  <1>4. GoOn(o, r) /\ UNCHANGED stDB
    BY DEF ReloadSwaps
  <1>5. PICK as : as = (stMem.agents \cap {Default}) \cup r.got.agents
    OBVIOUS
  <1>6. stMem' = [stMem EXCEPT !.agents = as]
    BY <1>5 DEF ReloadSwaps
  <1> HIDE DEF r, c
  <1>7. as \in SUBSET (Agents \cup {Default}) /\ Default \in as
    BY <1>2, <1>5 DEF Gathered, Kept
  <1>8. /\ stMem' \in Kept /\ stMem'.agents = as /\ stMem'.password = stMem.password
        /\ \A x \in SettingNames \ {"agents"} : SameIn(x, stMem, stMem')
    BY <1>2, <1>6, <1>7 DEF Kept, SameIn, SettingNames
  <1>9. \A x \in SettingNames \ {"agents"} : Untouched(x)
    BY <1>4, <1>8 DEF Untouched, SameIn, SettingNames
  <1>10. r.alone => r.got.agents = stDB.agents
    BY <1>2, <1>3 DEF DoneSoFar, c
  <1>11. as = r.got.agents \cup {Default}
    BY <1>2, <1>5
  <1>12. r.alone => Agree("agents")'
    BY <1>4, <1>8, <1>10, <1>11 DEF Agree
  <1>13. Tail(r.todo) = << >> /\ Setting(c) = "agents"
    BY <1>3 DEF Setting
  <1>14. QED
    BY <1>1, <1>2, <1>4, <1>7, <1>8, <1>9, <1>12, <1>13, Ends DEF r, c

LEMMA TakesOrderMoves ==
  ASSUME StIInv, NEW o \in Operators, TakesOrder(o)
  PROVE  Steers(o)
  <1> DEFINE r == stReq[o]
             c == r.change
  <1>1. Changing(r) /\ Head(r.todo) = "order"
    BY DEF StIInv, StShaped, TakesOrder, At, Busy, LoggingIn
  <1>2. /\ stDB \in Kept /\ stMem \in Kept /\ Default \in stMem.agents
        /\ r = Handling(r.todo, c, r.alone, r.left, r.got)
        /\ c \in Changes /\ r.alone \in BOOLEAN /\ r.left \in SUBSET AlertFields /\ r.got \in Gathered
        /\ r.alone => DoneSoFar(r, stDB, stMem)
    BY <1>1, HandlerFacts
  <1>3. c.of = "cols" /\ r.todo = <<"order", "cols", "save">>
    BY <1>1, Points
  <1>4. UNCHANGED <<stDB, stMem>>
    BY DEF TakesOrder
  <1>5. \A x \in SettingNames : Untouched(x)
    BY <1>4 DEF Untouched, SameIn, SettingNames
  <1>6. GoOn(o, [r EXCEPT !.got.order = stMem.order])
    BY DEF TakesOrder
  <1> HIDE DEF r, c
  <1> DEFINE g == Got(stMem.order, r.got.cols, r.got.agents)
             q == Handling(<<"cols", "save">>, c, r.alone, r.left, g)
  <1>7. g \in Gathered /\ g.order = stMem.order
    BY <1>2 DEF Gathered, Got, Kept
  <1>8. GoOn(o, Handling(r.todo, c, r.alone, r.left, g))
    BY <1>2, <1>6, GotOrder
  <1> HIDE DEF g
  <1>9. q.change = c /\ q.todo = <<"cols", "save">> /\ q.got = g
    BY DEF Handling
  <1>10. q.todo \in Rests(q) /\ Started(q)
    BY <1>3, <1>9 DEF Rests, Started, Steps
  <1>11. DoneSoFar(q, stDB', stMem')
    BY <1>3, <1>4, <1>7, <1>9 DEF DoneSoFar
  <1>12. Tail(r.todo) = <<"cols", "save">> /\ <<"cols", "save">> # << >>
    <2>1. PICK t : t = r.todo
      OBVIOUS
    <2>2. Tail(t) = <<"cols", "save">>
      BY <1>3, <2>1
    <2>3. QED
      BY <2>1, <2>2
  <1>13. QED
    BY <1>1, <1>2, <1>4, <1>5, <1>7, <1>8, <1>9, <1>10, <1>11, <1>12, GoesOn DEF r, c

LEMMA TakesColsMoves ==
  ASSUME StIInv, NEW o \in Operators, TakesCols(o)
  PROVE  Steers(o)
  <1> DEFINE r == stReq[o]
             c == r.change
  <1>1. Changing(r) /\ Head(r.todo) = "cols"
    BY DEF StIInv, StShaped, TakesCols, At, Busy, LoggingIn
  <1>2. /\ stDB \in Kept /\ stMem \in Kept /\ Default \in stMem.agents
        /\ r = Handling(r.todo, c, r.alone, r.left, r.got)
        /\ c \in Changes /\ r.alone \in BOOLEAN /\ r.left \in SUBSET AlertFields /\ r.got \in Gathered
        /\ r.alone => DoneSoFar(r, stDB, stMem)
    BY <1>1, HandlerFacts
  <1>3. c.of \in {"order", "cols"} /\ r.todo = <<"cols", "save">>
    BY <1>1, Points
  <1>4. UNCHANGED <<stDB, stMem>>
    BY DEF TakesCols
  <1>5. \A x \in SettingNames : Untouched(x)
    BY <1>4 DEF Untouched, SameIn, SettingNames
  <1>6. PICK order : order = IF c.of = "order" THEN c.to ELSE r.got.order
    OBVIOUS
  <1>7. GoOn(o, [r EXCEPT !.got.order = order, !.got.cols = stMem.cols])
    BY <1>6 DEF TakesCols
  <1>8. order \in Orders \cup {<< >>} /\ (c.of = "order" => order = c.to)
    BY <1>2, <1>3, <1>6, ChangeKinds DEF Gathered
  <1>9. r.alone /\ c.of = "cols" => order = stMem.order
    BY <1>2, <1>3, <1>6 DEF DoneSoFar
  <1>10. r.alone /\ c.of = "order" => stMem.order = c.to
    BY <1>2, <1>3 DEF DoneSoFar
  <1> HIDE DEF r, c
  <1> DEFINE g == Got(order, stMem.cols, r.got.agents)
             q == Handling(<<"save">>, c, r.alone, r.left, g)
  <1>11. g \in Gathered /\ g.order = order /\ g.cols = stMem.cols
    BY <1>2, <1>8 DEF Gathered, Got, Kept
  <1>12. GoOn(o, Handling(r.todo, c, r.alone, r.left, g))
    <2>1. PICK v : v = [r EXCEPT !.got.order = order]
      OBVIOUS
    <2>2. v = Handling(r.todo, c, r.alone, r.left, Got(order, r.got.cols, r.got.agents))
      BY <1>2, <2>1, GotOrder
    <2>3. Got(order, r.got.cols, r.got.agents) \in Gathered
      BY <1>2, <1>8 DEF Gathered, Got
    <2>4. [v EXCEPT !.got.cols = stMem.cols] = Handling(r.todo, c, r.alone, r.left, g)
      <3>1. PICK h : h = Got(order, r.got.cols, r.got.agents)
        OBVIOUS
      <3>2. h \in Gathered /\ h.order = order /\ h.agents = r.got.agents
        BY <2>3, <3>1 DEF Got
      <3>3. v = Handling(r.todo, c, r.alone, r.left, h)
        BY <2>2, <3>1
      <3>4. [v EXCEPT !.got.cols = stMem.cols]
              = Handling(r.todo, c, r.alone, r.left, Got(h.order, stMem.cols, h.agents))
        BY <3>2, <3>3, GotCols
      <3>5. QED
        BY <3>2, <3>4
    <2>5. QED
      BY <1>7, <2>1, <2>4
  <1> HIDE DEF g
  <1>13. q.change = c /\ q.todo = <<"save">> /\ q.got = g
    BY DEF Handling
  <1>14. q.todo \in Rests(q) /\ Started(q)
    BY <1>3, <1>13 DEF Rests, Started, Steps
  <1>15. r.alone => DoneSoFar(q, stDB', stMem')
    BY <1>3, <1>4, <1>8, <1>9, <1>10, <1>11, <1>13 DEF DoneSoFar
  <1>16. Tail(r.todo) = <<"save">> /\ <<"save">> # << >>
    <2>1. PICK t : t = r.todo
      OBVIOUS
    <2>2. Tail(t) = <<"save">>
      BY <1>3, <2>1
    <2>3. QED
      BY <2>1, <2>2
  <1>17. QED
    BY <1>1, <1>2, <1>4, <1>5, <1>11, <1>12, <1>13, <1>14, <1>15, <1>16, GoesOn DEF r, c

LEMMA SaveMoves ==
  ASSUME StIInv, NEW o \in Operators, SaveWallLayout(o)
  PROVE  Steers(o)
  <1> DEFINE r == stReq[o]
             c == r.change
  <1>1. Changing(r) /\ Head(r.todo) = "save"
    BY DEF StIInv, StShaped, SaveWallLayout, At, Busy, LoggingIn
  <1>2. /\ stDB \in Kept /\ stMem \in Kept /\ Default \in stMem.agents
        /\ r = Handling(r.todo, c, r.alone, r.left, r.got)
        /\ c \in Changes /\ r.alone \in BOOLEAN /\ r.left \in SUBSET AlertFields /\ r.got \in Gathered
        /\ r.alone => DoneSoFar(r, stDB, stMem)
    BY <1>1, HandlerFacts
  <1>3. c.of \in {"order", "cols"} /\ r.todo = <<"save">>
    BY <1>1, Points
  <1>4. UNCHANGED stMem
    BY DEF SaveWallLayout
  <1>5. \/ stDB' = [stDB EXCEPT !.order = r.got.order, !.cols = r.got.cols] /\ GoOn(o, r)
        \/ BreakOff(o, {"order"}) /\ UNCHANGED stDB
    BY DEF SaveWallLayout
  <1> HIDE DEF r, c
  <1>6. Setting(c) = "order"
    BY <1>3 DEF Setting
  <1>7. CASE stDB' = [stDB EXCEPT !.order = r.got.order, !.cols = r.got.cols] /\ GoOn(o, r)
    <2>1. r.got.order \in Orders \cup {<< >>} /\ r.got.cols \in 0 .. 1
      BY <1>2 DEF Gathered
    <2>2. /\ stDB' \in Kept /\ stDB'.order = r.got.order /\ stDB'.cols = r.got.cols
          /\ \A x \in SettingNames \ {"order"} : SameIn(x, stDB, stDB')
      BY <1>2, <1>7, <2>1 DEF Kept, SameIn, SettingNames
    <2>3. \A x \in SettingNames \ {"order"} : Untouched(x)
      BY <1>4, <2>2 DEF Untouched, SameIn, SettingNames
    <2>4. r.alone => r.got.order = stMem.order /\ r.got.cols = stMem.cols
      BY <1>2, <1>3 DEF DoneSoFar, c
    <2>5. r.alone => Agree("order")'
      BY <1>4, <2>2, <2>4 DEF Agree
    <2>6. Tail(r.todo) = << >>
      BY <1>3
    <2>7. QED
      BY <1>1, <1>2, <1>4, <1>6, <1>7, <2>2, <2>3, <2>5, <2>6, Ends DEF r, c
  <1>8. CASE BreakOff(o, {"order"}) /\ UNCHANGED stDB
    BY <1>1, <1>4, <1>6, <1>8, LeavesMixed DEF r, c
  <1>9. QED
    BY <1>5, <1>7, <1>8

-----------------------------------------------------------------------------
(* A step of a handler that keeps the password in memory and the cookies.  *)
LEMMA ChangerKept ==
  ASSUME StIInv, NEW o \in Operators, Steers(o), stReq[o].todo # <<"issue">>,
         stMem'.password = stMem.password, UNCHANGED <<stCookie, stChanger>>
  PROVE  ChangerGetsCookie'
  <1> SUFFICES ASSUME NEW p \in Operators, stChanger = p
               PROVE  \/ stCookie[p] = Unset \/ AuthedDashboard(p)'
                      \/ stReq'[p] # NoReq /\ stReq'[p].todo = <<"issue">>
    BY DEF ChangerGetsCookie, Busy
  <1>1. \/ stCookie[p] = Unset \/ AuthedDashboard(p)
        \/ stReq[p] # NoReq /\ stReq[p].todo = <<"issue">>
    BY DEF StIInv, ChangerGetsCookie, Busy
  <1>2. AuthedDashboard(p) => AuthedDashboard(p)'
    BY DEF AuthedDashboard, EffectiveDashToken
  <1>3. p # o => stReq'[p] = stReq[p]
    BY DEF Steers
  <1>4. QED
    BY <1>1, <1>2, <1>3

LEMMA SteersIInv ==
  ASSUME StIInv, NEW o \in Operators, Steers(o), DOMAIN stCookie' = Operators, ChangerGetsCookie'
  PROVE  StIInv'
  <1>1. AloneIsAlone' /\ AloneHasDone' /\ Settled' /\ stMixed' \subseteq SettingNames
    BY MovesKeeps DEF Steers
  <1>2. \A p \in Operators : stReq'[p] = NoReq \/ stReq'[p] = LoggingIn \/ Changing(stReq'[p])
    BY DEF StIInv, StShaped, Steers
  <1>3. /\ stDB' \in Kept /\ stMem' \in Kept /\ Default \in stMem'.agents
        /\ DOMAIN stReq' = Operators
    BY DEF Steers
  <1>4. StShaped'
    BY <1>1, <1>2, <1>3 DEF StShaped, Changing, Rests, Gathered, Kept
  <1>5. QED
    BY <1>1, <1>4 DEF StIInv

(* The steps of a handler that changes a setting, but for the cookie.      *)
LEMMA HandlerIInv ==
  ASSUME StIInv, NEW o \in Operators,
         \/ Write(o) \/ Remember(o) \/ ReloadLists(o)
         \/ ReloadSwaps(o) \/ TakesOrder(o) \/ TakesCols(o) \/ SaveWallLayout(o)
  PROVE  StIInv'
  <1>1. DOMAIN stCookie = Operators /\ stMem \in Kept
    BY DEF StIInv, StShaped
  <1>2. ASSUME Steers(o), NEW step, step # "issue", At(o, step),
               stMem'.password = stMem.password, UNCHANGED <<stCookie, stChanger>>
        PROVE  StIInv'
    <2>1. stReq[o].todo # <<"issue">>
      <3>1. Head(<<"issue">>) = "issue"
        OBVIOUS
      <3>2. Head(stReq[o].todo) = step
        BY <1>2 DEF At
      <3>3. QED
        BY <1>2, <3>1, <3>2
    <2>2. ChangerGetsCookie'
      BY <1>2, <2>1, ChangerKept
    <2>3. QED
      BY <1>1, <1>2, <2>2, SteersIInv
  <1>3. CASE Write(o)
    <2>1. Steers(o) /\ UNCHANGED stMem
      BY <1>3, WriteMoves
    <2>2. At(o, "db") /\ UNCHANGED <<stCookie, stChanger>>
      BY <1>3 DEF Write
    <2>3. QED
      BY <1>2, <2>1, <2>2
  <1>4. CASE Remember(o)
    <2>1. Steers(o)
      BY <1>4, RememberMoves
    <2>2. At(o, "mem") /\ UNCHANGED stCookie /\ Changing(stReq[o]) /\ Head(stReq[o].todo) = "mem"
      BY <1>4 DEF StIInv, StShaped, Remember, At, Busy, LoggingIn
    <2>3. CASE stReq[o].change.of # "password"
      <3>1. stReq[o].change \in Changes
        BY <2>2, HandlerFacts
      <3>2. stMem' = Applied(stReq[o].change, stMem) /\ stChanger' = stChanger
        BY <1>4, <2>3 DEF Remember
      <3>3. stMem'.password = stMem.password
        BY <1>1, <2>3, <3>1, <3>2, AppliedFacts
      <3>4. QED
        BY <1>2, <2>1, <2>2, <3>2, <3>3
    <2>4. CASE stReq[o].change.of = "password"
      <3>1. stReq[o].todo = <<"mem", "issue">>
        BY <2>2, <2>4, Points
      <3>2. stChanger' = o /\ GoOn(o, stReq[o])
        BY <1>4, <2>4 DEF Remember
      <3>3. /\ DOMAIN stReq = Operators
            /\ stReq[o] = Handling(stReq[o].todo, stReq[o].change, stReq[o].alone, stReq[o].left, stReq[o].got)
        BY <2>2, HandlerFacts
      <3>4. Tail(stReq[o].todo) = <<"issue">> /\ <<"issue">> # << >>
        <4>1. PICK t : t = stReq[o].todo
          OBVIOUS
        <4>2. Tail(t) = <<"issue">>
          BY <3>1, <4>1
        <4>3. QED
          BY <4>1, <4>2
      <3>5. stReq'[o] = Handling(<<"issue">>, stReq[o].change, stReq[o].alone, stReq[o].left, stReq[o].got)
        <4>1. PICK t, c, a, l, g : /\ t = stReq[o].todo /\ c = stReq[o].change /\ a = stReq[o].alone
                                   /\ l = stReq[o].left /\ g = stReq[o].got
          OBVIOUS
        <4>2. GoOn(o, Handling(t, c, a, l, g)) /\ Tail(t) = <<"issue">>
          BY <3>2, <3>3, <3>4, <4>1
        <4>3. Becomes(o, Handling(<<"issue">>, c, a, l, g))
          BY <3>3, <3>4, <4>2, GoOnContinues
        <4>4. QED
          BY <4>1, <4>3 DEF Becomes
      <3>6. stReq'[o].todo = <<"issue">> /\ stReq'[o] # NoReq
        BY <3>5 DEF Handling, NoReq
      <3>7. ChangerGetsCookie'
        BY <3>2, <3>6 DEF ChangerGetsCookie, Busy
      <3>8. QED
        BY <1>1, <2>1, <2>2, <3>7, SteersIInv
    <2>5. QED
      BY <2>3, <2>4
  <1>5. CASE ReloadLists(o)
    <2>1. Steers(o)
      BY <1>5, ReloadListsMoves
    <2>2. At(o, "list") /\ UNCHANGED <<stCookie, stChanger, stMem>>
      BY <1>5 DEF ReloadLists
    <2>3. QED
      BY <1>2, <2>1, <2>2
  <1>6. CASE ReloadSwaps(o)
    <2>1. Steers(o) /\ stMem'.password = stMem.password
      BY <1>6, ReloadSwapsMoves
    <2>2. At(o, "swap") /\ UNCHANGED <<stCookie, stChanger>>
      BY <1>6 DEF ReloadSwaps
    <2>3. QED
      BY <1>2, <2>1, <2>2
  <1>7. CASE TakesOrder(o)
    <2>1. Steers(o)
      BY <1>7, TakesOrderMoves
    <2>2. At(o, "order") /\ UNCHANGED <<stCookie, stChanger, stMem>>
      BY <1>7 DEF TakesOrder
    <2>3. QED
      BY <1>2, <2>1, <2>2
  <1>8. CASE TakesCols(o)
    <2>1. Steers(o)
      BY <1>8, TakesColsMoves
    <2>2. At(o, "cols") /\ UNCHANGED <<stCookie, stChanger, stMem>>
      BY <1>8 DEF TakesCols
    <2>3. QED
      BY <1>2, <2>1, <2>2
  <1>9. CASE SaveWallLayout(o)
    <2>1. Steers(o)
      BY <1>9, SaveMoves
    <2>2. At(o, "save") /\ UNCHANGED <<stCookie, stChanger, stMem>>
      BY <1>9 DEF SaveWallLayout
    <2>3. QED
      BY <1>2, <2>1, <2>2
  <1>10. QED
    BY <1>3, <1>4, <1>5, <1>6, <1>7, <1>8, <1>9

(* A step that changes no setting and no handler of one.                   *)
LEMMA StaysIInv ==
  ASSUME StIInv, UNCHANGED <<stDB, stMem, stMixed, stChanger>>,
         DOMAIN stReq' = Operators, DOMAIN stCookie' = Operators,
         \A o \in Operators : \/ stReq'[o] = stReq[o]
                              \/ ~ Changing(stReq[o]) /\ stReq'[o] \in {NoReq, LoggingIn},
         ChangerGetsCookie'
  PROVE  StIInv'
  <1>1. ~ Changing(NoReq) /\ ~ Changing(LoggingIn)
    BY HandlingFacts
  <1>2. \A o \in Operators : stReq'[o] = stReq[o] \/ ~ Changing(stReq[o])
    OBVIOUS
  <1>3. \A o \in Operators : Changing(stReq'[o]) => stReq'[o] = stReq[o]
    BY <1>1
  <1>4. StShaped'
    <2>1. \A o \in Operators : stReq'[o] = NoReq \/ stReq'[o] = LoggingIn \/ Changing(stReq'[o])
      BY DEF StIInv, StShaped
    <2>2. QED
      BY <2>1 DEF StIInv, StShaped, Kept, Changing, Rests, Gathered
  <1>5. AloneIsAlone'
    <2> SUFFICES ASSUME NEW o \in Operators, NEW p \in Operators, o # p,
                        Changing(stReq'[o]), Changing(stReq'[p]),
                        Setting(stReq'[o].change) = Setting(stReq'[p].change)
                 PROVE  ~ stReq'[o].alone
      BY DEF AloneIsAlone, Changing, Rests, Gathered
    <2>1. stReq'[o] = stReq[o] /\ stReq'[p] = stReq[p]
      BY <1>3
    <2>2. QED
      BY <2>1 DEF StIInv, AloneIsAlone
  <1>6. AloneHasDone'
    <2> SUFFICES ASSUME NEW o \in Operators, Changing(stReq'[o]), stReq'[o].alone
                 PROVE  DoneSoFar(stReq'[o], stDB', stMem')
      BY DEF AloneHasDone, Changing, Rests, Gathered
    <2>1. stReq'[o] = stReq[o]
      BY <1>3
    <2>2. QED
      BY <2>1 DEF StIInv, AloneHasDone
  <1>7. Settled'
    <2> SUFFICES ASSUME NEW x \in SettingNames
                 PROVE  \/ x \in stMixed' \/ Agree(x)'
                        \/ \E p \in Operators :
                              Changing(stReq'[p]) /\ Setting(stReq'[p].change) = x /\ Started(stReq'[p])
      BY DEF Settled, Changing, Rests, Gathered
    <2>1. \/ x \in stMixed \/ Agree(x)
          \/ \E p \in Operators :
                Changing(stReq[p]) /\ Setting(stReq[p].change) = x /\ Started(stReq[p])
      BY DEF StIInv, Settled
    <2>2. Agree(x) => Agree(x)'
      BY DEF Agree
    <2>3. QED
      BY <1>2, <2>1, <2>2
  <1>8. QED
    BY <1>4, <1>5, <1>6, <1>7 DEF StIInv

LEMMA IssueIInv ==
  ASSUME StIInv, NEW o \in Operators, IssueDashCookie(o)
  PROVE  StIInv'
  <1>1. /\ DOMAIN stCookie = Operators /\ DOMAIN stReq = Operators /\ stMixed \subseteq SettingNames
        /\ stCookie' = [stCookie EXCEPT ![o] = EffectiveDashToken]
        /\ UNCHANGED <<stDB, stMem, stChanger>>
    BY DEF StIInv, StShaped, IssueDashCookie
  <1>2. /\ stCookie'[o] = EffectiveDashToken /\ DOMAIN stCookie' = Operators
        /\ \A p \in Operators \ {o} : stCookie'[p] = stCookie[p]
    BY <1>1
  <1>3. ASSUME \A p \in Operators \ {o} : stReq'[p] = stReq[p]
        PROVE  ChangerGetsCookie'
    <2> SUFFICES ASSUME NEW p \in Operators, stChanger = p
                 PROVE  \/ stCookie'[p] = Unset \/ AuthedDashboard(p)'
                        \/ stReq'[p] # NoReq /\ stReq'[p].todo = <<"issue">>
      BY <1>1 DEF ChangerGetsCookie, Busy
    <2>1. CASE p = o
      BY <1>1, <1>2, <2>1 DEF AuthedDashboard, EffectiveDashToken
    <2>2. CASE p # o
      <3>1. \/ stCookie[p] = Unset \/ AuthedDashboard(p)
            \/ stReq[p] # NoReq /\ stReq[p].todo = <<"issue">>
        BY DEF StIInv, ChangerGetsCookie, Busy
      <3>2. AuthedDashboard(p) => AuthedDashboard(p)'
        BY <1>1, <1>2, <2>2 DEF AuthedDashboard, EffectiveDashToken
      <3>3. QED
        BY <1>2, <1>3, <2>2, <3>1, <3>2
    <2>3. QED
      BY <2>1, <2>2
  <1>4. CASE stReq[o] # LoggingIn
    <2>1. Steers(o)
      BY <1>4, IssueMoves
    <2>2. ChangerGetsCookie'
      BY <1>3, <2>1 DEF Steers
    <2>3. QED
      BY <1>2, <2>1, <2>2, SteersIInv
  <1>5. CASE stReq[o] = LoggingIn
    <2>1. GoOn(o, LoggingIn)
      BY <1>5 DEF IssueDashCookie
    <2>2. Tail(LoggingIn.todo) = << >> /\ LoggingIn.alone /\ Setting(LoggingIn.change) = "login"
      BY DEF LoggingIn, Setting
    <2>3. Becomes(o, NoReq) /\ stMixed' = stMixed \ {"login"}
      BY <1>1, <2>1, <2>2, GoOnEnds
    <2>4. stMixed' = stMixed
      BY <1>1, <2>3 DEF SettingNames
    <2>5. ~ Changing(LoggingIn)
      BY HandlingFacts
    <2>6. /\ DOMAIN stReq' = Operators
          /\ \A p \in Operators : \/ stReq'[p] = stReq[p]
                                  \/ ~ Changing(stReq[p]) /\ stReq'[p] \in {NoReq, LoggingIn}
      BY <1>5, <2>3, <2>5 DEF Becomes
    <2>7. ChangerGetsCookie'
      BY <1>3, <2>3 DEF Becomes
    <2>8. QED
      BY <1>1, <1>2, <2>4, <2>6, <2>7, StaysIInv
  <1>6. QED
    BY <1>4, <1>5

LEMMA LoginIInv ==
  ASSUME StIInv, NEW o \in Operators, NEW pw, Login(o, pw)
  PROVE  StIInv'
  <1>1. /\ DOMAIN stReq = Operators /\ DOMAIN stCookie = Operators /\ stReq[o] = NoReq
        /\ stReq' = [stReq EXCEPT ![o] = LoggingIn]
        /\ UNCHANGED <<stDB, stMem, stCookie, stMixed, stChanger>>
    BY DEF StIInv, StShaped, Login, LoggingIn, Busy
  <1>2. ~ Changing(NoReq)
    BY HandlingFacts
  <1>3. /\ DOMAIN stReq' = Operators
        /\ \A p \in Operators : \/ stReq'[p] = stReq[p]
                                \/ stReq[p] = NoReq /\ stReq'[p] = LoggingIn
    BY <1>1
  <1>4. ChangerGetsCookie'
    BY <1>1, <1>3 DEF StIInv, ChangerGetsCookie, Busy, AuthedDashboard, EffectiveDashToken
  <1>5. QED
    BY <1>1, <1>2, <1>3, <1>4, StaysIInv

LEMMA CookieGoneIInv ==
  ASSUME StIInv, NEW o \in Operators, CookieGone(o)
  PROVE  StIInv'
  <1>1. /\ DOMAIN stReq = Operators /\ DOMAIN stCookie = Operators
        /\ stCookie' = [stCookie EXCEPT ![o] = Unset]
        /\ UNCHANGED <<stDB, stMem, stReq, stMixed, stChanger>>
    BY DEF StIInv, StShaped, CookieGone
  <1>2. /\ DOMAIN stCookie' = Operators
        /\ \A p \in Operators : stCookie'[p] = stCookie[p] \/ stCookie'[p] = Unset
    BY <1>1
  <1>3. ChangerGetsCookie'
    BY <1>1, <1>2 DEF StIInv, ChangerGetsCookie, Busy, AuthedDashboard, EffectiveDashToken
  <1>4. QED
    BY <1>1, <1>2, <1>3, StaysIInv

LEMMA MetsAlone ==
  ASSUME NEW t, NEW c, NEW a, NEW l, NEW g, NEW f
  PROVE  /\ [Handling(t, c, a, l, g) EXCEPT !.alone = f] = Handling(t, c, f, l, g)
         /\ Rests(Handling(t, c, f, l, g)) = Rests(Handling(t, c, a, l, g))
  <1>1. [Handling(t, c, a, l, g) EXCEPT !.alone = f] = Handling(t, c, f, l, g)
    BY DEF Handling
  <1>2. \A b : Handling(t, c, b, l, g).change = c /\ Handling(t, c, b, l, g).left = l
    BY DEF Handling
  <1>3. QED
    BY <1>1, <1>2 DEF Rests

(* A change that begins, and the handlers of the same setting it meets.    *)
LEMMA BeginIInv ==
  ASSUME StIInv, NEW o \in Operators, NEW c \in Changes, Begin(o, c)
  PROVE  StIInv'
  <1> DEFINE meets(p) == Busy(p) /\ Setting(stReq[p].change) = Setting(c)
             met == \E p \in Operators : meets(p)
             got == [order |-> << >>, cols |-> 0, agents |-> {}]
             n == Handling(Steps(c), c, ~ met, AlertFields, got)
  <1>1. /\ DOMAIN stReq = Operators /\ DOMAIN stCookie = Operators /\ stReq[o] = NoReq
        /\ \A p \in Operators : stReq[p] = NoReq \/ stReq[p] = LoggingIn \/ Changing(stReq[p])
        /\ UNCHANGED <<stDB, stMem, stCookie, stMixed, stChanger>>
    BY DEF StIInv, StShaped, Begin, Busy
  <1>2. ~ Changing(NoReq) /\ ~ Changing(LoggingIn) /\ LoggingIn # NoReq
    BY HandlingFacts DEF LoggingIn, NoReq
  <1>3. stReq' = [p \in Operators |-> IF p = o THEN n
                                      ELSE IF meets(p) THEN [stReq[p] EXCEPT !.alone = FALSE]
                                      ELSE stReq[p]]
    BY DEF Begin, Handling
  <1>4. c.of \in {"password", "hidden", "alert", "agents", "order", "cols"}
    BY ChangeKinds
  <1>5. Setting(c) \in SettingNames
    BY <1>4 DEF Setting, SettingNames
  <1>6. \A p \in Operators : meets(p) <=> Changing(stReq[p]) /\ Setting(stReq[p].change) = Setting(c)
    <2>1. Setting(LoggingIn.change) \notin SettingNames
      BY DEF LoggingIn, Setting, SettingNames
    <2>2. QED
      BY <1>1, <1>2, <1>5, <2>1 DEF Busy
  <1>7. /\ Changing(n) /\ n.change = c /\ n.alone = ~ met /\ n.todo = Steps(c) /\ n.left = AlertFields
    <2>1. Steps(c) \in Rests(n)
      <3>1. n.change = c /\ n.left = AlertFields
        BY DEF Handling
      <3>2. CASE c.of = "alert"
        BY <3>1, <3>2 DEF Rests, Steps, Writes
      <3>3. CASE c.of # "alert"
        BY <1>4, <3>1, <3>3 DEF Rests, Steps
      <3>4. QED
        BY <3>2, <3>3
    <2>2. got \in Gathered
      BY DEF Gathered
    <2>3. (~ met) \in BOOLEAN /\ AlertFields \in SUBSET AlertFields
      OBVIOUS
    <2>4. Changing(n)
      <3>1. PICK t, a, g : t = Steps(c) /\ a = ~ met /\ g = got
        OBVIOUS
      <3>2. Changing(Handling(t, c, a, AlertFields, g))
        BY <2>1, <2>2, <2>3, <3>1, IsChanging
      <3>3. QED
        BY <3>1, <3>2
    <2>5. QED
      BY <2>4 DEF Handling
  <1> HIDE DEF n, meets, met
  <1>8. ~ Started(n) /\ DoneSoFar(n, stDB, stMem)
    <2>1. ~ Started(n)
      BY <1>7 DEF Started
    <2>2. CASE c.of = "alert"
      BY <1>7, <2>1, <2>2 DEF DoneSoFar
    <2>3. CASE c.of # "alert"
      BY <1>4, <1>7, <2>1, <2>3 DEF DoneSoFar, Steps
    <2>4. QED
      BY <2>1, <2>2, <2>3
  <1>9. DOMAIN stReq' = Operators /\ stReq'[o] = n
    BY <1>3
  <1>10. ASSUME NEW p \in Operators, p # o
         PROVE  \/ ~ meets(p) /\ stReq'[p] = stReq[p]
                \/ /\ meets(p) /\ Changing(stReq[p])
                   /\ stReq'[p] = Handling(stReq[p].todo, stReq[p].change, FALSE,
                                           stReq[p].left, stReq[p].got)
    <2>1. CASE ~ meets(p)
      BY <1>3, <1>10, <2>1
    <2>2. CASE meets(p)
      <3>1. Changing(stReq[p])
        BY <1>6, <2>2
      <3>2. stReq[p] = Handling(stReq[p].todo, stReq[p].change, stReq[p].alone, stReq[p].left, stReq[p].got)
        BY <3>1, HandlingFacts
      <3>3. [stReq[p] EXCEPT !.alone = FALSE]
              = Handling(stReq[p].todo, stReq[p].change, FALSE, stReq[p].left, stReq[p].got)
        <4>1. PICK r : r = stReq[p]
          OBVIOUS
        <4>2. PICK t, d, a, l, g : r = Handling(t, d, a, l, g)
          BY <3>2, <4>1
        <4>3. [r EXCEPT !.alone = FALSE] = Handling(t, d, FALSE, l, g)
          <5>1. PICK f : f = FALSE
            OBVIOUS
          <5>2. [r EXCEPT !.alone = f] = Handling(t, d, f, l, g)
            BY <4>2, MetsAlone
          <5>3. QED
            BY <5>1, <5>2
        <4>4. r.todo = t /\ r.change = d /\ r.left = l /\ r.got = g
          BY <4>2 DEF Handling
        <4>5. QED
          BY <4>1, <4>3, <4>4
      <3>4. QED
        BY <1>3, <1>10, <2>2, <3>1, <3>3
    <2>3. QED
      BY <2>1, <2>2
  (* What the others keep.                                                 *)
  <1>11. ASSUME NEW p \in Operators, p # o
         PROVE  /\ stReq'[p] = NoReq \/ stReq'[p] = LoggingIn \/ Changing(stReq'[p])
                /\ Changing(stReq'[p]) <=> Changing(stReq[p])
                /\ Changing(stReq[p]) =>
                      /\ stReq'[p].change = stReq[p].change /\ stReq'[p].todo = stReq[p].todo
                      /\ stReq'[p].left = stReq[p].left /\ stReq'[p].got = stReq[p].got
                      /\ stReq'[p].alone <=> stReq[p].alone /\ ~ meets(p)
                /\ stReq'[p] = NoReq <=> stReq[p] = NoReq
                /\ stReq[p] # NoReq => stReq'[p].todo = stReq[p].todo
    <2>1. CASE ~ meets(p)
      BY <1>1, <1>10, <1>11, <2>1
    <2>2. CASE meets(p)
      <3>1. PICK t, d, a, l, g : /\ t = stReq[p].todo /\ d = stReq[p].change /\ a = stReq[p].alone
                                 /\ l = stReq[p].left /\ g = stReq[p].got
        OBVIOUS
      <3>2. Changing(stReq[p]) /\ stReq'[p] = Handling(t, d, FALSE, l, g)
        BY <1>10, <1>11, <2>2, <3>1
      <3>3. /\ stReq[p] = Handling(t, d, a, l, g) /\ stReq[p] # NoReq
            /\ t \in Rests(stReq[p]) /\ d \in Changes /\ l \in SUBSET AlertFields /\ g \in Gathered
        BY <3>1, <3>2, HandlingFacts
      <3>4. t \in Rests(Handling(t, d, FALSE, l, g))
        <4>1. PICK f : f = FALSE
          OBVIOUS
        <4>2. t \in Rests(Handling(t, d, a, l, g))
          BY <3>3
        <4>3. t \in Rests(Handling(t, d, f, l, g))
          BY <4>2, MetsAlone
        <4>4. QED
          BY <4>1, <4>3
      <3>5. Changing(stReq'[p])
        BY <3>2, <3>3, <3>4, IsChanging
      <3>6. /\ stReq'[p].change = d /\ stReq'[p].todo = t /\ stReq'[p].left = l
            /\ stReq'[p].got = g /\ stReq'[p].alone = FALSE
        BY <3>2 DEF Handling
      <3>7. stReq'[p] # NoReq
        BY <3>5, HandlingFacts
      <3>8. QED
        BY <2>2, <3>1, <3>2, <3>3, <3>5, <3>6, <3>7
    <2>3. QED
      BY <2>1, <2>2
  <1>12. StShaped'
    <2>1. \A p \in Operators : stReq'[p] = NoReq \/ stReq'[p] = LoggingIn \/ Changing(stReq'[p])
      BY <1>7, <1>9, <1>11
    <2>2. QED
      BY <1>1, <1>9, <2>1 DEF StIInv, StShaped, Kept, Changing, Rests, Gathered
  <1>13. AloneIsAlone'
    <2> SUFFICES ASSUME NEW p \in Operators, NEW q \in Operators, p # q,
                        Changing(stReq'[p]), Changing(stReq'[q]),
                        Setting(stReq'[p].change) = Setting(stReq'[q].change)
                 PROVE  ~ stReq'[p].alone
      BY DEF AloneIsAlone, Changing, Rests, Gathered
    <2>1. CASE p = o
      <3>1. Changing(stReq[q]) /\ stReq'[q].change = stReq[q].change
        BY <1>11, <2>1
      <3>2. meets(q)
        BY <1>6, <1>7, <1>9, <2>1, <3>1
      <3>3. QED
        BY <1>7, <1>9, <2>1, <3>2 DEF met
    <2>2. CASE q = o
      <3>1. Changing(stReq[p]) /\ stReq'[p].change = stReq[p].change
        BY <1>11, <2>2
      <3>2. meets(p)
        BY <1>6, <1>7, <1>9, <2>2, <3>1
      <3>3. QED
        BY <1>11, <2>2, <3>1, <3>2
    <2>3. CASE p # o /\ q # o
      <3>1. /\ Changing(stReq[q]) /\ stReq'[q].change = stReq[q].change
            /\ Changing(stReq[p]) /\ stReq'[p].change = stReq[p].change
            /\ stReq'[p].alone => stReq[p].alone
        BY <1>11, <2>3
      <3>2. QED
        BY <3>1 DEF StIInv, AloneIsAlone
    <2>4. QED
      BY <2>1, <2>2, <2>3
  <1>14. AloneHasDone'
    <2> SUFFICES ASSUME NEW p \in Operators, Changing(stReq'[p]), stReq'[p].alone
                 PROVE  DoneSoFar(stReq'[p], stDB', stMem')
      BY DEF AloneHasDone, Changing, Rests, Gathered
    <2>1. CASE p = o
      BY <1>1, <1>8, <1>9, <2>1
    <2>2. CASE p # o
      <3>1. ~ meets(p) /\ Changing(stReq[p]) /\ stReq[p].alone
        BY <1>11, <2>2
      <3>2. stReq'[p] = stReq[p]
        BY <1>10, <2>2, <3>1
      <3>3. QED
        BY <1>1, <3>1, <3>2 DEF StIInv, AloneHasDone
    <2>3. QED
      BY <2>1, <2>2
  <1>15. Settled'
    <2> SUFFICES ASSUME NEW x \in SettingNames
                 PROVE  \/ x \in stMixed' \/ Agree(x)'
                        \/ \E p \in Operators :
                              Changing(stReq'[p]) /\ Setting(stReq'[p].change) = x /\ Started(stReq'[p])
      BY DEF Settled, Changing, Rests, Gathered
    <2>1. \/ x \in stMixed \/ Agree(x)
          \/ \E p \in Operators :
                Changing(stReq[p]) /\ Setting(stReq[p].change) = x /\ Started(stReq[p])
      BY DEF StIInv, Settled
    <2>2. Agree(x) => Agree(x)'
      BY <1>1 DEF Agree
    <2>3. ASSUME NEW p \in Operators,
                 Changing(stReq[p]), Setting(stReq[p].change) = x, Started(stReq[p])
          PROVE  Changing(stReq'[p]) /\ Setting(stReq'[p].change) = x /\ Started(stReq'[p])
      <3>1. p # o
        BY <1>1, <1>2, <2>3
      <3>2. /\ Changing(stReq'[p]) /\ stReq'[p].change = stReq[p].change
            /\ stReq'[p].todo = stReq[p].todo /\ stReq'[p].left = stReq[p].left
        BY <1>11, <2>3, <3>1
      <3>3. QED
        BY <2>3, <3>2 DEF Started
    <2>4. QED
      BY <1>1, <2>1, <2>2, <2>3
  <1>16. ChangerGetsCookie'
    <2> SUFFICES ASSUME NEW p \in Operators, stChanger = p
                 PROVE  \/ stCookie[p] = Unset \/ AuthedDashboard(p)
                        \/ stReq'[p] # NoReq /\ stReq'[p].todo = <<"issue">>
      BY <1>1 DEF ChangerGetsCookie, Busy, AuthedDashboard, EffectiveDashToken
    <2>1. \/ stCookie[p] = Unset \/ AuthedDashboard(p)
          \/ stReq[p] # NoReq /\ stReq[p].todo = <<"issue">>
      BY DEF StIInv, ChangerGetsCookie, Busy
    <2>2. QED
      BY <1>1, <1>11, <2>1
  <1>17. QED
    BY <1>12, <1>13, <1>14, <1>15, <1>16 DEF StIInv

-----------------------------------------------------------------------------
(* What the process has in memory when it starts.                          *)
LEMMA LoadedFacts ==
  ASSUME NEW db \in Kept
  PROVE  /\ Seeded(db) \in Kept
         /\ Loaded(db) \in Kept
         /\ Loaded(db).password = db.password /\ Loaded(db).hidden = db.hidden
         /\ Loaded(db).order = db.order /\ Loaded(db).cols = db.cols
         /\ Loaded(db).agents = db.agents \cup {Default}
         /\ \A f \in AlertFields :
               Loaded(db).alert[f] = IF db.alert[f] = Unset THEN EnvAlert[f] ELSE db.alert[f]
  <1>1. db.alert \in [AlertFields -> AlertValues \cup {Unset}]
    BY DEF Kept
  <1>2. PICK alert : alert = [f \in AlertFields |-> IF db.alert[f] = Unset THEN EnvAlert[f] ELSE db.alert[f]]
    OBVIOUS
  <1>3. /\ alert \in [AlertFields -> AlertValues \cup {Unset}]
        /\ \A f \in AlertFields : alert[f] = IF db.alert[f] = Unset THEN EnvAlert[f] ELSE db.alert[f]
    BY <1>1, <1>2, SettingsAssumption
  <1>4. Loaded(db) = [db EXCEPT !.alert = alert, !.agents = @ \cup {Default}]
    BY <1>2 DEF Loaded
  <1>5. /\ Loaded(db) \in Kept
        /\ Loaded(db).password = db.password /\ Loaded(db).hidden = db.hidden
        /\ Loaded(db).order = db.order /\ Loaded(db).cols = db.cols
        /\ Loaded(db).agents = db.agents \cup {Default}
        /\ Loaded(db).alert = alert
    BY <1>3, <1>4 DEF Kept
  <1>6. Seeded(db) \in Kept
    BY SettingsAssumption DEF Seeded, Kept
  <1>7. QED
    BY <1>3, <1>5, <1>6

(* The process has just started on a database.                             *)
StartsOn(db) ==
    /\ db \in Kept /\ stDB' = Seeded(db) /\ stMem' = Loaded(Seeded(db))
    /\ stReq' = [o \in Operators |-> NoReq]
    /\ stMixed' = {} /\ stChanger' = Unset
    /\ DOMAIN stCookie' = Operators

LEMMA StartsIInv ==
  ASSUME NEW db, StartsOn(db)
  PROVE  StIInv'
  <1>1. PICK k : k = Seeded(db)
    OBVIOUS
  <1>2. k \in Kept /\ stDB' = k /\ stMem' = Loaded(k)
    BY <1>1, LoadedFacts DEF StartsOn
  <1>3. /\ stMem' \in Kept /\ stMem'.password = k.password /\ stMem'.hidden = k.hidden
        /\ stMem'.order = k.order /\ stMem'.cols = k.cols
        /\ stMem'.agents = k.agents \cup {Default}
        /\ \A f \in AlertFields :
              stMem'.alert[f] = IF k.alert[f] = Unset THEN EnvAlert[f] ELSE k.alert[f]
    BY <1>2, LoadedFacts
  <1>4. DOMAIN stReq' = Operators /\ \A o \in Operators : stReq'[o] = NoReq
    BY DEF StartsOn
  <1>5. ~ Changing(NoReq)
    BY HandlingFacts
  <1>6. StShaped'
    BY <1>2, <1>3, <1>4 DEF StartsOn, StShaped, Kept
  <1>7. \A o \in Operators : ~ Changing(stReq'[o])
    BY <1>4, <1>5
  <1>8. AloneIsAlone' /\ AloneHasDone'
    BY <1>7 DEF AloneIsAlone, AloneHasDone, Changing, Rests, Gathered
  <1>9. Settled'
    <2>1. \A s \in SettingNames : Agree(s)'
      BY <1>2, <1>3 DEF Agree, SettingNames
    <2>2. QED
      BY <2>1 DEF Settled
  <1>10. ChangerGetsCookie'
    BY SettingsAssumption DEF StartsOn, ChangerGetsCookie
  <1>11. QED
    BY <1>6, <1>8, <1>9, <1>10 DEF StIInv

LEMMA RestartIInv ==
  ASSUME StIInv, StRestart
  PROVE  StIInv'
  <1>1. StartsOn(stDB)
    BY DEF StIInv, StShaped, StRestart, StartsOn
  <1>2. QED
    BY <1>1, StartsIInv

LEMMA StInitIInv ==
  ASSUME StInit
  PROVE  StIInv
  <1>1. Fresh \in Kept
    BY DEF Fresh, Kept
  <1>2. PICK k : k = Seeded(Fresh)
    OBVIOUS
  <1>3. k \in Kept /\ stDB = k /\ stMem = Loaded(k)
    BY <1>1, <1>2, LoadedFacts DEF StInit
  <1>4. /\ stMem \in Kept /\ stMem.password = k.password /\ stMem.hidden = k.hidden
        /\ stMem.order = k.order /\ stMem.cols = k.cols
        /\ stMem.agents = k.agents \cup {Default}
        /\ \A f \in AlertFields :
              stMem.alert[f] = IF k.alert[f] = Unset THEN EnvAlert[f] ELSE k.alert[f]
    BY <1>3, LoadedFacts
  <1>5. /\ DOMAIN stReq = Operators /\ DOMAIN stCookie = Operators
        /\ stMixed = {} /\ stChanger = Unset
        /\ \A o \in Operators : stReq[o] = NoReq
    BY DEF StInit
  <1>6. \A o \in Operators : ~ Changing(stReq[o])
    BY <1>5, HandlingFacts
  <1>7. StShaped
    BY <1>3, <1>4, <1>5 DEF StShaped
  <1>8. AloneIsAlone /\ AloneHasDone
    BY <1>6 DEF AloneIsAlone, AloneHasDone
  <1>9. \A s \in SettingNames : Agree(s)
    BY <1>3, <1>4 DEF Agree, SettingNames
  <1>10. Settled
    BY <1>9 DEF Settled
  <1>11. ChangerGetsCookie
    BY <1>5, SettingsAssumption DEF ChangerGetsCookie
  <1>12. QED
    BY <1>7, <1>8, <1>10, <1>11 DEF StIInv

LEMMA StNextIInv == StIInv /\ [StNext]_stVars => StIInv'
  <1> SUFFICES ASSUME StIInv, [StNext]_stVars
               PROVE  StIInv'
    OBVIOUS
  <1>1. CASE StRestart
    BY <1>1, RestartIInv
  <1>2. ASSUME NEW o \in Operators, NEW c \in Changes, Begin(o, c)
        PROVE  StIInv'
    BY <1>2, BeginIInv
  <1>3. ASSUME NEW o \in Operators, NEW pw \in Passwords, Login(o, pw)
        PROVE  StIInv'
    BY <1>3, LoginIInv
  <1>4. ASSUME NEW o \in Operators, CookieGone(o)
        PROVE  StIInv'
    BY <1>4, CookieGoneIInv
  <1>5. ASSUME NEW o \in Operators, IssueDashCookie(o)
        PROVE  StIInv'
    BY <1>5, IssueIInv
  <1>6. ASSUME NEW o \in Operators,
               \/ Write(o) \/ Remember(o) \/ ReloadLists(o)
               \/ ReloadSwaps(o) \/ TakesOrder(o) \/ TakesCols(o) \/ SaveWallLayout(o)
        PROVE  StIInv'
    BY <1>6, HandlerIInv
  <1>7. CASE UNCHANGED stVars
    <2>1. /\ UNCHANGED <<stDB, stMem, stMixed, stChanger>> /\ stReq' = stReq /\ stCookie' = stCookie
      BY <1>7 DEF stVars
    <2>2. ChangerGetsCookie'
      BY <2>1 DEF StIInv, ChangerGetsCookie, Busy, AuthedDashboard, EffectiveDashToken
    <2>3. DOMAIN stReq' = Operators /\ DOMAIN stCookie' = Operators
      BY <2>1 DEF StIInv, StShaped
    <2>4. QED
      BY <2>1, <2>2, <2>3, StaysIInv
  <1>8. QED
    BY <1>1, <1>2, <1>3, <1>4, <1>5, <1>6, <1>7 DEF StNext

LEMMA StAlways == StSpec => []StIInv
  <1>1. StInit => StIInv
    BY StInitIInv
  <1>2. QED
    BY <1>1, StNextIInv, PTL DEF StSpec

(* What memory and database agree on is what the next process loads, but   *)
(* for what is empty in memory.                                            *)
LEMMA AgreedSurvives ==
  ASSUME stDB \in Kept, NEW s \in SettingNames, Agree(s)
  PROVE  Survives(s)
  <1>1. PICK k : k = Seeded(stDB)
    OBVIOUS
  <1>2. /\ AfterRestart.password = k.password /\ AfterRestart.hidden = k.hidden
        /\ AfterRestart.order = k.order /\ AfterRestart.cols = k.cols
        /\ AfterRestart.agents = k.agents \cup {Default}
        /\ \A f \in AlertFields :
              AfterRestart.alert[f] = IF k.alert[f] = Unset THEN EnvAlert[f] ELSE k.alert[f]
    BY <1>1, LoadedFacts DEF AfterRestart
  <1>3. /\ k.password = stDB.password /\ k.hidden = stDB.hidden
        /\ k.order = stDB.order /\ k.cols = stDB.cols /\ k.alert = stDB.alert
        /\ stDB.agents # {} => k.agents = stDB.agents
    BY <1>1 DEF Seeded, Kept
  <1>4. CASE s = "password"
    BY <1>2, <1>3, <1>4 DEF Agree, Survives
  <1>5. CASE s = "hidden"
    BY <1>2, <1>3, <1>5 DEF Agree, Survives
  <1>6. CASE s = "agents"
    BY <1>2, <1>3, <1>6 DEF Agree, Survives
  <1>7. CASE s = "order"
    BY <1>2, <1>3, <1>7 DEF Agree, Survives
  <1>8. CASE s = "alert"
    BY <1>2, <1>3, <1>8 DEF Agree, Survives
  <1>9. QED
    BY <1>4, <1>5, <1>6, <1>7, <1>8 DEF SettingNames

(* What operators have set is what a restart would load (hub.go,           *)
(* agent_registry.go, wallorder.go), but for alert settings that were      *)
(* cleared and a last named agent that was removed: while no handler of a  *)
(* setting is at work, however the handlers before were interleaved and    *)
(* wherever a statement of the database failed, unless two changes of it   *)
(* met or one broke off half way since a change of it was last made alone. *)
THEOREM RestartKeepsSettingsHolds == StSpec => []RestartKeepsSettings
  <1>1. StIInv => RestartKeepsSettings
    <2>1. \A o \in Operators : Changing(stReq[o]) => Busy(o)
      BY HandlingFacts DEF Busy
    <2> SUFFICES ASSUME StIInv, NEW s \in SettingNames
                 PROVE  Survives(s) \/ s \in stMixed \/ BeingChanged(s)
      BY DEF RestartKeepsSettings
    <2>2. stDB \in Kept
      BY DEF StIInv, StShaped
    <2>3. Agree(s) \/ s \in stMixed \/ BeingChanged(s)
      BY <2>1 DEF StIInv, Settled, BeingChanged
    <2>4. QED
      BY <2>2, <2>3, AgreedSurvives
  <1>2. QED
    BY <1>1, StAlways, PTL

(* The operator who changed the password last is not logged out by it      *)
(* (dashboard.go, HandleDashboardPassword), whoever else changes it, logs  *)
(* in or logs out meanwhile: once the handler is through, the cookie is    *)
(* signed with the password that counts.                                   *)
THEOREM LastChangerStaysInHolds == StSpec => []LastChangerStaysIn
  <1>1. StIInv => LastChangerStaysIn
    BY DEF StIInv, ChangerGetsCookie, LastChangerStaysIn
  <1>2. QED
    BY <1>1, StAlways, PTL

-----------------------------------------------------------------------------
(* DeviceStore.                                                            *)

-----------------------------------------------------------------------------
(* The operation of a thread that is adding a recorder, and any other one. *)
AddSteps == {"match", "max", "enrich", "key", "row"}
Facets == [serial : Serials \cup {NoFacet}, mac : Macs \cup {NoFacet}, addr : Addrs]

Adding(op) ==
    op \in [pc : AddSteps, serial : Serials \cup {NoFacet}, mac : Macs \cup {NoFacet}, addr : Addrs,
            protocol : Selectable, key : {op.key}]

Plain(op) == "pc" \in DOMAIN op /\ "addr" \notin DOMAIN op /\ op.pc \notin AddSteps

DvShaped ==
    /\ \A k \in DOMAIN dvKeys : dvKeys[k] \in Facets
    /\ DOMAIN dvOp = AllThreads
    /\ \A t \in AllThreads : Plain(dvOp[t]) \/ (t \in Threads /\ Adding(dvOp[t]))

(* Unless two AddDVR met, one recorder is added at a time ...              *)
OneAdder ==
    \A t, u \in AllThreads : Adding(dvOp[t]) /\ Adding(dvOp[u]) => t = u

(* ... and what it has found out still holds: there is no key with the     *)
(* serial, or only the one that was chosen.                                *)
FoundHolds(op) ==
    /\ op.pc \in {"max", "key"} => Having("serial", op.serial) = {}
    /\ op.pc \in {"enrich", "row"} => Having("serial", op.serial) \subseteq {op.key}

FindingsHold == \A t \in AllThreads : Adding(dvOp[t]) => FoundHolds(dvOp[t])

DvIInv == DvShaped /\ (~ dvBlind => OneKeyEach /\ OneAdder /\ FindingsHold)

-----------------------------------------------------------------------------
LEMMA AddingFacts ==
  ASSUME NEW op, Adding(op)
  PROVE  /\ ~ Plain(op) /\ "addr" \in DOMAIN op /\ op.pc \in AddSteps
         /\ op.serial \in Serials \cup {NoFacet} /\ op.mac \in Macs \cup {NoFacet} /\ op.addr \in Addrs
         /\ \A s \in AddSteps : /\ Adding([op EXCEPT !.pc = s])
                                /\ [op EXCEPT !.pc = s].pc = s
                                /\ [op EXCEPT !.pc = s].serial = op.serial
                                /\ [op EXCEPT !.pc = s].key = op.key
  BY DEF Adding, Plain

LEMMA EnrichedFacts ==
  ASSUME NEW row \in Facets, NEW op, Adding(op)
  PROVE  Enriched(row, op) \in Facets
  BY AddingFacts DEF Enriched, Facets

(* What other threads do meanwhile: nothing but find their tables mixed.   *)
Elsewhere(t) ==
    /\ DOMAIN dvOp' = AllThreads
    /\ \A u \in AllThreads \ {t} :
          dvOp'[u] = dvOp[u] \/ (Plain(dvOp[u]) /\ Plain(dvOp'[u]))

LEMMA OpToFacts ==
  ASSUME DvShaped, NEW t \in AllThreads, NEW op, OpTo(t, op)
  PROVE  Elsewhere(t) /\ dvOp'[t] = op
  BY DEF DvShaped, OpTo, Elsewhere

LEMMA ChangedFacts ==
  ASSUME DvShaped, NEW t \in AllThreads, NEW op, Changed(t, op)
  PROVE  Elsewhere(t) /\ dvOp'[t] = op
  <1>1. DOMAIN dvOp' = AllThreads /\ dvOp'[t] = op
    BY DEF Changed, Marked
  <1>2. ASSUME NEW u \in AllThreads \ {t}
        PROVE  dvOp'[u] = dvOp[u] \/ (Plain(dvOp[u]) /\ Plain(dvOp'[u]))
    <2>1. CASE dvOp[u].pc = "chans"
      <3>1. "chans" \notin AddSteps
        BY DEF AddSteps
      <3>2. Plain(dvOp[u])
        BY <1>2, <2>1, <3>1 DEF DvShaped, Adding
      <3>3. dvOp'[u] = [dvOp[u] EXCEPT !.mixed = TRUE]
        BY <1>2, <2>1 DEF Changed, Marked
      <3>4. Plain(dvOp'[u])
        BY <3>2, <3>3 DEF Plain
      <3>5. QED
        BY <3>2, <3>4
    <2>2. CASE dvOp[u].pc # "chans"
      BY <1>2, <2>2 DEF Changed, Marked
    <2>3. QED
      BY <2>1, <2>2
  <1>3. QED
    BY <1>1, <1>2 DEF Elsewhere

(* A step of a thread that has nothing to do with keys.                    *)
LEMMA PlainKeeps ==
  ASSUME DvIInv, NEW t \in AllThreads, Elsewhere(t), Plain(dvOp'[t]), UNCHANGED <<dvKeys, dvBlind>>
  PROVE  DvIInv'
  <1>1. \A u \in AllThreads : \/ Plain(dvOp'[u])
                              \/ dvOp'[u] = dvOp[u] /\ u \in Threads /\ Adding(dvOp[u])
    BY DEF DvIInv, DvShaped, Elsewhere
  <1>2. \A u \in AllThreads : Adding(dvOp'[u]) => dvOp'[u] = dvOp[u]
    BY <1>1, AddingFacts
  <1>3. DvShaped'
    <2>1. \A k \in DOMAIN dvKeys' : dvKeys'[k] \in Facets
      BY DEF DvIInv, DvShaped
    <2>2. DOMAIN dvOp' = AllThreads
      BY DEF Elsewhere
    <2>3. QED
      BY <1>1, <2>1, <2>2 DEF DvShaped, Adding
  <1>4. ~ dvBlind' => OneKeyEach'
    BY DEF DvIInv, OneKeyEach
  <1>5. ASSUME ~ dvBlind'
        PROVE  OneAdder' /\ FindingsHold'
    <2>1. OneAdder /\ FindingsHold
      BY <1>5 DEF DvIInv
    <2>2. OneAdder'
      <3> SUFFICES ASSUME NEW u \in AllThreads, NEW v \in AllThreads, Adding(dvOp'[u]), Adding(dvOp'[v])
                   PROVE  u = v
        BY DEF OneAdder, Adding
      <3>1. QED
        BY <1>2, <2>1 DEF OneAdder
    <2>3. FindingsHold'
      <3> SUFFICES ASSUME NEW u \in AllThreads, Adding(dvOp'[u])
                   PROVE  FoundHolds(dvOp[u])' /\ dvOp'[u] = dvOp[u]
        BY DEF FindingsHold, Adding, FoundHolds
      <3>1. dvOp'[u] = dvOp[u] /\ FoundHolds(dvOp[u])
        BY <1>2, <2>1 DEF FindingsHold
      <3>2. QED
        BY <3>1 DEF FoundHolds, Having
    <2>4. QED
      BY <2>2, <2>3
  <1>6. QED
    BY <1>3, <1>4, <1>5 DEF DvIInv

(* A step of the thread that is adding a recorder.                         *)
LEMMA AdderKeeps ==
  ASSUME DvIInv, NEW t \in AllThreads, Elsewhere(t), Adding(dvOp[t]), Adding(dvOp'[t]),
         dvBlind => dvBlind', \A k \in DOMAIN dvKeys' : dvKeys'[k] \in Facets,
         ~ dvBlind' => OneKeyEach' /\ FoundHolds(dvOp[t])'
  PROVE  DvIInv'
  <1>1. t \in Threads
    BY AddingFacts DEF DvIInv, DvShaped
  <1>2. \A u \in AllThreads : Plain(dvOp'[u]) \/ (u \in Threads /\ Adding(dvOp'[u]))
    BY <1>1 DEF DvIInv, DvShaped, Elsewhere
  <1>3. DvShaped'
    <2>1. DOMAIN dvOp' = AllThreads
      BY DEF Elsewhere
    <2>2. QED
      BY <1>2, <2>1 DEF DvShaped, Adding
  <1>4. ~ dvBlind' => OneKeyEach'
    OBVIOUS
  <1>5. ASSUME ~ dvBlind'
        PROVE  OneAdder' /\ FindingsHold'
    <2>1. OneAdder /\ FoundHolds(dvOp[t])'
      BY <1>5 DEF DvIInv
    <2>2. \A u \in AllThreads : Adding(dvOp'[u]) => u = t
      <3> SUFFICES ASSUME NEW u \in AllThreads, Adding(dvOp'[u]), u # t
                   PROVE  FALSE
        OBVIOUS
      <3>1. dvOp'[u] = dvOp[u]
        BY AddingFacts DEF Elsewhere
      <3>2. QED
        BY <2>1, <3>1 DEF OneAdder
    <2>3. QED
      BY <2>1, <2>2 DEF OneAdder, FindingsHold, Adding
  <1>6. QED
    BY <1>3, <1>4, <1>5 DEF DvIInv

LEMMA AddDVRIInv ==
  ASSUME DvIInv, NEW t \in Threads, NEW p \in Selectable, NEW who \in FetchDeviceIdentity(p),
         NEW addr \in Addrs, AddDVR(t, who, addr, p)
  PROVE  DvIInv'
  <1> DEFINE op == [pc |-> "match", serial |-> who.serial, mac |-> who.mac, addr |-> addr,
                    protocol |-> p, key |-> 0]
  <1>1. Elsewhere(t) /\ dvOp'[t] = op /\ t \in AllThreads
    BY OpToFacts DEF DvIInv, AddDVR, AllThreads
  <1>2. /\ UNCHANGED dvKeys
        /\ dvBlind' = (dvBlind \/ \E u \in Threads : u # t /\ "addr" \in DOMAIN dvOp[u])
    BY DEF AddDVR, DvStore
  <1>3. Adding(op) /\ op.pc = "match"
    <2>1. who \in [serial : Serials \cup {NoFacet}, mac : Macs \cup {NoFacet}]
      BY DeviceStoreAssumption DEF FetchDeviceIdentity
    <2>2. QED
      BY <2>1 DEF Adding, AddSteps
  <1> HIDE DEF op
  <1>4. \A u \in AllThreads : Plain(dvOp'[u]) \/ (u \in Threads /\ Adding(dvOp'[u]))
    BY <1>1, <1>3 DEF DvIInv, DvShaped, Elsewhere
  <1>5. DvShaped'
    <2>1. DOMAIN dvOp' = AllThreads /\ \A k \in DOMAIN dvKeys' : dvKeys'[k] \in Facets
      BY <1>1, <1>2 DEF Elsewhere, DvIInv, DvShaped
    <2>2. QED
      BY <1>4, <2>1 DEF DvShaped, Adding
  <1>6. ~ dvBlind' => OneKeyEach'
    BY <1>2 DEF DvIInv, OneKeyEach
  <1>7. ASSUME ~ dvBlind'
        PROVE  OneAdder' /\ FindingsHold'
    <2>1. \A u \in AllThreads : Adding(dvOp'[u]) => u = t
      <3> SUFFICES ASSUME NEW u \in AllThreads, Adding(dvOp'[u]), u # t
                   PROVE  FALSE
        OBVIOUS
      <3>1. dvOp'[u] = dvOp[u]
        BY <1>1, AddingFacts DEF Elsewhere
      <3>2. "addr" \in DOMAIN dvOp[u] /\ u \in Threads
        BY <3>1, AddingFacts DEF DvIInv, DvShaped
      <3>3. QED
        BY <1>2, <1>7, <3>2
    <2>2. FoundHolds(dvOp[t])'
      BY <1>1, <1>3 DEF FoundHolds
    <2>3. QED
      BY <2>1, <2>2 DEF OneAdder, FindingsHold, Adding
  <1>8. QED
    BY <1>5, <1>6, <1>7 DEF DvIInv

LEMMA KeyMatchFacts ==
  ASSUME NEW t, KeyMatch(t)
  PROVE  /\ dvOp[t].pc = "match"
         /\ UNCHANGED <<dvKeys, dvConn, dvRelay, dvStale>> /\ UNCHANGED <<dvDvrs, dvChans, dvWanted>>
         /\ \E failing : /\ GoOnWith(t, dvOp[t], Matches(dvOp[t], failing))
                         /\ dvBlind' = (dvBlind \/ MissesSerial(dvOp[t], failing))
  BY DEF KeyMatch, DvStore

LEMMA KeyMatchIInv ==
  ASSUME DvIInv, NEW t \in AllThreads, KeyMatch(t)
  PROVE  DvIInv'
  <1> DEFINE op == dvOp[t]
  <1>1. op.pc = "match" /\ UNCHANGED dvKeys
    BY KeyMatchFacts
  <1>a. PICK failing : /\ GoOnWith(t, op, Matches(op, failing))
                       /\ dvBlind' = (dvBlind \/ MissesSerial(op, failing))
    BY KeyMatchFacts
  <1>b. dvBlind => dvBlind'
    BY <1>a
  <1>c. ASSUME ~ dvBlind'
        PROVE  ~ dvBlind /\ ("serial" \in failing => Having("serial", op.serial) = {})
    <2>1. ~ dvBlind /\ ~ MissesSerial(op, failing)
      BY <1>a, <1>c
    <2>2. QED
      BY <2>1 DEF MissesSerial
  <1>2. Adding(op)
    BY <1>1 DEF DvIInv, DvShaped, Plain, AddSteps
  <1>3. \A k \in DOMAIN dvKeys' : dvKeys'[k] \in Facets
    BY <1>1 DEF DvIInv, DvShaped
  <1>4. ~ dvBlind' => OneKeyEach'
    BY <1>1, <1>b DEF DvIInv, OneKeyEach
  <1>5. ASSUME NEW k \in Matches(op, failing), OpTo(t, [op EXCEPT !.pc = "enrich", !.key = k])
        PROVE  DvIInv'
    <2>1. PICK q : q = [op EXCEPT !.pc = "enrich", !.key = k]
      OBVIOUS
    <2>2. Adding(q) /\ q.pc = "enrich" /\ q.serial = op.serial /\ q.key = k
      <3>1. "enrich" \in AddSteps
        BY DEF AddSteps
      <3>2. QED
        <4>1. PICK r, s : r = op /\ s = "enrich"
          OBVIOUS
        <4>2. Adding(r) /\ s \in AddSteps /\ q = [r EXCEPT !.pc = s, !.key = k]
          BY <1>2, <2>1, <3>1, <4>1
        <4>3. Adding(q) /\ q.pc = s /\ q.serial = r.serial /\ q.key = k
          BY <4>2 DEF Adding
        <4>4. QED
          BY <4>1, <4>3
    <2>3. Elsewhere(t) /\ dvOp'[t] = q
      BY <1>5, <2>1, OpToFacts DEF DvIInv
    <2>4. ASSUME ~ dvBlind'
          PROVE  FoundHolds(dvOp[t])'
      <3>1. CASE Having("serial", op.serial) = {}
        <4>1. Having("serial", q.serial)' = {}
          BY <1>1, <2>2, <3>1 DEF Having
        <4>2. QED
          BY <2>2, <2>3, <4>1 DEF FoundHolds
      <3>2. CASE Having("serial", op.serial) # {}
        <4>1. k \in Having("serial", op.serial)
          BY <1>c, <2>4, <3>2 DEF Matches
        <4>2. OneKeyEach
          BY <1>c, <2>4 DEF DvIInv
        <4>3. \A j \in Having("serial", op.serial) : j = k
          BY <4>1, <4>2 DEF Having, OneKeyEach
        <4>4. QED
          BY <1>1, <2>2, <2>3, <4>3 DEF FoundHolds, Having
      <3>3. QED
        BY <3>1, <3>2
    <2>5. QED
      BY <1>b, <1>2, <1>3, <1>4, <2>2, <2>3, <2>4, AdderKeeps
  <1>6. CASE Matches(op, failing) = {} /\ OpTo(t, [op EXCEPT !.pc = "max"])
    <2>1. PICK q : q = [op EXCEPT !.pc = "max"]
      OBVIOUS
    <2>2. Adding(q) /\ q.pc = "max" /\ q.serial = op.serial
      <3>1. "max" \in AddSteps
        BY DEF AddSteps
      <3>2. QED
        BY <1>2, <2>1, <3>1, AddingFacts
    <2>3. Elsewhere(t) /\ dvOp'[t] = q
      BY <1>6, <2>1, OpToFacts DEF DvIInv
    <2>4. ASSUME ~ dvBlind'
          PROVE  FoundHolds(dvOp[t])'
      <3>1. Having("serial", op.serial) = {}
        BY <1>6, <1>c, <2>4 DEF Matches
      <3>2. QED
        BY <1>1, <2>2, <2>3, <3>1 DEF FoundHolds, Having
    <2>5. QED
      BY <1>b, <1>2, <1>3, <1>4, <2>2, <2>3, <2>4, AdderKeeps
  <1>7. QED
    <2>1. PICK found : found = Matches(op, failing)
      OBVIOUS
    <2>2. GoOnWith(t, op, found)
      BY <1>a, <2>1
    <2>3. CASE found = {}
      BY <1>6, <2>1, <2>2, <2>3 DEF GoOnWith
    <2>4. CASE found # {}
      <3>1. PICK k \in found : OpTo(t, [op EXCEPT !.pc = "enrich", !.key = k])
        BY <2>2, <2>4 DEF GoOnWith
      <3>2. QED
        BY <1>5, <2>1, <3>1
    <2>5. QED
      BY <2>3, <2>4

LEMMA EnrichIInv ==
  ASSUME DvIInv, NEW t \in AllThreads, EnrichDeviceKey(t)
  PROVE  DvIInv'
  <1> DEFINE op == dvOp[t]
  <1>1. /\ op.pc = "enrich" /\ UNCHANGED dvBlind
        /\ dvKeys' = [dvKeys EXCEPT ![op.key] = Enriched(@, op)]
        /\ OpTo(t, [op EXCEPT !.pc = "row"])
    BY DEF EnrichDeviceKey, DvRest
  <1>2. Adding(op)
    BY <1>1 DEF DvIInv, DvShaped, Plain, AddSteps
  <1>3. PICK q : q = [op EXCEPT !.pc = "row"]
    OBVIOUS
  <1>4. Adding(q) /\ q.pc = "row" /\ q.serial = op.serial /\ q.key = op.key
    <2>1. "row" \in AddSteps
      BY DEF AddSteps
    <2>2. QED
      BY <1>2, <1>3, <2>1, AddingFacts
  <1>5. Elsewhere(t) /\ dvOp'[t] = q
    BY <1>1, <1>3, OpToFacts DEF DvIInv
  <1>6. /\ DOMAIN dvKeys' = DOMAIN dvKeys
        /\ \A k \in DOMAIN dvKeys : dvKeys'[k] = IF k = op.key THEN Enriched(dvKeys[k], op) ELSE dvKeys[k]
    BY <1>1
  <1>7. \A k \in DOMAIN dvKeys : dvKeys[k] \in Facets
    BY DEF DvIInv, DvShaped
  <1>8. \A k \in DOMAIN dvKeys' : dvKeys'[k] \in Facets
    BY <1>2, <1>6, <1>7, EnrichedFacts
  <1>9. \A row : Enriched(row, op).serial = IF row.serial = NoFacet THEN op.serial ELSE row.serial
    BY DEF Enriched
  <1>10. ASSUME ~ dvBlind
         PROVE  OneKeyEach' /\ FoundHolds(dvOp[t])'
    <2>1. Having("serial", op.serial) \subseteq {op.key}
      BY <1>1, <1>2, <1>10 DEF DvIInv, FindingsHold, FoundHolds
    <2>2. ASSUME NEW j \in DOMAIN dvKeys, NEW k \in DOMAIN dvKeys,
                 dvKeys'[j].serial = dvKeys'[k].serial, dvKeys'[j].serial # NoFacet
          PROVE  j = k
      <3>1. dvKeys[j].serial = dvKeys[k].serial /\ dvKeys[j].serial # NoFacet => j = k
        BY <1>10 DEF DvIInv, OneKeyEach
      <3>2. CASE dvKeys[op.key].serial # NoFacet
        <4>1. dvKeys'[j].serial = dvKeys[j].serial /\ dvKeys'[k].serial = dvKeys[k].serial
          BY <1>6, <1>9, <3>2
        <4>2. QED
          BY <2>2, <3>1, <4>1
      <3>3. CASE dvKeys[op.key].serial = NoFacet
        <4>1. op.serial # NoFacet => dvKeys[j].serial # op.serial /\ dvKeys[k].serial # op.serial
          BY <2>1, <3>3 DEF Having
        <4>2. QED
          BY <1>6, <1>9, <2>2, <3>1, <3>3, <4>1
      <3>4. QED
        BY <3>2, <3>3
    <2>3. OneKeyEach'
      BY <1>6, <2>2 DEF OneKeyEach
    <2>4. FoundHolds(dvOp[t])'
      <3>1. \A k \in DOMAIN dvKeys : k # op.key => dvKeys'[k] = dvKeys[k]
        BY <1>6
      <3>2. Having("serial", q.serial)' \subseteq {q.key}
        BY <1>4, <1>6, <2>1, <3>1 DEF Having
      <3>3. QED
        BY <1>4, <1>5, <3>2 DEF FoundHolds
    <2>5. QED
      BY <2>3, <2>4
  <1>11. QED
    BY <1>1, <1>2, <1>4, <1>5, <1>8, <1>10, AdderKeeps

LEMMA KeyMaxIInv ==
  ASSUME DvIInv, NEW t \in AllThreads, KeyMax(t)
  PROVE  DvIInv'
  <1> DEFINE op == dvOp[t]
  <1>1. PICK k : OpTo(t, [op EXCEPT !.pc = "key", !.key = k])
    BY DEF KeyMax
  <1>2. op.pc = "max" /\ UNCHANGED <<dvKeys, dvBlind>>
    BY DEF KeyMax, DvStore, DvRest
  <1>3. Adding(op)
    BY <1>2 DEF DvIInv, DvShaped, Plain, AddSteps
  <1>4. PICK q : q = [op EXCEPT !.pc = "key", !.key = k]
    OBVIOUS
  <1>5. Adding(q) /\ q.pc = "key" /\ q.serial = op.serial
    <2>1. "key" \in AddSteps
      BY DEF AddSteps
    <2>2. QED
      <3>1. PICK r, s : r = op /\ s = "key"
        OBVIOUS
      <3>2. Adding(r) /\ s \in AddSteps /\ q = [r EXCEPT !.pc = s, !.key = k]
        BY <1>3, <1>4, <2>1, <3>1
      <3>3. Adding(q) /\ q.pc = s /\ q.serial = r.serial
        BY <3>2 DEF Adding
      <3>4. QED
        BY <3>1, <3>3
  <1>6. Elsewhere(t) /\ dvOp'[t] = q
    BY <1>1, <1>4, OpToFacts DEF DvIInv
  <1>7. /\ \A k1 \in DOMAIN dvKeys' : dvKeys'[k1] \in Facets
        /\ ~ dvBlind => OneKeyEach'
    BY <1>2 DEF DvIInv, DvShaped, OneKeyEach
  <1>8. ASSUME ~ dvBlind
        PROVE  FoundHolds(dvOp[t])'
    <2>1. Having("serial", op.serial) = {}
      BY <1>2, <1>3, <1>8 DEF DvIInv, FindingsHold, FoundHolds
    <2>2. QED
      BY <1>2, <1>5, <1>6, <2>1 DEF FoundHolds, Having
  <1>9. QED
    BY <1>2, <1>3, <1>5, <1>6, <1>7, <1>8, AdderKeeps

LEMMA KeyInsertIInv ==
  ASSUME DvIInv, NEW t \in AllThreads, KeyInsert(t)
  PROVE  DvIInv'
  <1> DEFINE op == dvOp[t]
             row == [serial |-> op.serial, mac |-> op.mac, addr |-> op.addr]
  <1>1. /\ op.pc = "key" /\ UNCHANGED dvBlind
        /\ \/ OpTo(t, DvIdle) /\ UNCHANGED dvKeys
           \/ /\ op.key \notin DOMAIN dvKeys
              /\ dvKeys' = [k \in DOMAIN dvKeys \cup {op.key} |-> IF k = op.key THEN row ELSE dvKeys[k]]
              /\ OpTo(t, [op EXCEPT !.pc = "row"])
    BY DEF KeyInsert, DvRest
  <1>2. Adding(op)
    BY <1>1 DEF DvIInv, DvShaped, Plain, AddSteps
  <1>3. CASE OpTo(t, DvIdle) /\ UNCHANGED dvKeys
    <2>1. Elsewhere(t) /\ dvOp'[t] = DvIdle
      BY <1>3, OpToFacts DEF DvIInv
    <2>2. Plain(DvIdle)
      BY DEF Plain, DvIdle, AddSteps
    <2>3. QED
      BY <1>1, <1>3, <2>1, <2>2, PlainKeeps
  <1>4. CASE /\ op.key \notin DOMAIN dvKeys
             /\ dvKeys' = [k \in DOMAIN dvKeys \cup {op.key} |-> IF k = op.key THEN row ELSE dvKeys[k]]
             /\ OpTo(t, [op EXCEPT !.pc = "row"])
    <2>1. PICK q : q = [op EXCEPT !.pc = "row"]
      OBVIOUS
    <2>2. Adding(q) /\ q.pc = "row" /\ q.serial = op.serial /\ q.key = op.key
      <3>1. "row" \in AddSteps
        BY DEF AddSteps
      <3>2. QED
        BY <1>2, <2>1, <3>1, AddingFacts
    <2>3. Elsewhere(t) /\ dvOp'[t] = q
      BY <1>4, <2>1, OpToFacts DEF DvIInv
    <2>4. row \in Facets /\ row.serial = op.serial
      BY <1>2, AddingFacts DEF Facets
    <2> HIDE DEF row
    <2>5. /\ DOMAIN dvKeys' = DOMAIN dvKeys \cup {op.key}
          /\ dvKeys'[op.key] = row
          /\ \A k \in DOMAIN dvKeys : dvKeys'[k] = dvKeys[k]
      BY <1>4
    <2>6. \A k \in DOMAIN dvKeys' : dvKeys'[k] \in Facets
      BY <2>4, <2>5 DEF DvIInv, DvShaped
    <2>7. ASSUME ~ dvBlind
          PROVE  OneKeyEach' /\ FoundHolds(dvOp[t])'
      <3>1. Having("serial", op.serial) = {}
        BY <1>1, <1>2, <2>7 DEF DvIInv, FindingsHold, FoundHolds
      <3>2. op.serial # NoFacet => \A k \in DOMAIN dvKeys : dvKeys[k].serial # op.serial
        BY <3>1 DEF Having
      <3>3. \A j, k \in DOMAIN dvKeys :
               dvKeys[j].serial = dvKeys[k].serial /\ dvKeys[j].serial # NoFacet => j = k
        BY <2>7 DEF DvIInv, OneKeyEach
      <3>4. OneKeyEach'
        BY <2>4, <2>5, <3>2, <3>3 DEF OneKeyEach
      <3>5. FoundHolds(dvOp[t])'
        <4>1. Having("serial", q.serial)' \subseteq {q.key}
          BY <2>2, <2>5, <3>1 DEF Having
        <4>2. QED
          BY <2>2, <2>3, <4>1 DEF FoundHolds
      <3>6. QED
        BY <3>4, <3>5
    <2>8. QED
      BY <1>1, <1>2, <2>2, <2>3, <2>6, <2>7, AdderKeeps
  <1>5. QED
    BY <1>1, <1>3, <1>4

-----------------------------------------------------------------------------
LEMMA SendOpsArePlain ==
  /\ Plain(DvIdle)
  /\ \A again : Plain(SendThen(again))
  /\ Plain(DvSend)
  BY DEF Plain, DvIdle, SendThen, DvSend, AddSteps

(* The operations of discovery and of a send are not about keys.           *)
LEMMA OpKeeps ==
  ASSUME DvIInv, NEW t \in AllThreads, NEW op, Plain(op), OpTo(t, op) \/ Changed(t, op),
         UNCHANGED <<dvKeys, dvBlind>>
  PROVE  DvIInv'
  <1>1. Elsewhere(t) /\ dvOp'[t] = op
    BY OpToFacts, ChangedFacts DEF DvIInv
  <1>2. QED
    BY <1>1, PlainKeeps

LEMMA SendIInv ==
  ASSUME DvIInv, NEW t \in AllThreads, SendLists(t) \/ SendReads(t) \/ SendWrites(t)
  PROVE  DvIInv'
  <1> DEFINE op == dvOp[t]
  <1>1. UNCHANGED <<dvKeys, dvBlind>>
    BY DEF SendLists, SendReads, SendWrites, DvStore, DvRest
  <1>2. CASE SendLists(t)
    <2>1. PICK q : /\ q = [pc |-> "chans", again |-> dvOp[t].again, dvrs |-> dvDvrs, left |-> Ids,
                           chans |-> [c \in {} |-> 0], mixed |-> FALSE]
                   /\ OpTo(t, q)
      BY <1>2 DEF SendLists
    <2>2. Plain(q)
      BY <2>1 DEF Plain, AddSteps
    <2>3. QED
      BY <1>1, <2>1, <2>2, OpKeeps
  <1>3. CASE SendReads(t)
    <2>1. /\ op.pc = "chans"
          /\ \E i, c : OpTo(t, [op EXCEPT !.left = i, !.chans = c])
      BY <1>3 DEF SendReads
    <2>2. PICK i, c : OpTo(t, [op EXCEPT !.left = i, !.chans = c])
      BY <2>1
    <2>3. Plain(op)
      BY <2>1 DEF DvIInv, DvShaped, Adding, AddSteps
    <2>4. PICK q : q = [op EXCEPT !.left = i, !.chans = c]
      OBVIOUS
    <2>5. Plain(q)
      BY <2>3, <2>4 DEF Plain
    <2>6. QED
      BY <1>1, <2>2, <2>4, <2>5, OpKeeps
  <1>4. CASE SendWrites(t)
    <2>1. OpTo(t, DvSend) \/ OpTo(t, DvIdle)
      BY <1>4 DEF SendWrites
    <2>2. QED
      BY <1>1, <2>1, SendOpsArePlain, OpKeeps
  <1>5. QED
    BY <1>2, <1>3, <1>4

LEMMA DiscoveryIInv ==
  ASSUME DvIInv, NEW t \in AllThreads,
         \/ \E id \in Ids, again \in BOOLEAN : Discovery(t, id, again)
         \/ ProbeDVRProtocol(t) \/ ProbeNotNeeded(t) \/ FindsNone(t) \/ Finds(t) \/ UpsertChannel(t)
  PROVE  DvIInv'
  <1>1. UNCHANGED <<dvKeys, dvBlind>>
    BY DEF Discovery, ProbeDVRProtocol, ProbeNotNeeded, FindsNone, Finds, UpsertChannel, DvStore, DvRest
  <1>2. ASSUME NEW again, NEW id
        PROVE  /\ \A p : Plain([pc |-> "probe", again |-> again, id |-> id, protocol |-> p])
               /\ Plain([pc |-> "found", again |-> again, id |-> id])
               /\ \A f, l : Plain([pc |-> "upsert", again |-> again, id |-> id, found |-> f, left |-> l])
    BY DEF Plain, AddSteps
  <1>3. ASSUME NEW id \in Ids, NEW again \in BOOLEAN, Discovery(t, id, again)
        PROVE  DvIInv'
    <2>1. OpTo(t, [pc |-> "probe", again |-> again, id |-> id, protocol |-> dvDvrs[id].protocol])
      BY <1>3 DEF Discovery
    <2>2. QED
      BY <1>1, <1>2, <2>1, OpKeeps
  <1>4. CASE ProbeDVRProtocol(t) \/ ProbeNotNeeded(t)
    <2>1. OpTo(t, [pc |-> "found", again |-> dvOp[t].again, id |-> dvOp[t].id])
      BY <1>4 DEF ProbeDVRProtocol, ProbeNotNeeded
    <2>2. QED
      BY <1>1, <1>2, <2>1, OpKeeps
  <1>5. CASE FindsNone(t)
    <2>1. OpTo(t, DvSend) \/ OpTo(t, DvIdle) \/ OpTo(t, SendThen(dvOp[t].again))
      BY <1>5 DEF FindsNone
    <2>2. QED
      BY <1>1, <2>1, SendOpsArePlain, OpKeeps
  <1>6. CASE Finds(t)
    <2>1. PICK found : OpTo(t, [pc |-> "upsert", again |-> dvOp[t].again, id |-> dvOp[t].id,
                                found |-> found, left |-> found])
      BY <1>6 DEF Finds
    <2>2. QED
      BY <1>1, <1>2, <2>1, OpKeeps
  <1>7. CASE UpsertChannel(t)
    <2>1. /\ dvOp[t].pc = "upsert"
          /\ \/ Changed(t, SendThen(dvOp[t].again))
             \/ \E l : Changed(t, [dvOp[t] EXCEPT !.left = l])
      BY <1>7 DEF UpsertChannel
    <2>2. ASSUME NEW l, Changed(t, [dvOp[t] EXCEPT !.left = l])
          PROVE  DvIInv'
      <3>1. PICK op, q : op = dvOp[t] /\ q = [op EXCEPT !.left = l]
        OBVIOUS
      <3>2. Plain(op)
        BY <2>1, <3>1 DEF DvIInv, DvShaped, Adding, AddSteps
      <3>3. Plain(q)
        BY <3>1, <3>2 DEF Plain
      <3>4. Changed(t, q)
        BY <2>2, <3>1
      <3>5. QED
        BY <1>1, <3>3, <3>4, OpKeeps
    <2>3. QED
      BY <1>1, <2>1, <2>2, SendOpsArePlain, OpKeeps
  <1>8. QED
    BY <1>3, <1>4, <1>5, <1>6, <1>7

(* One statement and a send.                                               *)
LEMMA StatementIInv ==
  ASSUME DvIInv, NEW t \in AllThreads,
         \/ \E id \in Ids, addr \in Addrs, p \in Selectable : UpdateDVR(t, id, addr, p)
         \/ \E id \in Ids : DeleteDVR(t, id) \/ ClearDVRChannels(t, id)
         \/ \E id \in Ids, order \in NewOrders : ReorderChannels(t, id, order)
         \/ \E c \in DOMAIN dvChans : EditChannel(t, c)
         \/ ResetDB(t) \/ AddRow(t)
  PROVE  DvIInv'
  <1>1. Changed(t, DvSend)
    BY DEF UpdateDVR, DeleteDVR, ClearDVRChannels, ReorderChannels, EditChannel, ResetDB, AddRow
  <1>2. UNCHANGED <<dvKeys, dvBlind>>
    BY DEF UpdateDVR, DeleteDVR, ClearDVRChannels, ReorderChannels, EditChannel, ResetDB, AddRow, DvRest
  <1>3. QED
    BY <1>1, <1>2, SendOpsArePlain, OpKeeps

LEMMA ConnIInv ==
  ASSUME DvIInv, ConnLost \/ Connects \/ UNCHANGED dvVars
  PROVE  DvIInv'
  <1>1. CASE Connects
    <2>1. OpTo(Connector, DvSend) /\ UNCHANGED <<dvKeys, dvBlind>> /\ Connector \in AllThreads
      BY <1>1 DEF Connects, DvStore, AllThreads
    <2>2. QED
      BY <2>1, SendOpsArePlain, OpKeeps
  <1>2. CASE ConnLost \/ UNCHANGED dvVars
    <2>1. UNCHANGED <<dvKeys, dvOp, dvBlind>>
      BY <1>2 DEF ConnLost, dvVars, DvStore
    <2>2. QED
      BY <2>1 DEF DvIInv, DvShaped, OneKeyEach, OneAdder, FindingsHold, FoundHolds, Having, Adding, Plain
  <1>3. QED
    BY <1>1, <1>2

LEMMA DvNextIInv == DvIInv /\ [DvNext]_dvVars => DvIInv'
  <1> SUFFICES ASSUME DvIInv, [DvNext]_dvVars
               PROVE  DvIInv'
    OBVIOUS
  <1>1. CASE ConnLost \/ Connects \/ UNCHANGED dvVars
    BY <1>1, ConnIInv
  <1>2. ASSUME NEW t \in AllThreads, ThreadStep(t)
        PROVE  DvIInv'
    BY <1>2, SendIInv, KeyMatchIInv, EnrichIInv, KeyMaxIInv, KeyInsertIInv, StatementIInv, DiscoveryIInv
       DEF ThreadStep
  <1>3. ASSUME NEW t \in Threads,
               \/ HandleSurvDVRs(t) \/ ApplySurvMeta(t) \/ ResetDB(t)
               \/ \E id \in Ids : HandleSurvDVR(t, id) \/ ReconnectAllDVRs(t, id) \/ HealDVRs(t, id)
        PROVE  DvIInv'
    <2>1. t \in AllThreads
      BY DEF AllThreads
    <2>2. CASE HandleSurvDVRs(t)
      BY <2>2, AddDVRIInv DEF HandleSurvDVRs
    <2>3. CASE ApplySurvMeta(t) \/ ResetDB(t)
      BY <2>1, <2>3, StatementIInv DEF ApplySurvMeta
    <2>4. ASSUME NEW id \in Ids, HandleSurvDVR(t, id)
          PROVE  DvIInv'
      BY <2>1, <2>4, StatementIInv, DiscoveryIInv DEF HandleSurvDVR, DiscoverChannels
    <2>5. ASSUME NEW id \in Ids, ReconnectAllDVRs(t, id) \/ HealDVRs(t, id)
          PROVE  DvIInv'
      BY <2>1, <2>5, DiscoveryIInv DEF ReconnectAllDVRs, HealDVRs
    <2>6. QED
      BY <1>3, <2>2, <2>3, <2>4, <2>5
  <1>4. QED
    BY <1>1, <1>2, <1>3 DEF DvNext

LEMMA DvInitIInv == DvInit => DvIInv
  <1> SUFFICES ASSUME DvInit
               PROVE  DvIInv
    OBVIOUS
  <1>1. /\ DOMAIN dvKeys = {1}
        /\ dvKeys[1] = [serial |-> NoFacet, mac |-> NoFacet, addr |-> SeedAddr]
        /\ DOMAIN dvOp = AllThreads
        /\ \A t \in AllThreads : dvOp[t] = DvIdle
    BY DEF DvInit
  <1>2. \A t \in AllThreads : Plain(dvOp[t]) /\ ~ Adding(dvOp[t])
    BY <1>1, SendOpsArePlain, AddingFacts
  <1>3. DvShaped
    BY <1>1, <1>2, DeviceStoreAssumption DEF DvShaped, Facets
  <1>4. QED
    BY <1>1, <1>2, <1>3 DEF DvIInv, OneKeyEach, OneAdder, FindingsHold

(* A key keeps the serial number it has.                                   *)
LEMMA SerialsKept == [DvNext]_dvVars => [SerialsStay]_dvVars
  <1> SUFFICES ASSUME DvNext
               PROVE  UNCHANGED dvKeys \/ SerialsStay
    BY DEF SerialsStay, dvVars
  <1>1. ASSUME NEW t \in AllThreads, EnrichDeviceKey(t)
        PROVE  SerialsStay
    <2>1. \A row : row.serial # NoFacet => Enriched(row, dvOp[t]).serial = row.serial
      BY DEF Enriched
    <2>2. /\ DOMAIN dvKeys' = DOMAIN dvKeys
          /\ \A k \in DOMAIN dvKeys :
                dvKeys'[k] = IF k = dvOp[t].key THEN Enriched(dvKeys[k], dvOp[t]) ELSE dvKeys[k]
      BY <1>1 DEF EnrichDeviceKey
    <2>3. QED
      BY <2>1, <2>2 DEF SerialsStay
  <1>2. ASSUME NEW t \in AllThreads, KeyInsert(t)
        PROVE  UNCHANGED dvKeys \/ SerialsStay
    BY <1>2 DEF KeyInsert, SerialsStay
  <1>3. ASSUME NEW t \in AllThreads, ThreadStep(t)
        PROVE  UNCHANGED dvKeys \/ EnrichDeviceKey(t) \/ KeyInsert(t)
    BY <1>3 DEF ThreadStep, SendLists, SendReads, SendWrites, KeyMatch, KeyMax, AddRow, ProbeDVRProtocol,
                ProbeNotNeeded, FindsNone, Finds, UpsertChannel, DvStore
  <1>4. ASSUME NEW t \in Threads,
               \/ HandleSurvDVRs(t) \/ ApplySurvMeta(t) \/ ResetDB(t)
               \/ \E id \in Ids : HandleSurvDVR(t, id) \/ ReconnectAllDVRs(t, id) \/ HealDVRs(t, id)
        PROVE  UNCHANGED dvKeys
    BY <1>4 DEF HandleSurvDVRs, AddDVR, ApplySurvMeta, EditChannel, ReorderChannels, ResetDB, HandleSurvDVR,
                DiscoverChannels, ClearDVRChannels, DeleteDVR, UpdateDVR, ReconnectAllDVRs, HealDVRs,
                Discovery, DvStore
  <1>5. CASE ConnLost \/ Connects
    BY <1>5 DEF ConnLost, Connects, DvStore
  <1>6. QED
    BY <1>1, <1>2, <1>3, <1>4, <1>5 DEF DvNext

(* A recorder keeps its identity (surveillance.go, resolveStableKey):      *)
(* however devices are added, moved to other addresses or swapped, removed *)
(* and added again, and whichever of serial number, MAC and address        *)
(* becomes known when, a serial number on record is under one key for      *)
(* ever, and a recorder that tells it is added under that key, unless two  *)
(* AddDVR ran at once or the look-up of a serial number failed.            *)
THEOREM IdentityHasOneKeyHolds == DvSpec => IdentityHasOneKey
  <1>1. DvIInv => dvBlind \/ (OneKeyEach /\ OwnKey)
    <2> SUFFICES ASSUME DvIInv, ~ dvBlind
                 PROVE  OneKeyEach /\ OwnKey
      OBVIOUS
    <2>1. \A t \in AllThreads : Keyed(t) => Adding(dvOp[t])
      BY DEF DvIInv, DvShaped, Keyed, Plain, AddSteps
    <2>2. QED
      BY <2>1 DEF DvIInv, OwnKey, FindingsHold, FoundHolds, Keyed
  <1>2. QED
    BY <1>1, DvInitIInv, DvNextIInv, SerialsKept, PTL DEF DvSpec, IdentityHasOneKey

-----------------------------------------------------------------------------
(* What the relay is told.  Every recorder has a key, and a key that was   *)
(* chosen is a number.                                                     *)
KeysBelow == \E n \in Nat : DOMAIN dvKeys \subseteq 0 .. n

KeyAt(op) ==
    /\ op.pc \in {"enrich", "row"} => op.key \in DOMAIN dvKeys
    /\ op.pc = "key" => op.key \in Nat

RowsHaveKeys == KeysBelow /\ Ids \subseteq DOMAIN dvKeys /\ \A t \in AllThreads : KeyAt(dvOp[t])

(* A thread that puts a configuration together has what is in the tables   *)
(* of the recorders it is through with, unless it knows them mixed.        *)
Gathers(op) ==
    op \in [pc : {"chans"}, again : {op.again}, dvrs : {op.dvrs}, left : {op.left},
            chans : {op.chans}, mixed : BOOLEAN]

GathersRight(op, dvrs, chans) ==
    /\ DOMAIN op.dvrs = DOMAIN dvrs /\ \A id \in DOMAIN dvrs : op.dvrs[id].addr = dvrs[id].addr
    /\ op.left \subseteq DOMAIN dvrs
    /\ op.chans = [c \in {d \in DOMAIN chans : d[1] \in DOMAIN dvrs \ op.left} |-> chans[c]]

(* One that has found channels has numbers of channels left to write.      *)
Upserts(op) ==
    /\ op \in [pc : {"upsert"}, again : {op.again}, id : {op.id}, found : SUBSET Nat, left : SUBSET Nat]
    /\ op.left # {}

ReadsRight ==
    \A t \in AllThreads :
        /\ dvOp[t].pc = "chans" =>
              /\ Gathers(dvOp[t])
              /\ dvOp[t].mixed \/ GathersRight(dvOp[t], dvDvrs, dvChans)
        /\ dvOp[t].pc = "upsert" => Upserts(dvOp[t])

(* While no thread is to send a configuration, the relay has the one there *)
(* is.                                                                     *)
Sending == {"dvrs", "chans", "upsert"}

RelayIsRight ==
    dvConn /\ ~ dvStale /\ (\A t \in AllThreads : dvOp[t].pc \notin Sending)
        => Protocolless(dvRelay) = Protocolless(DvConfig)

RlIInv == DvIInv /\ RowsHaveKeys /\ ReadsRight /\ RelayIsRight

(* What the other threads do: nothing but find their tables mixed.         *)
LEMMA Others ==
  ASSUME DvShaped, NEW t \in AllThreads, NEW op, OpTo(t, op) \/ Changed(t, op)
  PROVE  /\ dvOp'[t] = op
         /\ \A u \in AllThreads \ {t} :
               dvOp'[u] = dvOp[u] \/ (dvOp[u].pc = "chans" /\ dvOp'[u] = [dvOp[u] EXCEPT !.mixed = TRUE])
  BY DEF DvShaped, OpTo, Changed, Marked

LEMMA RowsKept ==
  ASSUME DvShaped, RowsHaveKeys, NEW t \in AllThreads, NEW op, OpTo(t, op) \/ Changed(t, op),
         DOMAIN dvKeys \subseteq DOMAIN dvKeys', KeysBelow', Ids' \subseteq DOMAIN dvKeys',
         KeyAt(op)'
  PROVE  RowsHaveKeys'
  <1>1. ASSUME NEW u \in AllThreads
        PROVE  KeyAt(dvOp[u])'
    <2>1. CASE u = t
      BY <2>1, Others
    <2>2. CASE u # t /\ dvOp'[u] = dvOp[u]
      BY <2>2 DEF RowsHaveKeys, KeyAt
    <2>3. CASE u # t /\ dvOp[u].pc = "chans" /\ dvOp'[u] = [dvOp[u] EXCEPT !.mixed = TRUE]
      <3>1. dvOp'[u].pc = "chans"
        <4>1. Plain(dvOp[u])
          BY <2>3 DEF DvShaped, Adding, AddSteps
        <4>2. QED
          BY <2>3, <4>1 DEF Plain
      <3>2. QED
        BY <3>1 DEF KeyAt
    <2>4. QED
      BY <2>1, <2>2, <2>3, Others
  <1>2. QED
    BY <1>1 DEF RowsHaveKeys, KeyAt

(* A step that leaves the tables, but for a protocol.                      *)
SameTables ==
    /\ dvChans' = dvChans /\ DOMAIN dvDvrs' = DOMAIN dvDvrs
    /\ \A id \in Ids : dvDvrs'[id].addr = dvDvrs[id].addr

LEMMA ConfigIs ==
  Protocolless(DvConfig) = [dvrs |-> [id \in Ids |-> dvDvrs[id].addr],
                            chans |-> [c \in {x \in DOMAIN dvChans : x[1] \in Ids} |-> dvChans[c]]]
  BY DEF Protocolless, DvConfig, Ids

LEMMA SameConfig ==
  ASSUME SameTables
  PROVE  /\ Protocolless(DvConfig)' = Protocolless(DvConfig)
         /\ \A op : GathersRight(op, dvDvrs', dvChans') <=> GathersRight(op, dvDvrs, dvChans)
  <1>1. Ids' = Ids /\ dvChans' = dvChans /\ \A id \in Ids : dvDvrs'[id].addr = dvDvrs[id].addr
    BY DEF SameTables, Ids
  <1>2. [id \in Ids' |-> dvDvrs'[id].addr] = [id \in Ids |-> dvDvrs[id].addr]
    BY <1>1
  <1>3. Protocolless(DvConfig)' = Protocolless(DvConfig)
    <2>1. Protocolless(DvConfig)' = [dvrs |-> [id \in Ids' |-> dvDvrs'[id].addr],
                    chans |-> [c \in {x \in DOMAIN dvChans' : x[1] \in Ids'} |-> dvChans'[c]]]
      BY DEF Protocolless, DvConfig, Ids
    <2>2. QED
      BY <1>1, <1>2, <2>1, ConfigIs
  <1>4. ASSUME NEW op
        PROVE  GathersRight(op, dvDvrs', dvChans') <=> GathersRight(op, dvDvrs, dvChans)
    BY <1>1 DEF GathersRight, Ids
  <1>5. QED
    BY <1>3, <1>4

LEMMA TablesStay ==
  ASSUME DvShaped, ReadsRight, RelayIsRight, SameTables, UNCHANGED <<dvConn, dvRelay, dvStale>>,
         NEW t \in AllThreads, NEW op, OpTo(t, op), dvOp[t].pc \in Sending => op.pc \in Sending,
         op.pc = "chans" => Gathers(op) /\ (op.mixed \/ GathersRight(op, dvDvrs, dvChans)),
         op.pc = "upsert" => Upserts(op)
  PROVE  ReadsRight' /\ RelayIsRight'
  <1>1. dvOp'[t] = op /\ \A u \in AllThreads \ {t} : dvOp'[u] = dvOp[u]
    BY DEF DvShaped, OpTo
  <1>2. /\ Protocolless(DvConfig)' = Protocolless(DvConfig)
        /\ \A q : GathersRight(q, dvDvrs', dvChans') <=> GathersRight(q, dvDvrs, dvChans)
    BY SameConfig
  <1>3. ASSUME NEW u \in AllThreads, dvOp'[u].pc = "chans"
        PROVE  Gathers(dvOp'[u]) /\ (dvOp'[u].mixed \/ GathersRight(dvOp'[u], dvDvrs', dvChans'))
    <2>1. PICK q : q = dvOp'[u]
      OBVIOUS
    <2>2. Gathers(q) /\ (q.mixed \/ GathersRight(q, dvDvrs, dvChans))
      BY <1>1, <1>3, <2>1 DEF ReadsRight
    <2>3. GathersRight(q, dvDvrs', dvChans') <=> GathersRight(q, dvDvrs, dvChans)
      BY <1>2
    <2>4. QED
      BY <2>1, <2>2, <2>3
  <1>4. ReadsRight'
    <2>1. \A u \in AllThreads : dvOp'[u].pc = "upsert" => Upserts(dvOp'[u])
      BY <1>1 DEF ReadsRight
    <2>2. QED
      BY <1>3, <2>1 DEF ReadsRight
  <1>5. RelayIsRight'
    <2>1. SUFFICES ASSUME dvConn', ~ dvStale', \A u \in AllThreads : dvOp'[u].pc \notin Sending
                   PROVE  Protocolless(dvRelay') = Protocolless(DvConfig)'
      BY DEF RelayIsRight
    <2>2. \A u \in AllThreads : dvOp[u].pc \notin Sending
      BY <1>1, <2>1
    <2>3. Protocolless(dvRelay) = Protocolless(DvConfig)
      BY <2>1, <2>2 DEF RelayIsRight
    <2>4. QED
      BY <1>2, <2>3
  <1>6. QED
    BY <1>4, <1>5

(* A step that changes a table, after which its thread has yet to send.    *)
LEMMA TablesChange ==
  ASSUME DvShaped, ReadsRight, NEW t \in AllThreads, NEW op, Changed(t, op), op.pc \in {"dvrs", "upsert"},
         op.pc = "upsert" => Upserts(op)
  PROVE  ReadsRight' /\ RelayIsRight'
  <1>1. ASSUME NEW u \in AllThreads, dvOp'[u].pc = "chans"
        PROVE  Gathers(dvOp'[u]) /\ dvOp'[u].mixed
    <2>1. dvOp[u].pc = "chans" /\ dvOp'[u] = [dvOp[u] EXCEPT !.mixed = TRUE]
      BY <1>1 DEF Changed, Marked
    <2>2. PICK q, p : q = dvOp[u] /\ p = [q EXCEPT !.mixed = TRUE]
      OBVIOUS
    <2>3. Gathers(q)
      BY <2>1, <2>2 DEF ReadsRight
    <2>4. Gathers(p) /\ p.mixed
      BY <2>2, <2>3 DEF Gathers
    <2>5. QED
      BY <2>1, <2>2, <2>4
  <1>2. dvOp'[t].pc \in Sending
    BY Others DEF Sending
  <1>3. ASSUME NEW u \in AllThreads, dvOp'[u].pc = "upsert"
        PROVE  Upserts(dvOp'[u])
    <2>1. CASE u = t
      BY <1>3, <2>1, Others
    <2>2. CASE u # t /\ dvOp'[u] = dvOp[u]
      BY <1>3, <2>2 DEF ReadsRight
    <2>3. CASE u # t /\ dvOp[u].pc = "chans" /\ dvOp'[u] = [dvOp[u] EXCEPT !.mixed = TRUE]
      <3>1. Plain(dvOp[u])
        BY <2>3 DEF DvShaped, Adding, AddSteps
      <3>2. dvOp'[u].pc = "chans"
        BY <2>3, <3>1 DEF Plain
      <3>3. QED
        BY <1>3, <3>2
    <2>4. QED
      BY <2>1, <2>2, <2>3, Others
  <1>4. QED
    BY <1>1, <1>2, <1>3 DEF ReadsRight, RelayIsRight

-----------------------------------------------------------------------------
LEMMA SendListsRight ==
  ASSUME RlIInv, NEW t \in AllThreads, SendLists(t)
  PROVE  RowsHaveKeys' /\ ReadsRight' /\ RelayIsRight'
  <1>1. PICK q : /\ q = [pc |-> "chans", again |-> dvOp[t].again, dvrs |-> dvDvrs, left |-> Ids,
                         chans |-> [c \in {} |-> 0], mixed |-> FALSE]
                 /\ OpTo(t, q)
    BY DEF SendLists
  <1>2. UNCHANGED <<dvKeys, dvDvrs, dvChans, dvConn, dvRelay, dvStale>>
    BY DEF SendLists, DvStore, DvRest
  <1>3. q.pc = "chans" /\ Gathers(q)
    BY <1>1 DEF Gathers
  <1>4. GathersRight(q, dvDvrs, dvChans)
    <2>1. /\ q.dvrs = dvDvrs /\ q.left = DOMAIN dvDvrs /\ q.chans = [c \in {} |-> 0]
      BY <1>1 DEF Ids
    <2>2. {d \in DOMAIN dvChans : d[1] \in DOMAIN dvDvrs \ q.left} = {}
      BY <2>1
    <2>3. QED
      BY <2>1, <2>2 DEF GathersRight
  <1>5. RowsHaveKeys'
    <2>1. DvShaped /\ RowsHaveKeys /\ KeysBelow' /\ Ids' \subseteq DOMAIN dvKeys'
      BY <1>2 DEF RlIInv, DvIInv, RowsHaveKeys, KeysBelow, Ids
    <2>2. KeyAt(q)'
      BY <1>3 DEF KeyAt
    <2>3. QED
      BY <1>1, <1>2, <2>1, <2>2, RowsKept
  <1>6. ReadsRight' /\ RelayIsRight'
    <2>1. SameTables
      BY <1>2 DEF SameTables
    <2>2. DvShaped /\ ReadsRight /\ RelayIsRight /\ q.pc \in Sending
      BY <1>3 DEF RlIInv, DvIInv, Sending
    <2>3. QED
      BY <1>1, <1>2, <1>3, <1>4, <2>1, <2>2, TablesStay
  <1>7. QED
    BY <1>5, <1>6

LEMMA SendReadsRight ==
  ASSUME RlIInv, NEW t \in AllThreads, SendReads(t)
  PROVE  RowsHaveKeys' /\ ReadsRight' /\ RelayIsRight'
  <1>1. PICK op, id : op = dvOp[t] /\ id = Min(op.left)
    OBVIOUS
  <1>2. PICK chans : chans = [c \in DOMAIN op.chans \cup ChansOf(id) |->
                                 IF c[1] = id THEN dvChans[c] ELSE op.chans[c]]
    OBVIOUS
  <1>3. Gathers(op) /\ (op.mixed \/ GathersRight(op, dvDvrs, dvChans)) /\ op.left # {}
        /\ op.pc = "chans"
    BY <1>1 DEF RlIInv, ReadsRight, SendReads
  <1>4. PICK q : q = [op EXCEPT !.left = op.left \ {id}, !.chans = chans]
    OBVIOUS
  <1>5. /\ Gathers(q) /\ q.pc = "chans" /\ q.mixed = op.mixed /\ q.dvrs = op.dvrs
        /\ q.left = op.left \ {id} /\ q.chans = chans
    BY <1>3, <1>4 DEF Gathers
  <1>6. OpTo(t, q)
    <2>1. OpTo(t, [op EXCEPT !.left = @ \ {id},
                             !.chans = [c \in DOMAIN @ \cup ChansOf(id) |->
                                           IF c[1] = id THEN dvChans[c] ELSE @[c]]])
      BY <1>1 DEF SendReads
    <2>2. QED
      BY <1>2, <1>4, <2>1
  <1>7. UNCHANGED <<dvKeys, dvDvrs, dvChans, dvConn, dvRelay, dvStale>>
    BY DEF SendReads, DvStore, DvRest
  <1>8. ASSUME GathersRight(op, dvDvrs, dvChans)
        PROVE  GathersRight(q, dvDvrs, dvChans)
    <2>1. op.left \subseteq Ids /\ Ids \subseteq Nat
      <3>1. PICK n \in Nat : DOMAIN dvKeys \subseteq 0 .. n
        BY DEF RlIInv, RowsHaveKeys, KeysBelow
      <3>2. QED
        BY <1>8, <3>1 DEF RlIInv, RowsHaveKeys, GathersRight, Ids
    <2>2. id \in op.left
      BY <1>1, <1>3, <2>1, MinIsIn
    <2>3. PICK D : D = {d \in DOMAIN dvChans : d[1] \in Ids \ q.left}
      OBVIOUS
    <2>4. op.chans = [c \in {d \in DOMAIN dvChans : d[1] \in Ids \ op.left} |-> dvChans[c]]
      BY <1>8 DEF GathersRight, Ids
    <2>5. DOMAIN chans = D
      <3>1. DOMAIN chans = {d \in DOMAIN dvChans : d[1] \in Ids \ op.left} \cup ChansOf(id)
        BY <1>2, <2>4
      <3>2. QED
        BY <1>5, <2>1, <2>2, <2>3, <3>1 DEF ChansOf
    <2>6. \A c \in D : chans[c] = dvChans[c]
      BY <1>2, <1>5, <2>3, <2>4, <2>5
    <2>7. chans = [c \in D |-> dvChans[c]]
      BY <1>2, <2>5, <2>6
    <2>8. QED
      BY <1>5, <1>8, <2>3, <2>7 DEF GathersRight, Ids
  <1>9. RowsHaveKeys'
    <2>1. DvShaped /\ RowsHaveKeys /\ KeysBelow' /\ Ids' \subseteq DOMAIN dvKeys'
      BY <1>7 DEF RlIInv, DvIInv, RowsHaveKeys, KeysBelow, Ids
    <2>2. KeyAt(q)'
      BY <1>5 DEF KeyAt
    <2>3. QED
      BY <1>6, <1>7, <2>1, <2>2, RowsKept
  <1>10. ReadsRight' /\ RelayIsRight'
    <2>1. SameTables
      BY <1>7 DEF SameTables
    <2>2. DvShaped /\ ReadsRight /\ RelayIsRight /\ q.pc \in Sending
      BY <1>5 DEF RlIInv, DvIInv, Sending
    <2>3. Gathers(q) /\ (q.mixed \/ GathersRight(q, dvDvrs, dvChans)) /\ q.pc # "upsert"
      BY <1>3, <1>5, <1>8
    <2>4. QED
      BY <1>6, <1>7, <2>1, <2>2, <2>3, TablesStay
  <1>11. QED
    BY <1>9, <1>10

(* The relay gets what was put together: all of it, or a mixture.          *)
LEMMA SendWritesRight ==
  ASSUME RlIInv, NEW t \in AllThreads, SendWrites(t)
  PROVE  RowsHaveKeys' /\ ReadsRight' /\ RelayIsRight'
  <1>1. PICK op, q : op = dvOp[t] /\ q = IF op.again THEN DvSend ELSE DvIdle
    OBVIOUS
  <1>2. /\ op.pc = "chans" /\ op.left = {} /\ OpTo(t, q) /\ UNCHANGED <<dvKeys, dvDvrs, dvChans, dvConn>>
        /\ IF dvConn THEN dvRelay' = [dvrs |-> op.dvrs, chans |-> op.chans] /\ dvStale' = op.mixed
           ELSE UNCHANGED <<dvRelay, dvStale>>
    BY <1>1 DEF SendWrites, DvStore
  <1>3. q.pc \in {"dvrs", "idle"}
    BY <1>1 DEF DvSend, SendThen, DvIdle
  <1>4. RowsHaveKeys'
    <2>1. DvShaped /\ RowsHaveKeys /\ KeysBelow' /\ Ids' \subseteq DOMAIN dvKeys'
      BY <1>2 DEF RlIInv, DvIInv, RowsHaveKeys, KeysBelow, Ids
    <2>2. KeyAt(q)'
      BY <1>3 DEF KeyAt
    <2>3. QED
      BY <1>2, <2>1, <2>2, RowsKept
  <1>5. dvOp'[t] = q /\ \A u \in AllThreads \ {t} : dvOp'[u] = dvOp[u]
    BY <1>2 DEF RlIInv, DvIInv, DvShaped, OpTo
  <1>6. ReadsRight'
    BY <1>2, <1>3, <1>5 DEF RlIInv, ReadsRight
  <1>7. RelayIsRight'
    <2>1. SUFFICES ASSUME dvConn', ~ dvStale'
                   PROVE  Protocolless(dvRelay)' = Protocolless(DvConfig)'
      BY DEF RelayIsRight
    <2>2. dvRelay' = [dvrs |-> op.dvrs, chans |-> op.chans] /\ ~ op.mixed
      BY <1>2, <2>1
    <2>3. GathersRight(op, dvDvrs, dvChans)
      BY <1>1, <1>2, <2>2 DEF RlIInv, ReadsRight
    <2>4. /\ DOMAIN op.dvrs = Ids /\ \A id \in Ids : op.dvrs[id].addr = dvDvrs[id].addr
          /\ op.chans = [c \in {d \in DOMAIN dvChans : d[1] \in Ids} |-> dvChans[c]]
      BY <1>2, <2>3 DEF GathersRight, Ids
    <2>5. Protocolless(dvRelay)' = [dvrs |-> [id \in DOMAIN op.dvrs |-> op.dvrs[id].addr],
                                    chans |-> op.chans]
      BY <2>2 DEF Protocolless
    <2>6. [id \in DOMAIN op.dvrs |-> op.dvrs[id].addr] = [id \in Ids |-> dvDvrs[id].addr]
      BY <2>4
    <2>7. Protocolless(DvConfig)' = Protocolless(DvConfig)
      BY <1>2, SameConfig DEF SameTables
    <2>8. QED
      BY <2>4, <2>5, <2>6, <2>7, ConfigIs
  <1>8. QED
    BY <1>4, <1>6, <1>7

LEMMA OpRight ==
  ASSUME RlIInv, NEW t \in AllThreads, NEW op, OpTo(t, op), SameTables,
         UNCHANGED <<dvConn, dvRelay, dvStale>>, dvOp[t].pc \notin Sending, op.pc # "chans",
         op.pc = "upsert" => Upserts(op),
         DOMAIN dvKeys \subseteq DOMAIN dvKeys', KeysBelow', KeyAt(op)'
  PROVE  RowsHaveKeys' /\ ReadsRight' /\ RelayIsRight'
  <1>1. Ids' \subseteq DOMAIN dvKeys'
    BY DEF RlIInv, RowsHaveKeys, SameTables, Ids
  <1>2. RowsHaveKeys'
    BY <1>1, RowsKept DEF RlIInv, DvIInv
  <1>3. ReadsRight' /\ RelayIsRight'
    BY TablesStay DEF RlIInv, DvIInv
  <1>4. QED
    BY <1>2, <1>3

LEMMA SameKeys ==
  ASSUME RlIInv, UNCHANGED dvKeys
  PROVE  DOMAIN dvKeys \subseteq DOMAIN dvKeys' /\ KeysBelow'
  BY DEF RlIInv, RowsHaveKeys, KeysBelow

(* The operation of a thread that is adding a recorder.                    *)
LEMMA IsAdding ==
  ASSUME RlIInv, NEW t \in AllThreads, dvOp[t].pc \in AddSteps
  PROVE  /\ Adding(dvOp[t]) /\ dvOp[t].pc \notin Sending
         /\ \A pc, key : /\ [dvOp[t] EXCEPT !.pc = pc, !.key = key].pc = pc
                         /\ [dvOp[t] EXCEPT !.pc = pc, !.key = key].key = key
         /\ \A pc : /\ [dvOp[t] EXCEPT !.pc = pc].pc = pc
                    /\ [dvOp[t] EXCEPT !.pc = pc].key = dvOp[t].key
  <1>1. Adding(dvOp[t])
    BY DEF RlIInv, DvIInv, DvShaped, Plain
  <1>2. PICK op : op = dvOp[t]
    OBVIOUS
  <1>3. /\ \A pc, key : [op EXCEPT !.pc = pc, !.key = key].pc = pc /\ [op EXCEPT !.pc = pc, !.key = key].key = key
        /\ \A pc : [op EXCEPT !.pc = pc].pc = pc /\ [op EXCEPT !.pc = pc].key = op.key
    BY <1>1, <1>2 DEF Adding
  <1>4. dvOp[t].pc \notin Sending
    BY DEF AddSteps, Sending
  <1>5. QED
    BY <1>1, <1>2, <1>3, <1>4

LEMMA KeyMatchRight ==
  ASSUME RlIInv, NEW t \in AllThreads, KeyMatch(t)
  PROVE  RowsHaveKeys' /\ ReadsRight' /\ RelayIsRight'
  <1>1. /\ dvOp[t].pc = "match" /\ UNCHANGED <<dvKeys, dvConn, dvRelay, dvStale>> /\ SameTables
    BY KeyMatchFacts DEF SameTables
  <1>2. dvOp[t].pc \in AddSteps
    BY <1>1 DEF AddSteps
  <1>a. PICK failing, found : found = Matches(dvOp[t], failing) /\ GoOnWith(t, dvOp[t], found)
    BY KeyMatchFacts
  <1>3. CASE found # {}
    <2>1. PICK k \in found : OpTo(t, [dvOp[t] EXCEPT !.pc = "enrich", !.key = k])
      BY <1>a, <1>3 DEF GoOnWith
    <2>2. PICK q : q = [dvOp[t] EXCEPT !.pc = "enrich", !.key = k]
      OBVIOUS
    <2>3. q.pc = "enrich" /\ q.key = k /\ OpTo(t, q)
      BY <1>2, <2>1, <2>2, IsAdding
    <2>4. k \in DOMAIN dvKeys
      BY <1>a, <2>1 DEF Matches, Having
    <2>5. KeyAt(q)'
      BY <1>1, <2>3, <2>4 DEF KeyAt
    <2>6. q.pc # "chans" /\ dvOp[t].pc \notin Sending
      BY <1>2, <2>3, IsAdding
    <2>7. QED
      BY <1>1, <2>3, <2>5, <2>6, OpRight, SameKeys
  <1>4. CASE found = {}
    <2>1. PICK q : q = [dvOp[t] EXCEPT !.pc = "max"]
      OBVIOUS
    <2>2. q.pc = "max" /\ OpTo(t, q)
      BY <1>a, <1>2, <1>4, <2>1, IsAdding DEF GoOnWith
    <2>3. KeyAt(q)' /\ q.pc # "chans" /\ dvOp[t].pc \notin Sending
      BY <1>2, <2>2, IsAdding DEF KeyAt
    <2>4. QED
      BY <1>1, <2>2, <2>3, OpRight, SameKeys
  <1>5. QED
    BY <1>3, <1>4

LEMMA EnrichRight ==
  ASSUME RlIInv, NEW t \in AllThreads, EnrichDeviceKey(t)
  PROVE  RowsHaveKeys' /\ ReadsRight' /\ RelayIsRight'
  <1>1. /\ dvOp[t].pc = "enrich" /\ DOMAIN dvKeys' = DOMAIN dvKeys /\ UNCHANGED <<dvConn, dvRelay, dvStale>>
        /\ SameTables
    BY DEF EnrichDeviceKey, DvRest, SameTables
  <1>2. dvOp[t].pc \in AddSteps /\ dvOp[t].key \in DOMAIN dvKeys
    BY <1>1 DEF AddSteps, RlIInv, RowsHaveKeys, KeyAt
  <1>3. PICK q : q = [dvOp[t] EXCEPT !.pc = "row"]
    OBVIOUS
  <1>4. q.pc = "row" /\ q.key = dvOp[t].key /\ OpTo(t, q)
    BY <1>2, <1>3, IsAdding DEF EnrichDeviceKey
  <1>5. KeyAt(q)' /\ q.pc # "chans" /\ dvOp[t].pc \notin Sending
    BY <1>1, <1>2, <1>4, IsAdding DEF KeyAt
  <1>6. KeysBelow'
    BY <1>1 DEF RlIInv, RowsHaveKeys, KeysBelow
  <1>7. QED
    BY <1>1, <1>4, <1>5, <1>6, OpRight

LEMMA KeyMaxRight ==
  ASSUME RlIInv, NEW t \in AllThreads, KeyMax(t)
  PROVE  RowsHaveKeys' /\ ReadsRight' /\ RelayIsRight'
  <1>1. /\ dvOp[t].pc = "max" /\ UNCHANGED <<dvKeys, dvConn, dvRelay, dvStale>> /\ SameTables
    BY DEF KeyMax, DvStore, DvRest, SameTables
  <1>2. dvOp[t].pc \in AddSteps
    BY <1>1 DEF AddSteps
  <1>3. PICK m \in {0, Max(DOMAIN dvKeys \cup {0})} : OpTo(t, [dvOp[t] EXCEPT !.pc = "key", !.key = m + 1])
    BY DEF KeyMax
  <1>4. m \in Nat
    <2>1. PICK n \in Nat : DOMAIN dvKeys \subseteq 0 .. n
      BY DEF RlIInv, RowsHaveKeys, KeysBelow
    <2>2. PICK S : S = DOMAIN dvKeys \cup {0}
      OBVIOUS
    <2>3. S \in SUBSET (0 .. n) /\ S # {}
      BY <2>1, <2>2
    <2>4. m \in S \cup {0}
      <3>1. S \subseteq Nat /\ IsFiniteSet(S)
        BY <2>3, UpToIsFinite
      <3>2. QED
        BY <1>3, <2>2, <2>3, <3>1, MaxIsIn
    <2>5. QED
      BY <2>3, <2>4
  <1>5. PICK q : q = [dvOp[t] EXCEPT !.pc = "key", !.key = m + 1]
    OBVIOUS
  <1>6. q.pc = "key" /\ q.key = m + 1 /\ OpTo(t, q)
    BY <1>2, <1>3, <1>5, IsAdding
  <1>7. KeyAt(q)' /\ q.pc # "chans" /\ dvOp[t].pc \notin Sending
    BY <1>2, <1>4, <1>6, IsAdding DEF KeyAt
  <1>8. QED
    BY <1>1, <1>6, <1>7, OpRight, SameKeys

LEMMA KeyInsertRight ==
  ASSUME RlIInv, NEW t \in AllThreads, KeyInsert(t)
  PROVE  RowsHaveKeys' /\ ReadsRight' /\ RelayIsRight'
  <1>1. /\ dvOp[t].pc = "key" /\ UNCHANGED <<dvConn, dvRelay, dvStale>> /\ SameTables
    BY DEF KeyInsert, DvRest, SameTables
  <1>2. dvOp[t].pc \in AddSteps /\ dvOp[t].key \in Nat
    BY <1>1 DEF AddSteps, RlIInv, RowsHaveKeys, KeyAt
  <1>3. CASE dvOp[t].key \in DOMAIN dvKeys
    <2>1. OpTo(t, DvIdle) /\ UNCHANGED dvKeys
      BY <1>3 DEF KeyInsert
    <2>2. KeyAt(DvIdle)' /\ DvIdle.pc \notin {"chans", "upsert"} /\ dvOp[t].pc \notin Sending
      BY <1>2, IsAdding DEF KeyAt, DvIdle
    <2>3. QED
      BY <1>1, <2>1, <2>2, OpRight, SameKeys
  <1>4. CASE dvOp[t].key \notin DOMAIN dvKeys
    <2>1. PICK q : q = [dvOp[t] EXCEPT !.pc = "row"]
      OBVIOUS
    <2>2. q.pc = "row" /\ q.key = dvOp[t].key /\ OpTo(t, q)
      BY <1>2, <1>4, <2>1, IsAdding DEF KeyInsert
    <2>3. DOMAIN dvKeys' = DOMAIN dvKeys \cup {dvOp[t].key}
      BY <1>4 DEF KeyInsert
    <2>4. KeysBelow'
      <3>1. PICK n \in Nat : DOMAIN dvKeys \subseteq 0 .. n
        BY DEF RlIInv, RowsHaveKeys, KeysBelow
      <3>2. PICK k \in Nat : k = dvOp[t].key
        BY <1>2
      <3>3. n + k \in Nat /\ 0 .. n \subseteq 0 .. n + k /\ k \in 0 .. n + k
        OBVIOUS
      <3>4. DOMAIN dvKeys' \subseteq 0 .. n + k
        BY <2>3, <3>1, <3>2, <3>3
      <3>5. QED
        BY <3>3, <3>4 DEF KeysBelow
    <2>5. KeyAt(q)' /\ q.pc # "chans" /\ dvOp[t].pc \notin Sending
      BY <1>2, <2>2, <2>3, IsAdding DEF KeyAt
    <2>6. QED
      BY <1>1, <2>2, <2>3, <2>4, <2>5, OpRight
  <1>5. QED
    BY <1>3, <1>4

LEMMA BeginsRight ==
  ASSUME RlIInv, NEW t \in AllThreads,
         \/ \E addr, p : \E who : AddDVR(t, who, addr, p)
         \/ \E id, again : Discovery(t, id, again)
  PROVE  RowsHaveKeys' /\ ReadsRight' /\ RelayIsRight'
  <1>1. /\ dvOp[t] = DvIdle /\ UNCHANGED <<dvKeys, dvConn, dvRelay, dvStale>> /\ SameTables
    BY DEF AddDVR, Discovery, MayBegin, DvStore, SameTables
  <1>2. dvOp[t].pc \notin Sending
    BY <1>1 DEF DvIdle, Sending
  <1>3. PICK q : OpTo(t, q) /\ q.pc \in {"match", "probe"}
    <2>1. ASSUME NEW addr, NEW p, NEW who, AddDVR(t, who, addr, p)
          PROVE  \E q : OpTo(t, q) /\ q.pc \in {"match", "probe"}
      <3>1. PICK q : q = [pc |-> "match", serial |-> who.serial, mac |-> who.mac, addr |-> addr,
                          protocol |-> p, key |-> 0]
        OBVIOUS
      <3>2. OpTo(t, q) /\ q.pc = "match"
        BY <2>1, <3>1 DEF AddDVR
      <3>3. QED
        BY <3>2
    <2>2. ASSUME NEW id, NEW again, Discovery(t, id, again)
          PROVE  \E q : OpTo(t, q) /\ q.pc \in {"match", "probe"}
      <3>1. PICK q : q = [pc |-> "probe", again |-> again, id |-> id, protocol |-> dvDvrs[id].protocol]
        OBVIOUS
      <3>2. OpTo(t, q) /\ q.pc = "probe"
        BY <2>2, <3>1 DEF Discovery
      <3>3. QED
        BY <3>2
    <2>3. QED
      BY <2>1, <2>2
  <1>4. KeyAt(q)' /\ q.pc # "chans"
    BY <1>3 DEF KeyAt
  <1>5. QED
    BY <1>1, <1>2, <1>3, <1>4, OpRight, SameKeys

LEMMA DiscoveryRight ==
  ASSUME RlIInv, NEW t \in AllThreads,
         ProbeDVRProtocol(t) \/ ProbeNotNeeded(t) \/ FindsNone(t) \/ Finds(t)
  PROVE  RowsHaveKeys' /\ ReadsRight' /\ RelayIsRight'
  <1>1. UNCHANGED <<dvKeys, dvConn, dvRelay, dvStale>>
    BY DEF ProbeDVRProtocol, ProbeNotNeeded, FindsNone, Finds, DvStore, DvRest
  <1>2. SameTables
    <2>1. CASE ProbeDVRProtocol(t)
      <3>1. PICK p : dvDvrs' = [i \in Ids |-> IF i = dvOp[t].id THEN [dvDvrs[i] EXCEPT !.protocol = p]
                                              ELSE dvDvrs[i]]
        BY <2>1 DEF ProbeDVRProtocol
      <3>2. ASSUME NEW row
            PROVE  [row EXCEPT !.protocol = p].addr = row.addr
        OBVIOUS
      <3>3. \A id \in Ids : dvDvrs'[id].addr = dvDvrs[id].addr
        BY <3>1, <3>2
      <3>4. QED
        BY <2>1, <3>1, <3>3 DEF ProbeDVRProtocol, SameTables, Ids
    <2>2. CASE ProbeNotNeeded(t) \/ FindsNone(t) \/ Finds(t)
      BY <2>2 DEF ProbeNotNeeded, FindsNone, Finds, DvStore, SameTables
    <2>3. QED
      BY <2>1, <2>2
  <1>3. dvOp[t].pc \notin Sending
    BY DEF ProbeDVRProtocol, ProbeNotNeeded, FindsNone, Finds, Sending
  <1>4. PICK q : /\ OpTo(t, q) /\ q.pc \in {"found", "dvrs", "idle", "upsert"}
                 /\ q.pc = "upsert" => Upserts(q)
    <2>1. CASE ProbeDVRProtocol(t) \/ ProbeNotNeeded(t)
      <3>1. PICK q : q = [pc |-> "found", again |-> dvOp[t].again, id |-> dvOp[t].id]
        OBVIOUS
      <3>2. OpTo(t, q) /\ q.pc = "found"
        BY <2>1, <3>1 DEF ProbeDVRProtocol, ProbeNotNeeded
      <3>3. QED
        BY <3>2
    <2>2. CASE FindsNone(t)
      <3>1. /\ \A a : SendThen(a).pc = "dvrs"
            /\ DvSend.pc = "dvrs" /\ DvIdle.pc = "idle"
        BY DEF SendThen, DvSend, DvIdle
      <3>2. OpTo(t, DvSend) \/ OpTo(t, DvIdle) \/ OpTo(t, SendThen(dvOp[t].again))
        BY <2>2 DEF FindsNone
      <3>3. QED
        BY <3>1, <3>2
    <2>3. CASE Finds(t)
      <3>1. PICK found \in Rounds :
                OpTo(t, [pc |-> "upsert", again |-> dvOp[t].again, id |-> dvOp[t].id,
                         found |-> found, left |-> found])
        BY <2>3 DEF Finds
      <3>2. PICK q : q = [pc |-> "upsert", again |-> dvOp[t].again, id |-> dvOp[t].id,
                          found |-> found, left |-> found]
        OBVIOUS
      <3>3. OpTo(t, q) /\ q.pc = "upsert"
        BY <3>1, <3>2
      <3>4. Upserts(q)
        BY <3>2, DeviceStoreAssumption DEF Upserts
      <3>5. QED
        BY <3>3, <3>4
    <2>4. QED
      BY <2>1, <2>2, <2>3
  <1>5. KeyAt(q)' /\ q.pc # "chans"
    BY <1>4 DEF KeyAt
  <1>6. QED
    BY <1>1, <1>2, <1>3, <1>4, <1>5, OpRight, SameKeys

(* A statement that changes a table, and then a send or the next one.      *)
LEMMA StatementRight ==
  ASSUME RlIInv, NEW t \in AllThreads, NEW op, Changed(t, op), op.pc \in {"dvrs", "upsert"},
         op.pc = "upsert" => Upserts(op), UNCHANGED dvKeys, Ids' \subseteq DOMAIN dvKeys
  PROVE  RowsHaveKeys' /\ ReadsRight' /\ RelayIsRight'
  <1>1. ReadsRight' /\ RelayIsRight'
    BY TablesChange DEF RlIInv, DvIInv
  <1>2. KeyAt(op)'
    BY DEF KeyAt
  <1>3. RowsHaveKeys'
    BY <1>2, RowsKept, SameKeys DEF RlIInv, DvIInv
  <1>4. QED
    BY <1>1, <1>3

LEMMA StatementsRight ==
  ASSUME RlIInv, NEW t \in AllThreads,
         \/ \E id \in Ids, addr \in Addrs, p \in Selectable : UpdateDVR(t, id, addr, p)
         \/ \E id \in Ids : DeleteDVR(t, id) \/ ClearDVRChannels(t, id)
         \/ \E id \in Ids, order \in NewOrders : ReorderChannels(t, id, order)
         \/ \E c \in DOMAIN dvChans : EditChannel(t, c)
         \/ ResetDB(t) \/ AddRow(t) \/ UpsertChannel(t)
  PROVE  RowsHaveKeys' /\ ReadsRight' /\ RelayIsRight'
  <1>1. UNCHANGED dvKeys
    BY DEF UpdateDVR, DeleteDVR, ClearDVRChannels, ReorderChannels, EditChannel, ResetDB, AddRow, UpsertChannel
  <1>2. Ids \subseteq DOMAIN dvKeys
    BY DEF RlIInv, RowsHaveKeys
  <1>3. DvSend.pc = "dvrs" /\ \A again : SendThen(again).pc = "dvrs"
    BY DEF SendThen, DvSend
  <1>4. CASE AddRow(t)
    <2>1. PICK row : dvDvrs' = [id \in Ids \cup {dvOp[t].key} |-> IF id = dvOp[t].key THEN row ELSE dvDvrs[id]]
      BY <1>4 DEF AddRow
    <2>2. Ids' = {dvOp[t].key} \cup Ids
      BY <2>1 DEF Ids
    <2>3. dvOp[t].key \in DOMAIN dvKeys
      BY <1>4 DEF AddRow, RlIInv, RowsHaveKeys, KeyAt
    <2>4. Changed(t, DvSend)
      BY <1>4 DEF AddRow
    <2>5. QED
      BY <1>1, <1>2, <1>3, <2>2, <2>3, <2>4, StatementRight
  <1>5. CASE UpsertChannel(t)
    <2>1. dvOp[t].pc = "upsert" /\ Ids' = Ids
      BY <1>5 DEF UpsertChannel, Ids
    <2>2. PICK op, n : op = dvOp[t] /\ n = Min(op.left)
      OBVIOUS
    <2>3. Upserts(op)
      BY <2>1, <2>2 DEF RlIInv, ReadsRight
    <2>4. CASE op.left = {n}
      <3>1. Changed(t, SendThen(op.again))
        BY <1>5, <2>2, <2>4 DEF UpsertChannel
      <3>2. SendThen(op.again).pc = "dvrs"
        BY <1>3
      <3>3. QED
        BY <1>1, <1>2, <2>1, <3>1, <3>2, StatementRight
    <2>5. CASE op.left # {n}
      <3>1. PICK q : q = [op EXCEPT !.left = op.left \ {n}]
        OBVIOUS
      <3>2. Changed(t, q)
        BY <1>5, <2>2, <2>5, <3>1 DEF UpsertChannel
      <3>3. op.left \ {n} # {}
        BY <2>3, <2>5 DEF Upserts
      <3>4. q.pc = "upsert" /\ Upserts(q)
        BY <2>3, <3>1, <3>3 DEF Upserts
      <3>5. QED
        BY <1>1, <1>2, <2>1, <3>2, <3>4, StatementRight
    <2>6. QED
      BY <2>4, <2>5
  <1>6. CASE ~ AddRow(t) /\ ~ UpsertChannel(t)
    <2>1. Changed(t, DvSend)
      BY <1>6 DEF UpdateDVR, DeleteDVR, ClearDVRChannels, ReorderChannels, EditChannel, ResetDB
    <2>2. Ids' \subseteq Ids
      BY <1>6 DEF UpdateDVR, DeleteDVR, ClearDVRChannels, ReorderChannels, EditChannel, ResetDB, Ids
    <2>3. QED
      BY <1>1, <1>2, <1>3, <2>1, <2>2, StatementRight
  <1>7. QED
    BY <1>4, <1>5, <1>6

LEMMA ConnRight ==
  ASSUME RlIInv, ConnLost \/ Connects \/ UNCHANGED dvVars
  PROVE  RowsHaveKeys' /\ ReadsRight' /\ RelayIsRight'
  <1>1. CASE Connects
    <2>1. /\ OpTo(Connector, DvSend) /\ UNCHANGED <<dvKeys, dvDvrs, dvChans>> /\ Connector \in AllThreads
      BY <1>1 DEF Connects, DvStore, AllThreads
    <2>2. DvSend.pc = "dvrs"
      BY DEF DvSend, SendThen
    <2>3. dvOp'[Connector] = DvSend /\ \A u \in AllThreads \ {Connector} : dvOp'[u] = dvOp[u]
      BY <2>1 DEF RlIInv, DvIInv, DvShaped, OpTo
    <2>4. ReadsRight'
      BY <2>1, <2>2, <2>3 DEF RlIInv, ReadsRight
    <2>5. RelayIsRight'
      BY <2>1, <2>2, <2>3 DEF RelayIsRight, Sending
    <2>6. KeyAt(DvSend)' /\ Ids' \subseteq DOMAIN dvKeys'
      BY <2>1, <2>2 DEF KeyAt, RlIInv, RowsHaveKeys, Ids
    <2>7. RowsHaveKeys'
      BY <2>1, <2>6, RowsKept, SameKeys DEF RlIInv, DvIInv
    <2>8. QED
      BY <2>4, <2>5, <2>7
  <1>2. CASE ConnLost
    <2>1. UNCHANGED <<dvKeys, dvDvrs, dvChans, dvOp>> /\ ~ dvConn'
      BY <1>2 DEF ConnLost, DvStore
    <2>2. QED
      BY <2>1 DEF RlIInv, RowsHaveKeys, KeysBelow, KeyAt, Ids, ReadsRight, RelayIsRight
  <1>3. CASE UNCHANGED dvVars
    <2>1. Protocolless(DvConfig)' = Protocolless(DvConfig) /\ Protocolless(dvRelay)' = Protocolless(dvRelay)
      BY <1>3 DEF dvVars, Protocolless, DvConfig, Ids
    <2>2. QED
      BY <1>3, <2>1 DEF dvVars, RlIInv, RowsHaveKeys, KeysBelow, KeyAt, Ids, ReadsRight, RelayIsRight
  <1>4. QED
    BY <1>1, <1>2, <1>3

LEMMA RlNextIInv == RlIInv /\ [DvNext]_dvVars => RlIInv'
  <1> SUFFICES ASSUME RlIInv, [DvNext]_dvVars
               PROVE  RlIInv'
    OBVIOUS
  <1>1. DvIInv'
    BY DvNextIInv DEF RlIInv
  <1>2. RowsHaveKeys' /\ ReadsRight' /\ RelayIsRight'
    <2>1. CASE ConnLost \/ Connects \/ UNCHANGED dvVars
      BY <2>1, ConnRight
    <2>2. ASSUME NEW t \in AllThreads, ThreadStep(t)
          PROVE  RowsHaveKeys' /\ ReadsRight' /\ RelayIsRight'
      BY <2>2, SendListsRight, SendReadsRight, SendWritesRight, KeyMatchRight, EnrichRight, KeyMaxRight,
         KeyInsertRight, StatementsRight, DiscoveryRight DEF ThreadStep
    <2>3. ASSUME NEW t \in Threads,
                 \/ HandleSurvDVRs(t) \/ ApplySurvMeta(t) \/ ResetDB(t)
                 \/ \E id \in Ids : HandleSurvDVR(t, id) \/ ReconnectAllDVRs(t, id) \/ HealDVRs(t, id)
          PROVE  RowsHaveKeys' /\ ReadsRight' /\ RelayIsRight'
      <3>1. t \in AllThreads
        BY DEF AllThreads
      <3>2. CASE HandleSurvDVRs(t)
        BY <3>1, <3>2, BeginsRight DEF HandleSurvDVRs
      <3>3. CASE ApplySurvMeta(t) \/ ResetDB(t)
        BY <3>1, <3>3, StatementsRight DEF ApplySurvMeta
      <3>4. ASSUME NEW id \in Ids, HandleSurvDVR(t, id)
            PROVE  RowsHaveKeys' /\ ReadsRight' /\ RelayIsRight'
        BY <3>1, <3>4, StatementsRight, BeginsRight DEF HandleSurvDVR, DiscoverChannels
      <3>5. ASSUME NEW id \in Ids, ReconnectAllDVRs(t, id) \/ HealDVRs(t, id)
            PROVE  RowsHaveKeys' /\ ReadsRight' /\ RelayIsRight'
        BY <3>1, <3>5, BeginsRight DEF ReconnectAllDVRs, HealDVRs
      <3>6. QED
        BY <2>3, <3>2, <3>3, <3>4, <3>5
    <2>4. QED
      BY <2>1, <2>2, <2>3 DEF DvNext
  <1>3. QED
    BY <1>1, <1>2 DEF RlIInv

LEMMA RlInitIInv == DvInit => RlIInv
  <1> SUFFICES ASSUME DvInit
               PROVE  RlIInv
    OBVIOUS
  <1>1. DvIInv
    BY DvInitIInv
  <1>2. DOMAIN dvKeys = {1} /\ Ids = {1} /\ dvRelay = DvConfig /\ \A t \in AllThreads : dvOp[t].pc = "idle"
    BY DEF DvInit, DvIdle, Ids
  <1>3. KeysBelow
    <2>1. 1 \in Nat /\ DOMAIN dvKeys \subseteq 0 .. 1
      BY <1>2
    <2>2. QED
      BY <2>1 DEF KeysBelow
  <1>4. QED
    BY <1>1, <1>2, <1>3 DEF RlIInv, RowsHaveKeys, KeyAt, ReadsRight, RelayIsRight

-----------------------------------------------------------------------------
(* PinLimiter.                                                             *)

-----------------------------------------------------------------------------
(* No address is blocked for longer than Block from now on.                *)
BlocksEnd ==
    /\ limNow \in Times
    /\ \A ip \in DOMAIN attempts :
          attempts[ip] \in IPEntry /\ attempts[ip].blockedUntil <= limNow + Block

(* The entry after one more failure: a block is not made shorter.          *)
LEMMA FailEntryFacts ==
  ASSUME limNow \in Times, NEW e \in IPEntry, e.blockedUntil <= limNow + Block
  PROVE  /\ FailEntry(e) \in IPEntry
         /\ FailEntry(e).blockedUntil >= e.blockedUntil
         /\ FailEntry(e).blockedUntil <= limNow + Block
  <1>1. PICK w : w = IF limNow - e.windowStart > Window
                     THEN [e EXCEPT !.fails = 0, !.windowStart = limNow] ELSE e
    OBVIOUS
  <1>2. w \in IPEntry /\ w.blockedUntil = e.blockedUntil
    BY <1>1, LimiterAssumption DEF IPEntry, Times
  <1>3. FailEntry(e) = IF w.fails + 1 >= MaxFails
                       THEN [fails |-> 0, windowStart |-> limNow, blockedUntil |-> limNow + Block]
                       ELSE [w EXCEPT !.fails = @ + 1]
    BY <1>1 DEF FailEntry
  <1>4. e.blockedUntil \in Int /\ limNow \in Nat /\ Block \in Nat /\ w.fails \in Nat
    BY <1>2, LimiterAssumption DEF IPEntry, Times, Never
  <1>5. CASE w.fails + 1 >= MaxFails
    <2>1. FailEntry(e) = [fails |-> 0, windowStart |-> limNow, blockedUntil |-> limNow + Block]
      BY <1>3, <1>5
    <2>2. QED
      BY <1>4, <2>1 DEF IPEntry
  <1>6. CASE ~ (w.fails + 1 >= MaxFails)
    <2>1. FailEntry(e) = [w EXCEPT !.fails = @ + 1]
      BY <1>3, <1>6
    <2>2. QED
      BY <1>2, <1>4, <2>1 DEF IPEntry
  <1>7. QED
    BY <1>5, <1>6

(* A wrong PIN from ip: who stays in the map, and with what.               *)
LEMMA RecordFailureFacts ==
  ASSUME BlocksEnd, NEW ip, RecordFailure(ip)
  PROVE  /\ DOMAIN attempts' \subseteq DOMAIN attempts \cup {ip}
         /\ \A i \in DOMAIN attempts : limNow < attempts[i].blockedUntil => i \in DOMAIN attempts'
         /\ \A i \in DOMAIN attempts' \ {ip} : attempts'[i] = attempts[i]
         /\ ip \in DOMAIN attempts' /\ attempts'[ip] \in IPEntry
         /\ attempts'[ip].blockedUntil <= limNow + Block
         /\ ip \in DOMAIN attempts => attempts'[ip].blockedUntil >= attempts[ip].blockedUntil
  <1>1. PICK others, entry :
          /\ others = IF ~HasEntry(ip) /\ Cardinality(DOMAIN attempts) >= MaxIPs
                      THEN KeptIPs ELSE DOMAIN attempts
          /\ entry = IF HasEntry(ip) THEN attempts[ip] ELSE NewEntry
    OBVIOUS
  <1>2. attempts' = [i \in others \cup {ip} |-> IF i = ip THEN FailEntry(entry) ELSE attempts[i]]
    BY <1>1 DEF RecordFailure
  <1>3. others \subseteq DOMAIN attempts
    BY <1>1 DEF KeptIPs
  <1>4. \A i \in DOMAIN attempts : limNow < attempts[i].blockedUntil => i \in others
    <2>1. \A i \in DOMAIN attempts : attempts[i].blockedUntil \in Int
      BY DEF BlocksEnd, IPEntry, Never
    <2>2. limNow \in Int
      BY DEF BlocksEnd, Times
    <2>3. QED
      BY <1>1, <2>1, <2>2 DEF KeptIPs
  <1>5. entry \in IPEntry /\ entry.blockedUntil <= limNow + Block
    <2>1. NewEntry \in IPEntry /\ NewEntry.blockedUntil <= limNow + Block
      BY LimiterAssumption DEF NewEntry, IPEntry, BlocksEnd, Never, Times
    <2>2. QED
      BY <1>1, <2>1 DEF BlocksEnd, HasEntry
  <1>6. /\ FailEntry(entry) \in IPEntry
        /\ FailEntry(entry).blockedUntil >= entry.blockedUntil
        /\ FailEntry(entry).blockedUntil <= limNow + Block
    BY <1>5, FailEntryFacts DEF BlocksEnd
  <1>7. attempts'[ip] = FailEntry(entry)
    BY <1>2
  <1>8. ip \in DOMAIN attempts => entry = attempts[ip]
    BY <1>1 DEF HasEntry
  <1>9. QED
    BY <1>2, <1>3, <1>4, <1>6, <1>7, <1>8

LEMMA LimNextKeeps == BlocksEnd /\ [LimNext]_limVars => BlocksEnd'
  <1> SUFFICES ASSUME BlocksEnd, [LimNext]_limVars
               PROVE  BlocksEnd'
    OBVIOUS
  <1>1. CASE LimTick
    <2>1. limNow' \in Times /\ limNow' = limNow + 1 /\ UNCHANGED attempts /\ limNow \in Int
      BY <1>1, LimiterAssumption DEF LimTick, BlocksEnd, Times
    <2>2. \A ip \in DOMAIN attempts : attempts[ip] \in IPEntry /\ attempts[ip].blockedUntil <= limNow' + Block
      BY <2>1, LimiterAssumption DEF BlocksEnd, IPEntry, Never
    <2>3. QED
      BY <2>1, <2>2 DEF BlocksEnd, IPEntry, Never, Times
  <1>2. ASSUME NEW h \in Handlers, WrongPIN(h)
        PROVE  BlocksEnd'
    <2>1. RecordFailure(hand[h]) /\ UNCHANGED limNow
      BY <1>2 DEF WrongPIN
    <2>2. \A i \in DOMAIN attempts' : attempts'[i] \in IPEntry /\ attempts'[i].blockedUntil <= limNow + Block
      BY <2>1, RecordFailureFacts DEF BlocksEnd
    <2>3. QED
      BY <2>1, <2>2 DEF BlocksEnd, IPEntry, Never, Times
  <1>3. ASSUME NEW h \in Handlers, RightPIN(h)
        PROVE  BlocksEnd'
    <2>1. /\ DOMAIN attempts' \subseteq DOMAIN attempts /\ UNCHANGED limNow
          /\ \A i \in DOMAIN attempts' : attempts'[i] = attempts[i]
      BY <1>3 DEF RightPIN
    <2>2. QED
      BY <2>1 DEF BlocksEnd, IPEntry, Never, Times
  <1>4. CASE \/ \E h \in Handlers, ip \in IPs : Arrive(h, ip)
             \/ \E h \in Handlers : Abandon(h)
             \/ UNCHANGED limVars
    BY <1>4 DEF Arrive, Abandon, limVars, BlocksEnd, IPEntry, Never, Times
  <1>5. QED
    BY <1>1, <1>2, <1>3, <1>4 DEF LimNext

(* A block runs its time (limiter.go, recordFailure and pruneLocked):      *)
(* neither the pruning of a full map for another address nor the late      *)
(* outcome of a handshake that began before the block ends it early; only  *)
(* a right PIN from the blocked address does.                              *)
THEOREM BlockRunsItsTimeHolds == LimSpec => BlockRunsItsTime
  <1>1. LimInit => BlocksEnd
    BY LimiterAssumption DEF LimInit, BlocksEnd, Times
  <1>2. ASSUME BlocksEnd, [LimNext]_limVars, NEW ip \in IPs,
               HasEntry(ip), limNow < attempts[ip].blockedUntil
        PROVE  \/ HasEntry(ip)' /\ attempts'[ip].blockedUntil >= attempts[ip].blockedUntil
               \/ \E h \in Handlers : hand[h] = ip /\ RightPIN(h)
    <2>1. ip \in DOMAIN attempts /\ attempts[ip].blockedUntil \in Int
      BY <1>2 DEF HasEntry, BlocksEnd, IPEntry, Never
    <2>2. ASSUME NEW h \in Handlers, WrongPIN(h)
          PROVE  ip \in DOMAIN attempts' /\ attempts'[ip].blockedUntil >= attempts[ip].blockedUntil
      <3>1. RecordFailure(hand[h])
        BY <2>2 DEF WrongPIN
      <3>2. ip \in DOMAIN attempts'
        BY <1>2, <2>1, <3>1, RecordFailureFacts
      <3>3. CASE ip = hand[h]
        BY <1>2, <2>1, <3>1, <3>2, <3>3, RecordFailureFacts
      <3>4. CASE ip # hand[h]
        <4>1. attempts'[ip] = attempts[ip]
          BY <1>2, <3>1, <3>2, <3>4, RecordFailureFacts
        <4>2. QED
          BY <2>1, <3>2, <4>1
      <3>5. QED
        BY <3>3, <3>4
    <2>3. ASSUME NEW h \in Handlers, RightPIN(h), hand[h] # ip
          PROVE  ip \in DOMAIN attempts' /\ attempts'[ip] = attempts[ip]
      BY <2>1, <2>3 DEF RightPIN
    <2>4. CASE \/ LimTick
               \/ \E h \in Handlers, i \in IPs : Arrive(h, i)
               \/ \E h \in Handlers : Abandon(h)
               \/ UNCHANGED limVars
      <3>1. UNCHANGED attempts
        BY <2>4 DEF LimTick, Arrive, Abandon, limVars
      <3>2. QED
        BY <2>1, <3>1 DEF HasEntry
    <2>5. QED
      BY <1>2, <2>1, <2>2, <2>3, <2>4 DEF LimNext, HasEntry
  <1>3. BlocksEnd /\ [LimNext]_limVars =>
          [\A ip \in IPs :
              HasEntry(ip) /\ limNow < attempts[ip].blockedUntil =>
                  \/ HasEntry(ip)' /\ attempts'[ip].blockedUntil >= attempts[ip].blockedUntil
                  \/ \E h \in Handlers : hand[h] = ip /\ RightPIN(h)]_limVars
    BY <1>2
  <1>4. QED
    BY <1>1, <1>3, LimNextKeeps, PTL DEF LimSpec, BlockRunsItsTime

-----------------------------------------------------------------------------
(* Failures counted over the times from t to u.                            *)
Span(t, u) == {x \in Times : t <= x /\ x <= u}
CountedIn(f, t, u) == SumOf(f, Span(t, u))

LEMMA FailuresAreCounted ==
  ASSUME NEW ip, NEW t, NEW u
  PROVE  FailuresIn(ip, t, u) = CountedIn(failures[ip], t, u)
  BY DEF FailuresIn, CountedIn, SumOf, Span

Records == [Times -> Nat]

LEMMA SpanCounts ==
  ASSUME NEW f \in Records, NEW t, NEW u
  PROVE  Counts(f, Span(t, u)) /\ CountedIn(f, t, u) \in Nat
  <1>1. IsFiniteSet(Times)
    BY LimiterAssumption, FS_Interval DEF Times
  <1>2. PICK S : S = Span(t, u)
    OBVIOUS
  <1>3. S \subseteq Times /\ IsFiniteSet(S)
    BY <1>1, <1>2, FS_Subset DEF Span
  <1>4. Counts(f, S)
    BY <1>3 DEF Records, Counts
  <1>5. SumOf(f, S) \in Nat
    BY <1>4, SumOfIsNat
  <1>6. QED
    BY <1>2, <1>4, <1>5 DEF CountedIn

(* A longer time holds no fewer failures, and more recorded are more       *)
(* counted.                                                                *)
LEMMA LongerSpan ==
  ASSUME NEW f \in Records, NEW t \in Int, NEW u \in Int,
         NEW r \in Int, NEW v \in Int, r <= t, u <= v
  PROVE  CountedIn(f, t, u) <= CountedIn(f, r, v)
  <1>1. PICK P, S : P = Span(t, u) /\ S = Span(r, v)
    OBVIOUS
  <1>2. P \in SUBSET S
    BY <1>1 DEF Span, Times
  <1>3. Counts(f, S)
    BY <1>1, SpanCounts
  <1>4. SumOf(f, P) <= SumOf(f, S)
    BY <1>2, <1>3, SumOfPart
  <1>5. QED
    BY <1>1, <1>4 DEF CountedIn

LEMMA MoreRecorded ==
  ASSUME NEW f \in Records, NEW g \in Records, \A x \in Times : f[x] <= g[x], NEW t, NEW u
  PROVE  CountedIn(f, t, u) <= CountedIn(g, t, u)
  <1>1. PICK S : S = Span(t, u)
    OBVIOUS
  <1>2. Counts(f, S) /\ Counts(g, S)
    BY <1>1, SpanCounts
  <1>3. \A x \in S : f[x] <= g[x]
    BY <1>1 DEF Span
  <1>4. SumOf(f, S) <= SumOf(g, S)
    BY <1>2, <1>3, SumOfGrows
  <1>5. QED
    BY <1>1, <1>4 DEF CountedIn

LEMMA OneMoreRecorded ==
  ASSUME NEW f \in Records, NEW now \in Times, NEW t \in Int, t <= now,
         NEW g \in Records, g[now] = f[now] + 1, \A x \in Times : x # now => g[x] = f[x]
  PROVE  CountedIn(g, t, now) = CountedIn(f, t, now) + 1
  <1>1. PICK S : S = Span(t, now)
    OBVIOUS
  <1>2. Counts(f, S) /\ Counts(g, S)
    BY <1>1, SpanCounts
  <1>3. now \in S /\ S \subseteq Times
    BY <1>1 DEF Span, Times
  <1>4. \A x \in S : x # now => g[x] = f[x]
    BY <1>3
  <1>5. SumOf(g, S) = SumOf(f, S) + 1
    BY <1>2, <1>3, <1>4, SumOfOneMore
  <1>6. QED
    BY <1>1, <1>5 DEF CountedIn

(* An entry counts failures of its window, all of them in the history, and *)
(* a block was deserved when it began.                                     *)
Deserved(f, now, e) ==
    /\ e.windowStart <= now
    /\ e.fails <= CountedIn(f, e.windowStart, now)
    /\ e.blockedUntil # Never =>
          /\ e.blockedUntil - Block \in 0 .. now
          /\ CountedIn(f, e.blockedUntil - Block - Window, e.blockedUntil - Block) >= MaxFails

EntriesDeserved ==
    /\ failures \in [IPs -> Records]
    /\ DOMAIN attempts \subseteq IPs /\ hand \in [Handlers -> IPs \cup {"none"}]
    /\ \A ip \in DOMAIN attempts : Deserved(failures[ip], limNow, attempts[ip])

LimIInv == BlocksEnd /\ EntriesDeserved

(* More failures and a later time leave an entry deserved.                 *)
LEMMA StaysDeserved ==
  ASSUME NEW f \in Records, NEW g \in Records, \A x \in Times : f[x] <= g[x],
         NEW now \in Times, NEW then \in Times, now <= then,
         NEW e \in IPEntry, Deserved(f, now, e)
  PROVE  Deserved(g, then, e)
  <1>1. /\ now \in Int /\ then \in Int /\ e.windowStart \in Int /\ e.fails \in Nat
        /\ e.blockedUntil \in Int /\ Block \in Int /\ Window \in Int /\ MaxFails \in Nat
    BY LimiterAssumption DEF Times, IPEntry, Never
  <1>2. e.fails <= CountedIn(g, e.windowStart, then)
    <2>1. CountedIn(f, e.windowStart, now) <= CountedIn(f, e.windowStart, then)
      BY <1>1, LongerSpan
    <2>2. CountedIn(f, e.windowStart, then) <= CountedIn(g, e.windowStart, then)
      BY MoreRecorded
    <2>3. /\ CountedIn(f, e.windowStart, now) \in Nat /\ CountedIn(f, e.windowStart, then) \in Nat
          /\ CountedIn(g, e.windowStart, then) \in Nat
      BY SpanCounts
    <2>4. QED
      BY <1>1, <2>1, <2>2, <2>3 DEF Deserved
  <1>3. ASSUME e.blockedUntil # Never
        PROVE  CountedIn(g, e.blockedUntil - Block - Window, e.blockedUntil - Block) >= MaxFails
    <2>1. PICK a, b : a = e.blockedUntil - Block /\ b = a - Window
      OBVIOUS
    <2>2. CountedIn(f, b, a) <= CountedIn(g, b, a) /\ CountedIn(f, b, a) \in Nat /\ CountedIn(g, b, a) \in Nat
      BY MoreRecorded, SpanCounts
    <2>3. QED
      BY <1>1, <1>3, <2>1, <2>2 DEF Deserved
  <1>4. e.blockedUntil # Never => e.blockedUntil - Block \in 0 .. then
    BY <1>1 DEF Deserved
  <1>5. e.windowStart <= then
    BY <1>1 DEF Deserved
  <1>6. QED
    BY <1>2, <1>3, <1>4, <1>5 DEF Deserved

(* The entry of an address that fails once more.                           *)
LEMMA FailsDeservedly ==
  ASSUME BlocksEnd, NEW f \in Records, NEW g \in Records, g = [f EXCEPT ![limNow] = @ + 1],
         NEW e \in IPEntry, Deserved(f, limNow, e)
  PROVE  Deserved(g, limNow, FailEntry(e))
  <1>1. /\ limNow \in Times /\ limNow \in Nat /\ e.windowStart \in Nat /\ e.fails \in Nat
        /\ e.blockedUntil \in Int /\ Block \in Nat /\ Window \in Nat /\ MaxFails \in Nat
    BY LimiterAssumption DEF BlocksEnd, Times, IPEntry, Never
  <1>2. PICK w : w = IF limNow - e.windowStart > Window
                     THEN [e EXCEPT !.fails = 0, !.windowStart = limNow] ELSE e
    OBVIOUS
  <1>3. /\ w \in IPEntry /\ w.blockedUntil = e.blockedUntil
        /\ w.windowStart \in Nat /\ w.fails \in Nat
        /\ w.windowStart <= limNow /\ limNow - Window <= w.windowStart
    <2>1. CASE limNow - e.windowStart > Window
      <3>1. w = [e EXCEPT !.fails = 0, !.windowStart = limNow]
        BY <1>2, <2>1
      <3>2. /\ w \in IPEntry /\ w.blockedUntil = e.blockedUntil
            /\ w.windowStart = limNow /\ w.fails = 0
        BY <1>1, <3>1 DEF IPEntry
      <3>3. QED
        BY <1>1, <3>2
    <2>2. CASE ~ (limNow - e.windowStart > Window)
      <3>1. w = e
        BY <1>2, <2>2
      <3>2. w.windowStart <= limNow
        BY <3>1 DEF Deserved
      <3>3. QED
        BY <1>1, <2>2, <3>1, <3>2
    <2>3. QED
      BY <2>1, <2>2
  <1>4. w.fails <= CountedIn(f, w.windowStart, limNow)
    <2>1. CASE limNow - e.windowStart > Window
      <3>1. w.fails = 0
        BY <1>2, <2>1 DEF IPEntry
      <3>2. QED
        BY <3>1, SpanCounts
    <2>2. CASE ~ (limNow - e.windowStart > Window)
      BY <1>2, <2>2 DEF Deserved
    <2>3. QED
      BY <2>1, <2>2
  <1>5. CountedIn(g, w.windowStart, limNow) = CountedIn(f, w.windowStart, limNow) + 1
    <2>1. g[limNow] = f[limNow] + 1 /\ \A x \in Times : x # limNow => g[x] = f[x]
      BY <1>1 DEF Records
    <2>2. w.windowStart \in Int
      BY <1>3
    <2>3. QED
      BY <1>1, <1>3, <2>1, <2>2, OneMoreRecorded
  <1>6. CountedIn(g, w.windowStart, limNow) <= CountedIn(g, limNow - Window, limNow)
    BY <1>1, <1>3, LongerSpan
  <1>7. /\ CountedIn(f, w.windowStart, limNow) \in Nat /\ CountedIn(g, limNow - Window, limNow) \in Nat
        /\ CountedIn(g, w.windowStart, limNow) \in Nat /\ CountedIn(g, limNow, limNow) \in Nat
    BY SpanCounts
  <1>8. FailEntry(e) = IF w.fails + 1 >= MaxFails
                       THEN [fails |-> 0, windowStart |-> limNow, blockedUntil |-> limNow + Block]
                       ELSE [w EXCEPT !.fails = @ + 1]
    BY <1>2 DEF FailEntry
  <1>9. CASE w.fails + 1 >= MaxFails
    <2>1. PICK q : q = FailEntry(e)
      OBVIOUS
    <2>2. q.fails = 0 /\ q.windowStart = limNow /\ q.blockedUntil = limNow + Block
      BY <1>8, <1>9, <2>1
    <2>3. q.blockedUntil - Block = limNow
      BY <1>1, <2>2
    <2>4. CountedIn(g, limNow - Window, limNow) >= MaxFails
      BY <1>1, <1>3, <1>4, <1>5, <1>6, <1>7, <1>9
    <2>5. QED
      BY <1>1, <1>7, <2>1, <2>2, <2>3, <2>4 DEF Deserved
  <1>10. CASE ~ (w.fails + 1 >= MaxFails)
    <2>1. PICK q : q = FailEntry(e)
      OBVIOUS
    <2>2. q.fails = w.fails + 1 /\ q.windowStart = w.windowStart /\ q.blockedUntil = e.blockedUntil
      BY <1>3, <1>8, <1>10, <2>1 DEF IPEntry
    <2>3. q.fails <= CountedIn(g, q.windowStart, limNow)
      BY <1>3, <1>4, <1>5, <1>7, <2>2
    <2>4. \A x \in Times : f[x] <= g[x]
      BY <1>1 DEF Records, Times
    <2>5. Deserved(g, limNow, e)
      <3>1. limNow <= limNow
        BY <1>1
      <3>2. QED
        BY <1>1, <2>4, <3>1, StaysDeserved
    <2>6. QED
      BY <1>3, <2>1, <2>2, <2>3, <2>5 DEF Deserved
  <1>11. QED
    BY <1>9, <1>10

LEMMA LimNextDeserved == LimIInv /\ [LimNext]_limVars => EntriesDeserved'
  <1> SUFFICES ASSUME LimIInv, [LimNext]_limVars
               PROVE  EntriesDeserved'
    OBVIOUS
  <1>1. /\ limNow \in Times /\ limNow \in Nat
        /\ \A ip \in DOMAIN attempts : /\ attempts[ip] \in IPEntry
                                       /\ Deserved(failures[ip], limNow, attempts[ip])
        /\ failures \in [IPs -> Records] /\ DOMAIN attempts \subseteq IPs
        /\ hand \in [Handlers -> IPs \cup {"none"}]
    BY LimiterAssumption DEF LimIInv, BlocksEnd, EntriesDeserved, Times
  <1>2. CASE LimTick
    <2>1. limNow' \in Times /\ limNow <= limNow' /\ UNCHANGED <<attempts, failures, hand>>
      BY <1>1, <1>2, LimiterAssumption DEF LimTick, Times
    <2>2. ASSUME NEW ip \in DOMAIN attempts
          PROVE  Deserved(failures[ip], limNow', attempts[ip])
      <3>1. failures[ip] \in Records /\ \A x \in Times : failures[ip][x] <= failures[ip][x]
        BY <1>1 DEF Records
      <3>2. QED
        BY <1>1, <2>1, <3>1, StaysDeserved
    <2>3. QED
      BY <1>1, <2>1, <2>2 DEF EntriesDeserved
  <1>3. ASSUME NEW h \in Handlers, WrongPIN(h)
        PROVE  EntriesDeserved'
    <2>1. PICK ip : ip = hand[h]
      OBVIOUS
    <2>2. /\ ip \in IPs /\ RecordFailure(ip) /\ limNow' = limNow
          /\ hand' = [hand EXCEPT ![h] = "none"]
      BY <1>1, <1>3, <2>1 DEF WrongPIN
    <2>3. failures' = [failures EXCEPT ![ip][limNow] = @ + 1]
      BY <2>2 DEF RecordFailure
    <2>4. PICK f, g : f = failures[ip] /\ g = [f EXCEPT ![limNow] = @ + 1]
      OBVIOUS
    <2>5. f \in Records /\ g \in Records
      BY <1>1, <2>2, <2>4 DEF Records
    <2>6. /\ failures' \in [IPs -> Records] /\ failures'[ip] = g
          /\ \A i \in IPs \ {ip} : failures'[i] = failures[i]
      BY <1>1, <2>2, <2>3, <2>4, <2>5
    <2>7. PICK entry : entry = IF HasEntry(ip) THEN attempts[ip] ELSE NewEntry
      OBVIOUS
    <2>8. attempts'[ip] = FailEntry(entry)
      BY <2>2, <2>7 DEF RecordFailure
    <2>9. entry \in IPEntry /\ Deserved(f, limNow, entry)
      <3>1. CASE HasEntry(ip)
        BY <1>1, <2>4, <2>7, <3>1 DEF HasEntry
      <3>2. CASE ~ HasEntry(ip)
        <4>1. /\ entry \in IPEntry /\ entry.fails = 0 /\ entry.windowStart = limNow
              /\ entry.blockedUntil = Never
          BY <1>1, <2>7, <3>2 DEF NewEntry, IPEntry
        <4>2. CountedIn(f, limNow, limNow) \in Nat
          BY <2>5, SpanCounts
        <4>3. QED
          BY <1>1, <4>1, <4>2 DEF Deserved
      <3>3. QED
        BY <3>1, <3>2
    <2>10. Deserved(g, limNow, attempts'[ip])
      BY <2>4, <2>5, <2>8, <2>9, FailsDeservedly DEF LimIInv
    <2>11. /\ DOMAIN attempts' \subseteq IPs
           /\ \A i \in DOMAIN attempts' \ {ip} : i \in DOMAIN attempts /\ attempts'[i] = attempts[i]
      BY <1>1, <2>2, RecordFailureFacts DEF LimIInv
    <2>12. \A i \in DOMAIN attempts' : Deserved(failures'[i], limNow, attempts'[i])
      BY <1>1, <2>6, <2>10, <2>11
    <2>13. hand' \in [Handlers -> IPs \cup {"none"}]
      BY <1>1, <2>2
    <2>14. QED
      BY <2>2, <2>6, <2>11, <2>12, <2>13 DEF EntriesDeserved
  <1>4. ASSUME NEW h \in Handlers, RightPIN(h)
        PROVE  EntriesDeserved'
    <2>1. /\ hand[h] \in IPs
          /\ failures' = [failures EXCEPT ![hand[h]] = [t \in Times |-> 0]]
          /\ DOMAIN attempts' = DOMAIN attempts \ {hand[h]} /\ UNCHANGED limNow
          /\ \A i \in DOMAIN attempts' : attempts'[i] = attempts[i]
          /\ hand' = [hand EXCEPT ![h] = "none"]
      BY <1>1, <1>4 DEF RightPIN
    <2>2. [t \in Times |-> 0] \in Records
      BY DEF Records
    <2>3. failures' \in [IPs -> Records] /\ \A i \in IPs \ {hand[h]} : failures'[i] = failures[i]
      BY <1>1, <2>1, <2>2
    <2>4. hand' \in [Handlers -> IPs \cup {"none"}]
      BY <1>1, <2>1
    <2>5. QED
      BY <1>1, <2>1, <2>3, <2>4 DEF EntriesDeserved
  <1>5. ASSUME NEW h \in Handlers, NEW ip \in IPs, Arrive(h, ip)
        PROVE  EntriesDeserved'
    BY <1>1, <1>5 DEF Arrive, EntriesDeserved
  <1>6. ASSUME NEW h \in Handlers, Abandon(h)
        PROVE  EntriesDeserved'
    BY <1>1, <1>6 DEF Abandon, EntriesDeserved
  <1>7. CASE UNCHANGED limVars
    BY <1>1, <1>7 DEF limVars, EntriesDeserved
  <1>8. QED
    BY <1>2, <1>3, <1>4, <1>5, <1>6, <1>7 DEF LimNext

LEMMA LimInitIInv == LimInit => LimIInv
  <1>1. LimInit => BlocksEnd
    BY LimiterAssumption DEF LimInit, BlocksEnd, Times
  <1>2. LimInit => EntriesDeserved
    BY DEF LimInit, EntriesDeserved, Records
  <1>3. QED
    BY <1>1, <1>2 DEF LimIInv

LEMMA LimNextIInv == LimIInv /\ [LimNext]_limVars => LimIInv'
  BY LimNextKeeps, LimNextDeserved DEF LimIInv

(* An address is blocked only for its own recent failures, and for the     *)
(* whole of its time (limiter.go, recordFailure, allowed and pruneLocked): *)
(* failures spread beyond the window do not add up to a block.             *)
THEOREM BlocksAreDeservedHolds == LimSpec => BlocksAreDeserved
  <1>1. LimIInv => NoUndeservedBlock
    BY FailuresAreCounted DEF LimIInv, EntriesDeserved, Deserved, NoUndeservedBlock
  <1>2. QED
    BY <1>1, LimInitIInv, LimNextIInv, BlockRunsItsTimeHolds, PTL DEF LimSpec, BlocksAreDeserved

-----------------------------------------------------------------------------
(* Thumbs.                                                                 *)

(* The cache as a sequence.                                                *)
LEMMA PartOf ==
  ASSUME NEW S, NEW c \in Seq(S), NEW m \in 1 .. Len(c) + 1, NEW n \in 0 .. Len(c)
  PROVE  SubSeq(c, m, n) \in Seq(S) /\ ToSet(SubSeq(c, m, n)) \subseteq ToSet(c)
  <1>1. PICK a : a = SubSeq(c, m, n)
    OBVIOUS
  <1>2. /\ Len(c) \in Nat /\ m \in Int /\ n \in Int /\ c \in Seq(S)
        /\ a = [i \in 1 .. n - m + 1 |-> c[i + m - 1]]
    BY <1>1
  <1>3. \A i \in 1 .. n - m + 1 : i + m - 1 \in 1 .. Len(c)
    BY <1>2
  <1>4. \A i \in 1 .. Len(c) : c[i] \in S /\ c[i] \in ToSet(c)
    BY DEF ToSet
  <1>5. CASE n - m + 1 >= 0
    <2>1. n - m + 1 \in Nat
      BY <1>2, <1>5
    <2>2. \A i \in 1 .. n - m + 1 : c[i + m - 1] \in S /\ c[i + m - 1] \in ToSet(c)
      BY <1>3, <1>4
    <2>3. a \in Seq(S) /\ DOMAIN a = 1 .. n - m + 1
      BY <1>2, <2>1, <2>2
    <2>4. QED
      BY <1>1, <1>2, <2>2, <2>3 DEF ToSet
  <1>6. CASE ~ (n - m + 1 >= 0)
    <2>1. n - m + 1 < 0
      BY <1>2, <1>6
    <2>2. 1 .. n - m + 1 = {}
      BY <1>2, <2>1
    <2>3. a = << >>
      BY <1>2, <2>2
    <2>4. a \in Seq(S) /\ DOMAIN a = {}
      BY <2>3
    <2>5. QED
      BY <1>1, <2>4 DEF ToSet
  <1>7. QED
    BY <1>5, <1>6

LEMMA JoinOf ==
  ASSUME NEW S, NEW a \in Seq(S), NEW b \in Seq(S)
  PROVE  a \o b \in Seq(S) /\ ToSet(a \o b) \subseteq ToSet(a) \cup ToSet(b)
  <1>1. PICK d : d = a \o b
    OBVIOUS
  <1>2. /\ d \in Seq(S) /\ Len(d) = Len(a) + Len(b)
        /\ \A i \in 1 .. Len(a) + Len(b) : d[i] = IF i <= Len(a) THEN a[i] ELSE b[i - Len(a)]
    BY <1>1
  <1>3. ASSUME NEW i \in 1 .. Len(d)
        PROVE  d[i] \in ToSet(a) \cup ToSet(b)
    <2>1. CASE i <= Len(a)
      <3>1. i \in 1 .. Len(a) /\ d[i] = a[i]
        BY <1>2, <2>1
      <3>2. QED
        BY <3>1 DEF ToSet
    <2>2. CASE ~ (i <= Len(a))
      <3>1. i - Len(a) \in 1 .. Len(b) /\ d[i] = b[i - Len(a)]
        BY <1>2, <2>2
      <3>2. QED
        BY <3>1 DEF ToSet
    <2>3. QED
      BY <2>1, <2>2
  <1>4. QED
    BY <1>1, <1>2, <1>3 DEF ToSet

LEMMA WithoutFacts ==
  ASSUME NEW S, NEW c \in Seq(S), NEW key
  PROVE  Without(c, key) \in Seq(S) /\ ToSet(Without(c, key)) \subseteq ToSet(c)
  <1>1. CASE Entries(c, key) = {}
    BY <1>1 DEF Without
  <1>2. CASE Entries(c, key) # {}
    <2>1. PICK i : i = CHOOSE j \in DOMAIN c : c[j].key = key
      OBVIOUS
    <2>2. i \in 1 .. Len(c)
      <3>1. \E j \in DOMAIN c : c[j].key = key
        BY <1>2 DEF Entries, ToSet
      <3>2. i \in DOMAIN c
        BY <2>1, <3>1
      <3>3. QED
        BY <3>2
    <2>3. Without(c, key) = SubSeq(c, 1, i - 1) \o SubSeq(c, i + 1, Len(c))
      BY <1>2, <2>1 DEF Without, RemoveAt
    <2>4. /\ SubSeq(c, 1, i - 1) \in Seq(S) /\ ToSet(SubSeq(c, 1, i - 1)) \subseteq ToSet(c)
          /\ SubSeq(c, i + 1, Len(c)) \in Seq(S) /\ ToSet(SubSeq(c, i + 1, Len(c))) \subseteq ToSet(c)
      <3>1. /\ 1 \in 1 .. Len(c) + 1 /\ i - 1 \in 0 .. Len(c)
            /\ i + 1 \in 1 .. Len(c) + 1 /\ Len(c) \in 0 .. Len(c)
        BY <2>2
      <3>2. QED
        BY <3>1, PartOf
    <2>5. PICK a, b : a = SubSeq(c, 1, i - 1) /\ b = SubSeq(c, i + 1, Len(c))
      OBVIOUS
    <2>6. a \o b \in Seq(S) /\ ToSet(a \o b) \subseteq ToSet(a) \cup ToSet(b)
      BY <2>4, <2>5, JoinOf
    <2>7. QED
      BY <2>3, <2>4, <2>5, <2>6
  <1>3. QED
    BY <1>1, <1>2

LEMMA FirstThenRest ==
  ASSUME NEW S, NEW e \in S, NEW c \in Seq(S)
  PROVE  <<e>> \o c \in Seq(S) /\ ToSet(<<e>> \o c) \subseteq {e} \cup ToSet(c)
  <1>1. PICK a : a = <<e>>
    OBVIOUS
  <1>2. a \in Seq(S) /\ ToSet(a) = {e}
    BY <1>1 DEF ToSet
  <1>3. QED
    BY <1>1, <1>2, JoinOf

LEMMA AfterGetFacts ==
  ASSUME NEW S, NEW c \in Seq(S), NEW key, NEW info
  PROVE  AfterGet(c, key, info) \in Seq(S) /\ ToSet(AfterGet(c, key, info)) \subseteq ToSet(c)
  <1>1. PICK w : w = Without(c, key)
    OBVIOUS
  <1>2. w \in Seq(S) /\ ToSet(w) \subseteq ToSet(c)
    BY <1>1, WithoutFacts
  <1>3. CASE Hits(c, key, info) = {}
    BY <1>1, <1>2, <1>3 DEF AfterGet
  <1>4. CASE Hits(c, key, info) # {}
    <2>1. PICK e : e = CHOOSE x \in Hits(c, key, info) : TRUE
      OBVIOUS
    <2>2. e \in ToSet(c)
      BY <1>4, <2>1 DEF Hits, Entries
    <2>3. e \in S
      BY <2>2 DEF ToSet
    <2>4. AfterGet(c, key, info) = <<e>> \o w
      BY <1>1, <1>4, <2>1 DEF AfterGet
    <2>5. QED
      BY <1>2, <2>2, <2>3, <2>4, FirstThenRest
  <1>5. QED
    BY <1>3, <1>4

LEMMA AfterPutFacts ==
  ASSUME NEW S, NEW c \in Seq(S), NEW e \in S
  PROVE  AfterPut(c, e) \in Seq(S) /\ ToSet(AfterPut(c, e)) \subseteq {e} \cup ToSet(c)
  <1>1. PICK w : w = Without(c, e.key)
    OBVIOUS
  <1>2. w \in Seq(S) /\ ToSet(w) \subseteq ToSet(c)
    BY <1>1, WithoutFacts
  <1>3. PICK K : K = {n \in 0 .. Len(w) : BytesOf(SubSeq(w, 1, n)) + Bytes(e.img) <= ThBudget /\ n < ThCap} \cup {0}
    OBVIOUS
  <1>4. AfterPut(c, e) = <<e>> \o SubSeq(w, 1, Max(K))
    BY <1>1, <1>3 DEF AfterPut
  <1>5. K \in SUBSET (0 .. Len(w)) /\ K # {} /\ Len(w) \in Nat
    BY <1>2, <1>3
  <1>6. PICK m : m = Max(K)
    OBVIOUS
  <1>7. m \in 0 .. Len(w)
    <2>1. K \subseteq Nat /\ IsFiniteSet(K)
      BY <1>5, UpToIsFinite
    <2>2. Max(K) \in K
      BY <1>5, <2>1, MaxIsIn
    <2>3. QED
      BY <1>5, <1>6, <2>2
  <1>8. SubSeq(w, 1, m) \in Seq(S) /\ ToSet(SubSeq(w, 1, m)) \subseteq ToSet(w)
    <2>1. 1 \in 1 .. Len(w) + 1
      BY <1>2
    <2>2. QED
      BY <1>2, <1>7, <2>1, PartOf
  <1>9. QED
    BY <1>2, <1>4, <1>6, <1>8, FirstThenRest

-----------------------------------------------------------------------------
(* A request that is looking for something, and one that has a file open.  *)
LookPcs == {"stat", "get", "open", "queue", "wait", "frame", "slot", "cut"}

Looking(q) ==
    q \in [pc : LookPcs, sec : Secs, exact : BOOLEAN, card : BOOLEAN,
           for : {"orig", "card", "again", "near"}, path : {q.path}, info : {q.info},
           img : {q.img}, job : {q.job}]

Reading(q) == q = [pc |-> "put", q |-> q.q, img |-> q.img, info |-> q.info] /\ Looking(q.q)

Answered(q) == q = Answer(q, q.img, q.path)

Active(q) == Looking(q) \/ Reading(q)

(* The snapshot that an image of a path shows was on disk since r arrived. *)
Current(r, path, img) == [sec |-> path.sec, pic |-> img.of] \in thSeen[r]

(* What a request looks for is what it was asked for, or the nearest to    *)
(* it, or the card of a snapshot that it has found.                        *)
RightPath(r, q) ==
    \/ q.for = "orig" /\ q.path = Original(q.sec)
    \/ q.for = "near" /\ \E s \in Secs : q.path = Original(s) /\ Abs(s - q.sec) <= Near
    \/ /\ q.for \in {"card", "again"}
       /\ q.path = CardThumbPath(q.sec, q.img.of) /\ Current(r, Original(q.sec), q.img)

GoodAnswer(r, q) ==
    IF q.path.kind = "frame" THEN q.img.of = q.sec
    ELSE /\ Current(r, q.path, q.img)
         /\ q.path.sec = q.sec \/ (q.for = "near" /\ Abs(q.path.sec - q.sec) <= Near)

ReqGood(r, q) ==
    \/ q \in {NotAsked, Refused}
    \/ Answered(q) /\ GoodAnswer(r, q)
    \/ Reading(q) /\ RightPath(r, q.q) /\ Current(r, q.q.path, q.img)
    \/ /\ Looking(q)
       /\ q.pc \in {"stat", "get", "open", "queue", "wait"} => RightPath(r, q)
       /\ q.pc \in {"queue", "wait"} => q.for = "card"

-----------------------------------------------------------------------------
(* What is known of a file: its path, its identity and what it shows.  It  *)
(* is on disk, in the cache, or on its way there.                          *)
OnDiskNow == {<<p, thFile[p].ino, thFile[p].img>> : p \in DOMAIN thFile}
InCache == {<<e.key, e.info, e.img>> : e \in ToSet(thLru)}
BeingRead ==
    {<<thReq[r].q.path, thReq[r].info, thReq[r].img>> : r \in {y \in Requests : thReq[y].pc = "put"}}
BeingMade ==
    {<<thWork[w].job.path, thWork[w].info, Small(thWork[w].job.path.pic)>> :
        w \in {y \in Workers : thWork[y].pc = "put"}}
Known == OnDiskNow \cup InCache \cup BeingRead \cup BeingMade

(* A card shows the snapshot it is named for, a frame its second.          *)
Named(k, newest) ==
    /\ k[2] \in 0 .. newest
    /\ \/ k[1].kind = "orig"
       \/ k[1].kind = "card" /\ k[3] = Small(k[1].pic)
       \/ k[1].kind = "frame" /\ k[3].of = k[1].sec

KnownNamed == \A k \in Known : Named(k, thIno)

(* A file never shows two things.                                          *)
OneImage == \A k, l \in Known : k[1].kind = "orig" /\ k[1] = l[1] /\ k[2] = l[2] => k[3] = l[3]

(* A request has seen every snapshot that is on disk.                      *)
SeesDisk(r) == \A p \in DOMAIN thFile : p.kind = "orig" => Current(r, p, thFile[p].img)

(* What there is of the file that a request has stat'ed is what it may     *)
(* show.                                                                   *)
FindsImage(r, q) ==
    /\ q.info \in 0 .. thIno
    /\ \A k \in Known : k[1] = q.path /\ k[2] = q.info => Current(r, k[1], k[3])

ReqHolds(r) ==
    /\ ReqGood(r, thReq[r])
    /\ Active(thReq[r]) => SeesDisk(r)
    /\ Looking(thReq[r]) /\ thReq[r].pc = "get" => FindsImage(r, thReq[r])

Cards == [kind : {"card"}, sec : Secs, pic : Pics]
CardJobs == [path : Cards, no : Nat]

JobsShaped ==
    /\ thPub \in Cards \cup {NoCard}
    /\ thJobNo \in Nat /\ thJobs \in Seq(CardJobs)
    /\ DOMAIN thWork = Workers
    /\ \A w \in Workers :
          thWork[w] \in {Free, [pc |-> "ended"]} \cup [pc : {"convert", "stat", "finish"}, job : CardJobs]
                        \cup [pc : {"put"}, job : CardJobs, info : {thWork[w].info}]

FilesShaped ==
    /\ thIno \in Nat
    /\ \A p \in DOMAIN thFile : p \in Paths /\ (p.kind = "orig" => thFile[p].img.of \in Pics)
    /\ \E S : thLru \in Seq(S)
    /\ DOMAIN thReq = Requests /\ DOMAIN thSeen = Requests
    /\ \A r \in Requests : thSeen[r] \subseteq [sec : Secs, pic : Pics]

ThIInv ==
    FilesShaped /\ JobsShaped /\ KnownNamed /\ OneImage /\ \A r \in Requests : ReqHolds(r)

-----------------------------------------------------------------------------
LEMMA ReqShapes ==
  /\ \A q : Looking(q) => q.pc \in LookPcs
  /\ \A q : Reading(q) => q.pc = "put"
  /\ \A q : Answered(q) => q.pc = "answered"
  /\ NotAsked.pc = "idle" /\ Refused.pc = "refused"
  BY DEF Looking, Reading, Answered, Answer, NotAsked, Refused

LEMMA IsLooking ==
  ASSUME NEW r, NEW q, ReqGood(r, q), q.pc \in LookPcs
  PROVE  /\ Looking(q)
         /\ q.pc \in {"stat", "get", "open", "queue", "wait"} => RightPath(r, q)
         /\ q.pc \in {"queue", "wait"} => q.for = "card"
  BY ReqShapes DEF ReqGood, LookPcs

LEMMA IsReading ==
  ASSUME NEW r, NEW q, ReqGood(r, q), q.pc = "put"
  PROVE  Reading(q) /\ RightPath(r, q.q) /\ Current(r, q.q.path, q.img)
  BY ReqShapes DEF ReqGood, LookPcs

LEMMA AnswerFacts ==
  ASSUME NEW q, NEW img, NEW path
  PROVE  LET a == Answer(q, img, path)
         IN  /\ Answered(a) /\ a.pc = "answered" /\ a.sec = q.sec /\ a.for = q.for
             /\ a.img = img /\ a.path = path
  BY DEF Answered, Answer

LEMMA LookUpFacts ==
  ASSUME NEW q, Looking(q), NEW for \in {"orig", "card", "again", "near"}, NEW path
  PROVE  LET l == LookUp(q, for, path)
         IN  /\ Looking(l) /\ l.pc = "stat" /\ l.for = for /\ l.path = path
             /\ l.sec = q.sec /\ l.img = q.img
  <1>1. PICK l : l = LookUp(q, for, path)
    OBVIOUS
  <1>2. /\ l.pc = "stat" /\ l.for = for /\ l.path = path
        /\ l.sec = q.sec /\ l.img = q.img /\ Looking(l)
    BY <1>1 DEF LookUp, Looking, LookPcs
  <1>3. QED
    BY <1>1, <1>2

LEMMA PathFacts ==
  /\ \A s : Original(s).kind = "orig" /\ Original(s).sec = s
  /\ \A s, p : /\ CardThumbPath(s, p).kind = "card" /\ CardThumbPath(s, p).sec = s
               /\ CardThumbPath(s, p).pic = p
  /\ \A s, e : FrameKey(s, e).kind = "frame" /\ FrameKey(s, e).sec = s
  /\ \A p : Small(p).of = p /\ Full(p).of = p
  /\ \A s : FrameOf(s).of = s
  BY DEF Original, CardThumbPath, FrameKey, Small, Full, FrameOf

(* storedThumb's result, and what follows from having none.                *)
LEMMA ReturnedFacts ==
  ASSUME NEW r, NEW q, NEW img, Looking(q), RightPath(r, q), Current(r, q.path, img)
  PROVE  ReqGood(r, Returned(q, img)) /\ Returned(q, img).pc \in {"stat", "answered"}
  <1>1. CASE q.for = "orig" /\ q.card
    <2>1. PICK p : p = [q EXCEPT !.img = img]
      OBVIOUS
    <2>2. Looking(p) /\ p.sec = q.sec /\ p.img = img
      BY <2>1 DEF Looking
    <2>3. PICK path : path = CardThumbPath(q.sec, img.of)
      OBVIOUS
    <2>4. PICK l : l = LookUp(p, "card", path)
      OBVIOUS
    <2>5. /\ Looking(l) /\ l.pc = "stat" /\ l.for = "card" /\ l.path = path
          /\ l.sec = q.sec /\ l.img = img
      BY <2>2, <2>4, LookUpFacts
    <2>6. q.path = Original(q.sec)
      BY <1>1 DEF RightPath
    <2>7. RightPath(r, l)
      BY <2>3, <2>5, <2>6 DEF RightPath
    <2>8. Returned(q, img) = l
      BY <1>1, <2>1, <2>3, <2>4 DEF Returned
    <2>9. QED
      BY <2>5, <2>7, <2>8 DEF ReqGood
  <1>2. CASE ~ (q.for = "orig" /\ q.card)
    <2>1. PICK a : a = Answer(q, img, q.path)
      OBVIOUS
    <2>2. /\ Answered(a) /\ a.pc = "answered" /\ a.sec = q.sec /\ a.for = q.for
          /\ a.img = img /\ a.path = q.path
      BY <2>1, AnswerFacts
    <2>3. GoodAnswer(r, a)
      BY <2>2, PathFacts DEF RightPath, GoodAnswer
    <2>4. Returned(q, img) = a
      BY <1>2, <2>1 DEF Returned
    <2>5. QED
      BY <2>2, <2>3, <2>4 DEF ReqGood
  <1>3. QED
    BY <1>1, <1>2

LEMMA NotStoredFacts ==
  ASSUME NEW r, NEW q, Looking(q), RightPath(r, q)
  PROVE  ReqGood(r, NotStored(q)) /\ NotStored(q).pc \in {"frame", "queue", "answered", "refused"}
  <1>1. CASE q.for = "orig"
    <2>1. PICK p : p = [q EXCEPT !.pc = "frame"]
      OBVIOUS
    <2>2. Looking(p) /\ p.pc = "frame"
      BY <2>1 DEF Looking, LookPcs
    <2>3. NotStored(q) = p
      BY <1>1, <2>1 DEF NotStored
    <2>4. QED
      BY <2>2, <2>3 DEF ReqGood
  <1>2. CASE q.for = "card"
    <2>1. PICK p : p = [q EXCEPT !.pc = "queue"]
      OBVIOUS
    <2>2. /\ Looking(p) /\ p.pc = "queue" /\ p.for = q.for /\ p.path = q.path /\ p.sec = q.sec
          /\ p.img = q.img
      BY <2>1 DEF Looking, LookPcs
    <2>3. RightPath(r, p)
      BY <2>2 DEF RightPath
    <2>4. NotStored(q) = p
      BY <1>2, <2>1 DEF NotStored
    <2>5. QED
      BY <1>2, <2>2, <2>3, <2>4 DEF ReqGood
  <1>3. CASE q.for = "again"
    <2>1. PICK a : a = Answer(q, q.img, Original(q.sec))
      OBVIOUS
    <2>2. /\ Answered(a) /\ a.pc = "answered" /\ a.sec = q.sec /\ a.for = q.for
          /\ a.img = q.img /\ a.path = Original(q.sec)
      BY <2>1, AnswerFacts
    <2>3. GoodAnswer(r, a)
      BY <1>3, <2>2, PathFacts DEF RightPath, GoodAnswer
    <2>4. NotStored(q) = a
      BY <1>3, <2>1 DEF NotStored
    <2>5. QED
      BY <2>2, <2>3, <2>4 DEF ReqGood
  <1>4. CASE q.for = "near"
    <2>1. NotStored(q) = Refused
      BY <1>4 DEF NotStored
    <2>2. QED
      BY <2>1, ReqShapes DEF ReqGood
  <1>5. QED
    BY <1>1, <1>2, <1>3, <1>4 DEF Looking

-----------------------------------------------------------------------------
(* Every step adds at most one thing to what is known, and when that is a  *)
(* snapshot's file it is a new one.                                        *)
Grows(n) ==
    \A k \in Known' : \/ k \in Known
                      \/ /\ k = n /\ Named(n, thIno')
                         /\ n[1].kind = "orig" => n[2] > thIno

LEMMA KnownGrows ==
  ASSUME NEW n, Grows(n), KnownNamed, OneImage, thIno \in Nat, thIno' \in Nat, thIno' >= thIno
  PROVE  KnownNamed' /\ OneImage'
  <1>1. \A k : Named(k, thIno) => Named(k, thIno')
    BY DEF Named
  <1>2. KnownNamed'
    BY <1>1 DEF KnownNamed, Grows
  <1>3. \A k \in Known : k[2] \in Nat /\ k[2] <= thIno
    BY DEF KnownNamed, Named
  <1>4. OneImage'
    <2> SUFFICES ASSUME NEW k \in Known', NEW l \in Known', k[1].kind = "orig", k[1] = l[1], k[2] = l[2]
                 PROVE  k[3] = l[3]
      BY DEF OneImage
    <2>1. CASE k \in Known /\ l \in Known
      BY <2>1 DEF OneImage
    <2>2. CASE k \in Known /\ l \notin Known
      <3>1. l = n /\ n[1].kind = "orig" /\ n[2] > thIno /\ Named(n, thIno')
        BY <2>2 DEF Grows
      <3>2. k[2] \in Nat /\ k[2] <= thIno
        BY <1>3, <2>2
      <3>3. QED
        BY <3>1, <3>2
    <2>3. CASE k \notin Known /\ l \in Known
      <3>1. k = n /\ n[1].kind = "orig" /\ n[2] > thIno /\ Named(n, thIno')
        BY <2>3 DEF Grows
      <3>2. l[2] \in Nat /\ l[2] <= thIno
        BY <1>3, <2>3
      <3>3. QED
        BY <3>1, <3>2
    <2>4. CASE k \notin Known /\ l \notin Known
      BY <2>4 DEF Grows
    <2>5. QED
      BY <2>1, <2>2, <2>3, <2>4
  <1>5. QED
    BY <1>2, <1>4

LEMMA PathKept ==
  ASSUME NEW u, NEW q, thSeen[u] \subseteq thSeen'[u], RightPath(u, q)
  PROVE  RightPath(u, q)'
  BY DEF RightPath, Current

LEMMA GoodKept ==
  ASSUME NEW u, NEW q, thSeen[u] \subseteq thSeen'[u], ReqGood(u, q)
  PROVE  ReqGood(u, q)'
  <1>1. RightPath(u, q) => RightPath(u, q)'
    BY PathKept
  <1>2. RightPath(u, q.q) => RightPath(u, q.q)'
    BY PathKept
  <1>3. \A p, img : Current(u, p, img) => Current(u, p, img)'
    BY DEF Current
  <1>4. GoodAnswer(u, q) => GoodAnswer(u, q)'
    BY <1>3 DEF GoodAnswer
  <1>5. QED
    BY <1>1, <1>2, <1>3, <1>4 DEF ReqGood

LEMMA FindsKept ==
  ASSUME NEW u, NEW q, NEW n, Grows(n), RightPath(u, q), FindsImage(u, q),
         thIno \in Nat, thIno' \in Nat, thIno' >= thIno, thSeen[u] \subseteq thSeen'[u]
  PROVE  FindsImage(u, q)'
  <1>1. q.info \in 0 .. thIno'
    BY DEF FindsImage
  <1>2. ASSUME NEW k \in Known', k[1] = q.path, k[2] = q.info
        PROVE  Current(u, k[1], k[3])'
    <2>1. CASE k \in Known
      BY <1>2, <2>1 DEF FindsImage, Current
    <2>2. CASE k \notin Known
      <3>1. /\ k = n /\ Named(k, thIno')
            /\ k[1].kind = "orig" => k[2] > thIno
        BY <2>2 DEF Grows
      <3>2. q.info <= thIno
        BY DEF FindsImage
      <3>3. k[1].kind # "orig"
        BY <1>2, <3>1, <3>2 DEF FindsImage
      <3>4. q.path = CardThumbPath(q.sec, q.img.of) /\ Current(u, Original(q.sec), q.img)
        BY <1>2, <3>3, PathFacts DEF RightPath
      <3>5. k[3] = Small(k[1].pic) /\ k[1].pic = q.img.of /\ k[1].sec = q.sec
        BY <1>2, <3>1, <3>4, PathFacts DEF Named
      <3>6. k[3].of = q.img.of
        BY <3>5, PathFacts
      <3>7. QED
        BY <3>4, <3>5, <3>6, PathFacts DEF Current
    <2>3. QED
      BY <2>1, <2>2
  <1>3. QED
    BY <1>1, <1>2 DEF FindsImage

LEMMA OthersKeep ==
  ASSUME NEW u, NEW n, Grows(n), ReqHolds(u), thReq'[u] = thReq[u],
         thIno \in Nat, thIno' \in Nat, thIno' >= thIno, thSeen[u] \subseteq thSeen'[u],
         Active(thReq[u]) /\ SeesDisk(u) => SeesDisk(u)'
  PROVE  ReqHolds(u)'
  <1>1. PICK q : q = thReq[u]
    OBVIOUS
  <1>2. ReqGood(u, q)'
    BY <1>1, GoodKept DEF ReqHolds
  <1>3. Active(q) => SeesDisk(u)'
    BY <1>1 DEF ReqHolds
  <1>4. Looking(q) /\ q.pc = "get" => FindsImage(u, q)'
    <2>1. SUFFICES ASSUME Looking(q), q.pc = "get"
                   PROVE  FindsImage(u, q)'
      OBVIOUS
    <2>2. FindsImage(u, q)
      BY <1>1, <2>1 DEF ReqHolds
    <2>3. RightPath(u, q)
      BY <1>1, <2>1, IsLooking DEF ReqHolds, LookPcs
    <2>4. QED
      BY <2>2, <2>3, FindsKept
  <1>5. QED
    BY <1>1, <1>2, <1>3, <1>4 DEF ReqHolds

(* What each part of what is known depends on.                             *)
LEMMA KnownParts ==
  /\ UNCHANGED thFile => OnDiskNow' = OnDiskNow
  /\ UNCHANGED thLru => InCache' = InCache
  /\ UNCHANGED thReq => BeingRead' = BeingRead
  /\ UNCHANGED thWork => BeingMade' = BeingMade
  BY DEF OnDiskNow, InCache, BeingRead, BeingMade

(* A request's step: it moves to q, and the cache may take n.              *)
LEMMA ReqMoves ==
  ASSUME ThIInv, NEW r \in Requests, NEW q, NEW n,
         thReq' = [thReq EXCEPT ![r] = q], UNCHANGED <<thFile, thIno, thWork, thSeen>>,
         \E S : thLru' \in Seq(S),
         InCache' \subseteq Known \cup {n}, n \in Known \/ (n[1].kind = "frame" /\ Named(n, thIno)),
         ReqGood(r, q), Active(q) => Active(thReq[r]),
         Looking(q) /\ q.pc = "get" => FindsImage(r, q),
         q.pc = "put" => <<q.q.path, q.info, q.img>> \in Known
  PROVE  FilesShaped' /\ KnownNamed' /\ OneImage' /\ (\A u \in Requests : ReqHolds(u))'
  <1>1. DOMAIN thReq = Requests /\ thIno \in Nat
    BY DEF ThIInv, FilesShaped
  <1>2. BeingRead' \subseteq Known
    <2> SUFFICES ASSUME NEW u \in Requests, thReq'[u].pc = "put"
                 PROVE  <<thReq'[u].q.path, thReq'[u].info, thReq'[u].img>> \in Known
      BY DEF BeingRead
    <2>1. CASE u = r
      BY <1>1, <2>1
    <2>2. CASE u # r
      BY <1>1, <2>2 DEF Known, BeingRead
    <2>3. QED
      BY <2>1, <2>2
  <1>3. OnDiskNow' \subseteq Known /\ BeingMade' \subseteq Known
    BY KnownParts DEF Known
  <1>4. Known' \subseteq Known \cup {n}
    BY <1>2, <1>3 DEF Known
  <1>5. Grows(n)
    <2>1. n \in Known \/ (Named(n, thIno') /\ n[1].kind # "orig")
      OBVIOUS
    <2>2. QED
      BY <1>4, <2>1 DEF Grows
  <1>6. thIno' \in Nat /\ thIno' >= thIno
    BY <1>1
  <1>7. KnownNamed' /\ OneImage'
    BY <1>1, <1>5, <1>6, KnownGrows DEF ThIInv
  <1>8. \A u : SeesDisk(u) => SeesDisk(u)'
    BY DEF SeesDisk, Current
  <1>9. ASSUME NEW u \in Requests
        PROVE  ReqHolds(u)'
    <2>1. ReqHolds(u)
      BY DEF ThIInv
    <2>2. thSeen[u] \subseteq thSeen'[u]
      OBVIOUS
    <2>3. CASE u # r
      <3>1. thReq'[u] = thReq[u]
        BY <1>1, <2>3
      <3>2. QED
        BY <1>1, <1>5, <1>6, <1>8, <2>1, <2>2, <3>1, OthersKeep
    <2>4. CASE u = r
      <3>1. thReq'[r] = q
        BY <1>1
      <3>2. ReqGood(r, q)'
        BY <2>2, <2>4, GoodKept
      <3>3. Active(q) => SeesDisk(r)'
        BY <1>8, <2>1, <2>4 DEF ReqHolds
      <3>4. Looking(q) /\ q.pc = "get" => FindsImage(r, q)'
        <4>1. SUFFICES ASSUME Looking(q), q.pc = "get"
                       PROVE  FindsImage(r, q)'
          OBVIOUS
        <4>2. RightPath(r, q)
          BY <4>1, IsLooking DEF LookPcs
        <4>3. QED
          BY <1>1, <1>5, <1>6, <2>2, <2>4, <4>1, <4>2, FindsKept
      <3>5. QED
        BY <2>4, <3>1, <3>2, <3>3, <3>4 DEF ReqHolds
    <2>5. QED
      BY <2>3, <2>4
  <1>10. FilesShaped'
    BY <1>1 DEF ThIInv, FilesShaped
  <1>11. QED
    BY <1>7, <1>9, <1>10

(* A step of another than the requests.                                    *)
LEMMA OthersMove ==
  ASSUME ThIInv, NEW n, Grows(n), UNCHANGED thReq, thIno' \in Nat, thIno' >= thIno,
         \A u \in Requests :
            thSeen[u] \subseteq thSeen'[u] /\ (Active(thReq[u]) /\ SeesDisk(u) => SeesDisk(u)')
  PROVE  KnownNamed' /\ OneImage' /\ (\A u \in Requests : ReqHolds(u))'
  <1>1. thIno \in Nat
    BY DEF ThIInv, FilesShaped
  <1>2. KnownNamed' /\ OneImage'
    BY <1>1, KnownGrows DEF ThIInv
  <1>3. ASSUME NEW u \in Requests
        PROVE  ReqHolds(u)'
    <2>1. ReqHolds(u) /\ thReq'[u] = thReq[u] /\ thSeen[u] \subseteq thSeen'[u]
      BY DEF ThIInv
    <2>2. QED
      BY <1>1, <2>1, OthersKeep
  <1>4. QED
    BY <1>2, <1>3

(* A frame is in the cache with no identity.                               *)
CutFrame(q) == <<FrameKey(q.sec, q.exact), NoInfo, FrameOf(q.sec)>>

LEMMA CutFrameIsNamed ==
  ASSUME NEW q, thIno \in Nat
  PROVE  CutFrame(q)[1].kind = "frame" /\ Named(CutFrame(q), thIno)
  <1>1. PICK k, f : k = FrameKey(q.sec, q.exact) /\ f = FrameOf(q.sec)
    OBVIOUS
  <1>2. k.kind = "frame" /\ k.sec = q.sec /\ f.of = q.sec
    BY <1>1, PathFacts
  <1>3. CutFrame(q) = <<k, 0, f>>
    BY <1>1 DEF CutFrame, NoInfo
  <1>4. QED
    BY <1>2, <1>3 DEF Named

LEMMA JobsKept ==
  ASSUME ThIInv, UNCHANGED <<thPub, thJobs, thJobNo, thWork>>
  PROVE  JobsShaped'
  BY DEF ThIInv, JobsShaped

(* A request's step that leaves the cache as it is.                        *)
LEMMA ReqMovesOnly ==
  ASSUME ThIInv, NEW r \in Requests, NEW q,
         thReq' = [thReq EXCEPT ![r] = q], UNCHANGED <<thFile, thIno, thWork, thSeen, thLru>>,
         JobsShaped', ReqGood(r, q), Active(q) => Active(thReq[r]),
         Looking(q) /\ q.pc = "get" => FindsImage(r, q),
         q.pc = "put" => <<q.q.path, q.info, q.img>> \in Known
  PROVE  ThIInv'
  <1>1. thIno \in Nat /\ \E S : thLru \in Seq(S)
    BY DEF ThIInv, FilesShaped
  <1>2. PICK n : n = CutFrame(q)
    OBVIOUS
  <1>3. n[1].kind = "frame" /\ Named(n, thIno)
    BY <1>1, <1>2, CutFrameIsNamed
  <1>4. InCache' \subseteq Known \cup {n}
    BY KnownParts DEF Known
  <1>5. \E S : thLru' \in Seq(S)
    BY <1>1
  <1>6. FilesShaped' /\ KnownNamed' /\ OneImage' /\ (\A u \in Requests : ReqHolds(u))'
    BY <1>3, <1>4, <1>5, ReqMoves
  <1>7. QED
    BY <1>6 DEF ThIInv

LEMMA StaysQuiet ==
  ASSUME NEW q, q.pc \in {"stat", "frame", "queue", "wait", "slot", "cut", "answered", "refused"}
  PROVE  ~ (Looking(q) /\ q.pc = "get") /\ q.pc # "put"
  OBVIOUS

LEMMA HeldReq ==
  ASSUME ThIInv, NEW r \in Requests, NEW q, q = thReq[r], q.pc \in LookPcs
  PROVE  /\ Looking(q) /\ Active(thReq[r]) /\ SeesDisk(r) /\ ReqGood(r, q)
         /\ q.pc \in {"stat", "get", "open", "queue", "wait"} => RightPath(r, q)
         /\ q.pc \in {"queue", "wait"} => q.for = "card"
         /\ q.pc = "get" => FindsImage(r, q)
  <1>1. ReqHolds(r)
    BY DEF ThIInv
  <1>2. ReqGood(r, q)
    BY <1>1 DEF ReqHolds
  <1>3. /\ Looking(q)
        /\ q.pc \in {"stat", "get", "open", "queue", "wait"} => RightPath(r, q)
        /\ q.pc \in {"queue", "wait"} => q.for = "card"
    BY <1>2, IsLooking
  <1>4. QED
    BY <1>1, <1>2, <1>3 DEF ReqHolds, Active

(* The file that has the name now is what the request may show.            *)
LEMMA DiskIsRight ==
  ASSUME ThIInv, NEW r \in Requests, NEW q, RightPath(r, q), SeesDisk(r), q.path \in DOMAIN thFile
  PROVE  /\ Current(r, q.path, thFile[q.path].img)
         /\ <<q.path, thFile[q.path].ino, thFile[q.path].img>> \in Known
         /\ thFile[q.path].ino \in 0 .. thIno
         /\ \A k \in Known : k[1] = q.path /\ k[2] = thFile[q.path].ino => Current(r, k[1], k[3])
  <1>1. PICK path, f : path = q.path /\ f = thFile[path]
    OBVIOUS
  <1>2. <<path, f.ino, f.img>> \in Known
    BY <1>1 DEF Known, OnDiskNow
  <1>3. PICK d : d = <<path, f.ino, f.img>>
    OBVIOUS
  <1>4. d[1] = path /\ d[2] = f.ino /\ d[3] = f.img /\ d \in Known
    BY <1>2, <1>3
  <1>5. f.ino \in 0 .. thIno
    BY <1>4 DEF ThIInv, KnownNamed, Named
  <1>6. ASSUME NEW k \in Known, k[1] = path, k[2] = f.ino
        PROVE  Current(r, k[1], k[3])
    <2>1. CASE path.kind = "orig"
      <3>1. k[3] = f.img
        BY <1>4, <1>6, <2>1 DEF ThIInv, OneImage
      <3>2. QED
        BY <1>1, <1>6, <2>1, <3>1 DEF SeesDisk
    <2>2. CASE path.kind # "orig"
      <3>1. path = CardThumbPath(q.sec, q.img.of) /\ Current(r, Original(q.sec), q.img)
        BY <1>1, <2>2, PathFacts DEF RightPath
      <3>2. k[1].kind = "card" /\ k[1].pic = q.img.of /\ k[1].sec = q.sec
        BY <1>6, <3>1, PathFacts
      <3>3. Named(k, thIno)
        BY DEF ThIInv, KnownNamed
      <3>4. k[3] = Small(k[1].pic)
        BY <3>2, <3>3 DEF Named
      <3>5. k[3].of = q.img.of
        BY <3>2, <3>4, PathFacts
      <3>6. QED
        BY <3>1, <3>2, <3>5, PathFacts DEF Current
    <2>3. QED
      BY <2>1, <2>2
  <1>7. QED
    BY <1>1, <1>2, <1>4, <1>5, <1>6

LEMMA ThStatKeeps ==
  ASSUME ThIInv, NEW r \in Requests, ThStat(r)
  PROVE  ThIInv'
  <1>1. PICK q : q = thReq[r]
    OBVIOUS
  <1>2. q.pc = "stat" /\ UNCHANGED <<thFile, thIno, thWork, thSeen, thLru>>
    BY <1>1 DEF ThStat, ThRest
  <1>3. JobsShaped'
    BY JobsKept DEF ThStat, ThRest
  <1>4. Looking(q) /\ Active(thReq[r]) /\ SeesDisk(r) /\ RightPath(r, q)
    BY <1>1, <1>2, HeldReq DEF LookPcs
  <1>5. CASE Exists(q.path)
    <2>1. PICK f : f = thFile[q.path]
      OBVIOUS
    <2>2. PICK l : l = [q EXCEPT !.pc = "get", !.info = f.ino]
      OBVIOUS
    <2>3. /\ Looking(l) /\ l.pc = "get" /\ l.info = f.ino /\ l.path = q.path /\ l.for = q.for
          /\ l.sec = q.sec /\ l.img = q.img
      BY <1>4, <2>2 DEF Looking, LookPcs
    <2>4. RightPath(r, l)
      BY <1>4, <2>3 DEF RightPath
    <2>5. ReqGood(r, l)
      BY <2>3, <2>4 DEF ReqGood
    <2>6. FindsImage(r, l)
      BY <1>4, <1>5, <2>1, <2>3, DiskIsRight DEF Exists, FindsImage
    <2>7. thReq' = [thReq EXCEPT ![r] = l]
      BY <1>1, <1>5, <2>1, <2>2 DEF ThStat, ReqTo
    <2>8. l.pc # "put"
      BY <2>3
    <2>9. QED
      BY <1>2, <1>3, <1>4, <2>5, <2>6, <2>7, <2>8, ReqMovesOnly
  <1>6. CASE ~ Exists(q.path)
    <2>1. PICK l : l = NotStored(q)
      OBVIOUS
    <2>2. ReqGood(r, l) /\ l.pc \in {"frame", "queue", "answered", "refused"}
      BY <1>4, <2>1, NotStoredFacts
    <2>3. thReq' = [thReq EXCEPT ![r] = l]
      BY <1>1, <1>6, <2>1 DEF ThStat, ReqTo
    <2>4. ~ (Looking(l) /\ l.pc = "get") /\ l.pc # "put"
      BY <2>2, StaysQuiet
    <2>5. QED
      BY <1>2, <1>3, <1>4, <2>2, <2>3, <2>4, ReqMovesOnly
  <1>7. QED
    BY <1>5, <1>6

LEMMA ThOpenKeeps ==
  ASSUME ThIInv, NEW r \in Requests, ThOpen(r)
  PROVE  ThIInv'
  <1>1. PICK q : q = thReq[r]
    OBVIOUS
  <1>2. q.pc = "open" /\ UNCHANGED <<thFile, thIno, thWork, thSeen, thLru>>
    BY <1>1 DEF ThOpen, ThRest
  <1>3. JobsShaped'
    BY JobsKept DEF ThOpen, ThRest
  <1>4. Looking(q) /\ Active(thReq[r]) /\ SeesDisk(r) /\ RightPath(r, q)
    BY <1>1, <1>2, HeldReq DEF LookPcs
  <1>5. CASE Exists(q.path)
    <2>1. PICK f : f = thFile[q.path]
      OBVIOUS
    <2>2. PICK l : l = [pc |-> "put", q |-> q, img |-> f.img, info |-> f.ino]
      OBVIOUS
    <2>3. l.pc = "put" /\ l.q = q /\ l.img = f.img /\ l.info = f.ino
      BY <2>2
    <2>4. Reading(l)
      BY <1>4, <2>2, <2>3 DEF Reading
    <2>5. ReqGood(r, l) /\ <<l.q.path, l.info, l.img>> \in Known
      BY <1>4, <1>5, <2>1, <2>3, <2>4, DiskIsRight DEF Exists, ReqGood
    <2>6. thReq' = [thReq EXCEPT ![r] = l]
      BY <1>1, <1>5, <2>1, <2>2 DEF ThOpen, ReqTo
    <2>7. l.pc # "get"
      BY <2>3
    <2>8. QED
      BY <1>2, <1>3, <1>4, <2>5, <2>6, <2>7, ReqMovesOnly
  <1>6. CASE ~ Exists(q.path)
    <2>1. PICK l : l = NotStored(q)
      OBVIOUS
    <2>2. ReqGood(r, l) /\ l.pc \in {"frame", "queue", "answered", "refused"}
      BY <1>4, <2>1, NotStoredFacts
    <2>3. thReq' = [thReq EXCEPT ![r] = l]
      BY <1>1, <1>6, <2>1 DEF ThOpen, ReqTo
    <2>4. ~ (Looking(l) /\ l.pc = "get") /\ l.pc # "put"
      BY <2>2, StaysQuiet
    <2>5. QED
      BY <1>2, <1>3, <1>4, <2>2, <2>3, <2>4, ReqMovesOnly
  <1>7. QED
    BY <1>5, <1>6

LEMMA ThGetKeeps ==
  ASSUME ThIInv, NEW r \in Requests, ThGet(r)
  PROVE  ThIInv'
  <1>1. PICK q : q = thReq[r]
    OBVIOUS
  <1>2. q.pc = "get" /\ UNCHANGED <<thFile, thIno, thWork, thSeen>>
    BY <1>1 DEF ThGet, ThRest
  <1>3. JobsShaped'
    BY JobsKept DEF ThGet, ThRest
  <1>4. Looking(q) /\ Active(thReq[r]) /\ RightPath(r, q) /\ FindsImage(r, q)
    BY <1>1, <1>2, HeldReq DEF LookPcs
  <1>5. thIno \in Nat /\ \E S : thLru \in Seq(S)
    BY DEF ThIInv, FilesShaped
  <1>6. thLru' = AfterGet(thLru, q.path, q.info)
    BY <1>1 DEF ThGet
  <1>7. (\E S : thLru' \in Seq(S)) /\ ToSet(thLru') \subseteq ToSet(thLru)
    BY <1>5, <1>6, AfterGetFacts
  <1>8. PICK n : n = CutFrame(q)
    OBVIOUS
  <1>9. n[1].kind = "frame" /\ Named(n, thIno) /\ InCache' \subseteq Known \cup {n}
    BY <1>5, <1>7, <1>8, CutFrameIsNamed DEF Known, InCache
  <1>10. PICK hit : hit = Hits(thLru, q.path, q.info)
    OBVIOUS
  <1>11. PICK l : l = IF hit = {} THEN [q EXCEPT !.pc = "open"] ELSE Returned(q, (CHOOSE e \in hit : TRUE).img)
    OBVIOUS
  <1>12. thReq' = [thReq EXCEPT ![r] = l]
    BY <1>1, <1>10, <1>11 DEF ThGet, ReqTo
  <1>13. ReqGood(r, l) /\ ~ (Looking(l) /\ l.pc = "get") /\ l.pc # "put"
    <2>1. CASE hit = {}
      <3>1. l = [q EXCEPT !.pc = "open"]
        BY <1>11, <2>1
      <3>2. /\ Looking(l) /\ l.pc = "open" /\ l.path = q.path /\ l.for = q.for
            /\ l.sec = q.sec /\ l.img = q.img
        BY <1>4, <3>1 DEF Looking, LookPcs
      <3>3. RightPath(r, l)
        BY <1>4, <3>2 DEF RightPath
      <3>4. QED
        BY <3>2, <3>3 DEF ReqGood
    <2>2. CASE hit # {}
      <3>1. PICK e : e = CHOOSE x \in hit : TRUE
        OBVIOUS
      <3>2. e \in ToSet(thLru) /\ e.key = q.path /\ e.info = q.info
        BY <1>10, <2>2, <3>1 DEF Hits, Entries
      <3>3. PICK k : k = <<e.key, e.info, e.img>>
        OBVIOUS
      <3>4. k \in Known /\ k[1] = q.path /\ k[2] = q.info /\ k[3] = e.img
        BY <3>2, <3>3 DEF Known, InCache
      <3>5. Current(r, q.path, e.img)
        BY <1>4, <3>4 DEF FindsImage
      <3>6. l = Returned(q, e.img)
        BY <1>11, <2>2, <3>1
      <3>7. ReqGood(r, l) /\ l.pc \in {"stat", "answered"}
        BY <1>4, <3>5, <3>6, ReturnedFacts
      <3>8. QED
        BY <3>7, StaysQuiet
    <2>3. QED
      BY <2>1, <2>2
  <1>14. FilesShaped' /\ KnownNamed' /\ OneImage' /\ (\A u \in Requests : ReqHolds(u))'
    BY <1>2, <1>4, <1>7, <1>9, <1>12, <1>13, ReqMoves
  <1>15. QED
    BY <1>3, <1>14 DEF ThIInv

LEMMA ThPutKeeps ==
  ASSUME ThIInv, NEW r \in Requests, ThPut(r)
  PROVE  ThIInv'
  <1>1. PICK p : p = thReq[r]
    OBVIOUS
  <1>2. p.pc = "put" /\ UNCHANGED <<thFile, thIno, thWork, thSeen>>
    BY <1>1 DEF ThPut, ThRest
  <1>3. JobsShaped'
    BY JobsKept DEF ThPut, ThRest
  <1>4. Reading(p) /\ RightPath(r, p.q) /\ Current(r, p.q.path, p.img) /\ Looking(p.q)
    <2>1. ReqGood(r, p)
      BY <1>1 DEF ThIInv, ReqHolds
    <2>2. QED
      BY <1>2, <2>1, IsReading DEF Reading
  <1>5. thIno \in Nat /\ \E S : thLru \in Seq(S)
    BY DEF ThIInv, FilesShaped
  <1>6. PICK e : e = [key |-> p.q.path, img |-> p.img, info |-> p.info]
    OBVIOUS
  <1>7. e.key = p.q.path /\ e.img = p.img /\ e.info = p.info
    BY <1>6
  <1>8. thLru' = AfterPut(thLru, e)
    BY <1>1, <1>6 DEF ThPut, InfoOf
  <1>9. (\E S : thLru' \in Seq(S)) /\ ToSet(thLru') \subseteq {e} \cup ToSet(thLru)
    <2>1. PICK S : thLru \in Seq(S)
      BY <1>5
    <2>2. thLru \in Seq(S \cup {e}) /\ e \in S \cup {e}
      BY <2>1
    <2>3. QED
      BY <1>8, <2>2, AfterPutFacts
  <1>10. <<e.key, e.info, e.img>> \in Known
    BY <1>1, <1>2, <1>7 DEF Known, BeingRead
  <1>11. PICK n : n = CutFrame(p.q)
    OBVIOUS
  <1>12. n[1].kind = "frame" /\ Named(n, thIno) /\ InCache' \subseteq Known \cup {n}
    BY <1>5, <1>9, <1>10, <1>11, CutFrameIsNamed DEF Known, InCache
  <1>13. PICK l : l = Returned(p.q, p.img)
    OBVIOUS
  <1>14. ReqGood(r, l) /\ l.pc \in {"stat", "answered"}
    BY <1>4, <1>13, ReturnedFacts
  <1>15. ~ (Looking(l) /\ l.pc = "get") /\ l.pc # "put"
    BY <1>14, StaysQuiet
  <1>16. thReq' = [thReq EXCEPT ![r] = l] /\ Active(thReq[r])
    BY <1>1, <1>4, <1>13 DEF ThPut, ReqTo, Active
  <1>17. FilesShaped' /\ KnownNamed' /\ OneImage' /\ (\A u \in Requests : ReqHolds(u))'
    BY <1>2, <1>9, <1>12, <1>14, <1>15, <1>16, ReqMoves
  <1>18. QED
    BY <1>3, <1>17 DEF ThIInv

(* A job is for a card.                                                    *)
LEMMA QueueKeeps ==
  ASSUME thJobNo \in Nat, thJobs \in Seq(CardJobs), NEW card \in Cards, QueueCardThumb(card)
  PROVE  thJobNo' \in Nat /\ thJobs' \in Seq(CardJobs)
  <1>1. CASE Queues(card) /\ ~ IsPending(card) /\ ~ QueueFull(card)
    <2>1. PICK j : j = [path |-> card, no |-> thJobNo + 1]
      OBVIOUS
    <2>2. thJobs' = Append(thJobs, j) /\ thJobNo' = thJobNo + 1
      BY <1>1, <2>1 DEF QueueCardThumb
    <2>3. j \in CardJobs
      BY <2>1 DEF CardJobs
    <2>4. QED
      BY <2>2, <2>3
  <1>2. CASE ~ (Queues(card) /\ ~ IsPending(card) /\ ~ QueueFull(card))
    <2>1. UNCHANGED <<thJobs, thJobNo>>
      BY <1>2 DEF QueueCardThumb
    <2>2. QED
      BY <2>1
  <1>3. QED
    BY <1>1, <1>2

(* A request without its card is answered with the snapshot it has found.  *)
LEMMA SnapshotInstead ==
  ASSUME NEW r, NEW q, Looking(q), RightPath(r, q), q.for \in {"card", "again"},
         NEW l, l = Answer(q, q.img, Original(q.sec))
  PROVE  ReqGood(r, l) /\ l.pc = "answered"
  <1>1. /\ Answered(l) /\ l.pc = "answered" /\ l.sec = q.sec /\ l.for = q.for
        /\ l.img = q.img /\ l.path = Original(q.sec)
    BY AnswerFacts
  <1>2. GoodAnswer(r, l)
    BY <1>1, PathFacts DEF RightPath, GoodAnswer
  <1>3. QED
    BY <1>1, <1>2 DEF ReqGood

(* A card that a request asks for is the card of a picture.                *)
LEMMA AskedCard ==
  ASSUME ThIInv, NEW r \in Requests, ThAsksCard(r)
  PROVE  thReq[r].path \in Cards
  <1>1. PICK q : q = thReq[r]
    OBVIOUS
  <1>2. q.pc = "queue"
    BY <1>1 DEF ThAsksCard
  <1>3. Looking(q) /\ Active(thReq[r]) /\ RightPath(r, q) /\ q.for = "card"
    BY <1>1, <1>2, HeldReq DEF LookPcs
  <1>4. q.path = CardThumbPath(q.sec, q.img.of) /\ Current(r, Original(q.sec), q.img)
    BY <1>3 DEF RightPath
  <1>5. [sec |-> Original(q.sec).sec, pic |-> q.img.of] \in [sec : Secs, pic : Pics]
    BY <1>4 DEF Current, ThIInv, FilesShaped
  <1>6. q.sec \in Secs /\ q.img.of \in Pics
    BY <1>5, PathFacts
  <1>7. QED
    BY <1>1, <1>4, <1>6 DEF CardThumbPath, Cards

LEMMA ThAsksCardKeeps ==
  ASSUME ThIInv, NEW r \in Requests, ThAsksCard(r)
  PROVE  ThIInv'
  <1>1. PICK q : q = thReq[r]
    OBVIOUS
  <1>2. q.pc = "queue" /\ UNCHANGED <<thFile, thIno, thWork, thSeen, thLru, thPub>>
    BY <1>1 DEF ThAsksCard, ThRest
  <1>3. Looking(q) /\ Active(thReq[r]) /\ RightPath(r, q) /\ q.for = "card"
    BY <1>1, <1>2, HeldReq DEF LookPcs
  <1>4. q.path \in Cards
    BY <1>1, AskedCard
  <1>5. JobsShaped'
    <2>1. thJobNo' \in Nat /\ thJobs' \in Seq(CardJobs)
      BY <1>1, <1>4, QueueKeeps DEF ThAsksCard, ThIInv, JobsShaped
    <2>2. QED
      BY <1>2, <2>1 DEF ThIInv, JobsShaped
  <1>6. CASE JobFor(q.path) = 0
    <2>1. PICK l : l = Answer(q, q.img, Original(q.sec))
      OBVIOUS
    <2>2. ReqGood(r, l) /\ l.pc = "answered"
      BY <1>3, <2>1, SnapshotInstead
    <2>3. thReq' = [thReq EXCEPT ![r] = l]
      BY <1>1, <1>6, <2>1 DEF ThAsksCard, ReqTo
    <2>4. ~ (Looking(l) /\ l.pc = "get") /\ l.pc # "put"
      BY <2>2, StaysQuiet
    <2>5. QED
      BY <1>2, <1>3, <1>5, <2>2, <2>3, <2>4, ReqMovesOnly
  <1>7. CASE JobFor(q.path) # 0
    <2>1. PICK j : j = JobFor(q.path)
      OBVIOUS
    <2>2. PICK l : l = [q EXCEPT !.pc = "wait", !.job = j]
      OBVIOUS
    <2>3. /\ Looking(l) /\ l.pc = "wait" /\ l.path = q.path /\ l.for = q.for
          /\ l.sec = q.sec /\ l.img = q.img
      BY <1>3, <2>2 DEF Looking, LookPcs
    <2>4. RightPath(r, l)
      BY <1>3, <2>3 DEF RightPath
    <2>5. ReqGood(r, l)
      BY <1>3, <2>3, <2>4 DEF ReqGood
    <2>6. thReq' = [thReq EXCEPT ![r] = l]
      BY <1>1, <1>7, <2>1, <2>2 DEF ThAsksCard, ReqTo
    <2>7. ~ (Looking(l) /\ l.pc = "get") /\ l.pc # "put"
      BY <2>3, StaysQuiet
    <2>8. QED
      BY <1>2, <1>3, <1>5, <2>5, <2>6, <2>7, ReqMovesOnly
  <1>8. QED
    BY <1>6, <1>7

(* A request that is told no.                                              *)
LEMMA RefusedKeeps ==
  ASSUME ThIInv, NEW r \in Requests, Active(thReq[r]), ReqTo(r, Refused),
         UNCHANGED <<thFile, thIno, thWork, thSeen, thLru>>, JobsShaped'
  PROVE  ThIInv'
  <1>1. PICK l : l = Refused
    OBVIOUS
  <1>2. l.pc = "refused" /\ ReqGood(r, l) /\ thReq' = [thReq EXCEPT ![r] = l]
    BY <1>1, ReqShapes DEF ReqGood, ReqTo
  <1>3. ~ (Looking(l) /\ l.pc = "get") /\ l.pc # "put"
    BY <1>2, StaysQuiet
  <1>4. QED
    BY <1>2, <1>3, ReqMovesOnly

LEMMA ThWaitedKeeps ==
  ASSUME ThIInv, NEW r \in Requests, ThWaited(r)
  PROVE  ThIInv'
  <1>1. PICK q : q = thReq[r]
    OBVIOUS
  <1>2. q.pc = "wait" /\ UNCHANGED <<thFile, thIno, thWork, thSeen, thLru>>
    BY <1>1 DEF ThWaited, ThRest
  <1>3. JobsShaped'
    BY JobsKept DEF ThWaited, ThRest
  <1>4. Looking(q) /\ Active(thReq[r]) /\ RightPath(r, q) /\ q.for = "card"
    BY <1>1, <1>2, HeldReq DEF LookPcs
  <1>5. CASE ReqTo(r, LookUp(q, "again", q.path))
    <2>1. PICK l : l = LookUp(q, "again", q.path)
      OBVIOUS
    <2>2. /\ Looking(l) /\ l.pc = "stat" /\ l.for = "again" /\ l.path = q.path
          /\ l.sec = q.sec /\ l.img = q.img
      BY <1>4, <2>1, LookUpFacts
    <2>3. RightPath(r, l)
      BY <1>4, <2>2 DEF RightPath
    <2>4. ReqGood(r, l)
      BY <2>2, <2>3 DEF ReqGood
    <2>5. ~ (Looking(l) /\ l.pc = "get") /\ l.pc # "put"
      BY <2>2, StaysQuiet
    <2>6. thReq' = [thReq EXCEPT ![r] = l]
      BY <1>5, <2>1 DEF ReqTo
    <2>7. QED
      BY <1>2, <1>3, <1>4, <2>4, <2>5, <2>6, ReqMovesOnly
  <1>6. CASE ReqTo(r, Answer(q, q.img, Original(q.sec)))
    <2>1. PICK l : l = Answer(q, q.img, Original(q.sec))
      OBVIOUS
    <2>2. ReqGood(r, l) /\ l.pc = "answered"
      BY <1>4, <2>1, SnapshotInstead
    <2>3. thReq' = [thReq EXCEPT ![r] = l]
      BY <1>6, <2>1 DEF ReqTo
    <2>4. ~ (Looking(l) /\ l.pc = "get") /\ l.pc # "put"
      BY <2>2, StaysQuiet
    <2>5. QED
      BY <1>2, <1>3, <1>4, <2>2, <2>3, <2>4, ReqMovesOnly
  <1>7. CASE ReqTo(r, Refused)
    BY <1>2, <1>3, <1>4, <1>7, RefusedKeeps
  <1>8. QED
    BY <1>1, <1>5, <1>6, <1>7 DEF ThWaited

LEMMA ThSlotKeeps ==
  ASSUME ThIInv, NEW r \in Requests, ThSlot(r)
  PROVE  ThIInv'
  <1>1. PICK q : q = thReq[r]
    OBVIOUS
  <1>2. q.pc = "slot" /\ UNCHANGED <<thFile, thIno, thWork, thSeen, thLru>>
    BY <1>1 DEF ThSlot, ThRest
  <1>3. JobsShaped'
    BY JobsKept DEF ThSlot, ThRest
  <1>4. Looking(q) /\ Active(thReq[r])
    BY <1>1, <1>2, HeldReq DEF LookPcs
  <1>5. CASE ReqTo(r, [q EXCEPT !.pc = "cut"])
    <2>1. PICK l : l = [q EXCEPT !.pc = "cut"]
      OBVIOUS
    <2>2. Looking(l) /\ l.pc = "cut"
      BY <1>4, <2>1 DEF Looking, LookPcs
    <2>3. ReqGood(r, l)
      BY <2>2 DEF ReqGood
    <2>4. ~ (Looking(l) /\ l.pc = "get") /\ l.pc # "put"
      BY <2>2, StaysQuiet
    <2>5. thReq' = [thReq EXCEPT ![r] = l]
      BY <1>5, <2>1 DEF ReqTo
    <2>6. QED
      BY <1>2, <1>3, <1>4, <2>3, <2>4, <2>5, ReqMovesOnly
  <1>6. CASE ReqTo(r, Refused)
    BY <1>2, <1>3, <1>4, <1>6, RefusedKeeps
  <1>7. QED
    BY <1>1, <1>5, <1>6 DEF ThSlot

LEMMA ThFrameKeeps ==
  ASSUME ThIInv, NEW r \in Requests, ThFrame(r)
  PROVE  ThIInv'
  <1>1. PICK q, key : q = thReq[r] /\ key = FrameKey(q.sec, q.exact)
    OBVIOUS
  <1>2. q.pc = "frame" /\ UNCHANGED <<thFile, thIno, thWork, thSeen>>
    BY <1>1 DEF ThFrame, ThRest
  <1>3. JobsShaped'
    BY JobsKept DEF ThFrame, ThRest
  <1>4. Looking(q) /\ Active(thReq[r])
    BY <1>1, <1>2, HeldReq DEF LookPcs
  <1>5. thIno \in Nat /\ \E S : thLru \in Seq(S)
    BY DEF ThIInv, FilesShaped
  <1>6. thLru' = AfterGet(thLru, key, NoInfo)
    BY <1>1 DEF ThFrame
  <1>7. (\E S : thLru' \in Seq(S)) /\ ToSet(thLru') \subseteq ToSet(thLru)
    BY <1>5, <1>6, AfterGetFacts
  <1>8. PICK n : n = CutFrame(q)
    OBVIOUS
  <1>9. n[1].kind = "frame" /\ Named(n, thIno) /\ InCache' \subseteq Known \cup {n}
    BY <1>5, <1>7, <1>8, CutFrameIsNamed DEF Known, InCache
  <1>10. PICK hit : hit = Hits(thLru, key, NoInfo)
    OBVIOUS
  <1>11. SUFFICES ASSUME NEW l, ReqTo(r, l), ReqGood(r, l),
                         l.pc \in {"stat", "slot", "answered", "refused"}
                  PROVE  ThIInv'
    <2>1. \E l : /\ ReqTo(r, l) /\ ReqGood(r, l)
                 /\ l.pc \in {"stat", "slot", "answered", "refused"}
      <3>1. CASE hit # {}
        <4>1. PICK e : e = CHOOSE x \in hit : TRUE
          OBVIOUS
        <4>2. e \in ToSet(thLru) /\ e.key = key
          BY <1>10, <3>1, <4>1 DEF Hits, Entries
        <4>3. PICK k : k = <<e.key, e.info, e.img>>
          OBVIOUS
        <4>4. k \in Known /\ k[1] = key /\ k[3] = e.img
          BY <4>2, <4>3 DEF Known, InCache
        <4>5. key.kind = "frame" /\ key.sec = q.sec
          BY <1>1, PathFacts
        <4>6. e.img.of = q.sec
          BY <4>4, <4>5 DEF ThIInv, KnownNamed, Named
        <4>7. PICK l : l = Answer(q, e.img, key)
          OBVIOUS
        <4>8. /\ Answered(l) /\ l.pc = "answered" /\ l.sec = q.sec /\ l.img = e.img /\ l.path = key
          BY <4>7, AnswerFacts
        <4>9. GoodAnswer(r, l)
          BY <4>5, <4>6, <4>8 DEF GoodAnswer
        <4>10. ReqTo(r, l)
          BY <1>1, <1>10, <3>1, <4>1, <4>7 DEF ThFrame
        <4>11. QED
          BY <4>8, <4>9, <4>10 DEF ReqGood
      <3>2. CASE ReqTo(r, [q EXCEPT !.pc = "slot"])
        <4>1. PICK l : l = [q EXCEPT !.pc = "slot"]
          OBVIOUS
        <4>2. Looking(l) /\ l.pc = "slot"
          BY <1>4, <4>1 DEF Looking, LookPcs
        <4>3. QED
          BY <3>2, <4>1, <4>2 DEF ReqGood
      <3>3. CASE \E p \in NearestEvThumb(q.sec) : ReqTo(r, LookUp(q, "near", p))
        <4>1. PICK p \in NearestEvThumb(q.sec) : ReqTo(r, LookUp(q, "near", p))
          BY <3>3
        <4>2. PICK l : l = LookUp(q, "near", p)
          OBVIOUS
        <4>3. /\ Looking(l) /\ l.pc = "stat" /\ l.for = "near" /\ l.path = p /\ l.sec = q.sec
          BY <1>4, <4>2, LookUpFacts
        <4>4. \E s \in Secs : p = Original(s) /\ Abs(s - q.sec) <= Near
          BY DEF NearestEvThumb
        <4>5. RightPath(r, l)
          BY <4>3, <4>4 DEF RightPath
        <4>6. QED
          BY <4>1, <4>2, <4>3, <4>5 DEF ReqGood
      <3>4. CASE ReqTo(r, Refused)
        BY <3>4, ReqShapes DEF ReqGood
      <3>5. QED
        BY <1>1, <1>10, <3>1, <3>2, <3>3, <3>4 DEF ThFrame
    <2>2. QED
      BY <1>11, <2>1
  <1>12. ~ (Looking(l) /\ l.pc = "get") /\ l.pc # "put"
    BY <1>11, StaysQuiet
  <1>13. FilesShaped' /\ KnownNamed' /\ OneImage' /\ (\A u \in Requests : ReqHolds(u))'
    BY <1>2, <1>4, <1>7, <1>9, <1>11, <1>12, ReqMoves DEF ReqTo
  <1>14. QED
    BY <1>3, <1>13 DEF ThIInv

LEMMA ThCutKeeps ==
  ASSUME ThIInv, NEW r \in Requests, ThCut(r)
  PROVE  ThIInv'
  <1>1. PICK q, key, f : q = thReq[r] /\ key = FrameKey(q.sec, q.exact) /\ f = FrameOf(q.sec)
    OBVIOUS
  <1>2. q.pc = "cut" /\ UNCHANGED <<thFile, thIno, thWork, thSeen>>
    BY <1>1 DEF ThCut, ThRest
  <1>3. JobsShaped'
    BY JobsKept DEF ThCut, ThRest
  <1>4. Looking(q) /\ Active(thReq[r])
    BY <1>1, <1>2, HeldReq DEF LookPcs
  <1>5. CASE ReqTo(r, Refused) /\ UNCHANGED thLru
    BY <1>2, <1>3, <1>4, <1>5, RefusedKeeps
  <1>6. CASE /\ thLru' = AfterPut(thLru, [key |-> key, img |-> f, info |-> NoInfo])
             /\ ReqTo(r, Answer(q, f, key))
    <2>1. thIno \in Nat /\ \E S : thLru \in Seq(S)
      BY DEF ThIInv, FilesShaped
    <2>2. PICK e : e = [key |-> key, img |-> f, info |-> NoInfo]
      OBVIOUS
    <2>3. e.key = key /\ e.img = f /\ e.info = NoInfo
      BY <2>2
    <2>4. (\E S : thLru' \in Seq(S)) /\ ToSet(thLru') \subseteq {e} \cup ToSet(thLru)
      <3>1. PICK S : thLru \in Seq(S)
        BY <2>1
      <3>2. thLru \in Seq(S \cup {e}) /\ e \in S \cup {e}
        BY <3>1
      <3>3. QED
        BY <1>6, <2>2, <3>2, AfterPutFacts
    <2>5. PICK n : n = CutFrame(q)
      OBVIOUS
    <2>6. n = <<e.key, e.info, e.img>>
      BY <1>1, <2>3, <2>5 DEF CutFrame
    <2>7. n[1].kind = "frame" /\ Named(n, thIno) /\ InCache' \subseteq Known \cup {n}
      BY <2>1, <2>4, <2>5, <2>6, CutFrameIsNamed DEF Known, InCache
    <2>8. PICK l : l = Answer(q, f, key)
      OBVIOUS
    <2>9. /\ Answered(l) /\ l.pc = "answered" /\ l.sec = q.sec /\ l.img = f /\ l.path = key
      BY <2>8, AnswerFacts
    <2>10. GoodAnswer(r, l)
      BY <1>1, <2>9, PathFacts DEF GoodAnswer
    <2>11. ReqGood(r, l) /\ ~ (Looking(l) /\ l.pc = "get") /\ l.pc # "put"
      BY <2>9, <2>10 DEF ReqGood
    <2>12. FilesShaped' /\ KnownNamed' /\ OneImage' /\ (\A u \in Requests : ReqHolds(u))'
      BY <1>2, <1>4, <1>6, <2>4, <2>7, <2>8, <2>11, ReqMoves DEF ReqTo
    <2>13. QED
      BY <1>3, <2>12 DEF ThIInv
  <1>7. QED
    BY <1>1, <1>5, <1>6 DEF ThCut

(* A request arrives: it has seen what is on disk.                         *)
LEMMA RecThumbKeeps ==
  ASSUME ThIInv, NEW r \in Requests, NEW ask \in Asks[r], RecThumb(r, ask)
  PROVE  ThIInv'
  <1>1. ask.sec \in Secs /\ ask.exact \in BOOLEAN /\ ask.card \in BOOLEAN
    BY ThumbsAssumption
  <1>2. PICK s, q : /\ s = ask.sec
                    /\ q = [pc |-> "frame", sec |-> s, exact |-> ask.exact, card |-> ask.card,
                            for |-> "orig", path |-> Original(s), info |-> NoInfo,
                            img |-> FrameOf(s), job |-> 0]
    OBVIOUS
  <1>3. Looking(q) /\ q.pc = "frame" /\ q.sec = s
    BY <1>1, <1>2 DEF Looking, LookPcs
  <1>4. PICK l : l = IF ask.exact THEN q ELSE LookUp(q, "orig", Original(s))
    OBVIOUS
  <1>5. Looking(l) /\ ReqGood(r, l)' /\ l.pc \in {"frame", "stat"}
    <2>1. CASE ask.exact
      BY <1>3, <1>4, <2>1 DEF ReqGood
    <2>2. CASE ~ ask.exact
      <3>1. l = LookUp(q, "orig", Original(s))
        BY <1>4, <2>2
      <3>2. Looking(l) /\ l.pc = "stat" /\ l.for = "orig" /\ l.path = Original(s) /\ l.sec = s
        BY <1>3, <3>1, LookUpFacts
      <3>3. RightPath(r, l)'
        BY <3>2 DEF RightPath
      <3>4. QED
        BY <3>2, <3>3 DEF ReqGood
    <2>3. QED
      BY <2>1, <2>2
  <1>6. thReq' = [thReq EXCEPT ![r] = l]
    BY <1>2, <1>4 DEF RecThumb, ReqTo
  <1>7. /\ UNCHANGED <<thFile, thIno, thWork, thLru>> /\ thReq[r] = NotAsked
        /\ thSeen' = [thSeen EXCEPT ![r] = {[sec |-> p.sec, pic |-> thFile[p].img.of] :
                                               p \in {x \in DOMAIN thFile : x.kind = "orig"}}]
    BY DEF RecThumb, ThRest
  <1>8. JobsShaped'
    BY JobsKept DEF RecThumb, ThRest
  <1>9. /\ DOMAIN thReq = Requests /\ DOMAIN thSeen = Requests /\ thIno \in Nat
        /\ \A p \in DOMAIN thFile : p \in Paths /\ (p.kind = "orig" => thFile[p].img.of \in Pics)
    BY DEF ThIInv, FilesShaped
  <1>10. SeesDisk(r)'
    BY <1>7, <1>9 DEF SeesDisk, Current
  <1>11. thSeen'[r] \subseteq [sec : Secs, pic : Pics]
    <2>1. \A p \in DOMAIN thFile : p.sec \in Secs
      BY <1>9 DEF Paths
    <2>2. QED
      BY <1>7, <1>9, <2>1
  <1>12. BeingRead' \subseteq BeingRead
    <2>1. l.pc # "put" /\ NotAsked.pc # "put"
      BY <1>5 DEF NotAsked
    <2>2. \A u \in Requests : thReq'[u].pc = "put" => thReq'[u] = thReq[u]
      BY <1>6, <1>9, <2>1
    <2>3. QED
      BY <2>2 DEF BeingRead
  <1>13. Known' \subseteq Known
    BY <1>7, <1>12, KnownParts DEF Known
  <1>14. PICK n : n = CutFrame(q)
    OBVIOUS
  <1>15. Grows(n)
    BY <1>13 DEF Grows
  <1>16. thIno' \in Nat /\ thIno' >= thIno
    BY <1>7, <1>9
  <1>17. KnownNamed' /\ OneImage'
    BY <1>9, <1>15, <1>16, KnownGrows DEF ThIInv
  <1>18. ASSUME NEW u \in Requests
         PROVE  ReqHolds(u)'
    <2>1. CASE u = r
      <3>1. thReq'[r] = l
        BY <1>6, <1>9
      <3>2. QED
        BY <1>5, <1>10, <2>1, <3>1 DEF ReqHolds
    <2>2. CASE u # r
      <3>1. thReq'[u] = thReq[u] /\ thSeen'[u] = thSeen[u]
        BY <1>6, <1>7, <1>9, <2>2
      <3>2. SeesDisk(u) => SeesDisk(u)'
        BY <1>7, <3>1 DEF SeesDisk, Current
      <3>3. ReqHolds(u)
        BY DEF ThIInv
      <3>4. QED
        BY <1>9, <1>15, <1>16, <3>1, <3>2, <3>3, OthersKeep
    <2>3. QED
      BY <2>1, <2>2
  <1>19. FilesShaped'
    <2>1. \A u \in Requests : thSeen'[u] \subseteq [sec : Secs, pic : Pics]
      BY <1>7, <1>9, <1>11 DEF ThIInv, FilesShaped
    <2>2. \E S : thLru' \in Seq(S)
      BY <1>7 DEF ThIInv, FilesShaped
    <2>3. DOMAIN thReq' = Requests /\ DOMAIN thSeen' = Requests
      BY <1>6, <1>7, <1>9
    <2>4. QED
      BY <1>7, <1>9, <2>1, <2>2, <2>3 DEF FilesShaped
  <1>20. QED
    BY <1>8, <1>17, <1>18, <1>19 DEF ThIInv

-----------------------------------------------------------------------------
(* A file written: it is a new one, and replaces what the name had.        *)
LEMMA RenameAdds ==
  ASSUME ThIInv, NEW path \in Paths, NEW img, Rename(path, img),
         path.kind = "card" => img = Small(path.pic), path.kind = "orig" => img.of \in Pics,
         InCache' = InCache, BeingRead' = BeingRead, BeingMade' \subseteq BeingMade
  PROVE  /\ Grows(<<path, thIno + 1, img>>) /\ thIno' = thIno + 1
         /\ \A p \in DOMAIN thFile' : \/ p = path /\ thFile'[p].img = img
                                      \/ p \in DOMAIN thFile /\ thFile'[p] = thFile[p]
         /\ \A p \in DOMAIN thFile' : p \in Paths /\ (p.kind = "orig" => thFile'[p].img.of \in Pics)
  <1>1. /\ thIno \in Nat
        /\ \A p \in DOMAIN thFile : p \in Paths /\ (p.kind = "orig" => thFile[p].img.of \in Pics)
    BY DEF ThIInv, FilesShaped
  <1>2. PICK f : f = [ino |-> thIno + 1, img |-> img]
    OBVIOUS
  <1>3. f.ino = thIno + 1 /\ f.img = img
    BY <1>2
  <1>4. /\ thIno' = thIno + 1
        /\ thFile' = [p \in DOMAIN thFile \cup {path} |-> IF p = path THEN f ELSE thFile[p]]
    BY <1>2 DEF Rename
  <1>5. /\ DOMAIN thFile' = DOMAIN thFile \cup {path} /\ thFile'[path] = f
        /\ \A p \in DOMAIN thFile : p # path => thFile'[p] = thFile[p]
    BY <1>4
  <1>6. PICK n : n = <<path, thIno + 1, img>>
    OBVIOUS
  <1>7. n[1] = path /\ n[2] = thIno + 1 /\ n[3] = img
    BY <1>6
  <1>8. Named(n, thIno') /\ n[2] > thIno
    <2>1. path.kind \in {"orig", "card"}
      BY DEF Paths
    <2>2. n[2] \in 0 .. thIno' /\ n[2] > thIno
      BY <1>1, <1>4, <1>7
    <2>3. QED
      BY <1>7, <2>1, <2>2 DEF Named
  <1>9. OnDiskNow' \subseteq OnDiskNow \cup {n}
    <2> SUFFICES ASSUME NEW p \in DOMAIN thFile'
                 PROVE  <<p, thFile'[p].ino, thFile'[p].img>> \in OnDiskNow \cup {n}
      BY DEF OnDiskNow
    <2>1. CASE p = path
      BY <1>3, <1>5, <1>6, <2>1
    <2>2. CASE p # path
      BY <1>5, <2>2 DEF OnDiskNow
    <2>3. QED
      BY <2>1, <2>2
  <1>10. Known' \subseteq Known \cup {n}
    BY <1>9 DEF Known
  <1>11. Grows(n)
    BY <1>8, <1>10 DEF Grows
  <1>12. \A p \in DOMAIN thFile' : \/ p = path /\ thFile'[p].img = img
                                   \/ p \in DOMAIN thFile /\ thFile'[p] = thFile[p]
    BY <1>3, <1>5
  <1>13. \A p \in DOMAIN thFile' : p \in Paths /\ (p.kind = "orig" => thFile'[p].img.of \in Pics)
    BY <1>1, <1>12
  <1>14. QED
    BY <1>4, <1>6, <1>11, <1>12, <1>13

LEMMA StoreEventThumbKeeps ==
  ASSUME ThIInv, NEW snap \in Snapshots, StoreEventThumb(snap)
  PROVE  ThIInv'
  <1>1. snap \in [sec : Secs, pic : Pics]
    BY ThumbsAssumption
  <1>2. PICK path, img : path = Original(snap.sec) /\ img = Full(snap.pic)
    OBVIOUS
  <1>3. /\ path \in Paths /\ path.kind = "orig" /\ path.sec = snap.sec /\ img.of = snap.pic
        /\ path.kind # "card"
    BY <1>1, <1>2, PathFacts DEF Original, Paths
  <1>4. /\ Rename(path, img) /\ UNCHANGED <<thLru, thReq, thJobs, thJobNo, thWork>>
        /\ thPub' = CardThumbPath(snap.sec, snap.pic)
        /\ thSeen' = [r \in Requests |->
                         IF thReq[r].pc \in {"idle", "answered", "refused"} THEN thSeen[r]
                         ELSE thSeen[r] \cup {snap}]
    BY <1>2 DEF StoreEventThumb
  <1>5. PICK n : n = <<path, thIno + 1, img>>
    OBVIOUS
  <1>6. InCache' = InCache /\ BeingRead' = BeingRead /\ BeingMade' \subseteq BeingMade
    BY <1>4, KnownParts
  <1>7. /\ Grows(n) /\ thIno' = thIno + 1
        /\ \A p \in DOMAIN thFile' : \/ p = path /\ thFile'[p].img = img
                                     \/ p \in DOMAIN thFile /\ thFile'[p] = thFile[p]
        /\ \A p \in DOMAIN thFile' : p \in Paths /\ (p.kind = "orig" => thFile'[p].img.of \in Pics)
    BY <1>1, <1>3, <1>4, <1>5, <1>6, RenameAdds
  <1>8. thIno \in Nat
    BY DEF ThIInv, FilesShaped
  <1>9. thIno' \in Nat /\ thIno' >= thIno
    BY <1>7, <1>8
  <1>10. ASSUME NEW u \in Requests
         PROVE  thSeen[u] \subseteq thSeen'[u] /\ (Active(thReq[u]) /\ SeesDisk(u) => SeesDisk(u)')
    <2>1. thSeen[u] \subseteq thSeen'[u]
      BY <1>4
    <2>2. ASSUME Active(thReq[u]), SeesDisk(u)
          PROVE  SeesDisk(u)'
      <3>1. thReq[u].pc \notin {"idle", "answered", "refused"}
        BY <2>2, ReqShapes DEF Active, LookPcs
      <3>2. snap \in thSeen'[u]
        BY <1>4, <3>1
      <3>3. snap = [sec |-> snap.sec, pic |-> snap.pic]
        BY <1>1
      <3>4. ASSUME NEW p \in DOMAIN thFile', p.kind = "orig"
            PROVE  [sec |-> p.sec, pic |-> thFile'[p].img.of] \in thSeen'[u]
        <4>1. CASE p = path /\ thFile'[p].img = img
          BY <1>3, <3>2, <3>3, <4>1
        <4>2. CASE p \in DOMAIN thFile /\ thFile'[p] = thFile[p]
          BY <2>1, <2>2, <3>4, <4>2 DEF SeesDisk, Current
        <4>3. QED
          BY <1>7, <4>1, <4>2
      <3>5. QED
        BY <3>4 DEF SeesDisk, Current
    <2>3. QED
      BY <2>1, <2>2
  <1>11. KnownNamed' /\ OneImage' /\ (\A u \in Requests : ReqHolds(u))'
    BY <1>4, <1>7, <1>9, <1>10, OthersMove
  <1>12. FilesShaped'
    <2>1. \A u \in Requests : thSeen'[u] \subseteq [sec : Secs, pic : Pics]
      BY <1>1, <1>4 DEF ThIInv, FilesShaped
    <2>2. (\E S : thLru' \in Seq(S)) /\ DOMAIN thReq' = Requests /\ DOMAIN thSeen' = Requests
      BY <1>4 DEF ThIInv, FilesShaped
    <2>3. QED
      BY <1>7, <1>9, <2>1, <2>2 DEF FilesShaped
  <1>13. JobsShaped'
    <2>1. thPub' \in Cards
      BY <1>1, <1>4 DEF CardThumbPath, Cards
    <2>2. QED
      BY <1>4, <2>1 DEF ThIInv, JobsShaped
  <1>14. QED
    BY <1>11, <1>12, <1>13 DEF ThIInv

(* What leaves the files, the cache and the requests alone.                *)
LEMMA OthersJobs ==
  ASSUME ThIInv, UNCHANGED <<thFile, thIno, thLru, thReq, thSeen>>, BeingMade' \subseteq Known,
         JobsShaped'
  PROVE  ThIInv'
  <1>1. PICK n : n = <<0, 0, 0>>
    OBVIOUS
  <1>2. Known' \subseteq Known
    BY KnownParts DEF Known
  <1>3. Grows(n)
    BY <1>2 DEF Grows
  <1>4. thIno' \in Nat /\ thIno' >= thIno
    BY DEF ThIInv, FilesShaped
  <1>5. \A u \in Requests :
           thSeen[u] \subseteq thSeen'[u] /\ (Active(thReq[u]) /\ SeesDisk(u) => SeesDisk(u)')
    BY DEF SeesDisk, Current
  <1>6. KnownNamed' /\ OneImage' /\ (\A u \in Requests : ReqHolds(u))'
    BY <1>3, <1>4, <1>5, OthersMove
  <1>7. FilesShaped'
    BY DEF ThIInv, FilesShaped
  <1>8. QED
    BY <1>6, <1>7 DEF ThIInv

LEMMA StoreQueuesCardKeeps ==
  ASSUME ThIInv, StoreQueuesCard
  PROVE  ThIInv'
  <1>1. thPub \in Cards
    BY DEF StoreQueuesCard, ThIInv, JobsShaped
  <1>2. thJobNo' \in Nat /\ thJobs' \in Seq(CardJobs)
    BY <1>1, QueueKeeps DEF StoreQueuesCard, ThIInv, JobsShaped
  <1>3. JobsShaped'
    BY <1>2 DEF StoreQueuesCard, ThIInv, JobsShaped
  <1>4. UNCHANGED <<thFile, thIno, thLru, thReq, thSeen>> /\ BeingMade' \subseteq Known
    BY KnownParts DEF StoreQueuesCard, Known
  <1>5. QED
    BY <1>3, <1>4, OthersJobs

LEMMA ThStopKeeps ==
  ASSUME ThIInv, ThStop
  PROVE  ThIInv'
  <1>1. UNCHANGED <<thFile, thIno, thLru, thReq, thSeen>> /\ BeingMade' \subseteq Known
    BY KnownParts DEF ThStop, Known
  <1>2. JobsShaped'
    BY JobsKept DEF ThStop
  <1>3. QED
    BY <1>1, <1>2, OthersJobs

LEMMA PruneEventThumbKeeps ==
  ASSUME ThIInv, NEW x \in Paths, PruneEventThumb(x)
  PROVE  ThIInv'
  <1>1. UNCHANGED <<thIno, thLru, thReq, thWork, thSeen, thPub, thJobs, thJobNo>>
    BY DEF PruneEventThumb
  <1>2. DOMAIN thFile' \subseteq DOMAIN thFile /\ \A p \in DOMAIN thFile' : thFile'[p] = thFile[p]
    BY DEF PruneEventThumb
  <1>3. OnDiskNow' \subseteq OnDiskNow
    BY <1>2 DEF OnDiskNow
  <1>4. Known' \subseteq Known
    BY <1>1, <1>3, KnownParts DEF Known
  <1>5. PICK n : n = <<0, 0, 0>>
    OBVIOUS
  <1>6. Grows(n)
    BY <1>4 DEF Grows
  <1>7. thIno' \in Nat /\ thIno' >= thIno
    BY <1>1 DEF ThIInv, FilesShaped
  <1>8. \A u \in Requests :
           thSeen[u] \subseteq thSeen'[u] /\ (Active(thReq[u]) /\ SeesDisk(u) => SeesDisk(u)')
    BY <1>1, <1>2 DEF SeesDisk, Current
  <1>9. KnownNamed' /\ OneImage' /\ (\A u \in Requests : ReqHolds(u))'
    BY <1>1, <1>6, <1>7, <1>8, OthersMove
  <1>10. FilesShaped'
    BY <1>1, <1>2 DEF ThIInv, FilesShaped
  <1>11. JobsShaped'
    BY <1>1, JobsKept
  <1>12. QED
    BY <1>9, <1>10, <1>11 DEF ThIInv

-----------------------------------------------------------------------------
(* A worker's next state.                                                  *)
WorkShape(s) ==
    s \in {Free, [pc |-> "ended"]} \cup [pc : {"convert", "stat", "finish"}, job : CardJobs]
          \cup [pc : {"put"}, job : CardJobs, info : {s.info}]

LEMMA WorkMoves ==
  ASSUME JobsShaped, NEW w \in Workers, NEW s, WorkShape(s), thWork' = [thWork EXCEPT ![w] = s]
  PROVE  /\ DOMAIN thWork' = Workers /\ \A v \in Workers : WorkShape(thWork'[v])
         /\ s.pc # "put" => BeingMade' \subseteq BeingMade
         /\ s.pc = "put" => BeingMade' \subseteq BeingMade
                              \cup {<<s.job.path, s.info, Small(s.job.path.pic)>>}
  <1>1. DOMAIN thWork = Workers /\ \A v \in Workers : WorkShape(thWork[v])
    BY DEF JobsShaped, WorkShape
  <1>2. thWork'[w] = s /\ \A v \in Workers : v # w => thWork'[v] = thWork[v]
    BY <1>1
  <1>3. DOMAIN thWork' = Workers /\ \A v \in Workers : WorkShape(thWork'[v])
    BY <1>1, <1>2
  <1>4. BeingMade' \subseteq BeingMade \cup {<<s.job.path, s.info, Small(s.job.path.pic)>>}
    BY <1>2 DEF BeingMade
  <1>5. s.pc # "put" => BeingMade' \subseteq BeingMade
    BY <1>2 DEF BeingMade
  <1>6. QED
    BY <1>3, <1>4, <1>5

LEMMA WorkPcs ==
  ASSUME NEW s, WorkShape(s)
  PROVE  /\ s.pc \in {"convert", "stat", "finish", "put"} => s.job \in CardJobs
         /\ s.job \in CardJobs => s.job.path \in Cards /\ s.job.path \in Paths
                                  /\ s.job.path.kind = "card" /\ s.job.path.kind # "orig"
  BY DEF WorkShape, Free, CardJobs, Cards, Paths

LEMMA WorkerTakesKeeps ==
  ASSUME ThIInv, NEW w \in Workers, WorkerTakes(w)
  PROVE  ThIInv'
  <1>1. PICK j, s : j = Head(thJobs) /\ s = [pc |-> "convert", job |-> j]
    OBVIOUS
  <1>2. thJobs \in Seq(CardJobs) /\ thJobs # << >> /\ JobsShaped
    BY DEF WorkerTakes, ThIInv, JobsShaped
  <1>3. j \in CardJobs /\ Tail(thJobs) \in Seq(CardJobs)
    BY <1>1, <1>2
  <1>4. s.pc # "put" /\ WorkShape(s) /\ thWork' = [thWork EXCEPT ![w] = s]
    BY <1>1, <1>3 DEF WorkerTakes, WorkShape
  <1>5. /\ BeingMade' \subseteq BeingMade /\ DOMAIN thWork' = Workers
        /\ \A v \in Workers : WorkShape(thWork'[v])
    BY <1>2, <1>4, WorkMoves
  <1>6. JobsShaped'
    BY <1>2, <1>3, <1>5 DEF WorkerTakes, JobsShaped, WorkShape
  <1>7. UNCHANGED <<thFile, thIno, thLru, thReq, thSeen>> /\ BeingMade' \subseteq Known
    BY <1>5 DEF WorkerTakes, Known
  <1>8. QED
    BY <1>6, <1>7, OthersJobs

LEMMA WorkerConvertsKeeps ==
  ASSUME ThIInv, NEW w \in Workers, WorkerConverts(w)
  PROVE  ThIInv'
  <1>1. PICK a, job : a = thWork[w] /\ job = a.job
    OBVIOUS
  <1>2. /\ a.pc = "convert" /\ JobsShaped /\ WorkShape(a)
        /\ UNCHANGED <<thLru, thReq, thSeen, thPub, thJobs, thJobNo>>
    BY <1>1 DEF WorkerConverts, ThIInv, JobsShaped, WorkShape
  <1>3. /\ job \in CardJobs /\ job.path \in Cards /\ job.path \in Paths
        /\ job.path.kind = "card" /\ job.path.kind # "orig"
    BY <1>1, <1>2, WorkPcs
  <1>4. a = [pc |-> "convert", job |-> job]
    BY <1>1, <1>2 DEF WorkShape, Free
  <1>5. ASSUME NEW s, s \in [pc : {"stat", "finish"}, job : {job}], thWork' = [thWork EXCEPT ![w] = s]
        PROVE  BeingMade' \subseteq BeingMade /\ JobsShaped'
    <2>1. s.pc # "put" /\ WorkShape(s)
      BY <1>3, <1>5 DEF WorkShape
    <2>2. /\ BeingMade' \subseteq BeingMade /\ DOMAIN thWork' = Workers
          /\ \A v \in Workers : WorkShape(thWork'[v])
      BY <1>2, <1>5, <2>1, WorkMoves
    <2>3. QED
      BY <1>2, <2>2 DEF JobsShaped, WorkShape
  <1>6. CASE thWork' = [thWork EXCEPT ![w].pc = "finish"] /\ UNCHANGED <<thFile, thIno>>
    <2>1. PICK s : s = [a EXCEPT !.pc = "finish"]
      OBVIOUS
    <2>2. s \in [pc : {"stat", "finish"}, job : {job}]
      BY <1>4, <2>1
    <2>3. thWork' = [thWork EXCEPT ![w] = s]
      BY <1>1, <1>6, <2>1
    <2>4. BeingMade' \subseteq Known /\ JobsShaped'
      BY <1>5, <2>2, <2>3 DEF Known
    <2>5. QED
      BY <1>2, <1>6, <2>4, OthersJobs
  <1>7. CASE Rename(job.path, Small(job.path.pic)) /\ thWork' = [thWork EXCEPT ![w].pc = "stat"]
    <2>1. PICK s : s = [a EXCEPT !.pc = "stat"]
      OBVIOUS
    <2>2. s \in [pc : {"stat", "finish"}, job : {job}]
      BY <1>4, <2>1
    <2>3. thWork' = [thWork EXCEPT ![w] = s]
      BY <1>1, <1>7, <2>1
    <2>4. BeingMade' \subseteq BeingMade /\ JobsShaped'
      BY <1>5, <2>2, <2>3
    <2>5. PICK path, img : path = job.path /\ img = Small(path.pic)
      OBVIOUS
    <2>6. path \in Paths /\ path.kind # "orig" /\ img = Small(path.pic) /\ Rename(path, img)
      BY <1>3, <1>7, <2>5
    <2>7. InCache' = InCache /\ BeingRead' = BeingRead
      BY <1>2, KnownParts
    <2>8. PICK n : n = <<path, thIno + 1, img>>
      OBVIOUS
    <2>9. /\ Grows(n) /\ thIno' = thIno + 1
          /\ \A p \in DOMAIN thFile' : \/ p = path /\ thFile'[p].img = img
                                       \/ p \in DOMAIN thFile /\ thFile'[p] = thFile[p]
          /\ \A p \in DOMAIN thFile' : p \in Paths /\ (p.kind = "orig" => thFile'[p].img.of \in Pics)
      BY <2>4, <2>6, <2>7, <2>8, RenameAdds
    <2>10. thIno' \in Nat /\ thIno' >= thIno
      BY <2>9 DEF ThIInv, FilesShaped
    <2>11. \A u \in Requests :
              thSeen[u] \subseteq thSeen'[u] /\ (Active(thReq[u]) /\ SeesDisk(u) => SeesDisk(u)')
      BY <1>2, <2>6, <2>9 DEF SeesDisk, Current
    <2>12. KnownNamed' /\ OneImage' /\ (\A u \in Requests : ReqHolds(u))'
      BY <1>2, <2>9, <2>10, <2>11, OthersMove
    <2>13. FilesShaped'
      BY <1>2, <2>9, <2>10 DEF ThIInv, FilesShaped
    <2>14. QED
      BY <2>4, <2>12, <2>13 DEF ThIInv
  <1>8. QED
    BY <1>1, <1>6, <1>7 DEF WorkerConverts

LEMMA WorkerStatsKeeps ==
  ASSUME ThIInv, NEW w \in Workers, WorkerStats(w)
  PROVE  ThIInv'
  <1>1. PICK a, job : a = thWork[w] /\ job = a.job
    OBVIOUS
  <1>2. /\ a.pc = "stat" /\ JobsShaped /\ WorkShape(a)
        /\ UNCHANGED <<thFile, thIno, thLru, thReq, thSeen, thPub, thJobs, thJobNo>>
    BY <1>1 DEF WorkerStats, ThIInv, JobsShaped, WorkShape
  <1>3. job \in CardJobs /\ job.path.kind = "card"
    BY <1>1, <1>2, WorkPcs
  <1>4. CASE Exists(job.path)
    <2>1. PICK f, s : f = thFile[job.path] /\ s = [pc |-> "put", job |-> job, info |-> f.ino]
      OBVIOUS
    <2>2. s.pc = "put" /\ s.job = job /\ s.info = f.ino /\ WorkShape(s)
      BY <1>3, <2>1 DEF WorkShape
    <2>3. thWork' = [thWork EXCEPT ![w] = s]
      BY <1>1, <1>4, <2>1 DEF WorkerStats
    <2>4. PICK k : k = <<job.path, f.ino, f.img>>
      OBVIOUS
    <2>5. k \in Known /\ k[1] = job.path /\ k[3] = f.img
      BY <1>4, <2>1, <2>4 DEF Known, OnDiskNow, Exists
    <2>6. f.img = Small(job.path.pic)
      BY <1>3, <2>5 DEF ThIInv, KnownNamed, Named
    <2>7. /\ BeingMade' \subseteq BeingMade \cup {k} /\ DOMAIN thWork' = Workers
          /\ \A v \in Workers : WorkShape(thWork'[v])
      BY <1>2, <2>2, <2>3, <2>4, <2>6, WorkMoves
    <2>8. JobsShaped'
      BY <1>2, <2>7 DEF JobsShaped, WorkShape
    <2>9. BeingMade' \subseteq Known
      BY <2>5, <2>7 DEF Known
    <2>10. QED
      BY <1>2, <2>8, <2>9, OthersJobs
  <1>5. CASE ~ Exists(job.path)
    <2>1. PICK s : s = [pc |-> "finish", job |-> job]
      OBVIOUS
    <2>2. s.pc # "put" /\ WorkShape(s) /\ thWork' = [thWork EXCEPT ![w] = s]
      BY <1>1, <1>3, <1>5, <2>1 DEF WorkerStats, WorkShape
    <2>3. /\ BeingMade' \subseteq BeingMade /\ DOMAIN thWork' = Workers
          /\ \A v \in Workers : WorkShape(thWork'[v])
      BY <1>2, <2>2, WorkMoves
    <2>4. JobsShaped'
      BY <1>2, <2>3 DEF JobsShaped, WorkShape
    <2>5. BeingMade' \subseteq Known
      BY <2>3 DEF Known
    <2>6. QED
      BY <1>2, <2>4, <2>5, OthersJobs
  <1>6. QED
    BY <1>4, <1>5

LEMMA WorkerPutsKeeps ==
  ASSUME ThIInv, NEW w \in Workers, WorkerPuts(w)
  PROVE  ThIInv'
  <1>1. PICK a, job : a = thWork[w] /\ job = a.job
    OBVIOUS
  <1>2. /\ a.pc = "put" /\ JobsShaped /\ WorkShape(a)
        /\ UNCHANGED <<thFile, thIno, thReq, thSeen, thPub, thJobs, thJobNo>>
    BY <1>1 DEF WorkerPuts, ThIInv, JobsShaped, WorkShape
  <1>3. job \in CardJobs
    BY <1>1, <1>2, WorkPcs
  <1>4. PICK s : s = [pc |-> "finish", job |-> job]
    OBVIOUS
  <1>5. s.pc # "put" /\ WorkShape(s) /\ thWork' = [thWork EXCEPT ![w] = s]
    BY <1>1, <1>3, <1>4 DEF WorkerPuts, WorkShape
  <1>6. /\ BeingMade' \subseteq BeingMade /\ DOMAIN thWork' = Workers
        /\ \A v \in Workers : WorkShape(thWork'[v])
    BY <1>2, <1>5, WorkMoves
  <1>7. JobsShaped'
    BY <1>2, <1>6 DEF JobsShaped, WorkShape
  <1>8. PICK e : e = [key |-> job.path, img |-> Small(job.path.pic), info |-> a.info]
    OBVIOUS
  <1>9. e.key = job.path /\ e.img = Small(job.path.pic) /\ e.info = a.info
    BY <1>8
  <1>10. thLru' = AfterPut(thLru, e)
    BY <1>1, <1>8 DEF WorkerPuts
  <1>11. (\E S : thLru' \in Seq(S)) /\ ToSet(thLru') \subseteq {e} \cup ToSet(thLru)
    <2>1. PICK S : thLru \in Seq(S)
      BY DEF ThIInv, FilesShaped
    <2>2. thLru \in Seq(S \cup {e}) /\ e \in S \cup {e}
      BY <2>1
    <2>3. QED
      BY <1>10, <2>2, AfterPutFacts
  <1>12. <<e.key, e.info, e.img>> \in Known
    BY <1>1, <1>2, <1>9 DEF Known, BeingMade
  <1>13. Known' \subseteq Known
    <2>1. InCache' \subseteq Known
      BY <1>11, <1>12 DEF Known, InCache
    <2>2. QED
      BY <1>2, <1>6, <2>1, KnownParts DEF Known
  <1>14. PICK n : n = <<0, 0, 0>>
    OBVIOUS
  <1>15. Grows(n)
    BY <1>13 DEF Grows
  <1>16. thIno' \in Nat /\ thIno' >= thIno
    BY <1>2 DEF ThIInv, FilesShaped
  <1>17. \A u \in Requests :
            thSeen[u] \subseteq thSeen'[u] /\ (Active(thReq[u]) /\ SeesDisk(u) => SeesDisk(u)')
    BY <1>2 DEF SeesDisk, Current
  <1>18. KnownNamed' /\ OneImage' /\ (\A u \in Requests : ReqHolds(u))'
    BY <1>2, <1>15, <1>16, <1>17, OthersMove
  <1>19. FilesShaped'
    BY <1>2, <1>11 DEF ThIInv, FilesShaped
  <1>20. QED
    BY <1>7, <1>18, <1>19 DEF ThIInv

LEMMA WorkerFreeKeeps ==
  ASSUME ThIInv, NEW w \in Workers, WorkerFinishes(w) \/ WorkerEnds(w)
  PROVE  ThIInv'
  <1>1. UNCHANGED <<thFile, thIno, thLru, thReq, thSeen, thPub, thJobs, thJobNo>> /\ JobsShaped
    BY DEF WorkerFinishes, WorkerEnds, ThIInv
  <1>2. PICK s : s \in {Free, [pc |-> "ended"]} /\ thWork' = [thWork EXCEPT ![w] = s]
    BY DEF WorkerFinishes, WorkerEnds
  <1>3. s.pc # "put" /\ WorkShape(s)
    BY <1>2 DEF Free, WorkShape
  <1>4. /\ BeingMade' \subseteq BeingMade /\ DOMAIN thWork' = Workers
        /\ \A v \in Workers : WorkShape(thWork'[v])
    BY <1>1, <1>2, <1>3, WorkMoves
  <1>5. JobsShaped'
    BY <1>1, <1>4 DEF JobsShaped, WorkShape
  <1>6. BeingMade' \subseteq Known
    BY <1>4 DEF Known
  <1>7. QED
    BY <1>1, <1>5, <1>6, OthersJobs

-----------------------------------------------------------------------------
LEMMA ThInitHolds == ThInit => ThIInv
  <1> SUFFICES ASSUME ThInit
               PROVE  ThIInv
    OBVIOUS
  <1>1. OnDisk \in [sec : Secs, pic : Pics]
    BY ThumbsAssumption
  <1>2. PICK path, img, f : path = Original(OnDisk.sec) /\ img = Full(OnDisk.pic) /\ f = [ino |-> 1, img |-> img]
    OBVIOUS
  <1>3. /\ path \in Paths /\ path.kind = "orig" /\ img.of \in Pics /\ f.ino = 1 /\ f.img = img
    BY <1>1, <1>2, PathFacts DEF Original, Paths
  <1>4. DOMAIN thFile = {path} /\ thFile[path] = f /\ thIno = 1 /\ thLru = << >>
    BY <1>2 DEF ThInit
  <1>5. thReq = [r \in Requests |-> NotAsked] /\ thSeen = [r \in Requests |-> {}]
    BY DEF ThInit
  <1>6. FilesShaped
    <2>1. thLru \in Seq({})
      BY <1>4
    <2>2. QED
      BY <1>3, <1>4, <1>5, <2>1 DEF FilesShaped
  <1>7. JobsShaped
    BY DEF ThInit, JobsShaped
  <1>8. PICK d : d = <<path, 1, img>>
    OBVIOUS
  <1>9. Known \subseteq {d}
    <2>1. OnDiskNow \subseteq {d}
      BY <1>3, <1>4, <1>8 DEF OnDiskNow
    <2>2. InCache = {}
      BY <1>4 DEF InCache, ToSet
    <2>3. BeingRead = {}
      BY <1>5, ReqShapes DEF BeingRead
    <2>4. BeingMade = {}
      BY DEF ThInit, BeingMade, Free
    <2>5. QED
      BY <2>1, <2>2, <2>3, <2>4 DEF Known
  <1>10. KnownNamed /\ OneImage
    <2>1. d[1] = path /\ d[2] = 1
      BY <1>8
    <2>2. Named(d, thIno)
      BY <1>3, <1>4, <2>1 DEF Named
    <2>3. QED
      BY <1>9, <2>2 DEF KnownNamed, OneImage
  <1>11. ASSUME NEW r \in Requests
         PROVE  ReqHolds(r)
    <2>1. thReq[r] = NotAsked
      BY <1>5
    <2>2. ~ Looking(NotAsked) /\ ~ Reading(NotAsked)
      BY ReqShapes DEF LookPcs
    <2>3. QED
      BY <2>1, <2>2 DEF ReqHolds, ReqGood, Active
  <1>12. QED
    BY <1>6, <1>7, <1>10, <1>11 DEF ThIInv

LEMMA ThNextKeeps == ThIInv /\ [ThNext]_thVars => ThIInv'
  <1> SUFFICES ASSUME ThIInv, [ThNext]_thVars
               PROVE  ThIInv'
    OBVIOUS
  <1>1. CASE \E snap \in Snapshots : StoreEventThumb(snap)
    BY <1>1, StoreEventThumbKeeps
  <1>2. CASE StoreQueuesCard \/ ThStop
    BY <1>2, StoreQueuesCardKeeps, ThStopKeeps
  <1>3. CASE \E p \in Paths : PruneEventThumb(p)
    BY <1>3, PruneEventThumbKeeps
  <1>4. CASE \E w \in Workers : WorkerStep(w)
    BY <1>4, WorkerTakesKeeps, WorkerConvertsKeeps, WorkerStatsKeeps, WorkerPutsKeeps, WorkerFreeKeeps
       DEF WorkerStep
  <1>5. CASE \E r \in Requests : \E ask \in Asks[r] : RecThumb(r, ask)
    BY <1>5, RecThumbKeeps
  <1>6. CASE \E r \in Requests : ReqStep(r)
    BY <1>6, ThStatKeeps, ThGetKeeps, ThOpenKeeps, ThPutKeeps, ThAsksCardKeeps, ThWaitedKeeps,
       ThFrameKeeps, ThSlotKeeps, ThCutKeeps
       DEF ReqStep
  <1>7. CASE UNCHANGED thVars
    <2>1. /\ UNCHANGED <<thFile, thIno, thLru, thReq, thSeen>>
          /\ UNCHANGED <<thPub, thJobs, thJobNo, thWork>>
      BY <1>7 DEF thVars
    <2>2. JobsShaped' /\ BeingMade' \subseteq Known
      BY <2>1, JobsKept, KnownParts DEF Known
    <2>3. QED
      BY <2>1, <2>2, OthersJobs
  <1>8. QED
    BY <1>1, <1>2, <1>3, <1>4, <1>5, <1>6, <1>7 DEF ThNext

(* A request that was answered was answered well.                          *)
LEMMA AnswersAreCurrent == ThIInv => ThumbIsCurrent
  <1> SUFFICES ASSUME ThIInv, NEW r \in Requests, NEW q, q = thReq[r], q.pc = "answered"
               PROVE  GoodAnswer(r, q)
    BY PathFacts DEF ThumbIsCurrent, GoodAnswer, Current
  <1>1. ReqGood(r, q)
    BY DEF ThIInv, ReqHolds
  <1>2. QED
    BY <1>1, ReqShapes DEF ReqGood, LookPcs

(* thumbnailCache.get and put, HandleDashboardRecThumb and storeEventThumb,
   for any seconds, snapshots, requests, workers and sizes: no request is
   answered with a snapshot that was replaced before it arrived. *)
THEOREM ThumbIsCurrentHolds == ThSpec => []ThumbIsCurrent
  <1>1. ThInit => ThIInv
    BY ThInitHolds
  <1>2. ThIInv /\ [ThNext]_thVars => ThIInv'
    BY ThNextKeeps
  <1>3. ThIInv => ThumbIsCurrent
    BY AnswersAreCurrent
  <1>4. QED
    BY <1>1, <1>2, <1>3, PTL DEF ThSpec

-----------------------------------------------------------------------------
(* The jobs of the cards: of a path at most one is queued or worked on, and *)
(* exactly those are pending.                                              *)
InQueue(js, p) == {i \in 1 .. Len(js) : js[i].path = p}
OnCard(s, p) == "job" \in DOMAIN s /\ s.job.path = p
AtWork(ws, p) == {w \in Workers : OnCard(ws[w], p)}

OneJobOf(js, ws, ps, p) ==
    /\ \A i, j \in InQueue(js, p) : i = j
    /\ \A v, w \in AtWork(ws, p) : v = w
    /\ InQueue(js, p) = {} \/ AtWork(ws, p) = {}
    /\ p \in DOMAIN ps <=> InQueue(js, p) # {} \/ AtWork(ws, p) # {}

CardsApart == \A p : OneJobOf(thJobs, thWork, thPending, p)

LEMMA AtWorkMoves ==
  ASSUME JobsShaped, NEW w \in Workers, NEW s, thWork' = [thWork EXCEPT ![w] = s], NEW p
  PROVE  /\ OnCard(s, p) => AtWork(thWork', p) = AtWork(thWork, p) \cup {w}
         /\ ~ OnCard(s, p) => AtWork(thWork', p) = AtWork(thWork, p) \ {w}
         /\ w \in AtWork(thWork, p) <=> OnCard(thWork[w], p)
  <1>1. thWork'[w] = s /\ \A v \in Workers : v # w => thWork'[v] = thWork[v]
    BY DEF JobsShaped
  <1>2. QED
    BY <1>1 DEF AtWork

(* A worker that goes on with its job.                                     *)
LEMMA SameJob ==
  ASSUME JobsShaped, CardsApart, NEW w \in Workers, NEW s, thWork' = [thWork EXCEPT ![w] = s],
         \A p : OnCard(s, p) <=> OnCard(thWork[w], p), UNCHANGED <<thJobs, thPending>>
  PROVE  CardsApart'
  <1>1. ASSUME NEW p
        PROVE  AtWork(thWork', p) = AtWork(thWork, p)
    <2>1. /\ OnCard(s, p) => AtWork(thWork', p) = AtWork(thWork, p) \cup {w}
          /\ ~ OnCard(s, p) => AtWork(thWork', p) = AtWork(thWork, p) \ {w}
          /\ w \in AtWork(thWork, p) <=> OnCard(thWork[w], p)
      BY AtWorkMoves
    <2>2. OnCard(s, p) <=> OnCard(thWork[w], p)
      OBVIOUS
    <2>3. CASE OnCard(s, p)
      BY <2>1, <2>2, <2>3
    <2>4. CASE ~ OnCard(s, p)
      BY <2>1, <2>2, <2>4
    <2>5. QED
      BY <2>3, <2>4
  <1>2. QED
    BY <1>1 DEF CardsApart, OneJobOf

LEMMA WorkerOnCard ==
  ASSUME NEW s, WorkShape(s)
  PROVE  /\ s.pc \in {"convert", "stat", "finish", "put"} => \A p : OnCard(s, p) <=> s.job.path = p
         /\ s.pc \notin {"convert", "stat", "finish", "put"} => \A p : ~ OnCard(s, p)
  BY DEF WorkShape, Free, OnCard

LEMMA JobIs ==
  ASSUME NEW pc, NEW job
  PROVE  \A p : OnCard([pc |-> pc, job |-> job], p) <=> job.path = p
  BY DEF OnCard

LEMMA QueueAppends ==
  ASSUME NEW js \in Seq(CardJobs), NEW j \in CardJobs, NEW p
  PROVE  InQueue(Append(js, j), p) = InQueue(js, p) \cup (IF j.path = p THEN {Len(js) + 1} ELSE {})
  <1>1. PICK k : k = Append(js, j)
    OBVIOUS
  <1>2. /\ Len(js) \in Nat /\ Len(k) = Len(js) + 1 /\ k[Len(js) + 1] = j
        /\ \A i \in 1 .. Len(js) : k[i] = js[i]
    BY <1>1
  <1>3. \A i \in 1 .. Len(k) : i \in 1 .. Len(js) \/ i = Len(js) + 1
    BY <1>2
  <1>4. \A i \in 1 .. Len(js) : i \in 1 .. Len(k)
    BY <1>2
  <1>5. Len(js) + 1 \in 1 .. Len(k)
    BY <1>2
  <1>6. QED
    BY <1>1, <1>2, <1>3, <1>4, <1>5 DEF InQueue

(* What is left of the queue when its head is taken.                       *)
LEMMA QueueLeft ==
  ASSUME NEW js \in Seq(CardJobs), js # << >>, NEW p
  PROVE  /\ InQueue(js, p) = (IF Head(js).path = p THEN {1} ELSE {})
                               \cup {i + 1 : i \in InQueue(Tail(js), p)}
         /\ \A i \in InQueue(Tail(js), p) : i \in Nat /\ i >= 1
  <1>1. PICK k : k = Tail(js)
    OBVIOUS
  <1>2. /\ Len(js) \in Nat /\ Len(js) >= 1 /\ Len(k) = Len(js) - 1 /\ Head(js) = js[1]
        /\ \A i \in 1 .. Len(k) : k[i] = js[i + 1]
    BY <1>1
  <1>3. \A i \in 1 .. Len(js) : i = 1 \/ (i - 1 \in 1 .. Len(k) /\ (i - 1) + 1 = i)
    BY <1>2
  <1>4. \A i \in 1 .. Len(k) : i + 1 \in 1 .. Len(js)
    BY <1>2
  <1>5. 1 \in 1 .. Len(js)
    BY <1>2
  <1>6. ASSUME NEW i \in InQueue(js, p)
        PROVE  (i = 1 /\ Head(js).path = p) \/ \E h \in InQueue(k, p) : i = h + 1
    <2>1. i \in 1 .. Len(js) /\ js[i].path = p
      BY DEF InQueue
    <2>2. CASE i = 1
      BY <1>2, <2>1, <2>2
    <2>3. CASE i # 1
      <3>1. i - 1 \in 1 .. Len(k) /\ (i - 1) + 1 = i
        BY <1>3, <2>1, <2>3
      <3>2. k[i - 1] = js[i]
        BY <1>2, <3>1
      <3>3. i - 1 \in InQueue(k, p)
        BY <2>1, <3>1, <3>2 DEF InQueue
      <3>4. QED
        BY <3>1, <3>3
    <2>4. QED
      BY <2>2, <2>3
  <1>7. ASSUME NEW i \in InQueue(k, p)
        PROVE  i + 1 \in InQueue(js, p) /\ i \in Nat /\ i >= 1
    <2>1. i \in 1 .. Len(k) /\ k[i].path = p
      BY DEF InQueue
    <2>2. QED
      BY <1>2, <1>4, <2>1 DEF InQueue
  <1>8. Head(js).path = p => 1 \in InQueue(js, p)
    BY <1>2, <1>5 DEF InQueue
  <1>9. QED
    BY <1>1, <1>6, <1>7, <1>8

LEMMA QueueCardApart ==
  ASSUME JobsShaped, CardsApart, NEW card \in Cards, QueueCardThumb(card), UNCHANGED thWork
  PROVE  CardsApart'
  <1>1. CASE Queues(card) /\ ~ IsPending(card) /\ ~ QueueFull(card)
    <2>1. PICK j : j = [path |-> card, no |-> thJobNo + 1]
      OBVIOUS
    <2>2. j \in CardJobs /\ j.path = card
      BY <2>1 DEF JobsShaped, CardJobs
    <2>3. thJobs' = Append(thJobs, j) /\ DOMAIN thPending' = DOMAIN thPending \cup {card}
      BY <1>1, <2>1 DEF QueueCardThumb
    <2>4. ASSUME NEW p
          PROVE  InQueue(thJobs', p) = InQueue(thJobs, p)
                                         \cup (IF p = card THEN {Len(thJobs) + 1} ELSE {})
      BY <2>2, <2>3, QueueAppends DEF JobsShaped
    <2>5. InQueue(thJobs, card) = {} /\ AtWork(thWork, card) = {}
      BY <1>1 DEF IsPending, CardsApart, OneJobOf
    <2>6. ASSUME NEW p
          PROVE  OneJobOf(thJobs', thWork', thPending', p)
      <3>1. OneJobOf(thJobs, thWork, thPending, p)
        BY DEF CardsApart
      <3>2. CASE p = card
        <4>1. InQueue(thJobs', p) = {Len(thJobs) + 1}
          BY <2>4, <2>5, <3>2
        <4>2. QED
          BY <2>3, <2>5, <3>2, <4>1 DEF OneJobOf
      <3>3. CASE p # card
        <4>1. InQueue(thJobs', p) = InQueue(thJobs, p)
          BY <2>4, <3>3
        <4>2. QED
          BY <2>3, <3>1, <3>3, <4>1 DEF OneJobOf
      <3>4. QED
        BY <3>2, <3>3
    <2>7. QED
      BY <2>6 DEF CardsApart
  <1>2. CASE ~ (Queues(card) /\ ~ IsPending(card) /\ ~ QueueFull(card))
    BY <1>2 DEF QueueCardThumb, CardsApart
  <1>3. QED
    BY <1>1, <1>2

LEMMA TakesApart ==
  ASSUME JobsShaped, CardsApart, NEW w \in Workers, WorkerTakes(w)
  PROVE  CardsApart'
  <1>1. PICK j, s : j = Head(thJobs) /\ s = [pc |-> "convert", job |-> j]
    OBVIOUS
  <1>2. /\ thWork[w] = Free /\ thJobs # << >> /\ thJobs \in Seq(CardJobs)
        /\ thWork' = [thWork EXCEPT ![w] = s] /\ thJobs' = Tail(thJobs) /\ thPending' = thPending
    BY <1>1 DEF WorkerTakes, JobsShaped
  <1>3. ASSUME NEW p
        PROVE  OneJobOf(thJobs', thWork', thPending', p)
    <2>1. OneJobOf(thJobs, thWork, thPending, p)
      BY DEF CardsApart
    <2>2. /\ InQueue(thJobs, p) = (IF j.path = p THEN {1} ELSE {})
                                   \cup {i + 1 : i \in InQueue(thJobs', p)}
          /\ \A i \in InQueue(thJobs', p) : i \in Nat /\ i >= 1
      BY <1>1, <1>2, QueueLeft
    <2>3. OnCard(s, p) <=> j.path = p
      BY <1>1, JobIs
    <2>4. /\ j.path = p => AtWork(thWork', p) = AtWork(thWork, p) \cup {w}
          /\ j.path # p => AtWork(thWork', p) = AtWork(thWork, p) \ {w}
      BY <1>2, <2>3, AtWorkMoves
    <2>5. w \notin AtWork(thWork, p)
      BY <1>2 DEF AtWork, OnCard, Free
    <2>6. \A i \in InQueue(thJobs', p) : i + 1 \in InQueue(thJobs, p) /\ i + 1 # 1
      BY <2>2
    <2>7. CASE j.path = p
      <3>1. 1 \in InQueue(thJobs, p)
        BY <2>2, <2>7
      <3>2. InQueue(thJobs', p) = {}
        BY <2>1, <2>6, <3>1 DEF OneJobOf
      <3>3. AtWork(thWork, p) = {}
        BY <2>1, <3>1 DEF OneJobOf
      <3>4. AtWork(thWork', p) = {w}
        BY <2>4, <2>7, <3>3
      <3>5. p \in DOMAIN thPending
        BY <2>1, <3>1 DEF OneJobOf
      <3>6. QED
        BY <1>2, <3>2, <3>4, <3>5 DEF OneJobOf
    <2>8. CASE j.path # p
      <3>1. AtWork(thWork', p) = AtWork(thWork, p)
        BY <2>4, <2>5, <2>8
      <3>2. InQueue(thJobs, p) = {i + 1 : i \in InQueue(thJobs', p)}
        BY <2>2, <2>8
      <3>3. \A i, h \in InQueue(thJobs', p) : i = h
        <4>1. ASSUME NEW i \in InQueue(thJobs', p), NEW h \in InQueue(thJobs', p)
              PROVE  i = h
          <5>1. i \in Nat /\ h \in Nat
            BY <2>2
          <5>2. i + 1 = h + 1
            BY <2>1, <2>6 DEF OneJobOf
          <5>3. QED
            BY <5>1, <5>2
        <4>2. QED
          BY <4>1
      <3>4. InQueue(thJobs, p) = {} <=> InQueue(thJobs', p) = {}
        BY <3>2
      <3>5. QED
        BY <1>2, <2>1, <3>1, <3>3, <3>4 DEF OneJobOf
    <2>9. QED
      BY <2>7, <2>8
  <1>4. QED
    BY <1>3 DEF CardsApart

LEMMA FinishesApart ==
  ASSUME JobsShaped, CardsApart, NEW w \in Workers, WorkerFinishes(w)
  PROVE  CardsApart'
  <1>1. PICK path : path = thWork[w].job.path
    OBVIOUS
  <1>2. /\ thWork[w].pc = "finish" /\ thWork' = [thWork EXCEPT ![w] = Free]
        /\ DOMAIN thPending' = DOMAIN thPending \ {path} /\ thJobs' = thJobs
    BY <1>1 DEF WorkerFinishes
  <1>3. WorkShape(thWork[w])
    BY DEF JobsShaped, WorkShape
  <1>4. \A p : OnCard(thWork[w], p) <=> path = p
    BY <1>1, <1>2, <1>3, WorkerOnCard
  <1>5. \A p : ~ OnCard(Free, p)
    BY DEF OnCard, Free
  <1>6. ASSUME NEW p
        PROVE  OneJobOf(thJobs', thWork', thPending', p)
    <2>1. OneJobOf(thJobs, thWork, thPending, p)
      BY DEF CardsApart
    <2>2. /\ AtWork(thWork', p) = AtWork(thWork, p) \ {w}
          /\ w \in AtWork(thWork, p) <=> path = p
      BY <1>2, <1>4, <1>5, AtWorkMoves
    <2>3. CASE p = path
      <3>1. AtWork(thWork', p) = {} /\ InQueue(thJobs', p) = {}
        BY <1>2, <2>1, <2>2, <2>3 DEF OneJobOf
      <3>2. QED
        BY <1>2, <2>3, <3>1 DEF OneJobOf
    <2>4. CASE p # path
      <3>1. AtWork(thWork', p) = AtWork(thWork, p)
        BY <2>2, <2>4
      <3>2. QED
        BY <1>2, <2>1, <2>4, <3>1 DEF OneJobOf
    <2>5. QED
      BY <2>3, <2>4
  <1>7. QED
    BY <1>6 DEF CardsApart

LEMMA CardsApartKeeps == ThIInv /\ CardsApart /\ [ThNext]_thVars => CardsApart'
  <1> SUFFICES ASSUME ThIInv, CardsApart, [ThNext]_thVars
               PROVE  CardsApart'
    OBVIOUS
  <1>1. JobsShaped
    BY DEF ThIInv
  <1>2. ASSUME UNCHANGED <<thJobs, thPending, thWork>>
        PROVE  CardsApart'
    BY <1>2 DEF CardsApart
  <1>3. CASE \E snap \in Snapshots : StoreEventThumb(snap)
    BY <1>2, <1>3 DEF StoreEventThumb
  <1>4. CASE StoreQueuesCard
    BY <1>1, <1>4, QueueCardApart DEF StoreQueuesCard, JobsShaped
  <1>5. CASE ThStop
    BY <1>2, <1>5 DEF ThStop
  <1>6. CASE \E p \in Paths : PruneEventThumb(p)
    BY <1>2, <1>6 DEF PruneEventThumb
  <1>7. ASSUME NEW w \in Workers, WorkerStep(w)
        PROVE  CardsApart'
    <2>1. PICK a : a = thWork[w]
      OBVIOUS
    <2>2. WorkShape(a) /\ DOMAIN thWork = Workers
      BY <1>1, <2>1 DEF JobsShaped, WorkShape
    <2>3. CASE WorkerConverts(w)
      <3>1. PICK pc \in {"stat", "finish"} : thWork' = [thWork EXCEPT ![w].pc = pc]
        BY <2>3 DEF WorkerConverts
      <3>2. PICK s : s = [a EXCEPT !.pc = pc]
        OBVIOUS
      <3>3. a \in [pc : {"convert"}, job : CardJobs]
        BY <2>1, <2>2, <2>3 DEF WorkerConverts, WorkShape, Free
      <3>4. \A p : OnCard(s, p) <=> OnCard(a, p)
        BY <3>2, <3>3 DEF OnCard
      <3>5. thWork' = [thWork EXCEPT ![w] = s] /\ UNCHANGED <<thJobs, thPending>>
        BY <2>1, <2>2, <2>3, <3>1, <3>2 DEF WorkerConverts
      <3>6. QED
        BY <1>1, <2>1, <3>4, <3>5, SameJob
    <2>4. CASE WorkerStats(w)
      <3>1. PICK s, t : /\ s = [pc |-> "put", job |-> a.job, info |-> thFile[a.job.path].ino]
                        /\ t = [pc |-> "finish", job |-> a.job]
        OBVIOUS
      <3>2. /\ a.pc = "stat" /\ UNCHANGED <<thJobs, thPending>>
            /\ thWork' = [thWork EXCEPT ![w] = s] \/ thWork' = [thWork EXCEPT ![w] = t]
        BY <2>1, <2>4, <3>1 DEF WorkerStats
      <3>3. \A p : OnCard(a, p) <=> a.job.path = p
        BY <2>2, <3>2, WorkerOnCard
      <3>4. \A p : (OnCard(s, p) <=> a.job.path = p) /\ (OnCard(t, p) <=> a.job.path = p)
        BY <3>1 DEF OnCard
      <3>5. QED
        BY <1>1, <2>1, <3>2, <3>3, <3>4, SameJob
    <2>5. CASE WorkerPuts(w)
      <3>1. PICK t : t = [pc |-> "finish", job |-> a.job]
        OBVIOUS
      <3>2. a.pc = "put" /\ UNCHANGED <<thJobs, thPending>> /\ thWork' = [thWork EXCEPT ![w] = t]
        BY <2>1, <2>5, <3>1 DEF WorkerPuts
      <3>3. \A p : OnCard(a, p) <=> a.job.path = p
        BY <2>2, <3>2, WorkerOnCard
      <3>4. \A p : OnCard(t, p) <=> a.job.path = p
        BY <3>1 DEF OnCard
      <3>5. QED
        BY <1>1, <2>1, <3>2, <3>3, <3>4, SameJob
    <2>6. CASE WorkerEnds(w)
      <3>1. PICK t : t = [pc |-> "ended"]
        OBVIOUS
      <3>2. a = Free /\ UNCHANGED <<thJobs, thPending>> /\ thWork' = [thWork EXCEPT ![w] = t]
        BY <2>1, <2>6, <3>1 DEF WorkerEnds
      <3>3. \A p : ~ OnCard(a, p) /\ ~ OnCard(t, p)
        BY <3>1, <3>2 DEF OnCard, Free
      <3>4. QED
        BY <1>1, <2>1, <3>2, <3>3, SameJob
    <2>7. QED
      BY <1>1, <1>7, <2>3, <2>4, <2>5, <2>6, TakesApart, FinishesApart DEF WorkerStep
  <1>8. CASE \E r \in Requests : \E ask \in Asks[r] : RecThumb(r, ask)
    BY <1>2, <1>8 DEF RecThumb, ThRest
  <1>9. ASSUME NEW r \in Requests, ReqStep(r)
        PROVE  CardsApart'
    <2>1. CASE ThAsksCard(r)
      <3>1. PICK q : q = thReq[r]
        OBVIOUS
      <3>2. /\ q.pc = "queue" /\ QueueCardThumb(q.path) /\ UNCHANGED thWork
        BY <2>1, <3>1 DEF ThAsksCard, ThRest
      <3>3. q.path \in Cards
        BY <2>1, <3>1, AskedCard
      <3>4. QED
        BY <1>1, <3>2, <3>3, QueueCardApart
    <2>2. CASE ~ ThAsksCard(r)
      BY <1>2, <1>9, <2>2 DEF ReqStep, ThStat, ThGet, ThOpen, ThPut, ThWaited, ThFrame, ThSlot,
                           ThCut, ThRest
    <2>3. QED
      BY <2>1, <2>2
  <1>10. CASE UNCHANGED thVars
    BY <1>2, <1>10 DEF thVars
  <1>11. QED
    BY <1>3, <1>4, <1>5, <1>6, <1>7, <1>8, <1>9, <1>10 DEF ThNext

(* A card is made by one job at a time, and can be asked for again after   *)
(* its job failed, for any number of workers, requests and any length of   *)
(* the queue: it is pending exactly while its one job is queued or worked  *)
(* on (thumb_variants.go, queueCardThumb).                                 *)
THEOREM OneJobPerCardHolds == ThSpec => []OneJobPerCard
  <1>1. ThInit => ThIInv /\ CardsApart
    <2>1. ThInit => CardsApart
      BY DEF ThInit, CardsApart, OneJobOf, InQueue, AtWork, OnCard, Free
    <2>2. QED
      BY <2>1, ThInitHolds
  <1>2. ThIInv /\ CardsApart /\ [ThNext]_thVars => (ThIInv /\ CardsApart)'
    BY ThNextKeeps, CardsApartKeeps
  <1>3. CardsApart => OneJobPerCard
    <2> SUFFICES ASSUME CardsApart, NEW p \in Paths
                 PROVE  Cardinality(InQueue(thJobs, p)) + Cardinality(AtWork(thWork, p))
                          = IF p \in DOMAIN thPending THEN 1 ELSE 0
      <3>1. ASSUME NEW p
            PROVE  {w \in {v \in Workers : "job" \in DOMAIN thWork[v]} : thWork[w].job.path = p}
                     = AtWork(thWork, p)
        BY DEF AtWork, OnCard
      <3>2. QED
        BY <3>1 DEF OneJobPerCard, InQueue
    <2>1. OneJobOf(thJobs, thWork, thPending, p)
      BY DEF CardsApart
    <2>2. ASSUME NEW S, \A x, y \in S : x = y
          PROVE  Cardinality(S) = IF S = {} THEN 0 ELSE 1
      <3>1. CASE S = {}
        BY <3>1, FS_EmptySet
      <3>2. CASE S # {}
        <4>1. PICK x \in S : S = {x}
          BY <2>2, <3>2
        <4>2. QED
          BY <3>2, <4>1, FS_Singleton
      <3>3. QED
        BY <3>1, <3>2
    <2>3. Cardinality(InQueue(thJobs, p)) = IF InQueue(thJobs, p) = {} THEN 0 ELSE 1
      BY <2>1, <2>2 DEF OneJobOf
    <2>4. Cardinality(AtWork(thWork, p)) = IF AtWork(thWork, p) = {} THEN 0 ELSE 1
      BY <2>1, <2>2 DEF OneJobOf
    <2>5. QED
      BY <2>1, <2>3, <2>4 DEF OneJobOf
  <1>4. QED
    BY <1>1, <1>2, <1>3, PTL DEF ThSpec

-----------------------------------------------------------------------------
(* Types: what the invariants above say, and what they leave open.        *)
StTyped ==
    /\ stCookie \in [Operators -> Passwords \cup {Unset}]
    /\ stOps \in 0 .. MaxOps
    /\ stChanger \in Operators \cup {Unset}

LEMMA StTypedKeeps == StIInv /\ StTyped /\ [StNext]_stVars => StTyped'
  <1> SUFFICES ASSUME StIInv, StTyped, [StNext]_stVars
               PROVE  StTyped'
    OBVIOUS
  <1>1. EffectiveDashToken \in Passwords
    BY SettingsAssumption DEF StIInv, StShaped, Kept, EffectiveDashToken
  <1>2. CASE StRestart
    BY <1>2, SettingsAssumption DEF StRestart, StTyped
  <1>3. ASSUME NEW o \in Operators, NEW c \in Changes, Begin(o, c)
        PROVE  StTyped'
    BY <1>3, SettingsAssumption DEF Begin, StTyped
  <1>4. ASSUME NEW o \in Operators, NEW pw \in Passwords, Login(o, pw)
        PROVE  StTyped'
    BY <1>4, SettingsAssumption DEF Login, StTyped
  <1>5. ASSUME NEW o \in Operators,
               \/ CookieGone(o) \/ Write(o) \/ Remember(o) \/ IssueDashCookie(o) \/ ReloadLists(o)
               \/ ReloadSwaps(o) \/ TakesOrder(o) \/ TakesCols(o) \/ SaveWallLayout(o)
        PROVE  StTyped'
    <2>1. UNCHANGED stOps
      BY <1>5 DEF CookieGone, Write, Remember, IssueDashCookie, ReloadLists, ReloadSwaps, TakesOrder,
                  TakesCols, SaveWallLayout
    <2>2. stChanger' = stChanger \/ stChanger' = o
      BY <1>5 DEF CookieGone, Write, Remember, IssueDashCookie, ReloadLists, ReloadSwaps, TakesOrder,
                  TakesCols, SaveWallLayout
    <2>3. \/ stCookie' = stCookie \/ stCookie' = [stCookie EXCEPT ![o] = Unset]
          \/ stCookie' = [stCookie EXCEPT ![o] = EffectiveDashToken]
      BY <1>5 DEF CookieGone, Write, Remember, IssueDashCookie, ReloadLists, ReloadSwaps, TakesOrder,
                  TakesCols, SaveWallLayout
    <2>4. QED
      BY <1>1, <2>1, <2>2, <2>3 DEF StTyped
  <1>6. CASE UNCHANGED stVars
    BY <1>6 DEF stVars, StTyped
  <1>7. QED
    BY <1>2, <1>3, <1>4, <1>5, <1>6 DEF StNext

LEMMA StInitTyped == StInit => StIInv /\ StTyped /\ StTypeOK
  BY StInitIInv, SettingsAssumption DEF StInit, StTyped, StIInv, StShaped, StTypeOK

RowsTyped == \A id \in Ids : dvDvrs[id] \in [addr : Addrs, protocol : Protocols \cup Selectable]
ChansTyped == \A c \in DOMAIN dvChans : dvChans[c] \in [meta : {"found", "edited"}, order : Nat]

DvTyped == RowsTyped /\ ChansTyped /\ dvConn \in BOOLEAN /\ dvStale \in BOOLEAN /\ dvBlind \in BOOLEAN

LEMMA PlaceIsNat ==
  ASSUME NEW found \in SUBSET Nat, NEW n \in Nat
  PROVE  Place(n, found) \in Nat
  <1>1. \A m \in Nat : m < n => m \in 0 .. n
    OBVIOUS
  <1>2. {m \in found : m < n} \subseteq 0 .. n
    BY <1>1
  <1>3. IsFiniteSet(0 .. n)
    BY FS_Interval
  <1>4. QED
    BY <1>2, <1>3, FS_Subset, FS_CardinalityType DEF Place

LEMMA RowsTypedKeep == RlIInv /\ RowsTyped /\ [DvNext]_dvVars => RowsTyped'
  <1> SUFFICES ASSUME RlIInv, RowsTyped, [DvNext]_dvVars
               PROVE  RowsTyped'
    OBVIOUS
  <1>1. CASE UNCHANGED dvDvrs
    BY <1>1 DEF RowsTyped, Ids
  <1>2. ASSUME NEW t \in AllThreads, AddRow(t)
        PROVE  RowsTyped'
    <2>1. PICK op, row : op = dvOp[t] /\ row = [addr |-> op.addr, protocol |-> op.protocol]
      OBVIOUS
    <2>2. op.pc = "row" /\ dvDvrs' = [id \in Ids \cup {op.key} |-> IF id = op.key THEN row ELSE dvDvrs[id]]
      BY <1>2, <2>1 DEF AddRow
    <2>3. Adding(op)
      BY <2>1, <2>2, IsAdding DEF AddSteps
    <2>4. row \in [addr : Addrs, protocol : Protocols \cup Selectable]
      BY <2>1, <2>3 DEF Adding
    <2>5. QED
      BY <2>2, <2>4 DEF RowsTyped, Ids
  <1>3. ASSUME NEW t \in AllThreads, ProbeDVRProtocol(t)
        PROVE  RowsTyped'
    <2>1. PICK p \in Protocols :
             dvDvrs' = [i \in Ids |-> IF i = dvOp[t].id THEN [dvDvrs[i] EXCEPT !.protocol = p] ELSE dvDvrs[i]]
      BY <1>3 DEF ProbeDVRProtocol
    <2>2. ASSUME NEW row \in [addr : Addrs, protocol : Protocols \cup Selectable]
          PROVE  [row EXCEPT !.protocol = p] \in [addr : Addrs, protocol : Protocols \cup Selectable]
      OBVIOUS
    <2>3. QED
      BY <2>1, <2>2 DEF RowsTyped, Ids
  <1>4. ASSUME NEW t \in Threads, NEW id \in Ids, NEW a \in Addrs, NEW p \in Selectable, UpdateDVR(t, id, a, p)
        PROVE  RowsTyped'
    BY <1>4 DEF UpdateDVR, RowsTyped, Ids
  <1>5. ASSUME NEW t \in Threads, ResetDB(t) \/ \E id \in Ids : DeleteDVR(t, id)
        PROVE  RowsTyped'
    BY <1>5 DEF ResetDB, DeleteDVR, RowsTyped, Ids
  <1>6. ASSUME NEW t \in AllThreads, ThreadStep(t)
        PROVE  UNCHANGED dvDvrs \/ AddRow(t) \/ ProbeDVRProtocol(t)
    BY <1>6 DEF ThreadStep, SendLists, SendReads, SendWrites, KeyMatch, EnrichDeviceKey, KeyMax, KeyInsert,
                ProbeNotNeeded, FindsNone, Finds, UpsertChannel, DvStore
  <1>7. ASSUME NEW t \in Threads,
               HandleSurvDVRs(t) \/ ApplySurvMeta(t) \/ \E id \in Ids : ReconnectAllDVRs(t, id) \/ HealDVRs(t, id)
        PROVE  UNCHANGED dvDvrs
    BY <1>7 DEF HandleSurvDVRs, AddDVR, ApplySurvMeta, EditChannel, ReorderChannels, ReconnectAllDVRs,
                HealDVRs, Discovery, DvStore
  <1>8. ASSUME NEW t \in Threads, NEW id \in Ids, HandleSurvDVR(t, id)
        PROVE  RowsTyped'
    <2>1. CASE DiscoverChannels(t, id) \/ ClearDVRChannels(t, id)
      BY <1>1, <2>1 DEF DiscoverChannels, Discovery, ClearDVRChannels, DvStore
    <2>2. QED
      BY <1>4, <1>5, <1>8, <2>1 DEF HandleSurvDVR
  <1>9. ConnLost \/ Connects \/ UNCHANGED dvVars => UNCHANGED dvDvrs
    BY DEF ConnLost, Connects, dvVars, DvStore
  <1>10. QED
    BY <1>1, <1>2, <1>3, <1>5, <1>6, <1>7, <1>8, <1>9 DEF DvNext

LEMMA LastPlaceIs ==
  ASSUME NEW order \in Seq(Nat), NEW n \in ToSet(order)
  PROVE  \E i \in LastPlaces(order) : i \in DOMAIN order /\ order[i] = n
  <1>1. PICK S : S = {i \in DOMAIN order : order[i] = n}
    OBVIOUS
  <1>2. S # {} /\ DOMAIN order = 1 .. Len(order) /\ Len(order) \in Nat
    BY <1>1 DEF ToSet
  <1>3. S \in SUBSET (0 .. Len(order))
    BY <1>1, <1>2
  <1>4. S \subseteq Nat /\ IsFiniteSet(S)
    BY <1>2, <1>3, UpToIsFinite
  <1>5. PICK i : i = Max(S)
    OBVIOUS
  <1>6. i \in S /\ \A k \in S : k <= i
    BY <1>2, <1>4, <1>5, MaxIsIn
  <1>7. i \in LastPlaces(order)
    BY <1>1, <1>6 DEF LastPlaces
  <1>8. QED
    BY <1>1, <1>6, <1>7

LEMMA ChansTypedKeep == RlIInv /\ ChansTyped /\ [DvNext]_dvVars => ChansTyped'
  <1> DEFINE Chan == [meta : {"found", "edited"}, order : Nat]
  <1> SUFFICES ASSUME RlIInv, ChansTyped, [DvNext]_dvVars
               PROVE  ChansTyped'
    OBVIOUS
  <1>1. CASE UNCHANGED dvChans
    BY <1>1 DEF ChansTyped
  <1>2. ASSUME NEW t \in AllThreads, UpsertChannel(t)
        PROVE  ChansTyped'
    <2>1. PICK op, n : op = dvOp[t] /\ n = Min(op.left)
      OBVIOUS
    <2>2. PICK c, row : /\ c = <<op.id, n>>
                        /\ row = IF c \in DOMAIN dvChans THEN Upserted(dvChans[c], Place(n, op.found))
                                 ELSE [meta |-> "found", order |-> Place(n, op.found)]
      OBVIOUS
    <2>3. Upserts(op)
      BY <1>2, <2>1 DEF UpsertChannel, RlIInv, ReadsRight
    <2>4. n \in Nat
      BY <2>1, <2>3, MinIsIn DEF Upserts
    <2>5. Place(n, op.found) \in Nat
      BY <2>3, <2>4, PlaceIsNat DEF Upserts
    <2>6. row \in Chan
      BY <2>2, <2>5 DEF ChansTyped, Upserted
    <2>7. dvChans' = [d \in DOMAIN dvChans \cup {c} |-> IF d = c THEN row ELSE dvChans[d]]
      BY <1>2, <2>1, <2>2 DEF UpsertChannel
    <2>8. QED
      BY <2>6, <2>7 DEF ChansTyped
  <1>3. ASSUME NEW t \in Threads, NEW c \in DOMAIN dvChans, EditChannel(t, c)
        PROVE  ChansTyped'
    <2>1. \A d \in Chan : [d EXCEPT !.meta = "edited"] \in Chan
      OBVIOUS
    <2>2. PICK d : d = [dvChans[c] EXCEPT !.meta = "edited"]
      OBVIOUS
    <2>3. d \in Chan
      BY <2>1, <2>2 DEF ChansTyped
    <2>4. dvChans' = [dvChans EXCEPT ![c] = d]
      BY <1>3, <2>2 DEF EditChannel
    <2>5. QED
      BY <2>3, <2>4 DEF ChansTyped
  <1>4. ASSUME NEW t \in Threads, NEW id \in Ids, NEW order \in NewOrders, ReorderChannels(t, id, order)
        PROVE  ChansTyped'
    <2>1. order \in Seq(Nat) /\ Len(order) \in Nat
      BY DeviceStoreAssumption
    <2>2. ASSUME NEW c \in DOMAIN dvChans, c[2] \in ToSet(order)
          PROVE  [dvChans[c] EXCEPT !.order = (CHOOSE i \in LastPlaces(order) : order[i] = c[2]) - 1] \in Chan
      <3>1. PICK i : i = CHOOSE j \in LastPlaces(order) : order[j] = c[2]
        OBVIOUS
      <3>2. \E j \in LastPlaces(order) : order[j] = c[2]
        BY <2>1, <2>2, LastPlaceIs
      <3>3. i \in 1 .. Len(order)
        BY <2>1, <3>1, <3>2 DEF LastPlaces
      <3>4. i - 1 \in Nat
        BY <2>1, <3>3
      <3>5. \A d \in Chan : [d EXCEPT !.order = i - 1] \in Chan
        BY <3>4
      <3>6. QED
        BY <3>1, <3>5 DEF ChansTyped
    <2>3. dvChans' = [c \in DOMAIN dvChans |->
                         IF c[1] = id /\ c[2] \in ToSet(order)
                         THEN [dvChans[c] EXCEPT !.order = (CHOOSE i \in LastPlaces(order) : order[i] = c[2]) - 1]
                         ELSE dvChans[c]]
      BY <1>4 DEF ReorderChannels
    <2>4. ASSUME NEW c \in DOMAIN dvChans
          PROVE  dvChans'[c] \in Chan
      <3>1. CASE c[1] = id /\ c[2] \in ToSet(order)
        BY <2>2, <2>3, <3>1
      <3>2. CASE ~ (c[1] = id /\ c[2] \in ToSet(order))
        BY <2>3, <3>2 DEF ChansTyped
      <3>3. QED
        BY <3>1, <3>2
    <2>5. QED
      BY <2>3, <2>4 DEF ChansTyped
  <1>5. ASSUME NEW t \in Threads, ResetDB(t) \/ \E id \in Ids : ClearDVRChannels(t, id)
        PROVE  ChansTyped'
    BY <1>5 DEF ResetDB, ClearDVRChannels, ChansTyped
  <1>6. ASSUME NEW t \in AllThreads, ThreadStep(t)
        PROVE  UNCHANGED dvChans \/ UpsertChannel(t)
    BY <1>6 DEF ThreadStep, SendLists, SendReads, SendWrites, KeyMatch, EnrichDeviceKey, KeyMax, KeyInsert,
                AddRow, ProbeDVRProtocol, ProbeNotNeeded, FindsNone, Finds, DvStore
  <1>7. ASSUME NEW t \in Threads,
               HandleSurvDVRs(t) \/ \E id \in Ids : ReconnectAllDVRs(t, id) \/ HealDVRs(t, id)
        PROVE  UNCHANGED dvChans
    BY <1>7 DEF HandleSurvDVRs, AddDVR, ReconnectAllDVRs, HealDVRs, Discovery, DvStore
  <1>8. ASSUME NEW t \in Threads, NEW id \in Ids, HandleSurvDVR(t, id)
        PROVE  ChansTyped'
    <2>1. CASE ~ ClearDVRChannels(t, id)
      <3>1. UNCHANGED dvChans
        BY <1>8, <2>1 DEF HandleSurvDVR, DiscoverChannels, Discovery, DeleteDVR, UpdateDVR, DvStore
      <3>2. QED
        BY <1>1, <3>1
    <2>2. QED
      BY <1>5, <2>1
  <1>9. ConnLost \/ Connects \/ UNCHANGED dvVars => UNCHANGED dvChans
    BY DEF ConnLost, Connects, dvVars, DvStore
  <1>10. QED
    BY <1>1, <1>2, <1>3, <1>4, <1>5, <1>6, <1>7, <1>8, <1>9 DEF DvNext, ApplySurvMeta

LEMMA DvTypedKeeps == RlIInv /\ DvTyped /\ [DvNext]_dvVars => DvTyped'
  <1> SUFFICES ASSUME RlIInv, DvTyped, [DvNext]_dvVars
               PROVE  DvTyped'
    OBVIOUS
  <1>1. RowsTyped' /\ ChansTyped'
    BY RowsTypedKeep, ChansTypedKeep DEF DvTyped
  <1>2. dvConn' \in BOOLEAN /\ dvStale' \in BOOLEAN /\ dvBlind' \in BOOLEAN
    <2>1. CASE UNCHANGED <<dvConn, dvStale, dvBlind>>
      BY <2>1 DEF DvTyped
    <2>2. CASE ConnLost \/ Connects
      BY <2>2 DEF ConnLost, Connects, DvTyped
    <2>3. ASSUME NEW t \in AllThreads, SendWrites(t)
          PROVE  dvConn' \in BOOLEAN /\ dvStale' \in BOOLEAN /\ dvBlind' \in BOOLEAN
      <3>1. PICK op : op = dvOp[t]
        OBVIOUS
      <3>2. op.pc = "chans" /\ (dvStale' = op.mixed \/ dvStale' = dvStale) /\ UNCHANGED <<dvConn, dvBlind>>
        BY <2>3, <3>1 DEF SendWrites
      <3>3. Gathers(op)
        BY <3>1, <3>2 DEF RlIInv, ReadsRight
      <3>4. op.mixed \in BOOLEAN
        BY <3>3 DEF Gathers
      <3>5. QED
        BY <3>2, <3>4 DEF DvTyped
    <2>4. ASSUME NEW t \in AllThreads, ThreadStep(t)
          PROVE  SendWrites(t) \/ KeyMatch(t) \/ UNCHANGED <<dvConn, dvStale, dvBlind>>
      BY <2>4 DEF ThreadStep, SendLists, SendReads, EnrichDeviceKey, KeyMax, KeyInsert, AddRow,
                  ProbeDVRProtocol, ProbeNotNeeded, FindsNone, Finds, UpsertChannel, DvRest
    <2>k. ASSUME NEW t \in AllThreads, KeyMatch(t)
          PROVE  dvConn' \in BOOLEAN /\ dvStale' \in BOOLEAN /\ dvBlind' \in BOOLEAN
      <3>1. UNCHANGED <<dvConn, dvStale>>
        BY <2>k, KeyMatchFacts
      <3>2. PICK failing : dvBlind' = (dvBlind \/ MissesSerial(dvOp[t], failing))
        BY <2>k, KeyMatchFacts
      <3>3. dvBlind' \in BOOLEAN
        BY <3>2, Zenon DEF DvTyped
      <3>4. QED
        BY <3>1, <3>3 DEF DvTyped
    <2>5. ASSUME NEW t \in Threads, HandleSurvDVRs(t)
          PROVE  dvConn' \in BOOLEAN /\ dvStale' \in BOOLEAN /\ dvBlind' \in BOOLEAN
      <3>1. /\ UNCHANGED <<dvConn, dvStale>>
            /\ dvBlind' = (dvBlind \/ \E u \in Threads : u # t /\ "addr" \in DOMAIN dvOp[u])
        BY <2>5 DEF HandleSurvDVRs, AddDVR
      <3>2. dvBlind' \in BOOLEAN
        BY <3>1, Zenon DEF DvTyped
      <3>3. QED
        BY <3>1, <3>2 DEF DvTyped
    <2>6. ASSUME NEW t \in Threads,
                 \/ ApplySurvMeta(t) \/ ResetDB(t)
                 \/ \E id \in Ids : HandleSurvDVR(t, id) \/ ReconnectAllDVRs(t, id) \/ HealDVRs(t, id)
          PROVE  UNCHANGED <<dvConn, dvStale, dvBlind>>
      BY <2>6 DEF ApplySurvMeta, EditChannel, ReorderChannels, ResetDB, HandleSurvDVR, DiscoverChannels,
                  ClearDVRChannels, DeleteDVR, UpdateDVR, ReconnectAllDVRs, HealDVRs, Discovery
    <2>7. CASE UNCHANGED dvVars
      BY <2>1, <2>7 DEF dvVars
    <2>8. QED
      BY <2>1, <2>2, <2>3, <2>4, <2>k, <2>5, <2>6, <2>7 DEF DvNext
  <1>3. QED
    BY <1>1, <1>2 DEF DvTyped

-----------------------------------------------------------------------------
Infos == Inos \cup {NoInfo}
CacheEntries == [key : Keys, img : Images, info : Infos]

FilesTyped ==
    /\ \A p \in DOMAIN thFile : thFile[p] \in [ino : Inos, img : Images]
    /\ thIno \in Inos /\ thPruned \in 0 .. MaxDisk

(* What a request or a worker is about to put into the cache.              *)
PutsTyped ==
    /\ \A r \in Requests : thReq[r].pc = "put" => thReq[r].img \in Images /\ thReq[r].info \in Inos
    /\ \A w \in Workers : thWork[w].pc = "put" => thWork[w].info \in Inos

LruTyped == thLru \in Seq(CacheEntries)

JobsTyped ==
    /\ thJobs \in Seq([path : Cards, no : 1 .. thJobNo]) /\ Len(thJobs) <= QueueCap
    /\ \A w \in Workers : "job" \in DOMAIN thWork[w] => thWork[w].job.no \in 1 .. thJobNo
    /\ DOMAIN thPending \subseteq Paths
    /\ thClosed \subseteq 1 .. thJobNo
    /\ thStopped \in BOOLEAN

ThTyped == FilesTyped /\ PutsTyped /\ LruTyped /\ JobsTyped

LEMMA ImagesFacts ==
  /\ \A p \in Pics : Full(p) \in Images /\ Small(p) \in Images
  /\ \A s \in Secs : FrameOf(s) \in Images
  /\ \A p \in Cards : p \in Paths /\ p \in Keys /\ Small(p.pic) \in Images
  /\ \A p \in Paths : p \in Keys
  /\ \A s \in Secs : Original(s) \in Paths /\ \A e \in BOOLEAN : FrameKey(s, e) \in Keys
  BY DEF Full, Small, FrameOf, Images, Cards, Paths, Keys, Original, FrameKey

LEMMA RenameTyped ==
  ASSUME FilesTyped, NEW path, NEW img \in Images, Rename(path, img), UNCHANGED thPruned
  PROVE  FilesTyped'
  <1>1. /\ thIno \in 1 .. MaxDisk + 1 /\ thPruned \in 0 .. MaxDisk /\ MaxDisk \in Nat
        /\ thIno + thPruned <= MaxDisk /\ thIno' = thIno + 1
    BY ThumbsAssumption DEF FilesTyped, Inos, Rename, DiskMayChange
  <1>2. thIno' \in Inos /\ thIno + 1 \in Inos
    BY <1>1 DEF Inos
  <1>3. QED
    BY <1>2 DEF FilesTyped, Rename

LEMMA FilesTypedKeep == ThIInv /\ FilesTyped /\ [ThNext]_thVars => FilesTyped'
  <1> SUFFICES ASSUME ThIInv, FilesTyped, [ThNext]_thVars
               PROVE  FilesTyped'
    OBVIOUS
  <1>1. CASE UNCHANGED <<thFile, thIno, thPruned>>
    BY <1>1 DEF FilesTyped
  <1>2. ASSUME NEW snap \in Snapshots, StoreEventThumb(snap)
        PROVE  FilesTyped'
    <2>1. snap.pic \in Pics
      BY ThumbsAssumption
    <2>2. QED
      BY <1>2, <2>1, RenameTyped, ImagesFacts DEF StoreEventThumb
  <1>3. ASSUME NEW p \in Paths, PruneEventThumb(p)
        PROVE  FilesTyped'
    <2>1. /\ thIno \in 1 .. MaxDisk + 1 /\ thPruned \in 0 .. MaxDisk /\ MaxDisk \in Nat
          /\ thIno + thPruned <= MaxDisk /\ thPruned' = thPruned + 1
      BY <1>3, ThumbsAssumption DEF FilesTyped, Inos, PruneEventThumb, DiskMayChange
    <2>2. thPruned' \in 0 .. MaxDisk
      BY <2>1
    <2>3. QED
      BY <1>3, <2>2 DEF FilesTyped, PruneEventThumb
  <1>4. ASSUME NEW w \in Workers, WorkerConverts(w)
        PROVE  FilesTyped'
    <2>1. PICK path : path = thWork[w].job.path
      OBVIOUS
    <2>2. thWork[w].pc = "convert" /\ WorkShape(thWork[w])
      BY <1>4 DEF WorkerConverts, ThIInv, JobsShaped, WorkShape
    <2>3. path \in Cards
      BY <2>1, <2>2, WorkPcs
    <2>4. Small(path.pic) \in Images
      BY <2>3, ImagesFacts
    <2>5. QED
      BY <1>1, <1>4, <2>1, <2>4, RenameTyped DEF WorkerConverts
  <1>5. ASSUME NEW w \in Workers, WorkerStep(w), ~ WorkerConverts(w)
        PROVE  UNCHANGED <<thFile, thIno, thPruned>>
    BY <1>5 DEF WorkerStep, WorkerTakes, WorkerStats, WorkerPuts, WorkerFinishes, WorkerEnds
  <1>6. ASSUME NEW r \in Requests, ReqStep(r) \/ \E ask \in Asks[r] : RecThumb(r, ask)
        PROVE  UNCHANGED <<thFile, thIno, thPruned>>
    BY <1>6 DEF ReqStep, RecThumb, ThStat, ThGet, ThOpen, ThPut, ThAsksCard, ThWaited, ThFrame, ThSlot,
                ThCut, ThRest
  <1>7. StoreQueuesCard \/ ThStop \/ UNCHANGED thVars => UNCHANGED <<thFile, thIno, thPruned>>
    BY DEF StoreQueuesCard, ThStop, thVars
  <1>8. QED
    BY <1>1, <1>2, <1>3, <1>4, <1>5, <1>6, <1>7 DEF ThNext

-----------------------------------------------------------------------------
LEMMA ReturnedPc ==
  ASSUME NEW q, Looking(q), NEW img
  PROVE  Returned(q, img).pc \in {"stat", "answered"}
  <1>1. PICK p : p = [q EXCEPT !.img = img]
    OBVIOUS
  <1>2. Looking(p)
    BY <1>1 DEF Looking
  <1>3. \A path : LookUp(p, "card", path).pc = "stat"
    BY <1>2, LookUpFacts
  <1>4. QED
    BY <1>1, <1>3, AnswerFacts DEF Returned

(* Only a request that has opened a file comes to put something.           *)
LEMMA ReqStepPcs ==
  ASSUME ThIInv, NEW r \in Requests, ReqStep(r) \/ (\E ask \in Asks[r] : RecThumb(r, ask)), ~ ThOpen(r)
  PROVE  \E q : ReqTo(r, q) /\ q.pc # "put"
  <1>1. PICK q : q = thReq[r]
    OBVIOUS
  <1>2. ASSUME q.pc \in LookPcs
        PROVE  /\ Looking(q) /\ \A pc, info : [q EXCEPT !.pc = pc, !.info = info].pc = pc
               /\ \A pc, job : [q EXCEPT !.pc = pc, !.job = job].pc = pc
               /\ \A pc : [q EXCEPT !.pc = pc].pc = pc
               /\ \A path : LookUp(q, "again", path).pc = "stat" /\ LookUp(q, "near", path).pc = "stat"
    <2>1. Looking(q)
      BY <1>1, <1>2, HeldReq
    <2>2. QED
      BY <2>1, LookUpFacts DEF Looking
  <1>3. \A img, path : Answer(q, img, path).pc = "answered"
    BY AnswerFacts
  <1>4. Refused.pc = "refused"
    BY ReqShapes
  <1>5. CASE ThStat(r)
    <2>1. Looking(q) /\ RightPath(r, q)
      BY <1>1, <1>5, HeldReq DEF ThStat, LookPcs
    <2>2. NotStored(q).pc # "put"
      BY <2>1, NotStoredFacts
    <2>3. CASE Exists(q.path)
      <3>1. PICK p : p = [q EXCEPT !.pc = "get", !.info = thFile[q.path].ino]
        OBVIOUS
      <3>2. ReqTo(r, p) /\ p.pc = "get"
        BY <1>1, <1>5, <2>1, <2>3, <3>1 DEF ThStat, Looking
      <3>3. QED
        BY <3>2
    <2>4. CASE ~ Exists(q.path)
      <3>1. ReqTo(r, NotStored(q))
        BY <1>1, <1>5, <2>4 DEF ThStat
      <3>2. QED
        BY <2>2, <3>1
    <2>5. QED
      BY <2>3, <2>4
  <1>6. CASE ThGet(r)
    <2>1. Looking(q)
      BY <1>1, <1>6, HeldReq DEF ThGet, LookPcs
    <2>2. PICK hit, p : hit = Hits(thLru, q.path, q.info) /\ p = [q EXCEPT !.pc = "open"]
      OBVIOUS
    <2>3. p.pc = "open"
      BY <2>1, <2>2 DEF Looking
    <2>4. PICK img : img = (CHOOSE e \in hit : TRUE).img
      OBVIOUS
    <2>5. ReqTo(r, p) \/ ReqTo(r, Returned(q, img))
      BY <1>1, <1>6, <2>2, <2>4 DEF ThGet
    <2>6. Returned(q, img).pc # "put"
      BY <2>1, ReturnedPc
    <2>7. QED
      BY <2>3, <2>5, <2>6
  <1>7. CASE ThPut(r)
    <2>1. q.pc = "put" /\ ReqTo(r, Returned(q.q, q.img))
      BY <1>1, <1>7 DEF ThPut
    <2>2. Looking(q.q)
      BY <1>1, <2>1, IsReading DEF ThIInv, ReqHolds, Reading
    <2>3. Returned(q.q, q.img).pc # "put"
      BY <2>2, ReturnedPc
    <2>4. QED
      BY <2>1, <2>3
  <1>8. CASE ThAsksCard(r)
    <2>1. PICK j : j = JobFor(q.path)
      OBVIOUS
    <2>2. PICK p : p = [q EXCEPT !.pc = "wait", !.job = j]
      OBVIOUS
    <2>3. q.pc \in LookPcs /\ (ReqTo(r, p) \/ ReqTo(r, Answer(q, q.img, Original(q.sec))))
      BY <1>1, <1>8, <2>1, <2>2 DEF ThAsksCard, LookPcs
    <2>4. p.pc = "wait"
      BY <1>2, <2>2, <2>3
    <2>5. QED
      BY <1>3, <2>3, <2>4
  <1>9. CASE ThWaited(r)
    <2>1. /\ q.pc \in LookPcs
          /\ ReqTo(r, LookUp(q, "again", q.path)) \/ ReqTo(r, Answer(q, q.img, Original(q.sec)))
             \/ ReqTo(r, Refused)
      BY <1>1, <1>9 DEF ThWaited, LookPcs
    <2>2. LookUp(q, "again", q.path).pc = "stat"
      BY <1>2, <2>1
    <2>3. QED
      BY <1>3, <1>4, <2>1, <2>2
  <1>10. CASE ThFrame(r)
    <2>1. PICK key : key = FrameKey(q.sec, q.exact)
      OBVIOUS
    <2>2. PICK img : img = (CHOOSE e \in Hits(thLru, key, NoInfo) : TRUE).img
      OBVIOUS
    <2>3. PICK p : p = [q EXCEPT !.pc = "slot"]
      OBVIOUS
    <2>4. /\ q.pc \in LookPcs
          /\ \/ ReqTo(r, Answer(q, img, key)) \/ ReqTo(r, p) \/ ReqTo(r, Refused)
             \/ \E path : ReqTo(r, LookUp(q, "near", path))
      BY <1>1, <1>10, <2>1, <2>2, <2>3 DEF ThFrame, LookPcs
    <2>5. p.pc = "slot" /\ \A path : LookUp(q, "near", path).pc = "stat"
      BY <1>2, <2>3, <2>4
    <2>6. QED
      BY <1>3, <1>4, <2>4, <2>5
  <1>11. CASE ThSlot(r)
    <2>1. PICK p : p = [q EXCEPT !.pc = "cut"]
      OBVIOUS
    <2>2. q.pc \in LookPcs /\ (ReqTo(r, p) \/ ReqTo(r, Refused))
      BY <1>1, <1>11, <2>1 DEF ThSlot, LookPcs
    <2>3. p.pc = "cut"
      BY <1>2, <2>1, <2>2
    <2>4. QED
      BY <1>4, <2>2, <2>3
  <1>12. CASE ThCut(r)
    <2>1. PICK a : a = Answer(q, FrameOf(q.sec), FrameKey(q.sec, q.exact))
      OBVIOUS
    <2>2. ReqTo(r, a) \/ ReqTo(r, Refused)
      BY <1>1, <1>12, <2>1 DEF ThCut
    <2>3. a.pc = "answered"
      BY <1>3, <2>1
    <2>4. QED
      BY <1>4, <2>2, <2>3
  <1>13. ASSUME NEW ask \in Asks[r], RecThumb(r, ask)
         PROVE  \E p : ReqTo(r, p) /\ p.pc # "put"
    <2>1. PICK s, b : s = ask.sec /\ b = [pc |-> "frame", sec |-> s, exact |-> ask.exact, card |-> ask.card,
                 for |-> "orig", path |-> Original(s), info |-> NoInfo, img |-> FrameOf(s), job |-> 0]
      OBVIOUS
    <2>2. PICK l : l = LookUp(b, "orig", Original(s))
      OBVIOUS
    <2>3. b.pc = "frame" /\ l.pc = "stat"
      BY <2>1, <2>2 DEF LookUp
    <2>4. ReqTo(r, b) \/ ReqTo(r, l)
      BY <1>13, <2>1, <2>2 DEF RecThumb
    <2>5. QED
      BY <2>3, <2>4
  <1>14. QED
    BY <1>5, <1>6, <1>7, <1>8, <1>9, <1>10, <1>11, <1>12, <1>13 DEF ReqStep

LEMMA ReqPuts ==
  ASSUME ThIInv, PutsTyped, NEW r \in Requests, NEW q, ReqTo(r, q),
         q.pc = "put" => q.img \in Images /\ q.info \in Inos, UNCHANGED thWork
  PROVE  PutsTyped'
  <1>1. DOMAIN thReq = Requests /\ thReq' = [thReq EXCEPT ![r] = q]
    BY DEF ThIInv, FilesShaped, ReqTo
  <1>2. \A u \in Requests : thReq'[u] = IF u = r THEN q ELSE thReq[u]
    BY <1>1
  <1>3. QED
    BY <1>2 DEF PutsTyped

LEMMA WorkPuts ==
  ASSUME ThIInv, PutsTyped, NEW w \in Workers, NEW s, thWork' = [thWork EXCEPT ![w] = s],
         s.pc = "put" => s.info \in Inos, UNCHANGED thReq
  PROVE  PutsTyped'
  <1>1. DOMAIN thWork = Workers
    BY DEF ThIInv, JobsShaped
  <1>2. \A v \in Workers : thWork'[v] = IF v = w THEN s ELSE thWork[v]
    BY <1>1
  <1>3. QED
    BY <1>2 DEF PutsTyped

LEMMA PutsTypedKeep == ThIInv /\ FilesTyped /\ PutsTyped /\ [ThNext]_thVars => PutsTyped'
  <1> SUFFICES ASSUME ThIInv, FilesTyped, PutsTyped, [ThNext]_thVars
               PROVE  PutsTyped'
    OBVIOUS
  <1>1. CASE UNCHANGED <<thReq, thWork>>
    BY <1>1 DEF PutsTyped
  <1>2. ASSUME NEW r \in Requests, ReqStep(r) \/ (\E ask \in Asks[r] : RecThumb(r, ask)), ~ ThOpen(r)
        PROVE  PutsTyped'
    <2>1. PICK q : ReqTo(r, q) /\ q.pc # "put"
      BY <1>2, ReqStepPcs
    <2>2. UNCHANGED thWork
      BY <1>2 DEF ReqStep, RecThumb, ThStat, ThGet, ThPut, ThAsksCard, ThWaited, ThFrame, ThSlot,
                  ThCut, ThRest
    <2>3. QED
      BY <2>1, <2>2, ReqPuts
  <1>3. ASSUME NEW r \in Requests, ThOpen(r)
        PROVE  PutsTyped'
    <2>1. PICK q : q = thReq[r]
      OBVIOUS
    <2>2. UNCHANGED thWork /\ q.pc = "open"
      BY <1>3, <2>1 DEF ThOpen, ThRest
    <2>3. CASE Exists(q.path)
      <3>1. PICK img, ino : img = thFile[q.path].img /\ ino = thFile[q.path].ino
        OBVIOUS
      <3>2. img \in Images /\ ino \in Inos
        BY <2>3, <3>1 DEF FilesTyped, Exists
      <3>3. PICK p : p = [pc |-> "put", q |-> q, img |-> img, info |-> ino]
        OBVIOUS
      <3>4. ReqTo(r, p)
        BY <1>3, <2>1, <2>3, <3>1, <3>3 DEF ThOpen
      <3>5. p.img \in Images /\ p.info \in Inos
        BY <3>2, <3>3
      <3>6. QED
        BY <2>2, <3>4, <3>5, ReqPuts
    <2>4. CASE ~ Exists(q.path)
      <3>1. ReqTo(r, NotStored(q))
        BY <1>3, <2>1, <2>4 DEF ThOpen
      <3>2. Looking(q) /\ RightPath(r, q)
        BY <2>1, <2>2, HeldReq DEF LookPcs
      <3>3. NotStored(q).pc # "put"
        BY <3>2, NotStoredFacts
      <3>4. QED
        BY <2>2, <3>1, <3>3, ReqPuts
    <2>5. QED
      BY <2>3, <2>4
  <1>4. ASSUME NEW w \in Workers, WorkerStep(w)
        PROVE  PutsTyped'
    <2>1. PICK s : s = thWork[w]
      OBVIOUS
    <2>2. UNCHANGED thReq /\ WorkShape(s)
      BY <1>4, <2>1 DEF WorkerStep, WorkerTakes, WorkerConverts, WorkerStats, WorkerPuts, WorkerFinishes,
                  WorkerEnds, ThIInv, JobsShaped, WorkShape
    <2>3. CASE WorkerStats(w) /\ Exists(s.job.path)
      <3>1. PICK ino : ino = thFile[s.job.path].ino
        OBVIOUS
      <3>2. ino \in Inos
        BY <2>3, <3>1 DEF FilesTyped, Exists
      <3>3. PICK p : p = [pc |-> "put", job |-> s.job, info |-> ino]
        OBVIOUS
      <3>4. thWork' = [thWork EXCEPT ![w] = p] /\ p.info \in Inos
        BY <2>1, <2>3, <3>1, <3>2, <3>3 DEF WorkerStats
      <3>5. QED
        BY <2>2, <3>4, WorkPuts
    <2>4. CASE ~ (WorkerStats(w) /\ Exists(s.job.path))
      <3>1. PICK a, b, c, d, e :
               /\ a = [pc |-> "convert", job |-> Head(thJobs)]
               /\ b = [s EXCEPT !.pc = "stat"] /\ c = [s EXCEPT !.pc = "finish"]
               /\ d = [pc |-> "finish", job |-> s.job] /\ e = [pc |-> "ended"]
        OBVIOUS
      <3>2. a.pc # "put" /\ d.pc # "put" /\ e.pc # "put" /\ Free.pc # "put"
        BY <3>1 DEF Free
      <3>3. s.pc = "convert" => b.pc # "put" /\ c.pc # "put"
        <4>1. s.pc = "convert" => s \in [pc : {"convert", "stat", "finish"}, job : CardJobs]
          BY <2>2 DEF WorkShape, Free
        <4>2. QED
          BY <3>1, <4>1
      <3>4. \/ thWork' = [thWork EXCEPT ![w] = a] \/ thWork' = [thWork EXCEPT ![w] = d]
            \/ thWork' = [thWork EXCEPT ![w] = e] \/ thWork' = [thWork EXCEPT ![w] = Free]
            \/ s.pc = "convert" /\ (thWork' = [thWork EXCEPT ![w] = b] \/ thWork' = [thWork EXCEPT ![w] = c])
        BY <1>4, <2>1, <2>4, <3>1 DEF WorkerStep, WorkerTakes, WorkerConverts, WorkerStats, WorkerPuts,
                                  WorkerFinishes, WorkerEnds
      <3>5. QED
        BY <2>2, <3>2, <3>3, <3>4, WorkPuts
    <2>5. QED
      BY <2>3, <2>4
  <1>5. ASSUME (\E snap \in Snapshots : StoreEventThumb(snap)) \/ StoreQueuesCard \/ ThStop
               \/ (\E p \in Paths : PruneEventThumb(p)) \/ UNCHANGED thVars
        PROVE  UNCHANGED <<thReq, thWork>>
    BY <1>5 DEF StoreEventThumb, StoreQueuesCard, ThStop, PruneEventThumb, thVars
  <1>6. QED
    BY <1>1, <1>2, <1>3, <1>4, <1>5 DEF ThNext

-----------------------------------------------------------------------------
(* What is put into the cache.                                             *)
LEMMA LruMoves ==
  ASSUME ThIInv, PutsTyped, [ThNext]_thVars
  PROVE  \/ UNCHANGED thLru
         \/ \E key, info : thLru' = AfterGet(thLru, key, info)
         \/ \E e \in CacheEntries : thLru' = AfterPut(thLru, e)
  <1> DEFINE Puts == \E e \in CacheEntries : thLru' = AfterPut(thLru, e)
  <1>1. ASSUME NEW key \in Keys, NEW img \in Images, NEW info \in Infos,
               thLru' = AfterPut(thLru, [key |-> key, img |-> img, info |-> info])
        PROVE  Puts
    <2>1. PICK e : e = [key |-> key, img |-> img, info |-> info]
      OBVIOUS
    <2>2. e \in CacheEntries
      BY <2>1 DEF CacheEntries
    <2>3. QED
      BY <1>1, <2>1, <2>2
  <1> HIDE DEF Puts
  <1>2. ASSUME NEW w \in Workers, WorkerPuts(w)
        PROVE  Puts
    <2>1. PICK path, info : path = thWork[w].job.path /\ info = thWork[w].info
      OBVIOUS
    <2>2. thWork[w].pc = "put" /\ WorkShape(thWork[w])
      BY <1>2 DEF WorkerPuts, ThIInv, JobsShaped, WorkShape
    <2>3. path \in Cards /\ info \in Infos
      BY <2>1, <2>2, WorkPcs DEF PutsTyped, Infos
    <2>4. path \in Keys /\ Small(path.pic) \in Images
      BY <2>3, ImagesFacts
    <2>5. QED
      BY <1>2, <2>1, <2>3, <2>4, <1>1 DEF WorkerPuts
  <1>3. ASSUME NEW r \in Requests, ThPut(r)
        PROVE  Puts
    <2>1. PICK p : p = thReq[r]
      OBVIOUS
    <2>2. p.pc = "put"
      BY <1>3, <2>1 DEF ThPut
    <2>3. Reading(p) /\ RightPath(r, p.q) /\ Current(r, p.q.path, p.img)
      <3>1. ReqGood(r, p)
        BY <2>1 DEF ThIInv, ReqHolds
      <3>2. QED
        BY <2>2, <3>1, IsReading
    <2>4. p.img \in Images /\ p.info \in Infos
      BY <2>1, <2>2 DEF PutsTyped, Infos
    <2>5. p.q.path \in Keys
      <3>1. PICK q : q = p.q
        OBVIOUS
      <3>2. Looking(q) /\ RightPath(r, q)
        BY <2>3, <3>1 DEF Reading
      <3>3. q.sec \in Secs
        BY <3>2 DEF Looking
      <3>4. CASE q.for \in {"card", "again"} /\ q.path = CardThumbPath(q.sec, q.img.of)
                 /\ Current(r, Original(q.sec), q.img)
        <4>1. [sec |-> Original(q.sec).sec, pic |-> q.img.of] \in [sec : Secs, pic : Pics]
          BY <3>4 DEF Current, ThIInv, FilesShaped
        <4>2. q.img.of \in Pics
          BY <4>1
        <4>3. q.path \in Cards
          BY <3>3, <3>4, <4>2 DEF CardThumbPath, Cards
        <4>4. QED
          BY <3>1, <4>3, ImagesFacts
      <3>5. CASE \E s \in Secs : q.path = Original(s)
        BY <3>1, <3>5, ImagesFacts
      <3>6. QED
        BY <3>2, <3>3, <3>4, <3>5 DEF RightPath
    <2>6. QED
      BY <1>3, <2>1, <2>4, <2>5, <1>1 DEF ThPut, InfoOf
  <1>4. ASSUME NEW r \in Requests, ThCut(r)
        PROVE  Puts \/ UNCHANGED thLru
    <2>1. PICK q : q = thReq[r]
      OBVIOUS
    <2>2. q.pc = "cut"
      BY <1>4, <2>1 DEF ThCut
    <2>3. Looking(q)
      BY <2>1, <2>2, HeldReq DEF LookPcs
    <2>4. q.sec \in Secs /\ q.exact \in BOOLEAN
      BY <2>3 DEF Looking
    <2>5. FrameKey(q.sec, q.exact) \in Keys /\ FrameOf(q.sec) \in Images /\ NoInfo \in Infos
      BY <2>4, ImagesFacts DEF Infos
    <2>6. \/ UNCHANGED thLru
          \/ thLru' = AfterPut(thLru, [key |-> FrameKey(q.sec, q.exact), img |-> FrameOf(q.sec), info |-> NoInfo])
      BY <1>4, <2>1 DEF ThCut
    <2>7. QED
      BY <1>1, <2>5, <2>6
  <1>5. ASSUME NEW r \in Requests, ThGet(r) \/ ThFrame(r)
        PROVE  \E key, info : thLru' = AfterGet(thLru, key, info)
    BY <1>5 DEF ThGet, ThFrame
  <1>6. ASSUME NEW r \in Requests,
               \/ ThStat(r) \/ ThOpen(r) \/ ThAsksCard(r) \/ ThWaited(r) \/ ThSlot(r)
               \/ \E ask \in Asks[r] : RecThumb(r, ask)
        PROVE  UNCHANGED thLru
    BY <1>6 DEF RecThumb, ThStat, ThOpen, ThAsksCard, ThWaited, ThSlot
  <1>7. ASSUME NEW w \in Workers, WorkerStep(w), ~ WorkerPuts(w)
        PROVE  UNCHANGED thLru
    BY <1>7 DEF WorkerStep, WorkerTakes, WorkerConverts, WorkerStats, WorkerFinishes, WorkerEnds
  <1>8. ASSUME (\E snap \in Snapshots : StoreEventThumb(snap)) \/ StoreQueuesCard \/ ThStop
               \/ (\E p \in Paths : PruneEventThumb(p)) \/ UNCHANGED thVars
        PROVE  UNCHANGED thLru
    BY <1>8 DEF StoreEventThumb, StoreQueuesCard, ThStop, PruneEventThumb, thVars
  <1>9. QED
    BY <1>2, <1>3, <1>4, <1>5, <1>6, <1>7, <1>8 DEF ThNext, ReqStep, Puts

LEMMA LruTypedKeeps == ThIInv /\ PutsTyped /\ LruTyped /\ [ThNext]_thVars => LruTyped'
  <1> SUFFICES ASSUME ThIInv, PutsTyped, LruTyped, [ThNext]_thVars
               PROVE  LruTyped'
    OBVIOUS
  <1>1. CASE UNCHANGED thLru
    BY <1>1 DEF LruTyped
  <1>2. ASSUME NEW key, NEW info, thLru' = AfterGet(thLru, key, info)
        PROVE  LruTyped'
    BY <1>2, AfterGetFacts DEF LruTyped
  <1>3. ASSUME NEW e \in CacheEntries, thLru' = AfterPut(thLru, e)
        PROVE  LruTyped'
    BY <1>3, AfterPutFacts DEF LruTyped
  <1>4. QED
    BY <1>1, <1>2, <1>3, LruMoves

-----------------------------------------------------------------------------
(* The jobs made so far only become more.                                  *)
LEMMA SeqOfMore ==
  ASSUME NEW S, NEW T, S \subseteq T, NEW c \in Seq(S)
  PROVE  c \in Seq(T)
  OBVIOUS

LEMMA MoreJobs ==
  ASSUME NEW n \in Nat
  PROVE  /\ 1 .. n \subseteq 1 .. n + 1
         /\ \A js \in Seq([path : Cards, no : 1 .. n]) : js \in Seq([path : Cards, no : 1 .. n + 1])
  <1>1. 1 .. n \subseteq 1 .. n + 1
    OBVIOUS
  <1>2. [path : Cards, no : 1 .. n] \subseteq [path : Cards, no : 1 .. n + 1]
    BY <1>1
  <1>3. QED
    BY <1>1, <1>2, SeqOfMore

LEMMA QueueCardTyped ==
  ASSUME ThIInv, JobsTyped, NEW card \in Cards, QueueCardThumb(card),
         UNCHANGED <<thWork, thClosed, thStopped>>
  PROVE  JobsTyped'
  <1>1. thJobNo \in Nat /\ thJobs \in Seq([path : Cards, no : 1 .. thJobNo]) /\ Len(thJobs) <= QueueCap
    BY DEF ThIInv, JobsShaped, JobsTyped
  <1>2. CASE Queues(card) /\ ~ IsPending(card) /\ ~ QueueFull(card)
    <2>1. PICK j, n : j = [path |-> card, no |-> thJobNo + 1] /\ n = thJobNo + 1
      OBVIOUS
    <2>2. /\ thJobs' = Append(thJobs, j) /\ thJobNo' = n
          /\ DOMAIN thPending' = DOMAIN thPending \cup {card}
      BY <1>2, <2>1 DEF QueueCardThumb
    <2>3. 1 .. thJobNo \subseteq 1 .. n /\ thJobs \in Seq([path : Cards, no : 1 .. n])
      BY <1>1, <2>1, MoreJobs
    <2>4. j \in [path : Cards, no : 1 .. n]
      BY <1>1, <2>1
    <2>5. thJobs' \in Seq([path : Cards, no : 1 .. n])
      BY <2>2, <2>3, <2>4
    <2>6. Len(thJobs') <= QueueCap
      <3>1. Len(thJobs) \in Nat /\ QueueCap \in Nat /\ ~ (Len(thJobs) >= QueueCap)
        BY <1>1, <1>2, ThumbsAssumption DEF QueueFull
      <3>2. Len(thJobs') = Len(thJobs) + 1
        BY <1>1, <2>2
      <3>3. QED
        BY <3>1, <3>2
    <2>7. card \in Paths
      BY ImagesFacts
    <2>8. thWork' = thWork /\ thClosed' = thClosed /\ thStopped' = thStopped
      OBVIOUS
    <2>9. QED
      BY <2>2, <2>3, <2>5, <2>6, <2>7, <2>8 DEF JobsTyped
  <1>3. CASE ~ (Queues(card) /\ ~ IsPending(card) /\ ~ QueueFull(card))
    BY <1>3 DEF QueueCardThumb, JobsTyped
  <1>4. QED
    BY <1>2, <1>3

(* A worker's step, but for the ones that take and end a job.              *)
LEMMA WorkerJobTyped ==
  ASSUME ThIInv, JobsTyped, NEW w \in Workers, NEW s, thWork' = [thWork EXCEPT ![w] = s],
         "job" \in DOMAIN s => s.job.no \in 1 .. thJobNo,
         UNCHANGED <<thJobNo, thStopped>>,
         thJobs' \in Seq([path : Cards, no : 1 .. thJobNo]), Len(thJobs') <= QueueCap,
         DOMAIN thPending' \subseteq Paths, thClosed' \subseteq 1 .. thJobNo
  PROVE  JobsTyped'
  <1>1. DOMAIN thWork = Workers
    BY DEF ThIInv, JobsShaped
  <1>2. \A v \in Workers : thWork'[v] = IF v = w THEN s ELSE thWork[v]
    BY <1>1
  <1>3. QED
    BY <1>2 DEF JobsTyped

LEMMA JobsTypedKeep == ThIInv /\ JobsTyped /\ [ThNext]_thVars => JobsTyped'
  <1> SUFFICES ASSUME ThIInv, JobsTyped, [ThNext]_thVars
               PROVE  JobsTyped'
    OBVIOUS
  <1>1. CASE UNCHANGED <<thJobs, thPending, thJobNo, thWork, thClosed, thStopped>>
    BY <1>1 DEF JobsTyped
  <1>2. /\ thJobNo \in Nat /\ thJobs \in Seq([path : Cards, no : 1 .. thJobNo]) /\ Len(thJobs) <= QueueCap
        /\ DOMAIN thPending \subseteq Paths /\ thClosed \subseteq 1 .. thJobNo
    BY DEF ThIInv, JobsShaped, JobsTyped
  <1>3. ASSUME NEW w \in Workers, WorkerTakes(w)
        PROVE  JobsTyped'
    <2>1. PICK j, s : j = Head(thJobs) /\ s = [pc |-> "convert", job |-> j]
      OBVIOUS
    <2>2. /\ thJobs # << >> /\ thWork' = [thWork EXCEPT ![w] = s] /\ thJobs' = Tail(thJobs)
          /\ UNCHANGED <<thPending, thJobNo, thClosed, thStopped>>
      BY <1>3, <2>1 DEF WorkerTakes
    <2>3. j \in [path : Cards, no : 1 .. thJobNo] /\ s.job = j
      <3>1. s.job = j
        BY <2>1
      <3>2. PICK S : S = [path : Cards, no : 1 .. thJobNo]
        OBVIOUS
      <3>3. thJobs \in Seq(S) /\ thJobs # << >>
        BY <1>2, <2>2, <3>2
      <3>4. Head(thJobs) \in S
        BY <3>3
      <3>5. QED
        BY <2>1, <3>1, <3>2, <3>4
    <2>4. thJobs' \in Seq([path : Cards, no : 1 .. thJobNo]) /\ Len(thJobs') <= QueueCap
      <3>1. Tail(thJobs) \in Seq([path : Cards, no : 1 .. thJobNo]) /\ Len(Tail(thJobs)) = Len(thJobs) - 1
        BY <1>2, <2>2
      <3>2. Len(thJobs) \in Nat /\ QueueCap \in Nat
        BY <1>2, ThumbsAssumption
      <3>3. QED
        BY <1>2, <2>2, <3>1, <3>2
    <2>5. s.job.no \in 1 .. thJobNo
      BY <2>3
    <2>6. QED
      BY <1>2, <2>2, <2>4, <2>5, WorkerJobTyped
  <1>4. ASSUME NEW w \in Workers, WorkerConverts(w) \/ WorkerStats(w) \/ WorkerPuts(w)
        PROVE  JobsTyped'
    <2>1. PICK s : s = thWork[w]
      OBVIOUS
    <2>2. WorkShape(s) /\ s.pc \in {"convert", "stat", "put"}
      BY <1>4, <2>1 DEF WorkerConverts, WorkerStats, WorkerPuts, ThIInv, JobsShaped, WorkShape
    <2>3. "job" \in DOMAIN s
      BY <2>2 DEF WorkShape, Free
    <2>4. s.job.no \in 1 .. thJobNo
      BY <2>1, <2>3 DEF JobsTyped
    <2>5. PICK a, b, c, d :
             /\ a = [s EXCEPT !.pc = "stat"] /\ b = [s EXCEPT !.pc = "finish"]
             /\ c = [pc |-> "put", job |-> s.job, info |-> thFile[s.job.path].ino]
             /\ d = [pc |-> "finish", job |-> s.job]
      OBVIOUS
    <2>6. a.job = s.job /\ b.job = s.job /\ c.job = s.job /\ d.job = s.job
      <3>1. \/ s \in [pc : {"convert", "stat", "finish"}, job : CardJobs]
            \/ s \in [pc : {"put"}, job : CardJobs, info : {s.info}]
        BY <2>2 DEF WorkShape, Free
      <3>2. QED
        BY <2>5, <3>1
    <2>7. /\ \/ thWork' = [thWork EXCEPT ![w] = a] \/ thWork' = [thWork EXCEPT ![w] = b]
             \/ thWork' = [thWork EXCEPT ![w] = c] \/ thWork' = [thWork EXCEPT ![w] = d]
          /\ UNCHANGED <<thJobs, thPending, thJobNo, thClosed, thStopped>>
      BY <1>4, <2>1, <2>5 DEF WorkerConverts, WorkerStats, WorkerPuts
    <2>8. QED
      BY <1>2, <2>4, <2>6, <2>7, WorkerJobTyped
  <1>5. ASSUME NEW w \in Workers, WorkerFinishes(w)
        PROVE  JobsTyped'
    <2>1. PICK s : s = thWork[w]
      OBVIOUS
    <2>2. WorkShape(s) /\ s.pc = "finish"
      BY <1>5, <2>1 DEF WorkerFinishes, ThIInv, JobsShaped, WorkShape
    <2>3. "job" \in DOMAIN s
      BY <2>2 DEF WorkShape, Free
    <2>4. s.job.no \in 1 .. thJobNo
      BY <2>1, <2>3 DEF JobsTyped
    <2>5. /\ thWork' = [thWork EXCEPT ![w] = Free] /\ UNCHANGED <<thJobs, thJobNo, thStopped>>
          /\ thClosed' = thClosed \cup {s.job.no}
          /\ DOMAIN thPending' = DOMAIN thPending \ {s.job.path}
      BY <1>5, <2>1 DEF WorkerFinishes
    <2>6. "job" \notin DOMAIN Free
      BY DEF Free
    <2>7. QED
      BY <1>2, <2>4, <2>5, <2>6, WorkerJobTyped
  <1>6. ASSUME NEW w \in Workers, WorkerEnds(w)
        PROVE  JobsTyped'
    <2>1. PICK s : s = [pc |-> "ended"]
      OBVIOUS
    <2>2. /\ thWork' = [thWork EXCEPT ![w] = s] /\ "job" \notin DOMAIN s
          /\ UNCHANGED <<thJobs, thPending, thJobNo, thClosed, thStopped>>
      BY <1>6, <2>1 DEF WorkerEnds
    <2>3. QED
      BY <1>2, <2>2, WorkerJobTyped
  <1>7. CASE StoreQueuesCard
    <2>1. thPub \in Cards
      BY <1>7 DEF StoreQueuesCard, ThIInv, JobsShaped
    <2>2. QED
      BY <1>7, <2>1, QueueCardTyped DEF StoreQueuesCard
  <1>8. ASSUME NEW r \in Requests, ThAsksCard(r)
        PROVE  JobsTyped'
    BY <1>8, AskedCard, QueueCardTyped DEF ThAsksCard, ThRest
  <1>9. CASE ThStop
    BY <1>9 DEF ThStop, JobsTyped
  <1>10. ASSUME NEW r \in Requests, ReqStep(r) \/ (\E ask \in Asks[r] : RecThumb(r, ask)), ~ ThAsksCard(r)
         PROVE  UNCHANGED <<thJobs, thPending, thJobNo, thWork, thClosed, thStopped>>
    BY <1>10 DEF ReqStep, RecThumb, ThStat, ThGet, ThOpen, ThPut, ThWaited, ThFrame, ThSlot, ThCut, ThRest
  <1>11. ASSUME (\E snap \in Snapshots : StoreEventThumb(snap))
                \/ (\E p \in Paths : PruneEventThumb(p)) \/ UNCHANGED thVars
         PROVE  UNCHANGED <<thJobs, thPending, thJobNo, thWork, thClosed, thStopped>>
    BY <1>11 DEF StoreEventThumb, PruneEventThumb, thVars
  <1>12. QED
    BY <1>1, <1>3, <1>4, <1>5, <1>6, <1>7, <1>8, <1>9, <1>10, <1>11 DEF ThNext, WorkerStep

-----------------------------------------------------------------------------
LEMMA ThInitTyped == ThInit => ThTyped
  <1> SUFFICES ASSUME ThInit
               PROVE  ThTyped
    OBVIOUS
  <1>1. OnDisk \in [sec : Secs, pic : Pics] /\ MaxDisk \in Nat /\ QueueCap \in Nat
    BY ThumbsAssumption
  <1>2. FilesTyped
    <2>1. PICK f : f = [ino |-> 1, img |-> Full(OnDisk.pic)]
      OBVIOUS
    <2>2. 1 \in Inos /\ Full(OnDisk.pic) \in Images
      BY <1>1, ImagesFacts DEF Inos
    <2>3. f \in [ino : Inos, img : Images]
      BY <2>1, <2>2
    <2>4. thFile = [p \in {Original(OnDisk.sec)} |-> f] /\ thIno = 1 /\ thPruned = 0
      BY <2>1 DEF ThInit
    <2>5. QED
      BY <1>1, <2>2, <2>3, <2>4 DEF FilesTyped
  <1>3. PutsTyped
    BY DEF ThInit, PutsTyped, NotAsked, Free
  <1>4. LruTyped
    BY DEF ThInit, LruTyped
  <1>5. JobsTyped
    <2>1. \A S : << >> \in Seq(S)
      OBVIOUS
    <2>2. thJobs = << >> /\ Len(thJobs) <= QueueCap
      BY <1>1 DEF ThInit
    <2>3. thJobs \in Seq([path : Cards, no : 1 .. thJobNo])
      BY <2>1, <2>2
    <2>4. \A w \in Workers : "job" \notin DOMAIN thWork[w]
      BY DEF ThInit, Free
    <2>5. DOMAIN thPending \subseteq Paths /\ thClosed \subseteq 1 .. thJobNo /\ thStopped \in BOOLEAN
      BY DEF ThInit
    <2>6. QED
      BY <2>2, <2>3, <2>4, <2>5 DEF JobsTyped
  <1>6. QED
    BY <1>2, <1>3, <1>4, <1>5 DEF ThTyped

LEMMA ThTypedKeeps == ThIInv /\ ThTyped /\ [ThNext]_thVars => ThTyped'
  BY FilesTypedKeep, PutsTypedKeep, LruTypedKeeps, JobsTypedKeep DEF ThTyped

LEMMA ThTypesAreOK == ThIInv /\ ThTyped => ThTypeOK
  <1> SUFFICES ASSUME ThIInv, ThTyped
               PROVE  ThTypeOK
    OBVIOUS
  <1>1. DOMAIN thFile \subseteq Paths /\ DOMAIN thReq = Requests
    BY DEF ThIInv, FilesShaped
  <1>2. DOMAIN thWork = Workers /\ thPub \in Paths \cup {NoCard}
    BY ImagesFacts DEF ThIInv, JobsShaped
  <1>3. FilesTyped /\ LruTyped /\ JobsTyped
    BY DEF ThTyped
  <1>4. thLru \in Seq([key : Keys, img : Images, info : Inos \cup {NoInfo}])
    BY <1>3 DEF LruTyped, CacheEntries, Infos
  <1>5. QED
    BY <1>1, <1>2, <1>3, <1>4 DEF FilesTyped, JobsTyped, ThTypeOK

-----------------------------------------------------------------------------
LEMMA StTypesAreOK == StIInv /\ StTyped => StTypeOK
  BY DEF StIInv, StShaped, StTyped, StTypeOK

LEMMA DvInitTyped == DvInit => DvTyped
  <1> SUFFICES ASSUME DvInit
               PROVE  DvTyped
    OBVIOUS
  <1>1. SeedAddr \in Addrs /\ "auto" \in Selectable /\ SeedRound \subseteq Nat
    BY DeviceStoreAssumption
  <1>2. RowsTyped
    <2>1. PICK row : row = [addr |-> SeedAddr, protocol |-> "auto"]
      OBVIOUS
    <2>2. row \in [addr : Addrs, protocol : Protocols \cup Selectable]
      BY <1>1, <2>1
    <2>3. dvDvrs = [id \in {1} |-> row]
      BY <2>1 DEF DvInit
    <2>4. QED
      BY <2>2, <2>3 DEF RowsTyped, Ids
  <1>3. ChansTyped
    <2>1. ASSUME NEW n \in SeedRound
          PROVE  [meta |-> "found", order |-> Place(n, SeedRound)] \in [meta : {"found", "edited"}, order : Nat]
      BY <1>1, PlaceIsNat
    <2>2. \A n : <<1, n>>[2] = n
      OBVIOUS
    <2>3. dvChans = [c \in {<<1, n>> : n \in SeedRound} |->
                        [meta |-> "found", order |-> Place(c[2], SeedRound)]]
      BY DEF DvInit
    <2>4. QED
      BY <2>1, <2>2, <2>3 DEF ChansTyped
  <1>4. QED
    BY <1>2, <1>3 DEF DvInit, DvTyped

LEMMA DvTypesAreOK == RlIInv /\ DvTyped => DvTypeOK
  <1> SUFFICES ASSUME RlIInv, DvTyped
               PROVE  DvTypeOK
    OBVIOUS
  <1>1. (\A k \in DOMAIN dvKeys : dvKeys[k] \in Facets) /\ DOMAIN dvOp = AllThreads
    BY DEF RlIInv, DvIInv, DvShaped
  <1>2. \A id \in Ids : id \in DOMAIN dvKeys
    BY DEF RlIInv, RowsHaveKeys
  <1>3. QED
    BY <1>1, <1>2 DEF Facets, DvTyped, RowsTyped, ChansTyped, DvTypeOK

LEMMA LimTypesAreOK == LimIInv => LimTypeOK
  BY DEF LimIInv, BlocksEnd, EntriesDeserved, Records, LimTypeOK

-----------------------------------------------------------------------------
(* The order of a wall: the cameras of the preference come first, each at  *)
(* its first place in it, and then the others.                             *)
FirstPlaces(ids, pref) ==
    {i \in DOMAIN pref : pref[i] \in ToSet(ids) /\ \A j \in 1 .. i - 1 : pref[j] # pref[i]}

LEMMA FirstIsRank ==
  ASSUME NEW U, NEW pref \in Seq(U), NEW i \in DOMAIN pref, \A j \in 1 .. i - 1 : pref[j] # pref[i]
  PROVE  RankIn(pref, pref[i]) = i
  <1>1. PICK n, x : n = Len(pref) /\ x = pref[i]
    OBVIOUS
  <1>2. n \in Nat /\ i \in 1 .. n /\ x \in ToSet(pref) /\ DOMAIN pref = 1 .. n
    BY <1>1 DEF ToSet
  <1>3. PICK r : r = CHOOSE k \in DOMAIN pref : pref[k] = x /\ \A j \in 1 .. k - 1 : pref[j] # x
    OBVIOUS
  <1>4. r \in 1 .. n /\ pref[r] = x /\ \A j \in 1 .. r - 1 : pref[j] # x
    BY <1>1, <1>2, <1>3
  <1>5. ~ (r < i) /\ ~ (i < r)
    <2>1. r \in 1 .. i - 1 \/ ~ (r < i)
      BY <1>2, <1>4
    <2>2. i \in 1 .. r - 1 \/ ~ (i < r)
      BY <1>2, <1>4
    <2>3. QED
      BY <1>1, <1>4, <2>1, <2>2
  <1>6. r = i
    BY <1>2, <1>4, <1>5
  <1>7. QED
    BY <1>1, <1>2, <1>3, <1>6 DEF RankIn

LEMMA HasFirst ==
  ASSUME NEW U, NEW pref \in Seq(U), NEW x \in ToSet(pref)
  PROVE  \E i \in DOMAIN pref : pref[i] = x /\ \A j \in 1 .. i - 1 : pref[j] # pref[i]
  <1>1. PICK S : S = {i \in DOMAIN pref : pref[i] = x}
    OBVIOUS
  <1>2. S # {} /\ DOMAIN pref = 1 .. Len(pref) /\ Len(pref) \in Nat
    BY <1>1 DEF ToSet
  <1>3. S \in SUBSET Nat
    BY <1>1, <1>2
  <1>4. PICK i : i = Min(S)
    OBVIOUS
  <1>5. i \in S /\ \A k \in S : i <= k
    BY <1>2, <1>3, <1>4, MinIsIn
  <1>6. \A j \in 1 .. i - 1 : j \in DOMAIN pref /\ ~ (i <= j)
    BY <1>1, <1>2, <1>5
  <1>7. \A j \in 1 .. i - 1 : pref[j] # x
    BY <1>1, <1>5, <1>6
  <1>8. QED
    BY <1>1, <1>5, <1>7

(* Two lists of the same things, each of them once, are as long.           *)
LEMMA OnceEach ==
  ASSUME NEW T, NEW s \in Seq(T), NEW t \in Seq(T), ToSet(s) = ToSet(t),
         \A i, j \in 1 .. Len(s) : s[i] = s[j] => i = j,
         \A i, j \in 1 .. Len(t) : t[i] = t[j] => i = j
  PROVE  Len(s) = Len(t)
  <1>1. ASSUME NEW q \in Seq(T), \A i, j \in 1 .. Len(q) : q[i] = q[j] => i = j
        PROVE  IsFiniteSet(ToSet(q)) /\ Cardinality(ToSet(q)) = Len(q)
    <2>1. PICK n, D, f : n = Len(q) /\ D = 1 .. n /\ f = [i \in D |-> q[i]]
      OBVIOUS
    <2>2. n \in Nat /\ DOMAIN q = D
      BY <2>1
    <2>3. IsFiniteSet(D) /\ Cardinality(D) = n
      <3>1. 1 \in Int /\ n \in Int
        BY <2>2
      <3>2. IsFiniteSet(1 .. n) /\ Cardinality(1 .. n) = IF 1 > n THEN 0 ELSE n - 1 + 1
        BY <3>1, FS_Interval
      <3>3. QED
        BY <2>1, <2>2, <3>2
    <2>4. f \in [D -> ToSet(q)]
      BY <2>1, <2>2 DEF ToSet
    <2>5. \A i, j \in D : f[i] = f[j] => i = j
      BY <1>1, <2>1
    <2>6. \A x \in ToSet(q) : \E i \in D : f[i] = x
      BY <2>1, <2>2 DEF ToSet
    <2>7. f \in Bijection(D, ToSet(q))
      BY <2>4, <2>5, <2>6 DEF Bijection, Injection, Surjection, IsInjective
    <2>8. QED
      BY <2>1, <2>3, <2>7, FS_Bijection DEF ExistsBijection
  <1>2. QED
    BY <1>1

(* Whatever is stored, a wall shows every stream once, and in the order.   *)
LEMMA ReorderedFacts ==
  ASSUME NEW T, NEW ids \in Seq(T), NEW U, NEW pref \in Seq(U),
         \A i, j \in 1 .. Len(ids) : ids[i] = ids[j] => i = j,
         NEW shown, shown = ReorderByPreference(ids, pref)
  PROVE  /\ Len(shown) = Len(ids) /\ ToSet(shown) = ToSet(ids)
         /\ \A i, j \in DOMAIN shown : i < j => RankIn(pref, shown[i]) <= RankIn(pref, shown[j])
  <1>1. PICK F, O : F = FirstPlaces(ids, pref) /\ O = {i \in DOMAIN ids : ids[i] \notin ToSet(pref)}
    OBVIOUS
  <1>2. PICK A, B : A = Picked(pref, F) /\ B = Picked(ids, O)
    OBVIOUS
  <1>3. PICK a, b : a = Len(A) /\ b = Len(B)
    OBVIOUS
  <1>4. F \in SUBSET DOMAIN pref /\ O \in SUBSET DOMAIN ids
    BY <1>1 DEF FirstPlaces
  <1>5. PICK p : PicksAt(A, pref, F, p) /\ A \in Seq(U)
    BY <1>2, <1>4, PickedFacts
  <1>6. /\ a \in Nat /\ p \in [1 .. a -> F] /\ \A i \in F : \E k \in 1 .. a : p[k] = i
        /\ \A j, k \in 1 .. a : j < k => p[j] < p[k]
        /\ A = [k \in 1 .. a |-> pref[p[k]]] /\ A \in Seq(U) /\ Len(A) = a
    BY <1>3, <1>5 DEF PicksAt
  <1>7. PICK q : PicksAt(B, ids, O, q) /\ B \in Seq(T)
    BY <1>2, <1>4, PickedFacts
  <1>8. /\ b \in Nat /\ q \in [1 .. b -> O] /\ \A i \in O : \E k \in 1 .. b : q[k] = i
        /\ \A j, k \in 1 .. b : j < k => q[j] < q[k]
        /\ B = [k \in 1 .. b |-> ids[q[k]]] /\ B \in Seq(T) /\ Len(B) = b
    BY <1>3, <1>7 DEF PicksAt
  <1>9. shown = A \o B
    BY <1>1, <1>2 DEF ReorderByPreference, FirstPlaces
  <1>10. /\ Len(ids) \in Nat /\ DOMAIN ids = 1 .. Len(ids) /\ \A i \in DOMAIN ids : ids[i] \in T
         /\ Len(pref) \in Nat /\ DOMAIN pref = 1 .. Len(pref)
    OBVIOUS
  (* The first part: the stored cameras that stream. *)
  <1>11. ASSUME NEW k \in 1 .. a
         PROVE  /\ A[k] \in ToSet(ids) /\ A[k] \in ToSet(pref)
                /\ RankIn(pref, A[k]) = p[k] /\ p[k] \in 1 .. Len(pref)
    <2>1. p[k] \in F /\ A[k] = pref[p[k]]
      BY <1>6
    <2>2. PICK i : i = p[k]
      OBVIOUS
    <2>3. i \in DOMAIN pref /\ pref[i] \in ToSet(ids) /\ \A j \in 1 .. i - 1 : pref[j] # pref[i]
      BY <1>1, <2>1, <2>2 DEF FirstPlaces
    <2>4. RankIn(pref, pref[i]) = i
      BY <2>3, FirstIsRank
    <2>5. pref[i] \in ToSet(pref)
      BY <2>3 DEF ToSet
    <2>6. QED
      BY <1>10, <2>1, <2>2, <2>3, <2>4, <2>5
  <1>12. ASSUME NEW k \in 1 .. b
         PROVE  B[k] \in ToSet(ids) /\ B[k] \notin ToSet(pref) /\ RankIn(pref, B[k]) = Len(pref) + 1
    <2>1. q[k] \in O /\ B[k] = ids[q[k]]
      BY <1>8
    <2>2. ids[q[k]] \notin ToSet(pref) /\ ids[q[k]] \in ToSet(ids)
      BY <1>1, <2>1 DEF ToSet
    <2>3. QED
      BY <2>1, <2>2 DEF RankIn
  <1>13. \A x \in ToSet(ids) : (\E k \in 1 .. a : A[k] = x) \/ (\E k \in 1 .. b : B[k] = x)
    <2>1. ASSUME NEW x \in ToSet(ids)
          PROVE  (\E k \in 1 .. a : A[k] = x) \/ (\E k \in 1 .. b : B[k] = x)
      <3>1. CASE x \in ToSet(pref)
        <4>1. PICK i \in DOMAIN pref : pref[i] = x /\ \A j \in 1 .. i - 1 : pref[j] # pref[i]
          BY <3>1, HasFirst
        <4>2. i \in F
          BY <1>1, <2>1, <4>1 DEF FirstPlaces
        <4>3. QED
          BY <1>6, <4>1, <4>2
      <3>2. CASE x \notin ToSet(pref)
        <4>1. PICK i \in DOMAIN ids : ids[i] = x
          BY <2>1 DEF ToSet
        <4>2. i \in O
          BY <1>1, <3>2, <4>1
        <4>3. QED
          BY <1>8, <4>1, <4>2
      <3>3. QED
        BY <3>1, <3>2
    <2>2. QED
      BY <2>1
  <1>14. PICK n : n = a + b
    OBVIOUS
  <1>15. /\ n \in Nat /\ shown \in Seq(T \cup U) /\ Len(shown) = n /\ DOMAIN shown = 1 .. n
         /\ \A i \in 1 .. n : shown[i] = IF i <= a THEN A[i] ELSE B[i - a]
    <2>1. PICK V : V = T \cup U
      OBVIOUS
    <2>2. A \in Seq(V) /\ B \in Seq(V)
      BY <1>6, <1>8, <2>1, SeqOfMore
    <2>3. A \o B \in Seq(V) /\ Len(A \o B) = Len(A) + Len(B)
          /\ \A i \in 1 .. Len(A) + Len(B) : (A \o B)[i] = IF i <= Len(A) THEN A[i] ELSE B[i - Len(A)]
      BY <2>2, ConcatProperties
    <2>4. n \in Nat
      BY <1>6, <1>8, <1>14
    <2>5. QED
      BY <1>6, <1>8, <1>9, <1>14, <2>1, <2>3, <2>4
  <1>16. ASSUME NEW i \in 1 .. n
         PROVE  \/ i \in 1 .. a /\ shown[i] = A[i]
                \/ i - a \in 1 .. b /\ shown[i] = B[i - a] /\ ~ (i <= a)
    <2>1. a \in Nat /\ b \in Nat /\ n = a + b
      BY <1>6, <1>8, <1>14
    <2>2. shown[i] = IF i <= a THEN A[i] ELSE B[i - a]
      BY <1>15
    <2>3. i \in 1 .. a \/ (i - a \in 1 .. b /\ ~ (i <= a))
      BY <2>1
    <2>4. i \in 1 .. a => i <= a
      BY <2>1
    <2>5. QED
      BY <2>2, <2>3, <2>4
  <1>17. ToSet(shown) = ToSet(ids)
    <2>1. ASSUME NEW x \in ToSet(shown)
          PROVE  x \in ToSet(ids)
      <3>1. PICK i \in 1 .. n : x = shown[i]
        BY <1>15, <2>1 DEF ToSet
      <3>2. QED
        BY <1>11, <1>12, <1>16, <3>1
    <2>2. ASSUME NEW x \in ToSet(ids)
          PROVE  x \in ToSet(shown)
      <3>1. \E i \in 1 .. n : shown[i] = x
        <4>1. CASE \E k \in 1 .. a : A[k] = x
          <5>1. PICK k \in 1 .. a : A[k] = x
            BY <4>1
          <5>2. k \in 1 .. n /\ k <= a
            BY <1>6, <1>8, <1>14
          <5>3. QED
            BY <1>15, <5>1, <5>2
        <4>2. CASE \E k \in 1 .. b : B[k] = x
          <5>1. PICK k \in 1 .. b : B[k] = x
            BY <4>2
          <5>2. PICK i : i = k + a
            OBVIOUS
          <5>3. i \in 1 .. n /\ ~ (i <= a) /\ i - a = k
            BY <1>6, <1>8, <1>14, <5>2
          <5>4. QED
            BY <1>15, <5>1, <5>3
        <4>3. QED
          BY <1>13, <4>1, <4>2
      <3>2. QED
        BY <1>15, <3>1 DEF ToSet
    <2>3. QED
      BY <2>1, <2>2
  <1>18. ASSUME NEW i \in 1 .. n, NEW j \in 1 .. n, i < j
         PROVE  RankIn(pref, shown[i]) <= RankIn(pref, shown[j]) /\ shown[i] # shown[j]
    <2>1. CASE j \in 1 .. a /\ shown[j] = A[j]
      <3>1. i \in 1 .. a /\ shown[i] = A[i]
        <4>1. a \in Nat /\ i \in Nat /\ j \in Nat /\ i <= a
          BY <1>6, <1>15, <1>18, <2>1
        <4>2. QED
          BY <1>16, <4>1
      <3>2. p[i] < p[j] /\ p[i] \in Nat /\ p[j] \in Nat
        BY <1>6, <1>11, <1>18, <2>1, <3>1
      <3>3. RankIn(pref, shown[i]) = p[i] /\ RankIn(pref, shown[j]) = p[j]
        BY <1>11, <2>1, <3>1
      <3>4. QED
        BY <3>2, <3>3
    <2>2. CASE j - a \in 1 .. b /\ shown[j] = B[j - a] /\ ~ (j <= a)
      <3>1. PICK l : l = j - a
        OBVIOUS
      <3>2. RankIn(pref, shown[j]) = Len(pref) + 1 /\ shown[j] \notin ToSet(pref)
        BY <1>12, <2>2, <3>1
      <3>3. CASE i \in 1 .. a /\ shown[i] = A[i]
        <4>1. shown[i] \in ToSet(pref) /\ RankIn(pref, shown[i]) = p[i] /\ p[i] \in 1 .. Len(pref)
          BY <1>11, <3>3
        <4>2. QED
          BY <1>10, <3>2, <4>1
      <3>4. CASE i - a \in 1 .. b /\ shown[i] = B[i - a] /\ ~ (i <= a)
        <4>1. PICK k : k = i - a
          OBVIOUS
        <4>2. k \in 1 .. b /\ l \in 1 .. b /\ k < l
          BY <1>6, <1>8, <1>14, <1>15, <1>18, <2>2, <3>1, <3>4, <4>1
        <4>3. q[k] < q[l] /\ q[k] \in DOMAIN ids /\ q[l] \in DOMAIN ids
          BY <1>4, <1>8, <4>2
        <4>4. ids[q[k]] # ids[q[l]]
          BY <1>10, <4>3
        <4>5. shown[i] = ids[q[k]] /\ shown[j] = ids[q[l]]
          BY <1>8, <2>2, <3>1, <3>4, <4>1, <4>2
        <4>6. RankIn(pref, shown[i]) = Len(pref) + 1
          BY <1>12, <3>4, <4>1, <4>2
        <4>7. QED
          BY <1>10, <3>2, <4>4, <4>5, <4>6
      <3>5. QED
        BY <1>16, <3>3, <3>4
    <2>3. QED
      BY <1>16, <2>1, <2>2
  <1>19. Len(shown) = Len(ids)
    <2>1. PICK V : V = T \cup U
      OBVIOUS
    <2>2. shown \in Seq(V) /\ ids \in Seq(V)
      BY <1>15, <2>1, SeqOfMore
    <2>3. \A i, j \in 1 .. Len(shown) : shown[i] = shown[j] => i = j
      <3>1. ASSUME NEW i \in 1 .. n, NEW j \in 1 .. n, shown[i] = shown[j]
            PROVE  i = j
        <4>1. ~ (i < j) /\ ~ (j < i)
          BY <1>18, <3>1
        <4>2. QED
          BY <1>15, <4>1
      <3>2. QED
        BY <1>15, <3>1
    <2>4. QED
      BY <1>17, <2>2, <2>3, OnceEach
  <1>20. QED
    BY <1>15, <1>17, <1>18, <1>19

(* What is picked where the camera streams is every place of it.           *)
LEMMA MembersFacts ==
  ASSUME NEW ids, NEW U, NEW pref \in Seq(U), NEW shown, shown = WallChannelIDs(TRUE, ids, pref)
  PROVE  EveryPlace(shown, ids, pref)
  <1>1. PICK I : I = {i \in DOMAIN pref : pref[i] \in ToSet(ids)}
    OBVIOUS
  <1>2. shown = Picked(pref, I) /\ I \in SUBSET DOMAIN pref
    BY <1>1 DEF WallChannelIDs
  <1>3. PICK p : PicksAt(shown, pref, I, p) /\ shown \in Seq(U)
    BY <1>2, PickedFacts
  <1>4. /\ p \in [1 .. Len(shown) -> I] /\ \A i \in I : \E k \in 1 .. Len(shown) : p[k] = i
        /\ \A j, k \in 1 .. Len(shown) : j < k => p[j] < p[k]
        /\ shown = [k \in 1 .. Len(shown) |-> pref[p[k]]]
    BY <1>3 DEF PicksAt
  <1>5. p \in [1 .. Len(shown) -> DOMAIN pref]
    BY <1>2, <1>4
  <1>6. \A k \in 1 .. Len(shown) : shown[k] = pref[p[k]] /\ shown[k] \in ToSet(ids)
    BY <1>1, <1>4
  <1>7. \A i \in DOMAIN pref : pref[i] \in ToSet(ids) => \E k \in 1 .. Len(shown) : p[k] = i
    BY <1>1, <1>4
  <1>8. QED
    BY <1>4, <1>5, <1>6, <1>7 DEF EveryPlace

(* Whatever order is stored (of cameras that are gone, twice the same one),*)
(* the wall of a site shows every camera that streams exactly once, the    *)
(* ones the operator has ordered first and in his order; a group wall      *)
(* shows what the order names and streams, place by place (wallorder.go,   *)
(* surv_mosaic.go, wallChannelIDs), for every set of streams and of orders.*)
THEOREM WallShowsItsCamerasHolds == StSpec => []WallShowsItsCameras
  <1>1. StIInv => WallShowsItsCameras
    <2> SUFFICES ASSUME StIInv
                 PROVE  WallShowsItsCameras
      OBVIOUS
    <2>1. PICK pref : pref = stMem.order
      OBVIOUS
    <2>2. pref \in Seq(ToSet(pref))
      <3>1. pref \in Orders \cup {<< >>}
        BY <2>1 DEF StIInv, StShaped, Kept
      <3>2. CASE pref \in Orders
        BY <3>2, SettingsAssumption
      <3>3. CASE pref = << >>
        BY <3>3
      <3>4. QED
        BY <3>1, <3>2, <3>3
    <2>3. Streaming \in Seq(ToSet(Streaming)) /\ DOMAIN Streaming = 1 .. Len(Streaming)
      BY SettingsAssumption
    <2>4. \A i, j \in 1 .. Len(Streaming) : Streaming[i] = Streaming[j] => i = j
      BY <2>3, SettingsAssumption DEF IsInjective
    <2>5. PICK shown : shown = WallChannelIDs(FALSE, Streaming, pref)
      OBVIOUS
    <2>6. shown = ReorderByPreference(Streaming, pref)
      BY <2>5 DEF WallChannelIDs
    <2>7. EachOnce(shown, Streaming, pref)
      BY <2>2, <2>3, <2>4, <2>6, ReorderedFacts DEF EachOnce
    <2>8. EveryPlace(WallChannelIDs(TRUE, Streaming, pref), Streaming, pref)
      BY <2>2, MembersFacts
    <2>9. QED
      BY <2>1, <2>5, <2>7, <2>8 DEF WallShowsItsCameras
  <1>2. QED
    BY <1>1, StAlways, PTL

-----------------------------------------------------------------------------
(* The order an operator set.  Channels are numbers of their recorder, and *)
(* the ones he put in an order are there, each with a place after the one  *)
(* before it.                                                              *)
Numbered(chans) ==
    IsFiniteSet(DOMAIN chans) /\ \A c \in DOMAIN chans : c = <<c[1], c[2]>> /\ c[2] \in Nat

InPlace(w, id, chans) ==
    /\ w \in Seq(Nat)
    /\ \A i \in 1 .. Len(w) : <<id, w[i]>> \in DOMAIN chans
    /\ \A i, j \in 1 .. Len(w) : i < j => chans[<<id, w[i]>>].order < chans[<<id, w[j]>>].order

WantedInPlace ==
    Ids \subseteq DOMAIN dvWanted /\ \A id \in DOMAIN dvWanted : InPlace(dvWanted[id], id, dvChans)

RsIInv == RlIInv /\ DvTyped /\ Numbered(dvChans) /\ WantedInPlace

(* What leaves a recorder's channels and their places leaves its order.    *)
LEMMA StaysInPlace ==
  ASSUME NEW w, NEW id, NEW chans, NEW chans2, InPlace(w, id, chans),
         \A n : <<id, n>> \in DOMAIN chans =>
            <<id, n>> \in DOMAIN chans2 /\ chans2[<<id, n>>].order = chans[<<id, n>>].order
  PROVE  InPlace(w, id, chans2)
  <1>1. \A i \in 1 .. Len(w) :
           <<id, w[i]>> \in DOMAIN chans2 /\ chans2[<<id, w[i]>>].order = chans[<<id, w[i]>>].order
    BY DEF InPlace
  <1>2. QED
    BY <1>1 DEF InPlace

LEMMA NothingWanted ==
  ASSUME NEW id, NEW chans
  PROVE  InPlace(<< >>, id, chans)
  <1>1. << >> \in Seq(Nat) /\ Len(<< >>) = 0
    OBVIOUS
  <1>2. 1 .. Len(<< >>) = {}
    BY <1>1
  <1>3. QED
    BY <1>1, <1>2 DEF InPlace

(* The place ReorderChannels gives a channel is its last in the list.      *)
LEMMA PlaceGiven ==
  ASSUME NEW order \in Seq(Nat), NEW i \in LastPlaces(order)
  PROVE  /\ i \in DOMAIN order /\ order[i] \in ToSet(order)
         /\ (CHOOSE k \in LastPlaces(order) : order[k] = order[i]) = i
  <1>1. i \in DOMAIN order /\ \A k \in LastPlaces(order) : k \in DOMAIN order /\ k \in Int
    BY DEF LastPlaces
  <1>2. \A k \in LastPlaces(order) : order[k] = order[i] => k <= i /\ i <= k
    BY DEF LastPlaces
  <1>3. \A k \in LastPlaces(order) : order[k] = order[i] => k = i
    BY <1>1, <1>2
  <1>4. order[i] \in ToSet(order)
    BY <1>1 DEF ToSet
  <1>5. QED
    BY <1>1, <1>3, <1>4

LEMMA ReorderInPlace ==
  ASSUME NEW order \in Seq(Nat), NEW id, NEW chans, NEW chans2,
         chans2 = [c \in DOMAIN chans |->
                     IF c[1] = id /\ c[2] \in ToSet(order)
                     THEN [chans[c] EXCEPT !.order = (CHOOSE i \in LastPlaces(order) : order[i] = c[2]) - 1]
                     ELSE chans[c]],
         \A c \in DOMAIN chans : chans[c] \in [meta : {"found", "edited"}, order : Nat]
  PROVE  InPlace(Picked(order, {i \in LastPlaces(order) : <<id, order[i]>> \in DOMAIN chans}), id, chans2)
  <1>1. PICK I, w : I = {i \in LastPlaces(order) : <<id, order[i]>> \in DOMAIN chans} /\ w = Picked(order, I)
    OBVIOUS
  <1>2. I \in SUBSET DOMAIN order
    BY <1>1 DEF LastPlaces
  <1>3. PICK p : PicksAt(w, order, I, p) /\ w \in Seq(Nat)
    BY <1>1, <1>2, PickedFacts
  <1>4. ASSUME NEW k \in 1 .. Len(w)
        PROVE  /\ p[k] \in Nat /\ <<id, w[k]>> \in DOMAIN chans2
               /\ chans2[<<id, w[k]>>].order = p[k] - 1
    <2>1. PICK i : i = p[k]
      OBVIOUS
    <2>2. i \in I /\ w[k] = order[i]
      BY <1>3, <2>1 DEF PicksAt
    <2>3. i \in LastPlaces(order) /\ <<id, order[i]>> \in DOMAIN chans
      BY <1>1, <2>2
    <2>4. PICK n, c : n = order[i] /\ c = <<id, n>>
      OBVIOUS
    <2>5. i \in DOMAIN order /\ n \in ToSet(order)
          /\ (CHOOSE j \in LastPlaces(order) : order[j] = n) = i
      BY <2>3, <2>4, PlaceGiven
    <2>6. c \in DOMAIN chans /\ c[1] = id /\ c[2] = n
      BY <2>3, <2>4
    <2>7. chans2[c] = [chans[c] EXCEPT !.order = i - 1]
      BY <2>5, <2>6
    <2>8. chans[c] \in [meta : {"found", "edited"}, order : Nat]
      BY <2>6
    <2>9. PICK d : d = chans[c]
      OBVIOUS
    <2>10. [d EXCEPT !.order = i - 1].order = i - 1
      BY <2>8, <2>9
    <2>11. i \in Nat
      BY <2>5
    <2>12. c \in DOMAIN chans2
      BY <2>6
    <2>13. QED
      BY <2>1, <2>2, <2>4, <2>7, <2>9, <2>10, <2>11, <2>12
  <1>5. ASSUME NEW j \in 1 .. Len(w), NEW k \in 1 .. Len(w), j < k
        PROVE  chans2[<<id, w[j]>>].order < chans2[<<id, w[k]>>].order
    <2>1. p[j] < p[k]
      BY <1>3, <1>5 DEF PicksAt
    <2>2. PICK x, y : x = p[j] /\ y = p[k]
      OBVIOUS
    <2>3. x \in Nat /\ y \in Nat /\ x < y
      BY <1>4, <2>1, <2>2
    <2>4. x - 1 < y - 1
      BY ONLY <2>3
    <2>5. chans2[<<id, w[j]>>].order = x - 1 /\ chans2[<<id, w[k]>>].order = y - 1
      BY <1>4, <2>2
    <2>6. QED
      BY ONLY <2>4, <2>5
  <1>6. InPlace(w, id, chans2)
    BY <1>3, <1>4, <1>5 DEF InPlace
  <1>7. QED
    BY <1>1, <1>6

(* The tables: numbers stay numbers.                                       *)
LEMMA NumberedKeeps == RlIInv /\ Numbered(dvChans) /\ [DvNext]_dvVars => Numbered(dvChans')
  <1> SUFFICES ASSUME RlIInv, Numbered(dvChans), [DvNext]_dvVars
               PROVE  Numbered(dvChans')
    OBVIOUS
  <1>1. CASE UNCHANGED dvChans
    BY <1>1
  <1>2. CASE DOMAIN dvChans' \subseteq DOMAIN dvChans
    BY <1>2, FS_Subset DEF Numbered
  <1>3. ASSUME NEW t \in AllThreads, UpsertChannel(t)
        PROVE  Numbered(dvChans')
    <2>1. PICK op, n, c : op = dvOp[t] /\ n = Min(op.left) /\ c = <<op.id, n>>
      OBVIOUS
    <2>2. Upserts(op)
      BY <1>3, <2>1 DEF UpsertChannel, RlIInv, ReadsRight
    <2>3. n \in Nat
      BY <2>1, <2>2, MinIsIn DEF Upserts
    <2>4. DOMAIN dvChans' = DOMAIN dvChans \cup {c}
      BY <1>3, <2>1 DEF UpsertChannel
    <2>5. c = <<c[1], c[2]>> /\ c[2] \in Nat
      BY <2>1, <2>3
    <2>6. QED
      BY <2>4, <2>5, FS_AddElement DEF Numbered
  <1>4. ASSUME NEW t \in Threads,
               \/ ResetDB(t) \/ \E id \in Ids : ClearDVRChannels(t, id)
               \/ ApplySurvMeta(t)
        PROVE  DOMAIN dvChans' \subseteq DOMAIN dvChans
    BY <1>4 DEF ResetDB, ClearDVRChannels, ApplySurvMeta, EditChannel, ReorderChannels
  <1>5. ASSUME NEW t \in AllThreads, ThreadStep(t)
        PROVE  UNCHANGED dvChans \/ UpsertChannel(t)
    BY <1>5 DEF ThreadStep, SendLists, SendReads, SendWrites, KeyMatch, EnrichDeviceKey, KeyMax, KeyInsert,
                AddRow, ProbeDVRProtocol, ProbeNotNeeded, FindsNone, Finds, DvStore
  <1>6. ASSUME NEW t \in Threads,
               HandleSurvDVRs(t) \/ \E id \in Ids : ReconnectAllDVRs(t, id) \/ HealDVRs(t, id)
        PROVE  UNCHANGED dvChans
    BY <1>6 DEF HandleSurvDVRs, AddDVR, ReconnectAllDVRs, HealDVRs, Discovery, DvStore
  <1>7. ASSUME NEW t \in Threads, NEW id \in Ids, HandleSurvDVR(t, id)
        PROVE  UNCHANGED dvChans \/ ClearDVRChannels(t, id)
    BY <1>7 DEF HandleSurvDVR, DiscoverChannels, Discovery, DeleteDVR, UpdateDVR, DvStore
  <1>8. ConnLost \/ Connects \/ UNCHANGED dvVars => UNCHANGED dvChans
    BY DEF ConnLost, Connects, dvVars, DvStore
  <1>9. QED
    BY <1>1, <1>2, <1>3, <1>4, <1>5, <1>6, <1>7, <1>8 DEF DvNext

(* The orders that were set.                                               *)
LEMMA OrdersKept ==
  ASSUME WantedInPlace, dvWanted' = dvWanted, DOMAIN dvDvrs' \subseteq DOMAIN dvDvrs,
         \A c \in DOMAIN dvChans : c \in DOMAIN dvChans' /\ dvChans'[c].order = dvChans[c].order
  PROVE  WantedInPlace'
  <1>1. ASSUME NEW id \in DOMAIN dvWanted
        PROVE  InPlace(dvWanted[id], id, dvChans')
    <2>1. InPlace(dvWanted[id], id, dvChans)
      BY DEF WantedInPlace
    <2>2. QED
      BY <2>1, StaysInPlace
  <1>2. QED
    BY <1>1 DEF WantedInPlace, Ids

LEMMA WantedKeeps == RsIInv /\ [DvNext]_dvVars => WantedInPlace'
  <1> SUFFICES ASSUME RsIInv, [DvNext]_dvVars
               PROVE  WantedInPlace'
    OBVIOUS
  <1>0. /\ WantedInPlace /\ RlIInv
        /\ \A c \in DOMAIN dvChans : dvChans[c] \in [meta : {"found", "edited"}, order : Nat]
    BY DEF RsIInv, DvTyped, ChansTyped
  <1>1. CASE UNCHANGED <<dvChans, dvWanted>> /\ DOMAIN dvDvrs' \subseteq DOMAIN dvDvrs
    BY <1>0, <1>1, OrdersKept
  <1>2. ASSUME NEW t \in AllThreads, AddRow(t)
        PROVE  WantedInPlace'
    <2>1. PICK key : key = dvOp[t].key
      OBVIOUS
    <2>2. /\ dvWanted' = [id \in DOMAIN dvWanted \cup {key} |->
                             IF id \in DOMAIN dvWanted THEN dvWanted[id] ELSE << >>]
          /\ DOMAIN dvDvrs' = Ids \cup {key} /\ dvChans' = dvChans
      BY <1>2, <2>1 DEF AddRow
    <2>3. ASSUME NEW id \in DOMAIN dvWanted \cup {key}
          PROVE  InPlace(dvWanted'[id], id, dvChans)
      <3>1. CASE id \in DOMAIN dvWanted
        BY <1>0, <2>2, <3>1 DEF WantedInPlace
      <3>2. CASE id \notin DOMAIN dvWanted
        BY <2>2, <2>3, <3>2, NothingWanted
      <3>3. QED
        BY <3>1, <3>2
    <2>4. DOMAIN dvWanted' = DOMAIN dvWanted \cup {key}
      BY <2>2
    <2>5. QED
      BY <1>0, <2>2, <2>3, <2>4 DEF WantedInPlace, Ids
  <1>3. ASSUME NEW t \in AllThreads, UpsertChannel(t)
        PROVE  WantedInPlace'
    <2>1. PICK op, n : op = dvOp[t] /\ n = Min(op.left)
      OBVIOUS
    <2>2. PICK c, row : /\ c = <<op.id, n>>
                        /\ row = IF c \in DOMAIN dvChans THEN Upserted(dvChans[c], Place(n, op.found))
                                 ELSE [meta |-> "found", order |-> Place(n, op.found)]
      OBVIOUS
    <2>3. dvChans' = [d \in DOMAIN dvChans \cup {c} |-> IF d = c THEN row ELSE dvChans[d]]
          /\ UNCHANGED <<dvDvrs, dvWanted>>
      BY <1>3, <2>1, <2>2 DEF UpsertChannel
    <2>4. c \in DOMAIN dvChans => row = dvChans[c]
      BY <2>2 DEF Upserted
    <2>5. \A d \in DOMAIN dvChans : d \in DOMAIN dvChans' /\ dvChans'[d].order = dvChans[d].order
      BY <2>3, <2>4
    <2>6. QED
      BY <1>0, <2>3, <2>5, OrdersKept
  <1>4. ASSUME NEW t \in Threads, NEW c \in DOMAIN dvChans, EditChannel(t, c)
        PROVE  WantedInPlace'
    <2>1. PICK d : d = [dvChans[c] EXCEPT !.meta = "edited"]
      OBVIOUS
    <2>2. d.order = dvChans[c].order
      BY <1>0, <2>1
    <2>3. dvChans' = [dvChans EXCEPT ![c] = d] /\ UNCHANGED <<dvDvrs, dvWanted>>
      BY <1>4, <2>1 DEF EditChannel
    <2>4. \A x \in DOMAIN dvChans : x \in DOMAIN dvChans' /\ dvChans'[x].order = dvChans[x].order
      BY <2>2, <2>3
    <2>5. QED
      BY <1>0, <2>3, <2>4, OrdersKept
  <1>5. ASSUME NEW t \in Threads, NEW id \in Ids, NEW order \in NewOrders, ReorderChannels(t, id, order)
        PROVE  WantedInPlace'
    <2>1. PICK w : w = Picked(order, {i \in LastPlaces(order) : <<id, order[i]>> \in DOMAIN dvChans})
      OBVIOUS
    <2>2. /\ dvWanted' = [dvWanted EXCEPT ![id] = w] /\ UNCHANGED dvDvrs
          /\ dvChans' = [c \in DOMAIN dvChans |->
                  IF c[1] = id /\ c[2] \in ToSet(order)
                  THEN [dvChans[c] EXCEPT !.order = (CHOOSE i \in LastPlaces(order) : order[i] = c[2]) - 1]
                  ELSE dvChans[c]]
      BY <1>5, <2>1 DEF ReorderChannels
    <2>3. order \in Seq(Nat)
      BY DeviceStoreAssumption
    <2>4. InPlace(w, id, dvChans')
      BY <1>0, <2>1, <2>2, <2>3, ReorderInPlace
    <2>5. ASSUME NEW x \in DOMAIN dvWanted, x # id
          PROVE  InPlace(dvWanted[x], x, dvChans')
      <3>1. InPlace(dvWanted[x], x, dvChans)
        BY <1>0 DEF WantedInPlace
      <3>2. ASSUME NEW n, <<x, n>> \in DOMAIN dvChans
            PROVE  <<x, n>> \in DOMAIN dvChans' /\ dvChans'[<<x, n>>].order = dvChans[<<x, n>>].order
        <4>1. PICK c : c = <<x, n>>
          OBVIOUS
        <4>2. c \in DOMAIN dvChans /\ c[1] # id
          BY <2>5, <3>2, <4>1
        <4>3. c \in DOMAIN dvChans' /\ dvChans'[c] = dvChans[c]
          BY <2>2, <4>2
        <4>4. QED
          BY <4>1, <4>3
      <3>3. QED
        BY <3>1, <3>2, StaysInPlace
    <2>6. QED
      BY <1>0, <2>2, <2>4, <2>5 DEF WantedInPlace, Ids
  <1>6. ASSUME NEW t \in Threads, NEW id \in Ids, ClearDVRChannels(t, id)
        PROVE  WantedInPlace'
    <2>1. /\ dvChans' = [c \in DOMAIN dvChans \ ChansOf(id) |-> dvChans[c]]
          /\ dvWanted' = [dvWanted EXCEPT ![id] = << >>] /\ UNCHANGED dvDvrs
      BY <1>6 DEF ClearDVRChannels
    <2>2. ASSUME NEW x \in DOMAIN dvWanted, x # id
          PROVE  InPlace(dvWanted[x], x, dvChans')
      <3>1. InPlace(dvWanted[x], x, dvChans)
        BY <1>0 DEF WantedInPlace
      <3>2. ASSUME NEW n, <<x, n>> \in DOMAIN dvChans
            PROVE  <<x, n>> \in DOMAIN dvChans' /\ dvChans'[<<x, n>>].order = dvChans[<<x, n>>].order
        <4>1. PICK c : c = <<x, n>>
          OBVIOUS
        <4>2. c \in DOMAIN dvChans \ ChansOf(id)
          BY <2>2, <3>2, <4>1 DEF ChansOf
        <4>3. c \in DOMAIN dvChans' /\ dvChans'[c] = dvChans[c]
          BY <2>1, <4>2
        <4>4. QED
          BY <4>1, <4>3
      <3>3. QED
        BY <3>1, <3>2, StaysInPlace
    <2>3. InPlace(<< >>, id, dvChans')
      BY NothingWanted
    <2>4. QED
      BY <1>0, <2>1, <2>2, <2>3 DEF WantedInPlace, Ids
  <1>7. ASSUME NEW t \in Threads, ResetDB(t)
        PROVE  WantedInPlace'
    <2>1. /\ dvWanted' = [id \in DOMAIN dvWanted |-> << >>] /\ DOMAIN dvDvrs' = {}
      BY <1>7 DEF ResetDB
    <2>2. \A id \in DOMAIN dvWanted : InPlace(<< >>, id, dvChans')
      BY NothingWanted
    <2>3. QED
      BY <2>1, <2>2 DEF WantedInPlace, Ids
  <1>8. ASSUME NEW t \in AllThreads, ThreadStep(t)
        PROVE  \/ AddRow(t) \/ UpsertChannel(t)
               \/ UNCHANGED <<dvChans, dvWanted>> /\ DOMAIN dvDvrs' \subseteq DOMAIN dvDvrs
    BY <1>8 DEF ThreadStep, SendLists, SendReads, SendWrites, KeyMatch, EnrichDeviceKey, KeyMax, KeyInsert,
                ProbeDVRProtocol, ProbeNotNeeded, FindsNone, Finds, DvStore, Ids
  <1>9. ASSUME NEW t \in Threads,
               HandleSurvDVRs(t) \/ \E id \in Ids : ReconnectAllDVRs(t, id) \/ HealDVRs(t, id)
        PROVE  UNCHANGED <<dvChans, dvWanted, dvDvrs>>
    BY <1>9 DEF HandleSurvDVRs, AddDVR, ReconnectAllDVRs, HealDVRs, Discovery, DvStore
  <1>10. ASSUME NEW t \in Threads, NEW id \in Ids, HandleSurvDVR(t, id)
         PROVE  \/ ClearDVRChannels(t, id)
                \/ UNCHANGED <<dvChans, dvWanted>> /\ DOMAIN dvDvrs' \subseteq DOMAIN dvDvrs
    <2>1. CASE DiscoverChannels(t, id)
      BY <2>1 DEF DiscoverChannels, Discovery, DvStore
    <2>2. CASE DeleteDVR(t, id)
      BY <2>2 DEF DeleteDVR, Ids
    <2>3. ASSUME NEW a \in Addrs, NEW p \in Selectable, UpdateDVR(t, id, a, p)
          PROVE  UNCHANGED <<dvChans, dvWanted>> /\ DOMAIN dvDvrs' \subseteq DOMAIN dvDvrs
      BY <2>3 DEF UpdateDVR
    <2>4. QED
      BY <1>10, <2>1, <2>2, <2>3 DEF HandleSurvDVR
  <1>11. ConnLost \/ Connects \/ UNCHANGED dvVars => UNCHANGED <<dvChans, dvWanted, dvDvrs>>
    BY DEF ConnLost, Connects, dvVars, DvStore
  <1>12. QED
    BY <1>1, <1>2, <1>3, <1>4, <1>5, <1>6, <1>7, <1>8, <1>9, <1>10, <1>11 DEF DvNext, ApplySurvMeta

LEMMA RsNextIInv == RsIInv /\ [DvNext]_dvVars => RsIInv'
  BY RlNextIInv, DvTypedKeeps, NumberedKeeps, WantedKeeps DEF RsIInv

LEMMA RsInitIInv == DvInit => RsIInv
  <1> SUFFICES ASSUME DvInit
               PROVE  RsIInv
    OBVIOUS
  <1>1. RlIInv /\ DvTyped
    BY RlInitIInv, DvInitTyped
  <1>2. DOMAIN dvChans = {<<1, n>> : n \in SeedRound}
    BY DEF DvInit
  <1>3. PICK D, f : D = DOMAIN dvChans /\ f = [n \in SeedRound |-> <<1, n>>]
    OBVIOUS
  <1>4. f \in Surjection(SeedRound, D)
    BY <1>2, <1>3 DEF Surjection
  <1>5. IsFiniteSet(D)
    BY <1>4, FS_Surjection, DeviceStoreAssumption
  <1>6. \A c \in D : c = <<c[1], c[2]>> /\ c[2] \in Nat
    BY <1>2, <1>3, DeviceStoreAssumption
  <1>7. Numbered(dvChans)
    BY <1>3, <1>5, <1>6 DEF Numbered
  <1>8. DOMAIN dvWanted = {1} /\ Ids = {1} /\ dvWanted[1] = << >>
    BY DEF DvInit, Ids
  <1>9. WantedInPlace
    BY <1>8, NothingWanted DEF WantedInPlace
  <1>10. QED
    BY <1>1, <1>7, <1>9 DEF RsIInv

-----------------------------------------------------------------------------
(* The relay shows the channels of a recorder in one order, and those of   *)
(* the operator's list by their places in it.                              *)
StreamBefore(chans, mine) ==
    {p \in mine \X mine : \/ chans[p[1]].order < chans[p[2]].order
                          \/ chans[p[1]].order = chans[p[2]].order /\ p[1][2] < p[2][2]}

LEMMA StreamsAreOrdered ==
  ASSUME NEW chans, NEW id, NEW mine, mine = {c \in DOMAIN chans : c[1] = id},
         Numbered(chans), \A c \in DOMAIN chans : chans[c].order \in Nat
  PROVE  IsFiniteSet(mine) /\ TotallyOrders(StreamBefore(chans, mine), mine)
  <1>1. IsFiniteSet(mine)
    BY FS_Subset DEF Numbered
  <1>2. PICK R, place : R = StreamBefore(chans, mine) /\ place = [c \in mine |-> chans[c].order]
    OBVIOUS
  <1>3. \A c \in mine : place[c] \in Nat /\ c = <<id, c[2]>> /\ c[2] \in Nat
    BY <1>2 DEF Numbered
  <1>4. \A x, y \in mine : <<x, y>> \in R <=> (place[x] < place[y] \/ (place[x] = place[y] /\ x[2] < y[2]))
    BY <1>2 DEF StreamBefore
  <1>5. \A x \in mine : <<x, x>> \notin R
    BY <1>3, <1>4
  <1>6. ASSUME NEW x \in mine, NEW y \in mine, x # y
        PROVE  <<x, y>> \in R \/ <<y, x>> \in R
    <2>1. x[2] # y[2]
      BY <1>3, <1>6
    <2>2. QED
      BY <1>3, <1>4, <2>1
  <1>7. ASSUME NEW x \in mine, NEW y \in mine, NEW z \in mine, <<x, y>> \in R, <<y, z>> \in R
        PROVE  <<x, z>> \in R
    BY <1>3, <1>4, <1>7
  <1>8. QED
    BY <1>1, <1>2, <1>5, <1>6, <1>7 DEF TotallyOrders

(* A list that is in place, as a list of its numbers by their places.      *)
PlacesOf(chans, id, S) == {p \in S \X S : chans[<<id, p[1]>>].order < chans[<<id, p[2]>>].order}

LEMMA InPlaceLists ==
  ASSUME NEW chans, NEW id, NEW w, InPlace(w, id, chans), \A c \in DOMAIN chans : chans[c].order \in Nat,
         NEW S, S = ToSet(w)
  PROVE  /\ IsFiniteSet(S) /\ TotallyOrders(PlacesOf(chans, id, S), S)
         /\ Lists(w, S, PlacesOf(chans, id, S))
         /\ \A n \in S : <<id, n>> \in DOMAIN chans
  <1>1. PICK R : R = PlacesOf(chans, id, S)
    OBVIOUS
  <1>2. w \in Seq(Nat) /\ Len(w) \in Nat /\ DOMAIN w = 1 .. Len(w)
    BY DEF InPlace
  <1>3. S = {w[i] : i \in 1 .. Len(w)}
    BY <1>2 DEF ToSet
  <1>4. PICK T, f : T = 1 .. Len(w) /\ f = [i \in T |-> w[i]]
    OBVIOUS
  <1>5. IsFiniteSet(T)
    BY <1>2, <1>4, FS_Interval
  <1>6. f \in Surjection(T, S)
    BY <1>3, <1>4 DEF Surjection
  <1>7. IsFiniteSet(S)
    BY <1>5, <1>6, FS_Surjection
  <1>8. PICK place : place = [n \in S |-> chans[<<id, n>>].order]
    OBVIOUS
  <1>9. \A n \in S : <<id, n>> \in DOMAIN chans
    BY <1>3 DEF InPlace
  <1>10. \A n \in S : place[n] \in Nat
    BY <1>8, <1>9
  <1>11. \A x, y \in S : <<x, y>> \in R <=> place[x] < place[y]
    BY <1>1, <1>8 DEF PlacesOf
  <1>12. \A i \in 1 .. Len(w) : w[i] \in S
    BY <1>3
  <1>13. \A i, j \in 1 .. Len(w) : i < j => place[w[i]] < place[w[j]]
    BY <1>8, <1>12 DEF InPlace
  <1>14. \A x \in S : <<x, x>> \notin R
    BY <1>10, <1>11
  <1>15. ASSUME NEW x \in S, NEW y \in S, x # y
         PROVE  <<x, y>> \in R \/ <<y, x>> \in R
    <2>1. PICK i \in 1 .. Len(w), j \in 1 .. Len(w) : x = w[i] /\ y = w[j]
      BY <1>3
    <2>2. i # j /\ i \in Int /\ j \in Int
      BY <1>2, <1>15, <2>1
    <2>3. i < j \/ j < i
      BY <2>2
    <2>4. place[x] < place[y] \/ place[y] < place[x]
      BY <1>13, <2>1, <2>3
    <2>5. QED
      BY <1>11, <2>4
  <1>16. ASSUME NEW x \in S, NEW y \in S, NEW z \in S, <<x, y>> \in R, <<y, z>> \in R
         PROVE  <<x, z>> \in R
    <2>1. place[x] < place[y] /\ place[y] < place[z]
      BY <1>11, <1>16
    <2>2. place[x] < place[z]
      BY <1>10, <2>1
    <2>3. QED
      BY <1>11, <2>2
  <1>17. TotallyOrders(R, S)
    BY <1>14, <1>15, <1>16 DEF TotallyOrders
  <1>18. Lists(w, S, R)
    <2>1. w \in Seq(S)
      <3>1. w \in [1 .. Len(w) -> S]
        BY <1>2, <1>12
      <3>2. QED
        BY <1>2, <3>1, SeqDef
    <2>2. \A x \in S : \E i \in 1 .. Len(w) : w[i] = x
      BY <1>3
    <2>3. \A i, j \in 1 .. Len(w) : i < j => <<w[i], w[j]>> \in R
      BY <1>11, <1>12, <1>13
    <2>4. QED
      BY <2>1, <2>2, <2>3 DEF Lists
  <1>19. QED
    BY <1>1, <1>7, <1>9, <1>17, <1>18

(* The channels as they are shown: their numbers, by place, each once.     *)
ShowsIn(s, id, chans) ==
    /\ s \in Seq(Nat)
    /\ \A n : <<id, n>> \in DOMAIN chans => \E i \in 1 .. Len(s) : s[i] = n
    /\ \A i, j \in 1 .. Len(s) : i < j =>
          /\ s[i] # s[j] /\ <<id, s[i]>> \in DOMAIN chans /\ <<id, s[j]>> \in DOMAIN chans
          /\ chans[<<id, s[i]>>].order <= chans[<<id, s[j]>>].order

LEMMA ShownFacts ==
  ASSUME NEW cfg, NEW id, Numbered(cfg.chans), \A c \in DOMAIN cfg.chans : cfg.chans[c].order \in Nat
  PROVE  ShowsIn(Shown(id, cfg), id, cfg.chans)
  <1>1. PICK chans, mine : chans = cfg.chans /\ mine = {c \in DOMAIN chans : c[1] = id}
    OBVIOUS
  <1>2. PICK R, t : R = StreamBefore(chans, mine) /\ t = Sorted(mine, R)
    OBVIOUS
  <1>3. PICK s : s = Shown(id, cfg)
    OBVIOUS
  <1>4. OrderStreams(id, cfg) = t
    BY <1>1, <1>2 DEF OrderStreams, StreamBefore
  <1>5. s = [i \in DOMAIN t |-> t[i][2]]
    BY <1>3, <1>4 DEF Shown
  <1>6. IsFiniteSet(mine) /\ TotallyOrders(R, mine)
    BY <1>1, <1>2, StreamsAreOrdered
  <1>7. Lists(t, mine, R)
    BY <1>2, <1>6, SortedLists
  <1>8. t \in Seq(mine) /\ Len(t) \in Nat /\ DOMAIN t = 1 .. Len(t)
    BY <1>7 DEF Lists
  <1>9. \A c \in mine : c = <<id, c[2]>> /\ c[2] \in Nat /\ c \in DOMAIN chans /\ chans[c].order \in Nat
    BY <1>1 DEF Numbered
  <1>10. \A i \in 1 .. Len(t) : t[i] \in mine /\ s[i] = t[i][2] /\ t[i] = <<id, s[i]>>
    BY <1>5, <1>8, <1>9
  <1>11. s \in Seq(Nat) /\ Len(s) = Len(t)
    <2>1. s \in [1 .. Len(t) -> Nat]
      BY <1>5, <1>8, <1>9, <1>10
    <2>2. QED
      BY <1>8, <2>1, SeqDef, LenProperties
  <1>12. ASSUME NEW n, <<id, n>> \in DOMAIN chans
         PROVE  \E i \in 1 .. Len(s) : s[i] = n
    <2>1. PICK c : c = <<id, n>>
      OBVIOUS
    <2>2. c \in mine /\ c[2] = n
      BY <1>1, <1>12, <2>1
    <2>3. PICK i \in 1 .. Len(t) : t[i] = c
      BY <1>7, <2>2 DEF Lists
    <2>4. QED
      BY <1>10, <1>11, <2>2, <2>3
  <1>13. ASSUME NEW i \in 1 .. Len(s), NEW j \in 1 .. Len(s), i < j
         PROVE  /\ s[i] # s[j] /\ <<id, s[i]>> \in DOMAIN chans /\ <<id, s[j]>> \in DOMAIN chans
                /\ chans[<<id, s[i]>>].order <= chans[<<id, s[j]>>].order
    <2>1. PICK c, d : c = t[i] /\ d = t[j]
      OBVIOUS
    <2>2. c \in mine /\ d \in mine /\ c = <<id, s[i]>> /\ d = <<id, s[j]>> /\ c[2] = s[i] /\ d[2] = s[j]
      BY <1>10, <1>11, <2>1
    <2>3. <<c, d>> \in R
      BY <1>7, <1>11, <1>13, <2>1 DEF Lists
    <2>4. \/ chans[c].order < chans[d].order
          \/ chans[c].order = chans[d].order /\ c[2] < d[2]
      BY <1>2, <2>3 DEF StreamBefore
    <2>5. c # d
      BY <1>6, <2>2, <2>3 DEF TotallyOrders
    <2>6. chans[c].order \in Nat /\ chans[d].order \in Nat
      BY <1>9, <2>2
    <2>7. chans[c].order <= chans[d].order
      BY <2>4, <2>6
    <2>8. c \in DOMAIN chans /\ d \in DOMAIN chans
      BY <1>9, <2>2
    <2>9. QED
      BY <2>2, <2>5, <2>7, <2>8
  <1>14. QED
    BY <1>1, <1>3, <1>11, <1>12, <1>13 DEF ShowsIn

LEMMA ShownInPlace ==
  ASSUME NEW s, NEW id, NEW chans, ShowsIn(s, id, chans), \A c \in DOMAIN chans : chans[c].order \in Nat,
         NEW w, InPlace(w, id, chans)
  PROVE  Picked(s, {i \in DOMAIN s : s[i] \in ToSet(w)}) = w
  <1>1. PICK S, R : S = ToSet(w) /\ R = PlacesOf(chans, id, S)
    OBVIOUS
  <1>2. PICK I, t : I = {i \in DOMAIN s : s[i] \in S} /\ t = Picked(s, I)
    OBVIOUS
  <1>3. /\ IsFiniteSet(S) /\ TotallyOrders(R, S) /\ Lists(w, S, R)
        /\ \A n \in S : <<id, n>> \in DOMAIN chans
    BY <1>1, InPlaceLists
  <1>4. s \in Seq(Nat) /\ DOMAIN s = 1 .. Len(s) /\ Len(s) \in Nat
    BY DEF ShowsIn
  <1>5. I \in SUBSET DOMAIN s
    BY <1>2
  <1>6. PICK p : t \in Seq(Nat) /\ PicksAt(t, s, I, p)
    BY <1>2, <1>4, <1>5, PickedFacts
  <1>7. Len(t) \in Nat /\ DOMAIN t = 1 .. Len(t)
    BY <1>6
  <1>8. ASSUME NEW k \in 1 .. Len(t)
        PROVE  p[k] \in I /\ p[k] \in 1 .. Len(s) /\ t[k] = s[p[k]] /\ t[k] \in S
    <2>1. p[k] \in I
      BY <1>6 DEF PicksAt
    <2>2. t[k] = s[p[k]]
      BY <1>6 DEF PicksAt
    <2>3. QED
      BY <1>2, <1>4, <2>1, <2>2
  <1>9. t \in Seq(S)
    <2>1. t \in [1 .. Len(t) -> S]
      BY <1>6, <1>7, <1>8
    <2>2. QED
      BY <1>7, <2>1, SeqDef
  <1>10. ASSUME NEW n \in S
         PROVE  \E k \in 1 .. Len(t) : t[k] = n
    <2>1. PICK i \in 1 .. Len(s) : s[i] = n
      BY <1>3 DEF ShowsIn
    <2>2. i \in I
      BY <1>2, <1>4, <2>1
    <2>3. PICK k \in 1 .. Len(t) : p[k] = i
      BY <1>6, <2>2 DEF PicksAt
    <2>4. QED
      BY <1>8, <2>1, <2>3
  <1>11. ASSUME NEW i \in 1 .. Len(t), NEW j \in 1 .. Len(t), i < j
         PROVE  <<t[i], t[j]>> \in R
    <2>1. PICK m, n : m = t[i] /\ n = t[j]
      OBVIOUS
    <2>2. PICK x \in 1 .. Len(s), y \in 1 .. Len(s) : x = p[i] /\ y = p[j]
      BY <1>8
    <2>3. x < y
      BY <1>6, <1>11, <2>2 DEF PicksAt
    <2>4. m = s[x] /\ n = s[y] /\ m \in S /\ n \in S
      BY <1>8, <2>1, <2>2
    <2>5. m # n /\ chans[<<id, m>>].order <= chans[<<id, n>>].order
      BY <2>3, <2>4 DEF ShowsIn
    <2>6. <<m, n>> \in R \/ <<n, m>> \in R
      BY <1>3, <2>4, <2>5 DEF TotallyOrders
    <2>7. PICK a, b : a = chans[<<id, m>>].order /\ b = chans[<<id, n>>].order
      OBVIOUS
    <2>8. a \in Nat /\ b \in Nat /\ a <= b
      BY <1>3, <2>4, <2>5, <2>7
    <2>9. <<n, m>> \notin R
      <3>1. <<n, m>> \in R => b < a
        BY <1>1, <2>7 DEF PlacesOf
      <3>2. QED
        BY <2>8, <3>1
    <2>10. QED
      BY <2>1, <2>6, <2>9
  <1>12. Lists(t, S, R)
    BY <1>9, <1>10, <1>11 DEF Lists
  <1>13. t = w
    BY <1>3, <1>12, OneList
  <1>14. QED
    BY <1>1, <1>2, <1>13

(* What the relay has, recorder by recorder.                               *)
LEMMA StaysShown ==
  ASSUME NEW w, NEW id, NEW chans, NEW chans2, InPlace(w, id, chans), id \in Ids,
         chans = dvChans, chans2 = [c \in {x \in DOMAIN dvChans : x[1] \in Ids} |-> dvChans[c]]
  PROVE  InPlace(w, id, chans2)
  <1>1. ASSUME NEW n, <<id, n>> \in DOMAIN chans
        PROVE  <<id, n>> \in DOMAIN chans2 /\ chans2[<<id, n>>].order = chans[<<id, n>>].order
    <2>1. PICK c : c = <<id, n>>
      OBVIOUS
    <2>2. c \in DOMAIN dvChans /\ c[1] = id
      BY <1>1, <2>1
    <2>3. c \in DOMAIN chans2 /\ chans2[c] = chans[c]
      BY <2>2
    <2>4. QED
      BY <2>1, <2>3
  <1>2. QED
    BY <1>1, StaysInPlace

LEMMA OrderIsShown == RsIInv /\ RelayHasIt => ReorderSticks
  <1> SUFFICES ASSUME RsIInv, RelayHasIt, AllSent
               PROVE  ReorderSticks
    BY DEF ReorderSticks
  <1>1. PICK chans : chans = dvRelay.chans
    OBVIOUS
  <1>2. DOMAIN dvRelay.dvrs = Ids /\ chans = [c \in {x \in DOMAIN dvChans : x[1] \in Ids} |-> dvChans[c]]
    <2>1. Protocolless(dvRelay) = Protocolless(DvConfig)
      BY DEF RelayHasIt
    <2>2. PICK f, g : f = [id \in DOMAIN dvRelay.dvrs |-> dvRelay.dvrs[id].addr]
                      /\ g = [id \in Ids |-> dvDvrs[id].addr]
      OBVIOUS
    <2>3. Protocolless(dvRelay) = [dvrs |-> f, chans |-> chans]
      BY <1>1, <2>2 DEF Protocolless
    <2>4. PICK h : h = [c \in {x \in DOMAIN dvChans : x[1] \in Ids} |-> dvChans[c]]
      OBVIOUS
    <2>5. DvConfig = [dvrs |-> dvDvrs, chans |-> h]
      BY <2>4 DEF DvConfig
    <2>6. Protocolless(DvConfig) = [dvrs |-> g, chans |-> h]
      BY <2>2, <2>5 DEF Protocolless, Ids
    <2>7. f = g /\ chans = h
      <3>1. PICK a, b : a = [dvrs |-> f, chans |-> chans] /\ b = [dvrs |-> g, chans |-> h]
        OBVIOUS
      <3>2. a = b
        BY <2>1, <2>3, <2>6, <3>1
      <3>3. a.dvrs = f /\ b.dvrs = g /\ a.chans = chans /\ b.chans = h
        BY <3>1
      <3>4. QED
        BY ONLY <3>2, <3>3
    <2>8. QED
      BY <2>2, <2>4, <2>7
  <1>3. \A c \in DOMAIN dvChans : dvChans[c] \in [meta : {"found", "edited"}, order : Nat]
    BY DEF RsIInv, DvTyped, ChansTyped
  <1>4. DOMAIN chans = {x \in DOMAIN dvChans : x[1] \in Ids}
    BY <1>2
  <1>5. \A c \in DOMAIN chans : chans[c].order \in Nat
    BY <1>2, <1>3
  <1>6. Numbered(chans)
    <2>1. Numbered(dvChans)
      BY DEF RsIInv
    <2>2. DOMAIN chans \subseteq DOMAIN dvChans
      BY <1>4
    <2>3. QED
      BY <2>1, <2>2, FS_Subset DEF Numbered
  <1>7. ASSUME NEW id \in DOMAIN dvRelay.dvrs
        PROVE  Picked(Shown(id, dvRelay), {i \in DOMAIN Shown(id, dvRelay) :
                                              Shown(id, dvRelay)[i] \in ToSet(dvWanted[id])}) = dvWanted[id]
    <2>1. PICK s, w : s = Shown(id, dvRelay) /\ w = dvWanted[id]
      OBVIOUS
    <2>2. id \in Ids /\ InPlace(w, id, dvChans)
      BY <1>2, <2>1 DEF RsIInv, WantedInPlace
    <2>3. InPlace(w, id, chans)
      BY <1>2, <2>2, StaysShown
    <2>4. ShowsIn(s, id, chans)
      BY <1>1, <1>5, <1>6, <2>1, ShownFacts
    <2>5. Picked(s, {i \in DOMAIN s : s[i] \in ToSet(w)}) = w
      BY <1>5, <2>3, <2>4, ShownInPlace
    <2>6. QED
      BY <2>1, <2>5
  <1>8. QED
    BY <1>7 DEF ReorderSticks

(* Whatever the operator, the web UI, the relay and the self-heal loop do, *)
(* and in whatever order, once everything is sent the relay has the        *)
(* agent's devices and shows the channels in the operator's order          *)
(* (agent/surveillance.go, ReorderChannels and DiscoverChannels;           *)
(* agent.go, sendSurvConfig; relay/dashboard_state.go, orderStreams).      *)
THEOREM RelayShowsItHolds == DvSpec => []RelayShowsIt
  <1>1. RsIInv => RelayShowsIt
    <2>1. DvIdle.pc \notin Sending
      BY DEF DvIdle, Sending
    <2>2. RlIInv => RelayHasIt
      BY <2>1 DEF RlIInv, RelayIsRight, RelayHasIt, AllSent
    <2>3. QED
      BY <2>2, OrderIsShown DEF RelayShowsIt, RsIInv
  <1>2. QED
    BY <1>1, RsInitIInv, RsNextIInv, PTL DEF DvSpec

-----------------------------------------------------------------------------
(* The cache as a set: one entry per key.                                  *)
OneEach(c) == \A i, j \in 1 .. Len(c) : c[i].key = c[j].key => i = j

Weights == [e \in CacheEntries |-> Bytes(e.img)]

LEMMA BytesOfSum ==
  ASSUME NEW c, NEW sizes, sizes = [i \in DOMAIN c |-> Bytes(c[i].img)]
  PROVE  BytesOf(c) = SumOf(sizes, DOMAIN c)
  BY DEF BytesOf, SumFunction, SumFunctionOnSet, FoldFunctionOnSet, SumOf, MapThenSumSet, MapThenFoldSet

LEMMA CacheAsSet ==
  ASSUME NEW c \in Seq(CacheEntries), OneEach(c)
  PROVE  /\ Counts(Weights, ToSet(c)) /\ BytesOf(c) = SumOf(Weights, ToSet(c))
         /\ Cardinality(ToSet(c)) = Len(c) /\ ToSet(c) \subseteq CacheEntries
         /\ \A e, d \in ToSet(c) : e.key = d.key => e = d
  <1>1. PICK S, T, sizes : S = DOMAIN c /\ T = ToSet(c) /\ sizes = [i \in S |-> Bytes(c[i].img)]
    OBVIOUS
  <1>2. /\ Len(c) \in Nat /\ S = 1 .. Len(c) /\ T = {c[i] : i \in S}
        /\ \A i \in S : c[i] \in CacheEntries
    BY <1>1 DEF ToSet
  <1>3. \A e \in CacheEntries : Bytes(e.img) \in Nat
    BY DEF Bytes
  <1>4. IsFiniteSet(S) /\ Cardinality(S) = Len(c)
    <2>1. 1 \in Int /\ Len(c) \in Int
      BY <1>2
    <2>2. IsFiniteSet(1 .. Len(c)) /\ Cardinality(1 .. Len(c)) = IF 1 > Len(c) THEN 0 ELSE Len(c) - 1 + 1
      BY <2>1, FS_Interval
    <2>3. QED
      BY <1>2, <2>2
  <1>5. Counts(sizes, S)
    <2>1. \A i \in S : sizes[i] \in Nat
      BY <1>1, <1>2, <1>3
    <2>2. QED
      BY <1>4, <2>1 DEF Counts
  <1>6. c \in Bijection(S, T)
    <2>1. c \in [S -> T]
      BY <1>1, <1>2
    <2>2. \A i, j \in S : c[i] = c[j] => i = j
      BY <1>2 DEF OneEach
    <2>3. \A e \in T : \E i \in S : c[i] = e
      BY <1>2
    <2>4. QED
      BY <2>1, <2>2, <2>3 DEF Bijection, Injection, Surjection, IsInjective
  <1>7. \A i \in S : Weights[c[i]] = sizes[i]
    BY <1>1, <1>2 DEF Weights
  <1>8. SumOf(Weights, T) = SumOf(sizes, S) /\ Counts(Weights, T)
    BY <1>5, <1>6, <1>7, SumOfRenamed
  <1>9. BytesOf(c) = SumOf(sizes, S)
    BY <1>1, BytesOfSum
  <1>10. Cardinality(T) = Cardinality(S)
    BY <1>4, <1>6, FS_Bijection DEF ExistsBijection
  <1>11. \A e, d \in T : e.key = d.key => e = d
    BY <1>2 DEF OneEach
  <1>12. QED
    BY <1>1, <1>2, <1>4, <1>8, <1>9, <1>10, <1>11

(* What fits: of two caches, the smaller set.                              *)
LEMMA FewerFit ==
  ASSUME NEW c \in Seq(CacheEntries), OneEach(c), NEW d \in Seq(CacheEntries), OneEach(d),
         ToSet(d) \subseteq ToSet(c)
  PROVE  BytesOf(d) <= BytesOf(c) /\ Len(d) <= Len(c)
  <1>1. /\ Counts(Weights, ToSet(c)) /\ BytesOf(c) = SumOf(Weights, ToSet(c))
        /\ Cardinality(ToSet(c)) = Len(c)
        /\ BytesOf(d) = SumOf(Weights, ToSet(d)) /\ Cardinality(ToSet(d)) = Len(d)
    BY CacheAsSet
  <1>2. IsFiniteSet(ToSet(c))
    BY <1>1 DEF Counts
  <1>3. Cardinality(ToSet(d)) <= Cardinality(ToSet(c))
    BY <1>2, FS_Subset
  <1>4. SumOf(Weights, ToSet(d)) <= SumOf(Weights, ToSet(c))
    BY <1>1, SumOfPart
  <1>5. QED
    BY <1>1, <1>3, <1>4

LEMMA FirstEach ==
  ASSUME NEW c \in Seq(CacheEntries), OneEach(c), NEW m \in 0 .. Len(c)
  PROVE  OneEach(SubSeq(c, 1, m)) /\ Len(SubSeq(c, 1, m)) = m
  <1>1. PICK a : a = SubSeq(c, 1, m)
    OBVIOUS
  <1>2. Len(c) \in Nat /\ m \in Nat /\ m <= Len(c)
    OBVIOUS
  <1>3. a = [i \in 1 .. m |-> c[i]] /\ Len(a) = m
    BY <1>1, <1>2
  <1>4. \A i \in 1 .. m : a[i] = c[i] /\ i \in 1 .. Len(c)
    BY <1>2, <1>3
  <1>5. QED
    BY <1>1, <1>3, <1>4 DEF OneEach

LEMMA WithoutEach ==
  ASSUME NEW c \in Seq(CacheEntries), OneEach(c), NEW key
  PROVE  /\ OneEach(Without(c, key))
         /\ ToSet(Without(c, key)) = {e \in ToSet(c) : e.key # key}
  <1>1. CASE Entries(c, key) = {}
    <2>1. {e \in ToSet(c) : e.key # key} = ToSet(c)
      BY <1>1 DEF Entries
    <2>2. QED
      BY <1>1, <2>1 DEF Without
  <1>2. CASE Entries(c, key) # {}
    <2>1. PICK i : i = CHOOSE j \in DOMAIN c : c[j].key = key
      OBVIOUS
    <2>2. PICK n : n = Len(c)
      OBVIOUS
    <2>3. n \in Nat /\ DOMAIN c = 1 .. n
      BY <2>2
    <2>4. i \in 1 .. n /\ c[i].key = key
      <3>1. \E j \in DOMAIN c : c[j].key = key
        BY <1>2 DEF Entries, ToSet
      <3>2. i \in DOMAIN c /\ c[i].key = key
        BY <2>1, <3>1
      <3>3. QED
        BY <2>3, <3>2
    <2>5. PICK a, b, w : a = SubSeq(c, 1, i - 1) /\ b = SubSeq(c, i + 1, n) /\ w = a \o b
      OBVIOUS
    <2>6. Without(c, key) = w
      BY <1>2, <2>1, <2>2, <2>5 DEF Without, RemoveAt
    <2>7. a = [j \in 1 .. i - 1 |-> c[j]] /\ Len(a) = i - 1 /\ a \in Seq(CacheEntries)
      <3>1. a \in Seq(CacheEntries)
        <4>1. 1 \in 1 .. Len(c) + 1 /\ i - 1 \in 0 .. Len(c)
          BY <2>2, <2>3, <2>4
        <4>2. QED
          BY <2>5, <4>1, PartOf
      <3>2. QED
        BY <2>3, <2>4, <2>5, <3>1
    <2>8. b = [j \in 1 .. n - i |-> c[j + i]] /\ Len(b) = n - i /\ b \in Seq(CacheEntries)
      <3>1. b \in Seq(CacheEntries)
        <4>1. i + 1 \in 1 .. Len(c) + 1 /\ n \in 0 .. Len(c)
          BY <2>2, <2>3, <2>4
        <4>2. QED
          BY <2>5, <4>1, PartOf
      <3>2. b = [j \in 1 .. n - (i + 1) + 1 |-> c[j + (i + 1) - 1]]
        BY <2>3, <2>4, <2>5
      <3>3. n - (i + 1) + 1 = n - i /\ n - i \in Nat /\ \A j \in Int : j + (i + 1) - 1 = j + i
        BY <2>3, <2>4
      <3>4. b = [j \in 1 .. n - i |-> c[j + i]]
        BY <3>2, <3>3
      <3>5. DOMAIN b = 1 .. n - i
        BY <3>4
      <3>6. Len(b) = n - i
        BY <3>1, <3>3, <3>5, LenProperties
      <3>7. QED
        BY <3>1, <3>4, <3>6
    <2>9. w \in Seq(CacheEntries) /\ Len(w) = n - 1
      <3>1. Len(w) = Len(a) + Len(b)
        BY <2>5, <2>7, <2>8
      <3>2. QED
        BY <2>3, <2>4, <2>5, <2>7, <2>8, <3>1
    <2>10. PICK at : at = [k \in 1 .. n - 1 |-> IF k < i THEN k ELSE k + 1]
      OBVIOUS
    <2>11. ASSUME NEW k \in 1 .. n - 1
           PROVE  at[k] \in 1 .. n /\ at[k] # i /\ w[k] = c[at[k]]
      <3>1. k \in 1 .. Len(a) + Len(b)
        BY <2>3, <2>4, <2>7, <2>8
      <3>2. w[k] = IF k <= Len(a) THEN a[k] ELSE b[k - Len(a)]
        <4>1. a \in Seq(CacheEntries) /\ b \in Seq(CacheEntries)
          BY <2>7, <2>8
        <4>2. \A j \in 1 .. Len(a) + Len(b) : (a \o b)[j] = IF j <= Len(a) THEN a[j] ELSE b[j - Len(a)]
          BY ONLY <4>1, ConcatProperties
        <4>3. QED
          BY <2>5, <3>1, <4>2
      <3>3. CASE k < i
        <4>1. k <= Len(a) /\ k \in 1 .. i - 1 /\ k \in 1 .. n /\ k # i
          BY <2>3, <2>4, <2>7, <3>3
        <4>2. w[k] = c[k]
          BY <2>7, <3>2, <4>1
        <4>3. QED
          BY <2>10, <3>3, <4>1, <4>2
      <3>4. CASE ~ (k < i)
        <4>1. ~ (k <= Len(a)) /\ k - (i - 1) \in 1 .. n - i /\ k + 1 \in 1 .. n /\ k + 1 # i
              /\ (k - (i - 1)) + i = k + 1
          BY <2>3, <2>4, <2>7, <3>4
        <4>2. w[k] = b[k - (i - 1)]
          BY <2>7, <3>2, <4>1
        <4>3. w[k] = c[k + 1]
          BY <2>8, <4>1, <4>2
        <4>4. QED
          BY <2>10, <3>4, <4>1, <4>3
      <3>5. QED
        BY <3>3, <3>4
    <2>12. \A j \in 1 .. n : j # i => \E k \in 1 .. n - 1 : at[k] = j
      <3>1. ASSUME NEW j \in 1 .. n, j # i
            PROVE  \E k \in 1 .. n - 1 : at[k] = j
        <4>1. CASE j < i
          <5>1. j \in 1 .. n - 1
            BY <2>3, <2>4, <4>1
          <5>2. QED
            BY <2>10, <4>1, <5>1
        <4>2. CASE ~ (j < i)
          <5>1. PICK k : k = j - 1
            OBVIOUS
          <5>2. k \in 1 .. n - 1 /\ ~ (k < i) /\ k + 1 = j
            BY <2>3, <2>4, <3>1, <4>2, <5>1
          <5>3. QED
            BY <2>10, <5>2
        <4>3. QED
          BY <4>1, <4>2
      <3>2. QED
        BY <3>1
    <2>13. \A j, k \in 1 .. n - 1 : at[j] = at[k] => j = k
      BY <2>3, <2>4, <2>10
    <2>14. OneEach(w)
      <3>1. ASSUME NEW j \in 1 .. Len(w), NEW k \in 1 .. Len(w), w[j].key = w[k].key
            PROVE  j = k
        <4>1. at[j] \in 1 .. n /\ at[k] \in 1 .. n /\ c[at[j]].key = c[at[k]].key
          BY <2>9, <2>11, <3>1
        <4>2. at[j] = at[k]
          BY <2>2, <4>1 DEF OneEach
        <4>3. QED
          BY <2>9, <2>13, <4>2
      <3>2. QED
        BY <3>1 DEF OneEach
    <2>15. ToSet(w) = {c[j] : j \in (1 .. n) \ {i}}
      <3>1. ToSet(w) = {w[k] : k \in 1 .. n - 1}
        BY <2>9 DEF ToSet
      <3>2. QED
        BY <2>11, <2>12, <3>1
    <2>16. ToSet(w) = {e \in ToSet(c) : e.key # key}
      <3>1. \A j \in 1 .. n : j # i <=> c[j].key # key
        BY <2>2, <2>4 DEF OneEach
      <3>2. ToSet(c) = {c[j] : j \in 1 .. n}
        BY <2>3 DEF ToSet
      <3>3. QED
        BY <2>15, <3>1, <3>2
    <2>17. QED
      BY <2>6, <2>14, <2>16
  <1>3. QED
    BY <1>1, <1>2

LEMMA FrontEach ==
  ASSUME NEW e \in CacheEntries, NEW c \in Seq(CacheEntries), OneEach(c), \A d \in ToSet(c) : d.key # e.key
  PROVE  /\ OneEach(<<e>> \o c) /\ Len(<<e>> \o c) = Len(c) + 1
         /\ ToSet(<<e>> \o c) = ToSet(c) \cup {e}
  <1>1. PICK n, a, w : n = Len(c) /\ a = <<e>> /\ w = a \o c
    OBVIOUS
  <1>2. n \in Nat /\ DOMAIN c = 1 .. n /\ a \in Seq(CacheEntries) /\ Len(a) = 1 /\ a[1] = e
    BY <1>1
  <1>3. w \in Seq(CacheEntries) /\ Len(w) = n + 1 /\ DOMAIN w = 1 .. n + 1
    <2>1. w \in Seq(CacheEntries) /\ Len(w) = n + 1
      BY <1>1, <1>2
    <2>2. QED
      BY <2>1
  <1>4. \A i \in 1 .. n + 1 : w[i] = IF i <= 1 THEN a[i] ELSE c[i - 1]
    BY <1>1, <1>2
  <1>5. w[1] = e /\ \A i \in 1 .. n : i + 1 \in 1 .. n + 1 /\ w[i + 1] = c[i] /\ c[i] \in ToSet(c)
    <2>1. 1 \in 1 .. n + 1
      BY <1>2
    <2>2. \A i \in 1 .. n : i + 1 \in 1 .. n + 1 /\ ~ (i + 1 <= 1) /\ (i + 1) - 1 = i
      BY <1>2
    <2>3. \A i \in 1 .. n : c[i] \in ToSet(c)
      BY <1>2 DEF ToSet
    <2>4. QED
      BY <1>2, <1>4, <2>1, <2>2, <2>3
  <1>6. ASSUME NEW i \in 1 .. n + 1
        PROVE  i = 1 \/ \E j \in 1 .. n : i = j + 1
    <2>1. i = 1 \/ (i - 1 \in 1 .. n /\ i = (i - 1) + 1)
      BY <1>2
    <2>2. QED
      BY <2>1
  <1>7. OneEach(w)
    <2>1. ASSUME NEW i \in 1 .. n + 1, NEW j \in 1 .. n + 1, w[i].key = w[j].key
          PROVE  i = j
      <3>1. CASE i = 1 \/ j = 1
        BY <1>5, <1>6, <2>1, <3>1
      <3>2. CASE i # 1 /\ j # 1
        <4>1. PICK x \in 1 .. n, y \in 1 .. n : i = x + 1 /\ j = y + 1
          BY <1>6, <3>2
        <4>2. c[x].key = c[y].key
          BY <1>5, <2>1, <4>1
        <4>3. x = y
          BY <1>1, <4>2 DEF OneEach
        <4>4. QED
          BY <4>1, <4>3
      <3>3. QED
        BY <3>1, <3>2
    <2>2. QED
      BY <1>3, <2>1 DEF OneEach
  <1>8. ToSet(w) = ToSet(c) \cup {e}
    <2>1. ToSet(w) = {w[i] : i \in 1 .. n + 1} /\ ToSet(c) = {c[i] : i \in 1 .. n}
      BY <1>2, <1>3 DEF ToSet
    <2>2. 1 \in 1 .. n + 1
      BY <1>2
    <2>3. ToSet(w) \subseteq ToSet(c) \cup {e}
      <3>1. ASSUME NEW i \in 1 .. n + 1
            PROVE  w[i] \in ToSet(c) \cup {e}
        BY <1>5, <1>6
      <3>2. QED
        BY <2>1, <3>1
    <2>4. ToSet(c) \cup {e} \subseteq ToSet(w)
      BY <1>5, <2>1, <2>2
    <2>5. QED
      BY <2>3, <2>4
  <1>9. QED
    BY <1>1, <1>3, <1>7, <1>8

-----------------------------------------------------------------------------
(* What a cache may hold.                                                  *)
Fits(c) == c \in Seq(CacheEntries) /\ OneEach(c) /\ BytesOf(c) <= ThBudget /\ Len(c) <= ThCap

(* get moves an entry to the front, or removes one of an older file.       *)
LEMMA GetFits ==
  ASSUME NEW c, Fits(c), NEW key, NEW info
  PROVE  Fits(AfterGet(c, key, info))
  <1>1. PICK w, d : w = Without(c, key) /\ d = AfterGet(c, key, info)
    OBVIOUS
  <1>2. c \in Seq(CacheEntries) /\ OneEach(c)
    BY DEF Fits
  <1>3. w \in Seq(CacheEntries) /\ OneEach(w) /\ ToSet(w) = {e \in ToSet(c) : e.key # key}
    BY <1>1, <1>2, WithoutFacts, WithoutEach
  <1>4. d \in Seq(CacheEntries)
    BY <1>1, <1>2, AfterGetFacts
  <1>5. OneEach(d) /\ ToSet(d) \subseteq ToSet(c)
    <2>1. CASE Hits(c, key, info) = {}
      <3>1. d = w
        BY <1>1, <2>1 DEF AfterGet
      <3>2. QED
        BY <1>3, <3>1
    <2>2. CASE Hits(c, key, info) # {}
      <3>1. PICK e : e = CHOOSE x \in Hits(c, key, info) : TRUE
        OBVIOUS
      <3>2. e \in ToSet(c) /\ e.key = key
        BY <2>2, <3>1 DEF Hits, Entries
      <3>3. e \in CacheEntries
        BY <1>2, <3>2 DEF ToSet
      <3>4. d = <<e>> \o w
        BY <1>1, <2>2, <3>1 DEF AfterGet
      <3>5. \A x \in ToSet(w) : x.key # e.key
        BY <1>3, <3>2
      <3>6. OneEach(d) /\ ToSet(d) = ToSet(w) \cup {e}
        BY <1>3, <3>3, <3>4, <3>5, FrontEach
      <3>7. QED
        BY <1>3, <3>2, <3>6
    <2>3. QED
      BY <2>1, <2>2
  <1>6. BytesOf(d) <= BytesOf(c) /\ Len(d) <= Len(c)
    BY <1>2, <1>4, <1>5, FewerFit
  <1>7. BytesOf(c) \in Nat /\ BytesOf(d) \in Nat /\ Len(c) \in Nat /\ Len(d) \in Nat
        /\ ThBudget \in Nat /\ ThCap \in Nat
    <2>1. BytesOf(c) \in Nat /\ BytesOf(d) \in Nat
      BY <1>2, <1>4, <1>5, CacheAsSet, SumOfIsNat
    <2>2. QED
      BY <1>2, <1>4, <2>1, ThumbsAssumption
  <1>8. BytesOf(d) <= ThBudget /\ Len(d) <= ThCap
    <2>1. BytesOf(c) <= ThBudget /\ Len(c) <= ThCap
      BY DEF Fits
    <2>2. QED
      BY <1>6, <1>7, <2>1
  <1>9. QED
    BY <1>1, <1>4, <1>5, <1>8 DEF Fits

(* put removes the entry of its key and as many from the back as it takes. *)
LEMMA PutFits ==
  ASSUME NEW c, Fits(c), NEW e \in CacheEntries
  PROVE  Fits(AfterPut(c, e))
  <1>1. PICK w, d : w = Without(c, e.key) /\ d = AfterPut(c, e)
    OBVIOUS
  <1>2. c \in Seq(CacheEntries) /\ OneEach(c)
    BY DEF Fits
  <1>3. w \in Seq(CacheEntries) /\ OneEach(w) /\ ToSet(w) = {x \in ToSet(c) : x.key # e.key}
    BY <1>1, <1>2, WithoutFacts, WithoutEach
  <1>4. PICK K : K = {n \in 0 .. Len(w) : BytesOf(SubSeq(w, 1, n)) + Bytes(e.img) <= ThBudget /\ n < ThCap} \cup {0}
    OBVIOUS
  <1>5. PICK m, a : m = Max(K) /\ a = SubSeq(w, 1, m)
    OBVIOUS
  <1>6. d = <<e>> \o a
    BY <1>1, <1>4, <1>5 DEF AfterPut
  <1>7. K \in SUBSET (0 .. Len(w)) /\ K # {} /\ Len(w) \in Nat
    BY <1>3, <1>4
  <1>8. m \in K /\ m \in 0 .. Len(w)
    <2>1. K \subseteq Nat /\ IsFiniteSet(K)
      BY <1>7, UpToIsFinite
    <2>2. Max(K) \in K
      BY <1>7, <2>1, MaxIsIn
    <2>3. QED
      BY <1>5, <1>7, <2>2
  <1>9. a \in Seq(CacheEntries) /\ ToSet(a) \subseteq ToSet(w) /\ OneEach(a) /\ Len(a) = m
    <2>1. 1 \in 1 .. Len(w) + 1
      BY <1>7
    <2>2. QED
      BY <1>3, <1>5, <1>8, <2>1, PartOf, FirstEach
  <1>10. \A x \in ToSet(a) : x.key # e.key
    BY <1>3, <1>9
  <1>11. OneEach(d) /\ Len(d) = m + 1 /\ ToSet(d) = ToSet(a) \cup {e}
    BY <1>6, <1>9, <1>10, FrontEach
  <1>12. d \in Seq(CacheEntries)
    BY <1>1, <1>2, AfterPutFacts
  <1>13. Bytes(e.img) \in 1 .. 2
    BY DEF Bytes
  <1>14. BytesOf(d) = Bytes(e.img) + BytesOf(a) /\ BytesOf(a) \in Nat
    <2>1. /\ Counts(Weights, ToSet(d)) /\ BytesOf(d) = SumOf(Weights, ToSet(d))
          /\ BytesOf(a) = SumOf(Weights, ToSet(a)) /\ Counts(Weights, ToSet(a))
      BY <1>9, <1>11, <1>12, CacheAsSet
    <2>2. e \in ToSet(d) /\ ToSet(d) \ {e} = ToSet(a)
      BY <1>10, <1>11
    <2>3. SumOf(Weights, ToSet(d)) = Weights[e] + SumOf(Weights, ToSet(a))
      BY <2>1, <2>2, SumOfWithout
    <2>4. Weights[e] = Bytes(e.img)
      BY DEF Weights
    <2>5. QED
      BY <2>1, <2>3, <2>4, SumOfIsNat
  <1>15. ThBudget \in Nat /\ ThBudget >= 2 /\ ThCap \in Nat \ {0}
    BY ThumbsAssumption
  <1>16. BytesOf(d) <= ThBudget /\ Len(d) <= ThCap
    <2>1. CASE BytesOf(a) + Bytes(e.img) <= ThBudget /\ m < ThCap
      BY <1>8, <1>11, <1>13, <1>14, <1>15, <2>1
    <2>2. CASE ~ (BytesOf(a) + Bytes(e.img) <= ThBudget /\ m < ThCap)
      <3>1. m = 0
        BY <1>4, <1>5, <1>8, <2>2
      <3>2. a = << >> /\ ToSet(a) = {}
        BY <1>9, <3>1 DEF ToSet
      <3>3. BytesOf(a) = 0
        <4>1. BytesOf(a) = SumOf(Weights, {}) /\ IsFiniteSet({})
          BY <1>9, <3>2, CacheAsSet DEF Counts
        <4>2. QED
          BY <4>1, SumOfStep
      <3>4. QED
        BY <1>11, <1>13, <1>14, <1>15, <3>1, <3>3
    <2>3. QED
      BY <2>1, <2>2
  <1>17. QED
    BY <1>1, <1>11, <1>12, <1>16 DEF Fits

(* The thumbnail cache (recthumb.go, thumbnailCache.put and get) never     *)
(* holds more bytes or entries than it may, and one entry for each key,    *)
(* whatever requests and workers put into it and in whatever order.        *)
THEOREM CacheAccountsHolds == ThSpec => []CacheAccounts
  <1> DEFINE I == ThIInv /\ ThTyped /\ Fits(thLru)
  <1>1. ThInit => I
    <2> SUFFICES ASSUME ThInit
                 PROVE  I
      OBVIOUS
    <2>1. ThIInv /\ ThTyped
      BY ThInitHolds, ThInitTyped
    <2>2. PICK c : c = thLru
      OBVIOUS
    <2>3. c = << >>
      BY <2>2 DEF ThInit
    <2>4. c \in Seq(CacheEntries) /\ Len(c) = 0 /\ ToSet(c) = {}
      BY <2>3 DEF ToSet
    <2>5. OneEach(c)
      BY <2>4 DEF OneEach
    <2>6. BytesOf(c) = 0
      <3>1. BytesOf(c) = SumOf(Weights, {}) /\ IsFiniteSet({})
        BY <2>4, <2>5, CacheAsSet DEF Counts
      <3>2. QED
        BY <3>1, SumOfStep
    <2>7. QED
      BY <2>1, <2>2, <2>4, <2>5, <2>6, ThumbsAssumption DEF Fits
  <1>2. I /\ [ThNext]_thVars => I'
    <2> SUFFICES ASSUME I, [ThNext]_thVars
                 PROVE  I'
      OBVIOUS
    <2>1. ThIInv' /\ ThTyped'
      BY ThNextKeeps, ThTypedKeeps
    <2>2. Fits(thLru')
      <3>1. CASE UNCHANGED thLru
        BY <3>1
      <3>2. ASSUME NEW key, NEW info, thLru' = AfterGet(thLru, key, info)
            PROVE  Fits(thLru')
        BY <3>2, GetFits
      <3>3. ASSUME NEW e \in CacheEntries, thLru' = AfterPut(thLru, e)
            PROVE  Fits(thLru')
        BY <3>3, PutFits
      <3>4. QED
        BY <3>1, <3>2, <3>3, LruMoves DEF ThTyped
    <2>3. QED
      BY <2>1, <2>2
  <1>3. I => CacheAccounts
    BY DEF Fits, OneEach, CacheAccounts
  <1>4. QED
    BY <1>1, <1>2, <1>3, PTL DEF ThSpec

-----------------------------------------------------------------------------
(* A step is of one of the four components.                                *)
LEMMA EachPartSteps ==
  ASSUME [Next]_<<part, thVars, stVars, limVars, dvVars>>
  PROVE  [ThNext]_thVars /\ [StNext]_stVars /\ [LimNext]_limVars /\ [DvNext]_dvVars
  BY DEF Next

(* What the four components keep stays in its type (recthumb.go,           *)
(* thumb_variants.go, the settings of the hub, limiter.go, the agent's     *)
(* surveillance.go): files, cache entries and queue, the settings in       *)
(* memory and database, the limiter's map and the agent's tables, for any  *)
(* number of requests, workers, operators, addresses, recorders and        *)
(* threads.                                                                *)
THEOREM TypesHold == Spec => []TypeOK
  <1> DEFINE I == ThIInv /\ ThTyped /\ StIInv /\ StTyped /\ LimIInv /\ RlIInv /\ DvTyped
  <1>1. Init => I
    BY ThInitHolds, ThInitTyped, StInitTyped, LimInitIInv, RlInitIInv, DvInitTyped DEF Init
  <1>2. I /\ [Next]_<<part, thVars, stVars, limVars, dvVars>> => I'
    <2> SUFFICES ASSUME I, [Next]_<<part, thVars, stVars, limVars, dvVars>>
                 PROVE  I'
      OBVIOUS
    <2>1. [ThNext]_thVars /\ [StNext]_stVars /\ [LimNext]_limVars /\ [DvNext]_dvVars
      BY EachPartSteps
    <2>2. ThIInv' /\ ThTyped'
      BY <2>1, ThNextKeeps, ThTypedKeeps
    <2>3. StIInv' /\ StTyped'
      BY <2>1, StNextIInv, StTypedKeeps
    <2>4. LimIInv'
      BY <2>1, LimNextIInv
    <2>5. RlIInv' /\ DvTyped'
      BY <2>1, RlNextIInv, DvTypedKeeps
    <2>6. QED
      BY <2>2, <2>3, <2>4, <2>5
  <1>3. I => TypeOK
    BY ThTypesAreOK, StTypesAreOK, LimTypesAreOK, DvTypesAreOK DEF TypeOK
  <1>4. QED
    BY <1>1, <1>2, <1>3, PTL DEF Spec
=============================================================================
