------------------------------ MODULE Settings ------------------------------
(***************************************************************************)
(* What operators change while the relay runs and what of it survives a    *)
(* restart: the dashboard password and the cookies signed with it          *)
(* (dashboard.go, dashboard_session.go), hidden agents, IP labels and the  *)
(* alert settings (hub.go), the named agents (agent_registry.go) and the   *)
(* layout of a wall (wallorder.go), all kept in memory and in SQLite       *)
(* (store.go).  Each change is made by an HTTP handler in a few steps that *)
(* interleave with those of other handlers; a statement of the database    *)
(* is one step and may fail.                                               *)
(***************************************************************************)
EXTENDS Integers, Sequences, FiniteSets, SequencesExt, Listing

CONSTANTS
    Operators,    \* clients of the dashboard, each with one browser
    Passwords,
    EnvPassword,  \* RELAY_DASHBOARD_TOKEN
    Agents,       \* named agents
    EnvAgents,    \* the ones of RELAY_AGENTS
    AlertFields,  \* the settings of an alertConfig
    AlertValues,
    EnvAlert,     \* the alert settings of the environment
    Orders,       \* tile orders a viewer may post
    Streaming,    \* the wall's streams in their default order
    MaxOps        \* changes made

Unset == "unset"    \* the empty string

ASSUME SettingsAssumption ==
    /\ EnvPassword \in Passwords
    /\ EnvAgents \subseteq Agents
    /\ EnvAlert \in [AlertFields -> AlertValues \cup {Unset}]
    /\ IsFiniteSet(AlertFields)
    /\ Unset \notin Operators
    /\ \A order \in Orders : order \in Seq(ToSet(order))
    (* a stream id is a key of the proxy's map: there is one of each *)
    /\ Streaming \in Seq(ToSet(Streaming)) /\ IsInjective(Streaming)
    /\ MaxOps \in Nat

VARIABLES
    stDB,       \* the tables of the store
    stMem,      \* what the process holds
    stReq,      \* the handler an operator waits for, or NoReq
    stCookie,   \* the password an operator's cookie is signed with, or Unset
    stOps,
    stMixed,    \* settings whose changes met, or broke off (history)
    stChanger   \* who wrote the password in memory last (history)

stVars == <<stDB, stMem, stReq, stCookie, stOps, stMixed, stChanger>>

Default == "default"    \* the registry's entry for the agent id ""

Kept == [password : Passwords \cup {Unset}, hidden : BOOLEAN,
         alert : [AlertFields -> AlertValues \cup {Unset}],
         agents : SUBSET (Agents \cup {Default}), order : Orders \cup {<< >>}, cols : 0 .. 1]

NoReq == [todo |-> << >>]

Changes ==
    [of : {"password"}, to : Passwords] \cup [of : {"hidden"}, to : BOOLEAN]
    \cup [of : {"alert"}, to : [AlertFields -> AlertValues \cup {Unset}]]
    \cup [of : {"agents"}, add : BOOLEAN, id : Agents]
    \cup [of : {"order"}, to : Orders] \cup [of : {"cols"}, to : 0 .. 1]

(* The order and the columns of a wall share a row. *)
Setting(c) == IF c.of = "cols" THEN "order" ELSE c.of
SettingNames == {"password", "hidden", "alert", "agents", "order"}

StTypeOK ==
    /\ stDB \in Kept /\ stMem \in Kept
    /\ DOMAIN stReq = Operators
    /\ stCookie \in [Operators -> Passwords \cup {Unset}]
    /\ stOps \in 0 .. MaxOps
    /\ stMixed \subseteq SettingNames
    /\ stChanger \in Operators \cup {Unset}

-----------------------------------------------------------------------------
(* NewHub, loadAlertConfig, useStore and initWallLayoutStore: memory from  *)
(* the database.  An alert setting the database does not have comes from   *)
(* the environment, and so do the agents when the table is empty.          *)
Seeded(db) == IF db.agents = {} THEN [db EXCEPT !.agents = EnvAgents] ELSE db

Loaded(db) ==
    [db EXCEPT !.alert = [f \in AlertFields |-> IF @[f] = Unset THEN EnvAlert[f] ELSE @[f]],
               !.agents = @ \cup {Default}]

Fresh == [password |-> Unset, hidden |-> FALSE, alert |-> [f \in AlertFields |-> Unset],
          agents |-> {}, order |-> << >>, cols |-> 0]

StInit ==
    /\ stDB = Seeded(Fresh)
    /\ stMem = Loaded(Seeded(Fresh))
    /\ stReq = [o \in Operators |-> NoReq]
    /\ stCookie = [o \in Operators |-> Unset]
    /\ stOps = 0
    /\ stMixed = {}
    /\ stChanger = Unset

(* effectiveDashToken; authedDashboard and verifySession.                  *)
EffectiveDashToken == IF stMem.password = Unset THEN EnvPassword ELSE stMem.password
AuthedDashboard(o) == stCookie[o] = EffectiveDashToken

Busy(o) == stReq[o] # NoReq

(* Mutant: the new cookie is made before the new password is in place. *)
Steps_CookieFirst(c) ==
    CASE c.of = "password" -> <<"db", "issue", "mem">>
      [] c.of = "hidden"   -> <<"db", "mem">>
      [] c.of = "alert"    -> [i \in 1 .. Cardinality(AlertFields) |-> "db"] \o <<"mem">>
      [] c.of = "agents"   -> <<"db", "list", "swap">>
      [] c.of = "order"    -> <<"mem", "cols", "save">>
      [] c.of = "cols"     -> <<"mem", "order", "cols", "save">>

(* What each handler does, statement by statement: setDashToken and        *)
(* issueDashCookie; setAgentHidden (and setIPLabel); setAlertConfig;       *)
(* upsertNamed, removeNamed and reload; setWallOrder; setWallCols.         *)
Steps(c) ==
    CASE c.of = "password" -> <<"db", "mem", "issue">>
      [] c.of = "hidden"   -> <<"db", "mem">>
      [] c.of = "alert"    -> [i \in 1 .. Cardinality(AlertFields) |-> "db"] \o <<"mem">>
      [] c.of = "agents"   -> <<"db", "list", "swap">>
      [] c.of = "order"    -> <<"mem", "cols", "save">>
      [] c.of = "cols"     -> <<"mem", "order", "cols", "save">>

(* Only the wall's layout is open to callers without a cookie.             *)
Gated(c) == Setting(c) # "order"

Begin(o, c) ==
    LET meets(p) == Busy(p) /\ Setting(stReq[p].change) = Setting(c)
        met == \E p \in Operators : meets(p)
    IN  /\ ~ Busy(o) /\ stOps < MaxOps
        /\ Gated(c) => AuthedDashboard(o)
        /\ stOps' = stOps + 1
        /\ stReq' = [p \in Operators |->
               IF p = o THEN [todo |-> Steps(c), change |-> c, alone |-> ~ met,
                              left |-> AlertFields, got |-> [order |-> << >>, cols |-> 0, agents |-> {}]]
               ELSE IF meets(p) THEN [stReq[p] EXCEPT !.alone = FALSE] ELSE stReq[p]]
        /\ UNCHANGED <<stDB, stMem, stCookie, stMixed, stChanger>>

(* HandleDashboardLogin: the password is compared, a cookie follows.       *)
Login(o, pw) ==
    /\ ~ Busy(o) /\ stOps < MaxOps
    /\ pw = EffectiveDashToken
    /\ stOps' = stOps + 1
    /\ stReq' = [stReq EXCEPT ![o] = [todo |-> <<"issue">>, change |-> [of |-> "login"],
                                          alone |-> TRUE]]
    /\ UNCHANGED <<stDB, stMem, stCookie, stMixed, stChanger>>

(* HandleDashboardLogout, or twelve hours are over.                        *)
CookieGone(o) ==
    /\ ~ Busy(o) /\ stCookie[o] # Unset
    /\ stCookie' = [stCookie EXCEPT ![o] = Unset]
    /\ UNCHANGED <<stDB, stMem, stReq, stOps, stMixed, stChanger>>

At(o, step) == Busy(o) /\ Head(stReq[o].todo) = step

(* The handler goes on, or ends with its last step.                        *)
GoOn(o, r) ==
    LET rest == Tail(r.todo)
    IN  /\ stReq' = [stReq EXCEPT ![o] = IF rest = << >> THEN NoReq ELSE [r EXCEPT !.todo = rest]]
        /\ stMixed' = IF rest # << >> THEN stMixed
                      ELSE IF r.alone THEN stMixed \ {Setting(r.change)}
                      ELSE stMixed \cup {Setting(r.change)}

(* The handler breaks off with an error.                                   *)
BreakOff(o, touched) ==
    /\ stReq' = [stReq EXCEPT ![o] = NoReq]
    /\ stMixed' = stMixed \cup touched

Applied(c, kept) ==
    CASE c.of = "agents" -> [kept EXCEPT !.agents = IF c.add THEN @ \cup {c.id} ELSE @ \ {c.id}]
      [] c.of = "password" -> [kept EXCEPT !.password = c.to]
      [] c.of = "hidden" -> [kept EXCEPT !.hidden = c.to]
      [] c.of = "alert" -> [kept EXCEPT !.alert = c.to]
      [] c.of = "order" -> [kept EXCEPT !.order = c.to]
      [] c.of = "cols" -> [kept EXCEPT !.cols = c.to]

(* Mutant: an error of the database is not looked at. *)
Write_IgnoreError(o) ==
    LET r == stReq[o]
        c == r.change
    IN  /\ At(o, "db")
        /\ IF c.of = "alert"
           THEN \E f \in r.left :
                    /\ stDB' = [stDB EXCEPT !.alert[f] = c.to[f]]
                    /\ GoOn(o, [r EXCEPT !.left = @ \ {f}])
           ELSE /\ stDB' = Applied(c, stDB) \/ stDB' = stDB
                /\ GoOn(o, r)
        /\ UNCHANGED <<stMem, stCookie, stOps, stChanger>>

(* A statement that writes: setSetting (of one of the alert settings, in   *)
(* any order), setAgentHidden, upsert or remove.                           *)
Write(o) ==
    LET r == stReq[o]
        c == r.change
    IN  /\ At(o, "db")
        /\ \/ /\ c.of = "alert"
              /\ \E f \in r.left :
                    /\ stDB' = [stDB EXCEPT !.alert[f] = c.to[f]]
                    /\ GoOn(o, [r EXCEPT !.left = @ \ {f}])
           \/ /\ c.of # "alert"
              /\ stDB' = Applied(c, stDB)
              /\ GoOn(o, r)
           \/ /\ BreakOff(o, IF c.of = "alert" THEN {"alert"} ELSE {})
              /\ UNCHANGED stDB
        /\ UNCHANGED <<stMem, stCookie, stOps, stChanger>>

(* The new value in memory, under its lock.                                *)
Remember(o) ==
    /\ At(o, "mem")
    /\ stMem' = Applied(stReq[o].change, stMem)
    /\ stChanger' = IF stReq[o].change.of = "password" THEN o ELSE stChanger
    /\ GoOn(o, stReq[o])
    /\ UNCHANGED <<stDB, stCookie, stOps>>

(* issueDashCookie: signed with the password that counts now.              *)
IssueDashCookie(o) ==
    /\ At(o, "issue")
    /\ stCookie' = [stCookie EXCEPT ![o] = EffectiveDashToken]
    /\ GoOn(o, stReq[o])
    /\ UNCHANGED <<stDB, stMem, stOps, stChanger>>

(* reload: the list is read outside the registry's lock, and swapped in    *)
(* under it, the default agent kept.                                       *)
ReloadLists(o) ==
    /\ At(o, "list")
    /\ \/ GoOn(o, [stReq[o] EXCEPT !.got.agents = stDB.agents])
       \/ BreakOff(o, {"agents"})
    /\ UNCHANGED <<stDB, stMem, stCookie, stOps, stChanger>>

ReloadSwaps(o) ==
    /\ At(o, "swap")
    /\ stMem' = [stMem EXCEPT !.agents = (@ \cap {Default}) \cup stReq[o].got.agents]
    /\ GoOn(o, stReq[o])
    /\ UNCHANGED <<stDB, stCookie, stOps, stChanger>>

(* setWallCols takes the order again (getWallOrder); persistWallLayout     *)
(* takes the columns, and writes both; an error is not looked at.          *)
TakesOrder(o) ==
    /\ At(o, "order")
    /\ GoOn(o, [stReq[o] EXCEPT !.got.order = stMem.order])
    /\ UNCHANGED <<stDB, stMem, stCookie, stOps, stChanger>>

TakesCols(o) ==
    LET r == stReq[o]
        order == IF r.change.of = "order" THEN r.change.to ELSE r.got.order
    IN  /\ At(o, "cols")
        /\ GoOn(o, [r EXCEPT !.got.order = order, !.got.cols = stMem.cols])
        /\ UNCHANGED <<stDB, stMem, stCookie, stOps, stChanger>>

SaveWallLayout(o) ==
    LET r == stReq[o]
    IN  /\ At(o, "save")
        /\ \/ /\ stDB' = [stDB EXCEPT !.order = r.got.order, !.cols = r.got.cols]
              /\ GoOn(o, r)
           \/ /\ BreakOff(o, {"order"})
              /\ UNCHANGED stDB
        /\ UNCHANGED <<stMem, stCookie, stOps, stChanger>>

(* The process ends at any moment and starts again; browsers keep their    *)
(* cookies.                                                                *)
StRestart ==
    /\ stDB' = Seeded(stDB)
    /\ stMem' = Loaded(Seeded(stDB))
    /\ stReq' = [o \in Operators |-> NoReq]
    /\ stMixed' = {}
    /\ stChanger' = Unset
    /\ stOps < MaxOps /\ stOps' = stOps + 1
    /\ UNCHANGED stCookie

StNext ==
    \/ StRestart
    \/ \E o \in Operators :
          \/ \E c \in Changes : Begin(o, c)
          \/ \E pw \in Passwords : Login(o, pw)
          \/ CookieGone(o) \/ Write(o) \/ Remember(o) \/ IssueDashCookie(o) \/ ReloadLists(o)
          \/ ReloadSwaps(o) \/ TakesOrder(o) \/ TakesCols(o) \/ SaveWallLayout(o)

StSpec == StInit /\ [][StNext]_stVars

-----------------------------------------------------------------------------
(* Mutant: a camera of the stored order is placed whether it streams or not. *)
ReorderByPreference_All(ids, pref) ==
    LET first == {i \in DOMAIN pref : \A j \in 1 .. i - 1 : pref[j] # pref[i]}
        others == {i \in DOMAIN ids : ids[i] \notin ToSet(pref)}
    IN  Picked(pref, first) \o Picked(ids, others)

(* reorderByPreference: the ones of pref that are there, once each and in  *)
(* pref's order, then the others in theirs.                                *)
ReorderByPreference(ids, pref) ==
    LET first == {i \in DOMAIN pref :
                     pref[i] \in ToSet(ids) /\ \A j \in 1 .. i - 1 : pref[j] # pref[i]}
        others == {i \in DOMAIN ids : ids[i] \notin ToSet(pref)}
    IN  Picked(pref, first) \o Picked(ids, others)

(* Mutant: a group wall goes the way of the others. *)
WallChannelIDs_NoGroup(group, ids, order) == ReorderByPreference(ids, order)

(* wallChannelIDs: the wall of a site or of a recorder has all its cameras, *)
(* in the stored order (applyWallOrder); of a group wall the stored order  *)
(* is the membership, less what does not stream.                           *)
WallChannelIDs(group, ids, order) ==
    IF group THEN Picked(order, {i \in DOMAIN order : order[i] \in ToSet(ids)})
    ELSE ReorderByPreference(ids, order)

(* The first place of a camera in a stored order, or one after the last.   *)
RankIn(order, id) ==
    IF id \in ToSet(order)
    THEN CHOOSE i \in DOMAIN order : order[i] = id /\ \A j \in 1 .. i - 1 : order[j] # id
    ELSE Len(order) + 1

(* Each camera of ids once, one that was ordered before another first.     *)
EachOnce(shown, ids, order) ==
    /\ Len(shown) = Len(ids) /\ ToSet(shown) = ToSet(ids)
    /\ \A i, j \in DOMAIN shown : i < j => RankIn(order, shown[i]) <= RankIn(order, shown[j])

(* Every place of the order whose camera is of ids, in order, no other.    *)
EveryPlace(shown, ids, order) ==
    \E place \in [1 .. Len(shown) -> DOMAIN order] :
        /\ \A k \in 1 .. Len(shown) : shown[k] = order[place[k]] /\ shown[k] \in ToSet(ids)
        /\ \A j, k \in 1 .. Len(shown) : j < k => place[j] < place[k]
        /\ \A i \in DOMAIN order :
              order[i] \in ToSet(ids) => \E k \in 1 .. Len(shown) : place[k] = i

(* Whatever order is stored (of cameras that are gone, twice the same one) *)
(* the wall of a site shows every camera that streams exactly once, and of *)
(* two cameras the operator has ordered the one ordered first comes first; *)
(* a group wall shows what the order names and streams, as often and in    *)
(* the places in which it names it (wallorder.go, reorderByPreference;     *)
(* surv_mosaic.go, wallChannelIDs).                                        *)
WallShowsItsCameras ==
    /\ EachOnce(WallChannelIDs(FALSE, Streaming, stMem.order), Streaming, stMem.order)
    /\ EveryPlace(WallChannelIDs(TRUE, Streaming, stMem.order), Streaming, stMem.order)

(* The operator who changed the password last is still logged in when the  *)
(* change is over, also when two of them change it at once: "re-issue this *)
(* session's cookie so we stay in" (dashboard.go:118).                     *)
LastChangerStaysIn ==
    \A o \in Operators :
        stChanger = o /\ ~ Busy(o) /\ stCookie[o] # Unset => AuthedDashboard(o)

(* What the process would hold if it were started again now.               *)
AfterRestart == Loaded(Seeded(stDB))

(* A restart keeps a setting, but for what was cleared: the environment's  *)
(* value of an alert setting comes back (loadAlertConfig), and so do its   *)
(* agents when the last named one was removed (useStore).                  *)
Survives(s) ==
    CASE s = "password" -> AfterRestart.password = stMem.password
      [] s = "hidden" -> AfterRestart.hidden = stMem.hidden
      [] s = "agents" -> AfterRestart.agents = stMem.agents \/ stMem.agents = {Default}
      [] s = "order" -> AfterRestart.order = stMem.order /\ AfterRestart.cols = stMem.cols
      [] s = "alert" -> \A f \in AlertFields :
             AfterRestart.alert[f] = stMem.alert[f] \/ stMem.alert[f] = Unset

BeingChanged(s) == \E o \in Operators : Busy(o) /\ Setting(stReq[o].change) = s

(* What operators have set is what a restart would load: once the handlers *)
(* of a setting are through, whatever failed or was interrupted, unless    *)
(* two changes of it met or one broke off half way (and then the next      *)
(* change made alone puts it right), and but for what was cleared (hub.go  *)
(* setters, agent_registry.go reload, wallorder.go persistWallLayout).     *)
RestartKeepsSettings ==
    \A s \in SettingNames : Survives(s) \/ s \in stMixed \/ BeingChanged(s)
=============================================================================
