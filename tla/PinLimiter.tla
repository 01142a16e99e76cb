----------------------------- MODULE PinLimiter -----------------------------
(***************************************************************************)
(* relay/limiter.go and its use by HandleWatch (relay/hub.go) and by       *)
(* HandleDashboardLogin (relay/dashboard.go): wrong viewer PINs and wrong  *)
(* passwords are counted per address, and an address with too many of them *)
(* is turned away for a while.  allowed is asked when a connection arrives;  *)
(* the outcome is recorded after the HELLO/AUTH exchange, any number of    *)
(* other attempts later.  Time is counted in ticks.                        *)
(***************************************************************************)
EXTENDS Integers, FiniteSets, FiniteSetsExt

CONSTANTS
    IPs,
    Handlers,   \* HandleWatch goroutines that may be in a handshake
    MaxFails,   \* l.maxFails
    Window,     \* l.window
    Block,      \* l.block
    MaxIPs,     \* l.maxIPs
    MaxTime,    \* length of a behaviour
    MaxFailures \* failures of an address since its last success

ASSUME LimiterAssumption ==
    /\ MaxFails \in Nat \ {0} /\ Window \in Nat /\ Block \in Nat \ {0}
    /\ MaxIPs \in Nat \ {0} /\ MaxTime \in Nat /\ MaxFailures \in Nat

VARIABLES
    limNow,
    attempts,  \* l.attempts: a function on the addresses that have an entry
    hand,      \* the address a handler is in a handshake with, or "none"
    failures   \* how many failures each address had at each time, since its
               \* last success (history)

limVars == <<limNow, attempts, hand, failures>>

Times == 0 .. MaxTime
Never == 0 - 1     \* the zero time.Time, long before any limNow

(* ipAttempts *)
IPEntry == [fails : Nat, windowStart : Times, blockedUntil : {Never} \cup Nat]

HasEntry(ip) == ip \in DOMAIN attempts

LimTypeOK ==
    /\ limNow \in Times
    /\ DOMAIN attempts \subseteq IPs
    /\ \A ip \in DOMAIN attempts : attempts[ip] \in IPEntry
    /\ hand \in [Handlers -> IPs \cup {"none"}]
    /\ failures \in [IPs -> [Times -> Nat]]

LimInit ==
    /\ limNow = 0
    /\ attempts = [ip \in {} |-> [fails |-> 0, windowStart |-> 0, blockedUntil |-> Never]]
    /\ hand = [h \in Handlers |-> "none"]
    /\ failures = [ip \in IPs |-> [t \in Times |-> 0]]

LimTick ==
    /\ limNow < MaxTime
    /\ limNow' = limNow + 1
    /\ UNCHANGED <<attempts, hand, failures>>

(* allowed(ip) *)
Allowed(ip) == HasEntry(ip) => limNow >= attempts[ip].blockedUntil

(* HandleWatch admits a connection (429 otherwise, changing nothing). *)
Arrive(h, ip) ==
    /\ hand[h] = "none"
    /\ Allowed(ip)
    /\ hand' = [hand EXCEPT ![h] = ip]
    /\ UNCHANGED <<limNow, attempts, failures>>

(* The handshake itself fails: 400 or 403, nothing is recorded. *)
Abandon(h) ==
    /\ hand[h] # "none"
    /\ hand' = [hand EXCEPT ![h] = "none"]
    /\ UNCHANGED <<limNow, attempts, failures>>

(* Mutant: blocked addresses are pruned like the others. *)
KeptIPs_ByWindow == {ip \in DOMAIN attempts : limNow - attempts[ip].windowStart <= Window}

(* pruneLocked: the addresses it keeps. *)
KeptIPs == {ip \in DOMAIN attempts :
            limNow <= attempts[ip].blockedUntil \/ limNow - attempts[ip].windowStart <= Window}

(* Mutant: the window is never restarted. *)
FailEntry_NoWindow(e) ==
    IF e.fails + 1 >= MaxFails
    THEN [fails |-> 0, windowStart |-> limNow, blockedUntil |-> limNow + Block]
    ELSE [e EXCEPT !.fails = @ + 1]

(* Mutant: the block is put into the wrong field. *)
FailEntry_WrongField(e) ==
    IF e.fails + 1 >= MaxFails
    THEN [fails |-> 0, windowStart |-> limNow + Block, blockedUntil |-> limNow]
    ELSE [e EXCEPT !.fails = @ + 1]

(* The entry of ip after one more failure. *)
FailEntry(e) ==
    LET w == IF limNow - e.windowStart > Window
             THEN [e EXCEPT !.fails = 0, !.windowStart = limNow] ELSE e
    IN  IF w.fails + 1 >= MaxFails
        THEN [fails |-> 0, windowStart |-> limNow, blockedUntil |-> limNow + Block]
        ELSE [w EXCEPT !.fails = @ + 1]

NewEntry == [fails |-> 0, windowStart |-> limNow, blockedUntil |-> Never]

(* recordFailure: a new address in a full map first prunes the map. *)
RecordFailure(ip) ==
    LET others == IF ~HasEntry(ip) /\ Cardinality(DOMAIN attempts) >= MaxIPs
                  THEN KeptIPs ELSE DOMAIN attempts
        entry == IF HasEntry(ip) THEN attempts[ip] ELSE NewEntry
    IN  /\ attempts' = [i \in others \cup {ip} |->
                           IF i = ip THEN FailEntry(entry) ELSE attempts[i]]
        /\ failures' = [failures EXCEPT ![ip][limNow] = @ + 1]

(* Failures of ip from time t on, up to time u. *)
FailuresIn(ip, t, u) == MapThenSumSet(LAMBDA x : failures[ip][x],
                               {x \in Times : t <= x /\ x <= u})

WrongPIN(h) ==
    /\ hand[h] # "none"
    /\ FailuresIn(hand[h], 0, MaxTime) < MaxFailures
    /\ RecordFailure(hand[h])
    /\ hand' = [hand EXCEPT ![h] = "none"]
    /\ UNCHANGED limNow

(* recordSuccess deletes the entry. *)
RightPIN(h) ==
    /\ hand[h] # "none"
    /\ attempts' = [i \in DOMAIN attempts \ {hand[h]} |-> attempts[i]]
    /\ failures' = [failures EXCEPT ![hand[h]] = [t \in Times |-> 0]]
    /\ hand' = [hand EXCEPT ![h] = "none"]
    /\ UNCHANGED limNow

LimNext ==
    \/ LimTick
    \/ \E h \in Handlers :
          \/ \E ip \in IPs : Arrive(h, ip)
          \/ Abandon(h)
          \/ WrongPIN(h)
          \/ RightPIN(h)

LimSpec == LimInit /\ [][LimNext]_limVars

-----------------------------------------------------------------------------
(* Failures spread beyond the window do not accumulate to a block: when an
   address was last blocked, MaxFails wrong PINs lay within one window. *)
NoUndeservedBlock ==
    \A ip \in DOMAIN attempts :
        LET at == attempts[ip].blockedUntil - Block
        IN  attempts[ip].blockedUntil # Never => FailuresIn(ip, at - Window, at) >= MaxFails

(* A block runs its time: pruning the full map for another address, or late
   outcomes of handshakes admitted before the block, never end it early;
   only a right PIN from the address does. *)
BlockRunsItsTime ==
    [][\A ip \in IPs :
          HasEntry(ip) /\ limNow < attempts[ip].blockedUntil =>
              \/ HasEntry(ip)' /\ attempts'[ip].blockedUntil >= attempts[ip].blockedUntil
              \/ \E h \in Handlers : hand[h] = ip /\ RightPIN(h)]_limVars

(* An address is blocked only for its own recent failures, and for the whole
   of its time (limiter.go, recordFailure, allowed and
   pruneLocked). *)
BlocksAreDeserved == []NoUndeservedBlock /\ BlockRunsItsTime
=============================================================================
