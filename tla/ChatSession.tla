----------------------------- MODULE ChatSession -----------------------------
(***************************************************************************)
(* One POST /chat request after another, or side by side, in one session   *)
(* (src/app/main.py, chat): the fixed-window rate limiter                  *)
(* (src/app/control/rate_limiter.py), the session history read for the     *)
(* agent, and the two turns appended to it when the agent has answered     *)
(* (src/app/core/context_manager.py).                                      *)
(*                                                                         *)
(* append_turn is GET, append, SET: two awaits, without a lock.  The       *)
(* limiter's INCR and EXPIRE are two awaits as well, and the clock is read *)
(* before the INCR for the key and after it for Retry-After.               *)
(*                                                                         *)
(* Abstracted: a turn is <<request, role>>; the agent is a step that works *)
(* or fails; the clock counts ticks, Second of them to a second, because   *)
(* Retry-After is cut to whole seconds.                                    *)
(***************************************************************************)
EXTENDS Integers, Sequences, FiniteSets

CONSTANTS
  Requests,      \* the POST /chat requests
  Sessions,      \* session ids
  MaxRequests,   \* rate_limit_max_requests
  Window,        \* rate_limit_window_seconds, in ticks
  Second,        \* ticks per second
  FaultKinds,    \* which faults may happen: a subset of AllFaults
  MaxFaults,     \* bound on the number of faults of a behaviour
  StartClock,    \* the clock at the start
  MaxClock,      \* the last time at which a request may arrive
  None           \* "no value"

AllFaults ==
  {"redis",     \* a Redis command fails and does nothing
   "lost_ack",  \* a Redis command takes effect, its answer is lost
   "ttl",       \* a session's history reaches its TTL
   "crash"}     \* the process dies

ASSUME RequestsAssumption == IsFiniteSet(Requests) /\ None \notin Sessions \union Nat
ASSUME BoundsAssumption ==
  /\ MaxRequests \in Nat /\ MaxFaults \in Nat
  /\ StartClock \in Nat /\ MaxClock \in Nat /\ StartClock <= MaxClock
  /\ Second \in Nat \ {0} /\ Window \in Nat \ {0}
  /\ FaultKinds \subseteq AllFaults

VARIABLES
  pc,        \* pc[r]: where request r is suspended, or how it was answered
  req,       \* req[r]: the local variables of chat() and of the calls it makes
  counter,   \* counter[s][w]: the limiter's key of session s and window w
  turns,     \* turns[s]: the history list of session s
  met,       \* history: met[r] = the requests that appended while r did
  gone,      \* history: the requests with a turn in a list that reached its TTL
  clock,
  faults

redis == <<counter, turns>>
history == <<met, gone>>
vars == <<pc, req, counter, turns, met, gone, clock, faults>>

-----------------------------------------------------------------------------
(* Types *)

Appending == {"read_user", "write_user", "read_reply", "write_reply"}
InFlight == {"incr", "expire", "agent"} \union Appending
Answered == {"ok", "rejected", "limited", "unavailable", "failed", "lost"}

Turns == Requests \X {"user", "assistant"}
WindowOf(t) == t \div Window
Windows == 0..WindowOf(MaxClock)     \* a window in which a request can arrive
User(r) == <<r, "user">>
Reply(r) == <<r, "assistant">>

\* window: of the key, from the clock at arrival; counted: whether the INCR
\* took effect, in that window or after it; admitted: check() returned;
\* hint: Retry-After in seconds; copy: the list append_turn read.
Locals == [session : Sessions \union {None}, window : Windows,
           counted : {"no", "in_time", "late"}, admitted : BOOLEAN,
           hint : Nat, copy : Seq(Turns)]
NewRequest == [session |-> None, window |-> 0, counted |-> "no", admitted |-> FALSE,
               hint |-> 0, copy |-> <<>>]

\* A counter key: its value (0: no such key) and when it expires (None: never).
NoKey == [n |-> 0, dies |-> None]

TypeOK ==
  /\ pc \in [Requests -> {"new"} \union InFlight \union Answered]
  /\ req \in [Requests -> Locals]
  /\ counter \in [Sessions -> [Windows -> [n : Nat, dies : Nat \union {None}]]]
  /\ turns \in [Sessions -> Seq(Turns)]
  /\ met \in [Requests -> SUBSET Requests]
  /\ gone \subseteq Requests
  /\ clock \in Nat
  /\ faults \in Nat

Init ==
  /\ pc = [r \in Requests |-> "new"]
  /\ req = [r \in Requests |-> NewRequest]
  /\ counter = [s \in Sessions |-> [w \in Windows |-> NoKey]]
  /\ turns = [s \in Sessions |-> <<>>]
  /\ met = [r \in Requests |-> {}]
  /\ gone = {}
  /\ clock = StartClock
  /\ faults = 0

-----------------------------------------------------------------------------
(* Helpers *)

Goto(r, label) == pc' = [pc EXCEPT ![r] = label]

Fault(kind) ==
  /\ kind \in FaultKinds
  /\ faults < MaxFaults
  /\ faults' = faults + 1

KeyOf(r) == counter[req[r].session][req[r].window]
SetKey(r, key) == counter' = [counter EXCEPT ![req[r].session][req[r].window] = key]

\* Faulty variants (mutation tests): the time left of the window the request
\* was counted in; the hint without its minimum of a second.
RetryAfterOfKey(r) == ((req[r].window + 1) * Window - clock) \div Second
RetryAfterNoMin(r) == ((WindowOf(clock) + 1) * Window - clock) \div Second

\* max(1, int(window_start + window_seconds - clock)), the clock read anew.
RetryAfter(r) ==
  LET left == (WindowOf(clock) + 1) * Window - clock
  IN  IF left \div Second > 1 THEN left \div Second ELSE 1

\* Faulty variant (mutation test): the request that reaches the limit is over.
OverLimitFromMax(n) == n >= MaxRequests

OverLimit(n) == n > MaxRequests

\* The end of check(): the request is refused or goes on to its history.
Judge(r, n, counted) ==
  IF OverLimit(n)
  THEN /\ req' = [req EXCEPT ![r] = [@ EXCEPT !.counted = counted, !.hint = RetryAfter(r)]]
       /\ Goto(r, "limited")
  ELSE /\ req' = [req EXCEPT ![r] = [@ EXCEPT !.counted = counted, !.admitted = TRUE]]
       /\ Goto(r, "agent")

-----------------------------------------------------------------------------
(* The gates *)

\* The content filter answers at once; the limiter's key is named by the clock.
Receive(r) ==
  /\ pc[r] = "new"
  /\ clock <= MaxClock
  /\ \E s \in Sessions :
       req' = [req EXCEPT ![r] = [@ EXCEPT !.session = s, !.window = WindowOf(clock)]]
  /\ Goto(r, "incr") \/ Goto(r, "rejected")
  /\ UNCHANGED <<redis, history, clock, faults>>

\* Past MaxClock, which stands for every later time, every window is over.
InWindow(w) == WindowOf(clock) = w /\ clock <= MaxClock

\* INCR: a key it creates has no TTL until the EXPIRE.
Incr(r) ==
  LET n == KeyOf(r).n + 1
      increment == SetKey(r, [KeyOf(r) EXCEPT !.n = n])
      counted == IF InWindow(req[r].window) THEN "in_time" ELSE "late"
  IN
  /\ pc[r] = "incr"
  /\ \/ /\ n = 1
        /\ increment
        /\ req' = [req EXCEPT ![r].counted = counted]
        /\ Goto(r, "expire")
        /\ UNCHANGED faults
     \/ /\ n > 1
        /\ increment
        /\ Judge(r, n, counted)
        /\ UNCHANGED faults
     \/ /\ Fault("lost_ack")
        /\ increment
        /\ req' = [req EXCEPT ![r].counted = counted]
        /\ Goto(r, "unavailable")
     \/ /\ Fault("redis")
        /\ Goto(r, "unavailable")
        /\ UNCHANGED <<counter, req>>
  /\ UNCHANGED <<turns, history, clock>>

\* Faulty variant (mutation test): the key lives for half a window.
DiesEarly(r) == SetKey(r, [KeyOf(r) EXCEPT !.dies = clock + Window \div 2])

Dies(r) ==
  IF clock > MaxClock THEN SetKey(r, NoKey)
  ELSE SetKey(r, [KeyOf(r) EXCEPT !.dies = clock + Window])

\* EXPIRE of the key the request has just created (past MaxClock, where time
\* stands still, its end is part of the step).
SetTtl(r) ==
  /\ pc[r] = "expire"
  /\ \/ /\ Dies(r)
        /\ Judge(r, 1, req[r].counted)
        /\ UNCHANGED faults
     \/ /\ Fault("lost_ack")
        /\ Dies(r)
        /\ Goto(r, "unavailable")
        /\ UNCHANGED req
     \/ /\ Fault("redis")
        /\ Goto(r, "unavailable")
        /\ UNCHANGED <<counter, req>>
  /\ UNCHANGED <<turns, history, clock>>

-----------------------------------------------------------------------------
(* The request itself *)

\* get_history for the agent and the agent's answer: neither writes to the
\* session, and any error of either ends the request without a turn.
Agent(r) ==
  /\ pc[r] = "agent"
  /\ \/ Goto(r, "read_user") /\ UNCHANGED faults
     \/ Goto(r, "failed") /\ UNCHANGED faults
     \/ Goto(r, "unavailable") /\ Fault("redis")
  /\ UNCHANGED <<req, redis, history, clock>>

IsAppending(r, s) == pc[r] \in Appending /\ req[r].session = s

\* Faulty variant (mutation test): the reply goes to the list the user's turn
\* was read from.
FetchAfterUser(r) ==
  req' = [req EXCEPT ![r].copy =
            IF pc[r] = "read_reply" THEN @ ELSE turns[req[r].session]]

\* The GET of append_turn.
Fetch(r) == req' = [req EXCEPT ![r].copy = turns[req[r].session]]

\* From its first GET on, r meets the requests that append to its session.
Meet(r) ==
  LET others == {q \in Requests \ {r} : IsAppending(q, req[r].session)}
  IN  met' = [q \in Requests |->
                IF q = r THEN met[r] \union others
                ELSE IF q \in others THEN met[q] \union {r} ELSE met[q]]

\* Faulty variant (mutation test): a request waits until no other appends.
ReadTurnsExclusive(r, at, next) ==
  /\ pc[r] = at
  /\ \A q \in Requests \ {r} : ~IsAppending(q, req[r].session)
  /\ Fetch(r)
  /\ Goto(r, next)
  /\ Meet(r)
  /\ UNCHANGED <<redis, gone, clock, faults>>

ReadTurns(r, at, next) ==
  /\ pc[r] = at
  /\ \/ /\ Fetch(r)
        /\ Goto(r, next)
        /\ UNCHANGED faults
     \/ /\ Fault("redis")
        /\ Goto(r, "unavailable")
        /\ UNCHANGED req
  /\ Meet(r)
  /\ UNCHANGED <<redis, gone, clock>>

Store(r, turn) ==
  turns' = [turns EXCEPT ![req[r].session] = Append(req[r].copy, turn)]

\* Faulty variant (mutation test): a SET that fails is logged and forgotten.
WriteTurnBestEffort(r, at, turn, next) ==
  /\ pc[r] = at
  /\ \/ Store(r, turn) /\ UNCHANGED faults
     \/ Fault("redis") /\ UNCHANGED turns
  /\ Goto(r, next)
  /\ UNCHANGED <<req, counter, history, clock>>

\* The SET of append_turn.
WriteTurn(r, at, turn, next) ==
  /\ pc[r] = at
  /\ req' = [req EXCEPT ![r].copy = <<>>]
  /\ \/ /\ Store(r, turn)
        /\ Goto(r, next)
        /\ UNCHANGED faults
     \/ /\ Fault("lost_ack")
        /\ Store(r, turn)
        /\ Goto(r, "unavailable")
     \/ /\ Fault("redis")
        /\ Goto(r, "unavailable")
        /\ UNCHANGED turns
  /\ UNCHANGED <<counter, history, clock>>

AppendTurns(r) ==
  \/ ReadTurns(r, "read_user", "write_user")
  \/ WriteTurn(r, "write_user", User(r), "read_reply")
  \/ ReadTurns(r, "read_reply", "write_reply")
  \/ WriteTurn(r, "write_reply", Reply(r), "ok")

-----------------------------------------------------------------------------
(* The environment *)

\* Redis drops a history nobody wrote to for its TTL.
HistoryExpires(s) ==
  /\ turns[s] # <<>>
  /\ Fault("ttl")
  /\ turns' = [turns EXCEPT ![s] = <<>>]
  /\ gone' = gone \union {turns[s][n][1] : n \in DOMAIN turns[s]}
  /\ UNCHANGED <<pc, req, counter, met, clock>>

\* Faulty variant (mutation test): a key never expires.
DueNever(key, t) == FALSE

\* The key's TTL is over at t; MaxClock + 1 stands for every later time.
Due(key, t) == key.dies # None /\ (key.dies <= t \/ t > MaxClock)

\* Time passes, and Redis drops the counter keys that are due.
Tick ==
  /\ clock <= MaxClock
  /\ clock' = clock + 1
  /\ counter' = [s \in Sessions |-> [w \in Windows |->
                   IF Due(counter[s][w], clock + 1) THEN NoKey ELSE counter[s][w]]]
  /\ UNCHANGED <<pc, req, turns, history, faults>>

Crash ==
  /\ \E r \in Requests : pc[r] \in InFlight
  /\ Fault("crash")
  /\ pc' = [r \in Requests |-> IF pc[r] \in InFlight THEN "lost" ELSE pc[r]]
  /\ UNCHANGED <<req, redis, history, clock>>

Step(r) == Incr(r) \/ SetTtl(r) \/ Agent(r) \/ AppendTurns(r)

Next ==
  \/ \E r \in Requests : Receive(r) \/ Step(r)
  \/ \E s \in Sessions : HistoryExpires(s)
  \/ Tick
  \/ Crash

Spec == Init /\ [][Next]_vars

\* Every awaited call ends, time passes and Redis keeps its TTLs.
FairSpec ==
  /\ Spec
  /\ \A r \in Requests : WF_vars(Step(r))
  /\ WF_vars(Tick)

-----------------------------------------------------------------------------
(* Properties *)

Places(r, turn) == {n \in DOMAIN turns[req[r].session] : turns[req[r].session][n] = turn}

\* A request answered 200 has its two turns in the history, once each and next
\* to each other, unless another request appended at the same time or the whole
\* history reached its TTL: no other fault, and no later or earlier request of
\* the session, costs it a turn.
StoredTurnsStay ==
  \A r \in Requests :
    (pc[r] = "ok" /\ met[r] = {} /\ r \notin gone) =>
      \E n \in DOMAIN turns[req[r].session] :
        Places(r, User(r)) = {n} /\ Places(r, Reply(r)) = {n + 1}

\* A history never has a reply without its message or half an exchange that
\* nobody was told of: the message stands alone only while its request is in
\* flight, after it was answered 503 or lost, or after an overlap.
HalfTurnIsTold ==
  \A r \in Requests : req[r].session # None =>
    /\ (Places(r, User(r)) # {} /\ Places(r, Reply(r)) = {}) =>
         pc[r] \in Appending \union {"unavailable", "lost"} \/ met[r] # {} \/ r \in gone
    /\ (Places(r, Reply(r)) # {} /\ Places(r, User(r)) = {}) =>
         met[r] # {} \/ r \in gone

\* Of the requests of a session that the limiter counted inside a window, at
\* most MaxRequests are admitted, whatever EXPIRE did and whenever keys died.
QuotaPerWindow ==
  \A s \in Sessions, w \in Windows :
    Cardinality({r \in Requests : req[r].session = s /\ req[r].window = w
                                   /\ req[r].admitted /\ req[r].counted = "in_time"})
      <= MaxRequests

\* A request is refused only if as many requests as a window admits were
\* counted before it in its session and its window: a key whose EXPIRE failed
\* blocks no other window, and nobody pays for another session.
RefusedOverQuota ==
  \A r \in Requests :
    pc[r] = "limited" =>
      Cardinality({q \in Requests \ {r} : req[q].session = req[r].session
                     /\ req[q].window = req[r].window
                     /\ req[q].counted # "no"}) >= MaxRequests

\* A client that waits for Retry-After comes back after the window it was
\* refused in, or in that window's last second (the hint is cut to seconds),
\* and no later than one second after the window of the answer.
RetryHintReachesNextWindow ==
  [][\A r \in Requests :
       (pc'[r] = "limited" /\ pc[r] # "limited") =>
         LET back == clock + req'[r].hint * Second
         IN  /\ back > (req[r].window + 1) * Window - Second
             /\ back > clock
             /\ back < (WindowOf(clock) + 1) * Window + Second]_vars

\* Every request that arrives is answered, or lost in a crash.
EveryRequestAnswered == \A r \in Requests : pc[r] \in InFlight ~> pc[r] \in Answered

\* A limiter's key goes away, unless a fault kept it from getting its TTL.
KeysGoAway ==
  \A s \in Sessions, w \in Windows :
    counter[s][w].n > 0 ~> (counter[s][w].n = 0 \/ faults > 0)

-----------------------------------------------------------------------------
(* A statement of the repository that the code does not keep *)

\* context_manager.py: "Conversation history must never be silently dropped
\* while the request still reports success".  Two requests of a session that
\* both read the list before either writes it lose turns of one of them.
NeverSilentlyDropped ==
  \A r \in Requests :
    (pc[r] = "ok" /\ r \notin gone) => Places(r, User(r)) # {} /\ Places(r, Reply(r)) # {}
=============================================================================
