-------------------------- MODULE ChatSession_proofs --------------------------
(***************************************************************************)
(* Proofs about ChatSession, for any number of requests and sessions, any  *)
(* limit, window and faults.                                               *)
(***************************************************************************)
EXTENDS ChatSession, FiniteSetTheorems, TLAPS

USE DEF Appending, InFlight, Answered

-----------------------------------------------------------------------------
(* Types *)

\* A quotient of naturals is a natural.
LEMMA QuotientIsNat == ASSUME NEW t \in Nat, NEW w \in Nat \ {0} PROVE t \div w \in Nat
OBVIOUS

\* A time up to MaxClock is in one of the windows.
LEMMA WindowInRange ==
  ASSUME NEW t \in Nat, t <= MaxClock PROVE WindowOf(t) \in Windows
<1>1. Window \in Nat \ {0} /\ MaxClock \in Nat
  BY BoundsAssumption
<1>2. t \div Window \in Nat /\ MaxClock \div Window \in Nat
  BY <1>1
<1>3. t \div Window <= MaxClock \div Window
  BY <1>1
<1> QED
  BY <1>2, <1>3 DEF WindowOf, Windows

\* Retry-After is a number of seconds.
LEMMA HintIsNat == ASSUME TypeOK, NEW r \in Requests PROVE RetryAfter(r) \in Nat
<1> DEFINE left == (WindowOf(clock) + 1) * Window - clock
<1>1. left \in Int
  BY BoundsAssumption DEF WindowOf, TypeOK
<1>2. left \div Second \in Int
  BY <1>1, BoundsAssumption
<1> QED
  BY <1>2 DEF RetryAfter

\* Once a request has arrived its session is known.
HasSession == \A r \in Requests : pc[r] # "new" => req[r].session \in Sessions

TypeInv == TypeOK /\ HasSession

Labels == {"new"} \union InFlight \union Answered
Keys == [n : Nat, dies : Nat \union {None}]

\* A step that changes one request keeps the requests well typed.
LEMMA PutTypes ==
  ASSUME TypeInv, NEW r \in Requests, NEW l \in Locals, NEW label \in Labels,
         label # "new" => l.session \in Sessions,
         req' = [req EXCEPT ![r] = l], pc' = [pc EXCEPT ![r] = label]
  PROVE  req' \in [Requests -> Locals] /\ pc' \in [Requests -> Labels] /\ HasSession'
BY DEF TypeInv, TypeOK, HasSession, Labels

LEMMA LocalsOf ==
  ASSUME TypeInv, NEW r \in Requests
  PROVE  /\ req[r] \in Locals
         /\ pc[r] # "new" => req[r].session \in Sessions /\ req[r].window \in Windows
         /\ \A c \in {"no", "in_time", "late"} :
              /\ [req[r] EXCEPT !.counted = c] \in Locals
              /\ [req[r] EXCEPT !.counted = c].session = req[r].session
              /\ [req[r] EXCEPT !.counted = c, !.admitted = TRUE] \in Locals
              /\ [req[r] EXCEPT !.counted = c, !.admitted = TRUE].session = req[r].session
              /\ \A h \in Nat :
                   /\ [req[r] EXCEPT !.counted = c, !.hint = h] \in Locals
                   /\ [req[r] EXCEPT !.counted = c, !.hint = h].session = req[r].session
         /\ \A L \in Seq(Turns) :
              /\ [req[r] EXCEPT !.copy = L] \in Locals
              /\ [req[r] EXCEPT !.copy = L].session = req[r].session
         /\ [req EXCEPT ![r] = req[r]] = req
<1>1. req[r] \in Locals
  BY DEF TypeInv, TypeOK
<1> QED
  BY <1>1 DEF TypeInv, TypeOK, HasSession, Locals

\* What the end of check() does to the request.
LEMMA JudgeTypes ==
  ASSUME TypeInv, NEW r \in Requests, NEW n, NEW c \in {"no", "in_time", "late"},
         pc[r] \in {"incr", "expire"}, Judge(r, n, c)
  PROVE  req' \in [Requests -> Locals] /\ pc' \in [Requests -> Labels] /\ HasSession'
<1>1. RetryAfter(r) \in Nat
  BY HintIsNat DEF TypeInv
<1>2. CASE OverLimit(n)
  <2> DEFINE l == [req[r] EXCEPT !.counted = c, !.hint = RetryAfter(r)]
  <2>1. l \in Locals /\ l.session \in Sessions
    BY <1>1, LocalsOf
  <2>2. req' = [req EXCEPT ![r] = l] /\ pc' = [pc EXCEPT ![r] = "limited"]
    BY <1>2 DEF Judge, Goto
  <2> QED
    BY <2>1, <2>2, PutTypes DEF Labels
<1>3. CASE ~OverLimit(n)
  <2> DEFINE l == [req[r] EXCEPT !.counted = c, !.admitted = TRUE]
  <2>1. l \in Locals /\ l.session \in Sessions
    BY LocalsOf
  <2>2. req' = [req EXCEPT ![r] = l] /\ pc' = [pc EXCEPT ![r] = "agent"]
    BY <1>3 DEF Judge, Goto
  <2> QED
    BY <2>1, <2>2, PutTypes DEF Labels
<1> QED
  BY <1>2, <1>3

\* The limiter's key of a request that has arrived is one of the keys.
LEMMA KeyTypes ==
  ASSUME TypeInv, NEW r \in Requests, pc[r] # "new"
  PROVE  /\ KeyOf(r) \in Keys
         /\ \A key \in Keys :
              SetKey(r, key) => counter' \in [Sessions -> [Windows -> Keys]]
<1>1. req[r].session \in Sessions /\ req[r].window \in Windows
  BY LocalsOf
<1>2. counter \in [Sessions -> [Windows -> Keys]]
  BY DEF TypeInv, TypeOK, Keys
<1>3. KeyOf(r) \in Keys
  BY <1>1, <1>2 DEF KeyOf
<1>4. ASSUME NEW key \in Keys, SetKey(r, key)
      PROVE  counter' \in [Sessions -> [Windows -> Keys]]
  <2> DEFINE s == req[r].session
             w == req[r].window
  <2>1. counter' = [counter EXCEPT ![s] = [counter[s] EXCEPT ![w] = key]]
    BY <1>4 DEF SetKey
  <2>2. [counter[s] EXCEPT ![w] = key] \in [Windows -> Keys]
    BY <1>1, <1>2
  <2> HIDE DEF s, w
  <2> QED
    BY <2>1, <2>2, <1>2
<1> QED
  BY <1>3, <1>4

LEMMA ReceiveTypes == ASSUME TypeInv, NEW r \in Requests, Receive(r) PROVE TypeInv'
<1>1. WindowOf(clock) \in Windows
  BY WindowInRange DEF Receive, TypeInv, TypeOK
<1>2. PICK s \in Sessions :
        req' = [req EXCEPT ![r] = [@ EXCEPT !.session = s, !.window = WindowOf(clock)]]
  BY DEF Receive
<1> DEFINE l == [req[r] EXCEPT !.session = s, !.window = WindowOf(clock)]
<1>3. req[r] \in Locals
  BY LocalsOf
<1>4. l \in Locals /\ l.session = s
  BY <1>1, <1>3 DEF Locals
<1>5. req' = [req EXCEPT ![r] = l]
  BY <1>2
<1>6. PICK label \in {"incr", "rejected"} : pc' = [pc EXCEPT ![r] = label]
  BY DEF Receive, Goto
<1>7. req' \in [Requests -> Locals] /\ pc' \in [Requests -> Labels] /\ HasSession'
  <2> HIDE DEF l
  <2>1. label \in Labels
    BY DEF Labels
  <2> QED
    BY <1>4, <1>5, <1>6, <2>1, PutTypes
<1> QED
  BY <1>7 DEF Receive, TypeInv, TypeOK, Labels, redis, history

LEMMA IncrTypes == ASSUME TypeInv, NEW r \in Requests, Incr(r) PROVE TypeInv'
<1> DEFINE n == KeyOf(r).n + 1
           c == IF InWindow(req[r].window) THEN "in_time" ELSE "late"
           key == [KeyOf(r) EXCEPT !.n = n]
<1>1. pc[r] = "incr"
  BY DEF Incr
<1>2. key \in Keys
  BY <1>1, KeyTypes DEF Keys
<1>3. counter' \in [Sessions -> [Windows -> Keys]]
  <2>1. CASE SetKey(r, key)
    BY <2>1, <1>1, <1>2, KeyTypes
  <2>2. CASE UNCHANGED counter
    BY <2>2 DEF TypeInv, TypeOK, Keys
  <2> QED
    BY <2>1, <2>2 DEF Incr
<1>4. req' \in [Requests -> Locals] /\ pc' \in [Requests -> Labels] /\ HasSession'
  <2>1. c \in {"no", "in_time", "late"}
    OBVIOUS
  <2>2. CASE Judge(r, n, c)
    BY <2>1, <2>2, <1>1, JudgeTypes
  <2>3. CASE /\ req' = [req EXCEPT ![r].counted = c]
             /\ Goto(r, "expire") \/ Goto(r, "unavailable")
    <3> DEFINE l == [req[r] EXCEPT !.counted = c]
    <3>1. l \in Locals /\ l.session \in Sessions
      BY <1>1, <2>1, LocalsOf
    <3> QED
      BY <2>3, <3>1, PutTypes DEF Goto, Labels
  <2>4. CASE UNCHANGED req /\ Goto(r, "unavailable")
    BY <2>4, <1>1, PutTypes, LocalsOf DEF Goto, Labels
  <2> QED
    BY <2>2, <2>3, <2>4 DEF Incr
<1>5. faults' \in Nat
  BY DEF Incr, Fault, TypeInv, TypeOK
<1> QED
  BY <1>3, <1>4, <1>5 DEF Incr, TypeInv, TypeOK, Labels, Keys, history

LEMMA SetTtlTypes == ASSUME TypeInv, NEW r \in Requests, SetTtl(r) PROVE TypeInv'
<1>1. pc[r] = "expire"
  BY DEF SetTtl
<1>2. NoKey \in Keys /\ [KeyOf(r) EXCEPT !.dies = clock + Window] \in Keys
  <2>1. KeyOf(r) \in Keys
    BY <1>1, KeyTypes
  <2>2. clock + Window \in Nat
    BY BoundsAssumption DEF TypeInv, TypeOK
  <2> QED
    BY <2>1, <2>2 DEF NoKey, Keys
<1>3. counter' \in [Sessions -> [Windows -> Keys]]
  <2>1. CASE Dies(r)
    BY <2>1, <1>1, <1>2, KeyTypes DEF Dies
  <2>2. CASE UNCHANGED counter
    BY <2>2 DEF TypeInv, TypeOK, Keys
  <2> QED
    BY <2>1, <2>2 DEF SetTtl
<1>4. req' \in [Requests -> Locals] /\ pc' \in [Requests -> Labels] /\ HasSession'
  <2>1. req[r].counted \in {"no", "in_time", "late"}
    BY DEF TypeInv, TypeOK, Locals
  <2>2. CASE Judge(r, 1, req[r].counted)
    BY <2>1, <2>2, <1>1, JudgeTypes
  <2>3. CASE UNCHANGED req /\ Goto(r, "unavailable")
    BY <2>3, <1>1, PutTypes, LocalsOf DEF Goto, Labels
  <2> QED
    BY <2>2, <2>3 DEF SetTtl
<1>5. faults' \in Nat
  BY DEF SetTtl, Fault, TypeInv, TypeOK
<1> QED
  BY <1>3, <1>4, <1>5 DEF SetTtl, TypeInv, TypeOK, Labels, Keys, history

LEMMA AgentTypes == ASSUME TypeInv, NEW r \in Requests, Agent(r) PROVE TypeInv'
<1>1. pc[r] = "agent" /\ UNCHANGED req /\ faults' \in Nat
  BY DEF Agent, Fault, TypeInv, TypeOK
<1>2. req' \in [Requests -> Locals] /\ pc' \in [Requests -> Labels] /\ HasSession'
  <2>1. PICK label \in {"read_user", "failed", "unavailable"} : pc' = [pc EXCEPT ![r] = label]
    BY DEF Agent, Goto
  <2>2. req[r] \in Locals /\ req[r].session \in Sessions /\ req' = [req EXCEPT ![r] = req[r]]
    BY <1>1, LocalsOf
  <2>3. label \in Labels
    BY DEF Labels
  <2> QED
    BY <2>1, <2>2, <2>3, PutTypes
<1> QED
  BY <1>1, <1>2 DEF Agent, TypeInv, TypeOK, Labels, redis, history

LEMMA ReadTypes ==
  ASSUME TypeInv, NEW r \in Requests,
         NEW at \in {"read_user", "read_reply"}, NEW next \in {"write_user", "write_reply"},
         ReadTurns(r, at, next)
  PROVE  TypeInv'
<1>1. pc[r] = at /\ faults' \in Nat
  BY DEF ReadTurns, Fault, TypeInv, TypeOK
<1>2. turns[req[r].session] \in Seq(Turns)
  BY <1>1, LocalsOf DEF TypeInv, TypeOK
<1>3. req' \in [Requests -> Locals] /\ pc' \in [Requests -> Labels] /\ HasSession'
  <2>1. CASE Fetch(r) /\ Goto(r, next)
    <3> DEFINE l == [req[r] EXCEPT !.copy = turns[req[r].session]]
    <3>1. l \in Locals /\ l.session \in Sessions
      BY <1>1, <1>2, LocalsOf
    <3> QED
      BY <2>1, <3>1, PutTypes DEF Fetch, Goto, Labels
  <2>2. CASE UNCHANGED req /\ Goto(r, "unavailable")
    BY <2>2, <1>1, PutTypes, LocalsOf DEF Goto, Labels
  <2> QED
    BY <2>1, <2>2 DEF ReadTurns
<1>4. met' \in [Requests -> SUBSET Requests]
  BY DEF ReadTurns, Meet, TypeInv, TypeOK
<1> QED
  BY <1>1, <1>3, <1>4 DEF ReadTurns, TypeInv, TypeOK, Labels, redis

LEMMA WriteTypes ==
  ASSUME TypeInv, NEW r \in Requests, NEW turn \in Turns,
         NEW at \in {"write_user", "write_reply"}, NEW next \in {"read_reply", "ok"},
         WriteTurn(r, at, turn, next)
  PROVE  TypeInv'
<1>1. pc[r] = at /\ faults' \in Nat
  BY DEF WriteTurn, Fault, TypeInv, TypeOK
<1>2. req' \in [Requests -> Locals] /\ pc' \in [Requests -> Labels] /\ HasSession'
  <2> DEFINE l == [req[r] EXCEPT !.copy = <<>>]
  <2>1. l \in Locals /\ l.session \in Sessions
    <3>1. <<>> \in Seq(Turns)
      OBVIOUS
    <3> QED
      BY <1>1, <3>1, LocalsOf
  <2>2. PICK label \in {"read_reply", "ok", "unavailable"} : pc' = [pc EXCEPT ![r] = label]
    BY DEF WriteTurn, Goto
  <2>3. req' = [req EXCEPT ![r] = l]
    BY DEF WriteTurn
  <2>4. label \in Labels
    BY DEF Labels
  <2> HIDE DEF l
  <2> QED
    BY <2>1, <2>2, <2>3, <2>4, PutTypes
<1>3. turns' \in [Sessions -> Seq(Turns)]
  <2>1. req[r].copy \in Seq(Turns) /\ req[r].session \in Sessions
    BY <1>1, LocalsOf DEF Locals
  <2>2. Append(req[r].copy, turn) \in Seq(Turns)
    BY <2>1
  <2> QED
    BY <2>1, <2>2 DEF WriteTurn, Store, TypeInv, TypeOK
<1> QED
  BY <1>1, <1>2, <1>3 DEF WriteTurn, TypeInv, TypeOK, Labels, history

LEMMA ExpiresTypes == ASSUME TypeInv, NEW s \in Sessions, HistoryExpires(s) PROVE TypeInv'
<1>1. gone' \subseteq Requests
  BY DEF HistoryExpires, TypeInv, TypeOK, Turns
<1>2. faults' \in Nat /\ turns' \in [Sessions -> Seq(Turns)]
  BY DEF HistoryExpires, Fault, TypeInv, TypeOK
<1> QED
  BY <1>1, <1>2 DEF HistoryExpires, TypeInv, TypeOK, HasSession

LEMMA TickTypes == ASSUME TypeInv, Tick PROVE TypeInv'
<1>1. counter' \in [Sessions -> [Windows -> Keys]]
  BY DEF Tick, TypeInv, TypeOK, Keys, NoKey
<1>2. clock' \in Nat
  BY DEF Tick, TypeInv, TypeOK
<1> QED
  BY <1>1, <1>2 DEF Tick, TypeInv, TypeOK, HasSession, Keys, history

LEMMA CrashTypes == ASSUME TypeInv, Crash PROVE TypeInv'
BY DEF Crash, Fault, TypeInv, TypeOK, HasSession, redis, history

LEMMA TypeInit == Init => TypeInv
<1> SUFFICES ASSUME Init PROVE TypeInv
  OBVIOUS
<1>1. WindowOf(StartClock) \in Windows /\ 0 \in Windows
  BY WindowInRange, BoundsAssumption DEF Windows
<1>2. NewRequest \in Locals
  BY <1>1 DEF NewRequest, Locals
<1>3. NoKey \in Keys
  BY DEF NoKey, Keys
<1> QED
  BY <1>2, <1>3, BoundsAssumption DEF Init, TypeInv, TypeOK, HasSession, Keys

LEMMA TypeStep == TypeInv /\ [Next]_vars => TypeInv'
<1> SUFFICES ASSUME TypeInv, [Next]_vars PROVE TypeInv'
  OBVIOUS
<1>1. ASSUME NEW r \in Requests, AppendTurns(r) PROVE TypeInv'
  <2>1. User(r) \in Turns /\ Reply(r) \in Turns
    BY DEF User, Reply, Turns
  <2> QED
    BY <1>1, <2>1, ReadTypes, WriteTypes DEF AppendTurns
<1>2. ASSUME NEW r \in Requests, Receive(r) \/ Step(r) PROVE TypeInv'
  BY <1>1, <1>2, ReceiveTypes, IncrTypes, SetTtlTypes, AgentTypes DEF Step
<1>3. CASE UNCHANGED vars
  BY <1>3 DEF vars, TypeInv, TypeOK, HasSession
<1> QED
  BY <1>2, <1>3, ExpiresTypes, TickTypes, CrashTypes DEF Next

\* The state keeps its types, and a request that has arrived has a session.
LEMMA TypeAlways == Spec => []TypeInv
<1> QED
  BY TypeInit, TypeStep, PTL DEF Spec

\* The state of the requests, of Redis and of the clock keeps its types.
THEOREM TypeCorrect == Spec => []TypeOK
<1>1. TypeInv => TypeOK
  BY DEF TypeInv
<1> QED
  BY <1>1, TypeAlways, PTL

-----------------------------------------------------------------------------
(* The history *)

\* A list says nothing of r; it ends with the one turn of r, its message; it has
\* the two turns of r, once each and next to each other.
Absent(L, r) == \A n \in DOMAIN L : L[n] # User(r) /\ L[n] # Reply(r)
Half(L, r) ==
  /\ Len(L) > 0 /\ L[Len(L)] = User(r)
  /\ \A n \in DOMAIN L : L[n] # Reply(r) /\ (L[n] = User(r) => n = Len(L))
Pair(L, r) ==
  \E n \in DOMAIN L :
    /\ L[n] = User(r) /\ n + 1 \in DOMAIN L /\ L[n + 1] = Reply(r)
    /\ \A m \in DOMAIN L : (L[m] = User(r) => m = n) /\ (L[m] = Reply(r) => m = n + 1)
Has(L, turn) == \E n \in DOMAIN L : L[n] = turn
Whole(L, r) == Has(L, Reply(r)) => Has(L, User(r))

NotYet == {"new", "rejected", "incr", "expire", "limited", "agent", "failed",
           "read_user", "write_user"}
Writing == {"write_user", "write_reply"}
Apart(r) == met[r] = {} /\ r \notin gone

\* A request that has not stored its message is in no list, read or stored.
AbsentBefore ==
  \A r \in Requests : pc[r] \in NotYet =>
    /\ \A s \in Sessions : Absent(turns[s], r)
    /\ \A q \in Requests : pc[q] \in Writing => Absent(req[q].copy, r)

\* Between the first GET of one request and its last SET, whoever else is there
\* has met it.
OverlapsMeet ==
  \A r, q \in Requests :
    (/\ r # q /\ req[r].session = req[q].session
     /\ pc[r] \in {"write_user", "read_reply", "write_reply"}
     /\ pc[q] \in {"write_user", "read_reply", "write_reply"}) => q \in met[r]

\* What a request that met nobody has stored and read so far.
MessageIsLast ==
  \A r \in Requests : Apart(r) =>
    /\ pc[r] \in {"read_reply", "write_reply"} => Half(turns[req[r].session], r)
    /\ pc[r] = "write_reply" => Half(req[r].copy, r)

\* Once it is answered 200 its turns are in the list, and in what others read.
PairStays ==
  \A r \in Requests : (Apart(r) /\ pc[r] = "ok") =>
    /\ Pair(turns[req[r].session], r)
    /\ \A q \in Requests :
         (pc[q] \in Writing /\ req[q].session = req[r].session) => Pair(req[q].copy, r)

\* No list has its reply without its message.
NoReplyAlone ==
  \A r \in Requests : Apart(r) =>
    /\ \A s \in Sessions : Whole(turns[s], r)
    /\ \A q \in Requests : pc[q] \in Writing => Whole(req[q].copy, r)

HistoryInv ==
  AbsentBefore /\ OverlapsMeet /\ MessageIsLast /\ PairStays /\ NoReplyAlone

\* The turns of two requests differ, and so do the two of one.
LEMMA TurnsDiffer ==
  /\ \A r, q : User(r) # Reply(q)
  /\ \A r, q : (r # q) => (User(r) # User(q) /\ Reply(r) # Reply(q))
BY DEF User, Reply

\* Append keeps the entries and adds its own at the end.
LEMMA AppendEntries ==
  ASSUME NEW L \in Seq(Turns), NEW turn \in Turns
  PROVE  /\ DOMAIN L = 1..Len(L) /\ Len(L) \in Nat
         /\ Len(Append(L, turn)) = Len(L) + 1
         /\ DOMAIN Append(L, turn) = DOMAIN L \union {Len(L) + 1}
         /\ \A n \in DOMAIN L : Append(L, turn)[n] = L[n]
         /\ Append(L, turn)[Len(L) + 1] = turn
OBVIOUS

LEMMA AppendOther ==
  ASSUME NEW L \in Seq(Turns), NEW turn \in Turns, NEW r,
         turn # User(r), turn # Reply(r)
  PROVE  /\ Absent(L, r) => Absent(Append(L, turn), r)
         /\ Pair(L, r) => Pair(Append(L, turn), r)
         /\ Whole(L, r) => Whole(Append(L, turn), r)
<1>1. Absent(L, r) => Absent(Append(L, turn), r)
  BY AppendEntries DEF Absent
<1>2. Pair(L, r) => Pair(Append(L, turn), r)
  <2> SUFFICES ASSUME Pair(L, r) PROVE Pair(Append(L, turn), r)
    OBVIOUS
  <2>1. PICK n \in DOMAIN L :
          /\ L[n] = User(r) /\ n + 1 \in DOMAIN L /\ L[n + 1] = Reply(r)
          /\ \A m \in DOMAIN L : (L[m] = User(r) => m = n) /\ (L[m] = Reply(r) => m = n + 1)
    BY DEF Pair
  <2> QED
    BY <2>1, AppendEntries DEF Pair
<1>3. Whole(L, r) => Whole(Append(L, turn), r)
  BY AppendEntries DEF Whole, Has
<1> QED
  BY <1>1, <1>2, <1>3

LEMMA AppendMessage ==
  ASSUME NEW r \in Requests, NEW L \in Seq(Turns), Absent(L, r)
  PROVE  Half(Append(L, User(r)), r) /\ Whole(Append(L, User(r)), r)
<1>1. User(r) \in Turns /\ User(r) # Reply(r)
  BY TurnsDiffer DEF User, Turns
<1> QED
  BY <1>1, AppendEntries DEF Absent, Half, Whole, Has

LEMMA AppendReply ==
  ASSUME NEW r \in Requests, NEW L \in Seq(Turns), Half(L, r)
  PROVE  Pair(Append(L, Reply(r)), r) /\ Whole(Append(L, Reply(r)), r)
<1>1. Reply(r) \in Turns /\ User(r) # Reply(r)
  BY TurnsDiffer DEF Reply, Turns
<1> DEFINE M == Append(L, Reply(r))
<1>2. /\ DOMAIN M = DOMAIN L \union {Len(L) + 1} /\ Len(L) \in DOMAIN L
      /\ M[Len(L)] = User(r) /\ M[Len(L) + 1] = Reply(r)
      /\ \A n \in DOMAIN L : M[n] = L[n]
  BY <1>1, AppendEntries DEF Half
<1>3. \A m \in DOMAIN M : (M[m] = User(r) => m = Len(L)) /\ (M[m] = Reply(r) => m = Len(L) + 1)
  BY <1>1, <1>2 DEF Half
<1>4. Pair(M, r)
  BY <1>2, <1>3 DEF Pair
<1>5. Whole(M, r)
  BY <1>2 DEF Whole, Has
<1> QED
  BY <1>4, <1>5

-----------------------------------------------------------------------------
(* The kinds of steps, as the history sees them *)

\* No list changes, and nobody takes a step of append_turn that works.
Quiet ==
  /\ turns' = turns /\ gone' = gone
  /\ \A r \in Requests : met[r] \subseteq met'[r]
  /\ \A r \in Requests :
       \/ pc'[r] = pc[r] /\ req'[r].session = req[r].session /\ req'[r].copy = req[r].copy
       \/ pc[r] \in NotYet /\ pc'[r] \in NotYet \ {"write_user"}
       \/ pc'[r] \in {"unavailable", "lost"}

GotTurns(r) ==
  /\ pc[r] \in {"read_user", "read_reply"}
  /\ pc' = [pc EXCEPT ![r] = IF pc[r] = "read_user" THEN "write_user" ELSE "write_reply"]
  /\ Fetch(r) /\ Meet(r)
  /\ turns' = turns /\ gone' = gone

StoredTurn(r) ==
  /\ pc[r] \in Writing
  /\ Store(r, IF pc[r] = "write_user" THEN User(r) ELSE Reply(r))
  /\ \/ pc' = [pc EXCEPT ![r] = IF pc[r] = "write_user" THEN "read_reply" ELSE "ok"]
     \/ pc' = [pc EXCEPT ![r] = "unavailable"]
  /\ req' = [req EXCEPT ![r].copy = <<>>]
  /\ met' = met /\ gone' = gone

LEMMA JudgeQuiet ==
  ASSUME TypeInv, NEW r \in Requests, NEW n, NEW c, Judge(r, n, c)
  PROVE  /\ pc'[r] \in {"limited", "agent"}
         /\ \A q \in Requests \ {r} : pc'[q] = pc[q] /\ req'[q] = req[q]
BY DEF Judge, Goto, TypeInv, TypeOK

LEMMA GateQuiet ==
  ASSUME TypeInv, NEW r \in Requests, Receive(r) \/ Incr(r) \/ SetTtl(r) \/ Agent(r)
  PROVE  Quiet
<1>1. turns' = turns /\ gone' = gone /\ met' = met
  BY DEF Receive, Incr, SetTtl, Agent, redis, history
<1>2. pc[r] \in {"new", "incr", "expire", "agent"}
  BY DEF Receive, Incr, SetTtl, Agent
<1>3. /\ pc'[r] \in (NotYet \ {"write_user"}) \union {"unavailable"}
      /\ \A q \in Requests \ {r} : pc'[q] = pc[q] /\ req'[q] = req[q]
  <2>1. CASE Receive(r)
    BY <2>1 DEF Receive, Goto, TypeInv, TypeOK, NotYet
  <2>2. CASE Incr(r)
    <3> DEFINE n == KeyOf(r).n + 1
               c == IF InWindow(req[r].window) THEN "in_time" ELSE "late"
    <3>1. CASE Judge(r, n, c)
      BY <3>1, JudgeQuiet DEF NotYet
    <3>2. CASE /\ req' = [req EXCEPT ![r].counted = c] \/ UNCHANGED req
               /\ Goto(r, "expire") \/ Goto(r, "unavailable")
      BY <3>2 DEF Goto, TypeInv, TypeOK, NotYet
    <3> QED
      BY <2>2, <3>1, <3>2 DEF Incr
  <2>3. CASE SetTtl(r)
    <3>1. CASE Judge(r, 1, req[r].counted)
      BY <3>1, JudgeQuiet DEF NotYet
    <3>2. CASE Goto(r, "unavailable") /\ UNCHANGED req
      BY <3>2 DEF Goto, TypeInv, TypeOK, NotYet
    <3> QED
      BY <2>3, <3>1, <3>2 DEF SetTtl
  <2>4. CASE Agent(r)
    BY <2>4 DEF Agent, Goto, TypeInv, TypeOK, NotYet
  <2> QED
    BY <2>1, <2>2, <2>3, <2>4
<1> QED
  BY <1>1, <1>2, <1>3 DEF Quiet, NotYet

LEMMA ReadKinds ==
  ASSUME TypeInv, NEW r \in Requests,
         \/ ReadTurns(r, "read_user", "write_user")
         \/ ReadTurns(r, "read_reply", "write_reply")
  PROVE  Quiet \/ GotTurns(r)
<1>1. turns' = turns /\ gone' = gone /\ Meet(r)
  BY DEF ReadTurns, redis
<1>2. CASE Goto(r, "unavailable") /\ UNCHANGED req
  <2>1. \A q \in Requests : met[q] \subseteq met'[q]
    BY <1>1 DEF Meet, TypeInv, TypeOK
  <2>2. /\ pc'[r] = "unavailable"
        /\ \A q \in Requests \ {r} : pc'[q] = pc[q] /\ req'[q] = req[q]
    BY <1>2 DEF Goto, TypeInv, TypeOK
  <2> QED
    BY <1>1, <2>1, <2>2 DEF Quiet
<1>3. CASE ~(Goto(r, "unavailable") /\ UNCHANGED req)
  BY <1>1, <1>3 DEF ReadTurns, GotTurns, Goto
<1> QED
  BY <1>2, <1>3

LEMMA WriteKinds ==
  ASSUME TypeInv, NEW r \in Requests,
         \/ WriteTurn(r, "write_user", User(r), "read_reply")
         \/ WriteTurn(r, "write_reply", Reply(r), "ok")
  PROVE  Quiet \/ StoredTurn(r)
<1>1. met' = met /\ gone' = gone /\ req' = [req EXCEPT ![r].copy = <<>>]
  BY DEF WriteTurn, history
<1>2. CASE Goto(r, "unavailable") /\ UNCHANGED turns
  <2>1. /\ pc'[r] = "unavailable"
        /\ \A q \in Requests \ {r} : pc'[q] = pc[q] /\ req'[q] = req[q]
    BY <1>1, <1>2 DEF Goto, TypeInv, TypeOK
  <2> QED
    BY <1>1, <1>2, <2>1 DEF Quiet
<1>3. CASE ~(Goto(r, "unavailable") /\ UNCHANGED turns)
  BY <1>1, <1>3 DEF WriteTurn, StoredTurn, Goto, Writing
<1> QED
  BY <1>2, <1>3

\* Every step is of one of four kinds.
LEMMA StepKinds ==
  ASSUME TypeInv, [Next]_vars
  PROVE  \/ Quiet
         \/ \E r \in Requests : GotTurns(r) \/ StoredTurn(r)
         \/ \E s \in Sessions : HistoryExpires(s)
<1>1. CASE \E r \in Requests : Receive(r) \/ Step(r)
  BY <1>1, GateQuiet, ReadKinds, WriteKinds DEF Step, AppendTurns
<1>2. CASE Tick
  BY <1>2 DEF Tick, Quiet, history
<1>3. CASE Crash
  <2>1. \A r \in Requests : pc'[r] = pc[r] \/ pc'[r] = "lost"
    BY <1>3 DEF Crash
  <2> QED
    BY <1>3, <2>1 DEF Crash, Quiet, redis, history
<1>4. CASE UNCHANGED vars
  BY <1>4 DEF vars, Quiet
<1> QED
  BY <1>1, <1>2, <1>3, <1>4 DEF Next

-----------------------------------------------------------------------------
(* Each kind of step keeps what is known of the history *)

LEMMA QuietKeeps ==
  ASSUME TypeInv, HistoryInv, Quiet
  PROVE  HistoryInv'
<1>1. \A r \in Requests : Apart(r)' => Apart(r)
  BY DEF Apart, Quiet
<1>2. \A r \in Requests :
        pc'[r] \in {"write_user", "read_reply", "write_reply", "ok"} =>
          pc'[r] = pc[r] /\ req'[r].session = req[r].session /\ req'[r].copy = req[r].copy
  BY DEF Quiet, NotYet
<1>3. AbsentBefore'
  <2>1. \A r \in Requests : pc'[r] \in NotYet => pc[r] \in NotYet
    BY DEF Quiet, NotYet
  <2> QED
    BY <1>2, <2>1 DEF HistoryInv, AbsentBefore, Writing, Quiet
<1>4. OverlapsMeet'
  BY <1>2 DEF HistoryInv, OverlapsMeet, Quiet
<1>5. MessageIsLast'
  BY <1>1, <1>2 DEF HistoryInv, MessageIsLast, Quiet
<1>6. PairStays'
  BY <1>1, <1>2 DEF HistoryInv, PairStays, Writing, Quiet
<1>7. NoReplyAlone'
  BY <1>1, <1>2 DEF HistoryInv, NoReplyAlone, Writing, Quiet
<1> QED
  BY <1>3, <1>4, <1>5, <1>6, <1>7 DEF HistoryInv

\* A GET that works: the copy is the list, and those who append are met.
LEMMA GotEffect ==
  ASSUME TypeInv, NEW r \in Requests, GotTurns(r)
  PROVE  /\ turns' = turns /\ gone' = gone
         /\ \A q \in Requests : req'[q].session = req[q].session /\ met[q] \subseteq met'[q]
         /\ req[r].session \in Sessions /\ req'[r].copy = turns[req[r].session]
         /\ \A q \in Requests \ {r} : pc'[q] = pc[q] /\ req'[q].copy = req[q].copy
         /\ pc'[r] = IF pc[r] = "read_user" THEN "write_user" ELSE "write_reply"
         /\ \A q \in Requests \ {r} :
              IsAppending(q, req[r].session) => q \in met'[r] /\ r \in met'[q]
<1>1. req[r].session \in Sessions
  BY DEF GotTurns, TypeInv, HasSession
<1>2. \A q \in Requests \ {r} :
        IsAppending(q, req[r].session) => q \in met'[r] /\ r \in met'[q]
  BY DEF GotTurns, Meet, TypeInv, TypeOK
<1>3. \A q \in Requests : met[q] \subseteq met'[q]
  BY DEF GotTurns, Meet, TypeInv, TypeOK
<1>4. /\ \A q \in Requests : req'[q].session = req[q].session
      /\ req'[r].copy = turns[req[r].session]
      /\ \A q \in Requests \ {r} : req'[q].copy = req[q].copy
  BY DEF GotTurns, Fetch, TypeInv, TypeOK, Locals
<1> QED
  BY <1>1, <1>2, <1>3, <1>4 DEF GotTurns, TypeInv, TypeOK

LEMMA GotKeeps ==
  ASSUME TypeInv, HistoryInv, NEW r \in Requests, GotTurns(r)
  PROVE  HistoryInv'
<1> DEFINE s == req[r].session
<1>1. /\ turns' = turns /\ gone' = gone
      /\ \A q \in Requests : req'[q].session = req[q].session /\ met[q] \subseteq met'[q]
      /\ s \in Sessions /\ req'[r].copy = turns[s]
      /\ \A q \in Requests \ {r} : pc'[q] = pc[q] /\ req'[q].copy = req[q].copy
      /\ pc'[r] = IF pc[r] = "read_user" THEN "write_user" ELSE "write_reply"
      /\ \A q \in Requests \ {r} : IsAppending(q, s) => q \in met'[r] /\ r \in met'[q]
  BY GotEffect
<1>2. pc[r] \in {"read_user", "read_reply"}
  BY DEF GotTurns
<1> HIDE DEF s
<1>3. \A q \in Requests : Apart(q)' => Apart(q)
  BY <1>1 DEF Apart
<1>4. AbsentBefore'
  <2>1. \A q \in Requests : pc'[q] \in NotYet => pc[q] \in NotYet
    BY <1>1, <1>2 DEF NotYet
  <2> QED
    BY <1>1, <2>1 DEF HistoryInv, AbsentBefore, Writing
<1>5. OverlapsMeet'
  BY <1>1, <1>2 DEF HistoryInv, OverlapsMeet, IsAppending, s
<1>6. MessageIsLast'
  BY <1>1, <1>2, <1>3 DEF HistoryInv, MessageIsLast, s
<1>7. PairStays'
  <2>1. ASSUME NEW q \in Requests, Apart(q)', pc'[q] = "ok"
        PROVE  /\ q # r /\ pc[q] = "ok" /\ Apart(q)
               /\ Pair(turns[req[q].session], q)
               /\ \A p \in Requests :
                    (pc[p] \in Writing /\ req[p].session = req[q].session) => Pair(req[p].copy, q)
    BY <1>1, <1>2, <1>3, <2>1 DEF HistoryInv, PairStays
  <2> QED
    BY <1>1, <2>1 DEF PairStays, Writing, s
<1>8. NoReplyAlone'
  BY <1>1, <1>3 DEF HistoryInv, NoReplyAlone, Writing, s
<1> QED
  BY <1>4, <1>5, <1>6, <1>7, <1>8 DEF HistoryInv

\* A SET that works: the list becomes the copy with the turn at its end.
LEMMA StoredEffect ==
  ASSUME TypeInv, NEW r \in Requests, StoredTurn(r)
  PROVE  /\ gone' = gone /\ met' = met
         /\ \A q \in Requests : req'[q].session = req[q].session
         /\ req[r].session \in Sessions /\ req[r].copy \in Seq(Turns)
         /\ \A q \in Requests \ {r} : pc'[q] = pc[q] /\ req'[q].copy = req[q].copy
         /\ \A s \in Sessions \ {req[r].session} : turns'[s] = turns[s]
         /\ turns'[req[r].session] =
              Append(req[r].copy, IF pc[r] = "write_user" THEN User(r) ELSE Reply(r))
         /\ \/ pc'[r] = IF pc[r] = "write_user" THEN "read_reply" ELSE "ok"
            \/ pc'[r] = "unavailable"
<1>1. req[r].session \in Sessions /\ req[r].copy \in Seq(Turns)
  BY DEF StoredTurn, Writing, TypeInv, TypeOK, HasSession, Locals
<1>2. /\ \A q \in Requests : req'[q].session = req[q].session
      /\ \A q \in Requests \ {r} : req'[q].copy = req[q].copy
  BY DEF StoredTurn, TypeInv, TypeOK, Locals
<1>3. /\ \A s \in Sessions \ {req[r].session} : turns'[s] = turns[s]
      /\ turns'[req[r].session] =
              Append(req[r].copy, IF pc[r] = "write_user" THEN User(r) ELSE Reply(r))
  BY <1>1 DEF StoredTurn, Store, TypeInv, TypeOK
<1> QED
  BY <1>1, <1>2, <1>3 DEF StoredTurn, TypeInv, TypeOK

LEMMA StoredKeeps ==
  ASSUME TypeInv, HistoryInv, NEW r \in Requests, StoredTurn(r)
  PROVE  HistoryInv'
<1> DEFINE s == req[r].session
           L == req[r].copy
           turn == IF pc[r] = "write_user" THEN User(r) ELSE Reply(r)
<1>1. /\ gone' = gone /\ met' = met
      /\ \A q \in Requests : req'[q].session = req[q].session
      /\ s \in Sessions /\ L \in Seq(Turns)
      /\ \A q \in Requests \ {r} : pc'[q] = pc[q] /\ req'[q].copy = req[q].copy
      /\ \A t \in Sessions \ {s} : turns'[t] = turns[t]
      /\ turns'[s] = Append(L, turn)
      /\ \/ pc'[r] = IF pc[r] = "write_user" THEN "read_reply" ELSE "ok"
         \/ pc'[r] = "unavailable"
  BY StoredEffect
<1>2. pc[r] \in {"write_user", "write_reply"}
  BY DEF StoredTurn, Writing
<1>3. turn \in Turns /\ \A q \in Requests \ {r} : turn # User(q) /\ turn # Reply(q)
  BY TurnsDiffer DEF User, Reply, Turns
<1>4. \A q \in Requests \ {r} :
        /\ Absent(L, q) => Absent(Append(L, turn), q)
        /\ Pair(L, q) => Pair(Append(L, turn), q)
        /\ Whole(L, q) => Whole(Append(L, turn), q)
  BY <1>1, <1>3, AppendOther
<1>5. pc[r] = "write_user" => Half(Append(L, turn), r) /\ Whole(Append(L, turn), r)
  BY <1>1, <1>2, AppendMessage DEF HistoryInv, AbsentBefore, NotYet, Writing
<1>6. (pc[r] = "write_reply" /\ Apart(r)) => Pair(Append(L, turn), r) /\ Whole(Append(L, turn), r)
  BY <1>1, <1>2, AppendReply DEF HistoryInv, MessageIsLast
<1>7. \A q \in Requests : Apart(q)' <=> Apart(q)
  BY <1>1 DEF Apart
\* Nobody else of this session is between a first GET and a last SET unmet.
<1>8. \A q \in Requests \ {r} :
        (/\ req[q].session = s /\ Apart(q)) =>
          pc[q] \notin {"write_user", "read_reply", "write_reply"}
  BY <1>2 DEF HistoryInv, OverlapsMeet, Apart, s
<1> HIDE DEF s, L, turn
<1>9. AbsentBefore'
  <2>1. ASSUME NEW q \in Requests, pc'[q] \in NotYet
        PROVE  /\ \A t \in Sessions : Absent(turns'[t], q)
               /\ \A p \in Requests : pc'[p] \in Writing => Absent(req'[p].copy, q)
    <3>1. q # r /\ pc[q] \in NotYet
      BY <1>1, <1>2, <2>1 DEF NotYet
    <3>2. Absent(L, q) /\ \A t \in Sessions : Absent(turns[t], q)
      BY <1>2, <3>1 DEF HistoryInv, AbsentBefore, Writing, L
    <3>3. \A t \in Sessions : Absent(turns'[t], q)
      BY <1>1, <1>4, <3>1, <3>2
    <3>4. \A p \in Requests : pc'[p] \in Writing => p # r
      BY <1>1, <1>2 DEF Writing
    <3> QED
      BY <1>1, <3>1, <3>3, <3>4 DEF HistoryInv, AbsentBefore
  <2> QED
    BY <2>1 DEF AbsentBefore
<1>10. OverlapsMeet'
  BY <1>1, <1>2 DEF HistoryInv, OverlapsMeet
<1>11. MessageIsLast'
  <2>1. ASSUME NEW q \in Requests, Apart(q)', pc'[q] \in {"read_reply", "write_reply"}
        PROVE  /\ Half(turns'[req'[q].session], q)
               /\ pc'[q] = "write_reply" => Half(req'[q].copy, q)
    <3>1. CASE q = r
      BY <1>1, <1>2, <1>5, <2>1, <3>1 DEF s
    <3>2. CASE q # r
      <4>1. pc[q] = pc'[q] /\ Apart(q) /\ req[q].session # s
        BY <1>1, <1>7, <1>8, <2>1, <3>2
      <4>2. req[q].session \in Sessions
        BY <4>1, <2>1 DEF TypeInv, HasSession
      <4> QED
        BY <1>1, <2>1, <3>2, <4>1, <4>2 DEF HistoryInv, MessageIsLast
    <3> QED
      BY <3>1, <3>2
  <2> QED
    BY <2>1 DEF MessageIsLast
<1>12. PairStays'
  <2>1. ASSUME NEW q \in Requests, Apart(q)', pc'[q] = "ok"
        PROVE  /\ Pair(turns'[req'[q].session], q)
               /\ \A p \in Requests :
                    (pc'[p] \in Writing /\ req'[p].session = req'[q].session) =>
                      Pair(req'[p].copy, q)
    <3>1. CASE q = r
      <4>1. pc[r] = "write_reply" /\ Apart(r)
        BY <1>1, <1>2, <1>7, <2>1, <3>1
      <4>2. \A p \in Requests \ {r} : req[p].session = s => pc[p] \notin Writing
        BY <4>1 DEF HistoryInv, OverlapsMeet, Apart, Writing, s
      <4>3. Pair(turns'[req'[q].session], q)
        BY <1>1, <1>6, <3>1, <4>1 DEF s
      <4>4. \A p \in Requests \ {r} :
              pc'[p] \in Writing => req'[p].session # req'[q].session
        BY <1>1, <3>1, <4>2 DEF s
      <4>5. pc'[r] \notin Writing
        BY <1>1, <1>2 DEF Writing
      <4> QED
        BY <4>3, <4>4, <4>5
    <3>2. CASE q # r
      <4>1. pc[q] = "ok" /\ Apart(q) /\ req[q].session \in Sessions
        BY <1>1, <1>7, <2>1, <3>2 DEF TypeInv, HasSession
      <4>2. /\ Pair(turns[req[q].session], q)
            /\ \A p \in Requests :
                 (pc[p] \in Writing /\ req[p].session = req[q].session) => Pair(req[p].copy, q)
        BY <4>1 DEF HistoryInv, PairStays
      <4>3. req[q].session = s => Pair(L, q)
        BY <1>2, <4>2 DEF Writing, s, L
      <4>4. Pair(turns'[req'[q].session], q)
        BY <1>1, <1>4, <3>2, <4>1, <4>2, <4>3
      <4>5. \A p \in Requests : pc'[p] \in Writing => p # r
        BY <1>1, <1>2 DEF Writing
      <4> QED
        BY <1>1, <4>2, <4>4, <4>5
    <3> QED
      BY <3>1, <3>2
  <2> QED
    BY <2>1 DEF PairStays
<1>13. NoReplyAlone'
  <2>1. ASSUME NEW q \in Requests, Apart(q)'
        PROVE  /\ \A t \in Sessions : Whole(turns'[t], q)
               /\ \A p \in Requests : pc'[p] \in Writing => Whole(req'[p].copy, q)
    <3>1. Apart(q)
      BY <1>7, <2>1
    <3>2. Whole(L, q) /\ \A t \in Sessions : Whole(turns[t], q)
      BY <1>2, <3>1 DEF HistoryInv, NoReplyAlone, Writing, L
    <3>3. \A t \in Sessions : Whole(turns'[t], q)
      BY <1>1, <1>2, <1>4, <1>5, <1>6, <3>1, <3>2
    <3>4. \A p \in Requests : pc'[p] \in Writing => p # r
      BY <1>1, <1>2 DEF Writing
    <3> QED
      BY <1>1, <3>1, <3>3, <3>4 DEF HistoryInv, NoReplyAlone
  <2> QED
    BY <2>1 DEF NoReplyAlone
<1> QED
  BY <1>9, <1>10, <1>11, <1>12, <1>13 DEF HistoryInv

\* A list at its TTL takes whoever has a turn in it out of the claims.
LEMMA ExpiresKeeps ==
  ASSUME TypeInv, HistoryInv, NEW s \in Sessions, HistoryExpires(s)
  PROVE  HistoryInv'
<1>1. /\ pc' = pc /\ req' = req /\ met' = met
      /\ gone' = gone \union {turns[s][n][1] : n \in DOMAIN turns[s]}
      /\ turns'[s] = <<>> /\ \A t \in Sessions \ {s} : turns'[t] = turns[t]
  BY DEF HistoryExpires, TypeInv, TypeOK
<1>2. \A q \in Requests : Apart(q)' => Apart(q) /\ Absent(turns[s], q)
  BY <1>1 DEF Apart, Absent, User, Reply
<1>3. \A q \in Requests : ~Half(turns[s], q) \/ ~Absent(turns[s], q)
  <2>1. turns[s] \in Seq(Turns)
    BY DEF TypeInv, TypeOK
  <2> QED
    BY <2>1 DEF Half, Absent
<1>4. \A q \in Requests : ~Pair(turns[s], q) \/ ~Absent(turns[s], q)
  BY DEF Pair, Absent
<1>5. \A q \in Requests : Absent(<<>>, q) /\ Whole(<<>>, q)
  BY DEF Absent, Whole, Has
<1>6. AbsentBefore'
  BY <1>1, <1>5 DEF HistoryInv, AbsentBefore
<1>7. OverlapsMeet'
  BY <1>1 DEF HistoryInv, OverlapsMeet
<1>8. MessageIsLast'
  BY <1>1, <1>2, <1>3 DEF HistoryInv, MessageIsLast, TypeInv, HasSession
<1>9. PairStays'
  BY <1>1, <1>2, <1>4 DEF HistoryInv, PairStays, TypeInv, HasSession
<1>10. NoReplyAlone'
  BY <1>1, <1>2, <1>5 DEF HistoryInv, NoReplyAlone
<1> QED
  BY <1>6, <1>7, <1>8, <1>9, <1>10 DEF HistoryInv

LEMMA HistoryInit == Init => HistoryInv
<1> SUFFICES ASSUME Init PROVE HistoryInv
  OBVIOUS
<1>1. \A r \in Requests : pc[r] = "new"
  BY DEF Init
<1>2. \A s \in Sessions, r \in Requests : Absent(turns[s], r) /\ Whole(turns[s], r)
  BY DEF Init, Absent, Whole, Has
<1> QED
  BY <1>1, <1>2 DEF HistoryInv, AbsentBefore, OverlapsMeet, MessageIsLast, PairStays,
                     NoReplyAlone, Writing

LEMMA HistoryAlways == Spec => [](TypeInv /\ HistoryInv)
<1>1. TypeInv /\ HistoryInv /\ [Next]_vars => HistoryInv'
  BY StepKinds, QuietKeeps, GotKeeps, StoredKeeps, ExpiresKeeps
<1> QED
  BY <1>1, HistoryInit, TypeInit, TypeStep, PTL DEF Spec

\* A request answered 200 keeps both turns in the history, next to each other,
\* whoever appends before or after it: append_turn loses turns only of requests
\* that appended at the same time, or with the whole list at its TTL.
THEOREM StoredTurns == Spec => []StoredTurnsStay
<1>1. ASSUME PairStays PROVE StoredTurnsStay
  <2>1. ASSUME NEW r \in Requests, pc[r] = "ok", met[r] = {}, r \notin gone
        PROVE  \E n \in DOMAIN turns[req[r].session] :
                 Places(r, User(r)) = {n} /\ Places(r, Reply(r)) = {n + 1}
    BY <1>1, <2>1 DEF PairStays, Pair, Apart, Places
  <2> QED
    BY <2>1 DEF StoredTurnsStay
<1> QED
  BY <1>1, HistoryAlways, PTL DEF HistoryInv

\* A message without its reply is that of a request in flight, or answered 503,
\* or lost, or overlapped by another; no reply stands without its message.
THEOREM HalfTurnTold == Spec => []HalfTurnIsTold
<1>1. ASSUME TypeInv, HistoryInv PROVE HalfTurnIsTold
  <2>1. ASSUME NEW r \in Requests, req[r].session # None
        PROVE  req[r].session \in Sessions
    BY <1>1, <2>1 DEF TypeInv, TypeOK, Locals
  <2>2. ASSUME NEW r \in Requests, req[r].session # None, met[r] = {}, r \notin gone,
               Places(r, User(r)) # {}, Places(r, Reply(r)) = {}
        PROVE  pc[r] \in Appending \union {"unavailable", "lost"}
    <3>1. pc[r] \notin NotYet
      BY <1>1, <2>1, <2>2 DEF HistoryInv, AbsentBefore, Absent, Places
    <3>2. pc[r] # "ok"
      BY <1>1, <2>2 DEF HistoryInv, PairStays, Pair, Apart, Places
    <3> QED
      BY <1>1, <3>1, <3>2 DEF NotYet, TypeInv, TypeOK
  <2>3. ASSUME NEW r \in Requests, req[r].session # None, met[r] = {}, r \notin gone
        PROVE  ~(Places(r, Reply(r)) # {} /\ Places(r, User(r)) = {})
    BY <1>1, <2>1, <2>3 DEF HistoryInv, NoReplyAlone, Whole, Has, Apart, Places
  <2> QED
    BY <2>2, <2>3 DEF HalfTurnIsTold
<1> QED
  BY <1>1, HistoryAlways, PTL

-----------------------------------------------------------------------------
(* The rate limiter *)

\* The requests counted under the limiter's key of session s and window w.
CountedIn(s, w) ==
  {q \in Requests : req[q].session = s /\ req[q].window = w /\ req[q].counted # "no"}

\* The key never says more than the requests counted under it, and a refused
\* request is one of more than MaxRequests of them.
CountIsBacked ==
  /\ \A s \in Sessions, w \in Windows : counter[s][w].n <= Cardinality(CountedIn(s, w))
  /\ \A r \in Requests :
       /\ pc[r] \in {"new", "incr"} => req[r].counted = "no"
       /\ pc[r] = "expire" => req[r].counted # "no"
       /\ pc[r] = "limited" =>
            /\ req[r].counted # "no"
            /\ Cardinality(CountedIn(req[r].session, req[r].window)) > MaxRequests

\* What the limiter wrote about a request.
SameGate(q) ==
  /\ req'[q].session = req[q].session /\ req'[q].window = req[q].window
  /\ req'[q].counted = req[q].counted

LEMMA CountedFinite ==
  \A s, w : IsFiniteSet(CountedIn(s, w)) /\ Cardinality(CountedIn(s, w)) \in Nat
BY RequestsAssumption, FS_Subset, FS_CardinalityType DEF CountedIn

\* A request that is counted adds itself to its own key's requests only.
LEMMA CountedGrows ==
  \A s, w, r : r \notin CountedIn(s, w) =>
    Cardinality(CountedIn(s, w) \union {r}) = Cardinality(CountedIn(s, w)) + 1
BY CountedFinite, FS_AddElement

\* A step that counts nobody keeps the invariant: the gate of a request stays as
\* it is, or it arrives, or a limit of 0 refuses the request that made the key.
LEMMA NobodyCounted ==
  ASSUME TypeInv, CountIsBacked,
         \A q \in Requests : SameGate(q) \/ (req[q].counted = "no" /\ req'[q].counted = "no"),
         \A q \in Requests :
           \/ pc'[q] = pc[q] /\ SameGate(q)
           \/ pc'[q] \notin {"new", "incr", "expire", "limited"}
           \/ pc'[q] = "incr" /\ req'[q].counted = "no"
           \/ pc'[q] = "limited" /\ pc[q] = "expire" /\ MaxRequests < 1 /\ SameGate(q),
         \A s \in Sessions, w \in Windows :
           counter'[s][w].n = counter[s][w].n \/ counter'[s][w].n = 0
  PROVE  CountIsBacked'
<1>1. ASSUME NEW s, NEW w PROVE CountedIn(s, w)' = CountedIn(s, w)
  BY DEF CountedIn, SameGate
<1>2. ASSUME NEW s \in Sessions, NEW w \in Windows
      PROVE  counter'[s][w].n <= Cardinality(CountedIn(s, w)')
  <2>1. counter[s][w].n <= Cardinality(CountedIn(s, w)) /\ Cardinality(CountedIn(s, w)) \in Nat
    BY CountedFinite DEF CountIsBacked
  <2>2. CountedIn(s, w)' = CountedIn(s, w)
    BY <1>1
  <2>3. CASE counter'[s][w].n = counter[s][w].n
    BY <2>1, <2>2, <2>3
  <2>4. CASE counter'[s][w].n = 0
    BY <2>1, <2>2, <2>4
  <2> QED
    BY <2>3, <2>4
<1>3. ASSUME NEW r \in Requests
      PROVE  /\ pc'[r] \in {"new", "incr"} => req'[r].counted = "no"
             /\ pc'[r] = "expire" => req'[r].counted # "no"
             /\ pc'[r] = "limited" =>
                  /\ req'[r].counted # "no"
                  /\ (Cardinality(CountedIn(req[r].session, req[r].window)) > MaxRequests)'
  <2> DEFINE C == CountedIn(req[r].session, req[r].window)
  <2>1. CASE pc'[r] = pc[r] /\ SameGate(r)
    <3>1. C' = C
      BY <2>1 DEF CountedIn, SameGate
    <3> QED
      BY <2>1, <3>1 DEF CountIsBacked, SameGate
  <2>2. CASE pc'[r] = "limited" /\ pc[r] = "expire" /\ MaxRequests < 1 /\ SameGate(r)
    <3>1. C' = C
      BY <2>2 DEF CountedIn, SameGate
    <3>2. r \in C /\ req'[r].counted # "no"
      BY <2>2 DEF CountIsBacked, CountedIn, SameGate
    <3>3. Cardinality(C) \in Nat /\ Cardinality(C) # 0
      BY <3>2, CountedFinite, FS_EmptySet
    <3> QED
      BY <2>2, <3>1, <3>2, <3>3, BoundsAssumption
  <2> QED
    BY <2>1, <2>2
<1> QED
  BY <1>2, <1>3 DEF CountIsBacked

\* The INCR that takes effect adds one to the key and the request to its set.
LEMMA OneCounted ==
  ASSUME TypeInv, CountIsBacked, NEW r \in Requests, pc[r] = "incr",
         SetKey(r, [KeyOf(r) EXCEPT !.n = KeyOf(r).n + 1]),
         req'[r].session = req[r].session, req'[r].window = req[r].window,
         req'[r].counted # "no",
         \/ pc'[r] \in {"expire", "agent", "unavailable"}
         \/ pc'[r] = "limited" /\ KeyOf(r).n + 1 > MaxRequests,
         \A q \in Requests \ {r} : pc'[q] = pc[q] /\ req'[q] = req[q]
  PROVE  CountIsBacked'
<1> DEFINE s0 == req[r].session
           w0 == req[r].window
           C0 == CountedIn(s0, w0)
<1>1. s0 \in Sessions /\ w0 \in Windows /\ req[r].counted = "no"
  BY LocalsOf DEF CountIsBacked
<1>2. counter[s0][w0] \in Keys /\ KeyOf(r) = counter[s0][w0]
  BY <1>1 DEF TypeInv, TypeOK, Keys, KeyOf
<1>3. /\ counter'[s0][w0].n = counter[s0][w0].n + 1
      /\ \A s \in Sessions, w \in Windows :
           (s # s0 \/ w # w0) => counter'[s][w] = counter[s][w]
  BY <1>1, <1>2 DEF SetKey, TypeInv, TypeOK, Keys
<1>4. r \notin C0
  BY <1>1 DEF CountedIn
<1>5. CountedIn(s0, w0)' = {q \in Requests : req'[q].session = s0' /\ req'[q].window = w0'
                                               /\ req'[q].counted # "no"}
  BY DEF CountedIn
<1>6. s0' = s0 /\ w0' = w0
  OBVIOUS
<1>7. ASSUME NEW s, NEW w
      PROVE  CountedIn(s, w)' = IF s = s0 /\ w = w0 THEN C0 \union {r} ELSE CountedIn(s, w)
  BY <1>1 DEF CountedIn
<1>8. C0' = C0 \union {r}
  BY <1>1, <1>5, <1>6 DEF CountedIn
<1>9. /\ Cardinality(C0) \in Nat /\ Cardinality(C0 \union {r}) = Cardinality(C0) + 1
      /\ counter[s0][w0].n <= Cardinality(C0)
  BY <1>1, <1>4, CountedFinite, CountedGrows DEF CountIsBacked
<1>10. ASSUME NEW s \in Sessions, NEW w \in Windows
       PROVE  counter'[s][w].n <= Cardinality(CountedIn(s, w)')
  <2>1. CASE s = s0 /\ w = w0
    <3>1. Cardinality(CountedIn(s, w)') = Cardinality(C0) + 1
      BY <1>7, <1>9, <2>1
    <3>2. counter'[s][w].n = counter[s0][w0].n + 1 /\ counter[s0][w0].n \in Nat
      BY <1>2, <1>3, <2>1 DEF Keys
    <3> QED
      BY <1>9, <3>1, <3>2
  <2>2. CASE ~(s = s0 /\ w = w0)
    BY <1>3, <1>7, <2>2 DEF CountIsBacked
  <2> QED
    BY <2>1, <2>2
<1>11. ASSUME NEW q \in Requests
       PROVE  /\ pc'[q] \in {"new", "incr"} => req'[q].counted = "no"
              /\ pc'[q] = "expire" => req'[q].counted # "no"
              /\ pc'[q] = "limited" =>
                   /\ req'[q].counted # "no"
                   /\ (Cardinality(CountedIn(req[q].session, req[q].window)) > MaxRequests)'
  <2>1. CASE q = r
    <3>1. pc'[q] = "limited" => Cardinality(C0') > MaxRequests
      BY <1>2, <1>8, <1>9, <2>1, BoundsAssumption DEF Keys
    <3> QED
      BY <2>1, <3>1
  <2>2. CASE q # r
    <3> DEFINE C == CountedIn(req[q].session, req[q].window)
    <3>1. C' = C \/ C' = C \union {r}
      BY <1>1, <2>2 DEF CountedIn
    <3>2. Cardinality(C') >= Cardinality(C)
      <4>1. CASE r \in C
        <5>1. C' = C
          BY <3>1, <4>1
        <5> QED
          BY <5>1, CountedFinite
      <4>2. CASE r \notin C
        BY <3>1, <4>2, CountedFinite, CountedGrows
      <4> QED
        BY <4>1, <4>2
    <3>3. Cardinality(C) \in Nat /\ Cardinality(C') \in Nat
      BY <3>1, CountedFinite, RequestsAssumption, FS_Subset, FS_CardinalityType DEF CountedIn
    <3>4. pc[q] = "limited" => Cardinality(C) > MaxRequests /\ req[q].counted # "no"
      BY DEF CountIsBacked
    <3>5. pc'[q] = "limited" => Cardinality(C') > MaxRequests
      <4> HIDE DEF C
      <4> QED
        BY <2>2, <3>2, <3>3, <3>4, BoundsAssumption
    <3> QED
      BY <2>2, <3>4, <3>5 DEF CountIsBacked
  <2> QED
    BY <2>1, <2>2
<1> QED
  BY <1>10, <1>11 DEF CountIsBacked

\* The end of check() writes counted and leaves the key's name alone.
LEMMA JudgeGate ==
  ASSUME TypeInv, NEW r \in Requests, NEW n, NEW c, Judge(r, n, c)
  PROVE  /\ req'[r].session = req[r].session /\ req'[r].window = req[r].window
         /\ req'[r].counted = c
         /\ pc'[r] = "agent" \/ (pc'[r] = "limited" /\ n > MaxRequests)
         /\ \A q \in Requests \ {r} : pc'[q] = pc[q] /\ req'[q] = req[q]
<1>1. req \in [Requests -> Locals] /\ req[r] \in Locals /\ pc \in [Requests -> Labels]
  BY LocalsOf DEF TypeInv, TypeOK, Labels
<1>2. CASE OverLimit(n)
  <2> DEFINE h == RetryAfter(r)
             l == [req[r] EXCEPT !.counted = c, !.hint = h]
  <2>1. req' = [req EXCEPT ![r] = l] /\ pc' = [pc EXCEPT ![r] = "limited"]
    BY <1>2 DEF Judge, Goto
  <2>2. l.session = req[r].session /\ l.window = req[r].window /\ l.counted = c
    <3> HIDE DEF h
    <3> QED
      BY <1>1 DEF Locals
  <2> HIDE DEF l
  <2> QED
    BY <1>1, <1>2, <2>1, <2>2 DEF OverLimit
<1>3. CASE ~OverLimit(n)
  <2> DEFINE l == [req[r] EXCEPT !.counted = c, !.admitted = TRUE]
  <2>1. req' = [req EXCEPT ![r] = l] /\ pc' = [pc EXCEPT ![r] = "agent"]
    BY <1>3 DEF Judge, Goto
  <2>2. l.session = req[r].session /\ l.window = req[r].window /\ l.counted = c
    BY <1>1 DEF Locals
  <2> HIDE DEF l
  <2> QED
    BY <1>1, <2>1, <2>2
<1> QED
  BY <1>2, <1>3

LEMMA IncrCounts ==
  ASSUME TypeInv, CountIsBacked, NEW r \in Requests, Incr(r) PROVE CountIsBacked'
<1> DEFINE n == KeyOf(r).n + 1
           c == IF InWindow(req[r].window) THEN "in_time" ELSE "late"
<1>1. pc[r] = "incr" /\ c # "no" /\ KeyOf(r) \in Keys /\ req[r] \in Locals
  BY KeyTypes, LocalsOf DEF Incr
<1>2. CASE SetKey(r, [KeyOf(r) EXCEPT !.n = n])
           /\ \/ req' = [req EXCEPT ![r].counted = c]
                   /\ (Goto(r, "expire") \/ Goto(r, "unavailable"))
              \/ Judge(r, n, c)
  <2>1. /\ req'[r].session = req[r].session /\ req'[r].window = req[r].window
        /\ req'[r].counted = c
        /\ \/ pc'[r] \in {"expire", "agent", "unavailable"}
           \/ pc'[r] = "limited" /\ n > MaxRequests
        /\ \A q \in Requests \ {r} : pc'[q] = pc[q] /\ req'[q] = req[q]
    <3>1. CASE Judge(r, n, c)
      BY <3>1, JudgeGate
    <3>2. CASE req' = [req EXCEPT ![r].counted = c]
               /\ (Goto(r, "expire") \/ Goto(r, "unavailable"))
      <4> HIDE DEF c
      <4> QED
        BY <1>1, <3>2 DEF Goto, TypeInv, TypeOK, Locals
    <3> QED
      BY <1>2, <3>1, <3>2
  <2> HIDE DEF c
  <2> QED
    BY <1>1, <1>2, <2>1, OneCounted
<1>3. CASE Goto(r, "unavailable") /\ UNCHANGED <<counter, req>>
  BY <1>3, NobodyCounted DEF Goto, SameGate, TypeInv, TypeOK
<1> QED
  BY <1>2, <1>3 DEF Incr

LEMMA SetTtlCounts ==
  ASSUME TypeInv, CountIsBacked, NEW r \in Requests, SetTtl(r) PROVE CountIsBacked'
<1>1. pc[r] = "expire" /\ req[r] \in Locals
  BY LocalsOf DEF SetTtl
<1>2. \A s \in Sessions, w \in Windows :
        counter'[s][w].n = counter[s][w].n \/ counter'[s][w].n = 0
  <2> DEFINE s0 == req[r].session
             w0 == req[r].window
  <2>1. s0 \in Sessions /\ w0 \in Windows /\ KeyOf(r) \in Keys
    BY <1>1, KeyTypes, LocalsOf
  <2>2. CASE Dies(r)
    <3>1. PICK key \in {NoKey, [KeyOf(r) EXCEPT !.dies = clock + Window]} : SetKey(r, key)
      BY <2>2 DEF Dies
    <3>2. key.n = 0 \/ key.n = counter[s0][w0].n
      BY <2>1 DEF NoKey, KeyOf, Keys
    <3>3. counter' = [counter EXCEPT ![s0][w0] = key]
      BY <3>1 DEF SetKey
    <3> HIDE DEF s0, w0
    <3> QED
      BY <2>1, <3>2, <3>3 DEF TypeInv, TypeOK
  <2>3. CASE UNCHANGED counter
    BY <2>3
  <2> QED
    BY <2>2, <2>3 DEF SetTtl
<1>3. CASE Judge(r, 1, req[r].counted)
  <2>1. /\ SameGate(r) /\ (pc'[r] = "agent" \/ (pc'[r] = "limited" /\ 1 > MaxRequests))
        /\ \A q \in Requests \ {r} : pc'[q] = pc[q] /\ SameGate(q)
    BY <1>3, JudgeGate DEF SameGate
  <2>2. 1 > MaxRequests => MaxRequests < 1
    BY BoundsAssumption
  <2> QED
    BY <1>1, <1>2, <2>1, <2>2, NobodyCounted
<1>4. CASE Goto(r, "unavailable") /\ UNCHANGED req
  <2>1. \A q \in Requests : SameGate(q) /\ (pc'[q] = pc[q] \/ pc'[q] = "unavailable")
    BY <1>4 DEF Goto, SameGate, TypeInv, TypeOK
  <2> QED
    BY <1>2, <2>1, NobodyCounted
<1> QED
  BY <1>3, <1>4 DEF SetTtl

LEMMA OtherStepCounts ==
  ASSUME TypeInv, CountIsBacked, NEW r \in Requests, Receive(r) \/ Agent(r) \/ AppendTurns(r)
  PROVE  CountIsBacked'
<1>1. counter' = counter
  BY DEF Receive, Agent, AppendTurns, ReadTurns, WriteTurn, redis
<1>2. CASE Receive(r)
  <2>1. /\ pc[r] = "new" /\ pc'[r] \in {"incr", "rejected"}
        /\ req'[r].counted = req[r].counted
        /\ \A q \in Requests \ {r} : pc'[q] = pc[q] /\ req'[q] = req[q]
    <3>1. req[r] \in Locals
      BY LocalsOf
    <3>2. PICK t \in Sessions :
            req' = [req EXCEPT ![r] = [@ EXCEPT !.session = t, !.window = WindowOf(clock)]]
      BY <1>2 DEF Receive
    <3>3. /\ req'[r].counted = req[r].counted
          /\ \A q \in Requests \ {r} : req'[q] = req[q]
      BY <3>1, <3>2 DEF TypeInv, TypeOK, Locals
    <3>4. /\ pc[r] = "new" /\ pc'[r] \in {"incr", "rejected"}
          /\ \A q \in Requests \ {r} : pc'[q] = pc[q]
      BY <1>2 DEF Receive, Goto, TypeInv, TypeOK
    <3> QED
      BY <3>3, <3>4
  <2>2. req[r].counted = "no"
    BY <2>1 DEF CountIsBacked
  <2> QED
    BY <1>1, <2>1, <2>2, NobodyCounted DEF SameGate
<1>3. CASE Agent(r) \/ AppendTurns(r)
  <2>1. \A q \in Requests : SameGate(q)
    <3>1. req[r] \in Locals
      BY LocalsOf
    <3>2. \/ req' = req
          \/ req' = [req EXCEPT ![r].copy = turns[req[r].session]]
          \/ req' = [req EXCEPT ![r].copy = <<>>]
      BY <1>3 DEF Agent, AppendTurns, ReadTurns, WriteTurn, Fetch
    <3>3. req \in [Requests -> Locals]
      BY DEF TypeInv, TypeOK
    <3>4. ASSUME NEW L, req' = [req EXCEPT ![r].copy = L]
          PROVE  \A q \in Requests : SameGate(q)
      BY <3>1, <3>3, <3>4 DEF SameGate, Locals
    <3> QED
      BY <3>2, <3>4 DEF SameGate
  <2>2. /\ \A q \in Requests \ {r} : pc'[q] = pc[q]
        /\ pc'[r] \notin {"new", "incr", "expire", "limited"}
    <3>1. PICK label \in {"read_user", "failed", "unavailable", "write_user", "read_reply",
                          "write_reply", "ok"} : pc' = [pc EXCEPT ![r] = label]
      BY <1>3 DEF Agent, AppendTurns, ReadTurns, WriteTurn, Goto
    <3> QED
      BY <3>1 DEF TypeInv, TypeOK
  <2> QED
    BY <1>1, <2>1, <2>2, NobodyCounted
<1> QED
  BY <1>2, <1>3

LEMMA EnvironmentCounts ==
  ASSUME TypeInv, CountIsBacked,
         (\E s \in Sessions : HistoryExpires(s)) \/ Tick \/ Crash \/ UNCHANGED vars
  PROVE  CountIsBacked'
<1>1. \A q \in Requests : SameGate(q) /\ (pc'[q] = pc[q] \/ pc'[q] = "lost")
  BY DEF HistoryExpires, Tick, Crash, vars, SameGate, TypeInv, TypeOK
<1>2. \A s \in Sessions, w \in Windows :
        counter'[s][w].n = counter[s][w].n \/ counter'[s][w].n = 0
  <2>1. ASSUME Tick, NEW s \in Sessions, NEW w \in Windows
        PROVE  counter'[s][w] = counter[s][w] \/ counter'[s][w] = NoKey
    BY <2>1 DEF Tick
  <2>2. ~Tick => counter' = counter
    BY DEF HistoryExpires, Crash, vars, redis
  <2> QED
    BY <2>1, <2>2 DEF NoKey
<1> QED
  BY <1>1, <1>2, NobodyCounted

LEMMA CountInit == Init => CountIsBacked
<1> SUFFICES ASSUME Init PROVE CountIsBacked
  OBVIOUS
<1>1. \A s \in Sessions, w \in Windows : counter[s][w].n = 0
  BY DEF Init, NoKey
<1> QED
  BY <1>1, CountedFinite DEF Init, CountIsBacked, NewRequest

\* A request is answered 429 only if as many other requests of its session and
\* window as the limit admits were counted: no failed EXPIRE, no answer lost
\* after an INCR and no other session or window takes a place of its quota.
THEOREM RefusedOnlyOverQuota == Spec => []RefusedOverQuota
<1>1. TypeInv /\ CountIsBacked /\ [Next]_vars => CountIsBacked'
  BY IncrCounts, SetTtlCounts, OtherStepCounts, EnvironmentCounts DEF Next, Step
<1>2. ASSUME TypeInv, CountIsBacked PROVE RefusedOverQuota
  <2>1. ASSUME NEW r \in Requests, pc[r] = "limited"
        PROVE  Cardinality({q \in Requests \ {r} : req[q].session = req[r].session
                              /\ req[q].window = req[r].window
                              /\ req[q].counted # "no"}) >= MaxRequests
    <3> DEFINE s == req[r].session
               w == req[r].window
               C == CountedIn(s, w)
               D == {q \in Requests \ {r} : req[q].session = req[r].session
                       /\ req[q].window = req[r].window /\ req[q].counted # "no"}
    <3>1. r \in C /\ Cardinality(C) > MaxRequests
      BY <1>2, <2>1 DEF CountIsBacked, CountedIn
    <3>2. D = C \ {r}
      BY DEF CountedIn
    <3>3. IsFiniteSet(C) /\ Cardinality(C) \in Nat
      BY CountedFinite
    <3> HIDE DEF C, D
    <3>4. Cardinality(C \ {r}) = Cardinality(C) - 1
      BY <3>1, <3>3, FS_RemoveElement
    <3>5. Cardinality(D) >= MaxRequests
      BY <3>1, <3>2, <3>3, <3>4, BoundsAssumption
    <3> QED
      BY <3>5 DEF D
  <2> QED
    BY <2>1 DEF RefusedOverQuota
<1> QED
  BY <1>1, <1>2, CountInit, TypeInit, TypeStep, PTL DEF Spec

-----------------------------------------------------------------------------
(* Retry-After *)

\* The key of a request was named by a clock of the past.
WindowPassed == \A r \in Requests : pc[r] # "new" => req[r].window <= WindowOf(clock)

\* Time brings the same window or a later one.
LEMMA WindowGrows ==
  ASSUME TypeInv PROVE WindowOf(clock) \in Nat /\ WindowOf(clock) <= WindowOf(clock + 1)
<1>1. Window \in Nat \ {0} /\ clock \in Nat
  BY BoundsAssumption DEF TypeInv, TypeOK
<1>2. clock \div Window \in Nat /\ (clock + 1) \div Window \in Nat
  BY <1>1
<1>3. clock \div Window <= (clock + 1) \div Window
  BY <1>1
<1> QED
  BY <1>2, <1>3 DEF WindowOf

\* The hint waits for the end of the answer's window, to the second, and for at
\* least a second.
LEMMA HintWaits ==
  ASSUME TypeInv, NEW r \in Requests
  PROVE  LET next == (WindowOf(clock) + 1) * Window
             back == clock + RetryAfter(r) * Second
         IN  back > next - Second /\ back > clock /\ back < next + Second
<1> DEFINE next == (WindowOf(clock) + 1) * Window
           left == next - clock
           d == left \div Second
           h == RetryAfter(r)
<1>1. /\ Second \in Nat \ {0} /\ Window \in Nat \ {0} /\ clock \in Nat
      /\ WindowOf(clock) \in Nat
  BY BoundsAssumption, WindowGrows DEF TypeInv, TypeOK
<1>2. clock < WindowOf(clock) * Window + Window
  BY <1>1 DEF WindowOf
<1>3. next = WindowOf(clock) * Window + Window /\ WindowOf(clock) * Window \in Nat
  BY <1>1
<1>4. left \in Nat \ {0} /\ next \in Nat
  BY <1>1, <1>2, <1>3
<1>5. h = IF d > 1 THEN d ELSE 1
  BY DEF RetryAfter
<1> HIDE DEF next
<1>6. d \in Nat /\ d * Second <= left /\ left < d * Second + Second /\ d * Second \in Nat
  BY <1>1, <1>4
<1> HIDE DEF left
<1>7. left = next - clock
  BY DEF left
<1> HIDE DEF d, h
<1>8. CASE d > 1
  <2>1. h * Second = d * Second /\ d * Second >= Second
    BY <1>1, <1>5, <1>6, <1>8
  <2>2. clock + h * Second > next - Second /\ clock + h * Second > clock
        /\ clock + h * Second < next + Second
    BY <1>1, <1>4, <1>6, <1>7, <2>1
  <2> QED
    BY <2>2 DEF h, next
<1>9. CASE ~(d > 1)
  <2>1. h * Second = Second /\ d * Second <= Second
    BY <1>1, <1>5, <1>6, <1>9
  <2>2. clock + h * Second > next - Second /\ clock + h * Second > clock
        /\ clock + h * Second < next + Second
    BY <1>1, <1>4, <1>6, <1>7, <2>1
  <2> QED
    BY <2>2 DEF h, next
<1> QED
  BY <1>8, <1>9

\* A step that only moves q to a label other than "limited" refuses nobody.
LEMMA MoveRefusesNobody ==
  ASSUME TypeInv, NEW q \in Requests, NEW label, Goto(q, label), label # "limited",
         NEW r \in Requests, pc'[r] = "limited"
  PROVE  pc[r] = "limited"
BY DEF Goto, TypeInv, TypeOK

\* The end of check() refuses its own request only, with that hint.
LEMMA JudgeHint ==
  ASSUME TypeInv, NEW q \in Requests, NEW n, NEW c, Judge(q, n, c),
         NEW r \in Requests, pc'[r] = "limited", pc[r] # "limited"
  PROVE  r = q /\ req'[r].hint = RetryAfter(r)
<1>1. req \in [Requests -> Locals] /\ req[q] \in Locals /\ pc \in [Requests -> Labels]
  BY LocalsOf DEF TypeInv, TypeOK, Labels
<1>2. r = q
  BY JudgeQuiet
<1>3. OverLimit(n)
  BY <1>1, <1>2 DEF Judge, Goto
<1> DEFINE h == RetryAfter(q)
           l == [req[q] EXCEPT !.counted = c, !.hint = h]
<1>4. req' = [req EXCEPT ![q] = l]
  BY <1>3 DEF Judge
<1>5. l.hint = h
  <2> HIDE DEF h
  <2> QED
    BY <1>1 DEF Locals
<1> HIDE DEF l
<1> QED
  BY <1>1, <1>2, <1>4, <1>5

\* A step of a request refuses at most that request, with that hint.
LEMMA RefusalHint ==
  ASSUME TypeInv, NEW q \in Requests, Receive(q) \/ Step(q),
         NEW r \in Requests, pc'[r] = "limited", pc[r] # "limited"
  PROVE  pc[r] # "new" /\ req'[r].hint = RetryAfter(r)
<1>1. CASE Incr(q)
  <2> DEFINE n == KeyOf(q).n + 1
             c == IF InWindow(req[q].window) THEN "in_time" ELSE "late"
  <2>1. Judge(q, n, c)
    BY <1>1, MoveRefusesNobody DEF Incr
  <2> HIDE DEF n, c
  <2>2. r = q /\ req'[r].hint = RetryAfter(r)
    BY <2>1, JudgeHint
  <2> QED
    BY <1>1, <2>2 DEF Incr
<1>2. CASE SetTtl(q)
  <2>1. Judge(q, 1, req[q].counted)
    BY <1>2, MoveRefusesNobody DEF SetTtl
  <2>2. r = q /\ req'[r].hint = RetryAfter(r)
    BY <2>1, JudgeHint
  <2> QED
    BY <1>2, <2>2 DEF SetTtl
<1>3. CASE Receive(q) \/ Agent(q) \/ AppendTurns(q)
  BY <1>3, MoveRefusesNobody DEF Receive, Agent, AppendTurns, ReadTurns, WriteTurn
<1> QED
  BY <1>1, <1>2, <1>3 DEF Step

LEMMA WindowStep == ASSUME TypeInv, WindowPassed, [Next]_vars PROVE WindowPassed'
<1>1. ASSUME NEW q \in Requests, Receive(q) PROVE WindowPassed'
  <2>1. PICK s \in Sessions :
          req' = [req EXCEPT ![q] = [@ EXCEPT !.session = s, !.window = WindowOf(clock)]]
    BY <1>1 DEF Receive
  <2>2. req[q] \in Locals /\ req \in [Requests -> Locals] /\ clock' = clock
    BY <1>1 DEF Receive, TypeInv, TypeOK
  <2>3. /\ req'[q].window = WindowOf(clock)
        /\ \A r \in Requests \ {q} : req'[r] = req[r] /\ pc'[r] = pc[r]
    BY <1>1, <2>1, <2>2 DEF Receive, Goto, Locals, TypeInv, TypeOK
  <2>4. WindowOf(clock)' = WindowOf(clock) /\ WindowOf(clock) <= WindowOf(clock)
    BY <2>2, WindowGrows DEF WindowOf
  <2> QED
    BY <2>3, <2>4 DEF WindowPassed
<1>2. ASSUME NEW q \in Requests, Step(q) PROVE WindowPassed'
  <2>1. \A r \in Requests : req'[r].window = req[r].window
    <3>1. req[q] \in Locals /\ req \in [Requests -> Locals]
      BY DEF TypeInv, TypeOK
    <3>2. ASSUME NEW n, NEW c, Judge(q, n, c)
          PROVE  \A r \in Requests : req'[r].window = req[r].window
      BY <3>2, JudgeGate
    <3>3. ASSUME NEW x, req' = [req EXCEPT ![q].copy = x] \/ req' = [req EXCEPT ![q].counted = x]
          PROVE  \A r \in Requests : req'[r].window = req[r].window
      <4>1. CASE req' = [req EXCEPT ![q].copy = x]
        BY <3>1, <4>1 DEF Locals
      <4>2. CASE req' = [req EXCEPT ![q].counted = x]
        BY <3>1, <4>2 DEF Locals
      <4> QED
        BY <3>3, <4>1, <4>2
    <3>4. CASE Incr(q) \/ SetTtl(q)
      BY <3>2, <3>3, <3>4 DEF Incr, SetTtl
    <3>5. CASE Agent(q) \/ AppendTurns(q)
      BY <3>3, <3>5 DEF Agent, AppendTurns, ReadTurns, WriteTurn, Fetch
    <3> QED
      BY <1>2, <3>4, <3>5 DEF Step
  <2>2. clock' = clock /\ pc[q] # "new"
    BY <1>2 DEF Step, Incr, SetTtl, Agent, AppendTurns, ReadTurns, WriteTurn
  <2>3. \A r \in Requests : pc[r] = "new" => pc'[r] = "new"
    <3>1. ASSUME NEW label, Goto(q, label) PROVE \A r \in Requests \ {q} : pc'[r] = pc[r]
      BY <3>1 DEF Goto, TypeInv, TypeOK
    <3>2. ASSUME NEW n, NEW c, Judge(q, n, c) PROVE \A r \in Requests \ {q} : pc'[r] = pc[r]
      BY <3>2, JudgeQuiet
    <3>3. CASE Incr(q) \/ SetTtl(q)
      BY <2>2, <3>1, <3>2, <3>3 DEF Incr, SetTtl
    <3>4. CASE Agent(q) \/ AppendTurns(q)
      BY <2>2, <3>1, <3>4 DEF Agent, AppendTurns, ReadTurns, WriteTurn
    <3> QED
      BY <1>2, <3>3, <3>4 DEF Step
  <2> QED
    BY <2>1, <2>2, <2>3 DEF WindowPassed, WindowOf
<1>3. CASE Tick
  <2>1. /\ req' = req /\ pc' = pc /\ WindowOf(clock)' = WindowOf(clock + 1)
        /\ \A r \in Requests : req[r].window \in Nat
    BY <1>3 DEF Tick, WindowOf, TypeInv, TypeOK, Locals, Windows
  <2>2. WindowOf(clock) \in Nat /\ WindowOf(clock + 1) \in Nat
        /\ WindowOf(clock) <= WindowOf(clock + 1)
    BY WindowGrows, BoundsAssumption DEF WindowOf, TypeInv, TypeOK
  <2> QED
    BY <2>1, <2>2 DEF WindowPassed
<1>4. CASE (\E s \in Sessions : HistoryExpires(s)) \/ Crash \/ UNCHANGED vars
  <2>1. req' = req /\ clock' = clock /\ \A r \in Requests : pc[r] = "new" => pc'[r] = "new"
    BY <1>4 DEF HistoryExpires, Crash, vars, TypeInv, TypeOK
  <2> QED
    BY <2>1 DEF WindowPassed, WindowOf
<1> QED
  BY <1>1, <1>2, <1>3, <1>4 DEF Next

\* A client that waits for Retry-After is back after the window it was refused
\* in, or in its last second, and at most a second into the window after the
\* answer's, whatever window the clock had reached by then.
THEOREM RetryHint == Spec => RetryHintReachesNextWindow
<1> DEFINE Hint(r) ==
             (pc'[r] = "limited" /\ pc[r] # "limited") =>
               LET back == clock + req'[r].hint * Second
               IN  /\ back > (req[r].window + 1) * Window - Second
                   /\ back > clock
                   /\ back < (WindowOf(clock) + 1) * Window + Second
<1>1. Init => WindowPassed
  BY DEF Init, WindowPassed
<1>2. ASSUME TypeInv, WindowPassed, [Next]_vars, NEW r \in Requests,
             pc'[r] = "limited", pc[r] # "limited"
      PROVE  Hint(r)
  <2>1. PICK q \in Requests : Receive(q) \/ Step(q)
    BY <1>2 DEF Next, HistoryExpires, Tick, Crash, vars
  <2>2. pc[r] # "new" /\ req'[r].hint = RetryAfter(r)
    BY <1>2, <2>1, RefusalHint
  <2>3. /\ clock + RetryAfter(r) * Second > (WindowOf(clock) + 1) * Window - Second
        /\ clock + RetryAfter(r) * Second > clock
        /\ clock + RetryAfter(r) * Second < (WindowOf(clock) + 1) * Window + Second
    BY <1>2, HintWaits
  <2>4. /\ req[r].window \in Nat /\ WindowOf(clock) \in Nat
        /\ req[r].window <= WindowOf(clock)
    BY <1>2, <2>2, WindowGrows DEF WindowPassed, TypeInv, TypeOK, Locals, Windows
  <2>5. (req[r].window + 1) * Window <= (WindowOf(clock) + 1) * Window
    BY <2>4, BoundsAssumption
  <2>6. clock + RetryAfter(r) * Second \in Int
    BY <1>2, HintIsNat, BoundsAssumption DEF TypeInv, TypeOK
  <2>7. clock + RetryAfter(r) * Second > (req[r].window + 1) * Window - Second
    <3> DEFINE back == clock + RetryAfter(r) * Second
               early == (req[r].window + 1) * Window
               late == (WindowOf(clock) + 1) * Window
    <3>1. back \in Int /\ early \in Int /\ late \in Int /\ Second \in Nat
      BY <2>4, <2>6, BoundsAssumption
    <3>2. early <= late /\ back > late - Second
      BY <2>3, <2>5
    <3> HIDE DEF back, early, late
    <3>3. back > early - Second
      BY <3>1, <3>2
    <3> QED
      BY <3>3 DEF back, early
  <2> QED
    BY <2>2, <2>3, <2>7
<1>3. TypeInv /\ WindowPassed /\ [Next]_vars => [\A r \in Requests : Hint(r)]_vars
  BY <1>2
<1>4. TypeInv /\ WindowPassed /\ [Next]_vars => WindowPassed'
  BY WindowStep
<1> QED
  BY <1>1, <1>3, <1>4, TypeInit, TypeStep, PTL DEF Spec, RetryHintReachesNextWindow

-----------------------------------------------------------------------------
(* The quota of a window *)

Late(q) == req[q].counted # "in_time"
\* The requests counted inside window w of session s; those that are admitted,
\* or will be when their EXPIRE works.
InTime(s, w) == {q \in Requests : req[q].session = s /\ req[q].window = w /\ ~Late(q)}
MayPass(s, w) == {q \in InTime(s, w) : req[q].admitted \/ pc[q] = "expire"}

\* While a window lasts its key says at least how many were counted in it: it
\* never dies before the window does.  So the admitted ones are within the limit.
QuotaInv ==
  /\ \A s \in Sessions, w \in Windows :
       /\ (clock <= MaxClock /\ WindowOf(clock) <= w) =>
            Cardinality(InTime(s, w)) <= counter[s][w].n
       /\ counter[s][w].dies # None => (w + 1) * Window <= counter[s][w].dies
       /\ MaxRequests >= 1 => Cardinality(MayPass(s, w)) <= MaxRequests
  /\ \A q \in Requests :
       /\ MaxRequests < 1 => ~req[q].admitted
       /\ pc[q] \in {"new", "incr"} => Late(q) /\ ~req[q].admitted

\* A window is over when the clock has reached the start of the next.
LEMMA WindowEnds ==
  ASSUME NEW t \in Nat, NEW w \in Nat
  PROVE  /\ WindowOf(t) <= w => t < (w + 1) * Window
         /\ w <= WindowOf(t) => (w + 1) * Window <= t + Window
<1> DEFINE d == t \div Window
<1>1. Window \in Nat \ {0} /\ d \in Nat /\ d * Window <= t /\ t < d * Window + Window
  BY BoundsAssumption
<1> HIDE DEF d
<1>2. d <= w => (d + 1) * Window <= (w + 1) * Window
  BY <1>1
<1>3. w <= d => (w + 1) * Window <= (d + 1) * Window
  BY <1>1
<1>4. (d + 1) * Window = d * Window + Window
  BY <1>1
<1>5. (w + 1) * Window \in Nat /\ (d + 1) * Window \in Nat /\ d * Window \in Nat
  BY <1>1
<1>6. (d <= w => t < (w + 1) * Window) /\ (w <= d => (w + 1) * Window <= t + Window)
  <2> DEFINE a == (w + 1) * Window
             b == (d + 1) * Window
             e == d * Window
  <2>1. a \in Nat /\ b \in Nat /\ e \in Nat /\ b = e + Window /\ e <= t /\ t < e + Window
        /\ (d <= w => b <= a) /\ (w <= d => a <= b)
    BY <1>1, <1>2, <1>3, <1>4, <1>5
  <2> HIDE DEF a, b, e
  <2>2. (d <= w => t < a) /\ (w <= d => a <= t + Window)
    BY <1>1, <2>1
  <2> QED
    BY <2>2 DEF a
<1> QED
  BY <1>6 DEF d, WindowOf

LEMMA PassFinite ==
  \A s, w : /\ IsFiniteSet(InTime(s, w)) /\ Cardinality(InTime(s, w)) \in Nat
            /\ IsFiniteSet(MayPass(s, w)) /\ Cardinality(MayPass(s, w)) \in Nat
            /\ Cardinality(MayPass(s, w)) <= Cardinality(InTime(s, w))
BY RequestsAssumption, FS_Subset, FS_CardinalityType DEF InTime, MayPass

\* A step that counts nobody keeps the quota, if no key loses its count while
\* its window lasts and only those at "expire" are admitted.
LEMMA NobodyCountedQuota ==
  ASSUME TypeInv, QuotaInv,
         \A q \in Requests : SameGate(q) \/ (Late(q) /\ Late(q)'),
         \A q \in Requests :
           (req'[q].admitted \/ pc'[q] = "expire") =>
             /\ req[q].admitted \/ pc[q] = "expire"
             /\ req'[q].admitted /\ ~req[q].admitted => MaxRequests >= 1,
         \A q \in Requests : pc'[q] \in {"new", "incr"} => Late(q)' /\ ~req'[q].admitted,
         clock <= clock', clock' \in Nat, WindowOf(clock) <= WindowOf(clock)',
         \A s \in Sessions, w \in Windows :
           /\ (clock' <= MaxClock /\ WindowOf(clock)' <= w) =>
                 counter'[s][w].n = counter[s][w].n
           /\ counter'[s][w].dies # None => (w + 1) * Window <= counter'[s][w].dies
  PROVE  QuotaInv'
<1>1. ASSUME NEW s, NEW w
      PROVE  InTime(s, w)' = InTime(s, w) /\ MayPass(s, w)' \subseteq MayPass(s, w)
  BY DEF InTime, MayPass, SameGate, Late
<1>2. ASSUME NEW s \in Sessions, NEW w \in Windows,
             clock' <= MaxClock, WindowOf(clock)' <= w
      PROVE  Cardinality(InTime(s, w)') <= counter'[s][w].n
  <2>1. clock <= MaxClock /\ WindowOf(clock) <= w
    <3>1. /\ clock \in Nat /\ clock' \in Nat /\ MaxClock \in Nat /\ w \in Nat
          /\ WindowOf(clock) \in Nat /\ WindowOf(clock)' \in Nat
      <4>1. clock \in Nat /\ MaxClock \in Nat /\ w \in Nat
        BY BoundsAssumption DEF Windows, TypeInv, TypeOK
      <4>2. Window \in Nat \ {0}
        BY BoundsAssumption
      <4>3. clock \div Window \in Nat /\ clock' \div Window \in Nat
        BY <4>1, <4>2, QuotientIsNat
      <4> QED
        BY <4>1, <4>3 DEF WindowOf
    <3> QED
      BY <1>2, <3>1
  <2> QED
    BY <1>1, <1>2, <2>1 DEF QuotaInv
<1>3. ASSUME NEW s \in Sessions, NEW w \in Windows, MaxRequests >= 1
      PROVE  Cardinality(MayPass(s, w)') <= MaxRequests
  <2> DEFINE P == MayPass(s, w)
  <2>1. P' \subseteq P /\ IsFiniteSet(P)
    BY <1>1, PassFinite
  <2>2. Cardinality(P') <= Cardinality(P) /\ Cardinality(P') \in Nat
    BY <2>1, FS_Subset, FS_CardinalityType
  <2>3. Cardinality(P) <= MaxRequests /\ Cardinality(P) \in Nat
    BY <1>3, PassFinite DEF QuotaInv
  <2> QED
    BY <2>2, <2>3, BoundsAssumption
<1>4. \A q \in Requests : MaxRequests < 1 => ~req'[q].admitted
  BY BoundsAssumption DEF QuotaInv
<1> QED
  BY <1>2, <1>3, <1>4 DEF QuotaInv

\* The INCR that takes effect: the key and its window's requests grow together,
\* and the request passes only if the count is within the limit.
LEMMA OneCountedQuota ==
  ASSUME TypeInv, QuotaInv, NEW r \in Requests, pc[r] = "incr",
         SetKey(r, [KeyOf(r) EXCEPT !.n = KeyOf(r).n + 1]), clock' = clock,
         req'[r].session = req[r].session, req'[r].window = req[r].window,
         req'[r].counted = IF InWindow(req[r].window) THEN "in_time" ELSE "late",
         pc'[r] \notin {"new", "incr"},
         req'[r].admitted => KeyOf(r).n + 1 <= MaxRequests,
         pc'[r] = "expire" => KeyOf(r).n + 1 = 1,
         \A q \in Requests \ {r} : pc'[q] = pc[q] /\ req'[q] = req[q]
  PROVE  QuotaInv'
<1> DEFINE s0 == req[r].session
           w0 == req[r].window
           n == counter[s0][w0].n + 1
<1>1. s0 \in Sessions /\ w0 \in Windows /\ Late(r) /\ ~req[r].admitted
  BY LocalsOf DEF QuotaInv
<1>2. counter[s0][w0] \in Keys /\ KeyOf(r) = counter[s0][w0] /\ n \in Nat \ {0}
  BY <1>1 DEF TypeInv, TypeOK, Keys, KeyOf
<1>3. /\ counter'[s0][w0].n = n /\ counter'[s0][w0].dies = counter[s0][w0].dies
      /\ \A s \in Sessions, w \in Windows :
           (s # s0 \/ w # w0) => counter'[s][w] = counter[s][w]
  BY <1>1, <1>2 DEF SetKey, TypeInv, TypeOK, Keys
<1>4. \A s, w : r \notin InTime(s, w)
  BY <1>1 DEF InTime
<1>5. InWindow(w0) => clock <= MaxClock /\ WindowOf(clock) <= w0
  BY <1>1, WindowGrows DEF InWindow
<1>6. ASSUME NEW s, NEW w
      PROVE  InTime(s, w)' = IF s = s0 /\ w = w0 /\ InWindow(w0)
                             THEN InTime(s0, w0) \union {r} ELSE InTime(s, w)
  BY <1>1 DEF InTime, Late
<1>7. ASSUME NEW s, NEW w
      PROVE  MayPass(s, w)' \subseteq IF s = s0 /\ w = w0 /\ InWindow(w0)
                             THEN MayPass(s0, w0) \union {r} ELSE MayPass(s, w)
  BY <1>1 DEF MayPass, InTime, Late
<1> HIDE DEF s0, w0, n
<1>8. InWindow(w0) => /\ Cardinality(InTime(s0, w0)) <= counter[s0][w0].n
                      /\ Cardinality(InTime(s0, w0) \union {r}) <= n
                      /\ Cardinality(InTime(s0, w0) \union {r}) \in Nat
  <2>1. Cardinality(InTime(s0, w0) \union {r}) = Cardinality(InTime(s0, w0)) + 1
    BY <1>4, PassFinite, FS_AddElement
  <2>2. Cardinality(InTime(s0, w0)) \in Nat
    BY PassFinite
  <2> QED
    BY <1>1, <1>2, <1>5, <2>1, <2>2 DEF QuotaInv, n, Keys
<1>9. ASSUME NEW s \in Sessions, NEW w \in Windows, clock <= MaxClock, WindowOf(clock) <= w
      PROVE  Cardinality(InTime(s, w)') <= counter'[s][w].n
  <2>1. CASE s = s0 /\ w = w0
    <3>1. CASE InWindow(w0)
      BY <1>3, <1>6, <1>8, <2>1, <3>1
    <3>2. CASE ~InWindow(w0)
      <4>1. InTime(s, w)' = InTime(s, w) /\ Cardinality(InTime(s, w)) \in Nat
        BY <1>6, <2>1, <3>2, PassFinite
      <4>2. Cardinality(InTime(s, w)) <= counter[s][w].n /\ counter[s][w].n \in Nat
            /\ counter'[s][w].n = counter[s][w].n + 1
        BY <1>2, <1>3, <1>9, <2>1 DEF QuotaInv, n, Keys
      <4> QED
        BY <4>1, <4>2
    <3> QED
      BY <3>1, <3>2
  <2>2. CASE ~(s = s0 /\ w = w0)
    BY <1>3, <1>6, <1>9, <2>2 DEF QuotaInv
  <2> QED
    BY <2>1, <2>2
<1>10. ASSUME NEW s \in Sessions, NEW w \in Windows, MaxRequests >= 1
       PROVE  Cardinality(MayPass(s, w)') <= MaxRequests
  <2> DEFINE P == MayPass(s, w)
  <2>1. P' \subseteq P => Cardinality(P') <= MaxRequests
    <3>1. IsFiniteSet(P) /\ Cardinality(P) \in Nat /\ Cardinality(P) <= MaxRequests
      BY <1>10, PassFinite DEF QuotaInv
    <3>2. ASSUME P' \subseteq P
          PROVE Cardinality(P') <= Cardinality(P) /\ Cardinality(P') \in Nat
      BY <3>1, <3>2, FS_Subset, FS_CardinalityType
    <3> QED
      BY <3>1, <3>2, BoundsAssumption
  <2>2. CASE r \notin P'
    BY <1>7, <2>1, <2>2
  <2>3. CASE r \in P'
    <3>1. s = s0 /\ w = w0 /\ InWindow(w0)
      BY <1>4, <1>7, <2>3 DEF MayPass
    <3>2. P' \subseteq InTime(s0, w0) \union {r}
      BY <1>7, <3>1 DEF MayPass
    <3>3. IsFiniteSet(InTime(s0, w0) \union {r})
      BY PassFinite, FS_AddElement
    <3>4. /\ Cardinality(P') <= Cardinality(InTime(s0, w0) \union {r})
          /\ Cardinality(P') \in Nat
      BY <3>2, <3>3, FS_Subset, FS_CardinalityType
    <3>5. req'[r].admitted \/ pc'[r] = "expire"
      BY <2>3 DEF MayPass
    <3>6. n <= MaxRequests
      BY <1>2, <1>10, <3>5, BoundsAssumption DEF n
    <3> HIDE DEF P
    <3>7. Cardinality(P') <= MaxRequests
      BY <1>2, <1>8, <3>1, <3>4, <3>6, BoundsAssumption
    <3> QED
      BY <3>7 DEF P
  <2> QED
    BY <2>2, <2>3
<1>11. \A s \in Sessions, w \in Windows :
         counter'[s][w].dies # None => (w + 1) * Window <= counter'[s][w].dies
  BY <1>3 DEF QuotaInv
<1>12. \A q \in Requests :
         /\ MaxRequests < 1 => ~req'[q].admitted
         /\ pc'[q] \in {"new", "incr"} => Late(q)' /\ ~req'[q].admitted
  <2>1. MaxRequests < 1 => ~req'[r].admitted
    BY <1>2, BoundsAssumption DEF n
  <2> QED
    BY <2>1 DEF QuotaInv, Late
<1>13. WindowOf(clock)' = WindowOf(clock)
  BY DEF WindowOf
<1> QED
  BY <1>9, <1>10, <1>11, <1>12, <1>13 DEF QuotaInv

\* Who passes check() is admitted, unless over the limit.
LEMMA JudgeAdmits ==
  ASSUME TypeInv, NEW r \in Requests, NEW n, NEW c, Judge(r, n, c)
  PROVE  req'[r].admitted = req[r].admitted \/ ~OverLimit(n)
<1>1. req \in [Requests -> Locals] /\ req[r] \in Locals
  BY LocalsOf DEF TypeInv, TypeOK
<1>2. CASE OverLimit(n)
  <2> DEFINE h == RetryAfter(r)
             l == [req[r] EXCEPT !.counted = c, !.hint = h]
  <2>1. req' = [req EXCEPT ![r] = l]
    BY <1>2 DEF Judge
  <2>2. l.admitted = req[r].admitted
    <3> HIDE DEF h
    <3> QED
      BY <1>1 DEF Locals
  <2> HIDE DEF l
  <2> QED
    BY <1>1, <2>1, <2>2
<1> QED
  BY <1>2

LEMMA IncrQuota ==
  ASSUME TypeInv, QuotaInv, WindowPassed, NEW r \in Requests, Incr(r) PROVE QuotaInv'
<1> DEFINE n == KeyOf(r).n + 1
           c == IF InWindow(req[r].window) THEN "in_time" ELSE "late"
<1>1. /\ pc[r] = "incr" /\ KeyOf(r) \in Keys /\ req[r] \in Locals /\ ~req[r].admitted
      /\ req \in [Requests -> Locals] /\ pc \in [Requests -> Labels] /\ clock' = clock
  BY KeyTypes, LocalsOf DEF Incr, QuotaInv, TypeInv, TypeOK, Labels
<1>2. CASE Judge(r, n, c) /\ SetKey(r, [KeyOf(r) EXCEPT !.n = n])
  <2>1. /\ req'[r].session = req[r].session /\ req'[r].window = req[r].window
        /\ req'[r].counted = c
        /\ pc'[r] \in {"agent", "limited"}
        /\ \A q \in Requests \ {r} : pc'[q] = pc[q] /\ req'[q] = req[q]
    BY <1>2, JudgeGate
  <2>2. req'[r].admitted => n <= MaxRequests
    BY <1>1, <1>2, JudgeAdmits, BoundsAssumption DEF OverLimit, Keys
  <2> QED
    BY <1>1, <1>2, <2>1, <2>2, OneCountedQuota
<1>3. CASE /\ SetKey(r, [KeyOf(r) EXCEPT !.n = n])
           /\ req' = [req EXCEPT ![r].counted = c]
           /\ (Goto(r, "expire") /\ n = 1) \/ Goto(r, "unavailable")
  <2>1. /\ req'[r].session = req[r].session /\ req'[r].window = req[r].window
        /\ req'[r].counted = c /\ ~req'[r].admitted
        /\ \A q \in Requests \ {r} : req'[q] = req[q]
    <3> HIDE DEF c
    <3> QED
      BY <1>1, <1>3 DEF Locals
  <2>2. /\ pc'[r] = "unavailable" \/ (pc'[r] = "expire" /\ n = 1)
        /\ \A q \in Requests \ {r} : pc'[q] = pc[q]
    BY <1>1, <1>3 DEF Goto
  <2> QED
    BY <1>1, <1>3, <2>1, <2>2, OneCountedQuota
<1>4. CASE Goto(r, "unavailable") /\ UNCHANGED <<counter, req>>
  <2>1. \A q \in Requests : SameGate(q) /\ req'[q] = req[q]
                            /\ (pc'[q] = pc[q] \/ pc'[q] = "unavailable")
    BY <1>1, <1>4 DEF Goto, SameGate
  <2>2. clock <= clock' /\ clock' \in Nat /\ WindowOf(clock) <= WindowOf(clock)'
    BY <1>1, WindowGrows DEF WindowOf, TypeInv, TypeOK
  <2>3. UNCHANGED counter
    BY <1>4
  <2> QED
    BY <2>1, <2>2, <2>3, NobodyCountedQuota DEF QuotaInv, Late
<1> QED
  BY <1>2, <1>3, <1>4 DEF Incr

LEMMA SetTtlQuota ==
  ASSUME TypeInv, QuotaInv, WindowPassed, NEW r \in Requests, SetTtl(r) PROVE QuotaInv'
<1> DEFINE s0 == req[r].session
           w0 == req[r].window
<1>1. /\ pc[r] = "expire" /\ s0 \in Sessions /\ w0 \in Windows /\ clock' = clock
      /\ counter \in [Sessions -> [Windows -> Keys]] /\ KeyOf(r) = counter[s0][w0]
      /\ clock \in Nat /\ w0 \in Nat /\ w0 <= WindowOf(clock)
  <2>1. pc[r] = "expire" /\ clock' = clock
    BY DEF SetTtl
  <2>2. s0 \in Sessions /\ w0 \in Windows /\ w0 <= WindowOf(clock)
    BY <2>1, LocalsOf DEF WindowPassed
  <2>3. w0 \in Nat
    BY <2>2 DEF Windows
  <2>4. counter \in [Sessions -> [Windows -> Keys]] /\ clock \in Nat
    BY DEF TypeInv, TypeOK, Keys
  <2> QED
    BY <2>1, <2>2, <2>3, <2>4 DEF KeyOf
<1>2. clock <= clock' /\ clock' \in Nat /\ WindowOf(clock) <= WindowOf(clock)'
  BY <1>1, WindowGrows DEF WindowOf
<1>3. \A s \in Sessions, w \in Windows :
        /\ (clock' <= MaxClock /\ WindowOf(clock)' <= w) =>
             counter'[s][w].n = counter[s][w].n
        /\ counter'[s][w].dies # None => (w + 1) * Window <= counter'[s][w].dies
  <2>1. CASE Dies(r) /\ clock > MaxClock
    <3>1. counter' = [counter EXCEPT ![s0][w0] = NoKey] /\ ~(clock' <= MaxClock)
      BY <1>1, <2>1, BoundsAssumption DEF Dies, SetKey
    <3> HIDE DEF s0, w0
    <3> QED
      BY <1>1, <3>1 DEF QuotaInv, NoKey
  <2>2. CASE Dies(r) /\ ~(clock > MaxClock)
    <3> DEFINE key == [counter[s0][w0] EXCEPT !.dies = clock + Window]
    <3>1. counter' = [counter EXCEPT ![s0][w0] = key]
      BY <1>1, <2>2 DEF Dies, SetKey
    <3>2. key.n = counter[s0][w0].n /\ key.dies = clock + Window
      BY <1>1 DEF Keys
    <3>3. (w0 + 1) * Window <= clock + Window
      BY <1>1, WindowEnds
    <3> HIDE DEF s0, w0, key
    <3> QED
      BY <1>1, <3>1, <3>2, <3>3 DEF QuotaInv
  <2>3. CASE UNCHANGED counter
    BY <2>3 DEF QuotaInv
  <2> QED
    BY <2>1, <2>2, <2>3 DEF SetTtl
<1>4. CASE Judge(r, 1, req[r].counted)
  <2>1. /\ SameGate(r) /\ pc'[r] \in {"agent", "limited"}
        /\ \A q \in Requests \ {r} : pc'[q] = pc[q] /\ req'[q] = req[q] /\ SameGate(q)
    BY <1>4, JudgeGate DEF SameGate
  <2>2. (req'[r].admitted /\ ~req[r].admitted) => MaxRequests >= 1
    BY <1>4, JudgeAdmits, BoundsAssumption DEF OverLimit
  <2> QED
    BY <1>1, <1>2, <1>3, <2>1, <2>2, NobodyCountedQuota DEF QuotaInv, Late
<1>5. CASE Goto(r, "unavailable") /\ UNCHANGED req
  <2>1. \A q \in Requests : SameGate(q) /\ req'[q] = req[q]
                            /\ (pc'[q] = pc[q] \/ pc'[q] = "unavailable")
    BY <1>5 DEF Goto, SameGate, TypeInv, TypeOK
  <2> QED
    BY <1>2, <1>3, <2>1, NobodyCountedQuota DEF QuotaInv, Late
<1> QED
  BY <1>4, <1>5 DEF SetTtl

LEMMA OtherStepQuota ==
  ASSUME TypeInv, QuotaInv, NEW r \in Requests, Receive(r) \/ Agent(r) \/ AppendTurns(r)
  PROVE  QuotaInv'
<1>1. counter' = counter /\ clock' = clock /\ clock \in Nat
      /\ req \in [Requests -> Locals] /\ req[r] \in Locals /\ pc \in [Requests -> Labels]
  BY DEF Receive, Agent, AppendTurns, ReadTurns, WriteTurn, redis, TypeInv, TypeOK, Labels
<1>2. clock <= clock' /\ clock' \in Nat /\ WindowOf(clock) <= WindowOf(clock)'
  BY <1>1, WindowGrows DEF WindowOf
<1>3. CASE Receive(r)
  <2>1. PICK t \in Sessions :
          req' = [req EXCEPT ![r] = [@ EXCEPT !.session = t, !.window = WindowOf(clock)]]
    BY <1>3 DEF Receive
  <2>2. /\ req'[r].counted = req[r].counted /\ req'[r].admitted = req[r].admitted
        /\ \A q \in Requests \ {r} : req'[q] = req[q]
    BY <1>1, <2>1 DEF Locals
  <2>3. /\ pc[r] = "new" /\ pc'[r] \in {"incr", "rejected"}
        /\ \A q \in Requests \ {r} : pc'[q] = pc[q]
    BY <1>1, <1>3 DEF Receive, Goto
  <2>4. Late(r) /\ Late(r)' /\ ~req'[r].admitted
    BY <2>2, <2>3 DEF QuotaInv, Late
  <2> QED
    BY <1>1, <1>2, <2>2, <2>3, <2>4, NobodyCountedQuota DEF QuotaInv, SameGate, Late
<1>4. CASE Agent(r) \/ AppendTurns(r)
  <2>1. \A q \in Requests : SameGate(q) /\ req'[q].admitted = req[q].admitted
    <3>1. \/ req' = req
          \/ req' = [req EXCEPT ![r].copy = turns[req[r].session]]
          \/ req' = [req EXCEPT ![r].copy = <<>>]
      BY <1>4 DEF Agent, AppendTurns, ReadTurns, WriteTurn, Fetch
    <3>2. ASSUME NEW L, req' = [req EXCEPT ![r].copy = L]
          PROVE  \A q \in Requests : SameGate(q) /\ req'[q].admitted = req[q].admitted
      BY <1>1, <3>2 DEF SameGate, Locals
    <3> QED
      BY <3>1, <3>2 DEF SameGate
  <2>2. /\ \A q \in Requests \ {r} : pc'[q] = pc[q]
        /\ pc'[r] \notin {"new", "incr", "expire"}
    <3>1. PICK label \in {"read_user", "failed", "unavailable", "write_user", "read_reply",
                          "write_reply", "ok"} : pc' = [pc EXCEPT ![r] = label]
      BY <1>4 DEF Agent, AppendTurns, ReadTurns, WriteTurn, Goto
    <3> QED
      BY <1>1, <3>1
  <2> QED
    BY <1>1, <1>2, <2>1, <2>2, NobodyCountedQuota DEF QuotaInv, SameGate, Late
<1> QED
  BY <1>3, <1>4

\* Time ends a key only when its window is over.
LEMMA TickQuota == ASSUME TypeInv, QuotaInv, Tick PROVE QuotaInv'
<1>1. /\ clock \in Nat /\ clock' = clock + 1 /\ req' = req /\ pc' = pc
      /\ counter \in [Sessions -> [Windows -> Keys]]
      /\ \A s \in Sessions, w \in Windows :
           counter'[s][w] = IF Due(counter[s][w], clock + 1) THEN NoKey ELSE counter[s][w]
  BY DEF Tick, TypeInv, TypeOK, Keys
<1>2. WindowOf(clock) <= WindowOf(clock)' /\ clock <= clock' /\ clock' \in Nat
  BY <1>1, WindowGrows DEF WindowOf
<1>3. ASSUME NEW s \in Sessions, NEW w \in Windows
      PROVE  /\ (clock' <= MaxClock /\ WindowOf(clock)' <= w) =>
                   counter'[s][w].n = counter[s][w].n
             /\ counter'[s][w].dies # None => (w + 1) * Window <= counter'[s][w].dies
  <2>1. counter[s][w].dies # None =>
          (w + 1) * Window <= counter[s][w].dies /\ counter[s][w].dies \in Nat
    BY <1>1 DEF QuotaInv, Keys
  <2>2. w \in Nat /\ (w + 1) * Window \in Nat
    BY BoundsAssumption DEF Windows
  <2>3. WindowOf(clock)' = WindowOf(clock + 1)
    BY <1>1 DEF WindowOf
  <2>4. ASSUME clock' <= MaxClock, WindowOf(clock)' <= w
        PROVE  ~Due(counter[s][w], clock + 1)
    <3>1. clock + 1 < (w + 1) * Window
      BY <1>1, <2>2, <2>3, <2>4, WindowEnds
    <3> DEFINE end == (w + 1) * Window
    <3>2. end \in Nat /\ clock + 1 < end /\ ~(clock + 1 > MaxClock)
          /\ (counter[s][w].dies # None => end <= counter[s][w].dies)
      BY <1>1, <2>1, <2>2, <2>4, <3>1, BoundsAssumption
    <3> HIDE DEF end
    <3> QED
      BY <1>1, <2>1, <3>2 DEF Due
  <2> QED
    BY <1>1, <2>1, <2>4 DEF NoKey
<1> QED
  BY <1>1, <1>2, <1>3, NobodyCountedQuota DEF QuotaInv, SameGate, Late

LEMMA EnvironmentQuota ==
  ASSUME TypeInv, QuotaInv, (\E s \in Sessions : HistoryExpires(s)) \/ Crash \/ UNCHANGED vars
  PROVE  QuotaInv'
<1>1. /\ req' = req /\ clock' = clock /\ counter' = counter /\ clock \in Nat
      /\ \A q \in Requests : pc'[q] = pc[q] \/ pc'[q] = "lost"
  BY DEF HistoryExpires, Crash, vars, redis, TypeInv, TypeOK
<1>2. clock <= clock' /\ clock' \in Nat /\ WindowOf(clock) <= WindowOf(clock)'
  BY <1>1, WindowGrows DEF WindowOf
<1> QED
  BY <1>1, <1>2, NobodyCountedQuota DEF QuotaInv, SameGate, Late

LEMMA QuotaInit == Init => QuotaInv
<1> SUFFICES ASSUME Init PROVE QuotaInv
  OBVIOUS
<1>1. \A s, w : InTime(s, w) = {} /\ MayPass(s, w) = {}
  BY DEF Init, InTime, MayPass, Late, NewRequest
<1>2. \A s, w : Cardinality(InTime(s, w)) = 0 /\ Cardinality(MayPass(s, w)) = 0
  BY <1>1, FS_EmptySet
<1>3. \A s \in Sessions, w \in Windows : counter[s][w].n = 0 /\ counter[s][w].dies = None
  BY DEF Init, NoKey
<1>4. \A q \in Requests : Late(q) /\ ~req[q].admitted
  BY DEF Init, Late, NewRequest
<1> QED
  BY <1>2, <1>3, <1>4, BoundsAssumption DEF QuotaInv

\* Of the requests of a session that are counted inside a window, at most
\* MaxRequests are admitted: EXPIRE after the INCR, its failure, and the clock
\* moving on between the two never let the key die before its window does.
THEOREM QuotaKept == Spec => []QuotaPerWindow
<1>1. TypeInv /\ QuotaInv /\ WindowPassed /\ [Next]_vars => QuotaInv'
  BY IncrQuota, SetTtlQuota, OtherStepQuota, TickQuota, EnvironmentQuota DEF Next, Step
<1>2. TypeInv /\ WindowPassed /\ [Next]_vars => WindowPassed'
  BY WindowStep
<1>3. Init => WindowPassed
  BY DEF Init, WindowPassed
<1>4. ASSUME QuotaInv PROVE QuotaPerWindow
  <2>1. ASSUME NEW s \in Sessions, NEW w \in Windows
        PROVE  Cardinality({r \in Requests : req[r].session = s /\ req[r].window = w
                                   /\ req[r].admitted /\ req[r].counted = "in_time"})
                 <= MaxRequests
    <3> DEFINE A == {r \in Requests : req[r].session = s /\ req[r].window = w
                                   /\ req[r].admitted /\ req[r].counted = "in_time"}
    <3>1. A \subseteq MayPass(s, w)
      BY DEF MayPass, InTime, Late
    <3>2. Cardinality(A) <= Cardinality(MayPass(s, w)) /\ Cardinality(A) \in Nat
      BY <3>1, PassFinite, FS_Subset, FS_CardinalityType
    <3>3. CASE MaxRequests >= 1
      <4>1. Cardinality(MayPass(s, w)) <= MaxRequests /\ Cardinality(MayPass(s, w)) \in Nat
        BY <1>4, <3>3, PassFinite DEF QuotaInv
      <4> HIDE DEF A
      <4>2. Cardinality(A) <= MaxRequests
        BY <3>2, <4>1, BoundsAssumption
      <4> QED
        BY <4>2 DEF A
    <3>4. CASE ~(MaxRequests >= 1)
      <4>1. MaxRequests < 1
        BY <3>4, BoundsAssumption
      <4>2. A = {}
        BY <1>4, <4>1 DEF QuotaInv
      <4>3. Cardinality(A) = 0
        BY <4>2, FS_EmptySet
      <4> HIDE DEF A
      <4>4. Cardinality(A) <= MaxRequests
        BY <4>3, BoundsAssumption
      <4> QED
        BY <4>4 DEF A
    <3> QED
      BY <3>3, <3>4
  <2> QED
    BY <2>1 DEF QuotaPerWindow
<1> QED
  BY <1>1, <1>2, <1>3, <1>4, QuotaInit, TypeInit, TypeStep, PTL DEF Spec
=============================================================================
