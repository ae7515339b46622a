--------------------------- MODULE PendingActions ---------------------------
(***************************************************************************)
(* The confirmation gate: an agent drafts a call of a gated tool and puts  *)
(* it into Redis (PendingActionStore.create, src/app/core/                 *)
(* pending_actions.py), and POST /actions/{action_id}/confirm runs it      *)
(* (confirm_action in src/app/main.py, Dispatcher.dispatch_confirmed in    *)
(* src/app/core/dispatcher.py).                                            *)
(*                                                                         *)
(* Actions are the drafts, named by their action_id (a fresh uuid, so an   *)
(* id is never created twice); Confirms are the confirm requests.  One     *)
(* action of the specification per awaited call on Redis or on the tool.   *)
(*                                                                         *)
(* Abstracted: the tool and its arguments (fixed when the draft is made),  *)
(* the content filter and the permission check (each a refusal that may    *)
(* happen), the TTL (a key may expire at any time), and the two history    *)
(* writes of /chat (one step that works or not).                           *)
(***************************************************************************)
EXTENDS Naturals, FiniteSets

CONSTANTS
  Actions,      \* drafts of gated calls
  Confirms,     \* confirm requests
  Sessions,     \* session ids
  MaxRequests,  \* rate_limit_max_requests, per session and window
  FaultKinds,   \* which faults may happen: a subset of AllFaults
  MaxFaults,    \* bound on the number of faults of a behaviour
  None          \* "no value"

AllFaults == {"read",      \* a Redis read fails
              "write",     \* a Redis write fails and changes nothing
              "lost_ack",  \* a Redis write takes effect, its answer is lost
              "crash"}     \* the process dies

ASSUME NoneAssumption == None \notin Actions /\ None \notin Sessions
ASSUME BoundsAssumption ==
  MaxRequests \in Nat /\ MaxFaults \in Nat /\ FaultKinds \subseteq AllFaults

VARIABLES
  draft,   \* draft[a]: how far the /chat job that drafts a has come
  owner,   \* owner[a]: the session_id stored with a
  key,     \* key[a]: the Redis key of a, and why it is gone
  pc,      \* pc[c]: where confirm c is suspended, or how it was answered
  req,     \* req[c]: the action_id and session_id of confirm c
  ran,     \* confirms whose tool call took effect
  count,   \* count[s]: the rate limiter's key of the current window
  faults   \* faults so far

chat == <<draft, owner>>
confirm == <<pc, req, ran>>
vars == <<draft, owner, key, pc, req, ran, count, faults>>

-----------------------------------------------------------------------------
(* Types *)

Drafting == {"create", "append"}
Confirming == {"gate", "look", "consume", "delete", "run"}
Answered == {"refused", "unavailable", "not_found", "executed", "tool_error", "lost"}
\* The confirm deleted the key itself, or found it deleted under its hands.
Consumed == {"run", "executed", "tool_error"}

TypeOK ==
  /\ draft \in [Actions -> {"new"} \union Drafting \union
                           {"shown", "refused", "unavailable", "lost"}]
  /\ owner \in [Actions -> Sessions \union {None}]
  /\ key \in [Actions -> {"none", "live", "expired", "deleted"}]
  /\ pc \in [Confirms -> {"new"} \union Confirming \union Answered]
  /\ req \in [Confirms -> [action : Actions \union {None}, session : Sessions \union {None}]]
  /\ ran \subseteq Confirms
  /\ count \in [Sessions -> Nat]
  /\ faults \in Nat

Init ==
  /\ draft = [a \in Actions |-> "new"]
  /\ owner = [a \in Actions |-> None]
  /\ key = [a \in Actions |-> "none"]
  /\ pc = [c \in Confirms |-> "new"]
  /\ req = [c \in Confirms |-> [action |-> None, session |-> None]]
  /\ ran = {}
  /\ count = [s \in Sessions |-> 0]
  /\ faults = 0

-----------------------------------------------------------------------------
(* Helpers *)

Goto(c, label) == pc' = [pc EXCEPT ![c] = label]
DraftGoto(a, label) == draft' = [draft EXCEPT ![a] = label]

Fault(kind) ==
  /\ kind \in FaultKinds
  /\ faults < MaxFaults
  /\ faults' = faults + 1

\* Faulty variant (mutation test): the key of a new window holds no number.
CountedFromNothing(s) ==
  count' = [count EXCEPT ![s] = IF @ = 0 THEN None ELSE @ + 1]

\* INCR of the session's window key; the request passes up to MaxRequests.
Counted(s) == count' = [count EXCEPT ![s] = @ + 1]
WithinLimit(s) == count[s] < MaxRequests

-----------------------------------------------------------------------------
(* Drafting: POST /chat *)

\* /chat passes its own gates (of which only the counter is kept here), and an
\* agent asks the LLM for a draft.
Propose(a) ==
  /\ draft[a] = "new"
  /\ \E s \in Sessions :
       /\ owner' = [owner EXCEPT ![a] = s]
       /\ Counted(s)
       /\ DraftGoto(a, IF WithinLimit(s) THEN "create" ELSE "refused")
  /\ UNCHANGED <<key, confirm, faults>>

\* PendingActionStore.create: SET with the TTL.
CreateAction(a) ==
  /\ draft[a] = "create"
  /\ \/ /\ key' = [key EXCEPT ![a] = "live"]
        /\ DraftGoto(a, "append")
        /\ UNCHANGED faults
     \/ /\ Fault("write")
        /\ DraftGoto(a, "unavailable")
        /\ UNCHANGED key
     \/ /\ Fault("lost_ack")
        /\ key' = [key EXCEPT ![a] = "live"]
        /\ DraftGoto(a, "unavailable")
  /\ UNCHANGED <<owner, confirm, count>>

\* The two append_turn calls of /chat, and the answer with the action_id.
AnswerDraft(a) ==
  /\ draft[a] = "append"
  /\ \/ /\ DraftGoto(a, "shown")
        /\ UNCHANGED faults
     \/ /\ Fault("write")
        /\ DraftGoto(a, "unavailable")
  /\ UNCHANGED <<owner, key, confirm, count>>

-----------------------------------------------------------------------------
(* Confirming: POST /actions/{action_id}/confirm *)

\* Somebody who saw an action_id confirms it, under any session_id.
Request(c) ==
  /\ pc[c] = "new"
  /\ \E a \in Actions, s \in Sessions :
       /\ draft[a] = "shown"
       /\ req' = [req EXCEPT ![c] = [action |-> a, session |-> s]]
  /\ Goto(c, "gate")
  /\ UNCHANGED <<chat, key, ran, count, faults>>

\* Content filter, rate limit and permission, before the lookup.
PassGates(c) ==
  LET s == req[c].session IN
  /\ pc[c] = "gate"
  /\ \/ /\ Goto(c, "refused")
        /\ UNCHANGED <<count, faults>>
     \/ /\ Counted(s)
        /\ \E label \in (IF WithinLimit(s) THEN {"look", "refused"} ELSE {"refused"}) :
             Goto(c, label)
        /\ UNCHANGED faults
     \/ /\ Fault("write")
        /\ Goto(c, "unavailable")
        /\ UNCHANGED count
     \/ /\ Fault("lost_ack")
        /\ Counted(s)
        /\ Goto(c, "unavailable")
  /\ UNCHANGED <<chat, key, req, ran>>

\* Faulty variant (mutation test): any session may confirm.
MayConfirmAnySession(c) == key[req[c].action] = "live"

\* What the look-up in confirm_action accepts.
MayConfirm(c) ==
  key[req[c].action] = "live" /\ owner[req[c].action] = req[c].session

\* get(): a wrong session is told "not found", and nothing is consumed.
LookUp(c) ==
  /\ pc[c] = "look"
  /\ \/ /\ Goto(c, IF MayConfirm(c) THEN "consume" ELSE "not_found")
        /\ UNCHANGED faults
     \/ /\ Fault("read")
        /\ Goto(c, "unavailable")
  /\ UNCHANGED <<chat, key, req, ran, count>>

\* Faulty variant (mutation test): the second read is waited for for ever.
FetchAgainWaits(c) ==
  /\ pc[c] = "consume"
  /\ key[req[c].action] = "live"
  /\ Goto(c, "delete")
  /\ UNCHANGED <<chat, key, req, ran, count, faults>>

\* consume(), first half: the key is read again.
FetchAgain(c) ==
  /\ pc[c] = "consume"
  /\ \/ /\ Goto(c, IF key[req[c].action] = "live" THEN "delete" ELSE "not_found")
        /\ UNCHANGED faults
     \/ /\ Fault("read")
        /\ Goto(c, "unavailable")
  /\ UNCHANGED <<chat, key, req, ran, count>>

\* Faulty variants (mutation tests): the tool runs although the DEL failed;
\* the key is deleted, and a late failure is answered "not found".
DelFailedRunsAnyway(c) ==
  /\ Fault("write")
  /\ Goto(c, "run")
  /\ UNCHANGED key
DelFailedNotFound(c) ==
  /\ Fault("lost_ack")
  /\ key' = [key EXCEPT ![req[c].action] = IF @ = "live" THEN "deleted" ELSE @]
  /\ Goto(c, "not_found")

\* The DEL failed, or took effect and nobody knows.
DelFailed(c) ==
  /\ \/ /\ Fault("write")
        /\ UNCHANGED key
     \/ /\ Fault("lost_ack")
        /\ key' = [key EXCEPT ![req[c].action] = IF @ = "live" THEN "deleted" ELSE @]
  /\ Goto(c, "unavailable")

\* consume(), second half: DEL, whose count of deleted keys is not looked at.
Delete(c) ==
  /\ pc[c] = "delete"
  /\ \/ /\ key' = [key EXCEPT ![req[c].action] = IF @ = "live" THEN "deleted" ELSE @]
        /\ Goto(c, "run")
        /\ UNCHANGED faults
     \/ DelFailed(c)
  /\ UNCHANGED <<chat, req, ran, count>>

\* dispatch_confirmed: a handler that raises may have done its work or not.
RunTool(c) ==
  /\ pc[c] = "run"
  /\ \/ /\ ran' = ran \union {c}
        /\ Goto(c, "executed")
     \/ /\ ran' \in {ran, ran \union {c}}
        /\ Goto(c, "tool_error")
  /\ UNCHANGED <<chat, key, req, count, faults>>

-----------------------------------------------------------------------------
(* The environment *)

\* Redis drops a key whose TTL is over.
Expire(a) ==
  /\ key[a] = "live"
  /\ key' = [key EXCEPT ![a] = "expired"]
  /\ UNCHANGED <<chat, confirm, count, faults>>

\* The next rate-limit window: all requests count under new keys.
NextWindow ==
  /\ \E s \in Sessions : count[s] > 0
  /\ count' = [s \in Sessions |-> 0]
  /\ UNCHANGED <<chat, key, confirm, faults>>

\* The process dies: the requests in flight are gone, Redis stays.
Crash ==
  /\ \/ \E a \in Actions : draft[a] \in Drafting
     \/ \E c \in Confirms : pc[c] \in Confirming
  /\ Fault("crash")
  /\ draft' = [a \in Actions |-> IF draft[a] \in Drafting THEN "lost" ELSE draft[a]]
  /\ pc' = [c \in Confirms |-> IF pc[c] \in Confirming THEN "lost" ELSE pc[c]]
  /\ UNCHANGED <<owner, key, req, ran, count>>

DraftStep(a) == CreateAction(a) \/ AnswerDraft(a)
ConfirmStep(c) == PassGates(c) \/ LookUp(c) \/ FetchAgain(c) \/ Delete(c) \/ RunTool(c)

Next ==
  \/ \E a \in Actions : Propose(a) \/ DraftStep(a) \/ Expire(a)
  \/ \E c \in Confirms : Request(c) \/ ConfirmStep(c)
  \/ NextWindow
  \/ Crash

Spec == Init /\ [][Next]_vars

\* The event loop resumes every request.
FairSpec ==
  /\ Spec
  /\ \A a \in Actions : WF_vars(DraftStep(a))
  /\ \A c \in Confirms : WF_vars(ConfirmStep(c))

-----------------------------------------------------------------------------
(* Properties *)

\* When a confirm has the tool run, and ever after, the action is out of the
\* store: a confirm that looks it up from then on is told "not found", so only
\* confirms already past their look-up can run the tool a second time.
ConfirmedIsConsumed ==
  \A c \in Confirms : pc[c] \in Consumed => key[req[c].action] \in {"expired", "deleted"}

\* The tool runs only on a confirm by the session the draft was made for, and
\* only after that draft was shown.
RunIsOwners ==
  \A c \in ran : /\ req[c].session = owner[req[c].action]
                 /\ draft[req[c].action] = "shown"

\* A pending action is never lost without a word: if it is deleted, a confirm
\* of its owner runs the tool or was told of its result, or was told that the
\* store is unavailable, or died in a crash.
NoSilentLoss ==
  \A a \in Actions :
    key[a] = "deleted" =>
      \E c \in Confirms :
        /\ req[c].action = a /\ req[c].session = owner[a]
        /\ \/ pc[c] \in Consumed
           \/ pc[c] \in {"unavailable", "lost"} /\ faults > 0

\* Every confirm is answered (or lost in a crash).
EveryConfirmAnswered == \A c \in Confirms : pc[c] # "new" ~> pc[c] \in Answered

-----------------------------------------------------------------------------
(* A statement of the repository that the code does not keep *)

\* PendingActionStore.consume "returns the pending action if it exists and
\* deletes it (so it can't be confirmed twice)".
ConfirmedOnce ==
  \A c, d \in Confirms :
    (c # d /\ pc[c] = "executed" /\ pc[d] = "executed") => req[c].action # req[d].action
=============================================================================
