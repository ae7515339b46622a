----------------------- MODULE PendingActions_proofs -----------------------
(***************************************************************************)
(* Proofs about PendingActions, for any number of drafts, confirms,        *)
(* sessions and faults.  IInv says what a confirm still knows after each   *)
(* await: the id it holds belongs to a draft that was shown, whose key is  *)
(* never written again, and whose session it has matched.                  *)
(***************************************************************************)
EXTENDS PendingActions, TLAPS

\* A key exists from the SET of its draft on, and an unwritten one does not.
KeyFollowsDraft ==
  \A a \in Actions :
    /\ draft[a] \in {"new", "create"} => key[a] = "none"
    /\ draft[a] \in {"append", "shown"} => key[a] # "none"

\* A confirm names a draft that was shown, and a session.
RequestIsNamed ==
  \A c \in Confirms :
    pc[c] # "new" =>
      /\ req[c].action \in Actions /\ draft[req[c].action] = "shown"
      /\ req[c].session \in Sessions

\* Past its look-up a confirm has the session of the draft.
SessionMatched ==
  \A c \in Confirms :
    pc[c] \in {"consume", "delete"} \union Consumed =>
      req[c].session = owner[req[c].action]

\* Only an answered confirm can have run the tool.
RanIsAnswered == \A c \in ran : pc[c] \in {"executed", "tool_error"}

IInv ==
  /\ TypeOK /\ KeyFollowsDraft /\ RequestIsNamed /\ SessionMatched
  /\ RanIsAnswered /\ ConfirmedIsConsumed /\ NoSilentLoss

USE DEF chat, confirm

-----------------------------------------------------------------------------

\* The invariant holds initially.
LEMMA InitIInv == Init => IInv
BY DEF Init, IInv, TypeOK, KeyFollowsDraft, RequestIsNamed, SessionMatched, RanIsAnswered,
       ConfirmedIsConsumed, NoSilentLoss, Consumed

\* Only the drafts' side moves, and no key that existed changes: what the
\* confirms know stays true.
LEMMA ProposeStep == ASSUME IInv, NEW a \in Actions, Propose(a) PROVE IInv'
<1>1. PICK s \in Sessions :
        /\ owner' = [owner EXCEPT ![a] = s]
        /\ count' = [count EXCEPT ![s] = count[s] + 1]
        /\ draft' \in {[draft EXCEPT ![a] = "create"], [draft EXCEPT ![a] = "refused"]}
  BY DEF Propose, Counted, DraftGoto, IInv, TypeOK
<1>2. draft[a] = "new" /\ key[a] = "none" /\ UNCHANGED <<key, pc, req, ran, faults>>
  BY DEF Propose, IInv, KeyFollowsDraft
<1>3. TypeOK'
  BY <1>1, <1>2 DEF IInv, TypeOK, Drafting
<1>4. KeyFollowsDraft'
  BY <1>1, <1>2 DEF IInv, TypeOK, KeyFollowsDraft
<1>5. \A c \in Confirms : pc[c] # "new" => req[c].action # a
  BY <1>2 DEF IInv, RequestIsNamed
<1>6. RequestIsNamed' /\ RanIsAnswered' /\ ConfirmedIsConsumed'
  BY <1>1, <1>2, <1>5 DEF IInv, TypeOK, RequestIsNamed, RanIsAnswered, ConfirmedIsConsumed
<1>7. SessionMatched'
  BY <1>1, <1>2, <1>5 DEF IInv, TypeOK, SessionMatched, RequestIsNamed, Consumed
<1>8. NoSilentLoss'
  BY <1>1, <1>2 DEF IInv, TypeOK, NoSilentLoss
<1> QED
  BY <1>3, <1>4, <1>6, <1>7, <1>8 DEF IInv

\* The same for the two later steps of a draft, and for a key that expires.
LEMMA DraftingStep ==
  ASSUME IInv, NEW a \in Actions, DraftStep(a) \/ Expire(a)
  PROVE  IInv'
<1>1. /\ UNCHANGED <<owner, pc, req, ran, count>>
      /\ faults' \in {faults, faults + 1} /\ faults' \in Nat
  BY DEF DraftStep, CreateAction, AnswerDraft, Expire, Fault, IInv, TypeOK
<1>2. \/ /\ draft[a] = "create"
         /\ \/ /\ draft' = [draft EXCEPT ![a] = "append"] /\ key' = [key EXCEPT ![a] = "live"]
            \/ /\ draft' = [draft EXCEPT ![a] = "unavailable"]
               /\ key' \in {key, [key EXCEPT ![a] = "live"]}
      \/ /\ draft[a] = "append"
         /\ draft' \in {[draft EXCEPT ![a] = "shown"], [draft EXCEPT ![a] = "unavailable"]}
         /\ key' = key
      \/ key[a] = "live" /\ draft' = draft /\ key' = [key EXCEPT ![a] = "expired"]
  BY DEF DraftStep, CreateAction, AnswerDraft, Expire, DraftGoto
<1>3. TypeOK'
  BY <1>1, <1>2 DEF IInv, TypeOK, Drafting
<1>4. KeyFollowsDraft'
  BY <1>1, <1>2 DEF IInv, TypeOK, KeyFollowsDraft
<1>5. \A c \in Confirms : pc[c] # "new" => draft[req[c].action] = "shown"
  BY DEF IInv, RequestIsNamed
<1>6. RequestIsNamed'
  BY <1>1, <1>2, <1>5 DEF IInv, TypeOK, RequestIsNamed
<1>7. SessionMatched' /\ RanIsAnswered'
  BY <1>1 DEF IInv, SessionMatched, RanIsAnswered
<1>8. ConfirmedIsConsumed'
  BY <1>1, <1>2, <1>5 DEF IInv, TypeOK, ConfirmedIsConsumed, RequestIsNamed, Consumed
<1>9. NoSilentLoss'
  <2>1. \A b \in Actions : key'[b] = "deleted" => key[b] = "deleted"
    BY <1>2 DEF IInv, TypeOK
  <2>2. faults > 0 => faults' > 0
    BY <1>1 DEF IInv, TypeOK
  <2> QED
    BY <1>1, <2>1, <2>2 DEF IInv, NoSilentLoss
<1> QED
  BY <1>3, <1>4, <1>6, <1>7, <1>8, <1>9 DEF IInv

\* A confirm starts with the id of a draft that was shown.
LEMMA RequestStep == ASSUME IInv, NEW c \in Confirms, Request(c) PROVE IInv'
<1>1. PICK a \in Actions, s \in Sessions :
        /\ draft[a] = "shown"
        /\ req' = [req EXCEPT ![c] = [action |-> a, session |-> s]]
  BY DEF Request
<1>2. /\ pc[c] = "new" /\ pc' = [pc EXCEPT ![c] = "gate"]
      /\ UNCHANGED <<draft, owner, key, ran, count, faults>>
  BY DEF Request, Goto
<1>3. TypeOK'
  BY <1>1, <1>2 DEF IInv, TypeOK, Confirming
<1>4. \A d \in Confirms \ {c} : pc'[d] = pc[d] /\ req'[d] = req[d]
  BY <1>1, <1>2 DEF IInv, TypeOK
<1>5. pc'[c] = "gate" /\ req'[c].action = a /\ req'[c].session = s
  BY <1>1, <1>2 DEF IInv, TypeOK
<1>6. KeyFollowsDraft' /\ RequestIsNamed'
  BY <1>1, <1>2, <1>4, <1>5 DEF IInv, KeyFollowsDraft, RequestIsNamed
<1>7. SessionMatched' /\ RanIsAnswered' /\ ConfirmedIsConsumed'
  BY <1>2, <1>4, <1>5
     DEF IInv, TypeOK, SessionMatched, RanIsAnswered, ConfirmedIsConsumed, Consumed
<1>8. NoSilentLoss'
  BY <1>2, <1>4 DEF IInv, NoSilentLoss, Consumed
<1> QED
  BY <1>3, <1>6, <1>7, <1>8 DEF IInv

-----------------------------------------------------------------------------
(* The confirms *)

\* The key of action a after a DEL that took effect.
Deleted(a) == [key EXCEPT ![a] = IF key[a] = "live" THEN "deleted" ELSE key[a]]

\* What a step of one confirm may do to keep the invariant: move to a label it
\* is entitled to, and delete the key of its own action.
LEMMA ConfirmMoves ==
  ASSUME IInv, NEW c \in Confirms, NEW label \in Confirming \union Answered,
         pc[c] \in Confirming, pc' = [pc EXCEPT ![c] = label],
         UNCHANGED <<draft, owner, req>>, count' \in [Sessions -> Nat],
         faults' \in {faults, faults + 1},
         key' \in {key, Deleted(req[c].action)},
         ran' \in {ran, ran \union {c}},
         label \in {"consume", "delete"} \union Consumed =>
           req[c].session = owner[req[c].action],
         label \in Consumed => key'[req[c].action] \in {"expired", "deleted"},
         pc[c] = "run" => label \in Consumed,
         ran' # ran => label \in {"executed", "tool_error"},
         key' # key => /\ req[c].session = owner[req[c].action]
                       /\ label \in Consumed \/ (label = "unavailable" /\ faults' > 0)
  PROVE  IInv'
<1> DEFINE a == req[c].action
<1>1. a \in Actions /\ draft[a] = "shown" /\ pc[c] # "new"
  BY DEF IInv, RequestIsNamed, Confirming
<1>2. pc'[c] = label /\ \A d \in Confirms \ {c} : pc'[d] = pc[d]
  BY DEF IInv, TypeOK
<1>3. /\ key' \in [Actions -> {"none", "live", "expired", "deleted"}]
      /\ \A b \in Actions : /\ key'[b] # key[b] => b = a /\ key[b] = "live" /\ key'[b] = "deleted"
  BY <1>1 DEF Deleted, IInv, TypeOK
<1>4. faults' \in Nat /\ (faults > 0 => faults' > 0)
  BY DEF IInv, TypeOK
<1>5. TypeOK'
  BY <1>3, <1>4 DEF IInv, TypeOK
<1>6. KeyFollowsDraft'
  BY <1>3 DEF IInv, KeyFollowsDraft
<1>7. RequestIsNamed'
  BY <1>1, <1>2 DEF IInv, RequestIsNamed
<1>8. SessionMatched'
  BY <1>2 DEF IInv, SessionMatched
<1>9. RanIsAnswered'
  <2>1. c \notin ran
    BY DEF IInv, RanIsAnswered, Confirming
  <2> QED
    BY <1>2, <2>1 DEF IInv, TypeOK, RanIsAnswered
<1>10. ConfirmedIsConsumed'
  <2>1. \A d \in Confirms : pc[d] # "new" => req[d].action \in Actions
    BY DEF IInv, RequestIsNamed
  <2> QED
    BY <1>2, <1>3, <2>1 DEF IInv, ConfirmedIsConsumed, Consumed
<1>11. NoSilentLoss'
  <2> SUFFICES ASSUME NEW b \in Actions, key'[b] = "deleted"
               PROVE  \E d \in Confirms :
                        /\ req[d].action = b /\ req[d].session = owner[b]
                        /\ \/ pc'[d] \in Consumed
                           \/ pc'[d] \in {"unavailable", "lost"} /\ faults' > 0
    BY DEF NoSilentLoss
  <2>1. CASE key[b] = "deleted"
    <3>1. PICK d \in Confirms :
            /\ req[d].action = b /\ req[d].session = owner[b]
            /\ \/ pc[d] \in Consumed
               \/ pc[d] \in {"unavailable", "lost"} /\ faults > 0
      BY <2>1 DEF IInv, NoSilentLoss
    <3>2. CASE d = c
      BY <1>2, <1>4, <3>1, <3>2 DEF Consumed, Confirming
    <3>3. CASE d # c
      BY <1>2, <1>4, <3>1, <3>3
    <3> QED
      BY <3>2, <3>3
  <2>2. CASE key[b] # "deleted"
    BY <1>2, <1>3, <2>2
  <2> QED
    BY <2>1, <2>2
<1> QED
  BY <1>5, <1>6, <1>7, <1>8, <1>9, <1>10, <1>11 DEF IInv

\* The gates of the endpoint change at most the rate limiter's counter.
LEMMA PassGatesStep == ASSUME IInv, NEW c \in Confirms, PassGates(c) PROVE IInv'
<1>1. PICK label \in {"look", "refused", "unavailable"} : pc' = [pc EXCEPT ![c] = label]
  BY DEF PassGates, Goto
<1>2. req[c].session \in Sessions /\ pc[c] = "gate"
  BY DEF PassGates, IInv, RequestIsNamed
<1>3. count' \in [Sessions -> Nat] /\ faults' \in {faults, faults + 1}
  BY <1>2 DEF PassGates, Counted, Fault, IInv, TypeOK
<1>4. UNCHANGED <<draft, owner, key, req, ran>>
  BY DEF PassGates
<1> QED
  BY <1>1, <1>2, <1>3, <1>4, ConfirmMoves DEF Confirming, Answered, Consumed

\* The look-up lets only the session of the draft through.
LEMMA LookUpStep == ASSUME IInv, NEW c \in Confirms, LookUp(c) PROVE IInv'
<1>1. PICK label \in {"consume", "not_found", "unavailable"} :
        /\ pc' = [pc EXCEPT ![c] = label]
        /\ label = "consume" => req[c].session = owner[req[c].action]
  BY DEF LookUp, Goto, MayConfirm
<1>2. pc[c] = "look" /\ UNCHANGED <<draft, owner, key, req, ran, count>>
  BY DEF LookUp
<1>3. count' \in [Sessions -> Nat] /\ faults' \in {faults, faults + 1}
  BY <1>2 DEF LookUp, Fault, IInv, TypeOK
<1> QED
  BY <1>1, <1>2, <1>3, ConfirmMoves DEF Confirming, Answered, Consumed

\* The second read goes on only if the key is still there.
LEMMA FetchAgainStep == ASSUME IInv, NEW c \in Confirms, FetchAgain(c) PROVE IInv'
<1>1. PICK label \in {"delete", "not_found", "unavailable"} : pc' = [pc EXCEPT ![c] = label]
  BY DEF FetchAgain, Goto
<1>2. /\ pc[c] = "consume" /\ req[c].session = owner[req[c].action]
      /\ UNCHANGED <<draft, owner, key, req, ran, count>>
  BY DEF FetchAgain, IInv, SessionMatched
<1>3. count' \in [Sessions -> Nat] /\ faults' \in {faults, faults + 1}
  BY <1>2 DEF FetchAgain, Fault, IInv, TypeOK
<1> QED
  BY <1>1, <1>2, <1>3, ConfirmMoves DEF Confirming, Answered, Consumed

\* After the DEL the key is gone, and stays gone.
LEMMA DeleteStep == ASSUME IInv, NEW c \in Confirms, Delete(c) PROVE IInv'
<1> DEFINE a == req[c].action
<1>1. /\ pc[c] = "delete" /\ req[c].session = owner[a]
      /\ a \in Actions /\ draft[a] = "shown" /\ key[a] # "none"
      /\ UNCHANGED <<draft, owner, req, ran, count>>
  BY DEF Delete, IInv, SessionMatched, RequestIsNamed, KeyFollowsDraft
<1>2. Deleted(a)[a] \in {"expired", "deleted"}
  BY <1>1 DEF Deleted, IInv, TypeOK
<1>3. count' \in [Sessions -> Nat]
  BY <1>1 DEF IInv, TypeOK
<1>4. CASE key' = Deleted(a) /\ Goto(c, "run") /\ UNCHANGED faults
  BY <1>1, <1>2, <1>3, <1>4, ConfirmMoves DEF Goto, Confirming, Answered, Consumed
<1>5. CASE DelFailed(c)
  <2>1. faults' = faults + 1 /\ faults' > 0 /\ key' \in {key, Deleted(a)}
    BY <1>5 DEF DelFailed, Fault, Deleted, IInv, TypeOK
  <2>2. pc' = [pc EXCEPT ![c] = "unavailable"]
    BY <1>5 DEF DelFailed, Goto
  <2> QED
    BY <1>1, <1>3, <2>1, <2>2, ConfirmMoves DEF Confirming, Answered, Consumed
<1> QED
  BY <1>4, <1>5 DEF Delete, Deleted

\* The tool runs with the key already gone.
LEMMA RunToolStep == ASSUME IInv, NEW c \in Confirms, RunTool(c) PROVE IInv'
<1>1. PICK label \in {"executed", "tool_error"} : pc' = [pc EXCEPT ![c] = label]
  BY DEF RunTool, Goto
<1>2. /\ pc[c] = "run" /\ req[c].session = owner[req[c].action]
      /\ key[req[c].action] \in {"expired", "deleted"}
      /\ UNCHANGED <<draft, owner, key, req, count, faults>>
  BY DEF RunTool, IInv, SessionMatched, ConfirmedIsConsumed, Consumed
<1>3. count' \in [Sessions -> Nat] /\ ran' \in {ran, ran \union {c}}
  BY <1>2 DEF RunTool, IInv, TypeOK
<1> QED
  BY <1>1, <1>2, <1>3, ConfirmMoves DEF Confirming, Answered, Consumed

\* A crash leaves Redis as it is, and a confirm that died is accounted for.
LEMMA CrashStep == ASSUME IInv, Crash PROVE IInv'
<1>1. /\ UNCHANGED <<owner, key, req, ran, count>>
      /\ faults' = faults + 1 /\ faults' \in Nat /\ faults' > 0
  BY DEF Crash, Fault, IInv, TypeOK
<1>2. \A a \in Actions : draft'[a] = IF draft[a] \in Drafting THEN "lost" ELSE draft[a]
  BY DEF Crash
<1>3. \A c \in Confirms : pc'[c] = IF pc[c] \in Confirming THEN "lost" ELSE pc[c]
  BY DEF Crash
<1>4. TypeOK'
  <2>1. /\ draft' \in [Actions -> {"new"} \union Drafting \union
                                  {"shown", "refused", "unavailable", "lost"}]
        /\ pc' \in [Confirms -> {"new"} \union Confirming \union Answered]
    BY DEF Crash, IInv, TypeOK, Answered
  <2> QED
    BY <1>1, <2>1 DEF IInv, TypeOK
<1>5. KeyFollowsDraft'
  BY <1>1, <1>2 DEF IInv, KeyFollowsDraft
<1>6. RequestIsNamed'
  BY <1>1, <1>2, <1>3 DEF IInv, RequestIsNamed, Drafting, Confirming
<1>7. SessionMatched' /\ ConfirmedIsConsumed'
  BY <1>1, <1>3 DEF IInv, SessionMatched, ConfirmedIsConsumed, Consumed
<1>8. RanIsAnswered'
  BY <1>1, <1>3 DEF IInv, TypeOK, RanIsAnswered, Confirming
<1>9. NoSilentLoss'
  <2>1. \A c \in Confirms :
          /\ pc[c] \in Consumed => pc'[c] \in Consumed \union {"lost"}
          /\ pc[c] \in {"unavailable", "lost"} => pc'[c] = pc[c]
    BY <1>3 DEF Consumed, Confirming
  <2> SUFFICES ASSUME NEW b \in Actions, key[b] = "deleted"
               PROVE  \E d \in Confirms :
                        /\ req[d].action = b /\ req[d].session = owner[b]
                        /\ \/ pc'[d] \in Consumed
                           \/ pc'[d] \in {"unavailable", "lost"} /\ faults' > 0
    BY <1>1 DEF NoSilentLoss
  <2>2. PICK d \in Confirms :
          /\ req[d].action = b /\ req[d].session = owner[b]
          /\ pc[d] \in Consumed \/ pc[d] \in {"unavailable", "lost"}
    BY DEF IInv, NoSilentLoss
  <2> QED
    BY <1>1, <2>1, <2>2
<1> QED
  BY <1>4, <1>5, <1>6, <1>7, <1>8, <1>9 DEF IInv

-----------------------------------------------------------------------------

\* Every step preserves the invariant.
LEMMA NextIInv == IInv /\ [Next]_vars => IInv'
<1> SUFFICES ASSUME IInv, [Next]_vars PROVE IInv'
  OBVIOUS
<1>1. ASSUME NEW a \in Actions, Propose(a) \/ DraftStep(a) \/ Expire(a) PROVE IInv'
  BY <1>1, ProposeStep, DraftingStep
<1>2. ASSUME NEW c \in Confirms, Request(c) \/ ConfirmStep(c) PROVE IInv'
  BY <1>2, RequestStep, PassGatesStep, LookUpStep, FetchAgainStep, DeleteStep, RunToolStep
     DEF ConfirmStep
<1>3. CASE NextWindow
  BY <1>3 DEF NextWindow, IInv, TypeOK, KeyFollowsDraft, RequestIsNamed, SessionMatched,
              RanIsAnswered, ConfirmedIsConsumed, NoSilentLoss
<1>4. CASE Crash
  BY <1>4, CrashStep
<1>5. CASE UNCHANGED vars
  BY <1>5 DEF vars, IInv, TypeOK, KeyFollowsDraft, RequestIsNamed, SessionMatched,
              RanIsAnswered, ConfirmedIsConsumed, NoSilentLoss
<1> QED
  BY <1>1, <1>2, <1>3, <1>4, <1>5 DEF Next

\* The invariant holds in every reachable state.
LEMMA Invariance == Spec => []IInv
BY InitIInv, NextIInv, PTL DEF Spec

\* Every variable of the confirmation gate has its type.
THEOREM TypeCorrect == Spec => []TypeOK
<1>1. IInv => TypeOK
  BY DEF IInv
<1> QED
  BY <1>1, Invariance, PTL

\* Once a confirm runs the tool its action is out of the store for good, so
\* every confirm that starts afterwards is told "not found".
THEOREM ConsumedForGood == Spec => []ConfirmedIsConsumed
<1>1. IInv => ConfirmedIsConsumed
  BY DEF IInv
<1> QED
  BY <1>1, Invariance, PTL

\* A gated tool takes effect only on a confirm by the draft's own session.
THEOREM OnlyOwnersRun == Spec => []RunIsOwners
<1>1. ASSUME IInv PROVE RunIsOwners
  <2> SUFFICES ASSUME NEW c \in ran
               PROVE  req[c].session = owner[req[c].action] /\ draft[req[c].action] = "shown"
    BY DEF RunIsOwners
  <2>1. c \in Confirms /\ pc[c] \in {"executed", "tool_error"}
    BY <1>1 DEF IInv, TypeOK, RanIsAnswered
  <2> QED
    BY <1>1, <2>1 DEF IInv, SessionMatched, RequestIsNamed, Consumed
<1> QED
  BY <1>1, Invariance, PTL

\* A deleted action is accounted for by an answer to its owner or by a crash.
THEOREM LossIsTold == Spec => []NoSilentLoss
<1>1. IInv => NoSilentLoss
  BY DEF IInv
<1> QED
  BY <1>1, Invariance, PTL
=============================================================================
