------------------------------- MODULE ChatLlm -------------------------------
(***************************************************************************)
(* The one LLMAdapter every request of the service shares, and the ways a  *)
(* POST /chat request chooses the model its calls go to: by switching the  *)
(* adapter for the time of the request (chat, prompt, insight fallback) or *)
(* by overrides frozen up front (document jobs).  The Console and the      *)
(* catalog reconfigure the same adapter.                                   *)
(*                                                                         *)
(* A coroutine runs from one await to the next without interruption, and   *)
(* so does an action here.  A configuration is a function from Fields; a   *)
(* field of the adapter is a value or None, one of an override is a value, *)
(* Empty (the code's "") or None.                                          *)
(***************************************************************************)
EXTENDS Naturals, Sequences

CONSTANTS
  Requests,         \* the /chat requests
  Presets,          \* preset ids, of catalog_models or the built-in list
  Config,           \* Config[p]: the overrides preset p resolves to
  PlainModels,      \* model names that are no preset ids
  Forms,            \* what a request may ask for
  Manuals,          \* what the Console's Advanced form may send
  StartPreset,      \* the default preset at startup
  EnvConfigs,       \* what LLM_API_BASE may start the adapter with instead
  RuntimeFallbacks, \* the Console's fallback presets, in order
  SameModel,        \* pairs <<m, t>> of models, m being t with its provider
  MaxEdits,         \* bound on the Console's and the catalog's changes
  None, Empty

Fields == {"model", "api_base", "api_key", "api_version"}

Agents == {"chat", "job", "prompt", "insight"}

-----------------------------------------------------------------------------
(* Configurations: app/llm/adapter.py and app/llm/model_presets.py.        *)

Cleared(v) == IF v = Empty THEN None ELSE v

\* A faulty variant: an empty model counts as passed.
PassedEvenEmpty(o, f) == o[f] # None

\* An argument that says something of its field: an empty model does not.
Passed(o, f) == o[f] # None /\ ~(f = "model" /\ o[f] = Empty)

\* configure(): a field not passed stays, an empty one is cleared.
Configured(a, o) ==
  [f \in Fields |-> IF Passed(o, f) THEN Cleared(o[f]) ELSE a[f]]

\* A faulty variant: a preset's empty fields are not passed.
AppliedWhereSet(a, p) ==
  [f \in Fields |-> IF Config[p][f] = Empty THEN a[f] ELSE Config[p][f]]

\* apply_preset(), which passes every field.
Applied(a, p) == Configured(a, Config[p])

\* The configuration a preset stands for.
PresetConfig(p) == [f \in Fields |-> Cleared(Config[p][f])]

NoOverrides == [f \in Fields |-> None]

OnlyModel(m) == [NoOverrides EXCEPT !["model"] = m]

HasKey(p) == Config[p]["api_key"] # Empty

Keyed == {p \in Presets : HasKey(p)}

\* chat_completion(): what a call sends.  A model that is the id of a preset
\* with a key stands for the whole preset, even if another preset's model
\* is so named; the adapter stands in for what is not overridden.
Sent(a, o) ==
  Configured(a, IF o["model"] \in Keyed THEN Config[o["model"]] ELSE o)

\* preset_call_overrides(m), or the bare model name.
Explicit(m) == IF m \in Keyed THEN Config[m] ELSE OnlyModel(m)

\* What a request may ask for: the model it names, the one its tenant has
\* chosen for the agent, and the tenant's fallbacks.
RequestForms ==
  [agent : Agents, explicit : Presets \cup PlainModels \cup {None},
   tenant : Presets \cup {None}, fallbacks : Seq(Presets)]

ASSUME ChatLlmAssumption ==
  /\ StartPreset \in Presets
  /\ RuntimeFallbacks \in Seq(Presets)
  /\ None \notin Presets \cup PlainModels
  /\ Empty \notin Presets \cup PlainModels \cup {None}
  /\ Presets \cap PlainModels = {}
  /\ \A p \in Presets :
       /\ Config[p] = [f \in Fields |-> Config[p][f]]
       /\ \A f \in Fields : Config[p][f] # None
       /\ Config[p]["model"] # Empty
  /\ \A e \in EnvConfigs :
       /\ e = [f \in Fields |-> e[f]]
       /\ \A f \in Fields : e[f] # Empty
       /\ e["model"] # None
  /\ \A m \in Manuals : DOMAIN m = Fields
  /\ Forms \subseteq RequestForms
  /\ \A f \in Forms : f.agent = "insight" => f.explicit = None
  /\ MaxEdits \in Nat

-----------------------------------------------------------------------------
VARIABLES
  adapter,    \* the adapter's configuration
  default,    \* runtime_models.default_preset_id
  wanted,     \* the configuration the Console last set (history)
  edits,      \* changes made by the Console and the catalog (bounded)
  pc,         \* how far a request has come
  form,       \* what it asks for, and what the catalog says of its tenant
  overrides,  \* llm_overrides, frozen by chat()
  next,       \* the overrides its next call passes
  rest,       \* the places of its fallback chain not tried yet
  switched,   \* what it has switched the adapter to, or None
  disturbed,  \* has another changed the adapter since it chose (history)
  calls       \* what its LLM calls sent (history)

console == <<default, wanted, edits>>
choice  == <<form, overrides>>
vars == <<adapter, console, pc, choice, next, rest, switched, disturbed, calls>>

\* The start-up applies the default preset unless LLM_API_BASE is set.
Init ==
  /\ adapter \in {PresetConfig(StartPreset)} \cup EnvConfigs
  /\ default = StartPreset
  /\ wanted = adapter
  /\ edits = 0
  /\ pc = [r \in Requests |-> "idle"]
  /\ form \in [Requests -> Forms]
  /\ overrides = [r \in Requests |-> NoOverrides]
  /\ next = [r \in Requests |-> NoOverrides]
  /\ rest = [r \in Requests |-> {}]
  /\ switched = [r \in Requests |-> None]
  /\ disturbed = [r \in Requests |-> FALSE]
  /\ calls = [r \in Requests |-> <<>>]

InFlight == {r \in Requests : pc[r] \in {"ready", "calling"}}

-----------------------------------------------------------------------------
(* What a request asks for.                                                *)

\* The model the request names or its tenant has chosen, as chat() finds it.
Slug(f) == IF f.explicit = None THEN f.tenant ELSE None

\* llm_overrides: named, else the tenant's if it has a key, else a snapshot.
Overrides(f, a) ==
  IF f.explicit # None THEN Explicit(f.explicit)
  ELSE IF Slug(f) # None /\ HasKey(Slug(f)) THEN Config[Slug(f)]
  ELSE a

\* The adapter's model is t, with or without a provider in front.
AlreadyOn(a, t) == a["model"] = t \/ <<a["model"], t>> \in SameModel

\* What the request switches the adapter to before its first call.
Target(f, a) ==
  CASE f.agent = "chat"   -> Slug(f)
    [] f.agent = "prompt" -> IF f.explicit \in PlainModels /\ AlreadyOn(a, f.explicit)
                             THEN None ELSE f.explicit
    [] OTHER              -> None

SwitchedTo(a, t) ==
  IF t = None THEN a
  ELSE IF t \in Presets THEN Applied(a, t)
  ELSE Configured(a, OnlyModel(t))

\* A faulty variant: document jobs use the adapter too.
FirstOverridesAmbient(f, a) == NoOverrides

\* The overrides the agent passes at its first call.
FirstOverrides(f, a) == IF f.agent = "job" THEN Overrides(f, a) ELSE NoOverrides

\* The tenant's fallbacks, then the Console's.
Chain(f) ==
  (IF f.explicit = None THEN f.fallbacks ELSE <<>>) \o RuntimeFallbacks

\* fallback_override_chain(): presets with a key, each model once.
Usable(c) ==
  {i \in DOMAIN c :
     /\ HasKey(c[i])
     /\ \A j \in 1 .. i - 1 :
          HasKey(c[j]) => Config[c[j]]["model"] # Config[c[i]]["model"]}

\* _insight_with_fallback(): each preset id once.
Distinct(c) == {i \in DOMAIN c : \A j \in 1 .. i - 1 : c[j] # c[i]}

Fallbacks(f) ==
  CASE f.agent \in {"chat", "job"} -> Usable(Chain(f))
    [] f.agent = "insight"         -> Distinct(Chain(f))
    [] OTHER                       -> {}

\* i is the first of the places.
IsFirst(i, places) == i \in places /\ \A j \in places : i <= j

\* Everybody but r notes a change of the adapter.
NoteChange(r) ==
  disturbed' = [q \in Requests |->
                  disturbed[q] \/ (q # r /\ adapter' # adapter)]

-----------------------------------------------------------------------------
(* A request.                                                              *)

\* The catalog cannot be read: as if the tenant had chosen nothing.
LookupFails(r) ==
  /\ pc[r] = "idle"
  /\ form[r].explicit = None
  /\ form[r].tenant # None
  /\ form' = [form EXCEPT ![r].tenant = None, ![r].fallbacks = <<>>]
  /\ UNCHANGED <<adapter, console, pc, overrides, next, rest, switched,
                 disturbed, calls>>

\* From the lookup's answer to the agent's first await.
Select(r) ==
  /\ pc[r] = "idle"
  /\ LET f == form[r]
         t == Target(f, adapter)
         a == SwitchedTo(adapter, t)
     IN /\ adapter' = a
        /\ overrides' = [overrides EXCEPT ![r] = Overrides(f, a)]
        /\ next' = [next EXCEPT ![r] = FirstOverrides(f, a)]
        /\ rest' = [rest EXCEPT ![r] = Fallbacks(f)]
        /\ switched' = [switched EXCEPT ![r] = t]
  /\ disturbed' = [q \in Requests |->
                     q # r /\ (disturbed[q] \/ adapter' # adapter)]
  /\ pc' = [pc EXCEPT ![r] = "ready"]
  /\ UNCHANGED <<console, form, calls>>

\* The agent reaches chat_completion(), which reads the adapter.
Call(r) ==
  /\ pc[r] = "ready"
  /\ calls' = [calls EXCEPT ![r] = Append(@, Sent(adapter, next[r]))]
  /\ pc' = [pc EXCEPT ![r] = "calling"]
  /\ UNCHANGED <<adapter, console, choice, next, rest, switched, disturbed>>

\* restore_runtime_llm(), in the finally of chat().
Restored == Applied(adapter, default)

\* The call answers and the request with it.
Answer(r) ==
  /\ pc[r] = "calling"
  /\ adapter' = Restored
  /\ NoteChange(r)
  /\ switched' = [switched EXCEPT ![r] = None]
  /\ pc' = [pc EXCEPT ![r] = "done"]
  /\ UNCHANGED <<console, choice, next, rest, calls>>

\* A faulty variant: the same fallback is tried for ever (the history of
\* later calls is lost, to keep the states finite).
TryFallbackAgain(r) ==
  /\ pc[r] = "calling"
  /\ \E i \in rest[r] :
       /\ IsFirst(i, rest[r])
       /\ next' = [next EXCEPT ![r] = Config[Chain(form[r])[i]]]
  /\ pc' = [pc EXCEPT ![r] = "ready"]
  /\ calls' = [calls EXCEPT ![r] = <<@[1]>>]
  /\ UNCHANGED <<adapter, console, choice, rest, switched, disturbed>>

\* The call fails and the next fallback is tried: by overrides, or by
\* switching the adapter.
TryFallback(r) ==
  /\ pc[r] = "calling"
  /\ \E i \in rest[r] :
       LET p == Chain(form[r])[i]
           insight == form[r].agent = "insight"
       IN /\ IsFirst(i, rest[r])
          /\ rest' = [rest EXCEPT ![r] = @ \ {i}]
          /\ next' = [next EXCEPT ![r] =
                        IF insight THEN NoOverrides ELSE Config[p]]
          /\ adapter' = IF insight THEN Applied(adapter, p) ELSE adapter
          /\ switched' = [switched EXCEPT ![r] = IF insight THEN p ELSE @]
  /\ NoteChange(r)
  /\ pc' = [pc EXCEPT ![r] = "ready"]
  /\ UNCHANGED <<console, choice, calls>>

\* A faulty variant: the adapter is restored on success only.
GiveUpSwitched(r) ==
  /\ pc[r] = "calling"
  /\ rest[r] = {}
  /\ switched' = [switched EXCEPT ![r] = None]
  /\ pc' = [pc EXCEPT ![r] = "failed"]
  /\ UNCHANGED <<adapter, console, choice, next, rest, disturbed, calls>>

\* The last call fails: the agent raises, the finally of chat() runs.
GiveUp(r) ==
  /\ pc[r] = "calling"
  /\ rest[r] = {}
  /\ adapter' = Restored
  /\ NoteChange(r)
  /\ switched' = [switched EXCEPT ![r] = None]
  /\ pc' = [pc EXCEPT ![r] = "failed"]
  /\ UNCHANGED <<console, choice, next, rest, calls>>

-----------------------------------------------------------------------------
(* The Console and the catalog.                                            *)

Edit ==
  /\ edits < MaxEdits
  /\ edits' = edits + 1
  /\ disturbed' = [q \in Requests |-> disturbed[q] \/ adapter' # adapter]
  /\ UNCHANGED <<pc, choice, next, rest, switched, calls>>

\* POST /console/llm-config with a preset that has a key.
SavePreset(p) ==
  /\ HasKey(p)
  /\ adapter' = Applied(adapter, p)
  /\ default' = p
  /\ wanted' = adapter'
  /\ Edit

\* POST /console/llm-config without one, the Advanced form.
SaveManual(m) ==
  /\ adapter' = Configured(adapter, m)
  /\ wanted' = adapter'
  /\ UNCHANGED default
  /\ Edit

\* _refresh_catalog_runtime(), after every change of the catalog.
RefreshCatalog ==
  /\ adapter' = Applied(adapter, default)
  /\ wanted' = adapter'
  /\ UNCHANGED default
  /\ Edit

-----------------------------------------------------------------------------
RequestStep(r) ==
  LookupFails(r) \/ Select(r) \/ Call(r) \/ Answer(r) \/ TryFallback(r) \/ GiveUp(r)

ConsoleStep ==
  \/ \E p \in Presets : SavePreset(p)
  \/ \E m \in Manuals : SaveManual(m)
  \/ RefreshCatalog

Next == ConsoleStep \/ \E r \in Requests : RequestStep(r)

Spec == Init /\ [][Next]_vars

\* A request that has chosen its model goes on: an LLM call has a timeout.
FairSpec ==
  /\ Spec
  /\ \A r \in Requests :
       WF_vars(Call(r) \/ Answer(r) \/ TryFallback(r) \/ GiveUp(r))
-----------------------------------------------------------------------------
(* Properties.                                                             *)

\* Every value a field may have; the adapter has no Empty ones.
Values ==
  Presets \cup PlainModels \cup {None, Empty}
    \cup {Config[p][f] : p \in Presets, f \in Fields}
    \cup {m[f] : m \in Manuals \cup EnvConfigs, f \in Fields}

Settings == [Fields -> Values \ {Empty}]

\* What the variables hold; the adapter always has a model (configure() must
\* not clear it: litellm would be called with None).
TypeOK ==
  /\ adapter \in Settings /\ wanted \in Settings
  /\ adapter["model"] # None
  /\ default \in Presets
  /\ edits \in 0 .. MaxEdits
  /\ pc \in [Requests -> {"idle", "ready", "calling", "done", "failed"}]
  /\ form \in [Requests -> RequestForms]
  /\ overrides \in [Requests -> [Fields -> Values]]
  /\ next \in [Requests -> [Fields -> Values]]
  /\ rest \in [Requests -> SUBSET Nat]
  /\ \A r \in Requests :
       /\ rest[r] \subseteq DOMAIN Chain(form[r])
       /\ pc[r] = "idle" => rest[r] = {} /\ calls[r] = <<>>
  /\ switched \in [Requests -> Presets \cup PlainModels \cup {None}]
  /\ disturbed \in [Requests -> BOOLEAN]
  /\ calls \in [Requests -> Seq(Settings)]

\* Whatever requests overlap and however they end, the adapter is away from
\* the Console's choice only while a request that switched it is in flight:
\* no tenant's model and key stay behind (the finally of chat()).
AdapterComesHome ==
  \/ adapter \in {PresetConfig(default), wanted}
  \/ \E r \in InFlight : switched[r] # None

\* The configuration a document job has been given, None where it has not.
Selection(f) ==
  IF f.explicit # None THEN Explicit(f.explicit)
  ELSE IF f.tenant # None /\ HasKey(f.tenant) THEN Config[f.tenant]
  ELSE NoOverrides

\* c is the whole preset the selection s names, or else agrees with s.
Sends(c, s) ==
  IF s["model"] \in Keyed THEN c = PresetConfig(s["model"])
  ELSE \A f \in Fields : s[f] # None => c[f] = Cleared(s[f])

\* A document job's first call sends what its request or tenant selected,
\* and a fallback call a whole fallback preset that has a key, whatever
\* other requests and the Console do to the adapter meanwhile.  A selected
\* model that is itself a preset's id "means that whole preset"
\* (adapter.py:149), also where a catalog preset's own model is one.
SelectionHolds ==
  \A r \in Requests : form[r].agent = "job" =>
    \A i \in DOMAIN calls[r] :
      IF i = 1 THEN Sends(calls[r][1], Selection(form[r]))
      ELSE \E p \in Keyed : calls[r][i] = PresetConfig(p)

\* A configuration is the one a request switched to.
IsTarget(c, t) ==
  IF t \in Presets THEN c = PresetConfig(t) ELSE c["model"] = t

\* A request that switches the adapter and that nobody disturbs makes its
\* call with what it switched to, all fields of it: nothing of an earlier
\* preset lingers (an Azure api_version, say).
UndisturbedUsesOwn ==
  \A r \in Requests :
    /\ pc[r] = "calling"
    /\ switched[r] # None
    /\ next[r] = NoOverrides
    /\ ~disturbed[r]
    => IsTarget(calls[r][Len(calls[r])], switched[r])

\* Every request that has chosen its model is answered or refused, however
\* many of its calls fail.
EveryRequestEnds ==
  \A r \in Requests : r \in InFlight ~> pc[r] \in {"done", "failed"}

\* adapter.py:93 says that a snapshot makes the calls of a request that
\* selects nothing "immune to another concurrent request changing the
\* shared adapter's default": they send what was frozen.
FrozenIsImmune ==
  \A r \in Requests :
    /\ form[r].agent = "job"
    /\ Selection(form[r]) = NoOverrides
    /\ calls[r] # <<>>
    => calls[r][1] = overrides[r]

\* adapter.py:22 says that a reconfiguration by the Console "takes effect
\* for every subsequent call": with no request in flight the adapter is as
\* the Console left it.
ConsoleDecides == InFlight = {} => adapter = wanted
=============================================================================
