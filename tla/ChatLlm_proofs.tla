---------------------------- MODULE ChatLlm_proofs ----------------------------
(***************************************************************************)
(* What holds of the shared adapter for any number of requests, presets    *)
(* and changes by the Console: whose model a call goes to.                 *)
(***************************************************************************)
EXTENDS ChatLlm, TLAPS, SequenceTheorems

-----------------------------------------------------------------------------
(* Lemmas about configurations.                                            *)

LEMMA PresetIsComplete ==
  ASSUME NEW p \in Presets
  PROVE  /\ Config[p] \in [Fields -> Values] 
         /\ \A f \in Fields : Config[p][f] # None /\ Passed(Config[p], f)
         /\ Config[p]["model"] \notin {None, Empty}
         /\ PresetConfig(p) \in Settings
         /\ PresetConfig(p)["model"] = Config[p]["model"]
<1>1. \A f \in Fields : Config[p][f] # None /\ Config[p][f] \in Values
  <2>1. \A f \in Fields : Config[p][f] # None
    BY ChatLlmAssumption
  <2>2. \A f \in Fields : Config[p][f] \in Values
    BY DEF Values
  <2> QED BY <2>1, <2>2
<1>2. Config[p]["model"] # Empty
  BY ChatLlmAssumption
<1>3. \A f \in Fields : Passed(Config[p], f)
  BY <1>1, <1>2 DEF Passed
<1>4. PresetConfig(p) \in Settings
  <2>1. \A f \in Fields : Cleared(Config[p][f]) \in Values \ {Empty}
    BY <1>1, ChatLlmAssumption DEF Cleared, Values
  <2> QED BY <2>1 DEF PresetConfig, Settings
<1>5. "model" \in Fields
  BY DEF Fields
<1>6. PresetConfig(p)["model"] = Config[p]["model"]
  BY <1>2, <1>5 DEF PresetConfig, Cleared
<1>7. Config[p] \in [Fields -> Values]
  <2>1. Config[p] = [f \in Fields |-> Config[p][f]]
    BY ChatLlmAssumption
  <2> QED BY <1>1, <2>1
<1> QED BY <1>1, <1>2, <1>3, <1>4, <1>5, <1>6, <1>7

\* apply_preset() leaves nothing of the configuration before it.
LEMMA AppliedIsPreset ==
  ASSUME NEW p \in Presets, NEW a
  PROVE  Applied(a, p) = PresetConfig(p)
BY PresetIsComplete DEF Applied, Configured, PresetConfig

\* A call that passes a whole preset sends it, or the one its model names.
LEMMA SentPreset ==
  ASSUME NEW p \in Keyed, NEW a
  PROVE  \E q \in Keyed : Sent(a, Config[p]) = PresetConfig(q)
<1>1. CASE Config[p]["model"] \in Keyed
  BY <1>1, AppliedIsPreset DEF Sent, Keyed, Applied
<1>2. CASE Config[p]["model"] \notin Keyed
  BY <1>2, AppliedIsPreset DEF Sent, Keyed, Applied
<1> QED BY <1>1, <1>2

\* A call that passes nothing sends what the adapter holds.
LEMMA SentNothing ==
  ASSUME NEW a \in Settings
  PROVE  Sent(a, NoOverrides) = a
<1>1. NoOverrides["model"] \notin Keyed
  BY ChatLlmAssumption DEF NoOverrides, Fields, Keyed
<1> QED BY <1>1 DEF Sent, Configured, NoOverrides, Passed, Settings

\* configure() and chat_completion() keep to the values there are.
LEMMA SentType ==
  ASSUME NEW a \in Settings, NEW o \in [Fields -> Values]
  PROVE  Sent(a, o) \in Settings
<1> DEFINE w == IF o["model"] \in Keyed THEN Config[o["model"]] ELSE o
<1>1. \A f \in Fields : w[f] \in Values
  BY PresetIsComplete DEF Keyed
<1> HIDE DEF w
<1>2. Configured(a, w) \in Settings
  BY <1>1, ChatLlmAssumption DEF Configured, Settings, Values, Cleared, Passed
<1> QED BY <1>2 DEF Sent, w

LEMMA ConfiguredType ==
  ASSUME NEW a \in Settings, a["model"] # None,
         NEW o, \A f \in Fields : o[f] \in Values
  PROVE  Configured(a, o) \in Settings /\ Configured(a, o)["model"] # None
BY ChatLlmAssumption DEF Configured, Settings, Values, Cleared, Passed, Fields

LEMMA ExplicitType ==
  ASSUME NEW m \in Presets \cup PlainModels
  PROVE  /\ Explicit(m) \in [Fields -> Values]
         /\ Explicit(m)["model"] \notin {None, Empty}
         /\ OnlyModel(m) \in [Fields -> Values]
         /\ OnlyModel(m)["model"] = m
BY ChatLlmAssumption, PresetIsComplete
   DEF Explicit, OnlyModel, NoOverrides, Values, Fields, Keyed

LEMMA OverridesType ==
  ASSUME NEW f \in RequestForms, NEW a \in Settings
  PROVE  /\ Overrides(f, a) \in [Fields -> Values]
         /\ FirstOverrides(f, a) \in [Fields -> Values]
<1>1. a \in [Fields -> Values] /\ NoOverrides \in [Fields -> Values]
  BY DEF Settings, NoOverrides, Values
<1>2. Overrides(f, a) \in [Fields -> Values]
  <2>1. f.explicit # None => Explicit(f.explicit) \in [Fields -> Values]
    BY ExplicitType DEF RequestForms
  <2>2. Slug(f) # None => Config[Slug(f)] \in [Fields -> Values]
    BY PresetIsComplete DEF Slug, RequestForms
  <2> QED BY <1>1, <2>1, <2>2 DEF Overrides
<1> QED BY <1>1, <1>2 DEF FirstOverrides

LEMMA TargetType ==
  ASSUME NEW f \in RequestForms, NEW a
  PROVE  Target(f, a) \in Presets \cup PlainModels \cup {None}
BY DEF Target, RequestForms, Slug, Agents

LEMMA SwitchedToType ==
  ASSUME NEW a \in Settings, a["model"] # None,
         NEW t \in Presets \cup PlainModels \cup {None}
  PROVE  SwitchedTo(a, t) \in Settings /\ SwitchedTo(a, t)["model"] # None
<1>1. CASE t = None
  BY <1>1 DEF SwitchedTo
<1>2. CASE t # None /\ t \in Presets
  BY <1>2, AppliedIsPreset, PresetIsComplete DEF SwitchedTo
<1>3. CASE t # None /\ t \notin Presets
  BY <1>3, ExplicitType, ConfiguredType DEF SwitchedTo
<1> QED BY <1>1, <1>2, <1>3

LEMMA ChainType ==
  ASSUME NEW f \in RequestForms
  PROVE  Chain(f) \in Seq(Presets)
<1>1. (IF f.explicit = None THEN f.fallbacks ELSE <<>>) \in Seq(Presets)
  BY DEF RequestForms
<1>2. RuntimeFallbacks \in Seq(Presets)
  BY ChatLlmAssumption
<1> QED BY <1>1, <1>2, ConcatProperties DEF Chain

LEMMA FallbacksType ==
  ASSUME NEW f \in RequestForms
  PROVE  Fallbacks(f) \subseteq DOMAIN Chain(f) /\ Fallbacks(f) \subseteq Nat
<1>1. DOMAIN Chain(f) \subseteq Nat
  BY ChainType
<1> QED BY <1>1 DEF Fallbacks, Usable, Distinct

-----------------------------------------------------------------------------
(* Type correctness.                                                       *)

LEMMA InitType == Init => TypeOK
<1> SUFFICES ASSUME Init PROVE TypeOK
  OBVIOUS
<1>1. adapter \in Settings /\ adapter["model"] # None /\ wanted \in Settings
  <2>1. \A e \in EnvConfigs : e \in Settings /\ e["model"] # None
    <3>1. ASSUME NEW e \in EnvConfigs
          PROVE  e = [f \in Fields |-> e[f]] /\ \A f \in Fields : e[f] \in Values \ {Empty}
      BY ChatLlmAssumption DEF Values
    <3> QED BY <3>1, ChatLlmAssumption DEF Settings
  <2> QED BY <2>1, PresetIsComplete, ChatLlmAssumption DEF Init
<1>2. NoOverrides \in [Fields -> Values]
  BY DEF NoOverrides, Values
<1>3. form \in [Requests -> RequestForms]
  BY ChatLlmAssumption DEF Init
<1> QED BY <1>1, <1>2, <1>3, ChatLlmAssumption DEF Init, TypeOK

LEMMA ManualType ==
  ASSUME NEW m \in Manuals
  PROVE  \A f \in Fields : m[f] \in Values
BY DEF Values

\* What a step to the next fallback does.
LEMMA FallbackStep ==
  ASSUME TypeOK, NEW r \in Requests, TryFallback(r)
  PROVE  \E i \in rest[r], p \in Presets :
           /\ p = Chain(form[r])[i]
           /\ rest' = [rest EXCEPT ![r] = @ \ {i}]
           /\ next' = [next EXCEPT ![r] =
                         IF form[r].agent = "insight" THEN NoOverrides
                                                      ELSE Config[p]]
           /\ adapter' = IF form[r].agent = "insight" THEN PresetConfig(p)
                                                     ELSE adapter
           /\ switched' = [switched EXCEPT ![r] =
                             IF form[r].agent = "insight" THEN p ELSE @]
           /\ pc[r] = "calling" /\ pc' = [pc EXCEPT ![r] = "ready"]
           /\ UNCHANGED <<default, wanted, edits, form, overrides, calls>>
<1>1. PICK i \in rest[r] :
        /\ rest' = [rest EXCEPT ![r] = @ \ {i}]
        /\ next' = [next EXCEPT ![r] =
                      IF form[r].agent = "insight"
                      THEN NoOverrides ELSE Config[Chain(form[r])[i]]]
        /\ adapter' = IF form[r].agent = "insight"
                      THEN Applied(adapter, Chain(form[r])[i]) ELSE adapter
        /\ switched' = [switched EXCEPT ![r] =
                          IF form[r].agent = "insight" THEN Chain(form[r])[i] ELSE @]
  BY DEF TryFallback
<1> DEFINE p == Chain(form[r])[i]
<1>2. p \in Presets
  <2>1. Chain(form[r]) \in Seq(Presets) /\ i \in DOMAIN Chain(form[r])
    BY ChainType DEF TypeOK
  <2> QED BY <2>1
<1>3. Applied(adapter, p) = PresetConfig(p)
  BY <1>2, AppliedIsPreset
<1>4. /\ pc[r] = "calling" /\ pc' = [pc EXCEPT ![r] = "ready"]
      /\ UNCHANGED <<default, wanted, edits, form, overrides, calls>>
  BY DEF TryFallback, console, choice
<1> QED BY <1>1, <1>2, <1>3, <1>4

LEMMA NextType ==
  ASSUME TypeOK, [Next]_vars
  PROVE  TypeOK'
<1> USE DEF console, choice
<1>1. ASSUME NEW r \in Requests, LookupFails(r) PROVE TypeOK'
  <2>1. form' \in [Requests -> RequestForms]
    <3>1. form[r] \in RequestForms /\ <<>> \in Seq(Presets)
      BY DEF TypeOK
    <3>2. [form[r] EXCEPT !.tenant = None, !.fallbacks = <<>>] \in RequestForms
      BY <3>1 DEF RequestForms
    <3>3. form' = [form EXCEPT ![r] = [form[r] EXCEPT !.tenant = None,
                                                      !.fallbacks = <<>>]]
      BY <1>1 DEF LookupFails, TypeOK
    <3> QED BY <3>2, <3>3 DEF TypeOK
  <2>2. ASSUME NEW q \in Requests 
      PROVE  /\ rest'[q] \subseteq DOMAIN Chain(form'[q])
             /\ pc'[q] = "idle" => rest'[q] = {} /\ calls'[q] = <<>>
    BY <1>1 DEF LookupFails, TypeOK
  <2> QED BY <1>1, <2>1, <2>2 DEF LookupFails, TypeOK
<1>2. ASSUME NEW r \in Requests, Select(r) PROVE TypeOK'
  <2> DEFINE f == form[r]
             t == Target(f, adapter)
             a == SwitchedTo(adapter, t)
  <2>1. f \in RequestForms
    BY DEF TypeOK
  <2>2. a \in Settings /\ a["model"] # None
    BY <2>1, TargetType, SwitchedToType DEF TypeOK
  <2>3. /\ Overrides(f, a) \in [Fields -> Values]
        /\ FirstOverrides(f, a) \in [Fields -> Values]
    BY <2>1, <2>2, OverridesType
  <2>4. Fallbacks(f) \subseteq DOMAIN Chain(f) /\ Fallbacks(f) \subseteq Nat
    BY <2>1, FallbacksType
  <2>5. t \in Presets \cup PlainModels \cup {None}
    BY <2>1, TargetType
  <2> HIDE DEF f, t, a
  <2>6. adapter' = a
    BY <1>2 DEF Select, f, t, a
  <2>7. /\ overrides' = [overrides EXCEPT ![r] = Overrides(f, a)]
        /\ next' = [next EXCEPT ![r] = FirstOverrides(f, a)]
        /\ rest' = [rest EXCEPT ![r] = Fallbacks(f)]
        /\ switched' = [switched EXCEPT ![r] = t]
        /\ pc' = [pc EXCEPT ![r] = "ready"]
        /\ disturbed' \in [Requests -> BOOLEAN]
        /\ UNCHANGED <<console, form, calls>>
    BY <1>2 DEF Select, f, t, a, TypeOK
  <2>8. ASSUME NEW q \in Requests 
      PROVE  /\ rest'[q] \subseteq DOMAIN Chain(form'[q])
             /\ pc'[q] = "idle" => rest'[q] = {} /\ calls'[q] = <<>>
    BY <2>4, <2>7 DEF TypeOK, f
  <2> QED BY <2>2, <2>3, <2>4, <2>5, <2>6, <2>7, <2>8 DEF TypeOK
<1>3. ASSUME NEW r \in Requests, Call(r) PROVE TypeOK'
  <2>1. Sent(adapter, next[r]) \in Settings
    BY SentType DEF TypeOK
  <2>2. calls' \in [Requests -> Seq(Settings)]
    <3>1. Append(calls[r], Sent(adapter, next[r])) \in Seq(Settings)
      BY <2>1 DEF TypeOK
    <3> QED BY <1>3, <3>1 DEF Call, TypeOK
  <2> QED BY <1>3, <2>2 DEF Call, TypeOK
<1>4. ASSUME NEW r \in Requests, Answer(r) \/ GiveUp(r) PROVE TypeOK'
  <2>1. adapter' = PresetConfig(default)
    BY <1>4, AppliedIsPreset DEF Answer, GiveUp, Restored, TypeOK
  <2>2. adapter' \in Settings /\ adapter'["model"] # None
    BY <2>1, PresetIsComplete DEF TypeOK
  <2>3. disturbed' \in [Requests -> BOOLEAN]
    BY <1>4 DEF Answer, GiveUp, NoteChange, TypeOK
  <2> QED BY <1>4, <2>2, <2>3 DEF Answer, GiveUp, TypeOK
<1>5. ASSUME NEW r \in Requests, TryFallback(r) PROVE TypeOK'
  <2>1. PICK i \in rest[r], p \in Presets :
          /\ rest' = [rest EXCEPT ![r] = @ \ {i}]
          /\ next' = [next EXCEPT ![r] =
                        IF form[r].agent = "insight" THEN NoOverrides
                                                     ELSE Config[p]]
          /\ adapter' = IF form[r].agent = "insight" THEN PresetConfig(p)
                                                    ELSE adapter
          /\ switched' = [switched EXCEPT ![r] =
                            IF form[r].agent = "insight" THEN p ELSE @]
    BY <1>5, FallbackStep
  <2>3. adapter' \in Settings /\ adapter'["model"] # None
    BY <2>1, PresetIsComplete DEF TypeOK
  <2>4. next' \in [Requests -> [Fields -> Values]]
    <3>1. NoOverrides \in [Fields -> Values] /\ Config[p] \in [Fields -> Values]
      BY PresetIsComplete DEF NoOverrides, Values
    <3> QED BY <2>1, <3>1 DEF TypeOK
  <2>5. switched' \in [Requests -> Presets \cup PlainModels \cup {None}]
    BY <2>1 DEF TypeOK
  <2>6. /\ pc' = [pc EXCEPT ![r] = "ready"]
        /\ UNCHANGED <<console, choice, calls>>
        /\ disturbed' \in [Requests -> BOOLEAN]
    BY <1>5 DEF TryFallback, NoteChange, TypeOK
  <2>7. /\ rest' \in [Requests -> SUBSET Nat]
        /\ \A q \in Requests :
             /\ rest'[q] \subseteq DOMAIN Chain(form'[q])
             /\ pc'[q] = "idle" => rest'[q] = {} /\ calls'[q] = <<>>
    BY <2>1, <2>6 DEF TypeOK
  <2> QED BY <2>3, <2>4, <2>5, <2>6, <2>7 DEF TypeOK
<1>6. ASSUME Edit, adapter' \in Settings, adapter'["model"] # None,
             wanted' = adapter', default' \in Presets
      PROVE  TypeOK'
  BY <1>6, ChatLlmAssumption DEF Edit, TypeOK
<1>7. ASSUME NEW p \in Presets, SavePreset(p) PROVE TypeOK'
  <2>1. adapter' = PresetConfig(p)
    BY <1>7, AppliedIsPreset DEF SavePreset
  <2> QED BY <1>6, <1>7, <2>1, PresetIsComplete DEF SavePreset
<1>8. ASSUME NEW m \in Manuals, SaveManual(m) PROVE TypeOK'
  <2>1. adapter' \in Settings /\ adapter'["model"] # None
    BY <1>8, ManualType, ConfiguredType DEF SaveManual, TypeOK
  <2> QED BY <1>6, <1>8, <2>1 DEF SaveManual, TypeOK
<1>9. ASSUME RefreshCatalog PROVE TypeOK'
  <2>1. adapter' = PresetConfig(default) /\ default \in Presets
    BY <1>9, AppliedIsPreset DEF RefreshCatalog, TypeOK
  <2> QED BY <1>6, <1>9, <2>1, PresetIsComplete DEF RefreshCatalog
<1>10. CASE UNCHANGED vars
  BY <1>10 DEF vars, TypeOK
<1> QED BY <1>1, <1>2, <1>3, <1>4, <1>5, <1>7, <1>8, <1>9, <1>10
        DEF Next, ConsoleStep, RequestStep

\* The variables keep to their types, and the adapter to a model, whatever
\* requests and the Console do (LLMAdapter.configure and its callers).
THEOREM TypeCorrect == Spec => []TypeOK
BY InitType, NextType, PTL DEF Spec

-----------------------------------------------------------------------------
(* The adapter comes home.                                                 *)

LEMMA HomeNext ==
  ASSUME TypeOK, AdapterComesHome, [Next]_vars
  PROVE  AdapterComesHome'
<1> USE DEF console, choice
<1>1. ASSUME NEW r \in Requests, LookupFails(r) PROVE AdapterComesHome'
  BY <1>1 DEF LookupFails, AdapterComesHome, InFlight, PresetConfig
<1>2. ASSUME NEW r \in Requests, Select(r) PROVE AdapterComesHome'
  <2>1. CASE Target(form[r], adapter) = None
    <3>1. adapter' = adapter /\ UNCHANGED <<default, wanted>>
      BY <1>2, <2>1 DEF Select, SwitchedTo
    <3>2. ASSUME NEW q \in InFlight, switched[q] # None
          PROVE  q \in InFlight' /\ switched'[q] # None
      BY <1>2, <3>2 DEF Select, InFlight, TypeOK
    <3> QED BY <3>1, <3>2 DEF AdapterComesHome, PresetConfig
  <2>2. CASE Target(form[r], adapter) # None
    <3>1. r \in InFlight' /\ switched'[r] # None
      BY <1>2, <2>2 DEF Select, InFlight, TypeOK
    <3> QED BY <3>1 DEF AdapterComesHome
  <2> QED BY <2>1, <2>2
<1>3. ASSUME NEW r \in Requests, Call(r) PROVE AdapterComesHome'
  <2>1. InFlight' = InFlight
    BY <1>3 DEF Call, InFlight, TypeOK
  <2> QED BY <1>3, <2>1 DEF Call, AdapterComesHome, PresetConfig
<1>4. ASSUME NEW r \in Requests, Answer(r) \/ GiveUp(r) PROVE AdapterComesHome'
  BY <1>4, AppliedIsPreset
     DEF Answer, GiveUp, Restored, AdapterComesHome, TypeOK, PresetConfig
<1>5. ASSUME NEW r \in Requests, TryFallback(r) PROVE AdapterComesHome'
  <2>1. PICK p \in Presets :
          /\ adapter' = IF form[r].agent = "insight" THEN PresetConfig(p)
                                                    ELSE adapter
          /\ switched' = [switched EXCEPT ![r] =
                            IF form[r].agent = "insight" THEN p ELSE @]
          /\ UNCHANGED <<default, wanted>>
    BY <1>5, FallbackStep
  <2>2. InFlight' = InFlight /\ r \in InFlight
    BY <1>5 DEF TryFallback, InFlight, TypeOK
  <2>3. CASE form[r].agent = "insight"
    BY <2>1, <2>2, <2>3, ChatLlmAssumption DEF AdapterComesHome, TypeOK
  <2>4. CASE form[r].agent # "insight"
    BY <2>1, <2>2, <2>4 DEF AdapterComesHome, TypeOK, PresetConfig
  <2> QED BY <2>3, <2>4
<1>6. CASE ConsoleStep
  BY <1>6 DEF ConsoleStep, SavePreset, SaveManual, RefreshCatalog, AdapterComesHome
<1>7. CASE UNCHANGED vars
  BY <1>7 DEF vars, AdapterComesHome, InFlight, PresetConfig
<1> QED BY <1>1, <1>2, <1>3, <1>4, <1>5, <1>6, <1>7 DEF Next, RequestStep

\* Whenever no request that switched the adapter is in flight, the adapter
\* is at the Console's choice: the finally of chat() leaves no tenant's
\* model and key behind, for any overlap of requests and Console changes.
THEOREM ComesHome == Spec => []AdapterComesHome
<1>1. Init => AdapterComesHome
  BY DEF Init, AdapterComesHome
<1> QED BY <1>1, HomeNext, TypeCorrect, PTL DEF Spec

-----------------------------------------------------------------------------
(* A document job calls what was selected for it.                          *)

\* Overrides that agree with a selection send it.
LEMMA SelectionSent ==
  ASSUME NEW f \in RequestForms, NEW a, NEW o,
         \A g \in Fields : Selection(f)[g] # None => o[g] = Selection(f)[g]
  PROVE  Sends(Sent(a, o), Selection(f))
<1> DEFINE s == Selection(f)
<1>1. /\ s["model"] # Empty
      /\ s["model"] = None => \A g \in Fields : s[g] = None
  BY ExplicitType, PresetIsComplete, ChatLlmAssumption
     DEF Selection, RequestForms, NoOverrides, Fields
<1>2. "model" \in Fields /\ None \notin Keyed
  BY ChatLlmAssumption DEF Fields, Keyed
<1> HIDE DEF s
<1>3. CASE s["model"] = None
  BY <1>1, <1>2, <1>3 DEF Sends, s
<1>4. CASE s["model"] # None
  <2>1. o["model"] = s["model"]
    BY <1>2, <1>4 DEF s
  <2>2. CASE s["model"] \in Keyed
    <3>1. Sent(a, o) = PresetConfig(s["model"])
      BY <2>1, <2>2, AppliedIsPreset DEF Sent, Applied, Keyed
    <3> QED BY <2>2, <3>1 DEF Sends, s
  <2>3. CASE s["model"] \notin Keyed
    <3>1. Sent(a, o) = Configured(a, o)
      BY <2>1, <2>3 DEF Sent
    <3>2. \A g \in Fields : s[g] # None => Configured(a, o)[g] = Cleared(s[g])
      BY <1>1 DEF Configured, Passed, s
    <3> QED BY <2>3, <3>1, <3>2 DEF Sends, s
  <2> QED BY <2>2, <2>3
<1> QED BY <1>3, <1>4

LEMMA FirstIsSelection ==
  ASSUME NEW f \in RequestForms, f.agent = "job", NEW a
  PROVE  \A g \in Fields :
           Selection(f)[g] # None => FirstOverrides(f, a)[g] = Selection(f)[g]
BY DEF FirstOverrides, Overrides, Selection, Slug, NoOverrides

\* Where a document job is: its next overrides are its selection or a whole
\* preset, and its fallbacks have keys.
JobOnCourse(r) ==
  /\ pc[r] = "calling" => calls[r] # <<>>
  /\ \A i \in rest[r] : HasKey(Chain(form[r])[i])
  /\ pc[r] = "ready" /\ calls[r] = <<>> =>
       \A f \in Fields :
         Selection(form[r])[f] # None => next[r][f] = Selection(form[r])[f]
  /\ pc[r] = "ready" /\ calls[r] # <<>> =>
       \E p \in Keyed : next[r] = Config[p]

CallsSelected(r) ==
  \A i \in DOMAIN calls[r] :
    IF i = 1 THEN Sends(calls[r][1], Selection(form[r]))
    ELSE \E p \in Keyed : calls[r][i] = PresetConfig(p)

JobsInv ==
  \A r \in Requests : form[r].agent = "job" => JobOnCourse(r) /\ CallsSelected(r)

\* Only a request's own steps touch what JobsInv says of it.
LEMMA JobsUntouched ==
  ASSUME TypeOK, NEW r \in Requests, JobOnCourse(r) /\ CallsSelected(r),
         form'[r] = form[r], pc'[r] = pc[r], rest'[r] = rest[r],
         next'[r] = next[r], calls'[r] = calls[r]
  PROVE  (JobOnCourse(r) /\ CallsSelected(r))'
<1>1. JobOnCourse(r)'
  BY DEF JobOnCourse
<1>2. CallsSelected(r)'
  BY DEF CallsSelected
<1> QED BY <1>1, <1>2

LEMMA JobsNext ==
  ASSUME TypeOK, TypeOK', JobsInv, [Next]_vars
  PROVE  JobsInv'
<1> USE DEF console, choice
<1> SUFFICES ASSUME NEW q \in Requests, form'[q].agent = "job"
             PROVE  (JobOnCourse(q) /\ CallsSelected(q))'
  BY DEF JobsInv
<1>1. form[q].agent = "job"
  <2>1. ASSUME NEW r \in Requests, LookupFails(r) PROVE form[q].agent = "job"
    BY <2>1 DEF LookupFails, TypeOK, RequestForms
  <2>2. ASSUME NEW r \in Requests, TryFallback(r) PROVE form'[q] = form[q]
    BY <2>2 DEF TryFallback
  <2> QED BY <2>1, <2>2 DEF Next, RequestStep, ConsoleStep, Edit, SavePreset, vars,
             SaveManual, RefreshCatalog, Select, Call, Answer, GiveUp
<1>2. JobOnCourse(q) /\ CallsSelected(q)
  BY <1>1 DEF JobsInv
<1>3. ASSUME NEW r \in Requests, r # q, RequestStep(r)
      PROVE  (JobOnCourse(q) /\ CallsSelected(q))'
  <2>1. /\ form'[q] = form[q] /\ pc'[q] = pc[q] /\ rest'[q] = rest[q]
        /\ next'[q] = next[q] /\ calls'[q] = calls[q]
    BY <1>3 DEF RequestStep, LookupFails, Select, Call, Answer, TryFallback,
                GiveUp, TypeOK
  <2> QED BY <1>2, <2>1, JobsUntouched
<1>4. CASE LookupFails(q)
  <2>1. calls'[q] = <<>> /\ pc'[q] = "idle" /\ rest'[q] = {}
    BY <1>4 DEF LookupFails, TypeOK
  <2> QED BY <2>1 DEF JobOnCourse, CallsSelected
<1>5. CASE Select(q)
  <2> DEFINE f == form[q]
             a == SwitchedTo(adapter, Target(f, adapter))
  <2>1. /\ calls'[q] = <<>> /\ pc'[q] = "ready" /\ form'[q] = f
        /\ rest'[q] = Fallbacks(f) /\ next'[q] = FirstOverrides(f, a)
    BY <1>5 DEF Select, TypeOK
  <2>2. f \in RequestForms /\ f.agent = "job"
    BY <1>1 DEF TypeOK
  <2>3. \A g \in Fields : Selection(f)[g] # None => next'[q][g] = Selection(f)[g]
    BY <2>1, <2>2, FirstIsSelection
  <2>4. \A i \in rest'[q] : HasKey(Chain(f)[i])
    BY <2>1, <2>2 DEF Fallbacks, Usable
  <2> HIDE DEF f, a
  <2>5. JobOnCourse(q)'
    BY <2>1, <2>3, <2>4 DEF JobOnCourse
  <2>6. CallsSelected(q)'
    BY <2>1 DEF CallsSelected
  <2> QED BY <2>5, <2>6
<1>6. CASE Call(q)
  <2> DEFINE c == Sent(adapter, next[q])
             n == Len(calls[q])
  <2>1. /\ calls'[q] = Append(calls[q], c) /\ pc'[q] = "calling"
        /\ form'[q] = form[q] /\ rest'[q] = rest[q] /\ pc[q] = "ready"
    BY <1>6 DEF Call, TypeOK
  <2>2. /\ calls[q] \in Seq(Settings) /\ c \in Settings
        /\ form[q] \in RequestForms
    BY SentType DEF TypeOK
  <2>3. /\ calls'[q] # <<>> /\ n \in Nat /\ DOMAIN calls'[q] = 1 .. n + 1
        /\ DOMAIN calls[q] = 1 .. n
        /\ \A i \in 1 .. n : calls'[q][i] = calls[q][i]
        /\ calls'[q][n + 1] = c
    BY <2>1, <2>2, AppendProperties, LenProperties
  <2>4. JobOnCourse(q)'
    BY <1>2, <2>1, <2>3 DEF JobOnCourse
  <2>5. CASE calls[q] = <<>>
    <3>1. Sends(c, Selection(form[q]))
      BY <1>2, <2>1, <2>2, <2>5, SelectionSent DEF JobOnCourse
    <3>2. n = 0
      BY <2>5
    <3> QED BY <2>1, <2>3, <2>4, <3>1, <3>2 DEF CallsSelected
  <2>6. CASE calls[q] # <<>>
    <3>1. PICK p \in Keyed : next[q] = Config[p]
      BY <1>2, <2>1, <2>6 DEF JobOnCourse
    <3>2. \E s \in Keyed : c = PresetConfig(s)
      BY <3>1, SentPreset
    <3>3. n # 0
      BY <2>2, <2>6, EmptySeq
    <3> HIDE DEF c, n
    <3>4. ASSUME NEW i \in DOMAIN calls'[q]
          PROVE  (i = 1 \/ i \in 1 .. n) => i \in DOMAIN calls[q] /\ calls'[q][i] = calls[q][i]
      BY <2>3, <3>3
    <3>5. ASSUME NEW i \in DOMAIN calls'[q], i = 1
          PROVE  Sends(calls'[q][1], Selection(form[q]))
      BY <1>2, <3>4, <3>5 DEF CallsSelected
    <3>6. ASSUME NEW i \in DOMAIN calls'[q], i # 1
          PROVE  \E s \in Keyed : calls'[q][i] = PresetConfig(s)
      <4>1. CASE i = n + 1
        BY <2>3, <3>1, <3>2, <4>1
      <4>2. CASE i # n + 1
        BY <1>2, <2>3, <3>4, <3>6, <4>2 DEF CallsSelected
      <4> QED BY <4>1, <4>2
    <3>7. CallsSelected(q)'
      BY <2>1, <3>5, <3>6 DEF CallsSelected
    <3> QED BY <2>4, <3>7
  <2> QED BY <2>5, <2>6
<1>7. CASE Answer(q) \/ GiveUp(q)
  <2>1. /\ form'[q] = form[q] /\ rest'[q] = rest[q] /\ calls'[q] = calls[q]
        /\ pc'[q] \in {"done", "failed"}
    BY <1>7 DEF Answer, GiveUp, TypeOK
  <2> QED BY <1>2, <2>1 DEF JobOnCourse, CallsSelected
<1>8. CASE TryFallback(q)
  <2>1. PICK i \in rest[q], p \in Presets :
          /\ p = Chain(form[q])[i]
          /\ rest' = [rest EXCEPT ![q] = @ \ {i}]
          /\ next' = [next EXCEPT ![q] = Config[p]]
          /\ pc[q] = "calling" /\ pc' = [pc EXCEPT ![q] = "ready"]
          /\ UNCHANGED <<form, calls>>
    BY <1>1, <1>8, FallbackStep
  <2>2. HasKey(p) /\ calls[q] # <<>>
    BY <1>2, <2>1 DEF JobOnCourse
  <2>3. next'[q] = Config[p] /\ rest'[q] \subseteq rest[q] /\ pc'[q] = "ready"
    BY <2>1 DEF TypeOK
  <2> QED BY <1>2, <2>1, <2>2, <2>3 DEF JobOnCourse, CallsSelected, Keyed
<1>9. CASE ConsoleStep \/ UNCHANGED vars
  <2>1. UNCHANGED <<form, pc, rest, next, calls>>
    BY <1>9 DEF ConsoleStep, SavePreset, SaveManual, RefreshCatalog, Edit, vars
  <2> QED BY <1>2, <2>1, JobsUntouched
<1> QED BY <1>3, <1>4, <1>5, <1>6, <1>7, <1>8, <1>9 DEF Next, RequestStep

\* Whatever other requests and the Console do meanwhile, a document job's
\* calls go to what its request or its tenant selected, the whole preset if
\* that names one, and then to whole presets with a key
\* (document_job["llm_overrides"] and its chain, chat_completion()).
THEOREM SelectionKept == Spec => []SelectionHolds
<1>1. Init => JobsInv
  BY DEF Init, JobsInv, JobOnCourse, CallsSelected
<1>2. JobsInv => SelectionHolds
  BY DEF JobsInv, CallsSelected, SelectionHolds
<1> QED BY <1>1, <1>2, JobsNext, TypeCorrect, PTL DEF Spec

-----------------------------------------------------------------------------
(* An undisturbed switch is what the call sends.                           *)

LEMMA SwitchedToTarget ==
  ASSUME NEW a, NEW t \in Presets \cup PlainModels
  PROVE  IsTarget(SwitchedTo(a, t), t)
<1>1. CASE t \in Presets
  BY <1>1, AppliedIsPreset, ChatLlmAssumption DEF IsTarget, SwitchedTo
<1>2. CASE t \notin Presets
  <2>1. SwitchedTo(a, t) = Configured(a, OnlyModel(t)) /\ "model" \in Fields
    BY <1>2, ChatLlmAssumption DEF SwitchedTo, Fields
  <2>2. OnlyModel(t)["model"] = t /\ t # None /\ t # Empty
    BY ExplicitType, ChatLlmAssumption
  <2>3. Configured(a, OnlyModel(t))["model"] = t
    BY <2>1, <2>2 DEF Configured, Passed, Cleared
  <2> QED BY <1>2, <2>1, <2>3 DEF IsTarget
<1> QED BY <1>1, <1>2

\* The adapter still is what r switched it to, and so is the call r makes.
OwnOnAdapter(r) ==
  /\ /\ pc[r] \in {"ready", "calling"}
     /\ switched[r] # None
     /\ ~disturbed[r]
     => IsTarget(adapter, switched[r])
  /\ /\ pc[r] = "calling"
     /\ switched[r] # None
     /\ next[r] = NoOverrides
     /\ ~disturbed[r]
     => IsTarget(calls[r][Len(calls[r])], switched[r])

OwnInv == \A r \in Requests : OwnOnAdapter(r)

\* A step of another actor leaves r's own state alone, and either the
\* adapter too or r marked as disturbed.
LEMMA OwnUntouched ==
  ASSUME TypeOK, NEW r \in Requests, OwnOnAdapter(r),
         pc'[r] = pc[r], switched'[r] = switched[r],
         next'[r] = next[r], calls'[r] = calls[r],
         disturbed'[r] <=> (disturbed[r] \/ adapter' # adapter)
  PROVE  OwnOnAdapter(r)'
BY DEF OwnOnAdapter, IsTarget

LEMMA OwnNext ==
  ASSUME TypeOK, OwnInv, [Next]_vars
  PROVE  OwnInv'
<1> USE DEF console, choice
<1> SUFFICES ASSUME NEW q \in Requests PROVE OwnOnAdapter(q)'
  BY DEF OwnInv
<1>1. OwnOnAdapter(q)
  BY DEF OwnInv
<1>2. ASSUME NEW r \in Requests, r # q, RequestStep(r) PROVE OwnOnAdapter(q)'
  <2>1. /\ pc'[q] = pc[q] /\ switched'[q] = switched[q]
        /\ next'[q] = next[q] /\ calls'[q] = calls[q]
    BY <1>2 DEF RequestStep, LookupFails, Select, Call, Answer, TryFallback,
                GiveUp, TypeOK
  <2>2. disturbed'[q] <=> (disturbed[q] \/ adapter' # adapter)
    BY <1>2 DEF RequestStep, LookupFails, Select, Call, Answer, TryFallback,
                GiveUp, NoteChange, TypeOK
  <2> QED BY <1>1, <2>1, <2>2, OwnUntouched
<1>3. CASE LookupFails(q)
  BY <1>3 DEF LookupFails, OwnOnAdapter, TypeOK
<1>4. CASE Select(q)
  <2> DEFINE t == Target(form[q], adapter)
  <2>1. /\ adapter' = SwitchedTo(adapter, t) /\ switched'[q] = t
        /\ pc'[q] = "ready"
    BY <1>4 DEF Select, TypeOK
  <2>2. t \in Presets \cup PlainModels \cup {None}
    BY TargetType DEF TypeOK
  <2> HIDE DEF t
  <2>3. t # None => IsTarget(adapter', t)
    BY <2>1, <2>2, SwitchedToTarget
  <2> QED BY <2>1, <2>3 DEF OwnOnAdapter
<1>5. CASE Call(q)
  <2> DEFINE c == Sent(adapter, next[q])
  <2>1. /\ calls'[q] = Append(calls[q], c) /\ pc[q] = "ready"
        /\ UNCHANGED <<adapter, switched, next, disturbed>>
    BY <1>5 DEF Call, TypeOK
  <2>2. calls[q] \in Seq(Settings) /\ c \in Settings
    BY SentType DEF TypeOK
  <2>3. calls'[q][Len(calls'[q])] = c
    BY <2>1, <2>2, AppendProperties, LenProperties
  <2>4. next[q] = NoOverrides => c = adapter
    BY SentNothing DEF TypeOK
  <2> HIDE DEF c
  <2> QED BY <1>1, <2>1, <2>3, <2>4 DEF OwnOnAdapter
<1>6. CASE Answer(q) \/ GiveUp(q)
  BY <1>6 DEF Answer, GiveUp, OwnOnAdapter, TypeOK
<1>7. CASE TryFallback(q)
  <2>1. PICK p \in Presets :
          /\ adapter' = IF form[q].agent = "insight" THEN PresetConfig(p)
                                                    ELSE adapter
          /\ switched' = [switched EXCEPT ![q] =
                            IF form[q].agent = "insight" THEN p ELSE @]
          /\ pc[q] = "calling" /\ pc' = [pc EXCEPT ![q] = "ready"]
    BY <1>7, FallbackStep
  <2>2. disturbed'[q] <=> disturbed[q]
    BY <1>7 DEF TryFallback, NoteChange
  <2>3. pc'[q] = "ready"
    BY <2>1 DEF TypeOK
  <2>4. CASE form[q].agent = "insight"
    <3>1. switched'[q] = p /\ adapter' = PresetConfig(p)
      BY <2>1, <2>4 DEF TypeOK
    <3> QED BY <2>3, <3>1 DEF OwnOnAdapter, IsTarget
  <2>5. CASE form[q].agent # "insight"
    <3>1. switched'[q] = switched[q] /\ adapter' = adapter
      BY <2>1, <2>5 DEF TypeOK
    <3> QED BY <1>1, <2>1, <2>2, <2>3, <3>1 DEF OwnOnAdapter, IsTarget
  <2> QED BY <2>4, <2>5
<1>8. CASE ConsoleStep
  <2>1. UNCHANGED <<pc, switched, next, calls>>
    BY <1>8 DEF ConsoleStep, SavePreset, SaveManual, RefreshCatalog, Edit
  <2>2. disturbed'[q] <=> (disturbed[q] \/ adapter' # adapter)
    BY <1>8 DEF ConsoleStep, SavePreset, SaveManual, RefreshCatalog, Edit
  <2> QED BY <1>1, <2>1, <2>2, OwnUntouched
<1>9. CASE UNCHANGED vars
  BY <1>1, <1>9, OwnUntouched DEF vars
<1> QED BY <1>2, <1>3, <1>4, <1>5, <1>6, <1>7, <1>8, <1>9 DEF Next, RequestStep

\* A request that switched the adapter and was not disturbed since makes its
\* call with all that it switched to (apply_preset and configure).
THEOREM OwnUsed == Spec => []UndisturbedUsesOwn
<1>1. Init => OwnInv
  BY DEF Init, OwnInv, OwnOnAdapter
<1>2. OwnInv => UndisturbedUsesOwn
  BY DEF OwnInv, OwnOnAdapter, UndisturbedUsesOwn
<1> QED BY <1>1, <1>2, OwnNext, TypeCorrect, PTL DEF Spec

=============================================================================
