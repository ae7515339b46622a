------------------------------ MODULE MCChatLlm ------------------------------
(***************************************************************************)
(* Instances of ChatLlm: the deployment the service starts with (no        *)
(* api_version), an Azure one of a tenant, one whose key is missing, and   *)
(* one whose model is the id of another; or with LLM_API_BASE set.         *)
(***************************************************************************)
EXTENDS ChatLlm

CONSTANTS r1, r2, gpu, azure, bare, alias, plain, qwen, gpt, nano, own

MCConfig ==
  [p \in {gpu, azure, bare, alias} |->
     [model |-> CASE p = gpu -> qwen [] p = azure -> gpt
                  [] p = bare -> nano [] p = alias -> azure,
      api_base |-> p,
      api_key |-> IF p = bare THEN Empty ELSE p,
      api_version |-> IF p = gpu THEN Empty ELSE "v"]]

MCEnvConfigs ==
  {[model |-> own, api_base |-> "x", api_key |-> None, api_version |-> None]}

NoConfigs == {}

\* "provider/plain"
MCSameModel == {<<own, plain>>}

OneFallback == <<gpu>>

TwoFallbacks == <<bare, gpu>>

Ask(agent, explicit, tenant, fallbacks) ==
  [agent |-> agent, explicit |-> explicit, tenant |-> tenant,
   fallbacks |-> fallbacks]

MCForms ==
  {Ask("chat", None, azure, <<azure>>),
   Ask("chat", None, bare, <<>>),
   Ask("job", None, alias, <<>>),
   Ask("job", None, None, <<>>),
   Ask("job", plain, None, <<>>),
   Ask("prompt", plain, None, <<>>),
   Ask("insight", None, None, <<>>)}

FewForms ==
  {Ask("chat", None, azure, <<>>), Ask("job", None, None, <<>>)}

MCManuals ==
  {[model |-> Empty, api_base |-> "x", api_key |-> "x", api_version |-> Empty]}
=============================================================================
