SPECIFICATION Spec
CONSTANTS
  r1 = r1
  r2 = r2
  gpu = gpu
  azure = azure
  bare = bare
  alias = alias
  plain = plain
  qwen = qwen
  gpt = gpt
  nano = nano
  own = own
  None = None
  Empty = Empty
  Requests = {r1, r2}
  Presets = {gpu, azure, bare, alias}
  PlainModels = {plain}
  StartPreset = gpu
  RuntimeFallbacks <- OneFallback
  EnvConfigs <- NoConfigs
  SameModel <- MCSameModel
  MaxEdits = 0
  Config <- MCConfig
  Forms <- FewForms
  Manuals <- NoConfigs
INVARIANT
  FrozenIsImmune
CHECK_DEADLOCK FALSE
