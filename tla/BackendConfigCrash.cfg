\* macOS: every store may fail and X-Plane crash between any two steps.
CONSTANTS
  openai = openai  mistral = mistral
  m1 = m1  m2 = m2
  k1 = k1  k2 = k2
  Providers = {openai, mistral}
  FirstProvider = openai
  Unknown = Unknown
  Keys = {k1, k2}
  NoKey = NoKey
  Models = {m1, m2}
  DefaultModel <- FirstModels
  DeleteThenAdd = TRUE
  StoreMayFail = TRUE
  WritesMayFail = TRUE
SPECIFICATION Spec
INVARIANTS TypeOK BackendFollowsChoice SettingsOnDisk FlagTellsKey
PROPERTY ProvidersApart
