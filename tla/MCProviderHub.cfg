CONSTANTS
  Providers = {openai, ollama}
  openai = openai
  ollama = ollama
  c1 = c1
  Keyless = {ollama}
  Creds = {c1, c2}
  NoCred = NoCred
  NoProvider = NoProvider
  Repo = Repo
  MaxFlows = 3
  MaxFaults = 1
SPECIFICATION MCSpec
INVARIANTS
  TypeOK
  HubMatchesBackend
  TrayIsTrue
  LoadingIsAnswered
CHECK_DEADLOCK FALSE
