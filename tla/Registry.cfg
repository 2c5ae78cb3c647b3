SPECIFICATION Spec
CONSTANTS
  acme = acme
  ga = ga
  gb = gb
  la = la
  None = None
  Companies = {acme}
  Urls = {page1}
  Boards = {ga, gb, la}
  Platform <- MCPlatform
  Slug <- MCSlug
  Order <- MCOrder
  Guesses <- MCGuesses
  Sites <- MCSites
  Threads = {t1, t2}
  Slots = 1
  MaxProbes = 2
  MaxResolves = 2
  MaxEdits = 1
  MaxRuns = 1
  MaxCrashes = 1
INVARIANTS RegistryInv StateHonest PageOutranksGuess
PROPERTY ResolvingEnds
CHECK_DEADLOCK FALSE
