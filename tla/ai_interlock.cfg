\* Two generations and two transitions in one or more processes.
SPECIFICATION FairSpec
CONSTANTS
  g1 = g1
  g2 = g2
  t1 = t1
  t2 = t2
  Generations = {g1, g2}
  Transitions = {t1, t2}
  MaxAttempts = 2
  MaxCalls = 3
INVARIANTS OneAtATime LimitSurvivesRestart CatalogueFixedAtStart
PROPERTY GenerationLetsGo
