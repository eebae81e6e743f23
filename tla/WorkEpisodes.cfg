SPECIFICATION Spec
CONSTANTS
    s1 = s1  s2 = s2  c1 = c1  c2 = c2  g1 = g1  g2 = g2  p1 = p1  p2 = p2  x1 = x1  x2 = x2
    Sessions = {s1, s2}
    Callers = {c1, c2}
    Goals = {g1, g2}
    Details = {"d1"}
    Prompts = {p1, p2}
    Files = {"f1"}
    PromptBudget = 1
    FileBudget = 1
    StashLimit = 1
    StashRows = 1
    Contents = {x1, x2}
    MaxVersion = 2
    MaxRows = 6
SYMMETRY Sym
INVARIANTS
    IntentChains EpisodesFollowTheChain OneCheckpointPerOperation EveryClaimIsQueued
PROPERTY PromptsAreKept
CHECK_DEADLOCK FALSE
