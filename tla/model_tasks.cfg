SPECIFICATION Spec
CONSTANTS
    p1 = p1
    w1 = w1
    w2 = w2
    Nobody = Nobody
    Profiles <- MCProfiles
    Provider <- MCProvider
    Workers <- MCWorkers
    Serves <- MCServes
    Faulty <- MCFaulty
    MaxFaults = 3
INVARIANTS
    TaskKept
    RecommendedOnAnswers
PROPERTIES
    ResultFinal
    Decides
CHECK_DEADLOCK FALSE
