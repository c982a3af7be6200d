SPECIFICATION FairSpec
CONSTANTS
    Methods = {m1, m2}
    Contexts = {c1}
    Document = document
    Handled = {m1}
    MaxCalls = 2
INVARIANTS TypeOK LoopSurvives FailureNeedsPanic
PROPERTIES CallsSpec InvocationsReplied TasksEnd
