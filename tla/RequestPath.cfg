CONSTANTS
    Slots = {1, 2, 3}
    PoolSize = 2
    Inputs <- MCInputs
SPECIFICATION FairSpec
INVARIANTS
    AnswersMatchEffects
    ConnectionsComeBack
PROPERTIES
    EveryRequestEnds
