SPECIFICATION FairSpec
CONSTANTS
    Dios = {"write", "read"}
    Request <- MCRequest
    Answers <- MCAnswers
    SubTypes = {"SERVICE", "RESPONSE"}
    MaxLosses = 2
INVARIANTS
    DmetaIsTheAnswer
    
PROPERTIES
    UsableAnswerIsDelivered
CHECK_DEADLOCK FALSE
