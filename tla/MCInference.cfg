SPECIFICATION Spec
CONSTANTS
    Vocab = {"eod", "eol", "two_eols"}
    Words <- MCWords
    LogProb <- MCLogProb
    Requests <- MCRequests
INVARIANTS
    SamplesFromWholePrefix
    CollectivesMatch
    AnswerIsWhatWasGenerated
    BestHypothesesReturned
PROPERTY Answers
