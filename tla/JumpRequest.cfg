CHECK_DEADLOCK FALSE
SPECIFICATION FairSpec
INVARIANTS TypeOK CallsAreEarned LogTellsAnswer
PROPERTIES ImplementsContract Answered
