\* Pages that finish before their opener listens, and pages that hang; the timeout
\* ends the test
CONSTANTS
    s1 = s1
    Session = {s1}
    MaxWin = 4
    Opens <- OpensTree
    ExplicitDone = FALSE
    MaxErrors = 0
    LateErrors = FALSE
    Pace = "stored"
    Timeouts = "quiet"
    MayHang = TRUE
SPECIFICATION FairSpec
PROPERTIES ListeningIsReported
CHECK_DEADLOCK FALSE
