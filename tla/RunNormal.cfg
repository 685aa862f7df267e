\* The way a test is meant to go: one session whose pages open others, one after
\* the other and one in another, a script error in any page, whose alert box is
\* closed within the minute or not at all; nobody hangs
CONSTANTS
    s1 = s1
    Session = {s1}
    MaxWin = 4
    Opens <- OpensTree
    ExplicitDone = FALSE
    MaxErrors = 1
    LateErrors = FALSE
    Pace = "heard"
    Timeouts = "quiet"
    MayHang = FALSE
SPECIFICATION FairSpec
INVARIANTS ReportComplete
PROPERTIES TestsAreReported DoneStays
CHECK_DEADLOCK FALSE
