\* One session with every race open: pages faster than their registration,
\* pages that hang, a timeout at any moment
CONSTANTS
    s1 = s1
    Session = {s1}
    MaxWin = 3
    Opens <- OpensTwo
    ExplicitDone = FALSE
    MaxErrors = 0
    LateErrors = FALSE
    Pace = "any"
    Timeouts = "any"
    MayHang = TRUE
SPECIFICATION FairSpec
INVARIANTS ClientAlive NotifiedAfterClose NoTimerAfterEnd 
PROPERTIES OpensInOrder OneEndReports
CHECK_DEADLOCK FALSE
