\* The sample test of README.md: two pages, then UT.done
CONSTANTS
    s1 = s1
    Session = {s1}
    MaxWin = 3
    Opens <- OpensTwo
    ExplicitDone = TRUE
    MaxErrors = 0
    LateErrors = FALSE
    Pace = "heard"
    Timeouts = "never"
    MayHang = FALSE
SPECIFICATION Spec
INVARIANTS NoFault
CHECK_DEADLOCK FALSE
