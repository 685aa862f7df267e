\* Four sessions on three machines, three browsers whose lists share machines
CONSTANTS
    h1 = h1
    h2 = h2
    h3 = h3
    c1 = c1
    c2 = c2
    c3 = c3
    c4 = c4
    Host = {h1, h2, h3}
    NoHost = NoHost
    Browser <- Browsers
    Session = {c1, c2, c3, c4}
    CONFIG <- SharedConfig
SPECIFICATION Spec
INVARIANTS CountsAreConnections
CHECK_DEADLOCK FALSE
