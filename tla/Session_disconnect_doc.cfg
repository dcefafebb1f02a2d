\* Disconnect is documented to leave no idle client behind.
CONSTANTS
    c1 = c1  t1 = t1  r1 = r1  r2 = r2  r3 = r3  f1 = f1  f2 = f2
    None = None
    Conns <- OneConn
    Topics <- OneTopic
    Reqs <- TwoReqs
    Fetches <- NoFetch
    Commands <- ReadCommands
    Writable <- WritableVersions
    MaxVersion = 1
    MAX_AUTH_ATTEMPTS = 2
    UiGated = TRUE
SPECIFICATION Spec
INVARIANT NoClientOutlivesDisconnect
