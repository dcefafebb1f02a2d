\* The commands over one connection: denied, and its settings edited and deleted under them.
CONSTANTS
    c1 = c1  t1 = t1  r1 = r1  r2 = r2  r3 = r3  f1 = f1  f2 = f2
    None = None
    Conns <- OneConn
    Topics <- OneTopic
    Reqs <- TwoReqs
    Fetches <- NoFetch
    Commands <- RegistryCommands
    Writable <- WritableVersions
    MaxVersion = 2
    MAX_AUTH_ATTEMPTS = 2
    UiGated = FALSE
SPECIFICATION Spec
SYMMETRY Symmetry
INVARIANTS
    TypeOK
    AttemptsOvershootIsBounded
    EditsTakeEffect
