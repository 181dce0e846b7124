SPECIFICATION Spec
CONSTANTS
    u1 = u1
    u2 = u2
    u3 = u3
    q1 = q1
    q2 = q2
    Users = {u1, u2, u3}
    Requests = {q1, q2}
    NoUser = NoUser
    MaxFails = 1
    j1 = j1
    j2 = j2
    h1 = h1
    h2 = h2
    a1 = a1
    a2 = a2
    m1 = m1
    Hosts = {h1, h2}
    Acls = {a1, a2}
    Mws = {m1}
    EdgeToken = TRUE
    Jobs = {j1, j2}
    Scheduler = Scheduler
    HostForms <- SomeHosts
    AclForms <- SomeAcls
    MwForms <- SomeMws
    SnippetForms <- SomeSnippets
    Foreign <- SomeForeign
    Installations <- SmallInstallations
    Catalogue <- Databases
    MaxEdits = 2
    MaxBroken = 1
SYMMETRY Symmetry
INVARIANTS GuessesBounded OneSetup ServedIsSound
PROPERTIES DeletionKeepsAdmin NothingLost RestoreFaithful
CHECK_DEADLOCK FALSE
