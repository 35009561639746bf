CONSTANTS
    u1 = u1
    u2 = u2
    e1 = e1
    e2 = e2
    e3 = e3
    e4 = e4
    t1 = t1
    t2 = t2
    t3 = t3
    t4 = t4
    NoOwner = NoOwner
    Unused = Unused
    Gone = Gone
    Accts <- MCAccts
    Emails <- MCEmails
    InitialEmail <- MCInitialEmail
    Owner <- MCOwner
    TokenIds <- MCTokenIds
    MaxErrors = 2
SPECIFICATION Spec
PROPERTY EmailChangesOnlyToVerifiedAddress
