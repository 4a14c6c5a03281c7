\* Two handler threads, one name, two passwords and the empty one, two descriptors.
SPECIFICATION StoreFairSpec
CONSTANTS
    Threads = {t1, t2}
    NoThread = NoThread
    Names = {alice}
    Passwords = {p1, p2, NoPassword}
    NoPassword = NoPassword
    SocketFds = {4, 5}
    NoUser = NoUser
    Uninit = Uninit
INVARIANTS
    StoreTypeOK
    LockedCallsExclude
    GotUserIsWhole
    UnassignedFlagIsTransient
PROPERTIES
    LockReleased
    ImplementsDirectory
CHECK_DEADLOCK FALSE
