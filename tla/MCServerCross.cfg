SPECIFICATION FairSpec
CONSTANTS
    c1 = c1
    c2 = c2
    alice = alice
    bob = bob
    p1 = p1
    p2 = p2
    Threads = {c1, c2}
    NoThread = NoThread
    Names = {alice, bob, NoName}
    NoName = NoName
    Passwords = {p1, p2, NoPassword}
    NoPassword = NoPassword
    Fds = {3, 4, 5, 6, 7}
    SocketFds <- MCSocketFds
    NoUser = NoUser
    Uninit = Uninit
    NoFile = NoFile
    Reserved = Reserved
    Unconnected = Unconnected
    Truncated = Truncated
    Starts <- MCStarts
    Inner <- MCInner
    Script <- CrossScript
    Events = {}
PROPERTIES
    AwaitEnds
    CommandsAnswered
CHECK_DEADLOCK FALSE
