------------------------------ MODULE UserStore ------------------------------
(***************************************************************************)
(* UserStore.cpp: the table of users every handler thread of the server    *)
(* shares.                                                                 *)
(*                                                                         *)
(* Each method holds the mutex mtx for the whole of its body, except       *)
(* logOutUser(), which takes no lock.  A body is one step per access to    *)
(* the table, so what a concurrent logOutUser() can fall between is        *)
(* visible.  logOutUser() itself is two: operator[] inserts the user it    *)
(* does not find, and only then is the flag written through the reference, *)
(* so that everybody can see the inserted user without an assigned flag.   *)
(*                                                                         *)
(* Two accesses of which one is unlocked and one inserts are a data race   *)
(* on the structure of the std::unordered_map (the insertion may rehash    *)
(* it): either outcome is possible, that both accesses happen to work, or  *)
(* that the table is corrupted.  The second is ub = TRUE, a state in which *)
(* the model stops because the program has no defined behaviour.  A write  *)
(* through a reference is no access to the structure: references survive   *)
(* a rehash.                                                               *)
(***************************************************************************)
EXTENDS Users

VARIABLES
    users,    \* std::unordered_map<std::string, User>: Names -> User, or NoUser
    mtx,      \* the thread that holds the mutex, or NoThread
    call,     \* per thread: the call it is making, NoCall when it makes none
    at,       \* per thread: how far that call has got
    ret,      \* per thread: what it returned
    ub        \* TRUE once a data race has corrupted the table

storeVars == <<users, mtx, call, at, ret, ub>>

Stages == {"idle", "called", "in", "setPassword", "setIslogin", "setSocketFd",
           "passwordMatched", "clearFlag", "returned"}

StoreTypeOK ==
    /\ users \in [Names -> User \cup {NoUser}]
    /\ mtx \in Threads \cup {NoThread}
    /\ call \in [Threads -> Calls \cup {NoCall}]
    /\ at \in [Threads -> Stages]
    /\ ret \in [Threads -> Answers]
    /\ ub \in BOOLEAN

StoreInit ==
    /\ users = [n \in Names |-> NoUser]
    /\ mtx = NoThread
    /\ call = [t \in Threads |-> NoCall]
    /\ at = [t \in Threads |-> "idle"]
    /\ ret = [t \in Threads |-> NoAnswer]
    /\ ub = FALSE

-----------------------------------------------------------------------------
(* Calling, locking, returning.                                            *)

\* A thread makes call c; the result of its call before, if any, is gone.
Invoke(t, c) ==
    /\ at[t] \in {"idle", "returned"}
    /\ at' = [at EXCEPT ![t] = "called"]
    /\ call' = [call EXCEPT ![t] = c]
    /\ ret' = [ret EXCEPT ![t] = NoAnswer]
    /\ UNCHANGED <<users, mtx, ub>>

\* The lock_guard of every method but logOutUser().
Locks(kind) == kind # "logOutUser"

\* Mutant: the mutex is taken without waiting for it.
EnterUnchecked(t) ==
    /\ ~ub
    /\ at[t] = "called"
    /\ mtx' = IF Locks(call[t].kind) THEN t ELSE mtx
    /\ at' = [at EXCEPT ![t] = "in"]
    /\ UNCHANGED <<users, call, ret, ub>>

Enter(t) ==
    /\ ~ub
    /\ at[t] = "called"
    /\ IF Locks(call[t].kind) THEN mtx = NoThread /\ mtx' = t ELSE mtx' = mtx
    /\ at' = [at EXCEPT ![t] = "in"]
    /\ UNCHANGED <<users, call, ret, ub>>

\* Mutant: a return that leaves the mutex locked.
LeaveLocked(t, a) ==
    /\ at' = [at EXCEPT ![t] = "returned"]
    /\ ret' = [ret EXCEPT ![t] = a]
    /\ UNCHANGED <<mtx, call, ub>>

\* The end of a body: the lock_guard is destroyed and a is returned.
Leave(t, a) ==
    /\ mtx' = IF Locks(call[t].kind) THEN NoThread ELSE mtx
    /\ at' = [at EXCEPT ![t] = "returned"]
    /\ ret' = [ret EXCEPT ![t] = a]
    /\ UNCHANGED <<call, ub>>

\* The caller has taken the result.
Resume(t) ==
    /\ at[t] = "returned"
    /\ at' = [at EXCEPT ![t] = "idle"]
    /\ call' = [call EXCEPT ![t] = NoCall]
    /\ ret' = [ret EXCEPT ![t] = NoAnswer]
    /\ UNCHANGED <<users, mtx, ub>>

-----------------------------------------------------------------------------
(* The bodies.                                                             *)

\* t is at stage s of a call of kind k.
In(t, k, s) == ~ub /\ call[t].kind = k /\ at[t] = s

\* addUser(): four users[...] accesses, the first of which inserts.
InsertUser(t) ==
    /\ In(t, "addUser", "in")
    /\ users' = [users EXCEPT ![call[t].name] = Entry(users, call[t].name)]
    /\ at' = [at EXCEPT ![t] = "setPassword"]
    /\ UNCHANGED <<mtx, call, ret, ub>>

SetPassword(t) ==
    /\ In(t, "addUser", "setPassword")
    /\ users' = [users EXCEPT ![call[t].name] =
                    [Entry(users, call[t].name) EXCEPT !.password = call[t].password]]
    /\ at' = [at EXCEPT ![t] = "setIslogin"]
    /\ UNCHANGED <<mtx, call, ret, ub>>

SetIslogin(t) ==
    /\ In(t, "addUser", "setIslogin")
    /\ users' = [users EXCEPT ![call[t].name] =
                    [Entry(users, call[t].name) EXCEPT !.islogin = FALSE]]
    /\ at' = [at EXCEPT ![t] = "setSocketFd"]
    /\ UNCHANGED <<mtx, call, ret, ub>>

\* Mutant: addUser() forgets the descriptor.
SetSocketFdForgotten(t) ==
    /\ In(t, "addUser", "setSocketFd")
    /\ Leave(t, NoAnswer)
    /\ UNCHANGED users

SetSocketFd(t) ==
    /\ In(t, "addUser", "setSocketFd")
    /\ users' = [users EXCEPT ![call[t].name] =
                    [Entry(users, call[t].name) EXCEPT !.socket_fd = call[t].socket_fd]]
    /\ Leave(t, NoAnswer)

\* Mutant: a user that is not found is let in.
PasswordMatchesOrAbsent(t) ==
    users[call[t].name] # NoUser => users[call[t].name].password = call[t].password

\* loginUser(): the lookup and comparison, then the write.
PasswordMatches(t) ==
    /\ users[call[t].name] # NoUser
    /\ users[call[t].name].password = call[t].password

CheckPassword(t) ==
    /\ In(t, "loginUser", "in")
    /\ \/ /\ PasswordMatches(t)
          /\ at' = [at EXCEPT ![t] = "passwordMatched"]
          /\ UNCHANGED <<users, mtx, call, ret, ub>>
       \/ /\ ~PasswordMatches(t)
          /\ Leave(t, Flag(FALSE))
          /\ UNCHANGED users

SetLoggedIn(t) ==
    /\ In(t, "loginUser", "passwordMatched")
    /\ users' = [users EXCEPT ![call[t].name] =
                    [Entry(users, call[t].name) EXCEPT !.islogin = TRUE]]
    /\ Leave(t, Flag(TRUE))

\* logOutUser(), unlocked: users[username], which inserts an absent user ...
FindOrInsert(t) ==
    /\ In(t, "logOutUser", "in")
    /\ users' = [users EXCEPT ![call[t].name] = Entry(users, call[t].name)]
    /\ at' = [at EXCEPT ![t] = "clearFlag"]
    /\ UNCHANGED <<mtx, call, ret, ub>>

\* Mutant: the inserted user is left as it is.
ClearFlagForgotten(t) ==
    /\ In(t, "logOutUser", "clearFlag")
    /\ Leave(t, NoAnswer)
    /\ UNCHANGED users

\* ... and setIslogin(false) on what it refers to.
ClearFlag(t) ==
    /\ In(t, "logOutUser", "clearFlag")
    /\ users' = [users EXCEPT ![call[t].name].islogin = FALSE]
    /\ Leave(t, NoAnswer)

\* Mutant: the end of the body is reached without a return.
HasUserNoReturn(t) ==
    /\ In(t, "hasUser", "in")
    /\ Leave(t, Flag(IF users[call[t].name] # NoUser THEN TRUE ELSE Uninit))
    /\ UNCHANGED users

HasUser(t) ==
    /\ In(t, "hasUser", "in")
    /\ Leave(t, Flag(users[call[t].name] # NoUser))
    /\ UNCHANGED users

IsLogin(t) ==
    LET u == users[call[t].name]
    IN  /\ In(t, "isLogin", "in")
        /\ \/ u = NoUser /\ Leave(t, Flag(FALSE))
           \/ u # NoUser /\ \E b \in BoolRead(u.islogin) : Leave(t, Flag(b))
        /\ UNCHANGED users

GetUser(t) ==
    LET u == users[call[t].name]
    IN  /\ In(t, "getUser", "in")
        /\ Leave(t, [ok |-> u # NoUser, user |-> u])
        /\ UNCHANGED users

Body(t) ==
    \/ InsertUser(t) \/ SetPassword(t) \/ SetIslogin(t) \/ SetSocketFd(t)
    \/ CheckPassword(t) \/ SetLoggedIn(t)
    \/ FindOrInsert(t) \/ ClearFlag(t)
    \/ HasUser(t) \/ IsLogin(t) \/ GetUser(t)

-----------------------------------------------------------------------------
(* The data race.                                                          *)

Inside(t) == at[t] \notin {"idle", "called", "returned"}

\* t's next access inserts a key.
Inserts(t) ==
    /\ at[t] = "in"
    /\ call[t].kind \in {"addUser", "logOutUser"}
    /\ users[call[t].name] = NoUser

\* t's next access goes through the structure of the table.
Traverses(t) == Inside(t) /\ at[t] # "clearFlag"

\* Nothing orders t's next access and o's, and one of them inserts.
Races(t, o) ==
    /\ t # o
    /\ Traverses(t) /\ Traverses(o)
    /\ ~Locks(call[t].kind) \/ ~Locks(call[o].kind)
    /\ Inserts(t) \/ Inserts(o)

Corrupt ==
    /\ ~ub
    /\ \E t, o \in Threads : Races(t, o)
    /\ ub' = TRUE
    /\ UNCHANGED <<users, mtx, call, at, ret>>

-----------------------------------------------------------------------------

StoreNext ==
    \/ \E t \in Threads : \/ \E c \in Calls : ~ub /\ Invoke(t, c)
                          \/ Enter(t)
                          \/ Body(t)
                          \/ ~ub /\ Resume(t)
    \/ Corrupt

StoreSpec == StoreInit /\ [][StoreNext]_storeVars

\* Threads run on: a call that is past its lock goes on to return.
StoreFairSpec == StoreSpec /\ \A t \in Threads : WF_storeVars(Body(t))

-----------------------------------------------------------------------------
(* Properties.                                                             *)

\* Two threads are never inside two locking methods at once, and a thread that
\* is inside one owns the mutex (lock_guard in UserStore.cpp:15,25,44,49,59):
\* only logOutUser() can run beside another method.
LockedCallsExclude ==
    \A t \in Threads : Inside(t) /\ Locks(call[t].kind) => mtx = t

\* What getUser() returns was never caught half registered, although addUser()
\* assigns the descriptor last (UserStore.cpp:16-19) and logOutUser() works on
\* the entry beside it (39): it is a user that was signed up in full, or a ghost
\* that nobody ever signed up, without a password and without a descriptor.
GotUserIsWhole ==
    \A t \in Threads :
        at[t] = "returned" /\ call[t].kind = "getUser" /\ ret[t].user # NoUser =>
            \/ ret[t].user.islogin # Uninit /\ ret[t].user.socket_fd \in SocketFds
            \/ ret[t].user.password = NoPassword /\ ret[t].user.socket_fd = Uninit

\* The only unassigned flag a method that takes the lock can meet is the one of a
\* ghost whose logOutUser() is still under way (UserStore.cpp:39, between the
\* insertion and the write): isLogin() and getUser() never read one of addUser(),
\* which assigns it only in its third access (16-19), and none stays behind.
UnassignedFlagIsTransient ==
    \A t \in Threads :
        /\ at[t] = "in"
        /\ call[t].kind \in {"isLogin", "getUser"}
        /\ users[call[t].name] # NoUser
        /\ users[call[t].name].islogin = Uninit
        => \E o \in Threads : at[o] = "clearFlag" /\ call[o].name = call[t].name

\* A thread that has the mutex gives it back (UserStore.cpp:15,25,44,49,59),
\* whatever logOutUser() does to the table beside it, short of corrupting it.
LockReleased == \A t \in Threads : (mtx = t) ~> (mtx # t \/ ub)

-----------------------------------------------------------------------------
(* The store implements the directory.  A call takes effect                *)
(*  - addUser: with its first access.  The half written entry stands for   *)
(*    the complete one, which only its thread and logOutUser() can see;    *)
(*  - every other call: with the access after which it returns.  The       *)
(*    insertion of logOutUser() is the directory's Appear, if the entry is *)
(*    new, and not to be seen otherwise.                                   *)

Writing(t) == call[t].kind = "addUser" /\ at[t] \in {"setPassword", "setIslogin", "setSocketFd"}

DirOf(n) ==
    IF \E t \in Threads : Writing(t) /\ call[t].name = n
    THEN Registered(call[CHOOSE t \in Threads : Writing(t) /\ call[t].name = n])
    ELSE users[n]

PhaseOf(t) ==
    IF at[t] = "idle" THEN "idle"
    ELSE IF Writing(t) \/ at[t] = "returned" THEN "done"
    ELSE "pending"

Dir == INSTANCE Directory WITH
    dir     <- [n \in Names |-> DirOf(n)],
    phase   <- [t \in Threads |-> PhaseOf(t)],
    request <- call,
    answer  <- ret,
    broken  <- ub

\* UserStore.cpp is linearizable: every behaviour of the locked, multi-step
\* methods is one of the directory in which each call is a single step, up to
\* the ghost a logOutUser() lets appear before its step and the corruption it
\* can cause.
ImplementsDirectory == Dir!DirSpec

=============================================================================
