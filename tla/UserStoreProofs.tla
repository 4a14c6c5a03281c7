--------------------------- MODULE UserStoreProofs ---------------------------
(***************************************************************************)
(* Proofs about UserStore for any number of threads, names, passwords and  *)
(* descriptors.                                                            *)
(***************************************************************************)
EXTENDS UserStore, TLAPS

(***************************************************************************)
(* The inductive invariant.                                                *)
(***************************************************************************)

\* Which stages a call of each kind goes through.
StageOfKind ==
    \A t \in Threads :
        /\ at[t] = "idle" <=> call[t] = NoCall
        /\ at[t] \in {"setPassword", "setIslogin", "setSocketFd"} => call[t].kind = "addUser"
        /\ at[t] = "passwordMatched" => call[t].kind = "loginUser"
        /\ at[t] = "clearFlag" => call[t].kind = "logOutUser"

\* A loginUser() that has compared the password is right about it.
MatchIsCurrent == \A t \in Threads : at[t] = "passwordMatched" => PasswordMatches(t)

\* Whoever has a password has a descriptor, or is being registered.
PasswordImpliesFd ==
    \A n \in Names : users[n] # NoUser /\ users[n].password # NoPassword
        => \/ users[n].socket_fd \in SocketFds
           \/ \E t \in Threads : Writing(t) /\ call[t].name = n

\* A descriptor is assigned after the flag, so who has one has a flag.
FdImpliesFlag ==
    \A n \in Names : users[n] # NoUser /\ users[n].socket_fd # Uninit
        => users[n].islogin # Uninit

\* t has inserted, or found, the user n and has still to assign its flag.
WillAssign(t, n) ==
    /\ call[t].name = n
    /\ (Writing(t) /\ at[t] # "setSocketFd") \/ at[t] = "clearFlag"

\* Whose islogin_ is not assigned is in the hands of a thread that will.
UnsetFlagIsBeingWritten ==
    \A n \in Names : users[n] # NoUser /\ users[n].islogin = Uninit
        => \E t \in Threads : WillAssign(t, n)

\* The reference logOutUser() writes through is to an entry of the table.
ClearsAnEntry ==
    \A t \in Threads : at[t] = "clearFlag" => users[call[t].name] # NoUser

\* What addUser() has written stays as it wrote it until it returns.
WrittenSoFar ==
    \A t \in Threads : Writing(t) =>
        /\ users[call[t].name] # NoUser
        /\ at[t] # "setPassword" => users[call[t].name].password = call[t].password
        /\ at[t] = "setSocketFd" => users[call[t].name].islogin = FALSE

\* A call that is under way has no result.
NoAnswerYet == \A t \in Threads : at[t] # "returned" => ret[t] = NoAnswer

StoreInv ==
    /\ StoreTypeOK
    /\ StageOfKind
    /\ LockedCallsExclude
    /\ MatchIsCurrent
    /\ PasswordImpliesFd
    /\ FdImpliesFlag
    /\ UnsetFlagIsBeingWritten
    /\ ClearsAnEntry
    /\ WrittenSoFar
    /\ NoAnswerYet
    /\ GotUserIsWhole

-----------------------------------------------------------------------------

\* What the type of a call says of its arguments.
LEMMA CallArguments ==
    ASSUME NEW c \in Calls \cup {NoCall}
    PROVE  /\ c.kind \in {"addUser", "loginUser", "logOutUser", "hasUser", "isLogin",
                          "getUser", "none"}
           /\ c.kind # "none" => c.name \in Names /\ c # NoCall
           /\ c.kind = "addUser" => c.password \in Passwords /\ c.socket_fd \in SocketFds
           /\ c.kind = "loginUser" => c.password \in Passwords
           /\ c \in Calls => c.kind # "none"
  BY DEF Calls, AddUserCalls, LoginUserCalls, NameCalls, NoCall

\* A flag that was never assigned is neither of the two.
LEMMA UninitFlag == Uninit # TRUE /\ Uninit # FALSE
  BY UninitAssumption

\* An entry that is found or inserted is a User.
LEMMA EntryType ==
    ASSUME StoreTypeOK, NEW n \in Names
    PROVE  /\ Entry(users, n) \in User
           /\ users[n] # NoUser => Entry(users, n) = users[n] /\ users[n] \in User
           /\ users[n] = NoUser => Entry(users, n) = DefaultUser
  BY PasswordAssumption DEF Entry, StoreTypeOK, User, DefaultUser

-----------------------------------------------------------------------------

\* Every step keeps the types of UserStore's variables.
LEMMA TypeStep ==
    ASSUME StoreTypeOK, ClearsAnEntry, [StoreNext]_storeVars
    PROVE  StoreTypeOK'
  <1> USE UninitAssumption, NoUserAssumption DEF StoreTypeOK
  <1> NoAnswer \in Answers /\ \A b \in BOOLEAN : Flag(b) \in Answers
    BY DEF NoAnswer, Flag, Answers
  <1> SUFFICES ASSUME NEW t \in Threads,
                      \/ \E c \in Calls : Invoke(t, c)
                      \/ Enter(t) \/ Body(t) \/ Resume(t)
               PROVE  StoreTypeOK'
    BY DEF StoreNext, Corrupt, storeVars
  <1> call[t].kind # "none" => call[t].name \in Names
    BY CallArguments
  <1>1. CASE \E c \in Calls : Invoke(t, c)
    BY <1>1 DEF Invoke, Stages
  <1>2. CASE Enter(t)
    BY <1>2 DEF Enter, Stages
  <1>3. CASE Resume(t)
    BY <1>3 DEF Resume, Stages
  <1>4. CASE InsertUser(t)
    <2>1. Entry(users, call[t].name) \in User
      BY <1>4, EntryType DEF InsertUser, In
    <2> QED BY <1>4, <2>1 DEF InsertUser, In, Stages
  <1>5. CASE SetPassword(t)
    <2>1. [Entry(users, call[t].name) EXCEPT !.password = call[t].password] \in User
      BY <1>5, EntryType, CallArguments DEF SetPassword, In, User
    <2> QED BY <1>5, <2>1 DEF SetPassword, In, Stages
  <1>6. CASE SetIslogin(t)
    <2>1. [Entry(users, call[t].name) EXCEPT !.islogin = FALSE] \in User
      BY <1>6, EntryType DEF SetIslogin, In, User
    <2> QED BY <1>6, <2>1 DEF SetIslogin, In, Stages
  <1>7. CASE SetSocketFd(t)
    <2>1. [Entry(users, call[t].name) EXCEPT !.socket_fd = call[t].socket_fd] \in User
      BY <1>7, EntryType, CallArguments DEF SetSocketFd, In, User
    <2> QED BY <1>7, <2>1 DEF SetSocketFd, In, Leave, Stages
  <1>8. CASE CheckPassword(t)
    BY <1>8 DEF CheckPassword, In, Leave, Stages
  <1>9. CASE SetLoggedIn(t)
    <2>1. [Entry(users, call[t].name) EXCEPT !.islogin = TRUE] \in User
      BY <1>9, EntryType DEF SetLoggedIn, In, User
    <2> QED BY <1>9, <2>1 DEF SetLoggedIn, In, Leave, Stages
  <1>10. CASE FindOrInsert(t)
    <2>1. Entry(users, call[t].name) \in User
      BY <1>10, EntryType DEF FindOrInsert, In
    <2> QED BY <1>10, <2>1 DEF FindOrInsert, In, Stages
  <1>14. CASE ClearFlag(t)
    <2>1. users[call[t].name] # NoUser
      BY <1>14 DEF ClearFlag, In, ClearsAnEntry
    <2>2. [users[call[t].name] EXCEPT !.islogin = FALSE] \in User
      BY <1>14, <2>1, EntryType DEF ClearFlag, In, User
    <2> QED BY <1>14, <2>2 DEF ClearFlag, In, Leave, Stages
  <1>11. CASE HasUser(t)
    BY <1>11 DEF HasUser, In, Leave, Stages
  <1>12. CASE IsLogin(t)
    <2>1. users[call[t].name] # NoUser => users[call[t].name].islogin \in BOOLEAN \cup {Uninit}
      BY <1>12, EntryType DEF IsLogin, In, User
    <2>2. users[call[t].name] # NoUser => BoolRead(users[call[t].name].islogin) \subseteq BOOLEAN
      BY <2>1 DEF BoolRead
    <2>3. \E b \in BOOLEAN : Leave(t, Flag(b))
      BY <1>12, <2>2, Zenon DEF IsLogin
    <2>4. PICK b \in BOOLEAN : Leave(t, Flag(b))
      BY <2>3
    <2> QED BY <1>12, <2>4 DEF IsLogin, Leave, Stages
  <1>13. CASE GetUser(t)
    <2>1. [ok |-> users[call[t].name] # NoUser, user |-> users[call[t].name]] \in Answers
      BY <1>13, EntryType DEF GetUser, In, Answers
    <2> QED BY <1>13, <2>1 DEF GetUser, In, Leave, Stages
  <1> QED
    BY <1>1, <1>2, <1>3, <1>4, <1>5, <1>6, <1>7, <1>8, <1>9, <1>10, <1>11, <1>12, <1>13,
       <1>14
    DEF Body


\* The part of the invariant that is about calls, locks and stages.
ControlInv == StageOfKind /\ LockedCallsExclude /\ NoAnswerYet

\* The end of a method that a thread is inside of keeps it.
LEMMA LeaveControl ==
    ASSUME StoreTypeOK, ControlInv, NEW t \in Threads, NEW a,
           Inside(t), call[t] # NoCall, Leave(t, a)
    PROVE  ControlInv'
  <1> USE ThreadAssumption DEF StoreTypeOK, ControlInv, Leave
  <1>1. StageOfKind'
    BY DEF StageOfKind
  <1>2. LockedCallsExclude'
    <2> SUFFICES ASSUME NEW o \in Threads, Inside(o)', Locks(call[o].kind)'
                 PROVE  mtx' = o
      BY DEF LockedCallsExclude
    <2>1. o # t /\ Inside(o) /\ mtx = o
      BY DEF Inside, LockedCallsExclude, Locks
    <2> QED BY <2>1 DEF LockedCallsExclude
  <1>3. NoAnswerYet'
    BY DEF NoAnswerYet
  <1> QED BY <1>1, <1>2, <1>3

\* Every step keeps the control part.
LEMMA ControlStep ==
    ASSUME StoreTypeOK, ControlInv, [StoreNext]_storeVars
    PROVE  ControlInv'
  <1> USE ThreadAssumption DEF StoreTypeOK, ControlInv
  <1>1. ASSUME NEW t \in Threads, NEW c \in Calls, Invoke(t, c)
        PROVE  ControlInv'
    <2>1. c # NoCall
      BY CallArguments
    <2>2. StageOfKind'
      BY <1>1, <2>1 DEF Invoke, StageOfKind
    <2>3. LockedCallsExclude'
      BY <1>1 DEF Invoke, LockedCallsExclude, Inside, Locks
    <2>4. NoAnswerYet'
      BY <1>1 DEF Invoke, NoAnswerYet
    <2> QED BY <2>2, <2>3, <2>4
  <1>2. ASSUME NEW t \in Threads, Enter(t)
        PROVE  ControlInv'
    <2>1. StageOfKind'
      BY <1>2 DEF Enter, StageOfKind
    <2>2. LockedCallsExclude'
      BY <1>2 DEF Enter, LockedCallsExclude, Inside, Locks
    <2>3. NoAnswerYet'
      BY <1>2 DEF Enter, NoAnswerYet
    <2> QED BY <2>1, <2>2, <2>3
  <1>3. ASSUME NEW t \in Threads, Resume(t)
        PROVE  ControlInv'
    <2>1. StageOfKind'
      BY <1>3 DEF Resume, StageOfKind
    <2>2. LockedCallsExclude'
      BY <1>3 DEF Resume, LockedCallsExclude, Inside, Locks
    <2>3. NoAnswerYet'
      BY <1>3 DEF Resume, NoAnswerYet
    <2> QED BY <2>1, <2>2, <2>3
  <1>4. ASSUME NEW t \in Threads,
               InsertUser(t) \/ SetPassword(t) \/ SetIslogin(t) \/ FindOrInsert(t)
        PROVE  ControlInv'
    <2> USE DEF InsertUser, SetPassword, SetIslogin, FindOrInsert, In
    <2>1. StageOfKind'
      BY <1>4 DEF StageOfKind
    <2>2. LockedCallsExclude'
      BY <1>4 DEF LockedCallsExclude, Inside, Locks
    <2>3. NoAnswerYet'
      BY <1>4 DEF NoAnswerYet
    <2> QED BY <2>1, <2>2, <2>3
  <1>5. ASSUME NEW t \in Threads, CheckPassword(t)
        PROVE  ControlInv'
    <2>1. CASE \E a : Leave(t, a)
      BY <1>5, <2>1, LeaveControl DEF CheckPassword, In, Inside, NoCall
    <2>2. CASE at' = [at EXCEPT ![t] = "passwordMatched"] /\ UNCHANGED <<users, mtx, call, ret, ub>>
      <3>1. StageOfKind'
        BY <1>5, <2>2 DEF CheckPassword, In, StageOfKind
      <3>2. LockedCallsExclude'
        BY <1>5, <2>2 DEF CheckPassword, In, LockedCallsExclude, Inside, Locks
      <3>3. NoAnswerYet'
        BY <1>5, <2>2 DEF CheckPassword, In, NoAnswerYet
      <3> QED BY <3>1, <3>2, <3>3
    <2> QED BY <1>5, <2>1, <2>2 DEF CheckPassword
  <1>6. ASSUME NEW t \in Threads,
               \/ SetSocketFd(t) \/ SetLoggedIn(t) \/ ClearFlag(t)
               \/ HasUser(t) \/ IsLogin(t) \/ GetUser(t)
        PROVE  ControlInv'
    <2>1. \E a : Leave(t, a)
      BY <1>6 DEF SetSocketFd, SetLoggedIn, ClearFlag, HasUser, IsLogin, GetUser
    <2>2. \/ In(t, "addUser", "setSocketFd") \/ In(t, "loginUser", "passwordMatched")
          \/ In(t, "logOutUser", "clearFlag") \/ In(t, "hasUser", "in")
          \/ In(t, "isLogin", "in") \/ In(t, "getUser", "in")
      BY <1>6, Zenon DEF SetSocketFd, SetLoggedIn, ClearFlag, HasUser, IsLogin, GetUser
    <2>3. Inside(t) /\ call[t] # NoCall
      BY <2>2 DEF In, Inside, NoCall
    <2> QED BY <2>1, <2>3, LeaveControl
  <1>7. CASE Corrupt \/ UNCHANGED storeVars
    <2> UNCHANGED <<mtx, call, at, ret>>
      BY <1>7 DEF Corrupt, storeVars
    <2> QED BY DEF StageOfKind, LockedCallsExclude, Inside, Locks, NoAnswerYet
  <1> QED
    BY <1>1, <1>2, <1>3, <1>4, <1>5, <1>6, <1>7 DEF StoreNext, Body

-----------------------------------------------------------------------------

\* The part of the invariant that is about the table.
DataInv ==
    /\ MatchIsCurrent
    /\ PasswordImpliesFd
    /\ FdImpliesFlag
    /\ UnsetFlagIsBeingWritten
    /\ ClearsAnEntry
    /\ WrittenSoFar

\* No thread but t has a registration or a login under way.
Alone(t) == \A o \in Threads \ {t} : ~Writing(o) /\ at[o] # "passwordMatched"

\* A thread inside a method that locks is alone.
LEMMA AloneInside ==
    ASSUME ControlInv, NEW t \in Threads, Inside(t), Locks(call[t].kind)
    PROVE  Alone(t)
  BY DEF ControlInv, LockedCallsExclude, StageOfKind, Alone, Writing, Inside, Locks

\* A step that leaves the table and every registration alone keeps the table's
\* part of the invariant, if the logins under way are right.
LEMMA QuietData ==
    ASSUME DataInv, users' = users, MatchIsCurrent',
           \A o \in Threads : /\ Writing(o)' <=> Writing(o)
                              /\ at'[o] = "clearFlag" <=> at[o] = "clearFlag"
                              /\ Writing(o) \/ at[o] = "clearFlag"
                                    => at'[o] = at[o] /\ call'[o] = call[o]
    PROVE  DataInv'
  <1> USE DEF DataInv
  <1>1. PasswordImpliesFd'
    BY DEF PasswordImpliesFd
  <1>2. UnsetFlagIsBeingWritten'
    BY DEF UnsetFlagIsBeingWritten, WillAssign
  <1>3. WrittenSoFar'
    BY DEF WrittenSoFar
  <1>4. FdImpliesFlag'
    BY DEF FdImpliesFlag
  <1>5. ClearsAnEntry'
    BY DEF ClearsAnEntry
  <1> QED BY <1>1, <1>2, <1>3, <1>4, <1>5

\* The steps that do not write keep the table's part.
LEMMA ReadStep ==
    ASSUME StoreTypeOK, ControlInv, DataInv, NEW t \in Threads,
           \/ \E c \in Calls : Invoke(t, c)
           \/ Enter(t) \/ Resume(t)
           \/ CheckPassword(t) \/ HasUser(t) \/ IsLogin(t) \/ GetUser(t)
    PROVE  DataInv'
  <1> USE DEF StoreTypeOK
  <1>1. users' = users
    BY DEF Invoke, Enter, Resume, CheckPassword, HasUser, IsLogin, GetUser
  <1>2. /\ \A o \in Threads : o # t => at'[o] = at[o] /\ call'[o] = call[o]
        /\ at[t] \in {"idle", "called", "in", "returned"}
        /\ at'[t] \in {"idle", "called", "in", "returned", "passwordMatched"}
        /\ at'[t] = "passwordMatched" => PasswordMatches(t) /\ call'[t] = call[t]
    <2>1. CASE (\E c \in Calls : Invoke(t, c)) \/ Enter(t) \/ Resume(t)
      BY <2>1 DEF Invoke, Enter, Resume
    <2>2. CASE CheckPassword(t)
      BY <2>2 DEF CheckPassword, In, Leave
    <2>3. CASE HasUser(t) \/ IsLogin(t) \/ GetUser(t)
      <3>1. at[t] = "in" /\ \E a : Leave(t, a)
        BY <2>3 DEF HasUser, IsLogin, GetUser, In
      <3> QED BY <3>1 DEF Leave
    <2> QED BY <2>1, <2>2, <2>3
  <1>3. MatchIsCurrent'
    BY <1>1, <1>2 DEF DataInv, MatchIsCurrent, PasswordMatches
  <1>4. \A o \in Threads : /\ Writing(o)' <=> Writing(o)
                           /\ at'[o] = "clearFlag" <=> at[o] = "clearFlag"
                           /\ Writing(o) \/ at[o] = "clearFlag"
                                 => at'[o] = at[o] /\ call'[o] = call[o]
    BY <1>2 DEF Writing
  <1> QED BY <1>1, <1>3, <1>4, QuietData

\* The steps of addUser() keep the table's part.
LEMMA AddUserStep ==
    ASSUME StoreTypeOK, ControlInv, DataInv, NEW t \in Threads,
           InsertUser(t) \/ SetPassword(t) \/ SetIslogin(t) \/ SetSocketFd(t)
    PROVE  DataInv'
  <1> DEFINE n == call[t].name
             e == Entry(users, n)
  <1> USE UninitAssumption, NoUserAssumption, PasswordAssumption
  <1>1. /\ call[t].kind = "addUser"
        /\ at[t] \in {"in", "setPassword", "setIslogin", "setSocketFd"}
    BY DEF InsertUser, SetPassword, SetIslogin, SetSocketFd, In
  <1>2. n \in Names /\ call[t].password \in Passwords /\ call[t].socket_fd \in SocketFds
    BY <1>1, CallArguments DEF StoreTypeOK
  <1>3. Alone(t)
    BY <1>1, AloneInside DEF Inside, Locks
  <1>4. /\ e \in User
        /\ users[n] # NoUser => e = users[n]
        /\ users[n] = NoUser => e = DefaultUser
    BY <1>2, EntryType
  <1>5. Writing(t) => users[n] # NoUser
    BY DEF DataInv, WrittenSoFar
  <1>6. call' = call /\ \A o \in Threads : o # t => at'[o] = at[o]
    BY DEF InsertUser, SetPassword, SetIslogin, SetSocketFd, Leave, StoreTypeOK
  <1>7. \A o \in Threads \ {t} : ~Writing(o)' /\ at'[o] # "passwordMatched"
    BY <1>3, <1>6 DEF Alone, Writing
  <1>8. \A m \in Names : m # n => users'[m] = users[m]
    BY <1>2 DEF InsertUser, SetPassword, SetIslogin, SetSocketFd, StoreTypeOK
  <1>9. users'[n] # NoUser /\ users'[n] \in User
    <2> USE <1>1, <1>2, <1>4 DEF StoreTypeOK, User
    <2>1. CASE InsertUser(t)
      BY <2>1 DEF InsertUser
    <2>2. CASE SetPassword(t)
      BY <2>2 DEF SetPassword
    <2>3. CASE SetIslogin(t)
      BY <2>3 DEF SetIslogin
    <2>4. CASE SetSocketFd(t)
      BY <2>4 DEF SetSocketFd
    <2> QED BY <2>1, <2>2, <2>3, <2>4
  <1>10. \A m \in Names, o \in Threads : m # n /\ Writing(o) => call[o].name # m
    BY <1>3 DEF Alone
  <1>11. MatchIsCurrent'
    <2>1. at'[t] # "passwordMatched"
      BY DEF InsertUser, SetPassword, SetIslogin, SetSocketFd, Leave, StoreTypeOK
    <2> QED BY <1>7, <2>1 DEF MatchIsCurrent
  <1>16. \A m \in Names, o \in Threads : m # n /\ WillAssign(o, m) => WillAssign(o, m)'
    BY <1>1, <1>6 DEF WillAssign, Writing
  <1>17. at[t] # "clearFlag" /\ at'[t] # "clearFlag"
    BY <1>1 DEF InsertUser, SetPassword, SetIslogin, SetSocketFd, Leave, StoreTypeOK
  <1>18. ClearsAnEntry'
    BY <1>6, <1>8, <1>9, <1>17, CallArguments DEF ClearsAnEntry, DataInv, StoreTypeOK, ControlInv, StageOfKind
  <1>12. CASE InsertUser(t)
    <2>1. users'[n] = e /\ at[t] = "in" /\ at'[t] = "setPassword" /\ Writing(t)'
      BY <1>12, <1>1, <1>2, <1>6 DEF InsertUser, In, StoreTypeOK, Writing
    <2>2. PasswordImpliesFd'
      BY <2>1, <1>2, <1>6, <1>8, <1>10 DEF PasswordImpliesFd, DataInv
    <2>3. UnsetFlagIsBeingWritten'
      BY <2>1, <1>2, <1>6, <1>8, <1>16 DEF UnsetFlagIsBeingWritten, DataInv, WillAssign
    <2>4. WrittenSoFar'
      BY <2>1, <1>6, <1>7, <1>9 DEF WrittenSoFar
    <2>5. FdImpliesFlag'
      BY <2>1, <1>4, <1>8 DEF FdImpliesFlag, DataInv, DefaultUser
    <2> QED BY <1>11, <1>18, <2>2, <2>3, <2>4, <2>5 DEF DataInv
  <1>13. CASE SetPassword(t)
    <2>1. /\ users[n] # NoUser
          /\ users'[n] = [users[n] EXCEPT !.password = call[t].password]
          /\ at[t] = "setPassword" /\ at'[t] = "setIslogin" /\ Writing(t)'
      BY <1>13, <1>1, <1>2, <1>4, <1>5, <1>6 DEF SetPassword, In, StoreTypeOK, Writing
    <2>2. PasswordImpliesFd'
      BY <2>1, <1>2, <1>6, <1>8, <1>10 DEF PasswordImpliesFd, DataInv
    <2>3. UnsetFlagIsBeingWritten'
      BY <2>1, <1>2, <1>6, <1>8, <1>16 DEF UnsetFlagIsBeingWritten, DataInv, WillAssign
    <2>4. WrittenSoFar'
      BY <2>1, <1>4, <1>6, <1>7, <1>9 DEF WrittenSoFar, User
    <2>5. FdImpliesFlag'
      BY <2>1, <1>4, <1>8 DEF FdImpliesFlag, DataInv, User
    <2> QED BY <1>11, <1>18, <2>2, <2>3, <2>4, <2>5 DEF DataInv
  <1>14. CASE SetIslogin(t)
    <2>1. /\ users[n] # NoUser
          /\ users'[n] = [users[n] EXCEPT !.islogin = FALSE]
          /\ at[t] = "setIslogin" /\ at'[t] = "setSocketFd" /\ Writing(t)' /\ Writing(t)
      BY <1>14, <1>1, <1>2, <1>4, <1>5, <1>6 DEF SetIslogin, In, StoreTypeOK, Writing
    <2>2. PasswordImpliesFd'
      BY <2>1, <1>2, <1>6, <1>8, <1>10 DEF PasswordImpliesFd, DataInv
    <2>3. UnsetFlagIsBeingWritten'
      <3>1. users'[n].islogin # Uninit
        BY <2>1, <1>4, UninitFlag DEF User
      <3> QED BY <3>1, <1>6, <1>8, <1>16 DEF UnsetFlagIsBeingWritten, DataInv
    <2>4. WrittenSoFar'
      BY <2>1, <1>4, <1>6, <1>7, <1>9 DEF WrittenSoFar, DataInv, User
    <2>5. FdImpliesFlag'
      BY <2>1, <1>4, <1>8, UninitFlag DEF FdImpliesFlag, DataInv, User
    <2> QED BY <1>11, <1>18, <2>2, <2>3, <2>4, <2>5 DEF DataInv
  <1>15. CASE SetSocketFd(t)
    <2>1. /\ users[n] # NoUser
          /\ users'[n] = [users[n] EXCEPT !.socket_fd = call[t].socket_fd]
          /\ at[t] = "setSocketFd" /\ at'[t] = "returned" /\ ~Writing(t)' /\ Writing(t)
      BY <1>15, <1>1, <1>2, <1>4, <1>5, <1>6 DEF SetSocketFd, Leave, In, StoreTypeOK, Writing
    <2>2. /\ users'[n].socket_fd = call[t].socket_fd
          /\ users'[n].password = call[t].password
          /\ users'[n].islogin = FALSE
      BY <2>1, <1>4 DEF DataInv, WrittenSoFar, User
    <2>3. PasswordImpliesFd'
      BY <2>2, <1>2, <1>6, <1>8, <1>10 DEF PasswordImpliesFd, DataInv
    <2>4. UnsetFlagIsBeingWritten'
      BY <2>2, <1>2, <1>6, <1>8, <1>16, UninitFlag DEF UnsetFlagIsBeingWritten, DataInv
    <2>5. WrittenSoFar'
      BY <2>1, <1>7 DEF WrittenSoFar
    <2>6. FdImpliesFlag'
      BY <2>2, <1>8, UninitFlag DEF FdImpliesFlag, DataInv
    <2> QED BY <1>11, <1>18, <2>3, <2>4, <2>5, <2>6 DEF DataInv
  <1> QED BY <1>12, <1>13, <1>14, <1>15

\* The write of loginUser() keeps it: the user it logs in has a descriptor if
\* it has a password, because nobody is registering it.
LEMMA LoginStep ==
    ASSUME StoreTypeOK, ControlInv, DataInv, NEW t \in Threads, SetLoggedIn(t)
    PROVE  DataInv'
  <1> DEFINE n == call[t].name
  <1>1. call[t].kind = "loginUser" /\ at[t] = "passwordMatched"
    BY DEF SetLoggedIn, In
  <1>2. n \in Names /\ call[t].password \in Passwords
    BY <1>1, CallArguments DEF StoreTypeOK
  <1>3. Alone(t) /\ ~Writing(t)
    BY <1>1, AloneInside DEF Inside, Locks, Writing
  <1>4. users[n] # NoUser /\ users[n].password = call[t].password
    BY <1>1 DEF DataInv, MatchIsCurrent, PasswordMatches
  <1>5. users[n] \in User /\ (users[n].password # NoPassword => users[n].socket_fd \in SocketFds)
    BY <1>2, <1>3, <1>4, EntryType DEF DataInv, PasswordImpliesFd, Alone
  <1>6. users' = [users EXCEPT ![n] = [users[n] EXCEPT !.islogin = TRUE]]
    BY <1>4 DEF SetLoggedIn, Entry
  <1>7. /\ users'[n].password # NoPassword => users'[n].socket_fd \in SocketFds
        /\ users'[n].islogin # Uninit
    <2>1. users'[n] = [users[n] EXCEPT !.islogin = TRUE]
      BY <1>2, <1>6 DEF StoreTypeOK
    <2> QED BY <2>1, <1>4, <1>5, UninitFlag DEF User
  <1>8. \A m \in Names : m # n => users'[m] = users[m]
    BY <1>6 DEF StoreTypeOK
  <1>9. \A o \in Threads : ~Writing(o) /\ ~Writing(o)' /\ at'[o] # "passwordMatched"
    BY <1>1, <1>3 DEF SetLoggedIn, Leave, StoreTypeOK, Alone, Writing
  <1>10. MatchIsCurrent' /\ WrittenSoFar'
    BY <1>9 DEF MatchIsCurrent, WrittenSoFar
  <1>11. PasswordImpliesFd'
    BY <1>7, <1>8, <1>9 DEF PasswordImpliesFd, DataInv
  <1>12. UnsetFlagIsBeingWritten'
    <2>1. call' = call /\ \A o \in Threads : at[o] = "clearFlag" => at'[o] = "clearFlag"
      BY <1>1 DEF SetLoggedIn, Leave, StoreTypeOK
    <2>2. \A m \in Names, o \in Threads : m # n /\ WillAssign(o, m) => WillAssign(o, m)'
      BY <1>9, <2>1 DEF WillAssign
    <2> QED BY <1>7, <1>8, <2>2 DEF UnsetFlagIsBeingWritten, DataInv
  <1>13. FdImpliesFlag'
    BY <1>7, <1>8 DEF FdImpliesFlag, DataInv
  <1>14. ClearsAnEntry'
    <2>1. call' = call /\ \A o \in Threads : at'[o] = "clearFlag" => at[o] = "clearFlag"
      BY <1>1 DEF SetLoggedIn, Leave, StoreTypeOK
    <2>2. users'[n] # NoUser
      BY <1>2, <1>5, <1>6, NoUserAssumption DEF StoreTypeOK, User
    <2>3. \A o \in Threads : at[o] = "clearFlag" => call[o].name \in Names
      BY CallArguments DEF ControlInv, StageOfKind, StoreTypeOK
    <2> QED BY <1>8, <2>1, <2>2, <2>3 DEF ClearsAnEntry, DataInv
  <1> QED BY <1>10, <1>11, <1>12, <1>13, <1>14 DEF DataInv

\* The accesses of logOutUser(), which may come at any moment of any other call,
\* keep it.
LEMMA LogOutStep ==
    ASSUME StoreTypeOK, ControlInv, DataInv, NEW t \in Threads,
           FindOrInsert(t) \/ ClearFlag(t)
    PROVE  DataInv'
  <1> DEFINE n == call[t].name
             e == Entry(users, n)
  <1>1. call[t].kind = "logOutUser" /\ at[t] \in {"in", "clearFlag"}
    BY DEF FindOrInsert, ClearFlag, In
  <1>2. n \in Names
    BY <1>1, CallArguments DEF StoreTypeOK
  <1>3. /\ e \in User
        /\ users[n] # NoUser => e = users[n]
        /\ users[n] = NoUser => e = DefaultUser
    BY <1>2, EntryType
  <1>4. users'[n] = e \/ users'[n] = [e EXCEPT !.islogin = FALSE]
    <2>1. CASE FindOrInsert(t)
      BY <1>2, <2>1 DEF FindOrInsert, StoreTypeOK
    <2>2. CASE ClearFlag(t)
      <3>1. users[n] # NoUser
        BY <2>2 DEF ClearFlag, In, DataInv, ClearsAnEntry
      <3> QED BY <1>2, <1>3, <2>2, <3>1 DEF ClearFlag, StoreTypeOK
    <2> QED BY <2>1, <2>2
  <1>5. /\ users'[n].password = e.password /\ users'[n].socket_fd = e.socket_fd
        /\ users'[n].islogin # e.islogin => users'[n].islogin = FALSE
        /\ users'[n].islogin = Uninit => e.islogin = Uninit
    BY <1>3, <1>4, UninitFlag DEF User
  <1>6. users'[n] # NoUser
    <2>1. users'[n] \in User
      BY <1>3, <1>4 DEF User
    <2> QED BY <2>1, NoUserAssumption
  <1>7. \A m \in Names : m # n => users'[m] = users[m]
    BY DEF FindOrInsert, ClearFlag, StoreTypeOK
  <1>8. /\ call' = call /\ ~Writing(t) /\ ~Writing(t)' /\ at'[t] # "passwordMatched"
        /\ \A o \in Threads : o # t => at'[o] = at[o]
    BY <1>1 DEF FindOrInsert, ClearFlag, Leave, StoreTypeOK, Writing
  <1>9. \A o \in Threads : Writing(o)' <=> Writing(o)
    BY <1>8 DEF Writing
  <1>10. MatchIsCurrent'
    <2> SUFFICES ASSUME NEW o \in Threads, at'[o] = "passwordMatched"
                 PROVE  PasswordMatches(o)'
      BY DEF MatchIsCurrent
    <2>1. at[o] = "passwordMatched" /\ call'[o] = call[o]
      BY <1>8
    <2>2. call[o].name \in Names
      BY <2>1, CallArguments DEF ControlInv, StageOfKind, StoreTypeOK
    <2> QED BY <2>1, <2>2, <1>3, <1>5, <1>6, <1>7 DEF DataInv, MatchIsCurrent, PasswordMatches
  <1>11. PasswordImpliesFd'
    BY <1>3, <1>5, <1>7, <1>8, <1>9 DEF PasswordImpliesFd, DataInv, DefaultUser
  <1>12. UnsetFlagIsBeingWritten'
    <2>1. \A m \in Names, o \in Threads : o # t /\ WillAssign(o, m) => WillAssign(o, m)'
      BY <1>8, <1>9 DEF WillAssign
    <2>2. \A m \in Names : m # n => ~WillAssign(t, m)
      BY DEF WillAssign
    <2>0. PICK k \in Names : k = n
      BY <1>2
    <2>3. users'[n].islogin # Uninit \/ WillAssign(t, k)'
      <3>1. CASE FindOrInsert(t)
        BY <2>0, <3>1, <1>8 DEF FindOrInsert, WillAssign, StoreTypeOK
      <3>2. CASE ClearFlag(t)
        <4>1. users[n] # NoUser
          BY <3>2 DEF ClearFlag, In, DataInv, ClearsAnEntry
        <4>2. users'[n] = [users[n] EXCEPT !.islogin = FALSE] /\ users[n] \in User
          BY <1>2, <1>3, <3>2, <4>1 DEF ClearFlag, StoreTypeOK
        <4> QED BY <4>2, UninitFlag DEF User
      <3> QED BY <3>1, <3>2
    <2> QED BY <1>7, <2>0, <2>1, <2>2, <2>3 DEF UnsetFlagIsBeingWritten, DataInv
  <1>13. WrittenSoFar'
    <2> SUFFICES ASSUME NEW o \in Threads, Writing(o)
                 PROVE  /\ users'[call[o].name] # NoUser
                        /\ at[o] # "setPassword" =>
                              users'[call[o].name].password = call[o].password
                        /\ at[o] = "setSocketFd" => users'[call[o].name].islogin = FALSE
      BY <1>8, <1>9 DEF WrittenSoFar
    <2>1. call[o].name \in Names
      BY CallArguments DEF Writing, StoreTypeOK
    <2> QED BY <2>1, <1>3, <1>5, <1>6, <1>7 DEF DataInv, WrittenSoFar
  <1>14. FdImpliesFlag'
    BY <1>3, <1>5, <1>7 DEF FdImpliesFlag, DataInv, DefaultUser
  <1>15. ClearsAnEntry'
    <2>1. \A o \in Threads : at[o] = "clearFlag" => call[o].name \in Names
      BY CallArguments DEF ControlInv, StageOfKind, StoreTypeOK
    <2> QED BY <1>6, <1>7, <1>8, <2>1 DEF ClearsAnEntry, DataInv
  <1> QED BY <1>10, <1>11, <1>12, <1>13, <1>14, <1>15 DEF DataInv

-----------------------------------------------------------------------------

\* StoreInv holds at the start.
LEMMA InvInit == StoreInit => StoreInv
  <1> SUFFICES ASSUME StoreInit PROVE StoreInv
    OBVIOUS
  <1> USE DEF StoreInit
  <1>1. StoreTypeOK
    BY DEF StoreTypeOK, Stages, NoAnswer, Answers
  <1>2. ControlInv
    BY DEF ControlInv, StageOfKind, LockedCallsExclude, Inside, NoAnswerYet
  <1>3. DataInv
    BY DEF DataInv, MatchIsCurrent, PasswordImpliesFd, FdImpliesFlag,
           UnsetFlagIsBeingWritten, ClearsAnEntry, WrittenSoFar, Writing, NoCall
  <1>4. GotUserIsWhole
    BY DEF GotUserIsWhole
  <1> QED BY <1>1, <1>2, <1>3, <1>4 DEF StoreInv, ControlInv, DataInv

\* A copy is only ever returned by a getUser() that has the mutex, so whoever
\* was registering the user is done; nothing changes a copy afterwards.
LEMMA WholeStep ==
    ASSUME StoreTypeOK, ControlInv, DataInv, GotUserIsWhole, [StoreNext]_storeVars
    PROVE  GotUserIsWhole'
  <1> USE DEF StoreTypeOK
  <1> SUFFICES ASSUME NEW t \in Threads, at'[t] = "returned", call'[t].kind = "getUser",
                      ret'[t].user # NoUser
               PROVE  \/ /\ ret'[t].user.islogin # Uninit
                         /\ ret'[t].user.socket_fd \in SocketFds
                      \/ /\ ret'[t].user.password = NoPassword
                         /\ ret'[t].user.socket_fd = Uninit
    BY DEF GotUserIsWhole
  <1>1. CASE at[t] = "returned" /\ call'[t] = call[t] /\ ret'[t] = ret[t]
    BY <1>1 DEF GotUserIsWhole
  <1>2. CASE GetUser(t)
    <2>1. /\ call[t].kind = "getUser" /\ at[t] = "in"
          /\ ret'[t].user = users[call[t].name]
      BY <1>2 DEF GetUser, In, Leave
    <2>2. Alone(t) /\ ~Writing(t)
      BY <2>1, AloneInside DEF Inside, Locks, Writing
    <2>3. call[t].name \in Names
      BY <2>1, CallArguments
    <2>4. users[call[t].name].socket_fd \in SocketFds \cup {Uninit}
      BY <2>1, <2>3, EntryType DEF User
    <2> QED
      BY <2>1, <2>2, <2>3, <2>4, UninitAssumption DEF DataInv, PasswordImpliesFd, FdImpliesFlag, Alone
  <1>3. ASSUME NEW o \in Threads,
               \/ \E c \in Calls : Invoke(o, c)
               \/ Enter(o) \/ Body(o) \/ Resume(o)
        PROVE  GetUser(t) \/ (at[t] = "returned" /\ call'[t] = call[t] /\ ret'[t] = ret[t])
    <2>1. CASE o # t
      <3>1. at'[t] = at[t] /\ call'[t] = call[t] /\ ret'[t] = ret[t]
        BY <1>3, <2>1 DEF Invoke, Enter, Resume, Body, InsertUser, SetPassword, SetIslogin,
              SetSocketFd, CheckPassword, SetLoggedIn, FindOrInsert, ClearFlag, HasUser,
              IsLogin, GetUser, Leave
      <3> QED BY <3>1
    <2>2. CASE o = t
      <3>1. CASE (\E c \in Calls : Invoke(t, c)) \/ Enter(t) \/ Resume(t)
        BY <3>1 DEF Invoke, Enter, Resume
      <3>2. CASE Body(t)
        BY <3>2 DEF Body, InsertUser, SetPassword, SetIslogin, SetSocketFd, CheckPassword,
              SetLoggedIn, FindOrInsert, ClearFlag, HasUser, IsLogin, In, Leave
      <3> QED BY <1>3, <2>2, <3>1, <3>2
    <2> QED BY <2>1, <2>2
  <1>4. CASE Corrupt \/ UNCHANGED storeVars
    BY <1>4, <1>1 DEF Corrupt, storeVars
  <1> QED BY <1>1, <1>2, <1>3, <1>4 DEF StoreNext

\* Every step of UserStore keeps StoreInv.
LEMMA InvStep == StoreInv /\ [StoreNext]_storeVars => StoreInv'
  <1> SUFFICES ASSUME StoreInv, [StoreNext]_storeVars PROVE StoreInv'
    OBVIOUS
  <1>1. StoreTypeOK /\ ControlInv /\ DataInv
    BY DEF StoreInv, ControlInv, DataInv
  <1>2. DataInv'
    <2>1. ASSUME NEW t \in Threads,
                 (\E c \in Calls : Invoke(t, c)) \/ Enter(t) \/ Body(t) \/ Resume(t)
          PROVE  DataInv'
      BY <2>1, <1>1, ReadStep, AddUserStep, LoginStep, LogOutStep DEF Body
    <2>2. CASE Corrupt \/ UNCHANGED storeVars
      <3> UNCHANGED <<users, call, at>>
        BY <2>2 DEF Corrupt, storeVars
      <3>1. MatchIsCurrent'
        BY <1>1 DEF DataInv, MatchIsCurrent, PasswordMatches
      <3>2. \A o \in Threads : Writing(o)' <=> Writing(o)
        BY DEF Writing
      <3> QED BY <1>1, <3>1, <3>2, QuietData
    <2> QED BY <2>1, <2>2 DEF StoreNext
  <1>3. GotUserIsWhole'
    BY <1>1, WholeStep DEF StoreInv
  <1> QED BY <1>1, <1>2, <1>3, TypeStep, ControlStep DEF StoreInv, ControlInv, DataInv

\* StoreInv, the strengthening of the invariants of UserStore.cpp the theorems
\* below rest on, holds in every state.
THEOREM StoreInvariant == StoreSpec => []StoreInv
  BY InvInit, InvStep, PTL DEF StoreSpec

\* The variables of UserStore.cpp keep their types: no method stores or returns
\* anything but what it is declared to.
THEOREM StoreTypeCorrect == StoreSpec => []StoreTypeOK
  BY StoreInvariant, PTL DEF StoreInv

\* The methods that take the lock exclude each other, for any number of threads.
THEOREM StoreExclusion == StoreSpec => []LockedCallsExclude
  BY StoreInvariant, PTL DEF StoreInv

\* getUser() never returns a half registered user, whatever logOutUser() inserts
\* beside it without the lock: only a user signed up in full, or a ghost.
THEOREM StoreWhole == StoreSpec => []GotUserIsWhole
  BY StoreInvariant, PTL DEF StoreInv

\* An islogin_ that was not assigned is read by isLogin() and getUser() only in
\* a ghost whose logOutUser() has still to write it.
THEOREM StoreFlags == StoreSpec => []UnassignedFlagIsTransient
  <1>1. StoreInv => UnassignedFlagIsTransient
    <2> SUFFICES ASSUME StoreInv, NEW t \in Threads, at[t] = "in",
                        call[t].kind \in {"isLogin", "getUser"},
                        users[call[t].name] # NoUser, users[call[t].name].islogin = Uninit
                 PROVE  \E o \in Threads : at[o] = "clearFlag" /\ call[o].name = call[t].name
      BY DEF UnassignedFlagIsTransient
    <2>1. Alone(t) /\ ~Writing(t)
      BY AloneInside DEF StoreInv, ControlInv, Inside, Locks, Writing
    <2>2. call[t].name \in Names
      BY CallArguments DEF StoreInv, StoreTypeOK
    <2>3. PICK o \in Threads : WillAssign(o, call[t].name)
      BY <2>2 DEF StoreInv, UnsetFlagIsBeingWritten
    <2> QED BY <2>1, <2>3 DEF WillAssign, Alone
  <1> QED BY <1>1, StoreInvariant, PTL

-----------------------------------------------------------------------------
(* The refinement: every step of UserStore is a step of Directory or none. *)

\* What the refinement mapping makes of each name.
DirOfFact ==
    \A n \in Names :
        /\ \A t \in Threads : Writing(t) /\ call[t].name = n => DirOf(n) = Registered(call[t])
        /\ (\A t \in Threads : ~(Writing(t) /\ call[t].name = n)) => DirOf(n) = users[n]

\* The directory's entry of a name somebody registers, and of any other.
LEMMA DirOfIs == ControlInv => DirOfFact
  <1> SUFFICES ASSUME ControlInv, NEW n \in Names
               PROVE  /\ \A t \in Threads : Writing(t) /\ call[t].name = n
                            => DirOf(n) = Registered(call[t])
                      /\ (\A t \in Threads : ~(Writing(t) /\ call[t].name = n))
                            => DirOf(n) = users[n]
    BY DEF DirOfFact
  <1>1. ASSUME NEW t \in Threads, Writing(t), call[t].name = n
        PROVE  DirOf(n) = Registered(call[t])
    <2>1. Alone(t)
      BY <1>1, AloneInside DEF Writing, Inside, Locks
    <2>2. (CHOOSE o \in Threads : Writing(o) /\ call[o].name = n) = t
      BY <1>1, <2>1 DEF Alone
    <2> QED BY <1>1, <2>2 DEF DirOf
  <1> QED BY <1>1 DEF DirOf

\* The same of the state after a step.
LEMMA DirOfIsNext == ControlInv' => DirOfFact'
  BY DirOfIs, PTL

\* A step that neither writes nor registers leaves the directory as it is.
LEMMA DirOfSame ==
    ASSUME ControlInv, ControlInv', users' = users,
           \A o \in Threads : /\ Writing(o)' <=> Writing(o)
                              /\ Writing(o) => call'[o] = call[o]
    PROVE  \A n \in Names : DirOf(n)' = DirOf(n)
  <1> SUFFICES ASSUME NEW n \in Names PROVE DirOf(n)' = DirOf(n)
    OBVIOUS
  <1>1. DirOfFact /\ DirOfFact'
    BY DirOfIs, DirOfIsNext
  <1>2. CASE \E t \in Threads : Writing(t) /\ call[t].name = n
    <2>1. PICK t \in Threads : Writing(t) /\ call[t].name = n
      BY <1>2
    <2>2. DirOf(n) = Registered(call[t])
      BY <2>1, <1>1 DEF DirOfFact
    <2>3. DirOf(n)' = Registered(call'[t])
      BY <2>1, <1>1 DEF DirOfFact, Registered
    <2> QED BY <2>1, <2>2, <2>3
  <1>3. CASE \A t \in Threads : ~(Writing(t) /\ call[t].name = n)
    BY <1>1, <1>3 DEF DirOfFact
  <1> QED BY <1>2, <1>3

\* The mapped variables.
dirF == [n \in Names |-> DirOf(n)]
phaseF == [t \in Threads |-> PhaseOf(t)]

\* The initial state of the store is that of the directory.
LEMMA RefineInit == StoreInit => Dir!DirInit
  <1> SUFFICES ASSUME StoreInit PROVE Dir!DirInit
    OBVIOUS
  <1>1. \A t \in Threads : ~Writing(t) /\ PhaseOf(t) = "idle"
    BY DEF StoreInit, Writing, PhaseOf, NoCall
  <1>2. \A n \in Names : DirOf(n) = NoUser
    BY <1>1 DEF StoreInit, DirOf
  <1> QED
    BY <1>1, <1>2 DEF StoreInit, Dir!DirInit, NoCall, Dir!NoCall, NoAnswer, Dir!NoAnswer

\* A call, its lock and its return.
LEMMA RefineInvoke ==
    ASSUME StoreInv, StoreInv', NEW t \in Threads, NEW c \in Calls, ~ub, Invoke(t, c)
    PROVE  Dir!DirCall(t, c)
  <1> USE DEF StoreInv, StoreTypeOK
  <1>1. \A o \in Threads : /\ Writing(o)' <=> Writing(o)
                           /\ Writing(o) => call'[o] = call[o]
    BY DEF Invoke, Writing
  <1>2. dirF' = dirF
    BY <1>1, DirOfSame DEF Invoke, ControlInv, dirF
  <1>3. phaseF[t] \in {"idle", "done"} /\ phaseF' = [phaseF EXCEPT ![t] = "pending"]
    BY DEF Invoke, phaseF, PhaseOf, Writing
  <1> QED BY <1>2, <1>3 DEF Dir!DirCall, dirF, phaseF, Invoke, NoAnswer, Dir!NoAnswer

\* When the caller has taken the result, the directory's call returns.
LEMMA RefineResume ==
    ASSUME StoreInv, StoreInv', NEW t \in Threads, ~ub, Resume(t)
    PROVE  Dir!DirReturn(t)
  <1> USE DEF StoreInv, StoreTypeOK
  <1>1. \A o \in Threads : /\ Writing(o)' <=> Writing(o)
                           /\ Writing(o) => call'[o] = call[o]
    BY DEF Resume, Writing
  <1>2. dirF' = dirF
    BY <1>1, DirOfSame DEF Resume, ControlInv, dirF
  <1>3. phaseF[t] = "done" /\ phaseF' = [phaseF EXCEPT ![t] = "idle"]
    BY DEF Resume, phaseF, PhaseOf, Writing
  <1> QED
    BY <1>2, <1>3 DEF Dir!DirReturn, dirF, phaseF, Resume, NoAnswer, Dir!NoAnswer, NoCall, Dir!NoCall

\* Taking the lock (UserStore.cpp:15,25,44,49,59) is invisible in the directory.
LEMMA RefineEnter ==
    ASSUME StoreInv, StoreInv', NEW t \in Threads, Enter(t)
    PROVE  UNCHANGED Dir!dirVars
  <1> USE DEF StoreInv, StoreTypeOK
  <1>1. \A o \in Threads : /\ Writing(o)' <=> Writing(o)
                           /\ Writing(o) => call'[o] = call[o]
    BY DEF Enter, Writing
  <1>2. dirF' = dirF
    BY <1>1, DirOfSame DEF Enter, ControlInv, dirF
  <1>3. phaseF' = phaseF
    BY DEF Enter, phaseF, PhaseOf, Writing
  <1> QED BY <1>2, <1>3 DEF Dir!dirVars, dirF, phaseF, Enter

\* A data race is one the directory allows for: a logOutUser() beside a call.
LEMMA RefineCorrupt ==
    ASSUME StoreInv, Corrupt
    PROVE  Dir!Break
  <1> USE DEF StoreInv, StoreTypeOK
  <1>1. PICK t \in Threads, o \in Threads : /\ t # o /\ Inside(t) /\ Inside(o)
                                            /\ ~Locks(call[t].kind)
    BY DEF Corrupt, Races, Traverses
  <1>2. call[t].kind = "logOutUser" /\ phaseF[t] = "pending" /\ phaseF[o] # "idle"
    BY <1>1 DEF Locks, phaseF, PhaseOf, Inside, Writing
  <1>3. dirF' = dirF /\ phaseF' = phaseF
    <2> UNCHANGED <<users, mtx, call, at, ret>>
      BY DEF Corrupt
    <2>1. \A p \in Threads : (Writing(p)' <=> Writing(p)) /\ PhaseOf(p)' = PhaseOf(p)
      BY DEF Writing, PhaseOf
    <2>2. ControlInv /\ ControlInv'
      BY DEF ControlInv, StageOfKind, LockedCallsExclude, Inside, Locks, NoAnswerYet
    <2> QED BY <2>1, <2>2, DirOfSame DEF dirF, phaseF
  <1> QED BY <1>1, <1>2, <1>3 DEF Dir!Break, Corrupt, dirF, phaseF

\* addUser() takes effect with its first access ...
LEMMA RefineInsert ==
    ASSUME StoreInv, StoreInv', NEW t \in Threads, InsertUser(t)
    PROVE  Dir!Apply(t)
  <1> USE DEF StoreInv, StoreTypeOK
  <1>0. PICK n \in Names : n = call[t].name
    BY CallArguments DEF InsertUser, In
  <1>1. call[t].kind = "addUser" /\ at[t] = "in" /\ ~ub /\ ~Writing(t)
    BY DEF InsertUser, In, Writing
  <1>2. /\ call' = call /\ ret' = ret /\ ub' = ub /\ Writing(t)'
        /\ at' = [at EXCEPT ![t] = "setPassword"]
    BY <1>0, <1>1 DEF InsertUser, Writing
  <1>3. \A o \in Threads : ~Writing(o) /\ (o # t => ~Writing(o)')
    BY <1>0, <1>1, <1>2, AloneInside DEF ControlInv, Inside, Locks, Alone, Writing
  <1>4. DirOfFact /\ DirOfFact'
    BY DirOfIs, DirOfIsNext DEF ControlInv
  <1>5. DirOf(n)' = Registered(call[t])
    BY <1>0, <1>1, <1>2, <1>4 DEF DirOfFact, Registered
  <1>6. \A m \in Names \ {n} : DirOf(m)' = DirOf(m)
    <2> SUFFICES ASSUME NEW m \in Names, m # n PROVE DirOf(m)' = DirOf(m)
      OBVIOUS
    <2>1. DirOf(m) = users[m]
      BY <1>3, <1>4 DEF DirOfFact
    <2>2. DirOf(m)' = users'[m]
      BY <1>0, <1>2, <1>3, <1>4 DEF DirOfFact
    <2> QED BY <1>0, <2>1, <2>2 DEF InsertUser
  <1>7. dirF' = [dirF EXCEPT ![n] = Dir!Registered(call[t])]
    BY <1>0, <1>1, <1>5, <1>6 DEF dirF, Registered, Dir!Registered
  <1>8. phaseF[t] = "pending" /\ phaseF' = [phaseF EXCEPT ![t] = "done"]
    BY <1>0, <1>1, <1>2 DEF phaseF, PhaseOf, Writing
  <1>9. ret' = [ret EXCEPT ![t] = Dir!NoAnswer]
    BY <1>0, <1>1, <1>2 DEF NoAnswerYet, NoAnswer, Dir!NoAnswer
  <1> QED BY <1>0, <1>1, <1>2, <1>7, <1>8, <1>9 DEF Dir!Apply, Dir!Finish, dirF, phaseF

\* ... and with the others what it has already done.
LEMMA RefineFill ==
    ASSUME StoreInv, StoreInv', NEW t \in Threads, SetPassword(t) \/ SetIslogin(t)
    PROVE  UNCHANGED Dir!dirVars
  <1> USE DEF StoreInv, StoreTypeOK
  <1>0. PICK n \in Names : n = call[t].name
    BY CallArguments DEF SetPassword, SetIslogin, In
  <1>1. Writing(t)
    BY DEF SetPassword, SetIslogin, In, Writing
  <1>2. /\ call' = call /\ ret' = ret /\ ub' = ub /\ Writing(t)'
        /\ \A o \in Threads : o # t => at'[o] = at[o]
    BY <1>0, <1>1 DEF SetPassword, SetIslogin, Writing
  <1>3. \A o \in Threads : o # t => ~Writing(o) /\ ~Writing(o)'
    BY <1>0, <1>1, <1>2, AloneInside DEF ControlInv, Inside, Locks, Alone, Writing
  <1>4. DirOfFact /\ DirOfFact'
    BY DirOfIs, DirOfIsNext DEF ControlInv
  <1>5. DirOf(n)' = Registered(call[t]) /\ DirOf(n) = Registered(call[t])
    BY <1>0, <1>1, <1>2, <1>4 DEF DirOfFact, Registered
  <1>6. \A m \in Names \ {n} : DirOf(m)' = DirOf(m)
    <2> SUFFICES ASSUME NEW m \in Names, m # n PROVE DirOf(m)' = DirOf(m)
      OBVIOUS
    <2>1. DirOf(m) = users[m]
      BY <1>0, <1>3, <1>4 DEF DirOfFact
    <2>2. DirOf(m)' = users'[m]
      BY <1>0, <1>2, <1>3, <1>4 DEF DirOfFact
    <2> QED BY <1>0, <2>1, <2>2 DEF SetPassword, SetIslogin
  <1>7. dirF' = dirF
    BY <1>0, <1>5, <1>6 DEF dirF
  <1>8. phaseF' = phaseF
    BY <1>0, <1>1, <1>2 DEF phaseF, PhaseOf, Writing
  <1> QED BY <1>0, <1>2, <1>7, <1>8 DEF Dir!dirVars, dirF, phaseF

\* The last access of addUser() makes the entry what the directory already has.
LEMMA RefineFilled ==
    ASSUME StoreInv, StoreInv', NEW t \in Threads, SetSocketFd(t)
    PROVE  UNCHANGED Dir!dirVars
  <1> USE DEF StoreInv, StoreTypeOK
  <1>0. PICK n \in Names : n = call[t].name
    BY CallArguments DEF SetSocketFd, In
  <1>1. Writing(t) /\ at[t] = "setSocketFd"
    BY DEF SetSocketFd, In, Writing
  <1>2. /\ call' = call /\ ub' = ub /\ ~Writing(t)' /\ ret' = [ret EXCEPT ![t] = NoAnswer]
        /\ at' = [at EXCEPT ![t] = "returned"]
    BY <1>0, <1>1 DEF SetSocketFd, Leave, Writing
  <1>3. \A o \in Threads : (o # t => ~Writing(o)) /\ ~Writing(o)'
    BY <1>0, <1>1, <1>2, AloneInside DEF ControlInv, Inside, Locks, Alone, Writing
  <1>4. DirOfFact /\ DirOfFact'
    BY DirOfIs, DirOfIsNext DEF ControlInv
  <1>5. DirOf(n) = Registered(call[t])
    BY <1>0, <1>1, <1>4 DEF DirOfFact
  <1>6. \A m \in Names : DirOf(m)' = users'[m]
    BY <1>3, <1>4 DEF DirOfFact
  <1>7. users'[n] = Registered(call[t])
    <2>1. /\ users[n] \in User /\ users[n].password = call[t].password
          /\ users[n].islogin = FALSE /\ Entry(users, n) = users[n]
      BY <1>0, <1>1, EntryType DEF WrittenSoFar
    <2>2. users'[n] = [users[n] EXCEPT !.socket_fd = call[t].socket_fd]
      BY <1>0, <1>1, <2>1 DEF SetSocketFd
    <2> QED BY <2>1, <2>2 DEF User, Registered
  <1>8. \A m \in Names \ {n} : users'[m] = DirOf(m)
    BY <1>0, <1>3, <1>4 DEF SetSocketFd, DirOfFact
  <1>9. dirF' = dirF
    BY <1>0, <1>5, <1>6, <1>7, <1>8 DEF dirF
  <1>10. phaseF' = phaseF
    BY <1>0, <1>1, <1>2 DEF phaseF, PhaseOf, Writing
  <1>11. ret' = ret
    BY <1>0, <1>1, <1>2 DEF NoAnswerYet
  <1> QED BY <1>0, <1>2, <1>9, <1>10, <1>11 DEF Dir!dirVars, dirF, phaseF

\* A method other than addUser() takes effect with the access it returns after.
LEMMA LeaveFinishes ==
    ASSUME StoreInv, NEW t \in Threads, NEW a, Inside(t), ~Writing(t), Leave(t, a)
    PROVE  phaseF[t] = "pending" /\ Dir!Finish(t, dirF', a)
  <1> USE DEF StoreInv, StoreTypeOK
  <1>1. phaseF[t] = "pending"
    BY DEF Inside, phaseF, PhaseOf
  <1>2. phaseF' = [phaseF EXCEPT ![t] = "done"]
    BY DEF Leave, phaseF, PhaseOf, Writing
  <1> QED BY <1>1, <1>2 DEF Dir!Finish, dirF, phaseF, Leave

\* What a method that locks reads in the table is what the directory has.
LEMMA LockedReads ==
    ASSUME StoreInv, NEW t \in Threads, NEW n \in Names,
           Inside(t), Locks(call[t].kind), ~Writing(t)
    PROVE  dirF[n] = users[n]
  <1>1. Alone(t)
    BY AloneInside DEF StoreInv, ControlInv
  <1>2. DirOfFact
    BY DirOfIs DEF StoreInv, ControlInv
  <1> QED BY <1>1, <1>2 DEF dirF, DirOfFact, Alone

\* The methods that read, and the comparison of loginUser(): either the call
\* takes effect, or nothing the directory shows changes.
LEMMA RefineRead ==
    ASSUME StoreInv, StoreInv', NEW t \in Threads,
           HasUser(t) \/ IsLogin(t) \/ GetUser(t) \/ CheckPassword(t)
    PROVE  Dir!Apply(t) \/ UNCHANGED Dir!dirVars
  <1> USE DEF StoreInv, StoreTypeOK
  <1>0. PICK n \in Names : n = call[t].name
    BY CallArguments DEF HasUser, IsLogin, GetUser, CheckPassword, In
  <1>1. /\ ~ub /\ at[t] = "in" /\ users' = users /\ call' = call
        /\ call[t].kind \in {"hasUser", "isLogin", "getUser", "loginUser"}
    BY DEF HasUser, IsLogin, GetUser, CheckPassword, In, Leave
  <1>2. Inside(t) /\ Locks(call[t].kind) /\ ~Writing(t)
    BY <1>1 DEF Inside, Locks, Writing
  <1>3. dirF[n] = users[n]
    BY <1>2, LockedReads
  <1>4. ASSUME \/ at' = [at EXCEPT ![t] = "returned"]
               \/ at' = [at EXCEPT ![t] = "passwordMatched"]
        PROVE  dirF' = dirF
    <2>1. \A o \in Threads : Writing(o)' <=> Writing(o)
      BY <1>1, <1>4 DEF Writing
    <2> QED BY <2>1, <1>1, DirOfSame DEF ControlInv, dirF
  <1>5. ASSUME NEW a, Leave(t, a)
        PROVE  phaseF[t] = "pending" /\ Dir!Finish(t, dirF, a)
    <2>1. dirF' = dirF
      BY <1>4, <1>5 DEF Leave
    <2>2. phaseF[t] = "pending" /\ Dir!Finish(t, dirF', a)
      BY <1>2, <1>5, LeaveFinishes
    <2> QED BY <2>1, <2>2
  <1>6. CASE HasUser(t)
    <2>1. Leave(t, Flag(dirF[n] # NoUser)) /\ call[t].kind = "hasUser"
      BY <1>0, <1>3, <1>6 DEF HasUser, In
    <2> QED BY <1>0, <1>1, <1>5, <2>1 DEF Dir!Apply, dirF, phaseF, Flag, Dir!Flag
  <1>7. CASE GetUser(t)
    <2>1. Leave(t, [ok |-> dirF[n] # NoUser, user |-> dirF[n]]) /\ call[t].kind = "getUser"
      BY <1>0, <1>3, <1>7 DEF GetUser, In
    <2> QED BY <1>0, <1>1, <1>5, <2>1 DEF Dir!Apply, dirF, phaseF
  <1>8. CASE IsLogin(t)
    <2>1. call[t].kind = "isLogin"
      BY <1>8 DEF IsLogin, In
    <2>2. CASE users[n] = NoUser
      <3>1. Leave(t, Flag(FALSE)) /\ dirF[n] = NoUser
        BY <1>0, <1>3, <1>8, <2>2 DEF IsLogin
      <3> QED BY <1>0, <1>1, <1>5, <2>1, <3>1 DEF Dir!Apply, dirF, phaseF, Flag, Dir!Flag
    <2>3. CASE users[n] # NoUser
      <3>1. PICK b \in BoolRead(users[n].islogin) : Leave(t, Flag(b))
        BY <1>0, <1>8, <2>3 DEF IsLogin
      <3>2. b \in Dir!BoolRead(dirF[n].islogin) /\ dirF[n] # NoUser
        BY <1>3, <2>3 DEF BoolRead, Dir!BoolRead
      <3>3. phaseF[t] = "pending" /\ Dir!Finish(t, dirF, Dir!Flag(b))
        BY <1>5, <3>1 DEF Flag, Dir!Flag
      <3> QED BY <1>0, <1>1, <2>1, <3>2, <3>3 DEF Dir!Apply, dirF, phaseF
    <2> QED BY <2>2, <2>3
  <1>9. CASE CheckPassword(t)
    <2>1. call[t].kind = "loginUser"
      BY <1>9 DEF CheckPassword, In
    <2>2. CASE Leave(t, Flag(FALSE)) /\ ~PasswordMatches(t)
      <3>1. ~Dir!Authentic(n, call[t].password)
        BY <1>0, <1>3, <2>2 DEF PasswordMatches, Dir!Authentic, dirF
      <3> QED BY <1>0, <1>1, <1>5, <2>1, <2>2, <3>1
              DEF Dir!Apply, dirF, phaseF, Flag, Dir!Flag
    <2>3. CASE at' = [at EXCEPT ![t] = "passwordMatched"] /\ UNCHANGED <<users, mtx, call, ret, ub>>
      <3>1. phaseF' = phaseF
        BY <1>1, <2>1, <2>3 DEF phaseF, PhaseOf, Writing
      <3> QED BY <1>4, <2>3, <3>1 DEF Dir!dirVars, dirF, phaseF
    <2> QED BY <1>9, <2>2, <2>3 DEF CheckPassword
  <1> QED BY <1>6, <1>7, <1>8, <1>9

\* The write of loginUser().
LEMMA RefineLogin ==
    ASSUME StoreInv, StoreInv', NEW t \in Threads, SetLoggedIn(t)
    PROVE  Dir!Apply(t)
  <1> USE DEF StoreInv, StoreTypeOK
  <1>0. PICK n \in Names : n = call[t].name
    BY CallArguments DEF SetLoggedIn, In
  <1>1. /\ ~ub /\ at[t] = "passwordMatched" /\ call[t].kind = "loginUser"
        /\ Leave(t, Flag(TRUE))
    BY DEF SetLoggedIn, In
  <1>2. Inside(t) /\ Locks(call[t].kind) /\ ~Writing(t)
    BY <1>1 DEF Inside, Locks, Writing
  <1>3. \A m \in Names : dirF[m] = users[m]
    BY <1>2, LockedReads
  <1>4. \A o \in Threads : ~Writing(o)'
    BY <1>1, <1>2, AloneInside DEF ControlInv, Alone, Writing, Leave
  <1>5. DirOfFact'
    BY DirOfIsNext DEF ControlInv
  <1>6. dirF' = [m \in Names |-> users'[m]]
    BY <1>4, <1>5 DEF dirF, DirOfFact
  <1>7. users[n] # NoUser /\ users[n].password = call[t].password
    BY <1>0, <1>1 DEF MatchIsCurrent, PasswordMatches
  <1>8. users' = [users EXCEPT ![n] = [users[n] EXCEPT !.islogin = TRUE]]
    BY <1>0, <1>7 DEF SetLoggedIn, Entry
  <1>9. dirF' = [dirF EXCEPT ![n] = [dirF[n] EXCEPT !.islogin = TRUE]]
    BY <1>3, <1>6, <1>8 DEF dirF
  <1>10. phaseF[t] = "pending" /\ Dir!Finish(t, dirF', Flag(TRUE))
    BY <1>1, <1>2, LeaveFinishes
  <1>11. Dir!Authentic(n, call[t].password)
    BY <1>3, <1>7 DEF Dir!Authentic, dirF
  <1> QED
    BY <1>0, <1>1, <1>9, <1>10, <1>11 DEF Dir!Apply, dirF, phaseF, Flag, Dir!Flag

\* The first access of logOutUser(): a user appears, if there was none.
LEMMA RefineFindOrInsert ==
    ASSUME StoreInv, StoreInv', NEW t \in Threads, FindOrInsert(t)
    PROVE  Dir!Appear(t) \/ UNCHANGED Dir!dirVars
  <1> USE DEF StoreInv, StoreTypeOK
  <1>0. PICK n \in Names : n = call[t].name
    BY CallArguments DEF FindOrInsert, In
  <1>1. /\ ~ub /\ at[t] = "in" /\ call[t].kind = "logOutUser"
        /\ call' = call /\ ret' = ret /\ ub' = ub
        /\ at' = [at EXCEPT ![t] = "clearFlag"]
        /\ users' = [users EXCEPT ![n] = Entry(users, n)]
    BY <1>0 DEF FindOrInsert, In
  <1>2. \A o \in Threads : Writing(o)' <=> Writing(o)
    BY <1>1 DEF Writing
  <1>3. phaseF' = phaseF /\ phaseF[t] = "pending"
    BY <1>1 DEF phaseF, PhaseOf, Writing
  <1>4. CASE users[n] # NoUser
    <2>1. users' = users
      BY <1>1, <1>4 DEF Entry
    <2>2. dirF' = dirF
      BY <1>1, <1>2, <2>1, DirOfSame DEF ControlInv, dirF
    <2> QED BY <1>1, <1>3, <2>2 DEF Dir!dirVars, dirF, phaseF
  <1>5. CASE users[n] = NoUser
    <2>1. DirOfFact /\ DirOfFact'
      BY DirOfIs, DirOfIsNext DEF ControlInv
    <2>2. \A o \in Threads : Writing(o) => call[o].name # n
      BY <1>5 DEF WrittenSoFar
    <2>3. DirOf(n) = NoUser /\ DirOf(n)' = Dir!DefaultUser
      BY <1>1, <1>2, <1>5, <2>1, <2>2 DEF DirOfFact, Entry, DefaultUser, Dir!DefaultUser
    <2>4. \A m \in Names \ {n} : DirOf(m)' = DirOf(m)
      <3> SUFFICES ASSUME NEW m \in Names, m # n PROVE DirOf(m)' = DirOf(m)
        OBVIOUS
      <3>1. CASE \E o \in Threads : Writing(o) /\ call[o].name = m
        <4>1. PICK o \in Threads : Writing(o) /\ call[o].name = m
          BY <3>1
        <4>2. DirOf(m) = Registered(call[o]) /\ DirOf(m)' = Registered(call[o])
          BY <1>1, <1>2, <2>1, <4>1 DEF DirOfFact, Registered
        <4> QED BY <4>2
      <3>2. CASE \A o \in Threads : ~(Writing(o) /\ call[o].name = m)
        BY <1>1, <1>2, <2>1, <3>2 DEF DirOfFact
      <3> QED BY <3>1, <3>2
    <2>5. dirF[n] = NoUser /\ dirF' = [dirF EXCEPT ![n] = Dir!DefaultUser]
      BY <2>3, <2>4 DEF dirF
    <2> QED BY <1>0, <1>1, <1>3, <2>5 DEF Dir!Appear, dirF, phaseF
  <1> QED BY <1>4, <1>5

\* The second: beside a registration of the same name it changes nothing the
\* directory can see.
LEMMA RefineClearFlag ==
    ASSUME StoreInv, StoreInv', NEW t \in Threads, ClearFlag(t)
    PROVE  Dir!Apply(t)
  <1> USE DEF StoreInv, StoreTypeOK
  <1>0. PICK n \in Names : n = call[t].name
    BY CallArguments DEF ClearFlag, In
  <1>1. /\ ~ub /\ at[t] = "clearFlag" /\ call[t].kind = "logOutUser"
        /\ Leave(t, NoAnswer)
    BY DEF ClearFlag, In
  <1>2. Inside(t) /\ ~Writing(t)
    BY <1>1 DEF Inside, Writing
  <1>3. call' = call /\ \A o \in Threads : Writing(o)' <=> Writing(o)
    BY <1>1 DEF Leave, Writing
  <1>4. DirOfFact /\ DirOfFact'
    BY DirOfIs, DirOfIsNext DEF ControlInv
  <1>5. \A m \in Names \ {n} : DirOf(m)' = DirOf(m)
    <2> SUFFICES ASSUME NEW m \in Names, m # n PROVE DirOf(m)' = DirOf(m)
      OBVIOUS
    <2>1. users'[m] = users[m]
      BY <1>0 DEF ClearFlag
    <2>2. CASE \E o \in Threads : Writing(o) /\ call[o].name = m
      <3>1. PICK o \in Threads : Writing(o) /\ call[o].name = m
        BY <2>2
      <3>2. DirOf(m) = Registered(call[o]) /\ DirOf(m)' = Registered(call[o])
        BY <1>3, <1>4, <3>1 DEF DirOfFact, Registered
      <3> QED BY <3>2
    <2>3. CASE \A o \in Threads : ~(Writing(o) /\ call[o].name = m)
      BY <1>3, <1>4, <2>1, <2>3 DEF DirOfFact
    <2> QED BY <2>2, <2>3
  <1>6. DirOf(n)' = [Dir!Entry(dirF, n) EXCEPT !.islogin = FALSE]
    <2>1. CASE \E o \in Threads : Writing(o) /\ call[o].name = n
      <3>1. PICK o \in Threads : Writing(o) /\ call[o].name = n
        BY <2>1
      <3>2. DirOf(n) = Registered(call[o]) /\ DirOf(n)' = Registered(call[o])
        BY <1>3, <1>4, <3>1 DEF DirOfFact, Registered
      <3>3. Registered(call[o]) \in User /\ Registered(call[o]) # NoUser
        <4>1. call[o].password \in Passwords /\ call[o].socket_fd \in SocketFds
          BY <3>1, CallArguments DEF Writing
        <4>2. Registered(call[o]) \in User
          BY <4>1 DEF Registered, User
        <4> QED BY <4>2, NoUserAssumption
      <3>4. Dir!Entry(dirF, n) = Registered(call[o])
        BY <3>2, <3>3 DEF Dir!Entry, dirF
      <3>5. [Registered(call[o]) EXCEPT !.islogin = FALSE] = Registered(call[o])
        <4>1. \A r \in User : r.islogin = FALSE => [r EXCEPT !.islogin = FALSE] = r
          BY DEF User
        <4>2. Registered(call[o]).islogin = FALSE
          BY DEF Registered
        <4> QED BY <3>3, <4>1, <4>2
      <3> QED BY <3>2, <3>4, <3>5
    <2>2. CASE \A o \in Threads : ~(Writing(o) /\ call[o].name = n)
      <3>0. users[n] # NoUser
        BY <1>0, <1>1 DEF ClearsAnEntry
      <3>1. DirOf(n) = users[n] /\ DirOf(n)' = users'[n]
        BY <1>3, <1>4, <2>2 DEF DirOfFact
      <3>2. users'[n] = [Entry(users, n) EXCEPT !.islogin = FALSE]
        BY <1>0, <3>0, EntryType DEF ClearFlag
      <3>3. Dir!Entry(dirF, n) = Entry(users, n)
        BY <3>1 DEF Dir!Entry, Entry, dirF, DefaultUser, Dir!DefaultUser
      <3> QED BY <3>1, <3>2, <3>3
    <2> QED BY <2>1, <2>2
  <1>7. dirF' = [dirF EXCEPT ![n] = [Dir!Entry(dirF, n) EXCEPT !.islogin = FALSE]]
    BY <1>5, <1>6 DEF dirF
  <1>8. phaseF[t] = "pending" /\ Dir!Finish(t, dirF', NoAnswer)
    BY <1>1, <1>2, LeaveFinishes
  <1> QED
    BY <1>0, <1>1, <1>7, <1>8 DEF Dir!Apply, dirF, phaseF, NoAnswer, Dir!NoAnswer

\* UserStore.cpp implements the directory: for any number of threads, every
\* call appears to happen at one moment between its start and its return, up
\* to the ghost a logOutUser() lets appear before its flag is cleared and to the
\* corruption that only a logOutUser() beside another call can cause.
THEOREM StoreRefinement == StoreSpec => ImplementsDirectory
  <1>1. StoreInv /\ StoreInv' /\ [StoreNext]_storeVars => [Dir!DirNext]_(Dir!dirVars)
    <2> SUFFICES ASSUME StoreInv, StoreInv', [StoreNext]_storeVars
                 PROVE  Dir!DirNext \/ UNCHANGED Dir!dirVars
      OBVIOUS
    <2>1. ASSUME NEW t \in Threads, NEW c \in Calls, ~ub, Invoke(t, c)
          PROVE  Dir!DirNext
      <3>1. c \in Dir!Calls
        BY DEF Calls, AddUserCalls, LoginUserCalls, NameCalls,
               Dir!Calls, Dir!AddUserCalls, Dir!LoginUserCalls, Dir!NameCalls
      <3> QED BY <2>1, <3>1, RefineInvoke DEF Dir!DirNext
    <2>2. ASSUME NEW t \in Threads, ~ub, Resume(t)
          PROVE  Dir!DirNext
      BY <2>2, RefineResume DEF Dir!DirNext
    <2>3. ASSUME NEW t \in Threads, Enter(t)
          PROVE  UNCHANGED Dir!dirVars
      BY <2>3, RefineEnter
    <2>4. ASSUME NEW t \in Threads, Body(t)
          PROVE  Dir!Apply(t) \/ Dir!Appear(t) \/ UNCHANGED Dir!dirVars
      BY <2>4, RefineInsert, RefineFill, RefineFilled, RefineRead, RefineLogin,
         RefineFindOrInsert, RefineClearFlag
      DEF Body
    <2>5. CASE Corrupt
      BY <2>5, RefineCorrupt DEF Dir!DirNext
    <2>6. CASE UNCHANGED storeVars
      <3> UNCHANGED <<users, mtx, call, at, ret, ub>>
        BY <2>6 DEF storeVars
      <3>1. \A o \in Threads : (Writing(o)' <=> Writing(o)) /\ PhaseOf(o)' = PhaseOf(o)
        BY DEF Writing, PhaseOf
      <3>2. dirF' = dirF /\ phaseF' = phaseF
        BY <3>1, DirOfSame DEF StoreInv, ControlInv, dirF, phaseF
      <3> QED BY <3>2 DEF Dir!dirVars, dirF, phaseF
    <2> QED
      BY <2>1, <2>2, <2>3, <2>4, <2>5, <2>6 DEF StoreNext, Dir!DirNext
  <1> QED
    BY <1>1, RefineInit, StoreInvariant, PTL DEF StoreSpec, ImplementsDirectory, Dir!DirSpec

=============================================================================
