-------------------------------- MODULE Users --------------------------------
(***************************************************************************)
(* The data of User.cpp and the calls of UserStore.cpp.                    *)
(*                                                                         *)
(* A User is its password_, islogin_ and socket_fd_.  username_ is left    *)
(* out: it is written and never read, the key of the table is what the     *)
(* code looks users up by.                                                 *)
(***************************************************************************)
CONSTANTS
    Threads,      \* the handler threads that call the store
    NoThread,     \* nobody: the store's mutex is free
    Names,        \* user names, the empty string included
    Passwords,    \* the passwords a handler can receive
    NoPassword,   \* "": password_ of a default constructed User
    SocketFds,    \* the values socket_fd_ is set to
    NoUser,       \* "no such key" in the table
    Uninit        \* an int or bool member that was never assigned

ASSUME ThreadAssumption == NoThread \notin Threads

\* A client reads the password with cin >> password; when that fails it sends
\* an empty one, which is the password of a default constructed User.
ASSUME PasswordAssumption == NoPassword \in Passwords

ASSUME UninitAssumption == Uninit \notin SocketFds /\ Uninit \notin BOOLEAN

User == [password  : Passwords,
         islogin   : BOOLEAN \cup {Uninit},
         socket_fd : SocketFds \cup {Uninit}]

ASSUME NoUserAssumption == NoUser \notin User

\* User() {}: islogin_ and socket_fd_ are left uninitialized.
DefaultUser == [password |-> NoPassword, islogin |-> Uninit, socket_fd |-> Uninit]

\* users[n]: operator[] inserts a default constructed User when n is absent.
Entry(table, n) == IF table[n] = NoUser THEN DefaultUser ELSE table[n]

\* A bool that was never assigned reads as either value.
BoolRead(b) == IF b = Uninit THEN BOOLEAN ELSE {b}

\* User(name, password, false, fd), as every SIGNUP registers it.
Registered(r) == [password |-> r.password, islogin |-> FALSE, socket_fd |-> r.socket_fd]

-----------------------------------------------------------------------------
(* The calls, with the arguments each one takes, and what they return.     *)

AddUserCalls == [kind : {"addUser"}, name : Names, password : Passwords, socket_fd : SocketFds]
LoginUserCalls == [kind : {"loginUser"}, name : Names, password : Passwords]
NameCalls == [kind : {"logOutUser", "hasUser", "isLogin", "getUser"}, name : Names]

Calls == AddUserCalls \cup LoginUserCalls \cup NameCalls

NoCall == [kind |-> "none"]

\* ok is the bool a call returns, user the copy getUser() returns: NoUser when
\* it throws instead.
Answers == [ok : BOOLEAN, user : User \cup {NoUser}]

NoAnswer == [ok |-> FALSE, user |-> NoUser]
Flag(b) == [ok |-> b, user |-> NoUser]

=============================================================================
