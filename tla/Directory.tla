------------------------------ MODULE Directory ------------------------------
(***************************************************************************)
(* What the server's UserStore promises to the handler threads that call   *)
(* it: a directory of users on which every call takes effect in one        *)
(* indivisible step somewhere between its invocation and its return.       *)
(*                                                                         *)
(* logOutUser() takes no lock, and two things make it an exception.        *)
(*  - Of a name the directory does not have, it first lets a user appear   *)
(*    whose flag nobody has assigned (Appear).  Until it goes on to clear  *)
(*    the flag, isLogin() of that name answers anything.                   *)
(*  - In progress beside another call it may corrupt the table (Break);    *)
(*    nothing is promised after that.                                      *)
(***************************************************************************)
EXTENDS Users

VARIABLES
    dir,          \* the directory: Names -> User, or NoUser
    phase,        \* per thread: "idle", "pending" or "done"
    request,      \* per thread: the call it makes
    answer,       \* per thread: what the call returned
    broken        \* TRUE once the table has been corrupted

dirVars == <<dir, phase, request, answer, broken>>

DirTypeOK ==
    /\ dir \in [Names -> User \cup {NoUser}]
    /\ phase \in [Threads -> {"idle", "pending", "done"}]
    /\ request \in [Threads -> Calls \cup {NoCall}]
    /\ answer \in [Threads -> Answers]
    /\ broken \in BOOLEAN

DirInit ==
    /\ dir = [n \in Names |-> NoUser]
    /\ phase = [t \in Threads |-> "idle"]
    /\ request = [t \in Threads |-> NoCall]
    /\ answer = [t \in Threads |-> NoAnswer]
    /\ broken = FALSE

DirCall(t, r) ==
    /\ ~broken
    /\ request' = [request EXCEPT ![t] = r]
    /\ phase[t] \in {"idle", "done"}
    /\ phase' = [phase EXCEPT ![t] = "pending"]
    /\ answer' = [answer EXCEPT ![t] = NoAnswer]
    /\ UNCHANGED <<dir, broken>>

\* The one step in which t's call takes effect, leaving directory d, answer a.
Finish(t, d, a) ==
    /\ dir' = d
    /\ answer' = [answer EXCEPT ![t] = a]
    /\ phase' = [phase EXCEPT ![t] = "done"]
    /\ UNCHANGED <<request, broken>>

Authentic(n, p) == dir[n] # NoUser /\ dir[n].password = p

Apply(t) ==
    LET r == request[t]
        n == request[t].name
    IN  /\ ~broken
        /\ phase[t] = "pending"
        /\ \/ /\ r.kind = "addUser"
              /\ Finish(t, [dir EXCEPT ![n] = Registered(r)], NoAnswer)
           \/ /\ r.kind = "loginUser"
              /\ Authentic(n, r.password)
              /\ Finish(t, [dir EXCEPT ![n] = [dir[n] EXCEPT !.islogin = TRUE]], Flag(TRUE))
           \/ /\ r.kind = "loginUser"
              /\ ~Authentic(n, r.password)
              /\ Finish(t, dir, Flag(FALSE))
           \/ /\ r.kind = "logOutUser"
              /\ Finish(t, [dir EXCEPT ![n] = [Entry(dir, n) EXCEPT !.islogin = FALSE]],
                        NoAnswer)
           \/ /\ r.kind = "hasUser"
              /\ Finish(t, dir, Flag(dir[n] # NoUser))
           \/ /\ r.kind = "isLogin"
              /\ dir[n] = NoUser
              /\ Finish(t, dir, Flag(FALSE))
           \/ /\ r.kind = "isLogin"
              /\ dir[n] # NoUser
              /\ \E b \in BoolRead(dir[n].islogin) : Finish(t, dir, Flag(b))
           \/ /\ r.kind = "getUser"
              /\ Finish(t, dir, [ok |-> dir[n] # NoUser, user |-> dir[n]])

\* The insertion of a logOutUser() that has still to clear the flag.
Appear(t) ==
    /\ ~broken
    /\ phase[t] = "pending"
    /\ request[t].kind = "logOutUser"
    /\ dir[request[t].name] = NoUser
    /\ dir' = [dir EXCEPT ![request[t].name] = DefaultUser]
    /\ UNCHANGED <<phase, request, answer, broken>>

DirReturn(t) ==
    /\ ~broken
    /\ phase[t] = "done"
    /\ phase' = [phase EXCEPT ![t] = "idle"]
    /\ request' = [request EXCEPT ![t] = NoCall]
    /\ answer' = [answer EXCEPT ![t] = NoAnswer]
    /\ UNCHANGED <<dir, broken>>

\* Possible only while a logOutUser() is under way beside another call.
Break ==
    /\ ~broken
    /\ \E t, o \in Threads : /\ t # o
                             /\ phase[t] = "pending"
                             /\ request[t].kind = "logOutUser"
                             /\ phase[o] # "idle"
    /\ broken' = TRUE
    /\ UNCHANGED <<dir, phase, request, answer>>

DirNext ==
    \/ \E t \in Threads : \/ \E r \in Calls : DirCall(t, r)
                          \/ Apply(t) \/ Appear(t)
                          \/ DirReturn(t)
    \/ Break

DirSpec == DirInit /\ [][DirNext]_dirVars

=============================================================================
